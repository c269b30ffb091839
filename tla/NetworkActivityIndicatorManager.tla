------------------- MODULE NetworkActivityIndicatorManager -------------------
(***************************************************************************)
(* The status bar's network spinner and the global counter that decides    *)
(* when it turns.  loadingCount is declared as a POINTER to NSUInteger, so *)
(* ++ and -- move it by the size of an NSUInteger and not by one.  The     *)
(* module has no next-state relation of its own: its operations are calls  *)
(* that RateListService makes inside its own steps.                        *)
(***************************************************************************)
EXTENDS Naturals

CONSTANT PointerStep        (* sizeof(NSUInteger): 4 on armv7, 8 on arm64  *)

ASSUME PointerStepAssumption == PointerStep \in {4, 8}

VARIABLES
  loadingCount,             (* the pointer, read as a number               *)
  indicatorVisible          (* networkActivityIndicatorVisible             *)

indicatorVars == <<loadingCount, indicatorVisible>>

IndicatorInit ==
  /\ loadingCount = 0
  /\ indicatorVisible = FALSE

\* n calls of networkOperationStarted in a row.
networkOperationsStarted(n) ==
  /\ loadingCount' = loadingCount + n * PointerStep
  /\ indicatorVisible' = (indicatorVisible \/ (loadingCount = 0 /\ n > 0))

\* Mutant: the counter goes down by one, not by the size of what it points to.
networkOperationFinishedByOne ==
  LET left == IF loadingCount > 0 THEN loadingCount - 1 ELSE 0 IN
  /\ loadingCount' = left
  /\ indicatorVisible' = (indicatorVisible /\ left # 0)

networkOperationFinished ==
  LET left == IF loadingCount > 0 THEN loadingCount - PointerStep ELSE 0 IN
  /\ loadingCount' = left
  /\ indicatorVisible' = (indicatorVisible /\ left # 0)

=============================================================================
