----------------------------- MODULE MCConverter -----------------------------
EXTENDS Converter

CONSTANTS EUR, USD

\* Two versions of the rates that differ in both directions.
TwoRates ==
  [v \in 1..2 |-> [c \in {EUR, USD} |-> [d \in {EUR, USD} |->
     CASE c = d -> 0
       [] c = EUR /\ d = USD -> v
       [] c = USD /\ d = EUR -> 3 - v]]]

OneRate == [v \in 1..1 |-> TwoRates[2]]

\* Bound of the liveness run, an ACTION_CONSTRAINT: the timer ticks while no
\* amount was typed yet, and none is typed after it. Only typing and ticking are
\* cut, which need not happen in FairSpec.
NoAmountAfterTick ==
  /\ group' > 1 => value' = 0
  /\ group' > group /\ group # 0 =>
       /\ amount = [c \in Currency |-> SeedAmount] /\ text = [c \in Currency |-> 0] /\ ~spent
       /\ \A n \in open : order[n].value = 0 /\ order[n].shown = 0
=============================================================================
