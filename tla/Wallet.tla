------------------------------- MODULE Wallet -------------------------------
(***************************************************************************)
(* What the converter promises about money, without the network, the       *)
(* screen or the database: balances that are opened once, orders that the  *)
(* user confirms one at a time, and exchanges, each of which consumes one  *)
(* confirmed order, moves at most what is there and credits the amount     *)
(* times some rate.  An order may also end without moving anything.        *)
(***************************************************************************)
EXTENDS Integers

CONSTANTS
  Currency,
  SeedAmount,   (* the opening balance of every currency                   *)
  MaxAmount,    (* bound: the largest amount an order may move             *)
  Rates         (* the rates an exchange may use                           *)

VARIABLES
  opened,       (* the account exists                                      *)
  balance,      (* what each currency holds                                *)
  confirmed,    (* orders confirmed so far; the last one's number          *)
  open          (* orders confirmed and not yet settled                    *)

walletVars == <<opened, balance, confirmed, open>>

Init ==
  /\ opened = FALSE
  /\ balance = [c \in Currency |-> 0]
  /\ confirmed = 0
  /\ open = {}

\* An amount leaves `from' and amount * rate reaches `to'.
Move(b, from, to, amount, rate) ==
  LET debited == [b EXCEPT ![from] = @ - amount]
  IN  [debited EXCEPT ![to] = @ + amount * rate]

OpenAccount ==
  /\ ~opened
  /\ opened' = TRUE
  /\ balance' = [c \in Currency |-> SeedAmount]
  /\ UNCHANGED <<confirmed, open>>

Confirm ==
  /\ opened
  /\ confirmed' = confirmed + 1
  /\ open' = open \cup {confirmed + 1}
  /\ UNCHANGED <<opened, balance>>

Exchange(n, from, to, amount, rate) ==
  /\ n \in open
  /\ amount <= balance[from]
  /\ balance' = Move(balance, from, to, amount, rate)
  /\ open' = open \ {n}
  /\ UNCHANGED <<opened, confirmed>>

\* A refusal or a failed request settles one order; a crash settles them all.
Cancel(S) ==
  /\ open' = open \ S
  /\ UNCHANGED <<opened, balance, confirmed>>

Next ==
  \/ OpenAccount
  \/ Confirm
  \/ \E n \in open, from, to \in Currency, amount \in 1..MaxAmount, rate \in Rates :
       Exchange(n, from, to, amount, rate)
  \/ \E S \in {{n} : n \in open} \cup {open} : Cancel(S)

Spec == Init /\ [][Next]_walletVars

\* No exchange takes more than the currency holds.
NoOverdraft == \A c \in Currency : balance[c] >= 0

=============================================================================
