------------------------- MODULE OptimisticAnalysis -------------------------
(***************************************************************************)
(* What an optimistic dataflow analysis promises, whatever the order in    *)
(* which it visits the program: it starts with every anchor assumed safe,  *)
(* only ever gives that assumption up, gives it up only where the least    *)
(* solution requires it, and reports nothing before all of the least       *)
(* solution has been found.                                                *)
(***************************************************************************)
CONSTANT Anchor      \* the program constructs that carry a state

VARIABLES
  tainted,           \* the least solution of the program being analysed
  unsafe,            \* the anchors found unsafe so far
  reported           \* has the analysis handed its result to the pass?

Init ==
  /\ tainted \in SUBSET Anchor
  /\ unsafe = {}
  /\ reported = FALSE

\* Some anchors, all of them in the least solution, turn out to be unsafe.
Discover ==
  /\ ~ reported
  /\ unsafe \subseteq unsafe'
  /\ unsafe' \subseteq tainted
  /\ UNCHANGED <<tainted, reported>>

\* The result is complete and is handed over.
Report ==
  /\ ~ reported
  /\ unsafe = tainted
  /\ reported' = TRUE
  /\ UNCHANGED <<tainted, unsafe>>

vars == <<tainted, unsafe, reported>>

Next == Discover \/ Report

Spec == Init /\ [][Next]_vars
=============================================================================
