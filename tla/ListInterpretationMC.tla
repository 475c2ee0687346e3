------------------------ MODULE ListInterpretationMC ------------------------
(***************************************************************************)
(* Blocks of up to four ops and the yield.                                 *)
(***************************************************************************)
EXTENDS ListInterpretationSemantics

Plain == [kind |-> "read", nested |-> FALSE, el |-> 0, idx |-> 0, constant |-> TRUE, used |-> FALSE]

Ops ==
  {[Plain EXCEPT !.kind = k] : k \in {"append", "store", "sort", "read", "fetch"}}
  \cup {[Plain EXCEPT !.kind = k, !.nested = TRUE] : k \in {"append", "read", "sort", "set"}}
  \cup {[Plain EXCEPT !.kind = "insert", !.idx = x] : x \in {0, 2}}
  \cup {[Plain EXCEPT !.kind = "set", !.idx = x] : x \in {0, -1}}
  \cup {[Plain EXCEPT !.kind = "set", !.constant = FALSE], [Plain EXCEPT !.kind = "append", !.used = TRUE]}

\* Every op has a value of its own.
Block(s) == [i \in 1..(Len(s) + 1) |-> IF i > Len(s) THEN Plain ELSE [s[i] EXCEPT !.el = i]]

\* With four ops there are fewer kinds.
FewOps ==
  {[Plain EXCEPT !.kind = k] : k \in {"append", "fetch"}}
  \cup {[Plain EXCEPT !.kind = k, !.nested = TRUE] : k \in {"append", "read"}}
  \cup {[Plain EXCEPT !.kind = "insert", !.idx = 1], [Plain EXCEPT !.kind = "set", !.idx = -2]}

ShortBlocks == {Block(s) : s \in UNION {[1..n -> Ops] : n \in 1..3} \cup [1..4 -> FewOps]}

NoneOrTwo == {<<>>, <<100, 101>>}

AnyTrips == 0..2

\* Also a loop that counts to less than nothing.
AnyTripCount == {{}, {-1}, {0}, {2}}
=============================================================================
