---------------------- MODULE ListInterpretationSemantics ----------------------
(***************************************************************************)
(* What a block does with its list before and after the simplification: b  *)
(* is the block, as it was or unrolled.                                    *)
(***************************************************************************)
EXTENDS ListInterpretation, SequencesExt

CONSTANT Trips   (* How often an op of the block may run its region.        *)

ASSUME TripsAssumption == Trips \subseteq Nat

\* How often it does: a loop runs its body as often as it says.
Runs == IF maxTripCount = {} THEN Trips
        ELSE {IF n < 0 THEN 0 ELSE n : n \in maxTripCount}

\* The region that begins with position i of b.
RegionAt(b, i) ==
  LET last == CHOOSE q \in i..Len(b) : /\ \A k \in i..q : b[k].nested
                                       /\ q = Len(b) \/ ~ b[q + 1].nested
  IN  [k \in 1..(last - i + 1) |-> i + k - 1]

\* The ops of b in the order in which they are run.
Trace(b, trips) ==
  FlattenSeq([i \in DOMAIN b |->
    IF ~ b[i].nested THEN <<i>>
    ELSE IF i > 1 /\ b[i - 1].nested THEN <<>>
    ELSE FlattenSeq([t \in 1..trips |-> RegionAt(b, i)])])

\* What an op leaves in the list: "sort" stands for what is not understood.
After(o, list) ==
  LET n == Len(list) IN
  CASE o.kind = "append" -> Append(list, o.el)
    [] o.kind = "insert" ->
         Inserted(list, IF o.idx > n THEN n ELSE IF PositiveDim(o.idx, n) < 0 THEN 0
                        ELSE PositiveDim(o.idx, n), o.el)
    [] o.kind = "set" /\ PositiveDim(o.idx, n) \in 0..(n - 1) ->
         [list EXCEPT ![PositiveDim(o.idx, n) + 1] = o.el]
    [] o.kind = "sort" -> Reverse(list)
    [] OTHER -> list

\* The list that the other list holds at step j of a trace of the block, when ops
\* use lists as use says; -1 if none has been stored.
Stored(trace, use, j) ==
  LET stores == {k \in 1..(j - 1) : block[trace[k]].kind = "store"}
  IN  IF stores = {} THEN -1 ELSE use[trace[CHOOSE k \in stores : \A l \in stores : l <= k]]

\* The lists before each step of a trace of b: lists has what they begin with.
Run(b, trace, use, lists, gone) ==
  LET heap[j \in 1..(Len(trace) + 1)] ==
        IF j = 1 THEN lists
        ELSE LET i == trace[j - 1] IN
             IF i \in gone \/ b[i].kind = "fetch" THEN heap[j - 1]
             ELSE [heap[j - 1] EXCEPT ![use[i]] = After(b[i], @)]
  IN  heap

NoUse(b) == [i \in DOMAIN b |-> 0]
Original(b, trace) == Run(b, trace, NoUse(b), [l \in {0} |-> elements], {})
Rewritten(trace) ==
  Run(block, trace, operand, [l \in 0..Len(literals) |-> IF l = 0 THEN elements ELSE literals[l].contents],
      erased)

Finished == status \in {"rewritten", "refined", "unrefined"} /\ literals # <<>>

\* The appends, insertions and assignments that are still there, the ops that
\* are not understood and all reads find the list as it was, also in a region
\* that is run any number of times, and through a list that it was stored in.
Same(trace) ==
  LET old == Original(block, trace)
      new == Rewritten(trace)
      stored(use, j) == Stored(trace, use, j)
  IN  \A j \in DOMAIN trace :
        LET i == trace[j] IN
        /\ i \notin erased /\ IsUser(i) /\ block[i].kind # "store" => new[j][operand[i]] = old[j][0]
        /\ block[i].kind = "fetch" /\ stored(NoUse(block), j) # -1 =>
             new[j][stored(operand, j)] = old[j][0]

\* A literal is there before it is used.
DefinitionsDominateUses ==
  Finished => \A i \in Op \ erased : operand[i] # 0 => literals[operand[i]].before <= i

\* No mutation the pattern handles is behind one that it does not understand (the
\* rewriting would take a literal that was never computed), and none behind an op
\* that stores the list (which would use a literal made behind it).
Interpretable ==
  \A i, j \in Op : i < j =>
    ~ /\ ~ block[j].nested /\ block[j].kind \in Handled
      /\ block[i].kind = "store" \/ (block[i].kind = "sort" /\ ~ block[i].nested)

\* In these blocks the rewriting is sound whatever the order of the uses,
\* wherever the list is read and whatever stops the interpretation.
ReadersSeeTheSameList ==
  Interpretable =>
    /\ EveryUserHasItsLiteral
    /\ DefinitionsDominateUses
    /\ Finished => \A trips \in Runs : Same(Trace(block, trips))

\* A block with unrolled loops runs the same ops in the same order.
LoopsAreUnrolledFaithfully ==
  status = "match" =>
    \A trips \in Runs :
      LET before == Trace(source, trips)
          after == Trace(block, trips)
      IN  [j \in DOMAIN before |-> source[before[j]].el] = [j \in DOMAIN after |-> block[after[j]].el]

\* What is known of a size is true of the list that the block yields.
RefinedSizesAreRight ==
  status = "refined" /\ Interpretable =>
    \A trips \in Runs :
      LET trace == Trace(source, trips)
          yielded == Original(source, trace)[Len(trace)][0]
      IN  /\ Len(sizes) = Len(yielded)
          /\ \A d \in DOMAIN sizes : sizes[d] \in {Unknown, yielded[d]}
=============================================================================
