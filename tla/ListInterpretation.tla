-------------------------- MODULE ListInterpretation --------------------------
(***************************************************************************)
(* The simplification of shape calculations: loops with a constant number  *)
(* of trips are unrolled (FullyUnrollPrimLoopOp), a list that is built by  *)
(* mutating a prim.ListConstruct is replaced by one literal for every      *)
(* state it goes through (AbstractlyInterpretListOpsWithinABlock), and the *)
(* literal that is yielded in the end refines the sizes of a result        *)
(* (refineShapeCalculateResult).                                           *)
(*                                                                         *)
(* The ops of the block behind the ListConstruct are its positions.  A     *)
(* value is a constant integer.  Loops carry no values: with iterArgs and  *)
(* a negative maxTripCount, FullyUnrollPrimLoopOp looks them up in the     *)
(* mapping of a body that was never cloned, and asserts.                   *)
(***************************************************************************)
EXTENDS Integers, Sequences, FiniteSets

CONSTANTS
  Blocks,      (* The blocks that may have to be simplified.                *)
  Elements,    (* The operands the ListConstruct may have.                  *)
  TripCounts   (* What the ops with regions may be: {n} a loop with the     *)
               (* constant maxTripCount n, {} any other op.                 *)

(***************************************************************************)
(* "append", "insert", "set"  aten.append.t, insert.t and _set_item.t of   *)
(*             the list, with value el and index idx                       *)
(* "store"     aten.append.t of the list to another list                   *)
(* "sort"      an op without an interpretation that may mutate the list    *)
(* "read"      an op that is ReadOnly or has no effect                     *)
(* "fetch"     a read of the list out of the other list; it does not use   *)
(*             the list itself                                             *)
(* An op that is nested is in a region of an op of the block, the same op  *)
(* for neighbours that are nested.                                         *)
(***************************************************************************)
Handled == {"append", "insert", "set", "store"}
OpKind == Handled \cup {"sort", "read", "fetch"}
Mutating == OpKind \ {"read", "fetch"}

OpIR == [kind : OpKind, nested : BOOLEAN, el : Int, idx : Int,
         constant : BOOLEAN,   (* The index is known.                       *)
         used : BOOLEAN]       (* The result has uses.                      *)

ASSUME ListAssumption ==
  /\ Blocks \subseteq Seq(OpIR)
  /\ \A b \in Blocks : b # <<>> /\ b[Len(b)].kind = "read" /\ ~ b[Len(b)].nested
                        (* The terminator, which yields the list.           *)
  /\ Elements \subseteq Seq(Int)
  /\ \A c \in TripCounts : c \subseteq Int /\ \A m, n \in c : m = n

VARIABLES
  source, elements, maxTripCount,
                     (* The ops, the operands of the ListConstruct and the  *)
                     (* loops to begin with, never changed.                 *)
  block,             (* The ops when loops have been unrolled.              *)
  users,             (* allUsers.                                           *)
  next,              (* How many of them have been interpreted, or          *)
                     (* rewritten.                                          *)
  runningList, listLiterals, generatedNewLiteral,
  literals,          (* The new ListConstructs: contents, and the op that   *)
                     (* it is inserted before (0 for the old ListConstruct).*)
  operand,           (* The literal that an op uses, 0 if the old list.     *)
  erased,            (* The ops that are no more.                           *)
  nextLiteral,
  sizes,             (* What is known of the sizes of the result.           *)
  status

vars == <<source, elements, maxTripCount, block, users, next, runningList, listLiterals,
          generatedNewLiteral, literals, operand, erased, nextLiteral, sizes, status>>

-----------------------------------------------------------------------------
Op == 1..Len(block)

\* getParentInBlock.
Parent(i) ==
  IF ~ block[i].nested THEN i
  ELSE CHOOSE p \in 1..i : /\ \A j \in p..i : block[j].nested
                           /\ p = 1 \/ ~ block[p - 1].nested

IsUser(i) == block[i].kind # "fetch"
MutatesList(i) == block[i].kind \in Mutating

\* The users in program order.  Which comes first in one op of the block is
\* decided by the list of uses, whose order means nothing.
Sorted ==
  LET Orders(U) == {s \in [1..Cardinality(U) -> U] : \A j, k \in DOMAIN s : j # k => s[j] # s[k]}
      upTo[p \in 0..Len(block)] ==
        IF p = 0 THEN {<<>>}
        ELSE {s \o t : s \in upTo[p - 1], t \in Orders({i \in Op : IsUser(i) /\ Parent(i) = p})}
  IN  upTo[Len(block)]

\* Mutant: ops that mutate the list in another block are not looked for.
NotTruncated(s) == s

\* Up to the first that mutates the list in another block.
Truncated(s) ==
  LET stop == {j \in DOMAIN s : MutatesList(s[j]) /\ block[s[j]].nested}
  IN  IF stop = {} THEN s
      ELSE SubSeq(s, 1, (CHOOSE j \in stop : \A k \in stop : j <= k) - 1)

Unknown == -1
NotRefined == <<Unknown, Unknown>>

Init ==
  /\ source \in Blocks
  /\ elements \in Elements
  /\ maxTripCount \in TripCounts
  /\ block = source
  /\ users = <<>> /\ next = 1
  /\ runningList = elements /\ listLiterals = <<>> /\ generatedNewLiteral = FALSE
  /\ literals = <<>>
  /\ operand = [i \in Op |-> 0]
  /\ erased = {}
  /\ nextLiteral = 1
  /\ sizes = NotRefined
  /\ status = "match"

\* Mutant: a body is cloned once too often.
UnrolledOnceMore(b, p, q, n) ==
  SubSeq(b, 1, p - 1)
    \o [i \in 1..((n + 1) * (q - p + 1)) |-> [b[p + ((i - 1) % (q - p + 1))] EXCEPT !.nested = FALSE]]
    \o SubSeq(b, q + 1, Len(b))

\* Block b when the loop with the ops p to q has been unrolled n times.
Unrolled(b, p, q, n) ==
  SubSeq(b, 1, p - 1)
    \o [i \in 1..(n * (q - p + 1)) |-> [b[p + ((i - 1) % (q - p + 1))] EXCEPT !.nested = FALSE]]
    \o SubSeq(b, q + 1, Len(b))

\* FullyUnrollPrimLoopOp: bodies are cloned while i < maxTripCount.
UnrollLoop ==
  /\ status = "match"
  /\ \E n \in maxTripCount : \E p \in Op, q \in Op :
       /\ block[p].nested /\ Parent(q) = p
       /\ q = Len(block) \/ ~ block[q + 1].nested
       /\ block' = Unrolled(block, p, q, IF n < 0 THEN 0 ELSE n)
       /\ operand' = [i \in 1..Len(block') |-> 0]
  /\ UNCHANGED <<source, elements, maxTripCount, users, next, runningList, listLiterals,
                 generatedNewLiteral, literals, erased, nextLiteral, sizes, status>>

SortUsers ==
  /\ status = "match"
  /\ \E s \in Sorted : users' = Truncated(s)
  /\ status' = "interpret"
  /\ UNCHANGED <<source, elements, maxTripCount, block, next, runningList, listLiterals, generatedNewLiteral,
                 literals, operand, erased, nextLiteral, sizes>>

-----------------------------------------------------------------------------
Interpreting(kinds) ==
  /\ status = "interpret" /\ next <= Len(users)
  /\ block[users[next]].kind \in kinds

User == block[users[next]]

Interpret(list, isNew) ==
  /\ runningList' = list
  /\ listLiterals' = Append(listLiterals, list)
  /\ generatedNewLiteral' = (generatedNewLiteral \/ isNew)
  /\ next' = next + 1
  /\ UNCHANGED <<source, elements, maxTripCount, block, users, literals, operand, erased, nextLiteral, sizes, status>>

MatchFailure ==
  /\ status' = "failed"
  /\ UNCHANGED <<source, elements, maxTripCount, block, users, next, runningList, listLiterals, generatedNewLiteral,
                 literals, operand, erased, nextLiteral, sizes>>

\* Mutant: a list that is only stored counts as changed.
IsNewAlways(kind) == TRUE
IsNew(kind) == kind # "store"

InterpretAppend ==
  /\ Interpreting({"append", "store"})
  /\ IF User.used THEN MatchFailure
     ELSE Interpret(IF User.kind = "append" THEN Append(runningList, User.el) ELSE runningList,
                    IsNew(User.kind))

\* list.insert(list.begin() + idx, el).
Inserted(list, idx, el) == SubSeq(list, 1, idx) \o <<el>> \o SubSeq(list, idx + 1, Len(list))

InterpretInsert ==
  /\ Interpreting({"insert"})
  /\ IF User.used \/ ~ User.constant \/ User.idx \notin 0..Len(runningList)
     THEN MatchFailure
     ELSE Interpret(Inserted(runningList, User.idx, User.el), IsNew(User.kind))

\* toPositiveDim, isValidDim.
PositiveDim(idx, n) == IF idx < 0 THEN n + idx ELSE idx
IsLegalIndex(o, n) == o.constant /\ PositiveDim(o.idx, n) \in 0..(n - 1)

InterpretSetItem ==
  /\ Interpreting({"set"})
  /\ IF User.used \/ ~ IsLegalIndex(User, Len(runningList))
     THEN MatchFailure
     ELSE Interpret([runningList EXCEPT ![PositiveDim(User.idx, Len(runningList)) + 1] = User.el],
                    IsNew(User.kind))

InterpretRead ==
  /\ Interpreting({"read"})
  /\ next' = next + 1
  /\ UNCHANGED <<source, elements, maxTripCount, block, users, runningList, listLiterals, generatedNewLiteral,
                 literals, operand, erased, nextLiteral, sizes, status>>

\* The users are done, or one cannot be interpreted.
StopInterpreting ==
  /\ status = "interpret"
  /\ next <= Len(users) => User.kind = "sort"
  /\ IF ~ generatedNewLiteral THEN MatchFailure
     ELSE /\ status' = "rewrite"
          /\ next' = 1
          /\ literals' = <<[contents |-> elements, before |-> 0]>>
          /\ UNCHANGED <<source, elements, maxTripCount, block, users, runningList, listLiterals, generatedNewLiteral,
                         operand, erased, nextLiteral, sizes>>

-----------------------------------------------------------------------------
LatestLiteral == Len(literals)

\* A literal is created before an op that has one; the op goes if it is the
\* list that it mutates.
RewriteMutation ==
  /\ status = "rewrite" /\ next <= Len(users)
  /\ User.kind \in Handled
  /\ IF nextLiteral > Len(listLiterals)
     THEN /\ status' = "undefined"
          /\ UNCHANGED <<next, literals, erased, nextLiteral>>
     ELSE /\ literals' = Append(literals, [contents |-> listLiterals[nextLiteral],
                                           before |-> users[next]])
          /\ erased' = IF User.kind = "store" THEN erased ELSE erased \cup {users[next]}
          /\ nextLiteral' = nextLiteral + 1
          /\ next' = next + 1
          /\ UNCHANGED status
  /\ UNCHANGED <<source, elements, maxTripCount, block, users, runningList, listLiterals, generatedNewLiteral,
                 operand, sizes>>

RewriteUse ==
  /\ status = "rewrite" /\ next <= Len(users)
  /\ User.kind \notin Handled
  /\ operand' = [operand EXCEPT ![users[next]] = LatestLiteral]
  /\ next' = next + 1
  /\ UNCHANGED <<source, elements, maxTripCount, block, users, runningList, listLiterals, generatedNewLiteral,
                 literals, erased, nextLiteral, sizes, status>>

\* Mutant: the uses that are left get the old elements.
ReplacedByFirst(i) == IF operand[i] = 0 /\ IsUser(i) THEN 1 ELSE operand[i]

\* Mutant: they get a literal behind the last.
ReplacedByNext(i) == IF operand[i] = 0 /\ IsUser(i) THEN LatestLiteral + 1 ELSE operand[i]

ReplacedOperand(i) == IF operand[i] = 0 /\ IsUser(i) THEN LatestLiteral ELSE operand[i]

ReplaceOp ==
  /\ status = "rewrite" /\ next > Len(users)
  /\ operand' = [i \in Op |-> ReplacedOperand(i)]
  /\ status' = "rewritten"
  /\ UNCHANGED <<source, elements, maxTripCount, block, users, next, runningList, listLiterals, generatedNewLiteral,
                 literals, erased, nextLiteral, sizes>>

-----------------------------------------------------------------------------
\* The list that is yielded: the last op of the block is the yield.
Yielded == operand[Len(block)]
YieldedContents == IF Yielded = 0 THEN elements ELSE literals[Yielded].contents
UsersOfYielded == {i \in Op \ erased : IsUser(i) /\ operand[i] = Yielded /\ MutatesList(i)}

\* Mutant: an index that is not known changes nothing.
ClobberedIfLegal(i, n) ==
  IF IsLegalIndex(block[i], n) THEN {PositiveDim(block[i].idx, n) + 1} ELSE {}

\* The elements that an op may change without changing the size.
Clobbered(i, n) ==
  IF IsLegalIndex(block[i], n) THEN {PositiveDim(block[i].idx, n) + 1} ELSE 1..n

\* refineShapeCalculateResult.
RefineShape ==
  /\ status \in {"rewritten", "failed"}
  /\ IF \A i \in UsersOfYielded : block[i].kind = "set"
     THEN LET n == Len(YieldedContents)
              clobbered == UNION {Clobbered(i, n) : i \in UsersOfYielded}
          IN  /\ sizes' = [d \in 1..n |-> IF d \in clobbered THEN Unknown ELSE YieldedContents[d]]
              /\ status' = "refined"
     ELSE status' = "unrefined" /\ UNCHANGED sizes
  /\ UNCHANGED <<source, elements, maxTripCount, block, users, next, runningList, listLiterals, generatedNewLiteral,
                 literals, operand, erased, nextLiteral>>

Done == status \in {"refined", "unrefined", "undefined"} /\ UNCHANGED vars

Next ==
  \/ UnrollLoop \/ SortUsers \/ InterpretAppend \/ InterpretInsert \/ InterpretSetItem \/ InterpretRead
  \/ StopInterpreting \/ RewriteMutation \/ RewriteUse \/ ReplaceOp \/ RefineShape \/ Done

Spec == Init /\ [][Next]_vars

-----------------------------------------------------------------------------
\* The vectors of the pattern hold lists of integers and the users of the list.
TypeOK ==
  /\ \A j \in DOMAIN users : users[j] \in Op /\ IsUser(users[j])
  /\ next \in 1..(Len(users) + 1)
  /\ \A l \in DOMAIN listLiterals : listLiterals[l] \in Seq(Int)
  /\ runningList \in Seq(Int) /\ generatedNewLiteral \in BOOLEAN
  /\ \A k \in DOMAIN literals : literals[k] \in [contents : Seq(Int), before : 0..Len(block)]
  /\ operand \in [Op -> 0..Len(literals)]
  /\ erased \subseteq Op
  /\ nextLiteral \in 1..(Len(listLiterals) + 1)
  /\ sizes \in Seq(Int)
  /\ status \in {"match", "interpret", "rewrite", "rewritten", "failed", "refined",
                 "unrefined", "undefined"}

\* Every op that is rewritten finds the literal it is given.  "Rewrite all
\* users to use the appropriate list literals."
EveryUserHasItsLiteral == status # "undefined"

\* A rewriting removes an op that mutates the list, so that the greedy driver,
\* which has no limit here, comes to an end.
RewritingMakesProgress == status = "rewritten" => erased # {}
=============================================================================
