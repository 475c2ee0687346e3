--------------------- MODULE InlineGlobalSlotsSemantics ---------------------
(***************************************************************************)
(* What a module computes, before and after torch-inline-global-slots.     *)
(*                                                                         *)
(* Objects are mutable; a value denotes the set of objects reachable from  *)
(* it, and an object's contents are abstracted to the number of mutations  *)
(* it has seen.  The initializer runs once, then the functions run Rounds  *)
(* times in the order of the module, as successive calls of an importer's  *)
(* forward would.                                                          *)
(***************************************************************************)
EXTENDS InlineGlobalSlots, Sequences

CONSTANT Rounds      (* How many times the functions are called.           *)

ASSUME RoundsAssumption == Rounds \in Nat

\* An object is known by the call and the op that created it and by the op it
\* is a copy of.
Obj == (0 .. Rounds) \X Op \X Op

\* Before the initializer runs: what values and slots hold, what the slots were
\* initialized with, the sets of objects that were mutated, and what ops observed.
Start == [objs |-> [v \in Value |-> {}], slots |-> [s \in Slot |-> {}],
          initial |-> [s \in Slot |-> {}], mutated |-> <<>>, log |-> <<>>]

\* Objects op o can reach through its operands.
Reached(m, st, o) == UNION {st.objs[v] : v \in m.ops[o].args}

\* An int, a bool, a string... has no contents to change.
Immutable(m, x) == m.ops[x[3]].results \subseteq m.trivial

Mutations(st, x) == Cardinality({i \in DOMAIN st.mutated : x \in st.mutated[i]})

\* What op o can observe of its operands: where each object came from and
\* what has been done to it.
Observed(m, st, o) ==
  {<<x[3], Mutations(st, x)>> : x \in Reached(m, st, o)}

\* What a value of an immutable type reaches is immutable.
Bind(m, st, results, objs) ==
  [st EXCEPT !.objs = [v \in Value |->
     IF v \notin results THEN @[v]
     ELSE IF v \in m.trivial THEN {x \in objs : Immutable(m, x)}
     ELSE objs]]

InitialValues(m, s) == {v \in Value : <<s, v>> \in m.initial}

\* A read of slot s: the slot's objects, or fresh copies made by the slice the
\* pass cloned in front of the read, which computes what the initializer did.
ReadSlot(m, inlined, st, round, o, s) ==
  IF s \in inlined THEN {<<round, o, x[3]>> : x \in st.initial[s]} ELSE st.slots[s]

\* The effect of op o, in the given call of the functions.
Execute(m, inlined, st, round, o) ==
  LET op      == m.ops[o]
      new     == {<<round, o, o>>}
      reached == Reached(m, st, o)
      logged  == [st EXCEPT !.log = Append(@, <<o, Observed(m, st, o)>>)]
  IN CASE op.kind = "pure" /\ op.forwards = {} ->
            Bind(m, st, op.results, reached \cup new)
       [] op.kind = "pure" /\ op.forwards # {} ->
            Bind(m, st, op.forwards, reached)
       [] op.kind = "value" -> Bind(m, logged, op.results, new)
       [] op.kind = "effect" ->
            Bind(m, [logged EXCEPT !.mutated = Append(@, {x \in reached : ~ Immutable(m, x)})],
                 op.results, reached \cup new)
       [] op.kind = "init" ->
            LET first == [s \in Slot |-> UNION {st.objs[v] : v \in InitialValues(m, s)}]
            IN  [st EXCEPT !.slots = first, !.initial = first]
       [] op.kind = "set" ->
            [st EXCEPT !.slots = [s \in Slot |->
               IF s \in op.sym THEN reached ELSE @[s]]]
       [] op.kind = "get" ->
            Bind(m, st, op.results,
                 UNION {ReadSlot(m, inlined, st, round, o, s) : s \in op.sym})
       [] OTHER -> st

\* The ops of the initializer: its terminator and what feeds it.
InitializerOps(m) ==
  {o \in Op : m.ops[o].kind = "init"}
    \cup UNION {BackwardSlice(m, p[2]) : p \in m.initial}

\* One call: the ops of S in the order of the module.
CallOf(m, inlined, st, round, S) ==
  LET after[o \in 0 .. NumOps] ==
        IF o = 0 THEN st
        ELSE IF o \in S THEN Execute(m, inlined, after[o - 1], round, o)
        ELSE after[o - 1]
  IN  after[NumOps]

\* The state after a run: the initializer, then the functions Rounds times.
Run(m, inlined) ==
  LET after[r \in 0 .. Rounds] ==
        IF r = 0 THEN CallOf(m, inlined, Start, 0, InitializerOps(m))
        ELSE CallOf(m, inlined, after[r - 1], r, Op \ InitializerOps(m))
  IN  after[Rounds]

-----------------------------------------------------------------------------
NoValueLeavesARegion(m) == \A o \in Op : m.ops[o].forwards = {}

\* What GlobalSlotModuleInitializerOp's verifier makes sure of: each slot has one
\* initial value, an operand of the terminator, and the initializer reads no slot.
InitializerIsVerified(m) ==
  /\ \A p, q \in m.initial : p[1] = q[1] => p = q
  /\ \A o \in Op : m.ops[o].kind = "init" => \A p \in m.initial : p[2] \in m.ops[o].args
  /\ \A o \in InitializerOps(m) : m.ops[o].kind # "get"

\* Inlining is invisible: with every inlined slot replaced by private copies of
\* its initial value, every op of every call observes what it observed before.
\* Modules that yield a value from a torch.prim.If are left out.
InliningPreservesBehaviour ==
  phase = "done" /\ NoValueLeavesARegion(module) =>
    Run(module, safeToInline).log = Run(module, {}).log

\* "The value cannot be mutated by the program": no object an inlined slot starts
\* with is mutated, through any alias, by the program that is being compiled.
InlinedObjectsAreUnmutated ==
  phase = "done" =>
    LET run == Run(module, {})
    IN  \A s \in safeToInline : \A x \in run.initial[s] : Mutations(run, x) = 0
=============================================================================
