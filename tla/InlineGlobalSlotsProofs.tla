----------------------- MODULE InlineGlobalSlotsProofs -----------------------
(***************************************************************************)
(* Proofs about InlineGlobalSlots for every set of slots, values and       *)
(* modules.  The worklist algorithm computes the least solution of the     *)
(* transfer function in every order of visits, provided slots are declared *)
(* before they are used; and inlining what that solution allows changes    *)
(* nothing that an op can observe.                                         *)
(***************************************************************************)
EXTENDS InlineGlobalSlotsSemantics, FiniteSetTheorems, WellFoundedInduction, TLAPS

\* The transfer function is monotone: more unsafe anchors, fewer safe values.
LEMMA TransferMonotone ==
  ASSUME NEW m, NEW v, NEW X, NEW Y, X \subseteq Y, IsValueSafe(m, v, Y)
  PROVE  IsValueSafe(m, v, X)
BY DEF IsValueSafe, UseIsSafe

\* The parts of a module have their types.
LEMMA ModuleParts ==
  ASSUME NEW m \in ModuleIR, NEW o \in Op
  PROVE  /\ m.ops[o].results \in SUBSET Value
         /\ m.ops[o].args \in SUBSET Value
         /\ m.ops[o].sym \in SUBSET Slot
         /\ m.public \in SUBSET Slot
         /\ m.initial \in SUBSET (Slot \X Value)
BY DEF ModuleIR, OpIR

\* Only anchors are read at a use, only anchor-op pairs become dependencies.
LEMMA ReadsType ==
  ASSUME NEW m \in ModuleIR, NEW o \in Op, NEW bad
  PROVE  ReadsOf(m, o, bad) \subseteq Anchor \X Op
<1>1. ASSUME NEW v, NEW u \in Uses(m, v)
      PROVE  UseReads(m, v, u) \subseteq Anchor
  BY <1>1, ModuleParts DEF UseReads, Uses, Anchor
<1>2. \A v : Examined(m, v, bad) \subseteq Uses(m, v)
  BY DEF Examined
<1>3. QED
  BY <1>1, <1>2 DEF ReadsOf

\* A visit that starts from a well-typed state ends in one.
LEMMA VisitType ==
  ASSUME NEW m \in ModuleIR, NEW o \in Op, NEW bad \in SUBSET Anchor
  PROVE  /\ AfterVisit(m, o, bad) \in SUBSET Anchor
         /\ BeforeVisit(m, o, bad) \in SUBSET Anchor
BY ModuleParts DEF AfterVisit, BeforeVisit, Anchor

LEMMA InitialType == Init => TypeOK
BY ModulesAssumption DEF Init, TypeOK

\* Every step keeps every variable in its type.
LEMMA StepType == TypeOK /\ [Next]_vars => TypeOK'
<1> SUFFICES ASSUME TypeOK, [Next]_vars PROVE TypeOK'
  OBVIOUS
<1> USE ModulesAssumption
<1>1. ASSUME NEW o \in Op, NEW bad \in SUBSET Anchor,
             NEW pending \in SUBSET Op, Visit(o, bad, pending)
      PROVE  /\ unsafe' \in SUBSET Anchor
             /\ dependents' \in SUBSET (Anchor \X Op)
             /\ worklist' \in SUBSET Op
  BY <1>1, VisitType, ReadsType DEF Visit, TypeOK
<1>2. CASE InitializeOp
  <2>1. at \in Op /\ BeforeVisit(module, at, unsafe) \in SUBSET Anchor
    BY <1>2, VisitType DEF InitializeOp, TypeOK
  <2>2. Visit(at, BeforeVisit(module, at, unsafe), worklist)
    BY <1>2 DEF InitializeOp
  <2>3. /\ unsafe' \in SUBSET Anchor
        /\ dependents' \in SUBSET (Anchor \X Op)
        /\ worklist' \in SUBSET Op
    BY <1>1, <2>1, <2>2 DEF TypeOK
  <2>4. at' \in 1 .. NumOps + 1
    BY <1>2, <2>1 DEF InitializeOp, Op
  <2>5. QED
    BY <1>2, <2>3, <2>4 DEF InitializeOp, TypeOK
<1>3. CASE StartSolver
  BY <1>3 DEF StartSolver, TypeOK
<1>4. ASSUME NEW o \in Op, SolverStep(o) PROVE TypeOK'
  <2>1. Visit(o, unsafe, worklist \ {o})
    BY <1>4 DEF SolverStep
  <2>2. /\ unsafe' \in SUBSET Anchor
        /\ dependents' \in SUBSET (Anchor \X Op)
        /\ worklist' \in SUBSET Op
    BY <1>1, <2>1 DEF TypeOK
  <2>3. QED
    BY <1>4, <2>2 DEF SolverStep, TypeOK
<1>5. CASE InlineSafeSlots
  BY <1>5 DEF InlineSafeSlots, InlinableSlots, TypeOK
<1>6. CASE UNCHANGED vars
  BY <1>6 DEF vars, TypeOK
<1>7. QED
  BY <1>2, <1>3, <1>4, <1>5, <1>6 DEF Next

\* The pass keeps its state well typed.
THEOREM TypeCorrect == Spec => []TypeOK
BY InitialType, StepType, PTL DEF Spec
-----------------------------------------------------------------------------
(* Precision: nothing outside the least solution is ever given up.         *)

\* A visit that starts inside a consistent assignment X stays inside it.
LEMMA VisitWithin ==
  ASSUME NEW m \in ModuleIR, NEW o \in Op, NEW X \in SUBSET Anchor, Closed(m, X),
         NEW bad \in SUBSET X
  PROVE  AfterVisit(m, o, bad) \subseteq X /\ BeforeVisit(m, o, bad) \subseteq X
<1>1. \A v \in m.ops[o].results : ~ IsValueSafe(m, v, bad) => v \in X
  BY TransferMonotone DEF Closed
<1>2. AfterVisit(m, o, bad) \subseteq X
  BY <1>1 DEF AfterVisit, Closed
<1>3. BeforeVisit(m, o, bad) \subseteq X
  BY DEF BeforeVisit, Closed
<1>4. QED
  BY <1>2, <1>3

\* One step never leaves a consistent assignment.
LEMMA StepWithin ==
  ASSUME TypeOK, [Next]_vars, NEW X \in SUBSET Anchor, Closed(module, X),
         unsafe \subseteq X
  PROVE  unsafe' \subseteq X
<1>1. CASE InitializeOp
  <2>1. BeforeVisit(module, at, unsafe) \in SUBSET X
    BY <1>1, VisitWithin DEF InitializeOp, TypeOK
  <2>2. QED
    BY <1>1, <2>1, VisitWithin DEF InitializeOp, Visit, TypeOK
<1>2. ASSUME NEW o \in Op, SolverStep(o) PROVE unsafe' \subseteq X
  BY <1>2, VisitWithin DEF SolverStep, Visit, TypeOK
<1>3. QED
  BY <1>1, <1>2 DEF Next, vars, StartSolver, InlineSafeSlots

\* The module is never changed by its analysis.
LEMMA ModuleFrozen == [Next]_vars => module' = module
BY DEF Next, vars, InitializeOp, StartSolver, SolverStep, InlineSafeSlots

LEMMA TaintedDef ==
  ASSUME NEW m, NEW a
  PROVE  a \in Tainted(m) <=>
           a \in Anchor /\ \A X \in SUBSET Anchor : Closed(m, X) => a \in X
BY DEF Tainted

\* No value and no slot is declared unsafe unless every consistent assignment
\* declares it unsafe: the pass gives up no inlining the transfer function
\* would allow.
THEOREM Precision == Spec => []OnlyTaintedIsUnsafe
<1>1. Init => OnlyTaintedIsUnsafe
  BY DEF Init, OnlyTaintedIsUnsafe
<1>2. ASSUME TypeOK, TypeOK', OnlyTaintedIsUnsafe, [Next]_vars
      PROVE  OnlyTaintedIsUnsafe'
  <2> SUFFICES ASSUME NEW a \in unsafe' PROVE a \in Tainted(module)
    BY <1>2, ModuleFrozen DEF OnlyTaintedIsUnsafe
  <2>1. a \in Anchor
    BY <1>2 DEF TypeOK
  <2>2. ASSUME NEW X \in SUBSET Anchor, Closed(module, X) PROVE a \in X
    <3>1. unsafe \subseteq X
      BY <1>2, <2>2, TaintedDef DEF OnlyTaintedIsUnsafe
    <3>2. QED
      BY <1>2, <2>2, <3>1, StepWithin
  <2>3. QED
    BY <2>1, <2>2, TaintedDef
<1>3. QED
  BY <1>1, <1>2, TypeCorrect, PTL DEF Spec

-----------------------------------------------------------------------------
(* Soundness: the inductive invariant of the worklist algorithm.           *)

WellFormedModules ==
  \A m \in Modules : InSSAForm(m) /\ SlotsDeclaredFirst(m)

Results(o) == module.ops[o].results

\* A value found unsafe is rejected by the transfer function from then on.
UnsafeIsRejected ==
  \A v \in unsafe \cap Value : ~ IsValueSafe(module, v, unsafe)

\* A slot is unsafe because of an op already visited: its public declaration,
\* or a read or a write.
UnsafeSlotHasReason ==
  \A s \in unsafe \cap Slot : \E p \in Op :
    /\ p < at
    /\ s \in module.ops[p].sym
    /\ \/ module.ops[p].kind = "slot" /\ s \in module.public
       \/ module.ops[p].kind \in {"get", "set"}

\* Everything a visited value still held safe depends on is recorded.
DependenciesRecorded ==
  \A o \in Op : \A v \in Results(o) :
    o < at /\ v \notin unsafe /\ v \notin module.trivial =>
      \A u \in Uses(module, v) : \A a \in UseReads(module, v, u) :
        <<a, o>> \in dependents

\* A visited value still held safe is accepted by the transfer function, or its
\* op is waiting to be visited again.
AcceptedOrPending ==
  \A o \in Op : \A v \in Results(o) :
    o < at /\ v \notin unsafe => o \in worklist \/ IsValueSafe(module, v, unsafe)

\* Visited slot, set and get ops have had their say about their slots.
SlotsAccountedFor ==
  \A o \in Op : o < at =>
    /\ module.ops[o].kind = "slot" => module.ops[o].sym \cap module.public \subseteq unsafe
    /\ module.ops[o].kind = "set" => module.ops[o].sym \subseteq unsafe
    /\ module.ops[o].kind = "get" /\ Results(o) \cap unsafe # {}
         => module.ops[o].sym \subseteq unsafe

\* The walk is complete when the solver starts, the worklist empty at the end.
PhasesInOrder ==
  /\ phase # "initialize" => at = NumOps + 1
  /\ phase = "done" => worklist = {}

IInv ==
  /\ TypeOK
  /\ module \in Modules
  /\ UnsafeIsRejected
  /\ UnsafeSlotHasReason
  /\ DependenciesRecorded
  /\ AcceptedOrPending
  /\ SlotsAccountedFor
  /\ PhasesInOrder

\* The effect of one visit that starts with unsafe set bad, bad differing from
\* the current unsafe set in slots only, on every part of the invariant.
LEMMA VisitPreserves ==
  ASSUME IInv, InSSAForm(module), module' = module,
         NEW p \in Op, NEW bad \in SUBSET Anchor, NEW pending \in SUBSET Op,
         Visit(p, bad, pending), worklist \ {p} \subseteq pending,
         unsafe \subseteq bad, bad \cap Value = unsafe \cap Value,
         at' \in Nat, p < at', \A o \in Op : o < at' <=> o < at \/ o = p,
         \A s \in bad \cap Slot : \E q \in Op :
           /\ q < at'
           /\ s \in module.ops[q].sym
           /\ \/ module.ops[q].kind = "slot" /\ s \in module.public
              \/ module.ops[q].kind \in {"get", "set"},
         module.ops[p].kind = "slot" =>
           module.ops[p].sym \cap module.public \subseteq bad,
         module.ops[p].kind = "set" => module.ops[p].sym \subseteq bad
  PROVE  /\ unsafe \subseteq unsafe'
         /\ UnsafeIsRejected'
         /\ UnsafeSlotHasReason'
         /\ DependenciesRecorded'
         /\ AcceptedOrPending'
         /\ SlotsAccountedFor'
<1> DEFINE R == Results(p)
<1>1. module \in ModuleIR /\ R \subseteq Value /\ module.ops[p].sym \subseteq Slot
  BY ModuleParts DEF IInv, TypeOK, Results
<1>2. Slot \cap Value = {}
  BY ModulesAssumption
<1>3. \A v \in R \cap bad : ~ IsValueSafe(module, v, bad)
  <2>1. ASSUME NEW v \in R \cap bad, IsValueSafe(module, v, bad) PROVE FALSE
    <3>1. v \in unsafe \cap Value
      BY <1>1, <2>1
    <3>2. IsValueSafe(module, v, unsafe)
      BY <2>1, TransferMonotone
    <3>3. QED
      BY <3>1, <3>2 DEF IInv, UnsafeIsRejected
  <2>2. QED
    BY <2>1
<1>4. bad \subseteq unsafe'
  BY <1>3 DEF Visit, AfterVisit, Results
<1>5. \A v \in R : v \in unsafe' <=> ~ IsValueSafe(module, v, bad)
  <2>1. \A v \in R : v \notin module.ops[p].sym
    BY <1>1, <1>2
  <2>2. QED
    BY <2>1 DEF Visit, AfterVisit, Results
<1>6. \A a \in unsafe' : a \in bad \/ a \in R
        \/ (module.ops[p].kind = "get" /\ a \in module.ops[p].sym)
  BY DEF Visit, AfterVisit, Results
<1>7. module.ops[p].kind = "get" /\ R \cap unsafe' # {}
        => module.ops[p].sym \subseteq unsafe'
  <2>1. \A v \in R : v \notin module.ops[p].sym
    BY <1>1, <1>2
  <2>2. QED
    BY <2>1 DEF Visit, AfterVisit, Results
<1>8. unsafe \subseteq unsafe'
  BY <1>4
<1>9. UnsafeIsRejected'
  <2>1. ASSUME NEW v \in unsafe' \cap Value PROVE ~ IsValueSafe(module, v, unsafe')
    <3>1. CASE v \in R
      BY <1>4, <1>5, <2>1, <3>1, TransferMonotone
    <3>2. CASE v \notin R
      <4>1. v \in unsafe \cap Value
        BY <1>1, <1>2, <1>6, <2>1, <3>2
      <4>2. QED
        BY <1>8, <4>1, TransferMonotone DEF IInv, UnsafeIsRejected
    <3>3. QED
      BY <3>1, <3>2
  <2>2. QED
    BY <2>1 DEF UnsafeIsRejected
<1>10. UnsafeSlotHasReason'
  <2>1. ASSUME NEW s \in unsafe' \cap Slot
        PROVE  \E q \in Op :
                 /\ q < at'
                 /\ s \in module.ops[q].sym
                 /\ \/ module.ops[q].kind = "slot" /\ s \in module.public
                    \/ module.ops[q].kind \in {"get", "set"}
    BY <1>1, <1>2, <1>6, <2>1
  <2>2. QED
    BY <2>1 DEF UnsafeSlotHasReason
<1>11. DependenciesRecorded'
  <2>1. ASSUME NEW o \in Op, NEW v \in Results(o), o < at', v \notin unsafe',
               v \notin module.trivial,
               NEW u \in Uses(module, v), NEW a \in UseReads(module, v, u)
        PROVE  <<a, o>> \in dependents'
    <3>1. CASE o = p
      <4>1. IsValueSafe(module, v, bad)
        BY <1>5, <2>1, <3>1
      <4>2. u \in Examined(module, v, bad)
        BY <2>1, <4>1 DEF Examined, IsValueSafe
      <4>3. <<a, o>> \in ReadsOf(module, p, bad)
        BY <2>1, <3>1, <4>2 DEF ReadsOf, Results
      <4>4. QED
        BY <4>3 DEF Visit
    <3>2. CASE o # p
      BY <1>8, <2>1, <3>2 DEF IInv, DependenciesRecorded, Visit
    <3>3. QED
      BY <3>1, <3>2
  <2>2. QED
    BY <2>1 DEF DependenciesRecorded, Results
<1>12. AcceptedOrPending'
  <2>1. ASSUME NEW o \in Op, NEW v \in Results(o), o < at', v \notin unsafe',
               ~ IsValueSafe(module, v, unsafe')
        PROVE  o \in worklist'
    <3>1. PICK u \in Uses(module, v) : ~ UseIsSafe(module, v, u, unsafe')
      BY <2>1 DEF IsValueSafe
    <3>2. v \notin module.trivial
      BY <2>1 DEF IsValueSafe
    <3>3. o \in worklist /\ o # p => o \in worklist'
      BY DEF Visit
    <3>4. ASSUME NEW start, start = unsafe \/ start = bad, IsValueSafe(module, v, start)
          PROVE  o \in worklist'
      <4>1. UseIsSafe(module, v, u, start)
        BY <3>1, <3>2, <3>4 DEF IsValueSafe
      <4>2. PICK a \in UseReads(module, v, u) : a \in unsafe' /\ a \notin start
        BY <3>1, <4>1 DEF UseIsSafe
      <4>3. <<a, o>> \in dependents'
        BY <1>11, <2>1, <3>2, <4>2 DEF DependenciesRecorded, Results
      <4>4. a \in Changed(unsafe, bad) \cup Changed(bad, unsafe')
        BY <3>4, <4>2 DEF Changed
      <4>5. QED
        BY <4>3, <4>4 DEF Visit
    <3>5. CASE o = p
      BY <1>5, <2>1, <3>4, <3>5
    <3>6. CASE o # p
      <4>1. o < at /\ v \notin unsafe
        BY <1>8, <2>1, <3>6
      <4>2. o \in worklist \/ IsValueSafe(module, v, unsafe)
        BY <2>1, <4>1 DEF IInv, AcceptedOrPending
      <4>3. QED
        BY <3>3, <3>4, <3>6, <4>2
    <3>7. QED
      BY <3>5, <3>6
  <2>2. QED
    BY <2>1 DEF AcceptedOrPending, Results
<1>13. SlotsAccountedFor'
  <2>1. ASSUME NEW o \in Op, o < at'
        PROVE  /\ module.ops[o].kind = "slot" =>
                    module.ops[o].sym \cap module.public \subseteq unsafe'
               /\ module.ops[o].kind = "set" => module.ops[o].sym \subseteq unsafe'
    BY <1>4, <1>8, <2>1 DEF IInv, SlotsAccountedFor
  <2>2. ASSUME NEW o \in Op, o < at', module.ops[o].kind = "get",
               Results(o) \cap unsafe' # {}
        PROVE  module.ops[o].sym \subseteq unsafe'
    <3>1. CASE o = p
      BY <1>7, <2>2, <3>1
    <3>2. CASE o # p
      <4>1. Results(o) \cap R = {}
        BY <3>2 DEF InSSAForm, Results
      <4>2. Results(o) \subseteq Value
        BY <1>1, ModuleParts DEF Results
      <4>3. Results(o) \cap unsafe # {}
        BY <1>1, <1>2, <1>6, <2>2, <4>1, <4>2
      <4>4. QED
        BY <1>8, <2>2, <3>2, <4>3 DEF IInv, SlotsAccountedFor
    <3>3. QED
      BY <3>1, <3>2
  <2>3. QED
    BY <2>1, <2>2 DEF SlotsAccountedFor, Results
<1>14. QED
  BY <1>8, <1>9, <1>10, <1>11, <1>12, <1>13

LEMMA InitialIInv == Init => IInv
<1> SUFFICES ASSUME Init PROVE IInv
  OBVIOUS
<1>1. TypeOK
  BY InitialType
<1>2. \A o \in Op : ~ (o < at)
  BY DEF Init, Op
<1>3. QED
  BY <1>1, <1>2 DEF Init, IInv, UnsafeIsRejected, UnsafeSlotHasReason,
     DependenciesRecorded, AcceptedOrPending, SlotsAccountedFor, PhasesInOrder

LEMMA InitializePreserves ==
  ASSUME IInv, TypeOK', InitializeOp, WellFormedModules
  PROVE  IInv' /\ unsafe \subseteq unsafe'
<1> DEFINE bad == BeforeVisit(module, at, unsafe)
           sym == module.ops[at].sym
           kind == module.ops[at].kind
<1>1. /\ at \in Op /\ at \in Nat /\ at' = at + 1 /\ module' = module
      /\ Visit(at, bad, worklist)
      /\ phase = "initialize" /\ phase' = phase
  BY DEF InitializeOp, Op
<1>2. /\ module \in ModuleIR /\ sym \subseteq Slot /\ Slot \cap Value = {}
      /\ InSSAForm(module) /\ SlotsDeclaredFirst(module)
  BY <1>1, ModuleParts, ModulesAssumption DEF IInv, TypeOK, WellFormedModules
<1>3. \A s \in unsafe \cap sym : kind = "slot" => s \in module.public
  <2>1. ASSUME NEW s \in unsafe \cap sym, kind = "slot", s \notin module.public
        PROVE  FALSE
    <3>1. PICK p \in Op : /\ p < at
                          /\ s \in module.ops[p].sym
                          /\ module.ops[p].kind \in {"get", "set"}
      BY <1>2, <2>1 DEF IInv, UnsafeSlotHasReason
    <3>2. at < p
      BY <1>1, <1>2, <2>1, <3>1 DEF SlotsDeclaredFirst
    <3>3. QED
      BY <1>1, <3>1, <3>2 DEF Op
  <2>2. QED
    BY <2>1
<1>4. bad \in SUBSET Anchor /\ unsafe \subseteq bad
  BY <1>1, <1>2, <1>3, VisitType DEF BeforeVisit, IInv, TypeOK
<1>5. bad \cap Value = unsafe \cap Value
  BY <1>2, <1>4 DEF BeforeVisit
<1>6. \A o \in Op : o < at' <=> o < at \/ o = at
  BY <1>1 DEF Op
<1>7. ASSUME NEW s \in bad \cap Slot
      PROVE  \E q \in Op :
               /\ q < at'
               /\ s \in module.ops[q].sym
               /\ \/ module.ops[q].kind = "slot" /\ s \in module.public
                  \/ module.ops[q].kind \in {"get", "set"}
  <2>1. CASE s \in unsafe
    BY <1>6, <1>7, <2>1 DEF IInv, UnsafeSlotHasReason
  <2>2. CASE s \notin unsafe
    BY <1>1, <1>6, <1>7, <2>2 DEF BeforeVisit
  <2>3. QED
    BY <2>1, <2>2
<1>8. /\ kind = "slot" => sym \cap module.public \subseteq bad
      /\ kind = "set" => sym \subseteq bad
  BY DEF BeforeVisit
<1>9. /\ unsafe \subseteq unsafe'
      /\ UnsafeIsRejected' /\ UnsafeSlotHasReason' /\ DependenciesRecorded'
      /\ AcceptedOrPending' /\ SlotsAccountedFor'
  <2>1. worklist \in SUBSET Op /\ at' \in Nat /\ at < at'
    BY <1>1 DEF IInv, TypeOK
  <2>2. QED
    BY <1>1, <1>2, <1>4, <1>5, <1>6, <1>7, <1>8, <2>1, VisitPreserves
<1>10. QED
  BY <1>1, <1>9 DEF IInv, PhasesInOrder

LEMMA SolverPreserves ==
  ASSUME IInv, TypeOK', NEW p \in Op, SolverStep(p), WellFormedModules
  PROVE  IInv' /\ unsafe \subseteq unsafe'
<1>1. /\ module' = module /\ at' = at /\ phase = "solve" /\ phase' = phase
      /\ Visit(p, unsafe, worklist \ {p})
  BY DEF SolverStep
<1>2. at = NumOps + 1 /\ at \in Nat /\ NumOps \in Nat
  BY <1>1, ModulesAssumption DEF IInv, PhasesInOrder
<1>3. p < at' /\ \A o \in Op : o < at' <=> o < at \/ o = p
  BY <1>1, <1>2 DEF Op
<1>4. /\ unsafe \in SUBSET Anchor /\ worklist \ {p} \in SUBSET Op
      /\ InSSAForm(module)
  BY DEF IInv, TypeOK, WellFormedModules
<1>5. /\ unsafe \subseteq unsafe'
      /\ UnsafeIsRejected' /\ UnsafeSlotHasReason' /\ DependenciesRecorded'
      /\ AcceptedOrPending' /\ SlotsAccountedFor'
  <2>1. \A s \in unsafe \cap Slot : \E q \in Op :
           /\ q < at'
           /\ s \in module.ops[q].sym
           /\ \/ module.ops[q].kind = "slot" /\ s \in module.public
              \/ module.ops[q].kind \in {"get", "set"}
    BY <1>1 DEF IInv, UnsafeSlotHasReason
  <2>2. /\ module.ops[p].kind = "slot" =>
             module.ops[p].sym \cap module.public \subseteq unsafe
        /\ module.ops[p].kind = "set" => module.ops[p].sym \subseteq unsafe
    BY <1>1, <1>3 DEF IInv, SlotsAccountedFor
  <2>3. QED
    BY <1>1, <1>2, <1>3, <1>4, <2>1, <2>2, VisitPreserves
<1>6. QED
  BY <1>1, <1>2, <1>5 DEF IInv, PhasesInOrder

\* Every step preserves the invariant and gives back nothing.
LEMMA StepIInv ==
  ASSUME IInv, TypeOK', [Next]_vars, WellFormedModules
  PROVE  IInv' /\ unsafe \subseteq unsafe'
<1>1. CASE InitializeOp
  BY <1>1, InitializePreserves
<1>2. ASSUME NEW p \in Op, SolverStep(p) PROVE IInv' /\ unsafe \subseteq unsafe'
  BY <1>2, SolverPreserves
<1> USE DEF IInv, UnsafeIsRejected, UnsafeSlotHasReason, DependenciesRecorded,
        AcceptedOrPending, SlotsAccountedFor, Results
<1>3. CASE StartSolver
  <2>1. at = NumOps + 1
    BY <1>3, ModulesAssumption DEF StartSolver, TypeOK
  <2>2. QED
    BY <1>3, <2>1 DEF StartSolver, PhasesInOrder
<1>4. CASE InlineSafeSlots
  BY <1>4 DEF InlineSafeSlots, PhasesInOrder
<1>5. CASE UNCHANGED vars
  BY <1>5 DEF vars, PhasesInOrder
<1>6. QED
  BY <1>1, <1>2, <1>3, <1>4, <1>5 DEF Next

\* The invariant, at the end of the run, says that the states are consistent.
LEMMA EndIsClosed ==
  ASSUME IInv, at = NumOps + 1, worklist = {}
  PROVE  Closed(module, unsafe)
<1>1. \A o \in Op : o < at
  BY ModulesAssumption DEF Op
<1>2. QED
  BY <1>1 DEF IInv, SlotsAccountedFor, AcceptedOrPending, Closed, Results

THEOREM InvariantHolds ==
  ASSUME WellFormedModules
  PROVE  Spec => []IInv
BY InitialIInv, StepIInv, TypeCorrect, PTL DEF Spec

\* When slots are declared before their uses, the analysis that runs to the end
\* reports exactly the least solution, in every order of visits and for every
\* module: no early return of the transfer function loses a dependency that
\* matters.
THEOREM Fixpoint ==
  ASSUME WellFormedModules
  PROVE  Spec => []FixpointIsLeast
<1>1. IInv /\ OnlyTaintedIsUnsafe => FixpointIsLeast
  <2> SUFFICES ASSUME IInv, OnlyTaintedIsUnsafe, phase = "done"
               PROVE  Tainted(module) \subseteq unsafe
    BY DEF FixpointIsLeast, OnlyTaintedIsUnsafe
  <2>1. at = NumOps + 1 /\ worklist = {}
    BY DEF IInv, PhasesInOrder
  <2>2. Closed(module, unsafe) /\ unsafe \in SUBSET Anchor
    BY <2>1, EndIsClosed DEF IInv, TypeOK
  <2>3. QED
    BY <2>2, TaintedDef
<1>2. QED
  BY <1>1, InvariantHolds, Precision, PTL

\* Under the same proviso the assertion of setSafe never fails: an anchor found
\* unsafe is never declared safe again.
THEOREM Monotonicity ==
  ASSUME WellFormedModules
  PROVE  Spec => NeverSafeAgain
<1>1. IInv /\ TypeOK' /\ [Next]_vars => [unsafe \subseteq unsafe']_vars
  BY StepIInv
<1>2. QED
  BY <1>1, InvariantHolds, TypeCorrect, PTL DEF Spec, NeverSafeAgain

\* The worklist algorithm implements the abstract optimistic analysis: its steps
\* discover members of the least solution, and it reports when it has them all.
THEOREM Refinement ==
  ASSUME WellFormedModules
  PROVE  Spec => ImplementsOptimisticAnalysis
<1>1. Init => Abstract!Init
  BY DEF Init, Abstract!Init, Tainted
<1>2. IInv /\ TypeOK' /\ OnlyTaintedIsUnsafe /\ OnlyTaintedIsUnsafe' /\ [Next]_vars
        => [Abstract!Next]_(Abstract!vars)
  <2> SUFFICES ASSUME IInv, TypeOK', OnlyTaintedIsUnsafe, OnlyTaintedIsUnsafe',
                      [Next]_vars
               PROVE  [Abstract!Next]_(Abstract!vars)
    OBVIOUS
  <2>1. unsafe \subseteq unsafe' /\ unsafe' \subseteq Tainted(module)
          /\ module' = module
    BY StepIInv, ModuleFrozen DEF OnlyTaintedIsUnsafe
  <2>2. CASE phase # "done" /\ phase' # "done"
    BY <2>1, <2>2 DEF Abstract!Next, Abstract!Discover
  <2>3. CASE phase # "done" /\ phase' = "done"
    <3>1. InlineSafeSlots
      BY <2>3 DEF Next, vars, InitializeOp, StartSolver, SolverStep
    <3>2. Closed(module, unsafe) /\ unsafe \in SUBSET Anchor
      BY <3>1, EndIsClosed DEF InlineSafeSlots, IInv, PhasesInOrder, TypeOK
    <3>3. unsafe = Tainted(module)
      BY <3>2, TaintedDef DEF OnlyTaintedIsUnsafe
    <3>4. QED
      BY <2>1, <2>3, <3>1, <3>3
         DEF InlineSafeSlots, Abstract!Next, Abstract!Report
  <2>4. CASE phase = "done"
    BY <2>4 DEF Next, vars, InitializeOp, StartSolver, SolverStep,
       InlineSafeSlots, Abstract!vars
  <2>5. QED
    BY <2>2, <2>3, <2>4
<1>3. QED
  BY <1>1, <1>2, InvariantHolds, TypeCorrect, Precision, PTL
     DEF Spec, ImplementsOptimisticAnalysis, Abstract!Spec

-----------------------------------------------------------------------------
(* Inlining is invisible: the runs before and after it, step by step.      *)

\* What holds for 0 and for the successor of every number for which it holds, holds for all.
LEMMA SetInduction ==
  ASSUME NEW T, 0 \in T, \A n \in Nat : n \in T => n + 1 \in T
  PROVE  Nat \subseteq T
<1> DEFINE R == OpToRel(<, Nat)
           U == Nat \ T
<1>1. SUFFICES ASSUME U # {} PROVE FALSE
  OBVIOUS
<1>2. IsWellFoundedOn(R, Nat)
  BY NatLessThanWellFounded
<1>3. PICK x \in U : \A y \in U : ~ (<<y, x>> \in R)
  <2> HIDE DEF R
  <2> QED BY <1>1, <1>2, WFMin
<1>4. \A y \in Nat : y < x => y \notin U
  BY <1>3 DEF OpToRel
<1>5. x \in Nat \ {0}
  OBVIOUS
<1>6. x - 1 \in Nat /\ x - 1 < x /\ (x - 1) + 1 = x
  BY <1>5
<1> QED BY <1>4, <1>6

\* The states of a run.
RunState ==
  [objs : [Value -> SUBSET Obj], slots : [Slot -> SUBSET Obj], initial : [Slot -> SUBSET Obj],
   mutated : Seq(SUBSET Obj), log : Seq(Op \X SUBSET (Op \X Nat))]

\* The objects that op o gives to its results.
Made(m, inlined, st, round, o) ==
  CASE m.ops[o].kind = "value" -> {<<round, o, o>>}
    [] m.ops[o].kind = "get" -> UNION {ReadSlot(m, inlined, st, round, o, s) : s \in m.ops[o].sym}
    [] OTHER -> Reached(m, st, o) \cup {<<round, o, o>>}

Filtered(m, v, objs) == IF v \in m.trivial THEN {x \in objs : Immutable(m, x)} ELSE objs

FirstObjects(m, st, s) == UNION {st.objs[v] : v \in InitialValues(m, s)}

LEMMA CountIsNat ==
  ASSUME NEW st \in RunState, NEW x
  PROVE  Mutations(st, x) \in Nat
<1>1. Len(st.mutated) \in Nat /\ DOMAIN st.mutated = 1 .. Len(st.mutated)
  BY DEF RunState
<1>2. IsFiniteSet(1 .. Len(st.mutated))
  BY <1>1, FS_Interval
<1>3. {i \in DOMAIN st.mutated : x \in st.mutated[i]} \subseteq 1 .. Len(st.mutated)
  BY <1>1
<1>4. IsFiniteSet({i \in DOMAIN st.mutated : x \in st.mutated[i]})
  BY <1>2, <1>3, FS_Subset
<1> QED BY <1>4, FS_CardinalityType DEF Mutations

LEMMA ObjectParts ==
  ASSUME NEW x \in Obj
  PROVE  x[3] \in Op /\ x = <<x[1], x[2], x[3]>>
BY DEF Obj

LEMMA ObservedType ==
  ASSUME NEW m \in ModuleIR, NEW o \in Op, NEW st \in RunState
  PROVE  Reached(m, st, o) \subseteq Obj /\ Observed(m, st, o) \in SUBSET (Op \X Nat)
<1>1. Reached(m, st, o) \subseteq Obj
  BY ModuleParts DEF Reached, RunState
<1>2. \A x \in Reached(m, st, o) : <<x[3], Mutations(st, x)>> \in Op \X Nat
  BY <1>1, CountIsNat, ObjectParts
<1> QED BY <1>1, <1>2 DEF Observed

\* State e is state st with objects objs given to the values of results.
Bound(m, st, results, objs, e) ==
  /\ e \in RunState
  /\ \A v \in Value : e.objs[v] = IF v \in results THEN Filtered(m, v, objs) ELSE st.objs[v]
  /\ e.slots = st.slots /\ e.initial = st.initial /\ e.mutated = st.mutated /\ e.log = st.log

LEMMA BindIs ==
  ASSUME NEW m, NEW st \in RunState, NEW results, NEW objs \in SUBSET Obj
  PROVE  Bound(m, st, results, objs, Bind(m, st, results, objs))
<1>0. PICK e : e = Bind(m, st, results, objs)
  OBVIOUS
<1>1. PICK f : f = [v \in Value |->
                      IF v \notin results THEN st.objs[v]
                      ELSE IF v \in m.trivial THEN {x \in objs : Immutable(m, x)}
                      ELSE objs]
  OBVIOUS
<1>2. f \in [Value -> SUBSET Obj]
  BY <1>1 DEF RunState
<1>3. e = [st EXCEPT !.objs = f]
  BY <1>0, <1>1 DEF Bind, RunState
<1>4. \A v \in Value : f[v] = IF v \in results THEN Filtered(m, v, objs) ELSE st.objs[v]
  BY <1>1 DEF Filtered
<1> QED BY <1>0, <1>2, <1>3, <1>4 DEF RunState, Bound

LEMMA MadeType ==
  ASSUME NEW m \in ModuleIR, NEW inlined, NEW st \in RunState, NEW round \in 0 .. Rounds, NEW o \in Op
  PROVE  Made(m, inlined, st, round, o) \in SUBSET Obj
<1>1. <<round, o, o>> \in Obj
  BY DEF Obj
<1>2. ASSUME NEW s \in Slot PROVE ReadSlot(m, inlined, st, round, o, s) \subseteq Obj
  <2>1. st.initial[s] \subseteq Obj /\ st.slots[s] \subseteq Obj
    BY DEF RunState
  <2>2. \A x \in st.initial[s] : <<round, o, x[3]>> \in Obj
    BY <2>1, ObjectParts DEF Obj
  <2> QED BY <2>1, <2>2 DEF ReadSlot
<1>3. UNION {ReadSlot(m, inlined, st, round, o, s) : s \in m.ops[o].sym} \subseteq Obj
  BY <1>2, ModuleParts
<1> QED BY <1>1, <1>3, ObservedType DEF Made

\* What a step makes of each part of the state.
Outcome(m, inlined, st, round, o, e) ==
  LET kind == m.ops[o].kind
  IN  /\ e \in RunState
      /\ \A v \in Value :
           e.objs[v] = IF kind \in {"pure", "value", "effect", "get"} /\ v \in m.ops[o].results
                       THEN Filtered(m, v, Made(m, inlined, st, round, o)) ELSE st.objs[v]
      /\ \A s \in Slot :
           /\ e.slots[s] = IF kind = "init" THEN FirstObjects(m, st, s)
                           ELSE IF kind = "set" /\ s \in m.ops[o].sym THEN Reached(m, st, o)
                           ELSE st.slots[s]
           /\ e.initial[s] = IF kind = "init" THEN FirstObjects(m, st, s) ELSE st.initial[s]
      /\ e.mutated = IF kind = "effect"
                     THEN Append(st.mutated, {x \in Reached(m, st, o) : ~ Immutable(m, x)})
                     ELSE st.mutated
      /\ e.log = IF kind \in {"value", "effect"} THEN Append(st.log, <<o, Observed(m, st, o)>>)
                 ELSE st.log

LEMMA ExecuteIs ==
  ASSUME NEW m \in ModuleIR, NoValueLeavesARegion(m), NEW inlined, NEW st \in RunState,
         NEW round \in 0 .. Rounds, NEW o \in Op
  PROVE  Outcome(m, inlined, st, round, o, Execute(m, inlined, st, round, o))
<1>1. PICK e : e = Execute(m, inlined, st, round, o)
  OBVIOUS
<1>2. PICK op : op = m.ops[o]
  OBVIOUS
<1>15. PICK results : results = op.results
  OBVIOUS
<1>3. PICK entry : entry = <<o, Observed(m, st, o)>>
  OBVIOUS
<1>4. PICK logged \in RunState : logged = [st EXCEPT !.log = Append(@, entry)]
  <2>1. entry \in Op \X SUBSET (Op \X Nat)
    BY <1>3, ObservedType
  <2>2. PICK more : more = Append(st.log, entry)
    OBVIOUS
  <2>3. more \in Seq(Op \X SUBSET (Op \X Nat))
    BY <2>1, <2>2 DEF RunState
  <2>4. [st EXCEPT !.log = Append(@, entry)] = [st EXCEPT !.log = more]
    BY <2>2 DEF RunState
  <2> QED BY <2>3, <2>4 DEF RunState
<1>5. /\ logged.log = Append(st.log, entry)
      /\ logged.objs = st.objs /\ logged.slots = st.slots /\ logged.initial = st.initial
      /\ logged.mutated = st.mutated
  BY <1>4 DEF RunState
<1>6. PICK made : made \subseteq Obj /\ made = Made(m, inlined, st, round, o)
  BY MadeType
<1>7. op.forwards = {} /\ op.kind \in Kind
  BY <1>2 DEF NoValueLeavesARegion, ModuleIR, OpIR
<1>8. CASE op.kind = "pure"
  <2>1. e = Bind(m, st, results, made)
    BY <1>1, <1>2, <1>6, <1>7, <1>8, <1>15 DEF Execute, Made
  <2>2. Bound(m, st, results, made, e)
    <3>1. st \in RunState /\ made \in SUBSET Obj
      BY <1>4, <1>6
    <3> QED BY ONLY <2>1, <3>1, BindIs
  <2> QED BY <1>1, <1>2, <1>6, <1>8, <1>15, <2>2 DEF Outcome, Bound
<1>9. CASE op.kind = "value"
  <2>1. e = Bind(m, logged, results, made)
    BY <1>1, <1>2, <1>3, <1>4, <1>6, <1>9, <1>15 DEF Execute, Made
  <2>2. Bound(m, logged, results, made, e)
    <3>1. logged \in RunState /\ made \in SUBSET Obj
      BY <1>4, <1>6
    <3> QED BY ONLY <2>1, <3>1, BindIs
  <2> QED BY <1>1, <1>2, <1>3, <1>5, <1>6, <1>9, <1>15, <2>2 DEF Outcome, Bound
<1>10. CASE op.kind = "effect"
  <2>1. PICK hit : hit = {x \in Reached(m, st, o) : ~ Immutable(m, x)}
    OBVIOUS
  <2>3. hit \in SUBSET Obj
    BY <2>1, ObservedType
  <2>4. PICK more : more = Append(st.mutated, hit)
    OBVIOUS
  <2>5. more \in Seq(SUBSET Obj)
    BY <2>3, <2>4 DEF RunState
  <2>6. [logged EXCEPT !.mutated = Append(@, hit)] = [logged EXCEPT !.mutated = more]
    BY <1>5, <2>4 DEF RunState
  <2>2. PICK st2 \in RunState : st2 = [logged EXCEPT !.mutated = Append(@, hit)] /\ st2 = [logged EXCEPT !.mutated = more]
    BY <2>5, <2>6 DEF RunState
  <2>7. /\ st2.mutated = more /\ st2.log = logged.log
        /\ st2.objs = st.objs /\ st2.slots = st.slots /\ st2.initial = st.initial
    BY <1>5, <2>2 DEF RunState
  <2>8. e = Bind(m, st2, results, made)
    BY <1>1, <1>2, <1>3, <1>4, <1>6, <1>10, <1>15, <2>1, <2>2 DEF Execute, Made
  <2>9. Bound(m, st2, results, made, e)
    <3>1. st2 \in RunState /\ made \in SUBSET Obj
      BY <1>6, <2>2
    <3> QED BY ONLY <2>8, <3>1, BindIs
  <2> QED BY <1>1, <1>2, <1>3, <1>5, <1>6, <1>10, <1>15, <2>1, <2>4, <2>9, <2>7 DEF Outcome, Bound
<1>11. CASE op.kind = "init"
  <2>1. PICK first : first = [s \in Slot |-> UNION {st.objs[v] : v \in InitialValues(m, s)}]
    OBVIOUS
  <2>2. \A s \in Slot : first[s] = FirstObjects(m, st, s)
    BY <2>1 DEF FirstObjects
  <2>3. first \in [Slot -> SUBSET Obj]
    <3>1. \A v \in Value : st.objs[v] \subseteq Obj
      BY DEF RunState
    <3>2. \A s \in Slot : UNION {st.objs[v] : v \in InitialValues(m, s)} \subseteq Obj
      BY <3>1 DEF InitialValues
    <3> QED BY <2>1, <3>2
  <2>4. e = [st EXCEPT !.slots = first, !.initial = first]
    BY <1>1, <1>2, <1>11, <2>1 DEF Execute
  <2>5. /\ e \in RunState /\ e.slots = first /\ e.initial = first /\ e.objs = st.objs
        /\ e.mutated = st.mutated /\ e.log = st.log
    BY <2>3, <2>4 DEF RunState
  <2> QED BY <1>1, <1>2, <1>11, <2>2, <2>5 DEF Outcome
<1>12. CASE op.kind = "set"
  <2>1. PICK slots : slots = [s \in Slot |-> IF s \in op.sym THEN Reached(m, st, o) ELSE st.slots[s]]
    OBVIOUS
  <2>2. slots \in [Slot -> SUBSET Obj]
    BY <2>1, ObservedType DEF RunState
  <2>3. e = [st EXCEPT !.slots = slots]
    BY <1>1, <1>2, <1>12, <2>1 DEF Execute, RunState
  <2>4. /\ e \in RunState /\ e.slots = slots /\ e.initial = st.initial /\ e.objs = st.objs
        /\ e.mutated = st.mutated /\ e.log = st.log
    BY <2>2, <2>3 DEF RunState
  <2> QED BY <1>1, <1>2, <1>12, <2>1, <2>4 DEF Outcome
<1>13. CASE op.kind = "get"
  <2>1. e = Bind(m, st, results, made)
    BY <1>1, <1>2, <1>6, <1>13, <1>15 DEF Execute, Made
  <2>2. Bound(m, st, results, made, e)
    <3>1. st \in RunState /\ made \in SUBSET Obj
      BY <1>4, <1>6
    <3> QED BY ONLY <2>1, <3>1, BindIs
  <2> QED BY <1>1, <1>2, <1>6, <1>13, <1>15, <2>2 DEF Outcome, Bound
<1>14. CASE op.kind \in {"slot", "region"}
  <2>1. e = st
    BY <1>1, <1>2, <1>14 DEF Execute
  <2> QED BY <1>1, <1>2, <1>14, <2>1 DEF Outcome
<1> QED BY <1>1, <1>7, <1>8, <1>9, <1>10, <1>11, <1>12, <1>13, <1>14 DEF Kind

\* f starts with x and takes the steps of F, all of its values being in D.
StepFunctions(L, D) == [1 .. L -> [D -> D]]

Follows(L, D, F, x, f) ==
  f \in [0 .. L -> D] /\ f[0] = x /\ \A n \in 1 .. L : f[n] = F[n][f[n - 1]]

LEMMA Recursion ==
  ASSUME NEW L \in Nat, NEW D, NEW x \in D, NEW F \in StepFunctions(L, D)
  PROVE  \E f : Follows(L, D, F, x, f)
<1>0. F \in [1 .. L -> [D -> D]]
  BY DEF StepFunctions
<1> DEFINE UpTo(n, g) == g[0] = x /\ \A k \in 1 .. L : k <= n => g[k] = F[k][g[k - 1]]
           T == {n \in Nat : \E g \in [0 .. L -> D] : UpTo(n, g)}
<1>1. 0 \in T
  <2> DEFINE g == [k \in 0 .. L |-> x]
  <2>1. g \in [0 .. L -> D] /\ UpTo(0, g)
    OBVIOUS
  <2> HIDE DEF g, UpTo
  <2> QED BY <2>1
<1>2. ASSUME NEW n \in Nat, n \in T PROVE n + 1 \in T
  <2>1. PICK g \in [0 .. L -> D] : UpTo(n, g)
    <3> HIDE DEF UpTo
    <3> QED BY <1>2
  <2>2. CASE n + 1 > L
    <3>1. UpTo(n + 1, g)
      BY <2>1, <2>2
    <3> HIDE DEF UpTo
    <3> QED BY <3>1
  <2>3. CASE n + 1 <= L
    <3> DEFINE next == F[n + 1][g[n]]
               h == [k \in 0 .. L |-> IF k = n + 1 THEN next ELSE g[k]]
    <3>1. n \in 0 .. L /\ n + 1 \in 1 .. L
      BY <2>3
    <3>2. next \in D
      BY <1>0, <3>1
    <3>3. h \in [0 .. L -> D]
      <4> HIDE DEF next
      <4> QED BY <3>2
    <3>4. h[n] = g[n] /\ h[n + 1] = next /\ h[0] = x
      <4>1. UpTo(n, g) => g[0] = x
        OBVIOUS
      <4> HIDE DEF next, UpTo
      <4> QED BY <2>1, <3>1, <4>1
    <3>5. ASSUME NEW k \in 1 .. L, k <= n + 1 PROVE h[k] = F[k][h[k - 1]]
      <4>1. CASE k = n + 1
        <5>1. k - 1 = n
          BY <4>1
        <5> HIDE DEF h
        <5> QED BY <3>4, <4>1, <5>1
      <4>2. CASE k # n + 1
        <5>1. k <= n /\ k - 1 \in 0 .. L /\ k - 1 # n + 1 /\ k \in 0 .. L
          BY <3>5, <4>2
        <5>2. h[k] = g[k] /\ h[k - 1] = g[k - 1]
          <6> HIDE DEF next
          <6> QED BY <4>2, <5>1
        <5>3. g[k] = F[k][g[k - 1]]
          BY <2>1, <5>1
        <5> HIDE DEF h
        <5> QED BY <5>2, <5>3
      <4> QED BY <4>1, <4>2
    <3>6. UpTo(n + 1, h)
      <4> HIDE DEF h
      <4> QED BY <3>4, <3>5
    <3> HIDE DEF UpTo, h
    <3> QED BY <3>3, <3>6
  <2> QED BY <2>2, <2>3
<1>3. L \in T
  <2> HIDE DEF T
  <2> QED BY <1>1, <1>2, SetInduction
<1>4. PICK f \in [0 .. L -> D] : UpTo(L, f)
  <2> HIDE DEF UpTo
  <2> QED BY <1>3
<1>5. f[0] = x /\ \A k \in 1 .. L : f[k] = F[k][f[k - 1]]
  BY <1>4
<1> QED BY <1>5 DEF Follows

\* One op of a call, the ops of which are those of the set ops.
StepOf(m, inlined, st, round, ops, o) ==
  IF o \in ops THEN Execute(m, inlined, st, round, o) ELSE st

\* f goes through a call, op by op.
GoesThrough(m, inlined, st, round, ops, f) ==
  /\ f \in [0 .. NumOps -> RunState]
  /\ f[0] = st
  /\ \A o \in Op : f[o] = StepOf(m, inlined, f[o - 1], round, ops, o)

LEMMA StepOfType ==
  ASSUME NEW m \in ModuleIR, NoValueLeavesARegion(m), NEW inlined, NEW st \in RunState,
         NEW round \in 0 .. Rounds, NEW ops, NEW o \in Op
  PROVE  StepOf(m, inlined, st, round, ops, o) \in RunState
<1>1. Execute(m, inlined, st, round, o) \in RunState
  BY ExecuteIs DEF Outcome
<1> QED BY <1>1 DEF StepOf

LEMMA CallIs ==
  ASSUME NEW m \in ModuleIR, NoValueLeavesARegion(m), NEW inlined, NEW st \in RunState,
         NEW round \in 0 .. Rounds, NEW ops
  PROVE  \E f : /\ GoesThrough(m, inlined, st, round, ops, f)
                /\ CallOf(m, inlined, st, round, ops) = f[NumOps]
<1>0. NumOps \in Nat /\ Op = 1 .. NumOps
  BY ModulesAssumption DEF Op
<1> DEFINE F == [o \in 1 .. NumOps |-> [s \in RunState |-> StepOf(m, inlined, s, round, ops, o)]]
           Is(g) == g = [o \in 0 .. NumOps |->
                           IF o = 0 THEN st
                           ELSE IF o \in ops THEN Execute(m, inlined, g[o - 1], round, o)
                           ELSE g[o - 1]]
<1>1. F \in StepFunctions(NumOps, RunState)
  BY <1>0, StepOfType DEF StepFunctions
<1>2. PICK f : Follows(NumOps, RunState, F, st, f)
  <2> HIDE DEF F
  <2> QED BY <1>0, <1>1, Recursion
<1>12. f \in [0 .. NumOps -> RunState] /\ f[0] = st /\ \A o \in Op : f[o] = F[o][f[o - 1]]
  <2> HIDE DEF F
  <2> QED BY <1>0, <1>2 DEF Follows
<1>3. \A o \in Op : f[o - 1] \in RunState /\ f[o] = StepOf(m, inlined, f[o - 1], round, ops, o)
  <2> SUFFICES ASSUME NEW o \in Op
               PROVE  f[o - 1] \in RunState /\ f[o] = StepOf(m, inlined, f[o - 1], round, ops, o)
    OBVIOUS
  <2>1. o - 1 \in 0 .. NumOps /\ o \in 1 .. NumOps
    BY <1>0
  <2>2. f[o - 1] \in RunState
    BY <1>12, <2>1
  <2>3. F[o][f[o - 1]] = StepOf(m, inlined, f[o - 1], round, ops, o)
    BY <2>1, <2>2
  <2> HIDE DEF F
  <2> QED BY <1>12, <2>2, <2>3
<1>4. Is(f)
  <2>1. ASSUME NEW o \in 0 .. NumOps
        PROVE  f[o] = IF o = 0 THEN st
                      ELSE IF o \in ops THEN Execute(m, inlined, f[o - 1], round, o)
                      ELSE f[o - 1]
    <3>1. o # 0 => o \in Op
      BY <1>0
    <3> HIDE DEF F
    <3> QED BY <1>3, <1>12, <3>1 DEF StepOf
  <2> HIDE DEF F
  <2> QED BY <1>12, <2>1
<1> DEFINE h == CHOOSE g : Is(g)
<1>5. Is(h)
  <2> HIDE DEF Is
  <2> QED BY <1>4
<1>6. CallOf(m, inlined, st, round, ops) = h[NumOps]
  BY DEF CallOf
<1> HIDE DEF h, F
<1>7. h[0] = st /\ \A o \in Op : h[o] = StepOf(m, inlined, h[o - 1], round, ops, o)
  BY <1>0, <1>5 DEF StepOf
<1> DEFINE T == {n \in Nat : n <= NumOps => h[n] = f[n]}
<1>8. 0 \in T
  BY <1>7, <1>12
<1>9. ASSUME NEW n \in Nat, n \in T PROVE n + 1 \in T
  <2>1. n + 1 <= NumOps => n + 1 \in Op /\ n <= NumOps /\ (n + 1) - 1 = n
    BY <1>0
  <2> HIDE DEF Is
  <2> QED BY <1>3, <1>7, <1>9, <2>1
<1>10. NumOps \in T
  <2> HIDE DEF T
  <2> QED BY <1>0, <1>8, <1>9, SetInduction
<1>11. h[NumOps] = f[NumOps]
  BY <1>0, <1>10
<1> QED BY <1>3, <1>6, <1>11, <1>12 DEF GoesThrough

\* The ops that a call runs: those of the initializer first, then those of the functions.
CalledOps(m, r) == IF r = 0 THEN InitializerOps(m) ELSE Op \ InitializerOps(m)

\* f goes through a run, call by call.
RunsThrough(m, inlined, f) ==
  /\ f \in [0 .. Rounds -> RunState]
  /\ f[0] = CallOf(m, inlined, Start, 0, CalledOps(m, 0))
  /\ \A r \in 1 .. Rounds : f[r] = CallOf(m, inlined, f[r - 1], r, CalledOps(m, r))

LEMMA StartType == Start \in RunState
BY DEF Start, RunState

LEMMA CallType ==
  ASSUME NEW m \in ModuleIR, NoValueLeavesARegion(m), NEW inlined, NEW st \in RunState,
         NEW round \in 0 .. Rounds, NEW ops
  PROVE  CallOf(m, inlined, st, round, ops) \in RunState
<1>1. PICK f : /\ GoesThrough(m, inlined, st, round, ops, f)
               /\ CallOf(m, inlined, st, round, ops) = f[NumOps]
  BY CallIs
<1>2. NumOps \in 0 .. NumOps
  BY ModulesAssumption
<1> QED BY <1>1, <1>2 DEF GoesThrough

LEMMA RunIs ==
  ASSUME NEW m \in ModuleIR, NoValueLeavesARegion(m), NEW inlined
  PROVE  \E f : RunsThrough(m, inlined, f) /\ Run(m, inlined) = f[Rounds]
<1>0. Rounds \in Nat /\ 0 \in 0 .. Rounds
  BY RoundsAssumption
<1> DEFINE first == CallOf(m, inlined, Start, 0, InitializerOps(m))
           F == [r \in 1 .. Rounds |->
                   [s \in RunState |-> CallOf(m, inlined, s, r, Op \ InitializerOps(m))]]
           Is(g) == g = [r \in 0 .. Rounds |->
                           IF r = 0 THEN CallOf(m, inlined, Start, 0, InitializerOps(m))
                           ELSE CallOf(m, inlined, g[r - 1], r, Op \ InitializerOps(m))]
<1>1. F \in StepFunctions(Rounds, RunState)
  <2>1. \A r \in 1 .. Rounds : r \in 0 .. Rounds
    BY <1>0
  <2> QED BY <2>1, CallType DEF StepFunctions
<1>2. first \in RunState
  BY <1>0, StartType, CallType
<1>15. PICK f : Follows(Rounds, RunState, F, first, f)
  <2> HIDE DEF F, first
  <2> QED BY <1>0, <1>1, <1>2, Recursion
<1>3. f \in [0 .. Rounds -> RunState] /\ f[0] = first /\ \A r \in 1 .. Rounds : f[r] = F[r][f[r - 1]]
  <2> HIDE DEF F, first
  <2> QED BY <1>15 DEF Follows
<1>4. \A r \in 1 .. Rounds : /\ f[r - 1] \in RunState
                             /\ f[r] = CallOf(m, inlined, f[r - 1], r, Op \ InitializerOps(m))
  <2> SUFFICES ASSUME NEW r \in 1 .. Rounds
               PROVE  /\ f[r - 1] \in RunState
                      /\ f[r] = CallOf(m, inlined, f[r - 1], r, Op \ InitializerOps(m))
    OBVIOUS
  <2>1. r - 1 \in 0 .. Rounds
    BY <1>0
  <2>2. f[r - 1] \in RunState
    BY <1>3, <2>1
  <2>3. F[r][f[r - 1]] = CallOf(m, inlined, f[r - 1], r, Op \ InitializerOps(m))
    BY <2>2
  <2> HIDE DEF F, first
  <2> QED BY <1>3, <2>2, <2>3
<1>5. Is(f)
  <2>1. ASSUME NEW r \in 0 .. Rounds
        PROVE  f[r] = IF r = 0 THEN CallOf(m, inlined, Start, 0, InitializerOps(m))
                      ELSE CallOf(m, inlined, f[r - 1], r, Op \ InitializerOps(m))
    <3>1. r # 0 => r \in 1 .. Rounds
      BY <1>0
    <3> HIDE DEF F
    <3> QED BY <1>3, <1>4, <3>1
  <2> HIDE DEF F
  <2> QED BY <1>3, <2>1
<1> DEFINE h == CHOOSE g : Is(g)
<1>6. Is(h)
  <2> HIDE DEF Is
  <2> QED BY <1>5
<1>7. Run(m, inlined) = h[Rounds]
  BY DEF Run
<1> HIDE DEF h, F
<1>8. /\ h[0] = first
      /\ \A r \in 1 .. Rounds : h[r] = CallOf(m, inlined, h[r - 1], r, Op \ InitializerOps(m))
  <2>1. \A r \in 1 .. Rounds : r \in 0 .. Rounds /\ r # 0
    BY <1>0
  <2> QED BY <1>0, <1>6, <2>1
<1> DEFINE T == {n \in Nat : n <= Rounds => h[n] = f[n]}
<1> HIDE DEF Is, first
<1>9. 0 \in T
  BY <1>3, <1>8
<1>10. ASSUME NEW n \in Nat, n \in T PROVE n + 1 \in T
  <2>1. n + 1 <= Rounds => n + 1 \in 1 .. Rounds /\ n <= Rounds /\ (n + 1) - 1 = n
    BY <1>0
  <2>2. n + 1 <= Rounds => h[n + 1] = f[n + 1]
    BY <1>4, <1>8, <1>10, <2>1
  <2> QED BY <2>2
<1>11. Rounds \in T
  <2> HIDE DEF T
  <2> QED BY <1>0, <1>9, <1>10, SetInduction
<1>12. h[Rounds] = f[Rounds]
  BY <1>0, <1>11
<1>13. f[0] = CallOf(m, inlined, Start, 0, CalledOps(m, 0))
  BY <1>3 DEF first, CalledOps
<1>14. \A r \in 1 .. Rounds : CalledOps(m, r) = Op \ InitializerOps(m)
  BY <1>0 DEF CalledOps
<1> QED BY <1>3, <1>4, <1>7, <1>12, <1>13, <1>14 DEF RunsThrough

\* The ops that the pass clones for the slots of S, and the values they make.
Cloned(m, S) == {o \in Op : \E p \in m.initial : p[1] \in S /\ o \in BackwardSlice(m, p[2])}
ClonedValues(m, S) == {w \in Value : \E p \in m.initial : p[1] \in S /\ w \in SliceValues(m, p[2])}

\* The slots of S may be inlined when X is what is unsafe.
Inlinable(m, S, X) ==
  /\ m \in ModuleIR /\ InSSAForm(m) /\ NoValueLeavesARegion(m) /\ InitializerIsVerified(m)
  /\ Closed(m, X)
  /\ S \subseteq Slot /\ S \cap X = {}
  /\ \A o \in Cloned(m, S) : m.ops[o].results \cap X = {}

\* A mutable object that the clones will have a copy of.
Shielded(m, S, x) == x[3] \in Cloned(m, S) /\ ~ Immutable(m, x)

FromClones(m, S, objs) == \A x \in objs : x[3] \in Cloned(m, S)

ValuesGuarded(m, S, X, st) ==
  \A w \in Value : \A x \in st.objs[w] :
    /\ \E q \in Op : w \in m.ops[q].results
    /\ w \in m.trivial => Immutable(m, x)
    /\ Shielded(m, S, x) => w \notin X

\* Nothing unsafe reaches a shielded object, nothing has mutated one.
Guarded(m, S, X, st) ==
  /\ ValuesGuarded(m, S, X, st)
  /\ \A s \in Slot : \A x \in st.slots[s] : Shielded(m, S, x) => s \notin X
  /\ \A i \in DOMAIN st.mutated : \A x \in st.mutated[i] : x[3] \notin Cloned(m, S)
  /\ \A w \in ClonedValues(m, S) : FromClones(m, S, st.objs[w])
  /\ \A s \in S : FromClones(m, S, st.slots[s]) /\ FromClones(m, S, st.initial[s])

\* The values that the slice of v is made of are closed under operands.
LEMMA SliceIsClosed ==
  ASSUME NEW m \in ModuleIR, NEW v \in Value
  PROVE  /\ v \in SliceValues(m, v)
         /\ \A o \in BackwardSlice(m, v) : m.ops[o].args \subseteq SliceValues(m, v)
<1>1. v \in SliceValues(m, v)
  BY DEF SliceValues
<1>2. ASSUME NEW o \in BackwardSlice(m, v), NEW w \in m.ops[o].args
      PROVE  w \in SliceValues(m, v)
  <2>1. o \in Op /\ w \in Value
    BY <1>2, ModuleParts DEF BackwardSlice
  <2>2. PICK r \in m.ops[o].results : r \in SliceValues(m, v)
    BY <1>2 DEF BackwardSlice
  <2>3. ASSUME NEW Y \in SUBSET Value, v \in Y,
               \A p \in Op : m.ops[p].results \cap Y # {} => m.ops[p].args \subseteq Y
        PROVE  w \in Y
    <3>1. r \in Y
      BY <2>2, <2>3 DEF SliceValues
    <3> QED BY <1>2, <2>1, <2>2, <2>3, <3>1
  <2> QED BY <2>1, <2>3 DEF SliceValues
<1> QED BY <1>1, <1>2

\* Ops that make cloned values are cloned, take cloned values and read no slot.
LEMMA ClonesAreClosed ==
  ASSUME NEW m \in ModuleIR, InitializerIsVerified(m), NEW S, NEW o \in Op,
         m.ops[o].results \cap ClonedValues(m, S) # {}
  PROVE  /\ o \in Cloned(m, S) /\ m.ops[o].args \subseteq ClonedValues(m, S)
         /\ m.ops[o].kind # "get"
<1>1. PICK w \in m.ops[o].results, p \in m.initial : p[1] \in S /\ w \in SliceValues(m, p[2])
  BY DEF ClonedValues
<1>2. p[2] \in Value
  BY ModuleParts
<1>3. o \in BackwardSlice(m, p[2])
  BY <1>1 DEF BackwardSlice
<1>4. o \in Cloned(m, S)
  BY <1>1, <1>3 DEF Cloned
<1>5. m.ops[o].args \subseteq SliceValues(m, p[2])
  BY <1>2, <1>3, SliceIsClosed
<1>6. m.ops[o].args \subseteq ClonedValues(m, S)
  BY <1>1, <1>5, ModuleParts DEF ClonedValues
<1>7. o \in InitializerOps(m)
  BY <1>3 DEF InitializerOps
<1> QED BY <1>4, <1>6, <1>7 DEF InitializerIsVerified

\* A shielded object is only used where the analysis found the use safe.
LEMMA ShieldedUse ==
  ASSUME NEW m, NEW S, NEW X, Inlinable(m, S, X), NEW st, ValuesGuarded(m, S, X, st),
         NEW o \in Op, NEW w \in m.ops[o].args, NEW x \in st.objs[w], Shielded(m, S, x)
  PROVE  UseIsSafe(m, w, o, X)
<1>1. w \in Value
  BY ModuleParts DEF Inlinable
<1>2. PICK q \in Op : w \in m.ops[q].results
  BY <1>1 DEF ValuesGuarded
<1>3. w \notin m.trivial /\ w \notin X
  BY <1>1 DEF ValuesGuarded, Shielded
<1>4. IsValueSafe(m, w, X)
  BY <1>2, <1>3 DEF Inlinable, Closed
<1> QED BY <1>3, <1>4 DEF IsValueSafe, Uses

\* An op that gets hold of a shielded object gives it to safe values only.
LEMMA MadeIsGuarded ==
  ASSUME NEW m, NEW S, NEW X, Inlinable(m, S, X), NEW st, Guarded(m, S, X, st),
         NEW inlined, inlined \in {S, {}}, NEW round, NEW o \in Op,
         m.ops[o].kind \in {"pure", "value", "effect", "get"},
         NEW x \in Made(m, inlined, st, round, o), Shielded(m, S, x)
  PROVE  m.ops[o].results \cap X = {}
<1>1. CASE x = <<round, o, o>>
  <2>1. x[3] = o
    BY <1>1
  <2> QED BY <2>1 DEF Shielded, Inlinable
<1>2. CASE x \in Reached(m, st, o) /\ m.ops[o].kind \in {"pure", "effect"}
  <2>1. PICK w \in m.ops[o].args : x \in st.objs[w]
    BY <1>2 DEF Reached
  <2>2. UseIsSafe(m, w, o, X)
    BY <2>1, ShieldedUse DEF Guarded
  <2> QED BY <1>2, <2>2 DEF UseIsSafe, UseReads
<1>3. CASE m.ops[o].kind = "get"
  <2>1. PICK s \in m.ops[o].sym : x \in ReadSlot(m, inlined, st, round, o, s)
    BY <1>3 DEF Made
  <2>2. s \in Slot
    BY ModuleParts DEF Inlinable
  <2>3. s \notin X
    BY <2>1, <2>2 DEF ReadSlot, Guarded, Inlinable
  <2> QED BY <1>3, <2>1, <2>3 DEF Inlinable, Closed
<1> QED BY <1>1, <1>2, <1>3 DEF Made

LEMMA GuardedStep ==
  ASSUME NEW m, NEW S, NEW X, Inlinable(m, S, X), NEW st \in RunState, Guarded(m, S, X, st),
         NEW inlined, inlined \in {S, {}}, NEW round \in 0 .. Rounds, NEW o \in Op,
         NEW e, Outcome(m, inlined, st, round, o, e)
  PROVE  Guarded(m, S, X, e)
<1> DEFINE kind == m.ops[o].kind
           made == Made(m, inlined, st, round, o)
           binds == kind \in {"pure", "value", "effect", "get"}
<1>0. /\ m \in ModuleIR /\ e \in RunState /\ ValuesGuarded(m, S, X, st)
      /\ \A v \in Value : e.objs[v] = IF binds /\ v \in m.ops[o].results
                                      THEN Filtered(m, v, made) ELSE st.objs[v]
  BY DEF Inlinable, Outcome, Guarded
<1>1. ValuesGuarded(m, S, X, e)
  <2> SUFFICES ASSUME NEW w \in Value, NEW x \in e.objs[w]
               PROVE  /\ \E q \in Op : w \in m.ops[q].results
                      /\ w \in m.trivial => Immutable(m, x)
                      /\ Shielded(m, S, x) => w \notin X
    BY DEF ValuesGuarded
  <2>1. CASE binds /\ w \in m.ops[o].results
    <3>1. x \in made /\ (w \in m.trivial => Immutable(m, x))
      BY <1>0, <2>1 DEF Filtered
    <3>2. Shielded(m, S, x) => m.ops[o].results \cap X = {}
      BY <2>1, <3>1, MadeIsGuarded
    <3> QED BY <2>1, <3>1, <3>2
  <2>2. CASE ~ (binds /\ w \in m.ops[o].results)
    <3>1. x \in st.objs[w]
      BY <1>0, <2>2
    <3> HIDE DEF binds
    <3> QED BY <1>0, <3>1 DEF ValuesGuarded
  <2> QED BY <2>1, <2>2
<1>2. ASSUME NEW s \in Slot, NEW x \in e.slots[s], Shielded(m, S, x) PROVE s \notin X
  <2>1. CASE kind = "init"
    <3>1. x \in FirstObjects(m, st, s)
      BY <1>2, <2>1 DEF Outcome
    <3>2. PICK v \in Value : <<s, v>> \in m.initial /\ x \in st.objs[v]
      BY <3>1 DEF FirstObjects, InitialValues
    <3>3. v \in m.ops[o].args
      <4>1. <<s, v>>[2] = v
        OBVIOUS
      <4> QED BY <2>1, <3>2, <4>1 DEF Inlinable, InitializerIsVerified
    <3>4. UseIsSafe(m, v, o, X)
      BY <1>0, <1>2, <3>2, <3>3, ShieldedUse
    <3> QED BY <2>1, <3>2, <3>4 DEF UseIsSafe, UseReads
  <2>2. CASE kind = "set" /\ s \in m.ops[o].sym
    <3>1. x \in Reached(m, st, o)
      BY <2>2 DEF Outcome
    <3>2. PICK w \in m.ops[o].args : x \in st.objs[w]
      BY <3>1 DEF Reached
    <3>3. UseIsSafe(m, w, o, X)
      BY <1>0, <1>2, <3>2, ShieldedUse
    <3> QED BY <2>2, <3>3 DEF UseIsSafe
  <2>3. CASE kind # "init" /\ ~ (kind = "set" /\ s \in m.ops[o].sym)
    <3>1. x \in st.slots[s]
      BY <1>2, <2>3 DEF Outcome
    <3> QED BY <1>2, <3>1 DEF Guarded
  <2> QED BY <2>1, <2>2, <2>3
<1>3. ASSUME NEW i \in DOMAIN e.mutated, NEW x \in e.mutated[i] PROVE x[3] \notin Cloned(m, S)
  <2>1. CASE kind = "effect"
    <3>1. PICK hit : hit = {y \in Reached(m, st, o) : ~ Immutable(m, y)}
      OBVIOUS
    <3>2. e.mutated = Append(st.mutated, hit) /\ st.mutated \in Seq(SUBSET Obj)
      BY <2>1, <3>1 DEF Outcome, RunState
    <3>3. (i \in DOMAIN st.mutated /\ x \in st.mutated[i]) \/ x \in hit
      BY <3>2, <1>3
    <3>4. ASSUME x \in hit, x[3] \in Cloned(m, S) PROVE FALSE
      <4>1. Shielded(m, S, x) /\ x \in Reached(m, st, o)
        BY <3>1, <3>4 DEF Shielded
      <4>2. PICK w \in m.ops[o].args : x \in st.objs[w]
        BY <4>1 DEF Reached
      <4>3. UseIsSafe(m, w, o, X)
        BY <1>0, <4>1, <4>2, ShieldedUse
      <4> QED BY <2>1, <4>3 DEF UseIsSafe
    <3> QED BY <3>3, <3>4 DEF Guarded
  <2>2. CASE kind # "effect"
    <3>1. e.mutated = st.mutated
      BY <2>2 DEF Outcome
    <3> QED BY <1>3, <3>1 DEF Guarded
  <2> QED BY <2>1, <2>2
<1>4. ASSUME NEW w \in ClonedValues(m, S), NEW x \in e.objs[w] PROVE x[3] \in Cloned(m, S)
  <2>0. w \in Value
    BY DEF ClonedValues
  <2>1. CASE binds /\ w \in m.ops[o].results
    <3>1. o \in Cloned(m, S) /\ m.ops[o].args \subseteq ClonedValues(m, S) /\ kind # "get"
      BY <1>0, <2>1, ClonesAreClosed DEF Inlinable
    <3>2. x \in made
      BY <1>0, <1>4, <2>0, <2>1 DEF Filtered
    <3>3. x = <<round, o, o>> \/ x \in Reached(m, st, o)
      BY <3>1, <3>2 DEF Made
    <3>4. CASE x = <<round, o, o>>
      <4>1. x[3] = o
        BY <3>4
      <4> QED BY <3>1, <4>1
    <3>5. CASE x \in Reached(m, st, o)
      <4>1. PICK a \in m.ops[o].args : x \in st.objs[a]
        BY <3>5 DEF Reached
      <4> QED BY <3>1, <4>1 DEF Guarded, FromClones
    <3> QED BY <3>3, <3>4, <3>5
  <2>2. CASE ~ (binds /\ w \in m.ops[o].results)
    <3>1. x \in st.objs[w]
      BY <1>0, <1>4, <2>0, <2>2
    <3> HIDE DEF binds
    <3> QED BY <3>1 DEF Guarded, FromClones
  <2> QED BY <2>1, <2>2
<1>5. ASSUME NEW s \in S, kind = "init" PROVE FromClones(m, S, FirstObjects(m, st, s))
  <2> SUFFICES ASSUME NEW x \in FirstObjects(m, st, s) PROVE x[3] \in Cloned(m, S)
    BY DEF FromClones
  <2>1. PICK v \in Value : <<s, v>> \in m.initial /\ x \in st.objs[v]
    BY DEF FirstObjects, InitialValues
  <2>2. v \in SliceValues(m, v)
    BY <1>0, SliceIsClosed
  <2>3. <<s, v>>[1] = s /\ <<s, v>>[2] = v
    OBVIOUS
  <2>4. v \in ClonedValues(m, S)
    BY <2>1, <2>2, <2>3 DEF ClonedValues
  <2> QED BY <2>1, <2>4 DEF Guarded, FromClones
<1>6. ASSUME NEW s \in S
      PROVE  FromClones(m, S, e.slots[s]) /\ FromClones(m, S, e.initial[s])
  <2>0. s \in Slot /\ s \notin X
    BY DEF Inlinable
  <2>1. ~ (kind = "set" /\ s \in m.ops[o].sym)
    BY <2>0 DEF Inlinable, Closed
  <2>2. CASE kind = "init"
    <3>1. e.slots[s] = FirstObjects(m, st, s) /\ e.initial[s] = FirstObjects(m, st, s)
      BY <2>0, <2>2 DEF Outcome
    <3> QED BY <1>5, <2>2, <3>1
  <2>3. CASE kind # "init"
    <3>1. e.slots[s] = st.slots[s] /\ e.initial[s] = st.initial[s]
      BY <2>0, <2>1, <2>3 DEF Outcome
    <3> QED BY <3>1 DEF Guarded
  <2> QED BY <2>2, <2>3
<1>7. \A w \in ClonedValues(m, S) : FromClones(m, S, e.objs[w])
  BY <1>4 DEF FromClones
<1> QED BY <1>1, <1>2, <1>3, <1>6, <1>7 DEF Guarded

\* Every object of A has its counterpart in B: itself, or, when clones made it,
\* an object that came from the same op.
Covers(m, S, A, B) ==
  \A x \in A : \E y \in B : y[3] = x[3] /\ (x[3] \in Cloned(m, S) \/ y = x)

Alike(m, S, A, B) == Covers(m, S, A, B) /\ Covers(m, S, B, A)

ObjectsAlike(m, S, st, st2) == \A v \in Value : Alike(m, S, st.objs[v], st2.objs[v])

\* st, of the run before inlining, and st2, of the run after it, look the same.
Related(m, S, st, st2) ==
  /\ st.log = st2.log /\ st.mutated = st2.mutated
  /\ ObjectsAlike(m, S, st, st2)
  /\ \A s \in S : Alike(m, S, st.slots[s], st2.initial[s])
  /\ \A s \in Slot \ S : Alike(m, S, st.slots[s], st2.slots[s])

LEMMA ReachedAlike ==
  ASSUME NEW m \in ModuleIR, NEW S, NEW st, NEW st2, ObjectsAlike(m, S, st, st2), NEW o \in Op
  PROVE  Alike(m, S, Reached(m, st, o), Reached(m, st2, o))
<1>1. m.ops[o].args \subseteq Value
  BY ModuleParts
<1>2. ASSUME NEW x \in Reached(m, st, o)
      PROVE  \E y \in Reached(m, st2, o) : y[3] = x[3] /\ (x[3] \in Cloned(m, S) \/ y = x)
  <2>1. PICK w \in m.ops[o].args : x \in st.objs[w]
    BY DEF Reached
  <2>2. PICK y \in st2.objs[w] : y[3] = x[3] /\ (x[3] \in Cloned(m, S) \/ y = x)
    BY <1>1, <2>1 DEF ObjectsAlike, Alike, Covers
  <2>3. y \in Reached(m, st2, o)
    BY <2>1, <2>2 DEF Reached
  <2> QED BY <2>2, <2>3
<1>3. ASSUME NEW x \in Reached(m, st2, o)
      PROVE  \E y \in Reached(m, st, o) : y[3] = x[3] /\ (x[3] \in Cloned(m, S) \/ y = x)
  <2>1. PICK w \in m.ops[o].args : x \in st2.objs[w]
    BY DEF Reached
  <2>2. PICK y \in st.objs[w] : y[3] = x[3] /\ (x[3] \in Cloned(m, S) \/ y = x)
    BY <1>1, <2>1 DEF ObjectsAlike, Alike, Covers
  <2>3. y \in Reached(m, st, o)
    BY <2>1, <2>2 DEF Reached
  <2> QED BY <2>2, <2>3
<1> QED BY <1>2, <1>3 DEF Alike, Covers

LEMMA FirstAlike ==
  ASSUME NEW m, NEW S, NEW st, NEW st2, ObjectsAlike(m, S, st, st2), NEW s
  PROVE  Alike(m, S, FirstObjects(m, st, s), FirstObjects(m, st2, s))
<1>1. ASSUME NEW x \in FirstObjects(m, st, s)
      PROVE  \E y \in FirstObjects(m, st2, s) : y[3] = x[3] /\ (x[3] \in Cloned(m, S) \/ y = x)
  <2>1. PICK w \in InitialValues(m, s) : x \in st.objs[w]
    BY DEF FirstObjects
  <2>2. PICK y \in st2.objs[w] : y[3] = x[3] /\ (x[3] \in Cloned(m, S) \/ y = x)
    BY <2>1 DEF ObjectsAlike, Alike, Covers, InitialValues
  <2>3. y \in FirstObjects(m, st2, s)
    BY <2>1, <2>2 DEF FirstObjects
  <2> QED BY <2>2, <2>3
<1>2. ASSUME NEW x \in FirstObjects(m, st2, s)
      PROVE  \E y \in FirstObjects(m, st, s) : y[3] = x[3] /\ (x[3] \in Cloned(m, S) \/ y = x)
  <2>1. PICK w \in InitialValues(m, s) : x \in st2.objs[w]
    BY DEF FirstObjects
  <2>2. PICK y \in st.objs[w] : y[3] = x[3] /\ (x[3] \in Cloned(m, S) \/ y = x)
    BY <2>1 DEF ObjectsAlike, Alike, Covers, InitialValues
  <2>3. y \in FirstObjects(m, st, s)
    BY <2>1, <2>2 DEF FirstObjects
  <2> QED BY <2>2, <2>3
<1> QED BY <1>1, <1>2 DEF Alike, Covers

LEMMA FilteredAlike ==
  ASSUME NEW m, NEW S, NEW A, NEW B, Alike(m, S, A, B), NEW v
  PROVE  Alike(m, S, Filtered(m, v, A), Filtered(m, v, B))
<1>1. \A x, y : x[3] = y[3] => (Immutable(m, x) <=> Immutable(m, y))
  BY DEF Immutable
<1>2. ASSUME NEW C, NEW D, Covers(m, S, C, D)
      PROVE  Covers(m, S, Filtered(m, v, C), Filtered(m, v, D))
  <2> SUFFICES ASSUME NEW x \in Filtered(m, v, C)
               PROVE  \E y \in Filtered(m, v, D) : y[3] = x[3] /\ (x[3] \in Cloned(m, S) \/ y = x)
    BY DEF Covers
  <2>1. x \in C /\ (v \in m.trivial => Immutable(m, x))
    BY DEF Filtered
  <2>2. PICK y \in D : y[3] = x[3] /\ (x[3] \in Cloned(m, S) \/ y = x)
    BY <1>2, <2>1 DEF Covers
  <2>3. y \in Filtered(m, v, D)
    BY <1>1, <2>1, <2>2 DEF Filtered
  <2> QED BY <2>2, <2>3
<1> QED BY <1>2 DEF Alike

\* Nothing has mutated what the clones have copies of.
LEMMA ShieldedAreUnmutated ==
  ASSUME NEW m, NEW S, NEW X, NEW st, Guarded(m, S, X, st), NEW x, x[3] \in Cloned(m, S)
  PROVE  Mutations(st, x) = Cardinality({})
<1>1. {i \in DOMAIN st.mutated : x \in st.mutated[i]} = {}
  BY DEF Guarded
<1> QED BY <1>1 DEF Mutations

LEMMA ObservedIsSame ==
  ASSUME NEW m, NEW S, NEW X, Inlinable(m, S, X), NEW st, NEW st2,
         Guarded(m, S, X, st), Guarded(m, S, X, st2), Related(m, S, st, st2), NEW o \in Op
  PROVE  Observed(m, st, o) = Observed(m, st2, o)
<1>1. \A x : Mutations(st, x) = Mutations(st2, x)
  BY DEF Related, Mutations
<1>2. Alike(m, S, Reached(m, st, o), Reached(m, st2, o))
  BY ReachedAlike DEF Inlinable, Related
<1>3. ASSUME NEW x, NEW y, y[3] = x[3], x[3] \in Cloned(m, S) \/ y = x
      PROVE  <<x[3], Mutations(st, x)>> = <<y[3], Mutations(st, y)>>
  BY <1>3, ShieldedAreUnmutated
<1>4. Observed(m, st, o) \subseteq Observed(m, st2, o)
  <2> SUFFICES ASSUME NEW x \in Reached(m, st, o)
               PROVE  <<x[3], Mutations(st, x)>> \in Observed(m, st2, o)
    BY DEF Observed
  <2>1. PICK y \in Reached(m, st2, o) : y[3] = x[3] /\ (x[3] \in Cloned(m, S) \/ y = x)
    BY <1>2 DEF Alike, Covers
  <2>2. <<x[3], Mutations(st, x)>> = <<y[3], Mutations(st2, y)>>
    BY <1>1, <1>3, <2>1
  <2> QED BY <2>1, <2>2 DEF Observed
<1>5. Observed(m, st2, o) \subseteq Observed(m, st, o)
  <2> SUFFICES ASSUME NEW x \in Reached(m, st2, o)
               PROVE  <<x[3], Mutations(st2, x)>> \in Observed(m, st, o)
    BY DEF Observed
  <2>1. PICK y \in Reached(m, st, o) : y[3] = x[3] /\ (x[3] \in Cloned(m, S) \/ y = x)
    BY <1>2 DEF Alike, Covers
  <2>2. <<x[3], Mutations(st2, x)>> = <<y[3], Mutations(st, y)>>
    BY <1>1, <1>3, <2>1
  <2> QED BY <2>1, <2>2 DEF Observed
<1> QED BY <1>4, <1>5

\* An op with effects mutates the same objects in both runs.
LEMMA HitIsSame ==
  ASSUME NEW m, NEW S, NEW X, Inlinable(m, S, X), NEW st, NEW st2,
         Guarded(m, S, X, st), Guarded(m, S, X, st2), Related(m, S, st, st2),
         NEW o \in Op, m.ops[o].kind = "effect"
  PROVE  {x \in Reached(m, st, o) : ~ Immutable(m, x)} = {x \in Reached(m, st2, o) : ~ Immutable(m, x)}
<1>1. Alike(m, S, Reached(m, st, o), Reached(m, st2, o))
  BY ReachedAlike DEF Inlinable, Related
<1>2. ASSUME NEW t, Guarded(m, S, X, t), NEW x \in Reached(m, t, o), ~ Immutable(m, x)
      PROVE  x[3] \notin Cloned(m, S)
  <2>1. SUFFICES ASSUME Shielded(m, S, x) PROVE FALSE
    BY <1>2 DEF Shielded
  <2>2. PICK w \in m.ops[o].args : x \in t.objs[w]
    BY <1>2 DEF Reached
  <2>3. UseIsSafe(m, w, o, X)
    BY <1>2, <2>1, <2>2, ShieldedUse DEF Guarded
  <2> QED BY <2>3 DEF UseIsSafe
<1>3. ASSUME NEW x \in Reached(m, st, o), ~ Immutable(m, x) PROVE x \in Reached(m, st2, o)
  BY <1>1, <1>2, <1>3 DEF Alike, Covers
<1>4. ASSUME NEW x \in Reached(m, st2, o), ~ Immutable(m, x) PROVE x \in Reached(m, st, o)
  BY <1>1, <1>2, <1>4 DEF Alike, Covers
<1> QED BY <1>3, <1>4

\* An op makes objects that look the same in both runs; this is where the reads of
\* an inlined slot give the objects of the slot in one and copies in the other.
LEMMA MadeAlike ==
  ASSUME NEW m, NEW S, NEW X, Inlinable(m, S, X), NEW st, NEW st2,
         Guarded(m, S, X, st), Guarded(m, S, X, st2), Related(m, S, st, st2),
         NEW round, NEW o \in Op
  PROVE  Alike(m, S, Made(m, {}, st, round, o), Made(m, S, st2, round, o))
<1>1. CASE m.ops[o].kind = "value"
  BY <1>1 DEF Made, Alike, Covers
<1>2. CASE m.ops[o].kind = "get"
  <2>1. ASSUME NEW s \in m.ops[o].sym
        PROVE  Alike(m, S, ReadSlot(m, {}, st, round, o, s), ReadSlot(m, S, st2, round, o, s))
    <3>1. s \in Slot /\ ReadSlot(m, {}, st, round, o, s) = st.slots[s]
      BY ModuleParts DEF Inlinable, ReadSlot
    <3>2. CASE s \notin S
      BY <3>1, <3>2 DEF Related, ReadSlot
    <3>3. CASE s \in S
      <4>1. ReadSlot(m, S, st2, round, o, s) = {<<round, o, y[3]>> : y \in st2.initial[s]}
        BY <3>3 DEF ReadSlot
      <4>2. Alike(m, S, st.slots[s], st2.initial[s])
        BY <3>3 DEF Related
      <4>3. \A x \in st.slots[s] : x[3] \in Cloned(m, S)
        BY <3>3 DEF Guarded, FromClones
      <4>4. \A y \in st2.initial[s] : y[3] \in Cloned(m, S)
        BY <3>3 DEF Guarded, FromClones
      <4>5. Covers(m, S, st.slots[s], ReadSlot(m, S, st2, round, o, s))
        <5> SUFFICES ASSUME NEW x \in st.slots[s]
                     PROVE  \E z \in ReadSlot(m, S, st2, round, o, s) : z[3] = x[3]
          BY <4>3 DEF Covers
        <5>1. PICK y \in st2.initial[s] : y[3] = x[3]
          BY <4>2 DEF Alike, Covers
        <5>2. <<round, o, y[3]>> \in ReadSlot(m, S, st2, round, o, s)
          BY <4>1
        <5>3. <<round, o, y[3]>>[3] = x[3]
          BY <5>1
        <5> QED BY <5>2, <5>3
      <4>6. Covers(m, S, ReadSlot(m, S, st2, round, o, s), st.slots[s])
        <5> SUFFICES ASSUME NEW y \in st2.initial[s]
                     PROVE  \E x \in st.slots[s] :
                              /\ x[3] = <<round, o, y[3]>>[3]
                              /\ <<round, o, y[3]>>[3] \in Cloned(m, S)
          BY <4>1 DEF Covers
        <5>1. PICK x \in st.slots[s] : x[3] = y[3]
          BY <4>2 DEF Alike, Covers
        <5>2. <<round, o, y[3]>>[3] = y[3]
          OBVIOUS
        <5> QED BY <4>4, <5>1, <5>2
      <4> QED BY <3>1, <4>5, <4>6 DEF Alike
    <3> QED BY <3>2, <3>3
  <2>2. Made(m, {}, st, round, o) = UNION {ReadSlot(m, {}, st, round, o, s) : s \in m.ops[o].sym}
    BY <1>2 DEF Made
  <2>3. Made(m, S, st2, round, o) = UNION {ReadSlot(m, S, st2, round, o, s) : s \in m.ops[o].sym}
    BY <1>2 DEF Made
  <2>4. Covers(m, S, Made(m, {}, st, round, o), Made(m, S, st2, round, o))
    BY <2>1, <2>2, <2>3 DEF Alike, Covers
  <2>5. Covers(m, S, Made(m, S, st2, round, o), Made(m, {}, st, round, o))
    BY <2>1, <2>2, <2>3 DEF Alike, Covers
  <2> QED BY <2>4, <2>5 DEF Alike
<1>3. CASE m.ops[o].kind \notin {"value", "get"}
  <2>1. Alike(m, S, Reached(m, st, o), Reached(m, st2, o))
    BY ReachedAlike DEF Inlinable, Related
  <2>2. /\ Made(m, {}, st, round, o) = Reached(m, st, o) \cup {<<round, o, o>>}
        /\ Made(m, S, st2, round, o) = Reached(m, st2, o) \cup {<<round, o, o>>}
    BY <1>3 DEF Made
  <2> QED BY <2>1, <2>2 DEF Alike, Covers
<1> QED BY <1>1, <1>2, <1>3

\* An op takes states that look the same to states that look the same.
LEMMA RelatedStep ==
  ASSUME NEW m, NEW S, NEW X, Inlinable(m, S, X), NEW st, NEW st2,
         Guarded(m, S, X, st), Guarded(m, S, X, st2), Related(m, S, st, st2),
         NEW round, NEW o \in Op, NEW e, Outcome(m, {}, st, round, o, e),
         NEW e2, Outcome(m, S, st2, round, o, e2)
  PROVE  Related(m, S, e, e2)
<1> DEFINE kind == m.ops[o].kind
<1>0. m \in ModuleIR /\ ObjectsAlike(m, S, st, st2) /\ S \subseteq Slot /\ S \cap X = {}
  BY DEF Inlinable, Related
<1>1. e.log = e2.log
  <2>1. Observed(m, st, o) = Observed(m, st2, o) /\ st.log = st2.log
    BY ObservedIsSame DEF Related
  <2> QED BY <2>1 DEF Outcome
<1>2. e.mutated = e2.mutated
  <2>1. CASE kind = "effect"
    <3>1. {x \in Reached(m, st, o) : ~ Immutable(m, x)} = {x \in Reached(m, st2, o) : ~ Immutable(m, x)}
      BY <2>1, HitIsSame
    <3>2. st.mutated = st2.mutated
      BY DEF Related
    <3> QED BY <2>1, <3>1, <3>2 DEF Outcome
  <2>2. CASE kind # "effect"
    BY <2>2 DEF Outcome, Related
  <2> QED BY <2>1, <2>2
<1>3. ASSUME NEW v \in Value PROVE Alike(m, S, e.objs[v], e2.objs[v])
  <2>1. CASE kind \in {"pure", "value", "effect", "get"} /\ v \in m.ops[o].results
    <3>1. /\ e.objs[v] = Filtered(m, v, Made(m, {}, st, round, o))
          /\ e2.objs[v] = Filtered(m, v, Made(m, S, st2, round, o))
      BY <2>1 DEF Outcome
    <3>2. Alike(m, S, Made(m, {}, st, round, o), Made(m, S, st2, round, o))
      BY MadeAlike
    <3> QED BY <3>1, <3>2, FilteredAlike
  <2>2. CASE ~ (kind \in {"pure", "value", "effect", "get"} /\ v \in m.ops[o].results)
    <3>1. e.objs[v] = st.objs[v] /\ e2.objs[v] = st2.objs[v]
      BY <2>2 DEF Outcome
    <3> QED BY <1>0, <3>1 DEF ObjectsAlike
  <2> QED BY <2>1, <2>2
<1>4. ASSUME NEW s \in S PROVE Alike(m, S, e.slots[s], e2.initial[s])
  <2>0. s \in Slot /\ s \notin X
    BY <1>0
  <2>1. CASE kind = "init"
    <3>1. e.slots[s] = FirstObjects(m, st, s) /\ e2.initial[s] = FirstObjects(m, st2, s)
      BY <2>0, <2>1 DEF Outcome
    <3> QED BY <1>0, <3>1, FirstAlike
  <2>2. CASE kind # "init"
    <3>1. ~ (kind = "set" /\ s \in m.ops[o].sym)
      BY <2>0 DEF Inlinable, Closed
    <3>2. e.slots[s] = st.slots[s] /\ e2.initial[s] = st2.initial[s]
      BY <2>0, <2>2, <3>1 DEF Outcome
    <3> QED BY <3>2 DEF Related
  <2> QED BY <2>1, <2>2
<1>5. ASSUME NEW s \in Slot \ S PROVE Alike(m, S, e.slots[s], e2.slots[s])
  <2>1. CASE kind = "init"
    <3>1. e.slots[s] = FirstObjects(m, st, s) /\ e2.slots[s] = FirstObjects(m, st2, s)
      BY <2>1 DEF Outcome
    <3> QED BY <1>0, <3>1, FirstAlike
  <2>2. CASE kind = "set" /\ s \in m.ops[o].sym
    <3>1. e.slots[s] = Reached(m, st, o) /\ e2.slots[s] = Reached(m, st2, o)
      BY <2>2 DEF Outcome
    <3> QED BY <1>0, <3>1, ReachedAlike
  <2>3. CASE kind # "init" /\ ~ (kind = "set" /\ s \in m.ops[o].sym)
    <3>1. e.slots[s] = st.slots[s] /\ e2.slots[s] = st2.slots[s]
      BY <2>3 DEF Outcome
    <3> QED BY <3>1 DEF Related
  <2> QED BY <2>1, <2>2, <2>3
<1> QED BY <1>1, <1>2, <1>3, <1>4, <1>5 DEF Related, ObjectsAlike

\* The two runs, side by side.
Joint(m, S, X, st, st2) ==
  /\ st \in RunState /\ st2 \in RunState
  /\ Guarded(m, S, X, st) /\ Guarded(m, S, X, st2)
  /\ Related(m, S, st, st2)

LEMMA JointStart ==
  ASSUME NEW m, NEW S, NEW X, Inlinable(m, S, X)
  PROVE  Joint(m, S, X, Start, Start)
<1>1. \A v \in Value : Start.objs[v] = {}
  BY DEF Start
<1>2. \A s \in Slot : Start.slots[s] = {} /\ Start.initial[s] = {}
  BY DEF Start
<1>3. Start.mutated = <<>>
  BY DEF Start
<1>4. S \subseteq Slot /\ ClonedValues(m, S) \subseteq Value
  BY DEF Inlinable, ClonedValues
<1>5. Guarded(m, S, X, Start)
  BY <1>1, <1>2, <1>3, <1>4 DEF Guarded, ValuesGuarded, FromClones
<1>6. Related(m, S, Start, Start)
  BY <1>1, <1>2, <1>4 DEF Related, ObjectsAlike, Alike, Covers
<1> QED BY <1>5, <1>6, StartType DEF Joint

LEMMA JointStep ==
  ASSUME NEW m, NEW S, NEW X, Inlinable(m, S, X), NEW st, NEW st2, Joint(m, S, X, st, st2),
         NEW round \in 0 .. Rounds, NEW ops, NEW o \in Op
  PROVE  Joint(m, S, X, StepOf(m, {}, st, round, ops, o), StepOf(m, S, st2, round, ops, o))
<1>0. m \in ModuleIR /\ NoValueLeavesARegion(m)
  BY DEF Inlinable
<1>1. PICK e, e2 : e = Execute(m, {}, st, round, o) /\ e2 = Execute(m, S, st2, round, o)
  OBVIOUS
<1>2. Outcome(m, {}, st, round, o, e) /\ Outcome(m, S, st2, round, o, e2)
  BY <1>0, <1>1, ExecuteIs DEF Joint
<1>3. e \in RunState /\ e2 \in RunState
  BY <1>2 DEF Outcome
<1>4. Guarded(m, S, X, e) /\ Guarded(m, S, X, e2)
  BY <1>2, GuardedStep DEF Joint
<1>5. Related(m, S, e, e2)
  BY <1>2, RelatedStep DEF Joint
<1>6. Joint(m, S, X, e, e2)
  BY <1>3, <1>4, <1>5 DEF Joint
<1>7. CASE o \in ops
  BY <1>1, <1>6, <1>7 DEF StepOf
<1>8. CASE o \notin ops
  BY <1>8 DEF StepOf
<1> QED BY <1>7, <1>8

LEMMA JointCall ==
  ASSUME NEW m, NEW S, NEW X, Inlinable(m, S, X), NEW st, NEW st2, Joint(m, S, X, st, st2),
         NEW round \in 0 .. Rounds, NEW ops
  PROVE  Joint(m, S, X, CallOf(m, {}, st, round, ops), CallOf(m, S, st2, round, ops))
<1>0. m \in ModuleIR /\ NoValueLeavesARegion(m) /\ st \in RunState /\ st2 \in RunState
  BY DEF Inlinable, Joint
<1>1. NumOps \in Nat /\ Op = 1 .. NumOps
  BY ModulesAssumption DEF Op
<1>2. PICK f : GoesThrough(m, {}, st, round, ops, f) /\ CallOf(m, {}, st, round, ops) = f[NumOps]
  BY <1>0, CallIs
<1>3. PICK g : GoesThrough(m, S, st2, round, ops, g) /\ CallOf(m, S, st2, round, ops) = g[NumOps]
  BY <1>0, CallIs
<1> DEFINE T == {n \in Nat : n <= NumOps => Joint(m, S, X, f[n], g[n])}
<1>4. 0 \in T
  BY <1>2, <1>3 DEF GoesThrough
<1>5. ASSUME NEW n \in Nat, n \in T PROVE n + 1 \in T
  <2> SUFFICES ASSUME n + 1 <= NumOps PROVE Joint(m, S, X, f[n + 1], g[n + 1])
    OBVIOUS
  <2>1. n + 1 \in Op /\ n <= NumOps /\ (n + 1) - 1 = n
    BY <1>1
  <2>2. Joint(m, S, X, f[n], g[n])
    BY <1>5, <2>1
  <2>3. PICK o \in Op : o = n + 1
    BY <2>1
  <2>4. /\ f[o] = StepOf(m, {}, f[n], round, ops, o)
        /\ g[o] = StepOf(m, S, g[n], round, ops, o)
    BY <1>2, <1>3, <2>1, <2>3 DEF GoesThrough
  <2>5. Joint(m, S, X, StepOf(m, {}, f[n], round, ops, o), StepOf(m, S, g[n], round, ops, o))
    BY <2>2, JointStep
  <2> QED BY <2>3, <2>4, <2>5
<1>6. NumOps \in T
  <2> HIDE DEF T
  <2> QED BY <1>1, <1>4, <1>5, SetInduction
<1>7. Joint(m, S, X, f[NumOps], g[NumOps])
  BY <1>1, <1>6
<1> QED BY <1>2, <1>3, <1>7

LEMMA JointRun ==
  ASSUME NEW m, NEW S, NEW X, Inlinable(m, S, X)
  PROVE  Joint(m, S, X, Run(m, {}), Run(m, S))
<1>0. m \in ModuleIR /\ NoValueLeavesARegion(m) /\ Rounds \in Nat
  BY RoundsAssumption DEF Inlinable
<1>1. PICK f : RunsThrough(m, {}, f) /\ Run(m, {}) = f[Rounds]
  BY <1>0, RunIs
<1>2. PICK g : RunsThrough(m, S, g) /\ Run(m, S) = g[Rounds]
  BY <1>0, RunIs
<1> DEFINE T == {n \in Nat : n <= Rounds => Joint(m, S, X, f[n], g[n])}
<1>3. 0 \in T
  <2>1. Joint(m, S, X, CallOf(m, {}, Start, 0, CalledOps(m, 0)), CallOf(m, S, Start, 0, CalledOps(m, 0)))
    BY <1>0, JointStart, JointCall
  <2> QED BY <1>1, <1>2, <2>1 DEF RunsThrough
<1>4. ASSUME NEW n \in Nat, n \in T PROVE n + 1 \in T
  <2> SUFFICES ASSUME n + 1 <= Rounds PROVE Joint(m, S, X, f[n + 1], g[n + 1])
    OBVIOUS
  <2>1. n + 1 \in 1 .. Rounds /\ n + 1 \in 0 .. Rounds /\ n <= Rounds /\ (n + 1) - 1 = n
    BY <1>0
  <2>2. Joint(m, S, X, f[n], g[n])
    BY <1>4, <2>1
  <2>3. PICK r \in 0 .. Rounds : r = n + 1
    BY <2>1
  <2>4. /\ f[r] = CallOf(m, {}, f[n], r, CalledOps(m, r))
        /\ g[r] = CallOf(m, S, g[n], r, CalledOps(m, r))
    BY <1>1, <1>2, <2>1, <2>3 DEF RunsThrough
  <2>5. Joint(m, S, X, CallOf(m, {}, f[n], r, CalledOps(m, r)), CallOf(m, S, g[n], r, CalledOps(m, r)))
    BY <2>2, JointCall
  <2> QED BY <2>3, <2>4, <2>5
<1>5. Rounds \in T
  <2> HIDE DEF T
  <2> QED BY <1>0, <1>3, <1>4, SetInduction
<1>6. Joint(m, S, X, f[Rounds], g[Rounds])
  BY <1>0, <1>5
<1> QED BY <1>1, <1>2, <1>6

\* What the pass inlines may be inlined.
LEMMA InlinedIsInlinable ==
  ASSUME NEW m \in ModuleIR, InSSAForm(m), NoValueLeavesARegion(m), InitializerIsVerified(m),
         NEW X, Closed(m, X)
  PROVE  Inlinable(m, InlinableSlots(m, X), X)
<1> DEFINE S == InlinableSlots(m, X)
<1>1. S \subseteq Slot /\ S \cap X = {}
  BY DEF InlinableSlots
<1>2. ASSUME NEW o \in Cloned(m, S) PROVE m.ops[o].results \cap X = {}
  <2>1. PICK p \in m.initial : p[1] \in S /\ o \in BackwardSlice(m, p[2])
    BY <1>2 DEF Cloned
  <2>2. PICK v \in Value : <<p[1], v>> \in m.initial /\ IsTransitivelySafe(m, v, X)
    BY <2>1 DEF InlinableSlots
  <2>3. p = <<p[1], v>>
    BY <2>1, <2>2 DEF InitializerIsVerified
  <2>4. p[2] = v
    BY <2>3
  <2> QED BY <2>1, <2>2, <2>4 DEF IsTransitivelySafe
<1> QED BY <1>1, <1>2 DEF Inlinable

\* The slots that were inlined are those that the final states allow.
InlinedAtTheEnd == phase = "done" => safeToInline = InlinableSlots(module, unsafe)

LEMMA InlinedStep ==
  ASSUME InlinedAtTheEnd, [Next]_vars
  PROVE  InlinedAtTheEnd'
<1>1. CASE InitializeOp
  BY <1>1 DEF InitializeOp, InlinedAtTheEnd
<1>2. CASE StartSolver
  BY <1>2 DEF StartSolver, InlinedAtTheEnd
<1>3. ASSUME NEW o \in Op, SolverStep(o) PROVE InlinedAtTheEnd'
  BY <1>3 DEF SolverStep, InlinedAtTheEnd
<1>4. CASE InlineSafeSlots
  BY <1>4 DEF InlineSafeSlots, InlinedAtTheEnd
<1>5. CASE UNCHANGED vars
  BY <1>5 DEF vars, InlinedAtTheEnd
<1> QED BY <1>1, <1>2, <1>3, <1>4, <1>5 DEF Next

\* At the end of the pass the run of the inlined module follows that of the module.
LEMMA JointAtTheEnd ==
  ASSUME WellFormedModules, \A m \in Modules : InitializerIsVerified(m),
         IInv, InlinedAtTheEnd, phase = "done", NoValueLeavesARegion(module)
  PROVE  Joint(module, safeToInline, unsafe, Run(module, {}), Run(module, safeToInline))
<1>1. /\ module \in ModuleIR /\ InSSAForm(module) /\ InitializerIsVerified(module)
      /\ at = NumOps + 1 /\ worklist = {}
  BY DEF IInv, TypeOK, PhasesInOrder, WellFormedModules
<1>2. Closed(module, unsafe)
  BY <1>1, EndIsClosed
<1>3. Inlinable(module, safeToInline, unsafe)
  BY <1>1, <1>2, InlinedIsInlinable DEF InlinedAtTheEnd
<1> QED BY <1>3, JointRun

\* Inlining is invisible: for every verified module, every number of calls and
\* every order of the analysis, every op observes after inlining what it observed
\* before.  The slots the pass replaces by clones of what initializes them are
\* never written, and no alias of their contents is ever mutated.
THEOREM InliningIsInvisible ==
  ASSUME WellFormedModules, \A m \in Modules : InitializerIsVerified(m)
  PROVE  Spec => []InliningPreservesBehaviour
<1>1. Init => InlinedAtTheEnd
  BY DEF Init, InlinedAtTheEnd
<1>2. InlinedAtTheEnd /\ [Next]_vars => InlinedAtTheEnd'
  BY InlinedStep
<1>3. IInv /\ InlinedAtTheEnd => InliningPreservesBehaviour
  <2> SUFFICES ASSUME IInv, InlinedAtTheEnd, phase = "done", NoValueLeavesARegion(module)
               PROVE  Run(module, safeToInline).log = Run(module, {}).log
    BY DEF InliningPreservesBehaviour
  <2>1. Joint(module, safeToInline, unsafe, Run(module, {}), Run(module, safeToInline))
    BY JointAtTheEnd
  <2> QED BY <2>1 DEF Joint, Related
<1> QED BY <1>1, <1>2, <1>3, InvariantHolds, PTL DEF Spec

\* What the comment in the pass says of an inlined slot -- "the value cannot be
\* mutated by the program" -- holds of every module that yields no value from a
\* torch.prim.If: no object an inlined slot starts with is ever mutated.  (What the
\* callers of a function do with what it returns is no part of the model.)
THEOREM InlinedAreUnmutated ==
  ASSUME WellFormedModules, \A m \in Modules : InitializerIsVerified(m)
  PROVE  Spec => [](NoValueLeavesARegion(module) => InlinedObjectsAreUnmutated)
<1>1. Init => InlinedAtTheEnd
  BY DEF Init, InlinedAtTheEnd
<1>2. InlinedAtTheEnd /\ [Next]_vars => InlinedAtTheEnd'
  BY InlinedStep
<1>3. IInv /\ InlinedAtTheEnd => (NoValueLeavesARegion(module) => InlinedObjectsAreUnmutated)
  <2> SUFFICES ASSUME IInv, InlinedAtTheEnd, phase = "done", NoValueLeavesARegion(module),
                      NEW s \in safeToInline, NEW x \in Run(module, {}).initial[s]
               PROVE  Mutations(Run(module, {}), x) = 0
    BY DEF InlinedObjectsAreUnmutated
  <2>1. Joint(module, safeToInline, unsafe, Run(module, {}), Run(module, safeToInline))
    BY JointAtTheEnd
  <2>2. x[3] \in Cloned(module, safeToInline)
    BY <2>1 DEF Joint, Guarded, FromClones
  <2>3. Mutations(Run(module, {}), x) = Cardinality({})
    BY <2>1, <2>2, ShieldedAreUnmutated DEF Joint
  <2> QED BY <2>3, FS_EmptySet
<1> QED BY <1>1, <1>2, <1>3, InvariantHolds, PTL DEF Spec
=============================================================================
