-------------------------- MODULE InlineGlobalSlots --------------------------
(***************************************************************************)
(* The torch-inline-global-slots pass.  An optimistic dataflow analysis    *)
(* decides which global slots and which SSA values are "safe" -- never     *)
(* mutated, never aliased by something mutated -- and the pass replaces    *)
(* every read of a slot whose initial value is safe by a private copy of   *)
(* the ops that compute that value, then erases the slot.                  *)
(*                                                                         *)
(* A module is a sequence of ops in the post-order walk of the IR.  The    *)
(* order in which the solver takes points from its worklist is left open.  *)
(***************************************************************************)
EXTENDS Naturals, FiniteSets

CONSTANTS
  Slot,       (* Symbols of torch.global_slot ops.                         *)
  Value,      (* SSA values, the results of ops.                           *)
  NumOps,     (* Number of ops of a module, in the order of the walk.      *)
  Modules     (* The modules the pass may be run on.                       *)

Op == 1 .. NumOps
Anchor == Value \cup Slot

(***************************************************************************)
(* "slot"    torch.global_slot                                             *)
(* "get"     torch.global_slot.get       "set"  torch.global_slot.set      *)
(* "init"    torch.initialize.global_slots, the initializer's terminator   *)
(* "pure"    an op that is ReadOnly or has no memory effects: a literal, a *)
(*           view, prim.ListConstruct, and the terminators func.return and *)
(*           torch.prim.If.yield; what a caller does with returned values  *)
(*           is not modelled                                               *)
(* "value"   an op with the HasValueSemantics trait                        *)
(* "region"  torch.prim.If, whose results are forwarded by its yields      *)
(* "effect"  any other op: in-place ops, calls, prim.Loop                  *)
(***************************************************************************)
Kind == {"slot", "get", "set", "init", "pure", "value", "region", "effect"}

(***************************************************************************)
(* sym is the slot an op names (empty for most ops); forwards is the set   *)
(* of results of the enclosing op that a terminator passes its operands    *)
(* to.                                                                     *)
(***************************************************************************)
OpIR == [kind : Kind, args : SUBSET Value, results : SUBSET Value,
         sym : SUBSET Slot, forwards : SUBSET Value]

(***************************************************************************)
(* initial pairs a slot with the operand torch.initialize.global_slots     *)
(* gives it; public is the set of slots visible outside the module;        *)
(* trivial is the set of values of an immutable type.                      *)
(***************************************************************************)
ModuleIR == [ops : [Op -> OpIR], initial : SUBSET (Slot \X Value),
             public : SUBSET Slot, trivial : SUBSET Value]

ASSUME ModulesAssumption ==
  /\ NumOps \in Nat
  /\ Slot \cap Value = {}
  /\ Modules \subseteq ModuleIR

VARIABLES
  module,       (* The module under analysis, never changed by it.         *)
  unsafe,       (* Anchors whose InlineGlobalSlotsAnalysisState is unsafe. *)
  dependents,   (* <<a, o>>: op o is visited again when a changes.         *)
  worklist,     (* Ops the solver still has to visit.                      *)
  at,           (* Next op of the initial walk.                            *)
  phase,        (* "initialize", "solve", then "done".                     *)
  safeToInline  (* The slots the transformation inlines and erases.        *)

vars == <<module, unsafe, dependents, worklist, at, phase, safeToInline>>

-----------------------------------------------------------------------------
(* The transfer function, for an arbitrary module m and unsafe set bad.    *)

Uses(m, v) == {o \in Op : v \in m.ops[o].args}

\* The anchors whose state the transfer function reads at the use of v by o.
UseReads(m, v, o) ==
  IF m.ops[o].kind = "pure" THEN m.ops[o].results
  ELSE {s \in Slot : m.ops[o].kind = "init" /\ <<s, v>> \in m.initial}

UseIsSafe(m, v, o, bad) ==
  \/ m.ops[o].kind = "value"
  \/ /\ m.ops[o].kind \in {"pure", "init"}
     /\ UseReads(m, v, o) \cap bad = {}

IsValueSafe(m, v, bad) ==
  \/ v \in m.trivial
  \/ \A o \in Uses(m, v) : UseIsSafe(m, v, o, bad)

\* Mutant: only the first use the loop looks at leaves a dependency.
ExaminedOnlyOne(m, v, bad) ==
  IF v \in m.trivial THEN {}
  ELSE {o \in Uses(m, v) : \A p \in Uses(m, v) : p <= o}

\* Uses are examined from the last to the first; the first unsafe one ends it.
Examined(m, v, bad) ==
  IF v \in m.trivial THEN {}
  ELSE {o \in Uses(m, v) :
          \A p \in Uses(m, v) : UseIsSafe(m, v, p, bad) \/ p <= o}

\* Dependencies registered while op o is visited.
ReadsOf(m, o, bad) ==
  {<<a, o>> : a \in UNION {UNION {UseReads(m, v, u) : u \in Examined(m, v, bad)}
                             : v \in m.ops[o].results}}

\* Mutant: the state of a read slot is overwritten by that of the last read.
AfterVisitOverwritingSlot(m, o, bad) ==
  LET results == m.ops[o].results
      bad1 == (bad \ results)
                \cup {v \in results : ~ IsValueSafe(m, v, bad)}
  IN  IF m.ops[o].kind # "get" THEN bad1
      ELSE IF results \cap bad1 # {} THEN bad1 \cup m.ops[o].sym
      ELSE bad1 \ m.ops[o].sym

\* Mutant: an unsafe read does not make its slot unsafe.
AfterVisitForgettingSlot(m, o, bad) ==
  (bad \ m.ops[o].results)
    \cup {v \in m.ops[o].results : ~ IsValueSafe(m, v, bad)}

\* The unsafe set after op o has been visited with unsafe set bad.
AfterVisit(m, o, bad) ==
  LET results == m.ops[o].results
      bad1 == (bad \ results)
                \cup {v \in results : ~ IsValueSafe(m, v, bad)}
  IN  IF m.ops[o].kind = "get" /\ results \cap bad1 # {}
      THEN bad1 \cup m.ops[o].sym
      ELSE bad1

\* What the initial walk does to the states of slots before it visits op o:
\* a slot op overwrites the state of its slot, a set op clears it.
BeforeVisit(m, o, bad) ==
  IF m.ops[o].kind = "slot"
  THEN (bad \ m.ops[o].sym) \cup (m.ops[o].sym \cap m.public)
  ELSE IF m.ops[o].kind = "set" THEN bad \cup m.ops[o].sym ELSE bad

Changed(old, new) == (old \ new) \cup (new \ old)

\* Visit o with the slot states of bad already written: record what was read
\* and enqueue everything that depends on a state that changed.
Visit(o, bad, pending) ==
  /\ unsafe' = AfterVisit(module, o, bad)
  /\ dependents' = dependents \cup ReadsOf(module, o, bad)
  /\ worklist' = pending
       \cup {d \in Op : \E a \in Changed(unsafe, bad)
                               \cup Changed(bad, unsafe') :
                          <<a, d>> \in dependents'}

-----------------------------------------------------------------------------
(* The transformation.                                                     *)

HasInitializer(m) == \E o \in Op : m.ops[o].kind = "init"

\* Values whose defining ops are in the backward slice of v, v included.
SliceValues(m, v) ==
  {w \in Value :
     \A X \in SUBSET Value :
       /\ v \in X
       /\ \A o \in Op : m.ops[o].results \cap X # {} => m.ops[o].args \subseteq X
       => w \in X}

BackwardSlice(m, v) ==
  {o \in Op : m.ops[o].results \cap SliceValues(m, v) # {}}

IsTransitivelySafe(m, v, bad) ==
  \A o \in BackwardSlice(m, v) : m.ops[o].results \cap bad = {}

\* Mutant: only the initial value is checked, not the slot.
InlinableByValue(m, bad) ==
  {s \in Slot : \E v \in Value : <<s, v>> \in m.initial
                                  /\ IsTransitivelySafe(m, v, bad)}

InlinableSlots(m, bad) ==
  IF HasInitializer(m)
  THEN {s \in Slot : s \notin bad /\ \E v \in Value :
           <<s, v>> \in m.initial /\ IsTransitivelySafe(m, v, bad)}
  ELSE {}

-----------------------------------------------------------------------------
Init ==
  /\ module \in Modules
  /\ unsafe = {}
  /\ dependents = {}
  /\ worklist = {}
  /\ at = 1
  /\ phase = "initialize"
  /\ safeToInline = {}

\* InlineGlobalSlotsAnalysis::initialize on the next op of the walk.
InitializeOp ==
  /\ phase = "initialize"
  /\ at \in Op
  /\ Visit(at, BeforeVisit(module, at, unsafe), worklist)
  /\ at' = at + 1
  /\ UNCHANGED <<module, phase, safeToInline>>

\* Mutant: the position of the walk moves once more when the walk ends.
StartSolverPastTheEnd ==
  /\ phase = "initialize"
  /\ at > NumOps
  /\ phase' = "solve"
  /\ at' = at + 1
  /\ UNCHANGED <<module, unsafe, dependents, worklist, safeToInline>>

StartSolver ==
  /\ phase = "initialize"
  /\ at > NumOps
  /\ phase' = "solve"
  /\ UNCHANGED <<module, unsafe, dependents, worklist, at, safeToInline>>

\* Mutant: a visited op stays in the worklist.
SolverStepKeepingItem(o) ==
  /\ phase = "solve"
  /\ o \in worklist
  /\ Visit(o, unsafe, worklist)
  /\ UNCHANGED <<module, at, phase, safeToInline>>

\* InlineGlobalSlotsAnalysis::visit on a point taken from the worklist.
SolverStep(o) ==
  /\ phase = "solve"
  /\ o \in worklist
  /\ Visit(o, unsafe, worklist \ {o})
  /\ UNCHANGED <<module, at, phase, safeToInline>>

\* The rest of runOnOperation, once the solver has reached its fixpoint.
InlineSafeSlots ==
  /\ phase = "solve"
  /\ worklist = {}
  /\ safeToInline' = InlinableSlots(module, unsafe)
  /\ phase' = "done"
  /\ UNCHANGED <<module, unsafe, dependents, worklist, at>>

Next ==
  \/ InitializeOp
  \/ StartSolver
  \/ \E o \in Op : SolverStep(o)
  \/ InlineSafeSlots

Spec == Init /\ [][Next]_vars

\* The pass runs on one thread and its loops have no exit but their end.
FairSpec == Spec /\ WF_vars(Next)

-----------------------------------------------------------------------------
(* Properties.                                                             *)

\* Every variable has its type.
TypeOK ==
  /\ module \in ModuleIR
  /\ unsafe \in SUBSET Anchor
  /\ dependents \in SUBSET (Anchor \X Op)
  /\ worklist \in SUBSET Op
  /\ at \in 1 .. NumOps + 1
  /\ phase \in {"initialize", "solve", "done"}
  /\ safeToInline \in SUBSET Slot

(***************************************************************************)
(* Closed(m, X): declaring exactly X unsafe is consistent -- public and    *)
(* set slots are in X, so is every value the transfer function rejects     *)
(* under X, and so is every slot one of whose reads is in X.               *)
(***************************************************************************)
Closed(m, X) ==
  /\ \A o \in Op :
       /\ m.ops[o].kind = "slot" => m.ops[o].sym \cap m.public \subseteq X
       /\ m.ops[o].kind = "set" => m.ops[o].sym \subseteq X
       /\ m.ops[o].kind = "get" /\ m.ops[o].results \cap X # {}
            => m.ops[o].sym \subseteq X
       /\ \A v \in m.ops[o].results : IsValueSafe(m, v, X) \/ v \in X

\* The least solution: what is unsafe in every consistent assignment.
Tainted(m) ==
  LET solutions == {X \in SUBSET Anchor : Closed(m, X)}
  IN  {a \in Anchor : \A X \in solutions : a \in X}

\* What the verifier and the importer guarantee of a module: a value has one
\* defining op, and a slot is declared before the ops that read or set it.
InSSAForm(m) ==
  \A o, p \in Op : m.ops[o].results \cap m.ops[p].results # {} => o = p

SlotsDeclaredFirst(m) ==
  \A o, p \in Op :
    /\ m.ops[o].kind = "slot"
    /\ m.ops[p].kind \in {"get", "set"}
    /\ m.ops[o].sym \cap m.ops[p].sym # {}
    => o < p

\* No value and no slot is ever given up without a reason: whatever is unsafe
\* is unsafe in the least solution, at every step and in every order.
OnlyTaintedIsUnsafe == unsafe \subseteq Tainted(module)

\* When the worklist has run empty the states are the least solution, whatever
\* the order of the visits: the dependency edges dropped by the early return of
\* the transfer function are never missed.
FixpointIsLeast == phase = "done" => unsafe = Tainted(module)

\* The monotonicity setSafe asserts: once a value or a slot has been proved
\* unsafe, nothing makes it safe again.
NeverSafeAgain == [][unsafe \subseteq unsafe']_vars

\* The solver stops and the pass finishes.
PassTerminates == <>(phase = "done")

\* The worklist algorithm implements the abstract optimistic analysis.
Abstract == INSTANCE OptimisticAnalysis WITH
  tainted <- Tainted(module), reported <- (phase = "done")

ImplementsOptimisticAnalysis == Abstract!Spec
=============================================================================
