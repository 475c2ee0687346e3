-------------------------- MODULE BackendContract --------------------------
(***************************************************************************)
(* torch-lower-to-backend-contract: the simplification pipeline is run     *)
(* until the program satisfies the backend contract.  Modelled are the     *)
(* passes that the contract depends on and that depend on each other:      *)
(* refinement of sizes, refinement of dtypes, decomposition of complex     *)
(* ops, and the types of what a public function returns.                   *)
(*                                                                         *)
(* A program is one public function that is called by nobody.  Its values  *)
(* are numbered, operands before results; the last one is returned.  The   *)
(* other passes of the pipeline are left out.  Of those,                   *)
(* torch-reduce-op-variants and torch-maximize-value-semantics change      *)
(* types too, of ops with value semantics and of what is copied into a     *)
(* mutable tensor.  What is mutable in a program is an argument or a view  *)
(* of one, which they leave alone.                                         *)
(***************************************************************************)
EXTENDS Integers, Sequences

CONSTANTS
  Programs,       \* set of programs, see ProgramIR
  Options,        \* set of options of the pass, see OptionsIR
  CounterBound    \* bound: the count of iterations stays at this value

VARIABLES
  program,     \* the program that is lowered
  options,     \* the options of the pass
  kind,        \* value -> the op that defines it; decomposing changes it
  type,        \* value -> its tensor type
  cast,        \* value -> {} or the type of the torch.tensor_static_info_cast
               \*   in front of the users that need the original type
  returned,    \* the type of the operand of the return
  phase,       \* the pass of the pipeline that runs
  iterations   \* how many runs of the pipeline were begun
vars == <<program, options, kind, type, cast, returned, phase, iterations>>

(***************************************************************************)
(* Tensor types: with value semantics or without, with the sizes if the    *)
(* rank is known, with the dtype if it is known.  A dtype is the width of  *)
(* a floating point type.                                                  *)
(***************************************************************************)
UnknownSize == -1

Sizes == Seq(Int)

TensorType == [value: BOOLEAN, sizes: SUBSET Sizes, dtype: SUBSET Nat]

\* There is at most one rank and at most one dtype.
IsTensorType(t) ==
  /\ t \in TensorType
  /\ \A r, s \in t.sizes : r = s
  /\ \A d, e \in t.dtype : d = e

\* No two sizes contradict each other.
SizesAgree(r, s) ==
  /\ Len(r) = Len(s)
  /\ \A k \in DOMAIN r : r[k] = s[k] \/ r[k] = UnknownSize \/ s[k] = UnknownSize

Compatible(lhs, rhs) ==
  /\ \A d \in lhs.dtype, e \in rhs.dtype : d = e
  /\ \A r \in lhs.sizes, s \in rhs.sizes : SizesAgree(r, s)

\* Mutant: what was known of the sizes before is forgotten.
MeetSizesOfTheNew(r, s) == s

MeetSizes(r, s) == [k \in DOMAIN r |-> IF r[k] = UnknownSize THEN s[k] ELSE r[k]]

\* Mutant: the sizes of both types are kept.
MeetWithBothSizes(lhs, rhs) ==
  [value |-> (lhs.sizes = {} /\ rhs.sizes = {}) \/ lhs.value,
   sizes |-> lhs.sizes \cup rhs.sizes,
   dtype |-> lhs.dtype \cup rhs.dtype]

\* meetTensorTypes, for compatible types: a type without sizes has value
\* semantics, whatever the two types had.
Meet(lhs, rhs) ==
  [value |-> (lhs.sizes = {} /\ rhs.sizes = {}) \/ lhs.value,
   sizes |-> IF lhs.sizes = {} THEN rhs.sizes
             ELSE IF rhs.sizes = {} THEN lhs.sizes
             ELSE {MeetSizes(r, s) : r \in lhs.sizes, s \in rhs.sizes},
   dtype |-> lhs.dtype \cup rhs.dtype]

IsSubsizes(s, r) ==
  /\ Len(r) = Len(s)
  /\ \A k \in DOMAIN r : r[k] = UnknownSize \/ r[k] = s[k]

\* isValidSubtype for two tensor types.
IsValidSubtype(subtype, t) ==
  /\ subtype.value = t.value
  /\ t.dtype \subseteq subtype.dtype
  /\ \A r \in t.sizes : subtype.sizes # {} /\ \A s \in subtype.sizes : IsSubsizes(s, r)

(***************************************************************************)
(* Programs.  "unary" keeps sizes and dtype of its operand, "binary"       *)
(* broadcasts and promotes its two operands; both have functions in the    *)
(* library.  "opaque" has none.  "complex" has none either, but can be     *)
(* decomposed when the rank of its operand is known: a torch.aten.einsum   *)
(* of one operand, which becomes a permutation.                            *)
(***************************************************************************)
Kind == {"arg", "opaque", "unary", "binary", "complex"}

Arity(k) == IF k \in {"arg", "opaque"} THEN 0 ELSE IF k = "binary" THEN 2 ELSE 1

Value(p) == DOMAIN p.ops

ProgramIR(p) ==
  /\ p.ops \in Seq([kind: Kind, args: Seq(Nat)]) /\ p.ops # <<>>
  /\ \A v \in Value(p) : /\ Len(p.ops[v].args) = Arity(p.ops[v].kind)
                         /\ \A k \in DOMAIN p.ops[v].args : p.ops[v].args[k] \in 1..(v - 1)
  /\ DOMAIN p.types = Value(p) /\ \A v \in Value(p) : IsTensorType(p.types[v])
  /\ p.exact \subseteq Value(p)     \* other users than the return need the exact type

\* complexIsLegal: the complex op is among the backendLegalOps.
OptionsIR == [maxIterations: Int, decompose: BOOLEAN, shapeDtypeRefine: BOOLEAN, complexIsLegal: BOOLEAN]

ASSUME ProgramsAssumption == \A p \in Programs : ProgramIR(p)
ASSUME OptionsAssumption == Options \subseteq OptionsIR
ASSUME CounterAssumption == CounterBound \in Nat /\ \A o \in Options : o.maxIterations < CounterBound

Args(v) == program.ops[v].args

Last == Len(program.ops)

(***************************************************************************)
(* What the functions of the library compute once they are inlined and     *)
(* simplified: nothing if the rank of an operand is unknown.               *)
(***************************************************************************)
SizeFromRight(s, rank, k) == IF k + Len(s) > rank THEN s[k + Len(s) - rank] ELSE 1

\* Mutant: of two sizes the one that is known is taken.
BroadcastKnown(r, s) ==
  LET rank == IF Len(r) > Len(s) THEN Len(r) ELSE Len(s)
      a(k) == SizeFromRight(r, rank, k)
      b(k) == SizeFromRight(s, rank, k)
  IN  [k \in 1..rank |-> IF a(k) \in {1, UnknownSize} THEN b(k) ELSE a(k)]

\* The size is the one of the second operand if that of the first is known to be 1.
Broadcast(r, s) ==
  LET rank == IF Len(r) > Len(s) THEN Len(r) ELSE Len(s)
      a(k) == SizeFromRight(r, rank, k)
      b(k) == SizeFromRight(s, rank, k)
  IN  [k \in 1..rank |-> IF a(k) = 1 THEN b(k) ELSE a(k)]

\* Operands of rank 0 do not count if there is another one.
Promote(r, d, s, e) ==
  IF (r = <<>>) # (s = <<>>) THEN (IF r = <<>> THEN e ELSE d)
  ELSE IF d > e THEN d ELSE e

ImpliedSizes(k, args, types) ==
  IF k = "unary" THEN types[args[1]].sizes
  ELSE IF k = "binary" THEN {Broadcast(r, s) : r \in types[args[1]].sizes, s \in types[args[2]].sizes}
  ELSE {}

ImpliedDtypes(k, args, types) ==
  IF k = "unary" THEN types[args[1]].dtype
  ELSE IF k = "binary"
    THEN {Promote(r, d, s, e) : r \in types[args[1]].sizes, d \in types[args[1]].dtype,
                                s \in types[args[2]].sizes, e \in types[args[2]].dtype}
  ELSE {}

\* The types that replace old when new is inferred, at most one: none if the
\* two contradict each other or nothing new is learnt.
Refinements(old, new) ==
  IF Compatible(old, new) /\ Meet(old, new) # old THEN {Meet(old, new)} ELSE {}

SizeRefinements(v) ==
  UNION {Refinements(type[v], [type[v] EXCEPT !.sizes = {s}]) : s \in ImpliedSizes(kind[v], Args(v), type)}

DtypeRefinements(v) ==
  UNION {Refinements(type[v], [type[v] EXCEPT !.dtype = {d}]) : d \in ImpliedDtypes(kind[v], Args(v), type)}

(***************************************************************************)
(* The backend contract.                                                   *)
(***************************************************************************)
CheckType(t) == t.value /\ t.sizes # {} /\ t.dtype # {}

\* The return reads its operand directly or by a cast of type returned.
SatisfiesBackendContract ==
  /\ \A v \in Value(program) : CheckType(type[v]) /\ \A t \in cast[v] : CheckType(t)
  /\ CheckType(returned)
  /\ options.decompose /\ ~options.complexIsLegal => \A v \in Value(program) : kind[v] # "complex"

Decomposable(v) ==
  /\ options.decompose /\ ~options.complexIsLegal
  /\ kind[v] = "complex"
  /\ type[Args(v)[1]].sizes # {}

----------------------------------------------------------------------------
Init ==
  /\ program \in Programs /\ options \in Options
  /\ kind = [v \in Value(program) |-> program.ops[v].kind]
  /\ type = program.types
  /\ cast = [v \in Value(program) |-> {}]
  /\ returned = program.types[Last]
  /\ phase = "loop"
  /\ iterations = 0

\* Mutant: no run is left for the last iteration.
BeginIterationTooFew ==
  /\ phase = "loop"
  /\ phase' = IF iterations + 1 >= options.maxIterations THEN "failed" ELSE "return"
  /\ iterations' = IF iterations < CounterBound THEN iterations + 1 ELSE iterations
  /\ UNCHANGED <<program, options, kind, type, cast, returned>>

\* Mutant: an iteration that is run is not counted.
BeginIterationUncounted ==
  /\ phase = "loop"
  /\ IF iterations = options.maxIterations
     THEN phase' = "failed" /\ iterations' = iterations + 1
     ELSE phase' = "return" /\ UNCHANGED iterations
  /\ UNCHANGED <<program, options, kind, type, cast, returned>>

\* The head of the loop: give up, or run the pipeline.  That the pipeline itself
\* fails, the other way out, is left out: none of the modelled passes can fail here.
BeginIteration ==
  /\ phase = "loop"
  /\ phase' = IF iterations = options.maxIterations THEN "failed" ELSE "return"
  /\ iterations' = IF iterations < CounterBound THEN iterations + 1 ELSE iterations
  /\ UNCHANGED <<program, options, kind, type, cast, returned>>

\* A tensor without value semantics is copied for the return.  The copy does
\* not allow refinement: it keeps the type it was made with.
ReturnIsCopied == returned.value /\ ~program.types[Last].value

\* Mutant: the return is refined before the types are, not again after it.
RefinePublicReturnOnce ==
  /\ phase \in {"return", "return again"}
  /\ returned' = IF ReturnIsCopied \/ phase = "return again" THEN returned ELSE [type[Last] EXCEPT !.value = TRUE]
  /\ phase' = IF phase = "return" /\ options.shapeDtypeRefine THEN "sizes"
              ELSE IF phase = "return" THEN "return again" ELSE "decompose"
  /\ UNCHANGED <<program, options, kind, type, cast, iterations>>

\* torch-refine-public-return: the return reads the value itself, not a cast of it.
RefinePublicReturn ==
  /\ phase \in {"return", "return again"}
  /\ returned' = IF ReturnIsCopied THEN returned ELSE [type[Last] EXCEPT !.value = TRUE]
  /\ phase' = IF phase = "return" /\ options.shapeDtypeRefine THEN "sizes"
              ELSE IF phase = "return" THEN "return again" ELSE "decompose"
  /\ UNCHANGED <<program, options, kind, type, cast, iterations>>

NeedsExactType(v) == v \in program.exact \/ (v = Last /\ ReturnIsCopied)

\* updateCalculateOpResultTypes: a first refinement leaves the users that do not
\* allow it with a cast to the original type.
UpdateResultType(v, t) ==
  /\ type' = [type EXCEPT ![v] = t]
  /\ cast' = IF NeedsExactType(v) /\ cast[v] = {} THEN [cast EXCEPT ![v] = {type[v]}] ELSE cast
  /\ UNCHANGED <<program, options, kind, returned, phase, iterations>>

RefineSizes(v) == phase = "sizes" /\ \E t \in SizeRefinements(v) : UpdateResultType(v, t)

RefineDtype(v) == phase = "dtypes" /\ \E t \in DtypeRefinements(v) : UpdateResultType(v, t)

\* torch-decompose-complex-ops: the result keeps the type it had.
DecomposeOp(v) ==
  /\ phase = "decompose" /\ Decomposable(v)
  /\ kind' = [kind EXCEPT ![v] = "unary"]
  /\ UNCHANGED <<program, options, type, cast, returned, phase, iterations>>

\* Mutant: a refinement ends after any number of rewrites.
NextPassAtAnyTime ==
  /\ \/ phase = "sizes" /\ phase' = "dtypes"
     \/ phase = "dtypes" /\ phase' = "return again"
     \/ /\ phase = "decompose" /\ \A v \in Value(program) : ~Decomposable(v)
        /\ phase' = "check"
  /\ UNCHANGED <<program, options, kind, type, cast, returned, iterations>>

\* A pass ends when none of its patterns applies.
NextPass ==
  /\ \/ /\ phase = "sizes" /\ \A v \in Value(program) : SizeRefinements(v) = {}
        /\ phase' = "dtypes"
     \/ /\ phase = "dtypes" /\ \A v \in Value(program) : DtypeRefinements(v) = {}
        /\ phase' = "return again"
     \/ /\ phase = "decompose" /\ \A v \in Value(program) : ~Decomposable(v)
        /\ phase' = "check"
  /\ UNCHANGED <<program, options, kind, type, cast, returned, iterations>>

\* The condition of the loop.
CheckContract ==
  /\ phase = "check"
  /\ phase' = IF SatisfiesBackendContract THEN "succeeded" ELSE "loop"
  /\ UNCHANGED <<program, options, kind, type, cast, returned, iterations>>

Next ==
  \/ BeginIteration \/ RefinePublicReturn \/ NextPass \/ CheckContract
  \/ \E v \in Value(program) : RefineSizes(v) \/ RefineDtype(v) \/ DecomposeOp(v)

Spec == Init /\ [][Next]_vars

\* A pass is a loop of the compiler: it goes on while there is something to do.
FairSpec == Spec /\ WF_vars(Next)

----------------------------------------------------------------------------
Phase == {"loop", "return", "sizes", "dtypes", "return again", "decompose", "check", "succeeded", "failed"}

\* The state of the pass is well typed; every type has at most one rank and dtype.
TypeOK ==
  /\ kind \in [Value(program) -> Kind]
  /\ DOMAIN type = Value(program) /\ \A v \in Value(program) : IsTensorType(type[v])
  /\ DOMAIN cast = Value(program) /\ \A v \in Value(program) : \A t \in cast[v] : IsTensorType(t)
  /\ IsTensorType(returned)
  /\ phase \in Phase /\ iterations \in 0..CounterBound

(***************************************************************************)
(* Refinement only adds information: the type a value gets is a subtype of *)
(* the one it had, so that every user that was legal stays legal.  A value *)
(* without sizes and without value semantics is the exception: with its    *)
(* dtype it is given value semantics (TorchTypes.cpp:537).                 *)
(***************************************************************************)
TypesOnlyGetMorePrecise ==
  [][\A v \in Value(program) :
       (type[v].value \/ type[v].sizes # {}) => IsValidSubtype(type'[v], type[v])]_vars

(***************************************************************************)
(* What the pass reports, LowerToBackendContract.cpp:291-315: it succeeds  *)
(* only with a program that satisfies the contract, and gives up only when *)
(* maxIterations runs were made and the last one did not reach it.         *)
(***************************************************************************)
OutcomeIsRight ==
  /\ phase = "succeeded" => SatisfiesBackendContract
  /\ phase = "failed" => /\ iterations = options.maxIterations + 1
                         /\ options.maxIterations > 0 => ~SatisfiesBackendContract

\* The pass ends, whatever the program, if the bound on the iterations is not negative.
PassTerminates == options.maxIterations >= 0 ~> phase \in {"succeeded", "failed"}
=============================================================================
