----------------------- MODULE BackendContractMeaning -----------------------
(***************************************************************************)
(* What torch-lower-to-backend-contract promises about a program: its      *)
(* types describe the tensors it computes, they are those that inference   *)
(* in program order gives, and enough iterations lower what can be lowered. *)
(*                                                                         *)
(* The programs have a field runtime: value -> the sizes and the dtype of  *)
(* the tensor in one execution.  The pass does not read it.                *)
(***************************************************************************)
EXTENDS BackendContract, FiniteSets

Describes(t, tensor) ==
  /\ \A d \in t.dtype : d = tensor.dtype
  /\ \A s \in t.sizes : IsSubsizes(tensor.sizes, s)

\* What the ops do with the tensors: a complex op keeps sizes and dtype of its operand.
RuntimeIR(p) ==
  /\ DOMAIN p.runtime = Value(p)
  /\ \A v \in Value(p) :
       LET k == p.ops[v].kind
           t(n) == p.runtime[p.ops[v].args[n]]
       IN  /\ p.runtime[v].sizes \in Sizes /\ p.runtime[v].dtype \in Nat
           /\ k \in {"unary", "complex"} => p.runtime[v] = t(1)
           /\ k = "binary" => p.runtime[v] = [sizes |-> Broadcast(t(1).sizes, t(2).sizes),
                                             dtype |-> Promote(t(1).sizes, t(1).dtype, t(2).sizes, t(2).dtype)]
           /\ Describes(p.types[v], p.runtime[v])

ASSUME RuntimeAssumption == \A p \in Programs : RuntimeIR(p)

(***************************************************************************)
(* No type says anything about a tensor that is not so in an execution,    *)
(* for programs whose types were right: also not where a size is unknown   *)
(* to one operand of a broadcast, in whatever order types are refined.     *)
(***************************************************************************)
RefinedTypesAreTrue ==
  /\ \A v \in Value(program) : \A t \in {type[v]} \cup cast[v] : Describes(t, program.runtime[v])
  /\ Describes(returned, program.runtime[Last])

\* One inference of the type of a value from those of its operands.
InferredType(v, types, old) ==
  LET sizes  == UNION {Refinements(old, [old EXCEPT !.sizes = {s}]) : s \in ImpliedSizes(kind[v], Args(v), types)}
      sized  == IF sizes = {} THEN old ELSE CHOOSE t \in sizes : TRUE
      dtypes == UNION {Refinements(sized, [sized EXCEPT !.dtype = {d}]) :
                         d \in ImpliedDtypes(kind[v], Args(v), types)}
  IN  IF dtypes = {} THEN sized ELSE CHOOSE t \in dtypes : TRUE

Inferred ==
  LET types[v \in Value(program)] == InferredType(v, types, program.types[v]) IN types

(***************************************************************************)
(* After the refinement the sizes and dtypes are those of one inference in *)
(* program order from the original types: nothing depends on the order in  *)
(* which the greedy driver visits the ops, on sizes coming before dtypes,  *)
(* or on the iteration in which an op was decomposed.  Value semantics     *)
(* does depend on it: a tensor without sizes gets it with its dtype        *)
(* (TorchTypes.cpp:537), one whose sizes are known before does not.        *)
(***************************************************************************)
TypesAreInferred ==
  phase = "return again" /\ options.shapeDtypeRefine =>
    \A v \in Value(program) : /\ type[v].sizes = Inferred[v].sizes
                             /\ type[v].dtype = Inferred[v].dtype

Complex == {v \in Value(program) : program.ops[v].kind = "complex"}

\* Nothing stands in the way of the contract but types that can be inferred
\* and ops that can be decomposed.
CanBeLowered ==
  /\ options.decompose /\ options.shapeDtypeRefine /\ ~options.complexIsLegal
  /\ \A v \in Value(program) :
       /\ program.types[v].value
       /\ program.ops[v].kind \in {"arg", "opaque"} \/ v \in program.exact => CheckType(program.types[v])

(***************************************************************************)
(* An op behind another complex op has no type before that one is          *)
(* decomposed: one iteration for each of them and one more are enough, and *)
(* negative maxIterations never give up.                                   *)
(***************************************************************************)
EnoughIterations ==
  phase = "failed" /\ CanBeLowered =>
    /\ options.maxIterations >= 0
    /\ options.maxIterations <= Cardinality(Complex)
=============================================================================
