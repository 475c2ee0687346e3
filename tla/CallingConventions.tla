-------------------------- MODULE CallingConventions ---------------------------
(***************************************************************************)
(* torch-adjust-calling-conventions: the bounds that users give for the    *)
(* types of arguments become their types, None is neither passed nor       *)
(* returned, a tuple is returned as several results.                       *)
(*                                                                         *)
(* Signatures, calls and returns are rewritten by three patterns, one      *)
(* function after the other, and only the types they agree on are kept     *)
(* here.  When a function cannot be converted it is as it was, the ones    *)
(* before it stay converted, and the pass has failed.                      *)
(*                                                                         *)
(* Tuples are pairs of mutable tensors, and a function returns one thing   *)
(* at most, as those that are imported do.  An argument that is None is    *)
(* not used.  Calls pass tensors only: the conversion framework does not   *)
(* give the pattern for calls operands that become none or several.        *)
(* Arguments keep their positions when others are dropped.                 *)
(***************************************************************************)
EXTENDS Naturals, Sequences

CONSTANTS
  NumFuncs,    (* The functions of a module are numbered in module order.  *)
  MaxArity,    (* Functions have up to this many arguments.                *)
  Modules      (* The modules given to the pass.                           *)

Func == 1 .. NumFuncs

\* "tensor" is mutable, "vtensor" a value, "bounded" a value of the shape and
\* dtype of a bound, "pair" a tuple of two mutable tensors.
Type == {"tensor", "vtensor", "bounded", "none", "pair"}

\* The attribute torch.type_bound of an argument: none, or a type of one of the
\* two domains.
Bound == {"none", "tensor", "vtensor"}

ArgIR == [type : Type, bound : Bound]

\* What there is at each position of a list of arguments or operands.
Positions(S) == UNION {[D -> S] : D \in SUBSET (1 .. MaxArity)}

\* Callee 0 is a func.call_indirect.
CallIR == [callee : Func \cup {0}, operands : Positions(Type), results : Seq(Type)]

FuncIR == [args : Positions(ArgIR), results : Seq(Type),
           calls : Seq(CallIR), returned : Seq(Type)]

\* What func.call and func.return must agree on, as their verifiers demand.
SignatureTypes(f) == [i \in DOMAIN f.args |-> f.args[i].type]

Agrees(m) ==
  \A k \in Func :
    /\ m[k].returned = m[k].results
    /\ \A c \in DOMAIN m[k].calls :
         LET call == m[k].calls[c]
         IN  call.callee # 0 =>
               /\ call.operands = SignatureTypes(m[call.callee])
               /\ call.results = m[call.callee].results

ASSUME ModulesAssumption ==
  /\ NumFuncs \in Nat
  /\ MaxArity \in Nat
  /\ Modules \subseteq [Func -> FuncIR]
  /\ \A m \in Modules :
       /\ Agrees(m)
       /\ \A k \in Func :
            /\ Len(m[k].results) <= 1
            /\ \A c \in DOMAIN m[k].calls :
                 LET operands == m[k].calls[c].operands
                 IN  \A i \in DOMAIN operands : operands[i] \in {"tensor", "vtensor"}

VARIABLES
  source,        (* The module the pass was given, never changed.          *)
  module,        (* The module as rewritten so far.                        *)
  typeBoundMap,  (* The bounds of all arguments, collected at first.       *)
  next,          (* The next function to adjust.                           *)
  status         (* "collecting", "adjusting", "done", "failed", or        *)
                 (* "undefined": a bound that is not there is inspected.   *)

vars == <<source, module, typeBoundMap, next, status>>

-----------------------------------------------------------------------------
\* Result types, as the type converter and the pattern for functions have them.
Flattened(types) ==
  IF types = <<"none">> THEN <<>>
  ELSE IF types = <<"pair">> THEN <<"tensor", "tensor">> ELSE types

\* The legality of func.func: tuples are not looked at.
IsLegalFunc(f) ==
  /\ \A i \in DOMAIN f.args : f.args[i].bound = "none" /\ f.args[i].type # "none"
  /\ \A i \in DOMAIN f.results : f.results[i] # "none"

\* The arguments that the pattern for functions cannot convert; the first one is
\* looked at.
Refused(f) ==
  {i \in DOMAIN f.args : f.args[i].type = "tensor" /\ f.args[i].bound # "vtensor"}

FirstRefused(f) == CHOOSE i \in Refused(f) : \A j \in Refused(f) : i <= j

BoundArgs(f) == {i \in DOMAIN f.args : f.args[i].bound # "none"}

TypeBounds(m) ==
  UNION {{<<k, i, m[k].args[i].bound>> : i \in BoundArgs(m[k])} : k \in Func}

CanConvertFunc(f) == IsLegalFunc(f) \/ Refused(f) = {}

\* Mutant: the bounds are not cleared.
ArgWithBound(a) == [a EXCEPT !.type = IF @ = "tensor" THEN "bounded" ELSE @]

ConvertedArg(a) == [type |-> IF a.type = "tensor" THEN "bounded" ELSE a.type,
                    bound |-> "none"]

\* AdjustCallingConventionForFunc.
ConvertedFunc(f) ==
  IF IsLegalFunc(f) THEN f
  ELSE [f EXCEPT
          !.args = [i \in {i \in DOMAIN f.args : f.args[i].type # "none"}
                      |-> ConvertedArg(f.args[i])],
          !.results = Flattened(f.results)]

\* Mutant: the bound is looked up where the call is converted.
BoundInModule(bounds, callee, i) ==
  IF callee \in Func /\ i \in DOMAIN module[callee].args
  THEN module[callee].args[i].bound ELSE "none"

\* Of the i-th argument of a callee, in a TypeBoundMap.
BoundOf(bounds, callee, i) ==
  IF \E b \in bounds : b[1] = callee /\ b[2] = i
  THEN (CHOOSE b \in bounds : b[1] = callee /\ b[2] = i)[3] ELSE "none"

\* AdjustCallingConventionForCall: operands are copied to the type of the bound.
ConvertedCall(bounds, call) ==
  [call EXCEPT
     !.operands = [i \in DOMAIN @ |->
                     IF BoundOf(bounds, call.callee, i) = "vtensor" THEN "bounded" ELSE @[i]],
     !.results = Flattened(@)]

CanConvertCall(bounds, call) ==
  /\ call.callee # 0
  /\ \A i \in DOMAIN call.operands : BoundOf(bounds, call.callee, i) # "tensor"

CanConvertCalls(bounds, f) ==
  \A c \in DOMAIN f.calls : CanConvertCall(bounds, f.calls[c])

\* One function: its signature, its calls and its return, which is rewritten
\* whether the signature is or not.
Converted(bounds, f) ==
  [ConvertedFunc(f) EXCEPT
     !.calls = [c \in DOMAIN @ |-> ConvertedCall(bounds, @[c])],
     !.returned = Flattened(@)]

-----------------------------------------------------------------------------
Init ==
  /\ source \in Modules
  /\ module = source
  /\ typeBoundMap = {}
  /\ next = 1
  /\ status = "collecting"

CollectBounds ==
  /\ status = "collecting"
  /\ typeBoundMap' = TypeBounds(module)
  /\ status' = "adjusting"
  /\ UNCHANGED <<source, module, next>>

\* The signature cannot be converted: a bound that is no value is refused, one
\* that is missing is asked for its kind.
RefuseFunc(k) ==
  /\ status = "adjusting"
  /\ next = k
  /\ ~ CanConvertFunc(module[k])
  /\ status' = IF module[k].args[FirstRefused(module[k])].bound = "none"
               THEN "undefined" ELSE "failed"
  /\ UNCHANGED <<source, module, typeBoundMap, next>>

\* A call cannot be converted; the signature was, and is as it was again.
RefuseCall(k) ==
  /\ status = "adjusting"
  /\ next = k
  /\ CanConvertFunc(module[k])
  /\ ~ CanConvertCalls(typeBoundMap, module[k])
  /\ status' = "failed"
  /\ UNCHANGED <<source, module, typeBoundMap, next>>

\* adjustCallingConventions.
AdjustFunction(k) ==
  /\ status = "adjusting"
  /\ next = k
  /\ CanConvertFunc(module[k])
  /\ CanConvertCalls(typeBoundMap, module[k])
  /\ module' = [module EXCEPT ![k] = Converted(typeBoundMap, @)]
  /\ next' = next + 1
  /\ UNCHANGED <<source, typeBoundMap, status>>

Finish ==
  /\ status = "adjusting"
  /\ next = NumFuncs + 1
  /\ status' = "done"
  /\ UNCHANGED <<source, module, typeBoundMap, next>>

Next ==
  \/ CollectBounds
  \/ \E k \in Func : AdjustFunction(k) \/ RefuseFunc(k) \/ RefuseCall(k)
  \/ Finish

Spec == Init /\ [][Next]_vars

-----------------------------------------------------------------------------
\* Every variable has its type, and adjusted functions have no bounds.
TypeOK ==
  /\ source \in [Func -> FuncIR]
  /\ module \in [Func -> FuncIR]
  /\ typeBoundMap \subseteq Func \X (1 .. MaxArity) \X Bound
  /\ next \in 1 .. NumFuncs + 1
  /\ status \in {"collecting", "adjusting", "done", "failed", "undefined"}
  /\ \A k \in 1 .. next - 1 : \A i \in DOMAIN module[k].args : module[k].args[i].bound = "none"

(***************************************************************************)
(* Two shapes of functions are not adjusted as they should be.  A function *)
(* that returns a tuple but has no bound keeps its signature, while its    *)
(* return and its callers are adjusted (AdjustCallingConventions.cpp:249). *)
(* An argument that already is a value keeps its type, while callers pass  *)
(* what has the type of its bound (AdjustCallingConventions.cpp:56).       *)
(***************************************************************************)
IsAdjustable(f) ==
  /\ f.results = <<"pair">> => ~ IsLegalFunc(f)
  /\ \A i \in DOMAIN f.args : f.args[i].bound # "none" => f.args[i].type = "tensor"

\* When the pass is done, every call and every return agrees with the signatures
\* of the functions, in every order of callers and callees, and no None or tuple
\* is returned.
SignaturesAgree ==
  status = "done" /\ (\A k \in Func : IsAdjustable(source[k])) =>
    /\ Agrees(module)
    /\ \A k \in Func : \A i \in DOMAIN module[k].results :
         module[k].results[i] \notin {"none", "pair"}
=============================================================================
