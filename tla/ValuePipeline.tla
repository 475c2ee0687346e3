---------------------------- MODULE ValuePipeline -----------------------------
(***************************************************************************)
(* The passes of the simplification pipeline that take mutation out of a   *)
(* function, one after the other: torch-reduce-op-variants,                *)
(* torch-maximize-value-semantics, torch-refine-public-return.             *)
(***************************************************************************)
EXTENDS ReduceOpVariants, PublicReturn, FiniteSetsExt

PipelineNext == ReduceNext \/ Next \/ RefinePublicReturn

PipelineSpec == StartReducing /\ [][PipelineNext]_vars

-----------------------------------------------------------------------------
\* No list is appended to between its construction and an op that reads it, and
\* no cast has a user besides the one it is made for.  A cast that is written in
\* place gets others: torch-reduce-op-variants makes an op that reads it, the
\* overwrite of it, and has it used by what used the in-place op.
ListsAreNotChanged(f) == \A o \in Op : f[o].kind # "append"

CastsHaveOneUser(f) ==
  \A o \in Op : f[o].kind = "cast" =>
    /\ Cardinality(Users(f, o)) <= 1
    /\ \A u \in Users(f, o) : f[u].kind = "inplace" => f[u].args[1] # o

(***************************************************************************)
(* Every step of every pass is invisible: what the function returns, and   *)
(* what unknown ops are given, has the contents it had at first, whatever  *)
(* is written, aliased or returned twice, and in the end no mutable tensor *)
(* is returned.  Two shapes of functions are excepted.                     *)
(*   Lists that are appended to: torch-reduce-op-variants takes the        *)
(*   elements of the torch.prim.ListConstruct for those of the list        *)
(*   (ReduceOpVariants.cpp:104).                                           *)
(*   Casts with several users: torch-refine-public-return looks through    *)
(*   the cast of a copy without looking at the users of the cast, so that  *)
(*   a copy that is written through its cast is taken for untouched        *)
(*   (RefinePublicReturn.cpp:64).                                          *)
(***************************************************************************)
PipelinePreservesResults ==
  ListsAreNotChanged(source) /\ CastsHaveOneUser(source) =>
    /\ WellTyped(func)
    /\ Observed(source, func) = Observed(source, source)
    /\ status = "refined" => \A k \in DOMAIN ResultTypes(func) : ResultTypes(func)[k] # "mutable"

(***************************************************************************)
(* What the passes are for: a function on tensors that only calls ops with *)
(* value semantics and takes views returns and computes values in the end: *)
(* what is left of mutable tensors is read by nothing but casts of them.   *)
(* Not so when a view reads two tensors: it may be converted for the one   *)
(* and then stand in the way of the other.                                 *)
(***************************************************************************)
FunctionalProgramsBecomeValues ==
  /\ status = "refined"
  /\ \A o \in Op : source[o].kind \notin {"overwrite", "inplace", "append", "other"}
  /\ \A o \in Op : IsViewLikeOp(source, o) => Len(source[o].args) = 1
  => \A o, v \in Op : IsMutable(func, v) /\ Uses(func, o, v) => func[o].kind = "cast"

(***************************************************************************)
(* What is left to do for the greedy driver: ops to erase, copies to       *)
(* rewrite.  A copy that is returned only stays; a rewrite may put a       *)
(* snapshot and a new copy between it and the return, once for every       *)
(* operand of the return.                                                  *)
(***************************************************************************)
Work(f, c) ==
  LET users == Users(f, c)
  IN  IF users = {NumOps} THEN 0
      ELSE IF \A o \in users : f[o].kind = "to_vtensor" THEN 1
      ELSE 2 * Len(f[NumOps].args) + 1

LeftToDo(f) ==
  Cardinality({o \in Op \ Copies(f) : f[o].kind # "none"})
    + MapThenSumSet(LAMBDA c : Work(f, c), Copies(f))

\* Every rewrite of torch-maximize-value-semantics leaves less to do, so that
\* the driver stops, although what is returned is copied again after each.
RewritesMakeProgress ==
  [][status = "rewriting" /\ status' = "rewriting" => LeftToDo(func') < LeftToDo(func)]_vars
=============================================================================
