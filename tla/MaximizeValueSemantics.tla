------------------------ MODULE MaximizeValueSemantics ------------------------
(***************************************************************************)
(* The torch-maximize-value-semantics pass.  Tensors that can be mutated   *)
(* through aliases are turned into immutable values: two patterns look at  *)
(* what is made of the result of a torch.copy.to_tensor and, when they     *)
(* recognise all of it, rewrite it into ops on values.                     *)
(*                                                                         *)
(* A function is a sequence of ops in program order; an op has at most one *)
(* result, known by the op's number.  MLIR's greedy driver picks the       *)
(* copies in an order that is left open.                                   *)
(***************************************************************************)
EXTENDS Naturals, Sequences, SequencesExt, FiniteSets

CONSTANTS
  NumOps,      (* Positions of a function, the last one is its return.     *)
  Functions    (* The functions the pass may be run on.                    *)

Op == 1 .. NumOps

(***************************************************************************)
(* "none"       nothing (any more)                                         *)
(* "arg"        an argument of the function, a value tensor                *)
(* "to_tensor"  torch.copy.to_tensor: a fresh mutable copy of a value      *)
(* "to_vtensor" torch.copy.to_vtensor: a snapshot of a mutable tensor      *)
(* "view"       a view-like op; it may read a second tensor (expand_as,    *)
(*              narrow.Tensor)                                             *)
(* "cast"       torch.tensor_static_info_cast, also a view-like op         *)
(* "overwrite"  torch.overwrite.tensor.contents value, overwritten         *)
(* "pure"       an op with value semantics, whose result is fresh          *)
(* "inplace"    a trailing underscore variant: it overwrites and returns   *)
(*              its first operand                                          *)
(* "list"       torch.prim.ListConstruct of tensors                        *)
(* "append"     torch.aten.append.t list, tensor                           *)
(* "other"      an op the pass knows nothing about                         *)
(* This pass finds values in pure ops and no inplace ops; lists of mutable *)
(* tensors are unknown to it.                                              *)
(***************************************************************************)
Kind == {"none", "arg", "to_tensor", "to_vtensor", "view", "cast",
         "overwrite", "pure", "inplace", "list", "append", "other", "return"}

\* type is that of the op's result; block is the basic block the op is in.
OpIR == [kind : Kind, args : Seq(Op), type : {"value", "mutable", "list", "none"},
         block : {1, 2}]

Uses(f, o, v) == \E k \in DOMAIN f[o].args : f[o].args[k] = v

Operands(f, o) == {f[o].args[k] : k \in DOMAIN f[o].args}

IsViewLikeOp(f, o) == f[o].kind \in {"view", "cast"}

IsMutable(f, v) == f[v].type = "mutable"

\* What the definitions of the ops say of their operands and results.
WellFormed(f) ==
  \A o \in Op :
    /\ o = NumOps <=> f[o].kind = "return"
    /\ f[o].kind \in {"none", "overwrite", "return"} => f[o].type = "none"
    /\ f[o].kind = "to_tensor" => Len(f[o].args) = 1 /\ f[o].type = "mutable"
    /\ f[o].kind = "to_vtensor" => Len(f[o].args) = 1 /\ f[o].type = "value"
    /\ f[o].kind \in {"view", "cast"} => f[o].type \in {"value", "mutable"}
    /\ f[o].kind = "view" => Len(f[o].args) \in {1, 2}
    /\ f[o].kind = "cast" => Len(f[o].args) = 1
    /\ f[o].kind = "overwrite" => Len(f[o].args) = 2
    /\ f[o].kind = "arg" => f[o].type = "value"
    /\ f[o].kind = "pure" => f[o].type \in {"value", "mutable"}
    /\ f[o].kind = "inplace" => f[o].args # <<>> /\ f[o].type = "mutable"
    /\ f[o].kind \in {"list", "append"} => f[o].type = "list"
    /\ f[o].kind = "append" => Len(f[o].args) = 2
    /\ f[o].kind = "other" => f[o].args # <<>> /\ f[o].type = "none"

(***************************************************************************)
(* What the verifier of the IR demands of the types in a function: a copy  *)
(* goes from one domain to the other, only mutable tensors are written, a  *)
(* view that is mutable is a view of something mutable, an op is defined   *)
(* before it is used, and nothing uses an op that was erased.              *)
(***************************************************************************)
WellTyped(f) ==
  \A o \in Op :
    /\ \A v \in Operands(f, o) : v < o /\ f[v].type # "none"
    /\ CASE f[o].kind = "to_tensor"  -> f[f[o].args[1]].type = "value"
         [] f[o].kind = "to_vtensor" -> IsMutable(f, f[o].args[1])
         [] f[o].kind = "cast"       -> f[f[o].args[1]].type = f[o].type
         [] f[o].kind = "view"       -> IsMutable(f, o)
                                          => IsMutable(f, f[o].args[1])
         [] f[o].kind = "overwrite"  -> /\ f[f[o].args[1]].type = "value"
                                        /\ IsMutable(f, f[o].args[2])
         [] f[o].kind = "inplace"    -> IsMutable(f, f[o].args[1])
         [] OTHER -> TRUE

ASSUME FunctionsAssumption ==
  /\ NumOps \in Nat \ {0}
  /\ \A f \in Functions : f \in [Op -> OpIR] /\ WellFormed(f) /\ WellTyped(f)

VARIABLES
  source,      (* The function the pass was given, never changed.          *)
  func,        (* The function as rewritten so far.                        *)
  status       (* "rewriting", "done", or "undefined": an erased op was    *)
               (* touched and the compiler's behaviour is undefined; the   *)
               (* passes before and after have further ones.               *)

vars == <<source, func, status>>

-----------------------------------------------------------------------------
(* Changes to a function f.                                                *)

MkCopy(v, block) == [kind |-> "to_tensor", args |-> <<v>>, type |-> "mutable",
                     block |-> block]
MkSnapshot(v, block) == [kind |-> "to_vtensor", args |-> <<v>>, type |-> "value",
                         block |-> block]
NoOp == [kind |-> "none", args |-> <<>>, type |-> "none", block |-> 1]

\* f with every operand of every op renamed.
Rename(f, New(_, _)) ==
  [o \in Op |-> [f[o] EXCEPT !.args = [k \in DOMAIN @ |-> New(o, @[k])]]]

Erase(f, S) == [o \in Op |-> IF o \in S THEN NoOp ELSE f[o]]

\* Mutant: converted results are given a type of neither domain.
WithUnknownType(f, S) ==
  [o \in Op |-> IF o \in S THEN [f[o] EXCEPT !.type = "unknown"] ELSE f[o]]

\* Mutant: the results of views keep their mutable types.
WithTypesKept(f, S) == f

WithValueSemantics(f, S) ==
  [o \in Op |-> IF o \in S THEN [f[o] EXCEPT !.type = "value"] ELSE f[o]]

\* Mutant: what is returned is not copied back.
ReturnedUncopied(f, K) == f

\* The positions right before the return that no op is at.
IsFree(f, n) == n < NumOps /\ \A o \in n .. NumOps - 1 : f[o].kind = "none"

\* f with an op that Mk makes of the k-th operand of the return put right before
\* the return, which returns the op's result instead.
ReturnThrough(f, k, Mk(_, _)) ==
  LET free == CHOOSE n \in Op : IsFree(f, n) /\ (n > 1 => ~ IsFree(f, n - 1))
  IN  [f EXCEPT ![free] = Mk(f[NumOps].args[k], f[NumOps].block),
                ![NumOps].args[k] = free]

\* f with the operands of the return numbered in K copied to mutable tensors, by
\* way of a value when they are mutable.
CopyBack(f, k) ==
  IF IsMutable(f, f[NumOps].args[k])
  THEN ReturnThrough(ReturnThrough(f, k, MkSnapshot), k, MkCopy)
  ELSE ReturnThrough(f, k, MkCopy)

CopyReturned(f, K) ==
  LET copied[n \in 0 .. Len(f[NumOps].args)] ==
        IF n = 0 THEN f
        ELSE IF n \in K THEN CopyBack(copied[n - 1], n)
        ELSE copied[n - 1]
  IN  copied[Len(f[NumOps].args)]

\* A bound of the model: a rewrite finds positions before the return for two ops
\* for each of its operands.
HasRoom(f) ==
  LET n == 2 * Len(f[NumOps].args)
  IN  n < NumOps /\ \A o \in NumOps - n .. NumOps - 1 : f[o].kind = "none"

-----------------------------------------------------------------------------
(* AbstractlyInterpretCopyToNonValueTensorOpUsersWithinABlock.             *)

(***************************************************************************)
(* The mutable tensors reached from the copy c by taking views of it: c    *)
(* and the mutable results of view-like ops whose first operand is one of  *)
(* them.                                                                   *)
(***************************************************************************)
Aliases(f, c) ==
  LET isAlias[v \in Op] ==
        \/ v = c
        \/ /\ IsViewLikeOp(f, v)
           /\ IsMutable(f, v)
           /\ f[v].args[1] < v
           /\ isAlias[f[v].args[1]]
  IN  {v \in Op : isAlias[v]}

\* The ops the worklist reaches, the users of the aliases of c.
Slice(f, c) ==
  LET aliases == Aliases(f, c)
  IN  {o \in Op : Operands(f, o) \cap aliases # {}}

\* The mutable tensors an overwrite o gives new contents to: its target and
\* what the target is a cast of.
OverwrittenAliases(f, o) ==
  LET isCast[v \in Op] ==
        \/ v = f[o].args[2]
        \/ \E p \in Op : p > v /\ f[p].kind = "cast"
                           /\ f[p].args[1] = v /\ isCast[p]
  IN  {v \in Op : isCast[v]}

\* Mutant: an overwrite invalidates no alias.
AllAliasesAvailable(f, c, slice, u) ==
  {c} \cup {v \in slice : v < u /\ IsViewLikeOp(f, v) /\ IsMutable(f, v)}

\* The aliases an op u of the slice may use: those made since the last
\* overwrite, and those that overwrite has written.
AvailableAliases(f, c, slice, u) ==
  LET overwrites == {o \in slice : o < u /\ f[o].kind = "overwrite"}
      made(w) == {v \in slice : w < v /\ v < u /\ IsViewLikeOp(f, v)
                                  /\ IsMutable(f, v)}
  IN  IF overwrites = {} THEN {c} \cup made(c)
      ELSE LET w == CHOOSE w \in overwrites : \A o \in overwrites : o <= w
           IN  OverwrittenAliases(f, w) \cup made(w)

\* A mutable view that reads an alias of c must be a view of c.
ViewsHaveCopyAsBase(f, aliases, slice) ==
  \A o \in slice : IsViewLikeOp(f, o) /\ IsMutable(f, o) => o \in aliases

\* abstractlyInterpretSlice.
SliceIsInterpretable(f, c, aliases, slice) ==
  \A u \in slice :
    /\ Operands(f, u) \cap aliases \subseteq AvailableAliases(f, c, slice, u)
    /\ f[u].kind \in {"view", "cast", "to_vtensor", "overwrite", "return"}

\* Mutant: the special case of a copy that is only returned is forgotten.
InterpretableOrReturned(f, c) ==
  LET aliases == Aliases(f, c)
      slice   == Slice(f, c)
  IN  /\ \A o \in slice : f[o].block = f[c].block
      /\ ViewsHaveCopyAsBase(f, aliases, slice)
      /\ SliceIsInterpretable(f, c, aliases, slice)

OnlyReturned(f, c) == Slice(f, c) = {NumOps}

\* Does the first pattern match the copy c?
Interpretable(f, c) ==
  LET aliases == Aliases(f, c)
      slice   == Slice(f, c)
  IN  /\ \A o \in slice : f[o].block = f[c].block
      /\ slice # {NumOps}
      /\ ViewsHaveCopyAsBase(f, aliases, slice)
      /\ SliceIsInterpretable(f, c, aliases, slice)

\* Mutant: overwrites are replaced from the first to the last.
LatestContentsForward(f, W, o, v) ==
  LET writers == {w \in W : w <= o /\ v \in OverwrittenAliases(f, w)}
  IN  IF writers = {} THEN v
      ELSE f[CHOOSE w \in writers : \A x \in writers : w <= x].args[1]

\* The value that an operand v of o becomes when the overwrites W are replaced,
\* from the last to the first, by the value they write.
LatestContents(f, W, o, v) ==
  LET writers == {w \in W : w <= o /\ v \in OverwrittenAliases(f, w)}
  IN  IF writers = {} THEN v
      ELSE f[CHOOSE w \in writers : \A x \in writers : x <= w].args[1]

\* The operand of the first op that is not in S, going up from v.
Through(f, S, v) ==
  LET up[w \in Op] ==
        IF w \in S /\ f[w].args[1] < w THEN up[f[w].args[1]] ELSE w
  IN  up[v]

\* rewriteSlice.
RewriteSlice(f, c) ==
  LET slice      == Slice(f, c)
      overwrites == {o \in slice : f[o].kind = "overwrite"}
      copies     == {c} \cup {o \in slice : f[o].kind = "to_vtensor"}
      views      == {o \in slice : IsViewLikeOp(f, o)}
      returned   == {k \in DOMAIN f[NumOps].args :
                       NumOps \in slice /\ IsMutable(f, f[NumOps].args[k])}
      written    == Rename(f, LAMBDA o, v : LatestContents(f, overwrites, o, v))
      uncopied   == Rename(written, LAMBDA o, v : Through(written, copies, v))
      erased     == Erase(uncopied, overwrites \cup copies)
  IN  CopyReturned(WithValueSemantics(erased, views), returned)

-----------------------------------------------------------------------------
(* RewriteViewLikeSubgraph.                                                *)

\* The ops the worklist hands out: the users of c and of the view-like ops that
\* were handed out, mutable or not.
Visited(f, c) ==
  LET isVisited[o \in Op] ==
        \E v \in Operands(f, o) :
          v = c \/ (IsViewLikeOp(f, v) /\ v < o /\ isVisited[v])
  IN  {o \in Op : isVisited[o]}

\* How often it does: once for every use.
Visits(f, c) ==
  LET visits[o \in Op] ==
        FoldLeft(LAMBDA n, v : n + (IF v = c THEN 1
                                    ELSE IF IsViewLikeOp(f, v) /\ v < o
                                    THEN visits[v] ELSE 0),
                 0, f[o].args)
  IN  visits

\* Mutant: like the first pattern, the second one gives up at block boundaries.
IsSubgraphWithinABlock(f, c) ==
  LET kinds == {f[o].kind : o \in Visited(f, c)}
  IN  /\ kinds \subseteq {"view", "cast", "to_vtensor", "return"}
      /\ kinds \ {"return"} # {}
      /\ \A o \in Visited(f, c) : f[o].block = f[c].block

\* Does the second pattern match the copy c?
IsViewLikeSubgraph(f, c) ==
  LET kinds == {f[o].kind : o \in Visited(f, c)}
  IN  /\ kinds \subseteq {"view", "cast", "to_vtensor", "return"}
      /\ kinds \ {"return"} # {}

\* A to_vtensor handed out twice is replaced twice, after it was erased.
ReplacesErasedOp(f, c) ==
  \E o \in Visited(f, c) : f[o].kind = "to_vtensor" /\ Visits(f, c)[o] > 1

\* The copy itself stays, without users, for the driver to erase.
RewriteSubgraph(f, c) ==
  LET visited   == Visited(f, c)
      views     == {o \in visited : IsViewLikeOp(f, o)}
      snapshots == {o \in visited : f[o].kind = "to_vtensor"}
      unread    == Erase(Rename(f, LAMBDA o, v : Through(f, snapshots, v)),
                         snapshots)
      uncopied  == Rename(unread, LAMBDA o, v : IF v = c THEN f[c].args[1] ELSE v)
      returned  == {k \in DOMAIN uncopied[NumOps].args :
                      /\ NumOps \in visited
                      /\ uncopied[NumOps].args[k] \in views
                      /\ IsMutable(f, uncopied[NumOps].args[k])}
  IN  CopyReturned(WithValueSemantics(uncopied, views), returned)

-----------------------------------------------------------------------------
(* The greedy driver.                                                      *)

Copies(f) == {c \in Op : f[c].kind = "to_tensor"}

\* Ops without users that are known to do no more than read and allocate.
DeadOps(f) ==
  {o \in Op : /\ f[o].kind \in {"to_tensor", "to_vtensor", "cast", "list"}
              /\ \A u \in Op : ~ Uses(f, u, o)}

Init ==
  /\ source \in Functions
  /\ func = source
  /\ status = "rewriting"

\* The first pattern matches the copy c, a torch.copy.to_tensor, and rewrites its
\* slice.
AbstractlyInterpret(c) ==
  /\ status = "rewriting"
  /\ Interpretable(func, c)
  /\ HasRoom(func)
  /\ func' = RewriteSlice(func, c)
  /\ UNCHANGED <<source, status>>

\* The first pattern has failed on c, the second one matches.
RewriteViews(c) ==
  /\ status = "rewriting"
  /\ ~ Interpretable(func, c)
  /\ IsViewLikeSubgraph(func, c)
  /\ HasRoom(func)
  /\ IF ReplacesErasedOp(func, c)
     THEN status' = "undefined" /\ UNCHANGED func
     ELSE func' = RewriteSubgraph(func, c) /\ UNCHANGED status
  /\ UNCHANGED source

\* A dead op is erased when the driver comes by.
EraseDeadOp(o) ==
  /\ status = "rewriting"
  /\ func' = Erase(func, {o})
  /\ UNCHANGED <<source, status>>

\* applyPatternsGreedily returns: nothing is left to rewrite.
Finish ==
  /\ status = "rewriting"
  /\ DeadOps(func) = {}
  /\ \A c \in Copies(func) :
       ~ Interpretable(func, c) /\ ~ IsViewLikeSubgraph(func, c)
  /\ status' = "done"
  /\ UNCHANGED <<source, func>>

Next ==
  \/ \E c \in Copies(func) : AbstractlyInterpret(c) \/ RewriteViews(c)
  \/ \E o \in DeadOps(func) : EraseDeadOp(o)
  \/ Finish

Spec == Init /\ [][Next]_vars

-----------------------------------------------------------------------------
(* Properties.                                                             *)

\* Every variable has its type.
TypeOK ==
  /\ source \in [Op -> OpIR]
  /\ func \in [Op -> OpIR]
  /\ status \in {"reducing", "failed", "rewriting", "done", "undefined", "refined"}

ResultTypes(f) ==
  [k \in DOMAIN f[NumOps].args |-> f[f[NumOps].args[k]].type]

\* The function returns tensors of the types its signature promises.
ReturnsKeepTheirTypes == ResultTypes(func) = ResultTypes(source)

\* Does RewriteSubgraph(f, c) change what is returned by another use than that
\* of a view?  The copy itself becomes a value, and so does a view that is
\* returned in the place of a snapshot of it.
ReturnsBesidesViews(f, c) ==
  \/ Uses(f, NumOps, c)
  \/ \E o \in Visited(f, c) : f[o].kind = "to_vtensor" /\ Uses(f, NumOps, o)

\* Every step leaves the function well typed, and returning tensors of the types
\* it returned before: what was mutable is copied back.  The second pattern does
\* so only for views that are returned.
StaysWellTyped ==
  [][/\ WellTyped(func')
     /\ ResultTypes(func') = ResultTypes(func)
          \/ \E c \in Copies(func) : RewriteViews(c) /\ ReturnsBesidesViews(func, c)]_vars

\* When nothing is written and nothing is unknown, the pass leaves no mutable
\* tensor behind except the copies a function has to return.
ViewsBecomeValues ==
  /\ status = "done"
  /\ \A o \in Op : source[o].kind \notin {"overwrite", "other"}
  => \A o \in Op : IsMutable(func, o) => o \in Copies(func) /\ OnlyReturned(func, o)
=============================================================================
