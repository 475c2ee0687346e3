--------------------------- MODULE ReduceOpVariants ---------------------------
(***************************************************************************)
(* torch-reduce-op-variants: ops with value semantics are made to read and *)
(* give values, and in-place variants become those ops and an overwrite.   *)
(* What is left of mutable tensors is for torch-maximize-value-semantics.  *)
(*                                                                         *)
(* The conversion driver takes the illegal ops in program order; the ops   *)
(* that a pattern creates come next.  When an op cannot be converted, the  *)
(* function is as it was and the pass has failed.                          *)
(*                                                                         *)
(* Tensors are not optional and no op is a torch.operator.  A literal is a *)
(* pure op without operands; the conversion of an in-place result to the   *)
(* dtype of the tensor it overwrites is part of the pure op.               *)
(***************************************************************************)
EXTENDS MaximizeValueSemanticsMeaning

(***************************************************************************)
(* The ops made for an op with value semantics at q are put around it: the *)
(* copies of what it reads, a list of them, the copy of its result.  For   *)
(* an in-place op at o the op with value semantics is put at o - 3 and the *)
(* copy that is written back before o, where the overwrite takes its place.*)
(***************************************************************************)
ValueCopy(q, k) == q - 4 + k
ValueList(q) == q - 1
ResultCopy(q) == q + 1
FunctionalOp(o) == o - 3
Written(o) == o - 1

\* What an op with value semantics reads: its operands or, when that is a list,
\* the operands of the torch.prim.ListConstruct.
IsList(f, v) == f[v].type = "list"

ReadsList(f, q) == \E v \in Operands(f, q) : IsList(f, v)

TensorsRead(f, q) == IF ReadsList(f, q) THEN f[f[q].args[1]].args ELSE f[q].args

\* The target of the conversion.  Only tensors are looked at, not lists.
IsLegal(f, o) ==
  /\ f[o].kind # "inplace"
  /\ f[o].kind = "pure" => \A v \in Operands(f, o) \cup {o} : ~ IsMutable(f, v)

IllegalOps(f) == {o \in Op : ~ IsLegal(f, o)}

\* A list has to come from a torch.prim.ListConstruct.
IsConvertible(f, q) == ReadsList(f, q) => f[f[q].args[1]].kind = "list"

\* f with copies of the mutable tensors among vs for the op q, made at place.
WithCopies(f, q, vs, place) ==
  [o \in Op |->
     IF \E k \in DOMAIN vs : o = ValueCopy(q, k) /\ IsMutable(f, vs[k])
     THEN [kind |-> "to_vtensor", args |-> <<vs[o - ValueCopy(q, 0)]>>,
           type |-> "value", block |-> f[place].block]
     ELSE f[o]]

Copied(f, q, vs) ==
  [k \in DOMAIN vs |-> IF IsMutable(f, vs[k]) THEN ValueCopy(q, k) ELSE vs[k]]

\* ConvertHasValueSemanticsOpsToValueTensors.  An empty list is left as it is,
\* and so is a result that is a value already.
ConvertToValues(f, q) ==
  LET vs      == TensorsRead(f, q)
      read    == Copied(f, q, vs)
      inList  == ReadsList(f, q) /\ vs # <<>>
      copied  == WithCopies(f, q, vs, q)
      copies  == IsMutable(f, q)
      renamed == Rename(copied, LAMBDA o, v : IF v = q /\ copies THEN ResultCopy(q) ELSE v)
      args    == IF inList THEN <<ValueList(q)>>
                 ELSE IF ReadsList(f, q) THEN f[q].args ELSE read
  IN  [o \in Op |->
         IF o = q THEN [f[q] EXCEPT !.args = args, !.type = "value"]
         ELSE IF o = ResultCopy(q) /\ copies THEN MkCopy(q, f[q].block)
         ELSE IF inList /\ o = ValueList(q)
         THEN [f[q] EXCEPT !.kind = "list", !.args = read, !.type = "list"]
         ELSE renamed[o]]

\* Mutant: what used the in-place op uses the result of the new op.
ReduceToNewResult(f, o) ==
  LET q == FunctionalOp(o)
      renamed == Rename(f, LAMBDA u, v : IF v = o THEN q ELSE v)
  IN  [renamed EXCEPT
         ![q] = [f[o] EXCEPT !.kind = "pure"],
         ![Written(o)] = [f[o] EXCEPT !.kind = "to_vtensor", !.args = <<q>>, !.type = "value"],
         ![o] = [f[o] EXCEPT !.kind = "overwrite", !.args = <<Written(o), f[o].args[1]>>,
                             !.type = "none"]]

\* ReduceTrailingUnderscoreInplaceVariant and ReduceNonValueSemanticOps: what
\* used the in-place op uses the tensor that it overwrites.
ReduceInplace(f, o) ==
  LET q    == FunctionalOp(o)
      self == f[o].args[1]
      renamed == Rename(f, LAMBDA u, v : IF v = o THEN self ELSE v)
  IN  [renamed EXCEPT
         ![q] = [f[o] EXCEPT !.kind = "pure"],
         ![Written(o)] = [f[o] EXCEPT !.kind = "to_vtensor", !.args = <<q>>, !.type = "value"],
         ![o] = [f[o] EXCEPT !.kind = "overwrite", !.args = <<Written(o), self>>,
                             !.type = "none"]]

-----------------------------------------------------------------------------
StartReducing ==
  /\ source \in Functions
  /\ func = source
  /\ status = "reducing"

\* The driver converts the first op that is not legal.
Reduce(o) ==
  /\ status = "reducing"
  /\ \A p \in IllegalOps(func) : o <= p
  /\ IF func[o].kind = "inplace"
     THEN func' = ReduceInplace(func, o) /\ UNCHANGED status
     ELSE IF IsConvertible(func, o)
     THEN func' = ConvertToValues(func, o) /\ UNCHANGED status
     ELSE func' = source /\ status' = "failed"
  /\ UNCHANGED source

FinishReducing ==
  /\ status = "reducing"
  /\ IllegalOps(func) = {}
  /\ status' = "rewriting"
  /\ UNCHANGED <<source, func>>

ReduceNext == FinishReducing \/ \E o \in IllegalOps(func) : Reduce(o)
=============================================================================
