--------------------------- MODULE ValuePipelineMC ----------------------------
(***************************************************************************)
(* Small functions for model checking the passes that take mutation out of *)
(* a function: one or two copies of arguments, up to three ops, and        *)
(* a return of one or two tensors.  Seven positions are kept for each op,  *)
(* for what torch-reduce-op-variants makes of it.                          *)
(***************************************************************************)
EXTENDS ValuePipeline

CONSTANT Families

MCNumOps == 36

Slot(k) == 7 * k - 2           \* the first position kept for the k-th op
ValueOp(k) == Slot(k) + 3      \* where an op with value semantics is put
InPlaceOp(k) == Slot(k) + 6    \* and where any other op is

MkOp(kind, args, type) == [kind |-> kind, args |-> args, type |-> type, block |-> 1]

Prefix(copies) ==
  [o \in Op |->
     CASE o \in {1, 2} -> MkOp("arg", <<>>, "value")
       [] o = 3        -> MkOp("to_tensor", <<1>>, "mutable")
       [] o = 4        -> IF copies = 2 THEN MkOp("to_tensor", <<2>>, "mutable") ELSE NoOp
       [] OTHER        -> NoOp]

\* The ops of the given kinds that may be the k-th one after those of f, each
\* with the position it is put at.
OpsAt(f, k, kinds) ==
  LET mutable == {v \in Op : f[v].type = "mutable"}
      lists   == {v \in Op : f[v].type = "list"}
      upTo2   == {<<>>} \cup {<<v>> : v \in mutable} \cup {<<v, w>> : v, w \in mutable}
      all ==
        {<<ValueOp(k), MkOp("pure", vs, "mutable")>> : vs \in upTo2 \cup {<<l>> : l \in lists}}
          \cup {<<InPlaceOp(k), MkOp("inplace", vs, "mutable")>> : vs \in upTo2 \ {<<>>}}
          \cup {<<InPlaceOp(k), MkOp("list", vs, "list")>> : vs \in upTo2}
          \cup {<<InPlaceOp(k), MkOp("append", <<l, v>>, "list")>> : l \in lists, v \in mutable}
          \cup {<<InPlaceOp(k), MkOp(kind, <<v>>, "mutable")>> : kind \in {"view", "cast"}, v \in mutable}
          \cup {<<InPlaceOp(k), MkOp("other", <<v>>, "none")>> : v \in mutable}
          \cup {<<InPlaceOp(k), MkOp("to_vtensor", <<v>>, "value")>> : v \in mutable}
          \cup {<<InPlaceOp(k), MkOp("overwrite", <<2, v>>, "none")>> : v \in mutable}
  IN  {op \in all : op[2].kind \in kinds}

\* A family: copies at the start, the kinds of each of the ops, and what may be
\* returned besides the last tensor.
Bodies(fam) ==
  LET upTo[n \in 0 .. Len(fam.kinds)] ==
        IF n = 0 THEN {Prefix(fam.copies)}
        ELSE UNION {{[f EXCEPT ![op[1]] = op[2]] : op \in OpsAt(f, n, fam.kinds[n])} :
                      f \in upTo[n - 1]}
  IN  upTo[Len(fam.kinds)]

FunctionsOf(fam) ==
  LET mutable(f) == {v \in Op : f[v].type = "mutable"}
      last(S)    == CHOOSE v \in S : \A w \in S : w <= v
  IN  {[f EXCEPT ![NumOps] = MkOp("return", <<last(mutable(f))>> \o vs, "none")]
         : f \in Bodies(fam), vs \in fam.also}

MCFunctions == FoldSet(LAMBDA fam, fs : fs \cup FunctionsOf(fam), {}, Families)

Tensors == {"pure", "inplace", "view"}
Everything == Tensors \cup {"cast", "other", "to_vtensor", "overwrite"}

OneCopy == [copies |-> 1, kinds |-> <<{"view", "pure"}, {"inplace", "pure"}, Tensors>>,
            also |-> {<<3>>}]
TwoOps == [copies |-> 2, kinds |-> <<Everything, Everything>>, also |-> {<<>>, <<3>>}]
Lists == [copies |-> 1, kinds |-> <<{"list"}, {"inplace", "append"}, {"pure"}>>, also |-> {<<3>>}]
Casts == [copies |-> 1, kinds |-> <<{"cast"}, {"inplace", "view"}, {"inplace", "overwrite", "other"}>>,
          also |-> {<<>>}]
AnyUse == {OneCopy, TwoOps, Lists, Casts}
=============================================================================
