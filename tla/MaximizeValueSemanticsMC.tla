----------------------- MODULE MaximizeValueSemanticsMC -----------------------
(***************************************************************************)
(* Small functions for model checking torch-maximize-value-semantics: two  *)
(* arguments, one or two copies of them, a few ops chosen among every use  *)
(* of the tensors defined before, a snapshot, and a return.                *)
(***************************************************************************)
EXTENDS MaximizeValueSemanticsMeaning, FiniteSetsExt

(***************************************************************************)
(* A family of functions.                                                  *)
(*   len       ops between the copies and the last snapshot                *)
(*   copies    how many of the arguments are copied, 1 or 2                *)
(*   kinds     of the ops in between                                       *)
(*   seconds   may views read a second tensor?                             *)
(*   splits    positions at which a second block may start; past the end   *)
(*             of the function there is only one block                     *)
(*   returned  subset of {"value", "both"}: the snapshot, also after a     *)
(*             mutable tensor                                              *)
(***************************************************************************)
CONSTANT Families

MCNumOps == 14

MkOp(kind, args, type) ==
  [kind |-> kind, args |-> args, type |-> type, block |-> 1]

Typed(f, n, type) == {v \in 1 .. n - 1 : f[v].type = type}

\* The ops that may come at position n of the body after the ops of f.
OpsAt(fam, f, n) ==
  LET mutable == Typed(f, n, "mutable")
      values  == Typed(f, n, "value")
      other   == {2} \cup {v \in values : v > 4}
      seconds == IF fam.seconds THEN {<<>>} \cup {<<v>> : v \in mutable} ELSE {<<>>}
      all == {MkOp("view", <<v>> \o s, "mutable") : v \in mutable, s \in seconds}
               \cup {MkOp("cast", <<v>>, "mutable") : v \in mutable}
               \cup {MkOp("overwrite", <<x, v>>, "none") : x \in other, v \in mutable}
               \cup {MkOp("to_vtensor", <<v>>, "value") : v \in mutable}
               \cup {MkOp("other", <<v>>, "none") : v \in mutable}
  IN  {op \in all : op.kind \in fam.kinds}

Prefix(copies) ==
  <<MkOp("arg", <<>>, "value"), MkOp("arg", <<>>, "value"),
    MkOp("to_tensor", <<1>>, "mutable"),
    IF copies = 2 THEN MkOp("to_tensor", <<2>>, "mutable") ELSE NoOp>>

Bodies(fam) ==
  LET upTo[n \in 0 .. fam.len] ==
        IF n = 0 THEN {Prefix(fam.copies)}
        ELSE UNION {{Append(f, op) : op \in OpsAt(fam, f, 4 + n)} : f \in upTo[n - 1]}
  IN  upTo[fam.len]

\* The body, a snapshot of v, and the return; the second block starts at n.
MkFunction(body, v, args, n) ==
  [o \in Op |->
     [(CASE o <= Len(body)    -> body[o]
         [] o = Len(body) + 1 -> MkOp("to_vtensor", <<v>>, "value")
         [] o = NumOps        -> MkOp("return", args, "none")
         [] OTHER             -> NoOp)
      EXCEPT !.block = IF o < n THEN 1 ELSE 2]]

ReturnedArgs(fam) ==
  LET snapshot == 5 + fam.len
      tensors  == 3 .. snapshot - 1
  IN  (IF "value" \in fam.returned THEN {<<snapshot>>} ELSE {})
        \cup (IF "both" \in fam.returned THEN {<<v, snapshot>> : v \in tensors} ELSE {})

FunctionsOf(fam) ==
  LET snapshot == 5 + fam.len
  IN  {f \in {MkFunction(body, v, args, n) :
                 body \in Bodies(fam), v \in 3 .. snapshot - 1,
                 args \in ReturnedArgs(fam), n \in fam.splits} :
         \A v \in {f[snapshot].args[1], f[NumOps].args[1]} \ {snapshot} :
           IsMutable(f, v)}

MCFunctions == FoldSet(LAMBDA fam, fs : fs \cup FunctionsOf(fam), {}, Families)

Family(len, copies, kinds, seconds, splits, returned) ==
  [len |-> len, copies |-> copies, kinds |-> kinds, seconds |-> seconds,
   splits |-> splits, returned |-> returned]

OneBlock == {99}
TwoBlocks == 5 .. 8
Harmless == {"view", "cast", "to_vtensor"}
Overwriting == {"view", "overwrite", "to_vtensor"}
AllKinds == Harmless \cup {"overwrite", "other"}

OneCopy == Family(3, 1, AllKinds, TRUE, OneBlock, {"value", "both"})
TwoCopies == Family(2, 2, AllKinds, FALSE, TwoBlocks, {"value"})

ReturnedTwice == Family(2, 1, Harmless, FALSE, TwoBlocks, {"both"})
ManyUses == {OneCopy, TwoCopies, ReturnedTwice}
ReturnedBesides == {Family(1, 2, {"view"}, TRUE, OneBlock, {"both"})}
TwoSources == {Family(2, 2, Overwriting, TRUE, OneBlock, {"value"})}
=============================================================================
