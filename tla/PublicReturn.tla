---------------------------- MODULE PublicReturn ----------------------------
(***************************************************************************)
(* torch-refine-public-return after torch-maximize-value-semantics: what a *)
(* public function still returns as a mutable tensor, it returns as a      *)
(* value.                                                                  *)
(*                                                                         *)
(* The function is public, has one return and is called by nobody; others  *)
(* are left alone (private) or refused (called, several returns).  The     *)
(* pass also looks through torch.derefine, which no tensor here goes       *)
(* through.                                                                *)
(***************************************************************************)
EXTENDS MaximizeValueSemanticsMeaning

Users(f, v) == {o \in Op : Uses(f, o, v)}

\* Mutant: copies are looked through whoever else uses them.
LookedThroughAlways(f, v) ==
  Through(f, {w \in Op : f[w].kind \in {"cast", "to_tensor"}}, v)

\* Mutant: only casts are looked through.
LookedThroughCasts(f, v) == Through(f, {w \in Op : f[w].kind = "cast"}, v)

\* What the return may read instead of v: what v is a cast of, and what it is
\* a copy of if one op is all that uses the copy.
LookedThrough(f, v) ==
  Through(f, {w \in Op : \/ f[w].kind = "cast"
                         \/ f[w].kind = "to_tensor" /\ Cardinality(Users(f, w)) = 1}, v)

\* rewriteSignature: mutable tensors are copied right before the return.
WithValuesReturned(f) ==
  LET read == [f EXCEPT ![NumOps].args =
                 [k \in DOMAIN @ |-> LookedThrough(f, @[k])]]
      copied[n \in 0 .. Len(f[NumOps].args)] ==
        IF n = 0 THEN read
        ELSE IF IsMutable(copied[n - 1], copied[n - 1][NumOps].args[n])
        THEN ReturnThrough(copied[n - 1], n, MkSnapshot)
        ELSE copied[n - 1]
  IN  copied[Len(f[NumOps].args)]

\* HasRoom is a bound of the model: the snapshots need positions.
RefinePublicReturn ==
  /\ status = "done"
  /\ HasRoom(func)
  /\ func' = WithValuesReturned(func)
  /\ status' = "refined"
  /\ UNCHANGED source
=============================================================================
