------------------------ MODULE CallingConventionsMC --------------------------
(***************************************************************************)
(* Small modules for model checking: a function of up to one argument and  *)
(* one of two arguments, which call each other or themselves, in either order. *)
(***************************************************************************)
EXTENDS CallingConventions

Args == {<<"tensor", "none">>, <<"tensor", "vtensor">>, <<"tensor", "tensor">>,
         <<"vtensor", "vtensor">>, <<"none", "none">>, <<"pair", "none">>}

Pairs == {<<"tensor", "none">>, <<"tensor", "vtensor">>, <<"none", "none">>}

MkArg(a) == [type |-> a[1], bound |-> a[2]]

ArgLists(n) ==
  IF n = 2 THEN {<<MkArg(a), MkArg(b)>> : a, b \in Pairs}
  ELSE {<<>>} \cup {<<MkArg(a)>> : a \in Args}

Results == {<<"tensor">>, <<"none">>, <<"pair">>}

Signatures(n) == [args : ArgLists(n), results : Results]

\* Only functions of tensors can be called.
IsCallable(sig) ==
  \A i \in DOMAIN sig.args : sig.args[i].type \in {"tensor", "vtensor"}

Call(sigs, k) ==
  IF k = 0 THEN [callee |-> 0, operands |-> <<>>, results |-> <<>>]
  ELSE [callee |-> k, operands |-> SignatureTypes(sigs[k]), results |-> sigs[k].results]

CalleeLists(sigs) ==
  {ks \in {<<>>, <<0>>, <<1>>, <<2, 1>>} :
     \A c \in DOMAIN ks : ks[c] # 0 => IsCallable(sigs[ks[c]])}

ModulesOf(sigs) ==
  {[k \in Func |->
      [args |-> sigs[k].args, results |-> sigs[k].results, returned |-> sigs[k].results,
       calls |-> [c \in DOMAIN callees[k] |-> Call(sigs, callees[k][c])]]]
     : callees \in {cs \in {<<c1, c2>> : c1 \in CalleeLists(sigs), c2 \in CalleeLists(sigs)} :
                      cs[1] # <<0>> \/ cs[2] # <<0>>}}

MCModules ==
  UNION {ModulesOf(sigs) :
           sigs \in {<<s1, s2>> : s1 \in Signatures(1), s2 \in Signatures(2)}}
=============================================================================
