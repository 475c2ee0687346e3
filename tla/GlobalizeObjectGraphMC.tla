------------------------ MODULE GlobalizeObjectGraphMC ------------------------
(***************************************************************************)
(* Small programs for model checking torch-globalize-object-graph.  A root *)
(* module with submodules s1 and s2 of one class, each of which may hold a *)
(* leaf module t; a method of each class, and a function pair of two       *)
(* submodules, which may be a method too.  Functions do up to two things   *)
(* each, including calling one another recursively.                        *)
(***************************************************************************)
EXTENDS GlobalizeObjectGraph

CONSTANTS
  Root, Sub, Leaf,             (* classes                                  *)
  s1, s2, t, n,                (* attributes                               *)
  forward, subMethod, leafMethod, pair,   (* functions                     *)
  PairIsMethod,  (* Is pair a method of Sub?                               *)
  Privates,      (* Sets of private methods to choose from.                *)
  WithOther      (* May functions use modules in unsupported ways?         *)

MCClass == {Root, Sub, Leaf}
MCModuleAttr == {s1, s2, t}
MCAttr == MCModuleAttr \cup {n}
MCFunc == {forward, subMethod, leafMethod, pair}
MCInstance == 1 .. 5

ClassOf == [i \in MCInstance |-> CASE i = 1 -> Root [] i \in {2, 3} -> Sub
                                   [] OTHER -> Leaf]

\* Instances 4 and 5 are leaves; a leaf or a submodule may be shared or unused.
Graphs ==
  {[x \in MCInstance \X MCModuleAttr |->
      CASE x = <<1, s1>> -> 2 [] x = <<1, s2>> -> second
        [] x = <<2, t>> -> 4 [] x = <<3, t>> -> leaf [] x = <<1, t>> -> 5
        [] OTHER -> 1]
     : second \in {2, 3}, leaf \in {4, 5}}

\* The root may have a leaf too.
RootAttrs == {<<s1, s2>>, <<s1, s2, t>>}

Path(k, attrs) == [param |-> k, attrs |-> attrs]

Access(k, attrs) == [kind |-> "access", receiver |-> Path(k, attrs), attr |-> n,
                     callee |-> pair, args |-> <<>>]
Call(f, args) == [kind |-> "call", receiver |-> Path(1, <<>>), attr |-> n,
                  callee |-> f, args |-> args]
Other == [kind |-> "other", receiver |-> Path(1, <<>>), attr |-> n,
          callee |-> pair, args |-> <<>>]

Self == Path(1, <<>>)
Second == Path(2, <<>>)

ForwardOps ==
  {Access(1, <<s1>>), Call(subMethod, <<Path(1, <<s1>>)>>),
   Call(subMethod, <<Path(1, <<s2>>)>>),
   Call(pair, <<Path(1, <<s1>>), Path(1, <<s2>>)>>),
   Call(pair, <<Path(1, <<s1>>), Path(1, <<s1>>)>>),
   Call(leafMethod, <<Path(1, <<s2, t>>)>>)}
SubOps == {Access(1, <<>>), Access(1, <<t>>), Call(leafMethod, <<Path(1, <<t>>)>>)}
PairOps == {Call(pair, <<Second, Self>>), Call(subMethod, <<Second>>)}
LeafOps == {Access(1, <<>>)} \cup (IF WithOther THEN {Other} ELSE {})

UpTo(k, S) == {T \in SUBSET S : Cardinality(T) <= k}

Bodies ==
  {[f \in MCFunc |-> CASE f = forward -> fwd [] f = subMethod -> sub
                       [] f = pair -> pr [] OTHER -> lf]
     : fwd \in UpTo(2, ForwardOps), sub \in UpTo(1, SubOps),
       pr \in UpTo(2, PairOps), lf \in UpTo(1, LeafOps)}

MCPrograms ==
  {[class     |-> ClassOf,
    attrs     |-> [c \in MCClass |-> CASE c = Root -> rootAttrs
                                       [] c = Sub -> <<t, n>> [] OTHER -> <<n>>],
    child     |-> graph,
    attrClass |-> [x \in MCClass \X MCModuleAttr |-> IF x[2] = t THEN Leaf ELSE Sub],
    params    |-> [f \in MCFunc |-> CASE f = forward -> <<Root>>
                                      [] f = subMethod -> <<Sub>>
                                      [] f = pair -> <<Sub, Sub>>
                                      [] OTHER -> <<Leaf>>],
    body      |-> body,
    methods   |-> [c \in MCClass |-> CASE c = Root -> {forward}
                     [] c = Sub -> {subMethod} \cup (IF PairIsMethod THEN {pair} ELSE {})
                     [] OTHER -> {leafMethod}],
    private   |-> private]
     : graph \in Graphs, rootAttrs \in RootAttrs, body \in Bodies, private \in Privates}

SomePublic == {{}, {subMethod, leafMethod, pair}}
=============================================================================
