---------------------------- MODULE FxImporterMC ----------------------------
(***************************************************************************)
(* Graphs of two placeholders and three nodes that use them.               *)
(***************************************************************************)
EXTENDS FxImporter

TemporaryAddresses == {101, 102}

Inputs ==
  {<<"buffer", "buffer">>, <<"buffer", "user">>, <<"user", "user">>, <<"parameter", "user">>,
   <<"constant", "constant">>, <<"parameter", "constant">>, <<"constant", "argument">>}

Operands(n, k) == UNION {[1..l -> 1..n] : l \in 1..k}

\* The third node, <<kind, args>>: a call or an attribute of the graph's module.
Third == ({"op", "pair", "hop", "list"} \X Operands(2, 1)) \cup {<<"get_attr", <<>>>>}

\* The fourth takes the third apart, or uses nodes with one result.
Fourth == {<<"getitem", <<3>>>>} \cup ({"op", "cat"} \X Operands(3, 2))

\* The fifth uses the fourth and one before it.
Fifth == {<<"op", <<a, 4>>>> : a \in 1..3}

Graphs5 ==
  {g \in {[kind |-> in \o <<three[1], four[1], five[1]>>,
           args |-> <<<<>>, <<>>, three[2], four[2], five[2]>>, index |-> 1, boolean |-> b] :
             in \in Inputs, three \in Third, four \in Fourth, five \in Fifth, b \in {{}, {1}, {1, 2}, {1, 3}}} :
     /\ (g.kind[4] = "getitem") = (g.kind[3] \in {"pair", "hop", "list"})
     /\ g.kind[4] = "getitem" => g.args[5][1] # 3
     /\ \A b \in g.boolean : g.kind[b] \in {"constant", "get_attr"}}

\* Each of the placeholders is mutated by a node, or by none (0).
Signatures5 ==
  {[mutates |-> {<<t, f[t]>> : t \in {u \in 1..2 : f[u] # 0}}, outputs |-> o] :
     f \in [1..2 -> 0..4], o \in {<<1, 5>>, <<5, 0>>}}

AnyImporter ==
  {[entry |-> "program", hooks |-> "external"], [entry |-> "program", hooks |-> "default"],
   [entry |-> "frozen", hooks |-> "default"]}
=============================================================================
