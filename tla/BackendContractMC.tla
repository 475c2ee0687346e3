------------------------- MODULE BackendContractMC -------------------------
(***************************************************************************)
(* Small programs for model checking torch-lower-to-backend-contract.      *)
(***************************************************************************)
EXTENDS BackendContractMeaning

Op(k, args) == [kind |-> k, args |-> args]

Tensor(sizes, dtype) == [sizes |-> sizes, dtype |-> dtype]

Tensors == {Tensor(s, d) : s \in {<<>>, <<1>>, <<2>>}, d \in {32, 64}}

\* The types that describe a tensor, by how much is known of its sizes.
RankOf(s) == [k \in DOMAIN s |-> UnknownSize]

TypesOf(tensor, value) ==
  {[value |-> value, sizes |-> s, dtype |-> d] :
     s \in {{}, {RankOf(tensor.sizes)}, {tensor.sizes}}, d \in {{}, {tensor.dtype}}}

Nothing(tensor)    == [value |-> TRUE, sizes |-> {}, dtype |-> {}]
Everything(tensor) == [value |-> TRUE, sizes |-> {tensor.sizes}, dtype |-> {tensor.dtype}]
RankAndDtype(tensor) == [value |-> TRUE, sizes |-> {RankOf(tensor.sizes)}, dtype |-> {tensor.dtype}]
RankOnly(tensor)   == [value |-> TRUE, sizes |-> {RankOf(tensor.sizes)}, dtype |-> {}]

Program(ops, types, exact, runtime) ==
  [ops |-> ops, types |-> types, exact |-> exact, runtime |-> runtime]

\* A binary op of two arguments of any type, and an op on its result.
BinaryOps == <<Op("arg", <<>>), Op("arg", <<>>), Op("binary", <<1, 2>>), Op("unary", <<3>>)>>

Combined(t, u) == Tensor(Broadcast(t.sizes, u.sizes), Promote(t.sizes, t.dtype, u.sizes, u.dtype))

BinaryPrograms ==
  UNION {{Program(BinaryOps, <<a, b, c, Nothing(t)>>, {}, <<t, u, Combined(t, u), Combined(t, u)>>) :
            a \in TypesOf(t, TRUE), b \in TypesOf(u, TRUE),
            c \in {Nothing(t), RankOnly(Combined(t, u))}} :
           t \in Tensors, u \in Tensors}

\* Chains of three ops behind an argument, some users need the exact types.
Chain(kinds) ==
  <<Op("arg", <<>>)>> \o [k \in 1..3 |-> Op(kinds[k], IF kinds[k] = "opaque" THEN <<>> ELSE <<k>>)]

T == Tensor(<<2>>, 32)

ChainTypes == {Nothing(T), RankAndDtype(T)}

ChainPrograms ==
  {Program(Chain(ks), <<a, b, c, Nothing(T)>>, x, <<T, T, T, T>>) :
     ks \in [1..3 -> {"unary", "complex", "opaque"}], a \in ChainTypes, b \in ChainTypes, c \in ChainTypes,
     x \in {{}, {2}}}

\* Views of a tensor without value semantics.
MutablePrograms ==
  {Program(<<Op("arg", <<>>), Op("unary", <<1>>)>>, <<a, b>>, x, <<T, T>>) :
     a \in TypesOf(T, FALSE), b \in TypesOf(T, FALSE), x \in SUBSET {1, 2}}

\* The same behind a complex op: a dtype may be known an iteration before the sizes.
MutableChains ==
  {Program(<<Op("arg", <<>>), Op("complex", <<1>>), Op("unary", <<2>>)>>, <<a, b, c>>, {}, <<T, T, T>>) :
     a \in TypesOf(T, FALSE), b \in TypesOf(T, FALSE), c \in TypesOf(T, FALSE)}

AllPrograms == BinaryPrograms \cup ChainPrograms \cup MutablePrograms \cup MutableChains

Opt(max, decompose, refine, legal) ==
  [maxIterations |-> max, decompose |-> decompose, shapeDtypeRefine |-> refine, complexIsLegal |-> legal]

AllOptions ==
  {Opt(max, TRUE, TRUE, FALSE) : max \in -1..4}
    \cup {Opt(2, d, r, l) : d \in BOOLEAN, r \in BOOLEAN, l \in BOOLEAN}
=============================================================================
