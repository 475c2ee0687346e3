--------------------------- MODULE FxImporterProofs ---------------------------
(***************************************************************************)
(* Proofs about FxImporter, for all programs: the variables have their     *)
(* types, nothing is copied, loaded, stored or unpacked twice, and regular *)
(* programs are imported with the right results and contents.              *)
(***************************************************************************)
EXTENDS FxImporter, FiniteSetTheorems, WellFoundedInduction, TLAPS

Emission == [op : {"load", "copy", "store", "unpack"}, node : Node]

(***************************************************************************)
(* Sequences without repetition.                                           *)
(***************************************************************************)
NoTwice(s) == \A i, j \in DOMAIN s : s[i] = s[j] => i = j

LEMMA ConcatElements ==
  ASSUME NEW S, NEW s \in Seq(S), NEW t \in Seq(S), NEW i \in DOMAIN (s \o t)
  PROVE  \/ i \in DOMAIN s /\ (s \o t)[i] = s[i]
         \/ i - Len(s) \in DOMAIN t /\ (s \o t)[i] = t[i - Len(s)]
OBVIOUS

LEMMA ConcatNoTwice ==
  ASSUME NEW S, NEW s \in Seq(S), NEW t \in Seq(S), NoTwice(s), NoTwice(t),
         \A i \in DOMAIN s : \A j \in DOMAIN t : s[i] # t[j]
  PROVE  NoTwice(s \o t)
<1> SUFFICES ASSUME NEW i \in DOMAIN (s \o t), NEW j \in DOMAIN (s \o t),
                    (s \o t)[i] = (s \o t)[j]
             PROVE  i = j
  BY DEF NoTwice
<1>1. \/ i \in DOMAIN s /\ (s \o t)[i] = s[i]
      \/ i - Len(s) \in DOMAIN t /\ (s \o t)[i] = t[i - Len(s)]
  BY ConcatElements
<1>2. \/ j \in DOMAIN s /\ (s \o t)[j] = s[j]
      \/ j - Len(s) \in DOMAIN t /\ (s \o t)[j] = t[j - Len(s)]
  BY ConcatElements
<1>3. i \in Nat /\ j \in Nat /\ Len(s) \in Nat
  OBVIOUS
<1>4. CASE i \in DOMAIN s /\ (s \o t)[i] = s[i] /\ j \in DOMAIN s /\ (s \o t)[j] = s[j]
  BY <1>4 DEF NoTwice
<1>5. CASE /\ i - Len(s) \in DOMAIN t /\ (s \o t)[i] = t[i - Len(s)]
           /\ j - Len(s) \in DOMAIN t /\ (s \o t)[j] = t[j - Len(s)]
  <2>1. i - Len(s) = j - Len(s)
    BY <1>5 DEF NoTwice
  <2> QED BY <1>3, <2>1
<1> QED BY <1>1, <1>2, <1>4, <1>5

LEMMA OneElement ==
  ASSUME NEW S, NEW s \in Seq(S), Len(s) <= 1
  PROVE  NoTwice(s)
<1>1. \A i, j \in DOMAIN s : i = j
  OBVIOUS
<1> QED BY <1>1 DEF NoTwice

(***************************************************************************)
(* The invariant.                                                          *)
(***************************************************************************)
\* What torch.export guarantees of the program.
StaticOK ==
  /\ program.kind \in Seq(Kind)
  /\ program.args \in Seq(Seq(Nat \ {0})) /\ Len(program.args) = Len(program.kind)
  /\ program.index \in {0, 1}
  /\ IsFiniteSet(program.mutates) /\ program.mutates \subseteq Nat \X Nat
  /\ \A m \in program.mutates : /\ m[1] \in Node /\ m[2] \in OneTensor(program)
                                /\ \A o \in program.mutates : o[1] = m[1] => o = m
  /\ \A n \in Node : program.kind[n] = "getitem" => program.args[n][1] \in Node

BindingsOK ==
  /\ v \in [Node \X {0, 1} -> Binding]
  /\ contents \in [Node -> Value]
  /\ attrs \in [Node \cup Address -> Value \cup {Empty}]
  /\ unpacked \subseteq Node
  /\ operands \in Seq(Value)
  /\ \A i \in DOMAIN results : results[i] \in Value
  /\ status \in {"importing", "imported", "raised"}

\* Callbacks are for mutations of the program.
CallbacksOK ==
  /\ onProduced \in [Node -> Node \cup {Output}]
  /\ \A n \in Node : onProduced[n] # Output => <<onProduced[n], n>> \in program.mutates

\* What was emitted has left its trace: in the bindings, or in what is unpacked.
Traced(e) ==
  /\ e.op = "load" => v[<<e.node, 0>>] \notin {Unbound, Lazy}
  /\ e.op = "copy" => v[<<e.node, 0>>] # Unbound
  /\ e.op = "store" => \E n \in Node : <<e.node, n>> \in program.mutates /\ v[<<n, 0>>] # Unbound
  /\ e.op = "unpack" => e.node \in unpacked

EmissionsOK ==
  /\ ir \in Seq(Emission)
  /\ \A i \in DOMAIN ir : Traced(ir[i])
  /\ NoTwice(ir)

FxInv == StaticOK /\ BindingsOK /\ CallbacksOK /\ EmissionsOK

LEMMA TwoElements == \A x \in Value : x # Unbound /\ x # Lazy
<1> SUFFICES ASSUME NEW x \in Value PROVE x # Unbound /\ x # Lazy
  OBVIOUS
<1>1. PICK a \in Nat, b \in Nat : x = <<a, b>>
  BY DEF Value
<1>2. Len(<<a, b>>) = 2 /\ Len(<<>>) = 0 /\ Len(<<0>>) = 1
  OBVIOUS
<1> QED BY <1>1, <1>2 DEF Unbound, Lazy

LEMMA InitStatic == Init => StaticOK
<1> SUFFICES ASSUME Init PROVE StaticOK
  OBVIOUS
<1>1. PICK g \in Graphs, s \in Signatures, c \in Importers :
        /\ Exported(g, s)
        /\ program = [kind |-> g.kind, args |-> g.args, index |-> g.index, boolean |-> g.boolean,
                      mutates |-> s.mutates, outputs |-> s.outputs,
                      entry |-> c.entry, hooks |-> c.hooks]
  BY DEF Init
<1>2. /\ program.kind = g.kind /\ program.args = g.args /\ program.index = g.index
      /\ program.mutates = s.mutates
  BY <1>1
<1>3. g \in GraphIR /\ s \in SignatureIR /\ IsFiniteSet(s.mutates)
  BY FxProgramsAssumption
<1>4. g.kind \in Seq(Kind) /\ g.args \in Seq(Seq(Nat \ {0})) /\ s.mutates \subseteq Nat \X Nat
  BY <1>3 DEF GraphIR, SignatureIR
<1>5. Node = 1 .. Len(g.kind) /\ OneTensor(program) = OneTensor(g)
  BY <1>2 DEF Node, OneTensor
<1>6. /\ Len(g.args) = Len(g.kind) /\ g.index \in {0, 1}
      /\ \A m \in s.mutates : /\ m[1] \in Node /\ m[2] \in OneTensor(program)
                              /\ \A o \in s.mutates : o[1] = m[1] => o = m
  BY <1>1, <1>5 DEF Exported
<1>7. ASSUME NEW n \in Node, g.kind[n] = "getitem"
      PROVE  g.args[n][1] \in Node
  <2>1. Len(g.kind) \in Nat /\ n \in 1 .. Len(g.kind) /\ g.args[n] \in Seq(Nat \ {0})
    BY <1>4, <1>5, <1>6
  <2>2. Len(g.args[n]) = 1 /\ \A i \in DOMAIN g.args[n] : g.args[n][i] \in 1 .. (n - 1)
    BY <1>1, <1>7, <2>1 DEF Exported
  <2>3. g.args[n][1] \in 1 .. (n - 1)
    BY <2>1, <2>2
  <2> QED BY <1>5, <2>1, <2>3
<1> QED BY <1>2, <1>3, <1>4, <1>6, <1>7 DEF StaticOK

LEMMA InitFx == Init => FxInv
<1> SUFFICES ASSUME Init PROVE FxInv
  OBVIOUS
<1>1. StaticOK
  BY InitStatic
<1>2. /\ v = [k \in Node \X {0, 1} |-> Unbound] /\ onProduced = [n \in Node |-> Output]
      /\ unpacked = {} /\ attrs = [a \in Node \cup Address |-> Empty] /\ ir = <<>>
      /\ contents = [n \in Node |-> <<n, 0>>] /\ results = <<>> /\ operands = <<>>
      /\ status = "importing"
  BY DEF Init
<1>3. \A n \in Node : <<n, 0>> \in Value
  BY <1>1 DEF StaticOK, Node, Value
<1>4. BindingsOK
  BY <1>2, <1>3 DEF BindingsOK, Binding
<1>5. CallbacksOK
  BY <1>2 DEF CallbacksOK
<1>6. EmissionsOK
  BY <1>2 DEF EmissionsOK, NoTwice
<1> QED BY <1>1, <1>4, <1>5, <1>6 DEF FxInv

LEMMA InvTypes == FxInv => TypeOK
<1> SUFFICES ASSUME FxInv PROVE TypeOK
  OBVIOUS
<1>1. \A i \in DOMAIN operands : operands[i] \in Value
  BY DEF FxInv, BindingsOK
<1>2. \A i \in DOMAIN ir : ir[i] \in Emission
  BY DEF FxInv, EmissionsOK
<1> QED BY <1>1, <1>2 DEF FxInv, BindingsOK, CallbacksOK, Emission, TypeOK

LEMMA LiteralIsValue ==
  ASSUME FxInv, NEW n \in Node, NEW a \in Addresses(n)
  PROVE  /\ a \in Node \cup Address
         /\ LiteralOf(n, a) \in Value
         /\ Tracked(n, a) \in [Node \cup Address -> Value \cup {Empty}]
<1>1. a \in Node \cup Address
  BY DEF Addresses
<1>2. n \in Nat
  BY DEF FxInv, StaticOK, Node
<1>3. LiteralOf(n, a) \in Value
  BY <1>1, <1>2 DEF LiteralOf, FxInv, BindingsOK, Value
<1> QED BY <1>1, <1>3 DEF Tracked, FxInv, BindingsOK

\* Bindings only grow, so that traces stay.
Grows ==
  /\ program' = program /\ unpacked \subseteq unpacked'
  /\ \A n \in Node : /\ v[<<n, 0>>] # Unbound => v'[<<n, 0>>] # Unbound
                     /\ v[<<n, 0>>] \notin {Unbound, Lazy} => v'[<<n, 0>>] \notin {Unbound, Lazy}

LEMMA TracesStay ==
  ASSUME Grows, NEW e \in Emission, Traced(e)
  PROVE  Traced(e)'
<1>1. e.node \in Node
  BY DEF Emission
<1>2. Node' = Node
  BY DEF Grows, Node
<1> QED BY <1>1, <1>2 DEF Grows, Traced

LEMMA StaticStays ==
  ASSUME StaticOK, program' = program
  PROVE  StaticOK' /\ Node' = Node /\ Emission' = Emission
BY DEF StaticOK, Node, OneTensor, Emission

(***************************************************************************)
(* bind_node_value.                                                        *)
(***************************************************************************)
LEMMA BindKeeps ==
  ASSUME FxInv, NEW n \in Node, NEW values \in Seq(Binding), values # <<>>,
         \A i \in DOMAIN values : values[i] # Unbound,
         n \in OneTensor(program) => Len(values) = 1,
         NEW ops \in Seq(Emission), Len(ops) <= 1,
         \A i \in DOMAIN ops : \/ ops[i].op = "copy" /\ ops[i].node = n
                               \/ ops[i].op = "unpack" /\ ops[i].node \in unpacked' \ unpacked,
         BindNodeValues(n, values, ops),
         unpacked \subseteq unpacked', unpacked' \subseteq Node,
         attrs' \in [Node \cup Address -> Value \cup {Empty}],
         onProduced' \in [Node -> Node \cup {Output}],
         \A x \in Node : onProduced'[x] # Output => <<onProduced'[x], x>> \in program.mutates
  PROVE  FxInv'
<1>1. /\ ~ BindFails(n, values) /\ program' = program /\ results' = results /\ status' = status
      /\ operands' = <<>>
      /\ v' = [k \in DOMAIN v |->
                 IF k[1] = n /\ k[2] < Len(values) THEN values[k[2] + 1] ELSE v[k]]
  BY DEF BindNodeValues
<1>2. v \in [Node \X {0, 1} -> Binding] /\ v[<<n, 0>>] = Unbound
  BY <1>1 DEF FxInv, BindingsOK, BindFails
<1>3. Len(values) \in Nat \ {0} /\ DOMAIN values = 1 .. Len(values)
      /\ \A i \in DOMAIN values : values[i] \in Binding
  OBVIOUS
<1>4. /\ v' \in [Node \X {0, 1} -> Binding]
      /\ \A k \in Node \X {0, 1} :
           v'[k] = IF k[1] = n /\ k[2] < Len(values) THEN values[k[2] + 1] ELSE v[k]
  <2>1. \A k \in Node \X {0, 1} : k[2] \in {0, 1} /\ k[2] + 1 \in {1, 2}
    OBVIOUS
  <2>2. \A k \in Node \X {0, 1} : k[2] < Len(values) => k[2] + 1 \in DOMAIN values
    BY <1>3
  <2> QED BY <1>1, <1>2, <1>3, <2>2
<1>5. <<n, 0>> \in Node \X {0, 1} /\ v'[<<n, 0>>] # Unbound
  <2>1. v'[<<n, 0>>] = values[1] /\ 1 \in DOMAIN values
    BY <1>3, <1>4
  <2> QED BY <2>1

<1>6. Grows
  <2>1. ASSUME NEW x \in Node
        PROVE  /\ v[<<x, 0>>] # Unbound => v'[<<x, 0>>] # Unbound
               /\ v[<<x, 0>>] \notin {Unbound, Lazy} => v'[<<x, 0>>] \notin {Unbound, Lazy}
    <3>1. CASE x = n
      BY <1>2, <3>1
    <3>2. CASE x # n
      <4>1. <<x, 0>> \in Node \X {0, 1} /\ <<x, 0>>[1] # n
        BY <3>2
      <4>2. v'[<<x, 0>>] = v[<<x, 0>>]
        BY <1>4, <4>1
      <4> QED BY <4>2
    <3> QED BY <3>1, <3>2
  <2> QED BY <1>1, <2>1 DEF Grows
<1>7. StaticOK' /\ Node' = Node /\ Emission' = Emission
  BY <1>1, StaticStays DEF FxInv
<1>8. CallbacksOK'
  BY <1>1, <1>7 DEF CallbacksOK
<1>9. ASSUME onProduced[n] # Output
      PROVE  /\ onProduced[n] \in Node /\ <<onProduced[n], n>> \in program.mutates
             /\ Len(values) = 1 /\ values[1] \in Value
  <2>1. onProduced[n] \in Node /\ <<onProduced[n], n>> \in program.mutates
    BY <1>9 DEF FxInv, CallbacksOK
  <2>2. Len(values) = 1
    <3>1. <<onProduced[n], n>>[2] = n
      OBVIOUS
    <3> QED BY <2>1, <3>1 DEF FxInv, StaticOK
  <2>3. values[1] # Lazy /\ values[1] # Unbound /\ values[1] \in Binding
    BY <1>1, <1>3, <1>9, <2>2 DEF BindFails
  <2> QED BY <2>1, <2>2, <2>3 DEF Binding
<1>10. contents' \in [Node -> Value]
  <2>1. CASE onProduced[n] = Output
    BY <2>1 DEF BindNodeValues, FxInv, BindingsOK
  <2>2. CASE onProduced[n] # Output
    <3>1. contents' = [contents EXCEPT ![onProduced[n]] = values[1]]
      BY <1>9, <2>2 DEF BindNodeValues
    <3> QED BY <1>9, <2>2, <3>1 DEF FxInv, BindingsOK
  <2> QED BY <2>1, <2>2
<1>11. BindingsOK'
  BY <1>1, <1>4, <1>7, <1>10 DEF FxInv, BindingsOK
<1>12. ir \in Seq(Emission) /\ NoTwice(ir) /\ \A i \in DOMAIN ir : Traced(ir[i])
  BY DEF FxInv, EmissionsOK
<1>20. PICK mid : mid = ir \o ops
  OBVIOUS
<1>13. /\ mid \in Seq(Emission) /\ NoTwice(mid)
       /\ \A i \in DOMAIN mid : \/ \E j \in DOMAIN ir : mid[i] = ir[j]
                                \/ \E j \in DOMAIN ops : mid[i] = ops[j]
  <2>1. \A i \in DOMAIN ir : \A j \in DOMAIN ops : ir[i] # ops[j]
    <3> SUFFICES ASSUME NEW i \in DOMAIN ir, NEW j \in DOMAIN ops, ir[i] = ops[j]
                 PROVE  FALSE
      OBVIOUS
    <3>1. Traced(ops[j])
      BY <1>12
    <3> QED BY <1>2, <3>1 DEF Traced
  <2>2. NoTwice(ops)
    BY OneElement
  <2>3. NoTwice(mid)
    BY <1>12, <1>20, <2>1, <2>2, ConcatNoTwice
  <2>4. ASSUME NEW i \in DOMAIN mid
        PROVE  \/ \E j \in DOMAIN ir : mid[i] = ir[j]
               \/ \E j \in DOMAIN ops : mid[i] = ops[j]
    BY <1>12, <1>20, ConcatElements
  <2>5. mid \in Seq(Emission)
    BY <1>12, <1>20
  <2> QED BY <2>3, <2>4, <2>5
<1>14. ASSUME NEW i \in DOMAIN mid
       PROVE  mid[i] \in Emission /\ Traced(mid[i])'
  <2>1. mid[i] \in Emission
    BY <1>13
  <2>2. ASSUME NEW j \in DOMAIN ir, mid[i] = ir[j]
        PROVE  Traced(mid[i])'
    <3>1. PICK e \in Emission : e = ir[j] /\ Traced(e)
      BY <1>12
    <3>2. Traced(e)'
      BY <1>6, <3>1, TracesStay
    <3> QED BY <2>2, <3>1, <3>2 DEF Traced
  <2>3. ASSUME NEW j \in DOMAIN ops, mid[i] = ops[j]
        PROVE  Traced(mid[i])'
    <3>1. PICK e : e = ops[j]
      OBVIOUS
    <3>2. \/ e.op = "copy" /\ e.node = n
          \/ e.op = "unpack" /\ e.node \in unpacked'
      BY <3>1
    <3>3. Traced(e)'
      BY <1>5, <3>2 DEF Traced
    <3> QED BY <2>3, <3>1, <3>3
  <2> QED BY <1>13, <2>1, <2>2, <2>3

<1>15. CASE onProduced[n] = Output
  <2>1. ir' = mid
    BY <1>15, <1>20 DEF BindNodeValues
  <2>2. EmissionsOK'
    BY <1>7, <1>13, <1>14, <2>1 DEF EmissionsOK
  <2> QED BY <1>7, <1>8, <1>11, <2>2 DEF FxInv
<1>16. CASE onProduced[n] # Output
  <2>1. PICK t : t = onProduced[n]
    OBVIOUS
  <2>2. t \in Node /\ <<t, n>> \in program.mutates /\ Len(values) = 1
    BY <1>9, <1>16, <2>1
  <2>3. PICK e : e = [op |-> "store", node |-> t]
    OBVIOUS
  <2>4. PICK stores : stores = [i \in 1 .. 1 |-> e]
    OBVIOUS
  <2>5. e \in Emission /\ stores \in Seq(Emission) /\ Len(stores) = 1 /\ \A i \in DOMAIN stores : stores[i] = e
    BY <2>2, <2>3, <2>4 DEF Emission
  <2>6. ir' = mid \o stores
    <3>1. ir' = ir \o ops \o [i \in 1 .. Len(values) |-> [op |-> "store", node |-> onProduced[n]]]
      BY <1>16 DEF BindNodeValues
    <3> QED BY <1>20, <2>1, <2>2, <2>3, <2>4, <3>1
  <2>7. Traced(e)'
    <3>1. <<t, n>> \in program'.mutates /\ v'[<<n, 0>>] # Unbound /\ n \in Node'
      BY <1>1, <1>5, <1>7, <2>2
    <3> QED BY <2>3, <3>1 DEF Traced
  <2>8. \A i \in DOMAIN mid : mid[i] # e
    <3> SUFFICES ASSUME NEW i \in DOMAIN mid, mid[i] = e PROVE FALSE
      OBVIOUS
    <3>1. CASE \E j \in DOMAIN ir : mid[i] = ir[j]
      <4>1. Traced(e)
        BY <1>12, <3>1
      <4>2. PICK x \in Node : <<t, x>> \in program.mutates /\ v[<<x, 0>>] # Unbound
        BY <2>3, <4>1 DEF Traced
      <4>3. x = n
        <5>1. \A m, o \in program.mutates : m[1] = o[1] => m = o
          BY DEF FxInv, StaticOK
        <5>2. <<t, x>>[1] = t /\ <<t, n>>[1] = t /\ <<t, x>>[2] = x /\ <<t, n>>[2] = n
          OBVIOUS
        <5>3. <<t, x>> = <<t, n>>
          BY <2>2, <4>2, <5>1, <5>2
        <5> QED BY <5>2, <5>3
      <4> QED BY <1>2, <4>2, <4>3
    <3>2. CASE \E j \in DOMAIN ops : mid[i] = ops[j]
      BY <2>3, <3>2
    <3> QED BY <1>13, <3>1, <3>2
  <2>9. NoTwice(ir')
    <3>1. NoTwice(stores)
      <4>1. Len(stores) <= 1
        BY <2>5
      <4> QED BY <2>5, <4>1, OneElement
    <3>2. NoTwice(mid \o stores)
      BY <1>13, <2>5, <2>8, <3>1, ConcatNoTwice
    <3> QED BY <2>6, <3>2
  <2>10. ir' \in Seq(Emission)
    BY <1>13, <2>5, <2>6
  <2>11. ASSUME NEW i \in DOMAIN ir', NEW x, x = ir'[i]
         PROVE  Traced(x)'
    <3>1. (\E j \in DOMAIN mid : x = mid[j]) \/ (\E j \in DOMAIN stores : x = stores[j])
      BY <1>13, <2>5, <2>6, <2>11, ConcatElements
    <3>2. ASSUME NEW j \in DOMAIN mid, x = mid[j]
          PROVE  Traced(x)'
      BY <1>14, <3>2
    <3>3. ASSUME x = e
          PROVE  Traced(x)'
      BY <2>7, <3>3
    <3> QED BY <2>5, <3>1, <3>2, <3>3
  <2>12. EmissionsOK'
    <3>1. \A i \in DOMAIN ir' : Traced(ir[i])'
      BY <2>11 DEF Traced
    <3> QED BY <1>7, <2>9, <2>10, <3>1 DEF EmissionsOK
  <2> QED BY <1>7, <1>8, <1>11, <2>12 DEF FxInv
<1> QED BY <1>15, <1>16

LEMMA RaiseKeeps ==
  ASSUME FxInv, Raise
  PROVE  FxInv'
<1>1. /\ program' = program /\ status' = "raised" /\ operands' = operands /\ v' = v
      /\ onProduced' = onProduced /\ unpacked' = unpacked /\ attrs' = attrs /\ ir' = ir
      /\ contents' = contents /\ results' = results
  BY DEF Raise
<1>2. StaticOK' /\ Node' = Node /\ Emission' = Emission
  BY <1>1, StaticStays DEF FxInv
<1>3. BindingsOK' /\ CallbacksOK'
  BY <1>1, <1>2 DEF FxInv, BindingsOK, CallbacksOK
<1>4. EmissionsOK'
  BY <1>1, <1>2 DEF FxInv, EmissionsOK, Traced
<1> QED BY <1>2, <1>3, <1>4 DEF FxInv

\* The binding of one value for which nothing is emitted but what ops says.
LEMMA BindOneKeeps ==
  ASSUME FxInv, NEW n \in Node, NEW x \in Binding, x # Unbound,
         NEW ops \in Seq(Emission), Len(ops) <= 1,
         \A i \in DOMAIN ops : \/ ops[i].op = "copy" /\ ops[i].node = n
                               \/ ops[i].op = "unpack" /\ ops[i].node \in unpacked' \ unpacked,
         BindNodeValues(n, <<x>>, ops),
         unpacked \subseteq unpacked', unpacked' \subseteq Node,
         attrs' \in [Node \cup Address -> Value \cup {Empty}],
         onProduced' \in [Node -> Node \cup {Output}],
         \A y \in Node : onProduced'[y] # Output => <<onProduced'[y], y>> \in program.mutates
  PROVE  FxInv'
<1>1. PICK values : values = <<x>>
  OBVIOUS
<1>2. values \in Seq(Binding) /\ Len(values) = 1 /\ values # <<>> /\ \A i \in DOMAIN values : values[i] = x
  BY <1>1
<1>3. BindNodeValues(n, values, ops)
  BY <1>1
<1> QED BY <1>2, <1>3, BindKeeps

LEMMA SameCallbacks ==
  ASSUME FxInv, onProduced' = onProduced
  PROVE  /\ onProduced' \in [Node -> Node \cup {Output}]
         /\ \A y \in Node : onProduced'[y] # Output => <<onProduced'[y], y>> \in program.mutates
BY DEF FxInv, CallbacksOK

LEMMA SameBindings ==
  ASSUME FxInv
  PROVE  /\ unpacked \subseteq Node /\ attrs \in [Node \cup Address -> Value \cup {Empty}]
         /\ contents \in [Node -> Value] /\ v \in [Node \X {0, 1} -> Binding]
BY DEF FxInv, BindingsOK

LEMMA RegisteredIsMutation ==
  ASSUME FxInv, NEW m \in program.mutates, onProduced' = Registered(m[1], m[2])
  PROVE  /\ onProduced' \in [Node -> Node \cup {Output}]
         /\ \A y \in Node : onProduced'[y] # Output => <<onProduced'[y], y>> \in program.mutates
<1>1. m[1] \in Node /\ m[2] \in Node /\ m = <<m[1], m[2]>>
  BY DEF FxInv, StaticOK, OneTensor, Node
<1> QED BY <1>1 DEF Registered, FxInv, CallbacksOK

LEMMA NoOps == <<>> \in Seq(Emission) /\ Len(<<>>) <= 1 /\ DOMAIN <<>> = {}
OBVIOUS

LEMMA ImportConstantKeeps ==
  ASSUME FxInv, ImportConstant
  PROVE  FxInv'
<1>1. PICK n : n = Current
  OBVIOUS
<1>2. n \in Node
  BY <1>1 DEF ImportConstant, Importing
<1>3. CASE Raise
  BY <1>3, RaiseKeeps
<1>4. ASSUME NEW a \in Addresses(n), BindNodeValues(n, <<LiteralOf(n, a)>>, <<>>),
             attrs' = Tracked(n, a) \/ attrs' = attrs, UNCHANGED <<onProduced, unpacked>>
      PROVE  FxInv'
  <2>1. PICK x : x = LiteralOf(n, a)
    OBVIOUS
  <2>2. x \in Binding /\ x # Unbound /\ attrs' \in [Node \cup Address -> Value \cup {Empty}]
    BY <1>2, <1>4, <2>1, LiteralIsValue, SameBindings, TwoElements DEF Binding
  <2>3. BindNodeValues(n, <<x>>, <<>>) /\ unpacked' = unpacked /\ onProduced' = onProduced
    BY <1>4, <2>1
  <2> QED BY <1>2, <2>2, <2>3, BindOneKeeps, SameCallbacks, SameBindings, NoOps
<1> QED BY <1>1, <1>3, <1>4 DEF ImportConstant

LEMMA BindArgumentKeeps ==
  ASSUME FxInv, BindArgument
  PROVE  FxInv'
<1>1. PICK n : n = Current
  OBVIOUS
<1>2. n \in Node
  BY <1>1 DEF BindArgument, Importing
<1>3. CASE Raise
  BY <1>3, RaiseKeeps
<1>4. ASSUME BindNodeValues(n, <<<<n, 0>>>>, <<>>), UNCHANGED <<onProduced, unpacked, attrs>>
      PROVE  FxInv'
  <2>1. PICK x : x = <<n, 0>>
    OBVIOUS
  <2>2. x \in Binding /\ x # Unbound
    <3>1. x \in Value
      BY <1>2, <2>1 DEF FxInv, StaticOK, Node, Value
    <3> QED BY <3>1, TwoElements DEF Binding
  <2>3. BindNodeValues(n, <<x>>, <<>>) /\ unpacked' = unpacked /\ onProduced' = onProduced /\ attrs' = attrs
    BY <1>4, <2>1
  <2> QED BY <1>2, <2>2, <2>3, BindOneKeeps, SameCallbacks, SameBindings, NoOps
<1> QED BY <1>1, <1>3, <1>4 DEF BindArgument

LEMMA ImportMutableKeeps ==
  ASSUME FxInv, ImportMutableToVtensor
  PROVE  FxInv'
<1>1. PICK m \in MutatedUserInputs :
        /\ m[1] = Current
        /\ IF BindFails(m[1], <<contents[m[1]]>>) THEN Raise
           ELSE /\ BindNodeValues(m[1], <<contents[m[1]]>>, <<[op |-> "copy", node |-> m[1]]>>)
                /\ onProduced' = Registered(m[1], m[2])
                /\ UNCHANGED <<unpacked, attrs>>
  BY DEF ImportMutableToVtensor
<1>2. PICK n, x, ops : n = m[1] /\ x = contents[n] /\ ops = <<[op |-> "copy", node |-> n]>>
  OBVIOUS
<1>3. n \in Node /\ m \in program.mutates
  BY <1>1, <1>2 DEF ImportMutableToVtensor, Importing, MutatedUserInputs
<1>4. x \in Binding /\ x # Unbound
  BY <1>2, <1>3, SameBindings, TwoElements DEF Binding
<1>5. ops \in Seq(Emission) /\ Len(ops) <= 1 /\ \A i \in DOMAIN ops : ops[i].op = "copy" /\ ops[i].node = n
  <2>1. [op |-> "copy", node |-> n] \in Emission
    BY <1>3 DEF Emission
  <2> QED BY <1>2, <2>1
<1>6. CASE Raise
  BY <1>6, RaiseKeeps
<1>7. ASSUME BindNodeValues(n, <<x>>, ops), onProduced' = Registered(m[1], m[2]),
             unpacked' = unpacked, attrs' = attrs
      PROVE  FxInv'
  BY <1>3, <1>4, <1>5, <1>7, BindOneKeeps, RegisteredIsMutation, SameBindings
<1> QED BY <1>1, <1>2, <1>6, <1>7

LEMMA BindLazilyKeeps ==
  ASSUME FxInv, BindLazily
  PROVE  FxInv'
<1>1. PICK n, x : n = Current /\ x = Lazy
  OBVIOUS
<1>2. n \in Node
  BY <1>1 DEF BindLazily, Importing
<1>3. CASE Raise
  BY <1>3, RaiseKeeps
<1>4. x \in Binding /\ x # Unbound
  <2>1. Len(<<0>>) = 1 /\ Len(<<>>) = 0
    OBVIOUS
  <2> QED BY <1>1, <2>1 DEF Binding, Lazy, Unbound
<1>5. ASSUME BindNodeValues(n, <<x>>, <<>>),
             \/ \E m \in program.mutates : onProduced' = Registered(m[1], m[2])
             \/ onProduced' = onProduced,
             unpacked' = unpacked, attrs' = attrs
      PROVE  FxInv'
  <2>1. /\ onProduced' \in [Node -> Node \cup {Output}]
        /\ \A y \in Node : onProduced'[y] # Output => <<onProduced'[y], y>> \in program.mutates
    BY <1>5, SameCallbacks, RegisteredIsMutation
  <2> QED BY <1>2, <1>4, <1>5, <2>1, BindOneKeeps, SameBindings, NoOps
<1>6. ASSUME BindNodeValues(n, <<Lazy>>, <<>>),
             onProduced' = IF \E m \in MutableBuffers : m[1] = n
                           THEN Registered(n, (CHOOSE m \in MutableBuffers : m[1] = n)[2])
                           ELSE onProduced
      PROVE  \/ \E m \in program.mutates : onProduced' = Registered(m[1], m[2])
             \/ onProduced' = onProduced
  <2>1. CASE \E m \in MutableBuffers : m[1] = n
    <3>1. PICK m : m = CHOOSE y \in MutableBuffers : y[1] = n
      OBVIOUS
    <3>2. m \in MutableBuffers /\ m[1] = n
      BY <2>1, <3>1
    <3> QED BY <1>6, <2>1, <3>1, <3>2 DEF MutableBuffers
  <2>2. CASE ~ \E m \in MutableBuffers : m[1] = n
    BY <1>6, <2>2
  <2> QED BY <2>1, <2>2
<1> QED BY <1>1, <1>3, <1>5, <1>6 DEF BindLazily

LEMMA ResultsAreBindings ==
  ASSUME FxInv, NEW n \in Node
  PROVE  /\ ResultsOf(n) \in Seq(Binding) /\ ResultsOf(n) # <<>>
         /\ \A i \in DOMAIN ResultsOf(n) : ResultsOf(n)[i] # Unbound
         /\ n \in OneTensor(program) => Len(ResultsOf(n)) = 1
<1> DEFINE right == \A i \in DOMAIN operands : operands[i] = Meaning(Args(n)[i])
           Result(i) == IF right THEN <<n, i>> ELSE Wrong
<1>1. n \in Nat
  BY DEF FxInv, StaticOK, Node
<1>2. Result(0) \in Value /\ Result(1) \in Value /\ None \in Value
  BY <1>1 DEF Value, Wrong, None
<1> HIDE DEF right
<1>3. PICK x, y : x = Result(0) /\ y = Result(1)
  OBVIOUS
<1>4. ResultsOf(n) \in {<<x, y>>, <<None, y>>, <<x>>}
  BY <1>3 DEF ResultsOf, right
<1>5. program.kind[n] \notin {"pair", "hop"} => ResultsOf(n) = <<x>>
  BY <1>3 DEF ResultsOf, right
<1>6. x \in Binding /\ y \in Binding /\ None \in Binding /\ x # Unbound /\ y # Unbound /\ None # Unbound
  BY <1>2, <1>3, TwoElements DEF Binding
<1>7. n \in OneTensor(program) => program.kind[n] \notin {"pair", "hop"}
  BY DEF OneTensor
<1>8. CASE ResultsOf(n) = <<x>>
  BY <1>6, <1>8
<1>9. CASE ResultsOf(n) = <<x, y>> /\ ~ n \in OneTensor(program)
  BY <1>6, <1>9
<1>10. CASE ResultsOf(n) = <<None, y>> /\ ~ n \in OneTensor(program)
  BY <1>6, <1>10
<1> QED BY <1>4, <1>5, <1>7, <1>8, <1>9, <1>10

LEMMA ImportCallKeeps ==
  ASSUME FxInv, ImportCall
  PROVE  FxInv'
<1>1. PICK n, values : n = Current /\ values = ResultsOf(n)
  OBVIOUS
<1>2. n \in Node
  BY <1>1 DEF ImportCall, Importing
<1>3. CASE Raise
  BY <1>3, RaiseKeeps
<1>4. /\ values \in Seq(Binding) /\ values # <<>>
      /\ \A i \in DOMAIN values : values[i] # Unbound
      /\ n \in OneTensor(program) => Len(values) = 1
  BY <1>1, <1>2, ResultsAreBindings
<1>5. ASSUME BindNodeValues(n, values, <<>>), UNCHANGED <<onProduced, unpacked, attrs>>
      PROVE  FxInv'
  <2>1. onProduced' = onProduced /\ unpacked' = unpacked /\ attrs' = attrs
    BY <1>5
  <2> QED BY <1>2, <1>4, <1>5, <2>1, BindKeeps, SameCallbacks, SameBindings, NoOps
<1> QED BY <1>1, <1>3, <1>5 DEF ImportCall

LEMMA ImportGetitemKeeps ==
  ASSUME FxInv, ImportGetitem
  PROVE  FxInv'
<1>1. PICK n : n = Current
  OBVIOUS
<1>2. PICK ref, isList : ref = Args(n)[1] /\ isList = (program.kind[ref] = "list")
  OBVIOUS
<1>3. PICK x, ops :
        /\ x = IF ~ isList THEN v[<<ref, program.index>>]
               ELSE IF v[<<ref, 0>>] = <<ref, 0>> THEN <<ref, program.index + 1>> ELSE Wrong
        /\ ops = IF isList /\ ref \notin unpacked THEN <<[op |-> "unpack", node |-> ref]>> ELSE <<>>
  OBVIOUS
<1>4. /\ n \in Node /\ program.kind[n] = "getitem"
      /\ IF x \in {Unbound, None} \/ BindFails(n, <<x>>) THEN Raise
         ELSE /\ BindNodeValues(n, <<x>>, ops)
              /\ unpacked' = IF isList THEN unpacked \cup {ref} ELSE unpacked
              /\ UNCHANGED <<onProduced, attrs>>
  BY <1>1, <1>2, <1>3 DEF ImportGetitem, Importing
<1>5. ref \in Node
  <2>1. n # Output
    BY <1>4 DEF Node, Output, FxInv, StaticOK
  <2>2. program.args[n][1] \in Node
    BY <1>4 DEF FxInv, StaticOK
  <2> QED BY <1>2, <2>1, <2>2 DEF Args
<1>6. x \in Binding
  <2>1. <<ref, program.index>> \in Node \X {0, 1}
    BY <1>5 DEF FxInv, StaticOK
  <2>2. v[<<ref, program.index>>] \in Binding
    BY <2>1, SameBindings
  <2>3. <<ref, program.index + 1>> \in Value /\ Wrong \in Value
    BY <1>5 DEF FxInv, StaticOK, Node, Value, Wrong
  <2> QED BY <1>3, <2>2, <2>3 DEF Binding
<1>7. CASE Raise
  BY <1>7, RaiseKeeps
<1>8. ASSUME x # Unbound, BindNodeValues(n, <<x>>, ops),
             unpacked' = IF isList THEN unpacked \cup {ref} ELSE unpacked,
             onProduced' = onProduced, attrs' = attrs
      PROVE  FxInv'
  <2>1. unpacked \subseteq unpacked' /\ unpacked' \subseteq Node
    BY <1>5, <1>8, SameBindings
  <2>2. /\ ops \in Seq(Emission) /\ Len(ops) <= 1
        /\ \A i \in DOMAIN ops : ops[i].op = "unpack" /\ ops[i].node \in unpacked' \ unpacked
    <3>1. CASE isList /\ ref \notin unpacked
      <4>1. PICK e : e = [op |-> "unpack", node |-> ref]
        OBVIOUS
      <4>2. e \in Emission /\ e.op = "unpack" /\ e.node = ref /\ ops = <<e>>
        BY <1>3, <1>5, <3>1, <4>1 DEF Emission
      <4>3. ref \in unpacked' \ unpacked
        BY <1>8, <3>1
      <4> QED BY <4>2, <4>3
    <3>2. CASE ~ (isList /\ ref \notin unpacked)
      BY <1>3, <3>2, NoOps
    <3> QED BY <3>1, <3>2
  <2> QED BY <1>4, <1>6, <1>8, <2>1, <2>2, BindOneKeeps, SameCallbacks, SameBindings
<1> QED BY <1>4, <1>7, <1>8

(***************************************************************************)
(* Operands.                                                               *)
(***************************************************************************)
LEMMA UseOperandKeeps ==
  ASSUME FxInv, NEW n \in Node, NEW value \in Value, UseOperand(value),
         NEW x \in Value, v' = v \/ v' = [v EXCEPT ![<<n, 0>>] = x],
         attrs' \in [Node \cup Address -> Value \cup {Empty}],
         \/ ir' = ir
         \/ /\ v[<<n, 0>>] = Lazy /\ v' = [v EXCEPT ![<<n, 0>>] = x]
            /\ ir' = Append(ir, [op |-> "load", node |-> n])
  PROVE  FxInv'
<1>1. /\ program' = program /\ operands' = Append(operands, value) /\ onProduced' = onProduced
      /\ unpacked' = unpacked /\ contents' = contents /\ results' = results /\ status' = status
  BY DEF UseOperand
<1>2. StaticOK' /\ Node' = Node /\ Emission' = Emission
  BY <1>1, StaticStays DEF FxInv
<1>3. x \in Binding /\ x # Unbound /\ x # Lazy
  BY TwoElements DEF Binding
<1>4. /\ v' \in [Node \X {0, 1} -> Binding]
      /\ \A k \in Node \X {0, 1} : v'[k] = v[k] \/ v'[k] = x
      /\ v' = [v EXCEPT ![<<n, 0>>] = x] => v'[<<n, 0>>] = x
  BY <1>3, SameBindings
<1>5. Grows
  <2>1. \A y \in Node : <<y, 0>> \in Node \X {0, 1}
    OBVIOUS
  <2> QED BY <1>1, <1>3, <1>4, <2>1 DEF Grows
<1>6. BindingsOK' /\ CallbacksOK'
  BY <1>1, <1>2, <1>4 DEF FxInv, BindingsOK, CallbacksOK
<1>7. ir \in Seq(Emission) /\ NoTwice(ir) /\ \A i \in DOMAIN ir : Traced(ir[i])
  BY DEF FxInv, EmissionsOK
<1>8. \A i \in DOMAIN ir : Traced(ir[i]) => \A y : y = ir[i] => Traced(y)'
  <2> SUFFICES ASSUME NEW i \in DOMAIN ir, NEW y, y = ir[i] PROVE Traced(y)'
    OBVIOUS
  <2>1. y \in Emission /\ Traced(y)
    BY <1>7
  <2> QED BY <1>5, <2>1, TracesStay
<1>9. CASE ir' = ir
  <2>1. \A i \in DOMAIN ir' : Traced(ir[i])'
    BY <1>7, <1>8, <1>9 DEF Traced
  <2>2. EmissionsOK'
    BY <1>2, <1>7, <1>9, <2>1 DEF EmissionsOK
  <2> QED BY <1>2, <1>6, <2>2 DEF FxInv
<1>10. CASE /\ v[<<n, 0>>] = Lazy /\ v' = [v EXCEPT ![<<n, 0>>] = x]
            /\ ir' = Append(ir, [op |-> "load", node |-> n])
  <2>1. PICK e : e = [op |-> "load", node |-> n]
    OBVIOUS
  <2>2. e \in Emission /\ e.op = "load" /\ e.node = n
    BY <2>1 DEF Emission
  <2>3. Traced(e)'
    BY <1>3, <1>4, <1>10, <2>2 DEF Traced
  <2>4. \A i \in DOMAIN ir : ir[i] # e
    BY <1>7, <1>10, <2>2 DEF Traced
  <2>5. /\ ir' \in Seq(Emission)
        /\ \A i \in DOMAIN ir' : \/ i \in DOMAIN ir /\ ir'[i] = ir[i]
                                 \/ i = Len(ir) + 1 /\ ir'[i] = e
    BY <1>7, <1>10, <2>1, <2>2
  <2>6. NoTwice(ir')
    BY <1>7, <2>4, <2>5 DEF NoTwice
  <2>7. ASSUME NEW i \in DOMAIN ir', NEW y, y = ir'[i]
        PROVE  Traced(y)'
    BY <1>7, <1>8, <2>3, <2>5, <2>7
  <2>8. EmissionsOK'
    <3>1. \A i \in DOMAIN ir' : Traced(ir[i])'
      BY <2>7 DEF Traced
    <3> QED BY <1>2, <2>5, <2>6, <3>1 DEF EmissionsOK
  <2> QED BY <1>2, <1>6, <2>8 DEF FxInv
<1> QED BY <1>9, <1>10

LEMMA ImportLiteralOperandKeeps ==
  ASSUME FxInv, ImportLiteralOperand
  PROVE  FxInv'
<1>1. PICK n : n = Operand
  OBVIOUS
<1>2. n \in Node
  BY <1>1 DEF ImportLiteralOperand, ImportingOperands
<1>3. CASE Raise
  BY <1>3, RaiseKeeps
<1>4. ASSUME NEW a \in Addresses(n), UseOperand(LiteralOf(n, a)), attrs' = Tracked(n, a),
             v' = v, ir' = ir
      PROVE  FxInv'
  <2>1. PICK x : x = LiteralOf(n, a)
    OBVIOUS
  <2> QED BY <1>2, <1>4, <2>1, LiteralIsValue, UseOperandKeeps
<1> QED BY <1>1, <1>3, <1>4 DEF ImportLiteralOperand

LEMMA ImportGetAttrKeeps ==
  ASSUME FxInv, ImportGetAttr
  PROVE  FxInv'
<1>1. PICK n : n = Operand
  OBVIOUS
<1>2. n \in Node
  BY <1>1 DEF ImportGetAttr, ImportingOperands
<1>3. CASE Raise
  BY <1>3, RaiseKeeps
<1>4. ASSUME NEW a \in Addresses(n), UseOperand(LiteralOf(n, a)), attrs' = Tracked(n, a),
             v' = [v EXCEPT ![<<n, 0>>] = LiteralOf(n, a)], ir' = ir
      PROVE  FxInv'
  <2>1. PICK x : x = LiteralOf(n, a)
    OBVIOUS
  <2> QED BY <1>2, <1>4, <2>1, LiteralIsValue, UseOperandKeeps
<1> QED BY <1>1, <1>3, <1>4 DEF ImportGetAttr

LEMMA ImportInputKeeps ==
  ASSUME FxInv, ImportInput
  PROVE  FxInv'
<1>1. PICK n : n = Operand
  OBVIOUS
<1>2. n \in Node /\ v[<<n, 0>>] = Lazy /\ ir' = Append(ir, [op |-> "load", node |-> n])
  BY <1>1 DEF ImportInput, ImportingOperands
<1>3. ASSUME UseOperand(contents[n]), v' = Resolved(n, contents[n]), attrs' = attrs
      PROVE  FxInv'
  <2>1. PICK x : x = contents[n]
    OBVIOUS
  <2>2. x \in Value /\ UseOperand(x) /\ v' = [v EXCEPT ![<<n, 0>>] = x]
    BY <1>2, <1>3, <2>1, SameBindings DEF Resolved
  <2> QED BY <1>2, <1>3, <2>2, SameBindings, UseOperandKeeps
<1>4. ASSUME NEW a \in Addresses(n), UseOperand(LiteralOf(n, a)), attrs' = Tracked(n, a),
             v' = Resolved(n, LiteralOf(n, a))
      PROVE  FxInv'
  <2>1. PICK x : x = LiteralOf(n, a)
    OBVIOUS
  <2>2. x \in Value /\ UseOperand(x) /\ v' = [v EXCEPT ![<<n, 0>>] = x]
    BY <1>2, <1>4, <2>1, LiteralIsValue DEF Resolved
  <2> QED BY <1>2, <1>4, <2>2, LiteralIsValue, UseOperandKeeps
<1> QED BY <1>1, <1>3, <1>4 DEF ImportInput

LEMMA ResolveNodeValueKeeps ==
  ASSUME FxInv, ResolveNodeValue
  PROVE  FxInv'
<1>1. PICK n : n = Operand
  OBVIOUS
<1>2. n \in Node /\ v[<<n, 0>>] # Lazy
  BY <1>1 DEF ResolveNodeValue, ImportingOperands
<1>3. CASE Raise
  BY <1>3, RaiseKeeps
<1>4. ASSUME v[<<n, 0>>] # Unbound, UseOperand(v[<<n, 0>>]), UNCHANGED <<v, attrs, ir>>
      PROVE  FxInv'
  <2>1. PICK x : x = v[<<n, 0>>]
    OBVIOUS
  <2>2. x \in Value
    <3>1. x \in Binding
      BY <1>2, <2>1, SameBindings
    <3> QED BY <1>2, <1>4, <2>1, <3>1 DEF Binding
  <2>3. UseOperand(x) /\ v' = v /\ attrs' = attrs /\ ir' = ir
    BY <1>4, <2>1
  <2> QED BY <1>2, <2>2, <2>3, SameBindings, UseOperandKeeps
<1> QED BY <1>1, <1>3, <1>4 DEF ResolveNodeValue

LEMMA ImportConstantResultKeeps ==
  ASSUME FxInv, ImportConstantResult
  PROVE  FxInv'
<1> DEFINE skipped == IF program.entry = "program" THEN Cardinality(program.mutates) ELSE 0
           i == Len(operands) + 1 - skipped
<1>1. skipped \in Nat
  BY FS_CardinalityType DEF FxInv, StaticOK
<1>2. Len(operands) \in Nat
  BY DEF FxInv, BindingsOK
<1>3. PICK k \in Int : k = i
  BY <1>1, <1>2
<1>4. CASE Raise
  BY <1>4, RaiseKeeps
<1>5. ASSUME k >= 1, UseOperand(ConstantResult(k)), UNCHANGED <<v, attrs, ir>>
      PROVE  FxInv'
  <2>1. PICK x : x = ConstantResult(k)
    OBVIOUS
  <2>2. x \in Value
    BY <1>3, <1>5, <2>1 DEF ConstantResult, Value
  <2>3. UseOperand(x) /\ v' = v /\ attrs' = attrs /\ ir' = ir
    BY <1>5, <2>1
  <2>4. /\ program' = program /\ operands' = Append(operands, x) /\ onProduced' = onProduced
        /\ unpacked' = unpacked /\ contents' = contents /\ results' = results /\ status' = status
    BY <2>3 DEF UseOperand
  <2>5. StaticOK' /\ Node' = Node /\ Emission' = Emission
    BY <2>4, StaticStays DEF FxInv
  <2>6. BindingsOK' /\ CallbacksOK'
    BY <2>2, <2>3, <2>4, <2>5 DEF FxInv, BindingsOK, CallbacksOK
  <2>7. EmissionsOK'
    BY <2>3, <2>4, <2>5 DEF FxInv, EmissionsOK, Traced
  <2> QED BY <2>5, <2>6, <2>7 DEF FxInv
<1>6. IF k < 1 \/ OutputArgs[k] # NoNode THEN Raise
      ELSE UseOperand(ConstantResult(k)) /\ UNCHANGED <<v, attrs, ir>>
  BY <1>3 DEF ImportConstantResult
<1> QED BY <1>3, <1>4, <1>5, <1>6

LEMMA ReturnKeeps ==
  ASSUME FxInv, ReturnNodeValues
  PROVE  FxInv'
<1>1. /\ program' = program /\ status' = "imported" /\ operands' = operands /\ v' = v
      /\ onProduced' = onProduced /\ unpacked' = unpacked /\ attrs' = attrs /\ ir' = ir
      /\ contents' = contents /\ results' = operands
  BY DEF ReturnNodeValues
<1>2. StaticOK' /\ Node' = Node /\ Emission' = Emission
  BY <1>1, StaticStays DEF FxInv
<1>3. \A i \in DOMAIN operands : operands[i] \in Value
  BY DEF FxInv, BindingsOK
<1>4. BindingsOK' /\ CallbacksOK'
  BY <1>1, <1>2, <1>3 DEF FxInv, BindingsOK, CallbacksOK
<1>5. EmissionsOK'
  BY <1>1, <1>2 DEF FxInv, EmissionsOK, Traced
<1> QED BY <1>2, <1>4, <1>5 DEF FxInv

LEMMA StutterKeeps ==
  ASSUME FxInv, UNCHANGED vars
  PROVE  FxInv'
<1>1. /\ program' = program /\ status' = status /\ operands' = operands /\ v' = v
      /\ onProduced' = onProduced /\ unpacked' = unpacked /\ attrs' = attrs /\ ir' = ir
      /\ contents' = contents /\ results' = results
  BY DEF vars
<1>2. StaticOK' /\ Node' = Node /\ Emission' = Emission
  BY <1>1, StaticStays DEF FxInv
<1>3. BindingsOK' /\ CallbacksOK'
  BY <1>1, <1>2 DEF FxInv, BindingsOK, CallbacksOK
<1>4. EmissionsOK'
  BY <1>1, <1>2 DEF FxInv, EmissionsOK, Traced
<1> QED BY <1>2, <1>3, <1>4 DEF FxInv

LEMMA NextFx == FxInv /\ [Next]_vars => FxInv'
<1> SUFFICES ASSUME FxInv, [Next]_vars PROVE FxInv'
  OBVIOUS
<1>1. CASE ImportConstant
  BY <1>1, ImportConstantKeeps
<1>2. CASE BindArgument
  BY <1>2, BindArgumentKeeps
<1>3. CASE ImportMutableToVtensor
  BY <1>3, ImportMutableKeeps
<1>4. CASE BindLazily
  BY <1>4, BindLazilyKeeps
<1>5. CASE ImportLiteralOperand
  BY <1>5, ImportLiteralOperandKeeps
<1>6. CASE ImportGetAttr
  BY <1>6, ImportGetAttrKeeps
<1>7. CASE ImportInput
  BY <1>7, ImportInputKeeps
<1>8. CASE ResolveNodeValue
  BY <1>8, ResolveNodeValueKeeps
<1>9. CASE ImportConstantResult
  BY <1>9, ImportConstantResultKeeps
<1>10. CASE ImportCall
  BY <1>10, ImportCallKeeps
<1>11. CASE ImportGetitem
  BY <1>11, ImportGetitemKeeps
<1>12. CASE ReturnNodeValues
  BY <1>12, ReturnKeeps
<1>13. CASE UNCHANGED vars
  BY <1>13, StutterKeeps
<1> QED
  BY <1>1, <1>2, <1>3, <1>4, <1>5, <1>6, <1>7, <1>8, <1>9, <1>10, <1>11, <1>12, <1>13
     DEF Next, Done

LEMMA FxCorrect == Spec => []FxInv
<1> QED BY InitFx, NextFx, PTL DEF Spec

\* For every exported program the variables have their types: a callback is for
\* an input that the program mutates, and what is stored is a value.
THEOREM TypeCorrect == Spec => []TypeOK
<1> QED BY FxCorrect, InvTypes, PTL

\* For every exported program, whatever shares a parameter, a buffer, a mutated
\* input or a list: the function loads, copies, stores and unpacks it once.
THEOREM EmittedOnce == Spec => []NothingIsEmittedTwice
<1>1. FxInv => NothingIsEmittedTwice
  BY DEF FxInv, EmissionsOK, NoTwice, NothingIsEmittedTwice
<1> QED BY <1>1, FxCorrect, PTL

(***************************************************************************)
(* The nodes of a set in the order of the graph.                           *)
(***************************************************************************)
\* What holds for 0 and for the successor of every number for which it holds, holds for all.
LEMMA SetInduction ==
  ASSUME NEW S, 0 \in S, \A n \in Nat : n \in S => n + 1 \in S
  PROVE  Nat \subseteq S
<1> DEFINE R == OpToRel(<, Nat)
           T == Nat \ S
<1>1. SUFFICES ASSUME T # {} PROVE FALSE
  OBVIOUS
<1>2. IsWellFoundedOn(R, Nat)
  BY NatLessThanWellFounded
<1>3. PICK x \in T : \A y \in T : ~ (<<y, x>> \in R)
  <2> HIDE DEF R
  <2> QED BY <1>1, <1>2, WFMin
<1>4. \A y \in Nat : y < x => y \notin T
  BY <1>3 DEF OpToRel
<1>5. x \in Nat \ {0}
  OBVIOUS
<1>6. x - 1 \in Nat /\ x - 1 < x /\ (x - 1) + 1 = x
  BY <1>5
<1> QED BY <1>4, <1>6

\* The elements of T, each once, in their order.
Ascends(s, T) ==
  /\ s \in Seq(T)
  /\ \A x \in T : \E i \in DOMAIN s : s[i] = x
  /\ \A i, j \in DOMAIN s : i < j => s[i] < s[j]

LEMMA AscendsFurther ==
  ASSUME NEW n \in Nat \ {0}, NEW S, NEW s, Ascends(s, S \cap 1 .. (n - 1)), n \in S
  PROVE  Ascends(Append(s, n), S \cap 1 .. n)
<1>1. PICK T : T = S \cap 1 .. (n - 1)
  OBVIOUS
<1>2. PICK U : U = S \cap 1 .. n
  OBVIOUS
<1>3. U = T \cup {n} /\ \A x \in T : x \in Nat /\ x < n
  BY <1>1, <1>2
<1>4. s \in Seq(T) /\ Ascends(s, T)
  BY <1>1 DEF Ascends
<1>5. s \in Seq(U)
  BY <1>3, <1>4
<1>6. /\ Append(s, n) \in Seq(U) /\ Len(s) \in Nat
      /\ DOMAIN Append(s, n) = 1 .. (Len(s) + 1) /\ DOMAIN s = 1 .. Len(s)
      /\ Append(s, n)[Len(s) + 1] = n
      /\ \A i \in DOMAIN s : Append(s, n)[i] = s[i] /\ s[i] \in T
  BY <1>3, <1>4, <1>5
<1>7. PICK t : t = Append(s, n)
  OBVIOUS
<1>8. ASSUME NEW x \in U PROVE \E i \in DOMAIN t : t[i] = x
  <2>1. CASE x = n
    BY <1>6, <1>7, <2>1
  <2>2. CASE x \in T
    <3>1. PICK i \in DOMAIN s : s[i] = x
      BY <1>4, <2>2 DEF Ascends
    <3>2. i \in DOMAIN t /\ t[i] = x
      BY <1>6, <1>7, <3>1
    <3> QED BY <3>2
  <2> QED BY <1>3, <2>1, <2>2
<1>9. ASSUME NEW i \in DOMAIN t, NEW j \in DOMAIN t, i < j
      PROVE  t[i] < t[j]
  <2>1. i \in DOMAIN s
    BY <1>6, <1>7, <1>9
  <2>2. CASE j \in DOMAIN s
    BY <1>4, <1>6, <1>7, <1>9, <2>1, <2>2 DEF Ascends
  <2>3. CASE j = Len(s) + 1
    BY <1>3, <1>6, <1>7, <2>1, <2>3
  <2> QED BY <1>6, <1>7, <2>2, <2>3
<1>10. Ascends(t, U)
  BY <1>6, <1>7, <1>8, <1>9 DEF Ascends
<1> QED BY <1>2, <1>7, <1>10

LEMMA OrderedAscends ==
  ASSUME NEW p, Len(p.kind) \in Nat, NEW S, S \subseteq 1 .. Len(p.kind)
  PROVE  Ascends(Ordered(p, S), S)
<1> DEFINE L == Len(p.kind)
           Step(y, n) == IF n \in S THEN Append(y, n) ELSE y
           Is(g) == g = [n \in 0 .. Len(p.kind) |->
                           IF n = 0 THEN <<>>
                           ELSE IF n \in S THEN Append(g[n - 1], n)
                           ELSE g[n - 1]]
           T == {n \in Nat : \E g : \A m \in 0 .. L :
                   m <= n => g[m] = IF m = 0 THEN <<>> ELSE Step(g[m - 1], m)}
<1> HIDE DEF L, Step
<1>0. L \in Nat
  BY DEF L
<1>1. 0 \in T
  <2> DEFINE g == [m \in 0 .. L |-> <<>>]
  <2>1. \A m \in 0 .. L : m <= 0 => m = 0 /\ g[m] = <<>>
    OBVIOUS
  <2> HIDE DEF g
  <2> QED BY <2>1
<1>2. ASSUME NEW n \in Nat, n \in T PROVE n + 1 \in T
  <2>1. PICK g : \A m \in 0 .. L : m <= n => g[m] = IF m = 0 THEN <<>> ELSE Step(g[m - 1], m)
    BY <1>2
  <2> DEFINE r == [m \in 0 .. L |-> IF m = n + 1 THEN Step(g[n], n + 1) ELSE g[m]]
  <2>2. ASSUME NEW m \in 0 .. L, m <= n + 1 PROVE r[m] = IF m = 0 THEN <<>> ELSE Step(r[m - 1], m)
    <3>1. CASE m = n + 1
      <4>1. m - 1 = n /\ n \in 0 .. L /\ n # n + 1 /\ m # 0
        BY <1>0, <3>1
      <4>2. r[n] = g[n] /\ r[m] = Step(g[n], n + 1)
        BY <3>1, <4>1
      <4> HIDE DEF r
      <4> QED BY <3>1, <4>1, <4>2
    <3>2. CASE m # n + 1
      <4>1. m <= n /\ r[m] = g[m]
        BY <1>0, <2>2, <3>2
      <4>2. m # 0 => m - 1 \in 0 .. L /\ m - 1 # n + 1
        BY <1>0, <4>1
      <4>3. m # 0 => r[m - 1] = g[m - 1]
        BY <4>2
      <4> HIDE DEF r
      <4> QED BY <2>1, <4>1, <4>3
    <3> QED BY <3>1, <3>2
  <2> HIDE DEF r
  <2> QED BY <2>2
<1>3. \E g : Is(g)
  <2>1. L \in T
    <3> HIDE DEF T
    <3> QED BY <1>0, <1>1, <1>2, SetInduction
  <2>2. PICK g : \A m \in 0 .. L : m <= L => g[m] = IF m = 0 THEN <<>> ELSE Step(g[m - 1], m)
    BY <2>1
  <2> DEFINE r == [m \in 0 .. L |-> g[m]]
  <2>3. r = [m \in 0 .. L |-> IF m = 0 THEN <<>> ELSE Step(r[m - 1], m)]
    <3>1. ASSUME NEW m \in 0 .. L PROVE r[m] = IF m = 0 THEN <<>> ELSE Step(r[m - 1], m)
      <4>1. m <= L /\ r[m] = g[m] /\ (m # 0 => m - 1 \in 0 .. L)
        BY <1>0
      <4>2. m # 0 => r[m - 1] = g[m - 1]
        BY <4>1
      <4> HIDE DEF r
      <4> QED BY <2>2, <4>1, <4>2
    <3> QED BY <3>1
  <2> HIDE DEF r
  <2>4. Is(r)
    BY <2>3 DEF L, Step
  <2> HIDE DEF Is
  <2> QED BY <2>4
<1> DEFINE h == CHOOSE g : Is(g)
<1>4. Is(h)
  <2> HIDE DEF Is
  <2> QED BY <1>3
<1>5. Ordered(p, S) = h[L]
  BY DEF Ordered, L
<1> HIDE DEF h
<1>6. \A n \in 0 .. L : h[n] = IF n = 0 THEN <<>> ELSE Step(h[n - 1], n)
  BY <1>4 DEF L, Step
<1> DEFINE A == {n \in Nat : n <= L => Ascends(h[n], S \cap 1 .. n)}
<1>7. 0 \in A
  <2>1. h[0] = <<>> /\ S \cap 1 .. 0 = {}
    BY <1>0, <1>6
  <2>2. Ascends(<<>>, {})
    BY DEF Ascends
  <2> QED BY <2>1, <2>2
<1>8. ASSUME NEW n \in Nat, n \in A PROVE n + 1 \in A
  <2> SUFFICES ASSUME n + 1 <= L PROVE Ascends(h[n + 1], S \cap 1 .. (n + 1))
    OBVIOUS
  <2>1. Ascends(h[n], S \cap 1 .. n)
    BY <1>0, <1>8
  <2>2. h[n + 1] = Step(h[n], n + 1)
    <3>1. n + 1 \in 0 .. L /\ n + 1 # 0 /\ (n + 1) - 1 = n
      BY <1>0
    <3> QED BY <1>6, <3>1
  <2>3. CASE n + 1 \in S
    <3>1. h[n + 1] = Append(h[n], n + 1) /\ n + 1 \in Nat \ {0} /\ (n + 1) - 1 = n
      BY <2>2, <2>3 DEF Step
    <3> QED BY <2>1, <2>3, <3>1, AscendsFurther
  <2>4. CASE n + 1 \notin S
    <3>1. h[n + 1] = h[n]
      BY <2>2, <2>4 DEF Step
    <3>2. S \cap 1 .. (n + 1) = S \cap 1 .. n
      BY <2>4
    <3> QED BY <2>1, <3>1, <3>2
  <2> QED BY <2>3, <2>4
<1>9. L \in A
  <2> HIDE DEF A
  <2> QED BY <1>0, <1>7, <1>8, SetInduction
<1>10. S \cap 1 .. L = S
  BY DEF L
<1>11. Ascends(h[L], S \cap 1 .. L)
  BY <1>0, <1>9
<1> QED BY <1>5, <1>10, <1>11

(***************************************************************************)
(* Regular programs are imported.                                          *)
(***************************************************************************)
\* What is assumed of programs and importers.
ProgramOK ==
  /\ Exported(program, program)
  /\ program.outputs \in Seq(Nat)
  /\ program.entry \in {"program", "frozen"} /\ program.hooks \in {"default", "external"}
  /\ Address \cap Node = {}

\* The nodes that are bound in the order of the schedule, and those that are not yet.
Scheduled == Call \cup IF program.entry = "program" THEN Placeholder ELSE {"user", "buffer", "argument"}
Pending == {todo[i] : i \in DOMAIN todo}
IsCall(n) == program.kind[n] \in Call

\* Placeholders are first, then the calls in the order of the graph, then the output.
IsSchedule(s) ==
  /\ s \in Seq(Node \cup {Output}) /\ s # <<>>
  /\ NoTwice(s)
  /\ s[Len(s)] = Output
  /\ \A i \in DOMAIN s : s[i] # Output => program.kind[s[i]] \in Scheduled
  /\ \A i, j \in DOMAIN s : i < j /\ s[j] # Output /\ IsCall(s[i]) => IsCall(s[j]) /\ s[i] < s[j]

BoundInOrder ==
  /\ \A n \in Node : program.kind[n] \in Scheduled => (v[<<n, 0>>] = Unbound <=> n \in Pending)
  /\ \A a, b \in Node : IsCall(b) /\ b \notin Pending /\ (IsCall(a) => a < b) => a \notin Pending

\* What a node is bound to: its value, or a callable that will read it.
First(n) == IF program.kind[n] = "hop" THEN None ELSE Meaning(n)

ValuesRight ==
  /\ \A n \in Node :
       \/ v[<<n, 0>>] \in {Unbound, First(n)}
       \/ v[<<n, 0>>] = Lazy /\ program.entry = "program" /\ program.kind[n] \in {"parameter", "buffer"}
  /\ \A n \in Node : program.kind[n] \in {"pair", "hop"} /\ v[<<n, 0>>] # Unbound => v[<<n, 1>>] = <<n, 1>>

\* The data that is found for a tensor is its own.
AttrsRight ==
  /\ \A n \in Node : attrs[n] \in {Empty, <<n, 0>>}
  /\ \A a \in Address : attrs[a] = Empty \/ \E n \in program.boolean : attrs[a] = <<n, 0>>

OperandsRight ==
  /\ Len(operands) <= Len(Args(Current))
  /\ \A i \in DOMAIN operands :
       operands[i] = IF Args(Current)[i] = NoNode THEN ConstantResult(i) ELSE Meaning(Args(Current)[i])

\* What a call uses has been read when the call is bound.
OperandsAreRead ==
  /\ \A u \in Node : v[<<u, 0>>] # Unbound =>
       \A i \in DOMAIN program.args[u] : v[<<program.args[u][i], 0>>] # Lazy
  /\ \A i \in DOMAIN operands : Args(Current)[i] \in Node => v[<<Args(Current)[i], 0>>] # Lazy

CallbacksRight ==
  IF program.entry = "program"
  THEN \A m \in program.mutates : v[<<m[1], 0>>] # Unbound => onProduced[m[2]] = m[1]
  ELSE \A n \in Node : onProduced[n] = Output

\* What is mutated has its new value from the moment the value is bound.
ContentsRight ==
  program.entry = "program" =>
    /\ \A m \in program.mutates : v[<<m[2], 0>>] # Unbound => contents[m[1]] = Meaning(m[2])
    /\ \A t \in Node : (\A m \in program.mutates : m[1] = t => v[<<m[2], 0>>] = Unbound)
                         => contents[t] = <<t, 0>>

\* An attribute is bound by the one operand that it is.
AttributesRight ==
  \A t \in Node : program.kind[t] = "get_attr" /\ v[<<t, 0>>] # Unbound =>
    \E u \in Node : \E i \in DOMAIN program.args[u] :
      /\ program.args[u][i] = t
      /\ v[<<u, 0>>] # Unbound \/ (u = Current /\ i <= Len(operands))

StatusRight ==
  /\ status # "raised"
  /\ status = "imported" => /\ Current = Output /\ Len(operands) = Len(Args(Output))
                            /\ results = operands

ImportInv ==
  /\ IsSchedule(todo) /\ BoundInOrder /\ ValuesRight /\ AttrsRight /\ OperandsRight
  /\ OperandsAreRead /\ CallbacksRight /\ ContentsRight /\ AttributesRight /\ StatusRight

Imports == FxInv /\ ProgramOK /\ Regular /\ ImportInv

\* The nodes of the kinds K, each once.
NodesOf(s, K) ==
  /\ s \in Seq(Node)
  /\ NoTwice(s)
  /\ \A i \in DOMAIN s : program.kind[s[i]] \in K
  /\ \A n \in Node : program.kind[n] \in K => \E i \in DOMAIN s : s[i] = n

LEMMA ConcatIndices ==
  ASSUME NEW S, NEW s \in Seq(S), NEW t \in Seq(S)
  PROVE  /\ s \o t \in Seq(S)
         /\ \A i \in DOMAIN s : i \in DOMAIN (s \o t) /\ (s \o t)[i] = s[i]
         /\ \A i \in DOMAIN t : Len(s) + i \in DOMAIN (s \o t) /\ (s \o t)[Len(s) + i] = t[i]
OBVIOUS

LEMMA NodesOfConcat ==
  ASSUME NEW K, NEW M, K \cap M = {}, NEW s, NEW t, NodesOf(s, K), NodesOf(t, M)
  PROVE  NodesOf(s \o t, K \cup M)
<1>1. s \in Seq(Node) /\ t \in Seq(Node) /\ NoTwice(s) /\ NoTwice(t)
  BY DEF NodesOf
<1>2. s \o t \in Seq(Node)
  BY <1>1
<1>3. NoTwice(s \o t)
  <2>1. \A i \in DOMAIN s : \A j \in DOMAIN t : s[i] # t[j]
    BY DEF NodesOf
  <2> QED BY <1>1, <2>1, ConcatNoTwice
<1>4. ASSUME NEW i \in DOMAIN (s \o t) PROVE program.kind[(s \o t)[i]] \in K \cup M
  <2>1. \/ i \in DOMAIN s /\ (s \o t)[i] = s[i]
        \/ i - Len(s) \in DOMAIN t /\ (s \o t)[i] = t[i - Len(s)]
    BY <1>1, ConcatElements
  <2> QED BY <2>1 DEF NodesOf
<1>5. ASSUME NEW n \in Node, program.kind[n] \in K \cup M
      PROVE  \E i \in DOMAIN (s \o t) : (s \o t)[i] = n
  <2>1. CASE program.kind[n] \in K
    <3>1. PICK i \in DOMAIN s : s[i] = n
      BY <2>1 DEF NodesOf
    <3>2. i \in DOMAIN (s \o t) /\ (s \o t)[i] = n
      BY <1>1, <3>1, ConcatIndices
    <3> QED BY <3>2
  <2>2. CASE program.kind[n] \in M
    <3>1. PICK i \in DOMAIN t : t[i] = n
      BY <2>2 DEF NodesOf
    <3>2. Len(s) + i \in DOMAIN (s \o t) /\ (s \o t)[Len(s) + i] = n
      BY <1>1, <3>1, ConcatIndices
    <3> QED BY <3>2
  <2> QED BY <1>5, <2>1, <2>2
<1> QED BY <1>2, <1>3, <1>4, <1>5 DEF NodesOf

LEMMA InOrderNodes ==
  ASSUME Len(program.kind) \in Nat, NEW K
  PROVE  /\ NodesOf(InOrder(program, K), K)
         /\ \A i, j \in DOMAIN InOrder(program, K) : i < j => InOrder(program, K)[i] < InOrder(program, K)[j]
<1> DEFINE S == {n \in 1 .. Len(program.kind) : program.kind[n] \in K}
<1>1. PICK s : s = InOrder(program, K)
  OBVIOUS
<1>2. Ascends(s, S)
  <2>1. S \subseteq 1 .. Len(program.kind)
    OBVIOUS
  <2>2. s = Ordered(program, S)
    BY <1>1 DEF InOrder
  <2> HIDE DEF S
  <2> QED BY <2>1, <2>2, OrderedAscends
<1>3. s \in Seq(S) /\ \A i \in DOMAIN s : s[i] \in S
  BY <1>2 DEF Ascends
<1>4. S \subseteq Node /\ Node \subseteq Nat
  BY DEF Node
<1>5. s \in Seq(Node)
  BY <1>3, <1>4
<1>6. \A i, j \in DOMAIN s : i < j => s[i] < s[j]
  BY <1>2 DEF Ascends
<1>7. NoTwice(s)
  <2> SUFFICES ASSUME NEW i \in DOMAIN s, NEW j \in DOMAIN s, s[i] = s[j] PROVE i = j
    BY DEF NoTwice
  <2>1. i \in Nat /\ j \in Nat /\ s[i] \in Nat /\ s[j] \in Nat
    BY <1>3, <1>4
  <2> QED BY <1>6, <2>1
<1>8. \A i \in DOMAIN s : program.kind[s[i]] \in K
  BY <1>3
<1>9. \A n \in Node : program.kind[n] \in K => \E i \in DOMAIN s : s[i] = n
  BY <1>2 DEF Ascends, Node
<1>10. NodesOf(s, K)
  BY <1>5, <1>7, <1>8, <1>9 DEF NodesOf
<1> QED BY <1>1, <1>6, <1>10

LEMMA NodesInParts ==
  ASSUME NEW K, NEW M, NEW s, NodesOf(s, K), K = M
  PROVE  NodesOf(s, M)
OBVIOUS

\* The schedule is placeholders of the kinds K, the calls in their order, and the output.
LEMMA ScheduleIs ==
  ASSUME Len(program.kind) \in Nat, program.entry \in {"program", "frozen"}
  PROVE  \E s, t : /\ NodesOf(s, Scheduled \ Call) /\ NodesOf(t, Call)
                   /\ \A i, j \in DOMAIN t : i < j => t[i] < t[j]
                   /\ Schedule(program) = (s \o t) \o <<Output>>
<1>1. PICK t : t = InOrder(program, Call)
  OBVIOUS
<1>2. NodesOf(t, Call) /\ \A i, j \in DOMAIN t : i < j => t[i] < t[j]
  BY <1>1, InOrderNodes
<1>3. CASE program.entry = "program"
  <2> DEFINE A == InOrder(program, {"constant"})
             B == InOrder(program, {"argument"})
             C == InOrder(program, {"user"})
             D == InOrder(program, {"parameter"})
             E == InOrder(program, {"buffer"})
  <2>1. /\ NodesOf(A, {"constant"}) /\ NodesOf(B, {"argument"}) /\ NodesOf(C, {"user"})
        /\ NodesOf(D, {"parameter"}) /\ NodesOf(E, {"buffer"})
    BY InOrderNodes
  <2>2. Schedule(program) = (((((A \o B) \o C) \o D) \o E) \o t) \o <<Output>>
    BY <1>1, <1>3 DEF Schedule
  <2> HIDE DEF A, B, C, D, E
  <2>3. NodesOf(A \o B, {"constant"} \cup {"argument"})
    BY <2>1, NodesOfConcat
  <2>4. NodesOf((A \o B) \o C, {"constant"} \cup {"argument"} \cup {"user"})
    BY <2>1, <2>3, NodesOfConcat
  <2>5. NodesOf(((A \o B) \o C) \o D, {"constant"} \cup {"argument"} \cup {"user"} \cup {"parameter"})
    BY <2>1, <2>4, NodesOfConcat
  <2>6. NodesOf((((A \o B) \o C) \o D) \o E,
                {"constant"} \cup {"argument"} \cup {"user"} \cup {"parameter"} \cup {"buffer"})
    BY <2>1, <2>5, NodesOfConcat
  <2>7. Scheduled \ Call = {"constant"} \cup {"argument"} \cup {"user"} \cup {"parameter"} \cup {"buffer"}
    BY <1>3 DEF Scheduled, Placeholder, Call
  <2> QED BY <1>2, <2>2, <2>6, <2>7
<1>4. CASE program.entry = "frozen"
  <2>1. PICK s : s = InOrder(program, {"user", "buffer", "argument"})
    OBVIOUS
  <2>2. NodesOf(s, {"user", "buffer", "argument"})
    BY <2>1, InOrderNodes
  <2>3. Schedule(program) = (s \o t) \o <<Output>>
    BY <1>1, <1>4, <2>1 DEF Schedule
  <2>4. Scheduled \ Call = {"user", "buffer", "argument"}
    BY <1>4 DEF Scheduled, Call
  <2> QED BY <1>2, <2>2, <2>3, <2>4
<1> QED BY <1>3, <1>4

LEMMA OutputIsNoNode == Len(program.kind) \in Nat => Node \subseteq Nat \ {0} /\ Output \notin Node
BY DEF Node, Output

LEMMA InitSchedule ==
  ASSUME Len(program.kind) \in Nat, program.entry \in {"program", "frozen"}
  PROVE  /\ IsSchedule(Schedule(program))
         /\ \A n \in Node : program.kind[n] \in Scheduled
              => \E i \in DOMAIN Schedule(program) : Schedule(program)[i] = n
<1>1. PICK s, t : /\ NodesOf(s, Scheduled \ Call) /\ NodesOf(t, Call)
                  /\ \A i, j \in DOMAIN t : i < j => t[i] < t[j]
                  /\ Schedule(program) = (s \o t) \o <<Output>>
  BY ScheduleIs
<1>2. PICK q : q = s \o t
  OBVIOUS
<1>3. PICK z : z = Schedule(program)
  OBVIOUS
<1>4. NodesOf(q, Scheduled)
  <2>1. NodesOf(q, (Scheduled \ Call) \cup Call)
    BY <1>1, <1>2, NodesOfConcat
  <2>2. (Scheduled \ Call) \cup Call = Scheduled
    BY DEF Scheduled
  <2> QED BY <2>1, <2>2
<1>5. /\ q \in Seq(Node) /\ s \in Seq(Node) /\ t \in Seq(Node) /\ NoTwice(q)
      /\ Node \subseteq Nat \ {0} /\ Output \notin Node
  BY <1>1, <1>4, OutputIsNoNode DEF NodesOf
<1>6. z = q \o <<Output>>
  BY <1>1, <1>2, <1>3
<1>7. /\ z \in Seq(Node \cup {Output}) /\ Len(q) \in Nat /\ Len(z) = Len(q) + 1
      /\ DOMAIN z = 1 .. (Len(q) + 1) /\ DOMAIN q = 1 .. Len(q)
      /\ z[Len(q) + 1] = Output
      /\ \A i \in DOMAIN q : z[i] = q[i] /\ z[i] \in Node
  <2>1. q \in Seq(Node \cup {Output}) /\ <<Output>> \in Seq(Node \cup {Output})
    BY <1>5
  <2> QED BY <1>5, <1>6, <2>1
<1>8. NoTwice(z)
  <2> SUFFICES ASSUME NEW i \in DOMAIN z, NEW j \in DOMAIN z, z[i] = z[j] PROVE i = j
    BY DEF NoTwice
  <2>1. CASE i \in DOMAIN q /\ j \in DOMAIN q
    BY <1>5, <1>7, <2>1 DEF NoTwice
  <2> QED BY <1>5, <1>7, <2>1
<1>9. \A i \in DOMAIN z : z[i] # Output => i \in DOMAIN q /\ program.kind[z[i]] \in Scheduled
  BY <1>4, <1>7 DEF NodesOf
<1>10. ASSUME NEW i \in DOMAIN z, NEW j \in DOMAIN z, i < j, z[j] # Output, IsCall(z[i])
       PROVE  IsCall(z[j]) /\ z[i] < z[j]
  <2>1. i \in DOMAIN q /\ j \in DOMAIN q
    BY <1>7, <1>9, <1>10
  <2>2. i \in 1 .. Len(q) /\ j \in 1 .. Len(q) /\ Len(s) \in Nat /\ Len(t) \in Nat /\ Len(q) = Len(s) + Len(t)
    BY <1>2, <1>5, <1>7, <2>1
  <2>3. i \notin DOMAIN s
    <3> SUFFICES ASSUME i \in DOMAIN s PROVE FALSE
      OBVIOUS
    <3>1. q[i] = s[i]
      BY <1>2, <1>5, ConcatIndices
    <3>2. program.kind[q[i]] \in Scheduled \ Call
      BY <1>1, <3>1 DEF NodesOf
    <3> QED BY <1>7, <1>10, <2>1, <3>2 DEF IsCall
  <2>4. PICK a, b : a = i - Len(s) /\ b = j - Len(s)
    OBVIOUS
  <2>5. DOMAIN s = 1 .. Len(s) /\ DOMAIN t = 1 .. Len(t)
    BY <1>5
  <2>6. a \in DOMAIN t /\ b \in DOMAIN t /\ a < b /\ i = Len(s) + a /\ j = Len(s) + b
    BY <1>10, <2>2, <2>3, <2>4, <2>5
  <2>7. q[i] = t[a] /\ q[j] = t[b]
    BY <1>2, <1>5, <2>6, ConcatIndices
  <2> QED BY <1>1, <1>7, <2>1, <2>6, <2>7 DEF NodesOf, IsCall
<1>11. IsSchedule(z)
  <2>1. z # <<>> /\ z[Len(z)] = Output
    BY <1>7
  <2> QED BY <1>7, <1>8, <1>9, <1>10, <2>1 DEF IsSchedule
<1>12. \A n \in Node : program.kind[n] \in Scheduled => \E i \in DOMAIN z : z[i] = n
  <2> SUFFICES ASSUME NEW n \in Node, program.kind[n] \in Scheduled PROVE \E i \in DOMAIN z : z[i] = n
    OBVIOUS
  <2>1. PICK i \in DOMAIN q : q[i] = n
    BY <1>4 DEF NodesOf
  <2> QED BY <1>7, <2>1
<1> QED BY <1>3, <1>11, <1>12

\* What is known of the node that is imported, and of those after it.
LEMMA FirstOfSchedule ==
  ASSUME NEW s, IsSchedule(s)
  PROVE  /\ 1 \in DOMAIN s /\ Head(s) = s[1] /\ Head(s) \in Node \cup {Output}
         /\ Head(s) # Output => program.kind[Head(s)] \in Scheduled
         /\ Head(s) = Output => \A i \in DOMAIN s : s[i] = Output
         /\ \A i \in DOMAIN s : s[i] # Output /\ IsCall(Head(s))
              => IsCall(s[i]) /\ (s[i] = Head(s) \/ Head(s) < s[i])
<1>1. /\ s \in Seq(Node \cup {Output}) /\ Len(s) \in Nat /\ Len(s) # 0 /\ DOMAIN s = 1 .. Len(s)
      /\ Head(s) = s[1]
  BY DEF IsSchedule
<1>2. 1 \in DOMAIN s /\ Len(s) \in DOMAIN s
  BY <1>1
<1>3. ASSUME Head(s) = Output, NEW i \in DOMAIN s PROVE s[i] = Output
  <2>1. 1 = Len(s)
    BY <1>1, <1>2, <1>3 DEF IsSchedule, NoTwice
  <2>2. i = 1
    <3>1. \A k \in 1 .. 1 : k = 1
      OBVIOUS
    <3>2. DOMAIN s = 1 .. 1
      BY <1>1, <2>1
    <3> QED BY <3>1, <3>2
  <2>3. s[1] = Output
    BY <1>1, <1>3
  <2> QED BY <2>2, <2>3
<1>4. ASSUME NEW i \in DOMAIN s, s[i] # Output, IsCall(s[1])
      PROVE  IsCall(s[i]) /\ (s[i] = s[1] \/ s[1] < s[i])
  <2>1. CASE i = 1
    BY <1>4, <2>1
  <2>2. CASE i # 1
    <3>1. 1 < i
      BY <1>1, <2>2
    <3> QED BY <1>2, <1>4, <3>1 DEF IsSchedule
  <2> QED BY <2>1, <2>2
<1> QED BY <1>1, <1>2, <1>3, <1>4 DEF IsSchedule

LEMMA RestOfSchedule ==
  ASSUME NEW s, IsSchedule(s), Head(s) # Output
  PROVE  /\ IsSchedule(Tail(s))
         /\ {Tail(s)[i] : i \in DOMAIN Tail(s)} = {s[i] : i \in DOMAIN s} \ {Head(s)}
<1>1. /\ s \in Seq(Node \cup {Output}) /\ Len(s) \in Nat /\ Len(s) # 0 /\ DOMAIN s = 1 .. Len(s)
      /\ Head(s) = s[1]
  BY DEF IsSchedule
<1>2. Len(s) >= 2
  BY <1>1 DEF IsSchedule
<1>3. PICK t : t = Tail(s)
  OBVIOUS
<1>4. /\ t \in Seq(Node \cup {Output}) /\ Len(t) = Len(s) - 1 /\ DOMAIN t = 1 .. (Len(s) - 1)
      /\ \A i \in DOMAIN t : i + 1 \in DOMAIN s /\ i + 1 # 1 /\ t[i] = s[i + 1]
  BY <1>1, <1>2, <1>3
<1>5. NoTwice(t)
  <2> SUFFICES ASSUME NEW i \in DOMAIN t, NEW j \in DOMAIN t, t[i] = t[j] PROVE i = j
    BY DEF NoTwice
  <2>1. i + 1 = j + 1
    BY <1>4 DEF IsSchedule, NoTwice
  <2> QED BY <1>4, <2>1
<1>6. t # <<>> /\ t[Len(t)] = Output
  <2>1. Len(t) \in DOMAIN t /\ Len(t) + 1 = Len(s)
    BY <1>1, <1>2, <1>4
  <2> QED BY <1>4, <2>1 DEF IsSchedule
<1>7. \A i \in DOMAIN t : t[i] # Output => program.kind[t[i]] \in Scheduled
  BY <1>4 DEF IsSchedule
<1>8. ASSUME NEW i \in DOMAIN t, NEW j \in DOMAIN t, i < j, t[j] # Output, IsCall(t[i])
      PROVE  IsCall(t[j]) /\ t[i] < t[j]
  <2>1. i + 1 < j + 1 /\ i + 1 \in DOMAIN s /\ j + 1 \in DOMAIN s /\ t[i] = s[i + 1] /\ t[j] = s[j + 1]
    BY <1>4, <1>8
  <2> QED BY <1>8, <2>1 DEF IsSchedule
<1>9. IsSchedule(t)
  BY <1>4, <1>5, <1>6, <1>7, <1>8 DEF IsSchedule
<1>10. \A i \in DOMAIN t : t[i] \in {s[k] : k \in DOMAIN s} \ {s[1]}
  <2>1. 1 \in DOMAIN s
    BY <1>1
  <2> QED BY <1>4, <2>1 DEF IsSchedule, NoTwice
<1>11. ASSUME NEW k \in DOMAIN s, s[k] # s[1] PROVE \E i \in DOMAIN t : t[i] = s[k]
  <2>1. k # 1 /\ k - 1 \in DOMAIN t /\ (k - 1) + 1 = k
    BY <1>1, <1>4, <1>11
  <2> QED BY <1>4, <2>1
<1> QED BY <1>1, <1>3, <1>9, <1>10, <1>11

(***************************************************************************)
(* The program.                                                            *)
(***************************************************************************)
LEMMA InitProgram == Init => ProgramOK
<1> SUFFICES ASSUME Init PROVE ProgramOK
  OBVIOUS
<1>1. PICK g \in Graphs, s \in Signatures, c \in Importers :
        /\ Exported(g, s)
        /\ program = [kind |-> g.kind, args |-> g.args, index |-> g.index, boolean |-> g.boolean,
                      mutates |-> s.mutates, outputs |-> s.outputs,
                      entry |-> c.entry, hooks |-> c.hooks]
  BY DEF Init
<1>2. /\ program.kind = g.kind /\ program.args = g.args /\ program.index = g.index
      /\ program.mutates = s.mutates /\ program.outputs = s.outputs
      /\ program.entry = c.entry /\ program.hooks = c.hooks
  BY <1>1
<1>3. Exported(program, program)
  <2>1. OneTensor(program) = OneTensor(g)
    BY <1>2 DEF OneTensor
  <2> QED BY <1>1, <1>2, <2>1 DEF Exported
<1>4. s \in SignatureIR /\ c \in ImporterIR /\ Address \cap (1 .. Len(g.kind)) = {}
  BY FxProgramsAssumption
<1> QED BY <1>2, <1>3, <1>4 DEF ProgramOK, SignatureIR, ImporterIR, Node

\* What depends on the program only.
LEMMA SameProgram ==
  ASSUME program' = program
  PROVE  /\ Node' = Node /\ Scheduled' = Scheduled /\ (ProgramOK => ProgramOK')
         /\ OutputArgs' = OutputArgs
         /\ \A n : Args(n)' = Args(n) /\ Meaning(n)' = Meaning(n) /\ First(n)' = First(n)
<1>1. Node' = Node
  BY DEF Node
<1>2. Scheduled' = Scheduled
  BY DEF Scheduled
<1>3. ProgramOK => ProgramOK'
  BY <1>1 DEF ProgramOK
<1>4. OutputArgs' = OutputArgs
  BY DEF OutputArgs
<1>5. ASSUME NEW n PROVE Args(n)' = Args(n) /\ Meaning(n)' = Meaning(n) /\ First(n)' = First(n)
  BY <1>4 DEF Args, Meaning, First
<1> QED BY <1>1, <1>2, <1>3, <1>4, <1>5

LEMMA SameRegular ==
  ASSUME program' = program
  PROVE  Regular' <=> Regular
<1>1. Node' = Node /\ OutputArgs' = OutputArgs
  BY SameProgram
<1>2. \A t : Users(t)' = Users(t) /\ (Returned(t)' <=> Returned(t)) /\ (IsLiteral(t)' <=> IsLiteral(t))
  BY <1>1 DEF Users, Returned, IsLiteral
<1>3. MutableBuffers' = MutableBuffers
  BY DEF MutableBuffers
<1>4. AttributesAreUsedOnce' <=> AttributesAreUsedOnce
  BY <1>1, <1>2 DEF AttributesAreUsedOnce
<1>5. NoLiteralInLists' <=> NoLiteralInLists
  BY <1>1, <1>2 DEF NoLiteralInLists
<1>6. BuffersAreReadBeforeTheyAreWritten' <=> BuffersAreReadBeforeTheyAreWritten
  BY <1>2, <1>3 DEF BuffersAreReadBeforeTheyAreWritten
<1>7. /\ ProducersAreDistinctCalls' <=> ProducersAreDistinctCalls
      /\ BuffersCanBeStored' <=> BuffersCanBeStored
      /\ ConstantsAreFound' <=> ConstantsAreFound
      /\ AtMostOneBoolean' <=> AtMostOneBoolean
  BY <1>3 DEF ProducersAreDistinctCalls, BuffersCanBeStored, ConstantsAreFound, AtMostOneBoolean
<1> QED BY <1>4, <1>5, <1>6, <1>7 DEF Regular

\* Operands of nodes.
LEMMA ArgsOfNodes ==
  ASSUME FxInv, ProgramOK, NEW n \in Node
  PROVE  /\ n \in Nat \ {0} /\ Args(n) = program.args[n] /\ Args(n) \in Seq(Nat) /\ program.kind[n] \in Kind
         /\ \A i \in DOMAIN Args(n) :
              /\ Args(n)[i] \in Node /\ Args(n)[i] < n /\ IsCall(n) /\ Args(n)[i] # NoNode
              /\ program.kind[Args(n)[i]] \in {"pair", "hop"} => program.kind[n] = "getitem"
              /\ program.kind[Args(n)[i]] = "hop" => program.index = 1
<1>1. n \in 1 .. Len(program.kind) /\ Len(program.kind) \in Nat /\ Len(program.args) = Len(program.kind)
      /\ program.args \in Seq(Seq(Nat \ {0})) /\ program.kind \in Seq(Kind)
  BY DEF FxInv, StaticOK, Node
<1>2. n \in Nat \ {0} /\ program.args[n] \in Seq(Nat \ {0}) /\ program.kind[n] \in Kind
  BY <1>1
<1>3. Args(n) = program.args[n]
  BY <1>2 DEF Args, Output
<1>4. ASSUME NEW i \in DOMAIN program.args[n]
      PROVE  /\ program.args[n][i] \in 1 .. (n - 1) /\ program.kind[n] \in Call
             /\ program.kind[program.args[n][i]] \in {"pair", "hop"} => program.kind[n] = "getitem"
             /\ program.kind[program.args[n][i]] = "hop" => program.index = 1
  BY <1>1 DEF ProgramOK, Exported
<1>5. \A a \in 1 .. (n - 1) : a \in Node /\ a < n /\ a # 0
  BY <1>1, <1>2 DEF Node
<1> QED BY <1>2, <1>3, <1>4, <1>5 DEF IsCall, NoNode

LEMMA ArgsOfOutput ==
  ASSUME FxInv, ProgramOK
  PROVE  /\ Args(Output) = OutputArgs /\ OutputArgs \in Seq(Nat)
         /\ program.entry = "program" => OutputArgs = program.outputs
         /\ \A i \in DOMAIN OutputArgs : OutputArgs[i] # NoNode =>
              OutputArgs[i] \in Node /\ program.kind[OutputArgs[i]] \notin {"pair", "hop"}
<1> DEFINE Fine(a) == a # NoNode => a \in Node /\ program.kind[a] \notin {"pair", "hop"}
<1>1. Args(Output) = OutputArgs
  BY DEF Args
<1>2. Len(program.kind) \in Nat /\ Node \subseteq Nat
  BY DEF FxInv, StaticOK, Node
<1>3. program.outputs \in Seq(Nat) /\ \A i \in DOMAIN program.outputs : Fine(program.outputs[i])
  BY DEF ProgramOK, Exported, Node, NoNode
<1>4. CASE program.entry = "program"
  <2>1. OutputArgs = program.outputs
    BY <1>4 DEF OutputArgs
  <2> QED BY <1>1, <1>3, <2>1
<1>5. CASE program.entry = "frozen"
  <2> DEFINE S == {m[1] : m \in program.mutates}
  <2>1. PICK mutated : mutated = Ordered(program, S)
    OBVIOUS
  <2>2. S \subseteq 1 .. Len(program.kind)
    BY DEF FxInv, StaticOK, Node
  <2>3. Ascends(mutated, S)
    <3> HIDE DEF S
    <3> QED BY <1>2, <2>1, <2>2, OrderedAscends
  <2>4. Len(mutated) \in Nat /\ DOMAIN mutated = 1 .. Len(mutated) /\ \A i \in DOMAIN mutated : mutated[i] \in S
    <3> HIDE DEF S
    <3> QED BY <2>3 DEF Ascends
  <2>5. PICK producers : producers = [i \in 1 .. Len(mutated) |->
                                        (CHOOSE m \in program.mutates : m[1] = mutated[i])[2]]
    OBVIOUS
  <2>6. ASSUME NEW i \in 1 .. Len(mutated)
        PROVE  producers[i] \in Node /\ program.kind[producers[i]] \notin {"pair", "hop"}
    <3>1. PICK o \in program.mutates : o[1] = mutated[i]
      BY <2>4
    <3>2. PICK m : m = CHOOSE x \in program.mutates : x[1] = mutated[i]
      OBVIOUS
    <3>3. m \in program.mutates
      BY <3>1, <3>2
    <3>4. m[2] \in OneTensor(program)
      BY <3>3 DEF FxInv, StaticOK
    <3>5. producers[i] = m[2]
      BY <2>5, <3>2
    <3> QED BY <3>4, <3>5 DEF OneTensor, Node
  <2>7. producers \in Seq(Nat) /\ DOMAIN producers = 1 .. Len(mutated)
    <3>1. \A i \in 1 .. Len(mutated) : producers[i] \in Nat
      BY <1>2, <2>6
    <3>2. producers \in [1 .. Len(mutated) -> Nat] /\ DOMAIN producers = 1 .. Len(mutated)
      BY <2>5, <3>1
    <3> QED BY <2>4, <3>2
  <2>8. OutputArgs = producers \o program.outputs
    BY <1>5, <2>1, <2>5 DEF OutputArgs
  <2>9. OutputArgs \in Seq(Nat)
    BY <1>3, <2>7, <2>8
  <2>10. ASSUME NEW i \in DOMAIN OutputArgs PROVE Fine(OutputArgs[i])
    <3> HIDE DEF Fine
    <3>1. \/ i \in DOMAIN producers /\ OutputArgs[i] = producers[i]
          \/ i - Len(producers) \in DOMAIN program.outputs
             /\ OutputArgs[i] = program.outputs[i - Len(producers)]
      BY <1>3, <2>7, <2>8, ConcatElements
    <3>2. \A k \in DOMAIN producers : Fine(producers[k])
      BY <2>6, <2>7 DEF Fine
    <3> QED BY <1>3, <3>1, <3>2
  <2>11. program.entry # "program"
    BY <1>5
  <2> QED BY <1>1, <2>9, <2>10, <2>11
<1> QED BY <1>4, <1>5 DEF ProgramOK

(***************************************************************************)
(* What is bound.                                                          *)
(***************************************************************************)
LEMMA Bindings == Lazy # Unbound /\ None \in Value /\ \A x \in Value : x # Lazy /\ x # Unbound
<1>1. Len(<<0>>) = 1 /\ Len(<<>>) = 0
  OBVIOUS
<1> QED BY <1>1, TwoElements DEF Lazy, Unbound, None, Value

LEMMA MeaningIsValue ==
  ASSUME FxInv, ProgramOK, NEW n \in Node
  PROVE  Meaning(n) \in Value /\ First(n) \in Value /\ Meaning(n) # None
<1>1. n \in Nat \ {0}
  BY ArgsOfNodes
<1>2. CASE program.kind[n] = "getitem"
  <2>1. PICK ref : ref = program.args[n][1]
    OBVIOUS
  <2>2. ref \in Node /\ program.index \in Nat
    BY <1>2, <2>1 DEF FxInv, StaticOK
  <2>3. ref \in Nat \ {0}
    BY <2>2, ArgsOfNodes
  <2>4. PICK k \in Nat : Meaning(n) = <<ref, k>>
    BY <1>2, <2>1, <2>2 DEF Meaning
  <2> QED BY <1>2, <2>3, <2>4 DEF Value, None, First
<1>3. CASE program.kind[n] # "getitem"
  BY <1>1, <1>3 DEF Meaning, Value, None, First
<1> QED BY <1>2, <1>3

LEMMA CurrentIs ==
  ASSUME Imports
  PROVE  /\ Current \in Node \cup {Output} /\ Output \notin Node
         /\ Current # Output => /\ Current \in Node /\ Current \in Pending
                                /\ program.kind[Current] \in Scheduled
                                /\ v[<<Current, 0>>] = Unbound
         /\ Current = Output => \A n \in Node : n \notin Pending
         /\ \A n \in Node : n \in Pending /\ Current # Output /\ IsCall(Current)
              => IsCall(n) /\ (n = Current \/ Current < n)
<1>1. IsSchedule(todo) /\ Len(program.kind) \in Nat
  BY DEF Imports, ImportInv, FxInv, StaticOK
<1>2. Output \notin Node
  BY <1>1, OutputIsNoNode
<1>3. /\ 1 \in DOMAIN todo /\ Current = todo[1] /\ Current \in Node \cup {Output}
      /\ Current # Output => program.kind[Current] \in Scheduled
      /\ Current = Output => \A i \in DOMAIN todo : todo[i] = Output
      /\ \A i \in DOMAIN todo : todo[i] # Output /\ IsCall(Current)
           => IsCall(todo[i]) /\ (todo[i] = Current \/ Current < todo[i])
  BY <1>1, FirstOfSchedule DEF Current
<1>4. Current \in Pending
  BY <1>3 DEF Pending
<1>5. Current # Output => v[<<Current, 0>>] = Unbound
  BY <1>3, <1>4 DEF Imports, ImportInv, BoundInOrder
<1>6. Current = Output => \A n \in Node : n \notin Pending
  BY <1>2, <1>3 DEF Pending
<1>7. \A n \in Node : n \in Pending /\ Current # Output /\ IsCall(Current)
              => IsCall(n) /\ (n = Current \/ Current < n)
  BY <1>2, <1>3 DEF Pending
<1> QED BY <1>2, <1>3, <1>4, <1>5, <1>6, <1>7

LEMMA CallbackIs ==
  ASSUME Imports, NEW n \in Node, onProduced[n] # Output
  PROVE  /\ program.entry = "program" /\ onProduced[n] \in Node /\ <<onProduced[n], n>> \in program.mutates
         /\ IsCall(n) /\ n \in OneTensor(program)
         /\ program.kind[onProduced[n]] = "buffer" => program.hooks = "external"
<1>1. program.entry = "program"
  BY DEF Imports, ProgramOK, ImportInv, CallbacksRight
<1>2. onProduced[n] \in Node /\ <<onProduced[n], n>> \in program.mutates
  BY DEF Imports, FxInv, CallbacksOK
<1>3. PICK m \in program.mutates : m = <<onProduced[n], n>> /\ m[1] = onProduced[n] /\ m[2] = n
  BY <1>2
<1>4. IsCall(n)
  BY <1>1, <1>3 DEF Imports, Regular, ProducersAreDistinctCalls, IsCall
<1>5. n \in OneTensor(program)
  BY <1>3 DEF Imports, FxInv, StaticOK
<1>6. program.kind[onProduced[n]] = "buffer" => program.hooks = "external"
  BY <1>1, <1>3 DEF Imports, Regular, BuffersCanBeStored, MutableBuffers
<1> QED BY <1>1, <1>2, <1>4, <1>5, <1>6

LEMMA CanBind ==
  ASSUME Imports, Current \in Node, NEW values,
         \/ ~ IsCall(Current)
         \/ program.kind[Current] \in {"pair", "hop"}
         \/ \A i \in DOMAIN values : values[i] \notin {Lazy, None}
  PROVE  ~ BindFails(Current, values)
<1>1. v[<<Current, 0>>] = Unbound
  BY CurrentIs
<1>2. ASSUME onProduced[Current] # Output
      PROVE  /\ \A i \in DOMAIN values : values[i] \notin {Lazy, None}
             /\ ~ (program.hooks = "default" /\ program.kind[onProduced[Current]] = "buffer")
  <2>1. IsCall(Current) /\ Current \in OneTensor(program)
        /\ (program.kind[onProduced[Current]] = "buffer" => program.hooks = "external")
    BY <1>2, CallbackIs
  <2>2. program.kind[Current] \notin {"pair", "hop"}
    BY <2>1 DEF OneTensor
  <2> QED BY <2>1, <2>2
<1> QED BY <1>1, <1>2 DEF BindFails

\* A node and its value are bound; what the node uses has been read.
Binds(n) ==
  /\ n \in Node /\ n = Current /\ status = "importing"
  /\ program' = program /\ todo' = Tail(todo) /\ operands' = <<>> /\ status' = status
  /\ \A x \in Node : x # n => v'[<<x, 0>>] = v[<<x, 0>>] /\ v'[<<x, 1>>] = v[<<x, 1>>]
  /\ \/ v'[<<n, 0>>] = First(n)
     \/ v'[<<n, 0>>] = Lazy /\ program.entry = "program" /\ program.kind[n] \in {"parameter", "buffer"}
  /\ program.kind[n] \in {"pair", "hop"} => v'[<<n, 1>>] = <<n, 1>>
  /\ contents' = IF onProduced[n] = Output THEN contents
                 ELSE [contents EXCEPT ![onProduced[n]] = Meaning(n)]
  /\ AttrsRight'
  /\ \A i \in DOMAIN program.args[n] : v[<<program.args[n][i], 0>>] # Lazy
  /\ IF program.entry = "program"
     THEN \A m \in program.mutates : onProduced'[m[2]] = IF m[1] = n THEN n ELSE onProduced[m[2]]
     ELSE onProduced' = onProduced

LEMMA BindsAdvances ==
  ASSUME Imports, NEW n, Binds(n)
  PROVE  /\ IsSchedule(todo)' /\ Pending' = Pending \ {n} /\ BoundInOrder' /\ OperandsRight'
         /\ v[<<n, 0>>] = Unbound /\ v'[<<n, 0>>] # Unbound
<1>1. n \in Node /\ n = Current /\ program' = program /\ todo' = Tail(todo) /\ operands' = <<>>
  BY DEF Binds
<1>2. /\ n # Output /\ Current # Output /\ n \in Pending /\ program.kind[n] \in Scheduled
      /\ v[<<n, 0>>] = Unbound
      /\ \A x \in Node : x \in Pending /\ IsCall(n) => IsCall(x) /\ (x = n \/ n < x)
  BY <1>1, CurrentIs
<1>3. v'[<<n, 0>>] # Unbound
  <2>1. First(n) \in Value
    BY <1>1, MeaningIsValue DEF Imports
  <2> QED BY <2>1, Bindings DEF Binds
<1>4. Node' = Node /\ Scheduled' = Scheduled /\ OutputArgs' = OutputArgs
  BY <1>1, SameProgram
<1>5. IsSchedule(Tail(todo)) /\ {Tail(todo)[i] : i \in DOMAIN Tail(todo)} = {todo[i] : i \in DOMAIN todo} \ {Head(todo)}
  <2>1. IsSchedule(todo) /\ Head(todo) # Output
    BY <1>2 DEF Imports, ImportInv, Current
  <2> QED BY <2>1, RestOfSchedule
<1>6. IsSchedule(todo)'
  BY <1>1, <1>4, <1>5 DEF IsSchedule, IsCall, NoTwice
<1>7. Pending' = Pending \ {n}
  BY <1>1, <1>5 DEF Pending, Current
<1>8. BoundInOrder'
  <2>1. ASSUME NEW x \in Node, program.kind[x] \in Scheduled
        PROVE  v'[<<x, 0>>] = Unbound <=> x \in Pending \ {n}
    <3>1. v[<<x, 0>>] = Unbound <=> x \in Pending
      BY <2>1 DEF Imports, ImportInv, BoundInOrder
    <3> QED BY <1>3, <3>1 DEF Binds
  <2>2. ASSUME NEW a \in Node, NEW b \in Node, IsCall(b), b \notin Pending \ {n}, IsCall(a) => a < b
        PROVE  a \notin Pending \ {n}
    <3>1. CASE b \notin Pending
      BY <2>2, <3>1 DEF Imports, ImportInv, BoundInOrder
    <3>2. CASE b = n
      <4>1. a \in Nat /\ n \in Nat
        BY <1>1, ArgsOfNodes DEF Imports
      <4> QED BY <1>2, <2>2, <3>2, <4>1
    <3> QED BY <2>2, <3>1, <3>2
  <2>3. \A x : IsCall(x)' <=> IsCall(x)
    BY <1>1 DEF IsCall
  <2> QED BY <1>1, <1>4, <1>7, <2>1, <2>2, <2>3 DEF BoundInOrder
<1>9. OperandsRight'
  <2>1. PICK c : c = Current'
    OBVIOUS
  <2>2. c \in Node \cup {Output}
    BY <1>1, <1>5, <2>1, FirstOfSchedule DEF Current
  <2>3. Len(Args(c)) \in Nat
    BY <2>2, ArgsOfNodes, ArgsOfOutput DEF Imports
  <2>4. (Args(Current))' = Args(c)
    BY <1>1, <1>4, <2>1 DEF Args
  <2>5. Len(operands') = 0 /\ DOMAIN operands' = {}
    BY <1>1
  <2> QED BY <2>3, <2>4, <2>5 DEF OperandsRight
<1> QED BY <1>2, <1>3, <1>6, <1>7, <1>8, <1>9

LEMMA BindsValues ==
  ASSUME Imports, NEW n, Binds(n)
  PROVE  ValuesRight' /\ AttributesRight' /\ StatusRight'
<1>1. n \in Node /\ n = Current /\ program' = program /\ status = "importing" /\ status' = status
  BY DEF Binds
<1>2. v[<<n, 0>>] = Unbound /\ v'[<<n, 0>>] # Unbound
  BY BindsAdvances
<1>3. Node' = Node /\ \A x : First(x)' = First(x)
  BY <1>1, SameProgram
<1>4. ValuesRight'
  <2>1. ASSUME NEW x \in Node
        PROVE  /\ \/ v'[<<x, 0>>] \in {Unbound, First(x)}
                  \/ /\ v'[<<x, 0>>] = Lazy /\ program.entry = "program"
                     /\ program.kind[x] \in {"parameter", "buffer"}
               /\ program.kind[x] \in {"pair", "hop"} /\ v'[<<x, 0>>] # Unbound => v'[<<x, 1>>] = <<x, 1>>
    <3>1. CASE x = n
      BY <3>1 DEF Binds
    <3>2. CASE x # n
      BY <3>2 DEF Binds, Imports, ImportInv, ValuesRight
    <3> QED BY <3>1, <3>2
  <2> QED BY <1>1, <1>3, <2>1 DEF ValuesRight
<1>5. AttributesRight'
  <2>1. ASSUME NEW t \in Node, program.kind[t] = "get_attr", v'[<<t, 0>>] # Unbound
        PROVE  \E u \in Node : \E i \in DOMAIN program.args[u] :
                 program.args[u][i] = t /\ v'[<<u, 0>>] # Unbound
    <3>1. t # n
      <4>1. program.kind[n] \in Scheduled
        BY <1>1, CurrentIs
      <4> QED BY <2>1, <4>1 DEF Scheduled, Call, Placeholder
    <3>2. v[<<t, 0>>] # Unbound
      BY <2>1, <3>1 DEF Binds
    <3>3. PICK u \in Node : \E i \in DOMAIN program.args[u] :
            /\ program.args[u][i] = t
            /\ v[<<u, 0>>] # Unbound \/ (u = Current /\ i <= Len(operands))
      BY <2>1, <3>2 DEF Imports, ImportInv, AttributesRight
    <3>4. v'[<<u, 0>>] # Unbound
      BY <1>1, <1>2, <3>3 DEF Binds
    <3> QED BY <3>3, <3>4
  <2> QED BY <1>1, <1>3, <2>1 DEF AttributesRight
<1>6. StatusRight'
  BY <1>1 DEF StatusRight
<1> QED BY <1>4, <1>5, <1>6

LEMMA BindsReads ==
  ASSUME Imports, NEW n, Binds(n)
  PROVE  OperandsAreRead'
<1>1. n \in Node /\ n = Current /\ program' = program /\ operands' = <<>>
  BY DEF Binds
<1>2. v[<<n, 0>>] = Unbound /\ v'[<<n, 0>>] # Unbound
  BY BindsAdvances
<1>3. Node' = Node
  BY <1>1, SameProgram
<1>4. ASSUME NEW u \in Node, v'[<<u, 0>>] # Unbound, NEW i \in DOMAIN program.args[u]
      PROVE  v'[<<program.args[u][i], 0>>] # Lazy
  <2>1. PICK a : a = program.args[u][i]
    OBVIOUS
  <2>2. a \in Node /\ a < u /\ IsCall(u) /\ u \in Nat
    BY <2>1, ArgsOfNodes DEF Imports
  <2>3. v[<<a, 0>>] # Lazy
    <3>1. CASE u = n
      BY <2>1, <3>1 DEF Binds
    <3>2. CASE u # n
      <4>1. v[<<u, 0>>] # Unbound
        BY <1>4, <3>2 DEF Binds
      <4> QED BY <2>1, <4>1 DEF Imports, ImportInv, OperandsAreRead
    <3> QED BY <3>1, <3>2
  <2>4. CASE a # n
    BY <2>1, <2>2, <2>3, <2>4 DEF Binds
  <2>5. CASE a = n
    <3>1. u # n
      BY <2>2, <2>5
    <3>2. v[<<u, 0>>] # Unbound
      BY <1>4, <3>1 DEF Binds
    <3>3. u \notin Pending
      <4>1. program.kind[u] \in Scheduled
        BY <2>2 DEF IsCall, Scheduled
      <4> QED BY <3>2, <4>1 DEF Imports, ImportInv, BoundInOrder
    <3>4. n \notin Pending
      BY <1>1, <2>2, <2>5, <3>3 DEF Imports, ImportInv, BoundInOrder
    <3>5. n \in Pending
      <4>1. n # Output
        BY <1>1, CurrentIs
      <4> QED BY <1>1, <4>1, CurrentIs
    <3> QED BY <3>4, <3>5
  <2> QED BY <2>4, <2>5
<1> QED BY <1>1, <1>3, <1>4 DEF OperandsAreRead

LEMMA BindsCallbacks ==
  ASSUME Imports, NEW n, Binds(n)
  PROVE  CallbacksRight' /\ ContentsRight'
<1>1. n \in Node /\ n = Current /\ program' = program
  BY DEF Binds
<1>2. v[<<n, 0>>] = Unbound /\ v'[<<n, 0>>] # Unbound
  BY BindsAdvances
<1>3. Node' = Node /\ \A x : Meaning(x)' = Meaning(x)
  BY <1>1, SameProgram
<1>4. \A m \in program.mutates : /\ m[1] \in Node /\ m[2] \in Node /\ m = <<m[1], m[2]>>
                                 /\ \A o \in program.mutates : o[1] = m[1] => o = m
  BY DEF Imports, FxInv, StaticOK, OneTensor, Node
<1>5. CallbacksRight'
  <2>1. CASE program.entry = "program"
    <3>1. ASSUME NEW m \in program.mutates, v'[<<m[1], 0>>] # Unbound
          PROVE  onProduced'[m[2]] = m[1]
      <4>1. CASE m[1] = n
        BY <2>1, <4>1 DEF Binds
      <4>2. CASE m[1] # n
        <5>1. v[<<m[1], 0>>] # Unbound
          BY <1>4, <3>1, <4>2 DEF Binds
        <5>2. onProduced[m[2]] = m[1]
          BY <2>1, <5>1 DEF Imports, ImportInv, CallbacksRight
        <5> QED BY <2>1, <4>2, <5>2 DEF Binds
      <4> QED BY <4>1, <4>2
    <3> QED BY <1>1, <2>1, <3>1 DEF CallbacksRight
  <2>2. CASE program.entry # "program"
    BY <1>1, <1>3, <2>2 DEF CallbacksRight, Binds, Imports, ImportInv
  <2> QED BY <2>1, <2>2
<1>6. ASSUME program.entry = "program", NEW m \in program.mutates, v'[<<m[2], 0>>] # Unbound
      PROVE  contents'[m[1]] = Meaning(m[2])
  <2>1. CASE m[2] = n
    <3>1. IsCall(n)
      BY <1>6, <2>1 DEF Imports, Regular, ProducersAreDistinctCalls, IsCall
    <3>2. program.kind[m[1]] \in {"user", "buffer"}
      BY DEF Imports, ProgramOK, Exported
    <3>3. m[1] \notin Pending
      <4>1. n # Output /\ ~ IsCall(m[1])
        BY <1>1, <3>2, CurrentIs DEF IsCall, Call
      <4> QED BY <1>1, <1>4, <3>1, <4>1, CurrentIs
    <3>4. v[<<m[1], 0>>] # Unbound
      <4>1. program.kind[m[1]] \in Scheduled
        BY <1>6, <3>2 DEF Scheduled, Placeholder
      <4> QED BY <1>4, <3>3, <4>1 DEF Imports, ImportInv, BoundInOrder
    <3>5. onProduced[n] = m[1]
      BY <1>6, <2>1, <3>4 DEF Imports, ImportInv, CallbacksRight
    <3>6. m[1] \in Node /\ m[1] # Output
      BY <1>4, CurrentIs
    <3>7. contents' = [contents EXCEPT ![m[1]] = Meaning(n)] /\ contents \in [Node -> Value]
      BY <3>5, <3>6 DEF Binds, Imports, FxInv, BindingsOK
    <3> QED BY <2>1, <3>6, <3>7
  <2>2. CASE m[2] # n
    <3>1. v[<<m[2], 0>>] # Unbound
      BY <1>4, <1>6, <2>2 DEF Binds
    <3>2. contents[m[1]] = Meaning(m[2])
      BY <1>6, <3>1 DEF Imports, ImportInv, ContentsRight
    <3>3. onProduced[n] # m[1]
      <4> SUFFICES ASSUME onProduced[n] = m[1] PROVE FALSE
        OBVIOUS
      <4>1. m[1] # Output
        BY <1>4, CurrentIs
      <4>2. <<m[1], n>> \in program.mutates
        BY <1>1, <4>1, CallbackIs
      <4>3. <<m[1], n>> = m
        <5>1. <<m[1], n>>[1] = m[1]
          OBVIOUS
        <5> QED BY <1>4, <4>2, <5>1
      <4>4. <<m[1], n>>[2] = n
        OBVIOUS
      <4> QED BY <2>2, <4>3, <4>4
    <3>4. contents'[m[1]] = contents[m[1]]
      <4>1. contents \in [Node -> Value] /\ m[1] \in Node
        BY <1>4 DEF Imports, FxInv, BindingsOK
      <4> QED BY <3>3, <4>1 DEF Binds
    <3> QED BY <3>2, <3>4
  <2> QED BY <2>1, <2>2
<1>7. ASSUME program.entry = "program", NEW t \in Node,
             \A m \in program.mutates : m[1] = t => v'[<<m[2], 0>>] = Unbound
      PROVE  contents'[t] = <<t, 0>>
  <2>1. \A m \in program.mutates : m[1] = t => v[<<m[2], 0>>] = Unbound
    BY <1>2, <1>4, <1>7 DEF Binds
  <2>2. contents[t] = <<t, 0>>
    BY <1>7, <2>1 DEF Imports, ImportInv, ContentsRight
  <2>3. onProduced[n] # t
    <3> SUFFICES ASSUME onProduced[n] = t PROVE FALSE
      OBVIOUS
    <3>1. t # Output
      BY CurrentIs
    <3>2. <<t, n>> \in program.mutates
      BY <1>1, <3>1, CallbackIs
    <3>3. <<t, n>>[1] = t /\ <<t, n>>[2] = n
      OBVIOUS
    <3> QED BY <1>2, <1>7, <3>2, <3>3
  <2>4. contents'[t] = contents[t]
    <3>1. contents \in [Node -> Value]
      BY DEF Imports, FxInv, BindingsOK
    <3> QED BY <2>3, <3>1 DEF Binds
  <2> QED BY <2>2, <2>4
<1>8. ContentsRight'
  BY <1>1, <1>3, <1>6, <1>7 DEF ContentsRight
<1> QED BY <1>5, <1>8

LEMMA BindsKeeps ==
  ASSUME Imports, NEW n, Binds(n)
  PROVE  ImportInv'
<1>1. AttrsRight'
  BY DEF Binds
<1> QED BY <1>1, BindsAdvances, BindsValues, BindsReads, BindsCallbacks DEF ImportInv

\* Nothing that is imported, and attributes stay right, when attrs do.
LEMMA AttrsStay ==
  ASSUME Imports, program' = program, attrs' = attrs
  PROVE  AttrsRight'
<1>1. Node' = Node
  BY SameProgram
<1> QED BY <1>1 DEF AttrsRight, Imports, ImportInv

LEMMA LiteralIsRight ==
  ASSUME Imports, NEW n \in Node, NEW a \in Addresses(n)
  PROVE  /\ LiteralOf(n, a) = <<n, 0>>
         /\ program' = program /\ attrs' = Tracked(n, a) => AttrsRight'
<1>1. /\ attrs \in [Node \cup Address -> Value \cup {Empty}] /\ Address \cap Node = {}
      /\ \A x \in Node : attrs[x] \in {Empty, <<x, 0>>}
      /\ \A x \in Address : attrs[x] = Empty \/ \E b \in program.boolean : attrs[x] = <<b, 0>>
      /\ \A b, c \in program.boolean : b = c
  BY DEF Imports, FxInv, BindingsOK, ProgramOK, ImportInv, AttrsRight, Regular, AtMostOneBoolean
<1>2. a = n \/ (a \in Address /\ n \in program.boolean)
  BY DEF Addresses
<1>3. LiteralOf(n, a) = <<n, 0>>
  BY <1>1, <1>2 DEF LiteralOf
<1>4. ASSUME program' = program, attrs' = Tracked(n, a)
      PROVE  AttrsRight'
  <2>1. Node' = Node
    BY <1>4, SameProgram
  <2>2. attrs' = [attrs EXCEPT ![a] = <<n, 0>>]
    BY <1>3, <1>4 DEF Tracked
  <2>3. \A x \in Node : attrs'[x] \in {Empty, <<x, 0>>}
    BY <1>1, <1>2, <2>2
  <2>4. \A x \in Address : attrs'[x] = Empty \/ \E b \in program.boolean : attrs'[x] = <<b, 0>>
    BY <1>1, <1>2, <2>2
  <2> QED BY <1>4, <2>1, <2>3, <2>4 DEF AttrsRight
<1> QED BY <1>3, <1>4

LEMMA OneBinds ==
  ASSUME Imports, NEW n \in Node, n = Current, status = "importing", NEW x, NEW ops,
         BindNodeValues(n, <<x>>, ops), program.kind[n] \notin {"pair", "hop"},
         \/ x = Meaning(n)
         \/ x = Lazy /\ program.entry = "program" /\ program.kind[n] \in {"parameter", "buffer"},
         AttrsRight',
         \A i \in DOMAIN program.args[n] : v[<<program.args[n][i], 0>>] # Lazy,
         IF program.entry = "program"
         THEN \A m \in program.mutates : onProduced'[m[2]] = IF m[1] = n THEN n ELSE onProduced[m[2]]
         ELSE onProduced' = onProduced
  PROVE  Binds(n)
<1>1. PICK values : values = <<x>>
  OBVIOUS
<1>2. Len(values) = 1 /\ values[1] = x /\ DOMAIN values = 1 .. 1
  BY <1>1
<1>3. /\ ~ BindFails(n, values) /\ program' = program /\ status' = status /\ operands' = <<>>
      /\ todo' = Tail(todo)
      /\ v' = [k \in DOMAIN v |->
                 IF k[1] = n /\ k[2] < Len(values) THEN values[k[2] + 1] ELSE v[k]]
      /\ IF onProduced[n] = Output THEN contents' = contents
         ELSE contents' = [contents EXCEPT ![onProduced[n]] = values[Len(values)]]
  BY <1>1 DEF BindNodeValues
<1>4. \A k \in Node \X {0, 1} : v'[k] = IF k[1] = n /\ k[2] < 1 THEN values[k[2] + 1] ELSE v[k]
  BY <1>2, <1>3 DEF Imports, FxInv, BindingsOK
<1>5. v'[<<n, 0>>] = x
  <2>1. <<n, 0>> \in Node \X {0, 1} /\ <<n, 0>>[1] = n /\ <<n, 0>>[2] = 0 /\ 0 < 1 /\ 0 + 1 = 1
    OBVIOUS
  <2> QED BY <1>2, <1>4, <2>1
<1>6. ASSUME NEW y \in Node, y # n PROVE v'[<<y, 0>>] = v[<<y, 0>>] /\ v'[<<y, 1>>] = v[<<y, 1>>]
  <2>1. /\ <<y, 0>> \in Node \X {0, 1} /\ <<y, 0>>[1] = y
        /\ <<y, 1>> \in Node \X {0, 1} /\ <<y, 1>>[1] = y
    OBVIOUS
  <2> QED BY <1>4, <1>6, <2>1
<1>7. contents' = IF onProduced[n] = Output THEN contents
                  ELSE [contents EXCEPT ![onProduced[n]] = Meaning(n)]
  <2>1. ASSUME onProduced[n] # Output PROVE x = Meaning(n)
    <3>1. values[1] # Lazy
      BY <1>2, <1>3, <2>1 DEF BindFails
    <3> QED BY <1>2, <3>1
  <2> QED BY <1>2, <1>3, <2>1
<1>8. First(n) = Meaning(n)
  BY DEF First
<1> QED BY <1>3, <1>5, <1>6, <1>7, <1>8 DEF Binds

LEMMA TwoBind ==
  ASSUME Imports, NEW n \in Node, n = Current, status = "importing", NEW ops,
         BindNodeValues(n, <<First(n), <<n, 1>>>>, ops), program.kind[n] \in {"pair", "hop"},
         AttrsRight',
         \A i \in DOMAIN program.args[n] : v[<<program.args[n][i], 0>>] # Lazy,
         onProduced' = onProduced
  PROVE  Binds(n)
<1>1. PICK values : values = <<First(n), <<n, 1>>>>
  OBVIOUS
<1>2. Len(values) = 2 /\ values[1] = First(n) /\ values[2] = <<n, 1>>
  BY <1>1
<1>3. /\ program' = program /\ status' = status /\ operands' = <<>> /\ todo' = Tail(todo)
      /\ v' = [k \in DOMAIN v |->
                 IF k[1] = n /\ k[2] < Len(values) THEN values[k[2] + 1] ELSE v[k]]
      /\ onProduced[n] = Output => contents' = contents
  BY <1>1 DEF BindNodeValues
<1>4. \A k \in Node \X {0, 1} : v'[k] = IF k[1] = n THEN values[k[2] + 1] ELSE v[k]
  <2>1. \A k \in Node \X {0, 1} : k[2] < 2
    OBVIOUS
  <2> QED BY <1>2, <1>3, <2>1 DEF Imports, FxInv, BindingsOK
<1>5. v'[<<n, 0>>] = First(n) /\ v'[<<n, 1>>] = <<n, 1>>
  <2>1. /\ <<n, 0>> \in Node \X {0, 1} /\ <<n, 0>>[1] = n /\ <<n, 0>>[2] = 0 /\ 0 + 1 = 1
        /\ <<n, 1>> \in Node \X {0, 1} /\ <<n, 1>>[1] = n /\ <<n, 1>>[2] = 1 /\ 1 + 1 = 2
    OBVIOUS
  <2> QED BY <1>2, <1>4, <2>1
<1>6. ASSUME NEW y \in Node, y # n PROVE v'[<<y, 0>>] = v[<<y, 0>>] /\ v'[<<y, 1>>] = v[<<y, 1>>]
  <2>1. /\ <<y, 0>> \in Node \X {0, 1} /\ <<y, 0>>[1] = y
        /\ <<y, 1>> \in Node \X {0, 1} /\ <<y, 1>>[1] = y
    OBVIOUS
  <2> QED BY <1>4, <1>6, <2>1
<1>7. onProduced[n] = Output
  <2>1. n \notin OneTensor(program)
    BY DEF OneTensor
  <2> QED BY <2>1, CallbackIs
<1>8. /\ \A m \in program.mutates : m[1] # n
      /\ program.entry = "program" =>
           \A m \in program.mutates : onProduced'[m[2]] = IF m[1] = n THEN n ELSE onProduced[m[2]]
  BY DEF Imports, ProgramOK, Exported
<1> QED BY <1>3, <1>5, <1>6, <1>7, <1>8 DEF Binds

\* A node that is not mutated registers no callback.
LEMMA NoCallback ==
  ASSUME Imports, NEW n, onProduced' = onProduced,
         program.entry = "program" => \A m \in program.mutates : m[1] # n
  PROVE  IF program.entry = "program"
         THEN \A m \in program.mutates : onProduced'[m[2]] = IF m[1] = n THEN n ELSE onProduced[m[2]]
         ELSE onProduced' = onProduced
OBVIOUS

LEMMA CallbackRegistered ==
  ASSUME Imports, program.entry = "program", NEW m \in program.mutates,
         onProduced' = Registered(m[1], m[2])
  PROVE  IF program.entry = "program"
         THEN \A o \in program.mutates :
                onProduced'[o[2]] = IF o[1] = m[1] THEN m[1] ELSE onProduced[o[2]]
         ELSE onProduced' = onProduced
<1> SUFFICES ASSUME NEW o \in program.mutates
             PROVE  onProduced'[o[2]] = IF o[1] = m[1] THEN m[1] ELSE onProduced[o[2]]
  OBVIOUS
<1>1. /\ o[2] \in Node /\ m[2] \in Node /\ onProduced \in [Node -> Node \cup {Output}]
      /\ o[1] = m[1] => o = m
      /\ o[2] = m[2] => o = m
  BY DEF Imports, FxInv, StaticOK, OneTensor, Node, CallbacksOK, Regular, ProducersAreDistinctCalls
<1> QED BY <1>1 DEF Registered

LEMMA PlaceholderReadsNothing ==
  ASSUME Imports, NEW n \in Node, program.kind[n] \in Placeholder
  PROVE  /\ \A i \in DOMAIN program.args[n] : v[<<program.args[n][i], 0>>] # Lazy
         /\ ~ IsCall(n) /\ program.kind[n] \notin {"pair", "hop"} /\ Meaning(n) = <<n, 0>>
<1>1. ~ IsCall(n) /\ program.kind[n] \notin {"pair", "hop", "getitem"}
  BY DEF IsCall, Placeholder, Call
<1>2. Meaning(n) = <<n, 0>>
  BY <1>1 DEF Meaning
<1>3. \A i \in DOMAIN program.args[n] : IsCall(n)
  BY ArgsOfNodes DEF Imports
<1> QED BY <1>1, <1>2, <1>3

LEMMA ImportConstantImports ==
  ASSUME Imports, ImportConstant
  PROVE  ImportInv'
<1>1. PICK n : n = Current
  OBVIOUS
<1>2. /\ n \in Node /\ program.kind[n] \in {"constant", "argument"} /\ status = "importing"
      /\ program.kind[n] \in Placeholder
  BY <1>1 DEF ImportConstant, Importing, Placeholder
<1>3. ~ BindFails(n, <<None>>)
  BY <1>1, <1>2, CanBind, PlaceholderReadsNothing
<1>4. PICK a \in Addresses(n) :
        /\ BindNodeValues(n, <<LiteralOf(n, a)>>, <<>>)
        /\ attrs' = IF program.kind[n] = "constant" THEN Tracked(n, a) ELSE attrs
        /\ UNCHANGED <<onProduced, unpacked>>
  BY <1>1, <1>3 DEF ImportConstant
<1>5. program' = program /\ onProduced' = onProduced
  BY <1>4 DEF BindNodeValues
<1>6. LiteralOf(n, a) = <<n, 0>> /\ AttrsRight'
  BY <1>2, <1>4, <1>5, LiteralIsRight, AttrsStay
<1>7. BindNodeValues(n, <<Meaning(n)>>, <<>>)
  BY <1>2, <1>4, <1>6, PlaceholderReadsNothing
<1>8. \A m \in program.mutates : m[1] # n
  BY <1>2 DEF Imports, ProgramOK, Exported
<1>9. Binds(n)
  BY <1>1, <1>2, <1>5, <1>6, <1>7, <1>8, OneBinds, PlaceholderReadsNothing, NoCallback
<1> QED BY <1>9, BindsKeeps

LEMMA BindArgumentImports ==
  ASSUME Imports, BindArgument
  PROVE  ImportInv'
<1>1. PICK n : n = Current
  OBVIOUS
<1>2. /\ n \in Node /\ program.kind[n] \in Placeholder /\ status = "importing"
      /\ program.entry = "program" => program.kind[n] = "user"
      /\ program.entry = "program" => \A m \in MutatedUserInputs : m[1] # n
  BY <1>1 DEF BindArgument, Importing, Placeholder
<1>3. ~ BindFails(n, <<<<n, 0>>>>)
  BY <1>1, <1>2, CanBind, PlaceholderReadsNothing
<1>4. BindNodeValues(n, <<<<n, 0>>>>, <<>>) /\ UNCHANGED <<onProduced, unpacked, attrs>>
  BY <1>1, <1>3 DEF BindArgument
<1>5. program' = program /\ onProduced' = onProduced /\ attrs' = attrs
  BY <1>4 DEF BindNodeValues
<1>6. AttrsRight'
  BY <1>5, AttrsStay
<1>7. BindNodeValues(n, <<Meaning(n)>>, <<>>)
  BY <1>2, <1>4, PlaceholderReadsNothing
<1>8. ASSUME program.entry = "program", NEW m \in program.mutates PROVE m[1] # n
  <2> SUFFICES ASSUME m[1] = n PROVE FALSE
    OBVIOUS
  <2>1. m \in MutatedUserInputs
    <3>1. \A o \in program.mutates : o[2] = m[2] => o = m
      BY <1>8 DEF Imports, Regular, ProducersAreDistinctCalls
    <3>2. m[1] <= m[1]
      BY <1>2, ArgsOfNodes DEF Imports
    <3> QED BY <1>2, <1>8, <3>1, <3>2 DEF MutatedUserInputs
  <2> QED BY <1>2, <1>8, <2>1
<1>9. Binds(n)
  BY <1>1, <1>2, <1>5, <1>6, <1>7, <1>8, OneBinds, PlaceholderReadsNothing, NoCallback
<1> QED BY <1>9, BindsKeeps

LEMMA ImportMutableImports ==
  ASSUME Imports, ImportMutableToVtensor
  PROVE  ImportInv'
<1>1. PICK m \in MutatedUserInputs :
        /\ m[1] = Current
        /\ IF BindFails(m[1], <<contents[m[1]]>>) THEN Raise
           ELSE /\ BindNodeValues(m[1], <<contents[m[1]]>>, <<[op |-> "copy", node |-> m[1]]>>)
                /\ onProduced' = Registered(m[1], m[2])
                /\ UNCHANGED <<unpacked, attrs>>
  BY DEF ImportMutableToVtensor
<1>2. PICK n : n = m[1]
  OBVIOUS
<1>3. /\ n \in Node /\ n = Current /\ program.kind[n] = "user" /\ status = "importing"
      /\ program.entry = "program" /\ program.kind[n] \in Placeholder /\ m \in program.mutates
  BY <1>1, <1>2 DEF ImportMutableToVtensor, Importing, Placeholder, MutatedUserInputs
<1>4. contents[n] = <<n, 0>>
  <2>1. \A o \in program.mutates : o[1] = n => o = m
    BY <1>2, <1>3 DEF Imports, FxInv, StaticOK
  <2>2. v[<<m[2], 0>>] = Unbound
    <3>1. m[2] \in Node /\ IsCall(m[2])
      BY <1>3 DEF Imports, FxInv, StaticOK, OneTensor, Node, Regular, ProducersAreDistinctCalls, IsCall
    <3>2. n \in Pending /\ ~ IsCall(n)
      <4>1. n # Output
        BY <1>3, CurrentIs
      <4> QED BY <1>3, <4>1, CurrentIs, PlaceholderReadsNothing
    <3>3. m[2] \in Pending
      BY <1>3, <3>1, <3>2 DEF Imports, ImportInv, BoundInOrder
    <3>4. program.kind[m[2]] \in Scheduled
      BY <3>1 DEF IsCall, Scheduled
    <3> QED BY <3>1, <3>3, <3>4 DEF Imports, ImportInv, BoundInOrder
  <2> QED BY <1>3, <2>1, <2>2 DEF Imports, ImportInv, ContentsRight
<1>5. ~ BindFails(n, <<contents[n]>>)
  BY <1>3, CanBind, PlaceholderReadsNothing
<1>6. /\ BindNodeValues(n, <<contents[n]>>, <<[op |-> "copy", node |-> n]>>)
      /\ onProduced' = Registered(m[1], m[2]) /\ attrs' = attrs
  BY <1>1, <1>2, <1>5
<1>7. program' = program
  BY <1>6 DEF BindNodeValues
<1>8. PICK ops : ops = <<[op |-> "copy", node |-> n]>>
  OBVIOUS
<1>9. BindNodeValues(n, <<Meaning(n)>>, ops)
  BY <1>3, <1>4, <1>6, <1>8, PlaceholderReadsNothing
<1>10. AttrsRight'
  BY <1>6, <1>7, AttrsStay
<1>11. IF program.entry = "program"
       THEN \A o \in program.mutates : onProduced'[o[2]] = IF o[1] = n THEN n ELSE onProduced[o[2]]
       ELSE onProduced' = onProduced
  <2>1. m \in program.mutates /\ program.entry = "program" /\ onProduced' = Registered(m[1], m[2])
    BY <1>3, <1>6
  <2>2. \A o \in program.mutates : onProduced'[o[2]] = IF o[1] = m[1] THEN m[1] ELSE onProduced[o[2]]
    BY ONLY Imports, <2>1, CallbackRegistered
  <2> QED BY <1>2, <2>1, <2>2
<1>12. Binds(n)
  BY <1>3, <1>9, <1>10, <1>11, OneBinds, PlaceholderReadsNothing
<1> QED BY <1>12, BindsKeeps

LEMMA BindLazilyImports ==
  ASSUME Imports, BindLazily
  PROVE  ImportInv'
<1>1. PICK n : n = Current
  OBVIOUS
<1>2. /\ n \in Node /\ program.kind[n] \in {"parameter", "buffer"} /\ status = "importing"
      /\ program.entry = "program" /\ program.kind[n] \in Placeholder
  BY <1>1 DEF BindLazily, Importing, Placeholder
<1>3. ~ BindFails(n, <<Lazy>>)
  BY <1>1, <1>2, CanBind, PlaceholderReadsNothing
<1>4. /\ BindNodeValues(n, <<Lazy>>, <<>>) /\ attrs' = attrs
      /\ onProduced' = IF \E m \in MutableBuffers : m[1] = n
                       THEN Registered(n, (CHOOSE m \in MutableBuffers : m[1] = n)[2])
                       ELSE onProduced
  BY <1>1, <1>3 DEF BindLazily
<1>5. program' = program
  BY <1>4 DEF BindNodeValues
<1>6. AttrsRight'
  BY <1>4, <1>5, AttrsStay
<1>7. IF program.entry = "program"
      THEN \A o \in program.mutates : onProduced'[o[2]] = IF o[1] = n THEN n ELSE onProduced[o[2]]
      ELSE onProduced' = onProduced
  <2>1. CASE \E m \in MutableBuffers : m[1] = n
    <3>1. PICK m : m = CHOOSE y \in MutableBuffers : y[1] = n
      OBVIOUS
    <3>2. m \in program.mutates /\ m[1] = n
      BY <2>1, <3>1 DEF MutableBuffers
    <3>3. onProduced' = Registered(m[1], m[2])
      BY <1>4, <2>1, <3>1, <3>2
    <3> QED BY <1>2, <3>2, <3>3, CallbackRegistered
  <2>2. CASE ~ \E m \in MutableBuffers : m[1] = n
    <3>1. \A m \in program.mutates : m[1] # n
      BY <1>2, <2>2 DEF MutableBuffers, Imports, ProgramOK, Exported
    <3>2. onProduced' = onProduced
      BY <1>4, <2>2
    <3> QED BY <3>1, <3>2, NoCallback
  <2> QED BY <2>1, <2>2
<1>8. Binds(n)
  BY <1>1, <1>2, <1>4, <1>6, <1>7, OneBinds, PlaceholderReadsNothing
<1> QED BY <1>8, BindsKeeps

\* A call is no target of a mutation.
LEMMA CallRegistersNothing ==
  ASSUME Imports, NEW n \in Node, IsCall(n)
  PROVE  \A m \in program.mutates : m[1] # n
BY DEF Imports, ProgramOK, Exported, IsCall, Call

LEMMA ImportCallImports ==
  ASSUME Imports, ImportCall
  PROVE  ImportInv'
<1>1. PICK n : n = Current
  OBVIOUS
<1>2. /\ n \in Node /\ IsCall(n) /\ program.kind[n] # "getitem" /\ status = "importing"
      /\ Len(operands) = Len(Args(n))
  BY <1>1 DEF ImportCall, Importing, IsCall
<1>3. /\ Args(n) = program.args[n] /\ DOMAIN operands = DOMAIN Args(n)
      /\ \A i \in DOMAIN Args(n) : Args(n)[i] \in Node /\ Args(n)[i] # NoNode
  <2>1. operands \in Seq(Value) /\ Args(n) \in Seq(Nat)
    BY <1>2, ArgsOfNodes DEF Imports, FxInv, BindingsOK
  <2>2. DOMAIN operands = DOMAIN Args(n)
    BY <1>2, <2>1
  <2> QED BY <1>2, <2>2, ArgsOfNodes DEF Imports
<1>4. \A i \in DOMAIN operands : operands[i] = Meaning(Args(n)[i])
  BY <1>1, <1>3 DEF Imports, ImportInv, OperandsRight
<1>5. \A i \in DOMAIN program.args[n] : v[<<program.args[n][i], 0>>] # Lazy
  BY <1>1, <1>3 DEF Imports, ImportInv, OperandsAreRead
<1>6. /\ program.kind[n] \in {"pair", "hop"} => ResultsOf(n) = <<First(n), <<n, 1>>>>
      /\ program.kind[n] \notin {"pair", "hop"} => ResultsOf(n) = <<Meaning(n)>>
  BY <1>2, <1>4 DEF ResultsOf, First, Meaning
<1>7. ~ BindFails(n, ResultsOf(n))
  <2>1. CASE program.kind[n] \in {"pair", "hop"}
    BY <1>1, <1>2, <2>1, CanBind
  <2>2. CASE program.kind[n] \notin {"pair", "hop"}
    <3>1. Meaning(n) \notin {Lazy, None}
      BY <1>2, MeaningIsValue, Bindings DEF Imports
    <3>2. PICK values : values = <<Meaning(n)>>
      OBVIOUS
    <3>3. \A i \in DOMAIN values : values[i] \notin {Lazy, None}
      BY <3>1, <3>2
    <3>4. values = ResultsOf(n)
      BY <1>6, <2>2, <3>2
    <3> QED BY <1>1, <1>2, <3>3, <3>4, CanBind
  <2> QED BY <2>1, <2>2
<1>8. BindNodeValues(n, ResultsOf(n), <<>>) /\ onProduced' = onProduced /\ attrs' = attrs
  BY <1>1, <1>7 DEF ImportCall
<1>9. program' = program
  BY <1>8 DEF BindNodeValues
<1>10. AttrsRight'
  BY <1>8, <1>9, AttrsStay
<1>11. Binds(n)
  <2>1. CASE program.kind[n] \in {"pair", "hop"}
    <3>1. BindNodeValues(n, <<First(n), <<n, 1>>>>, <<>>)
      BY <1>6, <1>8, <2>1
    <3> QED BY <1>1, <1>2, <1>5, <1>8, <1>10, <2>1, <3>1, TwoBind
  <2>2. CASE program.kind[n] \notin {"pair", "hop"}
    <3>1. BindNodeValues(n, <<Meaning(n)>>, <<>>)
      BY <1>6, <1>8, <2>2
    <3>2. IF program.entry = "program"
          THEN \A m \in program.mutates : onProduced'[m[2]] = IF m[1] = n THEN n ELSE onProduced[m[2]]
          ELSE onProduced' = onProduced
      BY <1>2, <1>8, CallRegistersNothing, NoCallback
    <3> QED BY <1>1, <1>2, <1>5, <1>10, <2>2, <3>1, <3>2, OneBinds
  <2> QED BY <2>1, <2>2
<1> QED BY <1>11, BindsKeeps

\* A call before the node that is imported is bound, and not to a callable.
LEMMA EarlierCallIsBound ==
  ASSUME Imports, NEW a \in Node, IsCall(a),
         Current = Output \/ (Current \in Node /\ IsCall(Current) /\ a < Current)
  PROVE  v[<<a, 0>>] = First(a)
<1>1. a \notin Pending
  <2>1. CASE Current = Output
    BY <2>1, CurrentIs
  <2>2. CASE Current \in Node /\ IsCall(Current) /\ a < Current
    <3>1. Current # Output /\ a \in Nat /\ Current \in Nat
      BY <2>2, CurrentIs, ArgsOfNodes DEF Imports
    <3> QED BY <2>2, <3>1, CurrentIs
  <2> QED BY <2>1, <2>2
<1>2. v[<<a, 0>>] # Unbound
  <2>1. program.kind[a] \in Scheduled
    BY DEF IsCall, Scheduled
  <2> QED BY <1>1, <2>1 DEF Imports, ImportInv, BoundInOrder
<1> QED BY <1>2 DEF Imports, ImportInv, ValuesRight, IsCall, Call

LEMMA ImportGetitemImports ==
  ASSUME Imports, ImportGetitem
  PROVE  ImportInv'
<1>1. PICK n : n = Current
  OBVIOUS
<1>2. n \in Node /\ program.kind[n] = "getitem" /\ IsCall(n) /\ status = "importing"
  BY <1>1 DEF ImportGetitem, Importing, IsCall, Call
<1>3. PICK ref : ref = Args(n)[1]
  OBVIOUS
<1> DEFINE isList == program.kind[ref] = "list"
<1>4. PICK x, ops :
        /\ x = IF ~ isList THEN v[<<ref, program.index>>]
               ELSE IF v[<<ref, 0>>] = <<ref, 0>> THEN <<ref, program.index + 1>> ELSE Wrong
        /\ ops = IF isList /\ ref \notin unpacked THEN <<[op |-> "unpack", node |-> ref]>> ELSE <<>>
  OBVIOUS
<1>5. /\ Args(n) = program.args[n] /\ DOMAIN program.args[n] = 1 .. 1 /\ ref = program.args[n][1]
      /\ program.kind[ref] \in {"pair", "hop", "list"} /\ IsCall(ref)
  <2>1. Args(n) = program.args[n] /\ Args(n) \in Seq(Nat)
    BY <1>2, ArgsOfNodes DEF Imports
  <2>2. Len(program.args[n]) = 1 /\ program.kind[program.args[n][1]] \in {"pair", "hop", "list"}
    BY <1>2 DEF Imports, ProgramOK, Exported, Node
  <2> QED BY <1>3, <2>1, <2>2 DEF IsCall, Call
<1>6. ref \in Node /\ ref < n /\ (program.kind[ref] = "hop" => program.index = 1) /\ program.index \in {0, 1}
  <2>1. 1 \in DOMAIN Args(n)
    BY <1>5
  <2>2. program.index \in {0, 1}
    BY DEF Imports, FxInv, StaticOK
  <2> QED BY <1>2, <1>3, <2>1, <2>2, ArgsOfNodes DEF Imports
<1>7. v[<<ref, 0>>] = First(ref)
  BY <1>1, <1>2, <1>5, <1>6, EarlierCallIsBound
<1>8. First(ref) \in Value /\ First(ref) # Unbound /\ First(ref) # Lazy
  BY <1>6, MeaningIsValue, Bindings DEF Imports
<1>9. Meaning(n) = <<ref, program.index + (IF program.kind[ref] = "list" THEN 1 ELSE 0)>>
  BY <1>2, <1>5 DEF Meaning
<1>10. x = Meaning(n)
  <2>1. CASE isList
    <3>1. First(ref) = <<ref, 0>>
      BY <1>3, <2>1 DEF First, Meaning
    <3> QED BY <1>3, <1>4, <1>7, <1>9, <2>1, <3>1
  <2>2. CASE ~ isList
    <3>1. program.kind[ref] \in {"pair", "hop"} /\ Meaning(n) = <<ref, program.index>>
      <4>1. program.kind[ref] # "list" /\ program.index + 0 = program.index
        BY <1>3, <1>6, <2>2
      <4> QED BY <1>5, <1>9, <4>1
    <3>2. x = v[<<ref, program.index>>]
      BY <1>4, <2>2
    <3>3. CASE program.index = 1
      <4>1. v[<<ref, 1>>] = <<ref, 1>>
        BY <1>6, <1>7, <1>8, <3>1 DEF Imports, ImportInv, ValuesRight
      <4> QED BY <3>1, <3>2, <3>3, <4>1
    <3>4. CASE program.index = 0
      <4>1. program.kind[ref] = "pair"
        BY <1>6, <3>1, <3>4
      <4>2. First(ref) = <<ref, 0>>
        BY <4>1 DEF First, Meaning
      <4> QED BY <1>7, <3>1, <3>2, <3>4, <4>2
    <3> QED BY <1>6, <3>3, <3>4
  <2> QED BY <2>1, <2>2
<1>11. x \notin {Unbound, None, Lazy}
  BY <1>2, <1>10, MeaningIsValue, Bindings DEF Imports
<1>12. ~ BindFails(n, <<x>>)
  <2>1. PICK values : values = <<x>>
    OBVIOUS
  <2>2. \A i \in DOMAIN values : values[i] \notin {Lazy, None}
    BY <1>11, <2>1
  <2> QED BY <1>1, <1>2, <2>1, <2>2, CanBind
<1>13. BindNodeValues(n, <<x>>, ops) /\ onProduced' = onProduced /\ attrs' = attrs
  BY <1>1, <1>3, <1>4, <1>11, <1>12 DEF ImportGetitem
<1>14. program' = program
  BY <1>13 DEF BindNodeValues
<1>15. AttrsRight'
  BY <1>13, <1>14, AttrsStay
<1>16. \A i \in DOMAIN program.args[n] : v[<<program.args[n][i], 0>>] # Lazy
  BY <1>5, <1>7, <1>8
<1>17. IF program.entry = "program"
       THEN \A m \in program.mutates : onProduced'[m[2]] = IF m[1] = n THEN n ELSE onProduced[m[2]]
       ELSE onProduced' = onProduced
  BY <1>2, <1>13, CallRegistersNothing, NoCallback
<1>18. Binds(n)
  BY <1>1, <1>2, <1>10, <1>13, <1>15, <1>16, <1>17, OneBinds
<1> QED BY <1>18, BindsKeeps

(***************************************************************************)
(* What is used.                                                           *)
(***************************************************************************)
\* An operand and its value are used, and what is read is bound.
Uses(t) ==
  /\ ImportingOperands /\ t = Operand
  /\ UseOperand(Meaning(t))
  /\ \/ v' = v /\ v[<<t, 0>>] # Lazy
     \/ v' = [v EXCEPT ![<<t, 0>>] = Meaning(t)] /\ v[<<t, 0>>] = Lazy
     \/ v' = [v EXCEPT ![<<t, 0>>] = Meaning(t)] /\ program.kind[t] = "get_attr"
  /\ AttrsRight'

LEMMA OperandIs ==
  ASSUME Imports, ImportingOperands, NEW t, t = Operand
  PROVE  /\ t \in Node /\ status = "importing" /\ program.kind[t] \notin {"pair", "hop"}
         /\ Current = Output \/ (Current \in Node /\ IsCall(Current) /\ t < Current)
         /\ Len(operands) + 1 \in DOMAIN Args(Current) /\ Args(Current)[Len(operands) + 1] = t
         /\ Args(Current) \in Seq(Nat)
<1>1. /\ t \in Node /\ status = "importing" /\ t = Args(Current)[Len(operands) + 1]
      /\ Len(operands) < Len(Args(Current))
      /\ Current \in Node => program.kind[Current] \in Call \ {"getitem"}
  BY DEF ImportingOperands, Operand
<1>2. Args(Current) \in Seq(Nat)
  <2>1. CASE Current \in Node
    BY <2>1, ArgsOfNodes DEF Imports
  <2>2. CASE Current = Output
    BY <2>2, ArgsOfOutput DEF Imports
  <2> QED BY <2>1, <2>2, CurrentIs
<1>3. Len(operands) + 1 \in DOMAIN Args(Current)
  <2>1. Len(operands) \in Nat
    BY DEF Imports, FxInv, BindingsOK
  <2> QED BY <1>1, <1>2, <2>1
<1>4. CASE Current \in Node
  <2>1. t < Current /\ program.kind[t] \notin {"pair", "hop"}
    BY <1>1, <1>3, <1>4, ArgsOfNodes DEF Imports
  <2> QED BY <1>1, <1>2, <1>3, <1>4, <2>1 DEF IsCall
<1>5. CASE Current = Output
  <2>1. t # NoNode
    BY <1>1, CurrentIs DEF NoNode, Output
  <2>2. program.kind[t] \notin {"pair", "hop"}
    BY <1>1, <1>3, <1>5, <2>1, ArgsOfOutput DEF Imports
  <2> QED BY <1>1, <1>2, <1>3, <1>5, <2>2
<1> QED BY <1>4, <1>5, CurrentIs

LEMMA OperandIsBound ==
  ASSUME Imports, ImportingOperands, NEW t, t = Operand, program.kind[t] \in Scheduled
  PROVE  v[<<t, 0>>] # Unbound /\ First(t) = Meaning(t)
<1>1. t \in Node /\ program.kind[t] \notin {"pair", "hop"}
      /\ (Current = Output \/ (Current \in Node /\ IsCall(Current) /\ t < Current))
  BY OperandIs
<1>2. First(t) = Meaning(t)
  BY <1>1 DEF First
<1>3. CASE IsCall(t)
  <2>1. v[<<t, 0>>] = First(t)
    BY <1>1, <1>3, EarlierCallIsBound
  <2> QED BY <1>1, <1>2, <2>1, MeaningIsValue, Bindings DEF Imports
<1>4. CASE ~ IsCall(t)
  <2>1. t \notin Pending
    BY <1>1, <1>4, CurrentIs
  <2> QED BY <1>1, <1>2, <2>1 DEF Imports, ImportInv, BoundInOrder
<1> QED BY <1>3, <1>4

\* An attribute is an operand of a call.
LEMMA AttributeIsArgument ==
  ASSUME Imports, ImportingOperands, NEW t, t = Operand, program.kind[t] = "get_attr"
  PROVE  Current \in Node /\ AsArgument /\ v[<<t, 0>>] = Unbound
<1>1. /\ t \in Node /\ (Current = Output \/ Current \in Node)
      /\ Len(operands) + 1 \in DOMAIN Args(Current) /\ Args(Current)[Len(operands) + 1] = t
  BY OperandIs
<1>2. /\ ~ Returned(t)
      /\ \A u \in Users(t) :
           /\ program.kind[u] # "cat"
           /\ \A w \in Users(t) : w = u
           /\ \A i, j \in DOMAIN program.args[u] : program.args[u][i] = t /\ program.args[u][j] = t => i = j
  BY <1>1 DEF Imports, Regular, AttributesAreUsedOnce
<1>3. Current \in Node
  <2> SUFFICES ASSUME Current = Output PROVE FALSE
    BY <1>1
  <2>1. Args(Current) = OutputArgs
    BY DEF Args
  <2> QED BY <1>1, <1>2, <2>1 DEF Returned
<1>4. Args(Current) = program.args[Current] /\ Current # Output
  BY <1>3, ArgsOfNodes, CurrentIs DEF Imports
<1>5. Current \in Users(t)
  BY <1>1, <1>3, <1>4 DEF Users
<1>6. AsArgument
  BY <1>2, <1>4, <1>5 DEF AsArgument
<1>7. v[<<t, 0>>] = Unbound
  <2> SUFFICES ASSUME v[<<t, 0>>] # Unbound PROVE FALSE
    OBVIOUS
  <2>1. PICK u \in Node : \E i \in DOMAIN program.args[u] :
          /\ program.args[u][i] = t
          /\ v[<<u, 0>>] # Unbound \/ (u = Current /\ i <= Len(operands))
    BY <1>1 DEF Imports, ImportInv, AttributesRight
  <2>2. PICK i \in DOMAIN program.args[u] :
          /\ program.args[u][i] = t
          /\ v[<<u, 0>>] # Unbound \/ (u = Current /\ i <= Len(operands))
    BY <2>1
  <2>3. u = Current
    BY <1>2, <1>5, <2>1 DEF Users
  <2>4. v[<<Current, 0>>] = Unbound
    BY <1>4, CurrentIs
  <2>5. i <= Len(operands) /\ i = Len(operands) + 1
    BY <1>1, <1>2, <1>4, <1>5, <2>2, <2>3, <2>4
  <2>6. Len(operands) \in Nat
    BY DEF Imports, FxInv, BindingsOK
  <2> QED BY <2>5, <2>6
<1> QED BY <1>3, <1>6, <1>7

\* What changes when an operand is used.
LEMMA UsesChanges ==
  ASSUME Imports, NEW t, Uses(t)
  PROVE  /\ program' = program /\ todo' = todo /\ status' = status /\ results' = results
         /\ onProduced' = onProduced /\ contents' = contents
         /\ operands' = Append(operands, Meaning(t))
         /\ t \in Node /\ v'[<<t, 0>>] # Lazy /\ First(t) = Meaning(t)
         /\ \A x \in Node : v'[<<x, 1>>] = v[<<x, 1>>]
         /\ \A x \in Node : \/ v'[<<x, 0>>] = v[<<x, 0>>]
                            \/ /\ x = t /\ v'[<<x, 0>>] = Meaning(t) /\ v'[<<x, 0>>] # Unbound
                               /\ v[<<x, 0>>] = Lazy \/ program.kind[t] = "get_attr"
         /\ \A x \in Node : program.kind[x] # "get_attr" => (v'[<<x, 0>>] = Unbound <=> v[<<x, 0>>] = Unbound)
         /\ \A x \in Node : v[<<x, 0>>] # Unbound => v'[<<x, 0>>] # Unbound
         /\ \A x \in Node : v[<<x, 0>>] # Lazy => v'[<<x, 0>>] # Lazy
<1>1. /\ program' = program /\ todo' = todo /\ status' = status /\ results' = results
      /\ onProduced' = onProduced /\ contents' = contents
      /\ operands' = Append(operands, Meaning(t))
  BY DEF Uses, UseOperand
<1>2. t \in Node /\ program.kind[t] \notin {"pair", "hop"}
  BY OperandIs DEF Uses
<1>3. First(t) = Meaning(t) /\ Meaning(t) # Lazy /\ Meaning(t) # Unbound /\ Lazy # Unbound
  BY <1>2, MeaningIsValue, Bindings DEF First, Imports
<1>4. v \in [Node \X {0, 1} -> Binding] /\ <<t, 0>> \in Node \X {0, 1}
  BY <1>2 DEF Imports, FxInv, BindingsOK
<1>5. \A x \in Node : <<x, 0>> \in Node \X {0, 1} /\ <<x, 1>> \in Node \X {0, 1} /\ <<x, 1>> # <<t, 0>>
                      /\ (x # t => <<x, 0>> # <<t, 0>>)
  OBVIOUS
<1>6. CASE v' = v /\ v[<<t, 0>>] # Lazy
  BY <1>1, <1>2, <1>3, <1>6
<1>7. CASE /\ v' = [v EXCEPT ![<<t, 0>>] = Meaning(t)]
           /\ v[<<t, 0>>] = Lazy \/ program.kind[t] = "get_attr"
  <2>1. v'[<<t, 0>>] = Meaning(t) /\ \A k \in Node \X {0, 1} : k # <<t, 0>> => v'[k] = v[k]
    BY <1>4, <1>7
  <2>2. \A x \in Node : x # t => v'[<<x, 0>>] = v[<<x, 0>>]
    BY <1>5, <2>1
  <2>3. \A x \in Node : v'[<<x, 1>>] = v[<<x, 1>>]
    BY <1>5, <2>1
  <2> QED BY <1>1, <1>2, <1>3, <1>7, <2>1, <2>2, <2>3
<1> QED BY <1>6, <1>7 DEF Uses

LEMMA UsesKeepsBindings ==
  ASSUME Imports, NEW t, Uses(t)
  PROVE  /\ IsSchedule(todo)' /\ BoundInOrder' /\ ValuesRight' /\ CallbacksRight' /\ ContentsRight'
         /\ StatusRight'
<1>1. program' = program /\ todo' = todo
  BY UsesChanges
<1>2. /\ Node' = Node /\ Scheduled' = Scheduled /\ OutputArgs' = OutputArgs
      /\ \A x : First(x)' = First(x) /\ Meaning(x)' = Meaning(x)
  BY <1>1, SameProgram
<1>3. IsSchedule(todo)'
  <2>1. IsSchedule(todo)
    BY DEF Imports, ImportInv
  <2> QED BY <1>1, <1>2, <2>1 DEF IsSchedule, IsCall, NoTwice
<1>4. BoundInOrder'
  <2>1. Pending' = Pending /\ \A x : IsCall(x)' <=> IsCall(x)
    BY <1>1 DEF Pending, IsCall
  <2>2. \A x \in Node : program.kind[x] \in Scheduled => program.kind[x] # "get_attr"
    BY DEF Scheduled, Placeholder, Call
  <2>3. \A x \in Node : program.kind[x] \in Scheduled => (v'[<<x, 0>>] = Unbound <=> x \in Pending)
    BY <2>2, UsesChanges DEF Imports, ImportInv, BoundInOrder
  <2>4. \A a, b \in Node : IsCall(b) /\ b \notin Pending /\ (IsCall(a) => a < b) => a \notin Pending
    BY DEF Imports, ImportInv, BoundInOrder
  <2> QED BY <1>1, <1>2, <2>1, <2>3, <2>4 DEF BoundInOrder
<1>5. ValuesRight'
  <2>1. program.kind[t] \notin {"pair", "hop"} /\ t \in Node
    BY OperandIs DEF Uses
  <2>2. ASSUME NEW x \in Node
        PROVE  /\ \/ v'[<<x, 0>>] \in {Unbound, First(x)}
                  \/ /\ v'[<<x, 0>>] = Lazy /\ program.entry = "program"
                     /\ program.kind[x] \in {"parameter", "buffer"}
               /\ program.kind[x] \in {"pair", "hop"} /\ v'[<<x, 0>>] # Unbound => v'[<<x, 1>>] = <<x, 1>>
    <3>1. CASE v'[<<x, 0>>] = v[<<x, 0>>]
      BY <3>1, UsesChanges DEF Imports, ImportInv, ValuesRight
    <3>2. CASE x = t /\ v'[<<x, 0>>] = Meaning(t)
      BY <2>1, <3>2, UsesChanges
    <3> QED BY <3>1, <3>2, UsesChanges
  <2> QED BY <1>1, <1>2, <2>2 DEF ValuesRight
<1>6. \A m \in program.mutates : /\ m[1] \in Node /\ program.kind[m[1]] # "get_attr"
                                 /\ m[2] \in Node /\ program.kind[m[2]] # "get_attr"
  <2>1. ASSUME NEW m \in program.mutates
        PROVE  m[1] \in Node /\ program.kind[m[1]] \in {"user", "buffer"} /\ m[2] \in OneTensor(program)
    BY DEF Imports, ProgramOK, Exported, Node
  <2> QED BY <2>1 DEF OneTensor, Node
<1>7. \A m \in program.mutates : /\ v'[<<m[1], 0>>] = Unbound <=> v[<<m[1], 0>>] = Unbound
                                 /\ v'[<<m[2], 0>>] = Unbound <=> v[<<m[2], 0>>] = Unbound
  BY <1>6, UsesChanges
<1>8. CallbacksRight'
  <2>1. onProduced' = onProduced
    BY UsesChanges
  <2> QED BY <1>1, <1>2, <1>7, <2>1 DEF CallbacksRight, Imports, ImportInv
<1>9. ContentsRight'
  <2>1. contents' = contents
    BY UsesChanges
  <2>2. ContentsRight
    BY DEF Imports, ImportInv
  <2> QED BY <1>1, <1>2, <1>7, <2>1, <2>2 DEF ContentsRight
<1>10. StatusRight'
  <2>1. status = "importing"
    BY OperandIs DEF Uses
  <2>2. status' = status
    BY UsesChanges
  <2> QED BY <2>1, <2>2 DEF StatusRight
<1> QED BY <1>3, <1>4, <1>5, <1>8, <1>9, <1>10

LEMMA OneMoreOperand ==
  ASSUME Imports, NEW x
  PROVE  LET more == Append(operands, x) IN
           /\ Len(operands) \in Nat /\ Len(more) = Len(operands) + 1
           /\ DOMAIN more = 1 .. (Len(operands) + 1) /\ DOMAIN operands = 1 .. Len(operands)
           /\ more[Len(operands) + 1] = x
           /\ \A i \in DOMAIN operands : more[i] = operands[i]
           /\ \A i \in DOMAIN more : i \in DOMAIN operands \/ i = Len(operands) + 1
<1>1. operands \in Seq(Value)
  BY DEF Imports, FxInv, BindingsOK
<1>2. operands \in Seq(Value \cup {x}) /\ x \in Value \cup {x}
  BY <1>1
<1> QED BY <1>2

LEMMA UsesKeepsOperands ==
  ASSUME Imports, NEW t, Uses(t)
  PROVE  OperandsRight' /\ OperandsAreRead'
<1>1. /\ program' = program /\ todo' = todo /\ operands' = Append(operands, Meaning(t)) /\ t \in Node
      /\ v'[<<t, 0>>] # Lazy
      /\ \A x \in Node : v[<<x, 0>>] # Lazy => v'[<<x, 0>>] # Lazy
  BY UsesChanges
<1>2. /\ Node' = Node /\ \A x : Args(x)' = Args(x) /\ Meaning(x)' = Meaning(x)
  BY <1>1, SameProgram
<1>3. PICK more : more = Append(operands, Meaning(t))
  OBVIOUS
<1>4. PICK c : c = Current
  OBVIOUS
<1>5. Current' = c /\ (Args(Current))' = Args(c)
  <2>1. Current' = c
    BY <1>1, <1>4 DEF Current
  <2>2. OutputArgs' = OutputArgs
    BY <1>1, SameProgram
  <2> QED BY <1>1, <2>1, <2>2 DEF Args
<1>6. /\ Len(operands) + 1 \in DOMAIN Args(c) /\ Args(c)[Len(operands) + 1] = t /\ Args(c) \in Seq(Nat)
      /\ t # NoNode
  <2>1. t # NoNode
    BY <1>1, CurrentIs DEF NoNode, Output
  <2> QED BY <1>4, <2>1, OperandIs DEF Uses
<1>7. /\ Len(operands) \in Nat /\ Len(more) = Len(operands) + 1
      /\ more[Len(operands) + 1] = Meaning(t)
      /\ \A i \in DOMAIN operands : more[i] = operands[i]
      /\ \A i \in DOMAIN more : i \in DOMAIN operands \/ i = Len(operands) + 1
  BY <1>3, OneMoreOperand
<1>8. /\ Len(more) <= Len(Args(c))
      /\ \A i \in DOMAIN more : more[i] = IF Args(c)[i] = NoNode THEN ConstantResult(i) ELSE Meaning(Args(c)[i])
  <2>1. Len(more) <= Len(Args(c))
    BY <1>6, <1>7
  <2>2. \A i \in DOMAIN operands :
          operands[i] = IF Args(c)[i] = NoNode THEN ConstantResult(i) ELSE Meaning(Args(c)[i])
    BY <1>4 DEF Imports, ImportInv, OperandsRight
  <2> QED BY <1>6, <1>7, <2>1, <2>2
<1>9. OperandsRight'
  <2>1. operands' = more
    BY <1>1, <1>3
  <2>2. \A i : ConstantResult(i)' = ConstantResult(i)
    BY DEF ConstantResult
  <2> QED BY <1>2, <1>5, <1>8, <2>1, <2>2 DEF OperandsRight
<1>10. ASSUME NEW u \in Node, v'[<<u, 0>>] # Unbound, NEW i \in DOMAIN program.args[u]
       PROVE  v'[<<program.args[u][i], 0>>] # Lazy
  <2>1. program.args[u][i] \in Node /\ IsCall(u)
    BY ArgsOfNodes DEF Imports
  <2>2. program.kind[u] # "get_attr"
    BY <2>1 DEF IsCall, Call
  <2>3. v[<<u, 0>>] # Unbound
    BY <1>10, <2>2, UsesChanges
  <2>4. v[<<program.args[u][i], 0>>] # Lazy
    BY <2>3 DEF Imports, ImportInv, OperandsAreRead
  <2> QED BY <1>1, <2>1, <2>4
<1>11. ASSUME NEW i \in DOMAIN more, Args(c)[i] \in Node
       PROVE  v'[<<Args(c)[i], 0>>] # Lazy
  <2>1. CASE i \in DOMAIN operands
    <3>1. v[<<Args(c)[i], 0>>] # Lazy
      BY <1>4, <1>11, <2>1 DEF Imports, ImportInv, OperandsAreRead
    <3> QED BY <1>1, <1>11, <3>1
  <2>2. CASE i = Len(operands) + 1
    BY <1>1, <1>6, <2>2
  <2> QED BY <1>7, <2>1, <2>2
<1>12. OperandsAreRead'
  <2>1. operands' = more
    BY <1>1, <1>3
  <2> QED BY <1>1, <1>2, <1>5, <1>10, <1>11, <2>1 DEF OperandsAreRead
<1> QED BY <1>9, <1>12

LEMMA UsesKeepsAttributes ==
  ASSUME Imports, NEW t, Uses(t)
  PROVE  AttributesRight'
<1>1. /\ program' = program /\ todo' = todo /\ operands' = Append(operands, Meaning(t)) /\ t \in Node
      /\ \A x \in Node : v[<<x, 0>>] # Unbound => v'[<<x, 0>>] # Unbound
      /\ \A x \in Node : x # t => v'[<<x, 0>>] = v[<<x, 0>>]
  BY UsesChanges
<1>2. Node' = Node /\ Current' = Current
  BY <1>1, SameProgram DEF Current
<1>3. Len(operands) \in Nat /\ Len(operands') = Len(operands) + 1
  BY <1>1, OneMoreOperand
<1>4. ASSUME NEW x \in Node, program.kind[x] = "get_attr", v'[<<x, 0>>] # Unbound
      PROVE  \E u \in Node : \E i \in DOMAIN program.args[u] :
               /\ program.args[u][i] = x
               /\ v'[<<u, 0>>] # Unbound \/ (u = Current /\ i <= Len(operands'))
  <2>1. CASE v[<<x, 0>>] # Unbound
    <3>1. PICK u \in Node : \E i \in DOMAIN program.args[u] :
            /\ program.args[u][i] = x
            /\ v[<<u, 0>>] # Unbound \/ (u = Current /\ i <= Len(operands))
      BY <1>4, <2>1 DEF Imports, ImportInv, AttributesRight
    <3>2. PICK i \in DOMAIN program.args[u] :
            /\ program.args[u][i] = x
            /\ v[<<u, 0>>] # Unbound \/ (u = Current /\ i <= Len(operands))
      BY <3>1
    <3>3. program.args[u] \in Seq(Nat)
      BY ArgsOfNodes DEF Imports
    <3>4. i \in Nat
      BY <3>3
    <3>5. i <= Len(operands) => i <= Len(operands')
      BY <1>3, <3>4
    <3> QED BY <1>1, <3>2, <3>5
  <2>2. CASE v[<<x, 0>>] = Unbound
    <3>1. x = t
      BY <1>1, <1>4, <2>2
    <3>2. Current \in Node /\ Len(operands) + 1 \in DOMAIN Args(Current) /\ Args(Current)[Len(operands) + 1] = x
      BY <1>4, <3>1, AttributeIsArgument, OperandIs DEF Uses
    <3>3. Args(Current) = program.args[Current]
      BY <3>2, ArgsOfNodes DEF Imports
    <3>4. Len(operands) + 1 <= Len(operands')
      BY <1>3
    <3> QED BY <3>2, <3>3, <3>4
  <2> QED BY <2>1, <2>2
<1> QED BY <1>1, <1>2, <1>4 DEF AttributesRight

LEMMA UsesKeeps ==
  ASSUME Imports, NEW t, Uses(t)
  PROVE  ImportInv'
<1>1. AttrsRight'
  BY DEF Uses
<1> QED BY <1>1, UsesKeepsBindings, UsesKeepsOperands, UsesKeepsAttributes DEF ImportInv

LEMMA ImportLiteralOperandImports ==
  ASSUME Imports, ImportLiteralOperand
  PROVE  ImportInv'
<1>1. PICK t : t = Operand
  OBVIOUS
<1>2. ImportingOperands /\ IsLiteral(t)
  BY <1>1 DEF ImportLiteralOperand
<1>3. /\ t \in Node /\ (Current = Output \/ Current \in Node)
      /\ Len(operands) + 1 \in DOMAIN Args(Current) /\ Args(Current)[Len(operands) + 1] = t
  BY <1>1, <1>2, OperandIs
<1>4. program.entry = "frozen" /\ program.kind[t] \in {"parameter", "constant"}
  BY <1>2 DEF IsLiteral
<1>5. AsArgument
  <2>1. CASE Current = Output
    BY <1>4, <2>1 DEF AsArgument
  <2>2. CASE Current \in Node
    <3>1. Args(Current) = program.args[Current]
      BY <2>2, ArgsOfNodes DEF Imports
    <3>2. Current \in Users(t)
      BY <1>3, <2>2, <3>1 DEF Users
    <3>3. program.kind[Current] # "cat"
      BY <1>2, <1>3, <3>2 DEF Imports, Regular, NoLiteralInLists
    <3> QED BY <1>4, <3>3 DEF AsArgument
  <2> QED BY <1>3, <2>1, <2>2
<1>6. PICK a \in Addresses(t) : UseOperand(LiteralOf(t, a)) /\ attrs' = Tracked(t, a) /\ v' = v
  BY <1>1, <1>5 DEF ImportLiteralOperand
<1>7. program' = program
  BY <1>6 DEF UseOperand
<1>8. LiteralOf(t, a) = <<t, 0>> /\ AttrsRight'
  BY <1>3, <1>6, <1>7, LiteralIsRight
<1>9. Meaning(t) = <<t, 0>>
  BY <1>4 DEF Meaning
<1>10. v[<<t, 0>>] # Lazy
  <2>1. First(t) \in Value
    BY <1>3, MeaningIsValue DEF Imports
  <2> QED BY <1>3, <1>4, <2>1, Bindings DEF Imports, ImportInv, ValuesRight
<1>11. Uses(t)
  <2>1. UseOperand(Meaning(t))
    BY <1>6, <1>8, <1>9
  <2> QED BY <1>1, <1>2, <1>6, <1>8, <1>10, <2>1 DEF Uses
<1> QED BY <1>11, UsesKeeps

LEMMA ImportGetAttrImports ==
  ASSUME Imports, ImportGetAttr
  PROVE  ImportInv'
<1>1. PICK t : t = Operand
  OBVIOUS
<1>2. ImportingOperands /\ program.kind[t] = "get_attr"
  BY <1>1 DEF ImportGetAttr
<1>3. v[<<t, 0>>] = Unbound
  BY <1>1, <1>2, AttributeIsArgument
<1>4. PICK a \in Addresses(t) :
        /\ UseOperand(LiteralOf(t, a)) /\ attrs' = Tracked(t, a)
        /\ v' = [v EXCEPT ![<<t, 0>>] = LiteralOf(t, a)]
  BY <1>1, <1>3 DEF ImportGetAttr
<1>5. program' = program
  BY <1>4 DEF UseOperand
<1>6. t \in Node
  BY <1>1, <1>2, OperandIs
<1>7. LiteralOf(t, a) = <<t, 0>> /\ AttrsRight'
  BY <1>4, <1>5, <1>6, LiteralIsRight
<1>8. Meaning(t) = <<t, 0>>
  BY <1>2 DEF Meaning
<1>9. Uses(t)
  <2>1. UseOperand(Meaning(t)) /\ v' = [v EXCEPT ![<<t, 0>>] = Meaning(t)]
    BY <1>4, <1>7, <1>8
  <2> QED BY <1>1, <1>2, <1>7, <2>1 DEF Uses
<1> QED BY <1>9, UsesKeeps

\* What is read at its first use still holds what it held on entry.
LEMMA LazyIsUnwritten ==
  ASSUME Imports, ImportingOperands, NEW t, t = Operand, v[<<t, 0>>] = Lazy
  PROVE  /\ t \in Node /\ program.entry = "program" /\ program.kind[t] \in {"parameter", "buffer"}
         /\ contents[t] = <<t, 0>>
<1>1. /\ t \in Node /\ (Current = Output \/ Current \in Node)
      /\ Len(operands) + 1 \in DOMAIN Args(Current) /\ Args(Current)[Len(operands) + 1] = t
  BY OperandIs
<1>2. program.entry = "program" /\ program.kind[t] \in {"parameter", "buffer"}
  <2>1. First(t) \in Value
    BY <1>1, MeaningIsValue DEF Imports
  <2> QED BY <1>1, <2>1, Bindings DEF Imports, ImportInv, ValuesRight
<1>3. Users(t) # {} \/ Returned(t)
  <2>1. CASE Current = Output
    <3>1. Args(Current) = OutputArgs
      BY <2>1 DEF Args
    <3> QED BY <1>1, <3>1 DEF Returned
  <2>2. CASE Current \in Node
    <3>1. Args(Current) = program.args[Current]
      BY <2>2, ArgsOfNodes DEF Imports
    <3> QED BY <1>1, <2>2, <3>1 DEF Users
  <2> QED BY <1>1, <2>1, <2>2
<1>4. ASSUME NEW m \in program.mutates, m[1] = t PROVE v[<<m[2], 0>>] = Unbound
  <2> SUFFICES ASSUME v[<<m[2], 0>>] # Unbound PROVE FALSE
    OBVIOUS
  <2>1. m[2] \in Node /\ IsCall(m[2]) /\ program.kind[m[2]] \in Scheduled
    BY <1>2 DEF Imports, FxInv, StaticOK, OneTensor, Node, Regular, ProducersAreDistinctCalls, IsCall, Scheduled
  <2>2. m \in MutableBuffers
    BY <1>2, <1>4 DEF MutableBuffers, Imports, ProgramOK, Exported
  <2>3. PICK u \in Users(t) : u <= m[2]
    BY <1>2, <1>3, <1>4, <2>2 DEF Imports, Regular, BuffersAreReadBeforeTheyAreWritten
  <2>4. u \in Node /\ \E i \in DOMAIN program.args[u] : program.args[u][i] = t
    BY <2>3 DEF Users
  <2>5. IsCall(u) /\ program.kind[u] \in Scheduled
    BY <2>4, ArgsOfNodes DEF Imports, IsCall, Scheduled
  <2>6. m[2] \notin Pending
    BY <2>1 DEF Imports, ImportInv, BoundInOrder
  <2>7. u \notin Pending
    <3>1. u \in Nat /\ m[2] \in Nat
      BY <2>1, <2>4, ArgsOfNodes DEF Imports
    <3>2. u = m[2] \/ u < m[2]
      BY <2>3, <3>1
    <3> QED BY <2>1, <2>4, <2>6, <3>2 DEF Imports, ImportInv, BoundInOrder
  <2>8. v[<<u, 0>>] # Unbound
    BY <2>4, <2>5, <2>7 DEF Imports, ImportInv, BoundInOrder
  <2> QED BY <2>4, <2>8 DEF Imports, ImportInv, OperandsAreRead
<1>5. contents[t] = <<t, 0>>
  BY <1>1, <1>2, <1>4 DEF Imports, ImportInv, ContentsRight
<1> QED BY <1>1, <1>2, <1>5

LEMMA ImportInputImports ==
  ASSUME Imports, ImportInput
  PROVE  ImportInv'
<1>1. PICK t : t = Operand
  OBVIOUS
<1>2. ImportingOperands /\ v[<<t, 0>>] = Lazy
  BY <1>1 DEF ImportInput
<1>3. t \in Node /\ program.kind[t] \in {"parameter", "buffer"} /\ contents[t] = <<t, 0>>
  BY <1>1, <1>2, LazyIsUnwritten
<1>4. Meaning(t) = <<t, 0>>
  BY <1>3 DEF Meaning
<1>5. CASE program.hooks = "external"
  <2>1. UseOperand(contents[t]) /\ v' = Resolved(t, contents[t]) /\ attrs' = attrs
    BY <1>1, <1>5 DEF ImportInput
  <2>2. program' = program
    BY <2>1 DEF UseOperand
  <2>3. AttrsRight'
    BY <2>1, <2>2, AttrsStay
  <2>4. UseOperand(Meaning(t)) /\ v' = [v EXCEPT ![<<t, 0>>] = Meaning(t)]
    BY <1>3, <1>4, <2>1 DEF Resolved
  <2>5. Uses(t)
    BY <1>1, <1>2, <2>3, <2>4 DEF Uses
  <2> QED BY <2>5, UsesKeeps
<1>6. CASE program.hooks # "external"
  <2>1. PICK a \in Addresses(t) :
          /\ UseOperand(LiteralOf(t, a)) /\ v' = Resolved(t, LiteralOf(t, a)) /\ attrs' = Tracked(t, a)
    BY <1>1, <1>6 DEF ImportInput
  <2>2. program' = program
    BY <2>1 DEF UseOperand
  <2>3. LiteralOf(t, a) = <<t, 0>> /\ AttrsRight'
    BY <1>3, <2>1, <2>2, LiteralIsRight
  <2>4. UseOperand(Meaning(t)) /\ v' = [v EXCEPT ![<<t, 0>>] = Meaning(t)]
    BY <1>4, <2>1, <2>3 DEF Resolved
  <2>5. Uses(t)
    BY <1>1, <1>2, <2>3, <2>4 DEF Uses
  <2> QED BY <2>5, UsesKeeps
<1> QED BY <1>5, <1>6

LEMMA ResolveNodeValueImports ==
  ASSUME Imports, ResolveNodeValue
  PROVE  ImportInv'
<1>1. PICK t : t = Operand
  OBVIOUS
<1>2. /\ ImportingOperands /\ ~ IsLiteral(t) /\ v[<<t, 0>>] # Lazy
      /\ ~ (program.kind[t] = "get_attr" /\ AsArgument)
  BY <1>1 DEF ResolveNodeValue
<1>3. t \in Node /\ program.kind[t] \notin {"pair", "hop"}
  BY <1>1, <1>2, OperandIs
<1>4. program.kind[t] \in Scheduled
  <2>1. program.kind[t] # "get_attr"
    BY <1>1, <1>2, AttributeIsArgument
  <2>2. program.kind[t] \in Placeholder \cup Call
    BY <1>3, <2>1, ArgsOfNodes DEF Imports, Kind
  <2>3. CASE program.entry = "program"
    BY <2>2, <2>3 DEF Scheduled
  <2>4. CASE program.entry = "frozen"
    BY <1>2, <2>2, <2>4 DEF Scheduled, IsLiteral, Placeholder
  <2> QED BY <2>3, <2>4 DEF Imports, ProgramOK
<1>5. v[<<t, 0>>] = Meaning(t)
  BY <1>1, <1>2, <1>3, <1>4, OperandIsBound DEF Imports, ImportInv, ValuesRight
<1>6. v[<<t, 0>>] \notin {Unbound, None}
  BY <1>3, <1>5, MeaningIsValue, Bindings DEF Imports
<1>7. UseOperand(v[<<t, 0>>]) /\ v' = v /\ attrs' = attrs
  BY <1>1, <1>3, <1>6 DEF ResolveNodeValue
<1>8. program' = program
  BY <1>7 DEF UseOperand
<1>9. AttrsRight'
  BY <1>7, <1>8, AttrsStay
<1>10. Uses(t)
  <2>1. UseOperand(Meaning(t))
    BY <1>5, <1>7
  <2> QED BY <1>1, <1>2, <1>7, <1>9, <2>1 DEF Uses
<1> QED BY <1>10, UsesKeeps

(***************************************************************************)
(* The output.                                                             *)
(***************************************************************************)
LEMMA NothingIsBound ==
  ASSUME Imports, program' = program, todo' = todo, v' = v, onProduced' = onProduced,
         contents' = contents, attrs' = attrs
  PROVE  /\ IsSchedule(todo)' /\ BoundInOrder' /\ ValuesRight' /\ AttrsRight' /\ CallbacksRight'
         /\ ContentsRight' /\ Current' = Current /\ (Args(Current))' = Args(Current)
<1>1. /\ Node' = Node /\ Scheduled' = Scheduled /\ OutputArgs' = OutputArgs
      /\ \A x : First(x)' = First(x) /\ Meaning(x)' = Meaning(x)
  BY SameProgram
<1>2. Pending' = Pending /\ Current' = Current /\ \A x : IsCall(x)' <=> IsCall(x)
  BY DEF Pending, Current, IsCall
<1>3. IsSchedule(todo)'
  <2>1. IsSchedule(todo)
    BY DEF Imports, ImportInv
  <2> QED BY <1>1, <2>1 DEF IsSchedule, IsCall, NoTwice
<1>4. BoundInOrder' /\ ValuesRight'
  BY <1>1, <1>2 DEF BoundInOrder, ValuesRight, Imports, ImportInv
<1>5. CallbacksRight' /\ ContentsRight'
  BY <1>1 DEF CallbacksRight, ContentsRight, Imports, ImportInv
<1>6. (Args(Current))' = Args(Current)
  BY <1>1, <1>2 DEF Args
<1> QED BY <1>2, <1>3, <1>4, <1>5, <1>6, AttrsStay

LEMMA NothingIsUsed ==
  ASSUME Imports, program' = program, todo' = todo, v' = v, onProduced' = onProduced,
         contents' = contents, attrs' = attrs, operands' = operands
  PROVE  /\ IsSchedule(todo)' /\ BoundInOrder' /\ ValuesRight' /\ AttrsRight' /\ CallbacksRight'
         /\ ContentsRight' /\ OperandsRight' /\ OperandsAreRead' /\ AttributesRight'
<1>1. Node' = Node /\ \A x : Meaning(x)' = Meaning(x) /\ ConstantResult(x)' = ConstantResult(x)
  BY SameProgram DEF ConstantResult
<1>2. Current' = Current /\ (Args(Current))' = Args(Current)
  BY NothingIsBound
<1>3. PICK c : c = Args(Current)
  OBVIOUS
<1>4. OperandsRight'
  <2>1. /\ Len(operands) <= Len(c)
        /\ \A i \in DOMAIN operands :
             operands[i] = IF c[i] = NoNode THEN ConstantResult(i) ELSE Meaning(c[i])
    BY <1>3 DEF Imports, ImportInv, OperandsRight
  <2> QED BY <1>1, <1>2, <1>3, <2>1 DEF OperandsRight
<1>5. OperandsAreRead'
  <2>1. /\ \A u \in Node : v[<<u, 0>>] # Unbound =>
             \A i \in DOMAIN program.args[u] : v[<<program.args[u][i], 0>>] # Lazy
        /\ \A i \in DOMAIN operands : c[i] \in Node => v[<<c[i], 0>>] # Lazy
    BY <1>3 DEF Imports, ImportInv, OperandsAreRead
  <2> QED BY <1>1, <1>2, <1>3, <2>1 DEF OperandsAreRead
<1>6. AttributesRight'
  BY <1>1, <1>2 DEF AttributesRight, Imports, ImportInv
<1> QED BY <1>4, <1>5, <1>6, NothingIsBound

LEMMA ReturnImports ==
  ASSUME Imports, ReturnNodeValues
  PROVE  ImportInv'
<1>1. /\ Current = Output /\ Len(operands) = Len(Args(Output))
      /\ program' = program /\ todo' = todo /\ v' = v /\ onProduced' = onProduced
      /\ contents' = contents /\ attrs' = attrs /\ operands' = operands
      /\ results' = operands /\ status' = "imported"
  BY DEF ReturnNodeValues
<1>2. Current' = Current /\ OutputArgs' = OutputArgs
  BY <1>1, SameProgram DEF Current
<1>3. StatusRight'
  BY <1>1, <1>2 DEF StatusRight, Args
<1> QED BY <1>1, <1>3, NothingIsUsed DEF ImportInv

LEMMA StutterImports ==
  ASSUME Imports, UNCHANGED vars
  PROVE  ImportInv'
<1>1. /\ program' = program /\ todo' = todo /\ v' = v /\ onProduced' = onProduced
      /\ contents' = contents /\ attrs' = attrs /\ operands' = operands
      /\ results' = results /\ status' = status
  BY DEF vars
<1>2. Current' = Current /\ OutputArgs' = OutputArgs
  BY <1>1, SameProgram DEF Current
<1>3. StatusRight'
  BY <1>1, <1>2 DEF StatusRight, Args, Imports, ImportInv
<1> QED BY <1>1, <1>3, NothingIsUsed DEF ImportInv

LEMMA ImportConstantResultImports ==
  ASSUME Imports, ImportConstantResult
  PROVE  ImportInv'
<1>1. PICK k : k = Len(operands) + 1
  OBVIOUS
<1>2. PICK x : x = ConstantResult(k)
  OBVIOUS
<1>3. /\ Len(operands) \in Nat /\ k \in Nat /\ k >= 1
      /\ \A i \in DOMAIN operands : i <= Len(operands)
  BY <1>1, OneMoreOperand
<1>4. PICK args : args = OutputArgs
  OBVIOUS
<1>5. /\ Current = Output /\ status = "importing" /\ Args(Current) = args /\ args \in Seq(Nat)
      /\ Len(operands) < Len(args) /\ args[k] = NoNode
  BY <1>1, <1>4, ArgsOfOutput DEF ImportConstantResult, Operand, Imports
<1>6. UseOperand(x) /\ v' = v /\ attrs' = attrs
  <2> DEFINE skipped == IF program.entry = "program" THEN Cardinality(program.mutates) ELSE 0
  <2>1. skipped = 0
    <3>1. CASE program.entry = "program"
      <4>1. args = program.outputs
        BY <1>4, <3>1, ArgsOfOutput DEF Imports
      <4>2. k \in DOMAIN program.outputs /\ program.outputs[k] = NoNode
        BY <1>1, <1>3, <1>5, <4>1
      <4>3. program.mutates = {}
        BY <3>1, <4>2 DEF Imports, Regular, ConstantsAreFound
      <4> QED BY <3>1, <4>3, FS_EmptySet
    <3> QED BY <3>1
  <2>2. PICK j \in Int : j = Len(operands) + 1 - skipped
    BY <1>3, <2>1
  <2>3. IF j < 1 \/ OutputArgs[j] # NoNode THEN Raise
        ELSE UseOperand(ConstantResult(j)) /\ UNCHANGED <<v, attrs, ir>>
    BY <2>2 DEF ImportConstantResult
  <2>4. j = k
    BY <1>1, <1>3, <2>1, <2>2
  <2>6. ~ (k < 1) /\ OutputArgs[k] = NoNode
    BY <1>3, <1>4, <1>5
  <2> QED BY <1>2, <2>3, <2>4, <2>6
<1>7. PICK more : more = Append(operands, x)
  OBVIOUS
<1>8. /\ program' = program /\ todo' = todo /\ onProduced' = onProduced /\ contents' = contents
      /\ operands' = more /\ results' = results /\ status' = status
  BY <1>6, <1>7 DEF UseOperand
<1>9. /\ Node' = Node /\ \A y : Meaning(y)' = Meaning(y) /\ ConstantResult(y)' = ConstantResult(y)
  BY <1>8, SameProgram DEF ConstantResult
<1>10. Current' = Current /\ (Args(Current))' = args
  BY <1>5, <1>6, <1>8, NothingIsBound
<1>11. /\ Len(more) = k /\ more[k] = x
       /\ \A i \in DOMAIN operands : more[i] = operands[i]
       /\ \A i \in DOMAIN more : i \in DOMAIN operands \/ i = k
  BY <1>1, <1>7, OneMoreOperand
<1>12. OperandsRight'
  <2>1. \A i \in DOMAIN operands :
          operands[i] = IF args[i] = NoNode THEN ConstantResult(i) ELSE Meaning(args[i])
    BY <1>5 DEF Imports, ImportInv, OperandsRight
  <2>2. \A i \in DOMAIN more : more[i] = IF args[i] = NoNode THEN ConstantResult(i) ELSE Meaning(args[i])
    BY <1>2, <1>5, <1>11, <2>1
  <2>3. Len(more) <= Len(args)
    BY <1>1, <1>3, <1>5, <1>11
  <2> QED BY <1>8, <1>9, <1>10, <2>2, <2>3 DEF OperandsRight
<1>13. OperandsAreRead'
  <2>1. /\ \A u \in Node : v[<<u, 0>>] # Unbound =>
             \A i \in DOMAIN program.args[u] : v[<<program.args[u][i], 0>>] # Lazy
        /\ \A i \in DOMAIN operands : args[i] \in Node => v[<<args[i], 0>>] # Lazy
    BY <1>5 DEF Imports, ImportInv, OperandsAreRead
  <2>2. args[k] \notin Node
    BY <1>5, CurrentIs DEF NoNode, Output
  <2>3. \A i \in DOMAIN more : args[i] \in Node => v[<<args[i], 0>>] # Lazy
    BY <1>11, <2>1, <2>2
  <2> QED BY <1>6, <1>8, <1>9, <1>10, <2>1, <2>3 DEF OperandsAreRead
<1>14. AttributesRight'
  <2>1. \A u \in Node : u # Current
    BY <1>5, CurrentIs
  <2>2. \A t \in Node : program.kind[t] = "get_attr" /\ v[<<t, 0>>] # Unbound =>
          \E u \in Node : \E i \in DOMAIN program.args[u] :
            program.args[u][i] = t /\ v[<<u, 0>>] # Unbound
    BY <2>1 DEF Imports, ImportInv, AttributesRight
  <2> QED BY <1>6, <1>8, <1>9, <2>2 DEF AttributesRight
<1>15. StatusRight'
  BY <1>5, <1>8 DEF StatusRight
<1> QED BY <1>6, <1>8, <1>12, <1>13, <1>14, <1>15, NothingIsBound DEF ImportInv

(***************************************************************************)
(* The invariant of regular programs.                                      *)
(***************************************************************************)
LEMMA InitImports ==
  ASSUME Init
  PROVE  ImportInv
<1>1. FxInv /\ ProgramOK
  BY InitFx, InitProgram
<1>2. /\ todo = Schedule(program) /\ operands = <<>> /\ v = [k \in Node \X {0, 1} |-> Unbound]
      /\ onProduced = [n \in Node |-> Output] /\ attrs = [a \in Node \cup Address |-> Empty]
      /\ contents = [n \in Node |-> <<n, 0>>] /\ status = "importing"
  BY DEF Init
<1>3. /\ IsSchedule(todo)
      /\ \A n \in Node : program.kind[n] \in Scheduled => n \in Pending
  <2>1. Len(program.kind) \in Nat /\ program.entry \in {"program", "frozen"}
    BY <1>1 DEF FxInv, StaticOK, ProgramOK
  <2>2. /\ IsSchedule(Schedule(program))
        /\ \A n \in Node : program.kind[n] \in Scheduled
             => \E i \in DOMAIN Schedule(program) : Schedule(program)[i] = n
    BY <2>1, InitSchedule
  <2> QED BY <1>2, <2>2 DEF Pending
<1>4. \A n \in Node : v[<<n, 0>>] = Unbound
  BY <1>2
<1>5. BoundInOrder
  <2>1. \A b \in Node : IsCall(b) => b \in Pending
    BY <1>3 DEF IsCall, Scheduled
  <2> QED BY <1>3, <1>4, <2>1 DEF BoundInOrder
<1>6. ValuesRight
  BY <1>4 DEF ValuesRight
<1>7. AttrsRight
  BY <1>2 DEF AttrsRight
<1>8. Args(Current) \in Seq(Nat)
  <2>1. Current \in Node \cup {Output}
    BY <1>3, FirstOfSchedule DEF Current
  <2> QED BY <1>1, <2>1, ArgsOfNodes, ArgsOfOutput
<1>9. Len(operands) = 0 /\ DOMAIN operands = {}
  BY <1>2
<1>10. OperandsRight
  <2>1. Len(operands) <= Len(Args(Current))
    BY <1>8, <1>9
  <2> QED BY <1>9, <2>1 DEF OperandsRight
<1>11. OperandsAreRead
  BY <1>4, <1>9 DEF OperandsAreRead
<1>12. CallbacksRight
  <2>1. \A m \in program.mutates : m[1] \in Node
    BY <1>1 DEF ProgramOK, Exported, Node
  <2>2. \A m \in program.mutates : v[<<m[1], 0>>] = Unbound
    BY <1>4, <2>1
  <2> QED BY <1>2, <2>2 DEF CallbacksRight
<1>13. ContentsRight
  <2>1. \A m \in program.mutates : m[2] \in Node
    BY <1>1 DEF ProgramOK, Exported, Node, OneTensor
  <2>2. \A m \in program.mutates : v[<<m[2], 0>>] = Unbound
    BY <1>4, <2>1
  <2> QED BY <1>2, <2>2 DEF ContentsRight
<1>14. AttributesRight
  BY <1>4 DEF AttributesRight
<1>15. StatusRight
  BY <1>2 DEF StatusRight
<1> QED BY <1>3, <1>5, <1>6, <1>7, <1>10, <1>11, <1>12, <1>13, <1>14, <1>15 DEF ImportInv

\* No step changes the program.
LEMMA ProgramStays ==
  ASSUME [Next]_vars
  PROVE  program' = program
<1> USE DEF Raise, BindNodeValues, UseOperand
<1>1. CASE ImportConstant
  BY <1>1 DEF ImportConstant
<1>2. CASE BindArgument
  BY <1>2 DEF BindArgument
<1>3. CASE ImportMutableToVtensor
  BY <1>3 DEF ImportMutableToVtensor
<1>4. CASE BindLazily
  BY <1>4 DEF BindLazily
<1>5. CASE ImportLiteralOperand
  BY <1>5 DEF ImportLiteralOperand
<1>6. CASE ImportGetAttr
  BY <1>6 DEF ImportGetAttr
<1>7. CASE ImportInput
  BY <1>7 DEF ImportInput
<1>8. CASE ResolveNodeValue
  BY <1>8 DEF ResolveNodeValue
<1>9. CASE ImportConstantResult
  BY <1>9 DEF ImportConstantResult
<1>10. CASE ImportCall
  BY <1>10 DEF ImportCall
<1>11. CASE ImportGetitem
  BY <1>11 DEF ImportGetitem
<1>12. CASE ReturnNodeValues
  BY <1>12 DEF ReturnNodeValues
<1>13. CASE UNCHANGED vars
  BY <1>13 DEF vars
<1> QED
  BY <1>1, <1>2, <1>3, <1>4, <1>5, <1>6, <1>7, <1>8, <1>9, <1>10, <1>11, <1>12, <1>13
     DEF Next, Done

RegularInv == FxInv /\ ProgramOK /\ (Regular => ImportInv)

LEMMA InitRegular == Init => RegularInv
BY InitFx, InitProgram, InitImports DEF RegularInv

LEMMA NextRegular == RegularInv /\ [Next]_vars => RegularInv'
<1> SUFFICES ASSUME RegularInv, [Next]_vars PROVE RegularInv'
  OBVIOUS
<1>1. FxInv'
  BY NextFx DEF RegularInv
<1>2. ProgramOK' /\ (Regular' <=> Regular)
  BY ProgramStays, SameProgram, SameRegular DEF RegularInv
<1>3. ASSUME Regular PROVE ImportInv'
  <2>1. Imports
    BY <1>3 DEF Imports, RegularInv
  <2>2. CASE ImportConstant
    BY <2>1, <2>2, ImportConstantImports
  <2>3. CASE BindArgument
    BY <2>1, <2>3, BindArgumentImports
  <2>4. CASE ImportMutableToVtensor
    BY <2>1, <2>4, ImportMutableImports
  <2>5. CASE BindLazily
    BY <2>1, <2>5, BindLazilyImports
  <2>6. CASE ImportLiteralOperand
    BY <2>1, <2>6, ImportLiteralOperandImports
  <2>7. CASE ImportGetAttr
    BY <2>1, <2>7, ImportGetAttrImports
  <2>8. CASE ImportInput
    BY <2>1, <2>8, ImportInputImports
  <2>9. CASE ResolveNodeValue
    BY <2>1, <2>9, ResolveNodeValueImports
  <2>10. CASE ImportConstantResult
    BY <2>1, <2>10, ImportConstantResultImports
  <2>11. CASE ImportCall
    BY <2>1, <2>11, ImportCallImports
  <2>12. CASE ImportGetitem
    BY <2>1, <2>12, ImportGetitemImports
  <2>13. CASE ReturnNodeValues
    BY <2>1, <2>13, ReturnImports
  <2>14. CASE UNCHANGED vars
    BY <2>1, <2>14, StutterImports
  <2> QED
    BY <2>2, <2>3, <2>4, <2>5, <2>6, <2>7, <2>8, <2>9, <2>10, <2>11, <2>12, <2>13, <2>14
       DEF Next, Done
<1> QED BY <1>1, <1>2, <1>3 DEF RegularInv

LEMMA ImportedIsRight ==
  ASSUME Imports, status = "imported"
  PROVE  MutationsReachTheirTargets /\ ResultsAreThoseOfTheProgram
<1>1. Current = Output /\ Len(operands) = Len(Args(Output)) /\ results = operands
  BY DEF Imports, ImportInv, StatusRight
<1>2. Args(Current) = OutputArgs /\ Args(Output) = OutputArgs
  BY <1>1, ArgsOfOutput DEF Imports
<1>3. ResultsAreThoseOfTheProgram
  BY <1>1, <1>2 DEF Imports, ImportInv, OperandsRight, ResultsAreThoseOfTheProgram
<1>4. ASSUME program.entry = "program", NEW t \in Node
      PROVE  contents[t] = IF \E m \in program.mutates : m[1] = t
                           THEN Meaning((CHOOSE m \in program.mutates : m[1] = t)[2])
                           ELSE <<t, 0>>
  <2>1. CASE \E m \in program.mutates : m[1] = t
    <3>1. PICK c : c = CHOOSE m \in program.mutates : m[1] = t
      OBVIOUS
    <3>2. c \in program.mutates /\ c[1] = t
      BY <2>1, <3>1
    <3>3. c[2] \in Node /\ IsCall(c[2])
      BY <1>4, <3>2 DEF Imports, ProgramOK, Exported, OneTensor, Node,
                        Regular, ProducersAreDistinctCalls, IsCall
    <3>4. c[2] \notin Pending
      BY <1>1, <3>3, CurrentIs
    <3>5. v[<<c[2], 0>>] # Unbound
      BY <3>3, <3>4 DEF Imports, ImportInv, BoundInOrder, Scheduled, IsCall
    <3>6. contents[c[1]] = Meaning(c[2])
      BY <1>4, <3>2, <3>5 DEF Imports, ImportInv, ContentsRight
    <3> QED BY <2>1, <3>1, <3>2, <3>6
  <2>2. CASE ~ \E m \in program.mutates : m[1] = t
    BY <1>4, <2>2 DEF Imports, ImportInv, ContentsRight
  <2> QED BY <2>1, <2>2
<1>5. MutationsReachTheirTargets
  BY <1>4 DEF MutationsReachTheirTargets
<1> QED BY <1>3, <1>5

\* For every regular program, importer and allocator of temporaries: the import
\* does not raise, the function returns what the exported program returns, and
\* it leaves every mutated input and buffer with its new value.
THEOREM RegularImported == Spec => []RegularProgramsAreImported
<1>1. RegularInv => RegularProgramsAreImported
  <2> SUFFICES ASSUME RegularInv, Regular
               PROVE  status # "raised" /\ MutationsReachTheirTargets /\ ResultsAreThoseOfTheProgram
    BY DEF RegularProgramsAreImported
  <2>1. Imports
    BY DEF Imports, RegularInv
  <2>2. status # "raised"
    BY <2>1 DEF Imports, ImportInv, StatusRight
  <2>3. CASE status = "imported"
    BY <2>1, <2>2, <2>3, ImportedIsRight
  <2>4. CASE status # "imported"
    BY <2>2, <2>4 DEF MutationsReachTheirTargets, ResultsAreThoseOfTheProgram
  <2> QED BY <2>3, <2>4
<1> QED BY <1>1, InitRegular, NextRegular, PTL DEF Spec
=============================================================================
