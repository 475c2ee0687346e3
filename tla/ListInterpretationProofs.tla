----------------------- MODULE ListInterpretationProofs -----------------------
(***************************************************************************)
(* Proofs about the simplification of shape calculations, for all blocks   *)
(* and all orders of the uses of a list.                                   *)
(***************************************************************************)
EXTENDS ListInterpretationSemantics, SequenceTheorems, FiniteSetTheorems, WellFoundedInduction, TLAPS

(***************************************************************************)
(* Numbers.                                                                *)
(***************************************************************************)
\* A set of numbers has a least one.
LEMMA LeastElement ==
  ASSUME NEW S, S \subseteq Nat, S # {}
  PROVE  \E x \in S : \A y \in S : x <= y
<1> DEFINE R == OpToRel(<, Nat)
<1>1. IsWellFoundedOn(R, Nat)
  BY NatLessThanWellFounded
<1>2. PICK x \in S : \A y \in S : ~ (<<y, x>> \in R)
  <2> HIDE DEF R
  <2> QED  BY <1>1, WFMin
<1>3. \A y \in S : ~ (y < x)
  BY <1>2 DEF OpToRel
<1> QED  BY <1>3

\* What holds for 0 and for the successor of every number for which it holds, holds for all.
LEMMA SetInduction ==
  ASSUME NEW S, 0 \in S, \A n \in Nat : n \in S => n + 1 \in S
  PROVE  Nat \subseteq S
<1> DEFINE T == Nat \ S
<1>1. SUFFICES ASSUME T # {} PROVE FALSE
  OBVIOUS
<1>2. PICK x \in T : \A y \in T : x <= y
  BY <1>1, LeastElement
<1>3. x \in Nat \ {0}
  OBVIOUS
<1>4. x - 1 \in Nat /\ x - 1 \notin T
  BY <1>2, <1>3
<1> QED  BY <1>3, <1>4

(***************************************************************************)
(* The ops of a block and the ops of the block that they are in.           *)
(***************************************************************************)
BlockOK ==
  block \in Seq(OpIR) /\ block # <<>> /\ block[Len(block)].kind = "read" /\ ~ block[Len(block)].nested

LEMMA BlockType ==
  ASSUME BlockOK
  PROVE  /\ Len(block) \in Nat \ {0} /\ Len(block) \in Op /\ Op \subseteq Nat
         /\ \A i \in Op : block[i] \in OpIR
BY DEF BlockOK, Op

LEMMA ParentIs ==
  ASSUME BlockOK, NEW i \in Op
  PROVE  /\ Parent(i) \in 1..i
         /\ ~ block[i].nested => Parent(i) = i
         /\ block[i].nested => /\ \A j \in Parent(i)..i : block[j].nested
                               /\ Parent(i) = 1 \/ ~ block[Parent(i) - 1].nested
<1>1. i \in Nat \ {0}
  BY BlockType DEF Op
<1>2. CASE ~ block[i].nested
  BY <1>1, <1>2 DEF Parent
<1>3. CASE block[i].nested
  <2> DEFINE S == {p \in 1..i : \A j \in p..i : block[j].nested}
             First(p) == (\A j \in p..i : block[j].nested) /\ (p = 1 \/ ~ block[p - 1].nested)
  <2>1. i \in S
    BY <1>1, <1>3
  <2>2. PICK p \in S : \A q \in S : p <= q
    <3>1. S \subseteq Nat
      BY <1>1
    <3> HIDE DEF S
    <3> QED  BY <2>1, <3>1, LeastElement
  <2>3. p = 1 \/ ~ block[p - 1].nested
    <3> SUFFICES ASSUME p # 1, block[p - 1].nested PROVE FALSE
      OBVIOUS
    <3>1. p - 1 \in 1..i /\ \A j \in (p - 1)..i : j = p - 1 \/ j \in p..i
      BY <1>1
    <3>2. p - 1 \in S
      BY <3>1
    <3> QED  BY <1>1, <2>2, <3>2
  <2>4. p \in 1..i /\ First(p)
    BY <2>3
  <2>5. Parent(i) = CHOOSE q \in 1..i : First(q)
    BY <1>3 DEF Parent
  <2> HIDE DEF First
  <2>6. Parent(i) \in 1..i /\ First(Parent(i))
    BY <2>4, <2>5
  <2> QED  BY <1>3, <2>6 DEF First
<1> QED  BY <1>2, <1>3

\* Ops of a region come after those before it.
LEMMA ParentsAreOrdered ==
  ASSUME BlockOK, NEW i \in Op, NEW k \in Op, i <= k
  PROVE  Parent(i) <= Parent(k)
<1> SUFFICES ASSUME Parent(k) < Parent(i) PROVE FALSE
  BY BlockType, ParentIs DEF Op
<1>1. Parent(i) \in 1..i /\ Parent(k) \in 1..k /\ i \in Nat /\ k \in Nat
  BY BlockType, ParentIs DEF Op
<1>2. block[k].nested /\ \A j \in Parent(k)..k : block[j].nested
  BY <1>1, ParentIs
<1>3. block[i].nested /\ block[Parent(i) - 1].nested /\ Parent(i) # 1
  BY <1>1, <1>2
<1> QED  BY <1>3, ParentIs

LEMMA ParentDistinguishes ==
  ASSUME BlockOK, NEW i \in Op, NEW k \in Op, ~ block[i].nested, Parent(k) = i
  PROVE  k = i
<1>1. Parent(k) \in 1..k /\ k \in Nat /\ i \in Nat
  BY BlockType, ParentIs DEF Op
<1>2. block[k].nested => block[Parent(k)].nested
  BY <1>1, ParentIs
<1> QED  BY <1>2, ParentIs

(***************************************************************************)
(* The order of the users.                                                 *)
(***************************************************************************)
UsersIn(p) == {i \in Op : IsUser(i) /\ Parent(i) = p}

Orders(U) == {s \in [1..Cardinality(U) -> U] : \A j, k \in DOMAIN s : j # k => s[j] # s[k]}

\* The orders in A, continued with the users in the op p of the block.
Continued(A, p) == {s \o t : s \in A, t \in Orders(UsersIn(p))}

\* f gives the orders of the users up to every op of the block.
IsUpTo(f, n) == f = [p \in 0..n |-> IF p = 0 THEN {<<>>} ELSE Continued(f[p - 1], p)]

LEMMA UpToExists == ASSUME NEW L \in Nat PROVE \E f : IsUpTo(f, L)
<1> DEFINE S == {n \in Nat : \E f : IsUpTo(f, n)}
<1>1. 0 \in S
  <2> DEFINE f == [p \in 0..0 |-> {<<>>}]
  <2>1. f = [p \in 0..0 |-> IF p = 0 THEN {<<>>} ELSE Continued(f[p - 1], p)]
    OBVIOUS
  <2>2. IsUpTo(f, 0)
    BY <2>1 DEF IsUpTo
  <2> HIDE DEF f
  <2> QED  BY <2>2
<1>2. ASSUME NEW n \in Nat, n \in S
      PROVE  n + 1 \in S
  <2>1. PICK f : IsUpTo(f, n)
    BY <1>2
  <2>2. \A p \in 0..n : f[p] = IF p = 0 THEN {<<>>} ELSE Continued(f[p - 1], p)
    BY <2>1 DEF IsUpTo
  <2> DEFINE h == [p \in 0..(n + 1) |-> IF p = n + 1 THEN Continued(f[n], n + 1) ELSE f[p]]
  <2>3. \A p \in 0..n : h[p] = f[p]
    OBVIOUS
  <2>4. h[n + 1] = Continued(f[n], n + 1) /\ h = [p \in 0..(n + 1) |-> h[p]]
    OBVIOUS
  <2> HIDE DEF h
  <2>5. ASSUME NEW p \in 0..(n + 1)
        PROVE  h[p] = IF p = 0 THEN {<<>>} ELSE Continued(h[p - 1], p)
    <3>1. CASE p = n + 1
      <4>1. h[p - 1] = f[n]
        BY <2>3, <3>1
      <4> QED  BY <2>4, <3>1, <4>1
    <3>2. CASE p \in 0..n /\ p # 0
      <4>1. h[p - 1] = f[p - 1]
        BY <2>3, <3>2
      <4> QED  BY <2>2, <2>3, <3>2, <4>1
    <3>3. CASE p = 0
      <4>1. 0 \in 0..n
        OBVIOUS
      <4> QED  BY <2>2, <2>3, <3>3, <4>1
    <3> QED  BY <3>1, <3>2, <3>3
  <2>6. h = [p \in 0..(n + 1) |-> IF p = 0 THEN {<<>>} ELSE Continued(h[p - 1], p)]
    BY <2>4, <2>5
  <2>7. IsUpTo(h, n + 1)
    BY <2>6 DEF IsUpTo
  <2> QED  BY <2>7
<1> HIDE DEF S
<1>3. Nat \subseteq S
  BY <1>1, <1>2, SetInduction
<1> QED  BY <1>3 DEF S

\* An order lists every user once.
LEMMA OrderIs ==
  ASSUME NEW U, IsFiniteSet(U), NEW t \in Orders(U)
  PROVE  /\ t \in Seq(U)
         /\ \A j, k \in DOMAIN t : j # k => t[j] # t[k]
         /\ \A u \in U : \E j \in DOMAIN t : t[j] = u
<1>1. Cardinality(U) \in Nat
  BY FS_CardinalityType
<1>2. t \in [1..Cardinality(U) -> U] /\ \A j, k \in DOMAIN t : j # k => t[j] # t[k]
  BY DEF Orders
<1>3. t \in Injection(1..Cardinality(U), U)
  BY <1>2 DEF Injection, IsInjective
<1>4. IsFiniteSet(1..Cardinality(U)) /\ Cardinality(1..Cardinality(U)) = Cardinality(U)
  BY <1>1, FS_Interval
<1>5. t \in Surjection(1..Cardinality(U), U)
  BY <1>3, <1>4, FS_Injection
<1>6. \A u \in U : \E j \in DOMAIN t : t[j] = u
  BY <1>2, <1>5 DEF Surjection
<1>7. t \in Seq(U)
  BY <1>1, <1>2
<1> QED  BY <1>2, <1>6, <1>7

\* s lists all users up to the op p of the block in program order.
InOrder(s, p) ==
  /\ s \in Seq(Op)
  /\ \A j \in DOMAIN s : IsUser(s[j]) /\ Parent(s[j]) \in 1..p
  /\ \A j, k \in DOMAIN s : j < k => s[j] # s[k] /\ Parent(s[j]) <= Parent(s[k])
  /\ \A i \in Op : IsUser(i) /\ Parent(i) \in 1..p => \E j \in DOMAIN s : s[j] = i

LEMMA MoreInOrder ==
  ASSUME BlockOK, NEW p \in Nat \ {0}, NEW s, InOrder(s, p - 1), NEW t \in Orders(UsersIn(p))
  PROVE  InOrder(s \o t, p)
<1> DEFINE st == s \o t
<1>1. IsFiniteSet(UsersIn(p))
  <2>1. IsFiniteSet(1..Len(block))
    BY BlockType, FS_Interval
  <2> QED  BY <2>1, FS_Subset DEF UsersIn, Op
<1>2. /\ t \in Seq(UsersIn(p))
      /\ \A j, k \in DOMAIN t : j # k => t[j] # t[k]
      /\ \A u \in UsersIn(p) : \E j \in DOMAIN t : t[j] = u
  BY <1>1, OrderIs
<1>3. s \in Seq(Op) /\ t \in Seq(Op)
  BY <1>2 DEF InOrder, UsersIn
<1>4. /\ DOMAIN s = 1..Len(s) /\ DOMAIN t = 1..Len(t) /\ Len(s) \in Nat /\ Len(t) \in Nat
      /\ st \in Seq(Op) /\ Len(st) = Len(s) + Len(t) /\ DOMAIN st = 1..(Len(s) + Len(t))
      /\ \A j \in 1..(Len(s) + Len(t)) : st[j] = IF j <= Len(s) THEN s[j] ELSE t[j - Len(s)]
  BY <1>3, ConcatProperties
<1>5. \A j \in DOMAIN t : IsUser(t[j]) /\ Parent(t[j]) = p
  BY <1>2 DEF UsersIn
<1> HIDE DEF st
<1>6. ASSUME NEW j \in DOMAIN st
      PROVE  \/ j \in DOMAIN s /\ st[j] = s[j]
             \/ j - Len(s) \in DOMAIN t /\ st[j] = t[j - Len(s)] /\ j > Len(s)
  BY <1>4
<1>7. \A j \in DOMAIN s : IsUser(s[j]) /\ Parent(s[j]) \in 1..(p - 1)
  BY DEF InOrder
<1>8. \A j \in DOMAIN st : IsUser(st[j]) /\ Parent(st[j]) \in 1..p
  BY <1>5, <1>6, <1>7
<1>9. ASSUME NEW j \in DOMAIN st, NEW k \in DOMAIN st, j < k
      PROVE  st[j] # st[k] /\ Parent(st[j]) <= Parent(st[k])
  <2>1. CASE k \in DOMAIN s /\ st[k] = s[k]
    <3>1. j \in DOMAIN s /\ st[j] = s[j]
      BY <1>4, <1>9, <2>1
    <3> QED  BY <1>9, <2>1, <3>1 DEF InOrder
  <2>2. CASE k - Len(s) \in DOMAIN t /\ st[k] = t[k - Len(s)] /\ k > Len(s)
    <3>1. CASE j \in DOMAIN s /\ st[j] = s[j]
      BY <1>5, <1>7, <2>2, <3>1
    <3>2. CASE j - Len(s) \in DOMAIN t /\ st[j] = t[j - Len(s)]
      <4>1. j - Len(s) # k - Len(s)
        BY <1>4, <1>9
      <4>2. st[j] # st[k]
        BY <1>2, <2>2, <3>2, <4>1
      <4>3. Parent(st[j]) = p /\ Parent(st[k]) = p
        BY <1>5, <2>2, <3>2
      <4> QED  BY <4>2, <4>3
    <3> QED  BY <1>6, <3>1, <3>2
  <2> QED  BY <1>6, <2>1, <2>2
<1>10. ASSUME NEW i \in Op, IsUser(i), Parent(i) \in 1..p
       PROVE  \E j \in DOMAIN st : st[j] = i
  <2>1. CASE Parent(i) = p
    <3>1. PICK j \in DOMAIN t : t[j] = i
      BY <1>2, <1>10, <2>1 DEF UsersIn
    <3>2. j + Len(s) \in DOMAIN st /\ st[j + Len(s)] = t[j]
      BY <1>4
    <3> QED  BY <3>1, <3>2
  <2>2. CASE Parent(i) \in 1..(p - 1)
    <3>1. PICK j \in DOMAIN s : s[j] = i
      BY <1>10, <2>2 DEF InOrder
    <3>2. j \in DOMAIN st /\ st[j] = s[j]
      BY <1>4
    <3> QED  BY <3>1, <3>2
  <2> QED  BY <1>10, <2>1, <2>2
<1> QED  BY <1>4, <1>8, <1>9, <1>10 DEF InOrder, st

\* The users are sorted.
LEMMA SortedIs ==
  ASSUME BlockOK, NEW s \in Sorted
  PROVE  InOrder(s, Len(block))
<1> DEFINE L == Len(block)
           upTo == CHOOSE f : IsUpTo(f, L)
<1>1. L \in Nat
  BY BlockType
<1>2. IsUpTo(upTo, L)
  BY <1>1, UpToExists
<1>3. Sorted = upTo[L]
  BY DEF Sorted, IsUpTo, Continued, Orders, UsersIn
<1> HIDE DEF upTo
<1>4. \A p \in 0..L : upTo[p] = IF p = 0 THEN {<<>>} ELSE Continued(upTo[p - 1], p)
  BY <1>2 DEF IsUpTo
<1> DEFINE S == {n \in Nat : n <= L => \A r \in upTo[n] : InOrder(r, n)}
<1>5. 0 \in S
  <2>1. upTo[0] = {<<>>}
    BY <1>1, <1>4
  <2>2. InOrder(<<>>, 0)
    BY DEF InOrder
  <2> QED  BY <2>1, <2>2
<1>6. ASSUME NEW n \in Nat, n \in S
      PROVE  n + 1 \in S
  <2> SUFFICES ASSUME n + 1 <= L, NEW r \in upTo[n + 1] PROVE InOrder(r, n + 1)
    OBVIOUS
  <2>1. n + 1 \in 0..L /\ n + 1 # 0 /\ (n + 1) - 1 = n /\ n <= L
    BY <1>1
  <2>2. upTo[n + 1] = Continued(upTo[n], n + 1)
    BY <1>4, <2>1
  <2>3. PICK q \in upTo[n], t \in Orders(UsersIn(n + 1)) : r = q \o t
    BY <2>2 DEF Continued
  <2>4. InOrder(q, n)
    BY <1>6, <2>1
  <2> QED  BY <2>1, <2>3, <2>4, MoreInOrder
<1> HIDE DEF S
<1>7. Nat \subseteq S
  BY <1>5, <1>6, SetInduction
<1> QED  BY <1>1, <1>3, <1>7 DEF S

(***************************************************************************)
(* The inductive invariant.                                                *)
(***************************************************************************)
Static ==
  /\ source \in Blocks /\ elements \in Seq(Int)
  /\ maxTripCount \subseteq Int /\ \A m, n \in maxTripCount : m = n
  /\ BlockOK

Literal == [contents : Seq(Int), before : 0..Len(block)]

Status == {"match", "interpret", "rewrite", "rewritten", "failed", "refined", "unrefined", "undefined"}

Typed ==
  /\ users \in Seq(Op) /\ next \in 1..(Len(users) + 1)
  /\ listLiterals \in Seq(Seq(Int)) /\ runningList \in Seq(Int) /\ generatedNewLiteral \in BOOLEAN
  /\ literals \in Seq(Literal) /\ operand \in [Op -> 0..Len(literals)] /\ erased \subseteq Op
  /\ nextLiteral \in 1..(Len(listLiterals) + 1)
  /\ sizes \in Seq(Int) /\ status \in Status

\* Nothing is interpreted before the users are sorted, nothing rewritten before they are interpreted.
InPhases ==
  /\ status = "match" => /\ users = <<>> /\ next = 1 /\ listLiterals = <<>>
                         /\ runningList = elements /\ generatedNewLiteral = FALSE
  /\ status \in {"match", "interpret", "failed"} =>
       /\ literals = <<>> /\ erased = {} /\ nextLiteral = 1
       /\ operand = [i \in Op |-> 0]

\* Ops that mutate the list in another block are behind all users in u, and all
\* that are not in u are behind one of them.
UsersAre(u) ==
  /\ \A j \in DOMAIN u : IsUser(u[j]) /\ ~ (MutatesList(u[j]) /\ block[u[j]].nested)
  /\ \A j, k \in DOMAIN u : j < k => u[j] # u[k] /\ Parent(u[j]) <= Parent(u[k])
  /\ \A i \in Op : IsUser(i) =>
       \/ \E j \in DOMAIN u : u[j] = i
       \/ \E t \in Op : /\ MutatesList(t) /\ block[t].nested /\ Parent(t) <= Parent(i)
                        /\ \A j \in DOMAIN u : Parent(u[j]) <= Parent(t)

UsersInOrder == status # "match" => UsersAre(users)

IInv == Static /\ Typed /\ InPhases /\ UsersInOrder

\* What is left when the users are cut off at the first that mutates the list in another block.
LEMMA TruncatedIs ==
  ASSUME BlockOK, NEW s, InOrder(s, Len(block))
  PROVE  Truncated(s) \in Seq(Op) /\ UsersAre(Truncated(s))
<1> DEFINE stop == {j \in DOMAIN s : MutatesList(s[j]) /\ block[s[j]].nested}
           u == Truncated(s)
<1>1. s \in Seq(Op) /\ DOMAIN s = 1..Len(s) /\ Len(s) \in Nat
  BY DEF InOrder
<1>2. \A i \in Op : IsUser(i) => \E j \in DOMAIN s : s[j] = i
  <2>1. \A i \in Op : Parent(i) \in 1..Len(block)
    BY ParentIs, BlockType DEF Op
  <2> QED  BY <2>1 DEF InOrder
<1>3. /\ \A j \in DOMAIN s : IsUser(s[j])
      /\ \A j, k \in DOMAIN s : j < k => s[j] # s[k] /\ Parent(s[j]) <= Parent(s[k])
  BY DEF InOrder
<1>4. CASE stop = {}
  <2>1. u = s
    BY <1>4 DEF Truncated
  <2> HIDE DEF u
  <2> QED  BY <1>1, <1>2, <1>3, <1>4, <2>1 DEF UsersAre, u
<1>5. CASE stop # {}
  <2> DEFINE x == CHOOSE j \in stop : \A k \in stop : j <= k
  <2>1. x \in stop /\ \A k \in stop : x <= k
    <3>1. stop \subseteq Nat
      BY <1>1
    <3> HIDE DEF stop
    <3> QED  BY <1>5, <3>1, LeastElement
  <2>2. u = SubSeq(s, 1, x - 1)
    BY <1>5 DEF Truncated
  <2> HIDE DEF x, u
  <2>3. x \in 1..Len(s) /\ MutatesList(s[x]) /\ block[s[x]].nested /\ s[x] \in Op
    BY <1>1, <2>1
  <2>4. /\ u \in Seq(Op) /\ Len(u) = x - 1 /\ DOMAIN u = 1..(x - 1)
        /\ \A j \in 1..(x - 1) : u[j] = s[j] /\ j \in DOMAIN s
    BY <1>1, <2>2, <2>3
  <2>5. \A j \in DOMAIN u : ~ (MutatesList(u[j]) /\ block[u[j]].nested)
    BY <1>1, <2>1, <2>3, <2>4
  <2>6. /\ \A j \in DOMAIN u : IsUser(u[j])
        /\ \A j, k \in DOMAIN u : j < k => u[j] # u[k] /\ Parent(u[j]) <= Parent(u[k])
    BY <1>3, <2>4
  <2>7. \A j \in DOMAIN u : Parent(u[j]) <= Parent(s[x])
    BY <1>1, <1>3, <2>3, <2>4
  <2>8. ASSUME NEW i \in Op, IsUser(i), ~ \E j \in DOMAIN u : u[j] = i
        PROVE  Parent(s[x]) <= Parent(i)
    <3>1. PICK k \in DOMAIN s : s[k] = i
      BY <1>2, <2>8
    <3>2. k \in 1..Len(s) /\ ~ (k < x)
      BY <1>1, <2>3, <2>4, <2>8, <3>1
    <3>3. CASE k = x
      <4>1. Parent(i) \in Int
        BY ParentIs, BlockType DEF Op
      <4> QED  BY <3>1, <3>3, <4>1
    <3>4. CASE x < k
      BY <1>1, <1>3, <2>3, <3>1, <3>4
    <3> QED  BY <2>3, <3>2, <3>3, <3>4
  <2>9. UsersAre(u)
    BY <2>3, <2>5, <2>6, <2>7, <2>8 DEF UsersAre
  <2> QED  BY <2>4, <2>9 DEF u
<1> QED  BY <1>4, <1>5

\* What is derived from the block.
LEMMA SameBlock ==
  ASSUME block' = block
  PROVE  /\ Op' = Op /\ Literal' = Literal
         /\ \A i : Parent(i)' = Parent(i) /\ IsUser(i)' = IsUser(i) /\ MutatesList(i)' = MutatesList(i)
         /\ BlockOK' = BlockOK
         /\ \A u : UsersAre(u)' = UsersAre(u)
BY DEF Op, Literal, Parent, IsUser, MutatesList, BlockOK, UsersAre

LEMMA InitIInv == Init => IInv
<1> SUFFICES ASSUME Init PROVE IInv
  OBVIOUS
<1>1. Static
  BY ListAssumption DEF Init, Static, BlockOK
<1>2. Typed
  <2>1. users \in Seq(Op) /\ listLiterals \in Seq(Seq(Int)) /\ literals \in Seq(Literal) /\ sizes \in Seq(Int)
    BY DEF Init, NotRefined, Unknown
  <2>2. Len(users) = 0 /\ Len(listLiterals) = 0 /\ Len(literals) = 0
    BY DEF Init
  <2>3. operand \in [Op -> 0..0]
    BY DEF Init
  <2>4. /\ next \in 1..1 /\ nextLiteral \in 1..1
        /\ erased \subseteq Op /\ status \in Status /\ generatedNewLiteral \in BOOLEAN
    <3>1. next = 1 /\ nextLiteral = 1 /\ erased = {} /\ status = "match" /\ generatedNewLiteral = FALSE
      BY DEF Init
    <3>2. generatedNewLiteral \in BOOLEAN
      BY <3>1, Zenon
    <3> QED  BY <3>1, <3>2 DEF Status
  <2>5. runningList \in Seq(Int)
    BY <1>1 DEF Init, Static
  <2> QED  BY <2>1, <2>2, <2>3, <2>4, <2>5 DEF Typed
<1>3. InPhases /\ UsersInOrder
  BY DEF Init, InPhases, UsersInOrder
<1> QED  BY <1>1, <1>2, <1>3 DEF IInv

(***************************************************************************)
(* Loops.                                                                  *)
(***************************************************************************)
IsConcat(c, x, y) ==
  /\ Len(c) = Len(x) + Len(y)
  /\ \A i \in 1..Len(x) : c[i] = x[i]
  /\ \A i \in 1..Len(y) : c[Len(x) + i] = y[i]

LEMMA ConcatOfTwo ==
  ASSUME NEW S, NEW x \in Seq(S), NEW y \in Seq(S)
  PROVE  x \o y \in Seq(S) /\ IsConcat(x \o y, x, y)
<1> DEFINE c == x \o y
<1>1. Len(x) \in Nat /\ Len(y) \in Nat
  OBVIOUS
<1>2. /\ c \in Seq(S) /\ Len(c) = Len(x) + Len(y)
      /\ \A i \in 1..(Len(x) + Len(y)) : c[i] = IF i <= Len(x) THEN x[i] ELSE y[i - Len(x)]
  BY ConcatProperties
<1> HIDE DEF c
<1>3. ASSUME NEW i \in 1..Len(x) PROVE c[i] = x[i]
  BY <1>1, <1>2
<1>4. ASSUME NEW i \in 1..Len(y) PROVE c[Len(x) + i] = y[i]
  <2> DEFINE k == Len(x) + i
  <2>1. k \in 1..(Len(x) + Len(y)) /\ ~ (k <= Len(x)) /\ k - Len(x) = i
    BY <1>1
  <2> HIDE DEF k
  <2>2. c[k] = y[k - Len(x)]
    BY <1>2, <2>1
  <2> QED  BY <2>1, <2>2 DEF k
<1> QED  BY <1>2, <1>3, <1>4 DEF IsConcat, c

IsConcatOf(c, x, y, z) ==
  /\ Len(c) = Len(x) + Len(y) + Len(z)
  /\ \A i \in 1..Len(x) : c[i] = x[i]
  /\ \A i \in 1..Len(y) : c[Len(x) + i] = y[i]
  /\ \A i \in 1..Len(z) : c[Len(x) + Len(y) + i] = z[i]

LEMMA ConcatOfThree ==
  ASSUME NEW S, NEW x \in Seq(S), NEW y \in Seq(S), NEW z \in Seq(S)
  PROVE  (x \o y) \o z \in Seq(S) /\ IsConcatOf((x \o y) \o z, x, y, z)
<1> DEFINE c == (x \o y) \o z
<1> DEFINE xy == x \o y
<1>1. Len(x) \in Nat /\ Len(y) \in Nat /\ Len(z) \in Nat
  OBVIOUS
<1>2. xy \in Seq(S) /\ IsConcat(xy, x, y)
  BY ConcatOfTwo
<1> HIDE DEF xy
<1>3. xy \o z \in Seq(S) /\ IsConcat(xy \o z, xy, z)
  BY <1>2, ConcatOfTwo
<1>4. c \in Seq(S) /\ IsConcat(c, xy, z)
  BY <1>3 DEF xy
<1> HIDE DEF c
<1> USE DEF IsConcat
<1>5. ASSUME NEW i \in 1..Len(y) PROVE c[Len(x) + i] = y[i]
  <2> DEFINE k == Len(x) + i
  <2>1. k \in 1..Len(xy)
    BY <1>1, <1>2
  <2>2. xy[k] = y[i]
    BY <1>2
  <2> HIDE DEF k
  <2>3. c[k] = xy[k]
    BY <1>4, <2>1
  <2> QED  BY <2>2, <2>3 DEF k
<1>6. \A i \in 1..Len(x) : c[i] = x[i]
  BY <1>1, <1>2, <1>4
<1>7. \A i \in 1..Len(z) : c[Len(x) + Len(y) + i] = z[i]
  BY <1>1, <1>2, <1>4
<1>8. Len(c) = Len(x) + Len(y) + Len(z)
  BY <1>2, <1>4
<1> QED  BY <1>4, <1>5, <1>6, <1>7, <1>8 DEF IsConcatOf, c

Cat(x, y) == x \o y

LEMMA CatAssociative ==
  ASSUME NEW S, NEW x \in Seq(S), NEW y \in Seq(S), NEW z \in Seq(S)
  PROVE  Cat(Cat(x, y), z) = Cat(x, Cat(y, z))
<1> DEFINE l == (x \o y) \o z
           yz == y \o z
           r == x \o yz
<1>1. Len(x) \in Nat /\ Len(y) \in Nat /\ Len(z) \in Nat
  OBVIOUS
<1>2. l \in Seq(S) /\ IsConcatOf(l, x, y, z)
  BY ConcatOfThree
<1>3. yz \in Seq(S) /\ IsConcat(yz, y, z)
  BY ConcatOfTwo
<1> HIDE DEF l, yz
<1>4. r \in Seq(S) /\ IsConcat(r, x, yz)
  BY <1>3, ConcatOfTwo
<1> HIDE DEF r
<1>5. Len(l) = Len(r) /\ Len(r) = Len(x) + Len(yz) /\ Len(yz) = Len(y) + Len(z)
  BY <1>1, <1>2, <1>3, <1>4 DEF IsConcat, IsConcatOf
<1>6. ASSUME NEW i \in 1..Len(r) PROVE l[i] = r[i]
  <2>1. CASE i \in 1..Len(x)
    BY <1>2, <1>4, <2>1 DEF IsConcat, IsConcatOf
  <2>2. CASE i \notin 1..Len(x)
    <3> DEFINE j == i - Len(x)
    <3>1. j \in 1..Len(yz) /\ i = Len(x) + j
      BY <1>1, <1>5, <2>2
    <3> HIDE DEF j
    <3>2. r[i] = yz[j]
      BY <1>4, <3>1 DEF IsConcat
    <3>3. CASE j \in 1..Len(y)
      <4>1. yz[j] = y[j] /\ l[i] = y[j]
        BY <1>2, <1>3, <3>1, <3>3 DEF IsConcat, IsConcatOf
      <4> QED  BY <3>2, <4>1
    <3>4. CASE j \notin 1..Len(y)
      <4> DEFINE k == j - Len(y)
      <4>1. k \in 1..Len(z) /\ j = Len(y) + k /\ i = Len(x) + Len(y) + k
        BY <1>1, <1>5, <3>1, <3>4
      <4> HIDE DEF k
      <4>2. yz[j] = z[k]
        BY <1>3, <4>1 DEF IsConcat
      <4>3. l[i] = z[k]
        BY <1>2, <4>1 DEF IsConcatOf
      <4> QED  BY <3>2, <4>2, <4>3
    <3> QED  BY <3>3, <3>4
  <2> QED  BY <2>1, <2>2
<1>7. l = [i \in 1..Len(l) |-> l[i]] /\ r = [i \in 1..Len(r) |-> r[i]]
  BY <1>2, <1>4
<1>8. l = r
  BY <1>5, <1>6, <1>7
<1> QED  BY <1>8 DEF l, r, yz, Cat

\* The ops of an unrolled block: those before the loop, n copies of the w ops of the body,
\* which are m ops, and those behind.
IsUnrolled(b, p, q, w, m) ==
  /\ b \in Seq(OpIR) /\ Len(b) = Len(block) + m - w
  /\ \A i \in 1..(p - 1) : b[i] = block[i]
  /\ \A i \in 1..m : /\ p + ((i - 1) % w) \in p..q
                      /\ b[p - 1 + i] = [block[p + ((i - 1) % w)] EXCEPT !.nested = FALSE]
  /\ \A i \in (q + 1)..Len(block) : b[i + m - w] = block[i]

LEMMA UnrolledIs ==
  ASSUME BlockOK, NEW p \in Op, NEW q \in Op, p <= q, q < Len(block), NEW n \in Nat
  PROVE  /\ q - p + 1 \in Nat \ {0} /\ n * (q - p + 1) \in Nat
         /\ IsUnrolled(Unrolled(block, p, q, n), p, q, q - p + 1, n * (q - p + 1))
<1> DEFINE w == q - p + 1
           m == n * w
           copy(i) == [block[p + ((i - 1) % w)] EXCEPT !.nested = FALSE]
           body == [i \in 1..m |-> copy(i)]
           before == SubSeq(block, 1, p - 1)
           behind == SubSeq(block, q + 1, Len(block))
           b == Unrolled(block, p, q, n)
<1>1. p \in Nat \ {0} /\ q \in Nat /\ Len(block) \in Nat /\ w \in Nat \ {0} /\ Op = 1..Len(block)
  BY BlockType DEF Op
<1>2. \A i \in Op : block[i] \in OpIR
  BY BlockType
<1>3. m \in Nat
  <2> HIDE DEF w
  <2> QED  BY <1>1
<1>4. ASSUME NEW i \in 1..m PROVE p + ((i - 1) % w) \in p..q
  <2>1. i - 1 \in Int
    BY <1>3
  <2> HIDE DEF m, w
  <2>2. (i - 1) % w \in 0..(w - 1)
    BY <1>1, <2>1
  <2> QED  BY <1>1, <2>2 DEF w
<1>5. ASSUME NEW i \in 1..m
      PROVE  copy(i) \in OpIR
  <2>1. block[p + ((i - 1) % w)] \in OpIR
    BY <1>1, <1>2, <1>4
  <2> QED  BY <2>1 DEF OpIR
<1>6. b = (before \o body) \o behind
  BY DEF Unrolled
<1> HIDE DEF w, m, copy
<1>7. body \in Seq(OpIR) /\ Len(body) = m /\ \A i \in 1..m : body[i] = copy(i)
  <2>1. body \in [1..m -> OpIR]
    BY <1>5
  <2> QED  BY <1>3, <2>1
<1>8. before \in Seq(OpIR) /\ Len(before) = p - 1 /\ \A i \in 1..(p - 1) : before[i] = block[i]
  BY <1>1, <1>2 DEF BlockOK
<1>9. /\ behind \in Seq(OpIR) /\ Len(behind) = Len(block) - q
      /\ \A i \in 1..(Len(block) - q) : behind[i] = block[i + q]
  BY <1>1, <1>2 DEF BlockOK
<1> HIDE DEF body, before, behind, b
<1>10. /\ b \in Seq(OpIR) /\ Len(b) = Len(before) + Len(body) + Len(behind)
       /\ \A i \in 1..Len(before) : b[i] = before[i]
       /\ \A i \in 1..Len(body) : b[Len(before) + i] = body[i]
       /\ \A i \in 1..Len(behind) : b[Len(before) + Len(body) + i] = behind[i]
  <2>1. (before \o body) \o behind \in Seq(OpIR) /\ IsConcatOf((before \o body) \o behind, before, body, behind)
    BY <1>7, <1>8, <1>9, ConcatOfThree
  <2> QED  BY <1>6, <2>1 DEF IsConcatOf
<1>11. \A i \in 1..(p - 1) : b[i] = block[i]
  BY <1>8, <1>10
<1>12. \A i \in 1..m : b[p - 1 + i] = copy(i)
  BY <1>7, <1>8, <1>10
<1>13. ASSUME NEW i \in (q + 1)..Len(block)
       PROVE  b[i + m - w] = block[i]
  <2>1. i - q \in 1..Len(behind) /\ i + m - w = Len(before) + Len(body) + (i - q) /\ (i - q) + q = i
    BY <1>1, <1>3, <1>7, <1>8, <1>9 DEF w
  <2>2. b[i + m - w] = behind[i - q]
    BY <1>10, <2>1
  <2>3. behind[i - q] = block[(i - q) + q]
    BY <1>9, <2>1
  <2> QED  BY <2>1, <2>2, <2>3
<1>14. Len(b) = Len(block) + m - w
  BY <1>1, <1>3, <1>7, <1>8, <1>9, <1>10 DEF w
<1>15. IsUnrolled(b, p, q, w, m)
  BY <1>1, <1>3, <1>4, <1>10, <1>11, <1>12, <1>13, <1>14 DEF copy, IsUnrolled
<1> QED  BY <1>1, <1>3, <1>15 DEF w, m, b

LEMMA UnrollIInv == IInv /\ UnrollLoop => IInv'
<1> SUFFICES ASSUME IInv, UnrollLoop PROVE IInv'
  OBVIOUS
<1> USE DEF IInv
<1>1. PICK n0 \in maxTripCount, p \in Op, q \in Op :
        /\ block[p].nested /\ Parent(q) = p
        /\ block' = Unrolled(block, p, q, IF n0 < 0 THEN 0 ELSE n0)
        /\ operand' = [i \in 1..Len(block') |-> 0]
  BY DEF UnrollLoop
<1>2. PICK n \in Nat : block' = Unrolled(block, p, q, n)
  <2>1. n0 \in Int
    BY DEF Static
  <2>2. (IF n0 < 0 THEN 0 ELSE n0) \in Nat
    BY <2>1
  <2> QED  BY <1>1, <2>2
<1>3. BlockOK /\ Len(block) \in Nat /\ Op = 1..Len(block) /\ ~ block[Len(block)].nested /\ q \in Nat
  BY BlockType DEF Static, BlockOK, Op
<1>4. p \in 1..q /\ block[q].nested
  BY <1>1, <1>3, ParentIs
<1>5. p <= q /\ q < Len(block)
  BY <1>3, <1>4
<1> DEFINE w == q - p + 1
           m == n * w
<1>6. /\ w \in Nat \ {0} /\ m \in Nat
      /\ block' \in Seq(OpIR) /\ Len(block') = Len(block) + m - w
      /\ \A i \in (q + 1)..Len(block) : block'[i + m - w] = block[i]
  <2>1. w \in Nat \ {0} /\ m \in Nat /\ IsUnrolled(Unrolled(block, p, q, n), p, q, w, m)
    BY <1>3, <1>5, UnrolledIs
  <2> HIDE DEF w, m
  <2> QED  BY <1>2, <2>1 DEF IsUnrolled
<1>7. w <= q
  BY <1>3, <1>4
<1> HIDE DEF m, w
<1>8. Len(block') >= 1 /\ block'[Len(block')] = block[Len(block)]
  BY <1>3, <1>5, <1>6, <1>7
<1>9. BlockOK'
  BY <1>3, <1>6, <1>8 DEF BlockOK
<1>10. /\ status = "match" /\ UNCHANGED <<source, elements, maxTripCount, users, next, runningList, listLiterals,
                 generatedNewLiteral, literals, erased, nextLiteral, sizes, status>>
  BY DEF UnrollLoop
<1>11. Static'
  BY <1>9, <1>10 DEF Static
<1>12. /\ users = <<>> /\ next = 1 /\ listLiterals = <<>> /\ runningList = elements /\ generatedNewLiteral = FALSE
       /\ literals = <<>> /\ erased = {} /\ nextLiteral = 1
  BY <1>10 DEF InPhases
<1>13. operand' = [i \in Op' |-> 0]
  BY <1>1 DEF Op
<1>14. InPhases'
  BY <1>10, <1>12, <1>13 DEF InPhases
<1>15. Typed'
  <2>1. users' \in Seq(Op') /\ Len(users') = 0 /\ literals' \in Seq(Literal') /\ Len(literals') = 0
    BY <1>10, <1>12
  <2>2. operand' \in [Op' -> 0..Len(literals')]
    BY <1>13, <2>1
  <2>3. /\ next' \in 1..(Len(users') + 1) /\ listLiterals' \in Seq(Seq(Int)) /\ runningList' \in Seq(Int)
        /\ nextLiteral' \in 1..(Len(listLiterals') + 1) /\ sizes' \in Seq(Int) /\ erased' \subseteq Op'
    BY <1>10, <1>12, <2>1 DEF Typed
  <2>4. status' \in Status /\ generatedNewLiteral' \in BOOLEAN
    BY <1>10 DEF Typed
  <2> QED  BY <2>1, <2>2, <2>3, <2>4 DEF Typed, Status
<1>16. UsersInOrder'
  BY <1>10 DEF UsersInOrder
<1> QED  BY <1>11, <1>14, <1>15, <1>16

\* An assignment to an element of a list of integers.
LEMMA AssignedIs ==
  ASSUME NEW list \in Seq(Int), NEW k \in Int, NEW x \in Int
  PROVE  [list EXCEPT ![k] = x] \in Seq(Int)
<1>1. list \in [1..Len(list) -> Int] /\ Len(list) \in Nat
  OBVIOUS
<1>2. [list EXCEPT ![k] = x] \in [1..Len(list) -> Int]
  BY <1>1
<1> QED  BY <1>1, <1>2

LEMMA InsertedIs ==
  ASSUME NEW list \in Seq(Int), NEW idx \in 0..Len(list), NEW el \in Int
  PROVE  Inserted(list, idx, el) \in Seq(Int)
<1>1. SubSeq(list, 1, idx) \in Seq(Int) /\ SubSeq(list, idx + 1, Len(list)) \in Seq(Int) /\ <<el>> \in Seq(Int)
  OBVIOUS
<1> QED  BY <1>1, ConcatOfThree DEF Inserted

\* What the op that is next is.
LEMMA UserIs ==
  ASSUME IInv, next <= Len(users)
  PROVE  users[next] \in Op /\ User \in OpIR /\ User.el \in Int /\ User.idx \in Int /\ next \in 1..Len(users)
<1>1. users \in Seq(Op) /\ next \in 1..Len(users)
  BY DEF IInv, Typed
<1>2. users[next] \in Op
  BY <1>1
<1>3. User \in OpIR
  BY <1>2, BlockType DEF IInv, Static, User
<1> QED  BY <1>1, <1>2, <1>3 DEF OpIR

\* A literal that is remembered.
LEMMA InterpretIInv ==
  ASSUME IInv, status = "interpret", next <= Len(users),
         NEW list \in Seq(Int), NEW isNew \in BOOLEAN, Interpret(list, isNew)
  PROVE  IInv'
<1> USE DEF IInv
<1>1. /\ runningList' = list /\ listLiterals' = Append(listLiterals, list)
      /\ generatedNewLiteral' = (generatedNewLiteral \/ isNew) /\ next' = next + 1
      /\ UNCHANGED <<source, elements, maxTripCount, block, users, literals, operand, erased, nextLiteral, sizes, status>>
  BY DEF Interpret
<1>2. Op' = Op /\ Literal' = Literal /\ BlockOK' = BlockOK /\ \A u : UsersAre(u)' = UsersAre(u)
  BY <1>1, SameBlock
<1>3. Static'
  BY <1>1, <1>2 DEF Static
<1>4. InPhases' /\ UsersInOrder'
  BY <1>1, <1>2 DEF InPhases, UsersInOrder
<1>5. Typed'
  <2>1. listLiterals' \in Seq(Seq(Int)) /\ Len(listLiterals') = Len(listLiterals) + 1
    BY <1>1 DEF Typed
  <2>2. next' \in 1..(Len(users') + 1) /\ nextLiteral' \in 1..(Len(listLiterals') + 1)
    BY <1>1, <2>1 DEF Typed
  <2>3. generatedNewLiteral' \in BOOLEAN
    BY <1>1, Zenon DEF Typed
  <2> QED  BY <1>1, <1>2, <2>1, <2>2, <2>3 DEF Typed
<1> QED  BY <1>3, <1>4, <1>5

LEMMA MatchFailureIInv == IInv /\ status = "interpret" /\ MatchFailure => IInv'
<1> SUFFICES ASSUME IInv, status = "interpret", MatchFailure PROVE IInv'
  OBVIOUS
<1> USE DEF IInv
<1>1. /\ status' = "failed"
      /\ UNCHANGED <<source, elements, maxTripCount, block, users, next, runningList, listLiterals, generatedNewLiteral,
                 literals, operand, erased, nextLiteral, sizes>>
  BY DEF MatchFailure
<1>2. Op' = Op /\ Literal' = Literal /\ BlockOK' = BlockOK /\ \A u : UsersAre(u)' = UsersAre(u)
  BY <1>1, SameBlock
<1>3. Static'
  BY <1>1, <1>2 DEF Static
<1>4. InPhases' /\ UsersInOrder'
  BY <1>1, <1>2 DEF InPhases, UsersInOrder
<1>5. Typed'
  BY <1>1, <1>2 DEF Typed, Status
<1> QED  BY <1>3, <1>4, <1>5

LEMMA SortUsersIInv == IInv /\ SortUsers => IInv'
<1> SUFFICES ASSUME IInv, SortUsers PROVE IInv'
  OBVIOUS
<1> USE DEF IInv
<1>1. PICK s \in Sorted : users' = Truncated(s)
  BY DEF SortUsers
<1>2. /\ status = "match" /\ status' = "interpret"
      /\ UNCHANGED <<source, elements, maxTripCount, block, next, runningList, listLiterals, generatedNewLiteral,
                 literals, operand, erased, nextLiteral, sizes>>
  BY DEF SortUsers
<1>3. Op' = Op /\ Literal' = Literal /\ BlockOK' = BlockOK /\ \A u : UsersAre(u)' = UsersAre(u)
  BY <1>2, SameBlock
<1>4. users' \in Seq(Op) /\ UsersAre(users')
  BY <1>1, SortedIs, TruncatedIs DEF Static
<1>5. Static'
  BY <1>2, <1>3 DEF Static
<1>6. InPhases'
  BY <1>2, <1>3 DEF InPhases
<1>7. UsersInOrder'
  <2>1. \A i : Parent(i)' = Parent(i) /\ IsUser(i)' = IsUser(i) /\ MutatesList(i)' = MutatesList(i)
    BY <1>2, SameBlock
  <2> QED  BY <1>2, <1>3, <1>4, <2>1 DEF UsersInOrder, UsersAre
<1>8. next' \in 1..(Len(users') + 1)
  BY <1>2, <1>4 DEF InPhases
<1>9. Typed'
  BY <1>2, <1>3, <1>4, <1>8 DEF Typed, Status
<1> QED  BY <1>5, <1>6, <1>7, <1>9

LEMMA InterpretationIInv ==
  IInv /\ (InterpretAppend \/ InterpretInsert \/ InterpretSetItem \/ InterpretRead) => IInv'
<1> SUFFICES ASSUME IInv, InterpretAppend \/ InterpretInsert \/ InterpretSetItem \/ InterpretRead PROVE IInv'
  OBVIOUS
<1>1. status = "interpret" /\ next <= Len(users)
  BY DEF InterpretAppend, InterpretInsert, InterpretSetItem, InterpretRead, Interpreting
<1>2. User.el \in Int /\ User.idx \in Int /\ runningList \in Seq(Int)
  BY <1>1, UserIs DEF IInv, Typed
<1>3. IsNew(User.kind) \in BOOLEAN
  BY DEF IsNew
<1>4. CASE MatchFailure
  BY <1>1, <1>4, MatchFailureIInv
<1>5. CASE InterpretAppend /\ ~ MatchFailure
  <2> DEFINE list == IF User.kind = "append" THEN Append(runningList, User.el) ELSE runningList
  <2>1. Interpret(list, IsNew(User.kind))
    BY <1>5 DEF InterpretAppend
  <2>2. list \in Seq(Int)
    BY <1>2
  <2> HIDE DEF list
  <2> QED  BY <1>1, <1>3, <2>1, <2>2, InterpretIInv
<1>6. CASE InterpretInsert /\ ~ MatchFailure
  <2> DEFINE list == Inserted(runningList, User.idx, User.el)
  <2>1. Interpret(list, IsNew(User.kind)) /\ User.idx \in 0..Len(runningList)
    BY <1>6 DEF InterpretInsert
  <2>2. list \in Seq(Int)
    BY <1>2, <2>1, InsertedIs
  <2> HIDE DEF list
  <2> QED  BY <1>1, <1>3, <2>1, <2>2, InterpretIInv
<1>7. CASE InterpretSetItem /\ ~ MatchFailure
  <2> DEFINE k == PositiveDim(User.idx, Len(runningList)) + 1
             list == [runningList EXCEPT ![k] = User.el]
  <2>1. Interpret(list, IsNew(User.kind))
    BY <1>7 DEF InterpretSetItem
  <2>2. k \in Int
    BY <1>2 DEF PositiveDim
  <2> HIDE DEF k
  <2>3. list \in Seq(Int)
    BY <1>2, <2>2, AssignedIs
  <2> HIDE DEF list
  <2> QED  BY <1>1, <1>3, <2>1, <2>3, InterpretIInv
<1>8. CASE InterpretRead
  <2> USE DEF IInv
  <2>1. next' = next + 1 /\ UNCHANGED <<source, elements, maxTripCount, block, users, runningList, listLiterals, generatedNewLiteral,
                 literals, operand, erased, nextLiteral, sizes, status>>
    BY <1>8 DEF InterpretRead
  <2>2. Op' = Op /\ Literal' = Literal /\ BlockOK' = BlockOK /\ \A u : UsersAre(u)' = UsersAre(u)
    BY <2>1, SameBlock
  <2>3. Static' /\ InPhases' /\ UsersInOrder'
    BY <1>1, <2>1, <2>2 DEF Static, InPhases, UsersInOrder
  <2>4. Typed'
    BY <1>1, <2>1, <2>2 DEF Typed
  <2> QED  BY <2>3, <2>4
<1> QED  BY <1>4, <1>5, <1>6, <1>7, <1>8

LEMMA StopIInv == IInv /\ StopInterpreting => IInv'
<1> SUFFICES ASSUME IInv, StopInterpreting, ~ MatchFailure PROVE IInv'
  BY MatchFailureIInv DEF StopInterpreting
<1> USE DEF IInv
<1>1. /\ status = "interpret" /\ status' = "rewrite" /\ next' = 1
      /\ literals' = <<[contents |-> elements, before |-> 0]>>
      /\ UNCHANGED <<source, elements, maxTripCount, block, users, runningList, listLiterals, generatedNewLiteral,
                         operand, erased, nextLiteral, sizes>>
  BY DEF StopInterpreting
<1>2. Op' = Op /\ Literal' = Literal /\ BlockOK' = BlockOK /\ \A u : UsersAre(u)' = UsersAre(u)
  BY <1>1, SameBlock
<1>3. Static' /\ InPhases' /\ UsersInOrder'
  BY <1>1, <1>2 DEF Static, InPhases, UsersInOrder
<1>4. literals' \in Seq(Literal') /\ Len(literals') = 1
  <2> DEFINE l == [contents |-> elements, before |-> 0]
  <2>1. l \in Literal
    BY BlockType DEF Literal, Static
  <2> HIDE DEF l
  <2>2. <<l>> \in Seq(Literal) /\ Len(<<l>>) = 1
    BY <2>1
  <2> QED  BY <1>1, <1>2, <2>2 DEF l
<1>5. operand \in [Op -> 0..1]
  BY <1>1 DEF InPhases
<1>6. next' \in 1..(Len(users') + 1)
  BY <1>1 DEF Typed
<1>7. Typed'
  BY <1>1, <1>2, <1>4, <1>5, <1>6 DEF Typed, Status
<1> QED  BY <1>3, <1>7

LEMMA RewriteIInv == IInv /\ (RewriteMutation \/ RewriteUse \/ ReplaceOp) => IInv'
<1> SUFFICES ASSUME IInv, RewriteMutation \/ RewriteUse \/ ReplaceOp PROVE IInv'
  OBVIOUS
<1> USE DEF IInv
<1>1. /\ status = "rewrite" /\ status' \in {"rewrite", "undefined", "rewritten"}
      /\ UNCHANGED <<source, elements, maxTripCount, block, users, runningList, listLiterals, generatedNewLiteral, sizes>>
  BY DEF RewriteMutation, RewriteUse, ReplaceOp
<1>2. Op' = Op /\ Literal' = Literal /\ BlockOK' = BlockOK /\ \A u : UsersAre(u)' = UsersAre(u)
  BY <1>1, SameBlock
<1>3. Static' /\ InPhases' /\ UsersInOrder'
  BY <1>1, <1>2 DEF Static, InPhases, UsersInOrder
<1>4. status' \in Status
  BY <1>1 DEF Status
<1>5. Len(literals) \in Nat /\ Len(users) \in Nat /\ Len(listLiterals) \in Nat
  BY DEF Typed
<1>6. CASE RewriteMutation /\ nextLiteral > Len(listLiterals)
  <2>1. UNCHANGED <<next, literals, operand, erased, nextLiteral>>
    BY <1>6 DEF RewriteMutation
  <2> QED  BY <1>1, <1>2, <1>3, <1>4, <2>1 DEF Typed
<1>7. CASE RewriteMutation /\ ~ (nextLiteral > Len(listLiterals))
  <2> DEFINE l == [contents |-> listLiterals[nextLiteral], before |-> users[next]]
  <2>1. /\ next <= Len(users) /\ literals' = Append(literals, l) /\ erased' \subseteq erased \cup {users[next]}
        /\ nextLiteral' = nextLiteral + 1 /\ next' = next + 1 /\ UNCHANGED operand
    BY <1>7 DEF RewriteMutation
  <2>2. users[next] \in Op /\ nextLiteral \in 1..Len(listLiterals)
    BY <1>5, <1>7, <2>1, UserIs DEF Typed
  <2>3. l \in Literal
    <3>1. listLiterals[nextLiteral] \in Seq(Int)
      BY <2>2 DEF Typed
    <3> QED  BY <2>2, <3>1 DEF Literal, Op
  <2> HIDE DEF l
  <2>4. literals' \in Seq(Literal) /\ Len(literals') = Len(literals) + 1
    BY <2>1, <2>3 DEF Typed
  <2>5. operand' \in [Op -> 0..Len(literals')]
    <3>1. 0..Len(literals) \subseteq 0..Len(literals')
      BY <1>5, <2>4
    <3> QED  BY <2>1, <3>1 DEF Typed
  <2>6. next' \in 1..(Len(users) + 1) /\ nextLiteral' \in 1..(Len(listLiterals) + 1)
    BY <1>5, <2>1, <2>2 DEF Typed
  <2>7. erased' \subseteq Op
    BY <2>1, <2>2 DEF Typed
  <2> QED  BY <1>1, <1>2, <1>3, <1>4, <2>4, <2>5, <2>6, <2>7 DEF Typed
<1>8. CASE RewriteUse
  <2>1. /\ next <= Len(users) /\ operand' = [operand EXCEPT ![users[next]] = Len(literals)]
        /\ next' = next + 1 /\ UNCHANGED <<literals, erased, nextLiteral>>
    BY <1>8 DEF RewriteUse, LatestLiteral
  <2>2. operand' \in [Op -> 0..Len(literals)]
    BY <1>5, <2>1 DEF Typed
  <2>3. next' \in 1..(Len(users) + 1)
    BY <1>5, <2>1 DEF Typed
  <2> QED  BY <1>1, <1>2, <1>3, <1>4, <2>1, <2>2, <2>3 DEF Typed
<1>9. CASE ReplaceOp
  <2>1. operand' = [i \in Op |-> ReplacedOperand(i)] /\ UNCHANGED <<next, literals, erased, nextLiteral>>
    BY <1>9 DEF ReplaceOp
  <2>2. \A i \in Op : ReplacedOperand(i) \in 0..Len(literals)
    BY <1>5 DEF Typed, ReplacedOperand, LatestLiteral
  <2> QED  BY <1>1, <1>2, <1>3, <1>4, <2>1, <2>2 DEF Typed
<1> QED  BY <1>6, <1>7, <1>8, <1>9

LEMMA RefineIInv == IInv /\ RefineShape => IInv'
<1> SUFFICES ASSUME IInv, RefineShape PROVE IInv'
  OBVIOUS
<1> USE DEF IInv
<1>1. /\ status \in {"rewritten", "failed"} /\ status' \in {"refined", "unrefined"}
      /\ UNCHANGED <<source, elements, maxTripCount, block, users, next, runningList, listLiterals, generatedNewLiteral,
                 literals, operand, erased, nextLiteral>>
  BY DEF RefineShape
<1>2. Op' = Op /\ Literal' = Literal /\ BlockOK' = BlockOK /\ \A u : UsersAre(u)' = UsersAre(u)
  BY <1>1, SameBlock
<1>3. Static' /\ InPhases' /\ UsersInOrder'
  BY <1>1, <1>2 DEF Static, InPhases, UsersInOrder
<1>4. YieldedContents \in Seq(Int)
  <2>1. Yielded \in 0..Len(literals)
    BY BlockType DEF Yielded, Typed, Static
  <2>2. CASE Yielded # 0
    <3>1. Yielded \in 1..Len(literals)
      BY <2>1, <2>2 DEF Typed
    <3>2. literals[Yielded] \in Literal
      BY <3>1 DEF Typed
    <3> QED  BY <2>2, <3>2 DEF YieldedContents, Literal
  <2> QED  BY <2>2 DEF YieldedContents, Static
<1>5. sizes' \in Seq(Int)
  <2> DEFINE n == Len(YieldedContents)
             c == UNION {Clobbered(i, n) : i \in UsersOfYielded}
             known == [d \in 1..n |-> IF d \in c THEN Unknown ELSE YieldedContents[d]]
  <2>1. sizes' = known \/ sizes' = sizes
    BY DEF RefineShape
  <2>2. n \in Nat /\ \A d \in 1..n : YieldedContents[d] \in Int
    BY <1>4
  <2> HIDE DEF n, c
  <2>3. known \in [1..n -> Int]
    BY <2>2 DEF Unknown
  <2>4. known \in Seq(Int)
    BY <2>2, <2>3
  <2> QED  BY <2>1, <2>4 DEF Typed
<1>6. Typed'
  BY <1>1, <1>2, <1>5 DEF Typed, Status
<1> QED  BY <1>3, <1>6

LEMMA NextIInv == IInv /\ [Next]_vars => IInv'
<1> SUFFICES ASSUME IInv, [Next]_vars PROVE IInv'
  OBVIOUS
<1>1. CASE UNCHANGED vars
  <2>1. Op' = Op /\ Literal' = Literal /\ BlockOK' = BlockOK /\ \A u : UsersAre(u)' = UsersAre(u)
    BY <1>1, SameBlock DEF vars
  <2>2. Static' /\ InPhases' /\ UsersInOrder'
    BY <1>1, <2>1 DEF vars, IInv, Static, InPhases, UsersInOrder
  <2>3. Typed'
    BY <1>1, <2>1 DEF vars, IInv, Typed
  <2> QED  BY <2>2, <2>3 DEF IInv
<1> QED  BY <1>1, UnrollIInv, SortUsersIInv, InterpretationIInv, StopIInv, RewriteIInv, RefineIInv DEF Next, Done

LEMMA Invariant == Spec => []IInv
BY InitIInv, NextIInv, PTL DEF Spec

\* The vectors of the pattern hold lists of integers and the users of the list.
THEOREM TypeCorrect == Spec => []TypeOK
<1>1. IInv => TypeOK
  <2> SUFFICES ASSUME IInv PROVE TypeOK
    OBVIOUS
  <2> USE DEF IInv
  <2>1. \A j \in DOMAIN users : users[j] \in Op /\ IsUser(users[j])
    <3>1. \A j \in DOMAIN users : users[j] \in Op
      BY DEF Typed
    <3>2. CASE status = "match"
      BY <3>2 DEF InPhases
    <3>3. CASE status # "match"
      BY <3>1, <3>3 DEF UsersInOrder, UsersAre
    <3> QED  BY <3>2, <3>3
  <2>2. \A l \in DOMAIN listLiterals : listLiterals[l] \in Seq(Int)
    <3>1. listLiterals \in Seq(Seq(Int))
      BY DEF Typed
    <3> QED  BY <3>1
  <2>3. \A k \in DOMAIN literals : literals[k] \in [contents : Seq(Int), before : 0..Len(block)]
    <3>1. \A k \in DOMAIN literals : literals[k] \in Literal
      BY DEF Typed
    <3> QED  BY <3>1, Zenon DEF Literal
  <2>4. /\ next \in 1..(Len(users) + 1) /\ runningList \in Seq(Int) /\ generatedNewLiteral \in BOOLEAN
        /\ operand \in [Op -> 0..Len(literals)] /\ erased \subseteq Op
        /\ nextLiteral \in 1..(Len(listLiterals) + 1) /\ sizes \in Seq(Int)
    BY DEF Typed
  <2>5. status \in {"match", "interpret", "rewrite", "rewritten", "failed", "refined",
                    "unrefined", "undefined"}
    BY DEF Typed, Status
  <2> HIDE DEF IInv
  <2> QED  BY ONLY <2>1, <2>2, <2>3, <2>4, <2>5, Zenon DEF TypeOK
<1> QED  BY <1>1, Invariant, PTL

(***************************************************************************)
(* What is interpreted, and what it is used for: which literals there are, *)
(* and which one an op gets.                                               *)
(***************************************************************************)
\* Of the users before number n, those that have a literal.
HandledBefore(n) == {j \in 1..(n - 1) : block[users[j]].kind \in Handled}
Count(n) == Cardinality(HandledBefore(n))

\* The list when k of them have been run.
ListAt(k) == IF k = 0 THEN elements ELSE listLiterals[k]

LEMMA CountIs ==
  ASSUME NEW n \in Nat \ {0}
  PROVE  /\ IsFiniteSet(HandledBefore(n)) /\ Count(n) \in Nat
         /\ HandledBefore(1) = {} /\ Count(1) = 0
         /\ block[users[n]].kind \in Handled =>
              HandledBefore(n + 1) = HandledBefore(n) \cup {n} /\ Count(n + 1) = Count(n) + 1
         /\ block[users[n]].kind \notin Handled =>
              HandledBefore(n + 1) = HandledBefore(n) /\ Count(n + 1) = Count(n)
<1>1. IsFiniteSet(1..(n - 1))
  BY FS_Interval
<1>2. IsFiniteSet(HandledBefore(n))
  BY <1>1, FS_Subset DEF HandledBefore
<1>3. Count(n) \in Nat
  BY <1>2, FS_CardinalityType DEF Count
<1>4. HandledBefore(1) = {}
  BY DEF HandledBefore
<1>5. Count(1) = 0
  BY <1>4, FS_EmptySet DEF Count
<1>6. ASSUME block[users[n]].kind \in Handled
      PROVE  HandledBefore(n + 1) = HandledBefore(n) \cup {n} /\ Count(n + 1) = Count(n) + 1
  <2>1. HandledBefore(n + 1) = HandledBefore(n) \cup {n}
    BY <1>6 DEF HandledBefore
  <2>2. n \notin HandledBefore(n)
    BY DEF HandledBefore
  <2> QED  BY <1>2, <2>1, <2>2, FS_AddElement DEF Count
<1>7. ASSUME block[users[n]].kind \notin Handled
      PROVE  HandledBefore(n + 1) = HandledBefore(n) /\ Count(n + 1) = Count(n)
  <2>1. HandledBefore(n + 1) = HandledBefore(n)
    BY <1>7 DEF HandledBefore
  <2> QED  BY <2>1 DEF Count
<1> QED  BY <1>2, <1>3, <1>4, <1>5, <1>6, <1>7

LEMMA CountGrows ==
  ASSUME NEW m \in Nat \ {0}, NEW n \in Nat \ {0}, m <= n
  PROVE  Count(m) <= Count(n)
<1>1. HandledBefore(m) \subseteq HandledBefore(n)
  BY DEF HandledBefore
<1> QED  BY <1>1, CountIs, FS_Subset DEF Count

\* The position of the literal of a user.
LEMMA PositionIs ==
  ASSUME NEW n \in Nat \ {0}, NEW j \in HandledBefore(n)
  PROVE  j \in Nat \ {0} /\ j < n /\ Count(j) \in Nat /\ Count(j) < Count(n)
<1>1. j \in Nat \ {0} /\ j + 1 <= n /\ block[users[j]].kind \in Handled
  BY DEF HandledBefore
<1>2. Count(j + 1) = Count(j) + 1 /\ Count(j) \in Nat
  BY <1>1, CountIs
<1>3. Count(j + 1) <= Count(n) /\ Count(n) \in Nat
  BY <1>1, CountGrows, CountIs
<1> QED  BY <1>1, <1>2, <1>3

Stores(j) == block[users[j]].kind = "store"

\* The users before number m have been interpreted.
Interpreted(m) ==
  /\ Len(listLiterals) = Count(m)
  /\ \A j \in HandledBefore(m) : ListAt(Count(j) + 1) = After(block[users[j]], ListAt(Count(j)))

\* The interpretation has come to an end there.
Stopped(m) ==
  /\ Interpreted(m) /\ \E j \in HandledBefore(m) : ~ Stores(j)
  /\ m <= Len(users) => block[users[m]].kind = "sort"

Interpretation ==
  /\ status = "interpret" =>
       /\ Interpreted(next) /\ runningList = ListAt(Count(next))
       /\ generatedNewLiteral => \E j \in HandledBefore(next) : ~ Stores(j)
  /\ literals # <<>> => \E m \in 1..(Len(users) + 1) : Stopped(m)

\* The users that get the latest literal when they are rewritten.
IsUse(j) == block[users[j]].kind \notin Handled

\* There is a literal for the list as it was and behind every user that has been interpreted.
LiteralsAre(n, lits) ==
  /\ Len(lits) = Count(n) + 1
  /\ \A k \in 1..Len(lits) : lits[k].contents = ListAt(k - 1)
  /\ lits[1].before = 0
  /\ \A j \in HandledBefore(n) : lits[Count(j) + 2].before = users[j]

ErasedAre(n, e) == \A i : i \in e <=> \E j \in HandledBefore(n) : users[j] = i /\ ~ Stores(j)

\* A use has the literal behind the last user that has been interpreted before it; in the end
\* the other ops have the last literal.
OperandsAre(n, o, latest) ==
  /\ \A j \in 1..(n - 1) : IsUse(j) => o[users[j]] = Count(j) + 1
  /\ \A i \in Op : (\A j \in 1..(n - 1) : IsUse(j) => users[j] # i) => o[i] = IF IsUser(i) THEN latest ELSE 0

Rewriting ==
  /\ literals # <<>> =>
       /\ nextLiteral = Count(next) + 1
       /\ LiteralsAre(next, literals)
       /\ ErasedAre(next, erased)
       /\ status \in {"rewrite", "undefined"} => OperandsAre(next, operand, 0)
       /\ status \notin {"rewrite", "undefined"} => next = Len(users) + 1 /\ OperandsAre(next, operand, Len(literals))
  /\ status \in {"rewrite", "rewritten", "undefined"} => literals # <<>>
  /\ status = "undefined" =>
       next <= Len(users) /\ block[users[next]].kind \in Handled /\ nextLiteral > Len(listLiterals)

LEMMA SameUsers ==
  ASSUME block' = block, users' = users
  PROVE  \A n : HandledBefore(n)' = HandledBefore(n) /\ Count(n)' = Count(n)
BY DEF HandledBefore, Count

LEMMA SameInterpretation ==
  ASSUME block' = block, users' = users, elements' = elements, listLiterals' = listLiterals
  PROVE  /\ \A n : Interpreted(n)' = Interpreted(n) /\ Stopped(n)' = Stopped(n)
         /\ \A n, lits : LiteralsAre(n, lits)' = LiteralsAre(n, lits)
         /\ \A n, e : ErasedAre(n, e)' = ErasedAre(n, e)
         /\ \A n, o, latest : OperandsAre(n, o, latest)' = OperandsAre(n, o, latest)
         /\ \A k : ListAt(k)' = ListAt(k) /\ Stores(k)' = Stores(k)
BY DEF Interpreted, Stopped, LiteralsAre, ErasedAre, OperandsAre, ListAt, HandledBefore, Count, Stores, IsUse, IsUser, Op

RInv == IInv /\ Interpretation /\ Rewriting

LEMMA InitRInv == Init => RInv
<1> SUFFICES ASSUME Init PROVE RInv
  OBVIOUS
<1>1. status = "match" /\ literals = <<>>
  BY DEF Init
<1> QED  BY <1>1, InitIInv DEF RInv, Interpretation, Rewriting

\* What an op leaves in the list, as the pattern computes it.
LEMMA AfterIs ==
  ASSUME NEW o \in OpIR, NEW list \in Seq(Int)
  PROVE  /\ o.kind = "append" => After(o, list) = Append(list, o.el)
         /\ o.kind = "insert" /\ o.idx \in 0..Len(list) => After(o, list) = Inserted(list, o.idx, o.el)
         /\ o.kind = "set" /\ IsLegalIndex(o, Len(list)) =>
              After(o, list) = [list EXCEPT ![PositiveDim(o.idx, Len(list)) + 1] = o.el]
         /\ o.kind \in {"store", "read", "fetch"} => After(o, list) = list
<1>1. Len(list) \in Nat /\ o.idx \in Int
  BY DEF OpIR
<1>2. o.kind = "append" => After(o, list) = Append(list, o.el)
  BY DEF After
<1>3. ASSUME o.kind = "insert", o.idx \in 0..Len(list) PROVE After(o, list) = Inserted(list, o.idx, o.el)
  <2> DEFINE k == IF o.idx > Len(list) THEN Len(list) ELSE IF PositiveDim(o.idx, Len(list)) < 0 THEN 0
                        ELSE PositiveDim(o.idx, Len(list))
  <2>1. k = o.idx
    BY <1>1, <1>3 DEF PositiveDim
  <2>2. After(o, list) = Inserted(list, k, o.el)
    BY <1>3 DEF After
  <2> QED  BY <2>1, <2>2
<1>4. o.kind = "set" /\ IsLegalIndex(o, Len(list)) =>
        After(o, list) = [list EXCEPT ![PositiveDim(o.idx, Len(list)) + 1] = o.el]
  BY DEF After, IsLegalIndex
<1>5. o.kind \in {"store", "read", "fetch"} => After(o, list) = list
  BY DEF After
<1> QED  BY <1>2, <1>3, <1>4, <1>5

LEMMA UnrollRInv == RInv /\ UnrollLoop => RInv'
<1> SUFFICES ASSUME RInv, UnrollLoop PROVE RInv'
  OBVIOUS
<1>1. status = "match" /\ literals = <<>> /\ UNCHANGED <<status, literals>>
  BY DEF RInv, UnrollLoop, IInv, InPhases
<1> QED  BY <1>1, UnrollIInv DEF RInv, Interpretation, Rewriting

LEMMA SortUsersRInv == RInv /\ SortUsers => RInv'
<1> SUFFICES ASSUME RInv, SortUsers PROVE RInv'
  OBVIOUS
<1>1. /\ status = "match" /\ literals = <<>> /\ status' = "interpret" /\ generatedNewLiteral = FALSE
      /\ listLiterals = <<>> /\ next = 1 /\ runningList = elements
      /\ UNCHANGED <<literals, listLiterals, next, runningList, elements, generatedNewLiteral>>
  BY DEF RInv, SortUsers, IInv, InPhases
<1>3. HandledBefore(next)' = {} /\ Count(next)' = 0
  <2>1. next' = 1
    BY <1>1
  <2>2. HandledBefore(next)' = {}
    BY <2>1 DEF HandledBefore
  <2> QED  BY <2>2, FS_EmptySet DEF Count
<1>4. Interpretation'
  BY <1>1, <1>3 DEF Interpretation, Interpreted, ListAt
<1> QED  BY <1>1, <1>4, SortUsersIInv DEF RInv, Rewriting

LEMMA InterpretRInv ==
  ASSUME RInv, status = "interpret", next <= Len(users), User.kind \in Handled,
         NEW list \in Seq(Int), list = After(User, runningList), Interpret(list, IsNew(User.kind))
  PROVE  RInv'
<1> USE DEF RInv
<1>1. /\ runningList' = list /\ listLiterals' = Append(listLiterals, list) /\ next' = next + 1
      /\ generatedNewLiteral' = (generatedNewLiteral \/ IsNew(User.kind))
      /\ UNCHANGED <<elements, block, users, literals, status>>
  BY DEF Interpret
<1>2. \A n : HandledBefore(n)' = HandledBefore(n) /\ Count(n)' = Count(n)
  BY <1>1, SameUsers
<1>3. next \in Nat \ {0} /\ listLiterals \in Seq(Seq(Int)) /\ literals = <<>>
  BY DEF IInv, Typed, InPhases
<1>4. /\ Len(listLiterals) = Count(next) /\ runningList = ListAt(Count(next))
      /\ \A j \in HandledBefore(next) : ListAt(Count(j) + 1) = After(block[users[j]], ListAt(Count(j)))
      /\ generatedNewLiteral => \E j \in HandledBefore(next) : ~ Stores(j)
  BY DEF Interpretation, Interpreted
<1>5. HandledBefore(next + 1) = HandledBefore(next) \cup {next} /\ Count(next + 1) = Count(next) + 1 /\ Count(next) \in Nat
  BY <1>3, CountIs DEF User
<1> PICK c \in Nat : c = Count(next)
  BY <1>5
<1>6. /\ Len(listLiterals') = c + 1
      /\ \A k \in 0..c : ListAt(k)' = ListAt(k)
      /\ ListAt(c + 1)' = list
  <2>1. Len(listLiterals') = Len(listLiterals) + 1 /\ listLiterals'[Len(listLiterals) + 1] = list
        /\ \A k \in 1..Len(listLiterals) : listLiterals'[k] = listLiterals[k]
    BY <1>1, <1>3
  <2>2. \A k : ListAt(k)' = IF k = 0 THEN elements ELSE listLiterals'[k]
    BY <1>1 DEF ListAt
  <2>3. \A k : ListAt(k) = IF k = 0 THEN elements ELSE listLiterals[k]
    BY DEF ListAt
  <2>4. Len(listLiterals) = c
    BY <1>4
  <2>5. ASSUME NEW k \in 0..c PROVE ListAt(k)' = ListAt(k)
    <3>1. k = 0 \/ k \in 1..Len(listLiterals)
      BY <2>4
    <3> QED  BY <2>1, <3>1, <1>1 DEF ListAt
  <2>6. ListAt(c + 1)' = list
    <3>1. c + 1 # 0 /\ listLiterals'[c + 1] = list
      BY <2>1, <2>4
    <3> QED  BY <3>1 DEF ListAt
  <2> QED  BY <2>1, <2>4, <2>5, <2>6
<1>7. /\ Len(listLiterals') = Count(next + 1)
      /\ \A j \in HandledBefore(next + 1) : \A d : d = Count(j) => ListAt(d + 1)' = After(block[users[j]], ListAt(d)')
  <2>1. Len(listLiterals') = Count(next + 1)
    BY <1>5, <1>6
  <2>2. ASSUME NEW j \in HandledBefore(next + 1), NEW d, d = Count(j)
        PROVE  ListAt(d + 1)' = After(block[users[j]], ListAt(d)')
    <3>1. CASE j = next
      <4>1. d = c /\ ListAt(d)' = ListAt(d) /\ ListAt(c) = runningList /\ block[users[j]] = User
        <5>1. d = c
          BY <2>2, <3>1
        <5>2. ListAt(d)' = ListAt(d)
          BY <1>6, <5>1
        <5>3. block[users[j]] = User
          BY <3>1 DEF User
        <5>4. ListAt(c) = runningList
          BY <1>4
        <5> QED  BY <5>1, <5>2, <5>3, <5>4
      <4>2. list = After(block[users[j]], ListAt(d)')
        BY <4>1
      <4>3. ListAt(d + 1)' = list
        BY <1>6, <4>1
      <4> QED  BY <4>2, <4>3
    <3>2. CASE j # next
      <4>1. j \in HandledBefore(next)
        BY <1>5, <3>2
      <4>2. d \in 0..c /\ d + 1 \in 0..c
        <5>1. Count(j) \in Nat /\ Count(j) < Count(next)
          BY <1>3, <4>1, PositionIs
        <5> QED  BY <2>2, <5>1
      <4>3. ListAt(d + 1) = After(block[users[j]], ListAt(d))
        BY <1>4, <2>2, <4>1
      <4> QED  BY <1>6, <4>2, <4>3
    <3> QED  BY <3>1, <3>2
  <2> QED  BY <2>1, <2>2
<1>8. generatedNewLiteral' => \E j \in HandledBefore(next + 1) : ~ Stores(j)
  BY <1>1, <1>4, <1>5 DEF IsNew, Stores, User
<1>9. Interpretation'
  <2>1. next' = next + 1 /\ \A n : n = next + 1 => HandledBefore(n)' = HandledBefore(n) /\ Count(n)' = Count(n)
    BY <1>1, <1>2
  <2>2. HandledBefore(next)' = HandledBefore(next + 1) /\ Count(next)' = Count(next + 1)
    BY <1>1 DEF HandledBefore, Count
  <2>3. Interpreted(next)'
    <3>1. \A j, d : d = Count(j) => Count(j)' = d /\ (d = Count(j))'
      BY <1>2
    <3>2. ASSUME NEW j \in HandledBefore(next + 1)
          PROVE  (ListAt(Count(j) + 1) = After(block[users[j]], ListAt(Count(j))))'
      <4> PICK d : d = Count(j)
        OBVIOUS
      <4>1. Count(j)' = d
        BY <1>2
      <4>2. ListAt(d + 1)' = After(block[users[j]], ListAt(d)')
        BY <1>7
      <4>3. (ListAt(d + 1) = After(block[users[j]], ListAt(d)))'
        BY <1>1, <4>2
      <4> QED  BY <4>1, <4>3
    <3> QED  BY <1>7, <2>2, <3>2 DEF Interpreted
  <2>4. (runningList = ListAt(Count(next)))'
    <3> PICK d : d = Count(next + 1)
      OBVIOUS
    <3>1. d = c + 1 /\ Count(next)' = d
      BY <1>5, <2>2
    <3>2. (runningList = ListAt(d))'
      BY <1>1, <1>6, <3>1
    <3> QED  BY <3>1, <3>2
  <2>5. (generatedNewLiteral => \E j \in HandledBefore(next) : ~ Stores(j))'
    BY <1>1, <1>8, <2>2 DEF Stores
  <2> QED  BY <1>1, <1>3, <2>3, <2>4, <2>5 DEF Interpretation
<1>10. Rewriting'
  BY <1>1, <1>3 DEF Rewriting
<1>11. IInv'
  BY InterpretIInv DEF IsNew
<1> QED  BY <1>9, <1>10, <1>11

LEMMA MatchFailureRInv == RInv /\ status = "interpret" /\ MatchFailure => RInv'
<1> SUFFICES ASSUME RInv, status = "interpret", MatchFailure PROVE RInv'
  OBVIOUS
<1>1. literals = <<>> /\ literals' = literals /\ status' = "failed"
  BY DEF RInv, IInv, InPhases, MatchFailure
<1> QED  BY <1>1, MatchFailureIInv DEF RInv, Interpretation, Rewriting

LEMMA InterpretationRInv ==
  RInv /\ (InterpretAppend \/ InterpretInsert \/ InterpretSetItem \/ InterpretRead) => RInv'
<1> SUFFICES ASSUME RInv, InterpretAppend \/ InterpretInsert \/ InterpretSetItem \/ InterpretRead PROVE RInv'
  OBVIOUS
<1>1. status = "interpret" /\ next <= Len(users) /\ literals = <<>>
  BY DEF InterpretAppend, InterpretInsert, InterpretSetItem, InterpretRead, Interpreting, RInv, IInv, InPhases
<1>2. User \in OpIR /\ User.el \in Int /\ User.idx \in Int /\ runningList \in Seq(Int)
  BY <1>1, UserIs DEF RInv, IInv, Typed
<1>4. CASE MatchFailure
  BY <1>1, <1>4, MatchFailureRInv
<1>5. CASE InterpretAppend /\ ~ MatchFailure
  <2> DEFINE list == IF User.kind = "append" THEN Append(runningList, User.el) ELSE runningList
  <2>1. Interpret(list, IsNew(User.kind)) /\ User.kind \in {"append", "store"}
    BY <1>5 DEF InterpretAppend, Interpreting, User
  <2>2. list \in Seq(Int) /\ User.kind \in Handled
    BY <1>2, <2>1 DEF Handled
  <2>3. list = After(User, runningList)
    BY <1>2, <2>1, AfterIs
  <2> HIDE DEF list
  <2> QED  BY <1>1, <2>1, <2>2, <2>3, InterpretRInv
<1>6. CASE InterpretInsert /\ ~ MatchFailure
  <2> DEFINE list == Inserted(runningList, User.idx, User.el)
  <2>1. Interpret(list, IsNew(User.kind)) /\ User.idx \in 0..Len(runningList) /\ User.kind = "insert"
    BY <1>6 DEF InterpretInsert, Interpreting, User
  <2>2. list \in Seq(Int) /\ User.kind \in Handled
    BY <1>2, <2>1, InsertedIs DEF Handled
  <2>3. list = After(User, runningList)
    BY <1>2, <2>1, AfterIs
  <2> HIDE DEF list
  <2> QED  BY <1>1, <2>1, <2>2, <2>3, InterpretRInv
<1>7. CASE InterpretSetItem /\ ~ MatchFailure
  <2> DEFINE k == PositiveDim(User.idx, Len(runningList)) + 1
             list == [runningList EXCEPT ![k] = User.el]
  <2>1. Interpret(list, IsNew(User.kind)) /\ IsLegalIndex(User, Len(runningList)) /\ User.kind = "set"
    BY <1>7 DEF InterpretSetItem, Interpreting, User
  <2>2. k \in Int
    BY <1>2 DEF PositiveDim
  <2>3. list = After(User, runningList)
    BY <1>2, <2>1, AfterIs
  <2> HIDE DEF k
  <2>4. list \in Seq(Int) /\ User.kind \in Handled
    BY <1>2, <2>1, <2>2, AssignedIs DEF Handled
  <2> HIDE DEF list
  <2> QED  BY <1>1, <2>1, <2>3, <2>4, InterpretRInv
<1>8. CASE InterpretRead
  <2>1. /\ next' = next + 1 /\ UNCHANGED <<elements, block, users, runningList, listLiterals, generatedNewLiteral, literals, status>>
        /\ block[users[next]].kind = "read"
    BY <1>8 DEF InterpretRead, Interpreting
  <2>2. HandledBefore(next + 1) = HandledBefore(next) /\ Count(next + 1) = Count(next)
    <3>1. next \in Nat \ {0}
      BY DEF RInv, IInv, Typed
    <3>2. block[users[next]].kind \notin Handled
      BY <2>1 DEF Handled
    <3> QED  BY <3>1, <3>2, CountIs
  <2>3. HandledBefore(next)' = HandledBefore(next) /\ Count(next)' = Count(next)
    BY <2>1, <2>2 DEF HandledBefore, Count
  <2>4. Interpreted(next)' = Interpreted(next)
    <3>1. \A j : HandledBefore(j)' = HandledBefore(j) /\ Count(j)' = Count(j) /\ ListAt(j)' = ListAt(j)
      BY <2>1 DEF HandledBefore, Count, ListAt
    <3>2. \A j : ListAt(Count(j))' = ListAt(Count(j)) /\ ListAt(Count(j) + 1)' = ListAt(Count(j) + 1)
      BY <2>1, <3>1 DEF ListAt
    <3> QED  BY <2>1, <2>3, <3>1, <3>2 DEF Interpreted
  <2>5. (runningList = ListAt(Count(next)))' = (runningList = ListAt(Count(next)))
    BY <2>1, <2>3 DEF ListAt
  <2>6. (\E j \in HandledBefore(next) : ~ Stores(j))' = (\E j \in HandledBefore(next) : ~ Stores(j))
    BY <2>1, <2>3 DEF Stores
  <2>7. Interpretation'
    BY <1>1, <2>1, <2>4, <2>5, <2>6 DEF RInv, Interpretation
  <2> QED  BY <1>1, <1>8, <2>1, <2>7, InterpretationIInv DEF RInv, Rewriting
<1> QED  BY <1>4, <1>5, <1>6, <1>7, <1>8

LEMMA StopRInv == RInv /\ StopInterpreting => RInv'
<1> SUFFICES ASSUME RInv, StopInterpreting, ~ MatchFailure PROVE RInv'
  BY MatchFailureRInv DEF StopInterpreting
<1>1. /\ status = "interpret" /\ status' = "rewrite" /\ next' = 1 /\ generatedNewLiteral
      /\ literals' = <<[contents |-> elements, before |-> 0]>>
      /\ UNCHANGED <<elements, block, users, listLiterals, operand, erased, nextLiteral>>
      /\ next <= Len(users) => User.kind = "sort"
  BY DEF StopInterpreting
<1>2. /\ nextLiteral = 1 /\ erased = {} /\ operand = [i \in Op |-> 0]
      /\ next \in 1..(Len(users) + 1)
  BY <1>1 DEF RInv, IInv, InPhases, Typed
<1>3. \E m \in 1..(Len(users) + 1) : Stopped(m)
  BY <1>1, <1>2 DEF RInv, Interpretation, Stopped, User
<1>4. Interpretation'
  BY <1>1, <1>3, SameInterpretation DEF Interpretation
<1>5. HandledBefore(1) = {} /\ Count(1) = 0
  BY CountIs
<1>6. LiteralsAre(1, literals')
  <2> DEFINE l == [contents |-> elements, before |-> 0]
  <2>1. literals' = <<l>> /\ l.contents = elements /\ l.before = 0
    BY <1>1
  <2> HIDE DEF l
  <2>2. Len(literals') = 1 /\ literals'[1] = l
    BY <2>1
  <2> QED  BY <1>5, <2>1, <2>2 DEF LiteralsAre, ListAt
<1>7. ErasedAre(1, erased) /\ OperandsAre(1, operand, 0)
  BY <1>2, <1>5 DEF ErasedAre, OperandsAre
<1>8. literals' # <<>>
  BY <1>1
<1>9. Rewriting'
  <2>1. HandledBefore(next)' = HandledBefore(1)
    BY <1>1 DEF HandledBefore
  <2>2. (nextLiteral = Count(next) + 1)'
    BY <1>1, <1>2, <1>5, <2>1 DEF Count
  <2>3. LiteralsAre(next, literals)' /\ ErasedAre(next, erased)' /\ OperandsAre(next, operand, 0)'
    BY <1>1, <1>6, <1>7, SameInterpretation
  <2> QED  BY <1>1, <1>8, <2>2, <2>3 DEF Rewriting
<1> QED  BY <1>4, <1>9, StopIInv DEF RInv

\* A literal is added.
LEMMA MoreLiterals ==
  ASSUME NEW n \in Nat \ {0}, NEW lits \in Seq(Literal), LiteralsAre(n, lits), block[users[n]].kind \in Handled,
         Count(n) + 1 <= Len(listLiterals), NEW l \in Literal,
         l.contents = listLiterals[Count(n) + 1], l.before = users[n]
  PROVE  LiteralsAre(n + 1, Append(lits, l))
<1> DEFINE new == Append(lits, l)
<1>1. /\ Count(n) \in Nat /\ Count(n + 1) = Count(n) + 1
      /\ HandledBefore(n + 1) = HandledBefore(n) \cup {n}
  BY CountIs
<1> PICK c \in Nat : c = Count(n)
  BY <1>1
<1>2. /\ Len(lits) = c + 1
      /\ \A k \in 1..Len(lits) : lits[k].contents = ListAt(k - 1)
      /\ lits[1].before = 0
      /\ \A j \in HandledBefore(n) : lits[Count(j) + 2].before = users[j]
  BY DEF LiteralsAre
<1>3. Len(new) = c + 2 /\ new[c + 2] = l /\ \A k \in 1..(c + 1) : new[k] = lits[k]
  BY <1>2
<1> HIDE DEF new
<1>4. ASSUME NEW k \in 1..Len(new) PROVE new[k].contents = ListAt(k - 1)
  <2>1. CASE k \in 1..(c + 1)
    BY <1>2, <1>3, <2>1
  <2>2. CASE k = c + 2
    <3>1. k - 1 = c + 1 /\ k - 1 # 0
      BY <2>2
    <3> QED  BY <1>3, <2>2, <3>1 DEF ListAt
  <2> QED  BY <1>3, <2>1, <2>2
<1>5. new[1].before = 0
  BY <1>2, <1>3
<1>6. ASSUME NEW j \in HandledBefore(n + 1) PROVE new[Count(j) + 2].before = users[j]
  <2>1. CASE j = n
    BY <1>3, <2>1
  <2>2. CASE j # n
    <3>1. j \in HandledBefore(n)
      BY <1>1, <2>2
    <3>2. Count(j) \in Nat /\ Count(j) < Count(n)
      BY <3>1, PositionIs
    <3>3. Count(j) + 2 \in 1..(c + 1)
      BY <3>2
    <3>4. lits[Count(j) + 2].before = users[j]
      BY <1>2, <3>1
    <3> QED  BY <1>3, <3>3, <3>4
  <2> QED  BY <2>1, <2>2
<1>7. Len(new) = Count(n + 1) + 1
  BY <1>1, <1>3
<1> QED  BY <1>4, <1>5, <1>6, <1>7 DEF LiteralsAre, new

LEMMA RewriteMutationRInv == RInv /\ RewriteMutation => RInv'
<1> SUFFICES ASSUME RInv, RewriteMutation PROVE RInv'
  OBVIOUS
<1> USE DEF RInv
<1>1. /\ status = "rewrite" /\ next <= Len(users) /\ block[users[next]].kind \in Handled
      /\ UNCHANGED <<elements, block, users, listLiterals, operand>>
  BY DEF RewriteMutation, User
<1>2. /\ literals # <<>> /\ nextLiteral = Count(next) + 1 /\ LiteralsAre(next, literals) /\ ErasedAre(next, erased)
      /\ OperandsAre(next, operand, 0)
  BY <1>1 DEF Rewriting
<1>3. next \in Nat \ {0} /\ literals \in Seq(Literal) /\ nextLiteral \in Nat \ {0} /\ Len(listLiterals) \in Nat
  BY DEF IInv, Typed
<1>4. CASE nextLiteral > Len(listLiterals)
  <2>1. status' = "undefined" /\ UNCHANGED <<next, literals, erased, nextLiteral>>
    BY <1>4 DEF RewriteMutation
  <2>2. Interpretation'
    BY <1>1, <2>1, SameInterpretation DEF Interpretation
  <2>3. (nextLiteral = Count(next) + 1)'
    <3>1. HandledBefore(next)' = HandledBefore(next)
      BY <1>1, <2>1 DEF HandledBefore
    <3> QED  BY <1>2, <2>1, <3>1 DEF Count
  <2>4. LiteralsAre(next, literals)' /\ ErasedAre(next, erased)' /\ OperandsAre(next, operand, 0)'
    BY <1>1, <1>2, <2>1, SameInterpretation
  <2>5. Rewriting'
    BY <1>1, <1>2, <1>4, <2>1, <2>3, <2>4 DEF Rewriting
  <2> QED  BY <2>2, <2>5, RewriteIInv
<1>5. CASE ~ (nextLiteral > Len(listLiterals))
  <2> DEFINE l == [contents |-> listLiterals[nextLiteral], before |-> users[next]]
  <2>1. /\ literals' = Append(literals, l) /\ next' = next + 1 /\ nextLiteral' = nextLiteral + 1 /\ status' = status
        /\ erased' = IF Stores(next) THEN erased ELSE erased \cup {users[next]}
    BY <1>5 DEF RewriteMutation, User, Stores
  <2>2. l \in Literal
    <3>1. listLiterals[nextLiteral] \in Seq(Int)
      BY <1>3, <1>5 DEF IInv, Typed
    <3>2. users[next] \in Op
      BY <1>1, UserIs
    <3> QED  BY <3>1, <3>2, BlockType DEF Literal, Op
  <2>3. l.contents = listLiterals[Count(next) + 1] /\ l.before = users[next] /\ Count(next) + 1 <= Len(listLiterals)
    BY <1>2, <1>3, <1>5
  <2> HIDE DEF l
  <2>4. LiteralsAre(next + 1, literals')
    BY <1>1, <1>2, <1>3, <2>1, <2>2, <2>3, MoreLiterals
  <2>5. Count(next + 1) = Count(next) + 1 /\ HandledBefore(next + 1) = HandledBefore(next) \cup {next}
    BY <1>1, <1>3, CountIs
  <2>6. ErasedAre(next + 1, erased')
    BY <1>2, <2>1, <2>5 DEF ErasedAre
  <2>7. OperandsAre(next + 1, operand, 0)
    <3>1. \A j \in 1..((next + 1) - 1) : IsUse(j) => j \in 1..(next - 1)
      BY <1>1, <1>3 DEF IsUse
    <3>2. 1..(next - 1) \subseteq 1..((next + 1) - 1)
      BY <1>3
    <3> QED  BY <1>2, <3>1, <3>2 DEF OperandsAre
  <2>8. Interpretation'
    BY <1>1, <1>2, <2>1, SameInterpretation DEF Interpretation
  <2>9. (nextLiteral = Count(next) + 1)'
    <3>1. HandledBefore(next)' = HandledBefore(next + 1)
      BY <1>1, <2>1 DEF HandledBefore
    <3> QED  BY <1>2, <2>1, <2>5, <3>1 DEF Count
  <2>10. LiteralsAre(next, literals)' /\ ErasedAre(next, erased)' /\ OperandsAre(next, operand, 0)'
    BY <1>1, <2>1, <2>4, <2>6, <2>7, SameInterpretation
  <2>11. literals' # <<>>
    BY <1>3, <2>1, <2>2
  <2>12. Rewriting'
    BY <1>1, <2>1, <2>9, <2>10, <2>11 DEF Rewriting
  <2> QED  BY <2>8, <2>12, RewriteIInv
<1> QED  BY <1>4, <1>5

LEMMA RewriteUseRInv == RInv /\ RewriteUse => RInv'
<1> SUFFICES ASSUME RInv, RewriteUse PROVE RInv'
  OBVIOUS
<1> USE DEF RInv
<1>1. /\ status = "rewrite" /\ next <= Len(users) /\ block[users[next]].kind \notin Handled
      /\ operand' = [operand EXCEPT ![users[next]] = Len(literals)] /\ next' = next + 1
      /\ UNCHANGED <<elements, block, users, listLiterals, literals, erased, nextLiteral, status>>
  BY DEF RewriteUse, User, LatestLiteral
<1>2. /\ literals # <<>> /\ nextLiteral = Count(next) + 1 /\ LiteralsAre(next, literals) /\ ErasedAre(next, erased)
      /\ OperandsAre(next, operand, 0)
  BY <1>1 DEF Rewriting
<1>3. /\ next \in 1..Len(users) /\ Len(users) \in Nat /\ operand \in [Op -> 0..Len(literals)]
      /\ \A j \in 1..Len(users) : users[j] \in Op
      /\ \A j, k \in 1..Len(users) : j < k => users[j] # users[k]
  <2>1. users \in Seq(Op) /\ next \in 1..(Len(users) + 1) /\ operand \in [Op -> 0..Len(literals)]
    BY DEF IInv, Typed
  <2>2. UsersAre(users)
    BY <1>1 DEF IInv, UsersInOrder
  <2>3. /\ \A j \in 1..Len(users) : users[j] \in Op
        /\ \A j, k \in 1..Len(users) : j < k => users[j] # users[k]
    BY <2>1, <2>2 DEF UsersAre
  <2> QED  BY <1>1, <2>1, <2>3
<1>4. Count(next + 1) = Count(next) /\ HandledBefore(next + 1) = HandledBefore(next)
  BY <1>1, <1>3, CountIs
<1>5. LiteralsAre(next + 1, literals) /\ ErasedAre(next + 1, erased)
  BY <1>2, <1>4 DEF LiteralsAre, ErasedAre
<1>6. OperandsAre(next + 1, operand', 0)
  <2>1. ASSUME NEW j \in 1..((next + 1) - 1), IsUse(j) PROVE operand'[users[j]] = Count(j) + 1
    <3>1. CASE j = next
      <4>1. operand'[users[next]] = Len(literals)
        BY <1>1, <1>3
      <4> QED  BY <1>2, <3>1, <4>1 DEF LiteralsAre
    <3>2. CASE j # next
      <4>1. j \in 1..(next - 1) /\ j \in 1..Len(users) /\ j < next
        BY <1>3, <3>2
      <4>2. operand'[users[j]] = operand[users[j]]
        BY <1>1, <1>3, <4>1
      <4> QED  BY <1>2, <2>1, <4>1, <4>2 DEF OperandsAre
    <3> QED  BY <3>1, <3>2
  <2>2. ASSUME NEW i \in Op, \A j \in 1..((next + 1) - 1) : IsUse(j) => users[j] # i PROVE operand'[i] = 0
    <3>1. next \in 1..((next + 1) - 1) /\ IsUse(next) /\ 1..(next - 1) \subseteq 1..((next + 1) - 1)
      BY <1>1, <1>3 DEF IsUse
    <3>2. users[next] # i
      BY <2>2, <3>1
    <3>3. operand'[i] = operand[i]
      BY <1>1, <1>3, <3>2
    <3>4. \A j \in 1..(next - 1) : IsUse(j) => users[j] # i
      BY <2>2, <3>1
    <3> QED  BY <1>2, <3>3, <3>4 DEF OperandsAre
  <2> QED  BY <2>1, <2>2 DEF OperandsAre
<1>7. Interpretation'
  BY <1>1, SameInterpretation DEF Interpretation
<1>8. (nextLiteral = Count(next) + 1)'
  <2>1. HandledBefore(next)' = HandledBefore(next + 1)
    BY <1>1 DEF HandledBefore
  <2> QED  BY <1>1, <1>2, <1>4, <2>1 DEF Count
<1>9. LiteralsAre(next, literals)' /\ ErasedAre(next, erased)' /\ OperandsAre(next, operand, 0)'
  BY <1>1, <1>5, <1>6, SameInterpretation
<1>10. Rewriting'
  BY <1>1, <1>2, <1>8, <1>9 DEF Rewriting
<1> QED  BY <1>7, <1>10, RewriteIInv

LEMMA ReplaceRInv == RInv /\ ReplaceOp => RInv'
<1> SUFFICES ASSUME RInv, ReplaceOp PROVE RInv'
  OBVIOUS
<1> USE DEF RInv
<1>1. /\ status = "rewrite" /\ status' = "rewritten" /\ next > Len(users)
      /\ operand' = [i \in Op |-> ReplacedOperand(i)]
      /\ UNCHANGED <<elements, block, users, listLiterals, literals, erased, nextLiteral, next>>
  BY DEF ReplaceOp
<1>2. /\ literals # <<>> /\ nextLiteral = Count(next) + 1 /\ LiteralsAre(next, literals) /\ ErasedAre(next, erased)
      /\ OperandsAre(next, operand, 0)
  BY <1>1 DEF Rewriting
<1>3. next = Len(users) + 1 /\ Len(users) \in Nat /\ \A j \in 1..Len(users) : users[j] \in Op
  BY <1>1 DEF IInv, Typed
<1>4. OperandsAre(next, operand', Len(literals))
  <2>1. ASSUME NEW j \in 1..(next - 1), IsUse(j) PROVE operand'[users[j]] = Count(j) + 1
    <3>1. users[j] \in Op /\ j \in Nat \ {0}
      BY <1>3
    <3>2. operand[users[j]] = Count(j) + 1 /\ Count(j) \in Nat
      BY <1>2, <2>1, <3>1, CountIs DEF OperandsAre
    <3>3. operand[users[j]] # 0
      BY <3>2
    <3> QED  BY <1>1, <3>1, <3>2, <3>3 DEF ReplacedOperand
  <2>2. ASSUME NEW i \in Op, \A j \in 1..(next - 1) : IsUse(j) => users[j] # i
        PROVE  operand'[i] = IF IsUser(i) THEN Len(literals) ELSE 0
    <3>1. operand[i] = 0
      BY <1>2, <2>2 DEF OperandsAre
    <3> QED  BY <1>1, <3>1 DEF ReplacedOperand, LatestLiteral
  <2> QED  BY <2>1, <2>2 DEF OperandsAre
<1>5. Interpretation'
  BY <1>1, SameInterpretation DEF Interpretation
<1>6. (nextLiteral = Count(next) + 1)'
  <2>1. HandledBefore(next)' = HandledBefore(next)
    BY <1>1 DEF HandledBefore
  <2> QED  BY <1>1, <1>2, <2>1 DEF Count
<1>7. LiteralsAre(next, literals)' /\ ErasedAre(next, erased)' /\ OperandsAre(next, operand, Len(literals))'
  BY <1>1, <1>2, <1>4, SameInterpretation
<1>8. Rewriting'
  BY <1>1, <1>2, <1>3, <1>6, <1>7 DEF Rewriting
<1> QED  BY <1>5, <1>8, RewriteIInv

LEMMA RefineRInv == RInv /\ (RefineShape \/ UNCHANGED vars) => RInv'
<1> SUFFICES ASSUME RInv, RefineShape \/ UNCHANGED vars PROVE RInv'
  OBVIOUS
<1> USE DEF RInv
<1>1. /\ UNCHANGED <<elements, block, users, listLiterals, literals, erased, nextLiteral, next, operand, runningList, generatedNewLiteral>>
      /\ \/ status' = status
         \/ status \in {"rewritten", "failed"} /\ status' \in {"refined", "unrefined"}
  BY DEF RefineShape, vars
<1>2. HandledBefore(next)' = HandledBefore(next) /\ Count(next)' = Count(next)
  BY <1>1 DEF HandledBefore, Count
<1>3. /\ Interpreted(next)' = Interpreted(next) /\ LiteralsAre(next, literals)' = LiteralsAre(next, literals)
      /\ ErasedAre(next, erased)' = ErasedAre(next, erased)
      /\ OperandsAre(next, operand, 0)' = OperandsAre(next, operand, 0)
      /\ OperandsAre(next, operand, Len(literals))' = OperandsAre(next, operand, Len(literals))
      /\ ListAt(Count(next))' = ListAt(Count(next))
  BY <1>1, <1>2, SameInterpretation
<1>4. Interpretation'
  BY <1>1, <1>2, <1>3, SameInterpretation DEF Interpretation
<1>5. status = "failed" => literals = <<>>
  BY DEF IInv, InPhases
<1>6. Rewriting'
  BY <1>1, <1>2, <1>3, <1>5 DEF Rewriting
<1>7. IInv'
  BY RefineIInv, NextIInv
<1> QED  BY <1>4, <1>6, <1>7

LEMMA NextRInv == RInv /\ [Next]_vars => RInv'
BY UnrollRInv, SortUsersRInv, InterpretationRInv, StopRInv, RewriteMutationRInv, RewriteUseRInv, ReplaceRInv,
   RefineRInv DEF Next, Done

LEMMA RewritingInvariant == Spec => []RInv
BY InitRInv, NextRInv, PTL DEF Spec

\* A rewriting removes an op that mutates the list.
THEOREM RewritingErasesAnOp == Spec => []RewritingMakesProgress
<1>1. RInv => RewritingMakesProgress
  <2> SUFFICES ASSUME RInv, status = "rewritten" PROVE erased # {}
    BY DEF RewritingMakesProgress
  <2>1. literals # <<>> /\ next = Len(users) + 1 /\ ErasedAre(next, erased)
    BY DEF RInv, Rewriting
  <2>2. PICK m \in 1..(Len(users) + 1) : \E j \in HandledBefore(m) : ~ Stores(j)
    BY <2>1 DEF RInv, Interpretation, Stopped
  <2>3. PICK j \in HandledBefore(m) : ~ Stores(j)
    BY <2>2
  <2>4. j \in HandledBefore(next)
    BY <2>1 DEF HandledBefore, RInv, IInv, Typed
  <2> QED  BY <2>1, <2>3, <2>4 DEF ErasedAre
<1> QED  BY <1>1, RewritingInvariant, PTL

(***************************************************************************)
(* The ops of a block that can be interpreted, when they are rewritten.    *)
(***************************************************************************)
LastUser == Len(users)

\* The users are in order, and those that mutate the list are in no region.
InPlace ==
  /\ LastUser \in Nat
  /\ \A j \in 1..LastUser : users[j] \in Op /\ IsUser(users[j])
  /\ \A j \in 1..LastUser : MutatesList(users[j]) => ~ block[users[j]].nested /\ Parent(users[j]) = users[j]
  /\ \A j, k \in 1..LastUser : j < k => users[j] # users[k] /\ Parent(users[j]) <= Parent(users[k])
  /\ \A i \in Op : IsUser(i) /\ (\A j \in 1..LastUser : users[j] # i) =>
       \E t \in Op : Parent(t) <= Parent(i) /\ \A j \in 1..LastUser : Parent(users[j]) <= Parent(t)

LEMMA UsersInPlace == ASSUME IInv, status # "match" PROVE InPlace
<1>1. users \in Seq(Op) /\ UsersAre(users) /\ BlockOK
  BY DEF IInv, Typed, UsersInOrder, Static
<1>2. LastUser \in Nat /\ DOMAIN users = 1..LastUser /\ \A j \in 1..LastUser : users[j] \in Op
  BY <1>1 DEF LastUser
<1>3. \A j \in 1..LastUser : MutatesList(users[j]) => ~ block[users[j]].nested
  BY <1>1, <1>2 DEF UsersAre
<1>4. \A j \in 1..LastUser : MutatesList(users[j]) => Parent(users[j]) = users[j]
  BY <1>1, <1>2, <1>3, ParentIs
<1>5. \A j, k \in 1..LastUser : j < k => users[j] # users[k] /\ Parent(users[j]) <= Parent(users[k])
  BY <1>1, <1>2 DEF UsersAre
<1>6. ASSUME NEW i \in Op, IsUser(i), \A j \in 1..LastUser : users[j] # i
      PROVE  \E t \in Op : Parent(t) <= Parent(i) /\ \A j \in 1..LastUser : Parent(users[j]) <= Parent(t)
  BY <1>1, <1>2, <1>6 DEF UsersAre
<1>7. \A j \in 1..LastUser : IsUser(users[j])
  BY <1>1, <1>2 DEF UsersAre
<1> QED  BY <1>2, <1>3, <1>4, <1>5, <1>6, <1>7 DEF InPlace

\* The users that have a literal come in the order of the block.
LEMMA MutationsInOrder ==
  ASSUME BlockOK, InPlace, NEW j \in 1..LastUser, NEW k \in 1..LastUser, j < k,
         MutatesList(users[j])
  PROVE  users[j] < Parent(users[k])
<1>1. Parent(users[j]) = users[j] /\ users[j] <= Parent(users[k]) /\ users[j] # users[k] /\ users[j] \in Op
      /\ users[k] \in Op /\ ~ block[users[j]].nested
  BY DEF InPlace
<1>2. users[j] # Parent(users[k])
  BY <1>1, ParentDistinguishes
<1>3. Parent(users[k]) \in Int /\ users[j] \in Int
  BY <1>1, ParentIs, BlockType DEF Op
<1> QED  BY <1>1, <1>2, <1>3

LEMMA BehindAllUsers ==
  ASSUME BlockOK, InPlace, NEW i \in Op, IsUser(i), \A j \in 1..LastUser : users[j] # i,
         NEW k \in 1..LastUser, MutatesList(users[k])
  PROVE  users[k] < Parent(i)
<1>1. PICK t \in Op : Parent(t) <= Parent(i) /\ \A j \in 1..LastUser : Parent(users[j]) <= Parent(t)
  BY DEF InPlace
<1>2. Parent(users[k]) = users[k] /\ users[k] \in Op /\ users[k] # i /\ ~ block[users[k]].nested
  BY DEF InPlace
<1>3. Parent(t) \in Int /\ Parent(i) \in Int /\ users[k] \in Int
  BY <1>2, ParentIs, BlockType DEF Op
<1>4. users[k] # Parent(i)
  BY <1>2, ParentDistinguishes
<1> QED  BY <1>1, <1>2, <1>3, <1>4

\* Of the users, those that have a literal and come before op i of the block.
Before(i) == {h \in HandledBefore(LastUser + 1) : users[h] < Parent(i)}

LEMMA HandledIs ==
  ASSUME InPlace, NEW h \in HandledBefore(LastUser + 1)
  PROVE  h \in 1..LastUser /\ block[users[h]].kind \in Handled /\ MutatesList(users[h]) /\ users[h] \in Op
         /\ ~ block[users[h]].nested /\ Parent(users[h]) = users[h]
<1>1. h \in 1..LastUser /\ block[users[h]].kind \in Handled
  BY DEF HandledBefore, InPlace
<1>2. MutatesList(users[h])
  BY <1>1 DEF MutatesList, Mutating, OpKind, Handled
<1> QED  BY <1>1, <1>2 DEF InPlace

LEMMA BeforeUser ==
  ASSUME BlockOK, InPlace, NEW j \in 1..LastUser
  PROVE  Before(users[j]) = HandledBefore(j)
<1>1. ASSUME NEW h \in Before(users[j]) PROVE h \in HandledBefore(j)
  <2>1. h \in HandledBefore(LastUser + 1) /\ users[h] < Parent(users[j])
    BY DEF Before
  <2>2. h \in 1..LastUser /\ block[users[h]].kind \in Handled /\ MutatesList(users[h]) /\ users[h] \in Op /\ Parent(users[h]) = users[h]
    BY <2>1, HandledIs
  <2>3. Parent(users[j]) \in Int /\ users[h] \in Int
    BY <2>2, ParentIs, BlockType DEF Op, InPlace
  <2>4. ~ (j <= h)
    <3>1. j < h => Parent(users[j]) <= users[h]
      BY <2>2 DEF InPlace
    <3>2. j = h => Parent(users[j]) = users[h]
      BY <2>2
    <3> QED  BY <2>1, <2>2, <2>3, <3>1, <3>2
  <2> QED  BY <2>2, <2>4 DEF HandledBefore, InPlace
<1>2. ASSUME NEW h \in HandledBefore(j) PROVE h \in Before(users[j])
  <2>1. h \in HandledBefore(LastUser + 1) /\ h < j /\ h \in 1..LastUser
    BY DEF HandledBefore, InPlace
  <2>2. users[h] < Parent(users[j])
    BY <2>1, HandledIs, MutationsInOrder
  <2> QED  BY <2>1, <2>2 DEF Before
<1> QED  BY <1>1, <1>2

LEMMA BeforeOther ==
  ASSUME BlockOK, InPlace, NEW i \in Op, IsUser(i), \A j \in 1..LastUser : users[j] # i
  PROVE  Before(i) = HandledBefore(LastUser + 1)
<1>1. ASSUME NEW h \in HandledBefore(LastUser + 1) PROVE users[h] < Parent(i)
  BY HandledIs, BehindAllUsers
<1> QED  BY <1>1 DEF Before

\* Behind an op that stores the list, or that is not understood, there is no user with a literal.
LEMMA NoneBehind ==
  ASSUME BlockOK, InPlace, Interpretable, NEW j \in 1..LastUser, block[users[j]].kind \in {"store", "sort"}
  PROVE  /\ HandledBefore(LastUser + 1) = HandledBefore(j + 1)
         /\ block[users[j]].kind = "sort" => HandledBefore(LastUser + 1) = HandledBefore(j)
<1>1. MutatesList(users[j])
  BY DEF MutatesList, Mutating, OpKind, Handled
<1>2. ASSUME NEW h \in HandledBefore(LastUser + 1) PROVE h <= j
  <2>1. h \in 1..LastUser /\ block[users[h]].kind \in Handled /\ ~ block[users[h]].nested /\ users[h] \in Op
        /\ Parent(users[h]) = users[h]
    BY HandledIs
  <2>2. SUFFICES ASSUME j < h PROVE FALSE
    BY <2>1
  <2>3. users[j] < users[h]
    BY <1>1, <2>1, <2>2, MutationsInOrder
  <2>4. users[j] \in Op /\ ~ block[users[j]].nested
    BY <1>1 DEF InPlace
  <2> QED  BY <2>1, <2>3, <2>4 DEF Interpretable
<1>3. HandledBefore(LastUser + 1) = HandledBefore(j + 1)
  BY <1>2 DEF HandledBefore, InPlace
<1>4. block[users[j]].kind = "sort" => HandledBefore(j + 1) = HandledBefore(j)
  <2>1. j \in Nat \ {0}
    OBVIOUS
  <2> QED  BY <2>1, CountIs DEF Handled
<1> QED  BY <1>3, <1>4

LEMMA AllInterpreted ==
  ASSUME RInv, Interpretable, literals # <<>>
  PROVE  Interpreted(LastUser + 1)
<1>1. BlockOK /\ InPlace
  BY UsersInPlace DEF RInv, IInv, Static, InPhases
<1>2. PICK m \in 1..(LastUser + 1) : Stopped(m)
  BY DEF RInv, Interpretation, LastUser
<1>3. CASE m = LastUser + 1
  BY <1>2, <1>3 DEF Stopped
<1>4. CASE m # LastUser + 1
  <2>1. m \in 1..LastUser /\ block[users[m]].kind = "sort"
    BY <1>1, <1>2, <1>4 DEF Stopped, LastUser, InPlace
  <2>2. HandledBefore(LastUser + 1) = HandledBefore(m)
    BY <1>1, <2>1, NoneBehind
  <2> QED  BY <1>2, <2>2 DEF Stopped, Interpreted, Count
<1> QED  BY <1>3, <1>4

LEMMA LiteralIsThere == ASSUME RInv, Interpretable PROVE EveryUserHasItsLiteral
<1> SUFFICES ASSUME status = "undefined" PROVE FALSE
  BY DEF EveryUserHasItsLiteral
<1>1. /\ literals # <<>> /\ nextLiteral = Count(next) + 1 /\ next <= Len(users)
      /\ block[users[next]].kind \in Handled /\ nextLiteral > Len(listLiterals)
  BY DEF RInv, Rewriting
<1>2. Len(listLiterals) = Count(LastUser + 1)
  BY <1>1, AllInterpreted DEF Interpreted
<1>3. next \in Nat \ {0} /\ LastUser + 1 \in Nat \ {0} /\ next + 1 <= LastUser + 1
  BY <1>1 DEF RInv, IInv, Typed, LastUser
<1>4. Count(next + 1) = Count(next) + 1 /\ Count(next) \in Nat
  BY <1>1, <1>3, CountIs
<1>5. Count(next + 1) <= Count(LastUser + 1) /\ Count(LastUser + 1) \in Nat
  BY <1>3, CountGrows, CountIs
<1> QED  BY <1>1, <1>2, <1>4, <1>5

\* The state when all users have been rewritten.
Complete ==
  /\ BlockOK /\ InPlace
  /\ literals # <<>> /\ LiteralsAre(LastUser + 1, literals) /\ ErasedAre(LastUser + 1, erased)
  /\ OperandsAre(LastUser + 1, operand, Count(LastUser + 1) + 1)
  /\ Interpreted(LastUser + 1)

LEMMA FinishedIsComplete == ASSUME RInv, Interpretable, Finished PROVE Complete
<1>1. literals # <<>> /\ status \notin {"match", "rewrite", "undefined"}
  BY DEF Finished
<1>2. BlockOK /\ InPlace
  BY <1>1, UsersInPlace DEF RInv, IInv, Static
<1>3. /\ next = LastUser + 1
      /\ LiteralsAre(next, literals) /\ ErasedAre(next, erased) /\ OperandsAre(next, operand, Len(literals))
  BY <1>1 DEF RInv, Rewriting, LastUser
<1>4. Len(literals) = Count(LastUser + 1) + 1
  BY <1>3 DEF LiteralsAre
<1> QED  BY <1>1, <1>2, <1>3, <1>4, AllInterpreted DEF Complete

\* The literal that an op has.
LEMMA OperandIs ==
  ASSUME Complete, NEW i \in Op, IsUser(i), i \notin erased
  PROVE  /\ block[i].kind # "store" => operand[i] = Cardinality(Before(i)) + 1
         /\ block[i].kind = "store" => operand[i] = Count(LastUser + 1) + 1
         /\ block[i].kind = "sort" \/ (block[i].kind # "store" /\ block[i].kind \in Handled) =>
              (Interpretable => Before(i) = HandledBefore(LastUser + 1))
<1>1. BlockOK /\ InPlace /\ ErasedAre(LastUser + 1, erased) /\ OperandsAre(LastUser + 1, operand, Count(LastUser + 1) + 1)
  BY DEF Complete
<1>2. LastUser \in Nat /\ 1..((LastUser + 1) - 1) = 1..LastUser
  BY <1>1 DEF InPlace
<1>3. CASE \A j \in 1..LastUser : users[j] # i
  <2>1. Before(i) = HandledBefore(LastUser + 1)
    BY <1>1, <1>3, BeforeOther
  <2>2. operand[i] = Count(LastUser + 1) + 1
    BY <1>1, <1>2, <1>3 DEF OperandsAre
  <2> QED  BY <2>1, <2>2 DEF Count
<1>4. CASE \E j \in 1..LastUser : users[j] = i
  <2>1. PICK j \in 1..LastUser : users[j] = i
    BY <1>4
  <2>2. Before(i) = HandledBefore(j)
    BY <1>1, <2>1, BeforeUser
  <2>3. CASE IsUse(j)
    <3>1. operand[i] = Count(j) + 1 /\ block[i].kind \notin Handled
      BY <1>1, <1>2, <2>1, <2>3 DEF OperandsAre, IsUse
    <3>2. block[i].kind # "store"
      BY <3>1 DEF Handled
    <3>3. block[i].kind = "sort" /\ Interpretable => HandledBefore(LastUser + 1) = HandledBefore(j)
      BY <1>1, <2>1, NoneBehind
    <3> QED  BY <2>2, <3>1, <3>2, <3>3 DEF Count
  <2>4. CASE ~ IsUse(j)
    <3>1. j \in HandledBefore(LastUser + 1)
      BY <1>2, <2>1, <2>4 DEF IsUse, HandledBefore
    <3>2. block[i].kind = "store"
      BY <1>1, <2>1, <3>1 DEF ErasedAre, Stores
    <3>3. \A k \in 1..LastUser : IsUse(k) => users[k] # i
      BY <2>1, <2>4 DEF IsUse
    <3>4. operand[i] = Count(LastUser + 1) + 1
      BY <1>1, <1>2, <3>3 DEF OperandsAre
    <3> QED  BY <3>2, <3>4
  <2> QED  BY <2>3, <2>4
<1> QED  BY <1>3, <1>4

LEMMA LastHandled ==
  ASSUME NEW n \in Nat \ {0}, HandledBefore(n) # {}
  PROVE  \E h \in HandledBefore(n) : Count(h) + 1 = Count(n)
<1> DEFINE S == {k \in Nat : HandledBefore(k + 1) # {} =>
                    \E h \in HandledBefore(k + 1) : Count(h) + 1 = Count(k + 1)}
<1>1. 0 \in S
  BY CountIs
<1>2. ASSUME NEW k \in Nat, k \in S PROVE k + 1 \in S
  <2>1. k + 1 \in Nat \ {0}
    OBVIOUS
  <2> DEFINE m == k + 1
  <2>2. m \in Nat \ {0}
    BY <2>1
  <2>3. HandledBefore(m) # {} => \E h \in HandledBefore(m) : Count(h) + 1 = Count(m)
    BY <1>2
  <2> HIDE DEF m
  <2>4. HandledBefore(m + 1) # {} => \E h \in HandledBefore(m + 1) : Count(h) + 1 = Count(m + 1)
    <3>1. CASE block[users[m]].kind \in Handled
      BY <2>2, <3>1, CountIs
    <3>2. CASE block[users[m]].kind \notin Handled
      BY <2>2, <2>3, <3>2, CountIs
    <3> QED  BY <3>1, <3>2
  <2> QED  BY <2>4 DEF m
<1>3. Nat \subseteq S
  <2> HIDE DEF S
  <2> QED  BY <1>1, <1>2, SetInduction
<1>4. n - 1 \in S /\ (n - 1) + 1 = n
  BY <1>3
<1> QED  BY <1>4

LEMMA LiteralsDominate == ASSUME RInv, Interpretable PROVE DefinitionsDominateUses
<1> SUFFICES ASSUME Finished, NEW i \in Op, i \notin erased, operand[i] # 0
             PROVE  literals[operand[i]].before <= i
  BY DEF DefinitionsDominateUses
<1>1. Complete
  BY FinishedIsComplete
<1>2. BlockOK /\ InPlace /\ LastUser \in Nat /\ LiteralsAre(LastUser + 1, literals)
  BY <1>1 DEF Complete, InPlace
<1>3. IsUser(i)
  <2>1. OperandsAre(LastUser + 1, operand, Count(LastUser + 1) + 1)
    BY <1>1 DEF Complete
  <2>2. ~ IsUser(i) => \A j \in 1..LastUser : users[j] # i
    BY <1>2 DEF InPlace
  <2>3. 1..((LastUser + 1) - 1) = 1..LastUser
    BY <1>2
  <2> QED  BY <2>1, <2>2, <2>3 DEF OperandsAre
<1>4. i \in Nat /\ Parent(i) \in 1..i
  BY <1>2, ParentIs, BlockType DEF Op
<1>5. \A h \in HandledBefore(LastUser + 1) : users[h] \in Nat
  BY <1>2, HandledIs, BlockType
<1>6. PICK n \in 1..(LastUser + 1) : /\ operand[i] = Count(n) + 1
                                     /\ \A h \in HandledBefore(n) : users[h] <= i
  <2>1. CASE block[i].kind # "store"
    <3>1. operand[i] = Cardinality(Before(i)) + 1
      BY <1>1, <1>3, <2>1, OperandIs
    <3>2. PICK n \in 1..(LastUser + 1) : Before(i) = HandledBefore(n)
      BY <1>2, <1>3, BeforeOther, BeforeUser
    <3>3. \A h \in Before(i) : users[h] < Parent(i) /\ users[h] \in Nat
      BY <1>5 DEF Before
    <3>4. \A h \in Before(i) : users[h] <= i
      BY <1>4, <3>3
    <3> QED  BY <3>1, <3>2, <3>4 DEF Count
  <2>2. CASE block[i].kind = "store"
    <3>1. operand[i] = Count(LastUser + 1) + 1
      BY <1>1, <1>3, <2>2, OperandIs
    <3>2. CASE \A j \in 1..LastUser : users[j] # i
      <4>1. Before(i) = HandledBefore(LastUser + 1)
        BY <1>2, <1>3, <3>2, BeforeOther
      <4>2. \A h \in Before(i) : users[h] < Parent(i) /\ users[h] \in Nat
        BY <1>5 DEF Before
      <4>3. \A h \in Before(i) : users[h] <= i
        BY <1>4, <4>2
      <4> QED  BY <1>2, <3>1, <4>1, <4>3
    <3>3. CASE \E j \in 1..LastUser : users[j] = i
      <4>1. PICK j \in 1..LastUser : users[j] = i
        BY <3>3
      <4>2. HandledBefore(LastUser + 1) = HandledBefore(j + 1) /\ Before(i) = HandledBefore(j)
        BY <1>2, <2>2, <4>1, NoneBehind, BeforeUser
      <4>3. HandledBefore(j + 1) = HandledBefore(j) \cup {j}
        BY <2>2, <4>1, CountIs DEF Handled
      <4>4. \A h \in Before(i) : users[h] < Parent(i) /\ users[h] \in Nat
        BY <1>5, <4>2, <4>3 DEF Before
      <4>5. \A h \in Before(i) : users[h] <= i
        BY <1>4, <4>4
      <4>6. \A h \in HandledBefore(LastUser + 1) : users[h] <= i
        BY <1>4, <4>1, <4>2, <4>3, <4>5
      <4> QED  BY <1>2, <3>1, <4>6
    <3> QED  BY <3>2, <3>3
  <2> QED  BY <2>1, <2>2
<1>7. n \in Nat \ {0} /\ n <= LastUser + 1
  BY <1>2
<1>8. CASE HandledBefore(n) = {}
  <2>1. Count(n) = 0
    BY <1>8, FS_EmptySet DEF Count
  <2> QED  BY <1>2, <1>4, <1>6, <2>1 DEF LiteralsAre
<1>9. CASE HandledBefore(n) # {}
  <2>1. PICK h \in HandledBefore(n) : Count(h) + 1 = Count(n)
    BY <1>7, <1>9, LastHandled
  <2>2. h \in HandledBefore(LastUser + 1) /\ Count(h) \in Nat
    BY <1>2, <1>7, PositionIs DEF HandledBefore
  <2>3. literals[Count(h) + 2].before = users[h]
    BY <1>2, <2>2 DEF LiteralsAre
  <2>4. Count(h) + 2 = operand[i]
    BY <1>6, <2>1, <2>2
  <2> QED  BY <1>6, <2>3, <2>4
<1> QED  BY <1>8, <1>9

(***************************************************************************)
(* The ops of a block in the order in which they are run.                  *)
(***************************************************************************)
\* f has what the first sequences of ss are together.
IsFlattening(f, ss, n) == f = [i \in 1..n |-> IF i = 1 THEN ss[i] ELSE f[i - 1] \o ss[i]]

LEMMA FlatteningExists == ASSUME NEW ss, NEW L \in Nat PROVE \E f : IsFlattening(f, ss, L)
<1> DEFINE S == {n \in Nat : \E f : IsFlattening(f, ss, n)}
<1>1. 0 \in S
  <2> DEFINE f == [i \in 1..0 |-> ss]
  <2>1. f = [i \in 1..0 |-> IF i = 1 THEN ss[i] ELSE f[i - 1] \o ss[i]]
    OBVIOUS
  <2>2. IsFlattening(f, ss, 0)
    BY <2>1 DEF IsFlattening
  <2> HIDE DEF f
  <2> QED  BY <2>2
<1>2. ASSUME NEW n \in Nat, n \in S
      PROVE  n + 1 \in S
  <2>1. PICK f : IsFlattening(f, ss, n)
    BY <1>2
  <2>2. \A i \in 1..n : f[i] = IF i = 1 THEN ss[i] ELSE f[i - 1] \o ss[i]
    BY <2>1 DEF IsFlattening
  <2> DEFINE last == IF n + 1 = 1 THEN ss[n + 1] ELSE f[n] \o ss[n + 1]
             h == [i \in 1..(n + 1) |-> IF i = n + 1 THEN last ELSE f[i]]
  <2>3. \A i \in 1..n : h[i] = f[i]
    OBVIOUS
  <2>4. h[n + 1] = last /\ h = [i \in 1..(n + 1) |-> h[i]]
    OBVIOUS
  <2> HIDE DEF h
  <2>5. ASSUME NEW i \in 1..(n + 1)
        PROVE  h[i] = IF i = 1 THEN ss[i] ELSE h[i - 1] \o ss[i]
    <3>1. CASE i = n + 1 /\ i # 1
      <4>1. n \in 1..n /\ i - 1 = n
        BY <3>1
      <4>2. h[i - 1] = f[n]
        BY <2>3, <4>1
      <4> QED  BY <2>4, <3>1, <4>2
    <3>2. CASE i \in 1..n /\ i # 1
      <4>1. i - 1 \in 1..n
        BY <3>2
      <4>2. h[i - 1] = f[i - 1]
        BY <2>3, <4>1
      <4> QED  BY <2>2, <2>3, <3>2, <4>2
    <3>3. CASE i = 1 /\ n + 1 # 1
      <4>1. 1 \in 1..n
        BY <3>3
      <4> QED  BY <2>2, <2>3, <3>3, <4>1
    <3>4. CASE i = 1 /\ n + 1 = 1
      BY <2>4, <3>4
    <3> QED  BY <3>1, <3>2, <3>3, <3>4
  <2>6. h = [i \in 1..(n + 1) |-> IF i = 1 THEN ss[i] ELSE h[i - 1] \o ss[i]]
    BY <2>4, <2>5
  <2>7. IsFlattening(h, ss, n + 1)
    BY <2>6 DEF IsFlattening
  <2> QED  BY <2>7
<1> HIDE DEF S
<1>3. Nat \subseteq S
  BY <1>1, <1>2, SetInduction
<1> QED  BY <1>3 DEF S

LEMMA FlattenedIs ==
  ASSUME NEW ss, Len(ss) \in Nat \ {0}
  PROVE  \E f : /\ FlattenSeq(ss) = f[Len(ss)]
                /\ f[1] = ss[1]
                /\ \A i \in 2..Len(ss) : f[i] = f[i - 1] \o ss[i]
<1> DEFINE L == Len(ss)
           f == CHOOSE g : IsFlattening(g, ss, L)
<1>1. IsFlattening(f, ss, L)
  BY FlatteningExists
<1>2. FlattenSeq(ss) = f[L]
  BY DEF FlattenSeq, IsFlattening
<1> HIDE DEF f
<1>3. \A i \in 1..L : f[i] = IF i = 1 THEN ss[i] ELSE f[i - 1] \o ss[i]
  BY <1>1 DEF IsFlattening
<1>4. f[1] = ss[1]
  BY <1>3
<1>5. ASSUME NEW i \in 2..L PROVE f[i] = f[i - 1] \o ss[i]
  <2>1. L \in Nat
    OBVIOUS
  <2>2. i \in 1..L /\ i # 1
    BY <2>1
  <2> QED  BY <1>3, <2>2
<1> WITNESS f
<1> QED  BY <1>2, <1>4, <1>5

\* What a sequence of sequences is flattened to.
LEMMA FlattenIn ==
  ASSUME NEW S, NEW ss \in Seq(Seq(S))
  PROVE  FlattenSeq(ss) \in Seq(S)
<1>1. CASE Len(ss) = 0
  <2>1. ss = <<>> /\ FlattenSeq(ss) = ss
    BY <1>1 DEF FlattenSeq
  <2>2. <<>> \in Seq(S)
    OBVIOUS
  <2> QED  BY <2>1, <2>2
<1>2. CASE Len(ss) \in Nat \ {0}
  <2>1. PICK f : /\ FlattenSeq(ss) = f[Len(ss)]
                 /\ f[1] = ss[1]
                 /\ \A i \in 2..Len(ss) : f[i] = f[i - 1] \o ss[i]
    BY <1>2, FlattenedIs
  <2> DEFINE T == {n \in Nat : n + 1 \in 1..Len(ss) => f[n + 1] \in Seq(S)}
  <2>2. \A i \in 1..Len(ss) : ss[i] \in Seq(S)
    OBVIOUS
  <2>3. 0 \in T
    BY <1>2, <2>1, <2>2
  <2>4. ASSUME NEW n \in Nat, n \in T PROVE n + 1 \in T
    <3>1. SUFFICES ASSUME (n + 1) + 1 \in 1..Len(ss) PROVE f[(n + 1) + 1] \in Seq(S)
      OBVIOUS
    <3>2. n + 1 \in 1..Len(ss) /\ (n + 1) + 1 \in 2..Len(ss) /\ ((n + 1) + 1) - 1 = n + 1
      BY <3>1
    <3>3. f[n + 1] \in Seq(S) /\ ss[(n + 1) + 1] \in Seq(S)
      BY <2>2, <2>4, <3>1, <3>2
    <3>4. f[(n + 1) + 1] = f[n + 1] \o ss[(n + 1) + 1]
      BY <2>1, <3>2
    <3> QED  BY <3>3, <3>4, ConcatOfTwo
  <2>5. Nat \subseteq T
    <3> HIDE DEF T
    <3> QED  BY <2>3, <2>4, SetInduction
  <2>6. \A n \in Nat : n + 1 \in 1..Len(ss) => f[n + 1] \in Seq(S)
    BY <2>5
  <2>7. Len(ss) - 1 \in Nat /\ (Len(ss) - 1) + 1 = Len(ss) /\ Len(ss) \in 1..Len(ss)
    BY <1>2
  <2>8. f[Len(ss)] \in Seq(S)
    BY <2>6, <2>7
  <2> QED  BY <2>1, <2>8
<1> QED  BY <1>1, <1>2

Piece(b, i, trips) ==
    IF ~ b[i].nested THEN <<i>>
    ELSE IF i > 1 /\ b[i - 1].nested THEN <<>>
    ELSE FlattenSeq([t \in 1..trips |-> RegionAt(b, i)])

\* The ops in op i of the block.
Within(i) == {x \in Op : Parent(x) = i /\ block[x].nested}

LEMMA RegionIs ==
  ASSUME BlockOK, NEW i \in Op, block[i].nested, i = 1 \/ ~ block[i - 1].nested
  PROVE  RegionAt(block, i) \in Seq(Within(i))
<1>1. Len(block) \in Nat /\ i \in 1..Len(block) /\ Op = 1..Len(block) /\ ~ block[Len(block)].nested
  BY BlockType DEF Op, BlockOK
<1> DEFINE IsLast(q) == /\ \A k \in i..q : block[k].nested
                        /\ q = Len(block) \/ ~ block[q + 1].nested
           last == CHOOSE q \in i..Len(block) : IsLast(q)
<1>2. \E q \in i..Len(block) : IsLast(q)
  <2> DEFINE S == {q \in i..Len(block) : ~ block[q].nested}
  <2>1. S \subseteq Nat /\ S # {}
    BY <1>1
  <2>2. PICK x \in S : \A y \in S : x <= y
    <3> HIDE DEF S
    <3> QED  BY <2>1, LeastElement
  <2>3. x # i /\ x - 1 \in i..Len(block) /\ (x - 1) + 1 = x
    BY <1>1
  <2>4. \A k \in i..(x - 1) : block[k].nested
    BY <1>1, <2>2
  <2> QED  BY <2>3, <2>4
<1>3. last \in i..Len(block) /\ IsLast(last)
  BY <1>2
<1>4. RegionAt(block, i) = [k \in 1..(last - i + 1) |-> i + k - 1]
  BY DEF RegionAt
<1> HIDE DEF last
<1>5. ASSUME NEW x \in i..last PROVE x \in Within(i)
  <2>1. x \in Op /\ block[x].nested
    BY <1>1, <1>3
  <2>2. /\ Parent(x) \in 1..x /\ \A j \in Parent(x)..x : block[j].nested
        /\ Parent(x) = 1 \/ ~ block[Parent(x) - 1].nested
    BY <2>1, ParentIs
  <2>3. ~ (Parent(x) < i)
    <3> SUFFICES ASSUME Parent(x) < i PROVE FALSE
      OBVIOUS
    <3>1. i - 1 \in Parent(x)..x /\ i # 1
      BY <1>1, <2>2
    <3> QED  BY <2>2, <3>1
  <2>4. ~ (i < Parent(x))
    <3> SUFFICES ASSUME i < Parent(x) PROVE FALSE
      OBVIOUS
    <3>1. Parent(x) - 1 \in i..last /\ Parent(x) # 1
      BY <1>1, <1>3, <2>2
    <3> QED  BY <1>3, <2>2, <3>1
  <2>5. Parent(x) = i
    BY <1>1, <2>2, <2>3, <2>4
  <2> QED  BY <2>1, <2>5 DEF Within
<1>6. RegionAt(block, i) \in [1..(last - i + 1) -> Within(i)]
  <2>1. \A k \in 1..(last - i + 1) : i + k - 1 \in i..last
    BY <1>1, <1>3
  <2> QED  BY <1>4, <1>5, <2>1
<1>7. last - i + 1 \in Nat
  BY <1>1, <1>3
<1> QED  BY <1>6, <1>7

LEMMA PieceIs ==
  ASSUME BlockOK, NEW i \in Op, NEW trips \in Nat
  PROVE  /\ ~ block[i].nested => Piece(block, i, trips) = <<i>>
         /\ block[i].nested => Piece(block, i, trips) \in Seq(Within(i))
<1>1. CASE ~ block[i].nested
  BY <1>1 DEF Piece
<1>2. CASE block[i].nested /\ i > 1 /\ block[i - 1].nested
  <2>1. Piece(block, i, trips) = <<>>
    BY <1>2 DEF Piece
  <2> QED  BY <1>2, <2>1
<1>3. CASE block[i].nested /\ ~ (i > 1 /\ block[i - 1].nested)
  <2> DEFINE R == RegionAt(block, i)
             ss == [t \in 1..trips |-> R]
  <2>1. i \in Nat \ {0}
    BY BlockType DEF Op
  <2>2. R \in Seq(Within(i))
    BY <1>3, <2>1, RegionIs
  <2>3. Piece(block, i, trips) = FlattenSeq(ss)
    BY <1>3 DEF Piece
  <2> HIDE DEF R
  <2>4. ss \in Seq(Seq(Within(i)))
    BY <2>2
  <2> HIDE DEF ss
  <2> QED  BY <1>3, <2>3, <2>4, FlattenIn
<1> QED  BY <1>1, <1>2, <1>3

\* The ops of the block up to op n are run in their order, those that are in no region once.
IsTrace(s, n) ==
  /\ s \in Seq(Op)
  /\ \A j \in 1..Len(s) : Parent(s[j]) \in 1..n
  /\ \A j, k \in 1..Len(s) : j < k =>
       /\ Parent(s[j]) <= Parent(s[k])
       /\ Parent(s[j]) = Parent(s[k]) => block[s[j]].nested /\ block[s[k]].nested
  /\ \A i \in 1..n : ~ block[i].nested => \E j \in 1..Len(s) : s[j] = i

\* The same of the ops in op n alone.
IsPiece(t, n) ==
  /\ t \in Seq(Op)
  /\ \A j \in 1..Len(t) : Parent(t[j]) = n
  /\ \A j, k \in 1..Len(t) : j < k => block[t[j]].nested /\ block[t[k]].nested
  /\ ~ block[n].nested => \E j \in 1..Len(t) : t[j] = n

LEMMA PieceIsPiece ==
  ASSUME BlockOK, NEW i \in Op, NEW trips \in Nat
  PROVE  IsPiece(Piece(block, i, trips), i)
<1> DEFINE t == Piece(block, i, trips)
<1>1. CASE ~ block[i].nested
  <2>1. t = <<i>> /\ Parent(i) = i
    BY <1>1, PieceIs, ParentIs
  <2> HIDE DEF t
  <2>2. t \in Seq(Op) /\ Len(t) = 1 /\ t[1] = i
    BY <2>1
  <2> QED  BY <2>1, <2>2 DEF IsPiece, t
<1>2. CASE block[i].nested
  <2>1. t \in Seq(Within(i))
    BY <1>2, PieceIs
  <2> HIDE DEF t
  <2>2. \A j \in 1..Len(t) : t[j] \in Within(i)
    BY <2>1
  <2>3. \A j \in 1..Len(t) : t[j] \in Op /\ Parent(t[j]) = i /\ block[t[j]].nested
    BY <2>2 DEF Within
  <2>4. t \in Seq(Op)
    <3>1. t \in [1..Len(t) -> Op] /\ Len(t) \in Nat
      BY <2>1, <2>3
    <3> QED  BY <3>1
  <2> QED  BY <1>2, <2>3, <2>4 DEF IsPiece, t
<1> QED  BY <1>1, <1>2

LEMMA MoreTrace ==
  ASSUME NEW n \in Nat, NEW s, IsTrace(s, n), NEW t, IsPiece(t, n + 1)
  PROVE  IsTrace(s \o t, n + 1)
<1> DEFINE st == s \o t
<1>1. s \in Seq(Op) /\ t \in Seq(Op)
  BY DEF IsTrace, IsPiece
<1>2. st \in Seq(Op) /\ IsConcat(st, s, t)
  BY <1>1, ConcatOfTwo
<1> HIDE DEF st
<1>3. Len(s) \in Nat /\ Len(t) \in Nat /\ Len(st) = Len(s) + Len(t)
  BY <1>1, <1>2 DEF IsConcat
<1>4. \A j \in 1..Len(s) : st[j] = s[j] /\ Parent(st[j]) \in 1..n
  BY <1>2 DEF IsConcat, IsTrace
<1>5. \A j \in (Len(s) + 1)..Len(st) : /\ j - Len(s) \in 1..Len(t)
                                       /\ st[j] = t[j - Len(s)] /\ Parent(st[j]) = n + 1
  <2> SUFFICES ASSUME NEW j \in (Len(s) + 1)..Len(st)
               PROVE  j - Len(s) \in 1..Len(t) /\ st[j] = t[j - Len(s)] /\ Parent(st[j]) = n + 1
    OBVIOUS
  <2> DEFINE i == j - Len(s)
  <2>1. i \in 1..Len(t) /\ Len(s) + i = j
    BY <1>3
  <2> HIDE DEF i
  <2>2. st[Len(s) + i] = t[i]
    BY <1>2, <2>1 DEF IsConcat
  <2> QED  BY <2>1, <2>2 DEF IsPiece, i
<1>6. ASSUME NEW j \in 1..Len(st), NEW k \in 1..Len(st), j < k
      PROVE  /\ Parent(st[j]) <= Parent(st[k])
             /\ Parent(st[j]) = Parent(st[k]) => block[st[j]].nested /\ block[st[k]].nested
  <2>1. CASE k <= Len(s)
    <3>1. j \in 1..Len(s) /\ k \in 1..Len(s)
      BY <1>3, <1>6, <2>1
    <3> QED  BY <1>4, <1>6, <3>1 DEF IsTrace
  <2>2. CASE j <= Len(s) /\ Len(s) < k
    <3>1. j \in 1..Len(s) /\ k \in (Len(s) + 1)..Len(st)
      BY <1>3, <2>2
    <3>2. Parent(st[j]) \in 1..n /\ Parent(st[k]) = n + 1
      BY <1>4, <1>5, <3>1
    <3> QED  BY <3>2
  <2>3. CASE Len(s) < j
    <3>1. j \in (Len(s) + 1)..Len(st) /\ k \in (Len(s) + 1)..Len(st)
      BY <1>3, <1>6, <2>3
    <3>2. j - Len(s) < k - Len(s)
      BY <1>3, <1>6
    <3>3. block[st[j]].nested /\ block[st[k]].nested
      BY <1>5, <3>1, <3>2 DEF IsPiece
    <3> QED  BY <1>5, <3>1, <3>3
  <2> QED  BY <1>3, <2>1, <2>2, <2>3
<1>7. ASSUME NEW i \in 1..(n + 1), ~ block[i].nested PROVE \E j \in 1..Len(st) : st[j] = i
  <2>1. CASE i \in 1..n
    <3>1. PICK j \in 1..Len(s) : s[j] = i
      BY <1>7, <2>1 DEF IsTrace
    <3>2. j \in 1..Len(st)
      BY <1>3
    <3> QED  BY <1>4, <3>1, <3>2
  <2>2. CASE i = n + 1
    <3>1. PICK j \in 1..Len(t) : t[j] = i
      BY <1>7, <2>2 DEF IsPiece
    <3>2. Len(s) + j \in 1..Len(st) /\ st[Len(s) + j] = t[j]
      BY <1>2, <1>3 DEF IsConcat
    <3> QED  BY <3>1, <3>2
  <2> QED  BY <2>1, <2>2
<1>8. \A j \in 1..Len(st) : Parent(st[j]) \in 1..(n + 1)
  BY <1>3, <1>4, <1>5
<1> QED  BY <1>2, <1>6, <1>7, <1>8 DEF IsTrace, st

LEMMA TraceIs ==
  ASSUME BlockOK, NEW trips \in Nat
  PROVE  IsTrace(Trace(block, trips), Len(block))
<1> DEFINE L == Len(block)
           ss == [i \in DOMAIN block |-> Piece(block, i, trips)]
<1>1. L \in Nat \ {0} /\ DOMAIN block = 1..L /\ Op = 1..L
  BY BlockType DEF BlockOK, Op
<1>2. \A i \in 1..L : IsPiece(Piece(block, i, trips), i)
  BY <1>1, PieceIsPiece
<1>3. Trace(block, trips) = FlattenSeq(ss)
  BY DEF Trace, Piece
<1>4. Len(ss) = L /\ \A i \in 1..L : ss[i] = Piece(block, i, trips)
  BY <1>1
<1> HIDE DEF ss, L
<1>5. PICK f : /\ FlattenSeq(ss) = f[L]
               /\ f[1] = ss[1]
               /\ \A i \in 2..L : f[i] = f[i - 1] \o ss[i]
  BY <1>1, <1>4, FlattenedIs
<1> DEFINE T == {n \in Nat : n + 1 \in 1..L => IsTrace(f[n + 1], n + 1)}
<1>6. 0 \in T
  <2>1. SUFFICES ASSUME 1 \in 1..L PROVE IsTrace(f[1], 1)
    OBVIOUS
  <2>2. IsPiece(f[1], 1)
    BY <1>2, <1>4, <1>5, <2>1
  <2> DEFINE s == f[1]
  <2>3. IsPiece(s, 1)
    BY <2>2
  <2> HIDE DEF s
  <2>4. IsTrace(s, 1)
    <3>1. \A j \in 1..Len(s) : Parent(s[j]) = 1
      BY <2>3 DEF IsPiece
    <3>2. \A j \in 1..Len(s) : Parent(s[j]) \in 1..1
      BY <3>1
    <3>3. \A j, k \in 1..Len(s) : j < k =>
       /\ Parent(s[j]) <= Parent(s[k])
       /\ Parent(s[j]) = Parent(s[k]) => block[s[j]].nested /\ block[s[k]].nested
      BY <2>3, <3>1 DEF IsPiece
    <3>4. \A i \in 1..1 : ~ block[i].nested => \E j \in 1..Len(s) : s[j] = i
      BY <2>3 DEF IsPiece
    <3> QED  BY <2>3, <3>2, <3>3, <3>4 DEF IsTrace, IsPiece
  <2> QED  BY <2>4 DEF s
<1>7. ASSUME NEW n \in Nat, n \in T PROVE n + 1 \in T
  <2>1. SUFFICES ASSUME (n + 1) + 1 \in 1..L PROVE IsTrace(f[(n + 1) + 1], (n + 1) + 1)
    OBVIOUS
  <2> DEFINE m == n + 1
  <2>2. m \in Nat /\ m \in 1..L /\ m + 1 \in 2..L /\ m + 1 \in 1..L /\ (m + 1) - 1 = m
    BY <1>1, <2>1
  <2>3. IsTrace(f[m], m)
    BY <1>7, <2>2
  <2> HIDE DEF m
  <2>4. f[m + 1] = f[m] \o ss[m + 1]
    BY <1>5, <2>2
  <2>5. IsPiece(ss[m + 1], m + 1)
    BY <1>2, <1>4, <2>2
  <2>6. IsTrace(f[m + 1], m + 1)
    BY <2>2, <2>3, <2>4, <2>5, MoreTrace
  <2> QED  BY <2>6 DEF m
<1>8. Nat \subseteq T
  <2> HIDE DEF T
  <2> QED  BY <1>6, <1>7, SetInduction
<1>9. \A n \in Nat : n + 1 \in 1..L => IsTrace(f[n + 1], n + 1)
  BY <1>8
<1>10. L - 1 \in Nat /\ (L - 1) + 1 = L /\ L \in 1..L
  BY <1>1
<1>11. IsTrace(f[L], L)
  BY <1>9, <1>10
<1> QED  BY <1>3, <1>5, <1>11 DEF L

(***************************************************************************)
(* The lists before each step.                                             *)
(***************************************************************************)
\* The lists when op i has been run.
Stepped(b, i, use, heap, gone) ==
  IF i \in gone \/ b[i].kind = "fetch" THEN heap ELSE [heap EXCEPT ![use[i]] = After(b[i], @)]

IsRun(f, b, trace, use, lists, gone, n) ==
  f = [j \in 1..n |-> IF j = 1 THEN lists ELSE Stepped(b, trace[j - 1], use, f[j - 1], gone)]

LEMMA RunExists ==
  ASSUME NEW b, NEW trace, NEW use, NEW lists, NEW gone, NEW L \in Nat
  PROVE  \E f : IsRun(f, b, trace, use, lists, gone, L)
<1> DEFINE S == {n \in Nat : \E f : IsRun(f, b, trace, use, lists, gone, n)}
<1>1. 0 \in S
  <2> DEFINE f == [i \in 1..0 |-> lists]
  <2>1. f = [j \in 1..0 |-> IF j = 1 THEN lists ELSE Stepped(b, trace[j - 1], use, f[j - 1], gone)]
    OBVIOUS
  <2>2. IsRun(f, b, trace, use, lists, gone, 0)
    BY <2>1 DEF IsRun
  <2> HIDE DEF f
  <2> QED  BY <2>2
<1>2. ASSUME NEW n \in Nat, n \in S
      PROVE  n + 1 \in S
  <2>1. PICK f : IsRun(f, b, trace, use, lists, gone, n)
    BY <1>2
  <2>2. \A j \in 1..n : f[j] = IF j = 1 THEN lists ELSE Stepped(b, trace[j - 1], use, f[j - 1], gone)
    BY <2>1 DEF IsRun
  <2> DEFINE last == IF n + 1 = 1 THEN lists ELSE Stepped(b, trace[n], use, f[n], gone)
             h == [i \in 1..(n + 1) |-> IF i = n + 1 THEN last ELSE f[i]]
  <2>3. \A i \in 1..n : h[i] = f[i]
    OBVIOUS
  <2>4. h[n + 1] = last /\ h = [i \in 1..(n + 1) |-> h[i]]
    OBVIOUS
  <2> HIDE DEF h
  <2>5. ASSUME NEW i \in 1..(n + 1)
        PROVE  h[i] = IF i = 1 THEN lists ELSE Stepped(b, trace[i - 1], use, h[i - 1], gone)
    <3>1. CASE i = n + 1 /\ i # 1
      <4>1. n \in 1..n /\ i - 1 = n
        BY <3>1
      <4>2. h[i - 1] = f[n]
        BY <2>3, <4>1
      <4> QED  BY <2>4, <3>1, <4>1, <4>2
    <3>2. CASE i \in 1..n /\ i # 1
      <4>1. i - 1 \in 1..n
        BY <3>2
      <4>2. h[i - 1] = f[i - 1]
        BY <2>3, <4>1
      <4> QED  BY <2>2, <2>3, <3>2, <4>2
    <3>3. CASE i = 1 /\ n + 1 # 1
      <4>1. 1 \in 1..n
        BY <3>3
      <4> QED  BY <2>2, <2>3, <3>3, <4>1
    <3>4. CASE i = 1 /\ n + 1 = 1
      BY <2>4, <3>4
    <3> QED  BY <3>1, <3>2, <3>3, <3>4
  <2>6. h = [j \in 1..(n + 1) |-> IF j = 1 THEN lists ELSE Stepped(b, trace[j - 1], use, h[j - 1], gone)]
    BY <2>4, <2>5
  <2>7. IsRun(h, b, trace, use, lists, gone, n + 1)
    BY <2>6 DEF IsRun
  <2> QED  BY <2>7
<1> HIDE DEF S
<1>3. Nat \subseteq S
  BY <1>1, <1>2, SetInduction
<1> QED  BY <1>3 DEF S

LEMMA RunIs ==
  ASSUME NEW b, NEW trace, Len(trace) \in Nat, NEW use, NEW lists, NEW gone
  PROVE  LET run == Run(b, trace, use, lists, gone)
         IN  /\ run[1] = lists
             /\ \A j \in 1..Len(trace) : run[j + 1] = Stepped(b, trace[j], use, run[j], gone)
<1> DEFINE L == Len(trace) + 1
           f == CHOOSE g : IsRun(g, b, trace, use, lists, gone, L)
<1>1. L \in Nat \ {0}
  OBVIOUS
<1>2. IsRun(f, b, trace, use, lists, gone, L)
  <2> HIDE DEF L
  <2> QED  BY <1>1, RunExists
<1>3. Run(b, trace, use, lists, gone) = f
  BY DEF Run, IsRun, Stepped
<1> HIDE DEF f
<1>4. \A j \in 1..L : f[j] = IF j = 1 THEN lists ELSE Stepped(b, trace[j - 1], use, f[j - 1], gone)
  BY <1>2 DEF IsRun
<1>5. f[1] = lists
  BY <1>1, <1>4
<1>6. ASSUME NEW j \in 1..Len(trace) PROVE f[j + 1] = Stepped(b, trace[j], use, f[j], gone)
  <2>1. j + 1 \in 1..L /\ j + 1 # 1 /\ (j + 1) - 1 = j
    OBVIOUS
  <2> DEFINE k == j + 1
  <2>2. k \in 1..L /\ k # 1 /\ k - 1 = j
    BY <2>1
  <2> HIDE DEF k, L
  <2>3. f[k] = Stepped(b, trace[k - 1], use, f[k - 1], gone)
    BY <1>4, <2>2
  <2> QED  BY <2>2, <2>3 DEF k
<1> QED  BY <1>3, <1>5, <1>6

LEMMA SteppedDomain ==
  ASSUME NEW b, NEW i, NEW use, NEW heap, NEW gone
  PROVE  DOMAIN Stepped(b, i, use, heap, gone) = DOMAIN heap
BY DEF Stepped

\* What becomes of list l.
LEMMA SteppedIs ==
  ASSUME NEW b, NEW i, NEW use, NEW heap, NEW gone, NEW l \in DOMAIN heap
  PROVE  /\ i \in gone \/ b[i].kind = "fetch" \/ use[i] # l => Stepped(b, i, use, heap, gone)[l] = heap[l]
         /\ i \notin gone /\ b[i].kind # "fetch" /\ use[i] = l =>
              Stepped(b, i, use, heap, gone)[l] = After(b[i], heap[l])
BY DEF Stepped

(***************************************************************************)
(* Before every step, the literal for the users that have been run holds   *)
(* what the list did.                                                      *)
(***************************************************************************)
Total == Count(LastUser + 1)

\* The users with a literal that are run before step j of a trace.
RunBefore(tr, j) == {h \in HandledBefore(LastUser + 1) : \E k \in 1..(j - 1) : tr[k] = users[h]}

HasLiteral(i) == \E h \in HandledBefore(LastUser + 1) : users[h] = i

\* The list is mutated by ops that are left.
IsLeft(i) == IsUser(i) /\ MutatesList(i) /\ ~ HasLiteral(i)
Changed(tr, j) == \E k \in 1..(j - 1) : IsLeft(tr[k])

LEMMA ErasedHaveLiterals ==
  ASSUME Complete, NEW i \in Op
  PROVE  i \in erased <=> HasLiteral(i) /\ block[i].kind # "store"
BY DEF Complete, ErasedAre, HasLiteral, Stores

LEMMA RunBeforeIs ==
  ASSUME Complete, NEW tr, IsTrace(tr, Len(block)), NEW j \in 1..Len(tr)
  PROVE  RunBefore(tr, j) = Before(tr[j])
<1>1. BlockOK /\ InPlace /\ tr \in Seq(Op) /\ Len(tr) \in Nat /\ tr[j] \in Op
  BY DEF Complete, IsTrace
<1>2. \A k \in 1..Len(tr) : tr[k] \in Op /\ Parent(tr[k]) \in Int
  BY <1>1, ParentIs, BlockType DEF Op
<1>3. ASSUME NEW h \in RunBefore(tr, j) PROVE h \in Before(tr[j])
  <2>1. h \in HandledBefore(LastUser + 1)
    BY DEF RunBefore
  <2>2. PICK k \in 1..(j - 1) : tr[k] = users[h]
    BY DEF RunBefore
  <2>3. k \in 1..Len(tr) /\ k < j
    BY <1>1
  <2>4. ~ block[users[h]].nested /\ Parent(users[h]) = users[h]
    BY <1>1, <2>1, HandledIs
  <2>5. Parent(tr[k]) <= Parent(tr[j]) /\ Parent(tr[k]) # Parent(tr[j])
    BY <2>2, <2>3, <2>4 DEF IsTrace
  <2> QED  BY <1>2, <2>1, <2>2, <2>3, <2>4, <2>5 DEF Before
<1>4. ASSUME NEW h \in Before(tr[j]) PROVE h \in RunBefore(tr, j)
  <2>1. h \in HandledBefore(LastUser + 1) /\ users[h] < Parent(tr[j])
    BY DEF Before
  <2>2. users[h] \in Op /\ ~ block[users[h]].nested /\ Parent(users[h]) = users[h]
    BY <1>1, <2>1, HandledIs
  <2>3. PICK k \in 1..Len(tr) : tr[k] = users[h]
    BY <2>2 DEF IsTrace, Op
  <2>4. k < j
    <3>1. ~ (j < k)
      <4>1. j < k => Parent(tr[j]) <= Parent(tr[k])
        BY DEF IsTrace
      <4> QED  BY <1>2, <2>1, <2>2, <2>3, <4>1
    <3>2. k # j
      BY <1>2, <2>1, <2>2, <2>3
    <3> QED  BY <3>1, <3>2
  <2> QED  BY <2>1, <2>3, <2>4 DEF RunBefore
<1> QED  BY <1>3, <1>4

\* When the list is changed by an op that is left, all literals are behind the ops they are for.
LEMMA LeftIsBehind ==
  ASSUME Complete, Interpretable, NEW i \in Op, IsLeft(i)
  PROVE  /\ Before(i) = HandledBefore(LastUser + 1)
         /\ i \notin erased /\ block[i].kind # "fetch"
         /\ operand[i] = Total + 1
<1>1. BlockOK /\ InPlace /\ IsUser(i) /\ i \notin erased /\ block[i].kind # "fetch"
  BY ErasedHaveLiterals DEF Complete, IsLeft, IsUser
<1>2. LastUser \in Nat
  BY <1>1 DEF InPlace
<1>3. CASE \A j \in 1..LastUser : users[j] # i
  <2>1. Before(i) = HandledBefore(LastUser + 1)
    BY <1>1, <1>3, BeforeOther
  <2> QED  BY <1>1, <2>1, OperandIs DEF Total, Count
<1>4. CASE \E j \in 1..LastUser : users[j] = i
  <2>1. PICK j \in 1..LastUser : users[j] = i
    BY <1>4
  <2>2. block[i].kind \notin Handled
    BY <1>2, <2>1 DEF IsLeft, HasLiteral, HandledBefore
  <2>3. block[i].kind = "sort"
    BY <2>2 DEF IsLeft, MutatesList, Mutating, OpKind
  <2> QED  BY <1>1, <2>3, OperandIs DEF Total, Count
<1> QED  BY <1>3, <1>4

\* The simulation: old and new are the lists before the steps.
SimulatedAt(tr, old, new, j) ==
  LET c == Cardinality(RunBefore(tr, j)) IN
  /\ new[j][c + 1] = old[j][0]
  /\ ~ Changed(tr, j) => /\ old[j][0] = ListAt(c)
                         /\ \A l \in 1..(Total + 1) : new[j][l] = ListAt(l - 1)
  /\ Changed(tr, j) => RunBefore(tr, j) = HandledBefore(LastUser + 1)

\* What a step does to the lists.
IsStep(tr, old, new, j) ==
  LET i == tr[j] IN
  /\ old[j + 1][0] = IF IsUser(i) THEN After(block[i], old[j][0]) ELSE old[j][0]
  /\ \A l \in 1..(Total + 1) :
       new[j + 1][l] = IF i \notin erased /\ IsUser(i) /\ operand[i] = l THEN After(block[i], new[j][l]) ELSE new[j][l]

LEMMA NothingIsChanged ==
  ASSUME NEW o, NEW list, o.kind \in {"store", "read", "fetch"}
  PROVE  After(o, list) = list
BY DEF After

LEMMA TotalIs ==
  ASSUME Complete
  PROVE  /\ Total \in Nat /\ Total = Cardinality(HandledBefore(LastUser + 1))
         /\ IsFiniteSet(HandledBefore(LastUser + 1)) /\ LastUser \in Nat
<1>1. LastUser \in Nat
  BY DEF Complete, InPlace
<1> QED  BY <1>1, CountIs DEF Total, Count

\* A step of a user that has a literal.
LEMMA LiteralStep ==
  ASSUME Complete, Interpretable, NEW tr, IsTrace(tr, Len(block)), NEW old, NEW new,
         NEW j \in 1..Len(tr), SimulatedAt(tr, old, new, j), IsStep(tr, old, new, j), HasLiteral(tr[j])
  PROVE  SimulatedAt(tr, old, new, j + 1)
<1> DEFINE i == tr[j]
           H == HandledBefore(LastUser + 1)
           E == RunBefore(tr, j)
<1>1. PICK h \in H : users[h] = i
  BY DEF HasLiteral
<1>2. BlockOK /\ InPlace /\ Total \in Nat /\ IsFiniteSet(H) /\ LastUser \in Nat /\ Total = Cardinality(H)
  BY TotalIs DEF Complete
<1>3. h \in 1..LastUser /\ h \in Nat \ {0} /\ block[i].kind \in Handled /\ i \in Op
  BY <1>1, <1>2, HandledIs
<1>4. E = HandledBefore(h) /\ Cardinality(E) = Count(h)
  BY <1>1, <1>2, <1>3, RunBeforeIs, BeforeUser DEF Count
<1> PICK c \in Nat : c = Count(h)
  BY <1>3, CountIs
<1>5. h \notin E
  BY <1>4 DEF HandledBefore
<1>6. RunBefore(tr, j + 1) = E \cup {h}
  <2>1. \A k \in 1..((j + 1) - 1) : k \in 1..(j - 1) \/ k = j
    OBVIOUS
  <2>2. j \in 1..((j + 1) - 1) /\ 1..(j - 1) \subseteq 1..((j + 1) - 1)
    OBVIOUS
  <2>3. \A g \in H : users[g] = i => g = h
    <3>1. \A g \in H : g \in 1..LastUser
      BY <1>2, HandledIs
    <3>2. \A g \in 1..LastUser : g < h => users[g] # users[h]
      BY <1>2, <1>3 DEF InPlace
    <3>3. \A g \in 1..LastUser : h < g => users[g] # users[h]
      BY <1>2, <1>3 DEF InPlace
    <3> QED  BY <1>1, <1>2, <1>3, <3>1, <3>2, <3>3
  <2> QED  BY <1>1, <2>1, <2>2, <2>3 DEF RunBefore
<1>7. IsFiniteSet(E) /\ Cardinality(E) = c
  BY <1>2, <1>4, FS_Subset DEF RunBefore
<1>8. Cardinality(RunBefore(tr, j + 1)) = c + 1
  BY <1>5, <1>6, <1>7, FS_AddElement
<1>9. ~ Changed(tr, j) /\ ~ Changed(tr, j + 1)
  <2>1. ~ Changed(tr, j)
    BY <1>1, <1>5 DEF SimulatedAt
  <2>2. \A k \in 1..((j + 1) - 1) : k \in 1..(j - 1) \/ k = j
    OBVIOUS
  <2>3. ~ IsLeft(i)
    BY DEF IsLeft
  <2> QED  BY <2>1, <2>2, <2>3 DEF Changed
<1>10. old[j][0] = ListAt(c) /\ \A l \in 1..(Total + 1) : new[j][l] = ListAt(l - 1)
  BY <1>7, <1>9 DEF SimulatedAt
<1>11. ListAt(c + 1) = After(block[i], ListAt(c))
  BY <1>1 DEF Complete, Interpreted
<1>12. IsUser(i)
  BY <1>3 DEF IsUser, Handled
<1>13. old[j + 1][0] = ListAt(c + 1)
  BY <1>10, <1>11, <1>12 DEF IsStep
<1>14. ASSUME NEW l \in 1..(Total + 1) PROVE new[j + 1][l] = ListAt(l - 1)
  <2>1. i \in erased \/ block[i].kind = "store"
    BY <1>3, ErasedHaveLiterals
  <2>2. i \in erased \/ After(block[i], new[j][l]) = new[j][l]
    BY <2>1, NothingIsChanged
  <2> QED  BY <1>10, <2>2 DEF IsStep
<1>15. c + 2 \in 1..(Total + 1) /\ (c + 2) - 1 = c + 1 /\ (c + 1) + 1 = c + 2
  <2>1. Count(h) < Count(LastUser + 1)
    BY <1>1, <1>2, PositionIs
  <2> QED  BY <1>2, <2>1 DEF Total
<1>16. new[j + 1][(c + 1) + 1] = old[j + 1][0]
  <2>1. new[j + 1][c + 2] = ListAt((c + 2) - 1)
    BY <1>14, <1>15
  <2> QED  BY <1>13, <1>15, <2>1
<1> QED  BY <1>8, <1>9, <1>13, <1>14, <1>16 DEF SimulatedAt

\* A step of an op that changes the list and is left, and a step that does not change it.
LEMMA OtherStep ==
  ASSUME Complete, Interpretable, NEW tr, IsTrace(tr, Len(block)), NEW old, NEW new,
         NEW j \in 1..Len(tr), SimulatedAt(tr, old, new, j), IsStep(tr, old, new, j), ~ HasLiteral(tr[j])
  PROVE  SimulatedAt(tr, old, new, j + 1)
<1> DEFINE i == tr[j]
           H == HandledBefore(LastUser + 1)
           E == RunBefore(tr, j)
<1>1. i \in Op
  BY DEF IsTrace
<1>2. BlockOK /\ InPlace /\ Total \in Nat /\ IsFiniteSet(H) /\ LastUser \in Nat /\ Total = Cardinality(H)
  BY TotalIs DEF Complete
<1>3. RunBefore(tr, j + 1) = E
  <2>1. \A k \in 1..((j + 1) - 1) : k \in 1..(j - 1) \/ k = j
    OBVIOUS
  <2>2. 1..(j - 1) \subseteq 1..((j + 1) - 1)
    OBVIOUS
  <2>3. \A g \in H : users[g] # i
    BY DEF HasLiteral
  <2> QED  BY <2>1, <2>2, <2>3 DEF RunBefore
<1>4. Changed(tr, j + 1) <=> Changed(tr, j) \/ IsLeft(i)
  <2>1. \A k \in 1..((j + 1) - 1) : k \in 1..(j - 1) \/ k = j
    OBVIOUS
  <2>2. j \in 1..((j + 1) - 1) /\ 1..(j - 1) \subseteq 1..((j + 1) - 1)
    OBVIOUS
  <2> QED  BY <2>1, <2>2 DEF Changed
<1> PICK c \in Nat : c = Cardinality(E)
  BY <1>2, FS_Subset, FS_CardinalityType DEF RunBefore
<1>5. c <= Total
  BY <1>2, FS_Subset DEF RunBefore
<1>6. c + 1 \in 1..(Total + 1)
  BY <1>2, <1>5
<1>7. CASE IsLeft(i)
  <2>1. E = H /\ i \notin erased /\ IsUser(i) /\ operand[i] = Total + 1 /\ c = Total
    BY <1>1, <1>2, <1>7, LeftIsBehind, RunBeforeIs DEF IsLeft
  <2>2. new[j + 1][c + 1] = After(block[i], new[j][c + 1])
    BY <1>6, <2>1 DEF IsStep
  <2>3. old[j + 1][0] = After(block[i], old[j][0])
    BY <2>1 DEF IsStep
  <2>4. new[j][c + 1] = old[j][0]
    BY DEF SimulatedAt
  <2> QED  BY <1>3, <1>4, <1>7, <2>1, <2>2, <2>3, <2>4 DEF SimulatedAt
<1>8. CASE ~ IsLeft(i)
  <2>1. ~ IsUser(i) \/ block[i].kind = "read"
    <3>1. block[i].kind \in OpKind
      BY <1>1, <1>2, BlockType DEF OpIR
    <3> QED  BY <1>8, <3>1 DEF IsLeft, IsUser, MutatesList, Mutating, OpKind
  <2>2. \A list : IsUser(i) => After(block[i], list) = list
    BY <2>1, NothingIsChanged
  <2>3. old[j + 1][0] = old[j][0] /\ \A l \in 1..(Total + 1) : new[j + 1][l] = new[j][l]
    BY <2>2 DEF IsStep
  <2>4. Cardinality(RunBefore(tr, j + 1)) = c /\ (Changed(tr, j + 1) <=> Changed(tr, j))
    BY <1>3, <1>4, <1>8
  <2>5. new[j + 1][c + 1] = old[j + 1][0]
    BY <1>6, <2>3 DEF SimulatedAt
  <2>6. ~ Changed(tr, j) => /\ old[j + 1][0] = ListAt(c)
                            /\ \A l \in 1..(Total + 1) : new[j + 1][l] = ListAt(l - 1)
    BY <2>3 DEF SimulatedAt
  <2>7. Changed(tr, j) => RunBefore(tr, j + 1) = H
    BY <1>3 DEF SimulatedAt
  <2> QED  BY <2>4, <2>5, <2>6, <2>7 DEF SimulatedAt
<1> QED  BY <1>7, <1>8

LEMMA ListsAreSimulated ==
  ASSUME Complete, Interpretable, NEW trips \in Nat, NEW tr, tr = Trace(block, trips)
  PROVE  /\ IsTrace(tr, Len(block)) /\ Len(tr) \in Nat
         /\ \A j \in 1..Len(tr) : /\ IsStep(tr, Original(block, tr), Rewritten(tr), j)
                                  /\ SimulatedAt(tr, Original(block, tr), Rewritten(tr), j)
         /\ SimulatedAt(tr, Original(block, tr), Rewritten(tr), Len(tr) + 1)
<1> DEFINE old == Original(block, tr)
           new == Rewritten(tr)
           oldLists == [l \in {0} |-> elements]
           newLists == [l \in 0..Len(literals) |-> IF l = 0 THEN elements ELSE literals[l].contents]
<1>1. BlockOK /\ InPlace /\ LiteralsAre(LastUser + 1, literals) /\ Total \in Nat /\ Len(literals) = Total + 1
  BY TotalIs DEF Complete, LiteralsAre, Total
<1>2. IsTrace(tr, Len(block))
  BY <1>1, TraceIs
<1>3. Len(tr) \in Nat /\ \A j \in 1..Len(tr) : tr[j] \in Op
  BY <1>2 DEF IsTrace
<1>4. old[1] = oldLists /\ \A j \in 1..Len(tr) : old[j + 1] = Stepped(block, tr[j], NoUse(block), old[j], {})
  BY <1>3, RunIs DEF Original
<1>5. new[1] = newLists /\ \A j \in 1..Len(tr) : new[j + 1] = Stepped(block, tr[j], operand, new[j], erased)
  BY <1>3, RunIs DEF Rewritten
<1> HIDE DEF old, new
<1>6. \A i \in Op : NoUse(block)[i] = 0
  BY <1>1 DEF NoUse, BlockOK, Op
<1>7. DOMAIN old[1] = {0} /\ DOMAIN new[1] = 0..(Total + 1) /\ old[1][0] = elements
      /\ \A l \in 1..(Total + 1) : new[1][l] = ListAt(l - 1)
  <2>1. \A l \in 1..(Total + 1) : l \in 0..Len(literals) /\ l # 0 /\ literals[l].contents = ListAt(l - 1)
    BY <1>1 DEF LiteralsAre
  <2> QED  BY <1>1, <1>4, <1>5, <2>1
<1> DEFINE Typ(j) == DOMAIN old[j] = {0} /\ DOMAIN new[j] = 0..(Total + 1)
<1>8. ASSUME NEW j \in 1..Len(tr), Typ(j)
      PROVE  Typ(j + 1) /\ IsStep(tr, old, new, j)
  <2> DEFINE i == tr[j]
             h == old[j]
             g == new[j]
  <2>1. i \in Op
    BY <1>3
  <2>2. old[j + 1] = Stepped(block, i, NoUse(block), h, {}) /\ new[j + 1] = Stepped(block, i, operand, g, erased)
    BY <1>4, <1>5
  <2>3. NoUse(block)[i] = 0
    BY <1>6, <2>1
  <2>4. DOMAIN h = {0} /\ DOMAIN g = 0..(Total + 1)
    BY <1>8
  <2> HIDE DEF h, g, i
  <2>5. DOMAIN Stepped(block, i, NoUse(block), h, {}) = {0}
    BY <2>4, SteppedDomain
  <2>6. Stepped(block, i, NoUse(block), h, {})[0] = IF IsUser(i) THEN After(block[i], h[0]) ELSE h[0]
    <3>1. 0 \in DOMAIN h /\ i \notin {}
      BY <2>4
    <3> QED  BY <2>3, <3>1, SteppedIs DEF IsUser
  <2>7. DOMAIN Stepped(block, i, operand, g, erased) = 0..(Total + 1)
    BY <2>4, SteppedDomain
  <2>8. ASSUME NEW l \in 1..(Total + 1)
        PROVE  Stepped(block, i, operand, g, erased)[l]
                 = IF i \notin erased /\ IsUser(i) /\ operand[i] = l THEN After(block[i], g[l]) ELSE g[l]
    <3>1. l \in DOMAIN g
      BY <1>1, <2>4
    <3> QED  BY <3>1, SteppedIs DEF IsUser
  <2>9. Typ(j + 1)
    BY <2>2, <2>5, <2>7
  <2>10. IsStep(tr, old, new, j)
    BY <2>2, <2>6, <2>8 DEF IsStep, h, g, i
  <2> QED  BY <2>9, <2>10
<1>9. SimulatedAt(tr, old, new, 1)
  <2>1. RunBefore(tr, 1) = {} /\ ~ Changed(tr, 1)
    BY DEF RunBefore, Changed
  <2>2. Cardinality(RunBefore(tr, 1)) = 0
    BY <2>1, FS_EmptySet
  <2>3. old[1][0] = ListAt(0)
    BY <1>7 DEF ListAt
  <2>4. 1 \in 1..(Total + 1)
    BY <1>1
  <2>5. new[1][0 + 1] = ListAt(0)
    BY <1>7, <2>4
  <2> QED  BY <1>7, <2>1, <2>2, <2>3, <2>5 DEF SimulatedAt
<1> DEFINE S == {n \in Nat : n + 1 \in 1..(Len(tr) + 1) => Typ(n + 1) /\ SimulatedAt(tr, old, new, n + 1)}
<1> HIDE DEF Typ
<1>10. 0 \in S
  BY <1>7, <1>9 DEF Typ
<1>11. ASSUME NEW n \in Nat, n \in S PROVE n + 1 \in S
  <2>1. SUFFICES ASSUME (n + 1) + 1 \in 1..(Len(tr) + 1)
                 PROVE  Typ((n + 1) + 1) /\ SimulatedAt(tr, old, new, (n + 1) + 1)
    OBVIOUS
  <2> DEFINE j == n + 1
  <2>2. j \in 1..Len(tr) /\ j \in 1..(Len(tr) + 1)
    BY <1>3, <2>1
  <2>3. Typ(j) /\ SimulatedAt(tr, old, new, j)
    BY <1>11, <2>2
  <2> HIDE DEF j
  <2>4. Typ(j + 1) /\ IsStep(tr, old, new, j)
    BY <1>8, <2>2, <2>3
  <2>5. SimulatedAt(tr, old, new, j + 1)
    BY <1>2, <2>2, <2>3, <2>4, LiteralStep, OtherStep
  <2> QED  BY <2>4, <2>5 DEF j
<1>12. Nat \subseteq S
  <2> HIDE DEF S
  <2> QED  BY <1>10, <1>11, SetInduction
<1>13. ASSUME NEW j \in 1..(Len(tr) + 1) PROVE Typ(j) /\ SimulatedAt(tr, old, new, j)
  <2>1. \A n \in Nat : n + 1 \in 1..(Len(tr) + 1) => Typ(n + 1) /\ SimulatedAt(tr, old, new, n + 1)
    BY <1>12
  <2>2. j - 1 \in Nat /\ (j - 1) + 1 = j
    BY <1>3
  <2> QED  BY <2>1, <2>2
<1>14. \A j \in 1..Len(tr) : IsStep(tr, old, new, j) /\ SimulatedAt(tr, old, new, j)
  BY <1>3, <1>8, <1>13
<1>15. SimulatedAt(tr, old, new, Len(tr) + 1)
  BY <1>3, <1>13
<1> QED  BY <1>2, <1>3, <1>14, <1>15 DEF old, new

\* Readers of the other list read the last literal when the list has been stored.
LEMMA StoredIsLast ==
  ASSUME Complete, Interpretable, NEW tr, IsTrace(tr, Len(block)), NEW j \in 1..Len(tr),
         Stored(tr, NoUse(block), j) # -1
  PROVE  Stored(tr, operand, j) = Total + 1 /\ RunBefore(tr, j) = HandledBefore(LastUser + 1)
<1> DEFINE stores == {k \in 1..(j - 1) : block[tr[k]].kind = "store"}
           x == CHOOSE k \in stores : \A l \in stores : l <= k
<1>1. stores # {}
  BY DEF Stored
<1>2. Stored(tr, operand, j) = operand[tr[x]]
  BY <1>1 DEF Stored
<1>3. x \in stores
  <2> DEFINE S == {n \in Nat : j - n \in stores}
  <2>1. S # {} /\ S \subseteq Nat
    <3>1. PICK k \in stores : TRUE
      BY <1>1
    <3>2. j - k \in Nat /\ j - (j - k) = k
      OBVIOUS
    <3> QED  BY <3>2
  <2>2. PICK n \in S : \A m \in S : n <= m
    <3> HIDE DEF S
    <3> QED  BY <2>1, LeastElement
  <2>3. j - n \in stores
    OBVIOUS
  <2>4. ASSUME NEW l \in stores PROVE l <= j - n
    <3>1. j - l \in Nat /\ j - (j - l) = l
      OBVIOUS
    <3>2. n <= j - l
      BY <2>2, <3>1
    <3> QED  BY <3>1, <3>2
  <2> HIDE DEF stores
  <2> QED  BY <2>3, <2>4
<1> HIDE DEF x
<1> DEFINE s == tr[x]
<1>4. x \in 1..Len(tr) /\ x < j /\ s \in Op /\ block[s].kind = "store"
  BY <1>3 DEF IsTrace
<1>5. BlockOK /\ InPlace /\ IsUser(s) /\ s \notin erased
  BY <1>4, ErasedHaveLiterals DEF Complete, IsUser
<1>6. operand[s] = Total + 1
  BY <1>4, <1>5, OperandIs DEF Total
<1>7. RunBefore(tr, x) = Before(s) /\ RunBefore(tr, x) \subseteq RunBefore(tr, j)
  <2>1. 1..(x - 1) \subseteq 1..(j - 1)
    BY <1>4
  <2> QED  BY <1>4, <2>1, RunBeforeIs DEF RunBefore
<1>8. HandledBefore(LastUser + 1) \subseteq RunBefore(tr, j)
  <2>1. CASE \A k \in 1..LastUser : users[k] # s
    BY <1>4, <1>5, <1>7, <2>1, BeforeOther
  <2>2. CASE \E k \in 1..LastUser : users[k] = s
    <3>1. PICK k \in 1..LastUser : users[k] = s
      BY <2>2
    <3>2. HandledBefore(LastUser + 1) = HandledBefore(k + 1) /\ Before(s) = HandledBefore(k)
      BY <1>4, <1>5, <3>1, NoneBehind, BeforeUser
    <3>3. HandledBefore(k + 1) = HandledBefore(k) \cup {k}
      <4>1. k \in Nat \ {0} /\ block[users[k]].kind \in Handled
        BY <1>4, <3>1 DEF Handled
      <4> QED  BY <4>1, CountIs
    <3>4. x \in 1..(j - 1)
      BY <1>3
    <3>5. k \in RunBefore(tr, j)
      BY <3>1, <3>2, <3>3, <3>4 DEF RunBefore
    <3> QED  BY <1>7, <3>2, <3>3, <3>5
  <2> QED  BY <2>1, <2>2
<1> QED  BY <1>2, <1>6, <1>8 DEF RunBefore

LEMMA ListsAreTheSame ==
  ASSUME RInv, Interpretable, Finished, NEW trips \in Nat
  PROVE  Same(Trace(block, trips))
<1> DEFINE tr == Trace(block, trips)
           old == Original(block, tr)
           new == Rewritten(tr)
<1>1. Complete /\ Total = Cardinality(HandledBefore(LastUser + 1))
  BY FinishedIsComplete, TotalIs
<1>2. IsTrace(tr, Len(block)) /\ Len(tr) \in Nat /\ \A j \in 1..Len(tr) : SimulatedAt(tr, old, new, j)
  BY <1>1, ListsAreSimulated
<1>3. DOMAIN tr = 1..Len(tr) /\ \A j \in 1..Len(tr) : tr[j] \in Op
  BY <1>2 DEF IsTrace
<1> HIDE DEF tr, old, new
<1>4. ASSUME NEW j \in 1..Len(tr), tr[j] \notin erased, IsUser(tr[j]), block[tr[j]].kind # "store"
      PROVE  new[j][operand[tr[j]]] = old[j][0]
  <2>1. operand[tr[j]] = Cardinality(Before(tr[j])) + 1
    BY <1>1, <1>3, <1>4, OperandIs
  <2>2. RunBefore(tr, j) = Before(tr[j])
    BY <1>1, <1>2, RunBeforeIs
  <2> QED  BY <1>2, <2>1, <2>2 DEF SimulatedAt
<1>5. ASSUME NEW j \in 1..Len(tr), Stored(tr, NoUse(block), j) # -1
      PROVE  new[j][Stored(tr, operand, j)] = old[j][0]
  <2>1. Stored(tr, operand, j) = Total + 1 /\ RunBefore(tr, j) = HandledBefore(LastUser + 1)
    BY <1>1, <1>2, <1>5, StoredIsLast
  <2> QED  BY <1>1, <1>2, <2>1 DEF SimulatedAt
<1> QED  BY <1>3, <1>4, <1>5 DEF Same, tr, old, new

LEMMA RunsAreNumbers == ASSUME Static PROVE Runs \subseteq Nat
<1>1. CASE maxTripCount = {}
  BY <1>1, TripsAssumption DEF Runs
<1>2. CASE maxTripCount # {}
  <2>1. \A n \in maxTripCount : n \in Int
    BY DEF Static
  <2>2. \A n \in maxTripCount : (IF n < 0 THEN 0 ELSE n) \in Nat
    BY <2>1
  <2> QED  BY <1>2, <2>2 DEF Runs
<1> QED  BY <1>1, <1>2

\* In these blocks the rewriting is sound whatever the order of the uses, wherever the list is
\* read and whatever stops the interpretation.
THEOREM Soundness == Spec => []ReadersSeeTheSameList
<1>1. RInv => ReadersSeeTheSameList
  <2> SUFFICES ASSUME RInv, Interpretable
               PROVE  /\ EveryUserHasItsLiteral
                      /\ DefinitionsDominateUses
                      /\ Finished => \A trips \in Runs : Same(Trace(block, trips))
    BY DEF ReadersSeeTheSameList
  <2>1. Runs \subseteq Nat
    BY RunsAreNumbers DEF RInv, IInv
  <2> QED  BY <2>1, LiteralIsThere, LiteralsDominate, ListsAreTheSame
<1> QED  BY <1>1, RewritingInvariant, PTL

(***************************************************************************)
(* Loops: the ops that are run, however far the loops have been unrolled.  *)
(***************************************************************************)
\* An op, whether it is in a region or not.
Plain(o) == [o EXCEPT !.nested = FALSE]
Ops(b, s) == [j \in 1..Len(s) |-> Plain(b[s[j]])]
PieceOps(b, i, trips) == Ops(b, Piece(b, i, trips))

\* The region that has op i is over behind op e.
Ends(b, i, e) == /\ \A k \in i..e : b[k].nested
                 /\ e = Len(b) \/ ~ b[e + 1].nested

Begins(b, i) == b[i].nested /\ ~ (i > 1 /\ b[i - 1].nested)

LEMMA RegionEnds ==
  ASSUME NEW b, Len(b) \in Nat, NEW i \in 1..Len(b), b[i].nested
  PROVE  \E e \in i..Len(b) : Ends(b, i, e)
<1> DEFINE S == {q \in i..Len(b) : q = Len(b) \/ ~ b[q + 1].nested}
<1>1. Len(b) \in S /\ S \subseteq Nat
  OBVIOUS
<1>2. PICK x \in S : \A y \in S : x <= y
  <2> HIDE DEF S
  <2> QED  BY <1>1, LeastElement
<1>3. ASSUME NEW k \in i..x PROVE b[k].nested
  <2>1. CASE k = i
    BY <2>1
  <2>2. CASE k # i
    <3>1. k - 1 \in i..Len(b) /\ ~ (x <= k - 1) /\ (k - 1) + 1 = k /\ k - 1 # Len(b)
      BY <2>2
    <3>2. k - 1 \notin S
      <4> HIDE DEF S
      <4> QED  BY <1>2, <3>1
    <3> QED  BY <3>1, <3>2
  <2> QED  BY <2>1, <2>2
<1> QED  BY <1>3 DEF Ends

LEMMA RegionAtIs ==
  ASSUME NEW b, Len(b) \in Nat, NEW i \in 1..Len(b), NEW e \in i..Len(b), Ends(b, i, e)
  PROVE  RegionAt(b, i) = [k \in 1..(e - i + 1) |-> i + k - 1]
<1> DEFINE last == CHOOSE q \in i..Len(b) : Ends(b, i, q)
<1>1. last \in i..Len(b) /\ Ends(b, i, last)
  OBVIOUS
<1>2. RegionAt(b, i) = [k \in 1..(last - i + 1) |-> i + k - 1]
  BY DEF RegionAt, Ends
<1> HIDE DEF last
<1>3. ~ (last < e)
  <2>1. last < e => last + 1 \in i..e
    BY <1>1
  <2> QED  BY <1>1, <2>1 DEF Ends
<1>4. ~ (e < last)
  <2>1. e < last => e + 1 \in i..last
    BY <1>1
  <2> QED  BY <1>1, <2>1 DEF Ends
<1>5. last = e
  BY <1>1, <1>3, <1>4
<1> QED  BY <1>2, <1>5

\* Equal sequences, one behind the other.
LEMMA Repeated ==
  ASSUME NEW S, NEW r \in Seq(S), Len(r) # 0, NEW n \in Nat
  PROVE  FlattenSeq([t \in 1..n |-> r]) = [x \in 1..(n * Len(r)) |-> r[((x - 1) % Len(r)) + 1]]
<1> DEFINE w == Len(r)
           ss == [t \in 1..n |-> r]
           R(x) == r[((x - 1) % w) + 1]
<1>1. w \in Nat \ {0}
  OBVIOUS
<1>2. CASE n = 0
  <2>1. ss = <<>> /\ Len(ss) = 0
    BY <1>2
  <2>2. n * w = 0
    BY <1>1, <1>2
  <2>3. [x \in 1..(n * w) |-> R(x)] = <<>>
    BY <2>2
  <2> QED  BY <2>1, <2>3 DEF FlattenSeq
<1>3. CASE n # 0
  <2>1. Len(ss) = n /\ \A t \in 1..n : ss[t] = r
    BY <1>3
  <2> HIDE DEF ss, w, R
  <2>2. PICK f : /\ FlattenSeq(ss) = f[n]
                 /\ f[1] = ss[1]
                 /\ \A i \in 2..n : f[i] = f[i - 1] \o ss[i]
    BY <1>3, <2>1, FlattenedIs
  <2> DEFINE IsR(s, t) == s \in Seq(S) /\ Len(s) = t * w /\ \A x \in 1..(t * w) : s[x] = R(x)
             T == {t \in Nat : t + 1 \in 1..n => IsR(f[t + 1], t + 1)}
  <2>3. 0 \in T
    <3>1. f[1] = r /\ 1 * w = w
      BY <1>1, <1>3, <2>1, <2>2
    <3>2. \A x \in 1..w : x - 1 \in Nat /\ x - 1 < w /\ (x - 1) % w = x - 1
      BY <1>1
    <3>3. \A x \in 1..w : r[x] = R(x)
      BY <3>2 DEF R
    <3>4. IsR(f[1], 1)
      BY <1>1, <3>1, <3>3 DEF w
    <3> QED  BY <3>4
  <2>4. ASSUME NEW t \in Nat, t \in T PROVE t + 1 \in T
    <3>1. SUFFICES ASSUME (t + 1) + 1 \in 1..n PROVE IsR(f[(t + 1) + 1], (t + 1) + 1)
      OBVIOUS
    <3> DEFINE k == t + 1
    <3>2. k \in Nat /\ k \in 1..n /\ k + 1 \in 2..n /\ k + 1 \in 1..n /\ (k + 1) - 1 = k
      BY <3>1
    <3>3. IsR(f[k], k)
      BY <2>4, <3>2
    <3> HIDE DEF k
    <3>4. f[k + 1] = f[k] \o r
      BY <2>1, <2>2, <3>2
    <3>5. f[k + 1] \in Seq(S) /\ IsConcat(f[k + 1], f[k], r)
      BY <3>3, <3>4, ConcatOfTwo
    <3>6. (k + 1) * w = k * w + w /\ k * w \in Nat
      BY <1>1, <3>2
    <3> PICK kw \in Nat : kw = k * w
      BY <3>6
    <3>7. Len(f[k + 1]) = (k + 1) * w
      BY <3>3, <3>5, <3>6 DEF IsConcat, w
    <3>8. ASSUME NEW x \in 1..((k + 1) * w) PROVE f[k + 1][x] = R(x)
      <4>1. CASE x \in 1..kw
        BY <3>3, <3>5, <4>1 DEF IsConcat
      <4>2. CASE x \notin 1..kw
        <5> DEFINE y == x - kw
        <5>1. y \in 1..w /\ x = kw + y
          BY <1>1, <3>6, <4>2
        <5> HIDE DEF y
        <5>2. f[k + 1][x] = r[y]
          BY <3>3, <3>5, <5>1 DEF IsConcat, w
        <5>3. y - 1 \in 0..(w - 1) /\ x - 1 = k * w + (y - 1)
          BY <1>1, <5>1
        <5>4. (k * w + (y - 1)) % w = y - 1
          <6> DEFINE z == y - 1
          <6>1. z \in 0..(w - 1)
            BY <5>3
          <6> HIDE DEF z
          <6>2. (k * w + z) % w = z
            BY <1>1, <3>2, <6>1
          <6> QED  BY <6>2 DEF z
        <5>5. ((x - 1) % w) + 1 = y
          BY <1>1, <5>1, <5>3, <5>4
        <5> QED  BY <5>2, <5>5 DEF R
      <4> QED  BY <4>1, <4>2
    <3>9. IsR(f[k + 1], k + 1)
      BY <3>5, <3>7, <3>8
    <3> QED  BY <3>9 DEF k
  <2>5. Nat \subseteq T
    <3> HIDE DEF T
    <3> QED  BY <2>3, <2>4, SetInduction
  <2>6. \A t \in Nat : t + 1 \in 1..n => IsR(f[t + 1], t + 1)
    BY <2>5
  <2>7. n - 1 \in Nat /\ (n - 1) + 1 = n /\ n \in 1..n
    BY <1>3
  <2>8. IsR(f[n], n)
    BY <2>6, <2>7
  <2>9. f[n] = [x \in 1..(n * w) |-> R(x)]
    <3>1. f[n] = [x \in 1..Len(f[n]) |-> f[n][x]]
      BY <2>8
    <3> QED  BY <2>8, <3>1
  <2> QED  BY <2>2, <2>9 DEF ss, w, R
<1> QED  BY <1>2, <1>3

LEMMA OpsConcat ==
  ASSUME NEW b, NEW S, NEW s \in Seq(S), NEW t \in Seq(S)
  PROVE  Ops(b, s \o t) = Ops(b, s) \o Ops(b, t)
<1> DEFINE st == s \o t
           X == Ops(b, s)
           Y == Ops(b, t)
           T == {Plain(b[x]) : x \in S}
<1>1. Len(s) \in Nat /\ Len(t) \in Nat
  OBVIOUS
<1>2. st \in Seq(S) /\ IsConcat(st, s, t)
  BY ConcatOfTwo
<1>3. X \in Seq(T) /\ Len(X) = Len(s) /\ \A j \in 1..Len(s) : X[j] = Plain(b[s[j]])
  <2>1. \A j \in 1..Len(s) : s[j] \in S
    OBVIOUS
  <2>2. X \in [1..Len(s) -> T]
    BY <2>1 DEF Ops
  <2> QED  BY <1>1, <2>2 DEF Ops
<1>4. Y \in Seq(T) /\ Len(Y) = Len(t) /\ \A j \in 1..Len(t) : Y[j] = Plain(b[t[j]])
  <2>1. \A j \in 1..Len(t) : t[j] \in S
    OBVIOUS
  <2>2. Y \in [1..Len(t) -> T]
    BY <2>1 DEF Ops
  <2> QED  BY <1>1, <2>2 DEF Ops
<1> DEFINE XY == X \o Y
<1> HIDE DEF st, X, Y, T
<1>5. XY \in Seq(T) /\ IsConcat(XY, X, Y)
  BY <1>3, <1>4, ConcatOfTwo
<1> HIDE DEF XY
<1>6. Len(XY) = Len(st) /\ Len(st) = Len(s) + Len(t)
  BY <1>2, <1>3, <1>4, <1>5 DEF IsConcat
<1>7. ASSUME NEW j \in 1..Len(st) PROVE XY[j] = Plain(b[st[j]])
  <2>1. CASE j \in 1..Len(s)
    BY <1>2, <1>3, <1>5, <2>1 DEF IsConcat
  <2>2. CASE j \notin 1..Len(s)
    <3> DEFINE i == j - Len(s)
    <3>1. i \in 1..Len(t) /\ j = Len(s) + i
      BY <1>1, <1>6, <2>2
    <3> HIDE DEF i
    <3>2. st[j] = t[i]
      BY <1>2, <3>1 DEF IsConcat
    <3>3. XY[j] = Y[i]
      BY <1>3, <1>4, <1>5, <3>1 DEF IsConcat
    <3> QED  BY <1>4, <3>1, <3>2, <3>3
  <2> QED  BY <2>1, <2>2
<1>8. XY = [j \in 1..Len(XY) |-> XY[j]]
  BY <1>5
<1>9. XY = [j \in 1..Len(st) |-> Plain(b[st[j]])]
  BY <1>6, <1>7, <1>8
<1> QED  BY <1>9 DEF Ops, XY, X, Y, st

\* The ops of x steps through the ops of b from p on, w of them at a time.
Body(b, p, w, x) == [y \in 1..x |-> Plain(b[p + ((y - 1) % w)])]

\* The ops that a piece of a trace runs.
LEMMA PieceOpsAre ==
  ASSUME NEW b, Len(b) \in Nat, NEW i \in 1..Len(b), NEW n \in Nat
  PROVE  /\ Piece(b, i, n) \in Seq(1..Len(b))
         /\ ~ b[i].nested => PieceOps(b, i, n) = <<Plain(b[i])>>
         /\ b[i].nested /\ ~ Begins(b, i) => PieceOps(b, i, n) = <<>>
         /\ \A e \in i..Len(b) :
              Begins(b, i) /\ Ends(b, i, e) => PieceOps(b, i, n) = Body(b, i, e - i + 1, n * (e - i + 1))
<1>1. CASE ~ b[i].nested
  <2>1. Piece(b, i, n) = <<i>>
    BY <1>1 DEF Piece
  <2>2. Ops(b, <<i>>) = <<Plain(b[i])>>
    <3>1. Len(<<i>>) = 1 /\ <<i>>[1] = i
      OBVIOUS
    <3>2. Ops(b, <<i>>) = [j \in 1..1 |-> Plain(b[i])]
      BY <3>1 DEF Ops
    <3> QED  BY <3>2
  <2> QED  BY <1>1, <2>1, <2>2 DEF PieceOps, Begins
<1>2. CASE b[i].nested /\ ~ Begins(b, i)
  <2>1. Piece(b, i, n) = <<>>
    BY <1>2 DEF Piece, Begins
  <2>2. Ops(b, <<>>) = <<>>
    BY DEF Ops
  <2> QED  BY <1>2, <2>1, <2>2 DEF PieceOps
<1>3. CASE b[i].nested /\ Begins(b, i)
  <2>1. PICK e \in i..Len(b) : Ends(b, i, e)
    BY <1>3, RegionEnds
  <2>2. ASSUME NEW d \in i..Len(b), Ends(b, i, d)
        PROVE  /\ Piece(b, i, n) \in Seq(1..Len(b))
               /\ PieceOps(b, i, n) = Body(b, i, d - i + 1, n * (d - i + 1))
    <3> DEFINE w == d - i + 1
               r == [k \in 1..w |-> i + k - 1]
               ss == [t \in 1..n |-> r]
    <3>1. w \in Nat \ {0}
      OBVIOUS
    <3>2. r \in [1..w -> 1..Len(b)]
      OBVIOUS
    <3>3. r \in Seq(1..Len(b)) /\ Len(r) = w
      BY <3>1, <3>2
    <3>4. RegionAt(b, i) = r
      BY <2>2, RegionAtIs
    <3>5. Piece(b, i, n) = FlattenSeq(ss)
      BY <1>3, <3>4 DEF Piece, Begins
    <3> DEFINE m == n * w
    <3> HIDE DEF r, w
    <3>6. FlattenSeq(ss) = [x \in 1..(n * Len(r)) |-> r[((x - 1) % Len(r)) + 1]]
      BY <3>1, <3>3, Repeated
    <3>7. Piece(b, i, n) = [x \in 1..m |-> r[((x - 1) % w) + 1]]
      BY <3>3, <3>5, <3>6
    <3>8. ASSUME NEW x \in 1..m
          PROVE  r[((x - 1) % w) + 1] = i + ((x - 1) % w) /\ r[((x - 1) % w) + 1] \in 1..Len(b)
      <4>1. x - 1 \in Int
        BY <3>1
      <4> HIDE DEF m
      <4>2. (x - 1) % w \in 0..(w - 1)
        BY <3>1, <4>1
      <4>3. ((x - 1) % w) + 1 \in 1..w
        BY <3>1, <4>2
      <4> DEFINE k == ((x - 1) % w) + 1
      <4>4. k \in 1..w
        BY <4>3
      <4> HIDE DEF k
      <4>5. r[k] = i + k - 1 /\ r[k] \in 1..Len(b)
        BY <3>2, <4>4 DEF r, w
      <4>6. i + k - 1 = i + ((x - 1) % w)
        BY <4>2 DEF k
      <4> QED  BY <4>5, <4>6 DEF k
    <3>9. m \in Nat
      BY <3>1
    <3> HIDE DEF m
    <3>10. Piece(b, i, n) \in [1..m -> 1..Len(b)]
      BY <3>7, <3>8
    <3>11. Piece(b, i, n) \in Seq(1..Len(b)) /\ Len(Piece(b, i, n)) = m
      BY <3>9, <3>10
    <3>12. \A x \in 1..m : Piece(b, i, n)[x] = i + ((x - 1) % w)
      BY <3>7, <3>8
    <3>13. PieceOps(b, i, n) = [y \in 1..m |-> Plain(b[i + ((y - 1) % w)])]
      BY <3>11, <3>12 DEF PieceOps, Ops
    <3>14. PieceOps(b, i, n) = Body(b, i, w, m)
      BY <3>13 DEF Body
    <3> QED  BY <3>11, <3>14 DEF m, w
  <2> QED  BY <1>3, <2>1, <2>2
<1> QED  BY <1>1, <1>2, <1>3

LEMMA PieceOfOp ==
  ASSUME NEW b, Len(b) \in Nat, NEW i \in 1..Len(b), NEW n \in Nat, ~ b[i].nested
  PROVE  PieceOps(b, i, n) = <<Plain(b[i])>>
BY PieceOpsAre

LEMMA PieceOfRegion ==
  ASSUME NEW b, Len(b) \in Nat, NEW i \in 1..Len(b), NEW n \in Nat,
         NEW e \in i..Len(b), Begins(b, i), Ends(b, i, e)
  PROVE  PieceOps(b, i, n) = Body(b, i, e - i + 1, n * (e - i + 1))
BY PieceOpsAre DEF Begins

\* What a trace of b runs, piece by piece.
IsOpTrace(F, b, n) ==
  /\ F[0] = <<>>
  /\ \A i \in 1..Len(b) : F[i] = F[i - 1] \o PieceOps(b, i, n)
  /\ \A i \in 0..Len(b) : F[i] \in Seq(OpIR)
  /\ Trace(b, n) \in Seq(1..Len(b)) /\ Ops(b, Trace(b, n)) = F[Len(b)]

LEMMA PlainType == ASSUME NEW o \in OpIR PROVE Plain(o) \in OpIR /\ Plain(o).el = o.el
BY DEF Plain, OpIR

LEMMA OpsType ==
  ASSUME NEW b \in Seq(OpIR), NEW s \in Seq(1..Len(b))
  PROVE  Ops(b, s) \in Seq(OpIR) /\ Len(Ops(b, s)) = Len(s)
<1>1. Len(s) \in Nat /\ \A j \in 1..Len(s) : s[j] \in 1..Len(b)
  OBVIOUS
<1>2. \A j \in 1..Len(s) : Plain(b[s[j]]) \in OpIR
  <2>1. \A x \in 1..Len(b) : b[x] \in OpIR
    OBVIOUS
  <2> QED  BY <1>1, <2>1, PlainType
<1>3. Ops(b, s) \in [1..Len(s) -> OpIR]
  BY <1>2 DEF Ops
<1> QED  BY <1>1, <1>3

LEMMA OpTraceExists ==
  ASSUME NEW b \in Seq(OpIR), Len(b) # 0, NEW n \in Nat
  PROVE  \E F : IsOpTrace(F, b, n)
<1> DEFINE L == Len(b)
           P(i) == Piece(b, i, n)
           ss == [i \in DOMAIN b |-> Piece(b, i, n)]
<1>1. L \in Nat \ {0} /\ DOMAIN b = 1..L
  OBVIOUS
<1>2. \A i \in 1..L : P(i) \in Seq(1..L)
  BY <1>1, PieceOpsAre
<1>3. Trace(b, n) = FlattenSeq(ss)
  BY DEF Trace, Piece
<1>4. Len(ss) = L /\ \A i \in 1..L : ss[i] = P(i)
  BY <1>1
<1> HIDE DEF ss
<1> PICK f : /\ FlattenSeq(ss) = f[Len(ss)]
             /\ f[1] = ss[1]
             /\ \A i \in 2..Len(ss) : f[i] = f[i - 1] \o ss[i]
  <2>1. Len(ss) \in Nat \ {0}
    BY <1>1, <1>4
  <2> QED  BY <2>1, FlattenedIs
<1>5. /\ FlattenSeq(ss) = f[L]
      /\ f[1] = ss[1]
      /\ \A i \in 2..L : f[i] = f[i - 1] \o ss[i]
  BY <1>4
<1> HIDE DEF P
<1> DEFINE T == {k \in Nat : k + 1 \in 1..L => f[k + 1] \in Seq(1..L)}
<1>6. \A i \in 1..L : f[i] \in Seq(1..L)
  <2>1. 0 \in T
    BY <1>1, <1>2, <1>4, <1>5
  <2>2. ASSUME NEW k \in Nat, k \in T PROVE k + 1 \in T
    <3>1. SUFFICES ASSUME (k + 1) + 1 \in 1..L PROVE f[(k + 1) + 1] \in Seq(1..L)
      OBVIOUS
    <3>2. k + 1 \in 1..L /\ (k + 1) + 1 \in 2..L /\ ((k + 1) + 1) - 1 = k + 1
      BY <1>1, <3>1
    <3>3. f[k + 1] \in Seq(1..L) /\ ss[(k + 1) + 1] \in Seq(1..L)
      BY <1>2, <1>4, <2>2, <3>1, <3>2
    <3>4. f[(k + 1) + 1] = f[k + 1] \o ss[(k + 1) + 1]
      BY <1>5, <3>2
    <3> QED  BY <3>3, <3>4, ConcatOfTwo
  <2>3. Nat \subseteq T
    <3> HIDE DEF T
    <3> QED  BY <2>1, <2>2, SetInduction
  <2>4. \A k \in Nat : k + 1 \in 1..L => f[k + 1] \in Seq(1..L)
    BY <2>3
  <2>5. ASSUME NEW i \in 1..L PROVE f[i] \in Seq(1..L)
    <3>1. i - 1 \in Nat /\ (i - 1) + 1 = i
      BY <1>1
    <3> QED  BY <2>4, <3>1
  <2> QED  BY <2>5
<1> DEFINE F == [i \in 0..L |-> IF i = 0 THEN <<>> ELSE Ops(b, f[i])]
<1>7. F[0] = <<>> /\ \A i \in 1..L : F[i] = Ops(b, f[i])
  BY <1>1
<1> HIDE DEF F
<1>8. ASSUME NEW i \in 0..L PROVE F[i] \in Seq(OpIR)
  <2>1. CASE i = 0
    <3>1. <<>> \in Seq(OpIR)
      OBVIOUS
    <3> QED  BY <1>7, <2>1, <3>1
  <2>2. CASE i # 0
    <3>1. i \in 1..L
      BY <1>1, <2>2
    <3>2. Ops(b, f[i]) \in Seq(OpIR)
      BY <1>6, <3>1, OpsType
    <3> QED  BY <1>7, <3>1, <3>2
  <2> QED  BY <2>1, <2>2
<1>9. ASSUME NEW i \in 1..L PROVE F[i] = F[i - 1] \o PieceOps(b, i, n)
  <2>1. ss[i] = P(i) /\ P(i) \in Seq(1..L) /\ PieceOps(b, i, n) = Ops(b, P(i))
    BY <1>2, <1>4 DEF PieceOps, P
  <2>2. Ops(b, P(i)) \in Seq(OpIR)
    BY <2>1, OpsType
  <2>3. CASE i = 1
    <3>1. F[i] = Ops(b, P(i)) /\ F[i - 1] = <<>>
      BY <1>5, <1>7, <2>1, <2>3
    <3> DEFINE X == Ops(b, P(i))
    <3>2. X \in Seq(OpIR)
      BY <2>2
    <3> HIDE DEF X
    <3>3. <<>> \o X = X
      BY <3>2, ConcatEmptySeq
    <3> QED  BY <2>1, <3>1, <3>3 DEF X
  <2>4. CASE i # 1
    <3>1. i \in 2..L /\ i - 1 \in 1..L
      BY <1>1, <2>4
    <3>2. f[i] = f[i - 1] \o P(i) /\ f[i - 1] \in Seq(1..L)
      BY <1>5, <1>6, <2>1, <3>1
    <3>3. Ops(b, f[i]) = Ops(b, f[i - 1]) \o Ops(b, P(i))
      <4> DEFINE S == 1..L
                 u == f[i - 1]
                 v == P(i)
      <4>1. u \in Seq(S) /\ v \in Seq(S) /\ f[i] = u \o v
        BY <2>1, <3>2
      <4> HIDE DEF S, u, v
      <4>2. Ops(b, u \o v) = Ops(b, u) \o Ops(b, v)
        BY <4>1, OpsConcat
      <4> QED  BY <4>1, <4>2 DEF u, v
    <3> QED  BY <1>7, <2>1, <3>1, <3>3
  <2> QED  BY <2>3, <2>4
<1>10. Trace(b, n) \in Seq(1..L) /\ Ops(b, Trace(b, n)) = F[L]
  BY <1>1, <1>3, <1>5, <1>6, <1>7
<1>11. IsOpTrace(F, b, n)
  BY <1>7, <1>8, <1>9, <1>10 DEF IsOpTrace
<1> QED  BY <1>11

\* Op i of b and op i + k of c, and the regions that they begin.
Alike(b, c, i, k) ==
  /\ c[i + k] = b[i]
  /\ Begins(c, i + k) <=> Begins(b, i)
  /\ \A e \in i..Len(b) : b[i].nested /\ Ends(b, i, e) =>
       /\ e + k \in (i + k)..Len(c) /\ Ends(c, i + k, e + k)
       /\ \A x \in i..e : c[x + k] = b[x]

LEMMA AlikePieces ==
  ASSUME NEW b, Len(b) \in Nat, NEW c, Len(c) \in Nat, NEW n \in Nat,
         NEW i \in 1..Len(b), NEW k \in Int, i + k \in 1..Len(c), Alike(b, c, i, k)
  PROVE  PieceOps(c, i + k, n) = PieceOps(b, i, n)
<1> DEFINE j == i + k
<1>1. j \in 1..Len(c) /\ c[j] = b[i] /\ (Begins(c, j) <=> Begins(b, i))
  BY DEF Alike
<1>2. CASE ~ b[i].nested
  <2> HIDE DEF j
  <2>1. PieceOps(c, j, n) = <<Plain(c[j])>>
    BY <1>1, <1>2, PieceOfOp
  <2>2. PieceOps(b, i, n) = <<Plain(b[i])>>
    BY <1>2, PieceOfOp
  <2> QED  BY <1>1, <2>1, <2>2 DEF j
<1>3. CASE b[i].nested /\ ~ Begins(b, i)
  BY <1>1, <1>3, PieceOpsAre
<1>4. CASE b[i].nested /\ Begins(b, i)
  <2>1. PICK e \in i..Len(b) : Ends(b, i, e)
    BY <1>4, RegionEnds
  <2>2. /\ e + k \in j..Len(c) /\ Ends(c, j, e + k)
        /\ \A x \in i..e : c[x + k] = b[x]
    BY <1>4, <2>1 DEF Alike
  <2> DEFINE d == e + k
             w == e - i + 1
  <2>3. d - j + 1 = w /\ w \in Nat \ {0}
    BY <2>1
  <2> HIDE DEF d
  <2>4. PieceOps(c, j, n) = Body(c, j, d - j + 1, n * (d - j + 1))
    <3> HIDE DEF j
    <3>1. d \in j..Len(c) /\ Ends(c, j, d) /\ Begins(c, j)
      BY <1>1, <1>4, <2>2 DEF d
    <3> QED  BY <1>1, <3>1, PieceOfRegion
  <2>5. PieceOps(b, i, n) = Body(b, i, w, n * w)
    BY <1>4, <2>1, PieceOfRegion
  <2> DEFINE m == n * w
  <2>6. m \in Nat
    <3> HIDE DEF w
    <3> QED  BY <2>3
  <2> HIDE DEF m
  <2>7. ASSUME NEW y \in 1..m PROVE c[j + ((y - 1) % w)] = b[i + ((y - 1) % w)]
    <3>1. y - 1 \in Int
      BY <2>6
    <3>2. (y - 1) % w \in 0..(w - 1)
      <4> HIDE DEF w
      <4> QED  BY <2>3, <3>1
    <3> DEFINE r == (y - 1) % w
    <3>3. r \in 0..(w - 1)
      BY <3>2
    <3> HIDE DEF r
    <3>4. i + r \in i..e /\ (i + r) + k = j + r
      BY <2>1, <3>3
    <3>5. c[(i + r) + k] = b[i + r]
      BY <2>2, <3>4
    <3> QED  BY <3>4, <3>5 DEF r
  <2> HIDE DEF w, j
  <2>8. PieceOps(c, j, n) = [y \in 1..m |-> Plain(c[j + ((y - 1) % w)])]
    BY <2>3, <2>4 DEF m, Body
  <2>9. PieceOps(b, i, n) = [y \in 1..m |-> Plain(b[i + ((y - 1) % w)])]
    BY <2>5 DEF m, Body
  <2> QED  BY <2>7, <2>8, <2>9 DEF j
<1> QED  BY <1>2, <1>3, <1>4

LEMMA MoreOfBody ==
  ASSUME NEW b \in Seq(OpIR), NEW p \in 1..Len(b), NEW w \in Nat, NEW x \in Nat,
         \A y \in 1..(x + 1) : p + ((y - 1) % w) \in 1..Len(b)
  PROVE  /\ Body(b, p, w, x) \in Seq(OpIR)
         /\ Body(b, p, w, x) \o <<Plain(b[p + (((x + 1) - 1) % w)])>> = Body(b, p, w, x + 1)
<1> DEFINE B(y) == Plain(b[p + ((y - 1) % w)])
           s == [y \in 1..x |-> B(y)]
           t == <<B(x + 1)>>
<1>1. ASSUME NEW y \in 1..(x + 1) PROVE B(y) \in OpIR
  <2>1. b[p + ((y - 1) % w)] \in OpIR
    OBVIOUS
  <2> QED  BY <2>1, PlainType
<1>2. Body(b, p, w, x) = s /\ Body(b, p, w, x + 1) = [y \in 1..(x + 1) |-> B(y)]
  BY DEF Body
<1> HIDE DEF B
<1>3. s \in Seq(OpIR) /\ Len(s) = x
  <2>1. s \in [1..x -> OpIR]
    BY <1>1
  <2> QED  BY <2>1
<1>4. t \in Seq(OpIR) /\ Len(t) = 1 /\ t[1] = B(x + 1)
  <2>1. B(x + 1) \in OpIR
    BY <1>1
  <2> QED  BY <2>1
<1>5. \A y \in 1..x : s[y] = B(y)
  OBVIOUS
<1> DEFINE st == s \o t
<1> HIDE DEF s, t
<1>6. st \in Seq(OpIR) /\ IsConcat(st, s, t)
  BY <1>3, <1>4, ConcatOfTwo
<1> HIDE DEF st
<1>7. Len(st) = x + 1
  BY <1>3, <1>4, <1>6 DEF IsConcat
<1>8. ASSUME NEW y \in 1..(x + 1) PROVE st[y] = B(y)
  <2>1. CASE y = x + 1
    <3>1. st[Len(s) + 1] = t[1]
      BY <1>4, <1>6 DEF IsConcat
    <3> QED  BY <1>3, <1>4, <2>1, <3>1
  <2>2. CASE y # x + 1
    BY <1>3, <1>5, <1>6, <2>2 DEF IsConcat
  <2> QED  BY <2>1, <2>2
<1>9. st = [y \in 1..(x + 1) |-> B(y)]
  <2>1. st = [y \in 1..Len(st) |-> st[y]]
    BY <1>6
  <2> QED  BY <1>7, <1>8, <2>1
<1>10. s \o t = Body(b, p, w, x + 1)
  BY <1>2, <1>9 DEF st
<1> QED  BY <1>2, <1>3, <1>10 DEF t, B

\* Block c is b with the w ops of the loop from p to q replaced by n copies, which are m ops.
Unrolls(b, c, p, q, w, m) ==
  /\ Begins(b, p) /\ Ends(b, p, q) /\ w = q - p + 1
  /\ Len(c) = Len(b) + m - w
  /\ \A i \in 1..(p - 1) : c[i] = b[i]
  /\ \A i \in 1..m : p + ((i - 1) % w) \in p..q /\ c[p - 1 + i] = Plain(b[p + ((i - 1) % w)])
  /\ \A i \in (q + 1)..Len(b) : c[i + m - w] = b[i]

LEMMA PlainIsNotNested == ASSUME NEW o \in OpIR PROVE ~ Plain(o).nested /\ Plain(Plain(o)) = Plain(o)
BY DEF Plain, OpIR

\* m is the number of ops in n copies of w ops.
IsTimes(m, n, w) == m = n * w

\* Ops before and behind the loop are run as before.
LEMMA AlikeBefore ==
  ASSUME NEW b, Len(b) \in Nat, NEW c, Len(c) \in Nat, NEW p \in 1..Len(b), NEW q \in p..(Len(b) - 1),
         NEW w \in Nat, NEW m \in Nat, Unrolls(b, c, p, q, w, m), NEW i \in 1..(p - 1)
  PROVE  i + 0 \in 1..Len(c) /\ Alike(b, c, i, 0)
<1>0. /\ Begins(b, p) /\ w = q - p + 1 /\ Len(c) = Len(b) + m - w
      /\ \A x \in 1..(p - 1) : c[x] = b[x]
  BY DEF Unrolls
<1>1. i \in 1..Len(b) /\ i \in 1..Len(c) /\ c[i] = b[i]
  BY <1>0
<1>2. Begins(c, i) <=> Begins(b, i)
  <2>1. i > 1 => i - 1 \in 1..(p - 1)
    OBVIOUS
  <2>2. i > 1 => c[i - 1] = b[i - 1]
    BY <1>0, <2>1
  <2> QED  BY <1>1, <2>2 DEF Begins
<1>3. ASSUME NEW e \in i..Len(b), b[i].nested, Ends(b, i, e)
      PROVE  e \in i..Len(c) /\ Ends(c, i, e) /\ \A x \in i..e : c[x] = b[x]
  <2>1. ~ b[p - 1].nested
    <3>1. p > 1 /\ Begins(b, p)
      BY <1>0
    <3> QED  BY <3>1 DEF Begins
  <2>2. e < p - 1
    <3>1. ~ (e < p - 1) => p - 1 \in i..e
      OBVIOUS
    <3>2. \A k \in i..e : b[k].nested
      BY <1>3 DEF Ends
    <3> QED  BY <2>1, <3>1, <3>2
  <2>3. /\ \A x \in i..e : x \in 1..(p - 1)
        /\ e + 1 \in 1..(p - 1) /\ e # Len(b)
    BY <2>2
  <2>4. e \in i..Len(c)
    BY <1>0, <2>2
  <2>5. \A x \in i..e : c[x] = b[x]
    BY <1>0, <2>3
  <2>6. c[e + 1] = b[e + 1]
    BY <1>0, <2>3
  <2> QED  BY <1>3, <2>3, <2>4, <2>5, <2>6 DEF Ends
<1>4. i + 0 = i /\ \A x \in i..Len(b) : x + 0 = x
  BY <1>1
<1>5. ASSUME NEW e \in i..Len(b), b[i].nested, Ends(b, i, e)
      PROVE  e + 0 \in (i + 0)..Len(c) /\ Ends(c, i + 0, e + 0) /\ \A x \in i..e : c[x + 0] = b[x]
  <2>1. e \in i..Len(c) /\ Ends(c, i, e) /\ \A x \in i..e : c[x] = b[x]
    BY <1>3, <1>5
  <2>2. \A x \in i..e : x \in i..Len(b)
    OBVIOUS
  <2> QED  BY <1>4, <2>1, <2>2
<1> QED  BY <1>1, <1>2, <1>4, <1>5 DEF Alike

LEMMA AlikeBehind ==
  ASSUME NEW b, Len(b) \in Nat, NEW c, Len(c) \in Nat, NEW p \in 1..Len(b), NEW q \in p..(Len(b) - 1),
         NEW w \in Nat, NEW m \in Nat, Unrolls(b, c, p, q, w, m), NEW i \in (q + 1)..Len(b)
  PROVE  i + (m - w) \in 1..Len(c) /\ Alike(b, c, i, m - w)
<1> DEFINE k == m - w
<1>1. /\ w = q - p + 1 /\ w <= q /\ k \in Int /\ k + q >= 0 /\ Len(c) = Len(b) + k
      /\ \A x \in (q + 1)..Len(b) : x + m - w = x + k
  BY DEF Unrolls
<1>2. \A x \in (q + 1)..Len(b) : c[x + k] = b[x]
  BY <1>1 DEF Unrolls
<1>3. ~ b[q + 1].nested
  BY DEF Unrolls, Ends
<1> HIDE DEF k
<1>4. i + k \in 1..Len(c) /\ c[i + k] = b[i]
  BY <1>1, <1>2
<1>5. Begins(c, i + k) <=> Begins(b, i)
  <2>1. CASE i = q + 1
    BY <1>3, <1>4, <2>1 DEF Begins
  <2>2. CASE i # q + 1
    <3>1. i - 1 \in (q + 1)..Len(b) /\ i > 1 /\ i + k > 1 /\ (i - 1) + k = (i + k) - 1
      BY <1>1, <2>2
    <3>2. c[(i - 1) + k] = b[i - 1]
      BY <1>2, <3>1
    <3> QED  BY <1>4, <3>1, <3>2 DEF Begins
  <2> QED  BY <2>1, <2>2
<1>6. ASSUME NEW e \in i..Len(b), b[i].nested, Ends(b, i, e)
      PROVE  e + k \in (i + k)..Len(c) /\ Ends(c, i + k, e + k) /\ \A x \in i..e : c[x + k] = b[x]
  <2>1. \A x \in i..e : c[x + k] = b[x]
    BY <1>2
  <2>2. ASSUME NEW y \in (i + k)..(e + k) PROVE c[y].nested
    <3>1. y - k \in i..e /\ (y - k) + k = y
      BY <1>1
    <3>2. c[(y - k) + k] = b[y - k]
      BY <2>1, <3>1
    <3> QED  BY <1>6, <3>1, <3>2 DEF Ends
  <2>3. e + k = Len(c) \/ ~ c[(e + k) + 1].nested
    <3>1. CASE e = Len(b)
      BY <1>1, <3>1
    <3>2. CASE e # Len(b)
      <4>1. e + 1 \in (q + 1)..Len(b) /\ (e + 1) + k = (e + k) + 1
        BY <1>1, <3>2
      <4>2. c[(e + 1) + k] = b[e + 1]
        BY <1>2, <4>1
      <4> QED  BY <1>6, <3>2, <4>1, <4>2 DEF Ends
    <3> QED  BY <3>1, <3>2
  <2>4. e + k \in (i + k)..Len(c)
    BY <1>1
  <2> QED  BY <2>1, <2>2, <2>3, <2>4 DEF Ends
<1>7. Alike(b, c, i, k)
  BY <1>4, <1>5, <1>6 DEF Alike
<1> QED  BY <1>4, <1>7 DEF k

LEMMA UnrolledRunsTheSame ==
  ASSUME NEW b \in Seq(OpIR), NEW c \in Seq(OpIR), Len(c) # 0, NEW p \in 1..Len(b), NEW q \in p..(Len(b) - 1),
         NEW n \in Nat, NEW w \in Nat \ {0}, NEW m \in Nat, IsTimes(m, n, w), Unrolls(b, c, p, q, w, m)
  PROVE  Ops(c, Trace(c, n)) = Ops(b, Trace(b, n))
<1>1. /\ Len(b) \in Nat \ {0} /\ Len(c) \in Nat \ {0} /\ p \in Nat \ {0} /\ q \in Nat
      /\ \A i \in 1..Len(b) : b[i] \in OpIR
  OBVIOUS
<1>2. w = q - p + 1 /\ Len(c) = Len(b) + m - w
  BY DEF Unrolls
<1>3. PICK F : IsOpTrace(F, b, n)
  <2>1. Len(b) # 0
    BY <1>1
  <2> QED  BY <2>1, OpTraceExists
<1>4. PICK G : IsOpTrace(G, c, n)
  BY OpTraceExists
<1>5. /\ F[0] = <<>> /\ \A i \in 0..Len(b) : F[i] \in Seq(OpIR)
      /\ \A i \in 1..Len(b) : F[i] = F[i - 1] \o PieceOps(b, i, n)
      /\ Ops(b, Trace(b, n)) = F[Len(b)]
  BY <1>3 DEF IsOpTrace
<1>6. /\ G[0] = <<>>
      /\ \A i \in 1..Len(c) : G[i] = G[i - 1] \o PieceOps(c, i, n)
      /\ Ops(c, Trace(c, n)) = G[Len(c)]
  BY <1>4 DEF IsOpTrace
<1>7. G[p - 1] = F[p - 1]
  <2> DEFINE T == {i \in Nat : i \in 0..(p - 1) => G[i] = F[i]}
  <2>1. 0 \in T
    BY <1>5, <1>6
  <2>2. ASSUME NEW j \in Nat, j \in T PROVE j + 1 \in T
    <3> SUFFICES ASSUME j + 1 \in 0..(p - 1) PROVE G[j + 1] = F[j + 1]
      OBVIOUS
    <3>1. G[j] = F[j]
      BY <2>2
    <3> DEFINE i == j + 1
    <3>2. i \in 1..(p - 1) /\ i \in 1..Len(b) /\ i - 1 = j
      BY <1>1
    <3> HIDE DEF i
    <3>3. i + 0 \in 1..Len(c) /\ Alike(b, c, i, 0) /\ i + 0 = i
      BY <1>1, <3>2, AlikeBefore
    <3>4. PieceOps(c, i + 0, n) = PieceOps(b, i, n)
      BY <1>1, <3>2, <3>3, AlikePieces
    <3>5. G[i] = F[i]
      BY <1>5, <1>6, <3>1, <3>2, <3>3, <3>4
    <3> QED  BY <3>5 DEF i
  <2>3. Nat \subseteq T
    <3> HIDE DEF T
    <3> QED  BY <2>1, <2>2, SetInduction
  <2>4. p - 1 \in Nat /\ p - 1 \in 0..(p - 1)
    BY <1>1
  <2>5. p - 1 \in T
    <3> HIDE DEF T
    <3> QED  BY <2>3, <2>4
  <2> QED  BY <2>4, <2>5
<1>8. \A y \in 1..m : p + ((y - 1) % w) \in p..q /\ c[p - 1 + y] = Plain(b[p + ((y - 1) % w)])
  BY DEF Unrolls
<1>9. F[p - 1] \in Seq(OpIR)
  <2>1. p - 1 \in 0..Len(b)
    BY <1>1
  <2> QED  BY <1>5, <2>1
<1>10. G[p - 1 + m] = F[p - 1] \o Body(b, p, w, m)
  <2> DEFINE Holds(x) == x \in 0..m => G[p - 1 + x] = F[p - 1] \o Body(b, p, w, x)
             T == {x \in Nat : Holds(x)}
  <2>1. 0 \in T
    <3>1. Body(b, p, w, 0) = <<>>
      BY DEF Body
    <3>2. F[p - 1] \o <<>> = F[p - 1]
      BY <1>9, ConcatEmptySeq
    <3>3. p - 1 + 0 = p - 1
      BY <1>1
    <3> QED  BY <1>7, <3>1, <3>2, <3>3
  <2>2. ASSUME NEW x \in Nat, x \in T PROVE x + 1 \in T
    <3>0. SUFFICES Holds(x + 1)
      <4> HIDE DEF Holds
      <4> QED  OBVIOUS
    <3> SUFFICES ASSUME x + 1 \in 0..m PROVE G[p - 1 + (x + 1)] = F[p - 1] \o Body(b, p, w, x + 1)
      BY Zenon DEF Holds
    <3>1. G[p - 1 + x] = F[p - 1] \o Body(b, p, w, x)
      BY <2>2
    <3> DEFINE o == b[p + (((x + 1) - 1) % w)]
               i == p - 1 + (x + 1)
               before == F[p - 1]
               body == Body(b, p, w, x)
    <3>2. o \in OpIR /\ c[i] = Plain(o)
      <4>1. x + 1 \in 1..m
        OBVIOUS
      <4>2. p + (((x + 1) - 1) % w) \in p..q
        BY <1>8, <4>1
      <4>3. p + (((x + 1) - 1) % w) \in 1..Len(b)
        BY <1>1, <4>2
      <4> QED  BY <1>1, <1>8, <4>1, <4>3
    <3>3. i \in 1..Len(c) /\ i - 1 = p - 1 + x
      BY <1>1, <1>2
    <3>4. body \in Seq(OpIR) /\ body \o <<Plain(o)>> = Body(b, p, w, x + 1)
      <4>1. \A y \in 1..(x + 1) : p + ((y - 1) % w) \in 1..Len(b)
        <5>1. ASSUME NEW y \in 1..(x + 1) PROVE p + ((y - 1) % w) \in 1..Len(b)
          <6>1. y \in 1..m
            OBVIOUS
          <6>2. p + ((y - 1) % w) \in p..q
            BY <1>8, <6>1
          <6> QED  BY <1>1, <6>2
        <5> QED  BY <5>1
      <4> QED  BY <4>1, MoreOfBody
    <3> HIDE DEF o, i, before, body
    <3>5. PieceOps(c, i, n) = <<Plain(o)>>
      <4>1. ~ c[i].nested /\ Plain(c[i]) = Plain(o)
        BY <3>2, PlainIsNotNested
      <4> QED  BY <1>1, <3>3, <4>1, PieceOpsAre
    <3>6. G[i] = (before \o body) \o <<Plain(o)>>
      BY <1>6, <3>1, <3>3, <3>5 DEF before, body
    <3>7. before \in Seq(OpIR) /\ <<Plain(o)>> \in Seq(OpIR)
      <4>1. Plain(o) \in OpIR
        BY <3>2, PlainType
      <4> QED  BY <1>9, <4>1 DEF before
    <3> DEFINE last == <<Plain(o)>>
    <3> HIDE DEF last
    <3>8. (before \o body) \o last = before \o (body \o last)
      <4>1. last \in Seq(OpIR)
        BY <3>7 DEF last
      <4>2. before \in Seq(OpIR) /\ body \in Seq(OpIR)
        BY <3>4, <3>7
      <4>3. Cat(Cat(before, body), last) = Cat(before, Cat(body, last))
        BY <4>1, <4>2, CatAssociative
      <4> QED  BY <4>3 DEF Cat
    <3> QED  BY <3>4, <3>6, <3>8 DEF last, i, before
  <2>3. Nat \subseteq T
    <3> HIDE DEF T
    <3> QED  BY <2>1, <2>2, SetInduction
  <2>4. m \in T
    <3> HIDE DEF T
    <3> QED  BY <2>3
  <2>5. m \in 0..m
    OBVIOUS
  <2> QED  BY <2>4, <2>5
<1>11. F[p] = F[p - 1] \o Body(b, p, w, m)
  <2>1. Begins(b, p) /\ Ends(b, p, q) /\ q \in p..Len(b)
    BY <1>1 DEF Unrolls
  <2>2. PieceOps(b, p, n) = Body(b, p, q - p + 1, n * (q - p + 1))
    <3>1. b[p].nested
      BY <2>1 DEF Begins
    <3> QED  BY <1>1, <2>1, <3>1, PieceOfRegion
  <2>3. PieceOps(b, p, n) = Body(b, p, w, m)
    BY <1>2, <2>2 DEF IsTimes
  <2> QED  BY <1>5, <2>3
<1>12. F[q] = F[p]
  <2> DEFINE T == {x \in Nat : p + x \in p..q => F[p + x] = F[p]}
  <2>1. 0 \in T
    BY <1>1
  <2>2. ASSUME NEW x \in Nat, x \in T PROVE x + 1 \in T
    <3> SUFFICES ASSUME p + (x + 1) \in p..q PROVE F[p + (x + 1)] = F[p]
      OBVIOUS
    <3>1. F[p + x] = F[p]
      BY <1>1, <2>2
    <3> DEFINE i == p + (x + 1)
    <3>2. i \in 1..Len(b) /\ i - 1 = p + x /\ i > 1 /\ i \in p..q /\ i - 1 \in p..q
      BY <1>1
    <3> HIDE DEF i
    <3>3. b[i].nested /\ ~ Begins(b, i)
      BY <3>2 DEF Unrolls, Ends, Begins
    <3>4. PieceOps(b, i, n) = <<>>
      BY <1>1, <3>2, <3>3, PieceOpsAre
    <3> DEFINE before == F[i - 1]
    <3>5. before \in Seq(OpIR)
      <4>1. i - 1 \in 0..Len(b)
        BY <3>2
      <4> QED  BY <1>5, <4>1
    <3>6. before \o <<>> = before
      <4> HIDE DEF before
      <4> QED  BY <3>5, ConcatEmptySeq
    <3>7. F[i] = F[i - 1]
      BY <1>5, <3>2, <3>4, <3>6
    <3> QED  BY <3>1, <3>2, <3>7 DEF i
  <2>3. Nat \subseteq T
    <3> HIDE DEF T
    <3> QED  BY <2>1, <2>2, SetInduction
  <2>4. q - p \in Nat /\ p + (q - p) = q
    BY <1>1
  <2>5. q - p \in T
    <3> HIDE DEF T
    <3> QED  BY <2>3, <2>4
  <2> QED  BY <1>1, <2>4, <2>5
<1> DEFINE k == m - w
<1>13. k \in Int /\ q + k = p - 1 + m /\ Len(b) + k = Len(c)
  BY <1>1, <1>2
<1>14. G[q + k] = F[q]
  BY <1>10, <1>11, <1>12, <1>13
<1>15. G[Len(b) + k] = F[Len(b)]
  <2> DEFINE T == {x \in Nat : q + x <= Len(b) => G[(q + x) + k] = F[q + x]}
  <2>1. 0 \in T
    BY <1>1, <1>14
  <2>2. ASSUME NEW x \in Nat, x \in T PROVE x + 1 \in T
    <3> SUFFICES ASSUME q + (x + 1) <= Len(b) PROVE G[(q + (x + 1)) + k] = F[q + (x + 1)]
      OBVIOUS
    <3>1. G[(q + x) + k] = F[q + x]
      BY <1>1, <2>2
    <3> DEFINE i == q + (x + 1)
    <3>2. i \in (q + 1)..Len(b) /\ i \in 1..Len(b) /\ i - 1 = q + x
      BY <1>1
    <3> HIDE DEF i
    <3>3. i + k \in 1..Len(c) /\ Alike(b, c, i, k)
      BY <1>1, <3>2, AlikeBehind
    <3> HIDE DEF k
    <3>4. PieceOps(c, i + k, n) = PieceOps(b, i, n)
      BY <1>1, <1>13, <3>2, <3>3, AlikePieces
    <3>5. (i + k) - 1 = (q + x) + k
      BY <1>1, <1>13, <3>2
    <3>6. G[i + k] = F[i]
      BY <1>5, <1>6, <3>1, <3>2, <3>3, <3>4, <3>5
    <3> QED  BY <3>6 DEF i
  <2>3. Nat \subseteq T
    <3> HIDE DEF T
    <3> QED  BY <2>1, <2>2, SetInduction
  <2>4. Len(b) - q \in Nat /\ q + (Len(b) - q) = Len(b)
    BY <1>1
  <2>5. Len(b) - q \in T
    <3> HIDE DEF T
    <3> QED  BY <2>3, <2>4
  <2> QED  BY <1>1, <2>4, <2>5
<1> QED  BY <1>5, <1>6, <1>13, <1>15

\* The block, however far its loops have been unrolled, runs what the source does.
SameOps == \A trips \in Runs : Ops(block, Trace(block, trips)) = Ops(source, Trace(source, trips))

LEMMA UnrollSameOps == IInv /\ UnrollLoop /\ SameOps => SameOps'
<1> SUFFICES ASSUME IInv, UnrollLoop, SameOps PROVE SameOps'
  OBVIOUS
<1>1. PICK n0 \in maxTripCount, p \in Op, q \in Op :
        /\ block[p].nested /\ Parent(q) = p
        /\ q = Len(block) \/ ~ block[q + 1].nested
        /\ block' = Unrolled(block, p, q, IF n0 < 0 THEN 0 ELSE n0)
  BY DEF UnrollLoop
<1> DEFINE n1 == IF n0 < 0 THEN 0 ELSE n0
<1>2. n1 \in Nat
  BY DEF IInv, Static
<1>3. Runs = {n1}
  BY DEF IInv, Static, Runs
<1>4. block' = Unrolled(block, p, q, n1)
  BY <1>1
<1> PICK n \in Nat : n = n1
  BY <1>2
<1> HIDE DEF n1
<1>5. Runs = {n} /\ Runs' = {n} /\ source' = source /\ block' = Unrolled(block, p, q, n)
  BY <1>3, <1>4 DEF UnrollLoop, Runs
<1>6. /\ BlockOK /\ Len(block) \in Nat /\ Op = 1..Len(block) /\ ~ block[Len(block)].nested
      /\ p \in Nat \ {0} /\ q \in Nat
  BY BlockType DEF IInv, Static, BlockOK, Op
<1>7. p \in 1..q /\ \A j \in p..q : block[j].nested
  <2>1. block[q].nested
    BY <1>1, <1>6, ParentIs
  <2> QED  BY <1>1, <1>6, <2>1, ParentIs
<1>8. p <= q /\ q < Len(block)
  BY <1>6, <1>7
<1>9. p = 1 \/ ~ block[p - 1].nested
  BY <1>1, <1>6, <1>7, ParentIs
<1> DEFINE w == q - p + 1
           m == n * w
<1>10. w \in Nat \ {0} /\ m \in Nat /\ IsUnrolled(block', p, q, w, m)
  <2>1. w \in Nat \ {0} /\ m \in Nat /\ IsUnrolled(Unrolled(block, p, q, n), p, q, w, m)
    BY <1>6, <1>8, UnrolledIs
  <2> HIDE DEF w, m
  <2> QED  BY <1>5, <2>1
<1> PICK b : b = block
  OBVIOUS
<1> PICK c : c = block'
  OBVIOUS
<1>11. Unrolls(b, c, p, q, w, m)
  <2>1. Begins(b, p) /\ Ends(b, p, q)
    BY <1>1, <1>7, <1>9 DEF Begins, Ends
  <2>2. w = q - p + 1
    OBVIOUS
  <2> HIDE DEF w, m
  <2> QED  BY <1>10, <2>1, <2>2 DEF IsUnrolled, Unrolls, Plain
<1>12. b \in Seq(OpIR) /\ c \in Seq(OpIR) /\ Len(c) # 0
  <2>1. c \in Seq(OpIR) /\ Len(c) = Len(b) + m - w
    <3> HIDE DEF w, m
    <3> QED  BY <1>10 DEF IsUnrolled
  <2>2. w <= q
    BY <1>6, <1>7
  <2> HIDE DEF w, m
  <2> QED  BY <1>6, <1>8, <1>10, <2>1, <2>2 DEF BlockOK
<1>13. p \in 1..Len(b) /\ q \in p..(Len(b) - 1)
  BY <1>6, <1>7, <1>8
<1>14. Ops(c, Trace(c, n)) = Ops(b, Trace(b, n))
  <2>1. IsTimes(m, n, w)
    BY DEF IsTimes
  <2> HIDE DEF w, m
  <2> QED  BY <1>10, <1>11, <1>12, <1>13, <2>1, UnrolledRunsTheSame
<1>15. Ops(b, Trace(b, n)) = Ops(source, Trace(source, n))
  BY <1>5 DEF SameOps
<1>16. Ops(c, Trace(c, n))  = Ops(source', Trace(source', n))
  BY <1>5, <1>14, <1>15
<1> QED  BY <1>5, <1>16 DEF SameOps

LEMMA OpsStayTheSame == Spec => []SameOps
<1>1. Init => SameOps
  BY DEF Init, SameOps
<1>2. IInv /\ [Next]_vars /\ SameOps => SameOps'
  <2>1. ASSUME ~ UnrollLoop, [Next]_vars PROVE UNCHANGED <<source, block, maxTripCount>>
    BY <2>1 DEF Next, vars, SortUsers, InterpretAppend, InterpretInsert, InterpretSetItem, InterpretRead,
       Interpret, MatchFailure, StopInterpreting, RewriteMutation, RewriteUse, ReplaceOp, RefineShape, Done
  <2>2. ASSUME UNCHANGED <<source, block, maxTripCount>>, SameOps PROVE SameOps'
    BY <2>2 DEF SameOps, Runs
  <2> QED  BY <2>1, <2>2, UnrollSameOps
<1> QED  BY <1>1, <1>2, Invariant, PTL DEF Spec

\* Blocks that run the same ops.
LEMMA SameElements ==
  ASSUME NEW b \in Seq(OpIR), NEW c \in Seq(OpIR), NEW s \in Seq(1..Len(b)), NEW t \in Seq(1..Len(c)),
         Ops(b, s) = Ops(c, t)
  PROVE  /\ DOMAIN s = DOMAIN t
         /\ \A j \in DOMAIN s : b[s[j]] \in OpIR /\ c[t[j]] \in OpIR /\ Plain(b[s[j]]) = Plain(c[t[j]])
<1>1. Ops(b, s) \in Seq(OpIR) /\ Len(Ops(b, s)) = Len(s) /\ Ops(c, t) \in Seq(OpIR) /\ Len(Ops(c, t)) = Len(t)
  BY OpsType
<1>2. Len(s) = Len(t) /\ DOMAIN s = 1..Len(s) /\ DOMAIN t = 1..Len(t)
  BY <1>1
<1>3. ASSUME NEW j \in 1..Len(s)
      PROVE  b[s[j]] \in OpIR /\ c[t[j]] \in OpIR /\ Plain(b[s[j]]) = Plain(c[t[j]])
  <2>1. Ops(b, s)[j] = Plain(b[s[j]]) /\ Ops(c, t)[j] = Plain(c[t[j]])
    BY <1>2 DEF Ops
  <2>2. s[j] \in 1..Len(b) /\ t[j] \in 1..Len(c)
    BY <1>2
  <2> QED  BY <2>1, <2>2
<1> QED  BY <1>2, <1>3

LEMMA TraceType ==
  ASSUME NEW b \in Seq(OpIR), Len(b) # 0, NEW n \in Nat
  PROVE  Trace(b, n) \in Seq(1..Len(b))
BY OpTraceExists DEF IsOpTrace

\* A block with unrolled loops runs the same ops in the same order.
THEOREM LoopsRunTheSameOps == Spec => []LoopsAreUnrolledFaithfully
<1>1. IInv /\ SameOps => LoopsAreUnrolledFaithfully
  <2> SUFFICES ASSUME IInv, SameOps, NEW trips \in Runs
               PROVE  LET before == Trace(source, trips)
                          after == Trace(block, trips)
                      IN  [j \in DOMAIN before |-> source[before[j]].el]
                            = [j \in DOMAIN after |-> block[after[j]].el]
    BY DEF LoopsAreUnrolledFaithfully
  <2> DEFINE s == Trace(source, trips)
             t == Trace(block, trips)
  <2>1. source \in Seq(OpIR) /\ Len(source) # 0 /\ block \in Seq(OpIR) /\ Len(block) # 0
    BY ListAssumption, BlockType DEF IInv, Static, BlockOK
  <2>2. trips \in Nat
    BY RunsAreNumbers DEF IInv
  <2>3. s \in Seq(1..Len(source)) /\ t \in Seq(1..Len(block)) /\ Ops(source, s) = Ops(block, t)
    BY <2>1, <2>2, TraceType DEF SameOps
  <2> HIDE DEF s, t
  <2>4. /\ DOMAIN s = DOMAIN t
        /\ \A j \in DOMAIN s : /\ source[s[j]] \in OpIR /\ block[t[j]] \in OpIR
                               /\ Plain(source[s[j]]) = Plain(block[t[j]])
    BY <2>1, <2>3, SameElements
  <2>5. \A j \in DOMAIN s : source[s[j]].el = block[t[j]].el
    <3> SUFFICES ASSUME NEW j \in DOMAIN s PROVE source[s[j]].el = block[t[j]].el
      OBVIOUS
    <3>1. Plain(source[s[j]]).el = source[s[j]].el /\ Plain(block[t[j]]).el = block[t[j]].el
      BY <2>4, PlainType
    <3> QED  BY <2>4, <3>1
  <2>6. [j \in DOMAIN s |-> source[s[j]].el] = [j \in DOMAIN t |-> block[t[j]].el]
    BY <2>4, <2>5
  <2> QED  BY <2>6 DEF s, t
<1> QED  BY <1>1, Invariant, OpsStayTheSame, PTL

(***************************************************************************)
(* The sizes of the result.                                                *)
(***************************************************************************)
\* What an op does to the list does not depend on where it is.
LEMMA AfterPlain ==
  ASSUME NEW o \in OpIR, NEW list
  PROVE  Plain(o).kind = o.kind /\ After(Plain(o), list) = After(o, list)
<1> DEFINE r == Plain(o)
<1>1. r.kind = o.kind /\ r.el = o.el /\ r.idx = o.idx
  BY DEF Plain, OpIR
<1> HIDE DEF r
<1>2. After(r, list) = After(o, list)
  BY <1>1 DEF After
<1> QED  BY <1>1, <1>2 DEF r

LEMMA OriginalIs ==
  ASSUME NEW b, NEW s \in Seq(1..Len(b)), DOMAIN b = 1..Len(b)
  PROVE  /\ Original(b, s)[1][0] = elements
         /\ \A j \in 1..Len(s) :
              Original(b, s)[j + 1][0]
                = IF b[s[j]].kind = "fetch" THEN Original(b, s)[j][0] ELSE After(b[s[j]], Original(b, s)[j][0])
<1> DEFINE run == Original(b, s)
           lists == [l \in {0} |-> elements]
<1>1. Len(s) \in Nat /\ \A j \in 1..Len(s) : s[j] \in 1..Len(b)
  OBVIOUS
<1>2. /\ run[1] = lists
      /\ \A j \in 1..Len(s) : run[j + 1] = Stepped(b, s[j], NoUse(b), run[j], {})
  BY <1>1, RunIs DEF Original
<1>3. DOMAIN lists = {0} /\ lists[0] = elements
  OBVIOUS
<1> HIDE DEF run, lists
<1> DEFINE T == {j \in Nat : j + 1 \in 1..Len(s) => DOMAIN run[j + 1] = {0}}
<1>4. \A j \in 1..Len(s) : DOMAIN run[j] = {0}
  <2>1. 0 \in T
    BY <1>2, <1>3
  <2>2. ASSUME NEW k \in Nat, k \in T PROVE k + 1 \in T
    <3>1. SUFFICES ASSUME (k + 1) + 1 \in 1..Len(s) PROVE DOMAIN run[(k + 1) + 1] = {0}
      OBVIOUS
    <3> DEFINE j == k + 1
    <3>2. j \in 1..Len(s)
      BY <1>1, <3>1
    <3>3. DOMAIN run[j] = {0}
      BY <2>2, <3>2
    <3> HIDE DEF j
    <3>4. run[j + 1] = Stepped(b, s[j], NoUse(b), run[j], {})
      BY <1>2, <3>2
    <3>5. DOMAIN Stepped(b, s[j], NoUse(b), run[j], {}) = DOMAIN run[j]
      BY SteppedDomain
    <3>6. DOMAIN run[j + 1] = {0}
      BY <3>3, <3>4, <3>5
    <3> QED  BY <3>6 DEF j
  <2>3. Nat \subseteq T
    <3> HIDE DEF T
    <3> QED  BY <2>1, <2>2, SetInduction
  <2>4. \A k \in Nat : k + 1 \in 1..Len(s) => DOMAIN run[k + 1] = {0}
    BY <2>3
  <2>5. ASSUME NEW j \in 1..Len(s) PROVE DOMAIN run[j] = {0}
    <3>1. j - 1 \in Nat /\ (j - 1) + 1 = j
      BY <1>1
    <3> QED  BY <2>4, <3>1
  <2> QED  BY <2>5
<1>5. ASSUME NEW j \in 1..Len(s)
      PROVE  run[j + 1][0] = IF b[s[j]].kind = "fetch" THEN run[j][0] ELSE After(b[s[j]], run[j][0])
  <2>1. NoUse(b)[s[j]] = 0
    BY <1>1 DEF NoUse
  <2>2. 0 \in DOMAIN run[j]
    BY <1>4
  <2>3. run[j + 1] = Stepped(b, s[j], NoUse(b), run[j], {})
    BY <1>2
  <2>4. CASE b[s[j]].kind = "fetch"
    BY <2>2, <2>3, <2>4, SteppedIs
  <2>5. CASE b[s[j]].kind # "fetch"
    <3>1. s[j] \notin {}
      OBVIOUS
    <3>2. Stepped(b, s[j], NoUse(b), run[j], {})[0] = After(b[s[j]], run[j][0])
      BY <2>1, <2>2, <2>5, <3>1, SteppedIs
    <3> QED  BY <2>3, <2>5, <3>2
  <2> QED  BY <2>4, <2>5
<1>6. run[1][0] = elements
  BY <1>2, <1>3
<1> QED  BY <1>5, <1>6 DEF run

\* Blocks that run the same ops find the same list before each of them.
LEMMA SameLists ==
  ASSUME NEW b \in Seq(OpIR), NEW c \in Seq(OpIR), NEW s \in Seq(1..Len(b)), NEW t \in Seq(1..Len(c)),
         Ops(b, s) = Ops(c, t), NEW n \in 1..Len(s)
  PROVE  Original(b, s)[n][0] = Original(c, t)[n][0]
<1> DEFINE old == Original(b, s)
           new == Original(c, t)
<1>1. /\ Len(s) = Len(t) /\ Len(s) \in Nat
      /\ \A j \in 1..Len(s) : b[s[j]] \in OpIR /\ c[t[j]] \in OpIR /\ Plain(b[s[j]]) = Plain(c[t[j]])
  <2>1. Ops(b, s) \in Seq(OpIR) /\ Len(Ops(b, s)) = Len(s) /\ Ops(c, t) \in Seq(OpIR) /\ Len(Ops(c, t)) = Len(t)
    BY OpsType
  <2>2. Len(s) = Len(t) /\ Len(s) \in Nat /\ DOMAIN s = 1..Len(s)
    BY <2>1
  <2>3. \A j \in DOMAIN s : b[s[j]] \in OpIR /\ c[t[j]] \in OpIR /\ Plain(b[s[j]]) = Plain(c[t[j]])
    BY SameElements
  <2> QED  BY <2>2, <2>3
<1>2. DOMAIN b = 1..Len(b) /\ DOMAIN c = 1..Len(c)
  OBVIOUS
<1>3. /\ old[1][0] = elements
      /\ \A j \in 1..Len(s) :
           old[j + 1][0] = IF b[s[j]].kind = "fetch" THEN old[j][0] ELSE After(b[s[j]], old[j][0])
  BY <1>2, OriginalIs
<1>4. /\ new[1][0] = elements
      /\ \A j \in 1..Len(t) :
           new[j + 1][0] = IF c[t[j]].kind = "fetch" THEN new[j][0] ELSE After(c[t[j]], new[j][0])
  BY <1>2, OriginalIs
<1> HIDE DEF old, new
<1> DEFINE T == {j \in Nat : j + 1 \in 1..Len(s) => old[j + 1][0] = new[j + 1][0]}
<1>5. 0 \in T
  BY <1>3, <1>4
<1>6. ASSUME NEW k \in Nat, k \in T PROVE k + 1 \in T
  <2>1. SUFFICES ASSUME (k + 1) + 1 \in 1..Len(s) PROVE old[(k + 1) + 1][0] = new[(k + 1) + 1][0]
    OBVIOUS
  <2> DEFINE j == k + 1
  <2>2. j \in 1..Len(s) /\ j \in 1..Len(t)
    BY <1>1, <2>1
  <2>3. old[j][0] = new[j][0]
    BY <1>6, <2>2
  <2> HIDE DEF j
  <2>4. /\ old[j + 1][0] = IF b[s[j]].kind = "fetch" THEN old[j][0] ELSE After(b[s[j]], old[j][0])
        /\ new[j + 1][0] = IF c[t[j]].kind = "fetch" THEN new[j][0] ELSE After(c[t[j]], new[j][0])
    BY <1>3, <1>4, <2>2
  <2> PICK o : o = b[s[j]]
    OBVIOUS
  <2> PICK p : p = c[t[j]]
    OBVIOUS
  <2>5. o \in OpIR /\ p \in OpIR /\ Plain(o) = Plain(p)
    BY <1>1, <2>2
  <2>6. o.kind = p.kind /\ After(o, old[j][0]) = After(p, old[j][0])
    <3> PICK list : list = old[j][0]
      OBVIOUS
    <3>1. Plain(o).kind = o.kind /\ After(Plain(o), list) = After(o, list)
      BY <2>5, AfterPlain
    <3>2. Plain(p).kind = p.kind /\ After(Plain(p), list) = After(p, list)
      BY <2>5, AfterPlain
    <3> QED  BY <2>5, <3>1, <3>2
  <2>7. old[j + 1][0] = new[j + 1][0]
    BY <2>3, <2>4, <2>6
  <2> QED  BY <2>7 DEF j
<1>7. Nat \subseteq T
  <2> HIDE DEF T
  <2> QED  BY <1>5, <1>6, SetInduction
<1>8. n - 1 \in Nat /\ (n - 1) + 1 = n
  BY <1>1
<1>9. old[n][0] = new[n][0]
  BY <1>7, <1>8
<1> QED  BY <1>9 DEF old, new

\* The terminator is run last.
LEMMA TerminatorIsLast ==
  ASSUME BlockOK, NEW s, IsTrace(s, Len(block))
  PROVE  Len(s) \in Nat \ {0} /\ s[Len(s)] = Len(block)
<1> DEFINE L == Len(block)
<1>1. L \in Op /\ ~ block[L].nested /\ L \in Nat /\ L \in 1..L /\ Parent(L) = L
  BY BlockType, ParentIs DEF BlockOK, Op
<1>2. s \in Seq(Op) /\ Len(s) \in Nat
  BY DEF IsTrace
<1>3. PICK j \in 1..Len(s) : s[j] = L
  BY <1>1 DEF IsTrace
<1>4. j = Len(s)
  <2> SUFFICES ASSUME j # Len(s) PROVE FALSE
    OBVIOUS
  <2> DEFINE k == Len(s)
  <2>1. k \in 1..Len(s) /\ j < k
    BY <1>2
  <2> HIDE DEF k
  <2>2. Parent(s[j]) <= Parent(s[k]) /\ Parent(s[k]) \in 1..L
    BY <2>1 DEF IsTrace
  <2>3. Parent(s[j]) = Parent(s[k])
    BY <1>1, <1>3, <2>2
  <2>4. block[s[j]].nested
    BY <2>1, <2>3 DEF IsTrace
  <2> QED  BY <1>1, <1>3, <2>4
<1> QED  BY <1>2, <1>3, <1>4

\* What is known of the sizes.
SizesAre ==
  /\ \A i \in UsersOfYielded : block[i].kind = "set"
  /\ sizes = [d \in 1..Len(YieldedContents) |->
                IF d \in UNION {Clobbered(i, Len(YieldedContents)) : i \in UsersOfYielded}
                THEN Unknown ELSE YieldedContents[d]]

\* It is known of a list that has not been touched since; without literals nothing has been rewritten.
Sized ==
  /\ status = "refined" => SizesAre
  /\ literals = <<>> => erased = {} /\ operand = [i \in Op |-> 0]

LEMMA SameYielded ==
  ASSUME UNCHANGED <<block, operand, literals, elements, erased>>
  PROVE  /\ UsersOfYielded' = UsersOfYielded /\ YieldedContents' = YieldedContents /\ Op' = Op
         /\ \A i, n : Clobbered(i, n)' = Clobbered(i, n)
BY DEF UsersOfYielded, YieldedContents, Yielded, Op, IsUser, MutatesList, Clobbered, IsLegalIndex, PositiveDim

LEMMA RefineSized == Sized /\ RefineShape => Sized'
<1> SUFFICES ASSUME Sized, RefineShape PROVE Sized'
  OBVIOUS
<1>1. UNCHANGED <<block, operand, literals, elements, erased>>
  BY DEF RefineShape
<1>2. /\ UsersOfYielded' = UsersOfYielded /\ YieldedContents' = YieldedContents /\ Op' = Op
      /\ \A i, n : Clobbered(i, n)' = Clobbered(i, n)
  BY <1>1, SameYielded
<1>3. literals' = <<>> => erased' = {} /\ operand' = [i \in Op' |-> 0]
  BY <1>1, <1>2 DEF Sized
<1>4. ASSUME status' = "refined" PROVE SizesAre'
  <2> DEFINE U == UsersOfYielded
             Y == YieldedContents
             C(i, n) == Clobbered(i, n)
  <2>1. /\ \A i \in U : block[i].kind = "set"
        /\ sizes' = [d \in 1..Len(Y) |-> IF d \in UNION {C(i, Len(Y)) : i \in U} THEN Unknown ELSE Y[d]]
    BY <1>4 DEF RefineShape
  <2>2. /\ \A i \in U' : block'[i].kind = "set"
        /\ U' = U /\ Y' = Y
    BY <1>1, <1>2, <2>1
  <2>3. {Clobbered(i, Len(Y))' : i \in U} = {Clobbered(i, Len(Y)) : i \in U}
    BY <1>2
  <2>4. sizes' = [d \in 1..Len(Y') |-> IF d \in UNION {Clobbered(i, Len(Y))' : i \in U'} THEN Unknown ELSE Y'[d]]
    BY <2>1, <2>2, <2>3
  <2> QED  BY <2>2, <2>4 DEF SizesAre
<1> QED  BY <1>3, <1>4 DEF Sized

LEMMA StutterSized == Sized /\ UNCHANGED vars => Sized'
<1> SUFFICES ASSUME Sized, UNCHANGED vars PROVE Sized'
  OBVIOUS
<1> QED  BY DEF vars, Sized, SizesAre, UsersOfYielded, YieldedContents, Yielded, Op, IsUser, MutatesList,
            Clobbered, IsLegalIndex, PositiveDim

LEMMA NextSized == RInv /\ Sized /\ [Next]_vars => Sized'
<1> SUFFICES ASSUME RInv, Sized, [Next]_vars PROVE Sized'
  OBVIOUS
<1>1. CASE UnrollLoop
  <2>1. status' # "refined" /\ erased' = erased /\ literals' = literals
    BY <1>1 DEF UnrollLoop
  <2>2. operand' = [i \in Op' |-> 0]
    BY <1>1 DEF UnrollLoop, Op
  <2> QED  BY <2>1, <2>2 DEF Sized
<1>2. ASSUME status' # "refined", UNCHANGED <<literals, erased, operand, block>> PROVE Sized'
  BY <1>2 DEF Sized, Op
<1>3. ASSUME status' # "refined", literals' # <<>> PROVE Sized'
  BY <1>3 DEF Sized
<1>4. CASE SortUsers
  BY <1>2, <1>4 DEF SortUsers
<1>5. CASE InterpretAppend \/ InterpretInsert \/ InterpretSetItem \/ InterpretRead
  <2>1. UNCHANGED <<literals, erased, operand, block>> /\ status' # "refined"
    BY <1>5 DEF InterpretAppend, InterpretInsert, InterpretSetItem, InterpretRead, Interpreting, Interpret, MatchFailure
  <2> QED  BY <1>2, <2>1
<1>6. CASE StopInterpreting
  <2>1. CASE generatedNewLiteral
    <3>1. status' # "refined" /\ Len(literals') = 1
      BY <1>6, <2>1 DEF StopInterpreting
    <3> QED  BY <1>3, <3>1
  <2>2. CASE ~ generatedNewLiteral
    BY <1>2, <1>6, <2>2 DEF StopInterpreting, MatchFailure
  <2> QED  BY <2>1, <2>2
<1>7. CASE RewriteMutation
  <2>1. literals # <<>> /\ status = "rewrite" /\ literals \in Seq(Literal)
    BY <1>7 DEF RewriteMutation, RInv, Rewriting, IInv, Typed
  <2>2. literals' # <<>>
    <3>1. CASE nextLiteral > Len(listLiterals)
      BY <1>7, <2>1, <3>1 DEF RewriteMutation
    <3>2. CASE ~ (nextLiteral > Len(listLiterals))
      <4> PICK l : literals' = Append(literals, l)
        BY <1>7, <3>2 DEF RewriteMutation
      <4> QED  BY <2>1
    <3> QED  BY <3>1, <3>2
  <2>3. status' # "refined"
    BY <1>7 DEF RewriteMutation
  <2> QED  BY <1>3, <2>2, <2>3
<1>8. CASE RewriteUse \/ ReplaceOp
  <2>1. literals # <<>> /\ literals' = literals /\ status' # "refined"
    BY <1>8 DEF RewriteUse, ReplaceOp, RInv, Rewriting
  <2> QED  BY <1>3, <2>1
<1> QED  BY <1>1, <1>4, <1>5, <1>6, <1>7, <1>8, RefineSized, StutterSized DEF Next, Done

LEMMA SizedInvariant == Spec => []Sized
<1>1. Init => Sized
  BY DEF Init, Sized
<1> QED  BY <1>1, NextSized, RewritingInvariant, PTL DEF Spec

ClobberedElements == UNION {Clobbered(i, Len(YieldedContents)) : i \in UsersOfYielded}

\* A list of which no more is known to be different from the one yielded.
Kept(list) ==
  /\ list \in Seq(Int) /\ Len(list) = Len(YieldedContents)
  /\ \A d \in 1..Len(list) : d \notin ClobberedElements => list[d] = YieldedContents[d]

LEMMA YieldedType ==
  ASSUME IInv
  PROVE  Yielded \in 0..Len(literals) /\ Len(literals) \in Nat /\ YieldedContents \in Seq(Int)
<1> USE DEF IInv
<1>1. Yielded \in 0..Len(literals)
  BY BlockType DEF Yielded, Typed, Static
<1>2. Len(literals) \in Nat
  BY DEF Typed
<1>3. YieldedContents \in Seq(Int)
  <2>1. CASE Yielded # 0
    <3>1. Yielded \in 1..Len(literals)
      BY <1>1, <2>1 DEF Typed
    <3>2. literals[Yielded] \in Literal
      BY <3>1 DEF Typed
    <3> QED  BY <2>1, <3>2 DEF YieldedContents, Literal
  <2> QED  BY <2>1 DEF YieldedContents, Static
<1> QED  BY <1>1, <1>2, <1>3

LEMMA AssignmentKeeps ==
  ASSUME BlockOK, NEW i \in UsersOfYielded, block[i].kind = "set", NEW list, Kept(list)
  PROVE  Kept(After(block[i], list))
<1> PICK o : o = block[i]
  OBVIOUS
<1> DEFINE n == Len(list)
           k == PositiveDim(o.idx, n) + 1
<1>1. o \in OpIR /\ o.kind = "set" /\ o.idx \in Int /\ o.el \in Int
  <2>1. o \in OpIR
    BY BlockType DEF UsersOfYielded
  <2> QED  BY <2>1 DEF OpIR
<1>2. list \in Seq(Int) /\ n \in Nat /\ n = Len(YieldedContents)
  BY DEF Kept
<1>5. PositiveDim(o.idx, n) \in Int
  BY <1>1, <1>2 DEF PositiveDim
<1>3. CASE k \in 1..n
  <2>1. PositiveDim(o.idx, n) \in 0..(n - 1)
    BY <1>2, <1>3, <1>5
  <2>2. After(o, list) = [list EXCEPT ![k] = o.el]
    BY <1>1, <2>1 DEF After
  <2>3. k \in Clobbered(i, n)
    BY <1>3 DEF Clobbered
  <2>4. k \in ClobberedElements
    BY <1>2, <2>3 DEF ClobberedElements
  <2> DEFINE new == [list EXCEPT ![k] = o.el]
  <2> HIDE DEF k, n
  <2>5. new \in Seq(Int)
    BY <1>1, <1>2, <1>3, AssignedIs
  <2>6. Len(new) = Len(list) /\ \A d \in 1..Len(list) : d # k => new[d] = list[d]
    BY <1>2
  <2> HIDE DEF new
  <2>7. Kept(new)
    BY <1>2, <2>4, <2>5, <2>6 DEF Kept
  <2> QED  BY <2>2, <2>7 DEF new
<1>4. CASE k \notin 1..n
  <2>1. ~ (PositiveDim(o.idx, n) \in 0..(n - 1))
    BY <1>2, <1>4, <1>5
  <2>2. After(o, list) = list
    BY <1>1, <2>1 DEF After
  <2> QED  BY <2>2
<1> QED  BY <1>3, <1>4

LEMMA YieldedIsKept ==
  ASSUME IInv, SizesAre, NEW tr \in Seq(Op), NEW n \in 1..Len(tr)
  PROVE  Kept(Rewritten(tr)[n][Yielded])
<1> DEFINE lists == [l \in 0..Len(literals) |-> IF l = 0 THEN elements ELSE literals[l].contents]
           new == Rewritten(tr)
           y == Yielded
<1>1. Len(tr) \in Nat /\ \A j \in 1..Len(tr) : tr[j] \in Op
  OBVIOUS
<1>2. new[1] = lists /\ \A j \in 1..Len(tr) : new[j + 1] = Stepped(block, tr[j], operand, new[j], erased)
  BY <1>1, RunIs DEF Rewritten
<1>3. y \in DOMAIN lists /\ lists[y] = YieldedContents
  BY YieldedType DEF YieldedContents
<1>4. Kept(YieldedContents)
  BY YieldedType DEF Kept
<1>5. BlockOK /\ \A i \in Op : block[i] \in OpIR
  BY BlockType DEF IInv, Static
<1> HIDE DEF lists, new, y
<1>6. ASSUME NEW j \in 1..Len(tr), y \in DOMAIN new[j], Kept(new[j][y])
      PROVE  y \in DOMAIN new[j + 1] /\ Kept(new[j + 1][y])
  <2> DEFINE i == tr[j]
             next1 == Stepped(block, i, operand, new[j], erased)
  <2>1. i \in Op /\ new[j + 1] = next1
    BY <1>1, <1>2
  <2>2. DOMAIN next1 = DOMAIN new[j]
    BY SteppedDomain
  <2>3. CASE i \in erased \/ block[i].kind = "fetch" \/ operand[i] # y
    <3>1. next1[y] = new[j][y]
      BY <1>6, <2>3, SteppedIs
    <3> QED  BY <1>6, <2>1, <2>2, <3>1
  <2>4. CASE i \notin erased /\ block[i].kind # "fetch" /\ operand[i] = y
    <3>1. next1[y] = After(block[i], new[j][y])
      BY <1>6, <2>4, SteppedIs
    <3>2. CASE MutatesList(i)
      <4>1. i \in UsersOfYielded
        BY <2>1, <2>4, <3>2 DEF UsersOfYielded, IsUser, y
      <4>2. block[i].kind = "set"
        BY <4>1 DEF SizesAre
      <4>3. Kept(After(block[i], new[j][y]))
        BY <1>5, <1>6, <4>1, <4>2, AssignmentKeeps
      <4> QED  BY <1>6, <2>1, <2>2, <3>1, <4>3
    <3>3. CASE ~ MutatesList(i)
      <4>1. block[i].kind \in {"read", "fetch"}
        <5>1. block[i].kind \in OpKind
          BY <1>5, <2>1 DEF OpIR
        <5> QED  BY <3>3, <5>1 DEF MutatesList, Mutating
      <4>2. After(block[i], new[j][y]) = new[j][y]
        BY <4>1, NothingIsChanged
      <4> QED  BY <1>6, <2>1, <2>2, <3>1, <4>2
    <3> QED  BY <3>2, <3>3
  <2> QED  BY <2>3, <2>4
<1> DEFINE T == {j \in Nat : j + 1 \in 1..Len(tr) => y \in DOMAIN new[j + 1] /\ Kept(new[j + 1][y])}
<1>7. 0 \in T
  BY <1>2, <1>3, <1>4
<1>8. ASSUME NEW k \in Nat, k \in T PROVE k + 1 \in T
  <2>1. SUFFICES ASSUME (k + 1) + 1 \in 1..Len(tr)
                 PROVE  y \in DOMAIN new[(k + 1) + 1] /\ Kept(new[(k + 1) + 1][y])
    OBVIOUS
  <2> DEFINE j == k + 1
  <2>2. j \in 1..Len(tr)
    BY <1>1, <2>1
  <2>3. y \in DOMAIN new[j] /\ Kept(new[j][y])
    BY <1>8, <2>2
  <2> HIDE DEF j
  <2>4. y \in DOMAIN new[j + 1] /\ Kept(new[j + 1][y])
    BY <1>6, <2>2, <2>3
  <2> QED  BY <2>4 DEF j
<1>9. Nat \subseteq T
  <2> HIDE DEF T
  <2> QED  BY <1>7, <1>8, SetInduction
<1>10. n - 1 \in Nat /\ (n - 1) + 1 = n
  BY <1>1
<1>11. Kept(new[n][y])
  BY <1>9, <1>10
<1> QED  BY <1>11 DEF new, y

\* The list that is yielded is the one there would have been.
LEMMA YieldedIsTheSame ==
  ASSUME RInv, Sized, status = "refined", Interpretable, NEW trips \in Nat
  PROVE  LET tr == Trace(block, trips)
         IN  Rewritten(tr)[Len(tr)][Yielded] = Original(block, tr)[Len(tr)][0]
<1> DEFINE tr == Trace(block, trips)
           L == Len(block)
<1>1. BlockOK /\ L \in Op /\ Op = 1..L /\ DOMAIN block = 1..L /\ block[L].kind = "read"
  BY BlockType DEF RInv, IInv, Static, BlockOK, Op
<1>2. Len(tr) \in Nat \ {0} /\ tr[Len(tr)] = L
  BY <1>1, TraceIs, TerminatorIsLast
<1>3. CASE literals = <<>>
  <2>1. erased = {} /\ operand = [i \in Op |-> 0]
    BY <1>3 DEF Sized
  <2>2. operand = NoUse(block) /\ Yielded = 0
    BY <1>1, <2>1 DEF NoUse, Yielded
  <2>3. [l \in 0..Len(literals) |-> IF l = 0 THEN elements ELSE literals[l].contents] = [l \in {0} |-> elements]
    BY <1>3
  <2>4. Rewritten(tr) = Original(block, tr)
    BY <2>1, <2>2, <2>3 DEF Rewritten, Original
  <2> QED  BY <2>2, <2>4
<1>4. CASE literals # <<>>
  <2>1. Finished
    BY <1>4 DEF Finished
  <2>2. Same(tr) /\ Complete
    BY <2>1, ListsAreTheSame, FinishedIsComplete
  <2>3. L \notin erased
    <3> SUFFICES ASSUME L \in erased PROVE FALSE
      OBVIOUS
    <3>1. HasLiteral(L)
      BY <1>1, <2>2, ErasedHaveLiterals
    <3> QED  BY <1>1, <3>1 DEF HasLiteral, HandledBefore, Handled
  <2>4. IsUser(L) /\ block[L].kind # "store"
    BY <1>1 DEF IsUser
  <2>5. DOMAIN tr = 1..Len(tr)
    <3>1. tr \in Seq(Op)
      BY <1>1, TraceIs DEF IsTrace
    <3> QED  BY <3>1
  <2> DEFINE k == Len(tr)
  <2>6. k \in DOMAIN tr /\ tr[k] = L
    BY <1>2, <2>5
  <2> HIDE DEF tr, k, L
  <2>7. Rewritten(tr)[k][operand[tr[k]]] = Original(block, tr)[k][0]
    BY <2>2, <2>3, <2>4, <2>6 DEF Same
  <2> QED  BY <2>6, <2>7 DEF k, tr, L, Yielded
<1> QED  BY <1>3, <1>4

\* What is known of a size is true of the list that the block yields: the literal is that list
\* (Soundness), and what may still change it is only what assigns elements.
THEOREM SizesAreRight == Spec => []RefinedSizesAreRight
<1>1. RInv /\ Sized /\ SameOps => RefinedSizesAreRight
  <2> SUFFICES ASSUME RInv, Sized, SameOps, status = "refined", Interpretable, NEW trips \in Runs
               PROVE  LET trace == Trace(source, trips)
                          yielded == Original(source, trace)[Len(trace)][0]
                      IN  /\ Len(sizes) = Len(yielded)
                          /\ \A d \in DOMAIN sizes : sizes[d] \in {Unknown, yielded[d]}
    BY DEF RefinedSizesAreRight
  <2> DEFINE s == Trace(source, trips)
             t == Trace(block, trips)
             n == Len(s)
             old == Original(source, s)
  <2>1. source \in Seq(OpIR) /\ Len(source) # 0 /\ block \in Seq(OpIR) /\ Len(block) # 0 /\ BlockOK
    BY ListAssumption, BlockType DEF RInv, IInv, Static, BlockOK
  <2>2. trips \in Nat
    BY RunsAreNumbers DEF RInv, IInv
  <2>3. s \in Seq(1..Len(source)) /\ t \in Seq(1..Len(block)) /\ Ops(source, s) = Ops(block, t)
    BY <2>1, <2>2, TraceType DEF SameOps
  <2>4. Len(t) \in Nat \ {0}
    BY <2>1, <2>2, TraceIs, TerminatorIsLast
  <2>5. Rewritten(t)[Len(t)][Yielded] = Original(block, t)[Len(t)][0]
    BY <2>2, YieldedIsTheSame
  <2>6. t \in Seq(Op)
    BY <2>3 DEF Op
  <2> HIDE DEF s, t, n
  <2>7. Len(s) = Len(t)
    BY <2>1, <2>3, OpsType
  <2>8. n = Len(t) /\ n \in 1..Len(s) /\ n \in 1..Len(t)
    BY <2>4, <2>7 DEF n
  <2>9. old[n][0] = Original(block, t)[n][0]
    BY <2>1, <2>3, <2>8, SameLists
  <2>10. SizesAre /\ IInv
    BY DEF Sized, RInv
  <2>11. Kept(Rewritten(t)[n][Yielded])
    BY <2>6, <2>8, <2>10, YieldedIsKept
  <2>12. Kept(old[n][0])
    BY <2>5, <2>8, <2>9, <2>11
  <2> DEFINE list == old[n][0]
             Y == YieldedContents
  <2> HIDE DEF list
  <2>13. /\ list \in Seq(Int) /\ Len(list) = Len(Y)
         /\ \A d \in 1..Len(list) : d \notin ClobberedElements => list[d] = Y[d]
    BY <2>12 DEF Kept, list
  <2>14. sizes = [d \in 1..Len(Y) |-> IF d \in ClobberedElements THEN Unknown ELSE Y[d]]
    BY <2>10 DEF SizesAre, ClobberedElements
  <2> HIDE DEF Y
  <2>15. Len(list) \in Nat /\ DOMAIN sizes = 1..Len(list)
    BY <2>13, <2>14
  <2>16. Len(sizes) = Len(list)
    BY <2>15, <2>10 DEF IInv, Typed
  <2>17. ASSUME NEW d \in DOMAIN sizes PROVE sizes[d] \in {Unknown, list[d]}
    BY <2>13, <2>14, <2>15
  <2> QED  BY <2>16, <2>17 DEF list, n, s
<1> QED  BY <1>1, RewritingInvariant, SizedInvariant, OpsStayTheSame, PTL
=============================================================================
