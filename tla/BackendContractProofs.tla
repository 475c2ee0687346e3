----------------------- MODULE BackendContractProofs -----------------------
(***************************************************************************)
(* Proofs about torch-lower-to-backend-contract, for all programs, all     *)
(* options and any order of rewrites.                                      *)
(***************************************************************************)
EXTENDS BackendContractMeaning, FiniteSetTheorems, WellFoundedInduction, TLAPS

(***************************************************************************)
(* The meet of compatible tensor types.                                    *)
(***************************************************************************)
\* meetTensorTypes gives a tensor type.
LEMMA MeetType ==
  ASSUME NEW lhs, NEW rhs, IsTensorType(lhs), IsTensorType(rhs), Compatible(lhs, rhs)
  PROVE  IsTensorType(Meet(lhs, rhs))
<1> DEFINE m == Meet(lhs, rhs)
<1>1. m.value \in BOOLEAN /\ m.dtype \in SUBSET Nat
  BY DEF Meet, IsTensorType, TensorType
<1>2. \A r \in lhs.sizes, s \in rhs.sizes : MeetSizes(r, s) \in Sizes
  <2> TAKE r \in lhs.sizes, s \in rhs.sizes
  <2>1. r \in Seq(Int) /\ s \in Seq(Int) /\ Len(r) = Len(s)
    BY DEF IsTensorType, TensorType, Sizes, Compatible, SizesAgree
  <2>2. DOMAIN r = 1..Len(r) /\ DOMAIN s = 1..Len(s) /\ Len(r) \in Nat
    BY <2>1
  <2>3. \A k \in DOMAIN r : r[k] \in Int /\ s[k] \in Int
    BY <2>1, <2>2
  <2>4. MeetSizes(r, s) \in [1..Len(r) -> Int]
    BY <2>2, <2>3 DEF MeetSizes
  <2> QED  BY <2>2, <2>4 DEF Sizes
<1>3. m.sizes \in SUBSET Sizes
  BY <1>2 DEF Meet, IsTensorType, TensorType
<1>4. \A r, s \in m.sizes : r = s
  BY DEF Meet, IsTensorType
<1>5. \A d, e \in m.dtype : d = e
  BY DEF Meet, IsTensorType, Compatible
<1>6. m = [value |-> m.value, sizes |-> m.sizes, dtype |-> m.dtype]
  BY DEF Meet
<1> QED  BY <1>1, <1>3, <1>4, <1>5, <1>6 DEF IsTensorType, TensorType

\* The meet of sizes that agree is at least as precise as each of them.
LEMMA MeetSizesBelow ==
  ASSUME NEW r \in Sizes, NEW s \in Sizes, SizesAgree(r, s)
  PROVE  IsSubsizes(MeetSizes(r, s), r) /\ IsSubsizes(MeetSizes(r, s), s)
<1>1. Len(r) = Len(s) /\ DOMAIN r = 1..Len(r) /\ DOMAIN s = 1..Len(r) /\ Len(r) \in Nat
  BY DEF Sizes, SizesAgree
<1>2. Len(MeetSizes(r, s)) = Len(r)
  BY <1>1 DEF MeetSizes
<1>3. \A k \in 1..Len(r) : r[k] = s[k] \/ r[k] = UnknownSize \/ s[k] = UnknownSize
  BY <1>1 DEF SizesAgree
<1>4. \A k \in 1..Len(r) : MeetSizes(r, s)[k] = IF r[k] = UnknownSize THEN s[k] ELSE r[k]
  BY <1>1 DEF MeetSizes
<1> QED  BY <1>1, <1>2, <1>3, <1>4 DEF IsSubsizes

\* A tensor type is a subtype of itself.
LEMMA SubtypeReflexive ==
  ASSUME NEW t, IsTensorType(t)
  PROVE  IsValidSubtype(t, t)
BY DEF IsValidSubtype, IsTensorType, IsSubsizes

(***************************************************************************)
(* meetTensorTypes gives a lower bound: a subtype of both types, if they   *)
(* have value semantics or sizes.                                          *)
(***************************************************************************)
THEOREM MeetIsLowerBound ==
  ASSUME NEW lhs, NEW rhs, IsTensorType(lhs), IsTensorType(rhs), Compatible(lhs, rhs),
         lhs.value = rhs.value, lhs.value \/ lhs.sizes # {} \/ rhs.sizes # {}
  PROVE  IsValidSubtype(Meet(lhs, rhs), lhs) /\ IsValidSubtype(Meet(lhs, rhs), rhs)
<1> DEFINE m == Meet(lhs, rhs)
<1>1. m.value = lhs.value /\ m.value = rhs.value
  BY DEF Meet, IsTensorType, TensorType
<1>2. lhs.dtype \subseteq m.dtype /\ rhs.dtype \subseteq m.dtype
  BY DEF Meet
<1>3. ASSUME lhs.sizes = {} \/ rhs.sizes = {}
      PROVE  /\ \A r \in lhs.sizes : m.sizes # {} /\ \A s \in m.sizes : IsSubsizes(s, r)
             /\ \A r \in rhs.sizes : m.sizes # {} /\ \A s \in m.sizes : IsSubsizes(s, r)
  BY <1>3 DEF Meet, IsTensorType, IsSubsizes
<1>4. ASSUME NEW r \in lhs.sizes, NEW s \in rhs.sizes
      PROVE  m.sizes # {} /\ \A u \in m.sizes : IsSubsizes(u, r) /\ IsSubsizes(u, s)
  <2>1. m.sizes = {MeetSizes(a, b) : a \in lhs.sizes, b \in rhs.sizes}
    BY <1>4 DEF Meet
  <2>2. MeetSizes(r, s) \in m.sizes
    BY <1>4, <2>1
  <2>3. \A u \in m.sizes : u = MeetSizes(r, s)
    BY <1>4, <2>1 DEF IsTensorType
  <2>4. r \in Sizes /\ s \in Sizes /\ SizesAgree(r, s)
    BY <1>4 DEF IsTensorType, TensorType, Compatible
  <2> QED  BY <2>2, <2>3, <2>4, MeetSizesBelow
<1> QED  BY <1>1, <1>2, <1>3, <1>4 DEF IsValidSubtype

(***************************************************************************)
(* The meet is the greatest lower bound: a tensor that both types describe *)
(* is described by it, so that nothing is claimed that neither type says.  *)
(***************************************************************************)
THEOREM MeetDescribes ==
  ASSUME NEW lhs, NEW rhs, IsTensorType(lhs), IsTensorType(rhs), Compatible(lhs, rhs),
         NEW tensor, tensor.sizes \in Sizes, Describes(lhs, tensor), Describes(rhs, tensor)
  PROVE  Describes(Meet(lhs, rhs), tensor)
<1> DEFINE m == Meet(lhs, rhs)
<1>1. \A d \in m.dtype : d = tensor.dtype
  BY DEF Meet, Describes
<1>2. CASE lhs.sizes = {} \/ rhs.sizes = {}
  BY <1>1, <1>2 DEF Meet, Describes
<1>3. CASE lhs.sizes # {} /\ rhs.sizes # {}
  <2>1. m.sizes = {MeetSizes(a, b) : a \in lhs.sizes, b \in rhs.sizes}
    BY <1>3 DEF Meet
  <2>2. ASSUME NEW r \in lhs.sizes, NEW s \in rhs.sizes
        PROVE  IsSubsizes(tensor.sizes, MeetSizes(r, s))
    <3>1. r \in Sizes /\ s \in Sizes /\ Len(r) = Len(s)
      BY <2>2 DEF IsTensorType, TensorType, Compatible, SizesAgree
    <3>2. IsSubsizes(tensor.sizes, r) /\ IsSubsizes(tensor.sizes, s)
      BY <2>2 DEF Describes
    <3>3. DOMAIN r = 1..Len(r) /\ DOMAIN s = 1..Len(r) /\ Len(r) \in Nat
      BY <3>1 DEF Sizes
    <3>4. /\ Len(MeetSizes(r, s)) = Len(r) /\ DOMAIN MeetSizes(r, s) = 1..Len(r)
          /\ \A k \in 1..Len(r) : MeetSizes(r, s)[k] = IF r[k] = UnknownSize THEN s[k] ELSE r[k]
      BY <3>3 DEF MeetSizes
    <3> QED  BY <3>2, <3>3, <3>4 DEF IsSubsizes
  <2> QED  BY <1>1, <2>1, <2>2 DEF Describes
<1> QED  BY <1>2, <1>3

(***************************************************************************)
(* The functions of the library.                                           *)
(***************************************************************************)
\* The rank of the result of a broadcast, and its sizes.
LEMMA BroadcastSizes ==
  ASSUME NEW r \in Sizes, NEW s \in Sizes
  PROVE  LET rank == IF Len(r) > Len(s) THEN Len(r) ELSE Len(s)
         IN  /\ rank \in Nat /\ Broadcast(r, s) \in Sizes
             /\ Len(Broadcast(r, s)) = rank /\ DOMAIN Broadcast(r, s) = 1..rank
             /\ \A k \in 1..rank : Broadcast(r, s)[k] =
                  IF SizeFromRight(r, rank, k) = 1 THEN SizeFromRight(s, rank, k) ELSE SizeFromRight(r, rank, k)
<1> DEFINE rank == IF Len(r) > Len(s) THEN Len(r) ELSE Len(s)
<1>1. rank \in Nat /\ rank >= Len(r) /\ rank >= Len(s) /\ Len(r) \in Nat /\ Len(s) \in Nat
  BY DEF Sizes
<1>2. \A k \in 1..rank : SizeFromRight(r, rank, k) \in Int /\ SizeFromRight(s, rank, k) \in Int
  <2> HIDE DEF rank
  <2>1. ASSUME NEW x \in Seq(Int), Len(x) <= rank, NEW k \in 1..rank
        PROVE  SizeFromRight(x, rank, k) \in Int
    <3>1. k + Len(x) > rank => k + Len(x) - rank \in 1..Len(x)
      BY <1>1, <2>1
    <3>2. \A i \in 1..Len(x) : x[i] \in Int
      BY <2>1
    <3> QED  BY <3>1, <3>2 DEF SizeFromRight
  <2> QED  BY <1>1, <2>1 DEF Sizes
<1>3. Broadcast(r, s) = [k \in 1..rank |->
        IF SizeFromRight(r, rank, k) = 1 THEN SizeFromRight(s, rank, k) ELSE SizeFromRight(r, rank, k)]
  BY DEF Broadcast
<1> HIDE DEF rank
<1>4. Broadcast(r, s) \in [1..rank -> Int]
  BY <1>2, <1>3
<1>5. Broadcast(r, s) \in Sizes /\ Len(Broadcast(r, s)) = rank
  BY <1>1, <1>4 DEF Sizes
<1>6. /\ rank \in Nat /\ Broadcast(r, s) \in Sizes
      /\ Len(Broadcast(r, s)) = rank /\ DOMAIN Broadcast(r, s) = 1..rank
      /\ \A k \in 1..rank : Broadcast(r, s)[k] =
           IF SizeFromRight(r, rank, k) = 1 THEN SizeFromRight(s, rank, k) ELSE SizeFromRight(r, rank, k)
  BY <1>1, <1>3, <1>5
<1> QED  BY <1>6 DEF rank

\* Seen from the right, sizes that describe others describe each of them.
LEMMA FromRightDescribes ==
  ASSUME NEW r \in Sizes, NEW c \in Sizes, IsSubsizes(c, r), NEW rank \in Nat, rank >= Len(r), NEW k \in 1..rank
  PROVE  \/ SizeFromRight(r, rank, k) = UnknownSize
         \/ SizeFromRight(r, rank, k) = SizeFromRight(c, rank, k)
<1>1. Len(r) \in Nat /\ Len(c) = Len(r) /\ DOMAIN r = 1..Len(r)
  BY DEF Sizes, IsSubsizes
<1>2. CASE k + Len(r) > rank
  <2>1. k + Len(r) - rank \in DOMAIN r
    BY <1>1, <1>2
  <2> QED  BY <1>1, <1>2, <2>1 DEF SizeFromRight, IsSubsizes
<1>3. CASE ~(k + Len(r) > rank)
  BY <1>1, <1>3 DEF SizeFromRight
<1> QED  BY <1>2, <1>3

(***************************************************************************)
(* The broadcast of what is known of two shapes describes their broadcast. *)
(***************************************************************************)
THEOREM BroadcastDescribes ==
  ASSUME NEW r \in Sizes, NEW s \in Sizes, NEW c \in Sizes, NEW d \in Sizes,
         IsSubsizes(c, r), IsSubsizes(d, s)
  PROVE  IsSubsizes(Broadcast(c, d), Broadcast(r, s))
<1> DEFINE rank == IF Len(r) > Len(s) THEN Len(r) ELSE Len(s)
<1>1. /\ Len(c) = Len(r) /\ Len(d) = Len(s) /\ Len(r) \in Nat /\ Len(s) \in Nat
      /\ rank \in Nat /\ rank >= Len(r) /\ rank >= Len(s)
  BY DEF IsSubsizes, Sizes
<1>2. /\ Len(Broadcast(r, s)) = rank /\ DOMAIN Broadcast(r, s) = 1..rank
      /\ \A k \in 1..rank : Broadcast(r, s)[k] =
           IF SizeFromRight(r, rank, k) = 1 THEN SizeFromRight(s, rank, k) ELSE SizeFromRight(r, rank, k)
  BY BroadcastSizes
<1>3. /\ Len(Broadcast(c, d)) = rank
      /\ \A k \in 1..rank : Broadcast(c, d)[k] =
           IF SizeFromRight(c, rank, k) = 1 THEN SizeFromRight(d, rank, k) ELSE SizeFromRight(c, rank, k)
  BY <1>1, BroadcastSizes
<1>4. \A k \in 1..rank : /\ \/ SizeFromRight(r, rank, k) = UnknownSize
                            \/ SizeFromRight(r, rank, k) = SizeFromRight(c, rank, k)
                         /\ \/ SizeFromRight(s, rank, k) = UnknownSize
                            \/ SizeFromRight(s, rank, k) = SizeFromRight(d, rank, k)
  BY <1>1, FromRightDescribes
<1> HIDE DEF rank
<1>5. \A k \in 1..rank : Broadcast(r, s)[k] = UnknownSize \/ Broadcast(r, s)[k] = Broadcast(c, d)[k]
  BY <1>2, <1>3, <1>4 DEF UnknownSize
<1> QED  BY <1>2, <1>3, <1>5 DEF IsSubsizes

(***************************************************************************)
(* The inductive invariant.                                                *)
(***************************************************************************)
Static == program \in Programs /\ options \in Options

\* A value is still defined by its op, or by what that was decomposed into.
KindOK ==
  \A v \in Value(program) :
    \/ kind[v] = program.ops[v].kind
    \/ kind[v] = "unary" /\ program.ops[v].kind = "complex"

IInv == Static /\ TypeOK /\ KindOK

\* The operands of a value are values before it.
LEMMA Operands ==
  ASSUME Static, KindOK, NEW v \in Value(program)
  PROVE  /\ kind[v] \in {"unary", "complex"} => Args(v)[1] \in Value(program)
         /\ kind[v] = "binary" => Args(v)[1] \in Value(program) /\ Args(v)[2] \in Value(program)
<1>1. ProgramIR(program)
  BY ProgramsAssumption DEF Static
<1>2. program.ops[v] \in [kind: Kind, args: Seq(Nat)] /\ v \in 1..Len(program.ops) /\ Len(program.ops) \in Nat
      /\ Value(program) = 1..Len(program.ops)
  <2> DEFINE Op == [kind: Kind, args: Seq(Nat)]
  <2>1. program.ops \in Seq(Op)
    BY <1>1 DEF ProgramIR
  <2> HIDE DEF Op
  <2>2. Len(program.ops) \in Nat /\ Value(program) = 1..Len(program.ops)
    BY <2>1 DEF Value
  <2>3. \A i \in 1..Len(program.ops) : program.ops[i] \in Op
    BY <2>1
  <2> QED  BY <2>2, <2>3 DEF Op
<1>3. DOMAIN Args(v) = 1..Len(Args(v)) /\ Len(Args(v)) \in Nat
  BY <1>2 DEF Args
<1>4. /\ Len(Args(v)) = Arity(program.ops[v].kind)
      /\ \A k \in DOMAIN Args(v) : Args(v)[k] \in Value(program)
  BY <1>1, <1>2 DEF ProgramIR, Args
<1>5. ASSUME kind[v] \in {"unary", "complex"}
      PROVE  Args(v)[1] \in Value(program)
  <2>1. Len(Args(v)) = 1
    BY <1>4, <1>5 DEF KindOK, Arity
  <2> QED  BY <1>3, <1>4, <2>1
<1>6. ASSUME kind[v] = "binary"
      PROVE  Args(v)[1] \in Value(program) /\ Args(v)[2] \in Value(program)
  <2>1. Len(Args(v)) = 2
    BY <1>4, <1>6 DEF KindOK, Arity
  <2> QED  BY <1>3, <1>4, <2>1
<1> QED  BY <1>5, <1>6

\* The last value exists.
LEMMA LastIsAValue ==
  ASSUME Static
  PROVE  Last \in Value(program)
<1>1. ProgramIR(program)
  BY ProgramsAssumption DEF Static
<1>2. program.ops \in Seq([kind: Kind, args: Seq(Nat)]) /\ program.ops # <<>>
  BY <1>1 DEF ProgramIR
<1> QED  BY <1>2 DEF Last, Value

\* What is inferred are sizes and a dtype.
LEMMA ImpliedTypes ==
  ASSUME IInv, NEW v \in Value(program)
  PROVE  /\ ImpliedSizes(kind[v], Args(v), type) \subseteq Sizes
         /\ ImpliedDtypes(kind[v], Args(v), type) \subseteq Nat
<1>1. \A w \in Value(program) : type[w].sizes \subseteq Sizes /\ type[w].dtype \subseteq Nat
  BY DEF IInv, TypeOK, IsTensorType, TensorType
<1>2. CASE kind[v] = "unary"
  BY <1>1, <1>2, Operands DEF IInv, ImpliedSizes, ImpliedDtypes
<1>3. CASE kind[v] = "binary"
  <2>1. Args(v)[1] \in Value(program) /\ Args(v)[2] \in Value(program)
    BY <1>3, Operands DEF IInv
  <2>2. ImpliedSizes(kind[v], Args(v), type) \subseteq Sizes
    BY <1>1, <1>3, <2>1, BroadcastSizes DEF ImpliedSizes
  <2>3. \A d, e \in Nat : \A r, s : Promote(r, d, s, e) \in Nat
    BY DEF Promote
  <2>4. ImpliedDtypes(kind[v], Args(v), type) \subseteq Nat
    BY <1>1, <1>3, <2>1, <2>3 DEF ImpliedDtypes
  <2> QED  BY <2>2, <2>4
<1>4. CASE kind[v] \notin {"unary", "binary"}
  BY <1>4 DEF ImpliedSizes, ImpliedDtypes
<1> QED  BY <1>2, <1>3, <1>4

\* A type that is refined is the meet of the old one and one that differs from
\* it in its sizes or in its dtype only.
LEMMA SizesRefined ==
  ASSUME IInv, NEW v \in Value(program), NEW t \in SizeRefinements(v)
  PROVE  \E s \in ImpliedSizes(kind[v], Args(v), type) :
           LET new == [type[v] EXCEPT !.sizes = {s}]
           IN  IsTensorType(new) /\ new.value = type[v].value /\ new.dtype = type[v].dtype /\ new.sizes = {s}
               /\ Compatible(type[v], new) /\ t = Meet(type[v], new)
<1>1. PICK s \in ImpliedSizes(kind[v], Args(v), type) : t \in Refinements(type[v], [type[v] EXCEPT !.sizes = {s}])
  BY DEF SizeRefinements
<1>2. s \in Sizes
  BY ImpliedTypes
<1>3. IsTensorType(type[v])
  BY DEF IInv, TypeOK
<1>4. IsTensorType([type[v] EXCEPT !.sizes = {s}])
  BY <1>2, <1>3 DEF IsTensorType, TensorType
<1>5. /\ Compatible(type[v], [type[v] EXCEPT !.sizes = {s}])
      /\ t = Meet(type[v], [type[v] EXCEPT !.sizes = {s}])
  BY <1>1 DEF Refinements
<1>6. /\ [type[v] EXCEPT !.sizes = {s}].value = type[v].value
      /\ [type[v] EXCEPT !.sizes = {s}].dtype = type[v].dtype
      /\ [type[v] EXCEPT !.sizes = {s}].sizes = {s}
  BY <1>3 DEF IsTensorType, TensorType
<1> QED  BY <1>1, <1>4, <1>5, <1>6

LEMMA DtypeRefined ==
  ASSUME IInv, NEW v \in Value(program), NEW t \in DtypeRefinements(v)
  PROVE  \E d \in ImpliedDtypes(kind[v], Args(v), type) :
           LET new == [type[v] EXCEPT !.dtype = {d}]
           IN  IsTensorType(new) /\ new.value = type[v].value /\ new.sizes = type[v].sizes /\ new.dtype = {d}
               /\ Compatible(type[v], new) /\ t = Meet(type[v], new)
<1>1. PICK d \in ImpliedDtypes(kind[v], Args(v), type) : t \in Refinements(type[v], [type[v] EXCEPT !.dtype = {d}])
  BY DEF DtypeRefinements
<1>2. d \in Nat
  BY ImpliedTypes
<1>3. IsTensorType(type[v])
  BY DEF IInv, TypeOK
<1>4. IsTensorType([type[v] EXCEPT !.dtype = {d}])
  BY <1>2, <1>3 DEF IsTensorType, TensorType
<1>5. /\ Compatible(type[v], [type[v] EXCEPT !.dtype = {d}])
      /\ t = Meet(type[v], [type[v] EXCEPT !.dtype = {d}])
  BY <1>1 DEF Refinements
<1>6. /\ [type[v] EXCEPT !.dtype = {d}].value = type[v].value
      /\ [type[v] EXCEPT !.dtype = {d}].sizes = type[v].sizes
      /\ [type[v] EXCEPT !.dtype = {d}].dtype = {d}
  BY <1>3 DEF IsTensorType, TensorType
<1> QED  BY <1>1, <1>4, <1>5, <1>6

(***************************************************************************)
(* Type correctness.                                                       *)
(***************************************************************************)
LEMMA InitIInv == Init => IInv
<1> SUFFICES ASSUME Init PROVE IInv
  OBVIOUS
<1>1. Static
  BY DEF Init, Static
<1>2. ProgramIR(program)
  BY <1>1, ProgramsAssumption DEF Static
<1>3. KindOK
  BY DEF Init, KindOK
<1>4. \A v \in Value(program) : program.ops[v].kind \in Kind
  <2> DEFINE Op == [kind: Kind, args: Seq(Nat)]
  <2>1. program.ops \in Seq(Op)
    BY <1>2 DEF ProgramIR
  <2>2. \A op \in Op : op.kind \in Kind
    OBVIOUS
  <2> HIDE DEF Op
  <2>3. \A v \in Value(program) : program.ops[v] \in Op
    BY <2>1 DEF Value
  <2> QED  BY <2>2, <2>3
<1>5. kind \in [Value(program) -> Kind]
  BY <1>4 DEF Init
<1>6. /\ DOMAIN type = Value(program) /\ \A v \in Value(program) : IsTensorType(type[v])
      /\ DOMAIN cast = Value(program) /\ \A v \in Value(program) : \A t \in cast[v] : IsTensorType(t)
  BY <1>2 DEF Init, ProgramIR
<1>7. IsTensorType(returned)
  BY <1>1, <1>2, LastIsAValue DEF Init, ProgramIR
<1>8. phase \in Phase /\ iterations \in 0..CounterBound
  BY CounterAssumption DEF Init, Phase
<1> QED  BY <1>1, <1>3, <1>5, <1>6, <1>7, <1>8 DEF IInv, TypeOK

\* A refined type is a tensor type.
LEMMA RefinedType ==
  ASSUME IInv, NEW v \in Value(program), NEW t \in SizeRefinements(v) \cup DtypeRefinements(v)
  PROVE  IsTensorType(t)
<1>1. IsTensorType(type[v])
  BY DEF IInv, TypeOK
<1>2. CASE t \in SizeRefinements(v)
  <2>1. PICK s \in ImpliedSizes(kind[v], Args(v), type) :
          LET new == [type[v] EXCEPT !.sizes = {s}]
          IN  IsTensorType(new) /\ Compatible(type[v], new) /\ t = Meet(type[v], new)
    BY <1>2, SizesRefined
  <2> QED  BY <1>1, <2>1, MeetType
<1>3. CASE t \in DtypeRefinements(v)
  <2>1. PICK d \in ImpliedDtypes(kind[v], Args(v), type) :
          LET new == [type[v] EXCEPT !.dtype = {d}]
          IN  IsTensorType(new) /\ Compatible(type[v], new) /\ t = Meet(type[v], new)
    BY <1>3, DtypeRefined
  <2> QED  BY <1>1, <2>1, MeetType
<1> QED  BY <1>2, <1>3

LEMMA UpdateIInv ==
  ASSUME IInv, NEW v \in Value(program), NEW t, IsTensorType(t), UpdateResultType(v, t)
  PROVE  IInv'
<1>1. /\ DOMAIN type' = Value(program)
      /\ \A w \in Value(program) : type'[w] = IF w = v THEN t ELSE type[w]
  BY DEF IInv, TypeOK, UpdateResultType
<1>2. /\ DOMAIN cast' = Value(program)
      /\ \A w \in Value(program) : cast'[w] = cast[w] \/ cast'[w] = {type[w]}
  BY DEF IInv, TypeOK, UpdateResultType
<1>3. \A w \in Value(program) : IsTensorType(type'[w]) /\ \A u \in cast'[w] : IsTensorType(u)
  BY <1>1, <1>2 DEF IInv, TypeOK
<1>4. UNCHANGED <<program, options, kind, returned, phase, iterations>>
  BY DEF UpdateResultType
<1>5. Static' /\ KindOK'
  BY <1>4 DEF IInv, Static, KindOK
<1>6. TypeOK'
  BY <1>1, <1>2, <1>3, <1>4 DEF IInv, TypeOK
<1> QED  BY <1>5, <1>6 DEF IInv

LEMMA NextIInv == IInv /\ [Next]_vars => IInv'
<1> SUFFICES ASSUME IInv, [Next]_vars PROVE IInv'
  OBVIOUS
<1>1. CASE BeginIteration
  <2>1. Static' /\ KindOK'
    BY <1>1 DEF BeginIteration, IInv, Static, KindOK
  <2>2. phase' \in Phase /\ iterations' \in 0..CounterBound
    BY <1>1, CounterAssumption DEF BeginIteration, IInv, TypeOK, Phase
  <2>3. TypeOK'
    BY <1>1, <2>2 DEF BeginIteration, IInv, TypeOK
  <2> QED  BY <2>1, <2>3 DEF IInv
<1>2. CASE RefinePublicReturn
  <2>1. Static' /\ KindOK'
    BY <1>2 DEF RefinePublicReturn, IInv, Static, KindOK
  <2>2. IsTensorType(type[Last])
    BY LastIsAValue DEF IInv, TypeOK
  <2>3. IsTensorType([type[Last] EXCEPT !.value = TRUE])
    BY <2>2 DEF IsTensorType, TensorType
  <2>4. IsTensorType(returned')
    BY <1>2, <2>3 DEF RefinePublicReturn, IInv, TypeOK
  <2>5. phase' \in Phase
    BY <1>2 DEF RefinePublicReturn, Phase
  <2>6. TypeOK'
    BY <1>2, <2>4, <2>5 DEF RefinePublicReturn, IInv, TypeOK
  <2> QED  BY <2>1, <2>6 DEF IInv
<1>3. CASE NextPass
  <2>1. phase' \in Phase
    BY <1>3 DEF NextPass, Phase
  <2>2. UNCHANGED <<program, options, kind, type, cast, returned, iterations>>
    BY <1>3 DEF NextPass
  <2> QED  BY <2>1, <2>2 DEF IInv, Static, KindOK, TypeOK
<1>4. CASE CheckContract
  <2>1. phase' \in Phase
    BY <1>4 DEF CheckContract, Phase
  <2>2. UNCHANGED <<program, options, kind, type, cast, returned, iterations>>
    BY <1>4 DEF CheckContract
  <2> QED  BY <2>1, <2>2 DEF IInv, Static, KindOK, TypeOK
<1>5. ASSUME NEW v \in Value(program), RefineSizes(v)
      PROVE  IInv'
  BY <1>5, RefinedType, UpdateIInv DEF RefineSizes
<1>6. ASSUME NEW v \in Value(program), RefineDtype(v)
      PROVE  IInv'
  BY <1>6, RefinedType, UpdateIInv DEF RefineDtype
<1>7. ASSUME NEW v \in Value(program), DecomposeOp(v)
      PROVE  IInv'
  <2>1. /\ kind' \in [Value(program) -> Kind]
        /\ \A w \in Value(program) : kind'[w] = IF w = v THEN "unary" ELSE kind[w]
    BY <1>7 DEF DecomposeOp, IInv, TypeOK, Kind
  <2>2. UNCHANGED <<program, options, type, cast, returned, phase, iterations>>
    BY <1>7 DEF DecomposeOp
  <2>3. kind[v] = "complex"
    BY <1>7 DEF DecomposeOp, Decomposable
  <2>4. Static'
    BY <2>2 DEF IInv, Static
  <2>5. KindOK'
    BY <2>1, <2>2, <2>3 DEF IInv, KindOK
  <2>6. TypeOK'
    BY <2>1, <2>2 DEF IInv, TypeOK
  <2> QED  BY <2>4, <2>5, <2>6 DEF IInv
<1>8. CASE UNCHANGED vars
  BY <1>8 DEF vars, IInv, Static, KindOK, TypeOK
<1> QED  BY <1>1, <1>2, <1>3, <1>4, <1>5, <1>6, <1>7, <1>8 DEF Next

LEMMA AlwaysIInv == Spec => []IInv
BY InitIInv, NextIInv, PTL DEF Spec

(***************************************************************************)
(* The pass keeps its state well typed: no type ever gets two ranks or two *)
(* dtypes.                                                                 *)
(***************************************************************************)
THEOREM TypeCorrect == Spec => []TypeOK
<1>1. IInv => TypeOK
  BY DEF IInv
<1> QED  BY <1>1, AlwaysIInv, PTL

(***************************************************************************)
(* Every step of the pass leaves every value with a subtype of its type.   *)
(***************************************************************************)
\* A refined type is a subtype of the old one.
LEMMA RefinedIsSubtype ==
  ASSUME IInv, NEW v \in Value(program), NEW t \in SizeRefinements(v) \cup DtypeRefinements(v),
         type[v].value \/ type[v].sizes # {}
  PROVE  IsValidSubtype(t, type[v])
<1>1. IsTensorType(type[v])
  BY DEF IInv, TypeOK
<1>2. CASE t \in SizeRefinements(v)
  <2>1. PICK s \in ImpliedSizes(kind[v], Args(v), type) :
          LET new == [type[v] EXCEPT !.sizes = {s}]
          IN  /\ IsTensorType(new) /\ new.value = type[v].value
              /\ Compatible(type[v], new) /\ t = Meet(type[v], new)
    BY <1>2, SizesRefined
  <2> QED  BY <1>1, <2>1, MeetIsLowerBound
<1>3. CASE t \in DtypeRefinements(v)
  <2>1. PICK d \in ImpliedDtypes(kind[v], Args(v), type) :
          LET new == [type[v] EXCEPT !.dtype = {d}]
          IN  /\ IsTensorType(new) /\ new.value = type[v].value
              /\ Compatible(type[v], new) /\ t = Meet(type[v], new)
    BY <1>3, DtypeRefined
  <2> QED  BY <1>1, <2>1, MeetIsLowerBound
<1> QED  BY <1>2, <1>3

\* A step of the pass gives every value a subtype of the type it had.
THEOREM Precision == Spec => TypesOnlyGetMorePrecise
<1> DEFINE Kept == \A v \in Value(program) :
                     (type[v].value \/ type[v].sizes # {}) => IsValidSubtype(type'[v], type[v])
<1>1. IInv /\ [Next]_vars => Kept
  <2> SUFFICES ASSUME IInv, [Next]_vars PROVE Kept
    OBVIOUS
  <2>1. \A w \in Value(program) : IsValidSubtype(type[w], type[w])
    BY SubtypeReflexive DEF IInv, TypeOK
  <2>2. CASE UNCHANGED type
    BY <2>1, <2>2
  <2>3. ASSUME NEW v \in Value(program), NEW t \in SizeRefinements(v) \cup DtypeRefinements(v),
               UpdateResultType(v, t)
        PROVE  Kept
    <3>1. \A w \in Value(program) : type'[w] = IF w = v THEN t ELSE type[w]
      BY <2>3 DEF IInv, TypeOK, UpdateResultType
    <3> QED  BY <2>1, <2>3, <3>1, RefinedIsSubtype
  <2>4. ASSUME NEW v \in Value(program), RefineSizes(v) \/ RefineDtype(v)
        PROVE  Kept
    BY <2>3, <2>4 DEF RefineSizes, RefineDtype
  <2>5. CASE BeginIteration \/ RefinePublicReturn \/ NextPass \/ CheckContract
    BY <2>2, <2>5 DEF BeginIteration, RefinePublicReturn, NextPass, CheckContract
  <2>6. ASSUME NEW v \in Value(program), DecomposeOp(v)
        PROVE  Kept
    BY <2>2, <2>6 DEF DecomposeOp
  <2>7. CASE UNCHANGED vars
    BY <2>2, <2>7 DEF vars
  <2> QED  BY <2>4, <2>5, <2>6, <2>7 DEF Next
<1>2. IInv /\ [Next]_vars => [Kept]_vars
  BY <1>1
<1> QED  BY <1>2, AlwaysIInv, PTL DEF Spec, TypesOnlyGetMorePrecise

(***************************************************************************)
(* The loop: when an iteration begins after the first, the one before did  *)
(* not reach the contract.                                                 *)
(***************************************************************************)
LoopInv ==
  /\ phase = "loop" /\ iterations > 0 => ~SatisfiesBackendContract
  /\ OutcomeIsRight

\* A step that keeps the program keeps the contract.
LEMMA SameContract ==
  ASSUME UNCHANGED <<program, options, kind, type, cast, returned>>
  PROVE  SatisfiesBackendContract' = SatisfiesBackendContract
BY DEF SatisfiesBackendContract

LEMMA NextLoopInv == IInv /\ LoopInv /\ [Next]_vars => LoopInv'
<1> SUFFICES ASSUME IInv, LoopInv, [Next]_vars PROVE LoopInv'
  OBVIOUS
<1>1. CASE BeginIteration
  <2>1. SatisfiesBackendContract' = SatisfiesBackendContract
    BY <1>1, SameContract DEF BeginIteration
  <2>2. iterations \in Nat /\ iterations \in 0..CounterBound /\ CounterBound \in Nat
    BY CounterAssumption DEF IInv, TypeOK
  <2>3. options.maxIterations \in Int /\ options.maxIterations < CounterBound
    BY CounterAssumption, OptionsAssumption DEF IInv, Static, OptionsIR
  <2>4. CASE iterations = options.maxIterations
    <3>1. phase' = "failed" /\ iterations' = iterations + 1 /\ UNCHANGED options
      BY <1>1, <2>2, <2>3, <2>4 DEF BeginIteration
    <3>2. options.maxIterations > 0 => ~SatisfiesBackendContract
      BY <1>1, <2>4 DEF LoopInv, BeginIteration
    <3> QED  BY <2>1, <2>4, <3>1, <3>2 DEF LoopInv, OutcomeIsRight
  <2>5. CASE iterations # options.maxIterations
    BY <1>1, <2>5 DEF BeginIteration, LoopInv, OutcomeIsRight
  <2> QED  BY <2>4, <2>5
<1>2. CASE RefinePublicReturn
  BY <1>2 DEF RefinePublicReturn, LoopInv, OutcomeIsRight
<1>3. CASE NextPass
  BY <1>3 DEF NextPass, LoopInv, OutcomeIsRight
<1>4. CASE CheckContract
  <2>1. SatisfiesBackendContract' = SatisfiesBackendContract
    BY <1>4, SameContract DEF CheckContract
  <2> QED  BY <1>4, <2>1 DEF CheckContract, LoopInv, OutcomeIsRight
<1>5. ASSUME NEW v \in Value(program), RefineSizes(v) \/ RefineDtype(v) \/ DecomposeOp(v)
      PROVE  LoopInv'
  <2>1. phase' \notin {"loop", "succeeded", "failed"}
    BY <1>5 DEF RefineSizes, RefineDtype, DecomposeOp, UpdateResultType
  <2> QED  BY <2>1 DEF LoopInv, OutcomeIsRight
<1>6. CASE UNCHANGED vars
  <2>1. SatisfiesBackendContract' = SatisfiesBackendContract
    BY <1>6, SameContract DEF vars
  <2> QED  BY <1>6, <2>1 DEF vars, LoopInv, OutcomeIsRight
<1> QED  BY <1>1, <1>2, <1>3, <1>4, <1>5, <1>6 DEF Next

(***************************************************************************)
(* The pass succeeds only with a program that satisfies the contract, and  *)
(* gives up only after maxIterations runs, the last of which did not.      *)
(***************************************************************************)
THEOREM Outcome == Spec => []OutcomeIsRight
<1>1. Init => LoopInv
  BY DEF Init, LoopInv, OutcomeIsRight
<1>2. LoopInv => OutcomeIsRight
  BY DEF LoopInv
<1> QED  BY <1>1, <1>2, NextLoopInv, AlwaysIInv, PTL DEF Spec

(***************************************************************************)
(* Types stay true.                                                        *)
(***************************************************************************)
\* What the library infers from true types of the operands is true.
LEMMA ImpliedDescribes ==
  ASSUME IInv, RefinedTypesAreTrue, NEW v \in Value(program)
  PROVE  /\ program.runtime[v].sizes \in Sizes
         /\ \A s \in ImpliedSizes(kind[v], Args(v), type) : IsSubsizes(program.runtime[v].sizes, s)
         /\ \A d \in ImpliedDtypes(kind[v], Args(v), type) : d = program.runtime[v].dtype
<1> DEFINE tensor(w) == program.runtime[w]
<1>1. RuntimeIR(program)
  BY RuntimeAssumption DEF IInv, Static
<1>2. \A w \in Value(program) : tensor(w).sizes \in Sizes
  BY <1>1 DEF RuntimeIR
<1>3. \A w \in Value(program) :
        /\ \A s \in type[w].sizes : s \in Sizes /\ IsSubsizes(tensor(w).sizes, s)
        /\ \A d \in type[w].dtype : d = tensor(w).dtype
  BY DEF RefinedTypesAreTrue, Describes, IInv, TypeOK, IsTensorType, TensorType
<1>4. CASE kind[v] = "unary"
  <2>1. Args(v)[1] \in Value(program)
    BY <1>4, Operands DEF IInv
  <2>2. program.ops[v].kind \in {"unary", "complex"}
    BY <1>4 DEF IInv, KindOK
  <2>3. tensor(v) = tensor(Args(v)[1])
    BY <1>1, <2>2 DEF RuntimeIR, Args
  <2> QED  BY <1>2, <1>3, <1>4, <2>1, <2>3 DEF ImpliedSizes, ImpliedDtypes
<1>5. CASE kind[v] = "binary"
  <2> DEFINE a == Args(v)[1]
  <2> DEFINE b == Args(v)[2]
  <2>1. a \in Value(program) /\ b \in Value(program)
    BY <1>5, Operands DEF IInv
  <2>2. program.ops[v].kind = "binary"
    BY <1>5 DEF IInv, KindOK
  <2>3. tensor(v) = [sizes |-> Broadcast(tensor(a).sizes, tensor(b).sizes),
                     dtype |-> Promote(tensor(a).sizes, tensor(a).dtype, tensor(b).sizes, tensor(b).dtype)]
    BY <1>1, <2>2 DEF RuntimeIR, Args
  <2>4. ASSUME NEW r \in type[a].sizes, NEW s \in type[b].sizes
        PROVE  IsSubsizes(tensor(v).sizes, Broadcast(r, s))
    <3>1. /\ r \in Sizes /\ IsSubsizes(tensor(a).sizes, r) /\ tensor(a).sizes \in Sizes
          /\ s \in Sizes /\ IsSubsizes(tensor(b).sizes, s) /\ tensor(b).sizes \in Sizes
      BY <1>2, <1>3, <2>1
    <3>2. IsSubsizes(Broadcast(tensor(a).sizes, tensor(b).sizes), Broadcast(r, s))
      BY <3>1, BroadcastDescribes
    <3> QED  BY <2>3, <3>2
  <2>5. ASSUME NEW r \in type[a].sizes, NEW s \in type[b].sizes, NEW d \in type[a].dtype, NEW e \in type[b].dtype
        PROVE  Promote(r, d, s, e) = tensor(v).dtype
    <3>1. d = tensor(a).dtype /\ e = tensor(b).dtype
      BY <1>3, <2>1
    <3>2. \A x, y \in Sizes : IsSubsizes(x, y) => ((y = <<>>) <=> (x = <<>>))
      BY DEF IsSubsizes, Sizes
    <3>3. /\ r \in Sizes /\ IsSubsizes(tensor(a).sizes, r) /\ tensor(a).sizes \in Sizes
          /\ s \in Sizes /\ IsSubsizes(tensor(b).sizes, s) /\ tensor(b).sizes \in Sizes
      BY <1>2, <1>3, <2>1
    <3>4. (r = <<>>) = (tensor(a).sizes = <<>>) /\ (s = <<>>) = (tensor(b).sizes = <<>>)
      BY <3>2, <3>3
    <3>5. Promote(r, d, s, e) = Promote(tensor(a).sizes, d, tensor(b).sizes, e)
      BY <3>4 DEF Promote
    <3> QED  BY <2>3, <3>1, <3>5
  <2>6. ImpliedSizes(kind[v], Args(v), type) = {Broadcast(r, s) : r \in type[a].sizes, s \in type[b].sizes}
    BY <1>5 DEF ImpliedSizes
  <2>7. ImpliedDtypes(kind[v], Args(v), type) =
          {Promote(r, d, s, e) : r \in type[a].sizes, d \in type[a].dtype, s \in type[b].sizes, e \in type[b].dtype}
    BY <1>5 DEF ImpliedDtypes
  <2>8. \A s \in ImpliedSizes(kind[v], Args(v), type) : IsSubsizes(program.runtime[v].sizes, s)
    BY <2>4, <2>6
  <2>9. \A d \in ImpliedDtypes(kind[v], Args(v), type) : d = program.runtime[v].dtype
    BY <2>5, <2>7
  <2> QED  BY <1>2, <2>8, <2>9
<1>6. CASE kind[v] \notin {"unary", "binary"}
  BY <1>2, <1>6 DEF ImpliedSizes, ImpliedDtypes
<1> QED  BY <1>4, <1>5, <1>6

\* A refined type is true.
LEMMA RefinedDescribes ==
  ASSUME IInv, RefinedTypesAreTrue, NEW v \in Value(program),
         NEW t \in SizeRefinements(v) \cup DtypeRefinements(v)
  PROVE  Describes(t, program.runtime[v])
<1>1. IsTensorType(type[v]) /\ Describes(type[v], program.runtime[v]) /\ program.runtime[v].sizes \in Sizes
  BY ImpliedDescribes DEF IInv, TypeOK, RefinedTypesAreTrue
<1>2. CASE t \in SizeRefinements(v)
  <2>1. PICK s \in ImpliedSizes(kind[v], Args(v), type) :
          LET new == [type[v] EXCEPT !.sizes = {s}]
          IN  /\ IsTensorType(new) /\ new.dtype = type[v].dtype /\ new.sizes = {s}
              /\ Compatible(type[v], new) /\ t = Meet(type[v], new)
    BY <1>2, SizesRefined
  <2> DEFINE new == [type[v] EXCEPT !.sizes = {s}]
  <2>2. IsTensorType(new) /\ new.dtype = type[v].dtype /\ new.sizes = {s}
        /\ Compatible(type[v], new) /\ t = Meet(type[v], new)
    BY <2>1
  <2> HIDE DEF new
  <2>3. Describes(new, program.runtime[v])
    BY <1>1, <2>1, <2>2, ImpliedDescribes DEF Describes
  <2> QED  BY <1>1, <2>2, <2>3, MeetDescribes
<1>3. CASE t \in DtypeRefinements(v)
  <2>1. PICK d \in ImpliedDtypes(kind[v], Args(v), type) :
          LET new == [type[v] EXCEPT !.dtype = {d}]
          IN  /\ IsTensorType(new) /\ new.sizes = type[v].sizes /\ new.dtype = {d}
              /\ Compatible(type[v], new) /\ t = Meet(type[v], new)
    BY <1>3, DtypeRefined
  <2> DEFINE new == [type[v] EXCEPT !.dtype = {d}]
  <2>2. IsTensorType(new) /\ new.sizes = type[v].sizes /\ new.dtype = {d}
        /\ Compatible(type[v], new) /\ t = Meet(type[v], new)
    BY <2>1
  <2> HIDE DEF new
  <2>3. Describes(new, program.runtime[v])
    BY <1>1, <2>1, <2>2, ImpliedDescribes DEF Describes
  <2> QED  BY <1>1, <2>2, <2>3, MeetDescribes
<1> QED  BY <1>2, <1>3

LEMMA NextTruth == IInv /\ RefinedTypesAreTrue /\ [Next]_vars => RefinedTypesAreTrue'
<1> SUFFICES ASSUME IInv, RefinedTypesAreTrue, [Next]_vars PROVE RefinedTypesAreTrue'
  OBVIOUS
<1>1. CASE UNCHANGED <<program, type, cast, returned>>
  <2>1. Last' = Last
    BY <1>1 DEF Last
  <2>2. Value(program)' = Value(program)
    BY <1>1 DEF Value
  <2> QED  BY <1>1, <2>1, <2>2 DEF RefinedTypesAreTrue
<1>2. CASE RefinePublicReturn
  <2>1. Last \in Value(program) /\ Describes(type[Last], program.runtime[Last])
    BY LastIsAValue DEF IInv, RefinedTypesAreTrue
  <2>2. Describes([type[Last] EXCEPT !.value = TRUE], program.runtime[Last])
    BY <2>1 DEF Describes, IInv, TypeOK, IsTensorType, TensorType
  <2>3. UNCHANGED <<program, type, cast>>
    BY <1>2 DEF RefinePublicReturn
  <2>4. Last' = Last
    BY <2>3 DEF Last
  <2>5. returned' = returned \/ returned' = [type[Last] EXCEPT !.value = TRUE]
    BY <1>2 DEF RefinePublicReturn
  <2> QED  BY <2>2, <2>3, <2>4, <2>5 DEF RefinedTypesAreTrue
<1>3. ASSUME NEW v \in Value(program), NEW t \in SizeRefinements(v) \cup DtypeRefinements(v),
             UpdateResultType(v, t)
      PROVE  RefinedTypesAreTrue'
  <2>1. UNCHANGED <<program, returned>>
    BY <1>3 DEF UpdateResultType
  <2>2. \A w \in Value(program) : type'[w] = IF w = v THEN t ELSE type[w]
    BY <1>3 DEF IInv, TypeOK, UpdateResultType
  <2>3. \A w \in Value(program) : cast'[w] = cast[w] \/ cast'[w] = {type[w]}
    BY <1>3 DEF IInv, TypeOK, UpdateResultType
  <2>4. Describes(t, program.runtime[v])
    BY <1>3, RefinedDescribes
  <2>5. \A w \in Value(program) : Describes(type'[w], program.runtime[w])
    BY <2>2, <2>4 DEF RefinedTypesAreTrue
  <2>6. \A w \in Value(program) : \A u \in cast'[w] : Describes(u, program.runtime[w])
    BY <2>3 DEF RefinedTypesAreTrue
  <2>7. Last' = Last
    BY <2>1 DEF Last
  <2> QED  BY <2>1, <2>5, <2>6, <2>7 DEF RefinedTypesAreTrue
<1>4. ASSUME NEW v \in Value(program), RefineSizes(v) \/ RefineDtype(v)
      PROVE  RefinedTypesAreTrue'
  BY <1>3, <1>4 DEF RefineSizes, RefineDtype
<1>5. CASE BeginIteration \/ NextPass \/ CheckContract
  BY <1>1, <1>5 DEF BeginIteration, NextPass, CheckContract
<1>6. ASSUME NEW v \in Value(program), DecomposeOp(v)
      PROVE  RefinedTypesAreTrue'
  BY <1>1, <1>6 DEF DecomposeOp
<1>7. CASE UNCHANGED vars
  BY <1>1, <1>7 DEF vars
<1> QED  BY <1>2, <1>4, <1>5, <1>6, <1>7 DEF Next

(***************************************************************************)
(* For every program whose types are true at first, they are true ever     *)
(* after: no refinement claims a size or a dtype that an execution could   *)
(* contradict.                                                             *)
(***************************************************************************)
THEOREM Truth == Spec => []RefinedTypesAreTrue
<1>1. Init => RefinedTypesAreTrue
  <2> SUFFICES ASSUME Init PROVE RefinedTypesAreTrue
    OBVIOUS
  <2>1. Static
    BY DEF Init, Static
  <2>2. RuntimeIR(program)
    BY <2>1, RuntimeAssumption DEF Static
  <2>3. Last \in Value(program)
    BY <2>1, LastIsAValue
  <2>4. \A v \in Value(program) : Describes(program.types[v], program.runtime[v])
    BY <2>2 DEF RuntimeIR
  <2> QED  BY <2>3, <2>4 DEF Init, RefinedTypesAreTrue
<1> QED  BY <1>1, NextTruth, AlwaysIInv, PTL DEF Spec

(***************************************************************************)
(* What is known of sizes: 0 if it is the rank, k if it is the size of     *)
(* dimension k.  Among true types this says everything.                    *)
(***************************************************************************)
Known(S) == {k \in Nat : \E s \in S : k = 0 \/ (k \in DOMAIN s /\ s[k] # UnknownSize)}

\* S are sizes, at most one, that the tensor has.
TrueSizes(S, tensor) ==
  /\ S \subseteq Sizes
  /\ \A r, s \in S : r = s
  /\ \A s \in S : IsSubsizes(tensor.sizes, s)

\* Sizes that describe the same tensor are the same if as much is known of them.
LEMMA KnownDetermines ==
  ASSUME NEW A, NEW B, NEW tensor, tensor.sizes \in Sizes,
         TrueSizes(A, tensor), TrueSizes(B, tensor), Known(A) = Known(B)
  PROVE  A = B
<1>1. A = {} <=> B = {}
  BY DEF Known
<1>2. ASSUME NEW a \in A, NEW b \in B PROVE a = b
  <2>1. a \in Seq(Int) /\ b \in Seq(Int) /\ tensor.sizes \in Seq(Int)
    BY <1>2 DEF TrueSizes, Sizes
  <2>2. IsSubsizes(tensor.sizes, a) /\ IsSubsizes(tensor.sizes, b)
    BY <1>2 DEF TrueSizes
  <2>3. Len(a) = Len(b) /\ DOMAIN a = 1..Len(a) /\ DOMAIN b = 1..Len(a) /\ Len(a) \in Nat
    BY <2>1, <2>2 DEF IsSubsizes
  <2>4. ASSUME NEW k \in 1..Len(a) PROVE a[k] = b[k]
    <3>1. k \in Nat /\ k # 0 /\ k \in DOMAIN a /\ k \in DOMAIN b
      BY <2>3
    <3>2. a[k] # UnknownSize <=> k \in Known(A)
      BY <1>2, <3>1 DEF Known, TrueSizes
    <3>3. b[k] # UnknownSize <=> k \in Known(B)
      BY <1>2, <3>1 DEF Known, TrueSizes
    <3>4. a[k] = UnknownSize \/ a[k] = tensor.sizes[k]
      BY <2>2, <3>1 DEF IsSubsizes
    <3>5. b[k] = UnknownSize \/ b[k] = tensor.sizes[k]
      BY <2>2, <3>1 DEF IsSubsizes
    <3> QED  BY <3>2, <3>3, <3>4, <3>5
  <2> QED  BY <2>1, <2>3, <2>4
<1> QED  BY <1>1, <1>2 DEF TrueSizes

\* Types that describe the same tensor do not contradict each other.
LEMMA TrueTypesAreCompatible ==
  ASSUME NEW lhs, NEW rhs, IsTensorType(lhs), IsTensorType(rhs), NEW tensor, tensor.sizes \in Sizes,
         Describes(lhs, tensor), Describes(rhs, tensor)
  PROVE  Compatible(lhs, rhs)
<1>1. \A d \in lhs.dtype, e \in rhs.dtype : d = e
  BY DEF Describes
<1>2. ASSUME NEW r \in lhs.sizes, NEW s \in rhs.sizes PROVE SizesAgree(r, s)
  <2>1. r \in Seq(Int) /\ s \in Seq(Int)
    BY DEF IsTensorType, TensorType, Sizes
  <2>2. IsSubsizes(tensor.sizes, r) /\ IsSubsizes(tensor.sizes, s)
    BY DEF Describes
  <2>3. Len(r) = Len(s) /\ DOMAIN r = 1..Len(r) /\ DOMAIN s = 1..Len(r)
    BY <2>1, <2>2 DEF IsSubsizes
  <2> QED  BY <2>2, <2>3 DEF IsSubsizes, SizesAgree
<1> QED  BY <1>1, <1>2 DEF Compatible

(***************************************************************************)
(* The meet knows what one of the types knows.                             *)
(***************************************************************************)
LEMMA MeetKnows ==
  ASSUME NEW lhs, NEW rhs, IsTensorType(lhs), IsTensorType(rhs), Compatible(lhs, rhs)
  PROVE  /\ Known(Meet(lhs, rhs).sizes) = Known(lhs.sizes) \cup Known(rhs.sizes)
         /\ Meet(lhs, rhs).dtype = lhs.dtype \cup rhs.dtype
<1> DEFINE m == Meet(lhs, rhs)
<1>1. m.dtype = lhs.dtype \cup rhs.dtype
  BY DEF Meet
<1>2. CASE lhs.sizes = {} \/ rhs.sizes = {}
  <2>1. Known({}) = {}
    BY DEF Known
  <2> QED  BY <1>1, <1>2, <2>1 DEF Meet
<1>3. CASE lhs.sizes # {} /\ rhs.sizes # {}
  <2>1. PICK r \in lhs.sizes, s \in rhs.sizes : TRUE
    BY <1>3
  <2>2. lhs.sizes = {r} /\ rhs.sizes = {s}
    BY <2>1 DEF IsTensorType
  <2>3. m.sizes = {MeetSizes(r, s)}
    BY <1>3, <2>2 DEF Meet
  <2>4. r \in Seq(Int) /\ s \in Seq(Int) /\ Len(r) = Len(s)
    BY <2>1 DEF IsTensorType, TensorType, Sizes, Compatible, SizesAgree
  <2>5. DOMAIN r = 1..Len(r) /\ DOMAIN s = 1..Len(r)
    BY <2>4
  <2>6. /\ DOMAIN MeetSizes(r, s) = 1..Len(r)
        /\ \A k \in 1..Len(r) : MeetSizes(r, s)[k] = IF r[k] = UnknownSize THEN s[k] ELSE r[k]
    BY <2>5 DEF MeetSizes
  <2>7. Known({MeetSizes(r, s)}) = Known({r}) \cup Known({s})
    BY <2>5, <2>6 DEF Known
  <2> QED  BY <1>1, <2>2, <2>3, <2>7
<1> QED  BY <1>2, <1>3

\* What more precise sizes know.
LEMMA SubsizesKnow ==
  ASSUME NEW A, NEW B, NEW a \in A, NEW b \in B, a \in Sizes, b \in Sizes, IsSubsizes(a, b), \A c \in B : c = b
  PROVE  Known(B) \subseteq Known(A)
<1>1. DOMAIN a = 1..Len(a) /\ DOMAIN b = 1..Len(a)
  BY DEF Sizes, IsSubsizes
<1> QED  BY <1>1 DEF Known, IsSubsizes

\* Sizes that know more of the same tensor describe those that know less.
LEMMA KnownIsPrecise ==
  ASSUME NEW A, NEW B, NEW tensor, tensor.sizes \in Sizes,
         TrueSizes(A, tensor), TrueSizes(B, tensor), Known(A) \subseteq Known(B), NEW a \in A
  PROVE  \E b \in B : IsSubsizes(b, a)
<1>1. 0 \in Known(A)
  BY DEF Known
<1>2. PICK b \in B : TRUE
  BY <1>1 DEF Known
<1>3. a \in Seq(Int) /\ b \in Seq(Int)
  BY DEF TrueSizes, Sizes
<1>4. IsSubsizes(tensor.sizes, a) /\ IsSubsizes(tensor.sizes, b)
  BY DEF TrueSizes
<1>5. Len(a) = Len(b) /\ DOMAIN a = 1..Len(a) /\ DOMAIN b = 1..Len(a) /\ Len(a) \in Nat
  BY <1>3, <1>4 DEF IsSubsizes
<1>6. ASSUME NEW k \in DOMAIN a, a[k] # UnknownSize PROVE a[k] = b[k]
  <2>1. k \in Known(A)
    BY <1>5, <1>6 DEF Known
  <2>2. b[k] # UnknownSize
    BY <1>5, <2>1 DEF Known, TrueSizes
  <2> QED  BY <1>4, <1>5, <1>6, <2>2 DEF IsSubsizes
<1> QED  BY <1>5, <1>6 DEF IsSubsizes

\* U knows more than T of the operands, and both are true.
OperandsGrow(k, args, T, U, tensor) ==
  \A i \in 1..Arity(k) :
    /\ tensor[args[i]].sizes \in Sizes
    /\ TrueSizes(T[args[i]].sizes, tensor[args[i]]) /\ TrueSizes(U[args[i]].sizes, tensor[args[i]])
    /\ Known(T[args[i]].sizes) \subseteq Known(U[args[i]].sizes)
    /\ T[args[i]].dtype \subseteq U[args[i]].dtype

(***************************************************************************)
(* The library knows more when more is known of the operands.              *)
(***************************************************************************)
LEMMA ImpliedGrows ==
  ASSUME NEW k, NEW l, l = k \/ k \notin {"unary", "binary"}, NEW args, NEW T, NEW U, NEW tensor,
         OperandsGrow(k, args, T, U, tensor)
  PROVE  /\ Known(ImpliedSizes(k, args, T)) \subseteq Known(ImpliedSizes(l, args, U))
         /\ ImpliedDtypes(k, args, T) \subseteq ImpliedDtypes(l, args, U)
<1>1. CASE k = "unary"
  <2>1. 1 \in 1..Arity(k) /\ l = k
    BY <1>1 DEF Arity
  <2> QED  BY <1>1, <2>1 DEF ImpliedSizes, ImpliedDtypes, OperandsGrow
<1>2. CASE k = "binary"
  <2> DEFINE a == args[1]
             b == args[2]
  <2>1. 1 \in 1..Arity(k) /\ 2 \in 1..Arity(k) /\ l = k
    BY <1>2 DEF Arity
  <2>2. /\ tensor[a].sizes \in Sizes /\ tensor[b].sizes \in Sizes
        /\ TrueSizes(T[a].sizes, tensor[a]) /\ TrueSizes(U[a].sizes, tensor[a])
        /\ TrueSizes(T[b].sizes, tensor[b]) /\ TrueSizes(U[b].sizes, tensor[b])
        /\ Known(T[a].sizes) \subseteq Known(U[a].sizes) /\ Known(T[b].sizes) \subseteq Known(U[b].sizes)
        /\ T[a].dtype \subseteq U[a].dtype /\ T[b].dtype \subseteq U[b].dtype
    BY <2>1 DEF OperandsGrow
  <2>3. /\ ImpliedSizes(k, args, T) = {Broadcast(r, s) : r \in T[a].sizes, s \in T[b].sizes}
        /\ ImpliedSizes(l, args, U) = {Broadcast(r, s) : r \in U[a].sizes, s \in U[b].sizes}
    BY <1>2, <2>1 DEF ImpliedSizes
  <2>4. /\ ImpliedDtypes(k, args, T) =
             {Promote(r, d, s, e) : r \in T[a].sizes, d \in T[a].dtype, s \in T[b].sizes, e \in T[b].dtype}
        /\ ImpliedDtypes(l, args, U) =
             {Promote(r, d, s, e) : r \in U[a].sizes, d \in U[a].dtype, s \in U[b].sizes, e \in U[b].dtype}
    BY <1>2, <2>1 DEF ImpliedDtypes
  <2> HIDE DEF a, b
  <2>5. ASSUME NEW r \in T[a].sizes, NEW s \in T[b].sizes
        PROVE  \E x \in U[a].sizes, y \in U[b].sizes :
                 /\ x \in Sizes /\ y \in Sizes /\ r \in Sizes /\ s \in Sizes
                 /\ IsSubsizes(x, r) /\ IsSubsizes(y, s)
    <3>1. PICK x \in U[a].sizes : IsSubsizes(x, r)
      BY <2>2, KnownIsPrecise
    <3>2. PICK y \in U[b].sizes : IsSubsizes(y, s)
      BY <2>2, KnownIsPrecise
    <3> QED  BY <2>2, <3>1, <3>2 DEF TrueSizes
  <2>6. Known(ImpliedSizes(k, args, T)) \subseteq Known(ImpliedSizes(l, args, U))
    <3>1. SUFFICES ASSUME NEW n \in Known(ImpliedSizes(k, args, T))
                   PROVE  n \in Known(ImpliedSizes(l, args, U))
      OBVIOUS
    <3>2. PICK r \in T[a].sizes, s \in T[b].sizes : n \in Known({Broadcast(r, s)})
      BY <2>3, <3>1 DEF Known
    <3>3. PICK x \in U[a].sizes, y \in U[b].sizes :
            /\ x \in Sizes /\ y \in Sizes /\ r \in Sizes /\ s \in Sizes
            /\ IsSubsizes(x, r) /\ IsSubsizes(y, s)
      BY <2>5
    <3>4. IsSubsizes(Broadcast(x, y), Broadcast(r, s))
      BY <3>3, BroadcastDescribes
    <3>5. Broadcast(x, y) \in Sizes /\ Broadcast(r, s) \in Sizes
      BY <3>3, BroadcastSizes
    <3>6. Known({Broadcast(r, s)}) \subseteq Known({Broadcast(x, y)})
      BY <3>4, <3>5, SubsizesKnow
    <3>7. Broadcast(x, y) \in ImpliedSizes(l, args, U)
      BY <2>3
    <3>8. n \in Known({Broadcast(x, y)})
      BY <3>2, <3>6
    <3> QED  BY <3>7, <3>8 DEF Known
  <2>7. ImpliedDtypes(k, args, T) \subseteq ImpliedDtypes(l, args, U)
    <3>1. SUFFICES ASSUME NEW r \in T[a].sizes, NEW d \in T[a].dtype, NEW s \in T[b].sizes, NEW e \in T[b].dtype
                   PROVE  Promote(r, d, s, e) \in ImpliedDtypes(l, args, U)
      BY <2>4
    <3>2. PICK x \in U[a].sizes, y \in U[b].sizes :
            /\ x \in Sizes /\ y \in Sizes /\ r \in Sizes /\ s \in Sizes
            /\ IsSubsizes(x, r) /\ IsSubsizes(y, s)
      BY <2>5
    <3>3. (x = <<>> <=> r = <<>>) /\ (y = <<>> <=> s = <<>>)
      BY <3>2 DEF IsSubsizes, Sizes
    <3>4. Promote(r, d, s, e) = Promote(x, d, y, e)
      BY <3>3 DEF Promote
    <3>5. d \in U[a].dtype /\ e \in U[b].dtype
      BY <2>2
    <3> QED  BY <2>4, <3>4, <3>5
  <2> QED  BY <2>6, <2>7
<1>3. CASE k \notin {"unary", "binary"}
  <2>1. ImpliedSizes(k, args, T) = {} /\ ImpliedDtypes(k, args, T) = {}
    BY <1>3 DEF ImpliedSizes, ImpliedDtypes
  <2> QED  BY <2>1 DEF Known
<1> QED  BY <1>1, <1>2, <1>3

\* What is implied depends on the sizes and the dtypes of the operands only.
LEMMA ImpliedByOperands ==
  ASSUME NEW k, NEW args, NEW T, NEW U,
         \A i \in 1..Arity(k) : T[args[i]].sizes = U[args[i]].sizes
  PROVE  /\ ImpliedSizes(k, args, T) = ImpliedSizes(k, args, U)
         /\ (\A i \in 1..Arity(k) : T[args[i]].dtype = U[args[i]].dtype)
              => ImpliedDtypes(k, args, T) = ImpliedDtypes(k, args, U)
<1>1. k = "unary" => 1 \in 1..Arity(k)
  BY DEF Arity
<1>2. k = "binary" => 1 \in 1..Arity(k) /\ 2 \in 1..Arity(k)
  BY DEF Arity
<1>3. ImpliedSizes(k, args, T) = ImpliedSizes(k, args, U)
  BY <1>1, <1>2 DEF ImpliedSizes
<1>4. ASSUME \A i \in 1..Arity(k) : T[args[i]].dtype = U[args[i]].dtype
      PROVE  ImpliedDtypes(k, args, T) = ImpliedDtypes(k, args, U)
  <2>1. CASE k = "unary"
    BY <1>1, <1>4, <2>1 DEF ImpliedDtypes
  <2>2. CASE k = "binary"
    <3>1. /\ T[args[1]].sizes = U[args[1]].sizes /\ T[args[1]].dtype = U[args[1]].dtype
          /\ T[args[2]].sizes = U[args[2]].sizes /\ T[args[2]].dtype = U[args[2]].dtype
      BY <1>2, <1>4, <2>2
    <3> QED  BY <2>2, <3>1 DEF ImpliedDtypes
  <2>3. CASE k \notin {"unary", "binary"}
    BY <2>3 DEF ImpliedDtypes
  <2> QED  BY <2>1, <2>2, <2>3
<1> QED  BY <1>3, <1>4

(***************************************************************************)
(* The types are between those of the program and what the library implies *)
(* of the operands: TypesAreInferred.                                      *)
(***************************************************************************)
SizesImplied(v) == ImpliedSizes(kind[v], Args(v), type)
DtypesImplied(v) == ImpliedDtypes(kind[v], Args(v), type)

Bounded ==
  \A v \in Value(program) :
    /\ Known(program.types[v].sizes) \subseteq Known(type[v].sizes)
    /\ Known(type[v].sizes) \subseteq Known(program.types[v].sizes) \cup Known(SizesImplied(v))
    /\ program.types[v].dtype \subseteq type[v].dtype
    /\ type[v].dtype \subseteq program.types[v].dtype \cup DtypesImplied(v)

SizesFixed == \A v \in Value(program) : Known(SizesImplied(v)) \subseteq Known(type[v].sizes)
DtypesFixed == \A v \in Value(program) : DtypesImplied(v) \subseteq type[v].dtype

\* What the refinements leave: nothing more is implied.
Fixed ==
  /\ phase = "dtypes" => SizesFixed
  /\ phase = "return again" /\ options.shapeDtypeRefine => SizesFixed /\ DtypesFixed
  /\ phase \in {"sizes", "dtypes"} => options.shapeDtypeRefine

TypesInv == IInv /\ RefinedTypesAreTrue /\ Bounded /\ Fixed

\* The operands of a value are before it.
LEMMA OperandsAreBefore ==
  ASSUME Static, KindOK, NEW v \in Value(program)
  PROVE  /\ Value(program) = 1..Last /\ Last \in Nat
         /\ \A i \in 1..Arity(kind[v]) : Args(v)[i] \in Value(program) /\ Args(v)[i] < v
<1>1. ProgramIR(program)
  BY ProgramsAssumption DEF Static
<1> DEFINE Op == [kind: Kind, args: Seq(Nat)]
<1>2. program.ops \in Seq(Op)
  BY <1>1 DEF ProgramIR
<1>3. \A op \in Op : op.args \in Seq(Nat)
  OBVIOUS
<1> HIDE DEF Op
<1>4. Value(program) = 1..Last /\ Last \in Nat /\ Args(v) \in Seq(Nat)
  BY <1>2, <1>3 DEF Value, Last, Args
<1>5. Len(Args(v)) = Arity(program.ops[v].kind) /\ \A i \in DOMAIN Args(v) : Args(v)[i] \in 1..(v - 1)
  BY <1>1 DEF ProgramIR, Args
<1>6. Arity(kind[v]) = Arity(program.ops[v].kind)
  BY DEF KindOK, Arity
<1>7. \A i \in 1..Arity(kind[v]) : Args(v)[i] \in 1..(v - 1)
  BY <1>4, <1>5, <1>6
<1> QED  BY <1>4, <1>7

\* The sizes of true types.
HaveTrueSizes ==
  \A v \in Value(program) :
    /\ program.runtime[v].sizes \in Sizes /\ program.runtime[v].dtype \in Nat
    /\ TrueSizes(type[v].sizes, program.runtime[v])
    /\ IsTensorType(type[v]) /\ Describes(type[v], program.runtime[v])
    /\ IsTensorType(program.types[v]) /\ Describes(program.types[v], program.runtime[v])

LEMMA TypesHaveTrueSizes == IInv /\ RefinedTypesAreTrue => HaveTrueSizes
<1> SUFFICES ASSUME IInv, RefinedTypesAreTrue, NEW v \in Value(program)
             PROVE  /\ program.runtime[v].sizes \in Sizes /\ program.runtime[v].dtype \in Nat
                    /\ TrueSizes(type[v].sizes, program.runtime[v])
                    /\ IsTensorType(type[v]) /\ Describes(type[v], program.runtime[v])
                    /\ IsTensorType(program.types[v]) /\ Describes(program.types[v], program.runtime[v])
  BY DEF HaveTrueSizes
<1>1. RuntimeIR(program) /\ ProgramIR(program)
  BY RuntimeAssumption, ProgramsAssumption DEF IInv, Static
<1>2. program.runtime[v].sizes \in Sizes /\ program.runtime[v].dtype \in Nat /\ Describes(program.types[v], program.runtime[v])
  BY <1>1 DEF RuntimeIR
<1>3. IsTensorType(type[v]) /\ Describes(type[v], program.runtime[v])
  BY DEF IInv, TypeOK, RefinedTypesAreTrue
<1>4. TrueSizes(type[v].sizes, program.runtime[v])
  BY <1>3 DEF TrueSizes, IsTensorType, TensorType, Describes
<1>5. IsTensorType(program.types[v])
  BY <1>1 DEF ProgramIR
<1> QED  BY <1>2, <1>3, <1>4, <1>5

\* A refinement knows what was known and what is implied.
LEMMA RefinedKnows ==
  ASSUME IInv, NEW v \in Value(program)
  PROVE  /\ \A t \in SizeRefinements(v) :
              /\ Known(type[v].sizes) \subseteq Known(t.sizes)
              /\ Known(t.sizes) \subseteq Known(type[v].sizes) \cup Known(SizesImplied(v))
              /\ t.dtype = type[v].dtype
         /\ \A t \in DtypeRefinements(v) :
              /\ t.sizes = type[v].sizes
              /\ type[v].dtype \subseteq t.dtype
              /\ t.dtype \subseteq type[v].dtype \cup DtypesImplied(v)
<1>1. IsTensorType(type[v])
  BY DEF IInv, TypeOK
<1>2. ASSUME NEW t \in SizeRefinements(v)
      PROVE  /\ Known(type[v].sizes) \subseteq Known(t.sizes)
             /\ Known(t.sizes) \subseteq Known(type[v].sizes) \cup Known(SizesImplied(v))
             /\ t.dtype = type[v].dtype
  <2>1. PICK s \in ImpliedSizes(kind[v], Args(v), type) :
          LET new == [type[v] EXCEPT !.sizes = {s}]
          IN  /\ IsTensorType(new) /\ new.dtype = type[v].dtype /\ new.sizes = {s}
              /\ Compatible(type[v], new) /\ t = Meet(type[v], new)
    BY <1>2, SizesRefined
  <2> DEFINE new == [type[v] EXCEPT !.sizes = {s}]
  <2>2. IsTensorType(new) /\ new.dtype = type[v].dtype /\ new.sizes = {s}
        /\ Compatible(type[v], new) /\ t = Meet(type[v], new)
    BY <2>1
  <2> HIDE DEF new
  <2>3. Known(t.sizes) = Known(type[v].sizes) \cup Known(new.sizes) /\ t.dtype = type[v].dtype \cup new.dtype
    BY <1>1, <2>2, MeetKnows
  <2>4. Known({s}) \subseteq Known(SizesImplied(v))
    BY <2>1 DEF Known, SizesImplied
  <2> QED  BY <2>2, <2>3, <2>4
<1>3. ASSUME NEW t \in DtypeRefinements(v)
      PROVE  /\ t.sizes = type[v].sizes
             /\ type[v].dtype \subseteq t.dtype
             /\ t.dtype \subseteq type[v].dtype \cup DtypesImplied(v)
  <2>1. PICK d \in ImpliedDtypes(kind[v], Args(v), type) :
          LET new == [type[v] EXCEPT !.dtype = {d}]
          IN  /\ IsTensorType(new) /\ new.sizes = type[v].sizes /\ new.dtype = {d}
              /\ Compatible(type[v], new) /\ t = Meet(type[v], new)
    BY <1>3, DtypeRefined
  <2> DEFINE new == [type[v] EXCEPT !.dtype = {d}]
  <2>2. IsTensorType(new) /\ new.sizes = type[v].sizes /\ new.dtype = {d}
        /\ Compatible(type[v], new) /\ t = Meet(type[v], new)
    BY <2>1
  <2> HIDE DEF new
  <2>3. t.dtype = type[v].dtype \cup {d}
    BY <1>1, <2>2, MeetKnows
  <2>4. t.sizes = type[v].sizes
    <3>1. CASE type[v].sizes = {}
      BY <2>2, <3>1 DEF Meet
    <3>2. CASE type[v].sizes # {}
      <4>1. PICK r \in type[v].sizes : TRUE
        BY <3>2
      <4>2. type[v].sizes = {r} /\ r \in Seq(Int)
        BY <1>1, <4>1 DEF IsTensorType, TensorType, Sizes
      <4>3. MeetSizes(r, r) = r
        BY <4>2 DEF MeetSizes
      <4>4. t.sizes = {MeetSizes(a, b) : a \in {r}, b \in {r}}
        BY <2>2, <3>2, <4>2 DEF Meet
      <4> QED  BY <4>2, <4>3, <4>4
    <3> QED  BY <3>1, <3>2
  <2> QED  BY <2>1, <2>3, <2>4 DEF DtypesImplied
<1> QED  BY <1>2, <1>3

\* A step that adds to a type what was implied leaves the types between.
LEMMA BoundedStep ==
  ASSUME TypesInv, IInv', RefinedTypesAreTrue', program' = program,
         \A v \in Value(program) :
           /\ kind'[v] = kind[v] \/ kind[v] = "complex"
           /\ Known(type[v].sizes) \subseteq Known(type'[v].sizes)
           /\ Known(type'[v].sizes) \subseteq Known(type[v].sizes) \cup Known(SizesImplied(v))
           /\ type[v].dtype \subseteq type'[v].dtype
           /\ type'[v].dtype \subseteq type[v].dtype \cup DtypesImplied(v)
  PROVE  Bounded'
<1>1. Value(program)' = Value(program) /\ \A v : Args(v)' = Args(v)
  BY DEF Value, Args
<1>2. ASSUME NEW v \in Value(program)
      PROVE  /\ Known(SizesImplied(v)) \subseteq Known(SizesImplied(v)')
             /\ DtypesImplied(v) \subseteq DtypesImplied(v)'
  <2>1. kind'[v] = kind[v] \/ kind[v] \notin {"unary", "binary"}
    OBVIOUS
  <2>2. \A w \in Value(program) : TrueSizes(type[w].sizes, program.runtime[w])
                                  /\ program.runtime[w].sizes \in Sizes
    BY TypesHaveTrueSizes DEF TypesInv, HaveTrueSizes
  <2>3. HaveTrueSizes'
    BY TypesHaveTrueSizes, PTL
  <2>4. \A w \in Value(program) : TrueSizes(type'[w].sizes, program.runtime[w])
    BY <1>1, <2>3 DEF HaveTrueSizes
  <2>5. \A i \in 1..Arity(kind[v]) : Args(v)[i] \in Value(program)
    BY OperandsAreBefore DEF TypesInv, IInv
  <2> DEFINE k == kind[v]
             l == kind'[v]
             args == Args(v)
             T == type
             U == type'
             tensor == program.runtime
  <2>6. OperandsGrow(k, args, T, U, tensor)
    BY <2>2, <2>4, <2>5 DEF OperandsGrow
  <2>7. /\ Known(ImpliedSizes(k, args, T)) \subseteq Known(ImpliedSizes(l, args, U))
        /\ ImpliedDtypes(k, args, T) \subseteq ImpliedDtypes(l, args, U)
    <3>1. l = k \/ k \notin {"unary", "binary"}
      BY <2>1
    <3> HIDE DEF k, l, args, T, U, tensor
    <3> QED  BY <2>6, <3>1, ImpliedGrows
  <2>8. /\ SizesImplied(v)' = ImpliedSizes(kind'[v], Args(v), type')
        /\ DtypesImplied(v)' = ImpliedDtypes(kind'[v], Args(v), type')
    BY <1>1 DEF SizesImplied, DtypesImplied
  <2> QED  BY <2>7, <2>8 DEF SizesImplied, DtypesImplied
<1>3. ASSUME NEW v \in Value(program)
      PROVE  /\ Known(program.types[v].sizes) \subseteq Known(type'[v].sizes)
             /\ Known(type'[v].sizes) \subseteq Known(program.types[v].sizes) \cup Known(SizesImplied(v)')
             /\ program.types[v].dtype \subseteq type'[v].dtype
             /\ type'[v].dtype \subseteq program.types[v].dtype \cup DtypesImplied(v)'
  <2>1. /\ Known(program.types[v].sizes) \subseteq Known(type[v].sizes)
        /\ Known(type[v].sizes) \subseteq Known(program.types[v].sizes) \cup Known(SizesImplied(v))
        /\ program.types[v].dtype \subseteq type[v].dtype
        /\ type[v].dtype \subseteq program.types[v].dtype \cup DtypesImplied(v)
    BY DEF TypesInv, Bounded
  <2> QED  BY <1>2, <2>1
<1> QED  BY <1>1, <1>3 DEF Bounded

\* Where no pattern applies any more, all that is implied is known.
LEMMA NoSizeRefinement ==
  ASSUME IInv, RefinedTypesAreTrue, NEW v \in Value(program), SizeRefinements(v) = {}
  PROVE  Known(SizesImplied(v)) \subseteq Known(type[v].sizes)
<1>1. ASSUME NEW s \in SizesImplied(v) PROVE Known({s}) \subseteq Known(type[v].sizes)
  <2> DEFINE new == [type[v] EXCEPT !.sizes = {s}]
  <2>1. IsTensorType(type[v]) /\ Describes(type[v], program.runtime[v]) /\ program.runtime[v].sizes \in Sizes
    BY TypesHaveTrueSizes DEF HaveTrueSizes
  <2>2. s \in Sizes /\ IsSubsizes(program.runtime[v].sizes, s)
    BY ImpliedTypes, ImpliedDescribes DEF SizesImplied
  <2>3. IsTensorType(new) /\ new.sizes = {s} /\ new.dtype = type[v].dtype
    BY <2>1, <2>2 DEF IsTensorType, TensorType
  <2>4. Describes(new, program.runtime[v])
    BY <2>1, <2>2, <2>3 DEF Describes
  <2>5. Refinements(type[v], new) \subseteq SizeRefinements(v)
    BY <1>1 DEF SizeRefinements, SizesImplied
  <2> HIDE DEF new
  <2>6. Compatible(type[v], new)
    BY <2>1, <2>3, <2>4, TrueTypesAreCompatible
  <2>7. Meet(type[v], new) = type[v]
    BY <2>5, <2>6 DEF Refinements
  <2>8. Known(Meet(type[v], new).sizes) = Known(type[v].sizes) \cup Known(new.sizes)
    BY <2>1, <2>3, <2>6, MeetKnows
  <2> QED  BY <2>3, <2>7, <2>8
<1> QED  BY <1>1 DEF Known

LEMMA NoDtypeRefinement ==
  ASSUME IInv, RefinedTypesAreTrue, NEW v \in Value(program), DtypeRefinements(v) = {}
  PROVE  DtypesImplied(v) \subseteq type[v].dtype
<1>1. ASSUME NEW d \in DtypesImplied(v) PROVE d \in type[v].dtype
  <2> DEFINE new == [type[v] EXCEPT !.dtype = {d}]
  <2>1. IsTensorType(type[v]) /\ Describes(type[v], program.runtime[v]) /\ program.runtime[v].sizes \in Sizes
    BY TypesHaveTrueSizes DEF HaveTrueSizes
  <2>2. d \in Nat /\ d = program.runtime[v].dtype
    BY ImpliedTypes, ImpliedDescribes DEF DtypesImplied
  <2>3. IsTensorType(new) /\ new.dtype = {d} /\ new.sizes = type[v].sizes
    BY <2>1, <2>2 DEF IsTensorType, TensorType
  <2>4. Describes(new, program.runtime[v])
    BY <2>1, <2>2, <2>3 DEF Describes
  <2>5. Refinements(type[v], new) \subseteq DtypeRefinements(v)
    BY <1>1 DEF DtypeRefinements, DtypesImplied
  <2> HIDE DEF new
  <2>6. Compatible(type[v], new)
    BY <2>1, <2>3, <2>4, TrueTypesAreCompatible
  <2>7. Meet(type[v], new) = type[v]
    BY <2>5, <2>6 DEF Refinements
  <2>8. Meet(type[v], new).dtype = type[v].dtype \cup new.dtype
    BY <2>1, <2>3, <2>6, MeetKnows
  <2> QED  BY <2>3, <2>7, <2>8
<1> QED  BY <1>1

\* What is fixed stays fixed when only dtypes change.
LEMMA SizesStayFixed ==
  ASSUME IInv, SizesFixed, program' = program, kind' = kind,
         \A v \in Value(program) : type'[v].sizes = type[v].sizes
  PROVE  SizesFixed'
<1>1. Value(program)' = Value(program) /\ \A v \in Value(program) : Args(v)' = Args(v)
  BY DEF Value, Args
<1>2. ASSUME NEW v \in Value(program) PROVE SizesImplied(v)' = SizesImplied(v)
  <2> DEFINE k == kind[v]
             args == Args(v)
             T == type
             U == type'
  <2>1. \A i \in 1..Arity(k) : T[args[i]].sizes = U[args[i]].sizes
    BY OperandsAreBefore DEF IInv
  <2>2. ImpliedSizes(k, args, T) = ImpliedSizes(k, args, U)
    <3> HIDE DEF k, args, T, U
    <3> QED  BY <2>1, ImpliedByOperands
  <2> QED  BY <1>1, <2>2 DEF SizesImplied
<1> QED  BY <1>1, <1>2 DEF SizesFixed

LEMMA NextTypesInv == TypesInv /\ [Next]_vars => TypesInv'
<1> SUFFICES ASSUME TypesInv, [Next]_vars PROVE TypesInv'
  OBVIOUS
<1>1. IInv' /\ RefinedTypesAreTrue'
  BY NextIInv, NextTruth DEF TypesInv
<1>2. ASSUME program' = program, type' = type,
             \A v \in Value(program) : kind'[v] = kind[v] \/ kind[v] = "complex"
      PROVE  Bounded'
  BY <1>1, <1>2, BoundedStep
<1>3. CASE BeginIteration \/ CheckContract
  <2>1. UNCHANGED <<program, options, kind, type>>
    BY <1>3 DEF BeginIteration, CheckContract
  <2>2. phase' \in {"return", "failed", "succeeded", "loop"}
    BY <1>3 DEF BeginIteration, CheckContract
  <2>3. Bounded'
    BY <1>2, <2>1
  <2>4. Fixed'
    BY <2>2 DEF Fixed
  <2> QED  BY <1>1, <2>3, <2>4 DEF TypesInv
<1>4. CASE RefinePublicReturn
  <2>1. UNCHANGED <<program, options, kind, type>>
    BY <1>4 DEF RefinePublicReturn
  <2>2. \/ phase' = "sizes" /\ options.shapeDtypeRefine
        \/ phase' = "return again" /\ ~options.shapeDtypeRefine
        \/ phase' = "decompose"
    BY <1>4 DEF RefinePublicReturn
  <2>3. Bounded'
    BY <1>2, <2>1
  <2>4. Fixed'
    BY <2>1, <2>2 DEF Fixed
  <2> QED  BY <1>1, <2>3, <2>4 DEF TypesInv
<1>5. CASE NextPass
  <2>1. UNCHANGED <<program, options, kind, type>>
    BY <1>5 DEF NextPass
  <2>2. Bounded'
    BY <1>2, <2>1
  <2>3. SizesFixed => SizesFixed'
    BY <2>1, SizesStayFixed DEF TypesInv
  <2>4. CASE phase = "sizes"
    <3>1. SizesFixed
      BY <1>5, <2>4, NoSizeRefinement DEF NextPass, SizesFixed, TypesInv
    <3>2. Fixed'
      BY <1>5, <2>1, <2>3, <2>4, <3>1 DEF NextPass, Fixed, TypesInv
    <3> QED  BY <1>1, <2>2, <3>2 DEF TypesInv
  <2>5. CASE phase = "dtypes"
    <3>1. SizesFixed
      BY <2>5 DEF TypesInv, Fixed
    <3>2. DtypesFixed
      BY <1>5, <2>5, NoDtypeRefinement DEF NextPass, DtypesFixed, TypesInv
    <3>3. DtypesFixed'
      BY <2>1, <3>2 DEF DtypesFixed, DtypesImplied, Value, Args
    <3>4. Fixed'
      BY <1>5, <2>3, <2>5, <3>1, <3>3 DEF NextPass, Fixed
    <3> QED  BY <1>1, <2>2, <3>4 DEF TypesInv
  <2>6. CASE phase \notin {"sizes", "dtypes"}
    <3>1. phase' = "check"
      BY <1>5, <2>6 DEF NextPass
    <3> QED  BY <1>1, <2>2, <3>1 DEF TypesInv, Fixed
  <2> QED  BY <2>4, <2>5, <2>6
<1>6. ASSUME NEW v \in Value(program), RefineSizes(v)
      PROVE  TypesInv'
  <2>1. PICK t \in SizeRefinements(v) : UpdateResultType(v, t)
    BY <1>6 DEF RefineSizes
  <2>2. UNCHANGED <<program, options, kind, phase>> /\ phase = "sizes"
    BY <1>6, <2>1 DEF UpdateResultType, RefineSizes
  <2>3. \A w \in Value(program) : type'[w] = IF w = v THEN t ELSE type[w]
    BY <2>1 DEF TypesInv, IInv, TypeOK, UpdateResultType
  <2>4. /\ Known(type[v].sizes) \subseteq Known(t.sizes)
        /\ Known(t.sizes) \subseteq Known(type[v].sizes) \cup Known(SizesImplied(v))
        /\ t.dtype = type[v].dtype
    BY RefinedKnows DEF TypesInv
  <2>5. \A w \in Value(program) :
           /\ Known(type[w].sizes) \subseteq Known(type'[w].sizes)
           /\ Known(type'[w].sizes) \subseteq Known(type[w].sizes) \cup Known(SizesImplied(w))
           /\ type'[w].dtype = type[w].dtype
    BY <2>3, <2>4
  <2>6. Bounded'
    BY <1>1, <2>2, <2>5, BoundedStep
  <2>7. Fixed'
    BY <2>2 DEF Fixed, TypesInv
  <2> QED  BY <1>1, <2>6, <2>7 DEF TypesInv
<1>7. ASSUME NEW v \in Value(program), RefineDtype(v)
      PROVE  TypesInv'
  <2>1. PICK t \in DtypeRefinements(v) : UpdateResultType(v, t)
    BY <1>7 DEF RefineDtype
  <2>2. UNCHANGED <<program, options, kind, phase>> /\ phase = "dtypes"
    BY <1>7, <2>1 DEF UpdateResultType, RefineDtype
  <2>3. \A w \in Value(program) : type'[w] = IF w = v THEN t ELSE type[w]
    BY <2>1 DEF TypesInv, IInv, TypeOK, UpdateResultType
  <2>4. /\ t.sizes = type[v].sizes
        /\ type[v].dtype \subseteq t.dtype
        /\ t.dtype \subseteq type[v].dtype \cup DtypesImplied(v)
    BY RefinedKnows DEF TypesInv
  <2>5. \A w \in Value(program) :
           /\ type'[w].sizes = type[w].sizes
           /\ type[w].dtype \subseteq type'[w].dtype
           /\ type'[w].dtype \subseteq type[w].dtype \cup DtypesImplied(w)
    BY <2>3, <2>4
  <2>6. Bounded'
    BY <1>1, <2>2, <2>5, BoundedStep
  <2>7. SizesFixed'
    BY <2>2, <2>5, SizesStayFixed DEF Fixed, TypesInv
  <2>8. Fixed'
    BY <2>2, <2>7 DEF Fixed, TypesInv
  <2> QED  BY <1>1, <2>6, <2>8 DEF TypesInv
<1>8. ASSUME NEW v \in Value(program), DecomposeOp(v)
      PROVE  TypesInv'
  <2>1. UNCHANGED <<program, options, type, phase>> /\ phase = "decompose"
    BY <1>8 DEF DecomposeOp
  <2>2. \A w \in Value(program) : kind'[w] = kind[w] \/ kind[w] = "complex"
    BY <1>8 DEF DecomposeOp, Decomposable, TypesInv, IInv, TypeOK
  <2>3. Bounded'
    BY <1>2, <2>1, <2>2
  <2>4. Fixed'
    BY <2>1 DEF Fixed
  <2> QED  BY <1>1, <2>3, <2>4 DEF TypesInv
<1>9. CASE UNCHANGED vars
  <2>1. UNCHANGED <<program, options, kind, type, phase>>
    BY <1>9 DEF vars
  <2>2. Bounded'
    BY <1>2, <2>1
  <2>3. SizesFixed => SizesFixed'
    BY <2>1, SizesStayFixed DEF TypesInv
  <2>4. DtypesFixed => DtypesFixed'
    BY <2>1 DEF DtypesFixed, DtypesImplied, Value, Args
  <2>5. Fixed'
    BY <2>1, <2>3, <2>4 DEF Fixed, TypesInv
  <2> QED  BY <1>1, <2>2, <2>5 DEF TypesInv
<1> QED  BY <1>3, <1>4, <1>5, <1>6, <1>7, <1>8, <1>9 DEF Next

LEMMA InitTypesInv == Init => Bounded /\ Fixed
BY DEF Init, Bounded, Fixed

LEMMA AlwaysTypesInv == Spec => []TypesInv
<1>1. Init /\ RefinedTypesAreTrue => TypesInv
  BY InitIInv, InitTypesInv DEF TypesInv
<1> QED  BY <1>1, NextTypesInv, Truth, PTL DEF Spec

\* A true type is refined to its meet with another one, if that is not what it is.
LEMMA RefinementIsMeet ==
  ASSUME NEW old, NEW new, IsTensorType(old), IsTensorType(new), NEW tensor, tensor.sizes \in Sizes,
         Describes(old, tensor), Describes(new, tensor)
  PROVE  LET R == Refinements(old, new)
             t == IF R = {} THEN old ELSE CHOOSE u \in R : TRUE
         IN  /\ t = Meet(old, new) /\ IsTensorType(t) /\ Describes(t, tensor)
             /\ Known(t.sizes) = Known(old.sizes) \cup Known(new.sizes)
             /\ t.dtype = old.dtype \cup new.dtype
<1> DEFINE R == Refinements(old, new)
           t == IF R = {} THEN old ELSE CHOOSE u \in R : TRUE
<1>1. Compatible(old, new)
  BY TrueTypesAreCompatible
<1>2. R = IF Meet(old, new) # old THEN {Meet(old, new)} ELSE {}
  BY <1>1 DEF Refinements
<1> HIDE DEF R
<1>3. t = Meet(old, new)
  BY <1>2
<1>4. IsTensorType(Meet(old, new)) /\ Describes(Meet(old, new), tensor)
  BY <1>1, MeetType, MeetDescribes
<1>5. /\ Known(Meet(old, new).sizes) = Known(old.sizes) \cup Known(new.sizes)
      /\ Meet(old, new).dtype = old.dtype \cup new.dtype
  BY <1>1, MeetKnows
<1> QED  BY <1>3, <1>4, <1>5 DEF R

\* At most one list of sizes is implied.
LEMMA OneIsImplied ==
  ASSUME TypesInv, NEW v \in Value(program)
  PROVE  /\ \A r, s \in SizesImplied(v) : r = s
         /\ \A d, e \in DtypesImplied(v) : d = e
<1>1. \A d, e \in DtypesImplied(v) : d = e
  BY ImpliedDescribes DEF DtypesImplied, TypesInv
<1>2. \A w \in Value(program) : \A r, s \in type[w].sizes : r = s
  BY DEF TypesInv, IInv, TypeOK, IsTensorType
<1>3. \A r, s \in SizesImplied(v) : r = s
  <2>1. CASE kind[v] = "unary"
    BY <1>2, <2>1, Operands DEF SizesImplied, ImpliedSizes, TypesInv, IInv
  <2>2. CASE kind[v] = "binary"
    BY <1>2, <2>2, Operands DEF SizesImplied, ImpliedSizes, TypesInv, IInv
  <2>3. CASE kind[v] \notin {"unary", "binary"}
    BY <2>3 DEF SizesImplied, ImpliedSizes
  <2> QED  BY <2>1, <2>2, <2>3
<1> QED  BY <1>1, <1>3

(***************************************************************************)
(* One inference from the types as they are.                               *)
(***************************************************************************)
LEMMA InferenceKnows ==
  ASSUME TypesInv, NEW v \in Value(program)
  PROVE  LET t == InferredType(v, type, program.types[v])
         IN  /\ IsTensorType(t) /\ Describes(t, program.runtime[v])
             /\ Known(t.sizes) = Known(program.types[v].sizes) \cup Known(SizesImplied(v))
             /\ t.dtype = program.types[v].dtype \cup DtypesImplied(v)
<1> DEFINE old    == program.types[v]
           tensor == program.runtime[v]
           sizes  == UNION {Refinements(old, [old EXCEPT !.sizes = {s}]) : s \in SizesImplied(v)}
           sized  == IF sizes = {} THEN old ELSE CHOOSE t \in sizes : TRUE
           dtypes == UNION {Refinements(sized, [sized EXCEPT !.dtype = {d}]) : d \in DtypesImplied(v)}
           t      == IF dtypes = {} THEN sized ELSE CHOOSE u \in dtypes : TRUE
<1>1. t = InferredType(v, type, program.types[v])
  BY DEF InferredType, SizesImplied, DtypesImplied
<1>2. IsTensorType(old) /\ Describes(old, tensor) /\ tensor.sizes \in Sizes /\ tensor.dtype \in Nat
  BY TypesHaveTrueSizes DEF TypesInv, HaveTrueSizes
<1>3. /\ \A s \in SizesImplied(v) : s \in Sizes /\ IsSubsizes(tensor.sizes, s)
      /\ \A d \in DtypesImplied(v) : d = tensor.dtype
  BY ImpliedTypes, ImpliedDescribes DEF SizesImplied, DtypesImplied, TypesInv
<1>4. /\ IsTensorType(sized) /\ Describes(sized, tensor)
      /\ Known(sized.sizes) = Known(old.sizes) \cup Known(SizesImplied(v))
      /\ sized.dtype = old.dtype
  <2>1. CASE SizesImplied(v) = {}
    <3>1. sized = old
      BY <2>1
    <3>2. Known(SizesImplied(v)) = {}
      BY <2>1 DEF Known
    <3> HIDE DEF old, sized
    <3> QED  BY <1>2, <3>1, <3>2
  <2>2. ASSUME NEW s \in SizesImplied(v)
        PROVE  /\ IsTensorType(sized) /\ Describes(sized, tensor)
               /\ Known(sized.sizes) = Known(old.sizes) \cup Known(SizesImplied(v))
               /\ sized.dtype = old.dtype
    <3> DEFINE new == [old EXCEPT !.sizes = {s}]
               R   == Refinements(old, new)
    <3>1. SizesImplied(v) = {s}
      BY <2>2, OneIsImplied
    <3>2. sizes = R
      BY <3>1
    <3>3. IsTensorType(new) /\ new.sizes = {s} /\ new.dtype = old.dtype
      BY <1>2, <1>3, <2>2 DEF IsTensorType, TensorType
    <3>4. Describes(new, tensor)
      BY <1>2, <1>3, <2>2, <3>3 DEF Describes
    <3> HIDE DEF new, old, tensor
    <3>5. LET u == IF R = {} THEN old ELSE CHOOSE u \in R : TRUE
          IN  /\ IsTensorType(u) /\ Describes(u, tensor)
              /\ Known(u.sizes) = Known(old.sizes) \cup Known(new.sizes)
              /\ u.dtype = old.dtype \cup new.dtype
      BY <1>2, <3>3, <3>4, RefinementIsMeet
    <3> HIDE DEF R, sizes
    <3>6. /\ IsTensorType(sized) /\ Describes(sized, tensor)
          /\ Known(sized.sizes) = Known(old.sizes) \cup Known(new.sizes)
          /\ sized.dtype = old.dtype \cup new.dtype
      BY <3>2, <3>5
    <3> HIDE DEF sized
    <3> QED  BY <3>1, <3>3, <3>6
  <2> QED  BY <2>1, <2>2
<1>5. /\ IsTensorType(t) /\ Describes(t, tensor)
      /\ Known(t.sizes) = Known(sized.sizes)
      /\ t.dtype = sized.dtype \cup DtypesImplied(v)
  <2> HIDE DEF sized
  <2>1. CASE DtypesImplied(v) = {}
    <3>1. t = sized
      BY <2>1
    <3> HIDE DEF t
    <3> QED  BY <1>4, <2>1, <3>1
  <2>2. ASSUME NEW d \in DtypesImplied(v)
        PROVE  /\ IsTensorType(t) /\ Describes(t, tensor)
               /\ Known(t.sizes) = Known(sized.sizes)
               /\ t.dtype = sized.dtype \cup DtypesImplied(v)
    <3> DEFINE new == [sized EXCEPT !.dtype = {d}]
               R   == Refinements(sized, new)
    <3>1. DtypesImplied(v) = {d}
      BY <2>2, OneIsImplied
    <3>2. dtypes = R
      BY <3>1
    <3>3. IsTensorType(new) /\ new.sizes = sized.sizes /\ new.dtype = {d}
      BY <1>2, <1>3, <1>4, <2>2 DEF IsTensorType, TensorType
    <3>4. Describes(new, tensor)
      BY <1>3, <1>4, <2>2, <3>3 DEF Describes
    <3> HIDE DEF new, tensor
    <3>5. LET u == IF R = {} THEN sized ELSE CHOOSE u \in R : TRUE
          IN  /\ IsTensorType(u) /\ Describes(u, tensor)
              /\ Known(u.sizes) = Known(sized.sizes) \cup Known(new.sizes)
              /\ u.dtype = sized.dtype \cup new.dtype
      BY <1>2, <1>4, <3>3, <3>4, RefinementIsMeet
    <3> HIDE DEF R, dtypes
    <3>6. /\ IsTensorType(t) /\ Describes(t, tensor)
          /\ Known(t.sizes) = Known(sized.sizes) \cup Known(new.sizes)
          /\ t.dtype = sized.dtype \cup new.dtype
      BY <3>2, <3>5
    <3> HIDE DEF t
    <3> QED  BY <3>1, <3>3, <3>6
  <2> QED  BY <2>1, <2>2
<1> HIDE DEF t, sized
<1> QED  BY <1>1, <1>4, <1>5 DEF old

\* What holds for a number whenever it holds for all smaller ones holds for all.
LEMMA StrongInduction ==
  ASSUME NEW S, \A n \in Nat : (\A m \in Nat : m < n => m \in S) => n \in S
  PROVE  Nat \subseteq S
<1> DEFINE R == OpToRel(<, Nat)
           T == Nat \ S
<1>1. SUFFICES ASSUME T # {} PROVE FALSE
  OBVIOUS
<1>2. IsWellFoundedOn(R, Nat)
  BY NatLessThanWellFounded
<1>3. PICK x \in T : \A y \in T : ~ (<<y, x>> \in R)
  <2> HIDE DEF R
  <2> QED  BY <1>1, <1>2, WFMin
<1>4. \A y \in Nat : y < x => <<y, x>> \in R
  BY <1>3 DEF OpToRel
<1> QED  BY <1>3, <1>4

\* What is inferred depends on the types of the operands only.
LEMMA InferenceByOperands ==
  ASSUME IInv, NEW v \in Value(program), NEW T, NEW old,
         \A w \in Value(program) : w < v => T[w].sizes = type[w].sizes /\ T[w].dtype = type[w].dtype
  PROVE  InferredType(v, T, old) = InferredType(v, type, old)
<1> DEFINE k == kind[v]
           args == Args(v)
           U == type
<1>1. \A i \in 1..Arity(k) : T[args[i]].sizes = U[args[i]].sizes /\ T[args[i]].dtype = U[args[i]].dtype
  BY OperandsAreBefore DEF IInv
<1>2. ImpliedSizes(k, args, T) = ImpliedSizes(k, args, U) /\ ImpliedDtypes(k, args, T) = ImpliedDtypes(k, args, U)
  <2> HIDE DEF k, args, U
  <2> QED  BY <1>1, ImpliedByOperands
<1> QED  BY <1>2 DEF InferredType

(***************************************************************************)
(* Inference in program order gives the types that the refinements leave.  *)
(***************************************************************************)
LEMMA FixedTypesAreInferred ==
  ASSUME TypesInv, SizesFixed, DtypesFixed
  PROVE  \A v \in Value(program) : type[v].sizes = Inferred[v].sizes /\ type[v].dtype = Inferred[v].dtype
<1> DEFINE once(v) == InferredType(v, type, program.types[v])
           IsInferred(f) == f = [v \in Value(program) |-> InferredType(v, f, program.types[v])]
<1>1. ASSUME NEW v \in Value(program)
      PROVE  once(v).sizes = type[v].sizes /\ once(v).dtype = type[v].dtype
  <2>1. /\ IsTensorType(once(v)) /\ Describes(once(v), program.runtime[v])
        /\ Known(once(v).sizes) = Known(program.types[v].sizes) \cup Known(SizesImplied(v))
        /\ once(v).dtype = program.types[v].dtype \cup DtypesImplied(v)
    BY InferenceKnows
  <2> HIDE DEF once
  <2>2. /\ Known(once(v).sizes) = Known(type[v].sizes)
        /\ once(v).dtype = type[v].dtype
    BY <2>1 DEF TypesInv, Bounded, SizesFixed, DtypesFixed
  <2>3. program.runtime[v].sizes \in Sizes /\ TrueSizes(type[v].sizes, program.runtime[v])
    BY TypesHaveTrueSizes DEF TypesInv, HaveTrueSizes
  <2>4. TrueSizes(once(v).sizes, program.runtime[v])
    BY <2>1 DEF TrueSizes, IsTensorType, TensorType, Describes
  <2> QED  BY <2>2, <2>3, <2>4, KnownDetermines
<1>2. \E f : IsInferred(f)
  <2> DEFINE f == [v \in Value(program) |-> once(v)]
  <2>1. ASSUME NEW v \in Value(program)
        PROVE  InferredType(v, f, program.types[v]) = once(v)
    <3>1. \A w \in Value(program) : f[w].sizes = type[w].sizes /\ f[w].dtype = type[w].dtype
      BY <1>1
    <3> HIDE DEF f
    <3> QED  BY <3>1, InferenceByOperands DEF TypesInv
  <2>2. IsInferred(f)
    BY <2>1
  <2> QED  BY <2>2
<1>3. IsInferred(Inferred)
  BY <1>2 DEF Inferred
<1>4. \A v \in Value(program) : Inferred[v] = InferredType(v, Inferred, program.types[v])
  BY <1>3
<1> HIDE DEF once, IsInferred
<1> DEFINE S == {n \in Nat : n \in Value(program) =>
                   type[n].sizes = Inferred[n].sizes /\ type[n].dtype = Inferred[n].dtype}
<1>5. ASSUME NEW n \in Nat, \A m \in Nat : m < n => m \in S
      PROVE  n \in S
  <2> SUFFICES ASSUME n \in Value(program)
               PROVE  type[n].sizes = Inferred[n].sizes /\ type[n].dtype = Inferred[n].dtype
    OBVIOUS
  <2>1. \A w \in Value(program) : w \in Nat
    BY OperandsAreBefore DEF TypesInv, IInv
  <2>2. \A w \in Value(program) : w < n =>
           Inferred[w].sizes = type[w].sizes /\ Inferred[w].dtype = type[w].dtype
    BY <1>5, <2>1
  <2>3. InferredType(n, Inferred, program.types[n]) = once(n)
    BY <2>2, InferenceByOperands DEF TypesInv, once
  <2> QED  BY <1>1, <1>4, <2>3
<1>6. Nat \subseteq S
  <2> HIDE DEF S
  <2> QED  BY <1>5, StrongInduction
<1>7. Value(program) \subseteq Nat
  BY OperandsAreBefore DEF TypesInv, IInv
<1> QED  BY <1>6, <1>7

(***************************************************************************)
(* Sizes and dtypes are those that one inference in program order gives,   *)
(* whatever the order of rewrites and of iterations.                       *)
(***************************************************************************)
THEOREM Confluence == Spec => []TypesAreInferred
<1>1. TypesInv => TypesAreInferred
  BY FixedTypesAreInferred DEF TypesInv, Fixed, TypesAreInferred
<1> QED  BY <1>1, AlwaysTypesInv, PTL

(***************************************************************************)
(* An iteration that does not reach the contract has decomposed an op.     *)
(***************************************************************************)
\* The complex ops that were decomposed.
Decomposed == {v \in Complex : kind[v] # "complex"}

\* What is fixed after the refinements stays fixed until an op is decomposed.
LoopProgress ==
  /\ phase = "loop" => iterations <= Cardinality(Decomposed)
  /\ phase \in {"return", "sizes", "dtypes", "return again"} => iterations <= Cardinality(Decomposed) + 1
  /\ phase \in {"decompose", "check"} =>
       \/ iterations <= Cardinality(Decomposed)
       \/ iterations <= Cardinality(Decomposed) + 1 /\ SizesFixed /\ DtypesFixed
  /\ phase = "failed" => options.maxIterations \in 0..Cardinality(Decomposed)

LowerableTypes ==
  /\ \A v \in Value(program) : type[v].value /\ \A t \in cast[v] : CheckType(t)
  /\ phase \in {"decompose", "check"} => returned = [type[Last] EXCEPT !.value = TRUE]
  /\ phase = "check" => \A v \in Value(program) : ~Decomposable(v)

Progress == CanBeLowered => LowerableTypes /\ LoopProgress

LEMMA DecomposedIsFinite ==
  ASSUME Static
  PROVE  IsFiniteSet(Complex) /\ IsFiniteSet(Decomposed) /\ Cardinality(Decomposed) \in Nat
         /\ Cardinality(Decomposed) <= Cardinality(Complex) /\ Cardinality(Complex) \in Nat
<1>1. program.ops \in Seq([kind: Kind, args: Seq(Nat)])
  BY ProgramsAssumption DEF Static, ProgramIR
<1>2. Value(program) = 1..Len(program.ops) /\ Len(program.ops) \in Nat
  BY <1>1 DEF Value
<1>3. IsFiniteSet(Value(program))
  BY <1>2, FS_Interval
<1>4. IsFiniteSet(Complex)
  BY <1>3, FS_Subset DEF Complex
<1>5. Decomposed \subseteq Complex
  BY DEF Decomposed
<1> QED  BY <1>4, <1>5, FS_Subset, FS_CardinalityType

\* Where something is known of sizes there are sizes.
LEMMA SomethingIsKnown ==
  ASSUME NEW A, NEW B, A # {}, Known(A) \subseteq Known(B)
  PROVE  B # {}
<1>1. 0 \in Known(A)
  BY DEF Known
<1> QED  BY <1>1 DEF Known

\* Types that the program gives are not lost.
LEMMA GivenTypesStay ==
  ASSUME Bounded, NEW v \in Value(program), CheckType(program.types[v])
  PROVE  type[v].sizes # {} /\ type[v].dtype # {}
<1>1. Known(program.types[v].sizes) \subseteq Known(type[v].sizes) /\ program.types[v].dtype \subseteq type[v].dtype
  BY DEF Bounded
<1> QED  BY <1>1, SomethingIsKnown DEF CheckType

\* Where the operands have sizes and dtypes, sizes and a dtype are implied.
LEMMA SomethingIsImplied ==
  ASSUME IInv, NEW v \in Value(program), kind[v] \in {"unary", "binary"},
         \A i \in 1..Arity(kind[v]) : type[Args(v)[i]].sizes # {} /\ type[Args(v)[i]].dtype # {}
  PROVE  SizesImplied(v) # {} /\ DtypesImplied(v) # {}
<1>1. CASE kind[v] = "unary"
  <2>1. 1 \in 1..Arity(kind[v])
    BY <1>1 DEF Arity
  <2> QED  BY <1>1, <2>1 DEF SizesImplied, DtypesImplied, ImpliedSizes, ImpliedDtypes
<1>2. CASE kind[v] = "binary"
  <2> DEFINE a == type[Args(v)[1]]
             b == type[Args(v)[2]]
  <2>1. a.sizes # {} /\ a.dtype # {} /\ b.sizes # {} /\ b.dtype # {}
    BY <1>2 DEF Arity
  <2>2. /\ SizesImplied(v) = {Broadcast(r, s) : r \in a.sizes, s \in b.sizes}
        /\ DtypesImplied(v) = {Promote(r, d, s, e) : r \in a.sizes, d \in a.dtype, s \in b.sizes, e \in b.dtype}
    BY <1>2 DEF SizesImplied, DtypesImplied, ImpliedSizes, ImpliedDtypes
  <2> HIDE DEF a, b
  <2>3. PICK r \in a.sizes, d \in a.dtype, s \in b.sizes, e \in b.dtype : TRUE
    BY <2>1
  <2>4. Broadcast(r, s) \in SizesImplied(v) /\ Promote(r, d, s, e) \in DtypesImplied(v)
    BY <2>2
  <2> QED  BY <2>4
<1> QED  BY <1>1, <1>2

(***************************************************************************)
(* Where nothing more is implied and nothing can be decomposed, all types  *)
(* are known and no complex op is left.                                    *)
(***************************************************************************)
LEMMA AllIsKnown ==
  ASSUME TypesInv, SizesFixed, DtypesFixed, CanBeLowered, \A v \in Value(program) : ~Decomposable(v)
  PROVE  \A v \in Value(program) : kind[v] # "complex" /\ type[v].sizes # {} /\ type[v].dtype # {}
<1> DEFINE Lowered(v) == kind[v] # "complex" /\ type[v].sizes # {} /\ type[v].dtype # {}
           S == {n \in Nat : n \in Value(program) => Lowered(n)}
<1>1. \A w \in Value(program) : w \in Nat
  BY OperandsAreBefore DEF TypesInv, IInv
<1>2. ASSUME NEW n \in Nat, \A m \in Nat : m < n => m \in S
      PROVE  n \in S
  <2> SUFFICES ASSUME n \in Value(program) PROVE Lowered(n)
    OBVIOUS
  <2>1. \A i \in 1..Arity(kind[n]) : Args(n)[i] \in Value(program) /\ Args(n)[i] < n
    BY OperandsAreBefore DEF TypesInv, IInv
  <2>2. \A i \in 1..Arity(kind[n]) : Lowered(Args(n)[i])
    BY <1>1, <1>2, <2>1
  <2>3. kind[n] \in Kind /\ (kind[n] = program.ops[n].kind \/ kind[n] = "unary")
    BY DEF TypesInv, IInv, TypeOK, KindOK
  <2>4. CASE kind[n] \in {"arg", "opaque"}
    <3>1. CheckType(program.types[n])
      BY <2>3, <2>4 DEF CanBeLowered
    <3> QED  BY <2>4, <3>1, GivenTypesStay DEF TypesInv
  <2>5. CASE kind[n] = "complex"
    <3>1. 1 \in 1..Arity(kind[n])
      BY <2>5 DEF Arity
    <3>2. type[Args(n)[1]].sizes # {}
      BY <2>2, <3>1
    <3> QED  BY <2>5, <3>2 DEF Decomposable, CanBeLowered
  <2>6. CASE kind[n] \in {"unary", "binary"}
    <3>1. SizesImplied(n) # {} /\ DtypesImplied(n) # {}
      BY <2>2, <2>6, SomethingIsImplied DEF TypesInv
    <3>2. Known(SizesImplied(n)) \subseteq Known(type[n].sizes) /\ DtypesImplied(n) \subseteq type[n].dtype
      BY DEF SizesFixed, DtypesFixed
    <3> QED  BY <2>6, <3>1, <3>2, SomethingIsKnown
  <2> QED  BY <2>3, <2>4, <2>5, <2>6 DEF Kind
<1>3. Nat \subseteq S
  <2> HIDE DEF S
  <2> QED  BY <1>2, StrongInduction
<1> QED  BY <1>1, <1>3

\* An iteration that ends with all types fixed and nothing to decompose is the last one.
LEMMA FixedSatisfiesContract ==
  ASSUME TypesInv, CanBeLowered, LowerableTypes, phase = "check", SizesFixed, DtypesFixed
  PROVE  SatisfiesBackendContract
<1>1. \A v \in Value(program) : kind[v] # "complex" /\ type[v].sizes # {} /\ type[v].dtype # {}
  BY AllIsKnown DEF LowerableTypes
<1>2. \A v \in Value(program) : CheckType(type[v]) /\ \A t \in cast[v] : CheckType(t)
  BY <1>1 DEF LowerableTypes, CheckType
<1>3. Last \in Value(program) /\ IsTensorType(type[Last])
  BY LastIsAValue DEF TypesInv, IInv, TypeOK
<1>4. CheckType([type[Last] EXCEPT !.value = TRUE])
  BY <1>1, <1>3 DEF CheckType, IsTensorType, TensorType
<1>5. CheckType(returned)
  BY <1>4 DEF LowerableTypes
<1> QED  BY <1>1, <1>2, <1>5 DEF SatisfiesBackendContract

LEMMA NextLowerableTypes ==
  ASSUME TypesInv, CanBeLowered, LowerableTypes, [Next]_vars
  PROVE  LowerableTypes'
<1> DEFINE Typed == \A v \in Value(program) : type[v].value /\ \A t \in cast[v] : CheckType(t)
           ToReturn == [type[Last] EXCEPT !.value = TRUE]
<1>1. Typed /\ ~ReturnIsCopied
  BY LastIsAValue DEF LowerableTypes, CanBeLowered, ReturnIsCopied, TypesInv, IInv
<1>2. UNCHANGED <<program, options>>
  BY DEF Next, BeginIteration, RefinePublicReturn, NextPass, CheckContract, RefineSizes, RefineDtype,
         DecomposeOp, UpdateResultType, vars
<1>3. Value(program)' = Value(program) /\ Last' = Last
  BY <1>2 DEF Value, Last
<1>4. ASSUME UNCHANGED <<type, cast>> PROVE Typed' /\ ToReturn' = ToReturn
  BY <1>1, <1>3, <1>4
<1>5. CASE BeginIteration
  <2>1. phase' \notin {"decompose", "check"} /\ UNCHANGED <<type, cast>>
    BY <1>5 DEF BeginIteration
  <2> QED  BY <1>4, <2>1 DEF LowerableTypes
<1>6. CASE CheckContract
  <2>1. phase' \notin {"decompose", "check"} /\ UNCHANGED <<type, cast>>
    BY <1>6 DEF CheckContract
  <2> QED  BY <1>4, <2>1 DEF LowerableTypes
<1>7. CASE RefinePublicReturn
  <2>1. phase' # "check" /\ returned' = ToReturn /\ UNCHANGED <<type, cast>>
    BY <1>1, <1>7 DEF RefinePublicReturn
  <2> QED  BY <1>4, <2>1 DEF LowerableTypes
<1>8. CASE NextPass
  <2>1. UNCHANGED <<kind, type, cast, returned>>
    BY <1>8 DEF NextPass
  <2>2. phase' = "check" => phase = "decompose" /\ \A v \in Value(program) : ~Decomposable(v)
    BY <1>8 DEF NextPass
  <2>3. phase' # "decompose"
    BY <1>8 DEF NextPass
  <2>4. \A v : Decomposable(v)' = Decomposable(v)
    BY <1>2, <2>1 DEF Decomposable, Args
  <2>5. phase' = "check" => \A v \in Value(program) : ~Decomposable(v)'
    BY <2>2, <2>4
  <2>6. phase' \in {"decompose", "check"} => returned' = ToReturn'
    BY <1>4, <2>1, <2>2, <2>3 DEF LowerableTypes
  <2> QED  BY <1>3, <1>4, <2>1, <2>5, <2>6 DEF LowerableTypes
<1>9. ASSUME NEW v \in Value(program), RefineSizes(v) \/ RefineDtype(v)
      PROVE  LowerableTypes'
  <2>1. PICK t \in SizeRefinements(v) \cup DtypeRefinements(v) : UpdateResultType(v, t)
    BY <1>9 DEF RefineSizes, RefineDtype
  <2>2. phase' \in {"sizes", "dtypes"}
    BY <1>9, <2>1 DEF RefineSizes, RefineDtype, UpdateResultType
  <2>3. t.value = type[v].value
    BY <1>1, RefinedIsSubtype DEF TypesInv, IsValidSubtype
  <2>4. \A w \in Value(program) : type'[w] = IF w = v THEN t ELSE type[w]
    BY <2>1 DEF TypesInv, IInv, TypeOK, UpdateResultType
  <2>5. v \in program.exact => CheckType(type[v])
    <3> SUFFICES ASSUME v \in program.exact PROVE CheckType(type[v])
      OBVIOUS
    <3>1. CheckType(program.types[v])
      BY DEF CanBeLowered
    <3> QED  BY <1>1, <3>1, GivenTypesStay DEF TypesInv, CheckType
  <2>6. \A w \in Value(program) : cast'[w] = cast[w] \/ (w = v /\ v \in program.exact /\ cast'[w] = {type[v]})
    BY <1>1, <2>1 DEF TypesInv, IInv, TypeOK, UpdateResultType, NeedsExactType
  <2>7. \A w \in Value(program) : type'[w].value
    BY <1>1, <2>3, <2>4
  <2>8. \A w \in Value(program) : \A u \in cast'[w] : CheckType(u)
    BY <1>1, <2>5, <2>6
  <2> QED  BY <1>3, <2>2, <2>7, <2>8 DEF LowerableTypes, CheckType
<1>10. ASSUME NEW v \in Value(program), DecomposeOp(v)
       PROVE  LowerableTypes'
  <2>1. phase = "decompose" /\ UNCHANGED <<phase, type, cast, returned>>
    BY <1>10 DEF DecomposeOp
  <2>2. returned' = ToReturn'
    BY <1>4, <2>1 DEF LowerableTypes
  <2> QED  BY <1>4, <2>1, <2>2 DEF LowerableTypes
<1>11. CASE UNCHANGED vars
  <2>1. UNCHANGED <<phase, kind, type, cast, returned>>
    BY <1>11 DEF vars
  <2>2. \A v : Decomposable(v)' = Decomposable(v)
    BY <1>2, <2>1 DEF Decomposable, Args
  <2> QED  BY <1>3, <1>4, <2>1, <2>2 DEF LowerableTypes
<1> QED  BY <1>5, <1>6, <1>7, <1>8, <1>9, <1>10, <1>11 DEF Next

LEMMA NextLoopProgress ==
  ASSUME TypesInv, CanBeLowered, LowerableTypes, LoopProgress, [Next]_vars
  PROVE  LoopProgress'
<1> DEFINE n == Cardinality(Decomposed)
<1>1. UNCHANGED <<program, options>>
  BY DEF Next, BeginIteration, RefinePublicReturn, NextPass, CheckContract, RefineSizes, RefineDtype,
         DecomposeOp, UpdateResultType, vars
<1>2. IsFiniteSet(Decomposed) /\ n \in Nat
  BY DecomposedIsFinite DEF TypesInv, IInv
<1>3. iterations \in 0..CounterBound /\ CounterBound \in Nat /\ iterations \in Nat
  BY CounterAssumption DEF TypesInv, IInv, TypeOK
<1>4. Complex' = Complex
  BY <1>1 DEF Complex, Value
<1>5. ASSUME UNCHANGED kind PROVE Decomposed' = Decomposed /\ n' = n
  BY <1>4, <1>5 DEF Decomposed
<1>6. ASSUME UNCHANGED <<kind, type>> PROVE SizesFixed' = SizesFixed /\ DtypesFixed' = DtypesFixed
  BY <1>1, <1>6 DEF SizesFixed, DtypesFixed, SizesImplied, DtypesImplied, Value, Args
<1>7. CASE BeginIteration
  <2>1. UNCHANGED kind /\ phase = "loop"
    BY <1>7 DEF BeginIteration
  <2>2. iterations <= n /\ n' = n
    BY <1>5, <2>1 DEF LoopProgress
  <2>3. options.maxIterations \in Int /\ options.maxIterations < CounterBound
    BY CounterAssumption, OptionsAssumption DEF TypesInv, IInv, Static, OptionsIR
  <2>4. CASE iterations = options.maxIterations
    <3>1. phase' = "failed" /\ options' = options
      BY <1>1, <1>7, <2>4 DEF BeginIteration
    <3> HIDE DEF n
    <3>2. options.maxIterations \in 0..n
      BY <1>2, <1>3, <2>2, <2>4
    <3> QED  BY <2>2, <3>1, <3>2 DEF LoopProgress, n
  <2>5. CASE iterations # options.maxIterations
    <3>1. phase' = "return" /\ iterations' \in Nat /\ iterations' <= iterations + 1
      BY <1>3, <1>7, <2>5 DEF BeginIteration
    <3> HIDE DEF n
    <3>2. iterations' <= n + 1
      BY <1>2, <1>3, <2>2, <3>1
    <3> QED  BY <2>2, <3>1, <3>2 DEF LoopProgress, n
  <2> QED  BY <2>4, <2>5
<1>8. CASE RefinePublicReturn
  <2>1. /\ UNCHANGED <<kind, type, iterations>> /\ phase \in {"return", "return again"}
        /\ phase' \in {"sizes", "return again", "decompose"}
        /\ phase' = "decompose" => phase = "return again"
    BY <1>8 DEF RefinePublicReturn
  <2>2. iterations <= n + 1 /\ n' = n
    BY <1>5, <2>1 DEF LoopProgress
  <2>3. phase' = "decompose" => SizesFixed /\ DtypesFixed
    BY <2>1 DEF TypesInv, Fixed, CanBeLowered
  <2>4. SizesFixed' = SizesFixed /\ DtypesFixed' = DtypesFixed
    BY <1>6, <2>1
  <2> QED  BY <2>1, <2>2, <2>3, <2>4 DEF LoopProgress
<1>9. CASE NextPass
  <2>1. /\ UNCHANGED <<kind, type, iterations>>
        /\ \/ phase \in {"sizes", "dtypes"} /\ phase' \in {"dtypes", "return again"}
           \/ phase = "decompose" /\ phase' = "check"
    BY <1>9 DEF NextPass
  <2>2. n' = n
    BY <1>5, <2>1
  <2>3. SizesFixed' = SizesFixed /\ DtypesFixed' = DtypesFixed
    BY <1>6, <2>1
  <2> QED  BY <2>1, <2>2, <2>3 DEF LoopProgress
<1>10. CASE CheckContract
  <2>1. /\ UNCHANGED <<kind, type, iterations>> /\ phase = "check"
        /\ phase' = IF SatisfiesBackendContract THEN "succeeded" ELSE "loop"
    BY <1>10 DEF CheckContract
  <2>2. n' = n
    BY <1>5, <2>1
  <2>3. ~SatisfiesBackendContract => iterations <= n
    BY <2>1, FixedSatisfiesContract DEF LoopProgress
  <2> QED  BY <2>1, <2>2, <2>3 DEF LoopProgress
<1>11. ASSUME NEW v \in Value(program), RefineSizes(v) \/ RefineDtype(v)
       PROVE  LoopProgress'
  <2>1. UNCHANGED <<kind, phase, iterations>> /\ phase \in {"sizes", "dtypes"}
    BY <1>11 DEF RefineSizes, RefineDtype, UpdateResultType
  <2>2. n' = n
    BY <1>5, <2>1
  <2> QED  BY <2>1, <2>2 DEF LoopProgress
<1>12. ASSUME NEW v \in Value(program), DecomposeOp(v)
       PROVE  LoopProgress'
  <2>1. UNCHANGED <<phase, iterations>> /\ phase = "decompose" /\ kind[v] = "complex"
    BY <1>12 DEF DecomposeOp, Decomposable
  <2>2. \A w \in Value(program) : kind'[w] = IF w = v THEN "unary" ELSE kind[w]
    BY <1>12 DEF DecomposeOp, TypesInv, IInv, TypeOK
  <2>3. v \in Complex /\ v \notin Decomposed
    BY <2>1 DEF Complex, Decomposed, TypesInv, IInv, KindOK
  <2>4. Decomposed' = Decomposed \cup {v}
    BY <1>4, <2>2, <2>3 DEF Decomposed, Complex
  <2>5. n' = n + 1
    BY <1>2, <2>3, <2>4, FS_AddElement
  <2> HIDE DEF n
  <2>6. iterations <= n \/ iterations <= n + 1
    BY <2>1 DEF LoopProgress, n
  <2>7. iterations' <= n'
    BY <1>2, <1>3, <2>1, <2>5, <2>6
  <2> QED  BY <2>1, <2>7 DEF LoopProgress, n
<1>13. CASE UNCHANGED vars
  <2>1. UNCHANGED <<phase, kind, type, iterations>>
    BY <1>13 DEF vars
  <2> QED  BY <1>1, <1>5, <1>6, <2>1 DEF LoopProgress
<1> QED  BY <1>7, <1>8, <1>9, <1>10, <1>11, <1>12, <1>13 DEF Next

LEMMA InitProgress == Init => Progress
<1> SUFFICES ASSUME Init, CanBeLowered PROVE LowerableTypes /\ LoopProgress
  BY DEF Progress
<1>1. Cardinality(Decomposed) \in Nat
  BY DecomposedIsFinite DEF Init, Static
<1>2. LoopProgress
  BY <1>1 DEF Init, LoopProgress
<1>3. LowerableTypes
  BY DEF Init, LowerableTypes, CanBeLowered
<1> QED  BY <1>2, <1>3

LEMMA NextProgress == TypesInv /\ Progress /\ [Next]_vars => Progress'
<1> SUFFICES ASSUME TypesInv, Progress, [Next]_vars, CanBeLowered' PROVE LowerableTypes' /\ LoopProgress'
  BY DEF Progress
<1>1. UNCHANGED <<program, options>>
  BY DEF Next, BeginIteration, RefinePublicReturn, NextPass, CheckContract, RefineSizes, RefineDtype,
         DecomposeOp, UpdateResultType, vars
<1>2. CanBeLowered
  BY <1>1 DEF CanBeLowered, Value
<1> QED  BY <1>2, NextLowerableTypes, NextLoopProgress DEF Progress

(***************************************************************************)
(* A program that can be lowered is lowered, if there is one iteration     *)
(* for each complex op and one more: when an iteration has not reached the *)
(* contract it has decomposed an op, because where the types are fixed and *)
(* nothing can be decomposed everything is known.                          *)
(***************************************************************************)
THEOREM EnoughIterationsLower == Spec => []EnoughIterations
<1>1. TypesInv /\ Progress => EnoughIterations
  <2> SUFFICES ASSUME TypesInv, LoopProgress, phase = "failed", CanBeLowered
               PROVE  options.maxIterations >= 0 /\ options.maxIterations <= Cardinality(Complex)
    BY DEF Progress, EnoughIterations
  <2>1. options.maxIterations \in 0..Cardinality(Decomposed)
    BY DEF LoopProgress
  <2>2. /\ Cardinality(Decomposed) \in Nat /\ Cardinality(Complex) \in Nat
        /\ Cardinality(Decomposed) <= Cardinality(Complex)
    BY DecomposedIsFinite DEF TypesInv, IInv
  <2> QED  BY <2>1, <2>2
<1> QED  BY <1>1, AlwaysTypesInv, InitProgress, NextProgress, PTL DEF Spec
=============================================================================
