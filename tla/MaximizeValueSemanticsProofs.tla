--------------------- MODULE MaximizeValueSemanticsProofs ---------------------
(***************************************************************************)
(* Proofs about torch-maximize-value-semantics, for all functions: every   *)
(* rewrite leaves the function well typed and returning tensors of the     *)
(* types it returned before, except for what ReturnsBesidesViews names;    *)
(* nothing is seen of the rewriting where views read one tensor each; and  *)
(* where nothing is written, only what is returned stays mutable.  The     *)
(* last parts are about torch-refine-public-return, which comes after it,  *)
(* about torch-reduce-op-variants, which comes before it, and about all    *)
(* three passes together.                                                  *)
(***************************************************************************)
EXTENDS ValuePipeline, FiniteSetTheorems, WellFoundedInduction, TLAPS

(***************************************************************************)
(* Numbers.                                                                *)
(***************************************************************************)
\* A set of numbers has a least one.
LEMMA LeastElement ==
  ASSUME NEW S, S \subseteq Nat, S # {}
  PROVE  \E x \in S : \A y \in S : x <= y
<1> DEFINE R == OpToRel(<, Nat)
<1>1. IsWellFoundedOn(R, Nat)
  BY NatLessThanWellFounded
<1>2. PICK x \in S : \A y \in S : ~ (<<y, x>> \in R)
  <2> HIDE DEF R
  <2> QED  BY <1>1, WFMin
<1>3. \A y \in S : ~ (y < x)
  BY <1>2 DEF OpToRel
<1> QED  BY <1>3

\* What holds for 0 and for the successor of every number for which it holds, holds for all.
LEMMA SetInduction ==
  ASSUME NEW S, 0 \in S, \A n \in Nat : n \in S => n + 1 \in S
  PROVE  Nat \subseteq S
<1> DEFINE T == Nat \ S
<1>1. SUFFICES ASSUME T # {} PROVE FALSE
  OBVIOUS
<1>2. PICK x \in T : \A y \in T : x <= y
  BY <1>1, LeastElement
<1>3. x \in Nat \ {0}
  OBVIOUS
<1>4. x - 1 \in Nat /\ x - 1 \notin T
  BY <1>2, <1>3
<1> QED  BY <1>3, <1>4

(***************************************************************************)
(* Functions, op by op.                                                    *)
(***************************************************************************)
IsFunction(f) == f \in [Op -> OpIR] /\ WellFormed(f) /\ WellTyped(f)

\* What a well-typed function has at o.
OpOK(f, o) ==
  /\ o = NumOps <=> f[o].kind = "return"
  /\ f[o].kind \in {"none", "overwrite", "return"} => f[o].type = "none"
  /\ f[o].kind = "view" => Len(f[o].args) \in {1, 2} /\ f[o].type \in {"value", "mutable"}
  /\ \A k \in 1 .. Len(f[o].args) : f[o].args[k] < o /\ f[f[o].args[k]].type # "none"
  /\ f[o].kind = "to_tensor" =>
       Len(f[o].args) = 1 /\ f[o].type = "mutable" /\ f[f[o].args[1]].type = "value"
  /\ f[o].kind = "to_vtensor" =>
       Len(f[o].args) = 1 /\ f[o].type = "value" /\ IsMutable(f, f[o].args[1])
  /\ f[o].kind = "cast" =>
       /\ Len(f[o].args) = 1 /\ f[o].type \in {"value", "mutable"}
       /\ f[f[o].args[1]].type = f[o].type
  /\ f[o].kind = "view" => (IsMutable(f, o) => IsMutable(f, f[o].args[1]))
  /\ f[o].kind = "overwrite" =>
       Len(f[o].args) = 2 /\ f[f[o].args[1]].type = "value" /\ IsMutable(f, f[o].args[2])
  /\ f[o].kind = "arg" => f[o].type = "value"
  /\ f[o].kind = "pure" => f[o].type \in {"value", "mutable"}
  /\ f[o].kind = "inplace" =>
       Len(f[o].args) >= 1 /\ f[o].type = "mutable" /\ IsMutable(f, f[o].args[1])
  /\ f[o].kind \in {"list", "append"} => f[o].type = "list"
  /\ f[o].kind = "append" => Len(f[o].args) = 2
  /\ f[o].kind = "other" => Len(f[o].args) >= 1 /\ f[o].type = "none"

LEMMA OperandsAre ==
  ASSUME NEW f \in [Op -> OpIR], NEW o \in Op
  PROVE  /\ f[o].args \in Seq(Op) /\ Len(f[o].args) \in Nat
         /\ DOMAIN f[o].args = 1 .. Len(f[o].args)
         /\ \A k \in 1 .. Len(f[o].args) : f[o].args[k] \in Op
         /\ Operands(f, o) = {f[o].args[k] : k \in 1 .. Len(f[o].args)}
BY DEF OpIR, Operands

LEMMA FunctionIff ==
  ASSUME NEW f \in [Op -> OpIR]
  PROVE  IsFunction(f) <=> \A o \in Op : OpOK(f, o)
<1>1. \A o \in Op : DOMAIN f[o].args = 1 .. Len(f[o].args)
  BY OperandsAre
<1>2. ASSUME IsFunction(f), NEW o \in Op PROVE OpOK(f, o)
  <2>1. \A k \in 1 .. Len(f[o].args) : f[o].args[k] < o /\ f[f[o].args[k]].type # "none"
    BY <1>1, <1>2 DEF IsFunction, WellTyped, Operands
  <2>2. f[o].args # <<>> => Len(f[o].args) >= 1
    BY OperandsAre
  <2>3. /\ o = NumOps <=> f[o].kind = "return"
        /\ f[o].kind \in {"none", "overwrite", "return"} => f[o].type = "none"
        /\ f[o].kind = "to_tensor" => Len(f[o].args) = 1 /\ f[o].type = "mutable"
        /\ f[o].kind = "to_vtensor" => Len(f[o].args) = 1 /\ f[o].type = "value"
        /\ f[o].kind \in {"view", "cast"} => f[o].type \in {"value", "mutable"}
        /\ f[o].kind = "view" => Len(f[o].args) \in {1, 2}
        /\ f[o].kind = "cast" => Len(f[o].args) = 1
        /\ f[o].kind = "overwrite" => Len(f[o].args) = 2
        /\ f[o].kind = "arg" => f[o].type = "value"
        /\ f[o].kind = "pure" => f[o].type \in {"value", "mutable"}
        /\ f[o].kind = "inplace" => Len(f[o].args) >= 1 /\ f[o].type = "mutable"
        /\ f[o].kind \in {"list", "append"} => f[o].type = "list"
        /\ f[o].kind = "append" => Len(f[o].args) = 2
        /\ f[o].kind = "other" => Len(f[o].args) >= 1 /\ f[o].type = "none"
    BY <1>2, <2>2 DEF IsFunction, WellFormed
  <2>4. /\ f[o].kind = "to_tensor" => f[f[o].args[1]].type = "value"
        /\ f[o].kind = "to_vtensor" => IsMutable(f, f[o].args[1])
        /\ f[o].kind = "cast" => f[f[o].args[1]].type = f[o].type
        /\ f[o].kind = "view" => (IsMutable(f, o) => IsMutable(f, f[o].args[1]))
        /\ f[o].kind = "overwrite" => f[f[o].args[1]].type = "value" /\ IsMutable(f, f[o].args[2])
        /\ f[o].kind = "inplace" => IsMutable(f, f[o].args[1])
    <3>1. IsFunction(f) /\ WellTyped(f)
      BY <1>2 DEF IsFunction
    <3>2. f[o].kind = "to_tensor" => f[f[o].args[1]].type = "value"
      BY <3>1 DEF WellTyped
    <3>3. f[o].kind = "to_vtensor" => IsMutable(f, f[o].args[1])
      BY <3>1 DEF WellTyped
    <3>4. f[o].kind = "cast" => f[f[o].args[1]].type = f[o].type
      BY <3>1 DEF WellTyped
    <3>5. f[o].kind = "view" => (IsMutable(f, o) => IsMutable(f, f[o].args[1]))
      BY <3>1 DEF WellTyped
    <3>6. f[o].kind = "overwrite" => f[f[o].args[1]].type = "value" /\ IsMutable(f, f[o].args[2])
      BY <3>1 DEF WellTyped
    <3>7. f[o].kind = "inplace" => IsMutable(f, f[o].args[1])
      BY <3>1 DEF WellTyped, IsMutable
    <3> QED  BY <3>2, <3>3, <3>4, <3>5, <3>6, <3>7
  <2> QED  BY <2>1, <2>3, <2>4 DEF OpOK, IsMutable
<1>3. ASSUME \A o \in Op : OpOK(f, o) PROVE WellFormed(f)
  BY <1>3 DEF WellFormed, OpOK
<1>4. ASSUME \A o \in Op : OpOK(f, o) PROVE WellTyped(f)
  BY <1>4, <1>1 DEF WellTyped, OpOK, Operands
<1> QED  BY <1>2, <1>3, <1>4 DEF IsFunction

\* An op with operands of the types they had is what it was.
LEMMA SameOpOK ==
  ASSUME NEW f, NEW h, NEW o, OpOK(f, o), h[o].kind = f[o].kind, h[o].type = f[o].type,
         Len(h[o].args) = Len(f[o].args), Len(f[o].args) \in Nat,
         \A k \in 1 .. Len(f[o].args) :
           h[o].args[k] < o /\ h[h[o].args[k]].type = f[f[o].args[k]].type
  PROVE  OpOK(h, o)
<1>1. Len(f[o].args) >= 1 => h[h[o].args[1]].type = f[f[o].args[1]].type
  OBVIOUS
<1>2. Len(f[o].args) = 2 => h[h[o].args[2]].type = f[f[o].args[2]].type
  OBVIOUS
<1>3. \A k \in 1 .. Len(h[o].args) : h[o].args[k] < o /\ h[h[o].args[k]].type # "none"
  BY DEF OpOK
<1>4. f[o].kind \in {"to_tensor", "to_vtensor", "cast", "view", "overwrite", "inplace"} =>
        h[h[o].args[1]].type = f[f[o].args[1]].type
  BY <1>1 DEF OpOK
<1>5. f[o].kind = "overwrite" => h[h[o].args[2]].type = f[f[o].args[2]].type
  BY <1>2 DEF OpOK
<1> QED  BY <1>3, <1>4, <1>5 DEF OpOK, IsMutable

\* What is known of an operand.
LEMMA OperandOK ==
  ASSUME NEW f, IsFunction(f), NEW o \in Op, NEW v \in Operands(f, o)
  PROVE  v \in Op /\ v < o /\ f[v].type # "none"
BY FunctionIff, OperandsAre DEF IsFunction, OpOK

(***************************************************************************)
(* What the recursive definitions define.                                  *)
(***************************************************************************)
\* What is in B, or is next along R to something that is.
IsReach(g, B, R) == g = [v \in Op |-> v \in B \/ \E u \in Op : <<u, v>> \in R /\ g[u]]

LEMMA ReachExists ==
  ASSUME NEW B, NEW R
  PROVE  \E g : IsReach(g, B, R)
<1> DEFINE IsClosed(X) == /\ B \cap Op \subseteq X
                          /\ \A u \in X, v \in Op : <<u, v>> \in R => v \in X
           L == {v \in Op : \A X \in SUBSET Op : IsClosed(X) => v \in X}
           g == [v \in Op |-> v \in L]
<1>1. IsClosed(L)
  OBVIOUS
<1>2. ASSUME NEW v \in Op PROVE v \in L <=> v \in B \/ \E u \in L : <<u, v>> \in R
  <2>1. v \in B \/ (\E u \in L : <<u, v>> \in R) => v \in L
    BY <1>1
  <2>2. ASSUME v \in L, v \notin B, \A u \in L : <<u, v>> \notin R PROVE FALSE
    <3> DEFINE X == L \ {v}
    <3>1. X \in SUBSET Op /\ IsClosed(X)
      BY <1>1, <2>2
    <3>2. v \in X
      BY <2>2, <3>1
    <3> QED  BY <3>2
  <2> QED  BY <2>1, <2>2
<1>3. \A v \in Op : g[v] = (v \in L)
  OBVIOUS
<1>4. L \subseteq Op
  OBVIOUS
<1>5. ASSUME NEW v \in Op
      PROVE  (v \in L) = (v \in B \/ \E u \in Op : <<u, v>> \in R /\ g[u])
  <2> HIDE DEF L
  <2>1. \A u \in Op : g[u] <=> u \in L
    BY <1>3
  <2> HIDE DEF g
  <2>2. (\E u \in L : <<u, v>> \in R) <=> \E u \in Op : <<u, v>> \in R /\ g[u]
    BY <1>4, <2>1
  <2> QED  BY <1>2, <2>2
<1> HIDE DEF L
<1>6. g = [v \in Op |-> v \in B \/ \E u \in Op : <<u, v>> \in R /\ g[u]]
  BY <1>5
<1> QED  BY <1>6 DEF IsReach

LEMMA AliasesAre ==
  ASSUME NEW f, IsFunction(f), NEW c \in Op
  PROVE  /\ Aliases(f, c) \subseteq Op
         /\ \A v \in Op : v \in Aliases(f, c) <=>
              \/ v = c
              \/ /\ IsViewLikeOp(f, v) /\ IsMutable(f, v)
                 /\ f[v].args[1] < v /\ f[v].args[1] \in Aliases(f, c)
<1> DEFINE Base(v) == f[v].args[1]
           Via(v) == IsViewLikeOp(f, v) /\ IsMutable(f, v) /\ Base(v) < v
           B == {c}
           R == {e \in Op \X Op : Via(e[2]) /\ Base(e[2]) = e[1]}
           Is(g) == g = [v \in Op |->
                           \/ v = c
                           \/ /\ IsViewLikeOp(f, v)
                              /\ IsMutable(f, v)
                              /\ f[v].args[1] < v
                              /\ g[f[v].args[1]]]
<1>1. \A v \in Op : IsViewLikeOp(f, v) => Base(v) \in Op
  <2> SUFFICES ASSUME NEW v \in Op, IsViewLikeOp(f, v) PROVE Base(v) \in Op
    OBVIOUS
  <2>1. f \in [Op -> OpIR] /\ OpOK(f, v)
    BY FunctionIff DEF IsFunction
  <2>2. Len(f[v].args) \in {1, 2}
    BY <2>1 DEF OpOK, IsViewLikeOp
  <2>3. 1 \in 1 .. Len(f[v].args)
    <3>1. PICK n : n = Len(f[v].args)
      OBVIOUS
    <3>2. n \in {1, 2}
      BY <2>2, <3>1
    <3>3. 1 \in 1 .. n
      BY <3>2
    <3> QED  BY <3>1, <3>3
  <2> QED  BY <2>1, <2>3, OperandsAre
<1>2. \E g : Is(g)
  <2>0. PICK g : IsReach(g, B, R)
    <3> HIDE DEF B, R
    <3> QED  BY ReachExists
  <2>1. g = [v \in Op |-> v \in B \/ \E u \in Op : <<u, v>> \in R /\ g[u]]
    BY <2>0 DEF IsReach
  <2>2. ASSUME NEW v \in Op
        PROVE  (v \in B \/ \E u \in Op : <<u, v>> \in R /\ g[u]) = (v = c \/ (Via(v) /\ g[Base(v)]))
    <3>1. \A u \in Op : <<u, v>> \in R <=> Via(v) /\ Base(v) = u
      OBVIOUS
    <3>2. g[Base(v)] \in BOOLEAN \/ ~ Via(v)
      BY <1>1, <2>1
    <3>3. Via(v) => Base(v) \in Op
      BY <1>1
    <3> HIDE DEF R, Via, Base
    <3> QED  BY <3>1, <3>2, <3>3
  <2>3. g = [v \in Op |-> v = c \/ (Via(v) /\ g[Base(v)])]
    <3> HIDE DEF B, R, Via, Base
    <3> QED  BY <2>1, <2>2
  <2>4. Is(g)
    BY <2>3
  <2> HIDE DEF Is
  <2> QED  BY <2>4
<1> DEFINE h == CHOOSE g : Is(g)
<1>3. Is(h)
  <2> HIDE DEF Is
  <2> QED  BY <1>2
<1>4. Aliases(f, c) = {v \in Op : h[v]}
  BY DEF Aliases
<1> HIDE DEF h
<1>5. \A v \in Op : h[v] = (v = c \/ (Via(v) /\ h[Base(v)]))
  BY <1>3
<1>6. \A v \in Op : Via(v) => Base(v) \in Op
  BY <1>1
<1> HIDE DEF Is
<1>7. \A v \in Op : h[v] <=> v = c \/ (Via(v) /\ Base(v) \in {u \in Op : h[u]})
  <2> HIDE DEF Via, Base
  <2> QED  BY <1>5, <1>6
<1> QED  BY <1>4, <1>7

LEMMA VisitedAre ==
  ASSUME NEW f, IsFunction(f), NEW c \in Op
  PROVE  /\ Visited(f, c) \subseteq Op
         /\ \A o \in Op : o \in Visited(f, c) <=>
              \E v \in Operands(f, o) : v = c \/ (IsViewLikeOp(f, v) /\ v \in Visited(f, c))
<1> DEFINE B == {o \in Op : c \in Operands(f, o)}
           R == {e \in Op \X Op : e[1] \in Operands(f, e[2]) /\ IsViewLikeOp(f, e[1]) /\ e[1] < e[2]}
           Is(g) == g = [o \in Op |->
                           \E v \in Operands(f, o) :
                             v = c \/ (IsViewLikeOp(f, v) /\ v < o /\ g[v])]
<1>1. \A o \in Op : \A v \in Operands(f, o) : v \in Op /\ v < o
  BY OperandOK
<1>2. \E g : Is(g)
  <2>0. PICK g : IsReach(g, B, R)
    <3> HIDE DEF B, R
    <3> QED  BY ReachExists
  <2>1. g = [v \in Op |-> v \in B \/ \E u \in Op : <<u, v>> \in R /\ g[u]]
    BY <2>0 DEF IsReach
  <2>2. ASSUME NEW o \in Op
        PROVE  (o \in B \/ \E u \in Op : <<u, o>> \in R /\ g[u])
                 = (\E v \in Operands(f, o) : v = c \/ (IsViewLikeOp(f, v) /\ v < o /\ g[v]))
    <3>1. \A u \in Op : <<u, o>> \in R <=> u \in Operands(f, o) /\ IsViewLikeOp(f, u) /\ u < o
      OBVIOUS
    <3>2. o \in B <=> \E v \in Operands(f, o) : v = c
      OBVIOUS
    <3>3. \A v \in Operands(f, o) : v \in Op
      BY <1>1
    <3> HIDE DEF B, R
    <3> QED  BY <3>1, <3>2, <3>3
  <2>3. Is(g)
    <3> HIDE DEF B, R
    <3> QED  BY <2>1, <2>2
  <2> HIDE DEF Is
  <2> QED  BY <2>3
<1> DEFINE h == CHOOSE g : Is(g)
<1>3. Is(h)
  <2> HIDE DEF Is
  <2> QED  BY <1>2
<1>4. Visited(f, c) = {o \in Op : h[o]}
  BY DEF Visited
<1> HIDE DEF h
<1>5. \A o \in Op : h[o] = (\E v \in Operands(f, o) : v = c \/ (IsViewLikeOp(f, v) /\ v < o /\ h[v]))
  BY <1>3
<1> HIDE DEF Is
<1>6. \A o \in Op : h[o] <=> \E v \in Operands(f, o) : v = c \/ (IsViewLikeOp(f, v) /\ v \in {u \in Op : h[u]})
  BY <1>1, <1>5
<1> QED  BY <1>4, <1>6

LEMMA OverwrittenAre ==
  ASSUME NEW f, IsFunction(f), NEW o \in Op
  PROVE  \A v \in OverwrittenAliases(f, o) :
           /\ v \in Op
           /\ \/ v = f[o].args[2]
              \/ \E p \in OverwrittenAliases(f, o) : p > v /\ f[p].kind = "cast" /\ f[p].args[1] = v
<1> DEFINE B == {f[o].args[2]}
           R == {e \in Op \X Op : e[1] > e[2] /\ f[e[1]].kind = "cast" /\ f[e[1]].args[1] = e[2]}
           Is(g) == g = [v \in Op |->
                           \/ v = f[o].args[2]
                           \/ \E p \in Op : p > v /\ f[p].kind = "cast"
                                              /\ f[p].args[1] = v /\ g[p]]
<1>2. \E g : Is(g)
  <2>0. PICK g : IsReach(g, B, R)
    <3> HIDE DEF B, R
    <3> QED  BY ReachExists
  <2>1. g = [v \in Op |-> v \in B \/ \E u \in Op : <<u, v>> \in R /\ g[u]]
    BY <2>0 DEF IsReach
  <2>2. ASSUME NEW v \in Op
        PROVE  (v \in B \/ \E u \in Op : <<u, v>> \in R /\ g[u])
                 = (v = f[o].args[2] \/ \E p \in Op : p > v /\ f[p].kind = "cast" /\ f[p].args[1] = v /\ g[p])
    <3>1. \A u \in Op : <<u, v>> \in R <=> u > v /\ f[u].kind = "cast" /\ f[u].args[1] = v
      OBVIOUS
    <3> HIDE DEF R
    <3> QED  BY <3>1
  <2>3. Is(g)
    <3> HIDE DEF B, R
    <3> QED  BY <2>1, <2>2
  <2> HIDE DEF Is
  <2> QED  BY <2>3
<1> DEFINE h == CHOOSE g : Is(g)
<1>3. Is(h)
  <2> HIDE DEF Is
  <2> QED  BY <1>2
<1>4. OverwrittenAliases(f, o) = {v \in Op : h[v]}
  BY DEF OverwrittenAliases
<1> HIDE DEF h
<1>5. \A v \in Op : h[v] = (v = f[o].args[2] \/ \E p \in Op : p > v /\ f[p].kind = "cast" /\ f[p].args[1] = v /\ h[p])
  BY <1>3
<1> HIDE DEF Is
<1> QED  BY <1>4, <1>5

LEMMA ThroughIs ==
  ASSUME NEW f, NEW S, \A w \in Op : w \in S => f[w].args[1] \in Op
  PROVE  \A v \in Op : Through(f, S, v) =
           IF v \in S /\ f[v].args[1] < v THEN Through(f, S, f[v].args[1]) ELSE v
<1> DEFINE Base(w) == f[w].args[1]
           Via(w) == w \in S /\ Base(w) < w
           Is(g) == g = [w \in Op |-> IF w \in S /\ f[w].args[1] < w THEN g[f[w].args[1]] ELSE w]
           T == {n \in Nat : \E g \in [Op -> Op] :
                   \A w \in Op : w <= n => g[w] = IF Via(w) THEN g[Base(w)] ELSE w}
<1>0. NumOps \in Nat /\ Op \subseteq Nat \ {0} /\ \A w \in Op : w <= NumOps
  BY FunctionsAssumption DEF Op
<1>1. 0 \in T
  <2>1. [w \in Op |-> w] \in [Op -> Op] /\ \A w \in Op : ~ (w <= 0)
    BY <1>0
  <2> HIDE DEF Via, Base
  <2> QED  BY <2>1
<1>2. ASSUME NEW n \in Nat, n \in T PROVE n + 1 \in T
  <2>1. PICK g \in [Op -> Op] : \A w \in Op : w <= n => g[w] = IF Via(w) THEN g[Base(w)] ELSE w
    BY <1>2
  <2> DEFINE x == IF Via(n + 1) THEN g[Base(n + 1)] ELSE n + 1
             r == [w \in Op |-> IF w = n + 1 THEN x ELSE g[w]]
  <2>2. \A w \in Op : Via(w) => Base(w) \in Op /\ Base(w) < w
    OBVIOUS
  <2> HIDE DEF Via, Base
  <2>3. n + 1 \in Op => x \in Op
    BY <2>2
  <2>4. r \in [Op -> Op]
    BY <2>3
  <2>5. ASSUME NEW w \in Op, w <= n + 1 PROVE r[w] = IF Via(w) THEN r[Base(w)] ELSE w
    <3>0. w \in Nat /\ (Via(w) => Base(w) \in Op /\ Base(w) \in Nat /\ Base(w) # n + 1)
      <4>1. w \in Nat /\ w <= n + 1 /\ (Via(w) => Base(w) \in Op /\ Base(w) < w)
        BY <1>0, <2>2, <2>5
      <4> PICK u : u = Base(w)
        OBVIOUS
      <4>2. u \in Nat /\ u < w => u # n + 1
        BY <4>1
      <4> QED  BY <1>0, <4>1, <4>2
    <3>1. w \in Nat /\ (Via(w) => Base(w) \in Op /\ r[Base(w)] = g[Base(w)])
      <4> HIDE DEF x
      <4> QED  BY <3>0
    <3>2. CASE w = n + 1
      BY <3>1, <3>2
    <3>3. CASE w # n + 1
      BY <3>1, <2>5, <3>3, <2>1
    <3> QED  BY <3>2, <3>3
  <2> HIDE DEF r
  <2> QED  BY <2>4, <2>5
<1>3. \E g : Is(g)
  <2>1. NumOps \in T
    <3> HIDE DEF T
    <3> QED  BY <1>0, <1>1, <1>2, SetInduction
  <2>2. PICK g \in [Op -> Op] : \A w \in Op : w <= NumOps => g[w] = IF Via(w) THEN g[Base(w)] ELSE w
    BY <2>1
  <2>3. g = [w \in Op |-> IF Via(w) THEN g[Base(w)] ELSE w]
    <3> HIDE DEF Via, Base
    <3> QED  BY <1>0, <2>2
  <2>4. Is(g)
    BY <2>3
  <2> HIDE DEF Is
  <2> QED  BY <2>4
<1> DEFINE h == CHOOSE g : Is(g)
<1>4. Is(h)
  <2> HIDE DEF Is
  <2> QED  BY <1>3
<1>5. \A v : Through(f, S, v) = h[v]
  BY DEF Through
<1> HIDE DEF h
<1>6. \A w \in Op : h[w] = IF Via(w) THEN h[Base(w)] ELSE w
  BY <1>4
<1> HIDE DEF Is
<1> QED  BY <1>5, <1>6

\* f with the first n operands of the return that are in K copied.
IsCopied(g, f, K) ==
  g = [n \in 0 .. Len(f[NumOps].args) |->
         IF n = 0 THEN f
         ELSE IF n \in K THEN CopyBack(g[n - 1], n)
         ELSE g[n - 1]]

LEMMA CopiedExists ==
  ASSUME NEW f, NEW K, Len(f[NumOps].args) \in Nat
  PROVE  \E g : IsCopied(g, f, K) /\ CopyReturned(f, K) = g[Len(f[NumOps].args)]
<1> DEFINE L == Len(f[NumOps].args)
           Next1(y, n) == IF n \in K THEN CopyBack(y, n) ELSE y
           Is(g) == g = [n \in 0 .. Len(f[NumOps].args) |->
                           IF n = 0 THEN f
                           ELSE IF n \in K THEN CopyBack(g[n - 1], n)
                           ELSE g[n - 1]]
           T == {n \in Nat : \E g : \A m \in 0 .. L :
                   m <= n => g[m] = IF m = 0 THEN f ELSE Next1(g[m - 1], m)}
<1> HIDE DEF L, Next1
<1>0. L \in Nat
  BY DEF L
<1>1. 0 \in T
  <2> DEFINE g == [m \in 0 .. L |-> f]
  <2>1. \A m \in 0 .. L : m <= 0 => m = 0 /\ g[m] = f
    OBVIOUS
  <2> HIDE DEF g
  <2> QED  BY <2>1
<1>2. ASSUME NEW n \in Nat, n \in T PROVE n + 1 \in T
  <2>1. PICK g : \A m \in 0 .. L : m <= n => g[m] = IF m = 0 THEN f ELSE Next1(g[m - 1], m)
    BY <1>2
  <2> DEFINE r == [m \in 0 .. L |-> IF m = n + 1 THEN Next1(g[n], n + 1) ELSE g[m]]
  <2>2. ASSUME NEW m \in 0 .. L, m <= n + 1 PROVE r[m] = IF m = 0 THEN f ELSE Next1(r[m - 1], m)
    <3>1. CASE m = n + 1
      <4>1. m - 1 = n /\ n \in 0 .. L /\ n # n + 1 /\ m # 0
        BY <1>0, <3>1
      <4>2. r[n] = g[n] /\ r[m] = Next1(g[n], n + 1)
        BY <3>1, <4>1
      <4> HIDE DEF r
      <4> QED  BY <3>1, <4>1, <4>2
    <3>2. CASE m # n + 1
      <4>1. m <= n /\ r[m] = g[m]
        BY <1>0, <2>2, <3>2
      <4>2. m # 0 => m - 1 \in 0 .. L /\ m - 1 # n + 1
        BY <1>0, <4>1
      <4>3. m # 0 => r[m - 1] = g[m - 1]
        BY <4>2
      <4> HIDE DEF r
      <4> QED  BY <2>1, <4>1, <4>3
    <3> QED  BY <3>1, <3>2
  <2> HIDE DEF r
  <2> QED  BY <2>2
<1>3. \E g : Is(g)
  <2>1. L \in T
    <3> HIDE DEF T
    <3> QED  BY <1>0, <1>1, <1>2, SetInduction
  <2>2. PICK g : \A m \in 0 .. L : m <= L => g[m] = IF m = 0 THEN f ELSE Next1(g[m - 1], m)
    BY <2>1
  <2> DEFINE r == [m \in 0 .. L |-> g[m]]
  <2>3. r = [m \in 0 .. L |-> IF m = 0 THEN f ELSE Next1(r[m - 1], m)]
    <3>1. ASSUME NEW m \in 0 .. L PROVE r[m] = IF m = 0 THEN f ELSE Next1(r[m - 1], m)
      <4>1. m <= L /\ r[m] = g[m] /\ (m # 0 => m - 1 \in 0 .. L)
        BY <1>0
      <4>2. m # 0 => r[m - 1] = g[m - 1]
        BY <4>1
      <4> HIDE DEF r
      <4> QED  BY <2>2, <4>1, <4>2
    <3> QED  BY <3>1
  <2> HIDE DEF r
  <2>4. Is(r)
    BY <2>3 DEF L, Next1
  <2> HIDE DEF Is
  <2> QED  BY <2>4
<1> DEFINE h == CHOOSE g : Is(g)
<1>4. Is(h)
  <2> HIDE DEF Is
  <2> QED  BY <1>3
<1>5. CopyReturned(f, K) = h[Len(f[NumOps].args)]
  BY DEF CopyReturned
<1> HIDE DEF h
<1>6. IsCopied(h, f, K)
  BY <1>4 DEF IsCopied
<1> QED  BY <1>5, <1>6

(***************************************************************************)
(* What becomes of mutable tensors.                                        *)
(***************************************************************************)
\* The mutable tensors are copies and views, a view reads one tensor and is mutable when that is,
\* and no op with value semantics reads a mutable tensor, nor is there a list of them.
OnlyViewed(f, o) ==
  /\ IsMutable(f, o) => f[o].kind \in {"to_tensor", "view", "cast"}
  /\ (\E k \in 1 .. Len(f[o].args) : IsMutable(f, f[o].args[k])) =>
       f[o].kind \in {"view", "cast", "to_vtensor", "overwrite", "other", "return"}
  /\ f[o].kind = "view" =>
       Len(f[o].args) = 1 /\ (IsMutable(f, f[o].args[1]) => IsMutable(f, o))

MutableOnlyViewed(f) == \A o \in Op : OnlyViewed(f, o)

\* h has no mutable tensors of another kind than f has, and no other ops besides copies.
KeepsViews(h, f) ==
  /\ MutableOnlyViewed(f) => MutableOnlyViewed(h)
  /\ \A o \in Op : h[o].kind \in {f[o].kind, "none", "to_tensor", "to_vtensor"}

LEMMA KeepsViewsTransitive ==
  ASSUME NEW f, NEW g, NEW h, KeepsViews(g, f), KeepsViews(h, g)
  PROVE  KeepsViews(h, f)
BY DEF KeepsViews

(***************************************************************************)
(* What functions compute.                                                 *)
(***************************************************************************)
\* The last element of a set of ops is the one chosen for it.
LEMMA LastIs ==
  ASSUME NEW S, S \subseteq Op
  PROVE  /\ S # {} => \E w \in S : \A x \in S : x <= w
         /\ \A w \in S : (\A x \in S : x <= w) => (CHOOSE y \in S : \A x \in S : x <= y) = w
<1>0. NumOps \in Nat /\ Op = 1 .. NumOps
  BY FunctionsAssumption DEF Op
<1>1. ASSUME S # {} PROVE \E w \in S : \A x \in S : x <= w
  <2> DEFINE D == {NumOps - y : y \in S}
  <2>0. \A y \in S : y \in Nat /\ y <= NumOps
    BY <1>0
  <2>1. D \subseteq Nat /\ D # {}
    <3>1. NumOps \in Nat
      BY <1>0
    <3>2. \A y \in S : NumOps - y \in Nat
      BY <2>0, <3>1
    <3>3. D \subseteq Nat
      BY <3>2
    <3>4. D # {}
      BY <1>1
    <3> QED  BY <3>3, <3>4
  <2>2. PICK d \in D : \A e \in D : d <= e
    <3> HIDE DEF D
    <3> QED  BY <2>1, LeastElement
  <2>3. PICK w \in S : d = NumOps - w
    BY <2>2
  <2>4. ASSUME NEW x \in S PROVE x <= w
    <3>1. NumOps - x \in D /\ w \in Nat /\ x \in Nat
      BY <1>0
    <3>2. NumOps - w <= NumOps - x
      BY <2>2, <2>3, <3>1
    <3> QED  BY <1>0, <3>1, <3>2
  <2> QED  BY <2>4
<1>2. ASSUME NEW w \in S, \A x \in S : x <= w PROVE (CHOOSE y \in S : \A x \in S : x <= y) = w
  <2> DEFINE z == CHOOSE y \in S : \A x \in S : x <= y
  <2>1. z \in S /\ \A x \in S : x <= z
    BY <1>2
  <2> HIDE DEF z
  <2>2. z = w
    BY <1>0, <1>2, <2>1
  <2> QED  BY <2>2 DEF z
<1> QED  BY <1>1, <1>2

\* g[n] is the term for taking the first n views of path.
IsViewed(g, path, term) ==
  g = [n \in 0 .. Len(path) |-> IF n = 0 THEN term ELSE path[n] \o g[n - 1]]

\* Viewed is defined by the recursion it is written as.
LEMMA ViewedExists ==
  ASSUME NEW path, NEW term, Len(path) \in Nat
  PROVE  \E g : IsViewed(g, path, term) /\ Viewed(path, term) = g[Len(path)]
<1> DEFINE L == Len(path)
           Next1(y, n) == path[n] \o y
           Is(g) == g = [n \in 0 .. Len(path) |-> IF n = 0 THEN term ELSE path[n] \o g[n - 1]]
           T == {n \in Nat : \E g : \A m \in 0 .. L :
                   m <= n => g[m] = IF m = 0 THEN term ELSE Next1(g[m - 1], m)}
<1> HIDE DEF L, Next1
<1>0. L \in Nat
  BY DEF L
<1>1. 0 \in T
  <2> DEFINE g == [m \in 0 .. L |-> term]
  <2>1. \A m \in 0 .. L : m <= 0 => m = 0 /\ g[m] = term
    OBVIOUS
  <2> HIDE DEF g
  <2> QED  BY <2>1
<1>2. ASSUME NEW n \in Nat, n \in T PROVE n + 1 \in T
  <2>1. PICK g : \A m \in 0 .. L : m <= n => g[m] = IF m = 0 THEN term ELSE Next1(g[m - 1], m)
    BY <1>2
  <2> DEFINE r == [m \in 0 .. L |-> IF m = n + 1 THEN Next1(g[n], n + 1) ELSE g[m]]
  <2>2. ASSUME NEW m \in 0 .. L, m <= n + 1 PROVE r[m] = IF m = 0 THEN term ELSE Next1(r[m - 1], m)
    <3>1. CASE m = n + 1
      <4>1. m # 0 /\ m - 1 = n /\ n \in 0 .. L /\ n # n + 1
        BY <1>0, <3>1
      <4>2. r[m] = Next1(g[n], n + 1) /\ r[n] = g[n]
        BY <3>1, <4>1
      <4> HIDE DEF r
      <4> QED  BY <3>1, <4>1, <4>2
    <3>2. CASE m # n + 1
      <4>1. m <= n /\ r[m] = g[m]
        BY <1>0, <2>2, <3>2
      <4>2. m # 0 => m - 1 \in 0 .. L /\ m - 1 # n + 1
        BY <1>0, <4>1
      <4>3. m # 0 => r[m - 1] = g[m - 1]
        BY <4>2
      <4> HIDE DEF r
      <4> QED  BY <2>1, <4>1, <4>3
    <3> QED  BY <3>1, <3>2
  <2> HIDE DEF r
  <2> QED  BY <2>2
<1>3. \E g : Is(g)
  <2>1. L \in T
    <3> HIDE DEF T
    <3> QED  BY <1>0, <1>1, <1>2, SetInduction
  <2>2. PICK g : \A m \in 0 .. L : m <= L => g[m] = IF m = 0 THEN term ELSE Next1(g[m - 1], m)
    BY <2>1
  <2> DEFINE r == [m \in 0 .. L |-> g[m]]
  <2>3. \A m \in 0 .. L : r[m] = IF m = 0 THEN term ELSE Next1(r[m - 1], m)
    <3> SUFFICES ASSUME NEW m \in 0 .. L PROVE r[m] = IF m = 0 THEN term ELSE Next1(r[m - 1], m)
      OBVIOUS
    <3>1. r[m] = g[m] /\ m <= L /\ (m # 0 => m - 1 \in 0 .. L)
      BY <1>0
    <3>2. m # 0 => r[m - 1] = g[m - 1]
      BY <3>1
    <3> HIDE DEF r
    <3> QED  BY <2>2, <3>1, <3>2
  <2>4. r = [m \in 0 .. L |-> IF m = 0 THEN term ELSE Next1(r[m - 1], m)]
    <3>1. r = [m \in 0 .. L |-> r[m]]
      OBVIOUS
    <3> HIDE DEF r
    <3> QED  BY <2>3, <3>1
  <2> HIDE DEF r
  <2>5. Is(r)
    BY <2>4 DEF L, Next1
  <2> HIDE DEF Is
  <2> QED  BY <2>5
<1> DEFINE h == CHOOSE g : Is(g)
<1>4. Is(h)
  <2> HIDE DEF Is
  <2> QED  BY <1>3
<1>5. Viewed(path, term) = h[Len(path)]
  BY DEF Viewed
<1> HIDE DEF h
<1>6. IsViewed(h, path, term)
  BY <1>4 DEF IsViewed
<1> HIDE DEF Is
<1> QED  BY <1>5, <1>6

\* What is read through no view, and through one more.
LEMMA ViewedIs ==
  ASSUME NEW term
  PROVE  /\ Viewed(<<>>, term) = term
         /\ \A S : \A path \in Seq(S) : \A x \in S :
              Viewed(Append(path, x), term) = x \o Viewed(path, term)
<1>1. Viewed(<<>>, term) = term
  <2>1. Len(<<>>) = 0
    OBVIOUS
  <2>2. PICK g : IsViewed(g, <<>>, term) /\ Viewed(<<>>, term) = g[Len(<<>>)]
    BY <2>1, ViewedExists
  <2> QED  BY <2>1, <2>2 DEF IsViewed
<1>2. ASSUME NEW S, NEW path \in Seq(S), NEW x \in S
      PROVE  Viewed(Append(path, x), term) = x \o Viewed(path, term)
  <2>1. PICK longer : longer = Append(path, x)
    OBVIOUS
  <2>2. PICK L \in Nat : L = Len(path)
    OBVIOUS
  <2>3. /\ Len(longer) = L + 1 /\ longer[L + 1] = x
        /\ \A n \in 1 .. L : longer[n] = path[n]
    BY <2>1, <2>2
  <2>4. PICK g : IsViewed(g, path, term) /\ Viewed(path, term) = g[Len(path)]
    BY <2>2, ViewedExists
  <2>5. PICK h : IsViewed(h, longer, term) /\ Viewed(longer, term) = h[Len(longer)]
    BY <2>3, ViewedExists
  <2>6. \A n \in 0 .. L : g[n] = IF n = 0 THEN term ELSE path[n] \o g[n - 1]
    BY <2>2, <2>4 DEF IsViewed
  <2>7. \A n \in 0 .. L + 1 : h[n] = IF n = 0 THEN term ELSE longer[n] \o h[n - 1]
    BY <2>3, <2>5 DEF IsViewed
  <2> DEFINE T == {n \in Nat : n <= L => h[n] = g[n]}
  <2>8. 0 \in T
    BY <2>6, <2>7
  <2>9. ASSUME NEW n \in Nat, n \in T PROVE n + 1 \in T
    <3>1. ASSUME n + 1 <= L PROVE h[n + 1] = g[n + 1]
      BY <3>1, <2>9, <2>7, <2>6, <2>3
    <3> QED  BY <3>1
  <2>10. L \in T
    <3> HIDE DEF T
    <3> QED  BY <2>8, <2>9, SetInduction
  <2>11. h[L] = g[L]
    BY <2>10
  <2>12. L + 1 \in 0 .. L + 1 /\ L + 1 # 0 /\ (L + 1) - 1 = L
    OBVIOUS
  <2>13. h[L + 1] = longer[L + 1] \o h[L]
    BY <2>7, <2>12
  <2> QED  BY <2>1, <2>2, <2>3, <2>4, <2>5, <2>11, <2>13
<1> QED  BY <1>1, <1>2

\* g[n] are the elements of the list v after the n-th op.
IsElements(g, f, v, i) ==
  g = [n \in 0 .. i - 1 |->
         IF n = 0 THEN f[v].args
         ELSE IF f[n].kind = "append" /\ f[n].args[1] = v
         THEN Append(g[n - 1], f[n].args[2])
         ELSE g[n - 1]]

\* Elements is defined by the recursion it is written as.
LEMMA ElementsExist ==
  ASSUME NEW f, NEW v, NEW i \in Nat \ {0}
  PROVE  \E g : IsElements(g, f, v, i) /\ Elements(f, v, i) = g[i - 1]
<1> DEFINE L == i - 1
           Next1(y, n) == IF f[n].kind = "append" /\ f[n].args[1] = v THEN Append(y, f[n].args[2]) ELSE y
           Is(g) == g = [n \in 0 .. i - 1 |->
                           IF n = 0 THEN f[v].args
                           ELSE IF f[n].kind = "append" /\ f[n].args[1] = v
                           THEN Append(g[n - 1], f[n].args[2])
                           ELSE g[n - 1]]
           T == {n \in Nat : \E g : \A m \in 0 .. L :
                   m <= n => g[m] = IF m = 0 THEN f[v].args ELSE Next1(g[m - 1], m)}
<1> HIDE DEF L, Next1
<1>0. L \in Nat
  BY DEF L
<1>1. 0 \in T
  <2> DEFINE g == [m \in 0 .. L |-> f[v].args]
  <2>1. \A m \in 0 .. L : m <= 0 => m = 0 /\ g[m] = f[v].args
    OBVIOUS
  <2> HIDE DEF g
  <2> QED  BY <2>1
<1>2. ASSUME NEW n \in Nat, n \in T PROVE n + 1 \in T
  <2>1. PICK g : \A m \in 0 .. L : m <= n => g[m] = IF m = 0 THEN f[v].args ELSE Next1(g[m - 1], m)
    BY <1>2
  <2> DEFINE r == [m \in 0 .. L |-> IF m = n + 1 THEN Next1(g[n], n + 1) ELSE g[m]]
  <2>2. ASSUME NEW m \in 0 .. L, m <= n + 1 PROVE r[m] = IF m = 0 THEN f[v].args ELSE Next1(r[m - 1], m)
    <3>1. CASE m = n + 1
      <4>1. m # 0 /\ m - 1 = n /\ n \in 0 .. L /\ n # n + 1
        BY <1>0, <3>1
      <4>2. r[m] = Next1(g[n], n + 1) /\ r[n] = g[n]
        BY <3>1, <4>1
      <4> HIDE DEF r
      <4> QED  BY <3>1, <4>1, <4>2
    <3>2. CASE m # n + 1
      <4>1. m <= n /\ r[m] = g[m]
        BY <1>0, <2>2, <3>2
      <4>2. m # 0 => m - 1 \in 0 .. L /\ m - 1 # n + 1
        BY <1>0, <4>1
      <4>3. m # 0 => r[m - 1] = g[m - 1]
        BY <4>2
      <4> HIDE DEF r
      <4> QED  BY <2>1, <4>1, <4>3
    <3> QED  BY <3>1, <3>2
  <2> HIDE DEF r
  <2> QED  BY <2>2
<1>3. \E g : Is(g)
  <2>1. L \in T
    <3> HIDE DEF T
    <3> QED  BY <1>0, <1>1, <1>2, SetInduction
  <2>2. PICK g : \A m \in 0 .. L : m <= L => g[m] = IF m = 0 THEN f[v].args ELSE Next1(g[m - 1], m)
    BY <2>1
  <2> DEFINE r == [m \in 0 .. L |-> g[m]]
  <2>3. \A m \in 0 .. L : r[m] = IF m = 0 THEN f[v].args ELSE Next1(r[m - 1], m)
    <3> SUFFICES ASSUME NEW m \in 0 .. L PROVE r[m] = IF m = 0 THEN f[v].args ELSE Next1(r[m - 1], m)
      OBVIOUS
    <3>1. r[m] = g[m] /\ m <= L /\ (m # 0 => m - 1 \in 0 .. L)
      BY <1>0
    <3>2. m # 0 => r[m - 1] = g[m - 1]
      BY <3>1
    <3> HIDE DEF r
    <3> QED  BY <2>2, <3>1, <3>2
  <2>4. r = [m \in 0 .. L |-> IF m = 0 THEN f[v].args ELSE Next1(r[m - 1], m)]
    <3>1. r = [m \in 0 .. L |-> r[m]]
      OBVIOUS
    <3> HIDE DEF r
    <3> QED  BY <2>3, <3>1
  <2> HIDE DEF r
  <2>5. Is(r)
    BY <2>4 DEF L, Next1
  <2> HIDE DEF Is
  <2> QED  BY <2>5
<1> DEFINE h == CHOOSE g : Is(g)
<1>4. Is(h)
  <2> HIDE DEF Is
  <2> QED  BY <1>3
<1>5. Elements(f, v, i) = h[i - 1]
  BY DEF Elements
<1> HIDE DEF h
<1>6. IsElements(h, f, v, i)
  BY <1>4 DEF IsElements
<1> HIDE DEF Is
<1> QED  BY <1>5, <1>6

\* Does o append to the list v?
IsAppend(f, v, o) == f[o].kind = "append" /\ f[o].args[1] = v

\* The list v of f is a list of h, and f and h append to it at the same positions before i.
SameLists(f, h, v, i) ==
  /\ Len(h[v].args) = Len(f[v].args)
  /\ \A o \in Op : o < i => (IsAppend(f, v, o) <=> IsAppend(h, v, o))

\* x and y are the same operand of the same op of f and h, one that makes the list v or appends
\* to it before i.
AreListed(f, h, i, v, x, y) ==
  \E o \in Op : /\ o < i /\ (o = v \/ IsAppend(f, v, o))
                /\ \E l \in 1 .. Len(f[o].args) : x = f[o].args[l] /\ y = h[o].args[l]

\* Lists that are made of the same operands in the same order have corresponding elements.
LEMMA ElementsCorrespond ==
  ASSUME NEW f, IsFunction(f), NEW h, IsFunction(h), NEW i \in Op, NEW v \in Op, v < i,
         f[v].kind = "list", SameLists(f, h, v, i)
  PROVE  /\ Elements(f, v, i) \in Seq(Op) /\ Elements(h, v, i) \in Seq(Op)
         /\ Len(Elements(h, v, i)) = Len(Elements(f, v, i))
         /\ \A k \in 1 .. Len(Elements(f, v, i)) :
              AreListed(f, h, i, v, Elements(f, v, i)[k], Elements(h, v, i)[k])
<1>0. NumOps \in Nat /\ Op = 1 .. NumOps /\ i \in Nat \ {0}
  BY FunctionsAssumption DEF Op
<1>1. /\ f \in [Op -> OpIR] /\ \A o \in Op : OpOK(f, o)
      /\ h \in [Op -> OpIR] /\ \A o \in Op : OpOK(h, o)
  BY FunctionIff DEF IsFunction
<1>2. \A o \in Op : f[o].args \in Seq(Op) /\ h[o].args \in Seq(Op)
  BY <1>1, OperandsAre
<1>3. \A o \in Op : /\ f[o].kind = "append" => Len(f[o].args) = 2
                    /\ h[o].kind = "append" => Len(h[o].args) = 2
  BY <1>1 DEF OpOK
<1>4. PICK a : IsElements(a, f, v, i) /\ Elements(f, v, i) = a[i - 1]
  BY <1>0, ElementsExist
<1>5. PICK b : IsElements(b, h, v, i) /\ Elements(h, v, i) = b[i - 1]
  BY <1>0, ElementsExist
<1> DEFINE Both(s, t) == /\ s \in Seq(Op) /\ t \in Seq(Op) /\ Len(t) = Len(s)
                         /\ \A k \in 1 .. Len(s) : AreListed(f, h, i, v, s[k], t[k])
           T == {n \in Nat : n <= i - 1 => Both(a[n], b[n])}
<1>6. 0 \in T
  <2>1. a[0] = f[v].args /\ b[0] = h[v].args
    BY <1>0, <1>4, <1>5 DEF IsElements
  <2>2. Both(f[v].args, h[v].args)
    BY <1>2 DEF AreListed, SameLists
  <2> HIDE DEF Both
  <2> QED  BY <2>1, <2>2
<1>7. ASSUME NEW n \in Nat, n \in T PROVE n + 1 \in T
  <2> SUFFICES ASSUME n + 1 <= i - 1 PROVE Both(a[n + 1], b[n + 1])
    OBVIOUS
  <2>1. n + 1 \in Op /\ n + 1 < i /\ n + 1 \in 0 .. i - 1 /\ n + 1 # 0 /\ (n + 1) - 1 = n /\ n <= i - 1
    BY <1>0
  <2>2. Both(a[n], b[n])
    BY <1>7, <2>1
  <2>3. PICK o \in Op : o = n + 1
    BY <2>1
  <2>4. a[o] = IF IsAppend(f, v, o) THEN Append(a[n], f[o].args[2]) ELSE a[n]
    BY <1>4, <2>1, <2>3 DEF IsElements, IsAppend
  <2>5. b[o] = IF IsAppend(h, v, o) THEN Append(b[n], h[o].args[2]) ELSE b[n]
    BY <1>5, <2>1, <2>3 DEF IsElements, IsAppend
  <2>6. IsAppend(f, v, o) <=> IsAppend(h, v, o)
    BY <2>1, <2>3 DEF SameLists
  <2>7. CASE ~ IsAppend(f, v, o)
    <3> HIDE DEF Both
    <3> QED  BY <2>2, <2>3, <2>4, <2>5, <2>6, <2>7
  <2>8. CASE IsAppend(f, v, o)
    <3>1. PICK x : x = f[o].args[2]
      OBVIOUS
    <3>2. PICK y : y = h[o].args[2]
      OBVIOUS
    <3>3. Len(f[o].args) = 2 /\ Len(h[o].args) = 2 /\ f[o].kind = "append"
      BY <1>3, <2>6, <2>8 DEF IsAppend
    <3>4. x \in Op /\ y \in Op
      BY <1>2, <3>1, <3>2, <3>3
    <3>5. AreListed(f, h, i, v, x, y)
      BY <2>1, <2>3, <2>8, <3>1, <3>2, <3>3 DEF AreListed
    <3>6. PICK s : s = a[n]
      OBVIOUS
    <3>7. PICK t : t = b[n]
      OBVIOUS
    <3>8. s \in Seq(Op) /\ t \in Seq(Op) /\ Len(t) = Len(s) /\ \A k \in 1 .. Len(s) : AreListed(f, h, i, v, s[k], t[k])
      BY <2>2, <3>6, <3>7
    <3>9. PICK s2 : s2 = Append(s, x)
      OBVIOUS
    <3>10. PICK t2 : t2 = Append(t, y)
      OBVIOUS
    <3>11. s2 \in Seq(Op) /\ t2 \in Seq(Op) /\ Len(s2) = Len(s) + 1 /\ Len(t2) = Len(s2)
      BY <3>4, <3>8, <3>9, <3>10
    <3>12. ASSUME NEW k \in 1 .. Len(s2) PROVE AreListed(f, h, i, v, s2[k], t2[k])
      <4>1. CASE k = Len(s) + 1
        BY <3>4, <3>8, <3>9, <3>10, <4>1, <3>5
      <4>2. CASE k # Len(s) + 1
        BY <3>8, <3>11, <4>2, <3>4, <3>9, <3>10
      <4> QED  BY <4>1, <4>2
    <3>13. a[o] = s2 /\ b[o] = t2
      BY <2>4, <2>5, <2>6, <2>8, <3>1, <3>2, <3>6, <3>7, <3>9, <3>10
    <3>14. Both(s2, t2)
      BY <3>11, <3>12
    <3> HIDE DEF Both
    <3> QED  BY <2>3, <3>13, <3>14
  <2> QED  BY <2>7, <2>8
<1>8. i - 1 \in T
  <2>1. i - 1 \in Nat
    BY <1>0
  <2> HIDE DEF T
  <2> QED  BY <1>6, <1>7, <2>1, SetInduction
<1>9. Both(a[i - 1], b[i - 1])
  BY <1>0, <1>8
<1>10. Both(Elements(f, v, i), Elements(h, v, i))
  BY <1>4, <1>5, <1>9
<1> QED  BY <1>10

\* The contents of the tensor t as op i finds them.
TensorContents(f, m, t, i) ==
  IF m[t].base = 0 THEN m[t].term ELSE Read(f, m, m[t].base, m[t].path, i)

\* Contents, of tensors and of lists of tensors.
LEMMA ContentsOf ==
  ASSUME NEW f, NEW m, NEW v, NEW i
  PROVE  Contents(f, m, v, i) =
           IF f[v].kind = "list"
           THEN <<-3, Len(Elements(f, v, i))>>
                  \o FlattenSeq([k \in DOMAIN Elements(f, v, i) |->
                                   TensorContents(f, m, Elements(f, v, i)[k], i)])
           ELSE TensorContents(f, m, v, i)
BY DEF Contents, TensorContents

\* What is written to base b before op i is the same in f and in h.
SameReads(f, m, h, p, b, i) ==
  /\ \A w \in Op : w < i => (w \in Writes(f) /\ m[w].base = b <=> w \in Writes(h) /\ p[w].base = b)
  /\ \A w \in Op : w < i /\ w \in Writes(f) /\ m[w].base = b => p[w] = m[w]
  /\ p[b].term = m[b].term

\* Op i finds the same contents in y of h as in v of f.
SameTensor(f, m, h, p, i, v, y) ==
  p[y] = m[v] /\ (m[v].base # 0 => SameReads(f, m, h, p, m[v].base, i))

\* The writes to base b before op i.
WritesTo(f, m, b, i) == {w \in Writes(f) : w < i /\ m[w].base = b}

\* Which write is read.
LEMMA ReadIs ==
  ASSUME NEW f, NEW m, NEW b, NEW path, NEW i
  PROVE  /\ WritesTo(f, m, b, i) = {} => Read(f, m, b, path, i) = Viewed(path, m[b].term)
         /\ WritesTo(f, m, b, i) # {} => \E w \in WritesTo(f, m, b, i) : \A x \in WritesTo(f, m, b, i) : x <= w
         /\ \A w \in WritesTo(f, m, b, i) : (\A x \in WritesTo(f, m, b, i) : x <= w) =>
              Read(f, m, b, path, i) =
                IF IsPrefix(m[w].path, path)
                THEN Viewed(SubSeq(path, Len(m[w].path) + 1, Len(path)), m[w].term)
                ELSE Viewed(path, <<-1, w>>)
<1>1. PICK S : S = WritesTo(f, m, b, i)
  OBVIOUS
<1>2. S \subseteq Op
  BY <1>1 DEF WritesTo, Writes
<1>3. Read(f, m, b, path, i) =
        IF S = {} THEN Viewed(path, m[b].term)
        ELSE IF IsPrefix(m[CHOOSE w \in S : \A x \in S : x <= w].path, path)
             THEN Viewed(SubSeq(path, Len(m[CHOOSE w \in S : \A x \in S : x <= w].path) + 1, Len(path)),
                         m[CHOOSE w \in S : \A x \in S : x <= w].term)
             ELSE Viewed(path, <<-1, CHOOSE w \in S : \A x \in S : x <= w>>)
  BY <1>1 DEF Read, WritesTo
<1>4. S # {} => \E w \in S : \A x \in S : x <= w
  BY <1>2, LastIs
<1>5. ASSUME NEW w \in S, \A x \in S : x <= w
      PROVE  Read(f, m, b, path, i) =
               IF IsPrefix(m[w].path, path)
               THEN Viewed(SubSeq(path, Len(m[w].path) + 1, Len(path)), m[w].term)
               ELSE Viewed(path, <<-1, w>>)
  <2>1. (CHOOSE y \in S : \A x \in S : x <= y) = w
    BY <1>2, <1>5, LastIs
  <2>2. S # {}
    OBVIOUS
  <2> QED  BY <1>3, <2>1, <2>2
<1> QED  BY <1>1, <1>3, <1>4, <1>5

\* The same is read when the same was written.
LEMMA ReadAgrees ==
  ASSUME NEW f, NEW m, NEW h, NEW p, NEW b, NEW i, SameReads(f, m, h, p, b, i), NEW path
  PROVE  Read(h, p, b, path, i) = Read(f, m, b, path, i)
<1>1. WritesTo(h, p, b, i) = WritesTo(f, m, b, i)
  BY DEF Writes, SameReads, WritesTo
<1>2. p[b].term = m[b].term /\ \A w \in WritesTo(f, m, b, i) : p[w] = m[w]
  BY DEF SameReads, WritesTo, Writes
<1>3. CASE WritesTo(f, m, b, i) = {}
  BY <1>3, <1>1, <1>2, ReadIs
<1>4. CASE WritesTo(f, m, b, i) # {}
  <2>1. PICK w \in WritesTo(f, m, b, i) : \A x \in WritesTo(f, m, b, i) : x <= w
    BY <1>4, ReadIs
  <2>2. PICK q : q = m[w]
    OBVIOUS
  <2>3. p[w] = q
    BY <1>2, <2>2
  <2>4. Read(f, m, b, path, i) =
          IF IsPrefix(q.path, path) THEN Viewed(SubSeq(path, Len(q.path) + 1, Len(path)), q.term)
          ELSE Viewed(path, <<-1, w>>)
    BY <2>1, <2>2, ReadIs
  <2>5. Read(h, p, b, path, i) =
          IF IsPrefix(q.path, path) THEN Viewed(SubSeq(path, Len(q.path) + 1, Len(path)), q.term)
          ELSE Viewed(path, <<-1, w>>)
    BY <1>1, <2>1, <2>3, ReadIs
  <2> QED  BY <2>4, <2>5
<1> QED  BY <1>3, <1>4

\* Then the tensor has the same contents.
LEMMA TensorsAgree ==
  ASSUME NEW f, NEW m, NEW h, NEW p, NEW i, NEW v, NEW y, SameTensor(f, m, h, p, i, v, y)
  PROVE  TensorContents(h, p, y, i) = TensorContents(f, m, v, i)
<1>1. CASE m[v].base = 0
  BY <1>1 DEF SameTensor, TensorContents
<1>2. CASE m[v].base # 0
  BY <1>2, ReadAgrees DEF SameTensor, TensorContents
<1> QED  BY <1>1, <1>2

\* And so has a list of such tensors.
LEMMA ContentsAgree ==
  ASSUME NEW f, IsFunction(f), NEW h, IsFunction(h), NEW m, NEW p, NEW i \in Op, NEW v \in Op, v < i, NEW y,
         SameTensor(f, m, h, p, i, v, y), f[v].kind = "list" <=> h[y].kind = "list",
         f[v].kind = "list" => /\ y = v /\ SameLists(f, h, v, i)
                               /\ \A x, z : AreListed(f, h, i, v, x, z) => SameTensor(f, m, h, p, i, x, z)
  PROVE  Contents(h, p, y, i) = Contents(f, m, v, i)
<1>1. CASE f[v].kind # "list"
  <2>1. Contents(f, m, v, i) = TensorContents(f, m, v, i)
    BY <1>1, ContentsOf
  <2>2. Contents(h, p, y, i) = TensorContents(h, p, y, i)
    BY <1>1, ContentsOf
  <2> QED  BY <2>1, <2>2, TensorsAgree
<1>2. CASE f[v].kind = "list"
  <2>1. PICK d : d = Elements(f, v, i)
    OBVIOUS
  <2>2. PICK e : e = Elements(h, v, i)
    OBVIOUS
  <2>3. /\ d \in Seq(Op) /\ e \in Seq(Op) /\ Len(e) = Len(d)
        /\ \A k \in 1 .. Len(d) : AreListed(f, h, i, v, d[k], e[k])
    BY <1>2, <2>1, <2>2, ElementsCorrespond
  <2>4. DOMAIN d = 1 .. Len(d) /\ DOMAIN e = 1 .. Len(d)
    BY <2>3
  <2>5. \A k \in DOMAIN d : TensorContents(h, p, e[k], i) = TensorContents(f, m, d[k], i)
    BY <1>2, <2>3, <2>4, TensorsAgree
  <2>6. [k \in DOMAIN e |-> TensorContents(h, p, e[k], i)] = [k \in DOMAIN d |-> TensorContents(f, m, d[k], i)]
    BY <2>4, <2>5
  <2>7. Contents(f, m, v, i) = <<-3, Len(d)>> \o FlattenSeq([k \in DOMAIN d |-> TensorContents(f, m, d[k], i)])
    BY <1>2, <2>1, ContentsOf
  <2>8. Contents(h, p, y, i) = <<-3, Len(e)>> \o FlattenSeq([k \in DOMAIN e |-> TensorContents(h, p, e[k], i)])
    BY <1>2, <2>2, ContentsOf
  <2> QED  BY <2>3, <2>6, <2>7, <2>8
<1> QED  BY <1>1, <1>2

\* The contents of the operands of op i when it is reached.
OperandContents(f, m, i) == [k \in DOMAIN f[i].args |-> Contents(f, m, f[i].args[k], i)]

\* What view i adds to the path of what it is a view of.
ViewTerm(f, m, i) == <<i>> \o FlattenSeq(Tail(OperandContents(f, m, i)))

\* What is known of a result.
Known(base, path, term) == [base |-> base, path |-> path, term |-> term]

\* What an op means, one kind after the other.
LEMMA NothingIs ==
  ASSUME NEW s, NEW f, NEW m, NEW i, f[i].kind \in {"none", "list", "append", "return"}
  PROVE  Denote(s, f, m, i) = Known(0, <<>>, <<>>)
BY Zenon DEF Denote, Known, Nothing

\* An argument is a value.
LEMMA ArgIs ==
  ASSUME NEW s, NEW f, NEW m, NEW i, f[i].kind = "arg"
  PROVE  Denote(s, f, m, i) = Known(0, <<>>, <<i>>)
BY DEF Denote, Known, Nothing

\* A copy is allocated, and contains what is copied.
LEMMA CopyIs ==
  ASSUME NEW s, NEW f, NEW m, NEW i, f[i].kind = "to_tensor"
  PROVE  Denote(s, f, m, i) = Known(i, <<>>, OperandContents(f, m, i)[1])
BY DEF Denote, Known, Nothing, OperandContents

\* A snapshot is what it is taken of.
LEMMA SnapshotIs ==
  ASSUME NEW s, NEW f, NEW m, NEW i, f[i].kind = "to_vtensor"
  PROVE  Denote(s, f, m, i) = Known(0, <<>>, OperandContents(f, m, i)[1])
BY DEF Denote, Known, Nothing, OperandContents

\* The result of an op with value semantics, fresh if it is mutable.
LEMMA PureIs ==
  ASSUME NEW s, NEW f, NEW m, NEW i, f[i].kind = "pure"
  PROVE  Denote(s, f, m, i) = Known(IF IsMutable(f, i) THEN i ELSE 0, <<>>, <<Origin(s, i)>> \o FlattenSeq(OperandContents(f, m, i)))
<1>1. Denote(s, f, m, i) = [Nothing EXCEPT !.base = IF IsMutable(f, i) THEN i ELSE 0,
                            !.term = <<Origin(s, i)>> \o FlattenSeq([k \in DOMAIN f[i].args |-> Contents(f, m, f[i].args[k], i)])]
  BY DEF Denote
<1> QED  BY <1>1 DEF Known, Nothing, OperandContents

\* A view that is a value.
LEMMA ValueViewIs ==
  ASSUME NEW s, NEW f, NEW m, NEW i, IsViewLikeOp(f, i), ~ IsMutable(f, i)
  PROVE  Denote(s, f, m, i) = Known(0, <<>>, IF f[i].kind = "cast" THEN OperandContents(f, m, i)[1]
                                             ELSE ViewTerm(f, m, i) \o OperandContents(f, m, i)[1])
BY DEF Denote, Known, Nothing, OperandContents, ViewTerm, IsViewLikeOp

\* A view that is mutable is one of the base that its operand has.
LEMMA ViewIs ==
  ASSUME NEW s, NEW f, NEW m, NEW i, f[i].kind = "view", IsMutable(f, i),
         NEW b, NEW q, NEW t, m[f[i].args[1]] = Known(b, q, t)
  PROVE  Denote(s, f, m, i) = Known(b, Append(q, ViewTerm(f, m, i)), t)
<1>1. Denote(s, f, m, i) = [m[f[i].args[1]] EXCEPT !.path = IF f[i].kind = "cast" THEN @ ELSE
                 Append(@, <<i>> \o FlattenSeq(Tail([k \in DOMAIN f[i].args |-> Contents(f, m, f[i].args[k], i)])))]
  BY DEF Denote
<1>2. PICK v : v = <<i>> \o FlattenSeq(Tail([k \in DOMAIN f[i].args |-> Contents(f, m, f[i].args[k], i)]))
  OBVIOUS
<1>3. v = ViewTerm(f, m, i)
  BY <1>2 DEF OperandContents, ViewTerm
<1>4. Denote(s, f, m, i) = [m[f[i].args[1]] EXCEPT !.path = Append(@, v)]
  BY <1>1, <1>2
<1>5. PICK y : y = Append(q, v)
  OBVIOUS
<1>6. m[f[i].args[1]].path = q
  BY DEF Known
<1>7. Denote(s, f, m, i) = [m[f[i].args[1]] EXCEPT !.path = y]
  BY <1>4, <1>5, <1>6
<1>8. Denote(s, f, m, i) = Known(b, y, t)
  BY <1>7 DEF Known
<1> QED  BY <1>3, <1>5, <1>8

\* A cast that is mutable is its operand.
LEMMA CastIs ==
  ASSUME NEW s, NEW f, NEW m, NEW i, f[i].kind = "cast", IsMutable(f, i),
         NEW b, NEW q, NEW t, m[f[i].args[1]] = Known(b, q, t)
  PROVE  Denote(s, f, m, i) = Known(b, q, t)
BY DEF Denote, Known, Nothing

\* What is written by an op that is a variant in place.
LEMMA InplaceIs ==
  ASSUME NEW s, NEW f, NEW m, NEW i, f[i].kind = "inplace",
         NEW b, NEW q, NEW t, m[f[i].args[1]] = Known(b, q, t)
  PROVE  Denote(s, f, m, i) = Known(b, q, <<i>> \o FlattenSeq(OperandContents(f, m, i)))
<1>1. Denote(s, f, m, i) = [m[f[i].args[1]] EXCEPT !.term = <<i>> \o FlattenSeq([k \in DOMAIN f[i].args |-> Contents(f, m, f[i].args[k], i)])]
  BY DEF Denote
<1>2. PICK x : x = <<i>> \o FlattenSeq([k \in DOMAIN f[i].args |-> Contents(f, m, f[i].args[k], i)])
  OBVIOUS
<1>3. x = <<i>> \o FlattenSeq(OperandContents(f, m, i))
  BY <1>2 DEF OperandContents
<1>4. Denote(s, f, m, i) = [m[f[i].args[1]] EXCEPT !.term = x]
  BY <1>1, <1>2
<1>5. Denote(s, f, m, i) = Known(b, q, x)
  BY <1>4 DEF Known
<1> QED  BY <1>3, <1>5

\* What is written by an overwrite.
LEMMA OverwriteIs ==
  ASSUME NEW s, NEW f, NEW m, NEW i, f[i].kind = "overwrite",
         NEW b, NEW q, NEW t, m[f[i].args[2]] = Known(b, q, t)
  PROVE  Denote(s, f, m, i) = Known(b, q, OperandContents(f, m, i)[1])
BY DEF Denote, Known, Nothing, OperandContents

\* What an unknown op may have written.
LEMMA OtherIs ==
  ASSUME NEW s, NEW f, NEW m, NEW i, f[i].kind = "other",
         NEW b, NEW q, NEW t, m[f[i].args[1]] = Known(b, q, t)
  PROVE  Denote(s, f, m, i) = Known(b, q, <<-2, i>> \o OperandContents(f, m, i)[1])
<1>1. Denote(s, f, m, i) = [m[f[i].args[1]] EXCEPT !.term = <<-2, i>> \o [k \in DOMAIN f[i].args |-> Contents(f, m, f[i].args[k], i)][1]]
  BY DEF Denote
<1>2. PICK x : x = <<-2, i>> \o OperandContents(f, m, i)[1]
  OBVIOUS
<1>3. Denote(s, f, m, i) = [m[f[i].args[1]] EXCEPT !.term = x]
  BY <1>1, <1>2 DEF OperandContents
<1>4. Denote(s, f, m, i) = Known(b, q, x)
  BY <1>3 DEF Known
<1> QED  BY <1>2, <1>4

\* A tensor's base comes not after the tensor.
IsKnown(x, i) == \E base \in 0 .. i : \E path, term : x = Known(base, path, term)

\* All ops before i mean something.
AllKnown(m, i) == \A o \in Op : o < i => IsKnown(m[o], o)

\* The parts of what is known.
LEMMA KnownIs ==
  ASSUME NEW b, NEW q, NEW t, NEW x, x = Known(b, q, t)
  PROVE  x.base = b /\ x.path = q /\ x.term = t
BY DEF Known

\* The op reads or writes one of these operands as a tensor that has a base.
LEMMA ChangedOperands ==
  ASSUME NEW f, IsFunction(f), NEW i \in Op, NEW m, AllKnown(m, i)
  PROVE  /\ f[i].kind \in {"inplace", "other"} \/ (IsViewLikeOp(f, i) /\ IsMutable(f, i)) =>
              /\ Len(f[i].args) >= 1 /\ f[i].args[1] \in Op /\ f[i].args[1] < i
              /\ \E b \in 0 .. i : b <= f[i].args[1] /\ \E q, t : m[f[i].args[1]] = Known(b, q, t)
         /\ f[i].kind = "overwrite" =>
              /\ Len(f[i].args) = 2 /\ f[i].args[2] \in Op /\ f[i].args[2] < i
              /\ \E b \in 0 .. i : b <= f[i].args[2] /\ \E q, t : m[f[i].args[2]] = Known(b, q, t)
<1>0. NumOps \in Nat /\ Op = 1 .. NumOps
  BY FunctionsAssumption DEF Op
<1>1. f \in [Op -> OpIR] /\ OpOK(f, i)
  BY FunctionIff DEF IsFunction
<1>2. Len(f[i].args) \in Nat /\ \A k \in 1 .. Len(f[i].args) : f[i].args[k] \in Op /\ f[i].args[k] < i
  BY <1>1, OperandsAre DEF OpOK
<1>3. ASSUME NEW a \in Op, a < i PROVE \E b \in 0 .. i : b <= a /\ \E q, t : m[a] = Known(b, q, t)
  BY <1>3, <1>0 DEF AllKnown, IsKnown
<1>4. f[i].kind \in {"inplace", "other"} \/ (IsViewLikeOp(f, i) /\ IsMutable(f, i)) => Len(f[i].args) >= 1
  BY <1>1, <1>2 DEF OpOK, IsViewLikeOp
<1>5. f[i].kind = "overwrite" => Len(f[i].args) = 2
  BY <1>1 DEF OpOK
<1>6. ASSUME f[i].kind \in {"inplace", "other"} \/ (IsViewLikeOp(f, i) /\ IsMutable(f, i))
      PROVE  f[i].args[1] \in Op /\ f[i].args[1] < i
  BY <1>2, <1>4, <1>6
<1>7. ASSUME f[i].kind = "overwrite" PROVE f[i].args[2] \in Op /\ f[i].args[2] < i
  BY <1>2, <1>5, <1>7
<1> QED  BY <1>3, <1>4, <1>5, <1>6, <1>7

\* An op means something when the ops before it do.
LEMMA DenoteIsKnown ==
  ASSUME NEW s, NEW f, IsFunction(f), NEW m, NEW i \in Op, AllKnown(m, i)
  PROVE  IsKnown(Denote(s, f, m, i), i)
<1>0. NumOps \in Nat /\ Op = 1 .. NumOps /\ 0 \in 0 .. i /\ i \in 0 .. i
  BY FunctionsAssumption DEF Op
<1>1. f[i].kind \in Kind
  BY DEF IsFunction, OpIR
<1>2. PICK d : d = Denote(s, f, m, i)
  OBVIOUS
<1>3. PICK c : c = OperandContents(f, m, i)
  OBVIOUS
<1>4. \A b \in 0 .. i : \A q, t : d = Known(b, q, t) => IsKnown(Denote(s, f, m, i), i)
  BY <1>2 DEF IsKnown
<1>5. ASSUME f[i].kind \in {"none", "list", "append", "return"} PROVE d = Known(0, <<>>, <<>>)
  BY <1>2, <1>5, NothingIs
<1>6. ASSUME f[i].kind = "arg" PROVE d = Known(0, <<>>, <<i>>)
  BY <1>2, <1>6, ArgIs
<1>7. ASSUME f[i].kind = "to_tensor" PROVE d = Known(i, <<>>, c[1])
  BY <1>2, <1>3, <1>7, CopyIs
<1>8. ASSUME f[i].kind = "to_vtensor" PROVE d = Known(0, <<>>, c[1])
  BY <1>2, <1>3, <1>8, SnapshotIs
<1>9. ASSUME f[i].kind = "pure"
      PROVE  d = Known(IF IsMutable(f, i) THEN i ELSE 0, <<>>, <<Origin(s, i)>> \o FlattenSeq(c))
  BY <1>2, <1>3, <1>9, PureIs
<1>10. ASSUME IsViewLikeOp(f, i), ~ IsMutable(f, i) 
       PROVE  d = Known(0, <<>>, IF f[i].kind = "cast" THEN c[1] ELSE ViewTerm(f, m, i) \o c[1])
  BY <1>2, <1>3, <1>10, ValueViewIs
<1>11. ASSUME f[i].kind \in {"inplace", "other"} \/ (IsViewLikeOp(f, i) /\ IsMutable(f, i))
       PROVE  \E b \in 0 .. i : \E q, t : d = Known(b, q, t)
  <2>1. PICK b, q, t : b \in 0 .. i /\ m[f[i].args[1]] = Known(b, q, t)
    BY <1>11, ChangedOperands
  <2>2. ASSUME f[i].kind = "inplace" PROVE d = Known(b, q, <<i>> \o FlattenSeq(c))
    BY <1>2, <1>3, <2>1, <2>2, InplaceIs
  <2>3. ASSUME f[i].kind = "other" PROVE d = Known(b, q, <<-2, i>> \o c[1])
    BY <1>2, <1>3, <2>1, <2>3, OtherIs
  <2>4. ASSUME f[i].kind = "cast", IsMutable(f, i) PROVE d = Known(b, q, t)
    BY <1>2, <2>1, <2>4, CastIs
  <2>5. ASSUME f[i].kind = "view", IsMutable(f, i) PROVE d = Known(b, Append(q, ViewTerm(f, m, i)), t)
    BY <1>2, <2>1, <2>5, ViewIs
  <2> QED  BY <1>11, <2>1, <2>2, <2>3, <2>4, <2>5 DEF IsViewLikeOp
<1>12. ASSUME f[i].kind = "overwrite" PROVE \E b \in 0 .. i : \E q, t : d = Known(b, q, t)
  BY <1>12, <1>2, <1>3, ChangedOperands, OverwriteIs
<1>13. (IF IsMutable(f, i) THEN i ELSE 0) \in 0 .. i
  BY <1>0
<1>14. f[i].kind \in {"none", "list", "append", "return", "arg", "to_tensor", "to_vtensor", "pure"}
       => \E b \in 0 .. i : \E q, t : d = Known(b, q, t)
  BY <1>0, <1>5, <1>6, <1>7, <1>8, <1>9, <1>13
<1>15. IsViewLikeOp(f, i) => \E b \in 0 .. i : \E q, t : d = Known(b, q, t)
  BY <1>0, <1>10, <1>11
<1> QED  BY <1>1, <1>4, <1>11, <1>12, <1>14, <1>15 DEF Kind, IsViewLikeOp

\* An op that finds what it found before means what it meant.
LEMMA StepAgrees ==
  ASSUME NEW s, NEW f, IsFunction(f), NEW h, IsFunction(h), NEW m, NEW p, NEW i \in Op, AllKnown(m, i),
         h[i].kind = f[i].kind, Len(h[i].args) = Len(f[i].args), IsMutable(h, i) <=> IsMutable(f, i),
         \A k \in 1 .. Len(f[i].args) :
           Contents(h, p, h[i].args[k], i) = Contents(f, m, f[i].args[k], i),
         f[i].kind \in {"inplace", "other"} \/ (IsViewLikeOp(f, i) /\ IsMutable(f, i)) =>
           p[h[i].args[1]] = m[f[i].args[1]],
         f[i].kind = "overwrite" => p[h[i].args[2]] = m[f[i].args[2]]
  PROVE  /\ Denote(s, h, p, i) = Denote(s, f, m, i)
         /\ ViewTerm(h, p, i) = ViewTerm(f, m, i) /\ OperandContents(h, p, i) = OperandContents(f, m, i)
<1>0. f \in [Op -> OpIR] /\ h \in [Op -> OpIR] /\ f[i].kind \in Kind
  BY DEF IsFunction, OpIR
<1>1. PICK c : c = OperandContents(f, m, i)
  OBVIOUS
<1>2. OperandContents(h, p, i) = c
  <2>1. DOMAIN h[i].args = 1 .. Len(f[i].args) /\ DOMAIN f[i].args = 1 .. Len(f[i].args)
    BY <1>0, OperandsAre
  <2> QED  BY <1>1, <2>1 DEF OperandContents
<1>3. ViewTerm(h, p, i) = ViewTerm(f, m, i)
  BY <1>1, <1>2 DEF ViewTerm
<1>4. PICK v : v = ViewTerm(f, m, i)
  OBVIOUS
<1>5. PICK d : d = Denote(s, f, m, i)
  OBVIOUS
<1>6. PICK e : e = Denote(s, h, p, i)
  OBVIOUS
<1>7. IsViewLikeOp(h, i) <=> IsViewLikeOp(f, i)
  BY DEF IsViewLikeOp
<1>8. ASSUME f[i].kind \in {"none", "list", "append", "return"} PROVE d = e
  BY <1>5, <1>8, <1>6, NothingIs
<1>9. ASSUME f[i].kind = "arg" PROVE d = e
  <2>1. d = Known(0, <<>>, <<i>>)
    BY <1>5, <1>9, ArgIs
  <2>2. e = Known(0, <<>>, <<i>>)
    BY <1>6, <1>9, ArgIs
  <2> QED  BY <2>1, <2>2
<1>10. ASSUME f[i].kind = "to_tensor" PROVE d = e
  BY <1>1, <1>5, <1>10, <1>2, <1>6, CopyIs
<1>11. ASSUME f[i].kind = "to_vtensor" PROVE d = e
  BY <1>1, <1>5, <1>11, <1>2, <1>6, SnapshotIs
<1>12. ASSUME f[i].kind = "pure" PROVE d = e
  <2>1. d = Known(IF IsMutable(f, i) THEN i ELSE 0, <<>>, <<Origin(s, i)>> \o FlattenSeq(c))
    BY <1>1, <1>5, <1>12, PureIs
  <2>2. e = Known(IF IsMutable(h, i) THEN i ELSE 0, <<>>, <<Origin(s, i)>> \o FlattenSeq(c))
    BY <1>2, <1>6, <1>12, PureIs
  <2>3. (IF IsMutable(h, i) THEN i ELSE 0) = (IF IsMutable(f, i) THEN i ELSE 0)
    OBVIOUS
  <2> QED  BY <2>1, <2>2, <2>3
<1>13. ASSUME IsViewLikeOp(f, i), ~ IsMutable(f, i) PROVE d = e
  BY <1>1, <1>4, <1>5, <1>13, <1>2, <1>3, <1>6, <1>7, ValueViewIs
<1>14. ASSUME f[i].kind \in {"inplace", "other"} \/ (IsViewLikeOp(f, i) /\ IsMutable(f, i)) PROVE d = e
  <2>1. PICK b, q, t : m[f[i].args[1]] = Known(b, q, t)
    BY <1>14, ChangedOperands
  <2>2. p[h[i].args[1]] = Known(b, q, t)
    BY <1>14, <2>1
  <2>3. ASSUME f[i].kind = "inplace" PROVE d = e
    <3>1. d = Known(b, q, <<i>> \o FlattenSeq(c))
      BY <1>1, <1>5, <2>1, <2>3, InplaceIs
    <3>2. e = Known(b, q, <<i>> \o FlattenSeq(c))
      BY <1>2, <1>6, <2>2, <2>3, InplaceIs
    <3> QED  BY <3>1, <3>2
  <2>4. ASSUME f[i].kind = "other" PROVE d = e
    <3>1. d = Known(b, q, <<-2, i>> \o c[1])
      BY <1>1, <1>5, <2>1, <2>4, OtherIs
    <3>2. e = Known(b, q, <<-2, i>> \o c[1])
      BY <1>2, <1>6, <2>2, <2>4, OtherIs
    <3> QED  BY <3>1, <3>2
  <2>5. ASSUME f[i].kind = "cast", IsMutable(f, i) PROVE d = e
    BY <1>5, <2>1, <2>5, <1>6, <2>2, CastIs
  <2>6. ASSUME f[i].kind = "view", IsMutable(f, i) PROVE d = e
    BY <1>4, <1>5, <2>1, <2>6, <1>3, <1>6, <2>2, ViewIs
  <2> QED  BY <1>14, <2>3, <2>4, <2>5, <2>6 DEF IsViewLikeOp
<1>15. ASSUME f[i].kind = "overwrite" PROVE d = e
  BY <1>15, <1>1, <1>5, <1>2, <1>6, ChangedOperands, OverwriteIs
<1>16. d = e
  BY <1>0, <1>8, <1>9, <1>10, <1>11, <1>12, <1>13, <1>14, <1>15 DEF Kind, IsViewLikeOp
<1> QED  BY <1>1, <1>2, <1>3, <1>5, <1>6, <1>16

\* Nothing is known of what comes after an op when the op is given its meaning.
LEMMA DenoteLocal ==
  ASSUME NEW s, NEW f, IsFunction(f), NEW i \in Op, NEW m, AllKnown(m, i), NEW p,
         \A o \in Op : o < i => p[o] = m[o]
  PROVE  /\ Denote(s, f, p, i) = Denote(s, f, m, i) /\ ViewTerm(f, p, i) = ViewTerm(f, m, i)
<1>0. NumOps \in Nat /\ Op = 1 .. NumOps
  BY FunctionsAssumption DEF Op
<1>1. f \in [Op -> OpIR] /\ \A o \in Op : OpOK(f, o)
  BY FunctionIff DEF IsFunction
<1>2. \A o \in Op : Len(f[o].args) \in Nat /\ \A k \in 1 .. Len(f[o].args) : f[o].args[k] \in Op /\ f[o].args[k] < o
  BY <1>1, OperandsAre DEF OpOK
<1>3. ASSUME NEW v \in Op, v < i PROVE SameTensor(f, m, f, p, i, v, v)
  <2>1. PICK b, q, t : b \in 0 .. v /\ m[v] = Known(b, q, t)
    BY <1>3 DEF AllKnown, IsKnown
  <2>2. m[v].base = b
    BY <2>1, KnownIs
  <2>3. ASSUME b # 0 PROVE SameReads(f, m, f, p, b, i)
    BY <1>0, <1>3, <2>1, <2>3 DEF SameReads
  <2> QED  BY <1>3, <2>2, <2>3 DEF SameTensor
<1>4. ASSUME NEW v, NEW x, NEW z, AreListed(f, f, i, v, x, z) PROVE SameTensor(f, m, f, p, i, x, z)
  BY <1>4, <1>0, <1>2, <1>3 DEF AreListed
<1>5. ASSUME NEW v \in Op, v < i PROVE Contents(f, p, v, i) = Contents(f, m, v, i)
  BY <1>3, <1>5, <1>4, ContentsAgree DEF SameLists
<1>6. \A k \in 1 .. Len(f[i].args) : Contents(f, p, f[i].args[k], i) = Contents(f, m, f[i].args[k], i)
  BY <1>2, <1>5
<1>7. f[i].kind \in {"inplace", "other"} \/ (IsViewLikeOp(f, i) /\ IsMutable(f, i)) =>
        p[f[i].args[1]] = m[f[i].args[1]]
  BY ChangedOperands
<1>8. f[i].kind = "overwrite" => p[f[i].args[2]] = m[f[i].args[2]]
  BY ChangedOperands
<1> QED  BY <1>6, <1>7, <1>8, StepAgrees

\* g[n] are the meanings after the n-th op.
IsMeaning(g, s, f) ==
  g = [n \in 0 .. NumOps |->
         IF n = 0 THEN [o \in Op |-> Nothing]
         ELSE IF f[n].kind = "none" THEN g[n - 1]
         ELSE [g[n - 1] EXCEPT ![n] = Denote(s, f, g[n - 1], n)]]

\* Meaning is defined by the recursion it is written as.
LEMMA MeaningExists ==
  ASSUME NEW s, NEW f
  PROVE  \E g : IsMeaning(g, s, f) /\ Meaning(s, f) = g[NumOps]
<1> DEFINE First == [o \in Op |-> Nothing]
           Next1(y, n) == IF f[n].kind = "none" THEN y ELSE [y EXCEPT ![n] = Denote(s, f, y, n)]
           Is(g) == g = [n \in 0 .. NumOps |->
                           IF n = 0 THEN [o \in Op |-> Nothing]
                           ELSE IF f[n].kind = "none" THEN g[n - 1]
                           ELSE LET before == g[n - 1]
                                IN  [before EXCEPT ![n] = Denote(s, f, before, n)]]
           L == NumOps
           T == {n \in Nat : \E g : \A m \in 0 .. L :
                   m <= n => g[m] = IF m = 0 THEN First ELSE Next1(g[m - 1], m)}
<1> HIDE DEF L, Next1, First
<1>0. L \in Nat
  BY FunctionsAssumption DEF L
<1>1. 0 \in T
  <2> DEFINE g == [m \in 0 .. L |-> First]
  <2>1. \A m \in 0 .. L : m <= 0 => m = 0 /\ g[m] = First
    OBVIOUS
  <2> HIDE DEF g
  <2> QED  BY <2>1
<1>2. ASSUME NEW n \in Nat, n \in T PROVE n + 1 \in T
  <2>1. PICK g : \A m \in 0 .. L : m <= n => g[m] = IF m = 0 THEN First ELSE Next1(g[m - 1], m)
    BY <1>2
  <2> DEFINE r == [m \in 0 .. L |-> IF m = n + 1 THEN Next1(g[n], n + 1) ELSE g[m]]
  <2>2. ASSUME NEW m \in 0 .. L, m <= n + 1 PROVE r[m] = IF m = 0 THEN First ELSE Next1(r[m - 1], m)
    <3>1. CASE m = n + 1
      <4>1. m # 0 /\ m - 1 = n /\ n \in 0 .. L /\ n # n + 1
        BY <1>0, <3>1
      <4>2. r[m] = Next1(g[n], n + 1) /\ r[n] = g[n]
        BY <3>1, <4>1
      <4> HIDE DEF r
      <4> QED  BY <3>1, <4>1, <4>2
    <3>2. CASE m # n + 1
      <4>1. m <= n /\ r[m] = g[m]
        BY <1>0, <2>2, <3>2
      <4>2. m # 0 => m - 1 \in 0 .. L /\ m - 1 # n + 1
        BY <1>0, <4>1
      <4>3. m # 0 => r[m - 1] = g[m - 1]
        BY <4>2
      <4> HIDE DEF r
      <4> QED  BY <2>1, <4>1, <4>3
    <3> QED  BY <3>1, <3>2
  <2> HIDE DEF r
  <2> QED  BY <2>2
<1>3. \E g : Is(g)
  <2>1. L \in T
    <3> HIDE DEF T
    <3> QED  BY <1>0, <1>1, <1>2, SetInduction
  <2>2. PICK g : \A m \in 0 .. L : m <= L => g[m] = IF m = 0 THEN First ELSE Next1(g[m - 1], m)
    BY <2>1
  <2> DEFINE r == [m \in 0 .. L |-> g[m]]
  <2>3. \A m \in 0 .. L : r[m] = IF m = 0 THEN First ELSE Next1(r[m - 1], m)
    <3> SUFFICES ASSUME NEW m \in 0 .. L PROVE r[m] = IF m = 0 THEN First ELSE Next1(r[m - 1], m)
      OBVIOUS
    <3>1. r[m] = g[m] /\ m <= L /\ (m # 0 => m - 1 \in 0 .. L)
      BY <1>0
    <3>2. m # 0 => r[m - 1] = g[m - 1]
      BY <3>1
    <3> HIDE DEF r
    <3> QED  BY <2>2, <3>1, <3>2
  <2>4. r = [m \in 0 .. L |-> IF m = 0 THEN First ELSE Next1(r[m - 1], m)]
    <3>1. r = [m \in 0 .. L |-> r[m]]
      OBVIOUS
    <3> HIDE DEF r
    <3> QED  BY <2>3, <3>1
  <2> HIDE DEF r
  <2>5. Is(r)
    BY <2>4 DEF L, Next1, First
  <2> HIDE DEF Is
  <2> QED  BY <2>5
<1> DEFINE h == CHOOSE g : Is(g)
<1>4. Is(h)
  <2> HIDE DEF Is
  <2> QED  BY <1>3
<1>5. Meaning(s, f) = h[NumOps]
  BY DEF Meaning
<1> HIDE DEF h
<1>6. IsMeaning(h, s, f)
  BY <1>4 DEF IsMeaning
<1> HIDE DEF Is
<1> QED  BY <1>5, <1>6

\* Every op has the meaning that follows from those before it.
LEMMA MeaningIs ==
  ASSUME NEW s, NEW f, IsFunction(f), NEW m, m = Meaning(s, f)
  PROVE  \A i \in Op : m[i] = Denote(s, f, m, i) /\ IsKnown(m[i], i)
<1>0. NumOps \in Nat /\ Op = 1 .. NumOps
  BY FunctionsAssumption DEF Op
<1>1. PICK g : IsMeaning(g, s, f) /\ m = g[NumOps]
  BY MeaningExists
<1> DEFINE Good(y, n) == /\ y = [o \in Op |-> y[o]]
                         /\ \A o \in Op : o > n => y[o] = Known(0, <<>>, <<>>)
                         /\ \A o \in Op : o <= n => y[o] = Denote(s, f, y, o) /\ IsKnown(y[o], o)
           T == {n \in Nat : n <= NumOps => Good(g[n], n)}
<1>2. 0 \in T
  BY <1>0, <1>1 DEF IsMeaning, Nothing, Known
<1>3. ASSUME NEW n \in Nat, n \in T PROVE n + 1 \in T
  <2> SUFFICES ASSUME n + 1 <= NumOps PROVE Good(g[n + 1], n + 1)
    OBVIOUS
  <2>1. n + 1 \in Op /\ n + 1 \in 0 .. NumOps /\ n + 1 # 0 /\ (n + 1) - 1 = n /\ n <= NumOps
    BY <1>0
  <2>2. PICK i \in Op : i = n + 1
    BY <2>1
  <2>3. PICK y : y = g[n]
    OBVIOUS
  <2>4. Good(y, n)
    BY <1>3, <2>1, <2>3
  <2>5. g[i] = IF f[i].kind = "none" THEN y ELSE [y EXCEPT ![i] = Denote(s, f, y, i)]
    BY <1>1, <2>1, <2>2, <2>3 DEF IsMeaning
  <2>6. PICK d : d = Denote(s, f, y, i)
    OBVIOUS
  <2>7. f[i].kind = "none" => d = Known(0, <<>>, <<>>)
    BY <2>6, NothingIs
  <2>8. PICK z : z = g[i]
    OBVIOUS
  <2>9. y = [o \in Op |-> y[o]] /\ (\A o \in Op : o > n => y[o] = Known(0, <<>>, <<>>))
    BY <2>4
  <2>10. z = [o \in Op |-> IF o = i THEN d ELSE y[o]]
    <3>1. CASE f[i].kind = "none"
      BY <1>0, <2>2, <2>7, <2>9, <3>1, <2>5, <2>8
    <3>2. CASE f[i].kind # "none"
      BY <2>5, <2>6, <2>8, <3>2, <2>9
    <3> QED  BY <3>1, <3>2
  <2>11. \A o \in Op : o <= n => z[o] = y[o] /\ y[o] = Denote(s, f, y, o) /\ IsKnown(y[o], o)
    BY <2>4, <1>0, <2>2, <2>10
  <2> HIDE DEF Good
  <2>12. \A o \in Op : o < i => o <= n
    BY <1>0, <2>2
  <2>13. AllKnown(y, i)
    BY <2>11, <2>12 DEF AllKnown
  <2>14. ASSUME NEW o \in Op, o <= i PROVE z[o] = Denote(s, f, z, o) /\ IsKnown(z[o], o)
    <3>1. \A u \in Op : u < o => u < i
      BY <1>0, <2>14
    <3>2. AllKnown(y, o) /\ \A u \in Op : u < o => z[u] = y[u]
      BY <2>11, <2>12, <2>13, <3>1 DEF AllKnown
    <3>3. Denote(s, f, z, o) = Denote(s, f, y, o)
      BY <3>2, DenoteLocal
    <3>4. CASE o = i
      BY <2>10, <3>4, <2>6, <2>13, <3>3, DenoteIsKnown
    <3>5. CASE o # i
      BY <1>0, <2>12, <2>14, <3>5, <2>11, <3>3
    <3> QED  BY <3>4, <3>5
  <2>15. z = [o \in Op |-> z[o]]
    BY <2>10
  <2>16. \A o \in Op : o > i => z[o] = Known(0, <<>>, <<>>)
    BY <1>0, <2>2, <2>9, <2>10
  <2>17. Good(z, i)
    BY <2>14, <2>15, <2>16 DEF Good
  <2> QED  BY <2>2, <2>8, <2>17
<1>4. NumOps \in T
  <2> HIDE DEF T
  <2> QED  BY <1>0, <1>2, <1>3, SetInduction
<1>5. Good(m, NumOps)
  BY <1>0, <1>1, <1>4
<1>6. \A o \in Op : o <= NumOps
  BY <1>0
<1> QED  BY <1>5, <1>6

\* What holds for an op when it holds for all ops before it holds for all ops.
LEMMA OpInduction ==
  ASSUME NEW S, \A v \in Op : (\A u \in Op : u < v => u \in S) => v \in S
  PROVE  Op \subseteq S
<1>0. NumOps \in Nat /\ Op = 1 .. NumOps
  BY FunctionsAssumption DEF Op
<1> DEFINE T == Op \ S
<1>1. SUFFICES ASSUME T # {} PROVE FALSE
  OBVIOUS
<1>2. T \subseteq Nat
  BY <1>0
<1>3. PICK x \in T : \A y \in T : x <= y
  <2> HIDE DEF T
  <2> QED  BY <1>1, <1>2, LeastElement
<1>4. ASSUME NEW u \in Op, u < x PROVE u \in S
  BY <1>3, <1>0, <1>4
<1> QED  BY <1>3, <1>4

\* m is what the ops of f, made of s, mean.
Meant(m, s, f) == IsFunction(f) /\ m = Meaning(s, f)

\* Every op means something, which follows from what the others mean.
LEMMA AllAreKnown ==
  ASSUME NEW m, NEW s, NEW f, Meant(m, s, f), NEW i \in Op
  PROVE  AllKnown(m, i) /\ m[i] = Denote(s, f, m, i) /\ m[i] = Known(m[i].base, m[i].path, m[i].term)
BY MeaningIs, KnownIs DEF Meant, IsKnown, AllKnown

\* Where the results of the ops are.
IsPlaced(m, f, v) ==
  /\ f[v].type \in {"value", "list"} => m[v].base = 0 /\ m[v].path = <<>>
  /\ f[v].type = "mutable" => /\ m[v].base \in Op /\ m[v].base <= v
                              /\ f[m[v].base].kind \in {"to_tensor", "pure"} /\ IsMutable(f, m[v].base)

\* What is not a mutable tensor has no base.
LEMMA PlaceOfNothing ==
  ASSUME NEW m, NEW s, NEW f, Meant(m, s, f), NEW v \in Op,
         f[v].type \in {"value", "list"} \/ f[v].kind \in {"none", "list", "append", "return"}
  PROVE  m[v].base = 0 /\ m[v].path = <<>>
<1>1. m[v] = Denote(s, f, m, v) /\ IsFunction(f)
  BY AllAreKnown DEF Meant
<1>2. f[v].kind \in Kind /\ OpOK(f, v)
  BY <1>1, FunctionIff DEF IsFunction, OpIR
<1>3. CASE f[v].kind \in {"none", "list", "append", "return"}
  BY <1>1, <1>3, NothingIs, KnownIs
<1>4. CASE f[v].kind = "arg"
  <2>1. m[v] = Known(0, <<>>, <<v>>)
    BY <1>1, <1>4, ArgIs
  <2> QED  BY <2>1, KnownIs
<1>5. CASE f[v].kind = "to_vtensor"
  BY <1>1, <1>5, SnapshotIs, KnownIs
<1>6. CASE f[v].kind = "pure" /\ ~ IsMutable(f, v)
  <2>1. PICK t : t = <<Origin(s, v)>> \o FlattenSeq(OperandContents(f, m, v))
    OBVIOUS
  <2>2. m[v] = Known(0, <<>>, t)
    BY <1>1, <1>6, <2>1, PureIs
  <2> QED  BY <2>2, KnownIs
<1>7. CASE IsViewLikeOp(f, v) /\ ~ IsMutable(f, v)
  BY <1>1, <1>7, ValueViewIs, KnownIs
<1>8. f[v].type \in {"value", "list"} =>
        ~ IsMutable(f, v) /\ f[v].kind \in {"list", "append", "arg", "to_vtensor", "pure", "view", "cast"}
  BY <1>2 DEF OpOK, Kind, IsMutable
<1> QED  BY <1>3, <1>4, <1>5, <1>6, <1>7, <1>8 DEF IsViewLikeOp

\* A fresh tensor is its own base.
LEMMA PlaceOfAllocation ==
  ASSUME NEW m, NEW s, NEW f, Meant(m, s, f), NEW v \in Op,
         f[v].kind = "to_tensor" \/ (f[v].kind = "pure" /\ IsMutable(f, v))
  PROVE  m[v].base = v /\ m[v].path = <<>>
<1>1. m[v] = Denote(s, f, m, v)
  BY AllAreKnown
<1>2. CASE f[v].kind = "to_tensor"
  BY <1>1, <1>2, CopyIs, KnownIs
<1>3. CASE f[v].kind = "pure" /\ IsMutable(f, v)
  <2>1. PICK t : t = <<Origin(s, v)>> \o FlattenSeq(OperandContents(f, m, v))
    OBVIOUS
  <2>2. m[v] = Known(v, <<>>, t)
    BY <1>1, <1>3, <2>1, PureIs
  <2> QED  BY <2>2, KnownIs
<1> QED  BY <1>2, <1>3

\* What op v changes, or takes a view of.
LEMMA ChangedIs ==
  ASSUME NEW m, NEW s, NEW f, Meant(m, s, f), NEW v \in Op,
         f[v].kind \in {"inplace", "other"} \/ (IsViewLikeOp(f, v) /\ IsMutable(f, v)),
         NEW a, a = f[v].args[1]
  PROVE  a \in Op /\ a < v /\ m[a] = Known(m[a].base, m[a].path, m[a].term)
BY AllAreKnown, ChangedOperands DEF Meant

\* A cast is where its operand is.
LEMMA PlaceOfCast ==
  ASSUME NEW m, NEW s, NEW f, Meant(m, s, f), NEW v \in Op, f[v].kind = "cast", IsMutable(f, v),
         NEW a, a = f[v].args[1]
  PROVE  m[v].base = m[a].base /\ m[v].path = m[a].path
BY AllAreKnown, ChangedIs, CastIs, KnownIs DEF IsViewLikeOp

\* A view adds to the path.
LEMMA PlaceOfView ==
  ASSUME NEW m, NEW s, NEW f, Meant(m, s, f), NEW v \in Op, f[v].kind = "view", IsMutable(f, v),
         NEW a, a = f[v].args[1], NEW t, t = ViewTerm(f, m, v)
  PROVE  m[v].base = m[a].base /\ m[v].path = Append(m[a].path, t)
<1>1. m[v] = Denote(s, f, m, v)
  BY AllAreKnown
<1>2. PICK b, q, u : b = m[a].base /\ q = m[a].path /\ u = m[a].term
  OBVIOUS
<1>3. m[f[v].args[1]] = Known(b, q, u)
  BY <1>2, ChangedIs DEF IsViewLikeOp
<1>4. PICK y : y = Append(q, t)
  OBVIOUS
<1>5. m[v] = Known(b, y, u)
  BY <1>1, <1>3, <1>4, ViewIs
<1>6. m[v].base = b /\ m[v].path = y
  BY <1>5, KnownIs
<1> QED  BY <1>2, <1>4, <1>6, Zenon

\* An inplace op or an unknown one writes to where its first operand is.
LEMMA PlaceOfWrite ==
  ASSUME NEW m, NEW s, NEW f, Meant(m, s, f), NEW v \in Op, f[v].kind \in {"inplace", "other"},
         NEW a, a = f[v].args[1]
  PROVE  m[v].base = m[a].base /\ m[v].path = m[a].path
<1>1. m[v] = Denote(s, f, m, v)
  BY AllAreKnown
<1>2. PICK b, q, u : b = m[a].base /\ q = m[a].path /\ u = m[a].term
  OBVIOUS
<1>3. m[f[v].args[1]] = Known(b, q, u)
  BY <1>2, ChangedIs
<1>4. CASE f[v].kind = "inplace"
  <2>1. PICK x : x = <<v>> \o FlattenSeq(OperandContents(f, m, v))
    OBVIOUS
  <2>2. m[v] = Known(b, q, x)
    BY <1>1, <1>3, <1>4, <2>1, InplaceIs
  <2> QED  BY <1>2, <2>2, KnownIs
<1>5. CASE f[v].kind = "other"
  <2>1. PICK x : x = <<-2, v>> \o OperandContents(f, m, v)[1]
    OBVIOUS
  <2>2. m[v] = Known(b, q, x)
    BY <1>1, <1>3, <1>5, <2>1, OtherIs
  <2> QED  BY <1>2, <2>2, KnownIs
<1> QED  BY <1>4, <1>5

\* An overwrite writes to where its target is.
LEMMA PlaceOfOverwrite ==
  ASSUME NEW m, NEW s, NEW f, Meant(m, s, f), NEW v \in Op, f[v].kind = "overwrite",
         NEW a, a = f[v].args[2]
  PROVE  m[v].base = m[a].base /\ m[v].path = m[a].path
<1>1. m[v] = Denote(s, f, m, v) /\ AllKnown(m, v) /\ IsFunction(f)
  BY AllAreKnown DEF Meant
<1>2. PICK b, q, u : b = m[a].base /\ q = m[a].path /\ u = m[a].term
  OBVIOUS
<1>3. a \in Op
  BY <1>1, ChangedOperands
<1>4. m[f[v].args[2]] = Known(b, q, u)
  BY <1>2, <1>3, AllAreKnown
<1>5. PICK x : x = OperandContents(f, m, v)[1]
  OBVIOUS
<1>6. m[v] = Known(b, q, x)
  BY <1>1, <1>4, <1>5, OverwriteIs
<1> QED  BY <1>2, <1>6, KnownIs

\* Every mutable tensor has a base that was allocated.
LEMMA Placed ==
  ASSUME NEW m, NEW s, NEW f, Meant(m, s, f)
  PROVE  \A v \in Op : IsPlaced(m, f, v)
<1>0. NumOps \in Nat /\ Op = 1 .. NumOps
  BY FunctionsAssumption DEF Op
<1>1. IsFunction(f)
  BY DEF Meant
<1> DEFINE S == {v \in Op : IsPlaced(m, f, v)}
<1>2. ASSUME NEW v \in Op, \A u \in Op : u < v => u \in S PROVE v \in S
  <2>1. OpOK(f, v) /\ f[v].kind \in Kind /\ AllKnown(m, v)
    BY <1>1, FunctionIff, AllAreKnown DEF IsFunction, OpIR
  <2>2. CASE f[v].type # "mutable"
    BY <2>2, PlaceOfNothing DEF IsPlaced
  <2>3. CASE f[v].type = "mutable" /\ f[v].kind \in {"to_tensor", "pure"}
    BY <2>3, <1>0, PlaceOfAllocation DEF IsMutable, IsPlaced
  <2>4. CASE f[v].type = "mutable" /\ f[v].kind \in {"view", "cast", "inplace"}
    <3>1. PICK a : a = f[v].args[1]
      OBVIOUS
    <3>2. a \in Op /\ a < v
      BY <1>1, <2>1, <2>4, <3>1, ChangedOperands DEF IsViewLikeOp, IsMutable
    <3>3. f[a].type = "mutable"
      BY <2>1, <2>4, <3>1 DEF OpOK, IsMutable
    <3>4. m[v].base = m[a].base
      BY <2>4, <3>1, PlaceOfView, PlaceOfCast, PlaceOfWrite DEF IsMutable
    <3>5. m[a].base \in Op /\ m[a].base <= a /\ f[m[a].base].kind \in {"to_tensor", "pure"} /\ IsMutable(f, m[a].base)
      BY <1>2, <3>2, <3>3 DEF IsPlaced
    <3>6. m[v].base <= v
      BY <1>0, <3>2, <3>4, <3>5
    <3> QED  BY <2>4, <3>4, <3>5, <3>6 DEF IsPlaced
  <2>5. f[v].type = "mutable" => f[v].kind \in {"to_tensor", "pure", "view", "cast", "inplace"}
    BY <2>1 DEF OpOK, Kind
  <2> QED  BY <2>2, <2>3, <2>4, <2>5
<1>3. Op \subseteq S
  <2> HIDE DEF S
  <2> QED  BY <1>2, OpInduction
<1> QED  BY <1>3

\* A path is a sequence of views.
LEMMA PathsAre ==
  ASSUME NEW m, NEW s, NEW f, Meant(m, s, f), NEW V, V = {ViewTerm(f, m, i) : i \in Op}
  PROVE  \A v \in Op : m[v].path \in Seq(V)
<1>1. IsFunction(f)
  BY DEF Meant
<1> DEFINE S == {v \in Op : m[v].path \in Seq(V)}
<1>2. ASSUME NEW v \in Op, \A u \in Op : u < v => u \in S PROVE v \in S
  <2>1. OpOK(f, v) /\ f[v].kind \in Kind /\ AllKnown(m, v)
    BY <1>1, FunctionIff, AllAreKnown DEF IsFunction, OpIR
  <2>2. <<>> \in Seq(V)
    OBVIOUS
  <2>3. CASE f[v].type \in {"value", "list"} \/ f[v].kind \in {"none", "return"}
    BY <2>2, <2>3, PlaceOfNothing
  <2>4. CASE f[v].type = "mutable" /\ f[v].kind \in {"to_tensor", "pure"}
    <3>1. m[v].path = <<>>
      BY <2>4, PlaceOfAllocation DEF IsMutable
    <3> QED  BY <2>2, <3>1
  <2>5. CASE f[v].kind = "other" \/ (f[v].type = "mutable" /\ f[v].kind \in {"view", "cast", "inplace"})
    <3>1. PICK a : a = f[v].args[1]
      OBVIOUS
    <3>2. a \in Op /\ a < v
      BY <1>1, <2>1, <2>5, <3>1, ChangedOperands DEF IsViewLikeOp, IsMutable
    <3>4. PICK q : q = m[a].path
      OBVIOUS
    <3>5. q \in Seq(V)
      BY <1>2, <3>2, <3>4
    <3>6. PICK t \in V : t = ViewTerm(f, m, v)
      OBVIOUS
    <3>7. ASSUME f[v].kind = "view" PROVE m[v].path = Append(q, t)
      <4>1. IsMutable(f, v)
        BY <2>5, <3>7 DEF IsMutable
      <4>2. m[v].path = Append(m[a].path, t)
        BY <3>1, <3>6, <3>7, <4>1, PlaceOfView
      <4> QED  BY <3>4, <4>2
    <3>8. f[v].kind \in {"cast", "inplace", "other"} => m[v].path = q
      BY <2>5, <3>1, <3>4, PlaceOfCast, PlaceOfWrite DEF IsMutable
    <3>9. Append(q, t) \in Seq(V)
      BY <3>5, <3>6
    <3> QED  BY <2>5, <3>5, <3>7, <3>8, <3>9
  <2>6. CASE f[v].kind = "overwrite"
    <3>1. f[v].args[2] \in Op /\ f[v].args[2] < v
      BY <1>1, <2>1, <2>6, ChangedOperands
    <3>2. m[v].path = m[f[v].args[2]].path
      BY <2>6, PlaceOfOverwrite
    <3> QED  BY <1>2, <3>1, <3>2
  <2>7. \/ f[v].type \in {"value", "list"} \/ f[v].kind \in {"none", "return", "overwrite", "other"}
        \/ f[v].type = "mutable" /\ f[v].kind \in {"to_tensor", "pure", "view", "cast", "inplace"}
    BY <2>1 DEF OpOK, Kind
  <2> QED  BY <2>3, <2>4, <2>5, <2>6, <2>7
<1>3. Op \subseteq S
  <2> HIDE DEF S
  <2> QED  BY <1>2, OpInduction
<1> QED  BY <1>3

(***************************************************************************)
(* What is common to all rewrites: h does what f does, except for the ops  *)
(* in E, of which nothing is claimed, and for the mutable tensors in A,    *)
(* which are values now: the contents the tensors have when they are used. *)
(***************************************************************************)
Carried(f, h, A, E) ==
  /\ \A o \in Op \ E : /\ h[o].kind = f[o].kind /\ Len(h[o].args) = Len(f[o].args)
                       /\ IsMutable(h, o) <=> IsMutable(f, o) /\ o \notin A
  /\ \A o \in E : /\ f[o].kind \notin {"append", "inplace", "other"}
                  /\ h[o].kind \notin {"append", "overwrite", "inplace", "other"}
  /\ \A o \in Op \ E : \A k \in 1 .. Len(f[o].args) : f[o].args[k] \in A =>
       f[o].kind \in {"view", "cast", "return"} /\ (IsMutable(f, o) => o \in A)
  /\ \A o \in A : o \in Op /\ IsMutable(f, o) /\ (o \notin E => IsViewLikeOp(f, o))

\* The other mutable tensors share nothing with those.
Apart(f, m, A, E) ==
  \A v \in Op \ (A \cup E) : IsMutable(f, v) =>
    /\ m[v].base \notin A \cup E
    /\ \A w \in E : f[w].kind = "overwrite" => m[w].base # m[v].base

\* y stands for the operand v of op i.
Agrees(f, m, h, p, A, E, i, v, y) ==
  IF v \in A THEN p[y].base = 0 /\ p[y].term = Contents(f, m, v, i) /\ h[y].kind # "list"
  ELSE /\ p[y] = m[v] /\ (f[v].kind = "list" <=> h[y].kind = "list")
       /\ f[v].type # "value" => y = v /\ v \notin E

\* The operands of o agree.
OperandsAgree(f, m, h, p, A, E, o) ==
  \A k \in 1 .. Len(f[o].args) : Agrees(f, m, h, p, A, E, o, f[o].args[k], h[o].args[k])

\* o means the same in h, or is a value with the contents it had right after it was made.
Simulated(f, m, h, p, A, E, o) ==
  /\ o \notin A \cup E => p[o] = m[o]
  /\ o \in A \ E => p[o].base = 0 /\ p[o].term = Contents(f, m, o, o + 1)

\* So do all ops before i.
SimulatedBefore(f, m, h, p, A, E, i) ==
  \A o \in Op : o < i => /\ Simulated(f, m, h, p, A, E, o)
                         /\ o \notin E => OperandsAgree(f, m, h, p, A, E, o)

\* What is written to another tensor's base is the same.
LEMMA ReadsCarried ==
  ASSUME NEW s, NEW f, NEW m, Meant(m, s, f), NEW h, NEW p, Meant(p, s, h), NEW A, NEW E,
         Carried(f, h, A, E), Apart(f, m, A, E), NEW i \in Op, SimulatedBefore(f, m, h, p, A, E, i),
         NEW v \in Op, v < i, v \notin A \cup E, IsMutable(f, v), NEW b, b = m[v].base
  PROVE  SameReads(f, m, h, p, b, i)
<1>0. NumOps \in Nat /\ Op = 1 .. NumOps
  BY FunctionsAssumption DEF Op
<1>1. b \in Op /\ b <= v /\ b \notin A \cup E
  BY Placed DEF IsPlaced, IsMutable, Apart
<1>2. b < i
  BY <1>0, <1>1
<1>3. p[b].term = m[b].term
  BY <1>1, <1>2 DEF SimulatedBefore, Simulated
<1>4. ASSUME NEW w \in Op, w < i
      PROVE  /\ w \in Writes(f) /\ m[w].base = b <=> w \in Writes(h) /\ p[w].base = b
             /\ w \in Writes(f) /\ m[w].base = b => p[w] = m[w]
  <2>1. CASE w \in E
    BY <2>1 DEF Carried, Writes, Apart
  <2>2. CASE w \notin E
    BY <2>2, <1>4 DEF Carried, Writes, IsViewLikeOp, SimulatedBefore, Simulated
  <2> QED  BY <2>1, <2>2
<1> QED  BY <1>3, <1>4 DEF SameReads

\* A tensor that agrees has the same contents.
LEMMA TensorCarried ==
  ASSUME NEW s, NEW f, NEW m, Meant(m, s, f), NEW h, NEW p, Meant(p, s, h), NEW A, NEW E,
         Carried(f, h, A, E), Apart(f, m, A, E), NEW i \in Op, SimulatedBefore(f, m, h, p, A, E, i),
         NEW v \in Op, v < i, v \notin A, f[v].type # "none", NEW y, NEW o, Agrees(f, m, h, p, A, E, o, v, y)
  PROVE  SameTensor(f, m, h, p, i, v, y)
<1>1. p[y] = m[v] /\ (f[v].type # "value" => v \notin E)
  BY DEF Agrees
<1>2. f[v].type \in {"value", "mutable", "list"}
  BY DEF Meant, IsFunction, OpIR
<1>3. CASE f[v].type \in {"value", "list"}
  BY <1>3, <1>1, PlaceOfNothing DEF SameTensor
<1>4. CASE f[v].type = "mutable"
  BY <1>1, <1>4, ReadsCarried DEF IsMutable, SameTensor
<1> QED  BY <1>2, <1>3, <1>4

\* The same ops append the same to the same lists.
LEMMA ListCarried ==
  ASSUME NEW s, NEW f, NEW m, Meant(m, s, f), NEW h, NEW p, Meant(p, s, h), NEW A, NEW E,
         Carried(f, h, A, E), Apart(f, m, A, E), NEW i \in Op, SimulatedBefore(f, m, h, p, A, E, i),
         NEW v \in Op, v < i, v \notin A \cup E, f[v].kind = "list"
  PROVE  /\ SameLists(f, h, v, i)
         /\ \A x, z : AreListed(f, h, i, v, x, z) => SameTensor(f, m, h, p, i, x, z)
<1>0. NumOps \in Nat /\ Op = 1 .. NumOps
  BY FunctionsAssumption DEF Op
<1>1. f \in [Op -> OpIR] /\ \A o \in Op : OpOK(f, o)
  BY FunctionIff DEF Meant, IsFunction
<1>2. f[v].type = "list" /\ h[v].kind = "list"
  BY <1>1 DEF OpOK, Carried
<1>3. ASSUME NEW o \in Op, o < i PROVE IsAppend(f, v, o) <=> IsAppend(h, v, o)
  <2>1. CASE o \in E
    BY <2>1 DEF Carried, IsAppend
  <2>2. CASE o \notin E
    <3>1. f[o].kind = h[o].kind
      BY <2>2 DEF Carried
    <3>2. ASSUME f[o].kind = "append" PROVE f[o].args[1] = v <=> h[o].args[1] = v
      <4>1. 1 \in 1 .. Len(f[o].args)
        BY <1>1, <3>2 DEF OpOK
      <4>2. PICK u : u = f[o].args[1]
        OBVIOUS
      <4>3. PICK y : y = h[o].args[1]
        OBVIOUS
      <4>4. Agrees(f, m, h, p, A, E, o, u, y)
        BY <1>3, <2>2, <4>1, <4>2, <4>3 DEF SimulatedBefore, OperandsAgree
      <4>5. u = v => y = v
        BY <1>2, <4>4 DEF Agrees
      <4>6. ASSUME y = v PROVE u = v
        BY <1>2, <4>4, <4>6, <1>1, <4>1, <4>2, OperandsAre DEF Agrees, OpOK
      <4> QED  BY <4>2, <4>3, <4>5, <4>6
    <3> QED  BY <3>1, <3>2 DEF IsAppend
  <2> QED  BY <2>1, <2>2
<1>4. Len(h[v].args) = Len(f[v].args)
  BY DEF Carried
<1>5. ASSUME NEW x, NEW z, AreListed(f, h, i, v, x, z) PROVE SameTensor(f, m, h, p, i, x, z)
  <2>1. PICK o \in Op : /\ o < i /\ (o = v \/ IsAppend(f, v, o))
                        /\ \E l \in 1 .. Len(f[o].args) : x = f[o].args[l] /\ z = h[o].args[l]
    BY <1>5 DEF AreListed
  <2>2. PICK l \in 1 .. Len(f[o].args) : x = f[o].args[l] /\ z = h[o].args[l]
    BY <2>1
  <2>3. f[o].kind \in {"list", "append"}
    BY <2>1 DEF IsAppend
  <2>4. o \notin E
    BY <2>1 DEF Carried, IsAppend
  <2>5. x \notin A
    BY <2>2, <2>3, <2>4 DEF Carried
  <2>6. Agrees(f, m, h, p, A, E, o, x, z)
    BY <2>1, <2>2, <2>4 DEF SimulatedBefore, OperandsAgree
  <2>7. x \in Op /\ x < o /\ f[x].type # "none"
    BY <1>1, <2>2, OperandsAre DEF OpOK
  <2>8. x < i
    BY <1>0, <2>1, <2>7
  <2> QED  BY <2>5, <2>6, <2>7, <2>8, TensorCarried
<1> QED  BY <1>3, <1>4, <1>5 DEF SameLists

\* An op finds the same contents.
LEMMA ContentsCarried ==
  ASSUME NEW s, NEW f, NEW m, Meant(m, s, f), NEW h, NEW p, Meant(p, s, h), NEW A, NEW E,
         Carried(f, h, A, E), Apart(f, m, A, E), NEW i \in Op, SimulatedBefore(f, m, h, p, A, E, i),
         NEW v \in Op, v < i, f[v].type # "none", NEW y, Agrees(f, m, h, p, A, E, i, v, y)
  PROVE  Contents(h, p, y, i) = Contents(f, m, v, i)
<1>1. IsFunction(f) /\ IsFunction(h)
  BY DEF Meant
<1>2. CASE v \in A
  <2>1. p[y].base = 0 /\ p[y].term = Contents(f, m, v, i) /\ h[y].kind # "list"
    BY <1>2 DEF Agrees
  <2>2. Contents(h, p, y, i) = TensorContents(h, p, y, i)
    BY <2>1, ContentsOf
  <2> QED  BY <2>1, <2>2 DEF TensorContents
<1>3. CASE v \notin A
  <2>1. f[v].kind = "list" <=> h[y].kind = "list"
    BY <1>3 DEF Agrees
  <2>2. SameTensor(f, m, h, p, i, v, y)
    BY <1>3, TensorCarried
  <2>3. ASSUME f[v].kind = "list"
        PROVE  /\ y = v /\ SameLists(f, h, v, i)
               /\ \A x, z : AreListed(f, h, i, v, x, z) => SameTensor(f, m, h, p, i, x, z)
    BY <1>1, <2>3, <1>3, FunctionIff, ListCarried DEF OpOK, IsFunction, Agrees
  <2> QED  BY <1>1, <2>1, <2>2, <2>3, ContentsAgree
<1> QED  BY <1>2, <1>3

\* And so have all operands of an op.
LEMMA OperandsCarried ==
  ASSUME NEW s, NEW f, NEW m, Meant(m, s, f), NEW h, NEW p, Meant(p, s, h), NEW A, NEW E,
         Carried(f, h, A, E), Apart(f, m, A, E), NEW i \in Op, SimulatedBefore(f, m, h, p, A, E, i),
         i \notin E, OperandsAgree(f, m, h, p, A, E, i)
  PROVE  \A k \in 1 .. Len(f[i].args) : Contents(h, p, h[i].args[k], i) = Contents(f, m, f[i].args[k], i)
<1> SUFFICES ASSUME NEW k \in 1 .. Len(f[i].args)
             PROVE  Contents(h, p, h[i].args[k], i) = Contents(f, m, f[i].args[k], i)
  OBVIOUS
<1>1. f \in [Op -> OpIR] /\ OpOK(f, i)
  BY FunctionIff DEF Meant, IsFunction
<1>2. PICK v : v = f[i].args[k]
  OBVIOUS
<1>3. PICK y : y = h[i].args[k]
  OBVIOUS
<1>4. v \in Op /\ v < i /\ f[v].type # "none"
  BY <1>1, <1>2, OperandsAre DEF OpOK
<1>5. Agrees(f, m, h, p, A, E, i, v, y)
  BY <1>2, <1>3 DEF OperandsAgree
<1> QED  BY <1>2, <1>3, <1>4, <1>5, ContentsCarried

\* An op of neither E nor A means what it meant.
LEMMA StepCarried ==
  ASSUME NEW s, NEW f, NEW m, Meant(m, s, f), NEW h, NEW p, Meant(p, s, h), NEW A, NEW E,
         Carried(f, h, A, E), Apart(f, m, A, E), NEW i \in Op, SimulatedBefore(f, m, h, p, A, E, i),
         i \notin E, i \notin A, OperandsAgree(f, m, h, p, A, E, i)
  PROVE  p[i] = m[i]
<1>1. f \in [Op -> OpIR] /\ OpOK(f, i) /\ IsFunction(f) /\ IsFunction(h)
  BY FunctionIff DEF Meant, IsFunction
<1>2. \A k \in 1 .. Len(f[i].args) : Contents(h, p, h[i].args[k], i) = Contents(f, m, f[i].args[k], i)
  BY OperandsCarried
<1>3. h[i].kind = f[i].kind /\ Len(h[i].args) = Len(f[i].args) /\ (IsMutable(h, i) <=> IsMutable(f, i))
  BY DEF Carried
<1>4. ASSUME NEW k \in 1 .. Len(f[i].args),
             f[i].kind \in {"inplace", "other", "overwrite"} \/ (IsViewLikeOp(f, i) /\ IsMutable(f, i))
      PROVE  p[h[i].args[k]] = m[f[i].args[k]]
  BY <1>4 DEF Carried, OperandsAgree, Agrees
<1>5. f[i].kind \in {"inplace", "other"} \/ (IsViewLikeOp(f, i) /\ IsMutable(f, i)) => Len(f[i].args) >= 1
  BY <1>1, OperandsAre DEF OpOK, IsViewLikeOp
<1>6. f[i].kind = "overwrite" => Len(f[i].args) = 2
  BY <1>1 DEF OpOK
<1>7. Len(f[i].args) \in Nat
  BY <1>1, OperandsAre
<1>8. f[i].kind \in {"inplace", "other"} \/ (IsViewLikeOp(f, i) /\ IsMutable(f, i)) =>
           p[h[i].args[1]] = m[f[i].args[1]]
  BY <1>4, <1>5, <1>7
<1>9. f[i].kind = "overwrite" => p[h[i].args[2]] = m[f[i].args[2]]
  BY <1>4, <1>6
<1>10. AllKnown(m, i) /\ m[i] = Denote(s, f, m, i) /\ p[i] = Denote(s, h, p, i)
  BY AllAreKnown
<1>11. Denote(s, h, p, i) = Denote(s, f, m, i)
  BY <1>1, <1>2, <1>3, <1>8, <1>9, <1>10, StepAgrees
<1> QED  BY <1>10, <1>11

\* What a view of a mutable tensor reads.
ViewReads(f, m, i) ==
  Contents(f, m, i, i + 1) =
    IF f[i].kind = "cast" THEN Contents(f, m, f[i].args[1], i)
    ELSE ViewTerm(f, m, i) \o Contents(f, m, f[i].args[1], i)

\* A view that is a value now has the contents it had when it was taken.
LEMMA ViewCarried ==
  ASSUME NEW s, NEW f, NEW m, Meant(m, s, f), NEW h, NEW p, Meant(p, s, h), NEW A, NEW E,
         Carried(f, h, A, E), Apart(f, m, A, E), NEW i \in Op, SimulatedBefore(f, m, h, p, A, E, i),
         i \notin E, i \in A, OperandsAgree(f, m, h, p, A, E, i), ViewReads(f, m, i)
  PROVE  p[i].base = 0 /\ p[i].term = Contents(f, m, i, i + 1)
<1>1. f \in [Op -> OpIR] /\ OpOK(f, i) /\ h \in [Op -> OpIR] /\ IsFunction(f) /\ IsFunction(h)
  BY FunctionIff DEF Meant, IsFunction
<1>2. \A k \in 1 .. Len(f[i].args) : Contents(h, p, h[i].args[k], i) = Contents(f, m, f[i].args[k], i)
  BY OperandsCarried
<1>3. h[i].kind = f[i].kind /\ Len(h[i].args) = Len(f[i].args) /\ ~ IsMutable(h, i) /\ IsViewLikeOp(f, i)
  BY DEF Carried
<1>4. IsViewLikeOp(h, i)
  BY <1>3 DEF IsViewLikeOp
<1>5. PICK c : c = OperandContents(f, m, i)
  OBVIOUS
<1>6. OperandContents(h, p, i) = c
  <2>1. DOMAIN h[i].args = 1 .. Len(f[i].args) /\ DOMAIN f[i].args = 1 .. Len(f[i].args)
    BY <1>1, <1>3, OperandsAre
  <2> QED  BY <1>2, <1>5, <2>1 DEF OperandContents
<1>7. PICK t : t = ViewTerm(f, m, i)
  OBVIOUS
<1>8. ViewTerm(h, p, i) = t
  BY <1>5, <1>6, <1>7 DEF ViewTerm
<1>9. p[i] = Denote(s, h, p, i)
  BY AllAreKnown
<1>10. p[i] = Known(0, <<>>, IF f[i].kind = "cast" THEN c[1] ELSE t \o c[1])
  BY <1>3, <1>4, <1>6, <1>8, <1>9, ValueViewIs
<1>11. c[1] = Contents(f, m, f[i].args[1], i)
  BY <1>1, <1>3, <1>5, OperandsAre DEF OpOK, IsViewLikeOp, OperandContents
<1>12. p[i].base = 0 /\ p[i].term = IF f[i].kind = "cast" THEN c[1] ELSE t \o c[1]
  BY <1>10, KnownIs
<1> QED  BY <1>7, <1>11, <1>12 DEF ViewReads

\* All ops are simulated when the operands agree wherever what was before them is.
LEMMA AllSimulated ==
  ASSUME NEW s, NEW f, NEW m, Meant(m, s, f), NEW h, NEW p, Meant(p, s, h), NEW A, NEW E,
         Carried(f, h, A, E), Apart(f, m, A, E),
         \A i \in A \ E : ViewReads(f, m, i),
         \A i \in Op \ E : SimulatedBefore(f, m, h, p, A, E, i) => OperandsAgree(f, m, h, p, A, E, i)
  PROVE  \A i \in Op : /\ Simulated(f, m, h, p, A, E, i) /\ SimulatedBefore(f, m, h, p, A, E, i)
                       /\ i \notin E => OperandsAgree(f, m, h, p, A, E, i)
<1> DEFINE S == {i \in Op : /\ Simulated(f, m, h, p, A, E, i) /\ SimulatedBefore(f, m, h, p, A, E, i)
                            /\ i \notin E => OperandsAgree(f, m, h, p, A, E, i)}
<1>1. ASSUME NEW i \in Op, \A u \in Op : u < i => u \in S PROVE i \in S
  <2>1. SimulatedBefore(f, m, h, p, A, E, i)
    BY <1>1 DEF SimulatedBefore
  <2>2. i \notin E => OperandsAgree(f, m, h, p, A, E, i)
    BY <2>1
  <2>3. ASSUME i \notin A \cup E PROVE p[i] = m[i]
    BY <2>1, <2>2, <2>3, StepCarried
  <2>4. ASSUME i \in A \ E PROVE p[i].base = 0 /\ p[i].term = Contents(f, m, i, i + 1)
    BY <2>4, <2>2, <2>1, ViewCarried
  <2> QED  BY <2>1, <2>2, <2>3, <2>4 DEF Simulated
<1>2. Op \subseteq S
  <2> HIDE DEF S
  <2> QED  BY <1>1, OpInduction
<1> QED  BY <1>2

\* What is left of a path q after a prefix of it.
IsRest(z, r, q) == z = SubSeq(q, Len(r) + 1, Len(q))

\* A prefix of a path is one of a longer path.
LEMMA PrefixExtended ==
  ASSUME NEW S, NEW r \in Seq(S), NEW q \in Seq(S), IsPrefix(r, q), NEW t \in S, NEW e, e = Append(q, t)
  PROVE  IsPrefix(r, e) /\ \E z \in Seq(S) : IsRest(z, r, q) /\ IsRest(Append(z, t), r, e)
<1>1. Len(r) \in Nat /\ Len(q) \in Nat /\ Len(r) <= Len(q) /\ SubSeq(r, 1, Len(r)) = SubSeq(q, 1, Len(r))
  BY DEF IsPrefix
<1>2. PICK y : y = Append(q, t)
  OBVIOUS
<1>3. y \in Seq(S) /\ Len(y) = Len(q) + 1 /\ y[Len(q) + 1] = t /\ \A k \in 1 .. Len(q) : y[k] = q[k]
  BY <1>2
<1>4. SubSeq(y, 1, Len(r)) = SubSeq(q, 1, Len(r))
  BY <1>1, <1>3
<1>5. IsPrefix(r, y)
  BY <1>1, <1>3, <1>4 DEF IsPrefix
<1>6. PICK z : z = SubSeq(q, Len(r) + 1, Len(q))
  OBVIOUS
<1>7. z \in Seq(S) /\ Len(z) = Len(q) - Len(r) /\ \A k \in 1 .. Len(z) : z[k] = q[Len(r) + k]
  BY <1>1, <1>6
<1>8. PICK x : x = SubSeq(y, Len(r) + 1, Len(q) + 1)
  OBVIOUS
<1>9. x \in Seq(S) /\ Len(x) = Len(q) + 1 - Len(r) /\ \A k \in 1 .. Len(x) : x[k] = y[Len(r) + k]
  BY <1>1, <1>3, <1>8
<1>10. PICK u : u = Append(z, t)
  OBVIOUS
<1>11. u \in Seq(S) /\ Len(u) = Len(z) + 1 /\ u[Len(z) + 1] = t /\ \A k \in 1 .. Len(z) : u[k] = z[k]
  BY <1>7, <1>10
<1>12. PICK n, l : n = Len(r) /\ l = Len(q)
  OBVIOUS
<1>13. /\ n \in Nat /\ l \in Nat /\ n <= l /\ Len(z) = l - n /\ Len(x) = l + 1 - n /\ Len(u) = l + 1 - n
       /\ \A k \in 1 .. l : y[k] = q[k]
       /\ \A k \in 1 .. l - n : z[k] = q[n + k] /\ u[k] = z[k]
       /\ \A k \in 1 .. l + 1 - n : x[k] = y[n + k]
       /\ y[l + 1] = t /\ u[l - n + 1] = t
  BY <1>1, <1>3, <1>7, <1>9, <1>11, <1>12
<1>14. \A k \in 1 .. l + 1 - n : x[k] = u[k]
  <2> SUFFICES ASSUME NEW k \in 1 .. l + 1 - n PROVE x[k] = u[k]
    OBVIOUS
  <2>1. CASE k = l + 1 - n
    BY <1>13, <2>1
  <2>2. CASE k # l + 1 - n
    BY <1>13, <2>2
  <2> QED  BY <2>1, <2>2
<1>15. x = u
  <2>1. x = [k \in 1 .. Len(x) |-> x[k]]
    BY <1>9
  <2>2. u = [k \in 1 .. Len(u) |-> u[k]]
    BY <1>11
  <2> QED  BY <1>13, <1>14, <2>1, <2>2
<1>16. IsRest(z, r, q) /\ IsRest(u, r, y)
  BY <1>3, <1>6, <1>8, <1>15 DEF IsRest
<1> QED  BY <1>2, <1>5, <1>7, <1>10, <1>16

\* Nothing is left of a path after the path.
LEMMA PrefixOfItself ==
  ASSUME NEW S, NEW q \in Seq(S)
  PROVE  IsPrefix(q, q) /\ IsRest(<<>>, q, q)
BY DEF IsPrefix, IsRest

\* What is read of the last write, through a view of what was written.
LEMMA LastRead ==
  ASSUME NEW f, NEW m, NEW b, NEW path, NEW i, NEW w \in WritesTo(f, m, b, i),
         \A x \in WritesTo(f, m, b, i) : x <= w, IsPrefix(m[w].path, path), NEW z, IsRest(z, m[w].path, path)
  PROVE  Read(f, m, b, path, i) = Viewed(z, m[w].term)
<1>1. PICK S : S = WritesTo(f, m, b, i)
  OBVIOUS
<1>2. S \subseteq Op /\ w \in S /\ \A x \in S : x <= w
  BY <1>1 DEF WritesTo, Writes
<1>3. (CHOOSE y \in S : \A x \in S : x <= y) = w
  BY <1>2, LastIs
<1>4. Read(f, m, b, path, i) =
        IF S = {} THEN Viewed(path, m[b].term)
        ELSE IF IsPrefix(m[CHOOSE y \in S : \A x \in S : x <= y].path, path)
             THEN Viewed(SubSeq(path, Len(m[CHOOSE y \in S : \A x \in S : x <= y].path) + 1, Len(path)),
                         m[CHOOSE y \in S : \A x \in S : x <= y].term)
             ELSE Viewed(path, <<-1, CHOOSE y \in S : \A x \in S : x <= y>>)
  BY <1>1 DEF Read, WritesTo
<1>5. S # {}
  BY <1>2
<1> QED  BY <1>3, <1>4, <1>5 DEF IsRest

\* A view finds in a mutable tensor what is in the tensor that it is a view of.
LEMMA ViewReadsIs ==
  ASSUME NEW s, NEW f, NEW m, Meant(m, s, f), NEW i \in Op, IsViewLikeOp(f, i), IsMutable(f, i),
         NEW a, a = f[i].args[1], NEW b, b = m[a].base,
         \A w \in WritesTo(f, m, b, i) : (\A x \in WritesTo(f, m, b, i) : x <= w) => IsPrefix(m[w].path, m[a].path)
  PROVE  ViewReads(f, m, i)
<1>0. NumOps \in Nat /\ Op = 1 .. NumOps
  BY FunctionsAssumption DEF Op
<1>1. IsFunction(f) /\ OpOK(f, i) /\ f \in [Op -> OpIR] /\ \A o \in Op : OpOK(f, o)
  BY FunctionIff DEF Meant, IsFunction
<1>2. a \in Op /\ a < i
  BY ChangedIs
<1>3. IsMutable(f, a)
  BY <1>1 DEF OpOK, IsViewLikeOp, IsMutable
<1>4. b \in Op
  BY <1>2, <1>3, Placed DEF IsPlaced, IsMutable
<1>5. f[a].kind # "list" /\ f[i].kind # "list"
  BY <1>1, <1>2, <1>3 DEF OpOK, IsMutable, IsViewLikeOp
<1>6. PICK V : V = {ViewTerm(f, m, o) : o \in Op}
  OBVIOUS
<1>7. PICK q : q = m[a].path
  OBVIOUS
<1>8. PICK t \in V : t = ViewTerm(f, m, i)
  BY <1>6
<1>9. q \in Seq(V) /\ \A w \in Op : m[w].path \in Seq(V)
  BY <1>2, <1>6, <1>7, PathsAre
<1>10. PICK y : y = m[i].path
  OBVIOUS
<1>11. m[i].base = b /\ (f[i].kind = "cast" => y = q) /\ (f[i].kind = "view" => y = Append(q, t))
  BY <1>7, <1>8, <1>10, PlaceOfCast, PlaceOfView DEF IsViewLikeOp
<1>12. WritesTo(f, m, b, i + 1) = WritesTo(f, m, b, i)
  BY <1>0 DEF Writes, IsViewLikeOp, WritesTo
<1>13. Contents(f, m, a, i) = Read(f, m, b, q, i)
  <2>1. b # 0
    BY <1>0, <1>4
  <2>2. Contents(f, m, a, i) = TensorContents(f, m, a, i)
    BY <1>5, ContentsOf
  <2> QED  BY <1>7, <2>1, <2>2 DEF TensorContents
<1>14. Contents(f, m, i, i + 1) = Read(f, m, b, y, i + 1)
  <2>1. b # 0
    BY <1>0, <1>4
  <2>2. Contents(f, m, i, i + 1) = TensorContents(f, m, i, i + 1)
    BY <1>5, ContentsOf
  <2> QED  BY <1>10, <1>11, <2>1, <2>2 DEF TensorContents
<1>15. CASE WritesTo(f, m, b, i) = {}
  <2>1. Read(f, m, b, q, i) = Viewed(q, m[b].term)
    BY <1>15, ReadIs
  <2>2. Read(f, m, b, y, i + 1) = Viewed(y, m[b].term)
    BY <1>12, <1>15, ReadIs
  <2>3. CASE f[i].kind = "cast"
    BY <1>7, <1>11, <1>13, <1>14, <2>1, <2>2, <2>3 DEF ViewReads
  <2>4. CASE f[i].kind = "view"
    <3>1. Viewed(y, m[b].term) = t \o Viewed(q, m[b].term)
      BY <1>9, <1>11, <2>4, ViewedIs, Zenon
    <3> QED  BY <1>8, <1>13, <1>14, <2>1, <2>2, <2>4, <3>1, Zenon DEF ViewReads
  <2> QED  BY <2>3, <2>4 DEF IsViewLikeOp
<1>16. CASE WritesTo(f, m, b, i) # {}
  <2>1. PICK w \in WritesTo(f, m, b, i) : \A x \in WritesTo(f, m, b, i) : x <= w
    BY <1>16, ReadIs
  <2>2. PICK r : r = m[w].path
    OBVIOUS
  <2>3. r \in Seq(V) /\ IsPrefix(r, q)
    BY <1>7, <1>9, <2>1, <2>2 DEF WritesTo, Writes
  <2>4. PICK z \in Seq(V) : IsRest(z, r, q) /\ IsRest(Append(z, t), r, Append(q, t))
    BY <1>9, <2>3, PrefixExtended
  <2>5. Read(f, m, b, q, i) = Viewed(z, m[w].term)
    <3>1. IsPrefix(m[w].path, q) /\ IsRest(z, m[w].path, q)
      BY <2>2, <2>3, <2>4
    <3> QED  BY <2>1, <3>1, LastRead
  <2>6. CASE f[i].kind = "cast"
    <3>1. Read(f, m, b, y, i + 1) = Viewed(z, m[w].term)
      BY <1>11, <1>12, <2>1, <2>2, <2>3, <2>4, <2>6, LastRead
    <3> QED  BY <1>13, <1>14, <2>5, <2>6, <3>1 DEF ViewReads
  <2>7. CASE f[i].kind = "view"
    <3>1. y = Append(q, t)
      BY <1>11, <2>7
    <3>2. IsPrefix(r, y)
      BY <1>9, <2>3, <3>1, PrefixExtended
    <3>3. PICK u : u = Append(z, t)
      OBVIOUS
    <3>4. IsRest(u, r, y)
      BY <2>4, <3>1, <3>3
    <3>5. Read(f, m, b, y, i + 1) = Viewed(u, m[w].term)
      BY <1>12, <2>1, <2>2, <3>2, <3>4, LastRead
    <3>6. Viewed(u, m[w].term) = t \o Viewed(z, m[w].term)
      BY <2>4, <3>3, ViewedIs
    <3> QED  BY <1>8, <1>13, <1>14, <2>5, <2>7, <3>5, <3>6, Zenon DEF ViewReads
  <2> QED  BY <2>6, <2>7 DEF IsViewLikeOp
<1> QED  BY <1>15, <1>16

(***************************************************************************)
(* What is observed.                                                       *)
(***************************************************************************)
\* What the unknown ops are given and leave.
Others(f, m) == {m[o].term : o \in {o \in Op : f[o].kind = "other"}}

\* What is observed depends on the results and on the unknown ops only.
LEMMA ObservedSame ==
  ASSUME NEW s, NEW f, NEW m, Meant(m, s, f), NEW h, NEW p, Meant(p, s, h),
         Len(h[NumOps].args) = Len(f[NumOps].args), Others(h, p) = Others(f, m),
         \A k \in 1 .. Len(f[NumOps].args) :
           Contents(h, p, h[NumOps].args[k], NumOps) = Contents(f, m, f[NumOps].args[k], NumOps)
  PROVE  Observed(s, h) = Observed(s, f)
<1>0. NumOps \in Op
  BY FunctionsAssumption DEF Op
<1>1. f \in [Op -> OpIR] /\ h \in [Op -> OpIR] /\ m = Meaning(s, f) /\ p = Meaning(s, h)
  BY DEF Meant, IsFunction
<1>2. DOMAIN f[NumOps].args = 1 .. Len(f[NumOps].args) /\ DOMAIN h[NumOps].args = 1 .. Len(f[NumOps].args)
  BY <1>0, <1>1, OperandsAre
<1>3. Observed(s, f) =
        [returned |-> [k \in DOMAIN f[NumOps].args |-> Contents(f, m, f[NumOps].args[k], NumOps)],
         others |-> Others(f, m)]
  BY <1>1 DEF Observed, Others
<1>4. Observed(s, h) =
        [returned |-> [k \in DOMAIN h[NumOps].args |-> Contents(h, p, h[NumOps].args[k], NumOps)],
         others |-> Others(h, p)]
  BY <1>1 DEF Observed, Others
<1>5. [k \in DOMAIN f[NumOps].args |-> Contents(f, m, f[NumOps].args[k], NumOps)] =
      [k \in DOMAIN h[NumOps].args |-> Contents(h, p, h[NumOps].args[k], NumOps)]
  BY <1>2
<1> QED  BY <1>3, <1>4, <1>5

\* The unknown ops are given the same.
LEMMA OthersCarried ==
  ASSUME NEW f, NEW m, NEW h, NEW p, NEW A, NEW E, Carried(f, h, A, E),
         \A i \in Op : Simulated(f, m, h, p, A, E, i)
  PROVE  Others(h, p) = Others(f, m)
BY DEF Carried, IsViewLikeOp, Simulated, Others

\* Nothing is seen of a rewrite that all operands agree across.
LEMMA ObservedCarried ==
  ASSUME NEW s, NEW f, NEW m, Meant(m, s, f), NEW h, NEW p, Meant(p, s, h), NEW A, NEW E,
         Carried(f, h, A, E), Apart(f, m, A, E), NumOps \notin E,
         \A i \in A \ E : ViewReads(f, m, i),
         \A i \in Op \ E : SimulatedBefore(f, m, h, p, A, E, i) => OperandsAgree(f, m, h, p, A, E, i)
  PROVE  Observed(s, h) = Observed(s, f)
<1>0. NumOps \in Op
  BY FunctionsAssumption DEF Op
<1>1. \A i \in Op : Simulated(f, m, h, p, A, E, i)
  BY AllSimulated
<1>2. SimulatedBefore(f, m, h, p, A, E, NumOps) /\ OperandsAgree(f, m, h, p, A, E, NumOps)
  BY <1>0, AllSimulated
<1>3. Others(h, p) = Others(f, m)
  BY <1>1, OthersCarried
<1>4. \A k \in 1 .. Len(f[NumOps].args) :
           Contents(h, p, h[NumOps].args[k], NumOps) = Contents(f, m, f[NumOps].args[k], NumOps)
  BY <1>0, <1>2, OperandsCarried
<1>5. Len(h[NumOps].args) = Len(f[NumOps].args)
  BY <1>0 DEF Carried
<1> QED  BY <1>3, <1>4, <1>5, ObservedSame

\* A mutable tensor is allocated, or made of another one with the same base.
LEMMA MutableIs ==
  ASSUME NEW s, NEW f, NEW m, Meant(m, s, f), NEW v \in Op, IsMutable(f, v)
  PROVE  \/ m[v].base = v /\ f[v].kind \in {"to_tensor", "pure"}
         \/ \E a \in Op : /\ a < v /\ a = f[v].args[1] /\ a \in Operands(f, v) /\ IsMutable(f, a)
                          /\ m[v].base = m[a].base /\ f[v].kind \in {"view", "cast", "inplace"}
<1>1. f \in [Op -> OpIR] /\ OpOK(f, v) /\ IsFunction(f)
  BY FunctionIff DEF Meant, IsFunction
<1>2. f[v].kind \in {"to_tensor", "pure", "view", "cast", "inplace"}
  BY <1>1 DEF OpIR, Kind, OpOK, IsMutable
<1>3. CASE f[v].kind \in {"to_tensor", "pure"}
  BY <1>3, PlaceOfAllocation
<1>4. CASE f[v].kind \in {"view", "cast", "inplace"}
  <2>1. PICK a : a = f[v].args[1]
    OBVIOUS
  <2>2. a \in Op /\ a < v
    BY <1>4, <2>1, ChangedIs DEF IsViewLikeOp
  <2>3. 1 \in 1 .. Len(f[v].args) /\ IsMutable(f, a)
    BY <1>1, <1>4, <2>1, OperandsAre DEF OpOK, IsMutable
  <2>4. a \in Operands(f, v)
    BY <1>1, <2>1, <2>3, OperandsAre
  <2>5. m[v].base = m[a].base
    <3>1. CASE f[v].kind = "view"
      BY <2>1, <3>1, PlaceOfView
    <3>2. CASE f[v].kind = "cast"
      BY <2>1, <3>2, PlaceOfCast
    <3>3. CASE f[v].kind = "inplace"
      BY <2>1, <3>3, PlaceOfWrite
    <3> QED  BY <1>4, <3>1, <3>2, <3>3
  <2> QED  BY <1>4, <2>1, <2>2, <2>3, <2>4, <2>5
<1> QED  BY <1>2, <1>3, <1>4

\* Only its users share the base of a tensor.
LEMMA UnusedIsNoBase ==
  ASSUME NEW s, NEW f, NEW m, Meant(m, s, f), NEW d \in Op, \A u \in Op : d \notin Operands(f, u),
         NEW v \in Op, v # d, IsMutable(f, v)
  PROVE  m[v].base # d
<1> DEFINE S == {u \in Op : u # d /\ IsMutable(f, u) => m[u].base # d}
<1>1. ASSUME NEW u \in Op, \A x \in Op : x < u => x \in S PROVE u \in S
  <2> SUFFICES ASSUME u # d, IsMutable(f, u) PROVE m[u].base # d
    OBVIOUS
  <2>1. CASE m[u].base = u
    BY <2>1
  <2>2. CASE \E a \in Op : /\ a < u /\ a \in Operands(f, u) /\ IsMutable(f, a) /\ m[u].base = m[a].base
    BY <2>2, <1>1
  <2> QED  BY <2>1, <2>2, MutableIs
<1>2. v \in S
  <2> HIDE DEF S
  <2> QED  BY <1>1, OpInduction
<1> QED  BY <1>2

\* The same is read as long as nothing is written.
LEMMA SameWritesRead ==
  ASSUME NEW f, NEW m, NEW b, NEW path, NEW i, NEW j, WritesTo(f, m, b, i) = WritesTo(f, m, b, j)
  PROVE  Read(f, m, b, path, i) = Read(f, m, b, path, j)
<1>1. CASE WritesTo(f, m, b, i) = {}
  <2>1. Read(f, m, b, path, i) = Viewed(path, m[b].term)
    BY <1>1, ReadIs
  <2>2. Read(f, m, b, path, j) = Viewed(path, m[b].term)
    BY <1>1, ReadIs
  <2> QED  BY <2>1, <2>2
<1>2. CASE WritesTo(f, m, b, i) # {}
  <2>1. PICK w \in WritesTo(f, m, b, i) : \A x \in WritesTo(f, m, b, i) : x <= w
    BY <1>2, ReadIs
  <2>2. PICK y : y = IF IsPrefix(m[w].path, path)
                     THEN Viewed(SubSeq(path, Len(m[w].path) + 1, Len(path)), m[w].term)
                     ELSE Viewed(path, <<-1, w>>)
    OBVIOUS
  <2>3. Read(f, m, b, path, i) = y
    BY <2>1, <2>2, ReadIs
  <2>4. w \in WritesTo(f, m, b, j) /\ \A x \in WritesTo(f, m, b, j) : x <= w
    BY <2>1
  <2>5. Read(f, m, b, path, j) = y
    BY <2>2, <2>4, ReadIs
  <2> QED  BY <2>3, <2>5
<1> QED  BY <1>1, <1>2

\* A tensor has the same contents from one op to another when no op in between writes.
LEMMA ContentsBetween ==
  ASSUME NEW f, NEW m, NEW v, f[v].kind # "list", NEW i \in Op, NEW j \in Op, i <= j,
         \A o \in Op : i <= o /\ o < j => o \notin Writes(f)
  PROVE  Contents(f, m, v, i) = Contents(f, m, v, j)
<1>0. Op \subseteq Nat
  BY DEF Op
<1>1. Contents(f, m, v, i) = TensorContents(f, m, v, i) /\ Contents(f, m, v, j) = TensorContents(f, m, v, j)
  BY ContentsOf
<1>2. PICK b : b = m[v].base
  OBVIOUS
<1>3. WritesTo(f, m, b, i) = WritesTo(f, m, b, j)
  <2>1. ASSUME NEW w \in Writes(f) PROVE w < i <=> w < j
    <3>1. w \in Op
      BY DEF Writes
    <3> QED  BY <1>0, <3>1
  <2> QED  BY <2>1 DEF WritesTo
<1>4. Read(f, m, b, m[v].path, i) = Read(f, m, b, m[v].path, j)
  BY <1>3, SameWritesRead
<1> QED  BY <1>1, <1>2, <1>4 DEF TensorContents

\* What a copy or a snapshot contains, when nothing is written to it.
LEMMA CopiedContents ==
  ASSUME NEW s, NEW f, NEW m, Meant(m, s, f), NEW c \in Op, f[c].kind \in {"to_tensor", "to_vtensor"},
         NEW i, f[c].kind = "to_tensor" => WritesTo(f, m, c, i) = {}, NEW v, v = f[c].args[1]
  PROVE  Contents(f, m, c, i) = Contents(f, m, v, c)
<1>1. f \in [Op -> OpIR] /\ OpOK(f, c) /\ c # 0
  BY FunctionIff DEF Meant, IsFunction, Op
<1>2. PICK q : q = OperandContents(f, m, c)
  OBVIOUS
<1>3. q[1] = Contents(f, m, v, c)
  BY <1>1, <1>2, OperandsAre DEF OpOK, OperandContents
<1>4. m[c] = Denote(s, f, m, c)
  BY AllAreKnown
<1>5. Contents(f, m, c, i) = TensorContents(f, m, c, i)
  BY ContentsOf
<1>6. CASE f[c].kind = "to_vtensor"
  BY <1>2, <1>4, <1>6, <1>3, <1>5, SnapshotIs, KnownIs DEF TensorContents
<1>7. CASE f[c].kind = "to_tensor"
  BY <1>2, <1>4, <1>7, <1>1, <1>3, <1>5, CopyIs, KnownIs, ReadIs, ViewedIs DEF TensorContents
<1> QED  BY <1>6, <1>7

\* Views of mutable tensors read no second tensor: what the second pattern takes for granted.
MutableViewsReadOne(f) ==
  \A o \in Op : f[o].kind = "view" /\ IsMutable(f, o) => Len(f[o].args) = 1

\* o of h used v in f, or is a snapshot made of it for the return.
IsKeptUse(h, f, o, v) ==
  \/ h[o].kind = f[o].kind /\ Uses(f, o, v)
  \/ h[o].kind = "to_vtensor" /\ Uses(f, NumOps, v)

\* The mutable casts of h are such casts of f and used as they were in f.
CastsStay(h, f) ==
  \A v \in Op : h[v].kind = "cast" /\ IsMutable(h, v) =>
    /\ f[v].kind = "cast" /\ IsMutable(f, v)
    /\ \A o \in Op : Uses(h, o, v) => IsKeptUse(h, f, o, v)

\* h keeps what the second pattern and torch-refine-public-return rely on, and nothing is
\* seen of making h of f.
Preserves(h, f) ==
  /\ CastsStay(h, f)
  /\ MutableViewsReadOne(f) => MutableViewsReadOne(h)
  /\ \A s : Observed(s, h) = Observed(s, f)

LEMMA PreservesTransitive ==
  ASSUME NEW f, NEW g, NEW h, Preserves(g, f), Preserves(h, g)
  PROVE  Preserves(h, f)
<1>1. ASSUME NEW s PROVE Observed(s, h) = Observed(s, f)
  BY DEF Preserves
<1>2. MutableViewsReadOne(f) => MutableViewsReadOne(h)
  BY DEF Preserves
<1>3. ASSUME NEW v \in Op, h[v].kind = "cast", IsMutable(h, v)
      PROVE  /\ f[v].kind = "cast" /\ IsMutable(f, v)
             /\ \A o \in Op : Uses(h, o, v) => IsKeptUse(h, f, o, v)
  <2>1. /\ g[v].kind = "cast" /\ IsMutable(g, v)
        /\ \A o \in Op : Uses(h, o, v) => IsKeptUse(h, g, o, v)
    BY <1>3 DEF Preserves, CastsStay
  <2>2. /\ f[v].kind = "cast" /\ IsMutable(f, v)
        /\ \A o \in Op : Uses(g, o, v) => IsKeptUse(g, f, o, v)
    BY <2>1 DEF Preserves, CastsStay
  <2>3. NumOps \in Op
    BY FunctionsAssumption DEF Op
  <2>4. Uses(g, NumOps, v) => Uses(f, NumOps, v)
    BY <2>2, <2>3 DEF IsKeptUse
  <2>5. ASSUME NEW o \in Op, Uses(h, o, v) PROVE IsKeptUse(h, f, o, v)
    BY <2>1, <2>5, <2>2, <2>4 DEF IsKeptUse
  <2> QED  BY <2>2, <2>5
<1> QED  BY <1>1, <1>2, <1>3 DEF Preserves, CastsStay

\* Nothing is seen of doing nothing.
LEMMA PreservesItself ==
  ASSUME NEW f
  PROVE  Preserves(f, f)
BY DEF Preserves, CastsStay, IsKeptUse

(***************************************************************************)
(* Copying back what is returned.                                          *)
(***************************************************************************)
HasFree(f, n) == n < NumOps /\ \A o \in NumOps - n .. NumOps - 1 : f[o].kind = "none"

LEMMA FewerFree ==
  ASSUME NEW f, NEW i \in Nat, NEW j \in Nat, i <= j, HasFree(f, j)
  PROVE  HasFree(f, i)
BY FunctionsAssumption DEF HasFree

\* The type of the k-th operand of the return.
TypeAt(f, k) == f[f[NumOps].args[k]].type

IsFirstFree(f, n) == IsFree(f, n) /\ (n > 1 => ~ IsFree(f, n - 1))

LEMMA FirstFree ==
  ASSUME NEW f, NEW j \in Nat, HasFree(f, j + 1)
  PROVE  \E n \in Op : IsFirstFree(f, n)
<1>0. NumOps \in Nat /\ Op = 1 .. NumOps
  BY FunctionsAssumption DEF Op
<1> DEFINE S == {n \in Op : IsFree(f, n)}
           m == NumOps - (j + 1)
<1>1. m \in S
  BY <1>0 DEF HasFree, IsFree
<1>2. S \subseteq Nat
  BY <1>0
<1> HIDE DEF m
<1>3. PICK x \in S : \A y \in S : x <= y
  <2> HIDE DEF S
  <2> QED  BY <1>1, <1>2, LeastElement
<1>4. x > 1 => x - 1 \in Op /\ ~ (x <= x - 1)
  BY <1>0, <1>3
<1>5. x > 1 => ~ IsFree(f, x - 1)
  BY <1>3, <1>4
<1> QED  BY <1>3, <1>5 DEF IsFirstFree

LEMMA FirstFreeIs ==
  ASSUME NEW f, NEW j \in Nat, HasFree(f, j + 1), NEW n \in Op, IsFirstFree(f, n)
  PROVE  n <= NumOps - (j + 1) /\ n < NumOps /\ \A o \in n .. NumOps - 1 : f[o].kind = "none"
<1>0. NumOps \in Nat /\ Op = 1 .. NumOps
  BY FunctionsAssumption DEF Op
<1>1. IsFree(f, n)
  BY DEF IsFirstFree
<1>2. ASSUME n > NumOps - (j + 1) PROVE FALSE
  BY <1>0, <1>1, <1>2 DEF HasFree, IsFree, IsFirstFree
<1> QED  BY <1>0, <1>1, <1>2 DEF IsFree

\* op is put at free and returned in the place of the k-th operand.
IsPut(r, g, op, free, k) ==
  /\ IsFirstFree(g, free)
  /\ r = [g EXCEPT ![free] = op, ![NumOps].args[k] = free]

\* What copies or snapshots v.
IsCopyOf(op, g, v) ==
  /\ op \in OpIR /\ op.args = <<v>>
  /\ \/ op.kind = "to_tensor" /\ op.type = "mutable" /\ g[v].type = "value"
     \/ op.kind = "to_vtensor" /\ op.type = "value" /\ g[v].type = "mutable"

\* What ReturnThrough with an op of type t makes of g.
IsReturned(r, g, k, j, t) ==
  /\ IsFunction(r) /\ HasFree(r, j) /\ Len(r[NumOps].args) = Len(g[NumOps].args)
  /\ \A l \in 1 .. Len(g[NumOps].args) : TypeAt(r, l) = IF l = k THEN t ELSE TypeAt(g, l)
  /\ KeepsViews(r, g) /\ Preserves(r, g)

\* What is returned of a copy is what would have been returned.
LEMMA PutObserved ==
  ASSUME NEW g, IsFunction(g), NEW k \in 1 .. Len(g[NumOps].args), NEW j \in Nat, HasFree(g, j + 1),
         NEW op, IsCopyOf(op, g, g[NumOps].args[k]), NEW free \in Op, NEW r, IsPut(r, g, op, free, k),
         IsFunction(r), NEW s
  PROVE  Observed(s, r) = Observed(s, g)
<1>0. NumOps \in Nat \ {0} /\ Op = 1 .. NumOps /\ NumOps \in Op
  BY FunctionsAssumption DEF Op
<1>1. free < NumOps /\ \A o \in free .. NumOps - 1 : g[o].kind = "none"
  BY FirstFreeIs DEF IsPut
<1>2. g \in [Op -> OpIR] /\ \A o \in Op : OpOK(g, o)
  BY FunctionIff DEF IsFunction
<1>3. IsFunction(r)
  OBVIOUS
<1>4. PICK m, p : m = Meaning(s, g) /\ p = Meaning(s, r)
  OBVIOUS
<1>5. Meant(m, s, g) /\ Meant(p, s, r)
  BY <1>3, <1>4 DEF Meant
<1>6. PICK args : args = g[NumOps].args
  OBVIOUS
<1>7. args \in Seq(Op) /\ Len(args) \in Nat /\ k \in 1 .. Len(args)
  BY <1>0, <1>2, <1>6, OperandsAre
<1>8. /\ \A o \in Op : o # NumOps /\ o # free => r[o] = g[o]
      /\ r[free] = op /\ r[NumOps].kind = "return" /\ r[NumOps].args = [args EXCEPT ![k] = free]
  <2>1. [g EXCEPT ![free] = op][NumOps] = g[NumOps]
    BY <1>0, <1>1, <1>2
  <2>2. g[NumOps] \in OpIR /\ g[NumOps].kind = "return"
    BY <1>0, <1>2 DEF OpOK
  <2>3. PICK ret : ret = [g[NumOps] EXCEPT !.args[k] = free]
    OBVIOUS
  <2>4. ret.kind = "return" /\ ret.args = [args EXCEPT ![k] = free]
    BY <1>6, <2>2, <2>3 DEF OpIR
  <2>5. r = [[g EXCEPT ![free] = op] EXCEPT ![NumOps] = ret]
    BY <2>1, <2>3 DEF IsPut
  <2> QED  BY <1>0, <1>1, <1>2, <2>4, <2>5
<1>9. PICK E : E = {free, NumOps}
  OBVIOUS
<1>10. g[free].kind = "none" /\ op.kind \in {"to_tensor", "to_vtensor"} /\ op.args = <<args[k]>>
  BY <1>0, <1>1, <1>6 DEF IsCopyOf
<1>11. Carried(g, r, {}, E)
  BY <1>8, <1>9, <1>0, <1>2, <1>10 DEF OpOK, Carried, IsMutable
<1>12. Apart(g, m, {}, E)
  <2>1. ASSUME NEW v \in Op, IsMutable(g, v) PROVE m[v].base \notin E
    BY <1>5, <2>1, <1>0, <1>2, <1>9, <1>10, Placed DEF IsPlaced, IsMutable, OpOK
  <2>2. \A w \in E : g[w].kind # "overwrite"
    BY <1>0, <1>2, <1>9, <1>10 DEF OpOK
  <2> QED  BY <2>1, <2>2 DEF Apart
<1>13. ASSUME NEW i \in Op, NEW v \in Operands(g, i)
       PROVE  v \in Op /\ v < i /\ v \notin E /\ g[v].type # "none"
  BY <1>0, <1>2, <1>9, <1>10, OperandOK DEF OpOK
<1>14. ASSUME NEW i \in Op, NEW n \in Op, SimulatedBefore(g, m, r, p, {}, E, i), NEW v \in Operands(g, n), v < i
       PROVE  Agrees(g, m, r, p, {}, E, i, v, v)
  BY <1>13, <1>8, <1>9, <1>14 DEF SimulatedBefore, Simulated, Agrees
<1>15. ASSUME NEW i \in Op \ E, SimulatedBefore(g, m, r, p, {}, E, i)
       PROVE  OperandsAgree(g, m, r, p, {}, E, i)
  <2>1. \A l \in 1 .. Len(g[i].args) : g[i].args[l] \in Operands(g, i) /\ r[i] = g[i]
    BY <1>2, <1>8, <1>9, OperandsAre
  <2> QED  BY <1>13, <1>14, <1>15, <2>1 DEF OperandsAgree
<1>16. \A i \in {} \ E : ViewReads(g, m, i)
  OBVIOUS
<1>17. \A i \in Op : /\ Simulated(g, m, r, p, {}, E, i) /\ SimulatedBefore(g, m, r, p, {}, E, i)
  BY <1>5, <1>11, <1>12, <1>15, <1>16, AllSimulated
<1>18. Others(r, p) = Others(g, m)
  BY <1>11, <1>17, OthersCarried
<1>19. ASSUME NEW i \in Op, NEW n \in Op, NEW v \in Operands(g, n), v < i
       PROVE  Contents(r, p, v, i) = Contents(g, m, v, i)
  BY <1>13, <1>14, <1>17, <1>19, <1>5, <1>11, <1>12, ContentsCarried
<1>20. \A l \in 1 .. Len(args) : args[l] \in Operands(g, NumOps) /\ args[l] \in Op /\ args[l] < NumOps
  <2>1. ASSUME NEW l \in 1 .. Len(args) PROVE args[l] \in Operands(g, NumOps)
    <3>1. Operands(g, NumOps) = {g[NumOps].args[i] : i \in 1 .. Len(g[NumOps].args)}
      BY <1>0, <1>2, OperandsAre
    <3>2. l \in 1 .. Len(g[NumOps].args) /\ args[l] = g[NumOps].args[l]
      BY <1>6
    <3> QED  BY <3>1, <3>2
  <2> QED  BY <1>0, <1>13, <2>1
<1>21. ASSUME NEW l \in 1 .. Len(args)
       PROVE  Contents(r, p, r[NumOps].args[l], NumOps) = Contents(g, m, args[l], NumOps)
  <2>1. CASE l # k
    BY <1>7, <1>8, <2>1, <1>0, <1>19, <1>20
  <2>2. CASE l = k
    <3>1. PICK v : v = args[k]
      OBVIOUS
    <3>2. v \in Op /\ v \in Operands(g, NumOps) /\ v < free /\ g[v].kind # "list"
      <4>1. v \in Op /\ v \in Operands(g, NumOps) /\ v < NumOps /\ g[v].type # "none"
        <5>1. v \in Operands(g, NumOps)
          BY <1>7, <1>20, <3>1
        <5> QED  BY <1>0, <1>13, <5>1
      <4>2. \A o \in free .. NumOps - 1 : g[o].type = "none"
        <5>1. \A o \in free .. NumOps - 1 : o \in Op
          BY <1>0
        <5> QED  BY <1>1, <1>2, <5>1 DEF OpOK
      <4>3. v \notin free .. NumOps - 1
        BY <4>1, <4>2
      <4>4. g[v].type \in {"value", "mutable"}
        BY <1>6, <3>1 DEF IsCopyOf
      <4> QED  BY <1>0, <1>1, <1>2, <4>1, <4>3, <4>4 DEF OpOK
    <3>3. r[NumOps].args[l] = free
      BY <1>7, <1>8, <2>2
    <3>4. r[free].kind = op.kind /\ r[free].args[1] = v
      BY <1>8, <1>10, <3>1
    <3>5. WritesTo(r, p, free, NumOps) = {}
      <4>1. ASSUME NEW w \in Writes(r) PROVE p[w].base # free
        <5>1. w \in Op /\ w \notin E /\ w \in Writes(g)
          BY <1>8, <1>9, <1>10 DEF Writes
        <5>2. p[w] = m[w] /\ w < free
          BY <1>17, <5>1, <1>1, <1>0, <1>9 DEF Simulated, Writes
        <5>3. PICK base \in 0 .. w : \E path, term : m[w] = Known(base, path, term)
          BY <1>4, <5>1, MeaningIs DEF IsKnown
        <5>4. m[w].base = base
          BY <5>3, KnownIs
        <5> QED  BY <1>0, <5>1, <5>2, <5>4
      <4> QED  BY <4>1 DEF WritesTo
    <3>6. Contents(r, p, free, NumOps) = Contents(r, p, v, free)
      BY <1>5, <1>10, <3>4, <3>5, CopiedContents
    <3>7. Contents(r, p, v, free) = Contents(g, m, v, free)
      BY <1>0, <1>19, <3>2
    <3>8. Contents(g, m, v, free) = Contents(g, m, v, NumOps)
      <4>1. \A o \in Op : free <= o /\ o < NumOps => o \notin Writes(g)
        BY <1>0, <1>1 DEF Writes
      <4> QED  BY <1>0, <1>1, <3>2, <4>1, ContentsBetween
    <3> QED  BY <2>2, <3>1, <3>3, <3>6, <3>7, <3>8
  <2> QED  BY <2>1, <2>2
<1>22. Len(r[NumOps].args) = Len(args)
  BY <1>7, <1>8
<1> QED  BY <1>5, <1>6, <1>18, <1>21, <1>22, ObservedSame

\* Putting a copy of an operand before the return gives the return the type of the copy.
LEMMA PutBefore ==
  ASSUME NEW g, IsFunction(g), NEW k \in 1 .. Len(g[NumOps].args), NEW j \in Nat, HasFree(g, j + 1),
         NEW op, IsCopyOf(op, g, g[NumOps].args[k]), NEW free \in Op, NEW r, IsPut(r, g, op, free, k)
  PROVE  IsReturned(r, g, k, j, op.type)
<1>0. NumOps \in Nat \ {0} /\ Op = 1 .. NumOps /\ NumOps \in Op
  BY FunctionsAssumption DEF Op
<1>1. free <= NumOps - (j + 1) /\ free < NumOps /\ \A o \in free .. NumOps - 1 : g[o].kind = "none"
  BY FirstFreeIs DEF IsPut
<1>2. g \in [Op -> OpIR] /\ \A o \in Op : OpOK(g, o)
  BY FunctionIff DEF IsFunction
<1>3. \A o \in Op : g[o].args \in Seq(Op) /\ Len(g[o].args) \in Nat /\ \A l \in 1 .. Len(g[o].args) : g[o].args[l] \in Op
  BY <1>2, OperandsAre
<1> DEFINE v == g[NumOps].args[k]
           args == [g[NumOps].args EXCEPT ![k] = free]
           ret == [g[NumOps] EXCEPT !.args = args]
<1>4. \A o \in free .. NumOps - 1 : o \in Op /\ g[o].type = "none"
  BY <1>0, <1>1, <1>2 DEF OpOK
<1>5. \A o \in Op : \A l \in 1 .. Len(g[o].args) :
        g[o].args[l] # free /\ g[o].args[l] < o /\ g[g[o].args[l]].type # "none"
  BY <1>0, <1>1, <1>2, <1>4 DEF OpOK
<1>6. v \in Op /\ v < free /\ g[v].type # "none"
  <2>1. v \in Op /\ v < NumOps /\ g[v].type # "none"
    BY <1>0, <1>3, <1>5
  <2>2. ~ (v \in free .. NumOps - 1)
    BY <1>4, <2>1
  <2> QED  BY <1>0, <1>1, <2>1, <2>2
<1>7. /\ args \in Seq(Op) /\ Len(args) = Len(g[NumOps].args) /\ args[k] = free
      /\ \A l \in 1 .. Len(args) : l # k => args[l] = g[NumOps].args[l]
  <2>1. PICK s : s = g[NumOps].args
    OBVIOUS
  <2>2. s \in Seq(Op) /\ k \in 1 .. Len(s) /\ args = [s EXCEPT ![k] = free]
    BY <1>0, <1>3, <2>1
  <2> HIDE DEF args
  <2>3. args \in Seq(Op) /\ Len(args) = Len(s) /\ args[k] = free
    BY <2>2
  <2>4. \A l \in 1 .. Len(args) : l # k => args[l] = s[l]
    BY <2>2, <2>3
  <2> QED  BY <2>1, <2>3, <2>4
<1> HIDE DEF args
<1>8. /\ ret \in OpIR /\ ret.kind = g[NumOps].kind /\ ret.args = args /\ ret.type = g[NumOps].type
      /\ ret.block = g[NumOps].block
  BY <1>0, <1>2, <1>7 DEF OpIR
<1> HIDE DEF ret
<1>9. r = [o \in Op |-> IF o = NumOps THEN ret ELSE IF o = free THEN op ELSE g[o]]
  <2>1. r = [g EXCEPT ![free] = op, ![NumOps] = ret]
    <3>1. [g EXCEPT ![free] = op][NumOps] = g[NumOps]
      BY <1>0, <1>1, <1>2
    <3> QED  BY <3>1 DEF IsPut, ret, args
  <2> QED  BY <1>0, <1>1, <1>2, <2>1
<1>10. r \in [Op -> OpIR]
  BY <1>2, <1>8, <1>9 DEF IsCopyOf
<1>11. r[NumOps] = ret /\ r[free] = op /\ \A o \in Op : o # NumOps /\ o # free => r[o] = g[o]
  BY <1>0, <1>1, <1>9
<1>12. \A u \in Op : u # free => r[u].type = g[u].type
  BY <1>8, <1>11
<1>13. ASSUME NEW o \in Op PROVE OpOK(r, o)
  <2>1. CASE o = NumOps
    <3>1. \A l \in 1 .. Len(r[o].args) : r[o].args[l] < o /\ r[r[o].args[l]].type # "none"
      <4> SUFFICES ASSUME NEW l \in 1 .. Len(args) PROVE args[l] < NumOps /\ r[args[l]].type # "none"
        BY <1>8, <1>11, <2>1
      <4>1. CASE l = k
        BY <1>1, <1>7, <1>11, <4>1 DEF IsCopyOf
      <4>2. CASE l # k
        <5>1. args[l] = g[NumOps].args[l] /\ l \in 1 .. Len(g[NumOps].args)
          BY <1>7, <4>2
        <5>2. args[l] \in Op /\ args[l] < NumOps /\ args[l] # free /\ g[args[l]].type # "none"
          BY <1>0, <1>3, <1>5, <5>1
        <5> QED  BY <1>12, <5>2
      <4> QED  BY <4>1, <4>2
    <3>2. r[o].kind = "return" /\ r[o].type = "none"
      BY <1>0, <1>2, <1>8, <1>11, <2>1 DEF OpOK
    <3> QED  BY <2>1, <3>1, <3>2 DEF OpOK
  <2>2. CASE o = free
    <3>1. r[o] = op /\ o # NumOps /\ r[v].type = g[v].type
      BY <1>0, <1>1, <1>6, <1>11, <1>12, <2>2
    <3>2. Len(op.args) = 1 /\ op.args[1] = v /\ v < o /\ g[v].type # "none"
      BY <1>6, <2>2 DEF IsCopyOf
    <3>3. \A l \in 1 .. Len(op.args) : op.args[l] < o /\ r[op.args[l]].type # "none"
      BY <3>1, <3>2
    <3> QED  BY <3>1, <3>2, <3>3 DEF IsCopyOf, OpOK, IsMutable
  <2>3. CASE o # NumOps /\ o # free
    <3>1. r[o] = g[o] /\ OpOK(g, o)
      BY <1>2, <1>11, <2>3
    <3>2. \A l \in 1 .. Len(g[o].args) : g[o].args[l] \in Op /\ r[g[o].args[l]].type = g[g[o].args[l]].type
      BY <1>3, <1>5, <1>12
    <3>3. Len(g[o].args) \in Nat /\ \A l \in 1 .. Len(g[o].args) : g[o].args[l] < o
      BY <1>3, <3>1 DEF OpOK
    <3> QED  BY <3>1, <3>2, <3>3, SameOpOK
  <2> QED  BY <2>1, <2>2, <2>3
<1>14. IsFunction(r)
  BY <1>10, <1>13, FunctionIff
<1>15. HasFree(r, j)
  <2>1. ASSUME NEW o \in NumOps - j .. NumOps - 1 PROVE r[o].kind = "none"
    BY <1>0, <1>1, <1>11 DEF HasFree
  <2> QED  BY <1>0, <2>1 DEF HasFree
<1>16. ASSUME NEW l \in 1 .. Len(g[NumOps].args)
       PROVE  TypeAt(r, l) = IF l = k THEN op.type ELSE TypeAt(g, l)
  <2>1. CASE l = k
    BY <1>7, <1>8, <1>11, <2>1 DEF TypeAt
  <2>2. CASE l # k
    <3>1. r[NumOps].args[l] = g[NumOps].args[l]
      BY <1>7, <1>8, <1>11, <2>2
    <3>2. g[NumOps].args[l] \in Op /\ g[NumOps].args[l] # free
      BY <1>0, <1>3, <1>5
    <3> QED  BY <1>12, <2>2, <3>1, <3>2 DEF TypeAt
  <2> QED  BY <2>1, <2>2
<1>17. ASSUME MutableOnlyViewed(g), NEW o \in Op PROVE OnlyViewed(r, o)
  <2>1. CASE o = NumOps
    BY <1>0, <1>2, <1>8, <1>11, <2>1 DEF OpOK, OnlyViewed, IsMutable
  <2>2. CASE o = free
    <3>0. r[o] = op /\ r[v].type = g[v].type
      BY <1>0, <1>1, <1>6, <1>11, <1>12, <2>2
    <3>1. r[o] = op /\ r[v].type = g[v].type /\ op.args = <<v>>
      BY <3>0 DEF IsCopyOf
    <3>2. /\ \/ op.kind = "to_tensor" /\ op.type = "mutable" /\ g[v].type = "value"
             \/ op.kind = "to_vtensor" /\ op.type = "value"
      BY DEF IsCopyOf
    <3>3. \A l \in 1 .. Len(op.args) : op.args[l] = v
      BY <3>1
    <3> QED  BY <3>1, <3>2, <3>3 DEF OnlyViewed, IsMutable
  <2>3. CASE o # NumOps /\ o # free
    <3>1. r[o] = g[o] /\ OnlyViewed(g, o)
      BY <1>11, <1>17, <2>3 DEF MutableOnlyViewed
    <3>2. \A l \in 1 .. Len(g[o].args) : g[o].args[l] \in Op /\ r[g[o].args[l]].type = g[g[o].args[l]].type
      BY <1>3, <1>5, <1>12
    <3>3. Len(g[o].args) = 1 => r[g[o].args[1]].type = g[g[o].args[1]].type
      BY <3>2
    <3> QED  BY <3>1, <3>2, <3>3 DEF OnlyViewed, IsMutable
  <2> QED  BY <2>1, <2>2, <2>3
<1>18. \A o \in Op : r[o].kind \in {g[o].kind, "none", "to_tensor", "to_vtensor"}
  BY <1>0, <1>8, <1>11 DEF IsCopyOf
<1>19. KeepsViews(r, g)
  BY <1>17, <1>18 DEF KeepsViews, MutableOnlyViewed
<1>20. Preserves(r, g)
  <2>1. ASSUME MutableViewsReadOne(g), NEW o \in Op, r[o].kind = "view", IsMutable(r, o)
        PROVE  Len(r[o].args) = 1
    <3>1. CASE o = NumOps
      <4>1. r[o].kind = "return"
        BY <1>0, <1>2, <1>8, <1>11, <3>1 DEF OpOK
      <4> QED  BY <2>1, <4>1
    <3>2. CASE o = free
      BY <1>0, <1>1, <1>11, <2>1, <3>2 DEF IsCopyOf
    <3>3. CASE o # NumOps /\ o # free
      BY <1>11, <3>3, <2>1 DEF MutableViewsReadOne, IsMutable
    <3> QED  BY <3>1, <3>2, <3>3
  <2>2. ASSUME NEW s PROVE Observed(s, r) = Observed(s, g)
    BY <1>14, PutObserved
  <2>3. CastsStay(r, g)
    <3> SUFFICES ASSUME NEW u \in Op, r[u].kind = "cast", IsMutable(r, u)
                 PROVE  /\ g[u].kind = "cast" /\ IsMutable(g, u)
                        /\ \A o \in Op : Uses(r, o, u) => IsKeptUse(r, g, o, u)
      BY DEF CastsStay
    <3>1. u # free /\ u # NumOps
      <4>1. r[NumOps].kind = "return"
        BY <1>0, <1>2, <1>8, <1>11 DEF OpOK
      <4> QED  BY <1>11, <4>1 DEF IsCopyOf
    <3>2. r[u] = g[u]
      BY <1>11, <3>1
    <3>3. ASSUME NEW o \in Op, Uses(r, o, u)
          PROVE  IsKeptUse(r, g, o, u)
      <4>1. CASE o = NumOps
        <5>1. PICK l \in 1 .. Len(args) : args[l] = u
          BY <1>7, <1>8, <1>11, <3>3, <4>1 DEF Uses
        <5>2. l \in 1 .. Len(g[NumOps].args) /\ g[NumOps].args[l] = u
          BY <1>7, <3>1, <5>1
        <5>3. l \in DOMAIN g[NumOps].args
          BY <1>0, <1>2, <5>2, OperandsAre
        <5> QED  BY <1>8, <1>11, <4>1, <5>2, <5>3 DEF Uses, IsKeptUse
      <4>2. CASE o = free
        <5>1. op.args = <<v>> /\ r[o] = op
          BY <1>11, <4>2 DEF IsCopyOf
        <5>2. u = v
          BY <3>3, <5>1 DEF Uses
        <5>3. k \in DOMAIN g[NumOps].args
          BY <1>0, <1>2, OperandsAre
        <5>4. Uses(g, NumOps, u)
          BY <5>2, <5>3 DEF Uses
        <5>5. g[v].type = "mutable"
          BY <3>2, <5>2 DEF IsMutable
        <5>6. op.kind = "to_vtensor"
          BY <5>5 DEF IsCopyOf
        <5> QED  BY <5>1, <5>4, <5>6 DEF IsKeptUse
      <4>3. CASE o # NumOps /\ o # free
        BY <1>11, <3>3, <4>3 DEF Uses, IsKeptUse
      <4> QED  BY <4>1, <4>2, <4>3
    <3> QED  BY <3>2, <3>3 DEF IsMutable
  <2> QED  BY <2>1, <2>2, <2>3 DEF Preserves, MutableViewsReadOne
<1> QED  BY <1>7, <1>8, <1>11, <1>14, <1>15, <1>16, <1>19, <1>20 DEF IsReturned

LEMMA SnapshotReturned ==
  ASSUME NEW g, IsFunction(g), NEW k \in 1 .. Len(g[NumOps].args), NEW j \in Nat, HasFree(g, j + 1),
         TypeAt(g, k) = "mutable"
  PROVE  IsReturned(ReturnThrough(g, k, MkSnapshot), g, k, j, "value")
<1> DEFINE v == g[NumOps].args[k]
           op == MkSnapshot(g[NumOps].args[k], g[NumOps].block)
           free == CHOOSE n \in Op : IsFree(g, n) /\ (n > 1 => ~ IsFree(g, n - 1))
           r == ReturnThrough(g, k, MkSnapshot)
<1>1. NumOps \in Op /\ g \in [Op -> OpIR]
  BY FunctionsAssumption DEF Op, IsFunction
<1>2. free \in Op /\ IsFirstFree(g, free)
  BY FirstFree DEF IsFirstFree
<1>3. IsPut(r, g, op, free, k)
  BY <1>2 DEF IsPut, ReturnThrough
<1>4. v \in Op /\ g[NumOps].block \in {1, 2}
  BY <1>1, OperandsAre DEF OpIR
<1>5. IsCopyOf(op, g, v) /\ op.type = "value"
  BY <1>4 DEF IsCopyOf, MkSnapshot, OpIR, Kind, TypeAt
<1> HIDE DEF r, op, free
<1>6. IsReturned(r, g, k, j, op.type)
  BY <1>5, <1>2, <1>3, PutBefore
<1> QED  BY <1>5, <1>6 DEF r

LEMMA CopyIsReturned ==
  ASSUME NEW g, IsFunction(g), NEW k \in 1 .. Len(g[NumOps].args), NEW j \in Nat, HasFree(g, j + 1),
         TypeAt(g, k) = "value"
  PROVE  IsReturned(ReturnThrough(g, k, MkCopy), g, k, j, "mutable")
<1> DEFINE v == g[NumOps].args[k]
           op == MkCopy(g[NumOps].args[k], g[NumOps].block)
           free == CHOOSE n \in Op : IsFree(g, n) /\ (n > 1 => ~ IsFree(g, n - 1))
           r == ReturnThrough(g, k, MkCopy)
<1>1. NumOps \in Op /\ g \in [Op -> OpIR]
  BY FunctionsAssumption DEF Op, IsFunction
<1>2. free \in Op /\ IsFirstFree(g, free)
  BY FirstFree DEF IsFirstFree
<1>3. IsPut(r, g, op, free, k)
  BY <1>2 DEF IsPut, ReturnThrough
<1>4. v \in Op /\ g[NumOps].block \in {1, 2}
  BY <1>1, OperandsAre DEF OpIR
<1>5. IsCopyOf(op, g, v) /\ op.type = "mutable"
  BY <1>4 DEF IsCopyOf, MkCopy, OpIR, Kind, TypeAt
<1> HIDE DEF r, op, free
<1>6. IsReturned(r, g, k, j, op.type)
  BY <1>5, <1>2, <1>3, PutBefore
<1> QED  BY <1>5, <1>6 DEF r

\* An operand of the return that is copied back is mutable, the others stay what they are.
LEMMA CopyBackReturns ==
  ASSUME NEW f, IsFunction(f), NEW k \in 1 .. Len(f[NumOps].args), NEW j \in Nat, HasFree(f, j + 2),
         TypeAt(f, k) \in {"value", "mutable"}
  PROVE  IsReturned(CopyBack(f, k), f, k, j, "mutable")
<1>0. NumOps \in Nat /\ j + 1 \in Nat /\ j + 2 = (j + 1) + 1
  BY FunctionsAssumption
<1>1. CASE TypeAt(f, k) = "mutable"
  <2> DEFINE g == ReturnThrough(f, k, MkSnapshot)
             r == ReturnThrough(g, k, MkCopy)
  <2>1. IsReturned(g, f, k, j + 1, "value")
    BY <1>0, <1>1, SnapshotReturned
  <2> HIDE DEF g
  <2>2. IsFunction(g) /\ HasFree(g, j + 1) /\ k \in 1 .. Len(g[NumOps].args) /\ TypeAt(g, k) = "value"
    BY <2>1 DEF IsReturned
  <2>3. IsReturned(r, g, k, j, "mutable")
    BY <2>2, CopyIsReturned
  <2> HIDE DEF r
  <2>4. IsReturned(r, f, k, j, "mutable")
    BY <2>1, <2>3, KeepsViewsTransitive, PreservesTransitive DEF IsReturned
  <2>5. CopyBack(f, k) = r
    BY <1>1 DEF CopyBack, IsMutable, TypeAt, r, g
  <2> QED  BY <2>4, <2>5
<1>2. CASE TypeAt(f, k) = "value"
  BY <1>0, <1>2, FewerFree, CopyIsReturned DEF CopyBack, IsMutable, TypeAt
<1> QED  BY <1>1, <1>2

\* The operands of the return in K are mutable after CopyReturned, the others stay what they are.
LEMMA ReturnedCopied ==
  ASSUME NEW f, IsFunction(f), NEW K, HasRoom(f),
         \A k \in 1 .. Len(f[NumOps].args) : k \in K => TypeAt(f, k) \in {"value", "mutable"}
  PROVE  /\ IsFunction(CopyReturned(f, K))
         /\ Len(CopyReturned(f, K)[NumOps].args) = Len(f[NumOps].args)
         /\ \A k \in 1 .. Len(f[NumOps].args) :
              TypeAt(CopyReturned(f, K), k) = IF k \in K THEN "mutable" ELSE TypeAt(f, k)
         /\ KeepsViews(CopyReturned(f, K), f) /\ Preserves(CopyReturned(f, K), f)
<1> DEFINE L == Len(f[NumOps].args)
           Types(r, n) == \A k \in 1 .. L :
                            TypeAt(r, k) = IF k <= n /\ k \in K THEN "mutable" ELSE TypeAt(f, k)
<1>0. L \in Nat /\ NumOps \in Nat
  BY FunctionsAssumption, OperandsAre DEF Op, IsFunction
<1>1. PICK g : IsCopied(g, f, K) /\ CopyReturned(f, K) = g[L]
  BY <1>0, CopiedExists
<1>2. \A n \in 0 .. L : g[n] = IF n = 0 THEN f ELSE IF n \in K THEN CopyBack(g[n - 1], n) ELSE g[n - 1]
  BY <1>1 DEF IsCopied
<1>3. HasFree(f, 2 * L)
  BY DEF HasRoom, HasFree
<1>4. \A k \in 1 .. L : k \in K => TypeAt(f, k) \in {"value", "mutable"}
  OBVIOUS
<1> DEFINE Q(r, n) == /\ IsFunction(r) /\ HasFree(r, 2 * (L - n)) /\ Len(r[NumOps].args) = L
                      /\ Types(r, n) /\ KeepsViews(r, f) /\ Preserves(r, f)
           S == {n \in Nat : n <= L => Q(g[n], n)}
<1>4a. Len(f[NumOps].args) = L
  OBVIOUS
<1> HIDE DEF L
<1>5. 0 \in S
  BY <1>0, <1>2, <1>3, <1>4a, PreservesItself DEF KeepsViews
<1>6. ASSUME NEW n \in Nat, n \in S PROVE n + 1 \in S
  <2> SUFFICES ASSUME n + 1 <= L PROVE Q(g[n + 1], n + 1)
    OBVIOUS
  <2>1. Q(g[n], n)
    BY <1>0, <1>6
  <2> DEFINE h == g[n]
             m == n + 1
             j == 2 * (L - m)
  <2>2. m \in 1 .. L /\ m - 1 = n /\ j \in Nat /\ 2 * (L - n) = j + 2
    BY <1>0
  <2>3. g[m] = IF m \in K THEN CopyBack(h, m) ELSE h
    BY <1>0, <1>2, <2>2
  <2>4. IsFunction(h) /\ HasFree(h, j + 2) /\ Len(h[NumOps].args) = L /\ Types(h, n)
       /\ KeepsViews(h, f) /\ Preserves(h, f)
    BY <2>1, <2>2
  <2> HIDE DEF h, j
  <2>5. CASE m \in K
    <3>1. TypeAt(h, m) = TypeAt(f, m) /\ TypeAt(f, m) \in {"value", "mutable"}
      BY <1>4, <2>2, <2>4, <2>5
    <3>2. IsReturned(CopyBack(h, m), h, m, j, "mutable")
      BY <2>2, <2>4, <3>1, CopyBackReturns
    <3>3. /\ IsFunction(g[m]) /\ HasFree(g[m], j) /\ Len(g[m][NumOps].args) = L
          /\ \A l \in 1 .. L : TypeAt(g[m], l) = IF l = m THEN "mutable" ELSE TypeAt(h, l)
      BY <2>3, <2>4, <2>5, <3>2 DEF IsReturned
    <3>4. Types(g[m], m)
      BY <2>4, <1>0, <2>5, <3>3
    <3>5. KeepsViews(g[m], f)
      BY <2>3, <2>4, <2>5, <3>2, KeepsViewsTransitive DEF IsReturned
    <3>6. Preserves(g[m], f)
      BY <2>3, <2>4, <2>5, <3>2, PreservesTransitive DEF IsReturned
    <3> QED  BY <3>3, <3>4, <3>5, <3>6 DEF j
  <2>6. CASE m \notin K
    <3>1. HasFree(h, j)
      BY <2>2, <2>4, FewerFree
    <3>2. Types(h, m)
      BY <2>4, <1>0, <2>6
    <3> QED  BY <2>3, <2>4, <2>6, <3>1, <3>2 DEF j
  <2> QED  BY <2>5, <2>6
<1>7. L \in S
  <2> HIDE DEF S
  <2> QED  BY <1>0, <1>5, <1>6, SetInduction
<1>8. Q(g[L], L)
  BY <1>0, <1>7
<1>9. \A k \in 1 .. L : TypeAt(g[L], k) = IF k \in K THEN "mutable" ELSE TypeAt(f, k)
  BY <1>0, <1>8
<1> QED  BY <1>1, <1>8, <1>9 DEF L

(***************************************************************************)
(* What the two patterns have in common: the ops in erased are gone, the   *)
(* views yield values, and every use of a tensor in turned has become one  *)
(* of a value.                                                             *)
(***************************************************************************)
AreErased(f, erased, views) ==
  /\ erased \subseteq Op /\ views \subseteq Op /\ erased \cap views = {}
  /\ NumOps \notin erased /\ NumOps \notin views
  /\ \A o \in views : IsViewLikeOp(f, o)

OpsConverted(h, f, erased, views) ==
  /\ \A o \in erased : h[o] = NoOp
  /\ \A o \in Op \ erased :
       /\ h[o].kind = f[o].kind /\ Len(h[o].args) = Len(f[o].args)
       /\ h[o].type = IF o \in views THEN "value" ELSE f[o].type

OperandsConverted(h, f, erased, turned) ==
  \A o \in Op \ erased : \A k \in 1 .. Len(f[o].args) :
    /\ h[o].args[k] < o
    /\ h[h[o].args[k]].type = IF f[o].args[k] \in turned THEN "value" ELSE f[f[o].args[k]].type

OnlyViewsAreTurned(f, erased, views, turned) ==
  /\ \A o \in Op \ erased : \A k \in 1 .. Len(f[o].args) :
       f[o].args[k] \in turned => o \in views \/ o = NumOps
  /\ \A o \in views : \E k \in 1 .. Len(f[o].args) : f[o].args[k] \in turned

LEMMA ConversionKeepsViews ==
  ASSUME NEW f, IsFunction(f), NEW h \in [Op -> OpIR], NEW erased, NEW views, NEW turned,
         AreErased(f, erased, views), OpsConverted(h, f, erased, views),
         OperandsConverted(h, f, erased, turned), OnlyViewsAreTurned(f, erased, views, turned)
  PROVE  KeepsViews(h, f) /\ (MutableViewsReadOne(f) => MutableViewsReadOne(h))
<1>1. ASSUME MutableOnlyViewed(f), NEW o \in Op PROVE OnlyViewed(h, o)
  <2>1. CASE o \in erased
    BY <2>1 DEF OpsConverted, NoOp, OnlyViewed, IsMutable
  <2>2. CASE o \notin erased
    <3>1. /\ h[o].kind = f[o].kind /\ Len(h[o].args) = Len(f[o].args)
          /\ h[o].type = IF o \in views THEN "value" ELSE f[o].type
      BY <2>2 DEF OpsConverted
    <3>2. \A k \in 1 .. Len(f[o].args) :
            h[h[o].args[k]].type = IF f[o].args[k] \in turned THEN "value" ELSE f[f[o].args[k]].type
      BY <2>2 DEF OperandsConverted
    <3>3. OnlyViewed(f, o)
      BY <1>1 DEF MutableOnlyViewed
    <3>4. \A k \in 1 .. Len(f[o].args) :
            IsMutable(h, h[o].args[k]) => IsMutable(f, f[o].args[k]) /\ f[o].args[k] \notin turned
      BY <3>2 DEF IsMutable
    <3>5. ASSUME f[o].kind = "view"
          PROVE  Len(h[o].args) = 1 /\ (IsMutable(h, h[o].args[1]) => IsMutable(h, o))
      <4>1. Len(f[o].args) = 1 /\ (IsMutable(f, f[o].args[1]) => IsMutable(f, o))
        BY <3>3, <3>5 DEF OnlyViewed
      <4>2. ASSUME IsMutable(h, h[o].args[1]) PROVE o \notin views /\ IsMutable(f, o)
        BY <3>4, <4>1, <4>2 DEF OnlyViewsAreTurned
      <4> QED  BY <3>1, <4>1, <4>2 DEF IsMutable
    <3>6. IsMutable(h, o) => IsMutable(f, o)
      BY <3>1 DEF IsMutable
    <3> QED  BY <3>1, <3>3, <3>4, <3>5, <3>6 DEF OnlyViewed
  <2> QED  BY <2>1, <2>2
<1>2. \A o \in Op : h[o].kind \in {f[o].kind, "none", "to_tensor", "to_vtensor"}
  BY DEF OpsConverted, NoOp
<1>3. ASSUME MutableViewsReadOne(f), NEW o \in Op, h[o].kind = "view", IsMutable(h, o)
      PROVE  Len(h[o].args) = 1
  BY <1>3 DEF OpsConverted, NoOp, IsMutable, MutableViewsReadOne
<1> QED  BY <1>1, <1>2, <1>3 DEF KeepsViews, MutableOnlyViewed, MutableViewsReadOne

\* What an op still reads of a mutable tensor it has read before.
LEMMA ConversionKeepsCasts ==
  ASSUME NEW f, IsFunction(f), NEW h \in [Op -> OpIR], NEW erased, NEW views, OpsConverted(h, f, erased, views),
         \A o \in Op \ erased : \A k \in 1 .. Len(f[o].args) :
           IsMutable(h, h[o].args[k]) => h[o].args[k] = f[o].args[k]
  PROVE  CastsStay(h, f)
<1> SUFFICES ASSUME NEW v \in Op, h[v].kind = "cast", IsMutable(h, v)
             PROVE  /\ f[v].kind = "cast" /\ IsMutable(f, v)
                    /\ \A o \in Op : Uses(h, o, v) => IsKeptUse(h, f, o, v)
  BY DEF CastsStay
<1>1. v \notin erased
  BY DEF OpsConverted, NoOp
<1>2. f[v].kind = "cast" /\ IsMutable(f, v)
  BY <1>1 DEF OpsConverted, IsMutable
<1>3. ASSUME NEW o \in Op, Uses(h, o, v) PROVE h[o].kind = f[o].kind /\ Uses(f, o, v)
  <2>1. PICK k \in DOMAIN h[o].args : h[o].args[k] = v
    BY <1>3 DEF Uses
  <2>2. DOMAIN h[o].args = 1 .. Len(h[o].args)
    BY OperandsAre
  <2>3. f \in [Op -> OpIR]
    BY DEF IsFunction
  <2>4. DOMAIN f[o].args = 1 .. Len(f[o].args)
    BY <2>3, OperandsAre
  <2>5. o \notin erased
    <3>1. ASSUME o \in erased PROVE FALSE
      BY <3>1, <2>1 DEF OpsConverted, NoOp
    <3> QED  BY <3>1
  <2>6. h[o].kind = f[o].kind /\ Len(h[o].args) = Len(f[o].args)
    BY <2>5 DEF OpsConverted
  <2>7. k \in 1 .. Len(f[o].args)
    BY <2>1, <2>2, <2>6
  <2>8. f[o].args[k] = v
    BY <2>1, <2>5, <2>7
  <2> QED  BY <2>4, <2>6, <2>7, <2>8 DEF Uses
<1> QED  BY <1>2, <1>3 DEF IsKeptUse

LEMMA ConversionIsTyped ==
  ASSUME NEW f, IsFunction(f), HasRoom(f), NEW h \in [Op -> OpIR], NEW erased, NEW views, NEW turned,
         AreErased(f, erased, views), OpsConverted(h, f, erased, views),
         OperandsConverted(h, f, erased, turned), OnlyViewsAreTurned(f, erased, views, turned)
  PROVE  /\ IsFunction(h) /\ HasRoom(h) /\ Len(h[NumOps].args) = Len(f[NumOps].args)
         /\ \A k \in 1 .. Len(f[NumOps].args) :
              TypeAt(h, k) = IF f[NumOps].args[k] \in turned THEN "value" ELSE TypeAt(f, k)
<1>0. NumOps \in Nat \ {0} /\ Op = 1 .. NumOps /\ NumOps \in Op
  BY FunctionsAssumption DEF Op
<1>1. f \in [Op -> OpIR] /\ \A o \in Op : OpOK(f, o)
  BY FunctionIff DEF IsFunction
<1>2. ASSUME NEW o \in Op PROVE OpOK(h, o)
  <2>1. CASE o \in erased
    BY <2>1 DEF OpsConverted, NoOp, AreErased, OpOK
  <2>2. CASE o \notin erased
    <3>1. /\ h[o].kind = f[o].kind /\ Len(h[o].args) = Len(f[o].args)
          /\ h[o].type = IF o \in views THEN "value" ELSE f[o].type
      BY <2>2 DEF OpsConverted
    <3>2. \A k \in 1 .. Len(f[o].args) :
            /\ h[o].args[k] < o
            /\ h[h[o].args[k]].type = IF f[o].args[k] \in turned THEN "value" ELSE f[f[o].args[k]].type
      BY <2>2 DEF OperandsConverted
    <3>3. OpOK(f, o)
      BY <1>1
    <3>4. \A k \in 1 .. Len(h[o].args) : h[o].args[k] < o /\ h[h[o].args[k]].type # "none"
      BY <3>1, <3>2, <3>3 DEF OpOK
    <3>5. CASE o \in views
      <4>1. f[o].kind \in {"view", "cast"} /\ h[o].type = "value" /\ o # NumOps
        BY <3>1, <3>5 DEF AreErased, IsViewLikeOp
      <4>2. ASSUME f[o].kind = "cast" PROVE Len(h[o].args) = 1 /\ h[h[o].args[1]].type = "value"
        BY <3>5, <3>3, <4>2, <3>1, <3>2 DEF OnlyViewsAreTurned, OpOK
      <4>3. f[o].kind = "view" => Len(h[o].args) \in {1, 2}
        BY <3>1, <3>3 DEF OpOK
      <4> QED  BY <3>1, <3>4, <4>1, <4>2, <4>3 DEF OpOK, IsMutable
    <3>6. CASE o = NumOps
      BY <3>1, <3>3, <3>6, <3>4 DEF OpOK, AreErased
    <3>7. CASE o \notin views /\ o # NumOps
      BY <2>2, <3>2, <3>7, <1>1, <3>1, <3>3, OperandsAre, SameOpOK DEF OnlyViewsAreTurned
    <3> QED  BY <3>5, <3>6, <3>7
  <2> QED  BY <2>1, <2>2
<1>3. IsFunction(h)
  BY <1>2, FunctionIff
<1>4. /\ Len(h[NumOps].args) = Len(f[NumOps].args)
      /\ \A k \in 1 .. Len(f[NumOps].args) :
           TypeAt(h, k) = IF f[NumOps].args[k] \in turned THEN "value" ELSE TypeAt(f, k)
  BY <1>0 DEF OpsConverted, OperandsConverted, AreErased, TypeAt
<1>5. \A o \in Op : f[o].kind = "none" => h[o].kind = "none"
  BY DEF OpsConverted, NoOp
<1>6. HasRoom(h)
  BY <1>0, <1>1, <1>4, <1>5, OperandsAre DEF HasRoom
<1> QED  BY <1>3, <1>4, <1>6

(***************************************************************************)
(* The first pattern.                                                      *)
(***************************************************************************)
SliceWrites(f, c) == {o \in Slice(f, c) : f[o].kind = "overwrite"}
SliceCopies(f, c) == {c} \cup {o \in Slice(f, c) : f[o].kind = "to_vtensor"}
SliceViews(f, c)  == {o \in Slice(f, c) : IsViewLikeOp(f, o)}

\* What the first pattern knows of a slice it rewrites.
IsSlice(f, c) ==
  /\ c \in Copies(f) /\ ViewsHaveCopyAsBase(f, Aliases(f, c), Slice(f, c))
  /\ \A u \in Slice(f, c) : f[u].kind \in {"view", "cast", "to_vtensor", "overwrite", "return"}

LEMMA SliceFacts ==
  ASSUME NEW f, IsFunction(f), NEW c, IsSlice(f, c)
  PROVE  /\ c \in Op /\ f[c].kind = "to_tensor" /\ Aliases(f, c) \subseteq Op /\ Slice(f, c) \subseteq Op
         /\ \A o \in Op : o \in Slice(f, c) <=> \E k \in 1 .. Len(f[o].args) : f[o].args[k] \in Aliases(f, c)
         /\ \A v \in Aliases(f, c) : f[v].type = "mutable" /\ (v # c => v \in SliceViews(f, c))
         /\ \A v \in SliceViews(f, c) : v \notin Aliases(f, c) => f[v].type = "value"
<1>1. c \in Op /\ f[c].kind = "to_tensor"
  BY DEF IsSlice, Copies
<1>2. f \in [Op -> OpIR] /\ \A o \in Op : OpOK(f, o)
  BY FunctionIff DEF IsFunction
<1>3. Aliases(f, c) \subseteq Op
  BY <1>1, AliasesAre
<1>4. \A o \in Op : o \in Slice(f, c) <=> \E k \in 1 .. Len(f[o].args) : f[o].args[k] \in Aliases(f, c)
  BY <1>2, OperandsAre DEF Slice
<1>5. ASSUME NEW v \in Aliases(f, c), v # c PROVE f[v].type = "mutable" /\ v \in SliceViews(f, c)
  BY <1>1, <1>3, <1>5, <1>2, <1>4, AliasesAre, OperandsAre DEF OpOK, IsViewLikeOp, SliceViews,
     IsMutable
<1>6. f[c].type = "mutable"
  BY <1>1, <1>2 DEF OpOK
<1>7. ASSUME NEW v \in SliceViews(f, c), v \notin Aliases(f, c) PROVE f[v].type = "value"
  BY <1>7, <1>2 DEF IsSlice, ViewsHaveCopyAsBase, SliceViews, Slice, OpOK, IsViewLikeOp, IsMutable
<1> QED  BY <1>1, <1>3, <1>4, <1>5, <1>6, <1>7 DEF Slice

\* An overwrite of the slice gives new contents to aliases of the copy only.
LEMMA WritesAliases ==
  ASSUME NEW f, IsFunction(f), NEW c, IsSlice(f, c), NEW w \in SliceWrites(f, c)
  PROVE  OverwrittenAliases(f, w) \subseteq Aliases(f, c)
<1> DEFINE A == Aliases(f, c)
           S == OverwrittenAliases(f, w) \ A
<1>0. NumOps \in Nat /\ Op = 1 .. NumOps
  BY FunctionsAssumption DEF Op
<1>1. w \in Op /\ f[w].kind = "overwrite" /\ w \in Slice(f, c) /\ c \in Op
  BY SliceFacts DEF SliceWrites
<1>2. f \in [Op -> OpIR] /\ \A o \in Op : OpOK(f, o)
  BY FunctionIff DEF IsFunction
<1>3. f[w].args[2] \in A
  BY <1>1, <1>2, SliceFacts DEF OpOK
<1>4. SUFFICES ASSUME S # {} PROVE FALSE
  OBVIOUS
<1>5. \A v \in S : v \in Op /\ v \in Nat
  BY <1>0, <1>1, OverwrittenAre
<1> DEFINE D == {NumOps - v : v \in S}
<1>6. D \subseteq Nat /\ D # {}
  BY <1>0, <1>4, <1>5, OverwrittenAre
<1>7. PICK d \in D : \A e \in D : d <= e
  <2> HIDE DEF D
  <2> QED  BY <1>6, LeastElement
<1>8. PICK v \in S : d = NumOps - v
  BY <1>7
<1>9. PICK p \in OverwrittenAliases(f, w) : p > v /\ f[p].kind = "cast" /\ f[p].args[1] = v
  BY <1>1, <1>3, <1>8, OverwrittenAre
<1>10. p \in A
  <2>1. p \in Op /\ p \in Nat /\ v \in Nat
    BY <1>0, <1>1, <1>5, OverwrittenAre
  <2>2. p \notin S
    <3>1. p \in S => NumOps - p \in D
      OBVIOUS
    <3>2. ~ (NumOps - v <= NumOps - p)
      BY <1>0, <1>9, <2>1
    <3> QED  BY <1>7, <1>8, <3>1, <3>2
  <2> QED  BY <2>2
<1>11. p # c
  BY <1>9, SliceFacts
<1>12. f[p].args[1] \in A
  BY <1>1, <1>10, <1>11, AliasesAre
<1> QED  BY <1>8, <1>9, <1>12

\* What stands for an operand v of o once the overwrites are replaced.
LEMMA ContentsAre ==
  ASSUME NEW f, IsFunction(f), NEW c, IsSlice(f, c), NEW o \in Op, o \notin SliceWrites(f, c),
         NEW v \in Operands(f, o), NEW x, x = LatestContents(f, SliceWrites(f, c), o, v)
  PROVE  /\ x \in Op /\ x < o
         /\ IF v \in Aliases(f, c) THEN x = v \/ f[x].type = "value" ELSE x = v
<1> DEFINE W == SliceWrites(f, c)
           writers == {w \in W : w <= o /\ v \in OverwrittenAliases(f, w)}
<1>0. NumOps \in Nat /\ Op = 1 .. NumOps
  BY FunctionsAssumption DEF Op
<1>1. v \in Op /\ v < o
  BY OperandOK
<1>2. f \in [Op -> OpIR] /\ \A u \in Op : OpOK(f, u)
  BY FunctionIff DEF IsFunction
<1>3. \A w \in W : w \in Op /\ f[w].kind = "overwrite"
  BY SliceFacts DEF SliceWrites
<1>4. CASE writers = {}
  BY <1>4, <1>1 DEF LatestContents
<1>5. CASE writers # {}
  <2> DEFINE w == CHOOSE w \in writers : \A y \in writers : y <= w
  <2>1. \E y \in writers : \A z \in writers : z <= y
    <3> DEFINE D == {o - y : y \in writers}
    <3>1. D \subseteq Nat /\ D # {}
      BY <1>0, <1>3, <1>5
    <3>2. PICK d \in D : \A e \in D : d <= e
      <4> HIDE DEF D
      <4> QED  BY <3>1, LeastElement
    <3>3. PICK y \in writers : d = o - y
      BY <3>2
    <3>4. \A z \in writers : z <= y
      <4> SUFFICES ASSUME NEW z \in writers PROVE z <= y
        OBVIOUS
      <4>1. o - z \in D /\ y \in Nat /\ z \in Nat /\ o \in Nat
        BY <1>0, <1>3
      <4>2. o - y <= o - z
        BY <3>2, <3>3, <4>1
      <4> QED  BY <4>1, <4>2
    <3> QED  BY <3>4
  <2>2. w \in writers
    <3> HIDE DEF writers
    <3> QED  BY <2>1
  <2>3. x = f[w].args[1]
    BY <1>5 DEF LatestContents
  <2> HIDE DEF w
  <2>4. w \in Op /\ w \in Nat /\ o \in Nat /\ w < o /\ v \in Aliases(f, c)
    BY <2>2, <1>3, <1>0, WritesAliases
  <2>5. Len(f[w].args) = 2 /\ f[f[w].args[1]].type = "value"
    BY <1>2, <1>3, <2>2 DEF OpOK
  <2>6. f[w].args[1] \in Operands(f, w)
    BY <1>2, <2>4, <2>5, OperandsAre
  <2>7. f[w].args[1] \in Op /\ f[w].args[1] < w
    BY <2>4, <2>6, OperandOK
  <2>8. x \in Op /\ x \in Nat /\ x < w /\ f[x].type = "value"
    BY <1>0, <2>3, <2>5, <2>7
  <2> QED  BY <2>4, <2>8
<1> QED  BY <1>4, <1>5

\* f with the overwrites of the slice replaced.
IsWritten(g, f, c) ==
  g = [o \in Op |-> [f[o] EXCEPT !.args = [k \in DOMAIN @ |-> LatestContents(f, SliceWrites(f, c), o, @[k])]]]

\* What stands for y once the copies of the slice are gone, too, is a value if it is an alias
\* of the copy or a value now.
IsSettled(t, y, f, c) ==
  /\ t \in Op /\ t <= y /\ t \notin SliceWrites(f, c) \cup SliceCopies(f, c)
  /\ IF y \in Aliases(f, c) \/ f[y].type = "value"
     THEN t \in SliceViews(f, c) \/ f[t].type = "value"
     ELSE t = y /\ t \notin SliceViews(f, c)

LEMMA ThroughCopies ==
  ASSUME NEW f, IsFunction(f), NEW c, IsSlice(f, c), NEW g, IsWritten(g, f, c)
  PROVE  \A y \in Op : f[y].type # "none" => IsSettled(Through(g, SliceCopies(f, c), y), y, f, c)
<1> DEFINE A == Aliases(f, c)
           C == SliceCopies(f, c)
           To(y) == Through(g, C, y)
           S == {n \in Nat : \A y \in Op : y <= n /\ f[y].type # "none" => IsSettled(To(y), y, f, c)}
<1>0. NumOps \in Nat /\ Op = 1 .. NumOps
  BY FunctionsAssumption DEF Op
<1>1. f \in [Op -> OpIR] /\ \A u \in Op : OpOK(f, u)
  BY FunctionIff DEF IsFunction
<1>2. \A y \in SliceWrites(f, c) : y \in Op /\ f[y].kind = "overwrite" /\ f[y].type = "none"
  BY <1>1, SliceFacts DEF SliceWrites, OpOK
<1>3. ASSUME NEW y \in C
      PROVE  /\ y \in Op /\ y \notin SliceWrites(f, c) /\ (y \in A \/ f[y].type = "value")
             /\ g[y].args[1] \in Op /\ g[y].args[1] < y
             /\ g[y].args[1] \in A \/ f[g[y].args[1]].type = "value"
  <2>1. y \in Op /\ f[y].kind \in {"to_tensor", "to_vtensor"} /\ Len(f[y].args) = 1
    BY <1>1, SliceFacts DEF SliceCopies, OpOK
  <2>2. y \in A \/ f[y].type = "value"
    <3>1. CASE y = c
      BY <2>1, <3>1, AliasesAre
    <3>2. CASE y # c
      BY <1>1, <2>1, <3>2 DEF SliceCopies, OpOK
    <3> QED  BY <3>1, <3>2
  <2> DEFINE v == f[y].args[1]
             x == LatestContents(f, SliceWrites(f, c), y, v)
  <2>3. v \in Operands(f, y) /\ 1 \in DOMAIN f[y].args
    <3>1. DOMAIN f[y].args = 1 .. 1 /\ Operands(f, y) = {f[y].args[k] : k \in 1 .. 1}
      BY <1>1, <2>1, OperandsAre
    <3> QED  BY <3>1
  <2>4. g[y].args[1] = x
    BY <1>1, <2>1, <2>3 DEF IsWritten, OpIR
  <2>5. y \notin SliceWrites(f, c)
    BY <1>2, <2>1
  <2>6. v \in A \/ f[v].type = "value"
    <3>1. CASE y = c
      BY <1>1, <2>1, <3>1, SliceFacts DEF OpOK
    <3>2. CASE y # c
      BY <3>2, <2>1, SliceFacts DEF SliceCopies
    <3> QED  BY <3>1, <3>2
  <2> HIDE DEF x
  <2>7. x \in Op /\ x < y /\ (x \in A \/ f[x].type = "value")
    <3> HIDE DEF v, A
    <3>1. /\ x \in Op /\ x < y
          /\ IF v \in Aliases(f, c) THEN x = v \/ f[x].type = "value" ELSE x = v
      BY <2>1, <2>3, <2>5, ContentsAre DEF x
    <3> QED  BY <2>6, <3>1 DEF A
  <2> QED  BY <2>1, <2>2, <2>4, <2>5, <2>7
<1>4. \A y \in Op : To(y) = IF y \in C /\ g[y].args[1] < y THEN To(g[y].args[1]) ELSE y
  BY <1>3, ThroughIs
<1> HIDE DEF C, To
<1>5. 0 \in S
  BY <1>0
<1>6. ASSUME NEW n \in Nat, n \in S PROVE n + 1 \in S
  <2> SUFFICES ASSUME NEW y \in Op, y <= n + 1, f[y].type # "none" PROVE IsSettled(To(y), y, f, c)
    OBVIOUS
  <2>1. CASE y \in C
    <3> DEFINE b == g[y].args[1]
    <3>1. b \in Op /\ b < y /\ (b \in A \/ f[b].type = "value") /\ (y \in A \/ f[y].type = "value")
      BY <1>3, <2>1
    <3>2. f[b].type # "none"
      BY <3>1, SliceFacts
    <3>3. b <= n /\ b \in Nat /\ y \in Nat
      BY <1>0, <3>1
    <3>4. IsSettled(To(b), b, f, c)
      BY <1>6, <3>1, <3>2, <3>3
    <3>5. To(y) = To(b)
      BY <1>4, <2>1, <3>1
    <3> HIDE DEF b
    <3>6. To(b) \in Nat
      BY <1>0, <3>4 DEF IsSettled
    <3>7. To(b) <= y
      BY <3>1, <3>3, <3>4, <3>6 DEF IsSettled
    <3> QED  BY <3>1, <3>4, <3>5, <3>7 DEF IsSettled
  <2>2. CASE y \notin C
    BY <1>4, <2>2, <1>0, <1>2, SliceFacts DEF C, SliceCopies, IsSettled
  <2> QED  BY <2>1, <2>2
<1>7. NumOps \in S
  <2> HIDE DEF S
  <2> QED  BY <1>0, <1>5, <1>6, SetInduction
<1> QED  BY <1>0, <1>7 DEF To, C

\* Renaming keeps operands a sequence.
LEMMA RenamedOperands ==
  ASSUME NEW s \in Seq(Op), NEW t, t = [k \in DOMAIN s |-> t[k]],
         \A k \in 1 .. Len(s) : t[k] \in Op
  PROVE  t \in Seq(Op) /\ Len(t) = Len(s)
<1>1. DOMAIN s = 1 .. Len(s) /\ Len(s) \in Nat
  OBVIOUS
<1>2. t \in [1 .. Len(s) -> Op]
  BY <1>1
<1>3. t \in Seq(Op)
  BY <1>1, <1>2
<1> QED  BY <1>1, <1>2, <1>3

\* The types of the results are the same when those turned into values are copied back.
LEMMA ResultsCopied ==
  ASSUME NEW f, IsFunction(f), NEW h, IsFunction(h), HasRoom(h), NEW K,
         Len(h[NumOps].args) = Len(f[NumOps].args),
         \A k \in 1 .. Len(f[NumOps].args) : k \in K => TypeAt(h, k) \in {"value", "mutable"}
  PROVE  /\ IsFunction(CopyReturned(h, K)) /\ KeepsViews(CopyReturned(h, K), h)
         /\ Preserves(CopyReturned(h, K), h)
         /\ (\A k \in 1 .. Len(f[NumOps].args) :
               TypeAt(f, k) = IF k \in K THEN "mutable" ELSE TypeAt(h, k))
            => ResultTypes(CopyReturned(h, K)) = ResultTypes(f)
<1> DEFINE r == CopyReturned(h, K)
<1>1. /\ IsFunction(r) /\ KeepsViews(r, h) /\ Preserves(r, h)
      /\ Len(r[NumOps].args) = Len(f[NumOps].args)
      /\ \A k \in 1 .. Len(f[NumOps].args) :
              TypeAt(r, k) = IF k \in K THEN "mutable" ELSE TypeAt(h, k)
  BY ReturnedCopied
<1>2. NumOps \in Op /\ f \in [Op -> OpIR] /\ r \in [Op -> OpIR]
  BY <1>1, FunctionsAssumption DEF Op, IsFunction
<1> HIDE DEF r
<1>3. DOMAIN f[NumOps].args = 1 .. Len(f[NumOps].args) /\ DOMAIN r[NumOps].args = 1 .. Len(f[NumOps].args)
  BY <1>1, <1>2, OperandsAre
<1>4. ASSUME \A k \in 1 .. Len(f[NumOps].args) :
               TypeAt(f, k) = IF k \in K THEN "mutable" ELSE TypeAt(h, k)
      PROVE  ResultTypes(r) = ResultTypes(f)
  BY <1>1, <1>3, <1>4 DEF ResultTypes, TypeAt
<1> QED  BY <1>1, <1>4 DEF r

\* f with the slice of c converted, before what is returned is copied back.
SliceWritten(f, c) == Rename(f, LAMBDA o, v : LatestContents(f, SliceWrites(f, c), o, v))

SliceConverted(f, c) ==
  WithValueSemantics(
    Erase(Rename(SliceWritten(f, c), LAMBDA o, v : Through(SliceWritten(f, c), SliceCopies(f, c), v)),
          SliceWrites(f, c) \cup SliceCopies(f, c)),
    SliceViews(f, c))

SliceReturned(f, c) ==
  {k \in DOMAIN f[NumOps].args : NumOps \in Slice(f, c) /\ IsMutable(f, f[NumOps].args[k])}

\* What stands for the operand v of o in it.
SliceOperand(f, c, o, v) ==
  Through(SliceWritten(f, c), SliceCopies(f, c), LatestContents(f, SliceWrites(f, c), o, v))

SliceOperandsAre(h, f, c) ==
  \A o \in Op \ (SliceWrites(f, c) \cup SliceCopies(f, c)) : \A k \in 1 .. Len(f[o].args) :
    h[o].args[k] = SliceOperand(f, c, o, f[o].args[k])

\* Converting the slice gives each op that is left the operands that its own stand for.
LEMMA SliceIsConverted ==
  ASSUME NEW f, IsFunction(f), NEW c, IsSlice(f, c),
         NEW E, E = SliceWrites(f, c) \cup SliceCopies(f, c), NEW h, h = SliceConverted(f, c)
  PROVE  /\ RewriteSlice(f, c) = CopyReturned(h, SliceReturned(f, c))
         /\ h \in [Op -> OpIR] /\ AreErased(f, E, SliceViews(f, c))
         /\ OpsConverted(h, f, E, SliceViews(f, c)) /\ OperandsConverted(h, f, E, Aliases(f, c))
         /\ OnlyViewsAreTurned(f, E, SliceViews(f, c), Aliases(f, c))
         /\ SliceOperandsAre(h, f, c)
<1> DEFINE A == Aliases(f, c)
           W == SliceWrites(f, c)
           C == SliceCopies(f, c)
           V == SliceViews(f, c)
           g == Rename(f, LAMBDA o, v : LatestContents(f, W, o, v))
           u == Rename(g, LAMBDA o, v : Through(g, C, v))
           To(o, k) == Through(g, C, LatestContents(f, W, o, f[o].args[k]))
<1>e. E = W \cup C
  OBVIOUS
<1>h. h = WithValueSemantics(Erase(u, E), V)
  BY DEF SliceConverted, SliceWritten
<1>w. g = SliceWritten(f, c)
  BY DEF SliceWritten
<1>0. NumOps \in Nat \ {0} /\ Op = 1 .. NumOps /\ NumOps \in Op
  BY FunctionsAssumption DEF Op
<1>1. f \in [Op -> OpIR] /\ \A o \in Op : OpOK(f, o)
  BY FunctionIff DEF IsFunction
<1>2. IsSlice(f, c)
  OBVIOUS
<1>3. RewriteSlice(f, c) = CopyReturned(h, SliceReturned(f, c))
  BY DEF RewriteSlice, SliceConverted, SliceWritten, SliceReturned, SliceWrites, SliceCopies, SliceViews
<1>4. IsWritten(g, f, c)
  BY DEF IsWritten, Rename
<1>5. AreErased(f, E, V)
  BY <1>2, <1>e, <1>0, <1>1, SliceFacts DEF SliceWrites, SliceCopies, SliceViews, OpOK, AreErased,
     IsViewLikeOp
<1>6. \A y \in Op : f[y].type # "none" => IsSettled(Through(g, C, y), y, f, c)
  <2> HIDE DEF g
  <2> QED  BY <1>2, <1>4, ThroughCopies
<1>7. ASSUME NEW o \in Op, o \notin E, NEW k \in 1 .. Len(f[o].args)
      PROVE  /\ To(o, k) \in Op /\ To(o, k) < o /\ To(o, k) \notin E
             /\ IF f[o].args[k] \in A THEN To(o, k) \in V \/ f[To(o, k)].type = "value"
                ELSE IF To(o, k) \in V THEN f[f[o].args[k]].type = "value"
                     ELSE f[To(o, k)].type = f[f[o].args[k]].type
  <2> DEFINE v == f[o].args[k]
             x == LatestContents(f, W, o, v)
             t == Through(g, C, x)
  <2>1. v \in Operands(f, o)
    BY <1>1, OperandsAre
  <2>2. v \in Op /\ v < o /\ f[v].type # "none"
    BY <2>1, OperandOK
  <2> HIDE DEF v
  <2>3. /\ x \in Op /\ x < o
        /\ IF v \in A THEN x = v \/ f[x].type = "value" ELSE x = v
    BY <1>2, <1>7, <2>1, ContentsAre
  <2> HIDE DEF x, t, g, C, W, V
  <2>4. f[x].type # "none"
    BY <2>2, <2>3
  <2>5. IsSettled(t, x, f, c)
    BY <1>6, <2>3, <2>4 DEF t
  <2>6. t \in Op /\ t \in Nat /\ x \in Nat /\ o \in Nat /\ t <= x /\ t \notin E
    BY <1>0, <1>e, <2>3, <2>5 DEF IsSettled, C, W
  <2>7. t < o
    BY <2>3, <2>6
  <2>8. IF v \in A THEN t \in V \/ f[t].type = "value"
        ELSE IF t \in V THEN f[v].type = "value" ELSE f[t].type = f[v].type
    BY <2>3, <2>5 DEF IsSettled, V
  <2> QED  BY <2>6, <2>7, <2>8 DEF v, x, t
<1> DEFINE T == [o \in Op |-> [k \in DOMAIN f[o].args |-> To(o, k)]]
<1>8. ASSUME NEW o \in Op
      PROVE  h[o] = IF o \in E THEN NoOp
                    ELSE [kind |-> f[o].kind, args |-> T[o],
                          type |-> IF o \in V THEN "value" ELSE f[o].type, block |-> f[o].block]
  <2>1. f[o] \in OpIR
    BY <1>1
  <2>2. g[o] = [f[o] EXCEPT !.args = [k \in DOMAIN f[o].args |-> LatestContents(f, W, o, f[o].args[k])]]
    BY DEF Rename
  <2>3. u[o] = [g[o] EXCEPT !.args = [k \in DOMAIN g[o].args |-> Through(g, C, g[o].args[k])]]
    BY DEF Rename
  <2>4. h[o] = IF o \in V THEN [(IF o \in E THEN NoOp ELSE u[o]) EXCEPT !.type = "value"]
               ELSE IF o \in E THEN NoOp ELSE u[o]
    BY <1>h DEF WithValueSemantics, Erase
  <2>5. ~ (o \in V /\ o \in E)
    BY <1>5 DEF AreErased
  <2> DEFINE s == [k \in DOMAIN f[o].args |-> LatestContents(f, W, o, f[o].args[k])]
  <2>6. g[o] = [kind |-> f[o].kind, args |-> s, type |-> f[o].type, block |-> f[o].block]
    BY <2>1, <2>2 DEF OpIR
  <2>7. DOMAIN s = DOMAIN f[o].args /\ \A k \in DOMAIN f[o].args : s[k] = LatestContents(f, W, o, f[o].args[k])
    OBVIOUS
  <2> HIDE DEF s, g, u, V, W, C
  <2>8. u[o] = [kind |-> f[o].kind, args |-> [k \in DOMAIN s |-> Through(g, C, s[k])],
                type |-> f[o].type, block |-> f[o].block]
    BY <2>3, <2>6
  <2>9. [k \in DOMAIN s |-> Through(g, C, s[k])] = T[o]
    BY <2>7
  <2> HIDE DEF T
  <2> QED  BY <2>4, <2>5, <2>8, <2>9
<1>8b. h = [o \in Op |-> h[o]]
  BY <1>h DEF WithValueSemantics
<1> HIDE DEF g, u
<1>8a. /\ \A o \in E : h[o] = NoOp
       /\ \A o \in Op \ E :
            /\ h[o].kind = f[o].kind /\ h[o].args = T[o] /\ h[o].block = f[o].block
            /\ h[o].type = IF o \in V THEN "value" ELSE f[o].type
            /\ h[o] = [kind |-> h[o].kind, args |-> h[o].args, type |-> h[o].type, block |-> h[o].block]
  <2> HIDE DEF T, V
  <2>1. E \subseteq Op
    BY <1>5 DEF AreErased
  <2>2. \A o \in E : h[o] = NoOp
    BY <1>8, <2>1
  <2>3. ASSUME NEW o \in Op \ E
        PROVE  /\ h[o].kind = f[o].kind /\ h[o].args = T[o] /\ h[o].block = f[o].block
               /\ h[o].type = IF o \in V THEN "value" ELSE f[o].type
               /\ h[o] = [kind |-> h[o].kind, args |-> h[o].args, type |-> h[o].type, block |-> h[o].block]
    <3>1. PICK ty : ty = IF o \in V THEN "value" ELSE f[o].type
      OBVIOUS
    <3>2. h[o] = [kind |-> f[o].kind, args |-> T[o], type |-> ty, block |-> f[o].block]
      BY <1>8, <3>1
    <3>3. h[o].kind = f[o].kind /\ h[o].args = T[o] /\ h[o].block = f[o].block /\ h[o].type = ty
      BY <3>2
    <3> QED  BY <3>1, <3>2, <3>3
  <2> QED  BY <2>2, <2>3
<1>9. ASSUME NEW o \in Op, o \notin E
      PROVE  T[o] \in Seq(Op) /\ Len(T[o]) = Len(f[o].args) /\ \A k \in 1 .. Len(f[o].args) : T[o][k] = To(o, k)
  <2>1. f[o].args \in Seq(Op) /\ DOMAIN f[o].args = 1 .. Len(f[o].args)
    BY <1>1, OperandsAre
  <2> HIDE DEF To
  <2>2. \A k \in 1 .. Len(f[o].args) : T[o][k] = To(o, k) /\ T[o][k] \in Op
    BY <1>7, <1>9, <2>1
  <2>3. T[o] = [k \in DOMAIN f[o].args |-> T[o][k]]
    OBVIOUS
  <2> HIDE DEF T
  <2>4. T[o] \in Seq(Op) /\ Len(T[o]) = Len(f[o].args)
    BY <2>1, <2>2, <2>3, RenamedOperands
  <2> QED  BY <2>2, <2>4
<1> HIDE DEF T, To, V, A
<1>10. h \in [Op -> OpIR]
  <2>1. ASSUME NEW o \in Op PROVE h[o] \in OpIR
    <3>1. NoOp \in OpIR
      BY DEF NoOp, OpIR, Kind
    <3>2. f[o] \in OpIR
      BY <1>1
    <3>3. CASE o \in E
      BY <1>8a, <3>1, <3>3
    <3>4. CASE o \notin E
      <4>1. /\ f[o].kind \in Kind /\ f[o].type \in {"value", "mutable", "list", "none"}
            /\ f[o].block \in {1, 2}
        BY <3>2 DEF OpIR
      <4>2. /\ h[o].kind \in Kind /\ h[o].args \in Seq(Op) /\ h[o].block \in {1, 2}
            /\ h[o].type \in {"value", "mutable", "list", "none"}
        BY <1>8a, <1>9, <3>4, <4>1
      <4>3. h[o] = [kind |-> h[o].kind, args |-> h[o].args, type |-> h[o].type, block |-> h[o].block]
        BY <1>8a, <3>4
      <4> QED  BY <4>2, <4>3 DEF OpIR
    <3> QED  BY <3>3, <3>4
  <2> QED  BY <1>8b, <2>1
<1>11. OpsConverted(h, f, E, V)
  BY <1>8a, <1>9 DEF OpsConverted, AreErased, NoOp
<1>12. OperandsConverted(h, f, E, A)
  <2> SUFFICES ASSUME NEW o \in Op \ E, NEW k \in 1 .. Len(f[o].args)
               PROVE  /\ h[o].args[k] < o
                      /\ h[h[o].args[k]].type = IF f[o].args[k] \in A THEN "value" ELSE f[f[o].args[k]].type
    BY DEF OperandsConverted
  <2>1. h[o].args[k] = To(o, k)
    <3>1. h[o].args = T[o]
      BY <1>8a
    <3>2. T[o][k] = To(o, k)
      BY <1>9
    <3> QED  BY <3>1, <3>2
  <2> DEFINE t == To(o, k)
  <2>2. /\ t \in Op /\ t < o /\ t \notin E
        /\ IF f[o].args[k] \in A THEN t \in V \/ f[t].type = "value"
           ELSE IF t \in V THEN f[f[o].args[k]].type = "value" ELSE f[t].type = f[f[o].args[k]].type
    BY <1>7
  <2> HIDE DEF t
  <2>3. h[t].type = IF t \in V THEN "value" ELSE f[t].type
    BY <1>8a, <2>2
  <2> QED  BY <2>1, <2>2, <2>3 DEF t
<1>13. OnlyViewsAreTurned(f, E, V, A)
  <2>1. ASSUME NEW o \in Op \ E, NEW k \in 1 .. Len(f[o].args), f[o].args[k] \in A
        PROVE  o \in V \/ o = NumOps
    BY <1>2, <2>1, <1>e, <1>1, SliceFacts DEF A, IsSlice, W, C, SliceWrites, SliceCopies, OpOK, V,
       SliceViews, IsViewLikeOp
  <2>2. \A o \in V : \E k \in 1 .. Len(f[o].args) : f[o].args[k] \in A
    BY <1>2, SliceFacts DEF V, A, SliceViews
  <2> QED  BY <2>1, <2>2 DEF OnlyViewsAreTurned
<1>14. ASSUME NEW o \in Op \ E, NEW k \in 1 .. Len(f[o].args)
       PROVE  h[o].args[k] = SliceOperand(f, c, o, f[o].args[k])
  <2>1. h[o].args = T[o]
    BY <1>8a
  <2>2. T[o][k] = To(o, k)
    BY <1>9
  <2> QED  BY <1>w, <2>1, <2>2 DEF SliceOperand, To, C, W
<1>15. SliceOperandsAre(h, f, c)
  BY <1>14 DEF SliceOperandsAre
<1> QED  BY <1>3, <1>5, <1>10, <1>11, <1>12, <1>13, <1>15 DEF V, A

\* The aliases of a copy are the tensors with the copy as their base.
LEMMA AliasesShareBase ==
  ASSUME NEW s, NEW f, NEW m, Meant(m, s, f), NEW c \in Op, f[c].kind = "to_tensor",
         \A o \in Slice(f, c) : f[o].kind # "inplace"
  PROVE  \A v \in Op : IsMutable(f, v) => (m[v].base = c <=> v \in Aliases(f, c))
<1> DEFINE A == Aliases(f, c)
           S == {v \in Op : IsMutable(f, v) => (m[v].base = c <=> v \in A)}
<1>1. IsFunction(f) /\ f \in [Op -> OpIR]
  BY DEF Meant, IsFunction
<1>2. \A v \in Op : v \in A <=>
              \/ v = c
              \/ IsViewLikeOp(f, v) /\ IsMutable(f, v) /\ f[v].args[1] < v /\ f[v].args[1] \in A
  BY <1>1, AliasesAre
<1> HIDE DEF A
<1>3. ASSUME NEW v \in Op, \A u \in Op : u < v => u \in S PROVE v \in S
  <2> SUFFICES ASSUME IsMutable(f, v) PROVE m[v].base = c <=> v \in A
    OBVIOUS
  <2>1. CASE m[v].base = v /\ f[v].kind \in {"to_tensor", "pure"}
    BY <1>2, <2>1 DEF IsViewLikeOp
  <2>2. CASE \E a \in Op : /\ a < v /\ a = f[v].args[1] /\ a \in Operands(f, v) /\ IsMutable(f, a)
                           /\ m[v].base = m[a].base /\ f[v].kind \in {"view", "cast", "inplace"}
    <3>1. PICK a \in Op : /\ a < v /\ a = f[v].args[1] /\ a \in Operands(f, v) /\ IsMutable(f, a)
                          /\ m[v].base = m[a].base /\ f[v].kind \in {"view", "cast", "inplace"}
      BY <2>2
    <3>2. m[a].base = c <=> a \in A
      BY <1>3, <3>1
    <3>3. v # c
      BY <3>1
    <3>4. a \in A => f[v].kind # "inplace"
      BY <3>1 DEF Slice, A
    <3>5. CASE a \in A
      BY <1>2, <3>1, <3>2, <3>4, <3>5 DEF IsViewLikeOp
    <3>6. CASE a \notin A
      BY <1>2, <3>1, <3>2, <3>3, <3>6
    <3> QED  BY <3>5, <3>6
  <2> QED  BY <2>1, <2>2, MutableIs
<1>4. Op \subseteq S
  <2> HIDE DEF S
  <2> QED  BY <1>3, OpInduction
<1> QED  BY <1>4 DEF A

\* A value's contents are its term.
LEMMA ValueContents ==
  ASSUME NEW s, NEW f, NEW m, Meant(m, s, f), NEW v \in Op, f[v].type = "value", NEW i
  PROVE  Contents(f, m, v, i) = m[v].term /\ m[v] = Known(0, <<>>, m[v].term) /\ f[v].kind # "list"
<1>1. f \in [Op -> OpIR] /\ OpOK(f, v) /\ IsFunction(f)
  BY FunctionIff DEF Meant, IsFunction
<1>2. f[v].kind # "list" /\ m[v].base = 0 /\ m[v].path = <<>>
  BY <1>1, PlaceOfNothing DEF OpOK
<1>3. m[v] = Known(m[v].base, m[v].path, m[v].term)
  BY AllAreKnown
<1> QED  BY <1>2, <1>3, ContentsOf DEF TensorContents

\* The ops that write to the base of the copy are in its slice.
LEMMA WritersInSlice ==
  ASSUME NEW s, NEW f, NEW m, Meant(m, s, f), NEW c \in Op, f[c].kind = "to_tensor",
         \A o \in Slice(f, c) : f[o].kind # "inplace",
         NEW w \in Writes(f), m[w].base = c
  PROVE  w \in Slice(f, c) /\ (f[w].kind = "overwrite" => f[w].args[2] \in Aliases(f, c))
<1>1. f \in [Op -> OpIR] /\ IsFunction(f) /\ w \in Op /\ OpOK(f, w)
  BY FunctionIff DEF Meant, IsFunction, Writes
<1>2. CASE f[w].kind = "overwrite"
  <2>1. PICK a : a = f[w].args[2]
    OBVIOUS
  <2>2. Len(f[w].args) = 2 /\ IsMutable(f, a)
    BY <1>1, <1>2, <2>1 DEF OpOK
  <2>3. a \in Operands(f, w)
    BY <2>2, <1>1, <2>1, OperandsAre
  <2>4. a \in Op /\ m[a].base = c
    BY <1>1, <1>2, <2>1, <2>3, OperandOK, PlaceOfOverwrite
  <2>5. a \in Aliases(f, c)
    BY <2>2, <2>4, AliasesShareBase
  <2> QED  BY <1>1, <2>1, <2>3, <2>5 DEF Slice
<1>3. CASE f[w].kind \in {"inplace", "other"}
  <2>1. PICK a : a = f[w].args[1]
    OBVIOUS
  <2>2. Len(f[w].args) >= 1 /\ Len(f[w].args) \in Nat
    BY <1>1, <1>3, OperandsAre DEF OpOK
  <2>3. a \in Operands(f, w)
    BY <1>1, <2>1, <2>2, OperandsAre
  <2>4. a \in Op /\ m[a].base = c
    BY <1>1, <1>3, <2>1, <2>3, OperandOK, PlaceOfWrite
  <2>5. IsMutable(f, a)
    <3>1. f[a].type \in {"value", "mutable", "list", "none"}
      BY <1>1, <2>4 DEF OpIR
    <3>2. f[a].type # "none" /\ c # 0
      <4>1. f[a].type # "none"
        BY <1>1, <2>3, OperandOK
      <4> QED  BY <4>1 DEF Op
    <3> QED  BY <2>4, <3>1, <3>2, PlaceOfNothing DEF IsMutable
  <2>6. a \in Aliases(f, c)
    BY <2>4, <2>5, AliasesShareBase
  <2> QED  BY <1>1, <1>3, <2>3, <2>6 DEF Slice
<1> QED  BY <1>2, <1>3 DEF Writes

\* The contents of an alias stay the same between two ops with no write in between.
LEMMA AliasContents ==
  ASSUME NEW s, NEW f, NEW m, Meant(m, s, f), NEW c \in Op, f[c].kind = "to_tensor",
         \A o \in Slice(f, c) : f[o].kind # "inplace", NEW v \in Aliases(f, c), NEW i, NEW j,
         WritesTo(f, m, c, i) = WritesTo(f, m, c, j)
  PROVE  Contents(f, m, v, i) = Contents(f, m, v, j)
<1>1. f \in [Op -> OpIR] /\ IsFunction(f) /\ \A o \in Op : OpOK(f, o)
  BY FunctionIff DEF Meant, IsFunction
<1>2. v \in Op /\ IsMutable(f, v)
  BY <1>1, AliasesAre DEF OpOK, IsMutable
<1>3. m[v].base = c
  BY <1>2, AliasesShareBase
<1>4. f[v].kind # "list"
  BY <1>1, <1>2 DEF OpOK, IsMutable
<1>5. PICK q : q = m[v].path
  OBVIOUS
<1>6. Read(f, m, c, q, i) = Read(f, m, c, q, j)
  BY SameWritesRead
<1>7. Contents(f, m, v, i) = TensorContents(f, m, v, i) /\ Contents(f, m, v, j) = TensorContents(f, m, v, j)
  BY <1>4, ContentsOf
<1> QED  BY <1>3, <1>5, <1>6, <1>7 DEF TensorContents

\* The writes to the base of the copy are the overwrites of its slice.
LEMMA SliceWritesAre ==
  ASSUME NEW s, NEW f, NEW m, Meant(m, s, f), NEW c, IsSlice(f, c)
  PROVE  /\ \A i : WritesTo(f, m, c, i) = {w \in SliceWrites(f, c) : w < i}
         /\ \A w \in SliceWrites(f, c) :
              /\ w \in Op /\ f[w].kind = "overwrite" /\ f[w].args[2] \in Aliases(f, c) /\ f[w].args[2] < w
              /\ f[w].args[1] \in Op /\ f[w].args[1] < w /\ f[f[w].args[1]].type = "value"
              /\ m[w].base = c
<1>1. IsFunction(f) /\ f \in [Op -> OpIR] /\ \A o \in Op : OpOK(f, o)
  BY FunctionIff DEF Meant, IsFunction
<1>2. c \in Op /\ f[c].kind = "to_tensor" /\ \A v \in Aliases(f, c) : v \in Op /\ IsMutable(f, v)
  BY <1>1, SliceFacts DEF IsMutable
<1>3. \A o \in Slice(f, c) : f[o].kind \in {"view", "cast", "to_vtensor", "overwrite", "return"}
  BY DEF IsSlice
<1>4. ASSUME NEW w \in SliceWrites(f, c)
      PROVE  /\ w \in Op /\ f[w].kind = "overwrite" /\ f[w].args[2] \in Aliases(f, c) /\ f[w].args[2] < w
             /\ f[w].args[1] \in Op /\ f[w].args[1] < w /\ f[f[w].args[1]].type = "value"
             /\ m[w].base = c
  <2>1. w \in Op /\ f[w].kind = "overwrite"
    BY DEF SliceWrites, Slice
  <2>2. Len(f[w].args) = 2 /\ f[f[w].args[1]].type = "value"
    BY <1>1, <2>1 DEF OpOK
  <2>3. PICK k \in 1 .. 2 : f[w].args[k] \in Aliases(f, c)
    BY <1>1, <2>1, <2>2, SliceFacts DEF SliceWrites
  <2>4. k = 2
    BY <1>2, <2>2, <2>3 DEF IsMutable
  <2>5. \A l \in 1 .. 2 : f[w].args[l] \in Op /\ f[w].args[l] < w
    BY <1>1, <2>1, <2>2, OperandsAre DEF OpOK
  <2>6. PICK a : a = f[w].args[2]
    OBVIOUS
  <2>7. m[w].base = m[a].base
    BY <2>1, <2>6, PlaceOfOverwrite
  <2>8. m[a].base = c
    BY <1>3, <1>2, <2>3, <2>4, <2>6, AliasesShareBase
  <2> QED  BY <2>1, <2>2, <2>3, <2>4, <2>5, <2>6, <2>7, <2>8
<1>5. ASSUME NEW w \in Writes(f), m[w].base = c PROVE w \in SliceWrites(f, c)
  BY <1>3, <1>2, <1>5, WritersInSlice DEF Writes, SliceWrites
<1>6. \A w \in SliceWrites(f, c) : w \in Writes(f)
  BY <1>4 DEF Writes
<1> QED  BY <1>4, <1>5, <1>6 DEF WritesTo

\* What an overwrite gives new contents to has the path of what is overwritten.
LEMMA OverwrittenPaths ==
  ASSUME NEW s, NEW f, NEW m, Meant(m, s, f), NEW c, IsSlice(f, c), NEW w \in SliceWrites(f, c),
         NEW v \in OverwrittenAliases(f, w)
  PROVE  v \in Op /\ v < w /\ m[v].path = m[w].path
<1> DEFINE S == {u \in OverwrittenAliases(f, w) : ~ (u < w /\ m[u].path = m[w].path)}
<1>1. IsFunction(f) /\ f \in [Op -> OpIR] /\ \A o \in Op : OpOK(f, o)
  BY FunctionIff DEF Meant, IsFunction
<1>2. w \in Op /\ f[w].kind = "overwrite" /\ f[w].args[2] < w
  BY SliceWritesAre
<1>3. \A u \in OverwrittenAliases(f, w) :
           /\ u \in Op
           /\ \/ u = f[w].args[2]
              \/ \E p \in OverwrittenAliases(f, w) : p > u /\ f[p].kind = "cast" /\ f[p].args[1] = u
  BY <1>1, <1>2, OverwrittenAre
<1>4. S = {}
  <2>1. SUFFICES ASSUME S # {} PROVE FALSE
    OBVIOUS
  <2>2. S \subseteq Op
    BY <1>3
  <2>3. PICK u \in S : \A x \in S : x <= u
    <3> HIDE DEF S
    <3> QED  BY <2>1, <2>2, LastIs
  <2>4. CASE u = f[w].args[2]
    BY <1>2, <2>3, <2>4, PlaceOfOverwrite
  <2>5. CASE \E p \in OverwrittenAliases(f, w) : p > u /\ f[p].kind = "cast" /\ f[p].args[1] = u
    <3>1. PICK p \in OverwrittenAliases(f, w) : p > u /\ f[p].kind = "cast" /\ f[p].args[1] = u
      BY <2>5
    <3>2. u \in Nat /\ p \in Nat /\ w \in Nat /\ p \in Op
      BY <1>2, <1>3, <2>2, <2>3, <3>1 DEF Op
    <3>3. p < w /\ m[p].path = m[w].path
      BY <2>3, <3>1, <3>2
    <3>4. IsMutable(f, p)
      BY <1>1, <3>1, WritesAliases, SliceFacts DEF IsMutable
    <3>5. m[p].path = m[u].path
      BY <3>1, <3>2, <3>4, PlaceOfCast
    <3> QED  BY <2>3, <3>1, <3>2, <3>3, <3>5
  <2> QED  BY <1>3, <2>2, <2>3, <2>4, <2>5
<1> QED  BY <1>3, <1>4

\* w is the last overwrite of the slice before op o.
IsLastWrite(f, c, w, o) ==
  w \in SliceWrites(f, c) /\ w < o /\ \A x \in SliceWrites(f, c) : x < o => x <= w

\* The aliases an op uses were made or written since the last overwrite.
LEMMA AvailableAre ==
  ASSUME NEW f, IsFunction(f), NEW c, IsSlice(f, c), SliceIsInterpretable(f, c, Aliases(f, c), Slice(f, c)),
         NEW o \in Op, NEW v \in Operands(f, o), v \in Aliases(f, c)
  PROVE  /\ (\A w \in SliceWrites(f, c) : ~ (w < o)) \/ \E w : IsLastWrite(f, c, w, o)
         /\ \A w : IsLastWrite(f, c, w, o) =>
              v \in OverwrittenAliases(f, w) \/ (w < v /\ IsViewLikeOp(f, v))
<1> DEFINE W == {w \in Slice(f, c) : w < o /\ f[w].kind = "overwrite"}
<1>1. o \in Slice(f, c) /\ Slice(f, c) \subseteq Op
  BY DEF Slice
<1>2. v \in AvailableAliases(f, c, Slice(f, c), o)
  BY <1>1 DEF SliceIsInterpretable
<1>3. W \subseteq Op /\ \A w : w \in W <=> w \in SliceWrites(f, c) /\ w < o
  BY <1>1 DEF SliceWrites
<1>4. (\A w \in SliceWrites(f, c) : ~ (w < o)) \/ \E w : IsLastWrite(f, c, w, o)
  <2>1. CASE W = {}
    BY <1>3, <2>1
  <2>2. CASE W # {}
    <3>1. PICK w \in W : \A x \in W : x <= w
      <4> HIDE DEF W
      <4> QED  BY <1>3, <2>2, LastIs
    <3> QED  BY <1>3, <3>1 DEF IsLastWrite
  <2> QED  BY <2>1, <2>2
<1>5. ASSUME NEW w, IsLastWrite(f, c, w, o)
      PROVE  v \in OverwrittenAliases(f, w) \/ (w < v /\ IsViewLikeOp(f, v))
  <2>1. w \in W /\ \A x \in W : x <= w
    BY <1>3, <1>5 DEF IsLastWrite
  <2>2. (CHOOSE y \in W : \A x \in W : x <= y) = w
    <3> HIDE DEF W
    <3> QED  BY <1>3, <2>1, LastIs
  <2>3. AvailableAliases(f, c, Slice(f, c), o) =
          OverwrittenAliases(f, w) \cup {u \in Slice(f, c) : w < u /\ u < o /\ IsViewLikeOp(f, u) /\ IsMutable(f, u)}
    BY <2>1, <2>2 DEF AvailableAliases
  <2> QED  BY <1>2, <2>3
<1> QED  BY <1>4, <1>5

\* The contents such an op finds are those of the last overwrite, seen through the views taken since.
LEMMA LastWriteIsPrefix ==
  ASSUME NEW s, NEW f, NEW m, Meant(m, s, f), NEW c, IsSlice(f, c),
         SliceIsInterpretable(f, c, Aliases(f, c), Slice(f, c)),
         NEW i \in Aliases(f, c), i # c
  PROVE  \A w : IsLastWrite(f, c, w, i) => IsPrefix(m[w].path, m[f[i].args[1]].path)
<1> DEFINE A == Aliases(f, c)
           S == {u \in Op : u \in A \ {c} => \A w : IsLastWrite(f, c, w, u) => IsPrefix(m[w].path, m[f[u].args[1]].path)}
<1>1. IsFunction(f) /\ f \in [Op -> OpIR] /\ \A o \in Op : OpOK(f, o)
  BY FunctionIff DEF Meant, IsFunction
<1>2. c \in Op /\ f[c].kind = "to_tensor" /\ A \subseteq Op
  BY <1>1, SliceFacts
<1>3. \A v \in A : v # c => IsViewLikeOp(f, v) /\ IsMutable(f, v) /\ f[v].args[1] < v /\ f[v].args[1] \in A
  BY <1>1, <1>2, AliasesAre
<1>4. PICK P : P = {ViewTerm(f, m, u) : u \in Op}
  OBVIOUS
<1>5. \A u \in Op : m[u].path \in Seq(P)
  BY <1>4, PathsAre
<1> HIDE DEF A
<1>6. ASSUME NEW u \in Op, \A x \in Op : x < u => x \in S PROVE u \in S
  <2> SUFFICES ASSUME u \in A, u # c, NEW w, IsLastWrite(f, c, w, u)
               PROVE  IsPrefix(m[w].path, m[f[u].args[1]].path)
    OBVIOUS
  <2>1. PICK a : a = f[u].args[1]
    OBVIOUS
  <2>2. a \in A /\ a \in Op /\ a < u /\ a \in Operands(f, u) /\ IsViewLikeOp(f, u)
    BY <1>2, <1>3, <2>1, <1>1, OperandsAre DEF OpOK, IsViewLikeOp
  <2>3. w \in SliceWrites(f, c) /\ w \in Op
    BY SliceWritesAre DEF IsLastWrite
  <2>4. CASE a \in OverwrittenAliases(f, w)
    BY <2>3, <2>4, <1>5, <2>1, <2>2, OverwrittenPaths, PrefixOfItself
  <2>5. CASE w < a /\ IsViewLikeOp(f, a)
    <3>1. a # c
      BY <1>2, <2>5 DEF IsViewLikeOp
    <3>2. IsLastWrite(f, c, w, a)
      <4>1. \A x \in SliceWrites(f, c) : x < a => x < u
        BY <2>2, SliceWritesAre DEF Op
      <4> QED  BY <2>5, <4>1 DEF IsLastWrite
    <3>3. PICK b : b = f[a].args[1]
      OBVIOUS
    <3>4. IsPrefix(m[w].path, m[b].path) /\ b \in Op /\ IsMutable(f, a)
      BY <1>2, <1>3, <1>6, <2>2, <3>1, <3>2, <3>3
    <3>5. CASE f[a].kind = "cast"
      <4>1. m[a].path = m[b].path
        BY <2>2, <3>3, <3>4, <3>5, PlaceOfCast
      <4> QED  BY <2>1, <3>4, <4>1
    <3>6. CASE f[a].kind = "view"
      <4>1. PICK t : t = ViewTerm(f, m, a)
        OBVIOUS
      <4>2. m[a].path = Append(m[b].path, t) /\ t \in P
        <5>1. m[a].path = Append(m[b].path, t)
          BY <2>2, <3>3, <3>4, <3>6, <4>1, PlaceOfView
        <5> QED  BY <1>4, <2>2, <4>1, <5>1
      <4>3. m[w].path \in Seq(P) /\ m[b].path \in Seq(P)
        BY <1>5, <2>3, <3>4
      <4>4. IsPrefix(m[w].path, m[a].path)
        BY <3>4, <4>2, <4>3, PrefixExtended
      <4> QED  BY <2>1, <4>4
    <3> QED  BY <2>5, <3>5, <3>6 DEF IsViewLikeOp
  <2>6. a \in OverwrittenAliases(f, w) \/ (w < a /\ IsViewLikeOp(f, a))
    BY <1>1, <2>2, AvailableAre DEF A
  <2> QED  BY <2>4, <2>5, <2>6
<1>7. Op \subseteq S
  <2> HIDE DEF S
  <2> QED  BY <1>6, OpInduction
<1> QED  BY <1>2, <1>7 DEF A

\* What stands for v once the copies are gone.
Uncopied(f, c, v) == Through(SliceWritten(f, c), SliceCopies(f, c), v)

\* A copy is read through, to a value or to an alias that is not a copy.
LEMMA UncopiedIs ==
  ASSUME NEW f, IsFunction(f), NEW c, IsSlice(f, c), NEW v \in Op
  PROVE  /\ v \notin SliceCopies(f, c) => Uncopied(f, c, v) = v
         /\ v \in SliceCopies(f, c) =>
              /\ f[v].args[1] \in Operands(f, v)
              /\ f[v].args[1] \in Aliases(f, c) \/ (v = c /\ f[f[v].args[1]].type = "value")
              /\ Uncopied(f, c, v) = SliceOperand(f, c, v, f[v].args[1])
<1> DEFINE C == SliceCopies(f, c)
           W == SliceWrites(f, c)
           g == SliceWritten(f, c)
<1>1. f \in [Op -> OpIR] /\ c \in Op /\ \A o \in Op : OpOK(f, o)
  BY FunctionIff, SliceFacts DEF IsFunction
<1>2. ASSUME NEW y \in C
      PROVE  /\ y \in Op /\ y \notin W /\ 1 \in DOMAIN f[y].args /\ f[y].args[1] \in Operands(f, y)
             /\ f[y].args[1] \in Aliases(f, c) \/ (y = c /\ f[f[y].args[1]].type = "value")
  <2>1. y \in Op /\ f[y].kind \in {"to_tensor", "to_vtensor"} /\ Len(f[y].args) = 1
    BY <1>1, SliceFacts DEF SliceCopies, OpOK
  <2>2. y \notin W
    BY <2>1 DEF SliceWrites
  <2>3. 1 \in DOMAIN f[y].args /\ f[y].args[1] \in Operands(f, y)
    BY <1>1, <2>1, OperandsAre
  <2>4. CASE y = c
    BY <1>1, <2>1, <2>2, <2>3, <2>4, SliceFacts DEF OpOK
  <2>5. CASE y # c
    BY <2>5, <2>1, <2>2, <2>3, SliceFacts DEF SliceCopies
  <2> QED  BY <2>4, <2>5
<1>3. ASSUME NEW y \in C
      PROVE  /\ g[y].args[1] = LatestContents(f, W, y, f[y].args[1])
             /\ g[y].args[1] \in Op /\ g[y].args[1] < y
  BY <1>2, <1>1, ContentsAre DEF SliceWritten, Rename, OpIR
<1>4. \A y \in Op : y \in C => g[y].args[1] \in Op
  BY <1>3
<1>5. Uncopied(f, c, v) = IF v \in C /\ g[v].args[1] < v THEN Uncopied(f, c, g[v].args[1]) ELSE v
  <2> HIDE DEF C, g
  <2>1. Through(g, C, v) = IF v \in C /\ g[v].args[1] < v THEN Through(g, C, g[v].args[1]) ELSE v
    BY <1>4, ThroughIs
  <2> QED  BY <2>1 DEF Uncopied, C, g
<1>6. ASSUME v \in C PROVE Uncopied(f, c, v) = SliceOperand(f, c, v, f[v].args[1])
  BY <1>3, <1>5, <1>6 DEF Uncopied, SliceOperand
<1> QED  BY <1>2, <1>5, <1>6

\* An alias is read as it was made, or as the last overwrite left it.
LEMMA LatestIs ==
  ASSUME NEW s, NEW f, NEW m, Meant(m, s, f), NEW c, IsSlice(f, c),
         SliceIsInterpretable(f, c, Aliases(f, c), Slice(f, c)),
         NEW o \in Op, o \notin SliceWrites(f, c), NEW v \in Operands(f, o), v \in Aliases(f, c),
         NEW x, x = LatestContents(f, SliceWrites(f, c), o, v)
  PROVE  \/ x = v /\ WritesTo(f, m, c, v + 1) = WritesTo(f, m, c, o) /\ (v = c => WritesTo(f, m, c, o) = {})
         \/ \E w : IsLastWrite(f, c, w, o) /\ v \in OverwrittenAliases(f, w) /\ x = f[w].args[1]
<1> DEFINE W == SliceWrites(f, c)
           writers == {w \in W : w <= o /\ v \in OverwrittenAliases(f, w)}
<1>1. IsFunction(f) /\ v \in Op /\ v < o /\ \A w \in W : w \in Op
  BY OperandOK, SliceWritesAre DEF Meant
<1>2. \A n \in Op : n \in Nat
  BY DEF Op
<1>3. \A w \in W : v \in OverwrittenAliases(f, w) => v < w
  BY OverwrittenPaths
<1>4. \A i : WritesTo(f, m, c, i) = {w \in W : w < i}
  BY SliceWritesAre
<1>5. f[c].kind = "to_tensor"
  BY <1>1, SliceFacts
<1>6. x = IF writers = {} THEN v ELSE f[CHOOSE w \in writers : \A y \in writers : y <= w].args[1]
  BY DEF LatestContents
<1>7. \A w \in writers : w \in W /\ w < o
  BY <1>1, <1>2
<1>8. CASE \A w \in W : ~ (w < o)
  <2>1. writers = {}
    BY <1>7, <1>8
  <2>2. \A w \in W : ~ (w < v + 1)
    BY <1>1, <1>2, <1>8
  <2> QED  BY <1>4, <1>6, <1>8, <2>1, <2>2
<1>9. CASE \E w : IsLastWrite(f, c, w, o)
  <2>1. PICK w : IsLastWrite(f, c, w, o)
    BY <1>9
  <2>2. w \in W /\ w < o /\ \A y \in W : y < o => y <= w
    BY <2>1 DEF IsLastWrite
  <2>3. CASE v \in OverwrittenAliases(f, w)
    <3>1. w \in writers /\ \A y \in writers : y <= w
      BY <1>1, <1>2, <1>7, <2>2, <2>3
    <3>2. writers \subseteq Op
      BY <1>1
    <3>3. (CHOOSE z \in writers : \A y \in writers : y <= z) = w
      <4> HIDE DEF writers
      <4> QED  BY <3>1, <3>2, LastIs
    <3>4. x = f[w].args[1]
      BY <1>6, <3>1, <3>3
    <3> QED  BY <2>1, <2>3, <3>4
  <2>4. CASE w < v /\ IsViewLikeOp(f, v)
    BY <1>1, <1>2, <2>2, <2>4, <1>3, <1>7, <1>5, <1>4, <1>6 DEF IsViewLikeOp
  <2> QED  BY <1>1, <2>1, <2>3, <2>4, AvailableAre
<1> QED  BY <1>1, <1>8, <1>9, AvailableAre

\* What the last overwrite left is what it wrote.
LEMMA OverwrittenContents ==
  ASSUME NEW s, NEW f, NEW m, Meant(m, s, f), NEW c, IsSlice(f, c), NEW o, NEW w, IsLastWrite(f, c, w, o),
         NEW v \in OverwrittenAliases(f, w), NEW x, x = f[w].args[1]
  PROVE  Contents(f, m, v, o) = m[x].term
<1>1. f \in [Op -> OpIR] /\ IsFunction(f) /\ \A u \in Op : OpOK(f, u)
  BY FunctionIff DEF Meant, IsFunction
<1>2. /\ w \in SliceWrites(f, c) /\ w \in Op /\ f[w].kind = "overwrite" /\ f[w].args[2] \in Op
      /\ x \in Op /\ x < w /\ f[x].type = "value" /\ m[w].base = c
  BY <1>1, SliceWritesAre, SliceFacts DEF IsLastWrite
<1>3. v \in Op /\ IsMutable(f, v) /\ v \in Aliases(f, c)
  BY <1>1, <1>2, WritesAliases, SliceFacts DEF IsMutable
<1>4. m[v].base = c
  BY <1>1, <1>3, SliceFacts, AliasesShareBase DEF IsSlice
<1>5. PICK q : q = m[w].path
  OBVIOUS
<1>6. m[v].path = q
  BY <1>2, <1>5, OverwrittenPaths
<1>7. Contents(f, m, v, o) = Read(f, m, c, q, o)
  <2>1. f[v].kind # "list" /\ c # 0
    BY <1>1, <1>3, SliceFacts DEF OpOK, IsMutable, Op
  <2> QED  BY <1>4, <1>6, <2>1, ContentsOf DEF TensorContents
<1>8. Read(f, m, c, q, o) = Viewed(<<>>, m[w].term)
  <2>1. WritesTo(f, m, c, o) = {y \in SliceWrites(f, c) : y < o}
    BY SliceWritesAre
  <2>2. w \in WritesTo(f, m, c, o) /\ \A y \in WritesTo(f, m, c, o) : y <= w
    BY <2>1 DEF IsLastWrite
  <2>3. IsPrefix(q, q) /\ IsRest(<<>>, q, q)
    <3>1. q \in Seq({ViewTerm(f, m, u) : u \in Op})
      BY <1>2, <1>5, PathsAre
    <3> QED  BY <3>1, PrefixOfItself
  <2>4. IsPrefix(m[w].path, q) /\ IsRest(<<>>, m[w].path, q)
    BY <1>5, <2>3
  <2> QED  BY <2>2, <2>4, LastRead
<1>9. m[w].term = m[x].term
  <2>1. PICK a : a = f[w].args[2]
    OBVIOUS
  <2>2. m[a] = Known(m[a].base, m[a].path, m[a].term)
    BY <1>2, <2>1, AllAreKnown
  <2>3. PICK b, r, t : m[a] = Known(b, r, t)
    BY <2>2
  <2>4. PICK y : y = OperandContents(f, m, w)[1]
    OBVIOUS
  <2>5. m[w] = Known(b, r, y)
    BY <1>2, <2>1, <2>3, <2>4, AllAreKnown, OverwriteIs
  <2>6. y = Contents(f, m, x, w)
    BY <1>1, <1>2, <2>4, OperandsAre DEF OpOK, OperandContents
  <2>7. Contents(f, m, x, w) = m[x].term
    BY <1>2, ValueContents
  <2> QED  BY <2>5, <2>6, <2>7, KnownIs
<1>10. Viewed(<<>>, m[w].term) = m[w].term
  BY ViewedIs
<1> QED  BY <1>7, <1>8, <1>9, <1>10

\* The ops the first pattern erases.
SliceErased(f, c) == SliceWrites(f, c) \cup SliceCopies(f, c)

\* What the slice is made of.
LEMMA SliceOps ==
  ASSUME NEW f, IsFunction(f), NEW c, IsSlice(f, c)
  PROVE  /\ \A v \in Aliases(f, c) : v \in Op /\ IsMutable(f, v) /\ (v # c => v \notin SliceErased(f, c) /\ v \in SliceViews(f, c))
         /\ \A v \in SliceErased(f, c) :
              /\ v \in Op
              /\ IF v \in SliceWrites(f, c) THEN f[v].kind = "overwrite" /\ f[v].type = "none"
                 ELSE IF v = c THEN f[v].kind = "to_tensor" ELSE f[v].kind = "to_vtensor" /\ f[v].type = "value"
         /\ c \in Op /\ c \in SliceCopies(f, c) /\ c \notin SliceWrites(f, c) /\ c \in Aliases(f, c)
         /\ \A v \in SliceCopies(f, c) : v \notin SliceWrites(f, c)
<1>1. f \in [Op -> OpIR] /\ \A o \in Op : OpOK(f, o)
  BY FunctionIff DEF IsFunction
<1>2. c \in Op /\ f[c].kind = "to_tensor" /\ f[c].type = "mutable" /\ c \in Aliases(f, c)
  BY <1>1, SliceFacts, AliasesAre DEF OpOK
<1>3. Slice(f, c) \subseteq Op
  BY SliceFacts
<1>4. \A v \in SliceWrites(f, c) : v \in Op /\ f[v].kind = "overwrite" /\ f[v].type = "none"
  BY <1>1, <1>3 DEF SliceWrites, OpOK
<1>5. \A v \in SliceCopies(f, c) : v # c => v \in Op /\ f[v].kind = "to_vtensor" /\ f[v].type = "value"
  BY <1>1, <1>3 DEF SliceCopies, OpOK
<1>6. ASSUME NEW v \in Aliases(f, c)
      PROVE  v \in Op /\ f[v].type = "mutable" /\ (v # c => v \in SliceViews(f, c))
  BY SliceFacts
<1>7. c \in SliceCopies(f, c)
  BY DEF SliceCopies
<1> QED  BY <1>2, <1>4, <1>5, <1>6, <1>7 DEF SliceErased, IsMutable

\* h is f with the slice of c, whose aliases are A, converted and the ops in E gone.
IsSliced(h, f, c, A, E) ==
  /\ IsSlice(f, c) /\ SliceIsInterpretable(f, c, Aliases(f, c), Slice(f, c))
  /\ h = SliceConverted(f, c) /\ A = Aliases(f, c) /\ E = SliceErased(f, c)

\* The ops that are left find the contents that were written or copied.
LEMMA SliceContents ==
  ASSUME NEW s, NEW f, NEW m, Meant(m, s, f), NEW h, NEW p, Meant(p, s, h), NEW c, NEW A, NEW E,
         IsSliced(h, f, c, A, E), NEW i \in Op, \A u \in Op : u < i => Simulated(f, m, h, p, A, E, u)
  PROVE  /\ \A o \in Op : o <= i /\ o \notin SliceWrites(f, c) =>
              \A v \in Operands(f, o) : v \in A => p[SliceOperand(f, c, o, v)].term = Contents(f, m, v, o)
         /\ \A v \in Op : v < i /\ f[v].type = "value" => p[Uncopied(f, c, v)].term = m[v].term
<1> DEFINE Reads(o) == o <= i /\ o \notin SliceWrites(f, c) =>
              \A v \in Operands(f, o) : v \in A => p[SliceOperand(f, c, o, v)].term = Contents(f, m, v, o)
           IsSame(v) == v < i /\ f[v].type = "value" => p[Uncopied(f, c, v)].term = m[v].term
           S == {o \in Op : Reads(o) /\ IsSame(o)}
<1>1. IsFunction(f) /\ f \in [Op -> OpIR] /\ \A o \in Op : OpOK(f, o)
  BY FunctionIff DEF Meant, IsFunction
<1>2. IsSlice(f, c) /\ SliceIsInterpretable(f, c, Aliases(f, c), Slice(f, c)) /\ A = Aliases(f, c) /\ E = SliceErased(f, c)
  BY DEF IsSliced
<1>3. \A v \in A : v \in Op /\ IsMutable(f, v) /\ (v # c => v \notin E)
  BY <1>1, <1>2, SliceOps
<1>4. c \in Op /\ f[c].kind = "to_tensor" /\ c \in SliceCopies(f, c) /\ c \notin SliceWrites(f, c) /\ c \in A
  BY <1>1, <1>2, SliceOps DEF SliceErased
<1>5. \A n \in Op : n \in Nat
  BY DEF Op
<1>6. \A o \in Slice(f, c) : f[o].kind # "inplace"
  BY <1>2 DEF IsSlice
<1>7. \A o, v : SliceOperand(f, c, o, v) = Uncopied(f, c, LatestContents(f, SliceWrites(f, c), o, v))
  BY DEF SliceOperand, Uncopied
<1>8. ASSUME NEW o \in Op, \A u \in Op : u < o => u \in S, o <= i, o \notin SliceWrites(f, c),
             NEW v \in Operands(f, o), v \in A
      PROVE  p[SliceOperand(f, c, o, v)].term = Contents(f, m, v, o)
  <2>1. PICK x : x = LatestContents(f, SliceWrites(f, c), o, v)
    OBVIOUS
  <2>2. SliceOperand(f, c, o, v) = Uncopied(f, c, x)
    BY <1>7, <2>1
  <2>3. v \in Op /\ v < o /\ v < i
    BY <1>1, <1>5, <1>8, OperandOK
  <2>4. ASSUME NEW u \in Op, u < o, f[u].type = "value" PROVE p[Uncopied(f, c, u)].term = m[u].term
    BY <1>5, <1>8, <2>4
  <2>5. CASE x = v /\ WritesTo(f, m, c, v + 1) = WritesTo(f, m, c, o) /\ (v = c => WritesTo(f, m, c, o) = {})
    <3>1. CASE v = c
      <4>1. PICK b : b = f[c].args[1]
        OBVIOUS
      <4>2. b \in Op /\ b \in Operands(f, c) /\ b < c /\ f[b].type = "value" /\ b \notin A
        BY <1>1, <1>4, <4>1, <1>3, OperandsAre, OperandOK DEF OpOK, IsMutable
      <4>3. LatestContents(f, SliceWrites(f, c), c, b) = b
        BY <1>1, <1>2, <1>4, <4>2, ContentsAre
      <4>4. Uncopied(f, c, c) = Uncopied(f, c, b)
        BY <1>1, <1>2, <1>4, <4>1, <1>7, <4>3, UncopiedIs
      <4>5. p[Uncopied(f, c, b)].term = m[b].term
        BY <1>4, <1>5, <2>3, <3>1, <4>2, <2>4
      <4>6. Contents(f, m, c, o) = Contents(f, m, b, c)
        BY <1>4, <2>5, <3>1, <4>1, CopiedContents
      <4>7. Contents(f, m, b, c) = m[b].term
        BY <4>2, ValueContents
      <4> QED  BY <2>2, <2>5, <3>1, <4>4, <4>5, <4>6, <4>7
    <3>2. CASE v # c
      <4>1. v \notin E
        BY <1>3, <1>8, <3>2
      <4>2. Uncopied(f, c, v) = v
        BY <1>2, <4>1, <1>1, <2>3, UncopiedIs DEF SliceErased
      <4>3. p[v].term = Contents(f, m, v, v + 1)
        BY <1>8, <2>3, <4>1 DEF Simulated
      <4>4. Contents(f, m, v, v + 1) = Contents(f, m, v, o)
        BY <1>2, <1>4, <1>6, <1>8, <2>5, AliasContents
      <4> QED  BY <2>2, <2>5, <4>2, <4>3, <4>4
    <3> QED  BY <3>1, <3>2
  <2>6. CASE \E w : IsLastWrite(f, c, w, o) /\ v \in OverwrittenAliases(f, w) /\ x = f[w].args[1]
    <3>1. PICK w : IsLastWrite(f, c, w, o) /\ v \in OverwrittenAliases(f, w) /\ x = f[w].args[1]
      BY <2>6
    <3>2. x \in Op /\ x < o /\ f[x].type = "value"
      BY <3>1, <1>2, <1>5, SliceWritesAre DEF IsLastWrite
    <3>3. Contents(f, m, v, o) = m[x].term
      BY <1>2, <3>1, OverwrittenContents
    <3> QED  BY <2>2, <2>4, <3>2, <3>3
  <2> QED  BY <1>2, <1>8, <2>1, <2>5, <2>6, LatestIs
<1>9. ASSUME NEW o \in Op, Reads(o), o < i, f[o].type = "value" PROVE p[Uncopied(f, c, o)].term = m[o].term
  <2>1. o \notin A /\ o \notin SliceWrites(f, c) /\ o # c
    BY <1>3, <1>9, <1>1, <1>2, <1>4, SliceOps DEF IsMutable, SliceErased
  <2>2. CASE o \notin SliceCopies(f, c)
    BY <1>1, <1>2, <2>2, <1>9, <2>1, UncopiedIs DEF Simulated, SliceErased
  <2>3. CASE o \in SliceCopies(f, c)
    <3>1. PICK a : a = f[o].args[1]
      OBVIOUS
    <3>2. a \in Operands(f, o) /\ a \in A /\ Uncopied(f, c, o) = SliceOperand(f, c, o, a)
      BY <1>1, <1>2, <2>1, <2>3, <3>1, UncopiedIs
    <3>3. p[SliceOperand(f, c, o, a)].term = Contents(f, m, a, o)
      BY <1>5, <1>9, <2>1, <3>2
    <3>4. f[o].kind = "to_vtensor"
      BY <1>1, <1>2, <2>1, <2>3, SliceOps DEF SliceErased
    <3>5. Contents(f, m, o, i) = Contents(f, m, a, o)
      BY <3>1, <3>4, CopiedContents
    <3>6. Contents(f, m, o, i) = m[o].term
      BY <1>9, ValueContents
    <3> QED  BY <3>2, <3>3, <3>5, <3>6
  <2> QED  BY <2>2, <2>3
<1>10. ASSUME NEW o \in Op, \A u \in Op : u < o => u \in S PROVE o \in S
  <2>1. Reads(o)
    BY <1>8, <1>10
  <2>2. IsSame(o)
    BY <1>9, <2>1
  <2> HIDE DEF Reads, IsSame
  <2> QED  BY <2>1, <2>2
<1>11. Op \subseteq S
  <2> HIDE DEF S
  <2> QED  BY <1>10, OpInduction
<1> QED  BY <1>11

\* What an op is given in the place of an operand is still there, and is a value for an alias.
LEMMA SliceSettled ==
  ASSUME NEW f, IsFunction(f), NEW h, IsFunction(h), NEW c, NEW A, NEW E, IsSliced(h, f, c, A, E),
         NEW o \in Op, o \notin E, NEW v \in Operands(f, o), NEW y, y = SliceOperand(f, c, o, v)
  PROVE  /\ y \in Op /\ y \notin E
         /\ IF v \in A \/ f[v].type = "value" THEN h[y].type = "value" ELSE y = v
         /\ v \notin A => y = Uncopied(f, c, v)
<1>1. f \in [Op -> OpIR] /\ \A u \in Op : OpOK(f, u)
  BY FunctionIff DEF IsFunction
<1>2. IsSlice(f, c) /\ A = Aliases(f, c) /\ E = SliceErased(f, c) /\ h = SliceConverted(f, c)
  BY DEF IsSliced
<1>3. PICK x : x = LatestContents(f, SliceWrites(f, c), o, v)
  OBVIOUS
<1>4. v \in Op /\ v < o /\ f[v].type # "none"
  BY OperandOK
<1>5. x \in Op /\ IF v \in A THEN x = v \/ f[x].type = "value" ELSE x = v
  BY <1>2, <1>3, ContentsAre DEF SliceErased
<1>6. IsSettled(y, x, f, c)
  BY <1>4, <1>5, <1>2, <1>3, ThroughCopies DEF SliceWritten, IsWritten, Rename, SliceOperand
<1>7. y \in Op /\ y \notin E
  BY <1>2, <1>6 DEF IsSettled, SliceErased
<1>8. h[y].type = IF y \in SliceViews(f, c) THEN "value" ELSE f[y].type
  <2>1. OpsConverted(h, f, SliceErased(f, c), SliceViews(f, c))
    BY <1>2, SliceIsConverted DEF SliceErased
  <2> QED  BY <1>2, <1>7, <2>1 DEF OpsConverted
<1>9. CASE v \in A \/ f[v].type = "value"
  BY <1>5, <1>9, <1>2, <1>6, <1>3, <1>7, <1>8 DEF IsSettled, Uncopied, SliceOperand
<1>10. CASE ~ (v \in A \/ f[v].type = "value")
  BY <1>2, <1>5, <1>6, <1>10, <1>3, <1>7 DEF IsSettled, Uncopied, SliceOperand
<1> QED  BY <1>9, <1>10

\* The first pattern changes only the ops of the slice.
LEMMA SliceCarried ==
  ASSUME NEW f, IsFunction(f), NEW h, IsFunction(h), NEW c, NEW A, NEW E, IsSliced(h, f, c, A, E)
  PROVE  Carried(f, h, A, E)
<1>1. f \in [Op -> OpIR] /\ \A o \in Op : OpOK(f, o)
  BY FunctionIff DEF IsFunction
<1>2. IsSlice(f, c) /\ A = Aliases(f, c) /\ E = SliceErased(f, c) /\ h = SliceConverted(f, c)
  BY DEF IsSliced
<1>3. PICK V : V = SliceViews(f, c)
  OBVIOUS
<1>4. OpsConverted(h, f, E, V)
  BY <1>2, <1>3, SliceIsConverted DEF SliceErased
<1>5. \A v \in A : v \in Op /\ IsMutable(f, v) /\ (v # c => v \notin E /\ v \in V)
  BY <1>2, <1>3, SliceOps
<1>6. \A v \in V : v \notin A => f[v].type = "value"
  BY <1>2, <1>3, SliceFacts
<1>7. \A v \in V : IsViewLikeOp(f, v)
  BY <1>3 DEF SliceViews
<1>8. c \in E /\ \A v \in E : f[v].kind \in {"overwrite", "to_tensor", "to_vtensor"}
  BY <1>2, SliceOps DEF SliceErased
<1>9. \A o \in Op \ E : /\ h[o].kind = f[o].kind /\ Len(h[o].args) = Len(f[o].args)
                        /\ IsMutable(h, o) <=> IsMutable(f, o) /\ o \notin A
  BY <1>4, <1>5, <1>8, <1>6 DEF OpsConverted, IsMutable
<1>10. \A o \in E : /\ f[o].kind \notin {"append", "inplace", "other"}
                    /\ h[o].kind \notin {"append", "overwrite", "inplace", "other"}
  BY <1>4, <1>8 DEF OpsConverted, NoOp
<1>11. ASSUME NEW o \in Op \ E, NEW k \in 1 .. Len(f[o].args), f[o].args[k] \in A
       PROVE  f[o].kind \in {"view", "cast", "return"} /\ (IsMutable(f, o) => o \in A)
  BY <1>2, <1>11, <1>1, <1>3, <1>6, SliceFacts DEF IsSlice, SliceErased, SliceWrites, SliceCopies,
     OpOK, IsMutable, SliceViews, IsViewLikeOp
<1>12. \A o \in Op \ E : \A k \in 1 .. Len(f[o].args) : f[o].args[k] \in A =>
         f[o].kind \in {"view", "cast", "return"} /\ (IsMutable(f, o) => o \in A)
  BY <1>11
<1>13. \A o \in A : o \in Op /\ IsMutable(f, o) /\ (o \notin E => IsViewLikeOp(f, o))
  BY <1>5, <1>7, <1>8
<1> QED  BY <1>9, <1>10, <1>12, <1>13 DEF Carried

\* No tensor outside the slice shares the copy's base.
LEMMA SliceApart ==
  ASSUME NEW s, NEW f, NEW m, Meant(m, s, f), NEW h, NEW c, NEW A, NEW E, IsSliced(h, f, c, A, E)
  PROVE  Apart(f, m, A, E)
<1>1. IsFunction(f) /\ IsSlice(f, c) /\ A = Aliases(f, c) /\ E = SliceErased(f, c)
  BY DEF IsSliced, Meant
<1>2. c \in Op /\ f[c].kind = "to_tensor" /\ \A o \in Slice(f, c) : f[o].kind # "inplace"
  BY <1>1, SliceFacts DEF IsSlice
<1>3. \A v \in Op : IsMutable(f, v) => (m[v].base = c <=> v \in A)
  BY <1>1, <1>2, AliasesShareBase
<1>4. \A v \in A : v # c => IsViewLikeOp(f, v)
  BY <1>1, <1>2, AliasesAre
<1>5. \A w \in E : f[w].kind = "overwrite" => m[w].base = c
  BY <1>1, SliceOps, SliceWritesAre
<1>6. \A w \in E : w # c => f[w].kind \in {"overwrite", "to_vtensor"}
  BY <1>1, SliceOps
<1>7. ASSUME NEW v \in Op \ (A \cup E), IsMutable(f, v)
      PROVE  m[v].base \notin A \cup E /\ m[v].base # c
  BY <1>7, <1>3, <1>4, <1>6, Placed DEF IsPlaced, IsMutable, IsViewLikeOp
<1> QED  BY <1>5, <1>7 DEF Apart

\* Nothing is seen of the rewriting of a slice.
LEMMA SliceObserved ==
  ASSUME NEW f, IsFunction(f), NEW h, IsFunction(h), NEW c, NEW A, NEW E, IsSliced(h, f, c, A, E), NEW s
  PROVE  Observed(s, h) = Observed(s, f)
<1>1. f \in [Op -> OpIR] /\ \A o \in Op : OpOK(f, o)
  BY FunctionIff DEF IsFunction
<1>2. /\ IsSlice(f, c) /\ SliceIsInterpretable(f, c, Aliases(f, c), Slice(f, c))
      /\ h = SliceConverted(f, c) /\ A = Aliases(f, c) /\ E = SliceErased(f, c)
  BY DEF IsSliced
<1>3. PICK m, p : m = Meaning(s, f) /\ p = Meaning(s, h)
  OBVIOUS
<1>4. Meant(m, s, f) /\ Meant(p, s, h)
  BY <1>3 DEF Meant
<1>5. Carried(f, h, A, E) /\ Apart(f, m, A, E)
  BY <1>4, SliceCarried, SliceApart
<1>6. \A v \in A : v \in Op /\ IsMutable(f, v)
  BY <1>2, SliceOps
<1>7. \A v \in E : v \in Op /\ f[v].kind \in {"overwrite", "to_tensor", "to_vtensor"}
  BY <1>2, SliceOps
<1>8. c \in Op /\ f[c].kind = "to_tensor" /\ c \in E /\ \A o \in Slice(f, c) : f[o].kind # "inplace"
  BY <1>2, SliceOps, SliceFacts DEF SliceErased, IsSlice
<1>9. ASSUME NEW i \in A \ E PROVE ViewReads(f, m, i)
  <2>1. PICK a : a = f[i].args[1]
    OBVIOUS
  <2>2. i \in Op /\ i # c /\ IsViewLikeOp(f, i) /\ IsMutable(f, i) /\ a \in A
    BY <1>2, <1>6, <1>8, <1>9, <2>1, AliasesAre
  <2>3. m[a].base = c
    BY <1>2, <1>4, <1>6, <1>8, <2>2, AliasesShareBase
  <2>4. ASSUME NEW w \in WritesTo(f, m, c, i), \A x \in WritesTo(f, m, c, i) : x <= w
        PROVE  IsPrefix(m[w].path, m[a].path)
    BY <1>2, <1>4, <2>4, <1>9, <2>1, <2>2, SliceWritesAre, LastWriteIsPrefix DEF IsLastWrite
  <2> QED  BY <1>4, <2>1, <2>2, <2>3, <2>4, ViewReadsIs
<1>10. \A o \in Op \ E : \A k \in 1 .. Len(f[o].args) : h[o].args[k] = SliceOperand(f, c, o, f[o].args[k])
  <2>1. SliceOperandsAre(h, f, c)
    BY <1>2, SliceIsConverted DEF SliceErased
  <2> QED  BY <2>1, <1>2 DEF SliceOperandsAre, SliceErased
<1>11. ASSUME NEW i \in Op \ E, SimulatedBefore(f, m, h, p, A, E, i)
       PROVE  OperandsAgree(f, m, h, p, A, E, i)
  <2> SUFFICES ASSUME NEW k \in 1 .. Len(f[i].args)
               PROVE  Agrees(f, m, h, p, A, E, i, f[i].args[k], h[i].args[k])
    BY DEF OperandsAgree
  <2>1. PICK v, y : v = f[i].args[k] /\ y = h[i].args[k]
    OBVIOUS
  <2>2. y = SliceOperand(f, c, i, v)
    BY <1>10, <2>1
  <2>3. v \in Operands(f, i) /\ v \in Op /\ v < i /\ f[v].type # "none"
    BY <1>1, <2>1, OperandsAre, OperandOK
  <2>4. \A u \in Op : u < i => Simulated(f, m, h, p, A, E, u)
    BY <1>11 DEF SimulatedBefore
  <2>5. /\ y \in Op /\ y \notin E
        /\ IF v \in A \/ f[v].type = "value" THEN h[y].type = "value" ELSE y = v
        /\ v \notin A => y = Uncopied(f, c, v)
    BY <2>2, <2>3, SliceSettled
  <2>6. h[y].type = "value" => p[y] = Known(0, <<>>, p[y].term) /\ h[y].kind # "list"
    BY <1>4, <2>5, ValueContents
  <2>7. CASE v \in A
    <3>1. p[y].term = Contents(f, m, v, i)
      <4>1. i \notin SliceWrites(f, c) /\ i <= i
        BY <1>2 DEF SliceErased, Op
      <4> QED  BY <1>4, <2>2, <2>3, <2>4, <2>7, <4>1, SliceContents
    <3>2. p[y].base = 0 /\ h[y].kind # "list"
      BY <2>5, <2>6, <2>7, KnownIs
    <3> QED  BY <2>1, <2>7, <3>1, <3>2 DEF Agrees
  <2>8. CASE v \notin A /\ f[v].type = "value"
    <3>1. p[y].term = m[v].term
      BY <1>4, <2>3, <2>4, <2>5, <2>8, SliceContents
    <3>2. m[v] = Known(0, <<>>, m[v].term) /\ f[v].kind # "list"
      BY <1>4, <2>3, <2>8, ValueContents
    <3>3. p[y] = m[v] /\ h[y].kind # "list"
      BY <2>5, <2>6, <2>8, <3>1, <3>2
    <3> QED  BY <2>1, <2>8, <3>2, <3>3 DEF Agrees
  <2>9. CASE v \notin A /\ f[v].type # "value"
    BY <2>5, <2>9, <2>3, <2>4, <1>5, <2>1 DEF Simulated, Carried, Agrees
  <2> QED  BY <2>7, <2>8, <2>9
<1>12. NumOps \notin E
  BY <1>1, <1>7, FunctionsAssumption DEF Op, OpOK
<1> QED  BY <1>4, <1>5, <1>9, <1>11, <1>12, ObservedCarried

\* Rewriting a slice leaves a function that returns the same.
LEMMA SliceRewritten ==
  ASSUME NEW f, IsFunction(f), HasRoom(f), NEW c \in Copies(f), Interpretable(f, c)
  PROVE  /\ IsFunction(RewriteSlice(f, c)) /\ ResultTypes(RewriteSlice(f, c)) = ResultTypes(f)
         /\ KeepsViews(RewriteSlice(f, c), f) /\ Preserves(RewriteSlice(f, c), f)
<1> DEFINE A == Aliases(f, c)
           E == SliceWrites(f, c) \cup SliceCopies(f, c)
           K == SliceReturned(f, c)
           h == SliceConverted(f, c)
<1>1. NumOps \in Op /\ f \in [Op -> OpIR]
  BY FunctionsAssumption DEF IsFunction, Op
<1>2. IsSlice(f, c)
  BY DEF IsSlice, Interpretable, SliceIsInterpretable
<1>3. /\ RewriteSlice(f, c) = CopyReturned(h, K)
      /\ h \in [Op -> OpIR] /\ AreErased(f, E, SliceViews(f, c))
      /\ OpsConverted(h, f, E, SliceViews(f, c)) /\ OperandsConverted(h, f, E, A)
      /\ OnlyViewsAreTurned(f, E, SliceViews(f, c), A)
  BY <1>2, SliceIsConverted
<1>3b. \A o \in Op \ E : \A k \in 1 .. Len(f[o].args) : h[o].args[k] = SliceOperand(f, c, o, f[o].args[k])
  <2>1. SliceOperandsAre(h, f, c)
    BY <1>2, SliceIsConverted
  <2> QED  BY <2>1 DEF SliceOperandsAre
<1>3a. IsSliced(h, f, c, A, E)
  BY <1>2 DEF IsSliced, Interpretable, SliceErased
<1> HIDE DEF h, K, E, A
<1>4. /\ IsFunction(h) /\ HasRoom(h) /\ Len(h[NumOps].args) = Len(f[NumOps].args)
      /\ \A k \in 1 .. Len(f[NumOps].args) :
           TypeAt(h, k) = IF f[NumOps].args[k] \in A THEN "value" ELSE TypeAt(f, k)
  BY <1>3, ConversionIsTyped
<1>5. ASSUME NEW k \in 1 .. Len(f[NumOps].args)
      PROVE  /\ k \in K <=> NumOps \in Slice(f, c) /\ TypeAt(f, k) = "mutable"
             /\ f[NumOps].args[k] \in A => NumOps \in Slice(f, c) /\ TypeAt(f, k) = "mutable"
  BY <1>1, <1>2, OperandsAre, SliceFacts DEF A, K, SliceReturned, TypeAt, IsMutable
<1>6. \A k \in 1 .. Len(f[NumOps].args) : k \in K => TypeAt(h, k) \in {"value", "mutable"}
  BY <1>4, <1>5
<1>7. \A k \in 1 .. Len(f[NumOps].args) : TypeAt(f, k) = IF k \in K THEN "mutable" ELSE TypeAt(h, k)
  BY <1>4, <1>5
<1>8. KeepsViews(CopyReturned(h, K), h)
  BY <1>4, <1>6, ResultsCopied
<1>9. KeepsViews(RewriteSlice(f, c), f)
  BY <1>3, <1>8, ConversionKeepsViews, KeepsViewsTransitive
<1>10. Preserves(RewriteSlice(f, c), f)
  <2>1. Preserves(CopyReturned(h, K), h)
    BY <1>4, <1>6, ResultsCopied
  <2>2. MutableViewsReadOne(f) => MutableViewsReadOne(h)
    BY <1>3, ConversionKeepsViews
  <2>3. \A s : Observed(s, h) = Observed(s, f)
    BY <1>3a, <1>4, SliceObserved
  <2>4. CastsStay(h, f)
    <3>1. ASSUME NEW o \in Op \ E, NEW k \in 1 .. Len(f[o].args), IsMutable(h, h[o].args[k])
          PROVE  h[o].args[k] = f[o].args[k]
      BY <1>1, <1>3b, <1>3a, <1>4, <3>1, OperandsAre, SliceSettled DEF IsMutable
    <3> QED  BY <1>3, <3>1, ConversionKeepsCasts
  <2>5. Preserves(h, f)
    BY <2>2, <2>3, <2>4 DEF Preserves
  <2> QED  BY <1>3, <2>1, <2>5, PreservesTransitive
<1> QED  BY <1>3, <1>4, <1>6, <1>7, <1>9, <1>10, ResultsCopied

(***************************************************************************)
(* The second pattern.                                                     *)
(***************************************************************************)
SubgraphViews(f, c) == {o \in Visited(f, c) : IsViewLikeOp(f, o)}
SubgraphSnapshots(f, c) == {o \in Visited(f, c) : f[o].kind = "to_vtensor"}

\* What the second pattern knows of a subgraph it rewrites.
IsSubgraph(f, c) ==
  /\ c \in Copies(f)
  /\ \A o \in Visited(f, c) : f[o].kind \in {"view", "cast", "to_vtensor", "return"}

LEMMA SubgraphFacts ==
  ASSUME NEW f, IsFunction(f), NEW c, IsSubgraph(f, c)
  PROVE  /\ c \in Op /\ f[c].kind = "to_tensor" /\ c \notin Visited(f, c)
         /\ f[c].args[1] \in Op /\ f[c].args[1] < c /\ f[f[c].args[1]].type = "value"
         /\ Visited(f, c) \subseteq Op
         /\ \A o \in Op : o \in Visited(f, c) <=>
              \E k \in 1 .. Len(f[o].args) : f[o].args[k] \in {c} \cup SubgraphViews(f, c)
         /\ \A o \in Visited(f, c) : o > c
<1>0. NumOps \in Nat /\ Op = 1 .. NumOps
  BY FunctionsAssumption DEF Op
<1>1. c \in Op /\ f[c].kind = "to_tensor"
  BY DEF IsSubgraph, Copies
<1>2. f \in [Op -> OpIR] /\ \A o \in Op : OpOK(f, o)
  BY FunctionIff DEF IsFunction
<1>3. f[c].args[1] \in Op /\ f[c].args[1] < c /\ f[f[c].args[1]].type = "value"
  <2>1. Len(f[c].args) = 1 /\ f[f[c].args[1]].type = "value"
    BY <1>1, <1>2 DEF OpOK
  <2>2. f[c].args[1] \in Operands(f, c)
    BY <1>1, <1>2, <2>1, OperandsAre
  <2> QED  BY <1>1, <2>1, <2>2, OperandOK
<1>4. Visited(f, c) \subseteq Op
  BY <1>1, VisitedAre
<1>5. \A o \in Op : o \in Visited(f, c) <=>
        \E k \in 1 .. Len(f[o].args) : f[o].args[k] \in {c} \cup SubgraphViews(f, c)
  BY <1>1, <1>2, VisitedAre, OperandsAre DEF SubgraphViews
<1>6. \A o \in Visited(f, c) : o > c
  <2> DEFINE S == {o \in Visited(f, c) : ~ (o > c)}
  <2>1. SUFFICES ASSUME S # {} PROVE FALSE
    OBVIOUS
  <2>2. S \subseteq Nat
    BY <1>0, <1>4
  <2>3. PICK x \in S : \A y \in S : x <= y
    <3> HIDE DEF S
    <3> QED  BY <2>1, <2>2, LeastElement
  <2>4. PICK v \in Operands(f, x) : v = c \/ v \in Visited(f, c)
    BY <1>1, <1>4, <2>3, VisitedAre
  <2>5. v \in Nat /\ x \in Nat /\ c \in Nat /\ v < x
    BY <1>0, <1>1, <1>4, <2>3, OperandOK
  <2>6. v # c /\ v \notin S
    BY <2>3, <2>5
  <2> QED  BY <2>3, <2>4, <2>5, <2>6
<1>7. c \notin Visited(f, c)
  BY <1>0, <1>1, <1>6
<1> QED  BY <1>1, <1>3, <1>4, <1>5, <1>6, <1>7

\* What stands for the operand v once the snapshots and the copy are gone.
SubgraphOperand(f, c, v) ==
  IF Through(f, SubgraphSnapshots(f, c), v) = c THEN f[c].args[1]
  ELSE Through(f, SubgraphSnapshots(f, c), v)

\* f with the subgraph of c converted, before what is returned is copied back.
SubgraphUncopied(f, c) ==
  Rename(Erase(Rename(f, LAMBDA o, v : Through(f, SubgraphSnapshots(f, c), v)), SubgraphSnapshots(f, c)),
         LAMBDA o, v : IF v = c THEN f[c].args[1] ELSE v)

SubgraphConverted(f, c) == WithValueSemantics(SubgraphUncopied(f, c), SubgraphViews(f, c))

SubgraphReturned(f, c) ==
  {k \in DOMAIN SubgraphUncopied(f, c)[NumOps].args :
     /\ NumOps \in Visited(f, c)
     /\ SubgraphUncopied(f, c)[NumOps].args[k] \in SubgraphViews(f, c)
     /\ IsMutable(f, SubgraphUncopied(f, c)[NumOps].args[k])}

SubgraphOperandsAre(h, f, c) ==
  /\ \A o \in Op \ SubgraphSnapshots(f, c) : \A k \in 1 .. Len(f[o].args) :
       h[o].args[k] = SubgraphOperand(f, c, f[o].args[k])
  /\ \A v \in Op : f[v].type # "none" /\ v \notin {c} \cup SubgraphSnapshots(f, c) =>
       SubgraphOperand(f, c, v) = v

SubgraphReturnedAre(f, c) ==
  \A k \in 1 .. Len(f[NumOps].args) :
    k \in SubgraphReturned(f, c) <=>
       /\ NumOps \in Visited(f, c)
       /\ SubgraphOperand(f, c, f[NumOps].args[k]) \in SubgraphViews(f, c)
       /\ IsMutable(f, SubgraphOperand(f, c, f[NumOps].args[k]))

LEMMA SubgraphIsConverted ==
  ASSUME NEW f, IsFunction(f), NEW c, IsSubgraph(f, c), NEW h, h = SubgraphConverted(f, c)
  PROVE  /\ RewriteSubgraph(f, c) = CopyReturned(h, SubgraphReturned(f, c))
         /\ h \in [Op -> OpIR] /\ AreErased(f, SubgraphSnapshots(f, c), SubgraphViews(f, c))
         /\ OpsConverted(h, f, SubgraphSnapshots(f, c), SubgraphViews(f, c))
         /\ OperandsConverted(h, f, SubgraphSnapshots(f, c), {c} \cup SubgraphViews(f, c))
         /\ OnlyViewsAreTurned(f, SubgraphSnapshots(f, c), SubgraphViews(f, c),
                               {c} \cup SubgraphViews(f, c))
         /\ SubgraphOperandsAre(h, f, c) /\ SubgraphReturnedAre(f, c)
<1> DEFINE E == SubgraphSnapshots(f, c)
           V == SubgraphViews(f, c)
           T == {c} \cup V
           g == Erase(Rename(f, LAMBDA o, v : Through(f, E, v)), E)
           u == Rename(g, LAMBDA o, v : IF v = c THEN f[c].args[1] ELSE v)
           To(v) == IF Through(f, E, v) = c THEN f[c].args[1] ELSE Through(f, E, v)
           N == [o \in Op |-> [k \in DOMAIN f[o].args |-> To(f[o].args[k])]]
<1>h. h = WithValueSemantics(u, V)
  BY DEF SubgraphConverted, SubgraphUncopied
<1>u. u = SubgraphUncopied(f, c)
  BY DEF SubgraphUncopied
<1>t. \A v : To(v) = SubgraphOperand(f, c, v)
  BY DEF SubgraphOperand
<1>0. NumOps \in Nat \ {0} /\ Op = 1 .. NumOps /\ NumOps \in Op
  BY FunctionsAssumption DEF Op
<1>1. f \in [Op -> OpIR] /\ \A o \in Op : OpOK(f, o)
  BY FunctionIff DEF IsFunction
<1>2. IsSubgraph(f, c)
  OBVIOUS
<1>3. RewriteSubgraph(f, c) = CopyReturned(h, SubgraphReturned(f, c))
  BY DEF RewriteSubgraph, SubgraphConverted, SubgraphUncopied, SubgraphReturned, SubgraphSnapshots,
         SubgraphViews
<1>4. E \subseteq Op /\ V \subseteq Op /\ c \notin E /\ c \notin V /\ c \in Op
  BY <1>2, SubgraphFacts DEF SubgraphSnapshots, SubgraphViews
<1>5. AreErased(f, E, V)
  BY <1>0, <1>1, <1>4 DEF OpOK, AreErased, SubgraphSnapshots, SubgraphViews, IsViewLikeOp
<1>6. ASSUME NEW o \in Op
      PROVE  /\ o \in E => h[o] = NoOp
             /\ o \notin E => h[o] = [kind |-> f[o].kind, args |-> N[o], type |-> h[o].type, block |-> f[o].block]
             /\ o \notin E => h[o].type = IF o \in V THEN "value" ELSE f[o].type
             /\ u[o].args = IF o \in E THEN <<>> ELSE N[o]
  <2>1. f[o] \in OpIR
    BY <1>1
  <2> DEFINE s == [k \in DOMAIN f[o].args |-> Through(f, E, f[o].args[k])]
  <2>2. g[o] = IF o \in E THEN NoOp ELSE [f[o] EXCEPT !.args = s]
    BY DEF Rename, Erase
  <2>3. u[o] = [g[o] EXCEPT !.args =
                  [k \in DOMAIN g[o].args |-> IF g[o].args[k] = c THEN f[c].args[1] ELSE g[o].args[k]]]
    BY DEF Rename
  <2>4. h[o] = IF o \in V THEN [u[o] EXCEPT !.type = "value"] ELSE u[o]
    BY <1>h DEF WithValueSemantics
  <2>5. ~ (o \in V /\ o \in E)
    BY <1>5 DEF AreErased
  <2>6. DOMAIN s = DOMAIN f[o].args /\ \A k \in DOMAIN f[o].args : s[k] = Through(f, E, f[o].args[k])
    OBVIOUS
  <2>7. N[o] = [k \in DOMAIN f[o].args |-> To(f[o].args[k])]
    OBVIOUS
  <2> HIDE DEF s, g, u, E, V, N
  <2>8. CASE o \in E
    BY <2>2, <2>8, <2>3, <2>4, <2>5 DEF NoOp
  <2>9. CASE o \notin E
    <3>1. g[o] = [kind |-> f[o].kind, args |-> s, type |-> f[o].type, block |-> f[o].block]
      BY <2>1, <2>2, <2>9 DEF OpIR
    <3>2. u[o] = [kind |-> f[o].kind, args |-> [k \in DOMAIN s |-> IF s[k] = c THEN f[c].args[1] ELSE s[k]],
                  type |-> f[o].type, block |-> f[o].block]
      BY <2>3, <3>1
    <3>3. [k \in DOMAIN s |-> IF s[k] = c THEN f[c].args[1] ELSE s[k]] = N[o]
      BY <2>6, <2>7
    <3>4. u[o] = [kind |-> f[o].kind, args |-> N[o], type |-> f[o].type, block |-> f[o].block]
      BY <3>2, <3>3
    <3>5. CASE o \in V
      BY <2>4, <3>4, <3>5, <2>9
    <3>6. CASE o \notin V
      BY <2>4, <3>4, <3>6, <2>9
    <3> QED  BY <3>5, <3>6
  <2> QED  BY <2>8, <2>9
<1>7. ASSUME NEW v \in Op, f[v].type # "none"
      PROVE  /\ To(v) \in Op /\ To(v) <= v /\ To(v) \notin E
             /\ v \in T => To(v) \in V \/ f[To(v)].type = "value"
             /\ v \notin T /\ v \in E => f[v].type = "value" /\ (To(v) \in V \/ f[To(v)].type = "value")
             /\ v \notin T /\ v \notin E => To(v) = v
             /\ v \in V => To(v) = v
  <2> DEFINE b == f[c].args[1]
  <2>1. b \in Op /\ b < c /\ f[b].type = "value" /\ b \notin E
    BY <1>2, <1>0, <1>4, SubgraphFacts DEF SubgraphSnapshots
  <2>2. ASSUME NEW y \in E
        PROVE  f[y].args[1] \in Op /\ f[y].args[1] < y /\ f[y].args[1] \in T /\ f[y].type = "value"
    BY <1>1, <1>4, <1>2, SubgraphFacts DEF OpOK, SubgraphSnapshots
  <2>3. \A y \in Op : Through(f, E, y) = IF y \in E /\ f[y].args[1] < y THEN Through(f, E, f[y].args[1]) ELSE y
    BY <2>2, ThroughIs
  <2>4. \A y \in T : y \in Op /\ y \notin E
    BY <1>4, <1>5 DEF AreErased
  <2>5. \A y \in T : Through(f, E, y) = y
    BY <2>3, <2>4
  <2>6. CASE v \in E
    <3> DEFINE a == f[v].args[1]
    <3>1. a \in T /\ a < v /\ f[v].type = "value" /\ Through(f, E, v) = a
      BY <2>2, <2>3, <2>5, <2>6
    <3>2. a \in Op /\ a \notin E
      BY <2>4, <3>1
    <3> HIDE DEF a, b, E
    <3>3. v \notin T
      BY <2>4, <2>6
    <3>4. To(v) = IF a = c THEN b ELSE a
      BY <3>1 DEF b
    <3>5. To(v) <= v
      BY <1>0, <2>1, <3>1, <3>2, <3>4
    <3> QED  BY <1>4, <2>1, <2>6, <3>1, <3>2, <3>3, <3>4, <3>5
  <2>7. CASE v \notin E
    <3>1. Through(f, E, v) = v
      BY <2>3, <2>7
    <3> HIDE DEF b, E
    <3>2. To(v) = IF v = c THEN b ELSE v
      BY <3>1 DEF b
    <3>3. To(v) <= v
      BY <1>0, <2>1, <3>2
    <3> QED  BY <1>4, <2>1, <2>7, <3>2, <3>3
  <2> QED  BY <2>6, <2>7
<1>7a. h = [o \in Op |-> h[o]]
  BY <1>h DEF WithValueSemantics
<1> HIDE DEF u, g, To, E, V
<1>8. ASSUME NEW o \in Op, NEW k \in 1 .. Len(f[o].args)
      PROVE  f[o].args[k] \in Op /\ f[o].args[k] < o /\ f[f[o].args[k]].type # "none" /\ N[o][k] = To(f[o].args[k])
  BY <1>1, OperandsAre DEF OpOK
<1>9. ASSUME NEW o \in Op
      PROVE  N[o] \in Seq(Op) /\ Len(N[o]) = Len(f[o].args)
  <2>1. f[o].args \in Seq(Op) /\ DOMAIN f[o].args = 1 .. Len(f[o].args)
    BY <1>1, OperandsAre
  <2>2. \A k \in 1 .. Len(f[o].args) : N[o][k] \in Op
    <3> HIDE DEF N
    <3> QED  BY <1>7, <1>8
  <2>3. N[o] = [k \in DOMAIN f[o].args |-> N[o][k]]
    OBVIOUS
  <2> HIDE DEF N
  <2> QED  BY <2>1, <2>2, <2>3, RenamedOperands
<1> HIDE DEF N
<1>10. h \in [Op -> OpIR]
  <2>1. ASSUME NEW o \in Op PROVE h[o] \in OpIR
    <3>1. CASE o \in E
      <4>1. NoOp \in OpIR
        BY DEF NoOp, OpIR, Kind
      <4> QED  BY <1>6, <3>1, <4>1
    <3>2. CASE o \notin E
      <4>1. /\ f[o].kind \in Kind /\ f[o].type \in {"value", "mutable", "list", "none"}
            /\ f[o].block \in {1, 2}
        BY <1>1 DEF OpIR
      <4>2. h[o].type \in {"value", "mutable", "list", "none"}
        BY <1>6, <3>2, <4>1
      <4>3. h[o] = [kind |-> f[o].kind, args |-> N[o], type |-> h[o].type, block |-> f[o].block]
        BY <1>6, <3>2
      <4> QED  BY <1>9, <4>1, <4>2, <4>3 DEF OpIR
    <3> QED  BY <3>1, <3>2
  <2> QED  BY <1>7a, <2>1
<1>11. \A o \in Op \ E : h[o].kind = f[o].kind /\ h[o].args = N[o]
  <2> SUFFICES ASSUME NEW o \in Op \ E PROVE h[o].kind = f[o].kind /\ h[o].args = N[o]
    OBVIOUS
  <2>1. h[o] = [kind |-> f[o].kind, args |-> N[o], type |-> h[o].type, block |-> f[o].block]
    BY <1>6
  <2> QED  BY <2>1
<1>12. OpsConverted(h, f, E, V)
  BY <1>4, <1>6, <1>9, <1>11 DEF OpsConverted
<1>13. ASSUME NEW o \in Op \ E, NEW k \in 1 .. Len(f[o].args)
       PROVE  /\ h[o].args[k] = To(f[o].args[k])
              /\ h[o].args[k] < o
              /\ h[h[o].args[k]].type = IF f[o].args[k] \in T THEN "value" ELSE f[f[o].args[k]].type
  <2> DEFINE v == f[o].args[k]
             t == To(v)
  <2>1. h[o].args[k] = t /\ v \in Op /\ v < o /\ f[v].type # "none"
    BY <1>8, <1>11
  <2> HIDE DEF v
  <2>2. /\ t \in Op /\ t <= v /\ t \notin E
        /\ v \in T => t \in V \/ f[t].type = "value"
        /\ v \notin T /\ v \in E => f[v].type = "value" /\ (t \in V \/ f[t].type = "value")
        /\ v \notin T /\ v \notin E => t = v
    BY <1>7, <2>1
  <2> HIDE DEF t, T
  <2>3. h[t].type = IF t \in V THEN "value" ELSE f[t].type
    BY <1>6, <2>2
  <2>4. t < o
    BY <1>0, <2>1, <2>2
  <2>5. v \notin T => v \notin V
    BY DEF T
  <2> QED  BY <2>1, <2>2, <2>3, <2>4, <2>5 DEF v, t
<1>14. OperandsConverted(h, f, E, T)
  BY <1>13 DEF OperandsConverted
<1>15. OnlyViewsAreTurned(f, E, V, T)
  <2>1. ASSUME NEW o \in Op \ E, NEW k \in 1 .. Len(f[o].args), f[o].args[k] \in T
        PROVE  o \in V \/ o = NumOps
    BY <1>2, <2>1, <1>1, SubgraphFacts DEF V, IsSubgraph, E, SubgraphSnapshots, OpOK, SubgraphViews,
       IsViewLikeOp
  <2>2. \A o \in V : \E k \in 1 .. Len(f[o].args) : f[o].args[k] \in T
    BY <1>2, <1>4, SubgraphFacts DEF V, SubgraphViews
  <2> QED  BY <2>1, <2>2 DEF OnlyViewsAreTurned
<1>16. ASSUME NEW k \in 1 .. Len(f[NumOps].args)
       PROVE  k \in SubgraphReturned(f, c) <=>
                /\ NumOps \in Visited(f, c) /\ To(f[NumOps].args[k]) \in V
                /\ IsMutable(f, To(f[NumOps].args[k]))
  <2>1. NumOps \notin E
    BY <1>5 DEF AreErased
  <2>2. u[NumOps].args = N[NumOps]
    BY <1>0, <1>6, <2>1
  <2>3. N[NumOps] \in Seq(Op) /\ Len(N[NumOps]) = Len(f[NumOps].args) /\ N[NumOps][k] = To(f[NumOps].args[k])
    BY <1>0, <1>8, <1>9
  <2>4. k \in DOMAIN u[NumOps].args
    BY <2>2, <2>3
  <2> QED  BY <1>u, <2>2, <2>3, <2>4 DEF SubgraphReturned, V
<1>17. ASSUME NEW v \in Op, f[v].type # "none", v \notin {c} \cup E PROVE To(v) = v
  <2>1. v \notin T \/ v \in V
    BY <1>17
  <2> HIDE DEF T
  <2> QED  BY <1>7, <1>17, <2>1
<1>18. ASSUME NEW o \in Op \ E, NEW k \in 1 .. Len(f[o].args)
       PROVE  h[o].args[k] = To(f[o].args[k])
  BY <1>13
<1> HIDE DEF T, N
<1>19. SubgraphOperandsAre(h, f, c)
  BY <1>17, <1>18, <1>t DEF SubgraphOperandsAre, E
<1>20. SubgraphReturnedAre(f, c)
  BY <1>16, <1>t DEF SubgraphReturnedAre, V
<1> QED  BY <1>3, <1>5, <1>10, <1>12, <1>14, <1>15, <1>19, <1>20 DEF E, V, T

\* Then the mutable views that the second pattern visits are the aliases of the copy.
LEMMA VisitedAliases ==
  ASSUME NEW f, IsFunction(f), MutableViewsReadOne(f), NEW c, IsSubgraph(f, c)
  PROVE  /\ \A v \in Op : v \in Aliases(f, c) <=> v = c \/ (v \in SubgraphViews(f, c) /\ IsMutable(f, v))
         /\ Slice(f, c) \subseteq Visited(f, c)
<1> DEFINE A == Aliases(f, c)
           V == SubgraphViews(f, c)
           S == {v \in Op : v \in A <=> v = c \/ (v \in V /\ IsMutable(f, v))}
<1>1. f \in [Op -> OpIR] /\ c \in Op /\ \A o \in Op : OpOK(f, o)
  BY FunctionIff DEF IsFunction, IsSubgraph, Copies
<1>2. \A v \in Op : v \in A <=>
              \/ v = c
              \/ IsViewLikeOp(f, v) /\ IsMutable(f, v) /\ f[v].args[1] < v /\ f[v].args[1] \in A
  BY <1>1, AliasesAre
<1>3. \A o \in Op : o \in Visited(f, c) <=>
        \E k \in 1 .. Len(f[o].args) : f[o].args[k] \in {c} \cup V
  BY SubgraphFacts
<1>4. \A v \in Op : v \in V <=> v \in Visited(f, c) /\ IsViewLikeOp(f, v)
  BY DEF SubgraphViews
<1> HIDE DEF A, V
<1>5. ASSUME NEW v \in Op, \A u \in Op : u < v => u \in S PROVE v \in S
  <2>1. CASE v = c \/ ~ IsViewLikeOp(f, v) \/ ~ IsMutable(f, v)
    BY <1>2, <1>4, <2>1
  <2>2. CASE v # c /\ IsViewLikeOp(f, v) /\ IsMutable(f, v)
    <3>1. Len(f[v].args) = 1 /\ IsMutable(f, f[v].args[1])
      BY <1>1, <2>2 DEF MutableViewsReadOne, IsViewLikeOp, OpOK, IsMutable
    <3>2. PICK a : a = f[v].args[1]
      OBVIOUS
    <3>3. a \in Op /\ a < v /\ IsMutable(f, a)
      BY <3>1, <1>1, <3>2, OperandsAre DEF OpOK
    <3>4. v \in V <=> a \in {c} \cup V
      BY <1>3, <1>4, <2>2, <3>1, <3>2
    <3>5. a \in A <=> a = c \/ a \in V
      BY <1>5, <3>3
    <3> QED  BY <1>2, <2>2, <3>2, <3>3, <3>4, <3>5
  <2> QED  BY <2>1, <2>2
<1>6. Op \subseteq S
  <2> HIDE DEF S
  <2> QED  BY <1>5, OpInduction
<1>7. A \subseteq {c} \cup V
  BY <1>1, <1>6, AliasesAre DEF A
<1>8. ASSUME NEW o \in Slice(f, c) PROVE o \in Visited(f, c)
  BY <1>1, <1>3, <1>7, OperandsAre DEF Slice, A
<1> QED  BY <1>6, <1>8 DEF A, V

\* The ops the second pattern gives other operands, or erases.
SubgraphErased(f, c) == {c} \cup SubgraphSnapshots(f, c)

\* The second pattern changes only the ops of the subgraph.
LEMMA SubgraphCarried ==
  ASSUME NEW f, IsFunction(f), MutableViewsReadOne(f), NEW c, IsSubgraph(f, c), NEW h, h = SubgraphConverted(f, c)
  PROVE  Carried(f, h, Aliases(f, c), SubgraphErased(f, c))
<1> DEFINE A == Aliases(f, c)
           E == SubgraphErased(f, c)
           V == SubgraphViews(f, c)
<1>1. f \in [Op -> OpIR] /\ c \in Op /\ f[c].kind = "to_tensor" /\ \A o \in Op : OpOK(f, o)
  BY FunctionIff DEF IsFunction, IsSubgraph, Copies
<1>2. OpsConverted(h, f, SubgraphSnapshots(f, c), V) /\ AreErased(f, SubgraphSnapshots(f, c), V)
  BY SubgraphIsConverted
<1>3. A \subseteq Op /\ \A v \in Op : v \in A <=> v = c \/ (v \in V /\ IsMutable(f, v))
  BY <1>1, VisitedAliases, AliasesAre
<1>4. \A o \in Op \ E : /\ h[o].kind = f[o].kind /\ Len(h[o].args) = Len(f[o].args)
                        /\ IsMutable(h, o) <=> IsMutable(f, o) /\ o \notin A
  BY <1>2, <1>3 DEF OpsConverted, IsMutable, SubgraphErased
<1>5. \A o \in E : /\ f[o].kind \in {"to_tensor", "to_vtensor"}
                   /\ h[o].kind \in {"to_tensor", "none"}
  BY <1>1, <1>2 DEF OpsConverted, NoOp, SubgraphErased, SubgraphSnapshots
<1>6. ASSUME NEW o \in Op \ E, NEW k \in 1 .. Len(f[o].args), f[o].args[k] \in A
      PROVE  f[o].kind \in {"view", "cast", "return"} /\ (IsMutable(f, o) => o \in A)
  <2>1. o \in Visited(f, c)
    BY <1>3, <1>6, SubgraphFacts DEF V
  <2>2. f[o].kind \in {"view", "cast", "return"}
    BY <2>1 DEF IsSubgraph, SubgraphErased, SubgraphSnapshots
  <2>3. IsMutable(f, o) => f[o].kind # "return"
    BY <1>1 DEF OpOK, IsMutable
  <2> QED  BY <1>3, <2>1, <2>2, <2>3 DEF SubgraphViews, IsViewLikeOp
<1>7. \A o \in A : o \in Op /\ IsMutable(f, o) /\ (o \notin E => IsViewLikeOp(f, o))
  BY <1>1, <1>3 DEF OpOK, IsMutable, SubgraphErased, SubgraphViews
<1> HIDE DEF A, E
<1>8. \A o \in E : /\ f[o].kind \notin {"append", "inplace", "other"}
                   /\ h[o].kind \notin {"append", "overwrite", "inplace", "other"}
  BY <1>5
<1>9. \A o \in Op \ E : \A k \in 1 .. Len(f[o].args) : f[o].args[k] \in A =>
        f[o].kind \in {"view", "cast", "return"} /\ (IsMutable(f, o) => o \in A)
  BY <1>6
<1>10. Carried(f, h, A, E)
  BY <1>4, <1>7, <1>8, <1>9 DEF Carried
<1> QED  BY <1>10 DEF A, E

\* What stands for the copy and its snapshots.
LEMMA SubgraphSources ==
  ASSUME NEW f, IsFunction(f), NEW c, IsSubgraph(f, c)
  PROVE  /\ SubgraphOperand(f, c, c) = f[c].args[1]
         /\ \A v \in SubgraphSnapshots(f, c) :
              /\ SubgraphOperand(f, c, v) = IF f[v].args[1] = c THEN f[c].args[1] ELSE f[v].args[1]
              /\ f[v].args[1] \in {c} \cup SubgraphViews(f, c) /\ f[v].args[1] \in Op
              /\ f[v].args[1] < v /\ f[v].type = "value" /\ IsMutable(f, f[v].args[1])
<1> DEFINE E == SubgraphSnapshots(f, c)
           T == {c} \cup SubgraphViews(f, c)
<1>1. f \in [Op -> OpIR] /\ c \in Op /\ \A o \in Op : OpOK(f, o)
  BY FunctionIff DEF IsFunction, IsSubgraph, Copies
<1>2. E \subseteq Op /\ T \subseteq Op /\ T \cap E = {}
  BY SubgraphFacts DEF SubgraphSnapshots, SubgraphViews, IsViewLikeOp
<1>3. ASSUME NEW y \in E
      PROVE  /\ f[y].args[1] \in Op /\ f[y].args[1] < y /\ f[y].args[1] \in T /\ f[y].type = "value"
             /\ IsMutable(f, f[y].args[1])
  BY <1>1, <1>2, SubgraphFacts DEF OpOK, SubgraphSnapshots
<1>4. \A y \in Op : Through(f, E, y) = IF y \in E /\ f[y].args[1] < y THEN Through(f, E, f[y].args[1]) ELSE y
  BY <1>3, ThroughIs
<1>5. \A y \in T : Through(f, E, y) = y
  BY <1>2, <1>4
<1>6. \A y \in E : Through(f, E, y) = f[y].args[1]
  BY <1>2, <1>3, <1>4, <1>5
<1> QED  BY <1>3, <1>5, <1>6 DEF SubgraphOperand

\* Nothing is seen of the rewriting of a subgraph whose views read one tensor each.
LEMMA SubgraphObserved ==
  ASSUME NEW f, IsFunction(f), MutableViewsReadOne(f), NEW c, IsSubgraph(f, c), NEW h, h = SubgraphConverted(f, c),
         IsFunction(h), NEW s
  PROVE  Observed(s, h) = Observed(s, f)
<1>1. f \in [Op -> OpIR] /\ c \in Op /\ f[c].kind = "to_tensor" /\ IsMutable(f, c) /\ \A o \in Op : OpOK(f, o)
  <2>1. f \in [Op -> OpIR] /\ c \in Op /\ f[c].kind = "to_tensor" /\ \A o \in Op : OpOK(f, o)
    BY FunctionIff DEF IsFunction, IsSubgraph, Copies
  <2> QED  BY <2>1 DEF OpOK, IsMutable
<1>2. PICK A, E : A = Aliases(f, c) /\ E = SubgraphErased(f, c)
  OBVIOUS
<1>3. PICK m, p : m = Meaning(s, f) /\ p = Meaning(s, h)
  OBVIOUS
<1>4. Meant(m, s, f) /\ Meant(p, s, h)
  BY <1>3 DEF Meant
<1>5. Carried(f, h, A, E)
  BY <1>2, SubgraphCarried
<1>6. /\ Slice(f, c) \subseteq Visited(f, c)
      /\ \A v \in Op : v \in A <=> v = c \/ (v \in SubgraphViews(f, c) /\ IsMutable(f, v))
  BY <1>2, VisitedAliases
<1>7. \A o \in Slice(f, c) : f[o].kind \in {"view", "cast", "to_vtensor", "return"}
  BY <1>6 DEF IsSubgraph
<1>8. A \subseteq Op /\ \A v \in A : v = c \/ (IsViewLikeOp(f, v) /\ IsMutable(f, v) /\ f[v].args[1] \in A)
  BY <1>1, <1>2, AliasesAre
<1>9. \A v \in Op : IsMutable(f, v) => (m[v].base = c <=> v \in A)
  BY <1>1, <1>2, <1>4, <1>7, AliasesShareBase
<1>10. \A w \in Writes(f) : m[w].base # c
  BY <1>1, <1>4, <1>7, WritersInSlice DEF Writes
<1>11. \A i : WritesTo(f, m, c, i) = {}
  BY <1>10 DEF WritesTo
<1>12. \A v \in A : \A i, j : Contents(f, m, v, i) = Contents(f, m, v, j)
  <2> SUFFICES ASSUME NEW v \in A, NEW i, NEW j PROVE Contents(f, m, v, i) = Contents(f, m, v, j)
    OBVIOUS
  <2>1. \A o \in Slice(f, c) : f[o].kind # "inplace"
    BY <1>7
  <2>2. WritesTo(f, m, c, i) = WritesTo(f, m, c, j) /\ v \in Aliases(f, c)
    BY <1>2, <1>11
  <2> QED  BY <1>1, <1>4, <2>1, <2>2, AliasContents
<1>13. \A o \in E : f[o].kind \in {"to_tensor", "to_vtensor"} /\ o \in Op /\ (o # c => o \in SubgraphSnapshots(f, c))
  BY <1>1, <1>2, VisitedAre DEF SubgraphErased, SubgraphSnapshots
<1>14. Apart(f, m, A, E)
  <2>1. ASSUME NEW v \in Op \ (A \cup E), IsMutable(f, v) PROVE m[v].base \notin A \cup E
    BY <1>4, <2>1, <1>9, <1>8, <1>13, Placed DEF IsPlaced, IsMutable, IsViewLikeOp,
       SubgraphSnapshots
  <2> QED  BY <1>13, <2>1 DEF Apart
<1>15. ASSUME NEW i \in A \ E PROVE ViewReads(f, m, i)
  <2>1. i \in Op /\ i # c /\ IsViewLikeOp(f, i) /\ IsMutable(f, i) /\ f[i].args[1] \in A
    BY <1>2, <1>8, <1>15 DEF SubgraphErased
  <2>2. PICK a : a = f[i].args[1]
    OBVIOUS
  <2>3. m[a].base = c
    BY <1>9, <1>15, <2>1, <1>1, <1>8, <2>2
  <2>4. WritesTo(f, m, c, i) = {}
    BY <1>11
  <2> QED  BY <1>4, <2>1, <2>2, <2>3, <2>4, ViewReadsIs
<1>16. PICK b : b = f[c].args[1]
  OBVIOUS
<1>17. b \in Op /\ b < c /\ f[b].type = "value" /\ b \notin A \cup E
  <2>1. b \in Op /\ b < c /\ f[b].type = "value" /\ \A o \in Visited(f, c) : o > c
    BY <1>16, SubgraphFacts
  <2>2. b # c /\ b \notin Visited(f, c)
    BY <1>1, <2>1 DEF Op
  <2>3. b \notin A
    BY <1>1, <1>8, <2>1 DEF IsMutable
  <2> QED  BY <1>2, <2>1, <2>2, <2>3 DEF SubgraphErased, SubgraphSnapshots
<1>18. \A i : Contents(f, m, c, i) = m[b].term
  BY <1>1, <1>4, <1>11, <1>16, <1>17, CopiedContents, ValueContents
<1>19. \A o \in Op \ SubgraphSnapshots(f, c) : \A k \in 1 .. Len(f[o].args) :
              h[o].args[k] = SubgraphOperand(f, c, f[o].args[k])
  <2>1. SubgraphOperandsAre(h, f, c)
    BY SubgraphIsConverted
  <2> QED  BY <2>1 DEF SubgraphOperandsAre
<1>20. \A v \in Op : f[v].type # "none" /\ v \notin E => SubgraphOperand(f, c, v) = v
  <2>1. SubgraphOperandsAre(h, f, c)
    BY SubgraphIsConverted
  <2> QED  BY <1>2, <2>1 DEF SubgraphOperandsAre, SubgraphErased
<1>21. /\ SubgraphOperand(f, c, c) = b
       /\ \A v \in SubgraphSnapshots(f, c) : SubgraphOperand(f, c, v) = IF f[v].args[1] = c THEN b ELSE f[v].args[1]
  BY <1>16, SubgraphSources
<1>22. \A v \in SubgraphSnapshots(f, c) : f[v].args[1] \in A /\ f[v].args[1] < v /\ f[v].type = "value" /\ f[v].kind = "to_vtensor"
  BY <1>6, SubgraphSources DEF SubgraphSnapshots
<1>23. \A o \in Op \ E : h[o].kind = f[o].kind
  BY <1>5 DEF Carried
<1>24. \A o \in A \ E : h[o].type = "value"
  <2>1. OpsConverted(h, f, SubgraphSnapshots(f, c), SubgraphViews(f, c))
    BY SubgraphIsConverted
  <2>2. \A o \in A \ E : o \in Op \ SubgraphSnapshots(f, c) /\ o \in SubgraphViews(f, c)
    BY <1>2, <1>6, <1>8 DEF SubgraphErased
  <2> QED  BY <2>1, <2>2 DEF OpsConverted
<1>25. ASSUME NEW i \in Op \ E, SimulatedBefore(f, m, h, p, A, E, i)
       PROVE  OperandsAgree(f, m, h, p, A, E, i)
  <2> SUFFICES ASSUME NEW k \in 1 .. Len(f[i].args)
               PROVE  Agrees(f, m, h, p, A, E, i, f[i].args[k], h[i].args[k])
    BY DEF OperandsAgree
  <2>1. PICK v, y : v = f[i].args[k] /\ y = h[i].args[k]
    OBVIOUS
  <2>2. v \in Op /\ v < i /\ f[v].type # "none" /\ i \in Nat
    <3>1. v \in Op
      BY <1>1, <2>1, OperandsAre
    <3> QED  BY <1>1, <2>1, <3>1 DEF OpOK, Op
  <2>3. y = SubgraphOperand(f, c, v)
    BY <1>2, <1>19, <2>1 DEF SubgraphErased
  <2>4. ASSUME v = c \/ v \in E PROVE b < i
    <3>1. v = c \/ v > c
      BY <1>2, <2>4, SubgraphFacts DEF SubgraphErased, SubgraphSnapshots
    <3> QED  BY <1>1, <1>17, <2>2, <3>1 DEF Op
  <2>5. \A o \in Op : o < i => Simulated(f, m, h, p, A, E, o)
    BY <1>25 DEF SimulatedBefore
  <2>6. b < i => p[b] = m[b] /\ m[b] = Known(0, <<>>, m[b].term) /\ h[b].kind # "list"
    BY <1>4, <1>17, <1>23, <2>5, ValueContents DEF Simulated
  <2>7. CASE v = c
    <3>1. y = b /\ v \in A
      BY <1>6, <1>21, <2>2, <2>3, <2>7
    <3>2. p[b].base = 0 /\ p[b].term = m[b].term /\ h[b].kind # "list"
      BY <2>4, <2>6, <2>7, KnownIs
    <3> QED  BY <1>18, <2>1, <2>7, <3>1, <3>2 DEF Agrees
  <2>8. CASE v \in A /\ v # c
    BY <1>8, <1>13, <2>8, <1>20, <2>2, <2>3, <2>5, <1>23, <1>12, <2>1 DEF IsViewLikeOp, Simulated,
       Agrees
  <2>9. CASE v \in SubgraphSnapshots(f, c)
    <3>1. PICK a : a = f[v].args[1]
      OBVIOUS
    <3>2. a \in A /\ a < v /\ f[v].type = "value" /\ f[v].kind = "to_vtensor" /\ v \notin A
      BY <1>8, <1>22, <2>9, <3>1, <1>1 DEF IsMutable
    <3>3. m[v] = Known(0, <<>>, Contents(f, m, a, v))
      <4>1. Contents(f, m, v, i) = Contents(f, m, a, v)
        BY <1>4, <2>2, <3>1, <3>2, CopiedContents
      <4>2. Contents(f, m, v, i) = m[v].term /\ m[v] = Known(0, <<>>, m[v].term)
        BY <1>4, <2>2, <3>2, ValueContents
      <4> QED  BY <4>1, <4>2
    <3>4. p[y] = m[v] /\ h[y].kind # "list"
      <4>1. CASE a = c
        <5>1. y = b
          BY <1>21, <2>3, <2>9, <3>1, <4>1
        <5>2. v \in E
          BY <1>2, <2>9 DEF SubgraphErased
        <5> QED  BY <1>18, <2>4, <2>6, <3>3, <4>1, <5>1, <5>2
      <4>2. CASE a # c
        <5>1. y = a /\ a \in Op /\ a < i /\ a \in A \ E /\ IsViewLikeOp(f, a)
          BY <1>8, <1>13, <3>2, <4>2, <2>2, <1>21, <2>3, <2>9, <3>1 DEF IsViewLikeOp, Op
        <5>2. p[a].term = Contents(f, m, a, v)
          BY <1>12, <2>5, <3>2, <5>1 DEF Simulated
        <5>3. p[a] = Known(0, <<>>, p[a].term)
          BY <1>4, <1>24, <5>1, ValueContents
        <5>4. h[a].kind # "list"
          BY <1>23, <5>1 DEF IsViewLikeOp
        <5> QED  BY <3>3, <5>1, <5>2, <5>3, <5>4
      <4> QED  BY <4>1, <4>2
    <3> QED  BY <2>1, <3>2, <3>4 DEF Agrees
  <2>10. CASE v \notin A /\ v \notin E
    BY <1>20, <1>23, <2>2, <2>3, <2>5, <2>10, <2>1 DEF Simulated, Agrees
  <2> QED  BY <1>13, <2>7, <2>8, <2>9, <2>10
<1>26. NumOps \notin E
  BY <1>1, <1>13, FunctionsAssumption DEF Op, OpOK
<1> QED  BY <1>4, <1>5, <1>14, <1>15, <1>25, <1>26, ObservedCarried

\* Rewriting a subgraph leaves a function, which returns the same if views read one tensor each.
LEMMA SubgraphRewritten ==
  ASSUME NEW f, IsFunction(f), HasRoom(f), NEW c \in Copies(f), IsViewLikeSubgraph(f, c)
  PROVE  /\ IsFunction(RewriteSubgraph(f, c))
         /\ ~ ReturnsBesidesViews(f, c) => ResultTypes(RewriteSubgraph(f, c)) = ResultTypes(f)
         /\ KeepsViews(RewriteSubgraph(f, c), f)
         /\ MutableViewsReadOne(f) => Preserves(RewriteSubgraph(f, c), f)
<1> DEFINE E == SubgraphSnapshots(f, c)
           V == SubgraphViews(f, c)
           T == {c} \cup V
           K == SubgraphReturned(f, c)
           h == SubgraphConverted(f, c)
           To(v) == SubgraphOperand(f, c, v)
<1>1. NumOps \in Op /\ f \in [Op -> OpIR] /\ \A o \in Op : OpOK(f, o)
  BY FunctionIff, FunctionsAssumption DEF IsFunction, Op
<1>2. IsSubgraph(f, c)
  BY DEF IsSubgraph, IsViewLikeSubgraph
<1>3. /\ RewriteSubgraph(f, c) = CopyReturned(h, K)
      /\ h \in [Op -> OpIR] /\ AreErased(f, E, V) /\ OpsConverted(h, f, E, V)
      /\ OperandsConverted(h, f, E, T) /\ OnlyViewsAreTurned(f, E, V, T)
  BY <1>2, SubgraphIsConverted
<1>3a. /\ \A o \in Op \ E : \A k \in 1 .. Len(f[o].args) : h[o].args[k] = To(f[o].args[k])
       /\ \A v \in Op : f[v].type # "none" /\ v \notin {c} \cup E => To(v) = v
  <2>1. SubgraphOperandsAre(h, f, c)
    BY <1>2, SubgraphIsConverted
  <2> QED  BY <2>1 DEF SubgraphOperandsAre
<1>3b. \A k \in 1 .. Len(f[NumOps].args) :
         k \in K <=> /\ NumOps \in Visited(f, c) /\ To(f[NumOps].args[k]) \in V
                    /\ IsMutable(f, To(f[NumOps].args[k]))
  <2>1. SubgraphReturnedAre(f, c)
    BY <1>2, SubgraphIsConverted
  <2> QED  BY <2>1 DEF SubgraphReturnedAre
<1>3c. h = SubgraphConverted(f, c)
  OBVIOUS
<1> HIDE DEF h, K, E, V, T, To
<1>4. /\ IsFunction(h) /\ HasRoom(h) /\ Len(h[NumOps].args) = Len(f[NumOps].args)
      /\ \A k \in 1 .. Len(f[NumOps].args) :
           TypeAt(h, k) = IF f[NumOps].args[k] \in T THEN "value" ELSE TypeAt(f, k)
  BY <1>3, ConversionIsTyped
<1>5. ASSUME NEW k \in 1 .. Len(f[NumOps].args), k \in K
      PROVE  TypeAt(h, k) = "value"
  BY <1>1, <1>3, <1>3a, <1>3b, <1>5 DEF AreErased, OpsConverted, TypeAt
<1>6. \A k \in 1 .. Len(f[NumOps].args) : k \in K => TypeAt(h, k) \in {"value", "mutable"}
  BY <1>5
<1>7. ASSUME ~ ReturnsBesidesViews(f, c), NEW k \in 1 .. Len(f[NumOps].args)
      PROVE  TypeAt(f, k) = IF k \in K THEN "mutable" ELSE TypeAt(h, k)
  <2> DEFINE v == f[NumOps].args[k]
  <2>1. v \in Op /\ f[v].type # "none" /\ k \in DOMAIN f[NumOps].args
    BY <1>1, OperandsAre DEF OpOK
  <2>2. v # c /\ v \notin E
    BY <1>7, <2>1 DEF ReturnsBesidesViews, Uses, E, SubgraphSnapshots
  <2> HIDE DEF v
  <2>3. To(v) = v
    BY <1>3a, <2>1, <2>2
  <2>4. TypeAt(f, k) = f[v].type /\ TypeAt(h, k) = IF v \in T THEN "value" ELSE TypeAt(f, k)
    BY <1>4 DEF TypeAt, v
  <2>5. k \in K <=> NumOps \in Visited(f, c) /\ v \in V /\ f[v].type = "mutable"
    BY <1>3b, <2>3 DEF v, IsMutable
  <2>6. CASE v \in V
    BY <1>1, <1>2, <2>6, <2>1, <2>4, <2>5, SubgraphFacts DEF V, v, OpOK, SubgraphViews,
       IsViewLikeOp, T
  <2>7. CASE v \notin V
    BY <2>2, <2>4, <2>5, <2>7 DEF T
  <2> QED  BY <2>6, <2>7
<1>8. ~ ReturnsBesidesViews(f, c) =>
         \A k \in 1 .. Len(f[NumOps].args) : TypeAt(f, k) = IF k \in K THEN "mutable" ELSE TypeAt(h, k)
  BY <1>7
<1>9. KeepsViews(CopyReturned(h, K), h)
  BY <1>4, <1>6, ResultsCopied
<1>10. KeepsViews(RewriteSubgraph(f, c), f)
  BY <1>3, <1>9, ConversionKeepsViews, KeepsViewsTransitive
<1>11. ASSUME MutableViewsReadOne(f) PROVE Preserves(RewriteSubgraph(f, c), f)
  <2>1. Preserves(CopyReturned(h, K), h)
    BY <1>4, <1>6, ResultsCopied
  <2>2. MutableViewsReadOne(h)
    BY <1>3, <1>11, ConversionKeepsViews
  <2>3. \A s : Observed(s, h) = Observed(s, f)
    BY <1>2, <1>3c, <1>4, <1>11, SubgraphObserved
  <2>4. CastsStay(h, f)
    <3>1. ASSUME NEW o \in Op \ E, NEW k \in 1 .. Len(f[o].args), IsMutable(h, h[o].args[k])
          PROVE  h[o].args[k] = f[o].args[k]
      <4>1. PICK v : v = f[o].args[k]
        OBVIOUS
      <4>2. v \in Op /\ f[v].type # "none"
        BY <1>1, <4>1, OperandsAre, OperandOK
      <4>3. h[h[o].args[k]].type = IF v \in T THEN "value" ELSE f[v].type
        BY <1>3, <4>1 DEF OperandsConverted
      <4>4. v \notin T /\ f[v].type # "value"
        BY <3>1, <4>3 DEF IsMutable
      <4>5. v \notin {c} \cup E
        BY <1>1, <4>2, <4>4 DEF T, E, SubgraphSnapshots, OpOK
      <4> QED  BY <1>3a, <4>1, <4>2, <4>5
    <3> QED  BY <1>3, <3>1, ConversionKeepsCasts
  <2>5. Preserves(h, f)
    BY <2>2, <2>3, <2>4 DEF Preserves
  <2> QED  BY <1>3, <2>1, <2>5, PreservesTransitive
<1> QED  BY <1>3, <1>4, <1>6, <1>8, <1>10, <1>11, ResultsCopied

(***************************************************************************)
(* The specification.                                                      *)
(***************************************************************************)
\* Erasing an op nobody uses changes nothing for the others.
LEMMA DeadErased ==
  ASSUME NEW f, IsFunction(f), NEW d \in DeadOps(f)
  PROVE  /\ IsFunction(Erase(f, {d})) /\ ResultTypes(Erase(f, {d})) = ResultTypes(f)
         /\ KeepsViews(Erase(f, {d}), f)
<1> DEFINE h == Erase(f, {d})
<1>0. NumOps \in Op
  BY FunctionsAssumption DEF Op
<1>1. f \in [Op -> OpIR] /\ \A o \in Op : OpOK(f, o)
  BY FunctionIff DEF IsFunction
<1>2. d \in Op /\ f[d].kind # "return" /\ \A o \in Op : ~ Uses(f, o, d)
  BY DEF DeadOps
<1>3. d # NumOps
  BY <1>1, <1>2 DEF OpOK
<1>4. \A o \in Op : h[o] = IF o = d THEN NoOp ELSE f[o]
  BY DEF Erase
<1>5. h \in [Op -> OpIR]
  BY <1>1 DEF NoOp, OpIR, Kind, Erase
<1> HIDE DEF h
<1>6. ASSUME NEW o \in Op, NEW k \in 1 .. Len(f[o].args)
      PROVE  f[o].args[k] \in Op /\ f[o].args[k] # d /\ h[f[o].args[k]] = f[f[o].args[k]]
  BY <1>1, <1>2, <1>4, OperandsAre DEF Uses
<1>7. ASSUME NEW o \in Op PROVE OpOK(h, o)
  <2>1. CASE o = d
    BY <1>3, <1>4, <2>1 DEF NoOp, OpOK
  <2>2. CASE o # d
    <3>1. h[o] = f[o] /\ OpOK(f, o)
      BY <1>1, <1>4, <2>2
    <3>2. \A k \in 1 .. Len(f[o].args) : h[f[o].args[k]].type = f[f[o].args[k]].type
      BY <1>6
    <3>3. Len(f[o].args) \in Nat /\ \A k \in 1 .. Len(f[o].args) : f[o].args[k] < o
      BY <1>1, <3>1, OperandsAre DEF OpOK
    <3> QED  BY <3>1, <3>2, <3>3, SameOpOK
  <2> QED  BY <2>1, <2>2
<1>8. ResultTypes(h) = ResultTypes(f)
  BY <1>0, <1>1, <1>3, <1>4, <1>6, OperandsAre DEF ResultTypes
<1>9. ASSUME MutableOnlyViewed(f), NEW o \in Op PROVE OnlyViewed(h, o)
  <2>1. CASE o = d
    BY <1>4, <2>1 DEF NoOp, OnlyViewed, IsMutable
  <2>2. CASE o # d
    BY <1>4, <1>9, <2>2, <1>6 DEF MutableOnlyViewed, OnlyViewed, IsMutable
  <2> QED  BY <2>1, <2>2
<1>10. KeepsViews(h, f)
  BY <1>4, <1>9 DEF KeepsViews, MutableOnlyViewed, NoOp
<1> QED  BY <1>5, <1>7, <1>8, <1>10, FunctionIff DEF h

\* An erased op that nothing uses is not missed.
LEMMA DeadObserved ==
  ASSUME NEW f, IsFunction(f), NEW d \in DeadOps(f), NEW s
  PROVE  Observed(s, Erase(f, {d})) = Observed(s, f)
<1>1. PICK h : h = Erase(f, {d})
  OBVIOUS
<1>2. IsFunction(h)
  BY <1>1, DeadErased
<1>3. PICK m, p : m = Meaning(s, f) /\ p = Meaning(s, h)
  OBVIOUS
<1>4. Meant(m, s, f) /\ Meant(p, s, h)
  BY <1>2, <1>3 DEF Meant
<1>5. NumOps \in Op /\ f \in [Op -> OpIR] /\ \A o \in Op : OpOK(f, o)
  BY FunctionIff, FunctionsAssumption DEF IsFunction, Op
<1>6. /\ d \in Op /\ f[d].kind \in {"to_tensor", "to_vtensor", "cast", "list"}
      /\ \A u \in Op : d \notin Operands(f, u)
  BY DEF DeadOps, Uses, Operands
<1>7. d # NumOps
  BY <1>5, <1>6 DEF OpOK
<1>8. \A o \in Op : h[o] = IF o = d THEN NoOp ELSE f[o]
  BY <1>1 DEF Erase
<1>9. Carried(f, h, {}, {d})
  BY <1>6, <1>8 DEF Carried, IsMutable, NoOp
<1>10. Apart(f, m, {}, {d})
  BY <1>4, <1>6, UnusedIsNoBase DEF Apart
<1>11. ASSUME NEW i \in Op \ {d}, SimulatedBefore(f, m, h, p, {}, {d}, i)
       PROVE  OperandsAgree(f, m, h, p, {}, {d}, i)
  <2> SUFFICES ASSUME NEW k \in 1 .. Len(f[i].args)
               PROVE  Agrees(f, m, h, p, {}, {d}, i, f[i].args[k], h[i].args[k])
    BY DEF OperandsAgree
  <2>1. PICK v : v = f[i].args[k]
    OBVIOUS
  <2>2. v \in Operands(f, i) /\ h[i].args[k] = v
    BY <1>5, <1>8, <2>1, OperandsAre
  <2>3. v \in Op /\ v < i /\ v # d
    BY <1>6, <2>2, OperandOK
  <2>4. p[v] = m[v]
    BY <1>11, <2>3 DEF SimulatedBefore, Simulated
  <2> QED  BY <1>8, <2>1, <2>2, <2>3, <2>4 DEF Agrees
<1>12. \A i \in {} \ {d} : ViewReads(f, m, i)
  OBVIOUS
<1>13. NumOps \notin {d}
  BY <1>7
<1> QED  BY <1>1, <1>4, <1>9, <1>10, <1>11, <1>12, <1>13, ObservedCarried

\* The inductive invariant: what the pass was given is a function, and so is what it has made of it.
Inv == IsFunction(source) /\ IsFunction(func) /\ status \in {"rewriting", "done", "undefined"}

LEMMA InvInit == Init => Inv
  BY FunctionsAssumption DEF Init, Inv, IsFunction

\* What a step does.
LEMMA StepKeepsTypes ==
  ASSUME Inv, Next
  PROVE  /\ Inv'
         /\ \/ ResultTypes(func') = ResultTypes(func)
            \/ \E c \in Copies(func) : RewriteViews(c) /\ ReturnsBesidesViews(func, c)
         /\ KeepsViews(func', func)
<1> USE DEF Inv
<1>0. KeepsViews(func, func)
  BY DEF KeepsViews
<1>1. ASSUME NEW c \in Copies(func), AbstractlyInterpret(c)
      PROVE  Inv' /\ ResultTypes(func') = ResultTypes(func) /\ KeepsViews(func', func)
  BY <1>1, SliceRewritten DEF AbstractlyInterpret, IsFunction
<1>2. ASSUME NEW c \in Copies(func), RewriteViews(c)
      PROVE  /\ Inv' /\ KeepsViews(func', func)
             /\ ~ ReturnsBesidesViews(func, c) => ResultTypes(func') = ResultTypes(func)
  <2>1. CASE ReplacesErasedOp(func, c)
    BY <1>0, <1>2, <2>1 DEF RewriteViews, IsFunction
  <2>2. CASE ~ ReplacesErasedOp(func, c)
    BY <1>2, <2>2, SubgraphRewritten DEF RewriteViews, IsFunction
  <2> QED  BY <2>1, <2>2
<1>3. ASSUME NEW o \in DeadOps(func), EraseDeadOp(o)
      PROVE  Inv' /\ ResultTypes(func') = ResultTypes(func) /\ KeepsViews(func', func)
  BY <1>3, DeadErased DEF EraseDeadOp, IsFunction
<1>4. ASSUME Finish
      PROVE  Inv' /\ ResultTypes(func') = ResultTypes(func) /\ KeepsViews(func', func)
  BY <1>0, <1>4 DEF Finish, IsFunction
<1> QED  BY <1>1, <1>2, <1>3, <1>4 DEF Next

LEMMA InvNext == Inv /\ [Next]_vars => Inv'
BY StepKeepsTypes DEF Inv, vars, IsFunction

\* Whatever function the pass is given, what it makes of it is one at every step: no op is
\* lost track of by the rewriting of slices and subgraphs.
THEOREM TypeCorrect == Spec => []TypeOK
<1>1. Inv => TypeOK
  BY DEF Inv, IsFunction, TypeOK
<1> QED  BY InvInit, InvNext, <1>1, PTL DEF Spec

\* Whatever function the pass is given and in whatever order the driver comes by: every step
\* leaves every op with operands of the types it demands, defined before it and not erased, and
\* the function returning tensors of the types it returned, what was mutable being copied back.
\* The second pattern alone may change what is returned, of a function that returns the copy
\* itself or a snapshot.
THEOREM RewritesStayWellTyped == Spec => StaysWellTyped
<1> DEFINE A == /\ WellTyped(func')
                /\ \/ ResultTypes(func') = ResultTypes(func)
                   \/ \E c \in Copies(func) : RewriteViews(c) /\ ReturnsBesidesViews(func, c)
<1>1. Inv /\ Inv' /\ [Next]_vars => [A]_vars
  BY StepKeepsTypes DEF Inv, IsFunction
<1>2. [][A]_vars => StaysWellTyped
  BY PTL DEF StaysWellTyped
<1> QED  BY InvInit, InvNext, <1>1, <1>2, PTL DEF Spec

(***************************************************************************)
(* What functions return.                                                  *)
(***************************************************************************)
\* Nothing is seen of erasing a dead op.
LEMMA DeadPreserved ==
  ASSUME NEW f, IsFunction(f), NEW d \in DeadOps(f)
  PROVE  Preserves(Erase(f, {d}), f)
BY DeadObserved DEF MutableViewsReadOne, Erase, NoOp, IsMutable, CastsStay, IsKeptUse, Uses,
   Preserves

\* Nothing is seen of a step, unless the second pattern is applied where views read two tensors.
LEMMA StepPreserves ==
  ASSUME Inv, Next
  PROVE  /\ UNCHANGED source
         /\ (\E c \in Copies(func) : RewriteViews(c)) \/ Preserves(func', func)
         /\ MutableViewsReadOne(func) => Preserves(func', func)
<1> USE DEF Inv
<1>1. ASSUME NEW c \in Copies(func), AbstractlyInterpret(c) PROVE UNCHANGED source /\ Preserves(func', func)
  BY <1>1, SliceRewritten DEF AbstractlyInterpret
<1>2. ASSUME NEW c \in Copies(func), RewriteViews(c)
      PROVE  UNCHANGED source /\ (MutableViewsReadOne(func) => Preserves(func', func))
  BY <1>2, PreservesItself, SubgraphRewritten DEF RewriteViews
<1>3. ASSUME NEW o \in DeadOps(func), EraseDeadOp(o) PROVE UNCHANGED source /\ Preserves(func', func)
  BY <1>3, DeadPreserved DEF EraseDeadOp
<1>4. ASSUME Finish PROVE UNCHANGED source /\ Preserves(func', func)
  BY <1>4, PreservesItself DEF Finish
<1> QED  BY <1>1, <1>2, <1>3, <1>4 DEF Next

\* Whatever function the pass is given: the caller and the unknown ops see nothing of a step that
\* is not one of the second pattern, whatever is written, appended to lists or viewed in the
\* meantime.
THEOREM SlicesAreRewrittenInvisibly ==
  Spec => [][\/ Observed(source, func') = Observed(source, func)
             \/ \E c \in Copies(func) : RewriteViews(c)]_vars
<1> DEFINE A == \/ Observed(source, func') = Observed(source, func)
                \/ \E c \in Copies(func) : RewriteViews(c)
<1>1. Inv /\ [Next]_vars => [A]_vars
  BY StepPreserves DEF Preserves
<1> QED  BY InvInit, InvNext, <1>1, PTL DEF Spec

\* The inductive invariant.
ResultsInv == Inv /\ MutableViewsReadOne(func) /\ ResultsPreserved

LEMMA ResultsInvNext == ResultsInv /\ [Next]_vars => ResultsInv'
<1>1. ASSUME ResultsInv, Next PROVE ResultsInv'
  BY <1>1, StepKeepsTypes, StepPreserves DEF ResultsInv, Preserves, ResultsPreserved,
     MutableViewsReadOne
<1>2. ASSUME ResultsInv, UNCHANGED vars PROVE ResultsInv'
  BY <1>2, InvNext DEF ResultsInv, vars, ResultsPreserved, MutableViewsReadOne
<1> QED  BY <1>1, <1>2

\* The pass is correct where the second pattern is: whatever is copied, viewed, overwritten,
\* snapshot, listed and returned, and in whatever order the driver rewrites and erases, the caller
\* gets the contents it would have got from the function as it was written, and so do the ops the
\* pass knows nothing about, provided no view of a mutable tensor reads a second tensor.
THEOREM RewritingIsInvisible ==
  ASSUME \A f \in Functions : MutableViewsReadOne(f)
  PROVE  Spec => []ResultsPreserved
<1>1. Init => ResultsInv
  BY InvInit DEF Init, ResultsInv, ResultsPreserved
<1>2. ResultsInv => ResultsPreserved
  BY DEF ResultsInv
<1> QED  BY <1>1, <1>2, ResultsInvNext, PTL DEF Spec

(***************************************************************************)
(* What the pass leaves.                                                   *)
(***************************************************************************)
\* There is nothing left to do, and there never was anything but views.
IsFinished(f) ==
  /\ DeadOps(f) = {}
  /\ \A c \in Copies(f) : ~ Interpretable(f, c) /\ ~ IsViewLikeSubgraph(f, c)
  /\ \A o \in Op : f[o].kind \notin {"overwrite", "other"}

\* A copy that neither pattern matches is read by the return only.
LEMMA CopyVisited ==
  ASSUME NEW f, IsFunction(f), MutableOnlyViewed(f), IsFinished(f), NEW c \in Copies(f)
  PROVE  Visited(f, c) \subseteq {NumOps}
<1> DEFINE S == {o \in Visited(f, c) : IsViewLikeOp(f, o) /\ ~ IsMutable(f, o)}
<1>0. Op \subseteq Nat
  BY FunctionsAssumption DEF Op
<1>1. f \in [Op -> OpIR] /\ \A o \in Op : OpOK(f, o) /\ OnlyViewed(f, o)
  BY FunctionIff DEF IsFunction, MutableOnlyViewed
<1>2. c \in Op /\ IsMutable(f, c)
  BY <1>1 DEF Copies, OpOK, IsMutable
<1>3. /\ Visited(f, c) \subseteq Op
      /\ \A o \in Op : o \in Visited(f, c) <=>
           \E v \in Operands(f, o) : v = c \/ (IsViewLikeOp(f, v) /\ v \in Visited(f, c))
  BY <1>2, VisitedAre
<1>4. ASSUME NEW o \in Op, NEW v \in Operands(f, o), IsMutable(f, v)
      PROVE  /\ f[o].kind \in {"view", "cast", "to_vtensor", "return"}
             /\ IsViewLikeOp(f, o) => IsMutable(f, o)
  <2>1. PICK k \in 1 .. Len(f[o].args) : f[o].args[k] = v
    BY <1>1, OperandsAre
  <2>2. f[o].kind \in {"view", "cast", "to_vtensor", "overwrite", "other", "return"}
    BY <1>1, <1>4, <2>1 DEF OnlyViewed
  <2>3. ASSUME IsViewLikeOp(f, o) PROVE IsMutable(f, o)
    BY <1>1, <2>3, <1>4, <2>1 DEF OnlyViewed, OpOK, IsViewLikeOp, IsMutable
  <2> QED  BY <2>2, <2>3 DEF IsFinished
<1>5. S = {}
  <2> SUFFICES ASSUME S # {} PROVE FALSE
    OBVIOUS
  <2>1. PICK x \in S : \A y \in S : x <= y
    <3>1. S \subseteq Nat
      BY <1>0, <1>3
    <3> HIDE DEF S
    <3> QED  BY <3>1, LeastElement
  <2>2. PICK v \in Operands(f, x) : v = c \/ (IsViewLikeOp(f, v) /\ v \in Visited(f, c))
    BY <1>3, <2>1
  <2>3. v \in Nat /\ x \in Nat /\ x \in Op /\ v < x
    BY <1>0, <1>3, <2>1, OperandOK
  <2>4. v \notin S
    BY <2>1, <2>3
  <2>5. IsMutable(f, v)
    BY <1>2, <2>2, <2>4
  <2> QED  BY <1>4, <2>1, <2>3, <2>5
<1>6. ASSUME NEW o \in Visited(f, c) PROVE f[o].kind \in {"view", "cast", "to_vtensor", "return"}
  BY <1>3, <1>2, <1>5, <1>4
<1>7. ~ IsViewLikeSubgraph(f, c)
  BY DEF IsFinished
<1>8. \A o \in Visited(f, c) : f[o].kind = "return"
  BY <1>6, <1>7 DEF IsViewLikeSubgraph
<1> QED  BY <1>1, <1>3, <1>8 DEF OpOK

\* What is mutable in the end is a copy that is returned and not used for anything else.
LEMMA MutableLeft ==
  ASSUME NEW f, IsFunction(f), MutableOnlyViewed(f), IsFinished(f), NEW o \in Op, IsMutable(f, o)
  PROVE  o \in Copies(f) /\ OnlyReturned(f, o)
<1> DEFINE S == {v \in Op : IsViewLikeOp(f, v) /\ IsMutable(f, v)}
<1>0. Op \subseteq Nat
  BY FunctionsAssumption DEF Op
<1>1. f \in [Op -> OpIR] /\ \A v \in Op : OpOK(f, v) /\ OnlyViewed(f, v)
  BY FunctionIff DEF IsFunction, MutableOnlyViewed
<1>2. \A v \in Op : IsMutable(f, v) => v \in Copies(f) \/ v \in S
  BY <1>1 DEF OnlyViewed, Copies, IsViewLikeOp
<1>3. ASSUME NEW v \in S
      PROVE  f[v].args[1] \in Operands(f, v) /\ IsMutable(f, f[v].args[1])
  BY <1>1, OperandsAre DEF OpOK, IsViewLikeOp, IsMutable
<1>4. S = {}
  <2> SUFFICES ASSUME S # {} PROVE FALSE
    OBVIOUS
  <2>1. PICK x \in S : \A y \in S : x <= y
    <3>1. S \subseteq Nat
      BY <1>0
    <3> HIDE DEF S
    <3> QED  BY <3>1, LeastElement
  <2> DEFINE v == f[x].args[1]
  <2>2. v \in Operands(f, x) /\ IsMutable(f, v)
    BY <1>3
  <2> HIDE DEF v
  <2>3. v \in Op /\ v \in Nat /\ x \in Nat /\ x \in Op /\ v < x
    BY <1>0, <2>2, OperandOK
  <2>4. v \in Copies(f)
    BY <1>2, <2>1, <2>2, <2>3
  <2>5. x \in Visited(f, v)
    BY <2>2, <2>3, VisitedAre
  <2>6. x = NumOps
    BY <2>4, <2>5, CopyVisited
  <2> QED  BY <1>1, <2>1, <2>6 DEF OpOK, IsViewLikeOp
<1>5. o \in Copies(f)
  BY <1>2, <1>4
<1>6. \A u \in Op : o \in Operands(f, u) => u = NumOps
  BY <1>5, CopyVisited, VisitedAre
<1>7. PICK u \in Op : Uses(f, u, o)
  BY <1>5 DEF IsFinished, DeadOps, Copies
<1>8. o \in Operands(f, NumOps) /\ NumOps \in Op
  BY <1>6, <1>7 DEF Uses, Operands
<1>9. Aliases(f, o) = {o}
  BY <1>4, AliasesAre
<1>10. Slice(f, o) = {NumOps}
  BY <1>6, <1>8, <1>9 DEF Slice
<1> QED  BY <1>5, <1>10 DEF OnlyReturned

\* Nothing is written and nothing is unknown.
NothingWritten(f) == \A o \in Op : f[o].kind \notin {"overwrite", "other"}

\* The inductive invariant.
ViewsInv ==
  /\ Inv
  /\ MutableOnlyViewed(func)
  /\ NothingWritten(source) => NothingWritten(func)
  /\ NothingWritten(source) /\ status = "done" => IsFinished(func)

LEMMA ViewsInvNext == ViewsInv /\ [Next]_vars => ViewsInv'
<1>1. ASSUME ViewsInv, Next PROVE ViewsInv'
  <2>1. Inv' /\ KeepsViews(func', func)
    BY <1>1, StepKeepsTypes DEF ViewsInv
  <2>2. UNCHANGED source /\ (status' = "done" => Finish)
    BY <1>1 DEF Next, AbstractlyInterpret, RewriteViews, EraseDeadOp, Finish
  <2>3. MutableOnlyViewed(func')
    BY <1>1, <2>1 DEF KeepsViews, ViewsInv
  <2>4. NothingWritten(source) => NothingWritten(func')
    BY <1>1, <2>1 DEF KeepsViews, ViewsInv, NothingWritten
  <2>5. NothingWritten(source) /\ Finish => IsFinished(func')
    BY <1>1 DEF Finish, IsFinished, ViewsInv, NothingWritten
  <2> QED  BY <2>1, <2>2, <2>3, <2>4, <2>5 DEF ViewsInv, NothingWritten, MutableOnlyViewed
<1>2. ASSUME ViewsInv, UNCHANGED vars PROVE ViewsInv'
  BY <1>2, InvNext DEF ViewsInv, vars, NothingWritten
<1> QED  BY <1>1, <1>2

\* What the pass is for: when the function is one that ops with value semantics have been taken
\* from mutable tensors in already, views read one tensor, and nothing is written and nothing
\* unknown, then whatever views are taken of whatever copies, in whatever blocks, no mutable
\* tensor is left but the copies that are returned.
THEOREM OnlyReturnedCopiesStay ==
  ASSUME \A f \in Functions : MutableOnlyViewed(f)
  PROVE  Spec => []ViewsBecomeValues
<1>1. Init => ViewsInv
  BY InvInit DEF Init, ViewsInv
<1>2. ViewsInv => ViewsBecomeValues
  BY MutableLeft DEF ViewsBecomeValues, NothingWritten, ViewsInv, Inv
<1> QED  BY <1>1, <1>2, ViewsInvNext, PTL DEF Spec

(***************************************************************************)
(* torch-refine-public-return.                                             *)
(***************************************************************************)
\* Nothing is seen of the return reading other tensors with the same contents.
LEMMA ReturnRead ==
  ASSUME NEW g, IsFunction(g), NEW r, IsFunction(r), Len(r[NumOps].args) = Len(g[NumOps].args),
         \A o \in Op : o # NumOps => r[o] = g[o],
         NEW s, NEW m, Meant(m, s, g),
         \A k \in 1 .. Len(g[NumOps].args) :
           /\ r[NumOps].args[k] \in Op /\ r[NumOps].args[k] < NumOps
           /\ Contents(g, m, r[NumOps].args[k], NumOps) = Contents(g, m, g[NumOps].args[k], NumOps)
  PROVE  Observed(s, r) = Observed(s, g)
<1>0. NumOps \in Nat \ {0} /\ Op = 1 .. NumOps /\ NumOps \in Op
  BY FunctionsAssumption DEF Op
<1>1. g \in [Op -> OpIR] /\ (\A o \in Op : OpOK(g, o)) /\ r \in [Op -> OpIR] /\ (\A o \in Op : OpOK(r, o))
  BY FunctionIff DEF IsFunction
<1>2. PICK p : p = Meaning(s, r)
  OBVIOUS
<1>3. Meant(p, s, r)
  BY <1>2 DEF Meant
<1>4. PICK E : E = {NumOps}
  OBVIOUS
<1>5. g[NumOps].kind = "return" /\ r[NumOps].kind = "return"
  BY <1>0, <1>1 DEF OpOK
<1>6. Carried(g, r, {}, E)
  BY <1>4, <1>5 DEF Carried, IsMutable
<1>7. Apart(g, m, {}, E)
  <2>1. ASSUME NEW v \in Op, IsMutable(g, v) PROVE m[v].base \notin E
    BY <2>1, <1>4, <1>5, Placed DEF IsPlaced, IsMutable
  <2> QED  BY <1>4, <1>5, <2>1 DEF Apart
<1>8. ASSUME NEW i \in Op, SimulatedBefore(g, m, r, p, {}, E, i), NEW v \in Op, v < i
      PROVE  Agrees(g, m, r, p, {}, E, i, v, v)
  BY <1>0, <1>4, <1>8 DEF SimulatedBefore, Simulated, Agrees
<1>9. ASSUME NEW i \in Op \ E, SimulatedBefore(g, m, r, p, {}, E, i)
      PROVE  OperandsAgree(g, m, r, p, {}, E, i)
  <2>1. \A l \in 1 .. Len(g[i].args) : g[i].args[l] \in Operands(g, i) /\ r[i] = g[i]
    BY <1>1, <1>4, OperandsAre
  <2>2. \A v \in Operands(g, i) : Agrees(g, m, r, p, {}, E, i, v, v)
    BY <1>8, <1>9, OperandOK
  <2> QED  BY <2>1, <2>2 DEF OperandsAgree
<1>10. \A i \in {} \ E : ViewReads(g, m, i)
  OBVIOUS
<1>11. \A i \in Op : Simulated(g, m, r, p, {}, E, i) /\ SimulatedBefore(g, m, r, p, {}, E, i)
  BY <1>3, <1>6, <1>7, <1>9, <1>10, AllSimulated
<1>12. Others(r, p) = Others(g, m)
  BY <1>6, <1>11, OthersCarried
<1>13. ASSUME NEW k \in 1 .. Len(g[NumOps].args)
       PROVE  Contents(r, p, r[NumOps].args[k], NumOps) = Contents(g, m, g[NumOps].args[k], NumOps)
  <2>1. PICK y : y = r[NumOps].args[k]
    OBVIOUS
  <2>2. y \in Op /\ y < NumOps /\ Contents(g, m, y, NumOps) = Contents(g, m, g[NumOps].args[k], NumOps)
    BY <2>1
  <2>3. y \in Operands(r, NumOps)
    <3>1. k \in 1 .. Len(r[NumOps].args)
      OBVIOUS
    <3>2. Operands(r, NumOps) = {r[NumOps].args[l] : l \in 1 .. Len(r[NumOps].args)}
      BY <1>0, <1>1, OperandsAre
    <3> QED  BY <2>1, <3>1, <3>2
  <2>4. g[y].type # "none"
    BY <1>0, <2>3, <2>2, OperandOK
  <2>5. Agrees(g, m, r, p, {}, E, NumOps, y, y)
    BY <1>0, <1>8, <1>11, <2>2
  <2>6. Contents(r, p, y, NumOps) = Contents(g, m, y, NumOps)
    BY <1>0, <1>3, <1>6, <1>7, <1>11, <2>2, <2>4, <2>5, ContentsCarried
  <2> QED  BY <2>1, <2>2, <2>6
<1> QED  BY <1>3, <1>12, <1>13, ObservedSame

\* A mutable cast of f that is cast again or returned is besides that only snapshot or returned.
CastEnds(f, v) ==
  \A u, w \in Op : Uses(f, u, v) /\ Uses(f, w, v) /\ u # w /\ f[w].kind \in {"cast", "return"} =>
    f[u].kind \in {"to_vtensor", "return"}

CastsEnd(f) == \A v \in Op : f[v].kind = "cast" /\ IsMutable(f, v) => CastEnds(f, v)

LEMMA CastsStillEnd ==
  ASSUME NEW f, NEW h, CastsStay(h, f), CastsEnd(f)
  PROVE  CastsEnd(h)
BY DEF CastsEnd, CastEnds, CastsStay, IsKeptUse

\* Two users are more than one.
LEMMA OneUser ==
  ASSUME NEW f, NEW v, Cardinality(Users(f, v)) <= 1, NEW u \in Op, NEW w \in Op, Uses(f, u, v), Uses(f, w, v)
  PROVE  u = w
<1> SUFFICES ASSUME u # w PROVE FALSE
  OBVIOUS
<1>1. IsFiniteSet(Op)
  BY FunctionsAssumption, FS_Interval DEF Op
<1>2. PICK U : U = Users(f, v)
  OBVIOUS
<1>3. U \subseteq Op /\ {u, w} \subseteq U
  BY <1>2 DEF Users
<1>4. IsFiniteSet(U)
  BY <1>1, <1>3, FS_Subset
<1>5. Cardinality({u, w}) <= Cardinality(U) /\ Cardinality(U) \in Nat
  BY <1>3, <1>4, FS_Subset, FS_CardinalityType
<1>6. Cardinality({u, w}) = 2
  <2>1. IsFiniteSet({u}) /\ Cardinality({u}) = 1
    BY FS_Singleton
  <2>2. {u, w} = {u} \cup {w} /\ w \notin {u}
    OBVIOUS
  <2>3. Cardinality({u} \cup {w}) = Cardinality({u}) + 1
    BY <2>1, <2>2, FS_AddElement
  <2> QED  BY <2>1, <2>2, <2>3
<1> QED  BY <1>2, <1>5, <1>6

LEMMA OneUserEnds ==
  ASSUME NEW f, CastsHaveOneUser(f)
  PROVE  CastsEnd(f)
BY OneUser DEF CastsHaveOneUser, CastsEnd, CastEnds

(***************************************************************************)
(* What the return reads through.                                          *)
(***************************************************************************)
Skipped(f) ==
  {w \in Op : \/ f[w].kind = "cast"
              \/ f[w].kind = "to_tensor" /\ Cardinality(Users(f, w)) = 1}

LEMMA LookedIs ==
  ASSUME NEW f, IsFunction(f)
  PROVE  /\ \A w \in Skipped(f) :
              /\ w \in Op /\ f[w].args[1] \in Op /\ f[w].args[1] < w /\ f[w].args[1] \in Operands(f, w)
              /\ f[w].kind = "cast" => f[f[w].args[1]].type = f[w].type /\ f[w].type \in {"value", "mutable"}
              /\ f[w].kind # "cast" =>
                   /\ f[w].kind = "to_tensor" /\ Cardinality(Users(f, w)) = 1
                   /\ f[w].type = "mutable" /\ f[f[w].args[1]].type = "value"
         /\ \A v \in Op : LookedThrough(f, v) = IF v \in Skipped(f) THEN LookedThrough(f, f[v].args[1]) ELSE v
<1>1. ASSUME NEW w \in Skipped(f)
      PROVE  /\ w \in Op /\ f[w].args[1] \in Op /\ f[w].args[1] < w /\ f[w].args[1] \in Operands(f, w)
             /\ f[w].kind = "cast" => f[f[w].args[1]].type = f[w].type /\ f[w].type \in {"value", "mutable"}
             /\ f[w].kind # "cast" =>
                  /\ f[w].kind = "to_tensor" /\ Cardinality(Users(f, w)) = 1
                  /\ f[w].type = "mutable" /\ f[f[w].args[1]].type = "value"
  <2>1. w \in Op /\ f \in [Op -> OpIR] /\ OpOK(f, w)
    BY FunctionIff DEF Skipped, IsFunction
  <2>2. f[w].kind = "cast" \/ (f[w].kind = "to_tensor" /\ Cardinality(Users(f, w)) = 1)
    BY DEF Skipped
  <2>3. Len(f[w].args) = 1
    BY <2>1, <2>2 DEF OpOK
  <2>4. f[w].args[1] \in Operands(f, w)
    BY <2>3, <2>1, OperandsAre
  <2>5. f[w].args[1] \in Op /\ f[w].args[1] < w
    BY <2>1, <2>4, OperandOK
  <2> QED  BY <2>1, <2>2, <2>4, <2>5 DEF OpOK
<1>2. \A v \in Op : LookedThrough(f, v) = Through(f, Skipped(f), v)
  BY DEF LookedThrough, Skipped
<1>3. \A v \in Op : Through(f, Skipped(f), v) =
        IF v \in Skipped(f) /\ f[v].args[1] < v THEN Through(f, Skipped(f), f[v].args[1]) ELSE v
  BY <1>1, ThroughIs
<1>4. ASSUME NEW v \in Op
      PROVE  LookedThrough(f, v) = IF v \in Skipped(f) THEN LookedThrough(f, f[v].args[1]) ELSE v
  BY <1>1, <1>2, <1>3
<1> QED  BY <1>1, <1>4

LEMMA AliasesWithin ==
  ASSUME NEW f, IsFunction(f), NEW a \in Op, NEW B, a \in B,
         \A v \in Op : IsViewLikeOp(f, v) /\ IsMutable(f, v) /\ f[v].args[1] \in B => v \in B
  PROVE  Aliases(f, a) \subseteq B
<1> DEFINE S == {v \in Op : v \in Aliases(f, a) => v \in B}
<1>1. ASSUME NEW v \in Op, \A u \in Op : u < v => u \in S PROVE v \in S
  BY <1>1, AliasesAre
<1>2. Op \subseteq S
  <2> HIDE DEF S
  <2> QED  BY <1>1, OpInduction
<1> QED  BY <1>2, AliasesAre

\* Nothing writes v or what is made of it by taking views.
Quiet(f, v) == \A u \in Slice(f, v) : f[u].kind \in {"cast", "to_vtensor", "return"}

\* The first operand of a view is one of its operands.
LEMMA ViewUses ==
  ASSUME NEW f, IsFunction(f), NEW v \in Op, IsViewLikeOp(f, v)
  PROVE  Uses(f, v, f[v].args[1])
BY FunctionIff, OperandsAre DEF IsFunction, OpOK, IsViewLikeOp, Uses

LEMMA QuietAtTheEnd ==
  ASSUME NEW f, IsFunction(f), NEW v \in Op, \A u \in Op : Uses(f, u, v) => f[u].kind \in {"to_vtensor", "return"}
  PROVE  Quiet(f, v)
<1>1. Aliases(f, v) \subseteq {v}
  <2>1. ASSUME NEW u \in Op, IsViewLikeOp(f, u), f[u].args[1] = v PROVE FALSE
    BY <2>1, ViewUses DEF IsViewLikeOp
  <2> QED  BY <2>1, AliasesWithin
<1>2. ASSUME NEW u \in Slice(f, v) PROVE f[u].kind \in {"to_vtensor", "return"}
  BY <1>1 DEF Slice, Uses, Operands
<1> QED  BY <1>2 DEF Quiet

LEMMA QuietBefore ==
  ASSUME NEW f, IsFunction(f), NEW a \in Op, NEW t \in Op, f[t].kind = "cast", Quiet(f, t),
         \A u \in Op : Uses(f, u, a) => u = t \/ f[u].kind \in {"to_vtensor", "return"}
  PROVE  Quiet(f, a)
<1>1. Aliases(f, a) \subseteq {a} \cup Aliases(f, t)
  <2>1. ASSUME NEW u \in Op, IsViewLikeOp(f, u), IsMutable(f, u), f[u].args[1] \in {a} \cup Aliases(f, t)
        PROVE  u \in {a} \cup Aliases(f, t)
    <3>1. CASE f[u].args[1] = a
      BY <2>1, <3>1, ViewUses, AliasesAre DEF IsViewLikeOp
    <3>2. CASE f[u].args[1] # a
      <4>1. f[u].args[1] \in Aliases(f, t)
        BY <2>1, <3>2
      <4>2. f[u].args[1] < u
        BY <2>1, ViewUses, OperandOK DEF Uses, Operands
      <4> QED  BY <2>1, <4>1, <4>2, AliasesAre
    <3> QED  BY <3>1, <3>2
  <2>2. PICK B : B = {a} \cup Aliases(f, t)
    OBVIOUS
  <2>3. Aliases(f, a) \subseteq B
    BY <2>1, <2>2, AliasesWithin
  <2> QED  BY <2>2, <2>3
<1>2. ASSUME NEW u \in Slice(f, a) PROVE f[u].kind \in {"cast", "to_vtensor", "return"}
  <2>1. u \in Op /\ \E v \in Operands(f, u) : v \in Aliases(f, a)
    BY DEF Slice
  <2>2. PICK v \in Operands(f, u) : v \in Aliases(f, a)
    BY <2>1
  <2>3. CASE v = a
    BY <2>1, <2>2, <2>3 DEF Uses, Operands
  <2>4. CASE v \in Aliases(f, t)
    BY <2>1, <2>2, <2>4 DEF Slice, Quiet
  <2> QED  BY <1>1, <2>2, <2>3, <2>4
<1> QED  BY <1>2 DEF Quiet

LEMMA QuietCopyContents ==
  ASSUME NEW s, NEW f, NEW m, Meant(m, s, f), NEW c \in Op, f[c].kind = "to_tensor", Quiet(f, c), NEW i,
         NEW a, a = f[c].args[1], a \in Op, f[a].type = "value"
  PROVE  Contents(f, m, c, i) = Contents(f, m, a, i)
<1>1. \A o \in Slice(f, c) : f[o].kind # "inplace"
  BY DEF Quiet
<1>2. WritesTo(f, m, c, i) = {}
  <2>1. ASSUME NEW w \in Writes(f), m[w].base = c PROVE FALSE
    BY <1>1, <2>1, WritersInSlice DEF Quiet, Writes
  <2> QED  BY <2>1 DEF WritesTo
<1>3. Contents(f, m, c, i) = Contents(f, m, a, c)
  BY <1>2, CopiedContents
<1>4. Contents(f, m, a, c) = m[a].term /\ Contents(f, m, a, i) = m[a].term
  BY ValueContents
<1> QED  BY <1>3, <1>4

LEMMA CastContents ==
  ASSUME NEW s, NEW f, NEW m, Meant(m, s, f), NEW v \in Op, f[v].kind = "cast", NEW i,
         NEW a, a = f[v].args[1], a \in Op, a \in Operands(f, v), f[a].type = f[v].type, f[v].type \in {"value", "mutable"}
  PROVE  Contents(f, m, v, i) = Contents(f, m, a, i)
<1>0. f \in [Op -> OpIR] /\ OpOK(f, a) /\ OpOK(f, v)
  BY FunctionIff DEF Meant, IsFunction
<1>1. CASE f[v].type = "value"
  <2>1. PICK q : q = OperandContents(f, m, v)
    OBVIOUS
  <2>2. m[v] = Known(0, <<>>, q[1])
    BY <1>1, <2>1, AllAreKnown, ValueViewIs DEF IsViewLikeOp, IsMutable
  <2>3. m[v].term = q[1]
    BY <2>2, KnownIs
  <2>4. q[1] = Contents(f, m, a, v)
    <3>1. Len(f[v].args) = 1
      BY <1>0, Zenon DEF OpOK
    <3>2. 1 \in DOMAIN f[v].args
      BY <1>0, <3>1, OperandsAre
    <3> QED  BY <2>1, <3>2 DEF OperandContents
  <2>5. Contents(f, m, v, i) = m[v].term
    BY <1>1, ValueContents
  <2>6. Contents(f, m, a, v) = m[a].term /\ Contents(f, m, a, i) = m[a].term
    BY <1>1, ValueContents
  <2> QED  BY <2>3, <2>4, <2>5, <2>6
<1>2. CASE f[v].type = "mutable"
  <2>1. m[v].base = m[a].base /\ m[v].path = m[a].path
    BY <1>2, PlaceOfCast DEF IsMutable
  <2>2. m[v].base # 0
    BY <1>2, Placed DEF IsPlaced, Op
  <2>3. f[v].kind # "list" /\ f[a].kind # "list"
    BY <1>0, <1>2 DEF OpOK
  <2>4. Contents(f, m, v, i) = TensorContents(f, m, v, i) /\ Contents(f, m, a, i) = TensorContents(f, m, a, i)
    BY <2>3, ContentsOf
  <2> QED  BY <2>1, <2>2, <2>4 DEF TensorContents
<1> QED  BY <1>1, <1>2

\* v is read by the return, or nothing is written between the return and it.
IsSeen(f, v) ==
  \/ f[v].type = "value"
  \/ Uses(f, NumOps, v)
  \/ \E u \in Op : f[u].kind = "cast" /\ IsMutable(f, u) /\ Uses(f, u, v) /\ Quiet(f, u)

LEMMA SeenStep ==
  ASSUME NEW s, NEW f, NEW m, Meant(m, s, f), CastsEnd(f), NEW v \in Skipped(f), IsSeen(f, v),
         NEW a, a = f[v].args[1]
  PROVE  IsSeen(f, a) /\ Contents(f, m, a, NumOps) = Contents(f, m, v, NumOps)
<1>0. NumOps \in Op /\ IsFunction(f) /\ f \in [Op -> OpIR] /\ f[NumOps].kind = "return"
  BY FunctionsAssumption, FunctionIff DEF Op, Meant, IsFunction, OpOK
<1>1. /\ v \in Op /\ a \in Op /\ a < v /\ a \in Operands(f, v)
      /\ f[v].kind = "cast" => f[a].type = f[v].type /\ f[v].type \in {"value", "mutable"}
      /\ f[v].kind # "cast" =>
           /\ f[v].kind = "to_tensor" /\ Cardinality(Users(f, v)) = 1
           /\ f[v].type = "mutable" /\ f[a].type = "value"
  BY <1>0, LookedIs
<1>2. Uses(f, v, a)
  BY <1>1 DEF Uses, Operands
<1>3. CASE f[v].kind = "cast"
  <2>1. Contents(f, m, a, NumOps) = Contents(f, m, v, NumOps)
    BY <1>1, <1>3, CastContents
  <2>2. CASE f[v].type = "value"
    BY <1>1, <1>3, <2>1, <2>2 DEF IsSeen
  <2>3. CASE f[v].type = "mutable"
    <3>1. CastEnds(f, v)
      BY <1>1, <1>3, <2>3 DEF CastsEnd, IsMutable
    <3>2. CASE Uses(f, NumOps, v)
      BY <1>0, <3>1, <3>2, <1>1, <1>2, <1>3, <2>1, <2>3, QuietAtTheEnd DEF CastEnds, IsSeen,
         IsMutable
    <3>3. CASE \E u \in Op : f[u].kind = "cast" /\ IsMutable(f, u) /\ Uses(f, u, v) /\ Quiet(f, u)
      BY <3>3, <3>1, <1>0, <1>1, <1>2, <1>3, <2>1, <2>3, QuietBefore DEF CastEnds, IsSeen, IsMutable
    <3> QED  BY <2>3, <3>2, <3>3 DEF IsSeen
  <2> QED  BY <1>1, <1>3, <2>2, <2>3
<1>4. CASE f[v].kind # "cast"
  <2>1. f[v].kind = "to_tensor" /\ f[v].type = "mutable" /\ f[a].type = "value" /\ Cardinality(Users(f, v)) <= 1
    BY <1>1, <1>4
  <2>2. ASSUME NEW u \in Op, NEW w \in Op, Uses(f, u, v), Uses(f, w, v) PROVE u = w
    BY <2>1, <2>2, OneUser
  <2>3. ASSUME Uses(f, NumOps, v) PROVE Quiet(f, v)
    BY <1>0, <2>2, <2>3, <1>1, QuietAtTheEnd
  <2>4. ASSUME \E u \in Op : f[u].kind = "cast" /\ IsMutable(f, u) /\ Uses(f, u, v) /\ Quiet(f, u)
        PROVE  Quiet(f, v)
    BY <2>4, <2>2, <1>0, <1>1, QuietBefore
  <2>5. Quiet(f, v)
    BY <2>1, <2>3, <2>4 DEF IsSeen
  <2>6. Contents(f, m, v, NumOps) = Contents(f, m, a, NumOps)
    BY <1>1, <2>1, <2>5, QuietCopyContents
  <2> QED  BY <2>1, <2>6 DEF IsSeen
<1> QED  BY <1>3, <1>4

LEMMA SeenThrough ==
  ASSUME NEW s, NEW f, NEW m, Meant(m, s, f), CastsEnd(f), NEW v \in Op, IsSeen(f, v)
  PROVE  /\ LookedThrough(f, v) \in Op /\ LookedThrough(f, v) <= v
         /\ f[v].type # "none" => f[LookedThrough(f, v)].type # "none"
         /\ Contents(f, m, LookedThrough(f, v), NumOps) = Contents(f, m, v, NumOps)
<1> DEFINE Is(u) == /\ LookedThrough(f, u) \in Op /\ LookedThrough(f, u) <= u
                    /\ f[u].type # "none" => f[LookedThrough(f, u)].type # "none"
                    /\ Contents(f, m, LookedThrough(f, u), NumOps) = Contents(f, m, u, NumOps)
           S == {u \in Op : IsSeen(f, u) => Is(u)}
<1>0. IsFunction(f) /\ Op \subseteq Nat
  BY DEF Meant, Op
<1>1. ASSUME NEW u \in Op, \A x \in Op : x < u => x \in S PROVE u \in S
  <2> SUFFICES ASSUME IsSeen(f, u) PROVE Is(u)
    OBVIOUS
  <2>1. CASE u \notin Skipped(f)
    BY <1>0, <2>1, LookedIs
  <2>2. CASE u \in Skipped(f)
    <3>1. PICK a : a = f[u].args[1]
      OBVIOUS
    <3>2. LookedThrough(f, u) = LookedThrough(f, a) /\ a \in Op /\ a < u /\ f[a].type # "none"
      BY <1>0, <2>2, <3>1, LookedIs, OperandOK
    <3>3. IsSeen(f, a) /\ Contents(f, m, a, NumOps) = Contents(f, m, u, NumOps)
      BY <2>2, <3>1, SeenStep
    <3>4. Is(a)
      BY <1>1, <3>2, <3>3
    <3>5. PICK y : y = LookedThrough(f, a)
      OBVIOUS
    <3>6. y \in Op /\ y <= a /\ f[y].type # "none" /\ Contents(f, m, y, NumOps) = Contents(f, m, a, NumOps)
      BY <3>2, <3>4, <3>5
    <3>7. y <= u
      BY <1>0, <3>2, <3>6
    <3> QED  BY <3>2, <3>3, <3>5, <3>6, <3>7
  <2> QED  BY <2>1, <2>2
<1>2. Op \subseteq S
  <2> HIDE DEF S
  <2> QED  BY <1>1, OpInduction
<1> QED  BY <1>2

(***************************************************************************)
(* What is returned in the end.                                            *)
(***************************************************************************)
\* f with the return reading through casts and copies.
ReadThrough(f) ==
  [f EXCEPT ![NumOps].args = [k \in DOMAIN @ |-> LookedThrough(f, @[k])]]

LEMMA ReadThroughIs ==
  ASSUME NEW f, IsFunction(f), CastsEnd(f), NEW r, r = ReadThrough(f)
  PROVE  /\ IsFunction(r) /\ Len(r[NumOps].args) = Len(f[NumOps].args)
         /\ \A o \in Op : o # NumOps => r[o] = f[o]
         /\ \A s : Observed(s, r) = Observed(s, f)
<1>0. NumOps \in Nat \ {0} /\ Op = 1 .. NumOps /\ NumOps \in Op
  BY FunctionsAssumption DEF Op
<1>1. f \in [Op -> OpIR] /\ \A o \in Op : OpOK(f, o)
  BY FunctionIff DEF IsFunction
<1>2. PICK args, L : args = f[NumOps].args /\ L = Len(args)
  OBVIOUS
<1>3. args \in Seq(Op) /\ L \in Nat /\ DOMAIN args = 1 .. L
  BY <1>0, <1>1, <1>2, OperandsAre
<1>4. PICK A : A = [k \in 1 .. L |-> LookedThrough(f, args[k])]
  OBVIOUS
<1>5. \A o \in Op : r[o] = IF o = NumOps THEN [f[NumOps] EXCEPT !.args = A] ELSE f[o]
  BY <1>0, <1>1, <1>2, <1>3, <1>4 DEF ReadThrough
<1>6. ASSUME NEW s, NEW k \in 1 .. L, NEW m, Meant(m, s, f)
      PROVE  /\ A[k] \in Op /\ A[k] < NumOps /\ f[A[k]].type # "none"
             /\ Contents(f, m, A[k], NumOps) = Contents(f, m, args[k], NumOps)
  <2>1. PICK v : v = args[k]
    OBVIOUS
  <2>2. v \in Operands(f, NumOps) /\ Uses(f, NumOps, v)
    BY <1>2, <1>3, <2>1 DEF Operands, Uses
  <2>3. v \in Op /\ v < NumOps /\ f[v].type # "none"
    BY <1>0, <2>2, OperandOK
  <2>4. IsSeen(f, v)
    BY <2>2 DEF IsSeen
  <2>5. PICK y : y = LookedThrough(f, v)
    OBVIOUS
  <2>6. /\ y \in Op /\ y <= v /\ f[y].type # "none"
        /\ Contents(f, m, y, NumOps) = Contents(f, m, v, NumOps)
    BY <1>6, <2>3, <2>4, <2>5, SeenThrough
  <2>7. y < NumOps
    BY <1>0, <2>3, <2>6
  <2> QED  BY <1>4, <2>1, <2>5, <2>6, <2>7
<1>7. \A k \in 1 .. L : A[k] \in Op /\ A[k] < NumOps /\ f[A[k]].type # "none"
  BY <1>6 DEF Meant
<1>8. A \in Seq(Op) /\ Len(A) = L
  BY <1>4, <1>7, <1>3
<1>9. r \in [Op -> OpIR]
  <2>1. [f[NumOps] EXCEPT !.args = A] \in OpIR
    <3>1. f[NumOps] \in OpIR
      BY <1>0, <1>1
    <3> QED  BY <1>8, <3>1 DEF OpIR
  <2> QED  BY <1>0, <1>1, <1>5, <2>1 DEF ReadThrough
<1>10. ASSUME NEW o \in Op PROVE OpOK(r, o)
  <2>1. CASE o = NumOps
    <3>1. r[o].kind = "return" /\ r[o].type = "none" /\ r[o].args = A
      BY <1>1, <2>1, <1>0, <1>5 DEF OpOK, OpIR
    <3>2. \A k \in 1 .. Len(r[o].args) : r[o].args[k] < o /\ r[r[o].args[k]].type # "none"
      BY <1>0, <1>5, <1>7, <1>8, <2>1, <3>1
    <3> QED  BY <2>1, <3>1, <3>2 DEF OpOK
  <2>2. CASE o # NumOps
    <3>1. r[o] = f[o] /\ OpOK(f, o)
      BY <1>1, <1>5, <2>2
    <3>2. \A k \in 1 .. Len(f[o].args) :
            f[o].args[k] < o /\ r[f[o].args[k]].type = f[f[o].args[k]].type
      <4> SUFFICES ASSUME NEW k \in 1 .. Len(f[o].args)
                   PROVE  f[o].args[k] < o /\ r[f[o].args[k]].type = f[f[o].args[k]].type
        OBVIOUS
      <4>1. PICK v : v = f[o].args[k]
        OBVIOUS
      <4>2. v \in Operands(f, o)
        BY <1>1, <4>1, OperandsAre
      <4>3. v \in Op /\ v < o /\ v # NumOps
        BY <1>0, <4>2, OperandOK
      <4> QED  BY <1>5, <4>1, <4>3
    <3>3. Len(f[o].args) \in Nat
      BY <1>1, OperandsAre
    <3> QED  BY <3>1, <3>2, <3>3, SameOpOK
  <2> QED  BY <2>1, <2>2
<1>11. IsFunction(r)
  BY <1>9, <1>10, FunctionIff
<1>12. r[NumOps].args = A
  BY <1>0, <1>1, <1>5 DEF OpIR
<1>13. ASSUME NEW s PROVE Observed(s, r) = Observed(s, f)
  BY <1>2, <1>6, <1>12, <1>5, <1>8, <1>11, ReturnRead DEF Meant
<1> QED  BY <1>2, <1>5, <1>8, <1>11, <1>12, <1>13

\* r with the first n operands of the return that are mutable snapshot.
SnapshotTaken(y, n) ==
  IF IsMutable(y, y[NumOps].args[n]) THEN ReturnThrough(y, n, MkSnapshot) ELSE y

AreSnapshots(g, r, L) ==
  g = [n \in 0 .. L |->
         IF n = 0 THEN r
         ELSE IF IsMutable(g[n - 1], g[n - 1][NumOps].args[n])
         THEN ReturnThrough(g[n - 1], n, MkSnapshot)
         ELSE g[n - 1]]

LEMMA SnapshotsExist ==
  ASSUME NEW r, NEW L \in Nat
  PROVE  \E g : AreSnapshots(g, r, L)
<1> DEFINE T == {n \in Nat : \E g : \A m \in 0 .. L :
                   m <= n => g[m] = IF m = 0 THEN r ELSE SnapshotTaken(g[m - 1], m)}
<1>1. 0 \in T
  <2> DEFINE g == [m \in 0 .. L |-> r]
  <2>1. \A m \in 0 .. L : m <= 0 => m = 0 /\ g[m] = r
    OBVIOUS
  <2> HIDE DEF g
  <2> QED  BY <2>1
<1>2. ASSUME NEW n \in Nat, n \in T PROVE n + 1 \in T
  <2>1. PICK g : \A m \in 0 .. L : m <= n => g[m] = IF m = 0 THEN r ELSE SnapshotTaken(g[m - 1], m)
    BY <1>2
  <2> DEFINE h == [m \in 0 .. L |-> IF m = n + 1 THEN SnapshotTaken(g[n], n + 1) ELSE g[m]]
  <2>2. ASSUME NEW m \in 0 .. L, m <= n + 1
        PROVE  h[m] = IF m = 0 THEN r ELSE SnapshotTaken(h[m - 1], m)
    <3>1. CASE m = n + 1
      <4>1. m - 1 = n /\ n \in 0 .. L /\ n # n + 1 /\ m # 0
        BY <3>1
      <4>2. h[n] = g[n] /\ h[m] = SnapshotTaken(g[n], n + 1)
        BY <3>1, <4>1
      <4> HIDE DEF h
      <4> QED  BY <3>1, <4>1, <4>2
    <3>2. CASE m # n + 1
      <4>1. m <= n /\ h[m] = g[m]
        BY <2>2, <3>2
      <4>2. m # 0 => m - 1 \in 0 .. L /\ m - 1 # n + 1
        BY <4>1
      <4>3. m # 0 => h[m - 1] = g[m - 1]
        BY <4>2
      <4> HIDE DEF h
      <4> QED  BY <2>1, <4>1, <4>3
    <3> QED  BY <3>1, <3>2
  <2> HIDE DEF h
  <2> QED  BY <2>2
<1>3. L \in T
  <2> HIDE DEF T
  <2> QED  BY <1>1, <1>2, SetInduction
<1>4. PICK g : \A m \in 0 .. L : m <= L => g[m] = IF m = 0 THEN r ELSE SnapshotTaken(g[m - 1], m)
  BY <1>3
<1> DEFINE h == [m \in 0 .. L |-> g[m]]
<1>5. h = [m \in 0 .. L |-> IF m = 0 THEN r ELSE SnapshotTaken(h[m - 1], m)]
  <2>1. ASSUME NEW m \in 0 .. L PROVE h[m] = IF m = 0 THEN r ELSE SnapshotTaken(h[m - 1], m)
    <3>1. m <= L /\ h[m] = g[m] /\ (m # 0 => m - 1 \in 0 .. L)
      OBVIOUS
    <3>2. m # 0 => h[m - 1] = g[m - 1]
      BY <3>1
    <3> HIDE DEF h
    <3> QED  BY <1>4, <3>1, <3>2
  <2> QED  BY <2>1
<1> HIDE DEF h
<1>6. AreSnapshots(h, r, L)
  BY <1>5 DEF AreSnapshots, SnapshotTaken
<1> QED  BY <1>6

LEMMA ValuesReturnedIs ==
  ASSUME NEW f, NEW L \in Nat, L = Len(f[NumOps].args)
  PROVE  \E g : AreSnapshots(g, ReadThrough(f), L) /\ WithValuesReturned(f) = g[L]
<1> DEFINE Is(g) == g = [n \in 0 .. Len(f[NumOps].args) |->
                           IF n = 0 THEN ReadThrough(f)
                           ELSE IF IsMutable(g[n - 1], g[n - 1][NumOps].args[n])
                           THEN ReturnThrough(g[n - 1], n, MkSnapshot)
                           ELSE g[n - 1]]
           h == CHOOSE g : Is(g)
<1>1. \A g : AreSnapshots(g, ReadThrough(f), L) <=> Is(g)
  BY DEF AreSnapshots
<1>2. Is(h)
  <2>1. \E g : Is(g)
    <3> HIDE DEF Is
    <3> QED  BY <1>1, SnapshotsExist
  <2> HIDE DEF Is
  <2> QED  BY <2>1
<1>3. WithValuesReturned(f) = h[Len(f[NumOps].args)]
  BY DEF WithValuesReturned, ReadThrough
<1> HIDE DEF Is, h
<1> QED  BY <1>1, <1>2, <1>3

\* Nothing is seen of returning values, and no mutable tensor is returned.
LEMMA ValuesReturned ==
  ASSUME NEW f, IsFunction(f), HasRoom(f), CastsEnd(f), NEW h, h = WithValuesReturned(f)
  PROVE  /\ IsFunction(h)
         /\ \A s : Observed(s, h) = Observed(s, f)
         /\ \A k \in 1 .. Len(h[NumOps].args) : TypeAt(h, k) # "mutable"
<1>0. NumOps \in Nat \ {0} /\ NumOps \in Op /\ Op = 1 .. NumOps
  BY FunctionsAssumption DEF Op
<1>1. PICK L : L = Len(f[NumOps].args)
  OBVIOUS
<1>2. L \in Nat
  BY <1>0, <1>1, OperandsAre DEF IsFunction
<1>3. PICK r : r = ReadThrough(f)
  OBVIOUS
<1>4. /\ IsFunction(r) /\ Len(r[NumOps].args) = L
      /\ \A o \in Op : o # NumOps => r[o] = f[o]
      /\ \A s : Observed(s, r) = Observed(s, f)
  BY <1>1, <1>3, ReadThroughIs
<1>5. PICK g : AreSnapshots(g, r, L) /\ h = g[L]
  BY <1>1, <1>2, <1>3, ValuesReturnedIs
<1>6. \A n \in 0 .. L : g[n] = IF n = 0 THEN r ELSE SnapshotTaken(g[n - 1], n)
  BY <1>5 DEF AreSnapshots, SnapshotTaken
<1>7. HasFree(r, 2 * L)
  BY <1>1, <1>0, <1>2, <1>4 DEF HasRoom, HasFree
<1> DEFINE Q(y, n) == /\ IsFunction(y) /\ HasFree(y, 2 * L - n) /\ Len(y[NumOps].args) = L
                      /\ Preserves(y, r)
                      /\ \A k \in 1 .. L : k <= n => TypeAt(y, k) # "mutable"
           S == {n \in Nat : n <= L => Q(g[n], n)}
<1>8. 0 \in S
  BY <1>2, <1>6, <1>4, <1>7, PreservesItself
<1>9. ASSUME NEW n \in Nat, n \in S PROVE n + 1 \in S
  <2> SUFFICES ASSUME n + 1 <= L PROVE Q(g[n + 1], n + 1)
    OBVIOUS
  <2>1. Q(g[n], n)
    BY <1>2, <1>9
  <2>2. PICK y, m, j : y = g[n] /\ m = n + 1 /\ j = 2 * L - m
    OBVIOUS
  <2>3. m \in 1 .. L /\ m - 1 = n /\ j \in Nat /\ 2 * L - n = j + 1
    BY <1>2, <2>2
  <2>4. g[m] = SnapshotTaken(y, m)
    BY <1>2, <1>6, <2>2, <2>3
  <2>5. /\ IsFunction(y) /\ HasFree(y, j + 1) /\ Len(y[NumOps].args) = L /\ Preserves(y, r)
        /\ \A k \in 1 .. L : k <= n => TypeAt(y, k) # "mutable"
    BY <2>1, <2>2, <2>3
  <2>6. \A k \in 1 .. L : k <= m <=> k <= n \/ k = m
    BY <1>2, <2>2
  <2>7. CASE TypeAt(y, m) = "mutable"
    <3>1. IsReturned(ReturnThrough(y, m, MkSnapshot), y, m, j, "value")
      BY <2>3, <2>5, <2>7, SnapshotReturned
    <3>2. IsReturned(g[m], y, m, j, "value")
      BY <2>4, <2>7, <3>1 DEF SnapshotTaken, TypeAt, IsMutable
    <3>3. PICK z : z = g[m]
      OBVIOUS
    <3>4. /\ IsFunction(z) /\ HasFree(z, j) /\ Len(z[NumOps].args) = L /\ Preserves(z, y)
          /\ \A k \in 1 .. L : TypeAt(z, k) = IF k = m THEN "value" ELSE TypeAt(y, k)
      BY <2>5, <3>2, <3>3 DEF IsReturned
    <3>5. Preserves(z, r)
      BY <2>5, <3>4, PreservesTransitive
    <3>6. \A k \in 1 .. L : k <= m => TypeAt(z, k) # "mutable"
      BY <2>5, <2>6, <3>4
    <3> QED  BY <2>2, <3>3, <3>4, <3>5, <3>6
  <2>8. CASE TypeAt(y, m) # "mutable"
    <3>1. g[m] = y
      BY <2>4, <2>8 DEF SnapshotTaken, TypeAt, IsMutable
    <3>2. HasFree(y, j)
      BY <2>3, <2>5, FewerFree
    <3>3. \A k \in 1 .. L : k <= m => TypeAt(y, k) # "mutable"
      BY <2>5, <2>6, <2>8
    <3> QED  BY <2>2, <2>5, <3>1, <3>2, <3>3
  <2> QED  BY <2>7, <2>8
<1>10. Q(h, L)
  <2>1. L \in S
    <3> HIDE DEF S
    <3> QED  BY <1>2, <1>8, <1>9, SetInduction
  <2> QED  BY <1>2, <1>5, <2>1
<1>11. \A s : Observed(s, h) = Observed(s, f)
  BY <1>10, <1>4 DEF Preserves
<1>12. \A k \in 1 .. L : k <= L
  BY <1>2
<1> QED  BY <1>10, <1>11, <1>12

(***************************************************************************)
(* What is seen of a function when one of its ops is replaced by others.   *)
(***************************************************************************)
\* What op v of f has become when what used x uses y.
Stand(x, y, v) == IF v = x THEN y ELSE v

\* Nothing is appended to a list, and h does what f does except at the new positions N and at x:
\* what used x uses y.
Moved(f, h, N, x, y) ==
  /\ ListsAreNotChanged(f)
  /\ N \subseteq Op /\ x \in Op \ N /\ y \in Op
  /\ \A o \in N : f[o].kind = "none" /\ h[o].kind \notin {"append", "overwrite", "inplace", "other"}
  /\ \A o \in Op \ N : o # x =>
       /\ h[o].kind = f[o].kind /\ h[o].type = f[o].type /\ Len(h[o].args) = Len(f[o].args)
       /\ \A k \in 1 .. Len(f[o].args) : h[o].args[k] = Stand(x, y, f[o].args[k])
  /\ \/ f[x].kind = "inplace" /\ h[x].kind = "overwrite"
     \/ f[x].kind = "pure" /\ h[x].kind = "pure" /\ (x # y => f[y].kind = "none")
  /\ h[y].kind # "list"

\* The result of v is found at another base, with the same path, and what is written is the same.
Follows(f, m, p, x, y, v) ==
  /\ p[Stand(x, y, v)].base = Stand(x, y, m[v].base) /\ p[Stand(x, y, v)].path = m[v].path
  /\ m[v].base \in {0, v} => p[Stand(x, y, v)].term = m[v].term
  /\ v \in Writes(f) =>
       p[v].base = Stand(x, y, m[v].base) /\ p[v].path = m[v].path /\ p[v].term = m[v].term

FollowedBefore(f, m, p, N, x, y, i) == \A v \in Op \ N : v < i => Follows(f, m, p, x, y, v)

\* f and h, made of s, with their meanings.
IsMove(s, f, m, h, p, N, x, y) == Meant(m, s, f) /\ Meant(p, s, h) /\ Moved(f, h, N, x, y)

LEMMA MoveFacts ==
  ASSUME NEW s, NEW f, NEW m, NEW h, NEW p, NEW N, NEW x, NEW y, IsMove(s, f, m, h, p, N, x, y)
  PROVE  /\ IsFunction(f) /\ IsFunction(h) /\ f \in [Op -> OpIR] /\ h \in [Op -> OpIR]
         /\ \A o \in Op : OpOK(f, o) /\ OpOK(h, o) /\ f[o].kind # "append" /\ h[o].kind # "append"
         /\ Writes(h) = Writes(f) /\ Writes(f) \subseteq Op \ N
         /\ \A o \in Op : \A v \in Operands(f, o) : v \in Op \ N /\ v < o /\ f[v].type # "none"
         /\ NumOps \in Op /\ NumOps \notin N /\ NumOps # x /\ x # 0 /\ y # 0
<1>1. IsFunction(f) /\ IsFunction(h) /\ f \in [Op -> OpIR] /\ h \in [Op -> OpIR]
  BY DEF IsMove, Meant, IsFunction
<1>2. \A o \in Op : OpOK(f, o) /\ OpOK(h, o)
  BY <1>1, FunctionIff
<1>3. Moved(f, h, N, x, y)
  BY DEF IsMove
<1>4. \A o \in Op : f[o].kind # "append"
  BY <1>3 DEF Moved, ListsAreNotChanged
<1>5. \A o \in Op : h[o].kind # "append"
  BY <1>3, <1>4 DEF Moved
<1>6. ASSUME NEW o \in Op PROVE o \in Writes(h) <=> o \in Writes(f)
  BY <1>3 DEF Moved, Writes
<1>7. Writes(h) \subseteq Op /\ Writes(f) \subseteq Op
  BY DEF Writes
<1>8. Writes(h) = Writes(f)
  BY <1>6, <1>7
<1>9. \A o \in N : f[o].kind = "none"
  BY <1>3 DEF Moved
<1>10. Writes(f) \subseteq Op \ N
  BY <1>9 DEF Writes
<1>11. ASSUME NEW o \in Op, NEW v \in Operands(f, o) PROVE v \in Op \ N /\ v < o /\ f[v].type # "none"
  BY <1>1, <1>2, <1>9, OperandOK DEF OpOK
<1>12. NumOps \in Op /\ f[NumOps].kind = "return"
  BY <1>2, FunctionsAssumption DEF Op, OpOK
<1>13. x \in Op /\ y \in Op /\ f[x].kind \in {"inplace", "pure"}
  BY <1>3 DEF Moved
<1> QED  BY <1>1, <1>2, <1>4, <1>5, <1>8, <1>9, <1>10, <1>11, <1>12, <1>13 DEF Op

\* The same is read at b and at c when the same was written to b in f as to c in h.
LEMMA ReadsAlike ==
  ASSUME NEW f, NEW m, NEW h, NEW p, NEW b, NEW c, NEW i,
         WritesTo(h, p, c, i) = WritesTo(f, m, b, i),
         \A w \in WritesTo(f, m, b, i) : p[w].path = m[w].path /\ p[w].term = m[w].term,
         p[c].term = m[b].term, NEW path
  PROVE  Read(h, p, c, path, i) = Read(f, m, b, path, i)
<1>1. CASE WritesTo(f, m, b, i) = {}
  BY <1>1, ReadIs
<1>2. CASE WritesTo(f, m, b, i) # {}
  <2>1. PICK w \in WritesTo(f, m, b, i) : \A z \in WritesTo(f, m, b, i) : z <= w
    BY <1>2, ReadIs
  <2>2. PICK q, t : q = m[w].path /\ t = m[w].term
    OBVIOUS
  <2>3. p[w].path = q /\ p[w].term = t
    BY <2>2
  <2>4. Read(f, m, b, path, i) =
          IF IsPrefix(q, path) THEN Viewed(SubSeq(path, Len(q) + 1, Len(path)), t)
          ELSE Viewed(path, <<-1, w>>)
    BY <2>1, <2>2, ReadIs
  <2>5. Read(h, p, c, path, i) =
          IF IsPrefix(q, path) THEN Viewed(SubSeq(path, Len(q) + 1, Len(path)), t)
          ELSE Viewed(path, <<-1, w>>)
    BY <2>1, <2>3, ReadIs
  <2> QED  BY <2>4, <2>5
<1> QED  BY <1>1, <1>2

\* Where x is a base, y was none.
LEMMA BasesApart ==
  ASSUME NEW s, NEW f, NEW m, NEW h, NEW p, NEW N, NEW x, NEW y, IsMove(s, f, m, h, p, N, x, y),
         NEW b \in Op, f[b].kind \in {"to_tensor", "pure"},
         NEW c, c = 0 \/ (c \in Op /\ f[c].kind \in {"to_tensor", "pure"})
  PROVE  Stand(x, y, c) = Stand(x, y, b) <=> c = b
<1>1. \/ f[x].kind = "inplace"
      \/ f[x].kind = "pure" /\ (x # y => f[y].kind = "none")
  BY DEF IsMove, Moved
<1>2. x # 0 /\ y # 0 /\ 0 \notin Op
  BY MoveFacts DEF Op
<1>3. CASE c = 0
  BY <1>2, <1>3 DEF Stand
<1>4. CASE c \in Op /\ f[c].kind \in {"to_tensor", "pure"}
  BY <1>1, <1>4 DEF Stand
<1> QED  BY <1>3, <1>4

\* What an op writes to.
LEMMA WrittenBase ==
  ASSUME NEW s, NEW f, NEW m, Meant(m, s, f), NEW w \in Writes(f)
  PROVE  m[w].base = 0 \/ (m[w].base \in Op /\ f[m[w].base].kind \in {"to_tensor", "pure"})
<1>1. w \in Op /\ f[w].kind \in {"overwrite", "inplace", "other"}
  BY DEF Writes
<1>2. f \in [Op -> OpIR] /\ OpOK(f, w)
  BY <1>1, FunctionIff DEF Meant, IsFunction
<1>3. ASSUME NEW a \in Op, m[w].base = m[a].base, f[a].type # "none"
      PROVE  m[w].base = 0 \/ (m[w].base \in Op /\ f[m[w].base].kind \in {"to_tensor", "pure"})
  BY <1>2, <1>3, Placed DEF OpIR, IsPlaced
<1>4. CASE f[w].kind = "overwrite"
  <2>1. PICK a : a = f[w].args[2]
    OBVIOUS
  <2>2. 2 \in 1 .. Len(f[w].args)
    BY <1>2, <1>4 DEF OpOK
  <2>3. a \in Op /\ f[a].type # "none"
    BY <1>1, <1>2, <2>1, <2>2, OperandsAre DEF OpOK
  <2>4. m[w].base = m[a].base
    BY <1>1, <1>4, <2>1, PlaceOfOverwrite
  <2> QED  BY <1>3, <2>3, <2>4
<1>5. CASE f[w].kind \in {"inplace", "other"}
  BY <1>1, <1>2, <1>5, <1>3, OperandsAre, PlaceOfWrite DEF OpOK
<1> QED  BY <1>1, <1>4, <1>5

\* What is written to a base in f is written to the one it has become in h.
LEMMA ReadsMoved ==
  ASSUME NEW s, NEW f, NEW m, NEW h, NEW p, NEW N, NEW x, NEW y, IsMove(s, f, m, h, p, N, x, y),
         NEW i \in Op, FollowedBefore(f, m, p, N, x, y, i),
         NEW b \in Op, b < i, f[b].kind \in {"to_tensor", "pure"}, IsMutable(f, b), NEW path
  PROVE  Read(h, p, Stand(x, y, b), path, i) = Read(f, m, b, path, i)
<1>1. Meant(m, s, f) /\ Writes(h) = Writes(f) /\ Writes(f) \subseteq Op \ N
  BY MoveFacts DEF IsMove
<1>2. PICK c : c = Stand(x, y, b)
  OBVIOUS
<1>3. ASSUME NEW w \in Writes(f), w < i
      PROVE  /\ p[w].base = c <=> m[w].base = b
             /\ p[w].path = m[w].path /\ p[w].term = m[w].term
  <2>1. p[w].base = Stand(x, y, m[w].base) /\ p[w].path = m[w].path /\ p[w].term = m[w].term
    BY <1>1, <1>3 DEF FollowedBefore, Follows
  <2>2. PICK d : d = m[w].base
    OBVIOUS
  <2>3. d = 0 \/ (d \in Op /\ f[d].kind \in {"to_tensor", "pure"})
    BY <1>1, <2>2, WrittenBase
  <2>4. Stand(x, y, d) = Stand(x, y, b) <=> d = b
    BY <2>3, BasesApart
  <2> QED  BY <1>2, <2>1, <2>2, <2>4
<1>4. WritesTo(h, p, c, i) = WritesTo(f, m, b, i)
  BY <1>1, <1>3 DEF WritesTo
<1>5. \A w \in WritesTo(f, m, b, i) : p[w].path = m[w].path /\ p[w].term = m[w].term
  BY <1>3 DEF WritesTo
<1>6. p[c].term = m[b].term
  BY <1>1, <1>2, PlaceOfAllocation DEF IsMove, Moved, FollowedBefore, Follows
<1> QED  BY <1>2, <1>4, <1>5, <1>6, ReadsAlike

LEMMA TensorMoved ==
  ASSUME NEW s, NEW f, NEW m, NEW h, NEW p, NEW N, NEW x, NEW y, IsMove(s, f, m, h, p, N, x, y),
         NEW i \in Op, FollowedBefore(f, m, p, N, x, y, i),
         NEW v \in Op \ N, v < i, f[v].type # "none"
  PROVE  TensorContents(h, p, Stand(x, y, v), i) = TensorContents(f, m, v, i)
<1>1. f \in [Op -> OpIR] /\ Meant(m, s, f) /\ x # 0 /\ y # 0 /\ Op = 1 .. NumOps /\ NumOps \in Nat
  BY MoveFacts, FunctionsAssumption DEF IsMove, Op
<1>2. PICK u : u = Stand(x, y, v)
  OBVIOUS
<1>3. PICK b : b = m[v].base
  OBVIOUS
<1>4. /\ p[u].base = Stand(x, y, b) /\ p[u].path = m[v].path
      /\ b = 0 => p[u].term = m[v].term
  BY <1>2, <1>3 DEF FollowedBefore, Follows
<1>5. CASE b = 0
  BY <1>1, <1>4, <1>5, <1>2, <1>3 DEF Stand, TensorContents
<1>6. CASE b # 0
  <2>1. f[v].type \in {"value", "mutable", "list"}
    BY <1>1 DEF OpIR
  <2>2. b \in Op /\ b <= v /\ f[b].kind \in {"to_tensor", "pure"} /\ IsMutable(f, b)
    BY <1>1, <1>3, <1>6, <2>1, Placed DEF IsPlaced
  <2>3. b < i
    BY <1>1, <2>2
  <2>4. Stand(x, y, b) # 0
    BY <1>1, <1>6 DEF Stand
  <2>5. Read(h, p, Stand(x, y, b), m[v].path, i) = Read(f, m, b, m[v].path, i)
    BY <2>2, <2>3, ReadsMoved
  <2> QED  BY <1>2, <1>3, <1>4, <1>6, <2>4, <2>5 DEF TensorContents
<1> QED  BY <1>5, <1>6

\* A list that is not appended to has the elements it was made with.
LEMMA ElementsAre ==
  ASSUME NEW f, \A o \in Op : f[o].kind # "append", NEW v, NEW i \in Op
  PROVE  Elements(f, v, i) = f[v].args
<1>0. NumOps \in Nat /\ Op = 1 .. NumOps /\ i \in Nat \ {0}
  BY FunctionsAssumption DEF Op
<1>1. PICK g : IsElements(g, f, v, i) /\ Elements(f, v, i) = g[i - 1]
  BY <1>0, ElementsExist
<1> DEFINE T == {n \in Nat : n <= i - 1 => g[n] = f[v].args}
<1>2. 0 \in T
  BY <1>0, <1>1 DEF IsElements
<1>3. ASSUME NEW n \in Nat, n \in T PROVE n + 1 \in T
  BY <1>0, <1>1, <1>3 DEF IsElements
<1>4. i - 1 \in T
  <2> HIDE DEF T
  <2>1. i - 1 \in Nat
    BY <1>0
  <2> QED  BY <1>2, <1>3, <2>1, SetInduction
<1> QED  BY <1>0, <1>1, <1>4

\* What op i finds in the tensors of d.
TensorsContents(f, m, d, i) == [k \in DOMAIN d |-> TensorContents(f, m, d[k], i)]

\* The contents of lists that are not appended to.
LEMMA ListContents ==
  ASSUME NEW f, \A o \in Op : f[o].kind # "append", NEW m, NEW v, f[v].kind = "list", NEW i \in Op
  PROVE  Contents(f, m, v, i) = <<-3, Len(f[v].args)>> \o FlattenSeq(TensorsContents(f, m, f[v].args, i))
<1>1. Elements(f, v, i) = f[v].args
  BY ElementsAre
<1> QED  BY <1>1, ContentsOf DEF TensorsContents

LEMMA ContentsMoved ==
  ASSUME NEW s, NEW f, NEW m, NEW h, NEW p, NEW N, NEW x, NEW y, IsMove(s, f, m, h, p, N, x, y),
         NEW i \in Op, FollowedBefore(f, m, p, N, x, y, i),
         NEW v \in Op \ N, v < i, f[v].type # "none"
  PROVE  Contents(h, p, Stand(x, y, v), i) = Contents(f, m, v, i)
<1>1. /\ f \in [Op -> OpIR] /\ h \in [Op -> OpIR]
      /\ \A o \in Op : f[o].kind # "append" /\ h[o].kind # "append"
      /\ \A o \in Op : \A u \in Operands(f, o) : u \in Op \ N /\ u < o /\ f[u].type # "none"
  BY MoveFacts
<1>2. CASE f[v].kind # "list"
  <2>1. PICK u : u = Stand(x, y, v)
    OBVIOUS
  <2>2. h[u].kind # "list"
    <3>1. CASE v = x
      BY <2>1, <3>1 DEF Stand, IsMove, Moved
    <3>2. CASE v # x
      BY <3>2, <1>2, <2>1 DEF IsMove, Moved, Stand
    <3> QED  BY <3>1, <3>2
  <2>3. Contents(h, p, u, i) = TensorContents(h, p, u, i) /\ Contents(f, m, v, i) = TensorContents(f, m, v, i)
    BY <1>2, <2>2, ContentsOf
  <2> QED  BY <2>1, <2>3, TensorMoved
<1>3. CASE f[v].kind = "list"
  <2>1. v # x
    BY <1>3 DEF IsMove, Moved
  <2>2. /\ h[v].kind = "list" /\ Len(h[v].args) = Len(f[v].args)
        /\ \A k \in 1 .. Len(f[v].args) : h[v].args[k] = Stand(x, y, f[v].args[k])
    BY <1>3, <2>1 DEF IsMove, Moved
  <2>3. DOMAIN f[v].args = 1 .. Len(f[v].args) /\ DOMAIN h[v].args = 1 .. Len(f[v].args)
    BY <1>1, <2>2, OperandsAre
  <2>4. ASSUME NEW k \in 1 .. Len(f[v].args)
        PROVE  TensorContents(h, p, h[v].args[k], i) = TensorContents(f, m, f[v].args[k], i)
    <3>1. PICK u : u = f[v].args[k]
      OBVIOUS
    <3>2. u \in Operands(f, v)
      BY <2>3, <3>1 DEF Operands
    <3>3. u \in Op \ N /\ u < v /\ f[u].type # "none"
      BY <1>1, <3>2
    <3>4. u < i
      BY <3>3 DEF Op
    <3>5. TensorContents(h, p, Stand(x, y, u), i) = TensorContents(f, m, u, i)
      BY <3>3, <3>4, TensorMoved
    <3> QED  BY <2>2, <3>1, <3>5
  <2>5. Stand(x, y, v) = v
    BY <2>1 DEF Stand
  <2>6. Contents(f, m, v, i) = <<-3, Len(f[v].args)>> \o FlattenSeq(TensorsContents(f, m, f[v].args, i))
    <3>1. \A o \in Op : f[o].kind # "append"
      BY <1>1
    <3> QED  BY <1>3, <3>1, ListContents
  <2>7. Contents(h, p, v, i) = <<-3, Len(h[v].args)>> \o FlattenSeq(TensorsContents(h, p, h[v].args, i))
    <3>1. (\A o \in Op : h[o].kind # "append") /\ h[v].kind = "list"
      BY <1>1, <2>2
    <3> QED  BY <3>1, ListContents
  <2>8. TensorsContents(h, p, h[v].args, i) = TensorsContents(f, m, f[v].args, i)
    BY <2>3, <2>4 DEF TensorsContents
  <2> QED  BY <2>2, <2>5, <2>6, <2>7, <2>8
<1> QED  BY <1>2, <1>3

LEMMA OperandsMoved ==
  ASSUME NEW s, NEW f, NEW m, NEW h, NEW p, NEW N, NEW x, NEW y, IsMove(s, f, m, h, p, N, x, y),
         NEW i \in Op \ N, i # x, FollowedBefore(f, m, p, N, x, y, i)
  PROVE  /\ \A k \in 1 .. Len(f[i].args) : Contents(h, p, h[i].args[k], i) = Contents(f, m, f[i].args[k], i)
         /\ OperandContents(h, p, i) = OperandContents(f, m, i)
         /\ ViewTerm(h, p, i) = ViewTerm(f, m, i)
<1>1. /\ f \in [Op -> OpIR] /\ h \in [Op -> OpIR] /\ i \in Op
      /\ \A u \in Operands(f, i) : u \in Op \ N /\ u < i /\ f[u].type # "none"
  BY MoveFacts
<1>2. /\ Len(h[i].args) = Len(f[i].args)
      /\ \A k \in 1 .. Len(f[i].args) : h[i].args[k] = Stand(x, y, f[i].args[k])
  BY DEF IsMove, Moved
<1>3. DOMAIN f[i].args = 1 .. Len(f[i].args) /\ DOMAIN h[i].args = 1 .. Len(f[i].args)
  BY <1>1, <1>2, OperandsAre
<1>4. ASSUME NEW k \in 1 .. Len(f[i].args)
      PROVE  Contents(h, p, h[i].args[k], i) = Contents(f, m, f[i].args[k], i)
  BY <1>3, <1>1, <1>2, ContentsMoved DEF Operands
<1>5. OperandContents(h, p, i) = OperandContents(f, m, i)
  BY <1>3, <1>4 DEF OperandContents
<1>6. ViewTerm(h, p, i) = ViewTerm(f, m, i)
  BY <1>5 DEF ViewTerm
<1> QED  BY <1>4, <1>5, <1>6

\* The tensor that op i changes or is made of.
LEMMA MovedOperand ==
  ASSUME NEW s, NEW f, NEW m, NEW h, NEW p, NEW N, NEW x, NEW y, IsMove(s, f, m, h, p, N, x, y),
         NEW i \in Op \ N, i # x, FollowedBefore(f, m, p, N, x, y, i),
         NEW k \in 1 .. Len(f[i].args), NEW a, a = f[i].args[k], NEW c, c = h[i].args[k]
  PROVE  \E b, q, t, z : m[a] = Known(b, q, t) /\ p[c] = Known(Stand(x, y, b), q, z)
<1>0. i \in Op /\ y \in Op
  BY DEF IsMove, Moved
<1>1. /\ f \in [Op -> OpIR] /\ h \in [Op -> OpIR]
      /\ \A u \in Operands(f, i) : u \in Op \ N /\ u < i /\ f[u].type # "none"
  BY <1>0, MoveFacts
<1>2. c = Stand(x, y, a)
  BY DEF IsMove, Moved
<1>3. a \in Operands(f, i)
  BY <1>1, OperandsAre DEF Operands
<1>4. a \in Op \ N /\ a < i
  BY <1>1, <1>3
<1>5. c \in Op
  BY <1>0, <1>2, <1>4 DEF Stand
<1>6. Meant(m, s, f) /\ Meant(p, s, h)
  BY DEF IsMove
<1>7. m[a] = Known(m[a].base, m[a].path, m[a].term)
  BY <1>4, <1>6, AllAreKnown
<1>8. p[c] = Known(p[c].base, p[c].path, p[c].term)
  BY <1>5, <1>6, AllAreKnown
<1>9. p[c].base = Stand(x, y, m[a].base) /\ p[c].path = m[a].path
  BY <1>2, <1>4 DEF FollowedBefore, Follows
<1> QED  BY <1>7, <1>8, <1>9

LEMMA StepMoved ==
  ASSUME NEW s, NEW f, NEW m, NEW h, NEW p, NEW N, NEW x, NEW y, IsMove(s, f, m, h, p, N, x, y),
         NEW i \in Op \ N, i # x, FollowedBefore(f, m, p, N, x, y, i)
  PROVE  Follows(f, m, p, x, y, i)
<1>1. /\ f \in [Op -> OpIR] /\ h \in [Op -> OpIR] /\ OpOK(f, i) /\ OpOK(h, i) /\ x # 0 /\ i # 0 /\ i \in Op
      /\ IsFunction(f) /\ IsFunction(h)
  BY MoveFacts DEF Op
<1>2. Meant(m, s, f) /\ Meant(p, s, h) /\ h[i].kind = f[i].kind /\ h[i].type = f[i].type
      /\ Len(h[i].args) = Len(f[i].args)
  BY DEF IsMove, Moved
<1>3. m[i] = Denote(s, f, m, i) /\ p[i] = Denote(s, h, p, i) /\ AllKnown(m, i)
  BY <1>1, <1>2, AllAreKnown
<1>4. OperandContents(h, p, i) = OperandContents(f, m, i) /\ ViewTerm(h, p, i) = ViewTerm(f, m, i)
  BY OperandsMoved
<1>5. Stand(x, y, i) = i /\ Stand(x, y, 0) = 0
  BY <1>1 DEF Stand
<1>6. CASE f[i].kind \in {"inplace", "other", "overwrite"}
  <2>1. PICK k : k = IF f[i].kind = "overwrite" THEN 2 ELSE 1
    OBVIOUS
  <2>2. k \in 1 .. Len(f[i].args)
    BY <1>1, <1>6, <2>1, OperandsAre DEF OpOK
  <2>3. PICK a, c : a = f[i].args[k] /\ c = h[i].args[k]
    OBVIOUS
  <2>4. PICK b, q, t, z : m[a] = Known(b, q, t) /\ p[c] = Known(Stand(x, y, b), q, z)
    BY <2>2, <2>3, MovedOperand
  <2>5. PICK e : e = Stand(x, y, b)
    OBVIOUS
  <2>6. \E w : m[i] = Known(b, q, w) /\ p[i] = Known(e, q, w)
    <3>1. CASE f[i].kind = "inplace"
      <4>1. PICK w : w = <<i>> \o FlattenSeq(OperandContents(f, m, i))
        OBVIOUS
      <4>2. m[i] = Known(b, q, w)
        BY <1>3, <2>1, <2>3, <2>4, <3>1, <4>1, InplaceIs
      <4>3. p[i] = Known(e, q, w)
        BY <1>2, <1>3, <1>4, <2>1, <2>3, <2>4, <2>5, <3>1, <4>1, InplaceIs
      <4> QED  BY <4>2, <4>3
    <3>2. CASE f[i].kind = "other"
      <4>1. PICK w : w = <<-2, i>> \o OperandContents(f, m, i)[1]
        OBVIOUS
      <4>2. m[i] = Known(b, q, w)
        BY <1>3, <2>1, <2>3, <2>4, <3>2, <4>1, OtherIs
      <4>3. p[i] = Known(e, q, w)
        <5>1. w = <<-2, i>> \o OperandContents(h, p, i)[1]
          BY <1>4, <4>1
        <5>2. p[h[i].args[1]] = Known(e, q, z) /\ h[i].kind = "other"
          BY <1>2, <2>1, <2>3, <2>4, <2>5, <3>2
        <5> QED  BY <1>3, <5>1, <5>2, OtherIs
      <4> QED  BY <4>2, <4>3
    <3>3. CASE f[i].kind = "overwrite"
      BY <1>3, <2>1, <2>3, <2>4, <3>3, <1>2, <1>4, <2>5, OverwriteIs
    <3> QED  BY <1>6, <3>1, <3>2, <3>3
  <2>7. /\ p[i].base = Stand(x, y, m[i].base) /\ p[i].path = m[i].path /\ p[i].term = m[i].term
    BY <2>5, <2>6, KnownIs
  <2> QED  BY <1>5, <2>7 DEF Follows
<1>7. CASE IsViewLikeOp(f, i) /\ IsMutable(f, i)
  <2>1. 1 \in 1 .. Len(f[i].args)
    BY <1>1, <1>7, OperandsAre DEF OpOK, IsViewLikeOp
  <2>2. PICK a, c : a = f[i].args[1] /\ c = h[i].args[1]
    OBVIOUS
  <2>3. PICK b, q, t, z : m[a] = Known(b, q, t) /\ p[c] = Known(Stand(x, y, b), q, z)
    BY <2>1, <2>2, MovedOperand
  <2>4. PICK e : e = Stand(x, y, b)
    OBVIOUS
  <2>5. IsMutable(h, i) /\ IsViewLikeOp(h, i)
    BY <1>2, <1>7 DEF IsMutable, IsViewLikeOp
  <2>6. \E r, w : m[i] = Known(b, r, t) /\ p[i] = Known(e, r, w)
    <3>1. CASE f[i].kind = "view"
      <4>1. PICK r : r = Append(q, ViewTerm(f, m, i))
        OBVIOUS
      <4>2. m[i] = Known(b, r, t)
        BY <1>3, <1>7, <2>2, <2>3, <3>1, <4>1, ViewIs
      <4>3. p[i] = Known(e, r, z)
        BY <1>2, <1>3, <1>4, <2>2, <2>3, <2>4, <2>5, <3>1, <4>1, ViewIs
      <4> QED  BY <4>2, <4>3
    <3>2. CASE f[i].kind = "cast"
      BY <1>3, <1>7, <2>2, <2>3, <3>2, <1>2, <2>4, <2>5, CastIs
    <3> QED  BY <1>7, <3>1, <3>2 DEF IsViewLikeOp
  <2>7. p[i].base = Stand(x, y, m[i].base) /\ p[i].path = m[i].path /\ m[i].base = b
    BY <2>4, <2>6, KnownIs
  <2>8. b \notin {0, i}
    <3>1. m[a].base = b
      BY <2>3, KnownIs
    <3>2. a \in Op /\ a < i /\ IsMutable(f, a)
      BY <1>1, <1>2, <1>7, <2>1, <2>2, ChangedIs DEF OpOK, IsViewLikeOp, IsMutable
    <3>3. b \in Op /\ b <= a
      BY <1>2, <3>1, <3>2, Placed DEF IsPlaced, IsMutable
    <3> QED  BY <3>2, <3>3 DEF Op
  <2>9. i \notin Writes(f)
    BY <1>7 DEF Writes, IsViewLikeOp
  <2> QED  BY <1>5, <2>7, <2>8, <2>9 DEF Follows
<1>8. CASE ~ (f[i].kind \in {"inplace", "other", "overwrite"}) /\ ~ (IsViewLikeOp(f, i) /\ IsMutable(f, i))
  <2>1. Denote(s, h, p, i) = Denote(s, f, m, i)
    BY <1>2, <1>1, <1>3, <1>8, OperandsMoved, StepAgrees DEF IsMutable
  <2>2. m[i].base \in {0, i}
    BY <1>1, <1>2, <1>8, PlaceOfNothing, PlaceOfAllocation DEF OpIR, Kind, OpOK, IsMutable,
       IsViewLikeOp
  <2>3. Stand(x, y, m[i].base) = m[i].base
    BY <1>5, <2>2
  <2>4. p[i] = m[i]
    BY <1>3, <2>1
  <2> QED  BY <1>5, <2>3, <2>4 DEF Follows
<1> QED  BY <1>6, <1>7, <1>8

\* When what x becomes follows it, everything does.
LEMMA AllFollow ==
  ASSUME NEW s, NEW f, NEW m, NEW h, NEW p, NEW N, NEW x, NEW y, IsMove(s, f, m, h, p, N, x, y),
         FollowedBefore(f, m, p, N, x, y, x) => Follows(f, m, p, x, y, x)
  PROVE  \A i \in Op \ N : Follows(f, m, p, x, y, i) /\ FollowedBefore(f, m, p, N, x, y, i)
<1> DEFINE S == {i \in Op : i \notin N => Follows(f, m, p, x, y, i)}
<1>1. ASSUME NEW i \in Op, \A u \in Op : u < i => u \in S PROVE i \in S
  BY <1>1, StepMoved DEF FollowedBefore
<1>2. Op \subseteq S
  <2> HIDE DEF S
  <2> QED  BY <1>1, OpInduction
<1>3. \A i \in Op \ N : Follows(f, m, p, x, y, i)
  BY <1>2
<1> QED  BY <1>3 DEF FollowedBefore

\* Nothing is seen of such a move.
LEMMA ObservedMoved ==
  ASSUME NEW s, NEW f, NEW m, NEW h, NEW p, NEW N, NEW x, NEW y, IsMove(s, f, m, h, p, N, x, y),
         FollowedBefore(f, m, p, N, x, y, x) => Follows(f, m, p, x, y, x)
  PROVE  Observed(s, h) = Observed(s, f)
<1>1. NumOps \in Op \ N /\ NumOps # x
  BY MoveFacts
<1>2. Meant(m, s, f) /\ Meant(p, s, h) /\ Moved(f, h, N, x, y)
  BY DEF IsMove
<1>3. FollowedBefore(f, m, p, N, x, y, NumOps)
  BY <1>1, AllFollow
<1>4. \A k \in 1 .. Len(f[NumOps].args) :
        Contents(h, p, h[NumOps].args[k], NumOps) = Contents(f, m, f[NumOps].args[k], NumOps)
  BY <1>1, <1>3, OperandsMoved
<1>5. Len(h[NumOps].args) = Len(f[NumOps].args)
  BY <1>1, <1>2 DEF Moved
<1>6. ASSUME NEW o \in Op PROVE f[o].kind = "other" <=> h[o].kind = "other"
  BY <1>2 DEF Moved
<1>7. ASSUME NEW o \in Op, f[o].kind = "other" PROVE p[o].term = m[o].term
  BY <1>7, MoveFacts, AllFollow DEF Writes, Follows
<1>8. {o \in Op : h[o].kind = "other"} = {o \in Op : f[o].kind = "other"}
  BY <1>6
<1>9. Others(h, p) = Others(f, m)
  BY <1>7, <1>8 DEF Others
<1> QED  BY <1>2, <1>4, <1>5, <1>9, ObservedSame

\* The operands of op u of f when what used x uses y.
Stood(f, x, y, u) == [k \in DOMAIN f[u].args |-> Stand(x, y, f[u].args[k])]

\* An op of a kind with the given operands.
IsOp(op, kind, args, type, block) == op = [kind |-> kind, args |-> args, type |-> type, block |-> block]

LEMMA OpIs ==
  ASSUME NEW op, NEW kind \in Kind, NEW args \in Seq(Op), NEW type \in {"value", "mutable", "list", "none"},
         NEW block \in {1, 2}, IsOp(op, kind, args, type, block)
  PROVE  op \in OpIR
BY DEF IsOp, OpIR

\* h has ops that do not write at the positions N of f, where nothing was, and what used x uses y.
Replaced(h, f, N, x, y) ==
  /\ IsFunction(f) /\ ListsAreNotChanged(f)
  /\ N \subseteq Op /\ x \in Op /\ x \notin N /\ y \in Op
  /\ \A n \in N : f[n].kind = "none" /\ h[n].kind \in {"pure", "to_vtensor", "to_tensor", "list"}
  /\ \A u \in Op : u \notin N /\ u # x => IsOp(h[u], f[u].kind, Stood(f, x, y, u), f[u].type, f[u].block)
  /\ \/ f[x].kind = "inplace" /\ h[x].kind = "overwrite"
     \/ f[x].kind = "pure" /\ h[x].kind = "pure" /\ (x # y => f[y].kind = "none")
  /\ h[y].kind # "list" /\ h[y].type = f[x].type
  /\ y < x \/ y = x \/ (y = x + 1 /\ y \in N)

LEMMA StoodIs ==
  ASSUME NEW f \in [Op -> OpIR], NEW x, NEW y \in Op, NEW u \in Op
  PROVE  /\ Stood(f, x, y, u) \in Seq(Op) /\ Len(Stood(f, x, y, u)) = Len(f[u].args)
         /\ \A k \in 1 .. Len(f[u].args) : Stood(f, x, y, u)[k] = Stand(x, y, f[u].args[k])
<1>1. f[u].args \in Seq(Op) /\ DOMAIN f[u].args = 1 .. Len(f[u].args)
  BY OperandsAre
<1> DEFINE t == Stood(f, x, y, u)
<1>2. t = [k \in DOMAIN f[u].args |-> t[k]]
  BY DEF Stood
<1>3. ASSUME NEW k \in 1 .. Len(f[u].args) PROVE t[k] = Stand(x, y, f[u].args[k]) /\ t[k] \in Op
  BY <1>1, OperandsAre DEF Stood, Stand
<1> HIDE DEF t
<1>4. t \in Seq(Op) /\ Len(t) = Len(f[u].args)
  BY <1>1, <1>2, <1>3, RenamedOperands
<1> QED  BY <1>3, <1>4 DEF t

\* What the ops that are left have become.
LEMMA ReplacedOps ==
  ASSUME NEW f, NEW h, NEW N, NEW x, NEW y, Replaced(h, f, N, x, y), NEW u \in Op, u \notin N, u # x
  PROVE  /\ h[u].kind = f[u].kind /\ h[u].type = f[u].type /\ h[u].block = f[u].block
         /\ h[u].args \in Seq(Op) /\ Len(h[u].args) = Len(f[u].args) /\ h[u] \in OpIR
         /\ \A k \in 1 .. Len(f[u].args) : h[u].args[k] = Stand(x, y, f[u].args[k])
<1>1. f \in [Op -> OpIR] /\ y \in Op /\ IsOp(h[u], f[u].kind, Stood(f, x, y, u), f[u].type, f[u].block)
  BY DEF Replaced, IsFunction
<1>2. PICK t : t = Stood(f, x, y, u)
  OBVIOUS
<1>3. /\ t \in Seq(Op) /\ Len(t) = Len(f[u].args)
      /\ \A k \in 1 .. Len(f[u].args) : t[k] = Stand(x, y, f[u].args[k])
  BY <1>1, <1>2, StoodIs
<1>4. h[u].kind = f[u].kind /\ h[u].type = f[u].type /\ h[u].block = f[u].block /\ h[u].args = t
  BY <1>1, <1>2 DEF IsOp
<1>5. h[u] \in OpIR
  BY <1>1, <1>2, <1>3 DEF OpIR, IsOp
<1> QED  BY <1>3, <1>4, <1>5

\* Where their operands are, and of which types.
LEMMA ReplacedOperands ==
  ASSUME NEW f, NEW h, NEW N, NEW x, NEW y, Replaced(h, f, N, x, y), NEW u \in Op, u \notin N, u # x,
         NEW k \in 1 .. Len(f[u].args)
  PROVE  /\ h[u].args[k] = Stand(x, y, f[u].args[k]) /\ h[u].args[k] < u
         /\ h[h[u].args[k]].type = f[f[u].args[k]].type
         /\ f[u].args[k] \in Op \ N /\ f[f[u].args[k]].type # "none"
<1>1. /\ f \in [Op -> OpIR] /\ OpOK(f, u) /\ x \in Op /\ y \in Op /\ \A n \in N : f[n].kind = "none"
      /\ h[y].type = f[x].type /\ (y < x \/ y = x \/ (y = x + 1 /\ y \in N))
  BY FunctionIff DEF Replaced, IsFunction
<1>2. PICK a : a = f[u].args[k]
  OBVIOUS
<1>3. a \in Op /\ a < u /\ f[a].type # "none"
  BY <1>1, <1>2, OperandsAre DEF OpOK
<1>4. OpOK(f, a)
  BY <1>3, FunctionIff DEF Replaced, IsFunction
<1>5. a \notin N
  BY <1>1, <1>3, <1>4 DEF OpOK
<1>6. h[u].args[k] = Stand(x, y, a)
  BY <1>2, ReplacedOps
<1>7. CASE a = x
  BY <1>6, <1>7, <1>1, <1>3, <1>2, <1>5 DEF Stand, Op
<1>8. CASE a # x
  BY <1>6, <1>8, <1>3, <1>5, <1>2, ReplacedOps DEF Stand
<1> QED  BY <1>7, <1>8

LEMMA ReplacedOK ==
  ASSUME NEW f, NEW h, NEW N, NEW x, NEW y, Replaced(h, f, N, x, y), NEW u \in Op, u \notin N, u # x
  PROVE  OpOK(h, u)
<1>1. f \in [Op -> OpIR] /\ OpOK(f, u)
  BY FunctionIff DEF Replaced, IsFunction
<1>2. h[u].kind = f[u].kind /\ h[u].type = f[u].type /\ Len(h[u].args) = Len(f[u].args)
  BY ReplacedOps
<1>3. \A k \in 1 .. Len(f[u].args) : h[u].args[k] < u /\ h[h[u].args[k]].type = f[f[u].args[k]].type
  BY ReplacedOperands
<1>4. f[u].kind \in {"to_tensor", "to_vtensor", "cast", "view", "overwrite", "inplace"} =>
        1 \in 1 .. Len(f[u].args)
  BY <1>1, OperandsAre DEF OpOK
<1>5. f[u].kind = "overwrite" => 2 \in 1 .. Len(f[u].args)
  BY <1>1, OperandsAre DEF OpOK
<1> QED  BY <1>1, <1>2, <1>3, <1>4, <1>5 DEF OpOK, IsMutable

LEMMA ReplacedIsMoved ==
  ASSUME NEW f, NEW h, NEW N, NEW x, NEW y, Replaced(h, f, N, x, y)
  PROVE  Moved(f, h, N, x, y)
<1>1. ASSUME NEW o \in Op \ N, o # x
      PROVE  /\ h[o].kind = f[o].kind /\ h[o].type = f[o].type /\ Len(h[o].args) = Len(f[o].args)
             /\ \A k \in 1 .. Len(f[o].args) : h[o].args[k] = Stand(x, y, f[o].args[k])
  BY <1>1, ReplacedOps
<1> QED  BY <1>1 DEF Moved, Replaced

\* h is a function when the new ops are well formed; it appends to no list, and its views of
\* mutable tensors read one operand if those of f do.
LEMMA ReplacedFunction ==
  ASSUME NEW f, NEW h, NEW N, NEW x, NEW y, Replaced(h, f, N, x, y), h = [o \in Op |-> h[o]],
         \A n \in N \cup {x} : h[n] \in OpIR /\ OpOK(h, n)
  PROVE  /\ IsFunction(h) /\ ListsAreNotChanged(h)
         /\ MutableViewsReadOne(f) => MutableViewsReadOne(h)
<1>1. \A u \in Op : h[u] \in OpIR /\ OpOK(h, u)
  BY ReplacedOps, ReplacedOK
<1>2. h \in [Op -> OpIR]
  BY <1>1
<1>3. IsFunction(h)
  BY <1>1, <1>2, FunctionIff
<1>4. ListsAreNotChanged(h)
  <2> SUFFICES ASSUME NEW o \in Op PROVE h[o].kind # "append"
    BY DEF ListsAreNotChanged
  <2>1. CASE o \in N \cup {x}
    BY <2>1 DEF Replaced
  <2>2. CASE o \notin N \cup {x}
    <3>1. h[o].kind = f[o].kind
      BY <2>2, ReplacedOps
    <3> QED  BY <3>1 DEF Replaced, ListsAreNotChanged
  <2> QED  BY <2>1, <2>2
<1>5. ASSUME MutableViewsReadOne(f) PROVE MutableViewsReadOne(h)
  <2> SUFFICES ASSUME NEW o \in Op, h[o].kind = "view", IsMutable(h, o) PROVE Len(h[o].args) = 1
    BY DEF MutableViewsReadOne
  <2>1. o \notin N /\ o # x
    BY DEF Replaced
  <2>2. h[o].kind = f[o].kind /\ h[o].type = f[o].type /\ Len(h[o].args) = Len(f[o].args)
    BY <2>1, ReplacedOps
  <2> QED  BY <1>5, <2>2 DEF MutableViewsReadOne, IsMutable
<1> QED  BY <1>3, <1>4, <1>5

(***************************************************************************)
(* The positions that the ops made for an op are put at.                   *)
(***************************************************************************)
Room(f, o) == IF f[o].kind = "inplace" THEN o - 6 .. o - 1 ELSE (o - 3 .. o - 1) \cup {o + 1}

\* There is room for them, up to three operands can be copied, and a list is the only operand.
IsReducible(f, o) ==
  /\ \A r \in Room(f, o) : r \in Op /\ f[r].kind = "none"
  /\ Len(TensorsRead(f, o)) <= IF ReadsList(f, o) THEN 2 ELSE 3
  /\ ReadsList(f, o) => f[o].kind = "pure" /\ Len(f[o].args) = 1

\* No two ops need the same position.
HasRoomsToReduce(f) ==
  \A o \in IllegalOps(f) :
    /\ IsReducible(f, o)
    /\ \A p \in IllegalOps(f) : p # o => Room(f, o) \cap Room(f, p) = {}

\* An op that is left is as legal as it was, and has the room that it had.
LEMMA ReplacedLegal ==
  ASSUME NEW f, NEW h, NEW N, NEW x, NEW y, Replaced(h, f, N, x, y), NEW u \in Op, u \notin N, u # x
  PROVE  /\ IsLegal(h, u) <=> IsLegal(f, u)
         /\ Room(h, u) = Room(f, u)
         /\ ReadsList(h, u) <=> ReadsList(f, u)
         /\ (ReadsList(f, u) => Len(f[u].args) = 1) => Len(TensorsRead(h, u)) = Len(TensorsRead(f, u))
<1>1. f \in [Op -> OpIR] /\ OpOK(f, u) /\ x \in Op /\ OpOK(f, x)
  BY FunctionIff DEF Replaced, IsFunction
<1>2. /\ h[u].kind = f[u].kind /\ h[u].type = f[u].type /\ Len(h[u].args) = Len(f[u].args)
      /\ h[u].args \in Seq(Op)
  BY ReplacedOps
<1>3. /\ \A k \in 1 .. Len(f[u].args) : h[h[u].args[k]].type = f[f[u].args[k]].type
      /\ Operands(f, u) = {f[u].args[k] : k \in 1 .. Len(f[u].args)}
      /\ Operands(h, u) = {h[u].args[k] : k \in 1 .. Len(f[u].args)}
  <2>1. \A k \in 1 .. Len(f[u].args) : h[h[u].args[k]].type = f[f[u].args[k]].type
    BY ReplacedOperands
  <2>2. Operands(f, u) = {f[u].args[k] : k \in 1 .. Len(f[u].args)}
    BY <1>1, OperandsAre
  <2>3. DOMAIN h[u].args = 1 .. Len(f[u].args)
    BY <1>2
  <2> QED  BY <2>1, <2>2, <2>3 DEF Operands
<1>4. IsLegal(h, u) <=> IsLegal(f, u)
  <2>1. (\A v \in Operands(h, u) : ~ IsMutable(h, v)) <=> \A k \in 1 .. Len(f[u].args) : h[h[u].args[k]].type # "mutable"
    BY <1>3 DEF IsMutable
  <2>2. (\A v \in Operands(f, u) : ~ IsMutable(f, v)) <=> \A k \in 1 .. Len(f[u].args) : f[f[u].args[k]].type # "mutable"
    BY <1>3 DEF IsMutable
  <2>3. (\A v \in Operands(h, u) : ~ IsMutable(h, v)) <=> \A v \in Operands(f, u) : ~ IsMutable(f, v)
    BY <1>3, <2>1, <2>2
  <2>4. IsMutable(h, u) <=> IsMutable(f, u)
    BY <1>2 DEF IsMutable
  <2> QED  BY <1>2, <2>3, <2>4 DEF IsLegal
<1>5. Room(h, u) = Room(f, u)
  BY <1>2 DEF Room
<1>6. ReadsList(h, u) <=> ReadsList(f, u)
  BY <1>3 DEF ReadsList, IsList
<1>7. ASSUME ReadsList(f, u) => Len(f[u].args) = 1
      PROVE  Len(TensorsRead(h, u)) = Len(TensorsRead(f, u))
  <2>1. CASE ~ ReadsList(f, u)
    BY <1>2, <1>6, <2>1 DEF TensorsRead
  <2>2. CASE ReadsList(f, u)
    <3>1. PICK a : a = f[u].args[1]
      OBVIOUS
    <3>2. 1 \in 1 .. Len(f[u].args) /\ Len(f[u].args) = 1
      BY <1>7, <2>2
    <3>3. f[a].type = "list" /\ a \in Op
      BY <1>1, <1>3, <2>2, <3>1, <3>2, OperandsAre DEF ReadsList, IsList
    <3>4. a # x
      BY <1>1, <3>3 DEF Replaced, OpOK
    <3>5. h[u].args[1] = a /\ a \notin N
      BY <3>1, <3>2, <3>4, ReplacedOperands DEF Stand
    <3>6. Len(h[a].args) = Len(f[a].args)
      BY <3>3, <3>4, <3>5, ReplacedOps
    <3> QED  BY <1>6, <2>2, <3>1, <3>5, <3>6 DEF TensorsRead
  <2> QED  BY <2>1, <2>2
<1> QED  BY <1>4, <1>5, <1>6, <1>7

\* Rooms are used up one at a time; what is left of one is used for an op q put there.
LEMMA RoomsStay ==
  ASSUME NEW f, NEW h, NEW N, NEW x, NEW y, Replaced(h, f, N, x, y), HasRoomsToReduce(f),
         x \in IllegalOps(f), N \subseteq Room(f, x), NEW q,
         \A p \in IllegalOps(h) : p \in N \cup {x} => p = q /\ Room(h, q) \subseteq Room(f, x) /\ IsReducible(h, q)
  PROVE  HasRoomsToReduce(h)
<1>1. ASSUME NEW p \in IllegalOps(h), p \notin N \cup {x}
      PROVE  p \in IllegalOps(f) /\ Room(h, p) = Room(f, p) /\ IsReducible(h, p) /\ Room(f, p) \cap Room(f, x) = {}
  <2>1. p \in Op
    BY DEF IllegalOps
  <2>2. p \in IllegalOps(f) /\ Room(h, p) = Room(f, p)
    BY <1>1, <2>1, ReplacedLegal DEF IllegalOps
  <2>3. IsReducible(f, p) /\ Room(f, p) \cap Room(f, x) = {}
    BY <1>1, <2>2 DEF HasRoomsToReduce
  <2>4. ReadsList(f, p) => f[p].kind = "pure" /\ Len(f[p].args) = 1
    BY <2>3 DEF IsReducible
  <2>5. h[p].kind = f[p].kind /\ Len(h[p].args) = Len(f[p].args)
    BY <1>1, <2>1, ReplacedOps
  <2>6. (ReadsList(h, p) <=> ReadsList(f, p)) /\ Len(TensorsRead(h, p)) = Len(TensorsRead(f, p))
    BY <1>1, <2>1, <2>4, ReplacedLegal
  <2>7. ASSUME NEW r \in Room(f, p) PROVE r \in Op /\ h[r].kind = "none"
    <3>1. r \in Op /\ f[r].kind = "none" /\ r \notin N
      BY <2>3 DEF IsReducible
    <3>2. r # x
      BY <3>1 DEF Replaced
    <3> QED  BY <3>1, <3>2, ReplacedOps
  <2>8. IsReducible(h, p)
    BY <2>2, <2>3, <2>4, <2>5, <2>6, <2>7 DEF IsReducible
  <2> QED  BY <2>2, <2>3, <2>8
<1>2. ASSUME NEW p \in IllegalOps(h) PROVE IsReducible(h, p)
  BY <1>1
<1>3. ASSUME NEW o \in IllegalOps(h), NEW p \in IllegalOps(h), p # o PROVE Room(h, o) \cap Room(h, p) = {}
  <2>1. CASE o \notin N \cup {x} /\ p \notin N \cup {x}
    BY <1>1, <1>3, <2>1 DEF HasRoomsToReduce
  <2>2. CASE o \in N \cup {x} /\ p \notin N \cup {x}
    BY <2>2, <1>1
  <2>3. CASE o \notin N \cup {x} /\ p \in N \cup {x}
    BY <2>3, <1>1
  <2>4. ~ (o \in N \cup {x} /\ p \in N \cup {x})
    BY <1>3
  <2> QED  BY <2>1, <2>2, <2>3, <2>4
<1> QED  BY <1>2, <1>3 DEF HasRoomsToReduce

(***************************************************************************)
(* torch-reduce-op-variants reduces an in-place op.                        *)
(***************************************************************************)
\* An in-place op of f, made of s, that there is room for.
IsReducedInplace(s, f, o) ==
  /\ IsFunction(f) /\ ListsAreNotChanged(f) /\ o \in Op /\ f[o].kind = "inplace" /\ IsReducible(f, o)
  /\ s[o].kind # "none" /\ \A r \in o - 3 .. o - 1 : s[r].kind = "none"

LEMMA InplaceFacts ==
  ASSUME NEW s, NEW f, NEW o, IsReducedInplace(s, f, o), NEW y, y = f[o].args[1]
  PROVE  /\ f \in [Op -> OpIR] /\ OpOK(f, o) /\ o \in Nat /\ Op \subseteq Nat \ {0}
         /\ \A r \in o - 6 .. o - 1 : r \in Op /\ f[r].kind = "none" /\ f[r].type = "none"
         /\ FunctionalOp(o) = o - 3 /\ Written(o) = o - 1 /\ o - 3 \in Op /\ o - 1 \in Op
         /\ y \in Op /\ y < o - 3 /\ IsMutable(f, y) /\ ~ ReadsList(f, o)
         /\ \A k \in 1 .. Len(f[o].args) : f[o].args[k] \in Op /\ f[o].args[k] < o - 3 /\ f[f[o].args[k]].type \notin {"none", "list"}
         /\ DOMAIN f[o].args = 1 .. Len(f[o].args) /\ 1 \in 1 .. Len(f[o].args) /\ f[o].args \in Seq(Op)
<1>1. f \in [Op -> OpIR] /\ o \in Op /\ f[o].kind = "inplace" /\ IsFunction(f) /\ IsReducible(f, o)
  BY DEF IsReducedInplace, IsFunction
<1>2. OpOK(f, o) /\ o \in Nat /\ Op \subseteq Nat \ {0} /\ NumOps \in Nat /\ Op = 1 .. NumOps
  BY <1>1, FunctionIff, FunctionsAssumption DEF Op
<1>3. ASSUME NEW r \in o - 6 .. o - 1 PROVE r \in Op /\ f[r].kind = "none" /\ f[r].type = "none"
  BY <1>1, FunctionIff DEF IsReducible, Room, OpOK
<1>4. FunctionalOp(o) = o - 3 /\ Written(o) = o - 1 /\ o - 3 \in o - 6 .. o - 1 /\ o - 1 \in o - 6 .. o - 1
  BY <1>2 DEF FunctionalOp, Written
<1>5. ~ ReadsList(f, o)
  BY <1>1 DEF IsReducible
<1>6. /\ DOMAIN f[o].args = 1 .. Len(f[o].args) /\ 1 \in 1 .. Len(f[o].args) /\ f[o].args \in Seq(Op)
      /\ Operands(f, o) = {f[o].args[k] : k \in 1 .. Len(f[o].args)}
  <2>1. Len(f[o].args) \in Nat /\ DOMAIN f[o].args = 1 .. Len(f[o].args) /\ f[o].args \in Seq(Op)
    BY <1>1, OperandsAre
  <2>2. Len(f[o].args) >= 1
    BY <1>1, <1>2 DEF OpOK
  <2>3. Operands(f, o) = {f[o].args[k] : k \in 1 .. Len(f[o].args)}
    BY <1>1, OperandsAre
  <2> QED  BY <2>1, <2>2, <2>3
<1>7. ASSUME NEW k \in 1 .. Len(f[o].args)
      PROVE  f[o].args[k] \in Op /\ f[o].args[k] < o - 3 /\ f[f[o].args[k]].type \notin {"none", "list"}
  BY <1>1, <1>2, <1>6, <1>3, <1>5, OperandsAre DEF OpOK, ReadsList, IsList
<1>8. IsMutable(f, y)
  BY <1>1, <1>2 DEF OpOK
<1> QED  BY <1>1, <1>2, <1>3, <1>4, <1>5, <1>6, <1>7, <1>8

\* The function with the op reduced.
LEMMA InplaceIsReduced ==
  ASSUME NEW s, NEW f, NEW o, IsReducedInplace(s, f, o), NEW h, h = ReduceInplace(f, o), NEW y, y = f[o].args[1]
  PROVE  /\ h = [u \in Op |-> h[u]]
         /\ IsOp(h[o - 3], "pure", f[o].args, "mutable", f[o].block)
         /\ IsOp(h[o - 1], "to_vtensor", <<o - 3>>, "value", f[o].block)
         /\ IsOp(h[o], "overwrite", <<o - 1, y>>, "none", f[o].block)
         /\ \A u \in Op : u \notin {o - 3, o - 1} /\ u # o =>
              IsOp(h[u], f[u].kind, Stood(f, o, y, u), f[u].type, f[u].block)
<1>1. /\ f \in [Op -> OpIR] /\ o \in Op /\ o \in Nat /\ OpOK(f, o) /\ f[o].kind = "inplace"
      /\ FunctionalOp(o) = o - 3 /\ Written(o) = o - 1 /\ o - 3 \in Op /\ o - 1 \in Op
  <2>1. o \in Op /\ f[o].kind = "inplace"
    BY DEF IsReducedInplace
  <2>2. f \in [Op -> OpIR] /\ o \in Nat /\ OpOK(f, o)
    BY InplaceFacts
  <2>3. FunctionalOp(o) = o - 3 /\ Written(o) = o - 1 /\ o - 3 \in Op /\ o - 1 \in Op
    BY InplaceFacts
  <2> QED  BY <2>1, <2>2, <2>3
<1> DEFINE g == [u \in Op |-> [f[u] EXCEPT !.args = [k \in DOMAIN f[u].args |-> IF f[u].args[k] = o THEN y ELSE f[u].args[k]]]]
<1>2. h = [g EXCEPT ![o - 3] = [f[o] EXCEPT !.kind = "pure"],
                    ![o - 1] = [f[o] EXCEPT !.kind = "to_vtensor", !.args = <<o - 3>>, !.type = "value"],
                    ![o] = [f[o] EXCEPT !.kind = "overwrite", !.args = <<o - 1, y>>, !.type = "none"]]
  BY <1>1 DEF ReduceInplace, Rename
<1>3. g = [u \in Op |-> g[u]]
  OBVIOUS
<1>4. ASSUME NEW u \in Op
      PROVE  IsOp(g[u], f[u].kind, Stood(f, o, y, u), f[u].type, f[u].block)
  <2>1. f[u] \in OpIR
    BY <1>1
  <2>2. g[u] = [f[u] EXCEPT !.args = Stood(f, o, y, u)]
    BY DEF Stood, Stand
  <2> HIDE DEF g
  <2> QED  BY <2>1, <2>2 DEF OpIR, IsOp
<1> HIDE DEF g
<1>5. f[o] \in OpIR /\ f[o].type = "mutable"
  BY <1>1 DEF OpOK
<1>6. IsOp(h[o - 3], "pure", f[o].args, "mutable", f[o].block)
  <2>1. h[o - 3] = [f[o] EXCEPT !.kind = "pure"]
    BY <1>1, <1>2, <1>3
  <2> QED  BY <1>5, <2>1 DEF IsOp, OpIR
<1>7. IsOp(h[o - 1], "to_vtensor", <<o - 3>>, "value", f[o].block)
  <2>1. h[o - 1] = [f[o] EXCEPT !.kind = "to_vtensor", !.args = <<o - 3>>, !.type = "value"]
    BY <1>1, <1>2, <1>3
  <2> QED  BY <1>5, <2>1 DEF IsOp, OpIR
<1>8. IsOp(h[o], "overwrite", <<o - 1, y>>, "none", f[o].block)
  <2>1. h[o] = [f[o] EXCEPT !.kind = "overwrite", !.args = <<o - 1, y>>, !.type = "none"]
    BY <1>1, <1>2, <1>3
  <2> QED  BY <1>5, <2>1 DEF IsOp, OpIR
<1>9. ASSUME NEW u \in Op, u \notin {o - 3, o - 1}, u # o
      PROVE  IsOp(h[u], f[u].kind, Stood(f, o, y, u), f[u].type, f[u].block)
  BY <1>2, <1>3, <1>9, <1>4
<1>10. h = [u \in Op |-> h[u]]
  BY <1>2, <1>3
<1> QED  BY <1>6, <1>7, <1>8, <1>9, <1>10

LEMMA InplaceReplaced ==
  ASSUME NEW s, NEW f, NEW o, IsReducedInplace(s, f, o), NEW h, h = ReduceInplace(f, o), NEW y, y = f[o].args[1]
  PROVE  Replaced(h, f, {o - 3, o - 1}, o, y)
<1>1. /\ f \in [Op -> OpIR] /\ o \in Nat /\ OpOK(f, o) /\ y \in Op /\ y < o - 3 /\ IsMutable(f, y) /\ Op \subseteq Nat \ {0}
      /\ \A r \in o - 6 .. o - 1 : r \in Op /\ f[r].kind = "none"
      /\ o - 3 \in Op /\ o - 1 \in Op
  BY InplaceFacts
<1>2. IsFunction(f) /\ ListsAreNotChanged(f) /\ o \in Op /\ f[o].kind = "inplace"
  BY DEF IsReducedInplace
<1>3. /\ IsOp(h[o - 3], "pure", f[o].args, "mutable", f[o].block)
      /\ IsOp(h[o - 1], "to_vtensor", <<o - 3>>, "value", f[o].block)
      /\ IsOp(h[o], "overwrite", <<o - 1, y>>, "none", f[o].block)
      /\ \A u \in Op : u \notin {o - 3, o - 1} /\ u # o =>
           IsOp(h[u], f[u].kind, Stood(f, o, y, u), f[u].type, f[u].block)
  BY InplaceIsReduced
<1>4. h[o - 3].kind = "pure" /\ h[o - 1].kind = "to_vtensor" /\ h[o].kind = "overwrite"
  BY <1>3 DEF IsOp
<1>5. \A n \in {o - 3, o - 1} : f[n].kind = "none" /\ h[n].kind \in {"pure", "to_vtensor", "to_tensor", "list"}
  BY <1>1, <1>4
<1>6. f[o].type = "mutable" /\ f[y].type = "mutable" /\ f[y].kind # "list"
  <2>1. OpOK(f, y)
    BY <1>1, <1>2, FunctionIff
  <2> QED  BY <1>1, <1>2, <2>1, Zenon DEF OpOK, IsMutable
<1>7. y \notin {o - 3, o - 1} /\ y # o /\ y < o /\ o \notin {o - 3, o - 1}
  BY <1>1
<1>8. h[y].kind # "list" /\ h[y].type = f[o].type
  <2>1. IsOp(h[y], f[y].kind, Stood(f, o, y, y), f[y].type, f[y].block)
    BY <1>1, <1>3, <1>7
  <2> QED  BY <1>6, <2>1 DEF IsOp
<1> QED  BY <1>1, <1>2, <1>3, <1>4, <1>5, <1>7, <1>8 DEF Replaced

LEMMA InplaceFunction ==
  ASSUME NEW s, NEW f, NEW o, IsReducedInplace(s, f, o), NEW h, h = ReduceInplace(f, o)
  PROVE  /\ IsFunction(h) /\ ListsAreNotChanged(h)
         /\ MutableViewsReadOne(f) => MutableViewsReadOne(h)
<1>0. PICK y : y = f[o].args[1]
  OBVIOUS
<1>1. /\ f \in [Op -> OpIR] /\ o \in Nat /\ OpOK(f, o) /\ y \in Op /\ y < o - 3 /\ IsMutable(f, y) /\ Op \subseteq Nat \ {0}
      /\ o - 3 \in Op /\ o - 1 \in Op
      /\ DOMAIN f[o].args = 1 .. Len(f[o].args) /\ f[o].args \in Seq(Op)
      /\ \A k \in 1 .. Len(f[o].args) : f[o].args[k] \in Op /\ f[o].args[k] < o - 3 /\ f[f[o].args[k]].type \notin {"none", "list"}
  BY <1>0, InplaceFacts
<1>2. /\ h = [u \in Op |-> h[u]]
      /\ IsOp(h[o - 3], "pure", f[o].args, "mutable", f[o].block)
      /\ IsOp(h[o - 1], "to_vtensor", <<o - 3>>, "value", f[o].block)
      /\ IsOp(h[o], "overwrite", <<o - 1, y>>, "none", f[o].block)
  BY <1>0, InplaceIsReduced
<1>3. Replaced(h, f, {o - 3, o - 1}, o, y)
  BY <1>0, InplaceReplaced
<1>4. o \in Op /\ f[o].kind = "inplace" /\ f[o].block \in {1, 2} /\ NumOps \in Nat /\ Op = 1 .. NumOps
  BY <1>1, FunctionsAssumption DEF IsReducedInplace, OpIR, Op
<1>5. o - 3 # NumOps /\ o - 1 # NumOps /\ o # NumOps /\ o - 3 < o - 1
  BY <1>1, <1>4 DEF OpOK
<1>6. h[y].type = "mutable"
  BY <1>1, <1>3, <1>4 DEF Replaced, OpOK
<1>7. ASSUME NEW k \in 1 .. Len(f[o].args) PROVE h[f[o].args[k]].type # "none"
  <2>1. PICK a : a = f[o].args[k]
    OBVIOUS
  <2>2. a \in Op /\ a < o - 3 /\ f[a].type # "none"
    BY <1>1, <2>1
  <2>3. a \notin {o - 3, o - 1} /\ a # o
    BY <1>1, <2>2
  <2>4. h[a].type = f[a].type
    BY <1>3, <2>2, <2>3, ReplacedOps
  <2> QED  BY <2>1, <2>2, <2>4
<1>8. h[o - 3] \in OpIR /\ OpOK(h, o - 3)
  <2>1. h[o - 3] \in OpIR
    BY <1>1, <1>2, <1>4 DEF IsOp, OpIR, Kind
  <2>2. h[o - 3].kind = "pure" /\ h[o - 3].type = "mutable" /\ h[o - 3].args = f[o].args
    BY <1>2 DEF IsOp
  <2>3. \A k \in 1 .. Len(f[o].args) : f[o].args[k] < o - 3 /\ h[f[o].args[k]].type # "none"
    BY <1>1, <1>7
  <2> QED  BY <1>5, <2>1, <2>2, <2>3 DEF OpOK
<1>9. h[o - 1] \in OpIR /\ OpOK(h, o - 1)
  <2>1. <<o - 3>> \in Seq(Op)
    BY <1>1
  <2>2. h[o - 1] \in OpIR
    <3>1. "to_vtensor" \in Kind
      BY DEF Kind
    <3> QED  BY <1>2, <1>4, <2>1, <3>1, OpIs
  <2>3. h[o - 1].kind = "to_vtensor" /\ h[o - 1].type = "value" /\ h[o - 1].args = <<o - 3>>
    BY <1>2 DEF IsOp
  <2>4. h[o - 3].type = "mutable"
    BY <1>2 DEF IsOp
  <2> QED  BY <1>5, <2>2, <2>3, <2>4 DEF OpOK, IsMutable
<1>10. h[o] \in OpIR /\ OpOK(h, o)
  <2>1. <<o - 1, y>> \in Seq(Op)
    BY <1>1
  <2>2. h[o] \in OpIR
    <3>1. "overwrite" \in Kind
      BY DEF Kind
    <3> QED  BY <1>2, <1>4, <2>1, <3>1, OpIs
  <2>3. h[o].kind = "overwrite" /\ h[o].type = "none" /\ h[o].args = <<o - 1, y>>
    BY <1>2 DEF IsOp
  <2>4. h[o - 1].type = "value" /\ y < o /\ o - 1 < o
    BY <1>1, <1>2 DEF IsOp
  <2> QED  BY <1>5, <1>6, <2>2, <2>3, <2>4 DEF OpOK, IsMutable
<1> QED  BY <1>2, <1>3, <1>8, <1>9, <1>10, ReplacedFunction

\* The new op stands for the in-place one.
LEMMA OriginOfFunctionalOp ==
  ASSUME NEW s, NEW f, NEW o, IsReducedInplace(s, f, o)
  PROVE  Origin(s, o - 3) = o
<1>1. o \in Nat /\ o - 3 \in Nat /\ NumOps \in Nat /\ o <= NumOps
  <2>1. o \in Op /\ o - 3 \in Op /\ NumOps \in Nat
    BY InplaceFacts, FunctionsAssumption DEF IsReducedInplace
  <2> QED  BY <2>1 DEF Op
<1>2. s[o].kind # "none" /\ \A r \in o - 3 .. o - 1 : s[r].kind = "none"
  BY DEF IsReducedInplace
<1> DEFINE P(u) == s[u].kind # "none" /\ \A r \in o - 3 .. u - 1 : s[r].kind = "none"
<1>3. o \in o - 3 .. NumOps /\ P(o)
  BY <1>1, <1>2
<1>4. ASSUME NEW u \in o - 3 .. NumOps, P(u) PROVE u = o
  BY <1>1, <1>2, <1>4
<1>5. Origin(s, o - 3) = CHOOSE u \in o - 3 .. NumOps : P(u)
  BY DEF Origin
<1> HIDE DEF P
<1> QED  BY <1>3, <1>4, <1>5

\* The positions of the ops made for an in-place op.
MadeFor(o) == {o - 3, o - 1}

\* The op with value semantics finds what the in-place op found.
LEMMA FunctionalOpIs ==
  ASSUME NEW s, NEW f, NEW m, Meant(m, s, f), NEW o, IsReducedInplace(s, f, o), NEW h, h = ReduceInplace(f, o),
         NEW p, Meant(p, s, h), NEW y, y = f[o].args[1],
         NEW N, N = MadeFor(o), FollowedBefore(f, m, p, N, o, y, o)
  PROVE  p[o - 3] = Known(o - 3, <<>>, <<o>> \o FlattenSeq(OperandContents(f, m, o))) /\ IsMutable(h, o - 3) /\ h[o - 3].kind = "pure"
<1>1. /\ f \in [Op -> OpIR] /\ o \in Nat /\ Op \subseteq Nat \ {0} /\ o - 3 \in Op /\ o - 1 \in Op
      /\ DOMAIN f[o].args = 1 .. Len(f[o].args)
      /\ \A k \in 1 .. Len(f[o].args) : f[o].args[k] \in Op /\ f[o].args[k] < o - 3 /\ f[f[o].args[k]].type \notin {"none", "list"}
      /\ \A r \in o - 6 .. o - 1 : r \in Op /\ f[r].kind = "none"
  <2>1. \A r \in o - 6 .. o - 1 : r \in Op /\ f[r].kind = "none"
    BY InplaceFacts
  <2>2. \A k \in 1 .. Len(f[o].args) : f[o].args[k] \in Op /\ f[o].args[k] < o - 3 /\ f[f[o].args[k]].type \notin {"none", "list"}
    BY InplaceFacts
  <2>3. /\ f \in [Op -> OpIR] /\ o \in Nat /\ Op \subseteq Nat \ {0} /\ o - 3 \in Op /\ o - 1 \in Op
        /\ DOMAIN f[o].args = 1 .. Len(f[o].args)
    BY InplaceFacts
  <2> QED  BY <2>1, <2>2, <2>3
<1>2. o \in Op /\ IsFunction(f)
  BY DEF IsReducedInplace
<1>3. Replaced(h, f, N, o, y)
  BY InplaceReplaced DEF MadeFor
<1>4. IsMove(s, f, m, h, p, N, o, y)
  BY <1>3, ReplacedIsMoved DEF IsMove
<1>5. IsOp(h[o - 3], "pure", f[o].args, "mutable", f[o].block)
  BY InplaceIsReduced
<1>6. h[o - 3].kind = "pure" /\ h[o - 3].args = f[o].args /\ h[o - 3].type = "mutable"
  BY <1>5 DEF IsOp
<1>7. FollowedBefore(f, m, p, N, o, y, o - 3)
  BY <1>1 DEF FollowedBefore
<1>8. ASSUME NEW k \in 1 .. Len(f[o].args)
      PROVE  Contents(h, p, f[o].args[k], o - 3) = Contents(f, m, f[o].args[k], o)
  <2>1. PICK a : a = f[o].args[k]
    OBVIOUS
  <2>2. a \in Op /\ a < o - 3 /\ f[a].type \notin {"none", "list"}
    BY <1>1, <2>1
  <2>3. a \notin N /\ a # o /\ Stand(o, y, a) = a
    BY <1>1, <2>2 DEF Stand, MadeFor
  <2>4. Contents(h, p, Stand(o, y, a), o - 3) = Contents(f, m, a, o - 3)
    BY <1>1, <1>4, <1>7, <2>2, <2>3, ContentsMoved
  <2>5. f[a].kind # "list"
    BY <1>1, <1>2, <2>2, FunctionIff DEF OpOK
  <2>6. \A r \in Op : o - 3 <= r /\ r < o => r \notin Writes(f)
    BY <1>1 DEF Writes
  <2>7. Contents(f, m, a, o - 3) = Contents(f, m, a, o)
    BY <1>1, <1>2, <2>5, <2>6, ContentsBetween
  <2> QED  BY <2>1, <2>3, <2>4, <2>7
<1>9. OperandContents(h, p, o - 3) = OperandContents(f, m, o)
  BY <1>1, <1>6, <1>8 DEF OperandContents
<1>10. p[o - 3] = Denote(s, h, p, o - 3)
  BY <1>1, AllAreKnown
<1>11. PICK q : q = o - 3
  OBVIOUS
<1>12. Origin(s, q) = o
  BY <1>11, OriginOfFunctionalOp
<1>13. IsMutable(h, q)
  BY <1>6, <1>11 DEF IsMutable
<1>14. Denote(s, h, p, q) = Known(q, <<>>, <<o>> \o FlattenSeq(OperandContents(h, p, q)))
  BY <1>6, <1>11, <1>12, <1>13, PureIs
<1> QED  BY <1>6, <1>9, <1>10, <1>11, <1>13, <1>14

\* A tensor that was just made has not been written.
LEMMA FreshContents ==
  ASSUME NEW s, NEW h, NEW p, Meant(p, s, h), NEW q \in Op, NEW t, p[q] = Known(q, <<>>, t), h[q].kind # "list",
         NEW i \in Op, \A w \in Op : q <= w /\ w < i => w \notin Writes(h)
  PROVE  Contents(h, p, q, i) = t
<1>1. q # 0 /\ p[q].base = q /\ p[q].path = <<>> /\ p[q].term = t
  BY KnownIs DEF Op
<1>2. WritesTo(h, p, q, i) = {}
  <2> SUFFICES ASSUME NEW w \in Writes(h), w < i, p[w].base = q PROVE FALSE
    BY DEF WritesTo
  <2>1. w \in Op
    BY DEF Writes
  <2>2. IsKnown(p[w], w)
    BY <2>1, MeaningIs DEF Meant
  <2>3. PICK b \in 0 .. w : \E r, z : p[w] = Known(b, r, z)
    BY <2>2 DEF IsKnown
  <2>4. p[w].base = b
    BY <2>3, KnownIs
  <2>5. q <= w
    BY <2>3, <2>4
  <2> QED  BY <2>1, <2>5
<1>3. Read(h, p, q, <<>>, i) = Viewed(<<>>, t)
  BY <1>1, <1>2, ReadIs
<1>4. Viewed(<<>>, t) = t
  BY ViewedIs
<1>5. Contents(h, p, q, i) = TensorContents(h, p, q, i)
  BY ContentsOf
<1> QED  BY <1>1, <1>3, <1>4, <1>5 DEF TensorContents

\* The overwrite writes what the in-place op wrote, to the same tensor.
LEMMA InplaceFollows ==
  ASSUME NEW s, NEW f, NEW m, Meant(m, s, f), NEW o, IsReducedInplace(s, f, o), NEW h, h = ReduceInplace(f, o),
         NEW p, Meant(p, s, h), NEW y, y = f[o].args[1],
         NEW N, N = MadeFor(o), FollowedBefore(f, m, p, N, o, y, o)
  PROVE  Follows(f, m, p, o, y, o)
<1>1. /\ f \in [Op -> OpIR] /\ o \in Nat /\ Op \subseteq Nat \ {0} /\ o - 3 \in Op /\ o - 1 \in Op
      /\ y \in Op /\ y < o - 3 /\ IsMutable(f, y)
  BY InplaceFacts
<1>2. o \in Op /\ IsFunction(f) /\ f[o].kind = "inplace"
  BY DEF IsReducedInplace
<1>3. PICK t : t = <<o>> \o FlattenSeq(OperandContents(f, m, o))
  OBVIOUS
<1>4. PICK b, q, z : m[y] = Known(b, q, z)
  BY <1>1, AllAreKnown
<1>5. m[o] = Known(b, q, t)
  BY <1>2, <1>3, <1>4, AllAreKnown, InplaceIs
<1>6. b \in Op /\ b <= y
  <2>1. m[y].base = b
    BY <1>4, KnownIs
  <2>2. IsPlaced(m, f, y)
    BY <1>1, Placed
  <2> QED  BY <1>1, <2>1, <2>2 DEF IsPlaced, IsMutable
<1>7. /\ IsOp(h[o - 1], "to_vtensor", <<o - 3>>, "value", f[o].block)
      /\ IsOp(h[o], "overwrite", <<o - 1, y>>, "none", f[o].block)
      /\ IsFunction(h)
  BY InplaceIsReduced DEF Meant
<1>8. /\ h[o - 1].kind = "to_vtensor" /\ h[o - 1].args = <<o - 3>> /\ h[o - 1].type = "value"
      /\ h[o].kind = "overwrite" /\ h[o].args = <<o - 1, y>>
  BY <1>7 DEF IsOp
<1>9. p[o - 3] = Known(o - 3, <<>>, t) /\ IsMutable(h, o - 3) /\ h[o - 3].kind = "pure"
  BY <1>3, FunctionalOpIs
<1>10. Contents(h, p, o - 3, o - 1) = t
  <2>1. ASSUME NEW w \in Op, o - 3 <= w, w < o - 1 PROVE w \notin Writes(h)
    <3>1. CASE w = o - 3
      BY <1>9, <3>1 DEF Writes
    <3>2. CASE w = o - 2
      <4>1. Replaced(h, f, N, o, y)
        BY InplaceReplaced DEF MadeFor
      <4>2. w \notin N /\ w # o
        BY <1>1, <3>2 DEF MadeFor
      <4>3. h[w].kind = f[w].kind
        BY <4>1, <4>2, ReplacedOps
      <4>4. w \in o - 6 .. o - 1
        BY <1>1, <3>2
      <4>5. f[w].kind = "none"
        BY <4>4, InplaceFacts
      <4> QED  BY <4>3, <4>5 DEF Writes
    <3> QED  BY <1>1, <2>1, <3>1, <3>2
  <2> QED  BY <1>1, <1>9, <2>1, FreshContents
<1>11. Contents(h, p, o - 1, o) = t
  <2>1. p[o - 1].term = t
    <3>1. p[o - 1] = Denote(s, h, p, o - 1)
      BY <1>1, AllAreKnown
    <3>2. PICK e : e = OperandContents(h, p, o - 1)
      OBVIOUS
    <3>3. e[1] = t
      BY <1>8, <1>10, <3>2 DEF OperandContents
    <3>4. p[o - 1] = Known(0, <<>>, e[1])
      BY <1>8, <3>1, <3>2, SnapshotIs
    <3> QED  BY <3>3, <3>4, KnownIs
  <2> QED  BY <1>1, <1>8, <2>1, ValueContents
<1>12. PICK e : e = OperandContents(h, p, o)
  OBVIOUS
<1>13. e[1] = t
  BY <1>8, <1>11, <1>12 DEF OperandContents
<1>14. PICK c, r, x : p[y] = Known(c, r, x)
  BY <1>1, AllAreKnown
<1>15. p[o] = Known(c, r, t)
  BY <1>2, <1>8, <1>12, <1>13, <1>14, AllAreKnown, OverwriteIs
<1>16. c = Stand(o, y, b) /\ r = q
  <2>1. y \notin N /\ y < o /\ Stand(o, y, y) = y
    BY <1>1 DEF MadeFor, Stand
  <2>2. Follows(f, m, p, o, y, y)
    BY <1>1, <2>1 DEF FollowedBefore
  <2>3. p[y].base = Stand(o, y, m[y].base) /\ p[y].path = m[y].path
    BY <2>1, <2>2 DEF Follows
  <2> QED  BY <1>4, <1>14, <2>3, KnownIs
<1>17. /\ m[o].base = b /\ m[o].path = q /\ m[o].term = t
       /\ p[o].base = c /\ p[o].path = r /\ p[o].term = t
       /\ p[y].base = c /\ p[y].path = r
  BY <1>5, <1>14, <1>15, KnownIs
<1>18. b # 0 /\ b # o /\ Stand(o, y, o) = y
  BY <1>1, <1>6 DEF Stand
<1> QED  BY <1>16, <1>17, <1>18 DEF Follows

\* Nothing is seen of reducing an in-place op.
LEMMA InplaceObserved ==
  ASSUME NEW s, NEW f, NEW o, IsReducedInplace(s, f, o), NEW h, h = ReduceInplace(f, o)
  PROVE  Observed(s, h) = Observed(s, f)
<1>1. PICK y : y = f[o].args[1]
  OBVIOUS
<1>2. PICK m, p : m = Meaning(s, f) /\ p = Meaning(s, h)
  OBVIOUS
<1>3. Meant(m, s, f) /\ Meant(p, s, h)
  BY <1>2, InplaceFunction DEF Meant, IsReducedInplace
<1>3a. PICK N : N = MadeFor(o)
  OBVIOUS
<1>4. IsMove(s, f, m, h, p, N, o, y)
  <2>1. Replaced(h, f, N, o, y)
    BY <1>1, <1>3a, InplaceReplaced DEF MadeFor
  <2> QED  BY <1>3, <2>1, ReplacedIsMoved DEF IsMove
<1>5. FollowedBefore(f, m, p, N, o, y, o) => Follows(f, m, p, o, y, o)
  BY <1>1, <1>3, <1>3a, InplaceFollows
<1> QED  BY <1>4, <1>5, ObservedMoved

(***************************************************************************)
(* torch-reduce-op-variants makes an op read and give values.              *)
(***************************************************************************)
\* An op with value semantics that there is room for.
IsConverted(f, q) ==
  IsFunction(f) /\ ListsAreNotChanged(f) /\ q \in Op /\ f[q].kind = "pure" /\ IsReducible(f, q)

\* Where copies of the tensors vs that it reads are put, their list, the copy of its result.
CopiesRead(f, q, vs) == {ValueCopy(q, k) : k \in {k \in 1 .. Len(vs) : IsMutable(f, vs[k])}}

ReadInList(f, q) == ReadsList(f, q) /\ TensorsRead(f, q) # <<>>

MadeAround(f, q) ==
  CopiesRead(f, q, TensorsRead(f, q))
    \cup (IF ReadInList(f, q) THEN {q - 1} ELSE {})
    \cup (IF IsMutable(f, q) THEN {q + 1} ELSE {})

ResultOf(f, q) == IF IsMutable(f, q) THEN q + 1 ELSE q

LEMMA ConvertedFacts ==
  ASSUME NEW f, NEW q, IsConverted(f, q), NEW vs, vs = TensorsRead(f, q)
  PROVE  /\ f \in [Op -> OpIR] /\ OpOK(f, q) /\ q \in Nat /\ Op \subseteq Nat \ {0} /\ q \in Op
         /\ \A r \in (q - 3 .. q - 1) \cup {q + 1} : r \in Op /\ f[r].kind = "none" /\ f[r].type = "none"
         /\ vs \in Seq(Op) /\ Len(vs) \in Nat /\ DOMAIN vs = 1 .. Len(vs)
         /\ Len(vs) <= (IF ReadsList(f, q) THEN 2 ELSE 3)
         /\ \A k \in 1 .. Len(vs) : vs[k] \in Op /\ vs[k] < q - 3 /\ f[vs[k]].type # "none"
         /\ IF ReadsList(f, q)
            THEN /\ Len(f[q].args) = 1 /\ f[q].args[1] \in Op /\ f[q].args[1] < q - 3
                 /\ f[f[q].args[1]].kind = "list" /\ f[f[q].args[1]].type = "list"
                 /\ vs = f[f[q].args[1]].args
            ELSE vs = f[q].args /\ \A k \in 1 .. Len(vs) : f[vs[k]].type # "list"
<1>1. f \in [Op -> OpIR] /\ q \in Op /\ f[q].kind = "pure" /\ IsFunction(f) /\ IsReducible(f, q) /\ ListsAreNotChanged(f)
  BY DEF IsConverted, IsFunction
<1>2. OpOK(f, q) /\ q \in Nat /\ Op \subseteq Nat \ {0}
  BY <1>1, FunctionIff DEF Op
<1>3. ASSUME NEW r \in (q - 3 .. q - 1) \cup {q + 1} PROVE r \in Op /\ f[r].kind = "none" /\ f[r].type = "none"
  <2>1. r \in Op /\ f[r].kind = "none"
    BY <1>1 DEF IsReducible, Room
  <2>2. OpOK(f, r)
    BY <1>1, <2>1, FunctionIff
  <2> QED  BY <2>1, <2>2 DEF OpOK
<1>4. ASSUME NEW u \in Op, u <= q, NEW k \in 1 .. Len(f[u].args)
      PROVE  f[u].args[k] \in Op /\ f[u].args[k] < u /\ f[u].args[k] < q - 3 /\ f[f[u].args[k]].type # "none"
  <2>1. PICK a : a = f[u].args[k]
    OBVIOUS
  <2>2. a \in Op
    BY <1>1, <2>1, OperandsAre
  <2>3. a < u /\ f[a].type # "none"
    BY <1>1, <2>1, FunctionIff DEF OpOK
  <2>4. a \notin q - 3 .. q - 1
    BY <1>3, <2>3
  <2>5. a < q - 3
    BY <1>2, <1>4, <2>2, <2>3, <2>4
  <2> QED  BY <2>1, <2>2, <2>3, <2>5
<1>5. /\ f[q].args \in Seq(Op) /\ Len(f[q].args) \in Nat /\ DOMAIN f[q].args = 1 .. Len(f[q].args)
      /\ Operands(f, q) = {f[q].args[k] : k \in 1 .. Len(f[q].args)}
  BY <1>1, OperandsAre
<1>6. Len(vs) <= (IF ReadsList(f, q) THEN 2 ELSE 3)
  BY <1>1 DEF IsReducible
<1>7. q <= q
  BY <1>2
<1>8. CASE ~ ReadsList(f, q)
  <2>1. vs = f[q].args
    BY <1>8 DEF TensorsRead
  <2>2. \A k \in 1 .. Len(vs) : f[vs[k]].type # "list"
    BY <1>5, <1>8, <2>1 DEF ReadsList, IsList
  <2>3. \A k \in 1 .. Len(vs) : vs[k] \in Op /\ vs[k] < q - 3 /\ f[vs[k]].type # "none"
    BY <1>1, <1>4, <1>7, <2>1
  <2> QED  BY <1>1, <1>2, <1>3, <1>5, <1>6, <1>8, <2>1, <2>2, <2>3
<1>9. CASE ReadsList(f, q)
  <2>1. Len(f[q].args) = 1
    BY <1>1, <1>9 DEF IsReducible
  <2>2. PICK a : a = f[q].args[1]
    OBVIOUS
  <2>3. 1 \in 1 .. Len(f[q].args)
    BY <2>1
  <2>4. a \in Op /\ a < q /\ a < q - 3
    BY <1>1, <1>4, <1>7, <2>2, <2>3
  <2>5. f[a].type = "list"
    BY <1>5, <1>9, <2>1, <2>2 DEF ReadsList, IsList
  <2>6. f[a].kind = "list"
    <3>1. OpOK(f, a) /\ f[a].kind \in Kind
      BY <1>1, <2>4, FunctionIff DEF OpIR
    <3>2. f[a].kind # "append"
      BY <1>1, <2>4 DEF ListsAreNotChanged
    <3>3. CASE f[a].kind \in {"none", "arg", "to_tensor", "to_vtensor", "view", "cast", "overwrite",
                              "pure", "inplace", "other", "return"}
      BY <2>5, <3>1, <3>3 DEF OpOK
    <3> QED  BY <3>1, <3>2, <3>3 DEF Kind
  <2>7. vs = f[a].args
    BY <1>9, <2>2 DEF TensorsRead
  <2>8. vs \in Seq(Op) /\ Len(vs) \in Nat /\ DOMAIN vs = 1 .. Len(vs)
    BY <1>1, <2>4, <2>7, OperandsAre
  <2>9. a <= q
    BY <1>2, <2>4
  <2>10. \A k \in 1 .. Len(vs) : vs[k] \in Op /\ vs[k] < q - 3 /\ f[vs[k]].type # "none"
    BY <1>4, <2>4, <2>7, <2>9
  <2> QED  BY <1>1, <1>2, <1>3, <1>6, <1>9, <2>1, <2>2, <2>4, <2>5, <2>6, <2>7, <2>8, <2>10, Zenon
<1> QED  BY <1>8, <1>9

\* Where the copies are.
LEMMA CopiesAre ==
  ASSUME NEW f, NEW q, IsConverted(f, q), NEW vs, vs = TensorsRead(f, q), NEW N, N = MadeAround(f, q)
  PROVE  /\ N \subseteq (q - 3 .. q - 1) \cup {q + 1} /\ N \subseteq Op /\ q \notin N
         /\ \A k \in 1 .. Len(vs) : IsMutable(f, vs[k]) =>
              q - 4 + k \in N /\ q - 4 + k \in Op /\ q - 3 <= q - 4 + k /\ q - 4 + k < q
         /\ ReadInList(f, q) => q - 1 \in N /\ \A k \in 1 .. Len(vs) : q - 4 + k # q - 1
         /\ IsMutable(f, q) => q + 1 \in N
         /\ \A n \in N : \/ \E k \in 1 .. Len(vs) : IsMutable(f, vs[k]) /\ n = q - 4 + k
                         \/ ReadInList(f, q) /\ n = q - 1
                         \/ IsMutable(f, q) /\ n = q + 1
<1>1. /\ q \in Nat /\ Len(vs) \in Nat /\ Len(vs) <= (IF ReadsList(f, q) THEN 2 ELSE 3)
      /\ \A r \in (q - 3 .. q - 1) \cup {q + 1} : r \in Op
  BY ConvertedFacts
<1>2. CopiesRead(f, q, vs) = {q - 4 + k : k \in {k \in 1 .. Len(vs) : IsMutable(f, vs[k])}}
  BY DEF CopiesRead, ValueCopy
<1>3. ASSUME NEW k \in 1 .. Len(vs) PROVE q - 4 + k \in q - 3 .. q - 1 /\ (ReadsList(f, q) => q - 4 + k # q - 1)
  BY <1>1
<1>4. \A n \in N : \/ \E k \in 1 .. Len(vs) : IsMutable(f, vs[k]) /\ n = q - 4 + k
                   \/ ReadInList(f, q) /\ n = q - 1
                   \/ IsMutable(f, q) /\ n = q + 1
  BY <1>2 DEF MadeAround
<1>5. /\ \A k \in 1 .. Len(vs) : IsMutable(f, vs[k]) => q - 4 + k \in N
      /\ ReadInList(f, q) => q - 1 \in N
      /\ IsMutable(f, q) => q + 1 \in N
  BY <1>2 DEF MadeAround
<1>6. N \subseteq (q - 3 .. q - 1) \cup {q + 1}
  BY <1>1, <1>3, <1>4
<1>7. q \notin (q - 3 .. q - 1) \cup {q + 1}
  BY <1>1
<1>8. ASSUME NEW k \in 1 .. Len(vs), IsMutable(f, vs[k])
      PROVE  q - 4 + k \in N /\ q - 4 + k \in Op /\ q - 3 <= q - 4 + k /\ q - 4 + k < q
  BY <1>3, <1>5, <1>8, <1>1
<1>9. ReadInList(f, q) => \A k \in 1 .. Len(vs) : q - 4 + k # q - 1
  BY <1>3 DEF ReadInList
<1> QED  BY <1>1, <1>4, <1>5, <1>6, <1>7, <1>8, <1>9

\* What the op reads instead of vs, and its operands.
LEMMA CopiedAre ==
  ASSUME NEW f, NEW q, IsConverted(f, q), NEW vs, vs = TensorsRead(f, q), NEW read, read = Copied(f, q, vs)
  PROVE  /\ read \in Seq(Op) /\ Len(read) = Len(vs) /\ DOMAIN read = 1 .. Len(vs)
         /\ \A k \in 1 .. Len(vs) : /\ read[k] = IF IsMutable(f, vs[k]) THEN q - 4 + k ELSE vs[k]
                                    /\ read[k] \in Op /\ read[k] < q
                                    /\ ReadInList(f, q) => read[k] < q - 1
<1>1. /\ q \in Nat /\ vs \in Seq(Op) /\ Len(vs) \in Nat /\ DOMAIN vs = 1 .. Len(vs) /\ Op \subseteq Nat \ {0}
      /\ \A k \in 1 .. Len(vs) : vs[k] \in Op /\ vs[k] < q - 3
  BY ConvertedFacts
<1>2. \A k \in 1 .. Len(vs) : read[k] = IF IsMutable(f, vs[k]) THEN q - 4 + k ELSE vs[k]
  BY <1>1 DEF Copied, ValueCopy
<1>3. ASSUME NEW k \in 1 .. Len(vs) PROVE read[k] \in Op /\ read[k] < q /\ (ReadInList(f, q) => read[k] < q - 1)
  <2>1. CASE IsMutable(f, vs[k])
    BY <1>2, <2>1, <1>1, CopiesAre
  <2>2. CASE ~ IsMutable(f, vs[k])
    <3>1. read[k] = vs[k]
      BY <1>2, <2>2
    <3>2. vs[k] \in Op /\ vs[k] \in Nat /\ vs[k] < q - 3
      BY <1>1
    <3> QED  BY <1>1, <3>1, <3>2
  <2> QED  BY <2>1, <2>2
<1>4. read = [k \in DOMAIN vs |-> read[k]]
  BY DEF Copied
<1>5. \A k \in 1 .. Len(vs) : read[k] \in Op
  BY <1>3
<1>6. read \in Seq(Op) /\ Len(read) = Len(vs)
  BY <1>1, <1>4, <1>5, RenamedOperands
<1> QED  BY <1>1, <1>2, <1>3, <1>4, <1>6

ArgsRead(f, q) ==
  IF ReadInList(f, q) THEN <<q - 1>>
  ELSE IF ReadsList(f, q) THEN f[q].args ELSE Copied(f, q, TensorsRead(f, q))

\* The function with the op converted.
LEMMA ConvertedIs ==
  ASSUME NEW f, NEW q, IsConverted(f, q), NEW vs, vs = TensorsRead(f, q), NEW N, N = MadeAround(f, q),
         NEW y, y = ResultOf(f, q), NEW h, h = ConvertToValues(f, q), NEW b, b = f[q].block
  PROVE  /\ h = [u \in Op |-> h[u]]
         /\ IsOp(h[q], "pure", ArgsRead(f, q), "value", b)
         /\ IsMutable(f, q) => IsOp(h[q + 1], "to_tensor", <<q>>, "mutable", b)
         /\ ReadInList(f, q) => IsOp(h[q - 1], "list", Copied(f, q, vs), "list", b)
         /\ \A k \in 1 .. Len(vs) : IsMutable(f, vs[k]) => IsOp(h[q - 4 + k], "to_vtensor", <<vs[k]>>, "value", b)
         /\ \A u \in Op : u \notin N /\ u # q => IsOp(h[u], f[u].kind, Stood(f, q, y, u), f[u].type, f[u].block)
<1>1. /\ f \in [Op -> OpIR] /\ OpOK(f, q) /\ q \in Nat /\ Op \subseteq Nat \ {0} /\ q \in Op
      /\ \A r \in (q - 3 .. q - 1) \cup {q + 1} : r \in Op
      /\ vs \in Seq(Op) /\ Len(vs) \in Nat /\ DOMAIN vs = 1 .. Len(vs)
      /\ \A k \in 1 .. Len(vs) : vs[k] \in Op /\ vs[k] < q - 3
  BY ConvertedFacts
<1>2. f[q].kind = "pure" /\ f[q] \in OpIR
  BY <1>1 DEF IsConverted
<1> DEFINE IsCopy(u) == \E k \in DOMAIN vs : u = ValueCopy(q, k) /\ IsMutable(f, vs[k])
           g == [u \in Op |-> IF IsCopy(u)
                              THEN [kind |-> "to_vtensor", args |-> <<vs[u - ValueCopy(q, 0)]>>,
                                    type |-> "value", block |-> f[q].block]
                              ELSE f[u]]
           To(v) == IF v = q /\ IsMutable(f, q) THEN ResultCopy(q) ELSE v
           r == [u \in Op |-> [g[u] EXCEPT !.args = [k \in DOMAIN g[u].args |-> To(g[u].args[k])]]]
<1>3. h = [u \in Op |->
             IF u = q THEN [f[q] EXCEPT !.args = ArgsRead(f, q), !.type = "value"]
             ELSE IF u = ResultCopy(q) /\ IsMutable(f, q) THEN MkCopy(q, f[q].block)
             ELSE IF ReadInList(f, q) /\ u = ValueList(q)
             THEN [f[q] EXCEPT !.kind = "list", !.args = Copied(f, q, vs), !.type = "list"]
             ELSE r[u]]
  BY DEF ConvertToValues, WithCopies, Rename, ReadInList, ArgsRead, ValueList
<1>4. g = [u \in Op |-> g[u]] /\ r = [u \in Op |-> r[u]]
  OBVIOUS
<1>5. \A u \in Op : IsCopy(u) <=> \E k \in 1 .. Len(vs) : u = q - 4 + k /\ IsMutable(f, vs[k])
  BY <1>1 DEF ValueCopy
<1>6. ResultCopy(q) = q + 1 /\ ValueList(q) = q - 1 /\ ValueCopy(q, 0) = q - 4
  BY <1>1 DEF ResultCopy, ValueList, ValueCopy
<1>7. \A u \in Op : IsCopy(u) => g[u] = [kind |-> "to_vtensor", args |-> <<vs[u - (q - 4)]>>,
                                         type |-> "value", block |-> f[q].block]
  BY <1>6
<1>8. \A u \in Op : ~ IsCopy(u) => g[u] = f[u]
  OBVIOUS
<1>9. \A u \in Op : r[u] = [g[u] EXCEPT !.args = [k \in DOMAIN g[u].args |-> To(g[u].args[k])]]
  OBVIOUS
<1>10. \A v : v # q => To(v) = v
  OBVIOUS
<1>11. \A v : To(v) = Stand(q, y, v)
  BY <1>6 DEF Stand, ResultOf
<1> HIDE DEF g, r, IsCopy, To
<1>12. IsOp(h[q], "pure", ArgsRead(f, q), "value", b)
  <2>1. h[q] = [f[q] EXCEPT !.args = ArgsRead(f, q), !.type = "value"]
    BY <1>1, <1>3
  <2>2. PICK a : a = ArgsRead(f, q)
    OBVIOUS
  <2> QED  BY <1>2, <2>1, <2>2 DEF IsOp, OpIR
<1>13. IsMutable(f, q) => IsOp(h[q + 1], "to_tensor", <<q>>, "mutable", b)
  BY <1>1, <1>3, <1>6 DEF IsOp, MkCopy
<1>14. ReadInList(f, q) => IsOp(h[q - 1], "list", Copied(f, q, vs), "list", b)
  <2>1. q - 1 \in Op /\ q - 1 # q /\ q - 1 # q + 1
    BY <1>1
  <2>2. PICK a : a = Copied(f, q, vs)
    OBVIOUS
  <2>3. ReadInList(f, q) => h[q - 1] = [f[q] EXCEPT !.kind = "list", !.args = a, !.type = "list"]
    BY <1>3, <1>6, <2>1, <2>2
  <2> QED  BY <1>2, <2>2, <2>3 DEF IsOp, OpIR
<1>15. ASSUME NEW k \in 1 .. Len(vs), IsMutable(f, vs[k])
       PROVE  IsOp(h[q - 4 + k], "to_vtensor", <<vs[k]>>, "value", b)
  <2>1. PICK u : u = q - 4 + k
    OBVIOUS
  <2>2. u \in Op /\ u < q /\ (ReadInList(f, q) => u # q - 1) /\ u - (q - 4) = k
    BY <1>15, <2>1, <1>1, CopiesAre
  <2>3. u # q /\ u # q + 1
    BY <1>1, <2>2
  <2>4. h[u] = r[u]
    BY <1>3, <1>6, <2>2, <2>3
  <2>5. PICK a : a = vs[k]
    OBVIOUS
  <2>6. a # q
    BY <1>1, <2>5
  <2>7. g[u] = [kind |-> "to_vtensor", args |-> <<a>>, type |-> "value", block |-> b]
    BY <1>5, <1>15, <2>1, <2>2, <1>7, <2>5
  <2>8. [j \in DOMAIN <<a>> |-> To(<<a>>[j])] = <<a>>
    BY <1>10, <2>6
  <2>9. r[u] = [g[u] EXCEPT !.args = [j \in DOMAIN g[u].args |-> To(g[u].args[j])]]
    BY <1>9, <2>2
  <2>10. PICK t : t = <<a>>
    OBVIOUS
  <2>11. g[u].args = t /\ [j \in DOMAIN g[u].args |-> To(g[u].args[j])] = t
    BY <2>7, <2>8, <2>10
  <2>12. r[u] = [kind |-> "to_vtensor", args |-> t, type |-> "value", block |-> b]
    BY <2>7, <2>9, <2>11
  <2> QED  BY <2>1, <2>4, <2>5, <2>10, <2>12 DEF IsOp
<1>16. ASSUME NEW u \in Op, u \notin N, u # q
       PROVE  IsOp(h[u], f[u].kind, Stood(f, q, y, u), f[u].type, f[u].block)
  <2>1. ~ IsCopy(u)
    BY <1>5, <1>16, CopiesAre
  <2>2. ~ (ReadInList(f, q) /\ u = q - 1) /\ ~ (IsMutable(f, q) /\ u = q + 1)
    BY <1>16, CopiesAre
  <2>3. h[u] = r[u]
    BY <1>3, <1>6, <1>16, <2>2
  <2>4. g[u] = f[u]
    BY <1>8, <2>1
  <2>5. r[u] = [f[u] EXCEPT !.args = [k \in DOMAIN f[u].args |-> To(f[u].args[k])]]
    BY <1>9, <2>4
  <2>6. [k \in DOMAIN f[u].args |-> To(f[u].args[k])] = Stood(f, q, y, u)
    BY <1>11 DEF Stood
  <2>7. r[u] = [f[u] EXCEPT !.args = Stood(f, q, y, u)]
    BY <2>5, <2>6
  <2>8. f[u] \in OpIR
    BY <1>1
  <2> QED  BY <2>3, <2>7, <2>8 DEF IsOp, OpIR
<1>17. h = [u \in Op |-> h[u]]
  BY <1>3
<1> QED  BY <1>12, <1>13, <1>14, <1>15, <1>16, <1>17

\* The kinds of the new ops.
LEMMA ConvertedKinds ==
  ASSUME NEW f, NEW q, IsConverted(f, q), NEW vs, vs = TensorsRead(f, q), NEW N, N = MadeAround(f, q),
         NEW h, h = ConvertToValues(f, q)
  PROVE  /\ \A n \in N : h[n].kind \in {"to_vtensor", "to_tensor", "list"}
         /\ h[q].kind = "pure" /\ h[q].type = "value" /\ h[q].args = ArgsRead(f, q)
         /\ IsMutable(f, q) => h[q + 1].kind = "to_tensor" /\ h[q + 1].type = "mutable" /\ h[q + 1].args = <<q>>
         /\ ReadInList(f, q) => h[q - 1].kind = "list" /\ h[q - 1].type = "list" /\ h[q - 1].args = Copied(f, q, vs)
         /\ \A k \in 1 .. Len(vs) : IsMutable(f, vs[k]) =>
              h[q - 4 + k].kind = "to_vtensor" /\ h[q - 4 + k].type = "value" /\ h[q - 4 + k].args = <<vs[k]>>
<1>1. PICK b : b = f[q].block
  OBVIOUS
<1>2. /\ IsOp(h[q], "pure", ArgsRead(f, q), "value", b)
      /\ IsMutable(f, q) => IsOp(h[q + 1], "to_tensor", <<q>>, "mutable", b)
      /\ ReadInList(f, q) => IsOp(h[q - 1], "list", Copied(f, q, vs), "list", b)
      /\ \A k \in 1 .. Len(vs) : IsMutable(f, vs[k]) => IsOp(h[q - 4 + k], "to_vtensor", <<vs[k]>>, "value", b)
  BY <1>1, ConvertedIs
<1>3. h[q].kind = "pure" /\ h[q].type = "value" /\ h[q].args = ArgsRead(f, q)
  BY <1>2 DEF IsOp
<1>4. IsMutable(f, q) => h[q + 1].kind = "to_tensor" /\ h[q + 1].type = "mutable" /\ h[q + 1].args = <<q>>
  BY <1>2 DEF IsOp
<1>5. ReadInList(f, q) => h[q - 1].kind = "list" /\ h[q - 1].type = "list" /\ h[q - 1].args = Copied(f, q, vs)
  BY <1>2 DEF IsOp
<1>6. ASSUME NEW k \in 1 .. Len(vs), IsMutable(f, vs[k])
      PROVE  h[q - 4 + k].kind = "to_vtensor" /\ h[q - 4 + k].type = "value" /\ h[q - 4 + k].args = <<vs[k]>>
  <2>1. IsOp(h[q - 4 + k], "to_vtensor", <<vs[k]>>, "value", b)
    BY <1>2, <1>6
  <2> QED  BY <2>1 DEF IsOp
<1>7. ASSUME NEW n \in N PROVE h[n].kind \in {"to_vtensor", "to_tensor", "list"}
  BY <1>4, <1>5, <1>6, CopiesAre
<1> QED  BY <1>3, <1>4, <1>5, <1>6, <1>7

LEMMA ConvertedReplaced ==
  ASSUME NEW f, NEW q, IsConverted(f, q), NEW N, N = MadeAround(f, q), NEW y, y = ResultOf(f, q),
         NEW h, h = ConvertToValues(f, q)
  PROVE  Replaced(h, f, N, q, y)
<1>1. PICK vs : vs = TensorsRead(f, q)
  OBVIOUS
<1>2. /\ f \in [Op -> OpIR] /\ OpOK(f, q) /\ q \in Nat /\ q \in Op
      /\ \A r \in (q - 3 .. q - 1) \cup {q + 1} : r \in Op /\ f[r].kind = "none"
  BY <1>1, ConvertedFacts
<1>3. IsFunction(f) /\ ListsAreNotChanged(f) /\ f[q].kind = "pure"
  BY DEF IsConverted
<1>4. N \subseteq (q - 3 .. q - 1) \cup {q + 1} /\ N \subseteq Op /\ q \notin N /\ (IsMutable(f, q) => q + 1 \in N)
  BY <1>1, CopiesAre
<1>5. /\ \A n \in N : h[n].kind \in {"to_vtensor", "to_tensor", "list"}
      /\ h[q].kind = "pure" /\ h[q].type = "value"
      /\ IsMutable(f, q) => h[q + 1].kind = "to_tensor" /\ h[q + 1].type = "mutable"
  BY <1>1, ConvertedKinds
<1>6. \A n \in N : f[n].kind = "none" /\ h[n].kind \in {"pure", "to_vtensor", "to_tensor", "list"}
  BY <1>2, <1>4, <1>5
<1>7. \A u \in Op : u \notin N /\ u # q => IsOp(h[u], f[u].kind, Stood(f, q, y, u), f[u].type, f[u].block)
  <2>1. PICK b : b = f[q].block
    OBVIOUS
  <2> QED  BY <1>1, <2>1, ConvertedIs
<1>8. /\ y \in Op /\ h[y].kind # "list" /\ h[y].type = f[q].type
      /\ y < q \/ y = q \/ (y = q + 1 /\ y \in N)
      /\ q # y => f[y].kind = "none"
  <2>1. CASE IsMutable(f, q)
    BY <2>1, <1>2, <1>4, <1>5 DEF ResultOf, IsMutable
  <2>2. CASE ~ IsMutable(f, q)
    BY <2>2, <1>2, <1>3, <1>5 DEF ResultOf, OpOK, IsMutable
  <2> QED  BY <2>1, <2>2
<1> QED  BY <1>2, <1>3, <1>4, <1>5, <1>6, <1>7, <1>8 DEF Replaced

\* What the op reads now.
LEMMA ReadTypes ==
  ASSUME NEW f, NEW q, IsConverted(f, q), NEW vs, vs = TensorsRead(f, q), NEW read, read = Copied(f, q, vs),
         NEW h, h = ConvertToValues(f, q), NEW k \in 1 .. Len(vs)
  PROVE  h[read[k]].type = IF IsMutable(f, vs[k]) THEN "value" ELSE f[vs[k]].type
<1>1. PICK N : N = MadeAround(f, q)
  OBVIOUS
<1>2. PICK y : y = ResultOf(f, q)
  OBVIOUS
<1>3. read[k] = IF IsMutable(f, vs[k]) THEN q - 4 + k ELSE vs[k]
  BY CopiedAre
<1>4. CASE IsMutable(f, vs[k])
  BY <1>1, <1>3, <1>4, ConvertedKinds
<1>5. CASE ~ IsMutable(f, vs[k])
  <2>1. PICK v : v = vs[k]
    OBVIOUS
  <2>2. v \in Op /\ v < q - 3 /\ q \in Nat /\ Op \subseteq Nat
    BY <2>1, ConvertedFacts
  <2>3. v \notin N /\ v # q
    BY <1>1, <2>2, CopiesAre
  <2>4. Replaced(h, f, N, q, y)
    BY <1>1, <1>2, ConvertedReplaced
  <2>5. h[v].type = f[v].type
    BY <2>2, <2>3, <2>4, ReplacedOps
  <2> QED  BY <1>3, <1>5, <2>1, <2>5
<1> QED  BY <1>4, <1>5

\* The operands of the op now.
LEMMA ArgsReadAre ==
  ASSUME NEW f, NEW q, IsConverted(f, q), NEW h, h = ConvertToValues(f, q), NEW args, args = ArgsRead(f, q)
  PROVE  /\ args \in Seq(Op) /\ Len(args) \in Nat /\ DOMAIN args = 1 .. Len(args)
         /\ \A k \in 1 .. Len(args) : args[k] < q /\ h[args[k]].type \notin {"none", "mutable"}
<1>1. PICK vs : vs = TensorsRead(f, q)
  OBVIOUS
<1>2. PICK read : read = Copied(f, q, vs)
  OBVIOUS
<1>3. PICK N : N = MadeAround(f, q)
  OBVIOUS
<1>4. /\ f \in [Op -> OpIR] /\ q \in Nat /\ q \in Op /\ Len(vs) \in Nat /\ Op \subseteq Nat \ {0}
      /\ \A k \in 1 .. Len(vs) : f[vs[k]].type # "none"
  BY <1>1, ConvertedFacts
<1>5. CASE ReadInList(f, q)
  <2>1. args = <<q - 1>>
    BY <1>5 DEF ArgsRead
  <2>2. h[q - 1].type = "list"
    BY <1>1, <1>3, <1>5, ConvertedKinds
  <2>3. q - 1 \in Op /\ q - 1 < q
    BY <1>1, <1>3, <1>5, <1>4, CopiesAre
  <2> QED  BY <2>1, <2>2, <2>3
<1>6. CASE ~ ReadInList(f, q) /\ ReadsList(f, q)
  <2>1. PICK a : a = f[q].args[1]
    OBVIOUS
  <2>2. Len(f[q].args) = 1 /\ a \in Op /\ a < q - 3 /\ f[a].type = "list"
    BY <1>1, <1>6, <2>1, ConvertedFacts
  <2>3. args = f[q].args
    BY <1>6 DEF ArgsRead
  <2>4. a \notin N /\ a # q /\ a < q
    BY <1>1, <1>3, <1>4, <2>2, CopiesAre
  <2>5. h[a].type = "list"
    BY <1>3, <2>2, <2>4, ConvertedReplaced, ReplacedOps
  <2>6. args \in Seq(Op) /\ DOMAIN args = 1 .. Len(args)
    BY <1>4, <2>3, OperandsAre
  <2>7. Len(args) = 1 /\ args[1] = a
    BY <2>1, <2>2, <2>3
  <2>8. \A k \in 1 .. Len(args) : args[k] = a
    BY <2>7
  <2> QED  BY <2>4, <2>5, <2>6, <2>7, <2>8
<1>7. CASE ~ ReadInList(f, q) /\ ~ ReadsList(f, q)
  <2>1. args = read
    BY <1>1, <1>2, <1>7 DEF ArgsRead
  <2>2. /\ read \in Seq(Op) /\ Len(read) = Len(vs) /\ DOMAIN read = 1 .. Len(vs)
        /\ \A k \in 1 .. Len(vs) : read[k] < q
    BY <1>1, <1>2, CopiedAre
  <2>3. \A k \in 1 .. Len(vs) : h[read[k]].type = IF IsMutable(f, vs[k]) THEN "value" ELSE f[vs[k]].type
    BY <1>1, <1>2, ReadTypes
  <2> QED  BY <1>4, <2>1, <2>2, <2>3 DEF IsMutable
<1> QED  BY <1>5, <1>6, <1>7

LEMMA ConvertedFunction ==
  ASSUME NEW f, NEW q, IsConverted(f, q), NEW h, h = ConvertToValues(f, q)
  PROVE  /\ IsFunction(h) /\ ListsAreNotChanged(h)
         /\ MutableViewsReadOne(f) => MutableViewsReadOne(h)
<1>1. PICK vs : vs = TensorsRead(f, q)
  OBVIOUS
<1>2. PICK read : read = Copied(f, q, vs)
  OBVIOUS
<1>3. PICK N : N = MadeAround(f, q)
  OBVIOUS
<1>4. PICK y : y = ResultOf(f, q)
  OBVIOUS
<1>5. PICK b : b = f[q].block
  OBVIOUS
<1>6. Replaced(h, f, N, q, y)
  BY <1>3, <1>4, ConvertedReplaced
<1>7. /\ f \in [Op -> OpIR] /\ OpOK(f, q) /\ q \in Nat /\ q \in Op /\ Len(vs) \in Nat /\ Op \subseteq Nat \ {0}
      /\ \A r \in (q - 3 .. q - 1) \cup {q + 1} : r \in Op /\ f[r].kind = "none"
      /\ \A k \in 1 .. Len(vs) : vs[k] \in Op /\ vs[k] < q - 3 /\ f[vs[k]].type # "none"
  BY <1>1, ConvertedFacts
<1>8. b \in {1, 2} /\ NumOps \in Op /\ f[NumOps].kind = "return" /\ f[q].kind = "pure"
  <2>1. NumOps \in Op
    BY FunctionsAssumption DEF Op
  <2>2. OpOK(f, NumOps)
    BY <1>7, <2>1, FunctionIff DEF IsConverted
  <2> QED  BY <1>5, <1>7, <2>1, <2>2 DEF OpIR, OpOK, IsConverted
<1>9. \A n \in N \cup {q} : n \in Op /\ n # NumOps
  BY <1>6, <1>7, <1>8 DEF Replaced
<1>10. /\ h = [u \in Op |-> h[u]]
       /\ IsOp(h[q], "pure", ArgsRead(f, q), "value", b)
       /\ IsMutable(f, q) => IsOp(h[q + 1], "to_tensor", <<q>>, "mutable", b)
       /\ ReadInList(f, q) => IsOp(h[q - 1], "list", Copied(f, q, vs), "list", b)
       /\ \A k \in 1 .. Len(vs) : IsMutable(f, vs[k]) => IsOp(h[q - 4 + k], "to_vtensor", <<vs[k]>>, "value", b)
  BY <1>1, <1>3, <1>4, <1>5, ConvertedIs
<1>11. /\ h[q].kind = "pure" /\ h[q].type = "value" /\ h[q].args = ArgsRead(f, q)
       /\ IsMutable(f, q) => h[q + 1].kind = "to_tensor" /\ h[q + 1].type = "mutable" /\ h[q + 1].args = <<q>>
       /\ ReadInList(f, q) => h[q - 1].kind = "list" /\ h[q - 1].type = "list" /\ h[q - 1].args = Copied(f, q, vs)
       /\ \A k \in 1 .. Len(vs) : IsMutable(f, vs[k]) =>
            h[q - 4 + k].kind = "to_vtensor" /\ h[q - 4 + k].type = "value" /\ h[q - 4 + k].args = <<vs[k]>>
  BY <1>1, <1>3, ConvertedKinds
<1>12. {"pure", "to_tensor", "to_vtensor", "list"} \subseteq Kind
  BY DEF Kind
<1>13. h[q] \in OpIR /\ OpOK(h, q)
  <2>1. PICK args : args = ArgsRead(f, q)
    OBVIOUS
  <2>2. /\ args \in Seq(Op)
        /\ \A k \in 1 .. Len(args) : args[k] < q /\ h[args[k]].type # "none"
    BY <2>1, ArgsReadAre
  <2>3. h[q] \in OpIR
    BY <1>8, <1>10, <1>12, <2>1, <2>2, OpIs
  <2>4. h[q].kind = "pure" /\ h[q].type = "value" /\ h[q].args = args /\ q # NumOps
    BY <1>9, <1>11, <2>1
  <2> QED  BY <2>2, <2>3, <2>4 DEF OpOK
<1>14. ASSUME IsMutable(f, q) PROVE h[q + 1] \in OpIR /\ OpOK(h, q + 1)
  <2>1. PICK args : args = <<q>>
    OBVIOUS
  <2>2. args \in Seq(Op) /\ Len(args) = 1 /\ args[1] = q /\ q < q + 1 /\ q + 1 # NumOps
    BY <1>1, <1>3, <1>14, <1>7, <1>9, <2>1, CopiesAre
  <2>3. h[q + 1] \in OpIR
    BY <1>8, <1>10, <1>12, <1>14, <2>1, <2>2, OpIs
  <2>4. h[q + 1].kind = "to_tensor" /\ h[q + 1].type = "mutable" /\ h[q + 1].args = args
    BY <1>11, <1>14, <2>1
  <2>5. PICK c : c = q + 1
    OBVIOUS
  <2>6. h[c] \in OpIR /\ h[c].kind = "to_tensor" /\ h[c].type = "mutable" /\ h[c].args = args /\ c # NumOps
    BY <2>2, <2>3, <2>4, <2>5
  <2>7. Len(args) = 1 /\ args[1] = q /\ q < c /\ h[q].type = "value"
    BY <1>11, <2>2, <2>5
  <2>8. OpOK(h, c)
    BY <2>6, <2>7 DEF OpOK
  <2> QED  BY <2>5, <2>6, <2>8
<1>15. ASSUME ReadInList(f, q) PROVE h[q - 1] \in OpIR /\ OpOK(h, q - 1)
  <2>1. read \in Seq(Op) /\ Len(read) = Len(vs) /\ \A k \in 1 .. Len(vs) : read[k] < q - 1
    BY <1>1, <1>2, <1>15, CopiedAre
  <2>2. \A k \in 1 .. Len(vs) : h[read[k]].type = IF IsMutable(f, vs[k]) THEN "value" ELSE f[vs[k]].type
    BY <1>1, <1>2, ReadTypes
  <2>3. \A k \in 1 .. Len(vs) : h[read[k]].type # "none"
    BY <1>7, <2>2
  <2>4. h[q - 1] \in OpIR
    BY <1>2, <1>8, <1>10, <1>12, <1>15, <2>1, OpIs
  <2>5. h[q - 1].kind = "list" /\ h[q - 1].type = "list" /\ h[q - 1].args = read
    BY <1>2, <1>11, <1>15
  <2>6. q - 1 # NumOps
    BY <1>1, <1>3, <1>9, <1>15, CopiesAre
  <2> QED  BY <2>1, <2>3, <2>4, <2>5, <2>6 DEF OpOK
<1>16. ASSUME NEW k \in 1 .. Len(vs), IsMutable(f, vs[k]) PROVE h[q - 4 + k] \in OpIR /\ OpOK(h, q - 4 + k)
  <2>1. PICK c : c = q - 4 + k
    OBVIOUS
  <2>2. PICK v : v = vs[k]
    OBVIOUS
  <2>3. PICK args : args = <<v>>
    OBVIOUS
  <2>4. v \in Op /\ v < q - 3 /\ f[v].type = "mutable"
    BY <1>7, <1>16, <2>2 DEF IsMutable
  <2>5. c \in N /\ q - 3 <= c /\ c # NumOps /\ c \in Op
    BY <1>1, <1>3, <1>9, <1>16, <2>1, CopiesAre
  <2>6. args \in Seq(Op) /\ Len(args) = 1 /\ args[1] = v /\ v < c
    BY <1>7, <2>3, <2>4, <2>5
  <2>7. h[c] \in OpIR
    BY <1>8, <1>10, <1>12, <1>16, <2>1, <2>2, <2>3, <2>6, OpIs, Zenon
  <2>8. h[c].kind = "to_vtensor" /\ h[c].type = "value" /\ h[c].args = args
    BY <1>11, <1>16, <2>1, <2>2, <2>3
  <2>9. h[v].type = "mutable"
    <3>1. N \subseteq (q - 3 .. q - 1) \cup {q + 1}
      BY <1>1, <1>3, CopiesAre
    <3>2. v \notin N /\ v # q
      BY <1>7, <2>4, <3>1
    <3> QED  BY <1>6, <2>4, <3>2, ReplacedOps
  <2>10. /\ Len(h[c].args) = 1 /\ h[c].args[1] = v /\ v < c /\ h[v].type = "mutable" /\ h[c].kind = "to_vtensor" /\ h[c].type = "value"
         /\ \A j \in 1 .. Len(h[c].args) : h[c].args[j] = v
    <3>1. \A j \in 1 .. Len(args) : args[j] = v
      BY <2>6
    <3> QED  BY <2>6, <2>8, <2>9, <3>1
  <2>11. OpOK(h, c)
    BY <2>5, <2>10 DEF OpOK, IsMutable
  <2> QED  BY <2>1, <2>7, <2>11
<1>17. ASSUME NEW n \in N \cup {q} PROVE h[n] \in OpIR /\ OpOK(h, n)
  BY <1>1, <1>3, <1>13, <1>14, <1>15, <1>16, CopiesAre
<1> QED  BY <1>6, <1>10, <1>17, ReplacedFunction

\* The op finds in a copy what was in the tensor that is copied.
LEMMA CopyHolds ==
  ASSUME NEW s, NEW f, NEW m, Meant(m, s, f), NEW q, IsConverted(f, q), NEW h, h = ConvertToValues(f, q),
         NEW p, Meant(p, s, h), NEW N, N = MadeAround(f, q), NEW y, y = ResultOf(f, q),
         FollowedBefore(f, m, p, N, q, y, q),
         NEW vs, vs = TensorsRead(f, q), NEW read, read = Copied(f, q, vs), NEW k \in 1 .. Len(vs)
  PROVE  TensorContents(h, p, read[k], q) = TensorContents(f, m, vs[k], q)
<1>1. /\ f \in [Op -> OpIR] /\ q \in Nat /\ Op \subseteq Nat \ {0} /\ q \in Op /\ Len(vs) \in Nat
      /\ \A r \in (q - 3 .. q - 1) \cup {q + 1} : r \in Op /\ f[r].kind = "none"
  BY ConvertedFacts
<1>2. PICK v : v = vs[k]
  OBVIOUS
<1>3. v \in Op /\ v < q - 3 /\ f[v].type # "none"
  BY <1>2, ConvertedFacts
<1>4. N \subseteq (q - 3 .. q - 1) \cup {q + 1}
  BY CopiesAre
<1>5. v \in Op \ N /\ v < q /\ Stand(q, y, v) = v
  BY <1>1, <1>3, <1>4 DEF Stand
<1>6. IsMove(s, f, m, h, p, N, q, y)
  BY ConvertedReplaced, ReplacedIsMoved DEF IsMove
<1>7. read[k] = IF IsMutable(f, v) THEN q - 4 + k ELSE v
  BY <1>2, CopiedAre
<1>8. CASE ~ IsMutable(f, v)
  BY <1>1, <1>3, <1>5, <1>6, <1>2, <1>7, <1>8, TensorMoved
<1>9. CASE IsMutable(f, v)
  <2>1. PICK c : c = q - 4 + k
    OBVIOUS
  <2>2. c \in Op /\ c \in N /\ q - 3 <= c /\ c < q
    BY <1>2, <1>9, <2>1, CopiesAre
  <2>3. h[c].kind = "to_vtensor" /\ h[c].type = "value" /\ h[c].args = <<v>>
    BY <1>2, <1>9, <2>1, ConvertedKinds
  <2>4. FollowedBefore(f, m, p, N, q, y, c)
    BY <1>1, <2>2 DEF FollowedBefore
  <2>5. v < c
    BY <1>1, <1>3, <2>2
  <2>6. Contents(h, p, v, c) = Contents(f, m, v, c)
    BY <1>3, <1>5, <1>6, <2>2, <2>4, <2>5, ContentsMoved
  <2>7. f[v].kind # "list"
    BY <1>1, <1>3, <1>9, FunctionIff DEF IsConverted, OpOK, IsMutable
  <2>8. Contents(f, m, v, c) = Contents(f, m, v, q)
    <3>1. ASSUME NEW u \in Op, c <= u, u < q PROVE u \notin Writes(f)
      BY <1>1, <2>2, <3>1 DEF Writes
    <3>2. c <= q
      BY <1>1, <2>2
    <3> QED  BY <1>1, <2>2, <2>7, <3>1, <3>2, ContentsBetween
  <2>9. Contents(f, m, v, q) = TensorContents(f, m, v, q)
    BY <2>7, ContentsOf
  <2>10. p[c] = Known(0, <<>>, Contents(h, p, v, c))
    <3>1. p[c] = Denote(s, h, p, c)
      BY <2>2, AllAreKnown
    <3>2. OperandContents(h, p, c)[1] = Contents(h, p, v, c)
      BY <2>3 DEF OperandContents
    <3>3. Denote(s, h, p, c) = Known(0, <<>>, OperandContents(h, p, c)[1])
      BY <2>3, SnapshotIs
    <3> QED  BY <3>1, <3>2, <3>3
  <2>11. p[c].base = 0 /\ p[c].term = Contents(h, p, v, c)
    BY <2>10, KnownIs
  <2>12. TensorContents(h, p, c, q) = p[c].term
    BY <2>11 DEF TensorContents
  <2> QED  BY <1>2, <1>7, <1>9, <2>1, <2>6, <2>8, <2>9, <2>11, <2>12
<1> QED  BY <1>8, <1>9

\* The op finds what it found.
LEMMA ConvertedOperands ==
  ASSUME NEW s, NEW f, NEW m, Meant(m, s, f), NEW q, IsConverted(f, q), NEW h, h = ConvertToValues(f, q),
         NEW p, Meant(p, s, h), NEW N, N = MadeAround(f, q), NEW y, y = ResultOf(f, q),
         FollowedBefore(f, m, p, N, q, y, q)
  PROVE  OperandContents(h, p, q) = OperandContents(f, m, q)
<1>1. PICK vs : vs = TensorsRead(f, q)
  OBVIOUS
<1>2. PICK read : read = Copied(f, q, vs)
  OBVIOUS
<1>3. /\ f \in [Op -> OpIR] /\ q \in Nat /\ Op \subseteq Nat \ {0} /\ q \in Op /\ Len(vs) \in Nat
      /\ DOMAIN vs = 1 .. Len(vs)
      /\ IF ReadsList(f, q)
         THEN /\ Len(f[q].args) = 1 /\ f[q].args[1] \in Op /\ f[q].args[1] < q - 3
              /\ f[f[q].args[1]].kind = "list" /\ f[f[q].args[1]].type = "list"
              /\ vs = f[f[q].args[1]].args
         ELSE vs = f[q].args /\ \A k \in 1 .. Len(vs) : f[vs[k]].type # "list"
  BY <1>1, ConvertedFacts
<1>4. /\ Len(read) = Len(vs) /\ DOMAIN read = 1 .. Len(vs)
      /\ \A k \in 1 .. Len(vs) : read[k] \in Op
  BY <1>1, <1>2, CopiedAre
<1>5. \A k \in 1 .. Len(vs) : TensorContents(h, p, read[k], q) = TensorContents(f, m, vs[k], q)
  BY <1>1, <1>2, CopyHolds
<1>6. h[q].args = ArgsRead(f, q)
  BY <1>1, ConvertedKinds
<1>7. (\A o \in Op : f[o].kind # "append") /\ (\A o \in Op : h[o].kind # "append")
  BY ConvertedFunction DEF IsConverted, ListsAreNotChanged
<1>8. h \in [Op -> OpIR] /\ \A u \in Op : OpOK(h, u) /\ OpOK(f, u)
  BY FunctionIff DEF Meant, IsFunction
<1>9. PICK a : a = f[q].args[1]
  OBVIOUS
<1>10. CASE ReadInList(f, q)
  <2>1. ReadsList(f, q) /\ h[q].args = <<q - 1>>
    BY <1>6, <1>10 DEF ArgsRead, ReadInList
  <2>2. PICK c : c = q - 1
    OBVIOUS
  <2>3. h[c].kind = "list" /\ h[c].args = read
    BY <1>1, <1>2, <1>10, <2>2, ConvertedKinds
  <2>4. Contents(h, p, c, q) = <<-3, Len(read)>> \o FlattenSeq(TensorsContents(h, p, read, q))
    <3>1. (\A o \in Op : h[o].kind # "append") /\ h[c].kind = "list" /\ q \in Op
      BY <1>3, <1>7, <2>3
    <3>2. Contents(h, p, c, q) = <<-3, Len(h[c].args)>> \o FlattenSeq(TensorsContents(h, p, h[c].args, q))
      BY <3>1, ListContents
    <3> QED  BY <2>3, <3>2
  <2>5. f[a].kind = "list" /\ f[a].args = vs /\ Len(f[q].args) = 1
    BY <1>3, <1>9, <2>1
  <2>6. Contents(f, m, a, q) = <<-3, Len(vs)>> \o FlattenSeq(TensorsContents(f, m, vs, q))
    <3>1. (\A o \in Op : f[o].kind # "append") /\ f[a].kind = "list" /\ q \in Op
      BY <1>3, <1>7, <2>5
    <3>2. Contents(f, m, a, q) = <<-3, Len(f[a].args)>> \o FlattenSeq(TensorsContents(f, m, f[a].args, q))
      BY <3>1, ListContents
    <3> QED  BY <2>5, <3>2
  <2>7. TensorsContents(h, p, read, q) = TensorsContents(f, m, vs, q)
    BY <1>3, <1>4, <1>5 DEF TensorsContents
  <2>8. Contents(h, p, c, q) = Contents(f, m, a, q)
    BY <1>4, <2>4, <2>6, <2>7
  <2>9. DOMAIN h[q].args = {1} /\ h[q].args[1] = c
    BY <2>1, <2>2
  <2>10. DOMAIN f[q].args = {1}
    BY <1>3, <2>5, OperandsAre
  <2> QED  BY <1>9, <2>8, <2>9, <2>10 DEF OperandContents
<1>11. CASE ~ ReadInList(f, q) /\ ReadsList(f, q)
  <2>1. h[q].args = f[q].args
    BY <1>6, <1>11 DEF ArgsRead
  <2>2. a \in Op /\ a < q - 3 /\ f[a].type = "list" /\ Len(f[q].args) = 1
    BY <1>3, <1>9, <1>11
  <2>3. a \in Op \ N /\ a < q /\ Stand(q, y, a) = a
    BY <1>1, <1>3, <2>2, CopiesAre DEF Stand
  <2>4. IsMove(s, f, m, h, p, N, q, y)
    BY ConvertedReplaced, ReplacedIsMoved DEF IsMove
  <2>5. Contents(h, p, Stand(q, y, a), q) = Contents(f, m, a, q)
    BY <1>3, <2>2, <2>3, <2>4, ContentsMoved
  <2>6. DOMAIN f[q].args = {1}
    BY <1>3, <2>2, OperandsAre
  <2> QED  BY <1>9, <2>1, <2>3, <2>5, <2>6 DEF OperandContents
<1>12. CASE ~ ReadInList(f, q) /\ ~ ReadsList(f, q)
  <2>1. h[q].args = read /\ f[q].args = vs
    BY <1>1, <1>2, <1>3, <1>6, <1>12 DEF ArgsRead
  <2>2. ASSUME NEW k \in 1 .. Len(vs) PROVE Contents(h, p, read[k], q) = Contents(f, m, vs[k], q)
    <3>1. PICK c, v : c = read[k] /\ v = vs[k]
      OBVIOUS
    <3>2. c \in Op /\ v \in Op /\ f[v].type # "list"
      BY <1>1, <3>1, <1>3, <1>4, <1>12, ConvertedFacts
    <3>3. h[c].type = IF IsMutable(f, v) THEN "value" ELSE f[v].type
      BY <1>1, <1>2, <3>1, ReadTypes
    <3>4. h[c].kind # "list" /\ f[v].kind # "list"
      BY <1>8, <3>2, <3>3 DEF OpOK
    <3>5. TensorContents(h, p, c, q) = TensorContents(f, m, v, q)
      BY <1>5, <3>1
    <3> QED  BY <3>1, <3>4, <3>5, ContentsOf
  <2> QED  BY <1>3, <1>4, <2>1, <2>2 DEF OperandContents
<1> QED  BY <1>10, <1>11, <1>12

\* What the op gives, or the copy of that, is what the op gave.
LEMMA ConvertFollows ==
  ASSUME NEW s, NEW f, NEW m, Meant(m, s, f), NEW q, IsConverted(f, q), NEW h, h = ConvertToValues(f, q),
         NEW p, Meant(p, s, h), NEW N, N = MadeAround(f, q), NEW y, y = ResultOf(f, q),
         FollowedBefore(f, m, p, N, q, y, q)
  PROVE  Follows(f, m, p, q, y, q)
<1>1. PICK vs : vs = TensorsRead(f, q)
  OBVIOUS
<1>2. q \in Nat /\ Op \subseteq Nat \ {0} /\ q \in Op /\ f[q].kind = "pure"
  BY <1>1, ConvertedFacts DEF IsConverted
<1>3. PICK t : t = <<Origin(s, q)>> \o FlattenSeq(OperandContents(f, m, q))
  OBVIOUS
<1>4. h[q].kind = "pure" /\ h[q].type = "value"
  BY <1>1, ConvertedKinds
<1>5. m[q] = Known(IF IsMutable(f, q) THEN q ELSE 0, <<>>, t)
  BY <1>2, <1>3, AllAreKnown, PureIs
<1>6. p[q] = Known(0, <<>>, t)
  BY <1>2, <1>4, <1>3, AllAreKnown, ConvertedOperands, PureIs DEF IsMutable
<1>7. q \notin Writes(f)
  BY <1>2 DEF Writes
<1>8. CASE ~ IsMutable(f, q)
  BY <1>8, <1>5, <1>6, <1>2, <1>7, KnownIs DEF ResultOf, Stand, Follows
<1>9. CASE IsMutable(f, q)
  <2>1. PICK c : c = q + 1
    OBVIOUS
  <2>2. y = c
    BY <1>9, <2>1 DEF ResultOf
  <2>3. h[c].kind = "to_tensor" /\ h[c].args = <<q>>
    BY <1>1, <1>9, <2>1, ConvertedKinds
  <2>4. c \in Op
    BY <1>1, <2>1, ConvertedFacts
  <2>5. Contents(h, p, q, c) = t
    BY <1>2, <1>4, <1>6, ValueContents, KnownIs
  <2>6. p[c] = Known(c, <<>>, t)
    <3>1. p[c] = Denote(s, h, p, c)
      BY <2>4, AllAreKnown
    <3>2. OperandContents(h, p, c)[1] = t
      BY <2>3, <2>5 DEF OperandContents
    <3>3. Denote(s, h, p, c) = Known(c, <<>>, OperandContents(h, p, c)[1])
      BY <2>3, CopyIs
    <3> QED  BY <3>1, <3>2, <3>3
  <2>7. p[c].base = c /\ p[c].path = <<>> /\ p[c].term = t
    BY <2>6, KnownIs
  <2>8. m[q].base = q /\ m[q].path = <<>> /\ m[q].term = t
    BY <1>5, <1>9, KnownIs
  <2>9. Stand(q, y, q) = c
    BY <2>2 DEF Stand
  <2> QED  BY <1>7, <2>7, <2>8, <2>9 DEF Follows
<1> QED  BY <1>8, <1>9

\* Nothing is seen of an op being made to read and give values.
LEMMA ConvertObserved ==
  ASSUME NEW s, NEW f, NEW q, IsConverted(f, q), NEW h, h = ConvertToValues(f, q)
  PROVE  Observed(s, h) = Observed(s, f)
<1>1. PICK y : y = ResultOf(f, q)
  OBVIOUS
<1>2. PICK m, p : m = Meaning(s, f) /\ p = Meaning(s, h)
  OBVIOUS
<1>3. Meant(m, s, f) /\ Meant(p, s, h)
  BY <1>2, ConvertedFunction DEF Meant, IsConverted
<1>4. PICK N : N = MadeAround(f, q)
  OBVIOUS
<1>5. IsMove(s, f, m, h, p, N, q, y)
  BY <1>1, <1>3, <1>4, ConvertedReplaced, ReplacedIsMoved DEF IsMove
<1>6. FollowedBefore(f, m, p, N, q, y, q) => Follows(f, m, p, q, y, q)
  BY <1>1, <1>3, <1>4, ConvertFollows
<1> QED  BY <1>5, <1>6, ObservedMoved

\* The ops made for it and the op itself are legal.
LEMMA ConvertedLegal ==
  ASSUME NEW f, NEW q, IsConverted(f, q), NEW h, h = ConvertToValues(f, q), NEW N, N = MadeAround(f, q),
         NEW u \in N \cup {q}
  PROVE  IsLegal(h, u)
<1>1. PICK vs : vs = TensorsRead(f, q)
  OBVIOUS
<1>2. CASE u = q
  BY <1>1, <1>2, ConvertedKinds, ArgsReadAre DEF Operands, IsMutable, IsLegal
<1>3. CASE u \in N
  BY <1>1, <1>3, ConvertedKinds DEF IsLegal
<1> QED  BY <1>2, <1>3

\* No in-place op writes a mutable cast.
NoCastIsWritten(f) ==
  \A o \in Op : f[o].kind = "inplace" => ~ (f[f[o].args[1]].kind = "cast" /\ IsMutable(f, f[o].args[1]))

\* The ops made for x read a cast as snapshots, or as the in-place op x did.
LEMMA CastsEndReplaced ==
  ASSUME NEW f, NEW h, NEW N, NEW x, NEW y, Replaced(h, f, N, x, y), CastsEnd(f), NoCastIsWritten(f),
         ~ (h[y].kind = "cast" /\ IsMutable(h, y)),
         \A v \in Op, u \in N \cup {x} : h[v].kind = "cast" /\ IsMutable(h, v) /\ Uses(h, u, v) =>
           h[u].kind = "to_vtensor" \/ (h[u].kind = "pure" /\ f[x].kind = "inplace" /\ Uses(f, x, v))
  PROVE  CastsEnd(h) /\ NoCastIsWritten(h)
<1>1. /\ f \in [Op -> OpIR] /\ x \in Op /\ y \in Op /\ IsFunction(f)
      /\ \A n \in N : h[n].kind \in {"pure", "to_vtensor", "to_tensor", "list"}
      /\ h[x].kind \in {"overwrite", "pure"}
  BY DEF Replaced, IsFunction
<1>2. ASSUME NEW u \in Op, u \notin N, u # x
      PROVE  /\ h[u].kind = f[u].kind /\ h[u].type = f[u].type /\ Len(h[u].args) = Len(f[u].args)
             /\ DOMAIN h[u].args = 1 .. Len(f[u].args) /\ DOMAIN f[u].args = 1 .. Len(f[u].args)
             /\ \A k \in 1 .. Len(f[u].args) : h[u].args[k] = Stand(x, y, f[u].args[k])
  BY <1>2, <1>1, ReplacedOps, OperandsAre
<1>3. ASSUME NEW v \in Op, h[v].kind = "cast", IsMutable(h, v)
      PROVE  f[v].kind = "cast" /\ IsMutable(f, v) /\ v # x /\ v # y
  BY <1>1, <1>3, <1>2 DEF IsMutable
<1>4. ASSUME NEW v \in Op, h[v].kind = "cast", IsMutable(h, v), NEW u \in Op, u \notin N, u # x, Uses(h, u, v)
      PROVE  h[u].kind = f[u].kind /\ Uses(f, u, v)
  BY <1>4, <1>2, <1>3 DEF Uses, Stand
<1>5. CastsEnd(h)
  <2> SUFFICES ASSUME NEW v \in Op, h[v].kind = "cast", IsMutable(h, v), NEW u \in Op, NEW w \in Op,
                      Uses(h, u, v), Uses(h, w, v), u # w, h[w].kind \in {"cast", "return"}
               PROVE  h[u].kind \in {"to_vtensor", "return"}
    BY DEF CastsEnd, CastEnds
  <2>1. CastEnds(f, v)
    BY <1>3 DEF CastsEnd
  <2>2. w \notin N /\ w # x
    BY <1>1
  <2>3. f[w].kind = h[w].kind /\ Uses(f, w, v)
    BY <1>4, <2>2
  <2>4. CASE u \notin N /\ u # x
    BY <1>4, <2>4, <2>1, <2>3 DEF CastEnds
  <2>5. CASE u \in N \cup {x}
    BY <2>5, <1>1, <2>1, <2>2, <2>3 DEF CastEnds
  <2> QED  BY <2>4, <2>5
<1>6. NoCastIsWritten(h)
  <2> SUFFICES ASSUME NEW o \in Op, h[o].kind = "inplace", NEW v, v = h[o].args[1], h[v].kind = "cast", IsMutable(h, v)
               PROVE  FALSE
    BY DEF NoCastIsWritten
  <2>1. o \notin N /\ o # x
    BY <1>1
  <2>2. h[o].kind = f[o].kind
    BY <1>2, <2>1
  <2>3. 1 \in 1 .. Len(f[o].args)
    BY <1>1, <2>2, FunctionIff, OperandsAre DEF OpOK
  <2>4. PICK a : a = f[o].args[1]
    OBVIOUS
  <2>5. v = Stand(x, y, a) /\ a \in Op
    BY <1>1, <1>2, <2>1, <2>3, <2>4, OperandsAre
  <2>6. v = a /\ v \in Op
    BY <2>5 DEF Stand
  <2>7. f[v].kind = "cast" /\ IsMutable(f, v)
    BY <1>3, <2>6
  <2> QED  BY <2>2, <2>4, <2>6, <2>7 DEF NoCastIsWritten
<1> QED  BY <1>5, <1>6

(***************************************************************************)
(* What torch-reduce-op-variants keeps, making f of s.                     *)
(***************************************************************************)
Reduces(s, f) ==
  /\ IsFunction(f) /\ ListsAreNotChanged(f) /\ MutableViewsReadOne(f)
  /\ HasRoomsToReduce(f)
  /\ \A o \in Op : f[o].kind = "inplace" => s[o].kind = "inplace"
  /\ CastsEnd(f) /\ NoCastIsWritten(f)
  /\ Observed(s, f) = Observed(s, s)

\* In-place ops are those of s.
LEMMA NoNewInplace ==
  ASSUME NEW s, NEW f, Reduces(s, f), NEW h, NEW N, NEW x, NEW y, Replaced(h, f, N, x, y)
  PROVE  \A o \in Op : h[o].kind = "inplace" => s[o].kind = "inplace"
<1> SUFFICES ASSUME NEW o \in Op, h[o].kind = "inplace" PROVE s[o].kind = "inplace"
  OBVIOUS
<1>1. o \notin N /\ o # x
  BY DEF Replaced
<1>2. f[o].kind = h[o].kind
  BY <1>1, ReplacedOps
<1> QED  BY <1>2 DEF Reduces

LEMMA InplaceReduces ==
  ASSUME NEW s, IsFunction(s), HasRoomsToReduce(s), NEW f, Reduces(s, f),
         NEW o \in IllegalOps(f), f[o].kind = "inplace", NEW h, h = ReduceInplace(f, o)
  PROVE  Reduces(s, h)
<1>1. o \in Op /\ IsReducible(f, o)
  BY DEF IllegalOps, Reduces, HasRoomsToReduce
<1>2. s[o].kind = "inplace" /\ \A r \in o - 6 .. o - 1 : s[r].kind = "none"
  BY <1>1 DEF Reduces, IllegalOps, IsLegal, HasRoomsToReduce, IsReducible, Room
<1>3. IsReducedInplace(s, f, o)
  BY <1>1, <1>2 DEF Op, IsReducedInplace, Reduces
<1>4. PICK y : y = f[o].args[1]
  OBVIOUS
<1>5. PICK N : N = MadeFor(o)
  OBVIOUS
<1>6. Replaced(h, f, N, o, y)
  BY <1>3, <1>4, <1>5, InplaceReplaced DEF MadeFor
<1>7. IsFunction(h) /\ ListsAreNotChanged(h) /\ MutableViewsReadOne(h)
  BY <1>3, InplaceFunction DEF Reduces
<1>8. Observed(s, h) = Observed(s, s)
  BY <1>3, InplaceObserved DEF Reduces
<1>9. /\ f \in [Op -> OpIR] /\ o \in Nat /\ Op \subseteq Nat \ {0} /\ o - 3 \in Op /\ o - 1 \in Op
      /\ \A r \in o - 6 .. o - 1 : r \in Op /\ f[r].kind = "none"
      /\ y \in Op /\ y < o - 3 /\ IsMutable(f, y) /\ ~ ReadsList(f, o)
      /\ \A k \in 1 .. Len(f[o].args) : f[o].args[k] \in Op /\ f[o].args[k] < o - 3 /\ f[f[o].args[k]].type \notin {"none", "list"}
      /\ DOMAIN f[o].args = 1 .. Len(f[o].args) /\ f[o].args \in Seq(Op)
  BY <1>3, <1>4, InplaceFacts
<1>10. /\ h[o - 3].kind = "pure" /\ h[o - 3].args = f[o].args
       /\ h[o - 1].kind = "to_vtensor" /\ h[o].kind = "overwrite" /\ h[o].args = <<o - 1, y>>
  <2>1. /\ IsOp(h[o - 3], "pure", f[o].args, "mutable", f[o].block)
        /\ IsOp(h[o - 1], "to_vtensor", <<o - 3>>, "value", f[o].block)
        /\ IsOp(h[o], "overwrite", <<o - 1, y>>, "none", f[o].block)
    BY <1>3, <1>4, InplaceIsReduced
  <2> QED  BY <2>1 DEF IsOp
<1>11. \A n \in N : n = o - 3 \/ n = o - 1
  BY <1>5 DEF MadeFor
<1>12. PICK q : q = o - 3
  OBVIOUS
<1>13. Room(h, q) \subseteq Room(f, o) /\ \A r \in Room(h, q) : r \in Op /\ h[r].kind = "none"
  <2>1. Room(h, q) = (q - 3 .. q - 1) \cup {q + 1}
    BY <1>10, <1>12 DEF Room
  <2>2. Room(f, o) = o - 6 .. o - 1
    BY DEF Room
  <2>3. ASSUME NEW r \in Room(h, q) PROVE r \in o - 6 .. o - 1 /\ r \notin {o - 3, o - 1} /\ r # o
    BY <1>9, <1>12, <2>1, <2>3
  <2>4. ASSUME NEW r \in Room(h, q) PROVE r \in Op /\ h[r].kind = "none"
    BY <1>9, <1>11, <2>3, <1>6, ReplacedOps
  <2> QED  BY <2>2, <2>3, <2>4
<1>14. ~ ReadsList(h, q)
  <2> SUFFICES ASSUME NEW v \in Operands(h, q), h[v].type = "list" PROVE FALSE
    BY DEF ReadsList, IsList
  <2>1. PICK k \in 1 .. Len(f[o].args) : v = f[o].args[k]
    BY <1>9, <1>10, <1>12 DEF Operands
  <2>2. v \in Op /\ v < o - 3 /\ f[v].type # "list"
    BY <1>9, <2>1
  <2>3. v # o - 3 /\ v # o - 1 /\ v # o
    BY <1>9, <2>2
  <2>4. v \notin N
    BY <1>11, <2>3
  <2>5. h[v].type = f[v].type
    BY <1>6, <2>2, <2>3, <2>4, ReplacedOps
  <2> QED  BY <2>2, <2>5
<1>15. IsReducible(h, q)
  <2>1. TensorsRead(h, q) = f[o].args
    BY <1>10, <1>12, <1>14 DEF TensorsRead
  <2>2. Len(f[o].args) <= 3
    BY <1>9, <1>1 DEF TensorsRead, IsReducible
  <2> QED  BY <1>13, <1>14, <2>1, <2>2 DEF IsReducible
<1>16. HasRoomsToReduce(h)
  <2>1. N \subseteq Room(f, o)
    BY <1>9, <1>11 DEF Room
  <2>2. ASSUME NEW p \in IllegalOps(h), p \in N \cup {o} PROVE p = q
    BY <2>2, <1>10, <1>11, <1>12 DEF IllegalOps, IsLegal
  <2>3. HasRoomsToReduce(f)
    BY DEF Reduces
  <2>4. \A p \in IllegalOps(h) : p \in N \cup {o} => p = q /\ Room(h, q) \subseteq Room(f, o) /\ IsReducible(h, q)
    BY <1>13, <1>15, <2>2
  <2> QED  BY <1>6, <2>1, <2>3, <2>4, RoomsStay
<1>17. CastsEnd(h) /\ NoCastIsWritten(h)
  <2>1. CastsEnd(f) /\ NoCastIsWritten(f)
    BY DEF Reduces
  <2>2. y \in Op /\ y \notin N /\ y # o
    <3>1. y \in Op /\ y \in Nat /\ o \in Nat /\ y < o - 3
      BY <1>9
    <3>2. y # o - 3 /\ y # o - 1 /\ y # o
      BY <3>1
    <3> QED  BY <1>11, <3>1, <3>2
  <2>3. ~ (h[y].kind = "cast" /\ IsMutable(h, y))
    <3>1. h[y].kind = f[y].kind
      BY <1>6, <2>2, ReplacedOps
    <3> QED  BY <1>1, <1>4, <1>9, <2>1, <3>1 DEF NoCastIsWritten
  <2>4. ASSUME NEW v \in Op, NEW u \in N \cup {o}, h[v].kind = "cast", IsMutable(h, v), Uses(h, u, v)
        PROVE  h[u].kind = "to_vtensor" \/ (h[u].kind = "pure" /\ f[o].kind = "inplace" /\ Uses(f, o, v))
    <3>1. CASE u = o - 3
      BY <1>10, <2>4, <3>1 DEF Uses
    <3>2. CASE u = o - 1
      BY <1>10, <3>2
    <3>3. CASE u = o
      BY <1>10, <2>4, <3>3, <2>3 DEF Uses
    <3> QED  BY <1>11, <3>1, <3>2, <3>3
  <2> QED  BY <1>6, <2>1, <2>3, <2>4, CastsEndReplaced
<1> QED  BY <1>6, <1>7, <1>8, <1>16, <1>17, NoNewInplace DEF Reduces

LEMMA ConvertReduces ==
  ASSUME NEW s, NEW f, Reduces(s, f), NEW q \in IllegalOps(f), f[q].kind # "inplace", NEW h, h = ConvertToValues(f, q)
  PROVE  IsConvertible(f, q) /\ Reduces(s, h)
<1>1. q \in Op /\ IsReducible(f, q) /\ f[q].kind = "pure"
  BY DEF IllegalOps, IsLegal, Reduces, HasRoomsToReduce
<1>2. IsConverted(f, q)
  BY <1>1 DEF IsConverted, Reduces
<1>3. PICK y : y = ResultOf(f, q)
  OBVIOUS
<1>4. PICK N : N = MadeAround(f, q)
  OBVIOUS
<1>5. PICK vs : vs = TensorsRead(f, q)
  OBVIOUS
<1>6. IsConvertible(f, q)
  BY <1>2, <1>5, ConvertedFacts DEF IsConvertible
<1>7. Replaced(h, f, N, q, y)
  BY <1>2, <1>3, <1>4, ConvertedReplaced
<1>8. IsFunction(h) /\ ListsAreNotChanged(h) /\ MutableViewsReadOne(h)
  BY <1>2, ConvertedFunction DEF Reduces
<1>9. Observed(s, h) = Observed(s, s)
  BY <1>2, ConvertObserved DEF Reduces
<1>10. HasRoomsToReduce(h)
  <2>1. N \subseteq Room(f, q)
    BY <1>1, <1>2, <1>4, <1>5, CopiesAre DEF Room
  <2>2. ASSUME NEW p \in IllegalOps(h), p \in N \cup {q} PROVE FALSE
    BY <1>2, <1>4, <2>2, ConvertedLegal DEF IllegalOps
  <2>3. HasRoomsToReduce(f)
    BY DEF Reduces
  <2>4. \A p \in IllegalOps(h) : p \in N \cup {q} => p = q /\ Room(h, q) \subseteq Room(f, q) /\ IsReducible(h, q)
    BY <2>2
  <2> QED  BY <1>7, <2>1, <2>3, <2>4, RoomsStay
<1>11. CastsEnd(h) /\ NoCastIsWritten(h)
  <2>1. CastsEnd(f) /\ NoCastIsWritten(f)
    BY DEF Reduces
  <2>2. /\ \A n \in N : h[n].kind \in {"to_vtensor", "to_tensor", "list"}
        /\ h[q].kind = "pure" /\ h[q].args = ArgsRead(f, q)
        /\ IsMutable(f, q) => h[q + 1].kind = "to_tensor" /\ h[q + 1].args = <<q>>
        /\ ReadInList(f, q) => h[q - 1].kind = "list" /\ h[q - 1].args = Copied(f, q, vs)
        /\ \A k \in 1 .. Len(vs) : IsMutable(f, vs[k]) => h[q - 4 + k].kind = "to_vtensor"
    BY <1>2, <1>4, <1>5, ConvertedKinds
  <2>3. ~ (h[y].kind = "cast" /\ IsMutable(h, y))
    BY <1>3, <2>2 DEF ResultOf
  <2>4. ASSUME NEW v \in Op, NEW u \in N \cup {q}, h[v].kind = "cast", IsMutable(h, v), Uses(h, u, v)
        PROVE  h[u].kind = "to_vtensor"
    <3>1. u = q \/ u \in N
      OBVIOUS
    <3>2. CASE u = q
      BY <1>2, <2>2, <2>4, <3>2, ArgsReadAre DEF Uses, IsMutable
    <3>3. CASE u \in N
      <4>1. \/ \E k \in 1 .. Len(vs) : IsMutable(f, vs[k]) /\ u = q - 4 + k
            \/ ReadInList(f, q) /\ u = q - 1
            \/ IsMutable(f, q) /\ u = q + 1
        BY <1>2, <1>4, <1>5, <3>3, CopiesAre
      <4>2. CASE ReadInList(f, q) /\ u = q - 1
        <5>1. PICK read : read = Copied(f, q, vs)
          OBVIOUS
        <5>2. DOMAIN read = 1 .. Len(vs)
          BY <1>2, <1>5, <5>1, CopiedAre
        <5>3. ASSUME NEW k \in 1 .. Len(vs) PROVE h[read[k]].type # "mutable"
          BY <1>2, <1>5, <5>1, ReadTypes DEF IsMutable
        <5>4. h[u].args = read
          BY <2>2, <4>2, <5>1
        <5> QED  BY <2>4, <5>2, <5>3, <5>4 DEF Uses, IsMutable
      <4>3. CASE IsMutable(f, q) /\ u = q + 1
        BY <2>2, <2>4, <4>3 DEF Uses
      <4>4. CASE \E k \in 1 .. Len(vs) : IsMutable(f, vs[k]) /\ u = q - 4 + k
        BY <2>2, <4>4
      <4> QED  BY <4>1, <4>2, <4>3, <4>4
    <3> QED  BY <3>1, <3>2, <3>3
  <2> QED  BY <1>7, <2>1, <2>3, <2>4, CastsEndReplaced
<1> QED  BY <1>6, <1>7, <1>8, <1>9, <1>10, <1>11, NoNewInplace DEF Reduces

(***************************************************************************)
(* The passes, one after the other.                                        *)
(***************************************************************************)
\* The functions the passes are correct for: no list is appended to, no mutable view reads a
\* second tensor, no cast is used twice, and there is room for what is made of the ops.
IsSupported(f) ==
  ListsAreNotChanged(f) /\ MutableViewsReadOne(f) /\ CastsHaveOneUser(f) /\ HasRoomsToReduce(f)

\* The inductive invariant.
PipelineInv ==
  /\ IsFunction(source)
  /\ IsSupported(source) =>
       /\ status \in {"reducing", "rewriting", "done", "undefined", "refined"}
       /\ IsFunction(func) /\ Observed(source, func) = Observed(source, source)
       /\ status = "reducing" => Reduces(source, func)
       /\ status # "refined" => MutableViewsReadOne(func) /\ CastsEnd(func)
       /\ status = "refined" => \A k \in 1 .. Len(func[NumOps].args) : TypeAt(func, k) # "mutable"

LEMMA PipelineInvNext == PipelineInv /\ [PipelineNext]_vars => PipelineInv'
<1> SUFFICES ASSUME PipelineInv, [PipelineNext]_vars PROVE PipelineInv'
  OBVIOUS
<1>1. UNCHANGED source
  BY DEF PipelineNext, ReduceNext, Reduce, FinishReducing, Next, AbstractlyInterpret, RewriteViews,
         EraseDeadOp, Finish, RefinePublicReturn, vars
<1>2. IsFunction(source) /\ IsFunction(source')
  BY <1>1 DEF PipelineInv
<1>3. IsSupported(source') <=> IsSupported(source)
  BY <1>1
<1> SUFFICES ASSUME IsSupported(source)
             PROVE  /\ status' \in {"reducing", "rewriting", "done", "undefined", "refined"}
                    /\ IsFunction(func') /\ Observed(source, func') = Observed(source, source)
                    /\ status' = "reducing" => Reduces(source, func')
                    /\ status' # "refined" => MutableViewsReadOne(func') /\ CastsEnd(func')
                    /\ status' = "refined" => \A k \in 1 .. Len(func'[NumOps].args) : TypeAt(func', k) # "mutable"
  BY <1>1, <1>2, <1>3 DEF PipelineInv, IsFunction, Reduces, ListsAreNotChanged, MutableViewsReadOne, CastsEnd,
     NoCastIsWritten, HasRoomsToReduce, TypeAt
<1>4. /\ status \in {"reducing", "rewriting", "done", "undefined", "refined"}
      /\ IsFunction(func) /\ Observed(source, func) = Observed(source, source)
      /\ status = "reducing" => Reduces(source, func)
      /\ status # "refined" => MutableViewsReadOne(func) /\ CastsEnd(func)
      /\ status = "refined" => \A k \in 1 .. Len(func[NumOps].args) : TypeAt(func, k) # "mutable"
  BY DEF PipelineInv
<1>5. CASE FinishReducing
  BY <1>5, <1>4 DEF FinishReducing
<1>6. CASE \E o \in IllegalOps(func) : Reduce(o)
  <2>1. PICK o \in IllegalOps(func) : Reduce(o)
    BY <1>6
  <2>2. status = "reducing" /\ Reduces(source, func) /\ HasRoomsToReduce(source)
    BY <1>4, <2>1 DEF Reduce, IsSupported
  <2>3. Reduces(source, func') /\ UNCHANGED status
    <3>1. CASE func[o].kind = "inplace"
      BY <2>1, <3>1, <1>2, <2>2, InplaceReduces DEF Reduce
    <3>2. CASE func[o].kind # "inplace"
      BY <2>2, <3>2, <2>1, ConvertReduces DEF Reduce
    <3> QED  BY <3>1, <3>2
  <2>4. PICK h : h = func'
    OBVIOUS
  <2>5. /\ IsFunction(h) /\ Observed(source, h) = Observed(source, source)
        /\ MutableViewsReadOne(h) /\ CastsEnd(h)
    BY <2>3, <2>4 DEF Reduces
  <2> QED  BY <2>2, <2>3, <2>4, <2>5
<1>7. CASE Next
  <2>1. status = "rewriting"
    BY <1>7 DEF Next, AbstractlyInterpret, RewriteViews, EraseDeadOp, Finish
  <2>2. Inv
    BY <1>2, <1>4, <2>1 DEF Inv
  <2>3. Inv' /\ Preserves(func', func)
    BY <1>4, <1>7, <2>1, <2>2, StepKeepsTypes, StepPreserves
  <2>4. MutableViewsReadOne(func')
    BY <1>4, <2>1, <2>3 DEF Preserves
  <2>5. CastsEnd(func')
    BY <1>4, <2>1, <2>3, CastsStillEnd DEF Preserves
  <2>6. Observed(source, func') = Observed(source, source)
    BY <1>4, <2>3 DEF Preserves
  <2>7. status' \in {"rewriting", "done", "undefined"} /\ IsFunction(func')
    BY <2>3 DEF Inv, IsFunction
  <2>8. PICK h : h = func'
    OBVIOUS
  <2> QED  BY <2>4, <2>5, <2>6, <2>7, <2>8
<1>8. CASE RefinePublicReturn
  BY <1>8, <1>4, ValuesReturned DEF RefinePublicReturn
<1>9. CASE UNCHANGED vars
  BY <1>9, <1>4 DEF vars
<1> QED  BY <1>5, <1>6, <1>7, <1>8, <1>9 DEF PipelineNext, ReduceNext

\* The three passes together are correct: whatever torch-reduce-op-variants converts, whatever the
\* driver of torch-maximize-value-semantics does and whatever casts and copies
\* torch-refine-public-return looks through, the caller gets the contents it would have got, and no
\* mutable tensor.  A pattern has room for the ops it makes in every function of the model.
THEOREM ValuesAreReturnedInvisibly ==
  ASSUME \A f \in Functions : MutableViewsReadOne(f) /\ HasRoomsToReduce(f)
  PROVE  PipelineSpec => []PipelinePreservesResults
<1>1. StartReducing => PipelineInv /\ source \in Functions
  <2> SUFFICES ASSUME StartReducing PROVE PipelineInv
    BY DEF StartReducing
  <2>1. source \in Functions /\ func = source /\ status = "reducing"
    BY DEF StartReducing
  <2>2. IsFunction(source)
    BY <2>1, FunctionsAssumption DEF IsFunction
  <2>3. ASSUME IsSupported(source) PROVE Reduces(source, source)
    <3>1. CastsEnd(source)
      BY <2>3, OneUserEnds DEF IsSupported
    <3>2. NoCastIsWritten(source)
      <4> SUFFICES ASSUME NEW o \in Op, source[o].kind = "inplace", NEW v, v = source[o].args[1],
                          source[v].kind = "cast"
                   PROVE  FALSE
        BY DEF NoCastIsWritten
      <4>1. v \in Op /\ Uses(source, o, v)
        <5>1. source \in [Op -> OpIR] /\ OpOK(source, o)
          BY <2>2, FunctionIff DEF IsFunction
        <5>2. 1 \in 1 .. Len(source[o].args)
          BY <5>1, OperandsAre DEF OpOK
        <5>3. 1 \in DOMAIN source[o].args /\ source[o].args[1] \in Op
          BY <5>1, <5>2, OperandsAre
        <5> QED  BY <5>3 DEF Uses
      <4>2. o \in Users(source, v)
        BY <4>1 DEF Users
      <4> QED  BY <2>3, <4>1, <4>2 DEF IsSupported, CastsHaveOneUser
    <3> QED  BY <2>2, <2>3, <3>1, <3>2 DEF Reduces, IsSupported
  <2> QED  BY <2>1, <2>2, <2>3 DEF PipelineInv, Reduces
<1>2. PipelineInv /\ source \in Functions => PipelinePreservesResults
  <2> SUFFICES ASSUME PipelineInv, source \in Functions, ListsAreNotChanged(source), CastsHaveOneUser(source)
               PROVE  /\ WellTyped(func)
                      /\ Observed(source, func) = Observed(source, source)
                      /\ status = "refined" =>
                           \A k \in DOMAIN ResultTypes(func) : ResultTypes(func)[k] # "mutable"
    BY DEF PipelinePreservesResults
  <2>1. IsSupported(source)
    BY DEF IsSupported
  <2>2. IsFunction(func) /\ Observed(source, func) = Observed(source, source)
    BY <2>1 DEF PipelineInv
  <2>3. DOMAIN func[NumOps].args = 1 .. Len(func[NumOps].args)
    BY <2>2, FunctionsAssumption, OperandsAre DEF Op, IsFunction
  <2> QED  BY <2>1, <2>2, <2>3 DEF PipelineInv, IsFunction, ResultTypes, TypeAt
<1>3. source \in Functions /\ [PipelineNext]_vars => (source \in Functions)'
  BY DEF PipelineNext, ReduceNext, Reduce, FinishReducing, Next, AbstractlyInterpret, RewriteViews,
         EraseDeadOp, Finish, RefinePublicReturn, vars
<1> QED  BY <1>1, <1>2, <1>3, PipelineInvNext, PTL DEF PipelineSpec
=============================================================================
