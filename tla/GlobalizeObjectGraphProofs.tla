---------------------- MODULE GlobalizeObjectGraphProofs ----------------------
(***************************************************************************)
(* Proofs about GlobalizeObjectGraph, for all programs.  Monomorphization: *)
(* the tracker ends with the least set of monomorphizations that contains  *)
(* the seeds and is closed under calls.  Traversal: names are access       *)
(* paths, a module with several paths is rejected, and the module that     *)
(* results is well-formed.                                                 *)
(***************************************************************************)
EXTENDS GlobalizeObjectGraph, FiniteSetTheorems, WellFoundedInduction, TLAPS

Tracking == {"monomorphize", "clone", "done"}

\* What has been looked at has its calls recorded, and nothing is recorded that
\* a closed set could do without.
TrackerInv ==
  /\ phase \in Tracking =>
       /\ Seeds(program) \subseteq monos
       /\ \A m \in monos \ dirty : CallsOf(program, m) \subseteq monos
       /\ dirty \subseteq monos
       /\ \A M : ClosedUnderCalls(program, M) => monos \subseteq M
  /\ phase \in {"clone", "done"} => dirty = {}

LEMMA InitTracker == Init => TrackerInv
  BY DEF Init, TrackerInv, Tracking

LEMMA TrackCallsKeeps ==
  ASSUME TrackerInv, NEW m \in dirty, TrackCalls(m)
  PROVE  TrackerInv'
<1>1. /\ phase = "monomorphize" /\ phase' = phase /\ program' = program
      /\ monos' = monos \cup CallsOf(program, m)
      /\ dirty' = (dirty \ {m}) \cup (CallsOf(program, m) \ monos)
  BY DEF TrackCalls
<1>2. /\ Seeds(program) \subseteq monos
      /\ \A n \in monos \ dirty : CallsOf(program, n) \subseteq monos
      /\ dirty \subseteq monos
      /\ \A M : ClosedUnderCalls(program, M) => monos \subseteq M
  BY <1>1 DEF TrackerInv, Tracking
<1>3. Seeds(program)' \subseteq monos'
  BY <1>1, <1>2 DEF Seeds, CanTriviallyMonomorphize, InstancesOf
<1>4. ASSUME NEW n \in monos' \ dirty'
      PROVE  CallsOf(program, n) \subseteq monos'
  <2>1. n = m \/ n \in monos \ dirty
    BY <1>1, <1>4
  <2> QED
    BY <2>1, <1>1, <1>2
<1>5. ASSUME NEW M, ClosedUnderCalls(program, M)
      PROVE  monos' \subseteq M
  <2>1. m \in M
    BY <1>2, <1>5
  <2>2. CallsOf(program, m) \subseteq M
    BY <2>1, <1>5 DEF ClosedUnderCalls
  <2> QED
    BY <2>2, <1>1, <1>2, <1>5
<1> QED
  BY <1>1, <1>2, <1>3, <1>4, <1>5 DEF TrackerInv, Tracking

LEMMA StartTrackerEstablishes ==
  ASSUME TrackerInv, StartTracker
  PROVE  TrackerInv'
<1>1. CASE ConformsToSubset(program)
  <2>1. /\ phase' = "monomorphize" /\ program' = program
        /\ monos' = Seeds(program) /\ dirty' = Seeds(program)
    BY <1>1 DEF StartTracker
  <2>2. \A M : ClosedUnderCalls(program, M) => Seeds(program) \subseteq M
    BY DEF ClosedUnderCalls
  <2> QED
    BY <2>1, <2>2 DEF TrackerInv, Tracking
<1>2. CASE ~ ConformsToSubset(program)
  BY <1>2 DEF StartTracker, TrackerInv, Tracking
<1> QED
  BY <1>1, <1>2

LEMMA NextTracker == TrackerInv /\ [Next]_vars => TrackerInv'
<1> SUFFICES ASSUME TrackerInv, [Next]_vars PROVE TrackerInv'
  OBVIOUS
<1>1. CASE FindRoot
  <2>1. phase' \in {"traverse", "failed"}
    BY <1>1 DEF FindRoot
  <2> QED
    BY <2>1 DEF TrackerInv, Tracking
<1>2. ASSUME NEW i \in Instance, NEW a \in Attr, EnterModule(i, a)
      PROVE  TrackerInv'
  <2>1. phase' \in {"traverse", "failed"}
    BY <1>2 DEF EnterModule, AtAttr
  <2> QED
    BY <2>1 DEF TrackerInv, Tracking
<1>3. ASSUME NEW i \in Instance, NEW a \in Attr, VisitSlot(i, a)
      PROVE  TrackerInv'
  <2>1. phase' = "traverse"
    BY <1>3 DEF VisitSlot, AtAttr
  <2> QED
    BY <2>1 DEF TrackerInv, Tracking
<1>4. ASSUME NEW i \in Instance, LeaveModule(i)
      PROVE  TrackerInv'
  <2>1. phase' = "traverse"
    BY <1>4 DEF LeaveModule
  <2> QED
    BY <2>1 DEF TrackerInv, Tracking
<1>5. CASE StartTracker
  BY <1>5, StartTrackerEstablishes
<1>6. ASSUME NEW m \in dirty, TrackCalls(m)
      PROVE  TrackerInv'
  BY <1>6, TrackCallsKeeps
<1>7. CASE VerifyPublic
  <2>1. /\ phase = "monomorphize" /\ dirty = {} /\ UNCHANGED <<program, tracker>>
        /\ phase' \in {"clone", "failed"}
    BY <1>7 DEF VerifyPublic
  <2> QED
    BY <2>1 DEF TrackerInv, Tracking, tracker
<1>8. CASE CloneFunctions
  <2>1. phase = "clone" /\ phase' = "done" /\ UNCHANGED <<program, tracker>>
    BY <1>8 DEF CloneFunctions
  <2> QED
    BY <2>1 DEF TrackerInv, Tracking, tracker
<1>9. CASE UNCHANGED vars
  BY <1>9 DEF vars, tracker, TrackerInv
<1> QED
  BY <1>1, <1>2, <1>3, <1>4, <1>5, <1>6, <1>7, <1>8, <1>9 DEF Next

\* The bookkeeping of the worklist of monomorphizations holds in every state.
THEOREM TrackerCorrect == Spec => []TrackerInv
<1> QED
  BY InitTracker, NextTracker, PTL DEF Spec

\* When the tracker has finished, in every order of the worklist: the calls of
\* every clone resolve, and nothing was found but what every set that has the
\* seeds and is closed under calls contains.
THEOREM LeastClosure == Spec => []TrackedAreLeast
<1>1. TrackerInv => TrackedAreLeast
  <2> SUFFICES ASSUME TrackerInv, phase \in {"clone", "done"}
               PROVE  /\ ClosedUnderCalls(program, monos)
                      /\ \A M \in SUBSET monos :
                           ClosedUnderCalls(program, M) => M = monos
    BY DEF TrackedAreLeast
  <2>1. ClosedUnderCalls(program, monos)
    BY DEF TrackerInv, Tracking, ClosedUnderCalls
  <2>2. ASSUME NEW M \in SUBSET monos, ClosedUnderCalls(program, M)
        PROVE  M = monos
    <3>1. monos \subseteq M
      BY <2>2 DEF TrackerInv, Tracking
    <3> QED
      BY <3>1
  <2> QED
    BY <2>1, <2>2
<1> QED
  BY <1>1, TrackerCorrect, PTL

-----------------------------------------------------------------------------
(***************************************************************************)
(* Walks along attributes.                                                 *)
(***************************************************************************)
\* What holds for 0 and for the successor of every number for which it holds,
\* holds for all: a set that is not Nat misses a least number.
LEMMA SetInduction ==
  ASSUME NEW S, 0 \in S, \A n \in Nat : n \in S => n + 1 \in S
  PROVE  Nat \subseteq S
<1> DEFINE R == OpToRel(<, Nat)
           T == Nat \ S
<1>1. SUFFICES ASSUME T # {} PROVE FALSE
  OBVIOUS
<1>2. IsWellFoundedOn(R, Nat)
  BY NatLessThanWellFounded
<1>3. PICK x \in T : \A y \in T : ~ (<<y, x>> \in R)
  <2> HIDE DEF R
  <2> QED BY <1>1, <1>2, WFMin
<1>4. x \in Nat \ {0}
  OBVIOUS
<1>5. x - 1 \in Nat /\ x - 1 < x
  BY <1>4
<1>6. <<x - 1, x>> \in R
  BY <1>4, <1>5 DEF OpToRel
<1>7. x - 1 \in S
  BY <1>3, <1>5, <1>6
<1> QED BY <1>4, <1>5, <1>7

\* f gives what is reached after every step.
IsWalk(g, x, attrs, L, f) ==
  f = [n \in 0 .. L |-> IF n = 0 THEN x ELSE g[<<f[n - 1], attrs[n]>>]]

LEMMA WalkExists ==
  ASSUME NEW g, NEW x, NEW attrs, NEW L \in Nat
  PROVE  \E f : IsWalk(g, x, attrs, L, f)
<1> DEFINE S == {n \in Nat : \E f : IsWalk(g, x, attrs, n, f)}
<1>1. 0 \in S
  <2> DEFINE f == [n \in 0 .. 0 |-> x]
  <2>1. \A n \in 0 .. 0 : n = 0
    OBVIOUS
  <2>2. f = [n \in 0 .. 0 |-> IF n = 0 THEN x ELSE g[<<f[n - 1], attrs[n]>>]]
    BY <2>1
  <2>3. IsWalk(g, x, attrs, 0, f)
    BY <2>2 DEF IsWalk
  <2> HIDE DEF f
  <2> QED BY <2>3
<1>2. ASSUME NEW n \in Nat, n \in S
      PROVE  n + 1 \in S
  <2>1. PICK f : IsWalk(g, x, attrs, n, f)
    BY <1>2
  <2> DEFINE h == [k \in 0 .. (n + 1) |-> IF k = n + 1 THEN g[<<f[n], attrs[n + 1]>>] ELSE f[k]]
  <2>2. \A k \in 0 .. n : f[k] = IF k = 0 THEN x ELSE g[<<f[k - 1], attrs[k]>>]
    BY <2>1 DEF IsWalk
  <2>3. \A k \in 0 .. n : h[k] = f[k]
    OBVIOUS
  <2>4. h[n + 1] = g[<<f[n], attrs[n + 1]>>]
    OBVIOUS
  <2>5. ASSUME NEW k \in 0 .. (n + 1)
        PROVE  h[k] = IF k = 0 THEN x ELSE g[<<h[k - 1], attrs[k]>>]
    <3>0. n \in 0 .. n /\ (n + 1) - 1 = n /\ n + 1 # 0
      OBVIOUS
    <3> HIDE DEF h
    <3>1. CASE k = n + 1
      <4>1. h[k - 1] = f[n]
        BY <3>0, <3>1, <2>3
      <4> QED BY <3>0, <3>1, <4>1, <2>4
    <3>2. CASE k \in 0 .. n /\ k # 0
      <4>1. k - 1 \in 0 .. n
        BY <3>2
      <4> QED BY <3>2, <4>1, <2>2, <2>3
    <3>3. CASE k = 0
      <4>1. 0 \in 0 .. n
        OBVIOUS
      <4> QED BY <3>3, <4>1, <2>2, <2>3
    <3> QED BY <3>1, <3>2, <3>3
  <2>6. DOMAIN h = 0 .. (n + 1) /\ h = [k \in DOMAIN h |-> h[k]]
    OBVIOUS
  <2> HIDE DEF h
  <2>7. h = [k \in 0 .. (n + 1) |-> IF k = 0 THEN x ELSE g[<<h[k - 1], attrs[k]>>]]
    BY <2>5, <2>6
  <2>8. IsWalk(g, x, attrs, n + 1, h)
    BY <2>7 DEF IsWalk
  <2> QED BY <2>8
<1> HIDE DEF S
<1>3. Nat \subseteq S
  BY <1>1, <1>2, SetInduction
<1> QED BY <1>3 DEF S

LEMMA WalkIs ==
  ASSUME NEW g, NEW x, NEW attrs, Len(attrs) \in Nat
  PROVE  \E f : IsWalk(g, x, attrs, Len(attrs), f) /\ Walk(g, x, attrs) = f[Len(attrs)]
<1> DEFINE at == CHOOSE f : IsWalk(g, x, attrs, Len(attrs), f)
<1>1. IsWalk(g, x, attrs, Len(attrs), at)
  BY WalkExists
<1>2. Walk(g, x, attrs) = at[Len(attrs)]
  BY DEF Walk, IsWalk
<1> QED BY <1>1, <1>2

\* Two walks of the same attributes are at the same place after every step.
LEMMA WalksAgree ==
  ASSUME NEW g, NEW x, NEW s, NEW t, NEW K \in Nat, NEW L \in Nat, L <= K,
         \A n \in 1 .. L : s[n] = t[n],
         NEW f, IsWalk(g, x, s, K, f), NEW h, IsWalk(g, x, t, L, h)
  PROVE  \A n \in 0 .. L : f[n] = h[n]
<1> DEFINE S == {n \in Nat : n <= L => f[n] = h[n]}
<1>1. /\ \A n \in 0 .. K : f[n] = IF n = 0 THEN x ELSE g[<<f[n - 1], s[n]>>]
      /\ \A n \in 0 .. L : h[n] = IF n = 0 THEN x ELSE g[<<h[n - 1], t[n]>>]
  BY DEF IsWalk
<1>2. 0 \in S
  <2>1. 0 \in 0 .. K /\ 0 \in 0 .. L
    OBVIOUS
  <2>2. f[0] = x /\ h[0] = x
    BY <1>1, <2>1
  <2> QED BY <2>2
<1>3. ASSUME NEW n \in Nat, n \in S
      PROVE  n + 1 \in S
  <2>1. SUFFICES ASSUME n + 1 <= L PROVE f[n + 1] = h[n + 1]
    OBVIOUS
  <2>2. f[n] = h[n] /\ s[n + 1] = t[n + 1]
    BY <1>3, <2>1
  <2>3. n + 1 \in 0 .. K /\ n + 1 \in 0 .. L /\ n + 1 # 0 /\ (n + 1) - 1 = n
    BY <2>1
  <2>4. f[n + 1] = g[<<f[n], s[n + 1]>>] /\ h[n + 1] = g[<<h[n], t[n + 1]>>]
    BY <1>1, <2>3
  <2> QED BY <2>2, <2>4
<1> HIDE DEF S
<1>4. Nat \subseteq S
  BY <1>2, <1>3, SetInduction
<1> QED BY <1>4 DEF S

LEMMA WalkEmpty ==
  ASSUME NEW g, NEW x
  PROVE  Walk(g, x, <<>>) = x
<1>1. Len(<<>>) = 0
  OBVIOUS
<1>2. PICK f : IsWalk(g, x, <<>>, 0, f) /\ Walk(g, x, <<>>) = f[0]
  BY <1>1, WalkIs
<1> QED BY <1>2 DEF IsWalk

LEMMA WalkAppend ==
  ASSUME NEW g, NEW x, NEW M, NEW s \in Seq(M), NEW a \in M
  PROVE  Walk(g, x, Append(s, a)) = g[<<Walk(g, x, s), a>>]
<1> DEFINE t == Append(s, a)
           L == Len(s)
<1>1. L \in Nat /\ Len(t) = L + 1 /\ t[L + 1] = a /\ \A n \in 1 .. L : t[n] = s[n]
  OBVIOUS
<1> HIDE DEF t, L
<1>2. PICK f : IsWalk(g, x, t, L + 1, f) /\ Walk(g, x, t) = f[L + 1]
  <2>1. Len(t) \in Nat
    BY <1>1
  <2>2. PICK f : IsWalk(g, x, t, Len(t), f) /\ Walk(g, x, t) = f[Len(t)]
    BY <2>1, WalkIs
  <2> QED BY <1>1, <2>2
<1>3. PICK h : IsWalk(g, x, s, L, h) /\ Walk(g, x, s) = h[L]
  BY <1>1, WalkIs DEF L
<1>4. f[L] = h[L]
  <2>1. L + 1 \in Nat /\ L <= L + 1 /\ L \in 0 .. L
    BY <1>1
  <2>2. \A n \in 0 .. L : f[n] = h[n]
    BY <1>1, <1>2, <1>3, <2>1, WalksAgree
  <2> QED BY <2>1, <2>2
<1>5. f[L + 1] = g[<<f[L], t[L + 1]>>]
  <2>1. L + 1 \in 0 .. (L + 1) /\ L + 1 # 0 /\ (L + 1) - 1 = L
    BY <1>1
  <2> QED BY <1>2, <2>1 DEF IsWalk
<1> QED BY <1>1, <1>2, <1>3, <1>4, <1>5 DEF t, L

(***************************************************************************)
(* Facts about programs.                                                   *)
(***************************************************************************)
LEMMA ProgramType ==
  ASSUME NEW p \in Programs
  PROVE  /\ p.class \in [Instance -> Class]
         /\ p.attrs \in [Class -> Seq(Attr)]
         /\ p.child \in [Instance \X ModuleAttr -> Instance]
         /\ p.attrClass \in [Class \X ModuleAttr -> Class]
         /\ p.params \in [Func -> Seq(Class)]
         /\ p.body \in [Func -> SUBSET OpIR]
         /\ p.methods \in [Class -> SUBSET Func]
BY ProgramsAssumption DEF ProgramIR

\* A number that is the size of the set of roots is that of a set of one.
LEMMA OneRoot ==
  ASSUME NEW p, Cardinality(Roots(p)) = 1
  PROVE  \E r \in Instance : Roots(p) = {r}
<1>1. Roots(p) \in SUBSET Instance
  BY DEF Roots
<1>2. IsFiniteSet(Roots(p))
  BY <1>1, ProgramsAssumption, FS_Subset
<1> QED BY <1>1, <1>2, FS_Singleton

LEMMA OneInstance ==
  ASSUME NEW p, NEW c, Cardinality(InstancesOf(p, c)) = 1
  PROVE  \E i \in Instance : p.class[i] = c
<1>1. InstancesOf(p, c) \in SUBSET Instance
  BY DEF InstancesOf
<1>2. IsFiniteSet(InstancesOf(p, c))
  BY <1>1, ProgramsAssumption, FS_Subset
<1>3. \E x : InstancesOf(p, c) = {x}
  BY <1>2, FS_Singleton
<1> QED BY <1>3 DEF InstancesOf

LEMMA AttrsOfType ==
  ASSUME NEW p \in Programs, NEW i \in Instance
  PROVE  AttrsOf(p, i) \in Seq(Attr) /\ DOMAIN AttrsOf(p, i) = 1 .. Len(AttrsOf(p, i))
BY ProgramType DEF AttrsOf

LEMMA FollowAppend ==
  ASSUME NEW p, NEW i, NEW s \in Seq(ModuleAttr), NEW a \in ModuleAttr
  PROVE  Follow(p, i, Append(s, a)) = p.child[<<Follow(p, i, s), a>>]
BY WalkAppend DEF Follow

LEMMA FollowClassAppend ==
  ASSUME NEW p, NEW c, NEW s \in Seq(ModuleAttr), NEW a \in ModuleAttr
  PROVE  FollowClass(p, c, Append(s, a)) = p.attrClass[<<FollowClass(p, c, s), a>>]
BY WalkAppend DEF FollowClass

\* Following a path that its class declares leads to an instance of the class
\* that the declarations lead to.
LEMMA FollowIsTyped ==
  ASSUME NEW p \in Programs, NEW i \in Instance, NEW attrs \in Seq(ModuleAttr),
         \A k \in DOMAIN attrs :
           HasAttr(p, FollowClass(p, p.class[i], SubSeq(attrs, 1, k - 1)), attrs[k])
  PROVE  /\ Follow(p, i, attrs) \in Instance
         /\ p.class[Follow(p, i, attrs)] = FollowClass(p, p.class[i], attrs)
<1> DEFINE path(k) == SubSeq(attrs, 1, k)
           Typed(k) == /\ Follow(p, i, path(k)) \in Instance
                       /\ p.class[Follow(p, i, path(k))] = FollowClass(p, p.class[i], path(k))
           S == {k \in Nat : k <= Len(attrs) => Typed(k)}
<1>1. 0 \in S
  <2>1. path(0) = <<>>
    OBVIOUS
  <2> QED BY <2>1, WalkEmpty DEF Follow, FollowClass
<1>2. ASSUME NEW k \in Nat, k \in S
      PROVE  k + 1 \in S
  <2>1. SUFFICES ASSUME k + 1 <= Len(attrs) PROVE Typed(k + 1)
    OBVIOUS
  <2> DEFINE j == Follow(p, i, path(k))
             a == attrs[k + 1]
  <2>2. Typed(k)
    BY <1>2, <2>1
  <2>3. path(k) \in Seq(ModuleAttr) /\ a \in ModuleAttr /\ path(k + 1) = Append(path(k), a)
    BY <2>1
  <2> HIDE DEF path
  <2>4. Follow(p, i, path(k + 1)) = p.child[<<j, a>>]
    <3> HIDE DEF a
    <3>1. Follow(p, i, Append(path(k), a)) = p.child[<<Follow(p, i, path(k)), a>>]
      BY <2>3, FollowAppend
    <3> QED BY <2>3, <3>1
  <2>5. FollowClass(p, p.class[i], path(k + 1)) = p.attrClass[<<p.class[j], a>>]
    <3> HIDE DEF a
    <3>1. FollowClass(p, p.class[i], Append(path(k), a))
            = p.attrClass[<<FollowClass(p, p.class[i], path(k)), a>>]
      BY <2>3, FollowClassAppend
    <3> QED BY <2>2, <2>3, <3>1
  <2>6. HasAttr(p, p.class[j], a)
    <3>1. k + 1 \in DOMAIN attrs /\ (k + 1) - 1 = k
      BY <2>1
    <3> QED BY <2>2, <3>1 DEF path
  <2>7. j \in Instance /\ a \in ModuleAttrsOf(p, j)
    BY <2>2, <2>3, <2>6 DEF ModuleAttrsOf, HasAttr, AttrsOf
  <2>8. p.class[p.child[<<j, a>>]] = p.attrClass[<<p.class[j], a>>]
    BY <2>7, ProgramsAreVerified DEF IsTypedGraph
  <2>9. p.child[<<j, a>>] \in Instance
    BY <2>3, <2>7, ProgramType
  <2> QED BY <2>4, <2>5, <2>8, <2>9
<1> HIDE DEF S
<1>3. Nat \subseteq S
  BY <1>1, <1>2, SetInduction
<1>4. Typed(Len(attrs)) /\ path(Len(attrs)) = attrs
  BY <1>3 DEF S
<1> QED BY <1>4

(***************************************************************************)
(* The traversal: every name is the path on which its owner was found.     *)
(***************************************************************************)
Frame == [instance : Instance, next : Nat \ {0}]

LeadsTo(p, path, i) ==
  path \in Seq(ModuleAttr) /\ \A root \in Roots(p) : Follow(p, root, path) = i

\* A name of x[2], which belongs to instance x[1].
IsPathOf(p, x) ==
  /\ x[1] \in Instance
  /\ \E path : LeadsTo(p, path, x[1]) /\ x[3] = Append(path, x[2])

TraversalTypes ==
  /\ program \in Programs
  /\ phase \in {"start", "traverse", "monomorphize", "clone", "done", "failed"}
  /\ nameStack \in Seq(ModuleAttr)
  /\ frames \in Seq(Frame)
  /\ phase = "start" => nameStack = <<>>

\* The activations are those of the modules on the way from the root, which
\* the name stack says.
StackMatches ==
  phase = "traverse" /\ frames # <<>> =>
    /\ Len(frames) = Len(nameStack) + 1
    /\ \A k \in 1 .. Len(frames) :
         <<frames[k].instance, SubSeq(nameStack, 1, k - 1)>> \in seen

PathsAreRight ==
  /\ \A s \in seen : s = <<s[1], s[2]>> /\ s[1] \in Instance /\ LeadsTo(program, s[2], s[1])
  /\ \A g \in globalSlots : /\ g = <<g[1], g[2], g[3]>>
                            /\ g[2] \in Attr /\ IsPathOf(program, g)
  /\ \A l \in linkage : /\ l[2] \in program.methods[program.class[l[1]]]
                        /\ IsPathOf(program, l)

TraverseInv == TraversalTypes /\ StackMatches /\ PathsAreRight

LEMMA TopIsFrame ==
  ASSUME frames \in Seq(Frame), frames # <<>>
  PROVE  Len(frames) \in Nat \ {0} /\ Top \in Frame /\ Top = frames[Len(frames)]
BY DEF Top

LEMMA NextAttrFrames ==
  ASSUME frames \in Seq(Frame), frames # <<>>
  PROVE  /\ NextAttr \in Seq(Frame)
         /\ Len(NextAttr) = Len(frames)
         /\ \A k \in 1 .. Len(frames) :
              /\ NextAttr[k].instance = frames[k].instance
              /\ NextAttr[k].next = IF k = Len(frames) THEN frames[k].next + 1 ELSE frames[k].next
<1>1. Len(frames) \in Nat \ {0} /\ DOMAIN frames = 1 .. Len(frames)
  OBVIOUS
<1>2. \A k \in 1 .. Len(frames) : frames[k] \in Frame
  OBVIOUS
<1>3. \A k \in 1 .. Len(frames) :
        NextAttr[k] = IF k = Len(frames) THEN [frames[k] EXCEPT !.next = @ + 1] ELSE frames[k]
  BY <1>1 DEF NextAttr
<1>4. \A k \in 1 .. Len(frames) :
        /\ NextAttr[k] \in Frame
        /\ NextAttr[k].instance = frames[k].instance
        /\ NextAttr[k].next = IF k = Len(frames) THEN frames[k].next + 1 ELSE frames[k].next
  <2> TAKE k \in 1 .. Len(frames)
  <2>1. PICK fr \in Frame : fr = frames[k]
    BY <1>2
  <2>2. fr.next + 1 \in Nat \ {0}
    BY DEF Frame
  <2>3. [fr EXCEPT !.next = @ + 1] = [instance |-> fr.instance, next |-> fr.next + 1]
    BY DEF Frame
  <2>4. [instance |-> fr.instance, next |-> fr.next + 1] \in Frame
    BY <2>2 DEF Frame
  <2>5. CASE k = Len(frames)
    <3>1. NextAttr[k] = [instance |-> fr.instance, next |-> fr.next + 1]
      BY <1>3, <2>1, <2>3, <2>5
    <3> QED BY <2>1, <2>4, <2>5, <3>1
  <2>6. CASE k # Len(frames)
    BY <1>3, <2>1, <2>6
  <2> QED BY <2>5, <2>6
<1>5. NextAttr = [k \in 1 .. Len(frames) |-> NextAttr[k]]
  BY <1>1 DEF NextAttr
<1>6. NextAttr \in [1 .. Len(frames) -> Frame]
  BY <1>4, <1>5
<1>7. NextAttr \in Seq(Frame) /\ Len(NextAttr) = Len(frames)
  <2>1. PICK n \in Nat : n = Len(frames)
    BY <1>1
  <2>2. PICK s : s = NextAttr
    OBVIOUS
  <2>3. s \in [1 .. n -> Frame]
    BY <1>6, <2>1, <2>2
  <2>4. s \in Seq(Frame) /\ Len(s) = n
    BY <2>3
  <2> QED BY <2>1, <2>2, <2>4
<1> QED BY <1>4, <1>7

LEMMA InitTraverse == Init => TraverseInv
<1> SUFFICES ASSUME Init PROVE TraverseInv
  OBVIOUS
<1>1. TraversalTypes
  BY DEF Init, TraversalTypes
<1>2. StackMatches
  BY DEF Init, StackMatches
<1>3. PathsAreRight
  BY DEF Init, PathsAreRight
<1> QED BY <1>1, <1>2, <1>3 DEF TraverseInv

LEMMA FindRootTraverse ==
  ASSUME TraverseInv, FindRoot
  PROVE  TraverseInv'
<1>1. CASE Cardinality(Roots(program)) # 1
  BY <1>1 DEF FindRoot, TraverseInv, TraversalTypes, StackMatches, PathsAreRight
<1>2. CASE Cardinality(Roots(program)) = 1
  <2>1. PICK root \in Roots(program) :
          frames' = <<[instance |-> root, next |-> 1]>> /\ seen' = {<<root, <<>>>>}
    BY <1>2 DEF FindRoot
  <2>2. /\ program' = program /\ phase' = "traverse" /\ nameStack' = nameStack
        /\ globalSlots' = globalSlots /\ linkage' = linkage
    BY <1>2 DEF FindRoot
  <2>3. nameStack = <<>> /\ Roots(program) = {root} /\ root \in Instance
    <3>1. nameStack = <<>>
      BY DEF FindRoot, TraverseInv, TraversalTypes
    <3> QED BY <1>2, <3>1, OneRoot
  <2>4. [instance |-> root, next |-> 1] \in Frame
    BY <2>3 DEF Frame
  <2>5. TraversalTypes'
    BY <2>1, <2>2, <2>3, <2>4 DEF TraverseInv, TraversalTypes
  <2>6. StackMatches'
    <3>1. Len(frames') = 1 /\ frames'[1].instance = root /\ SubSeq(<<>>, 1, 0) = <<>>
      BY <2>1
    <3> QED BY <2>1, <2>2, <2>3, <3>1 DEF StackMatches
  <2>7. LeadsTo(program, <<>>, root)
    BY <2>3, WalkEmpty DEF LeadsTo, Follow
  <2>8. PathsAreRight'
    BY <2>1, <2>2, <2>3, <2>7 DEF TraverseInv, PathsAreRight
  <2> QED BY <2>5, <2>6, <2>8 DEF TraverseInv
<1> QED BY <1>1, <1>2

\* The activation at the top is where the name stack leads to.
LEMMA TopIsAtStack ==
  ASSUME TraverseInv, phase = "traverse", frames # <<>>
  PROVE  /\ Top.instance \in Instance
         /\ LeadsTo(program, nameStack, Top.instance)
         /\ <<Top.instance, nameStack>> \in seen
         /\ Len(frames) = Len(nameStack) + 1
<1>1. frames \in Seq(Frame) /\ nameStack \in Seq(ModuleAttr) /\ Len(frames) = Len(nameStack) + 1
  BY DEF TraverseInv, TraversalTypes, StackMatches
<1>2. Len(frames) \in 1 .. Len(frames)
  BY <1>1, TopIsFrame
<1>3. SubSeq(nameStack, 1, Len(frames) - 1) = nameStack
  BY <1>1
<1>4. <<Top.instance, nameStack>> \in seen
  BY <1>1, <1>2, <1>3 DEF TraverseInv, StackMatches, Top
<1> QED BY <1>1, <1>4 DEF TraverseInv, PathsAreRight

\* A step further along an attribute.
LEMMA LeadsToChild ==
  ASSUME NEW p \in Programs, NEW path, NEW i \in Instance, LeadsTo(p, path, i), NEW a \in ModuleAttr
  PROVE  LeadsTo(p, Append(path, a), p.child[<<i, a>>])
BY FollowAppend DEF LeadsTo

LEMMA EnterModuleTraverse ==
  ASSUME TraverseInv, NEW i \in Instance, NEW a \in Attr, EnterModule(i, a)
  PROVE  TraverseInv'
<1> DEFINE j == program.child[<<i, a>>]
<1>1. /\ phase = "traverse" /\ frames # <<>> /\ Top.instance = i /\ a \in ModuleAttr
      /\ program' = program /\ nameStack' = Append(nameStack, a)
      /\ globalSlots' = globalSlots /\ linkage' = linkage
  BY DEF EnterModule, AtAttr
<1>2. /\ program \in Programs /\ nameStack \in Seq(ModuleAttr) /\ frames \in Seq(Frame)
  BY DEF TraverseInv, TraversalTypes
<1>3. nameStack' \in Seq(ModuleAttr)
  BY <1>1, <1>2
<1>4. CASE \E s \in seen : s[1] = j
  <2>1. phase' = "failed" /\ frames' = frames /\ seen' = seen
    BY <1>4 DEF EnterModule
  <2> QED BY <1>1, <1>2, <1>3, <2>1 DEF TraverseInv, TraversalTypes, StackMatches, PathsAreRight
<1>5. CASE ~ \E s \in seen : s[1] = j
  <2>1. /\ phase' = "traverse"
        /\ frames' = Append(NextAttr, [instance |-> j, next |-> 1])
        /\ seen' = seen \cup {<<j, Append(nameStack, a)>>}
    BY <1>1, <1>5 DEF EnterModule
  <2>2. j \in Instance /\ [instance |-> j, next |-> 1] \in Frame
    BY <1>1, <1>2, ProgramType DEF Frame
  <2>3. /\ NextAttr \in Seq(Frame) /\ Len(NextAttr) = Len(frames) /\ Len(frames) \in Nat
        /\ \A k \in 1 .. Len(frames) : NextAttr[k].instance = frames[k].instance
    BY <1>1, <1>2, NextAttrFrames
  <2> HIDE DEF j
  <2>4. TraversalTypes'
    BY <1>1, <1>2, <1>3, <2>1, <2>2, <2>3 DEF TraversalTypes
  <2>5. StackMatches'
    <3>1. Len(frames) = Len(nameStack) + 1 /\ Len(nameStack) \in Nat
      BY <1>1, <1>2, TopIsAtStack
    <3>2. Len(frames') = Len(frames) + 1 /\ Len(nameStack') = Len(nameStack) + 1
      BY <1>1, <1>2, <2>1, <2>2, <2>3
    <3>3. ASSUME NEW k \in 1 .. Len(frames')
          PROVE  <<frames'[k].instance, SubSeq(nameStack', 1, k - 1)>> \in seen'
      <4>1. CASE k = Len(frames')
        <5>1. frames'[k] = [instance |-> j, next |-> 1]
          BY <2>1, <2>2, <2>3, <3>2, <4>1
        <5>2. k - 1 = Len(nameStack') /\ SubSeq(nameStack', 1, k - 1) = nameStack'
          BY <1>3, <3>1, <3>2, <4>1
        <5> QED BY <1>1, <2>1, <5>1, <5>2
      <4>2. CASE k \in 1 .. Len(frames)
        <5>1. frames'[k] = NextAttr[k]
          BY <2>1, <2>2, <2>3, <4>2
        <5>2. SubSeq(nameStack', 1, k - 1) = SubSeq(nameStack, 1, k - 1)
          BY <1>1, <1>2, <3>1, <4>2
        <5>3. <<frames[k].instance, SubSeq(nameStack, 1, k - 1)>> \in seen
          BY <1>1, <4>2 DEF TraverseInv, StackMatches
        <5> QED BY <2>1, <2>3, <4>2, <5>1, <5>2, <5>3
      <4> QED BY <2>3, <3>2, <4>1, <4>2
    <3> QED BY <3>1, <3>2, <3>3 DEF StackMatches
  <2>6. LeadsTo(program, Append(nameStack, a), j)
    BY <1>1, <1>2, TopIsAtStack, LeadsToChild DEF j
  <2>7. ASSUME NEW s \in seen'
        PROVE  s = <<s[1], s[2]>> /\ s[1] \in Instance /\ LeadsTo(program, s[2], s[1])
    <3>1. CASE s \in seen
      BY <3>1 DEF TraverseInv, PathsAreRight
    <3>2. CASE s = <<j, Append(nameStack, a)>>
      <4>1. s[1] = j /\ s[2] = Append(nameStack, a)
        BY <3>2
      <4> QED BY <2>2, <2>6, <3>2, <4>1
    <3> QED BY <2>1, <3>1, <3>2
  <2>8. PathsAreRight'
    BY <1>1, <2>7 DEF TraverseInv, PathsAreRight
  <2> QED BY <2>4, <2>5, <2>8 DEF TraverseInv
<1> QED BY <1>4, <1>5

LEMMA VisitSlotTraverse ==
  ASSUME TraverseInv, NEW i \in Instance, NEW a \in Attr, VisitSlot(i, a)
  PROVE  TraverseInv'
<1>1. /\ phase = "traverse" /\ frames # <<>> /\ Top.instance = i /\ phase' = phase
      /\ program' = program /\ nameStack' = nameStack /\ frames' = NextAttr
      /\ linkage' = linkage /\ seen' = seen
      /\ globalSlots' \subseteq globalSlots \cup {<<i, a, Append(nameStack, a)>>}
  BY DEF VisitSlot, AtAttr
<1>2. /\ program \in Programs /\ nameStack \in Seq(ModuleAttr) /\ frames \in Seq(Frame)
  BY DEF TraverseInv, TraversalTypes
<1>3. /\ NextAttr \in Seq(Frame) /\ Len(NextAttr) = Len(frames)
      /\ \A k \in 1 .. Len(frames) : NextAttr[k].instance = frames[k].instance
  BY <1>1, <1>2, NextAttrFrames
<1>4. TraversalTypes'
  BY <1>1, <1>2, <1>3 DEF TraverseInv, TraversalTypes
<1>5. StackMatches'
  BY <1>1, <1>3 DEF TraverseInv, StackMatches
<1>6. ASSUME NEW g \in globalSlots'
      PROVE  g = <<g[1], g[2], g[3]>> /\ g[2] \in Attr /\ IsPathOf(program, g)
  <2>1. CASE g \in globalSlots
    BY <2>1 DEF TraverseInv, PathsAreRight
  <2>2. CASE g = <<i, a, Append(nameStack, a)>>
    <3>1. g[1] = i /\ g[2] = a /\ g[3] = Append(nameStack, a)
      BY <2>2
    <3>2. LeadsTo(program, nameStack, i)
      BY <1>1, TopIsAtStack
    <3> QED BY <2>2, <3>1, <3>2 DEF IsPathOf
  <2> QED BY <1>1, <2>1, <2>2
<1>7. PathsAreRight'
  BY <1>1, <1>6 DEF TraverseInv, PathsAreRight
<1> QED BY <1>4, <1>5, <1>7 DEF TraverseInv

LEMMA PopLength ==
  ASSUME NEW M, NEW s \in Seq(M), s # <<>>
  PROVE  Len(Pop(s)) = Len(s) - 1
<1>1. Len(s) \in Nat /\ Len(s) # 0
  OBVIOUS
<1>2. CASE Len(s) = 1
  <2>1. Pop(s) = SubSeq(s, 1, 0)
    BY <1>2 DEF Pop
  <2>2. SubSeq(s, 1, 0) = <<>> /\ Len(<<>>) = 0
    OBVIOUS
  <2> QED BY <1>2, <2>1, <2>2
<1>3. CASE Len(s) > 1
  <2> DEFINE n == Len(s) - 1
  <2>1. n \in Nat /\ n >= 1 /\ n <= Len(s)
    BY <1>1, <1>3
  <2>2. Len(SubSeq(s, 1, n)) = n
    <3> HIDE DEF n
    <3> QED BY <2>1
  <2> QED BY <2>2 DEF Pop
<1>4. Len(s) = 1 \/ Len(s) > 1
  <2>1. \A k \in Nat : k # 0 => k = 1 \/ k > 1
    OBVIOUS
  <2> QED BY <1>1, <2>1, Zenon
<1> QED BY <1>2, <1>3, <1>4

LEMMA LeaveModuleTraverse ==
  ASSUME TraverseInv, NEW i \in Instance, LeaveModule(i)
  PROVE  TraverseInv'
<1>1. /\ phase = "traverse" /\ frames # <<>> /\ Top.instance = i /\ phase' = phase
      /\ program' = program /\ frames' = Pop(frames)
      /\ nameStack' = IF nameStack = <<>> THEN <<>> ELSE Pop(nameStack)
      /\ globalSlots' = globalSlots /\ seen' = seen
      /\ linkage' = linkage \cup {<<i, f, Append(nameStack, f)>>
                                    : f \in program.methods[program.class[i]]}
  BY DEF LeaveModule
<1>2. /\ program \in Programs /\ nameStack \in Seq(ModuleAttr) /\ frames \in Seq(Frame)
      /\ Len(frames) = Len(nameStack) + 1 /\ LeadsTo(program, nameStack, i)
      /\ Len(nameStack) \in Nat
  BY <1>1, TopIsAtStack DEF TraverseInv, TraversalTypes
<1>3. /\ Pop(frames) \in Seq(Frame) /\ Len(Pop(frames)) = Len(nameStack)
      /\ \A k \in 1 .. Len(nameStack) : Pop(frames)[k] = frames[k]
  BY <1>2 DEF Pop
<1>4. nameStack' \in Seq(ModuleAttr)
  BY <1>1, <1>2 DEF Pop
<1>5. TraversalTypes'
  BY <1>1, <1>2, <1>3, <1>4 DEF TraverseInv, TraversalTypes
<1>6. StackMatches'
  <2>1. SUFFICES ASSUME frames' # <<>>
                 PROVE  /\ Len(frames') = Len(nameStack') + 1
                        /\ \A k \in 1 .. Len(frames') :
                             <<frames'[k].instance, SubSeq(nameStack', 1, k - 1)>> \in seen'
    BY DEF StackMatches
  <2>2. nameStack # <<>>
    <3>1. Len(frames') # 0
      BY <1>1, <1>3, <2>1
    <3> QED BY <1>1, <1>3, <3>1
  <2>3. nameStack' = Pop(nameStack) /\ Len(nameStack') = Len(nameStack) - 1
    <3>1. nameStack' = Pop(nameStack)
      BY <1>1, <2>2
    <3>2. Len(Pop(nameStack)) = Len(nameStack) - 1
      BY <1>2, <2>2, PopLength
    <3> QED BY <3>1, <3>2
  <2>4. ASSUME NEW k \in 1 .. Len(frames')
        PROVE  <<frames'[k].instance, SubSeq(nameStack', 1, k - 1)>> \in seen'
    <3>1. k \in 1 .. Len(nameStack) /\ frames'[k] = frames[k]
      BY <1>1, <1>3
    <3>2. SubSeq(nameStack', 1, k - 1) = SubSeq(nameStack, 1, k - 1)
      BY <1>2, <2>2, <2>3, <3>1 DEF Pop
    <3>3. <<frames[k].instance, SubSeq(nameStack, 1, k - 1)>> \in seen
      BY <1>1, <1>2, <3>1 DEF TraverseInv, StackMatches
    <3> QED BY <1>1, <3>1, <3>2, <3>3
  <2> QED BY <1>1, <1>2, <1>3, <2>3, <2>4
<1>7. ASSUME NEW l \in linkage'
      PROVE  /\ l[2] \in program.methods[program.class[l[1]]]
             /\ IsPathOf(program, l)
  <2>1. CASE l \in linkage
    BY <2>1 DEF TraverseInv, PathsAreRight
  <2>2. ASSUME NEW f \in program.methods[program.class[i]], l = <<i, f, Append(nameStack, f)>>
        PROVE  /\ l[2] \in program.methods[program.class[l[1]]]
               /\ IsPathOf(program, l)
    <3>1. l[1] = i /\ l[2] = f /\ l[3] = Append(nameStack, f)
      BY <2>2
    <3> QED BY <1>2, <3>1 DEF IsPathOf
  <2> QED BY <1>1, <2>1, <2>2
<1>8. PathsAreRight'
  BY <1>1, <1>7 DEF TraverseInv, PathsAreRight
<1> QED BY <1>5, <1>6, <1>8 DEF TraverseInv

\* The steps after the traversal.
LEMMA TrackingKeepsTraversal ==
  ASSUME TraverseInv, program' = program, UNCHANGED traversal,
         phase' \in {"monomorphize", "clone", "done", "failed"}
  PROVE  TraverseInv'
<1>1. /\ frames' = frames /\ nameStack' = nameStack /\ seen' = seen
      /\ globalSlots' = globalSlots /\ linkage' = linkage
  BY DEF traversal
<1> QED BY <1>1 DEF TraverseInv, TraversalTypes, StackMatches, PathsAreRight

LEMMA NextTraverse == TraverseInv /\ [Next]_vars => TraverseInv'
<1> SUFFICES ASSUME TraverseInv, [Next]_vars PROVE TraverseInv'
  OBVIOUS
<1>1. CASE FindRoot
  BY <1>1, FindRootTraverse
<1>2. ASSUME NEW i \in Instance, NEW a \in Attr, EnterModule(i, a)
      PROVE  TraverseInv'
  BY <1>2, EnterModuleTraverse
<1>3. ASSUME NEW i \in Instance, NEW a \in Attr, VisitSlot(i, a)
      PROVE  TraverseInv'
  BY <1>3, VisitSlotTraverse
<1>4. ASSUME NEW i \in Instance, LeaveModule(i)
      PROVE  TraverseInv'
  BY <1>4, LeaveModuleTraverse
<1>5. CASE StartTracker
  BY <1>5, TrackingKeepsTraversal DEF StartTracker
<1>6. ASSUME NEW m \in dirty, TrackCalls(m)
      PROVE  TraverseInv'
  BY <1>6, TrackingKeepsTraversal DEF TrackCalls
<1>7. CASE VerifyPublic
  BY <1>7, TrackingKeepsTraversal DEF VerifyPublic
<1>8. CASE CloneFunctions
  BY <1>8, TrackingKeepsTraversal DEF CloneFunctions
<1>9. CASE UNCHANGED vars
  BY <1>9 DEF vars, traversal, TraverseInv, TraversalTypes, StackMatches, PathsAreRight
<1> QED
  BY <1>1, <1>2, <1>3, <1>4, <1>5, <1>6, <1>7, <1>8, <1>9 DEF Next

\* The name stack is the path to the module that is traversed, and names are the
\* paths to their owners, in every state.
THEOREM TraversalCorrect == Spec => []TraverseInv
<1> QED BY InitTraverse, NextTraverse, PTL DEF Spec

\* The last of a sequence and the rest.
LEMMA PopAppend ==
  ASSUME NEW s, NEW M, s \in Seq(M), NEW x
  PROVE  /\ Pop(Append(s, x)) = s
         /\ Append(s, x)[Len(Append(s, x))] = x
<1> DEFINE N == M \cup {x}
<1>1. s \in Seq(N)
  OBVIOUS
<1>2. x \in N
  OBVIOUS
<1> HIDE DEF N
<1> QED BY <1>1, <1>2 DEF Pop

\* For every program, following the name of a slot or a method from the root
\* leads to the module that has it: calls and accesses in the new module mean
\* what they meant in the graph.
THEOREM Naming == Spec => []NamesAreAccessPaths
<1>1. TraverseInv => NamesAreAccessPaths
  <2> SUFFICES ASSUME TraverseInv, NEW root \in Roots(program),
                      NEW x \in globalSlots \cup linkage
               PROVE  /\ Follow(program, root, Pop(x[3])) = x[1]
                      /\ x[3][Len(x[3])] = x[2]
    BY DEF NamesAreAccessPaths
  <2>1. IsPathOf(program, x)
    BY DEF TraverseInv, PathsAreRight
  <2>2. PICK path : LeadsTo(program, path, x[1]) /\ x[3] = Append(path, x[2])
    BY <2>1 DEF IsPathOf
  <2>3. Pop(x[3]) = path /\ x[3][Len(x[3])] = x[2]
    BY <2>2, PopAppend DEF LeadsTo
  <2> QED BY <2>2, <2>3 DEF LeadsTo
<1> QED BY <1>1, TraversalCorrect, PTL

(***************************************************************************)
(* The traversal is complete, and finds every module on one path only.     *)
(***************************************************************************)
\* The j-th attribute of instance i has been looked at.
IsHandled(i, j) ==
  LET a == AttrsOf(program, i)[j]
  IN  /\ a \in ModuleAttr =>
           \E path : <<i, path>> \in seen /\ <<program.child[<<i, a>>], Append(path, a)>> \in seen
      /\ a \notin ModuleAttr /\ IsUsedSlot(program, i, a) =>
           \E g \in globalSlots : g[1] = i /\ g[2] = a

\* It is still to be looked at by an activation.
IsPending(i, j) ==
  \E k \in DOMAIN frames : frames[k].instance = i /\ frames[k].next <= j

TourInv ==
  phase \in {"traverse", "monomorphize", "clone", "done"} =>
    /\ \E root \in Instance : Roots(program) = {root} /\ <<root, <<>>>> \in seen
    /\ \A s, t \in seen : s[1] = t[1] => s = t
    /\ \A s \in seen : \A j \in DOMAIN AttrsOf(program, s[1]) : IsHandled(s[1], j) \/ IsPending(s[1], j)
    /\ phase # "traverse" => frames = <<>>

LEMMA HandledStays ==
  ASSUME NEW i, NEW j, IsHandled(i, j), program' = program,
         seen \subseteq seen', globalSlots \subseteq globalSlots'
  PROVE  IsHandled(i, j)'
<1>1. AttrsOf(program, i)' = AttrsOf(program, i)
  BY DEF AttrsOf
<1>2. \A a : IsUsedSlot(program, i, a)' <=> IsUsedSlot(program, i, a)
  BY DEF IsUsedSlot
<1> DEFINE a == AttrsOf(program, i)[j]
<1>3. a \in ModuleAttr =>
        \E path : <<i, path>> \in seen' /\ <<program.child[<<i, a>>], Append(path, a)>> \in seen'
  BY DEF IsHandled
<1>4. a \notin ModuleAttr /\ IsUsedSlot(program, i, a) => \E g \in globalSlots' : g[1] = i /\ g[2] = a
  BY DEF IsHandled
<1> QED BY <1>1, <1>2, <1>3, <1>4 DEF IsHandled

LEMMA InitTour == Init => TourInv
BY DEF Init, TourInv

LEMMA FindRootTour ==
  ASSUME TraverseInv, FindRoot
  PROVE  TourInv'
<1>1. CASE Cardinality(Roots(program)) # 1
  BY <1>1 DEF FindRoot, TourInv
<1>2. CASE Cardinality(Roots(program)) = 1
  <2>1. PICK root \in Roots(program) :
          frames' = <<[instance |-> root, next |-> 1]>> /\ seen' = {<<root, <<>>>>}
    BY <1>2 DEF FindRoot
  <2>2. program' = program /\ phase' = "traverse"
    BY <1>2 DEF FindRoot
  <2>3. Roots(program) = {root} /\ root \in Instance
    BY <1>2, OneRoot
  <2>4. program \in Programs
    BY DEF TraverseInv, TraversalTypes
  <2>5. ASSUME NEW j \in DOMAIN AttrsOf(program, root)
        PROVE  IsPending(root, j)'
    <3>1. j >= 1
      BY <2>3, <2>4, AttrsOfType
    <3>2. 1 \in DOMAIN frames' /\ frames'[1].instance = root /\ frames'[1].next = 1
      BY <2>1
    <3> QED BY <3>1, <3>2 DEF IsPending
  <2>6. \A s \in seen' : s[1] = root
    BY <2>1
  <2> QED BY <2>1, <2>2, <2>3, <2>5, <2>6 DEF TourInv
<1> QED BY <1>1, <1>2

LEMMA EnterModuleTour ==
  ASSUME TraverseInv, TourInv, NEW i \in Instance, NEW a \in Attr, EnterModule(i, a)
  PROVE  TourInv'
<1>0. PICK j, c : j = program.child[<<i, a>>] /\ c = Top.next
  OBVIOUS
<1>1. /\ phase = "traverse" /\ frames # <<>> /\ Top.instance = i /\ a \in ModuleAttr
      /\ program' = program /\ nameStack' = Append(nameStack, a) /\ globalSlots' = globalSlots
      /\ c \in DOMAIN AttrsOf(program, i) /\ a = AttrsOf(program, i)[c]
  BY <1>0 DEF EnterModule, AtAttr
<1>2. /\ program \in Programs /\ frames \in Seq(Frame)
  BY DEF TraverseInv, TraversalTypes
<1>3. CASE \E s \in seen : s[1] = j
  <2>1. phase' = "failed"
    BY <1>0, <1>3 DEF EnterModule
  <2> QED BY <2>1 DEF TourInv
<1>4. CASE ~ \E s \in seen : s[1] = j
  <2>1. /\ phase' = "traverse"
        /\ frames' = Append(NextAttr, [instance |-> j, next |-> 1])
        /\ seen' = seen \cup {<<j, Append(nameStack, a)>>}
    BY <1>0, <1>1, <1>4 DEF EnterModule
  <2>2. j \in Instance /\ [instance |-> j, next |-> 1] \in Frame
    BY <1>0, <1>1, <1>2, ProgramType DEF Frame
  <2>3. /\ NextAttr \in Seq(Frame) /\ Len(NextAttr) = Len(frames) /\ Len(frames) \in Nat \ {0}
        /\ \A k \in 1 .. Len(frames) :
             /\ NextAttr[k].instance = frames[k].instance
             /\ NextAttr[k].next = IF k = Len(frames) THEN frames[k].next + 1 ELSE frames[k].next
    BY <1>1, <1>2, NextAttrFrames, TopIsFrame
  <2>4. /\ Len(frames') = Len(frames) + 1 /\ DOMAIN frames' = 1 .. (Len(frames) + 1)
        /\ \A k \in 1 .. Len(frames) : frames'[k] = NextAttr[k]
        /\ frames'[Len(frames) + 1] = [instance |-> j, next |-> 1]
    BY <2>1, <2>2, <2>3
  <2>5. \A s, t \in seen' : s[1] = t[1] => s = t
    <3>1. \A s, t \in seen : s[1] = t[1] => s = t
      BY <1>1 DEF TourInv
    <3>2. \A s \in seen' : s \in seen \/ (s = <<j, Append(nameStack, a)>> /\ s[1] = j)
      BY <2>1
    <3> QED BY <1>4, <3>1, <3>2
  <2>6. ASSUME NEW n \in DOMAIN AttrsOf(program, j)
        PROVE  IsPending(j, n)'
    <3>1. n >= 1
      BY <1>2, <2>2, AttrsOfType
    <3>2. Len(frames) + 1 \in DOMAIN frames'
      BY <2>3, <2>4
    <3>3. frames'[Len(frames) + 1].instance = j /\ frames'[Len(frames) + 1].next = 1
      BY <2>4
    <3> QED BY <3>1, <3>2, <3>3 DEF IsPending
  <2>7. IsHandled(i, c)'
    <3>1. <<i, nameStack>> \in seen
      BY <1>1, TopIsAtStack
    <3>2. AttrsOf(program, i)'[c] = a
      BY <1>1 DEF AttrsOf
    <3>3. <<i, nameStack>> \in seen' /\ <<program'.child[<<i, a>>], Append(nameStack, a)>> \in seen'
      BY <1>0, <1>1, <2>1, <3>1
    <3> QED BY <1>1, <3>2, <3>3 DEF IsHandled
  <2>8. ASSUME NEW s \in seen, NEW n \in DOMAIN AttrsOf(program, s[1])
        PROVE  IsHandled(s[1], n)' \/ IsPending(s[1], n)'
    <3>1. s[1] \in Instance /\ n \in Nat
      <4>1. s[1] \in Instance
        BY DEF TraverseInv, PathsAreRight
      <4> QED BY <1>2, <4>1, AttrsOfType
    <3>2. CASE IsHandled(s[1], n)
      BY <1>1, <2>1, <3>2, HandledStays
    <3>3. ASSUME NEW k \in DOMAIN frames, frames[k].instance = s[1], frames[k].next <= n
          PROVE  IsHandled(s[1], n)' \/ IsPending(s[1], n)'
      <4>0. k \in 1 .. Len(frames) /\ frames[k] \in Frame
        BY <1>2
      <4>1. k \in 1 .. Len(frames) /\ k \in DOMAIN frames' /\ frames'[k] = NextAttr[k]
            /\ frames[k].next \in Nat
        <5>1. frames[k].next \in Nat
          BY <4>0 DEF Frame
        <5> QED BY <2>3, <2>4, <4>0, <5>1
      <4>2. CASE k = Len(frames) /\ frames[k].next = n
        <5>1. s[1] = i /\ n = c
          BY <1>0, <1>1, <1>2, <3>3, <4>2 DEF Top
        <5> QED BY <2>7, <5>1
      <4>3. CASE k # Len(frames) \/ frames[k].next # n
        <5>1. frames'[k].instance = s[1] /\ frames'[k].next <= n
          BY <2>3, <3>1, <3>3, <4>1, <4>3
        <5> QED BY <4>1, <5>1 DEF IsPending
      <4> QED BY <4>2, <4>3
    <3> QED BY <1>1, <3>2, <3>3 DEF TourInv, IsPending
  <2>9. ASSUME NEW s \in seen', NEW n \in DOMAIN AttrsOf(program', s[1])
        PROVE  IsHandled(s[1], n)' \/ IsPending(s[1], n)'
    <3>1. CASE s \in seen
      BY <1>1, <2>8, <3>1
    <3>2. CASE s[1] = j
      BY <1>1, <2>6, <3>2
    <3>3. s \in seen \/ s[1] = j
      BY <2>1
    <3> QED BY <3>1, <3>2, <3>3
  <2>10. \E root \in Instance : Roots(program') = {root} /\ <<root, <<>>>> \in seen'
    BY <1>1, <2>1 DEF TourInv
  <2> QED BY <2>1, <2>5, <2>9, <2>10 DEF TourInv
<1> QED BY <1>3, <1>4

LEMMA VisitSlotTour ==
  ASSUME TraverseInv, TourInv, NEW i \in Instance, NEW a \in Attr, VisitSlot(i, a)
  PROVE  TourInv'
<1>0. PICK c : c = Top.next
  OBVIOUS
<1>1. /\ phase = "traverse" /\ frames # <<>> /\ Top.instance = i /\ a \notin ModuleAttr
      /\ program' = program /\ phase' = phase /\ seen' = seen /\ frames' = NextAttr
      /\ globalSlots' = IF IsUsedSlot(program, i, a)
                        THEN globalSlots \cup {<<i, a, Append(nameStack, a)>>}
                        ELSE globalSlots
      /\ c \in DOMAIN AttrsOf(program, i) /\ a = AttrsOf(program, i)[c]
  BY <1>0 DEF VisitSlot, AtAttr
<1>2. /\ program \in Programs /\ frames \in Seq(Frame)
  BY DEF TraverseInv, TraversalTypes
<1>3. /\ NextAttr \in Seq(Frame) /\ Len(NextAttr) = Len(frames) /\ Len(frames) \in Nat \ {0}
      /\ \A k \in 1 .. Len(frames) :
           /\ NextAttr[k].instance = frames[k].instance
           /\ NextAttr[k].next = IF k = Len(frames) THEN frames[k].next + 1 ELSE frames[k].next
  BY <1>1, <1>2, NextAttrFrames, TopIsFrame
<1>4. DOMAIN frames' = 1 .. Len(frames) /\ globalSlots \subseteq globalSlots'
  BY <1>1, <1>3
<1>5. IsHandled(i, c)'
  <2>1. AttrsOf(program, i)'[c] = a
    BY <1>1 DEF AttrsOf
  <2>2. IsUsedSlot(program, i, a) => \E g \in globalSlots' : g[1] = i /\ g[2] = a
    <3>1. SUFFICES ASSUME IsUsedSlot(program, i, a)
                   PROVE  \E g \in globalSlots' : g[1] = i /\ g[2] = a
      OBVIOUS
    <3>2. PICK g : g = <<i, a, Append(nameStack, a)>>
      OBVIOUS
    <3> QED BY <1>1, <3>1, <3>2
  <2>3. IsUsedSlot(program, i, a)' <=> IsUsedSlot(program, i, a)
    BY <1>1 DEF IsUsedSlot
  <2> QED BY <1>1, <2>1, <2>2, <2>3 DEF IsHandled
<1>6. ASSUME NEW s \in seen, NEW n \in DOMAIN AttrsOf(program, s[1])
      PROVE  IsHandled(s[1], n)' \/ IsPending(s[1], n)'
  <2>1. s[1] \in Instance /\ n \in Nat
    <3>1. s[1] \in Instance
      BY DEF TraverseInv, PathsAreRight
    <3> QED BY <1>2, <3>1, AttrsOfType
  <2>2. CASE IsHandled(s[1], n)
    BY <1>1, <1>4, <2>2, HandledStays
  <2>3. ASSUME NEW k \in DOMAIN frames, frames[k].instance = s[1], frames[k].next <= n
        PROVE  IsHandled(s[1], n)' \/ IsPending(s[1], n)'
    <3>0. k \in 1 .. Len(frames) /\ frames[k] \in Frame
      BY <1>2
    <3>1. frames[k].next \in Nat
      BY <3>0 DEF Frame
    <3>2. CASE k = Len(frames) /\ frames[k].next = n
      <4>1. s[1] = i /\ n = c
        BY <1>0, <1>1, <2>3, <3>2 DEF Top
      <4> QED BY <1>5, <4>1
    <3>3. CASE k # Len(frames) \/ frames[k].next # n
      <4>1. k \in DOMAIN frames' /\ frames'[k].instance = s[1]
        BY <1>1, <1>3, <1>4, <2>3, <3>0
      <4>2. frames'[k].next = IF k = Len(frames) THEN frames[k].next + 1 ELSE frames[k].next
        BY <1>1, <1>3, <3>0
      <4>3. frames'[k].next <= n
        BY <2>1, <2>3, <3>1, <3>3, <4>2
      <4> QED BY <4>1, <4>3 DEF IsPending
    <3> QED BY <3>2, <3>3
  <2> QED BY <1>1, <2>2, <2>3 DEF TourInv, IsPending
<1> QED BY <1>1, <1>6 DEF TourInv

LEMMA LeaveModuleTour ==
  ASSUME TraverseInv, TourInv, NEW i \in Instance, LeaveModule(i)
  PROVE  TourInv'
<1>0. PICK c : c = Top.next
  OBVIOUS
<1>1. /\ phase = "traverse" /\ frames # <<>> /\ Top.instance = i /\ phase' = phase
      /\ program' = program /\ seen' = seen /\ globalSlots' = globalSlots
      /\ frames' = Pop(frames) /\ c \notin DOMAIN AttrsOf(program, i)
  BY <1>0 DEF LeaveModule
<1>2. /\ program \in Programs /\ frames \in Seq(Frame)
  BY DEF TraverseInv, TraversalTypes
<1>3. /\ Len(frames) \in Nat \ {0} /\ c \in Nat \ {0}
      /\ frames[Len(frames)].instance = i /\ frames[Len(frames)].next = c
  BY <1>0, <1>1, <1>2, TopIsFrame DEF Frame
<1>4. DOMAIN frames' = 1 .. (Len(frames) - 1) /\ \A k \in 1 .. (Len(frames) - 1) : frames'[k] = frames[k]
  <2>1. Pop(frames) \in Seq(Frame) /\ Len(Pop(frames)) = Len(frames) - 1
    BY <1>1, <1>2, PopLength DEF Pop
  <2>2. \A k \in 1 .. (Len(frames) - 1) : Pop(frames)[k] = frames[k]
    BY <1>2, <1>3 DEF Pop
  <2>3. DOMAIN Pop(frames) = 1 .. (Len(frames) - 1)
    BY <2>1
  <2> QED BY <1>1, <2>2, <2>3
<1>5. ASSUME NEW s \in seen, NEW n \in DOMAIN AttrsOf(program, s[1])
      PROVE  IsHandled(s[1], n)' \/ IsPending(s[1], n)'
  <2>1. s[1] \in Instance
    BY DEF TraverseInv, PathsAreRight
  <2>2. CASE IsHandled(s[1], n)
    BY <1>1, <2>2, HandledStays
  <2>3. ASSUME NEW k \in DOMAIN frames, frames[k].instance = s[1], frames[k].next <= n
        PROVE  IsPending(s[1], n)'
    <3>1. k \in 1 .. Len(frames)
      BY <1>2
    <3>2. k # Len(frames)
      <4>1. SUFFICES ASSUME k = Len(frames) PROVE FALSE
        OBVIOUS
      <4>2. s[1] = i /\ c <= n
        BY <1>3, <2>3, <4>1
      <4>3. DOMAIN AttrsOf(program, i) = 1 .. Len(AttrsOf(program, i))
            /\ Len(AttrsOf(program, i)) \in Nat
        BY <1>2, AttrsOfType
      <4>4. PICK L \in Nat : L = Len(AttrsOf(program, i))
        BY <4>3
      <4>5. c \notin 1 .. L /\ n \in 1 .. L
        BY <1>1, <4>2, <4>3, <4>4
      <4> QED BY <1>3, <4>2, <4>5
    <3>3. k \in DOMAIN frames' /\ frames'[k] = frames[k]
      BY <1>3, <1>4, <3>1, <3>2
    <3> QED BY <2>3, <3>3 DEF IsPending
  <2> QED BY <1>1, <2>2, <2>3 DEF TourInv, IsPending
<1> QED BY <1>1, <1>5 DEF TourInv

LEMMA TrackingKeepsTour ==
  ASSUME TraverseInv, TourInv, program' = program, UNCHANGED traversal,
         phase' = "failed" \/ phase' = phase \/ frames = <<>>,
         phase' # "traverse" \/ phase = "traverse",
         phase \in {"traverse", "monomorphize", "clone"}
  PROVE  TourInv'
<1>1. /\ frames' = frames /\ seen' = seen /\ globalSlots' = globalSlots
  BY DEF traversal
<1>2. CASE phase' = "failed"
  BY <1>2 DEF TourInv
<1>3. CASE phase' = phase \/ frames = <<>>
  <2>1. ASSUME NEW s \in seen, NEW n \in DOMAIN AttrsOf(program, s[1])
        PROVE  IsHandled(s[1], n)' \/ IsPending(s[1], n)'
    <3>1. IsHandled(s[1], n) \/ IsPending(s[1], n)
      BY DEF TourInv
    <3>2. IsPending(s[1], n) => IsPending(s[1], n)'
      BY <1>1 DEF IsPending
    <3> QED BY <1>1, <3>1, <3>2, HandledStays
  <2> QED BY <1>1, <1>3, <2>1 DEF TourInv
<1> QED BY <1>2, <1>3

LEMMA NextTour == TraverseInv /\ TourInv /\ [Next]_vars => TourInv'
<1> SUFFICES ASSUME TraverseInv, TourInv, [Next]_vars PROVE TourInv'
  OBVIOUS
<1>1. CASE FindRoot
  BY <1>1, FindRootTour
<1>2. ASSUME NEW i \in Instance, NEW a \in Attr, EnterModule(i, a)
      PROVE  TourInv'
  BY <1>2, EnterModuleTour
<1>3. ASSUME NEW i \in Instance, NEW a \in Attr, VisitSlot(i, a)
      PROVE  TourInv'
  BY <1>3, VisitSlotTour
<1>4. ASSUME NEW i \in Instance, LeaveModule(i)
      PROVE  TourInv'
  BY <1>4, LeaveModuleTour
<1>5. CASE StartTracker
  <2>1. phase = "traverse" /\ frames = <<>> /\ program' = program /\ UNCHANGED traversal
    BY <1>5 DEF StartTracker
  <2> QED BY <2>1, TrackingKeepsTour
<1>6. ASSUME NEW m \in dirty, TrackCalls(m)
      PROVE  TourInv'
  <2>1. phase = "monomorphize" /\ phase' = phase /\ program' = program /\ UNCHANGED traversal
    BY <1>6 DEF TrackCalls
  <2> QED BY <2>1, TrackingKeepsTour
<1>7. CASE VerifyPublic
  <2>1. /\ phase = "monomorphize" /\ phase' \in {"clone", "failed"}
        /\ program' = program /\ UNCHANGED traversal
    BY <1>7 DEF VerifyPublic
  <2>2. frames = <<>>
    BY <2>1 DEF TourInv
  <2> QED BY <2>1, <2>2, TrackingKeepsTour
<1>8. CASE CloneFunctions
  <2>1. phase = "clone" /\ phase' = "done" /\ program' = program /\ UNCHANGED traversal
    BY <1>8 DEF CloneFunctions
  <2>2. frames = <<>>
    BY <2>1 DEF TourInv
  <2> QED BY <2>1, <2>2, TrackingKeepsTour
<1>9. CASE UNCHANGED vars
  <2>1. /\ program' = program /\ phase' = phase /\ frames' = frames /\ seen' = seen
        /\ globalSlots' = globalSlots
    BY <1>9 DEF vars, traversal
  <2>2. \A s \in seen : \A n : IsHandled(s[1], n) \/ IsPending(s[1], n)
                              => IsHandled(s[1], n)' \/ IsPending(s[1], n)'
    <3> TAKE s \in seen
    <3> TAKE n
    <3>1. IsPending(s[1], n) => IsPending(s[1], n)'
      BY <2>1 DEF IsPending
    <3> QED BY <2>1, <3>1, HandledStays
  <2> QED BY <2>1, <2>2 DEF TourInv
<1> QED
  BY <1>1, <1>2, <1>3, <1>4, <1>5, <1>6, <1>7, <1>8, <1>9 DEF Next

LEMMA TourCorrect == Spec => [](TraverseInv /\ TourInv)
<1>1. Init => TraverseInv /\ TourInv
  BY InitTraverse, InitTour
<1>2. TraverseInv /\ TourInv /\ [Next]_vars => (TraverseInv /\ TourInv)'
  BY NextTraverse, NextTour
<1> QED BY <1>1, <1>2, PTL DEF Spec

Traversed == phase \in {"monomorphize", "clone", "done"}

LEMMA AllIsHandled ==
  ASSUME TraverseInv, TourInv, Traversed,
         NEW s \in seen, NEW j \in DOMAIN AttrsOf(program, s[1])
  PROVE  IsHandled(s[1], j)
<1>1. frames = <<>>
  BY DEF TourInv, Traversed
<1>2. ~ IsPending(s[1], j)
  BY <1>1 DEF IsPending
<1> QED BY <1>2 DEF TourInv, Traversed

\* A holder that was seen was traversed, and so the module was seen on its path.
LEMMA HolderIsHandled ==
  ASSUME TraverseInv, TourInv, Traversed, NEW i \in Instance,
         NEW h \in Holders(program, i), \E s \in seen : s[1] = h[1]
  PROVE  \E path : <<h[1], path>> \in seen /\ <<i, Append(path, h[2])>> \in seen
<1>1. h = <<h[1], h[2]>> /\ h[1] \in Instance /\ h[2] \in ModuleAttr /\ program.child[h] = i
  BY DEF Holders
<1>2. PICK j \in DOMAIN AttrsOf(program, h[1]) : AttrsOf(program, h[1])[j] = h[2]
  BY DEF Holders, ModuleAttrsOf
<1>3. IsHandled(h[1], j)
  BY <1>2, AllIsHandled
<1>4. PICK path : /\ <<h[1], path>> \in seen
                  /\ <<program.child[<<h[1], h[2]>>], Append(path, h[2])>> \in seen
  BY <1>1, <1>2, <1>3 DEF IsHandled
<1> QED BY <1>1, <1>4

\* The traversal misses no module: one that it missed would be held by modules
\* that it missed only, in a circle.
LEMMA AllSeen ==
  ASSUME TraverseInv, TourInv, Traversed, NEW x \in Instance
  PROVE  \E s \in seen : s[1] = x
<1> DEFINE U == {i \in Instance : ~ \E s \in seen : s[1] = i}
<1>1. SUFFICES ASSUME U # {} PROVE FALSE
  OBVIOUS
<1>2. program \in Programs
  BY DEF TraverseInv, TraversalTypes
<1>3. PICK i \in U : \A h \in Holders(program, i) : h[1] \notin U
  <2>1. U \in SUBSET Instance
    OBVIOUS
  <2> HIDE DEF U
  <2> QED BY <1>1, <1>2, <2>1, ProgramsAreVerified DEF IsAcyclic
<1>4. CASE Holders(program, i) = {}
  <2>1. i \in Roots(program)
    BY <1>4 DEF Roots
  <2>2. PICK root \in Instance : Roots(program) = {root} /\ <<root, <<>>>> \in seen
    BY DEF TourInv, Traversed
  <2> QED BY <2>1, <2>2
<1>5. ASSUME NEW h \in Holders(program, i)
      PROVE  FALSE
  <2>1. \E s \in seen : s[1] = h[1]
    BY <1>3 DEF Holders
  <2>2. PICK path : <<i, Append(path, h[2])>> \in seen
    BY <2>1, HolderIsHandled
  <2> QED BY <2>2
<1> QED BY <1>4, <1>5

LEMMA OneHolder ==
  ASSUME TraverseInv, TourInv, Traversed, NEW i \in Instance,
         NEW h \in Holders(program, i), NEW g \in Holders(program, i)
  PROVE  h = g
<1>1. h = <<h[1], h[2]>> /\ h[1] \in Instance /\ g = <<g[1], g[2]>> /\ g[1] \in Instance
  BY DEF Holders
<1>2. PICK p : <<h[1], p>> \in seen /\ <<i, Append(p, h[2])>> \in seen
  BY <1>1, AllSeen, HolderIsHandled
<1>3. PICK q : <<g[1], q>> \in seen /\ <<i, Append(q, g[2])>> \in seen
  BY <1>1, AllSeen, HolderIsHandled
<1>4. Append(p, h[2]) = Append(q, g[2])
  <2>1. \A s, t \in seen : s[1] = t[1] => s = t
    BY DEF TourInv, Traversed
  <2> QED BY <1>2, <1>3, <2>1
<1>5. LeadsTo(program, p, h[1]) /\ LeadsTo(program, q, g[1])
  BY <1>2, <1>3 DEF TraverseInv, PathsAreRight
<1>6. p = q /\ h[2] = g[2]
  <2>1. p \in Seq(ModuleAttr) /\ q \in Seq(ModuleAttr)
    BY <1>5 DEF LeadsTo
  <2>2. Pop(Append(p, h[2])) = p /\ Append(p, h[2])[Len(Append(p, h[2]))] = h[2]
    BY <2>1, PopAppend
  <2>3. Pop(Append(q, g[2])) = q /\ Append(q, g[2])[Len(Append(q, g[2]))] = g[2]
    BY <2>1, PopAppend
  <2> QED BY <1>4, <2>2, <2>3
<1>7. h[1] = g[1]
  <2>1. PICK root \in Instance : Roots(program) = {root}
    BY DEF TourInv, Traversed
  <2> QED BY <1>5, <1>6, <2>1 DEF LeadsTo
<1> QED BY <1>1, <1>6, <1>7

\* For every program, the pass only succeeds when each module is held by one
\* module at most, under one attribute.
THEOREM SharedRejected == Spec => []SharedModulesAreRejected
<1>1. TraverseInv /\ TourInv => SharedModulesAreRejected
  <2> SUFFICES ASSUME TraverseInv, TourInv, phase = "done", NEW i \in Instance
               PROVE  Cardinality(Holders(program, i)) <= 1
    BY DEF SharedModulesAreRejected
  <2>1. Traversed
    BY DEF Traversed
  <2>2. CASE Holders(program, i) = {}
    BY <2>2, FS_EmptySet
  <2>3. ASSUME NEW h \in Holders(program, i)
        PROVE  Cardinality(Holders(program, i)) <= 1
    <3>1. Holders(program, i) = {h}
      BY <2>1, <2>3, OneHolder
    <3>2. Cardinality({h}) = 1
      BY FS_Singleton
    <3> QED BY <3>1, <3>2
  <2> QED BY <2>2, <2>3
<1> QED BY <1>1, TourCorrect, PTL

(***************************************************************************)
(* Monomorphizations have the types their functions declare.               *)
(***************************************************************************)
MonoOK(p, m) ==
  /\ m \in Monomorphization
  /\ Len(m.instances) = Len(p.params[m.func])
  /\ \A k \in 1 .. Len(p.params[m.func]) :
       m.instances[k] \in Instance /\ p.class[m.instances[k]] = p.params[m.func][k]

\* A function of the numbers up to a length is a sequence of that length.
LEMMA MonoIsOK ==
  ASSUME NEW p \in Programs, NEW f \in Func, NEW s, DOMAIN s = 1 .. Len(p.params[f]),
         s = [k \in DOMAIN s |-> s[k]],
         \A k \in DOMAIN s : s[k] \in Instance /\ p.class[s[k]] = p.params[f][k]
  PROVE  MonoOK(p, [func |-> f, instances |-> s])
<1>1. PICK n \in Nat : n = Len(p.params[f])
  BY ProgramType
<1>2. s \in [1 .. n -> Instance]
  BY <1>1
<1>3. s \in Seq(Instance) /\ Len(s) = n
  BY <1>2
<1> QED BY <1>1, <1>3 DEF MonoOK, Monomorphization

LEMMA SeedsOK ==
  ASSUME NEW p \in Programs, NEW m \in Seeds(p)
  PROVE  MonoOK(p, m)
<1>1. PICK f \in {g \in Func : CanTriviallyMonomorphize(p, g)} :
        m = [func |-> f, instances |-> [k \in DOMAIN p.params[f] |->
                                          CHOOSE i \in Instance : p.class[i] = p.params[f][k]]]
  BY DEF Seeds
<1> DEFINE s == [k \in DOMAIN p.params[f] |-> CHOOSE i \in Instance : p.class[i] = p.params[f][k]]
<1>2. p.params[f] \in Seq(Class)
  BY ProgramType
<1>3. DOMAIN s = 1 .. Len(p.params[f]) /\ s = [k \in DOMAIN s |-> s[k]]
  BY <1>2
<1>4. ASSUME NEW k \in DOMAIN s
      PROVE  s[k] \in Instance /\ p.class[s[k]] = p.params[f][k]
  <2>1. \E i \in Instance : p.class[i] = p.params[f][k]
    BY OneInstance DEF CanTriviallyMonomorphize
  <2> QED BY <2>1
<1> HIDE DEF s
<1>5. MonoOK(p, [func |-> f, instances |-> s])
  BY <1>3, <1>4, MonoIsOK
<1> QED BY <1>1, <1>5 DEF s

\* A well-typed access path leads to an instance of the class it should.
LEMMA PathInstance ==
  ASSUME NEW p \in Programs, NEW m, MonoOK(p, m),
         NEW path \in AccessPath, IsTypedPath(p, m.func, path)
  PROVE  /\ InstanceAt(p, m, path) \in Instance
         /\ p.class[InstanceAt(p, m, path)] = ClassAt(p, m.func, path)
<1>1. m.func \in Func
  BY DEF MonoOK, Monomorphization
<1>2. path.attrs \in Seq(ModuleAttr) /\ path.param \in 1 .. Len(p.params[m.func])
  BY <1>1, ProgramType DEF AccessPath, IsTypedPath
<1>3. PICK i : i = m.instances[path.param]
  OBVIOUS
<1>4. i \in Instance /\ p.class[i] = p.params[m.func][path.param]
  BY <1>2, <1>3 DEF MonoOK
<1>5. \A k \in DOMAIN path.attrs :
        HasAttr(p, FollowClass(p, p.class[i], SubSeq(path.attrs, 1, k - 1)), path.attrs[k])
  BY <1>4 DEF IsTypedPath
<1>6. /\ Follow(p, i, path.attrs) \in Instance
      /\ p.class[Follow(p, i, path.attrs)] = FollowClass(p, p.class[i], path.attrs)
  BY <1>2, <1>4, <1>5, FollowIsTyped
<1> QED BY <1>3, <1>4, <1>6 DEF InstanceAt, ClassAt

LEMMA OpIsTyped ==
  ASSUME NEW p \in Programs, NEW m, MonoOK(p, m), NEW kind, NEW o \in OpsOf(p, m, kind)
  PROVE  o \in OpIR /\ o.kind = kind /\ IsTypedOp(p, m.func, o)
<1>1. m.func \in Func
  BY DEF MonoOK, Monomorphization
<1>2. o \in p.body[m.func] /\ o.kind = kind
  BY DEF OpsOf
<1> QED BY <1>1, <1>2, ProgramType, ProgramsAreVerified

LEMMA CallsOK ==
  ASSUME NEW p \in Programs, NEW m, MonoOK(p, m), NEW c \in CallsOf(p, m)
  PROVE  MonoOK(p, c)
<1>1. PICK o \in OpsOf(p, m, "call") : c = MonomorphizationForCall(p, m, o)
  BY DEF CallsOf
<1>2. o \in OpIR /\ o.kind = "call" /\ IsTypedOp(p, m.func, o)
  BY OpIsTyped
<1> DEFINE s == [k \in DOMAIN o.args |-> InstanceAt(p, m, o.args[k])]
<1>3. /\ o.args \in Seq(AccessPath) /\ o.callee \in Func
      /\ Len(o.args) = Len(p.params[o.callee])
      /\ \A k \in DOMAIN o.args : /\ IsTypedPath(p, m.func, o.args[k])
                                  /\ ClassAt(p, m.func, o.args[k]) = p.params[o.callee][k]
  BY <1>2 DEF IsTypedOp, OpIR
<1>4. DOMAIN s = 1 .. Len(p.params[o.callee]) /\ s = [k \in DOMAIN s |-> s[k]]
  BY <1>3
<1>5. ASSUME NEW k \in DOMAIN s
      PROVE  s[k] \in Instance /\ p.class[s[k]] = p.params[o.callee][k]
  <2>1. k \in DOMAIN o.args /\ o.args[k] \in AccessPath
    BY <1>3
  <2> QED BY <1>3, <2>1, PathInstance
<1> HIDE DEF s
<1>6. MonoOK(p, [func |-> o.callee, instances |-> s])
  BY <1>3, <1>4, <1>5, MonoIsOK
<1> QED BY <1>1, <1>6 DEF MonomorphizationForCall, s

MonosInv == dirty \subseteq monos /\ \A m \in monos : MonoOK(program, m)

LEMMA NextMonos == TraverseInv /\ MonosInv /\ [Next]_vars => MonosInv'
<1> SUFFICES ASSUME TraverseInv, MonosInv, [Next]_vars PROVE MonosInv'
  OBVIOUS
<1>0. program \in Programs
  BY DEF TraverseInv, TraversalTypes
<1>1. CASE StartTracker
  BY <1>0, <1>1, SeedsOK DEF StartTracker, tracker, MonosInv
<1>2. ASSUME NEW m \in dirty, TrackCalls(m)
      PROVE  MonosInv'
  <2>1. /\ program' = program /\ monos' = monos \cup CallsOf(program, m)
        /\ dirty' = (dirty \ {m}) \cup (CallsOf(program, m) \ monos)
    BY <1>2 DEF TrackCalls
  <2>2. \A c \in CallsOf(program, m) : MonoOK(program, c)
    BY <1>0, CallsOK DEF MonosInv
  <2> QED BY <2>1, <2>2 DEF MonosInv
<1>3. CASE program' = program /\ UNCHANGED tracker
  BY <1>3 DEF MonosInv, tracker
<1>4. CASE FindRoot
  BY <1>3, <1>4 DEF FindRoot
<1>5. ASSUME NEW i \in Instance, NEW a \in Attr, EnterModule(i, a)
      PROVE  MonosInv'
  BY <1>3, <1>5 DEF EnterModule
<1>6. ASSUME NEW i \in Instance, NEW a \in Attr, VisitSlot(i, a)
      PROVE  MonosInv'
  BY <1>3, <1>6 DEF VisitSlot
<1>7. ASSUME NEW i \in Instance, LeaveModule(i)
      PROVE  MonosInv'
  BY <1>3, <1>7 DEF LeaveModule
<1>8. CASE VerifyPublic
  BY <1>3, <1>8 DEF VerifyPublic
<1>9. CASE CloneFunctions
  BY <1>3, <1>9 DEF CloneFunctions
<1>10. CASE UNCHANGED vars
  BY <1>3, <1>10 DEF vars
<1> QED
  BY <1>1, <1>2, <1>4, <1>5, <1>6, <1>7, <1>8, <1>9, <1>10 DEF Next

LEMMA MonosCorrect == Spec => [](TraverseInv /\ MonosInv)
<1>1. Init => TraverseInv /\ MonosInv
  BY InitTraverse DEF Init, MonosInv
<1>2. TraverseInv /\ MonosInv /\ [Next]_vars => (TraverseInv /\ MonosInv)'
  BY NextTraverse, NextMonos
<1> QED BY <1>1, <1>2, PTL DEF Spec

\* For every verified program every variable has its type; in particular each
\* clone gets as many instances as its function has arguments.
THEOREM TypeCorrect == Spec => []TypeOK
<1>1. TraverseInv /\ MonosInv => TypeOK
  <2> SUFFICES ASSUME TraverseInv, MonosInv PROVE TypeOK
    OBVIOUS
  <2>1. program \in Programs /\ ModuleAttr \subseteq Attr /\ program \in ProgramIR
    BY ProgramsAssumption DEF TraverseInv, TraversalTypes
  <2>2. ASSUME NEW path \in Seq(ModuleAttr), NEW x \in Attr \cup Func
        PROVE  Append(path, x) \in Name
    <3>1. PICK N : N = Attr \cup Func
      OBVIOUS
    <3>2. path \in Seq(N) /\ x \in N
      BY <2>1, <3>1
    <3>3. Append(path, x) \in Seq(N)
      BY <3>2
    <3> QED BY <3>1, <3>3 DEF Name
  <2>3. \A s \in seen : s[1] \in Instance /\ s[2] \in Seq(ModuleAttr)
    BY DEF TraverseInv, PathsAreRight, LeadsTo
  <2>4. \A g \in globalSlots : g[1] \in Instance /\ g[2] \in Attr /\ g[3] \in Name
    <3>1. ASSUME NEW g \in globalSlots
          PROVE  g[1] \in Instance /\ g[2] \in Attr /\ g[3] \in Name
      <4>1. g[2] \in Attr /\ IsPathOf(program, g)
        BY DEF TraverseInv, PathsAreRight
      <4>2. PICK path : LeadsTo(program, path, g[1]) /\ g[3] = Append(path, g[2])
        BY <4>1 DEF IsPathOf
      <4> QED BY <2>2, <4>1, <4>2 DEF IsPathOf, LeadsTo
    <3> QED BY <3>1
  <2>5. ASSUME NEW l \in linkage
        PROVE  l[1] \in Instance /\ l[2] \in Func /\ l[3] \in Name
    <3>1. l[1] \in Instance /\ l[2] \in program.methods[program.class[l[1]]]
      BY DEF TraverseInv, PathsAreRight, IsPathOf
    <3>2. l[2] \in Func
      BY <2>1, <3>1, ProgramType
    <3>3. l[3] \in Name
      <4>1. IsPathOf(program, l)
        BY DEF TraverseInv, PathsAreRight
      <4>2. PICK path : LeadsTo(program, path, l[1]) /\ l[3] = Append(path, l[2])
        BY <4>1 DEF IsPathOf
      <4>3. path \in Seq(ModuleAttr)
        BY <4>2 DEF LeadsTo
      <4> QED BY <2>2, <3>2, <4>2, <4>3
    <3> QED BY <3>1, <3>2, <3>3
  <2> QED
    BY <2>1, <2>3, <2>4, <2>5 DEF TypeOK, TraverseInv, TraversalTypes, MonosInv, MonoOK, Frame
<1> QED BY <1>1, MonosCorrect, PTL

(***************************************************************************)
(* The resulting module is well-formed.                                    *)
(***************************************************************************)
FunctionsInv ==
  phase = "done" =>
    functions = {RewrittenClone(program, globalSlots, linkage, m) : m \in monos}

LEMMA NextFunctions == FunctionsInv /\ [Next]_vars => FunctionsInv'
<1> SUFFICES ASSUME FunctionsInv, [Next]_vars, phase' = "done" PROVE FunctionsInv'
  BY DEF FunctionsInv
<1>1. CASE CloneFunctions
  <2>1. /\ functions' = {RewrittenClone(program, globalSlots, linkage, m) : m \in monos}
        /\ program' = program /\ globalSlots' = globalSlots /\ linkage' = linkage /\ monos' = monos
    BY <1>1 DEF CloneFunctions, traversal, tracker
  <2> QED BY <2>1 DEF FunctionsInv
<1>2. CASE UNCHANGED vars
  <2>1. /\ functions' = functions /\ phase' = phase
        /\ program' = program /\ globalSlots' = globalSlots /\ linkage' = linkage /\ monos' = monos
    BY <1>2 DEF vars, traversal, tracker
  <2> QED BY <2>1 DEF FunctionsInv
<1>3. CASE FindRoot
  BY <1>3 DEF FindRoot
<1>4. ASSUME NEW i \in Instance, NEW a \in Attr, EnterModule(i, a)
      PROVE  FunctionsInv'
  BY <1>4 DEF EnterModule, AtAttr
<1>5. ASSUME NEW i \in Instance, NEW a \in Attr, VisitSlot(i, a)
      PROVE  FunctionsInv'
  BY <1>5 DEF VisitSlot, AtAttr
<1>6. ASSUME NEW i \in Instance, LeaveModule(i)
      PROVE  FunctionsInv'
  BY <1>6 DEF LeaveModule
<1>7. CASE StartTracker
  BY <1>7 DEF StartTracker
<1>8. ASSUME NEW m \in dirty, TrackCalls(m)
      PROVE  FunctionsInv'
  BY <1>8 DEF TrackCalls
<1>9. CASE VerifyPublic
  BY <1>9 DEF VerifyPublic
<1> QED
  BY <1>1, <1>2, <1>3, <1>4, <1>5, <1>6, <1>7, <1>8, <1>9 DEF Next

ResultInv == TraverseInv /\ TourInv /\ TrackerInv /\ MonosInv /\ FunctionsInv

LEMMA ResultCorrect == Spec => []ResultInv
<1>1. Init => ResultInv
  BY InitTraverse, InitTour, InitTracker DEF Init, MonosInv, FunctionsInv, ResultInv
<1>2. ResultInv /\ [Next]_vars => ResultInv'
  BY NextTraverse, NextTour, NextTracker, NextMonos, NextFunctions DEF ResultInv
<1> QED BY <1>1, <1>2, PTL DEF Spec

\* Every access of a clone has a slot: the traversal came by it and found it used.
LEMMA SlotExists ==
  ASSUME TraverseInv, TourInv, Traversed, NEW m, MonoOK(program, m),
         NEW o \in OpsOf(program, m, "access")
  PROVE  \E g \in globalSlots :
           g[3] = GlobalSlotFor(globalSlots, InstanceAt(program, m, o.receiver), o.attr)
<1>0. program \in Programs
  BY DEF TraverseInv, TraversalTypes
<1>1. o \in OpIR /\ o.kind = "access" /\ IsTypedOp(program, m.func, o)
  BY <1>0, OpIsTyped
<1>2. PICK i : i = InstanceAt(program, m, o.receiver)
  OBVIOUS
<1>3. /\ o.receiver \in AccessPath /\ IsTypedPath(program, m.func, o.receiver)
      /\ HasAttr(program, ClassAt(program, m.func, o.receiver), o.attr) /\ o.attr \notin ModuleAttr
  BY <1>1 DEF IsTypedOp, OpIR
<1>4. i \in Instance /\ program.class[i] = ClassAt(program, m.func, o.receiver)
  BY <1>0, <1>2, <1>3, PathInstance
<1>5. IsUsedSlot(program, i, o.attr)
  <2>1. m.func \in Func
    BY DEF MonoOK, Monomorphization
  <2>2. o \in {x \in program.body[m.func] : x.kind = "access"}
    BY <1>1 DEF OpsOf
  <2> QED BY <1>4, <2>1, <2>2 DEF IsUsedSlot, AccessedAttrs, ClassAt
<1>6. PICK j \in DOMAIN AttrsOf(program, i) : AttrsOf(program, i)[j] = o.attr
  BY <1>3, <1>4 DEF HasAttr, AttrsOf
<1>7. IsHandled(i, j)
  <2>1. PICK s \in seen : s[1] = i
    BY <1>4, AllSeen
  <2> QED BY <2>1, AllIsHandled
<1>8. \E g \in globalSlots : g[1] = i /\ g[2] = o.attr
  BY <1>3, <1>5, <1>6, <1>7 DEF IsHandled
<1> QED BY <1>2, <1>8 DEF GlobalSlotFor

\* Names of the same root are equal only for the same owner and last part.
LEMMA SamePath ==
  ASSUME TraverseInv, TourInv, Traversed, NEW x, IsPathOf(program, x),
         NEW y, IsPathOf(program, y), x[3] = y[3]
  PROVE  x[1] = y[1] /\ x[2] = y[2]
<1>1. PICK p : LeadsTo(program, p, x[1]) /\ x[3] = Append(p, x[2])
  BY DEF IsPathOf
<1>2. PICK q : LeadsTo(program, q, y[1]) /\ y[3] = Append(q, y[2])
  BY DEF IsPathOf
<1>3. Pop(x[3]) = p /\ x[3][Len(x[3])] = x[2]
  BY <1>1, PopAppend DEF LeadsTo
<1>4. Pop(y[3]) = q /\ y[3][Len(y[3])] = y[2]
  BY <1>2, PopAppend DEF LeadsTo
<1>5. p = q /\ x[2] = y[2]
  BY <1>3, <1>4
<1>6. PICK root \in Instance : Roots(program) = {root}
  BY DEF TourInv, Traversed
<1> QED BY <1>1, <1>2, <1>5, <1>6 DEF LeadsTo

\* What torch.class_type's verifier does not ask for, but names rely on.
MethodsTakeOneModule ==
  \A p \in Programs : \A c \in Class : \A f \in p.methods[c] : Len(p.params[f]) = 1

IsLinked(m) == m.instances # <<>> /\ \E l \in linkage : l[1] = m.instances[1] /\ l[2] = m.func

LEMMA LinkOf ==
  ASSUME TraverseInv, MethodsTakeOneModule, NEW m, MonoOK(program, m), IsLinked(m)
  PROVE  /\ Len(m.instances) = 1
         /\ \E l \in linkage : /\ IsPathOf(program, l) /\ NameOf(linkage, m) = l[3]
                               /\ l[1] = m.instances[1] /\ l[2] = m.func
<1>0. program \in Programs
  BY DEF TraverseInv, TraversalTypes
<1>1. PICK l \in linkage : /\ l[1] = m.instances[1] /\ l[2] = m.func
                           /\ NameOf(linkage, m) = l[3]
  BY DEF IsLinked, NameOf
<1>2. IsPathOf(program, l) /\ l[2] \in program.methods[program.class[l[1]]]
  BY DEF TraverseInv, PathsAreRight
<1>3. Len(program.params[m.func]) = 1
  <2>1. program.class[l[1]] \in Class
    BY <1>0, <1>2, ProgramType DEF IsPathOf
  <2> QED BY <1>0, <1>1, <1>2, <2>1 DEF MethodsTakeOneModule
<1> QED BY <1>1, <1>2, <1>3 DEF MonoOK

\* A link gives a name that ends in a function, a suffix one that does not.
LEMMA LinkedIsNotSuffixed ==
  ASSUME TraverseInv, MethodsTakeOneModule, NEW m, MonoOK(program, m), IsLinked(m),
         NEW n, MonoOK(program, n), ~ IsLinked(n)
  PROVE  NameOf(linkage, m) # NameOf(linkage, n)
<1>1. PICK l \in linkage : /\ IsPathOf(program, l) /\ NameOf(linkage, m) = l[3] /\ l[2] = m.func
  BY LinkOf
<1>2. PICK path : path \in Seq(ModuleAttr) /\ l[3] = Append(path, m.func)
  BY <1>1 DEF IsPathOf, LeadsTo
<1>3. l[3][Len(l[3])] = m.func
  BY <1>2, PopAppend
<1>4. NameOf(linkage, n) = <<n>>
  BY DEF IsLinked, NameOf
<1>5. <<n>>[Len(<<n>>)] = n
  OBVIOUS
<1>6. m.func \in Func /\ n \in Monomorphization
  BY DEF MonoOK, Monomorphization
<1> QED BY <1>1, <1>3, <1>4, <1>5, <1>6, ProgramsAssumption

LEMMA NamesOfClonesDiffer ==
  ASSUME TraverseInv, TourInv, Traversed, MethodsTakeOneModule,
         NEW m, MonoOK(program, m), NEW n, MonoOK(program, n),
         NameOf(linkage, m) = NameOf(linkage, n)
  PROVE  m = n
<1>1. CASE IsLinked(m) /\ IsLinked(n)
  <2>1. PICK l \in linkage : /\ IsPathOf(program, l) /\ NameOf(linkage, m) = l[3]
                             /\ l[1] = m.instances[1] /\ l[2] = m.func
    BY <1>1, LinkOf
  <2>2. PICK k \in linkage : /\ IsPathOf(program, k) /\ NameOf(linkage, n) = k[3]
                             /\ k[1] = n.instances[1] /\ k[2] = n.func
    BY <1>1, LinkOf
  <2>3. m.instances[1] = n.instances[1] /\ m.func = n.func
    <3>1. l[3] = k[3]
      BY <2>1, <2>2
    <3>2. l[1] = k[1] /\ l[2] = k[2]
      BY <2>1, <2>2, <3>1, SamePath
    <3> QED BY <2>1, <2>2, <3>2
  <2>4. Len(m.instances) = 1 /\ Len(n.instances) = 1
    BY <1>1, LinkOf
  <2>5. m \in Monomorphization /\ n \in Monomorphization
    BY DEF MonoOK
  <2>6. m.instances = n.instances
    <3>1. m.instances \in Seq(Instance) /\ n.instances \in Seq(Instance)
      BY <2>5 DEF Monomorphization
    <3> QED BY <2>3, <2>4, <3>1
  <2> QED BY <2>3, <2>5, <2>6 DEF Monomorphization
<1>2. CASE ~ IsLinked(m) /\ ~ IsLinked(n)
  <2>1. NameOf(linkage, m) = <<m>> /\ NameOf(linkage, n) = <<n>>
    BY <1>2 DEF IsLinked, NameOf
  <2>2. <<m>>[1] = m /\ <<n>>[1] = n
    OBVIOUS
  <2> QED BY <2>1, <2>2
<1>3. CASE IsLinked(m) /\ ~ IsLinked(n)
  BY <1>3, LinkedIsNotSuffixed
<1>4. CASE ~ IsLinked(m) /\ IsLinked(n)
  BY <1>4, LinkedIsNotSuffixed
<1> QED BY <1>1, <1>2, <1>3, <1>4

\* For every program whose methods take one module each, the module that results
\* is well-formed: the asserts of rewriteMonomorphizedFuncClone do not fire, and
\* the symbols that are put into the module are distinct.
THEOREM WellFormed ==
  ASSUME MethodsTakeOneModule
  PROVE  Spec => []ModuleIsWellFormed
<1>1. ASSUME ResultInv, phase = "done"
      PROVE  ModuleIsWellFormed
  <2>1. /\ TraverseInv /\ TourInv /\ Traversed /\ program \in Programs
        /\ \A m \in monos : MonoOK(program, m) /\ CallsOf(program, m) \subseteq monos
        /\ functions = {RewrittenClone(program, globalSlots, linkage, m) : m \in monos}
    BY <1>1 DEF ResultInv, Traversed, MonosInv, TrackerInv, Tracking, FunctionsInv,
                TraverseInv, TraversalTypes
  <2>2. ASSUME NEW m \in monos
        PROVE  /\ RewrittenClone(program, globalSlots, linkage, m).calls
                    \subseteq {g.name : g \in functions}
               /\ RewrittenClone(program, globalSlots, linkage, m).slots
                    \subseteq {g[3] : g \in globalSlots}
    <3>1. \A c \in CallsOf(program, m) : \E g \in functions : g.name = NameOf(linkage, c)
      <4> TAKE c \in CallsOf(program, m)
      <4>1. RewrittenClone(program, globalSlots, linkage, c) \in functions
        BY <2>1
      <4> QED BY <4>1 DEF RewrittenClone
    <3>2. RewrittenClone(program, globalSlots, linkage, m).calls
            = {NameOf(linkage, c) : c \in CallsOf(program, m)}
      BY DEF RewrittenClone
    <3>3. RewrittenClone(program, globalSlots, linkage, m).slots
            = {GlobalSlotFor(globalSlots, InstanceAt(program, m, o.receiver), o.attr)
                 : o \in OpsOf(program, m, "access")}
      BY DEF RewrittenClone
    <3>4. \A o \in OpsOf(program, m, "access") :
            \E g \in globalSlots :
              g[3] = GlobalSlotFor(globalSlots, InstanceAt(program, m, o.receiver), o.attr)
      BY <2>1, SlotExists
    <3> QED BY <3>1, <3>2, <3>3, <3>4
  <2>3. ASSUME NEW f \in functions, NEW g \in functions, f.name = g.name
        PROVE  f = g
    <3>1. PICK m \in monos : f = RewrittenClone(program, globalSlots, linkage, m)
      BY <2>1
    <3>2. PICK n \in monos : g = RewrittenClone(program, globalSlots, linkage, n)
      BY <2>1
    <3>3. f.name = NameOf(linkage, m) /\ g.name = NameOf(linkage, n)
      BY <3>1, <3>2 DEF RewrittenClone
    <3>4. m = n
      BY <2>1, <2>3, <3>3, NamesOfClonesDiffer
    <3> QED BY <3>1, <3>2, <3>4
  <2>4. ASSUME NEW g \in globalSlots, NEW h \in globalSlots, g[3] = h[3]
        PROVE  g = h
    <3>1. /\ g = <<g[1], g[2], g[3]>> /\ IsPathOf(program, g)
          /\ h = <<h[1], h[2], h[3]>> /\ IsPathOf(program, h)
      BY <2>1 DEF TraverseInv, PathsAreRight
    <3>2. g[1] = h[1] /\ g[2] = h[2]
      BY <2>1, <2>4, <3>1, SamePath
    <3> QED BY <2>4, <3>1, <3>2
  <2> QED BY <2>1, <2>2, <2>3, <2>4 DEF ModuleIsWellFormed
<1>2. ResultInv => ModuleIsWellFormed
  BY <1>1 DEF ModuleIsWellFormed
<1> QED BY <1>2, ResultCorrect, PTL
=============================================================================
