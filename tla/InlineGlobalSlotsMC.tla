------------------------- MODULE InlineGlobalSlotsMC -------------------------
(***************************************************************************)
(* Small modules for model checking torch-inline-global-slots: two slots,  *)
(* two initial values (the second may be a list that contains the first),  *)
(* and a function of BodyLen ops, each chosen among every kind of use of   *)
(* every value defined before it.                                          *)
(***************************************************************************)
EXTENDS InlineGlobalSlotsSemantics, TLC

CONSTANTS
  A, B,          (* The two slots.                                         *)
  BodyLen,       (* Ops of the function.                                   *)
  SlotsFirst,    (* Are slots declared before the function that uses them? *)
  WithYields,    (* May the function contain a torch.prim.If?              *)
  Variants       (* What the second initial value contains, which initial  *)
                 (* values A and B are given, which slots are public, and  *)
                 (* which initial values are of an immutable type.         *)

MCSlot == {A, B}
MCNumOps == 5 + BodyLen

\* Ops 1 to 3 are the initializer, the order globalize-object-graph leaves.
Body == IF SlotsFirst THEN 6 .. 5 + BodyLen ELSE 4 .. 3 + BodyLen
SlotOp(s) == (IF SlotsFirst THEN 4 ELSE 4 + BodyLen) + (IF s = A THEN 0 ELSE 1)

\* The result of op o is called o.
MCValue == {1, 2} \cup Body

MkOp(kind, args, results, sym, forwards) ==
  [kind |-> kind, args |-> args, results |-> results, sym |-> sym,
   forwards |-> forwards]

UsesOf(o) ==
  LET before == {p \in Body : p < o}
  IN  {MkOp("get", {}, {o}, {s}, {}) : s \in MCSlot}
        \cup {MkOp(k, {p}, {o}, {}, {}) : k \in {"pure", "value", "effect"},
                                          p \in before}
        \cup {MkOp("set", {p}, {}, {s}, {}) : s \in MCSlot, p \in before}
        \cup (IF WithYields
              THEN {MkOp("pure", {p}, {}, {}, {o + 1}) : p \in before}
                     \cup {MkOp("region", {}, {o}, {}, {})}
              ELSE {})

WellFormed(body) ==
  \A o \in Body :
    /\ \A p \in body[o].args : p \in body[p].results
    /\ body[o].forwards # {} => (o + 1) \in Body /\ body[o + 1].kind = "region"
    /\ body[o].kind = "region" =>
         (o - 1) \in Body /\ body[o - 1].forwards # {}

Bodies ==
  LET prefixes[n \in 0 .. BodyLen] ==
        IF n = 0 THEN {<<>>}
        ELSE LET o == (CHOOSE x \in Body : \A y \in Body : x <= y) + n - 1
             IN  {b @@ (o :> u) : b \in prefixes[n - 1], u \in UsesOf(o)}
  IN  {b \in prefixes[BodyLen] : WellFormed(b)}

MCModule(second, body, initA, initB, public, immutable) ==
  [ops |-> [o \in 1 .. MCNumOps |->
              CASE o = 1 -> MkOp("pure", {}, {1}, {}, {})
                [] o = 2 -> MkOp("pure", second, {2}, {}, {})
                [] o = 3 -> MkOp("init", {initA, initB}, {}, {}, {})
                [] o = SlotOp(A) -> MkOp("slot", {}, {}, {A}, {})
                [] o = SlotOp(B) -> MkOp("slot", {}, {}, {B}, {})
                [] OTHER -> body[o]],
   initial |-> {<<A, initA>>, <<B, initB>>},
   public  |-> public,
   trivial |-> immutable
                 \cup {o \in Body : body[o].kind = "get" /\
                        (IF body[o].sym = {A} THEN initA ELSE initB) \in immutable}]

\* Two initial values, one that contains the other, and one that both slots
\* share; a slot may be public, an initial value immutable.
AllVariants ==
  {<<{}, 1, 2, {}, {}>>, <<{1}, 1, 2, {}, {}>>, <<{1}, 2, 2, {}, {}>>,
   <<{1}, 2, 2, {A}, {}>>, <<{1}, 1, 2, {}, {1}>>}
OneVariant == {<<{}, 1, 2, {}, {}>>}

MCModules ==
  {MCModule(v[1], body, v[2], v[3], v[4], v[5]) : v \in Variants, body \in Bodies}
=============================================================================
