------------------------- MODULE GlobalizeObjectGraph -------------------------
(***************************************************************************)
(* The torch-globalize-object-graph pass.  A graph of torch.nn_module      *)
(* instances and the functions that take them as arguments are turned into *)
(* global slots and functions without such arguments: the graph is         *)
(* traversed from its root to name what it contains, and every function is *)
(* cloned for each combination of instances it is called with.             *)
(*                                                                         *)
(* Arguments, attributes and results that are not modules are left out of  *)
(* functions, but for the accesses to the attributes of modules.  A value  *)
(* of module type is an access path: an argument followed by the           *)
(* attributes that PrimGetAttrOps read from it.                            *)
(***************************************************************************)
EXTENDS Naturals, Sequences, FiniteSets

CONSTANTS
  Instance,    (* Results of torch.nn_module ops.                          *)
  Class,       (* Symbols of torch.class_type ops.                         *)
  Attr,        (* Names of attributes.                                     *)
  ModuleAttr,  (* The names of the attributes that are modules.            *)
  Func,        (* Symbols of functions.                                    *)
  Programs     (* The programs the pass may be run on.                     *)

AccessPath == [param : Nat, attrs : Seq(ModuleAttr)]

(***************************************************************************)
(* "access"  a PrimGetAttrOp or PrimSetAttrOp of an attribute of receiver  *)
(*           that is not a module                                          *)
(* "call"    func.call of callee with the modules args                     *)
(* "other"   any other op that uses a module                               *)
(***************************************************************************)
OpIR == [kind : {"access", "call", "other"}, receiver : AccessPath,
         attr : Attr, callee : Func, args : Seq(AccessPath)]

ProgramIR ==
  [class     : [Instance -> Class],
   attrs     : [Class -> Seq(Attr)],
   child     : [Instance \X ModuleAttr -> Instance],
   attrClass : [Class \X ModuleAttr -> Class],
   params    : [Func -> Seq(Class)],
   body      : [Func -> SUBSET OpIR],
   methods   : [Class -> SUBSET Func],
   private   : SUBSET Func]

\* A function and an instance for each of its arguments.
Monomorphization == [func : Func, instances : Seq(Instance)]

ASSUME ProgramsAssumption ==
  /\ ModuleAttr \subseteq Attr
  /\ Programs \subseteq ProgramIR
  /\ IsFiniteSet(Instance)
  /\ \A f \in Func : f \notin Monomorphization

VARIABLES
  program,     (* The program, never changed.                              *)
  phase,       (* "start", "traverse", "monomorphize", "clone", "done" or  *)
               (* "failed".                                                *)
  frames,      (* The activations of recursivelyTraverse, and the          *)
               (* attribute each has to look at next.                      *)
  nameStack,   (* The attributes on the way from the root.                 *)
  seen,        (* <<i, path>>: instance i was found at path.               *)
  globalSlots, (* <<i, a, name>>: attribute a of i has global slot name.   *)
  linkage,     (* <<i, f, name>>: method f of i is to be called name.      *)
  monos,       (* The monomorphizations that are needed.                   *)
  dirty,       (* Those whose calls have not been looked at.               *)
  functions    (* The functions of the resulting module.                   *)

traversal == <<frames, nameStack, seen, globalSlots, linkage>>
tracker == <<monos, dirty>>
vars == <<program, phase, traversal, tracker, functions>>

-----------------------------------------------------------------------------
(* The object graph of a program p.                                        *)

\* The attributes of instance i, in order.
AttrsOf(p, i) == p.attrs[p.class[i]]

ModuleAttrsOf(p, i) ==
  {AttrsOf(p, i)[k] : k \in DOMAIN AttrsOf(p, i)} \cap ModuleAttr

\* Pairs of an instance and an attribute that holds instance i.
Holders(p, i) ==
  {h \in Instance \X ModuleAttr : h[2] \in ModuleAttrsOf(p, h[1]) /\ p.child[h] = i}

\* Modules without uses.
Roots(p) == {i \in Instance : Holders(p, i) = {}}

\* What is reached from x by attrs, when link has what every attribute leads to.
Walk(link, x, attrs) ==
  LET at[k \in 0 .. Len(attrs)] == IF k = 0 THEN x ELSE link[<<at[k - 1], attrs[k]>>]
  IN  at[Len(attrs)]

\* The instance found by following attrs from i.
Follow(p, i, attrs) == Walk(p.child, i, attrs)

\* The class of what is found by following attrs from an instance of class c.
FollowClass(p, c, attrs) == Walk(p.attrClass, c, attrs)

(***************************************************************************)
(* What is known of a program before the pass.  A slot holds an instance   *)
(* of the class its attribute declares (NnModuleOp::verifySymbolUses), and *)
(* an nn_module is an operand of later ones only.  Accesses are to         *)
(* attributes that their class has, which the importer makes so (the pass  *)
(* reports others and reads past the end of a map), and calls pass what    *)
(* the callee's type says.                                                 *)
(***************************************************************************)
HasAttr(p, c, a) == \E k \in DOMAIN p.attrs[c] : p.attrs[c][k] = a

IsTypedGraph(p) ==
  \A i \in Instance : \A a \in ModuleAttrsOf(p, i) :
    p.class[p.child[<<i, a>>]] = p.attrClass[<<p.class[i], a>>]

\* In every set of modules there is one that the others do not hold.
IsAcyclic(p) ==
  \A S \in SUBSET Instance :
    S # {} => \E i \in S : \A h \in Holders(p, i) : h[1] \notin S

IsTypedPath(p, f, path) ==
  /\ path.param \in DOMAIN p.params[f]
  /\ \A k \in DOMAIN path.attrs :
       HasAttr(p, FollowClass(p, p.params[f][path.param], SubSeq(path.attrs, 1, k - 1)), path.attrs[k])

ClassAt(p, f, path) == FollowClass(p, p.params[f][path.param], path.attrs)

IsTypedOp(p, f, o) ==
  /\ o.kind = "access" =>
       /\ IsTypedPath(p, f, o.receiver)
       /\ HasAttr(p, ClassAt(p, f, o.receiver), o.attr)
       /\ o.attr \notin ModuleAttr
  /\ o.kind = "call" =>
       /\ Len(o.args) = Len(p.params[o.callee])
       /\ \A k \in DOMAIN o.args : /\ IsTypedPath(p, f, o.args[k])
                                   /\ ClassAt(p, f, o.args[k]) = p.params[o.callee][k]

ASSUME ProgramsAreVerified ==
  \A p \in Programs :
    IsTypedGraph(p) /\ IsAcyclic(p) /\ \A f \in Func : \A o \in p.body[f] : IsTypedOp(p, f, o)

\* The classes and attributes that some function gets or sets.
AccessedAttrs(p) ==
  UNION {{<<FollowClass(p, p.params[f][o.receiver.param], o.receiver.attrs), o.attr>>
            : o \in {x \in p.body[f] : x.kind = "access"}} : f \in Func}

\* Mutant: only accesses to the arguments themselves count.
IsUsedByArgument(p, i, a) ==
  \E f \in Func : \E o \in p.body[f] :
    /\ o.kind = "access"
    /\ o.receiver.attrs = <<>>
    /\ p.params[f][o.receiver.param] = p.class[i]
    /\ o.attr = a

\* collectUsedSlots: any instance of a class may be reached by any access.
IsUsedSlot(p, i, a) == <<p.class[i], a>> \in AccessedAttrs(p)

-----------------------------------------------------------------------------
(* Monomorphization.                                                       *)

InstancesOf(p, c) == {i \in Instance : p.class[i] = c}

\* Functions that can only be called with one combination of instances.
CanTriviallyMonomorphize(p, f) ==
  \A k \in DOMAIN p.params[f] : Cardinality(InstancesOf(p, p.params[f][k])) = 1

Seeds(p) ==
  {[func |-> f,
    instances |-> [k \in DOMAIN p.params[f] |->
                     CHOOSE i \in Instance : p.class[i] = p.params[f][k]]]
     : f \in {g \in Func : CanTriviallyMonomorphize(p, g)}}

\* analyzeInstances: the instance that path stands for in m.
InstanceAt(p, m, path) == Follow(p, m.instances[path.param], path.attrs)

\* createMonomorphizationForCall, for the call o in m.
MonomorphizationForCall(p, m, o) ==
  [func |-> o.callee,
   instances |-> [k \in DOMAIN o.args |-> InstanceAt(p, m, o.args[k])]]

OpsOf(p, m, kind) == {o \in p.body[m.func] : o.kind = kind}

CallsOf(p, m) == {MonomorphizationForCall(p, m, o) : o \in OpsOf(p, m, "call")}

\* verifyFuncConformsToSubset.
ConformsToSubset(p) == \A f \in Func : \A o \in p.body[f] : o.kind # "other"

\* verifyPublicMonomorphizations: no public method has several.
PublicMethodsAreUnique(p, M) ==
  \A c \in Class : \A f \in p.methods[c] \ p.private :
    \A m, n \in M : m.func = f /\ n.func = f => m = n

-----------------------------------------------------------------------------
(* The resulting functions.                                                *)

GlobalSlotFor(slots, i, a) ==
  IF \E g \in slots : g[1] = i /\ g[2] = a
  THEN (CHOOSE g \in slots : g[1] = i /\ g[2] = a)[3]
  ELSE <<>>

\* Mutant: free functions keep their names.
NameWithoutSuffix(links, m) ==
  IF m.instances # <<>> /\ \E l \in links : l[1] = m.instances[1] /\ l[2] = m.func
  THEN (CHOOSE l \in links : l[1] = m.instances[1] /\ l[2] = m.func)[3]
  ELSE <<m.func>>

\* The name of the clone for m: the linkage name of a method of the first
\* instance, or the old name with a suffix that makes it unique.
NameOf(links, m) ==
  IF m.instances # <<>> /\ \E l \in links : l[1] = m.instances[1] /\ l[2] = m.func
  THEN (CHOOSE l \in links : l[1] = m.instances[1] /\ l[2] = m.func)[3]
  ELSE <<m>>

\* rewriteMonomorphizedFuncClone: accesses become accesses to global slots,
\* calls become calls of clones.
RewrittenClone(p, slots, links, m) ==
  [name  |-> NameOf(links, m),
   of    |-> m,
   slots |-> {GlobalSlotFor(slots, InstanceAt(p, m, o.receiver), o.attr)
                : o \in OpsOf(p, m, "access")},
   calls |-> {NameOf(links, n) : n \in CallsOf(p, m)}]

-----------------------------------------------------------------------------
Init ==
  /\ program \in Programs
  /\ phase = "start"
  /\ frames = <<>>
  /\ nameStack = <<>>
  /\ seen = {}
  /\ globalSlots = {}
  /\ linkage = {}
  /\ monos = {}
  /\ dirty = {}
  /\ functions = {}

\* findRootNnModule, and the call of recursivelyTraverse for the root.
FindRoot ==
  /\ phase = "start"
  /\ IF Cardinality(Roots(program)) = 1
     THEN /\ phase' = "traverse"
          /\ \E root \in Roots(program) :
               /\ frames' = <<[instance |-> root, next |-> 1]>>
               /\ seen' = {<<root, <<>>>>}
     ELSE phase' = "failed" /\ UNCHANGED <<frames, seen>>
  /\ UNCHANGED <<program, nameStack, globalSlots, linkage, tracker, functions>>

Top == frames[Len(frames)]

\* recursivelyTraverse is at attribute a of instance i.
AtAttr(i, a) ==
  /\ phase = "traverse"
  /\ frames # <<>>
  /\ Top.instance = i
  /\ Top.next \in DOMAIN AttrsOf(program, i)
  /\ a = AttrsOf(program, i)[Top.next]

NextAttr == [frames EXCEPT ![Len(frames)].next = @ + 1]

\* Mutant: a module is traversed again when another path leads to it.
EnterModuleAgain(i, a) ==
  /\ AtAttr(i, a)
  /\ a \in ModuleAttr
  /\ nameStack' = Append(nameStack, a)
  /\ frames' = Append(NextAttr, [instance |-> program.child[<<i, a>>], next |-> 1])
  /\ seen' = seen \cup {<<program.child[<<i, a>>], nameStack'>>}
  /\ UNCHANGED <<program, phase, globalSlots, linkage, tracker, functions>>

\* An attribute that is a module: traverse it, unless it was seen before.
EnterModule(i, a) ==
  /\ AtAttr(i, a)
  /\ a \in ModuleAttr
  /\ nameStack' = Append(nameStack, a)
  /\ IF \E s \in seen : s[1] = program.child[<<i, a>>]
     THEN phase' = "failed" /\ UNCHANGED <<frames, seen>>
     ELSE /\ frames' = Append(NextAttr, [instance |-> program.child[<<i, a>>],
                                         next     |-> 1])
          /\ seen' = seen \cup {<<program.child[<<i, a>>], nameStack'>>}
          /\ UNCHANGED phase
  /\ UNCHANGED <<program, globalSlots, linkage, tracker, functions>>

\* Any other attribute: a global slot is created if the slot is used.
VisitSlot(i, a) ==
  /\ AtAttr(i, a)
  /\ a \notin ModuleAttr
  /\ globalSlots' = IF IsUsedSlot(program, i, a)
                    THEN globalSlots \cup {<<i, a, Append(nameStack, a)>>}
                    ELSE globalSlots
  /\ frames' = NextAttr
  /\ UNCHANGED <<program, phase, nameStack, seen, linkage, tracker, functions>>

Pop(s) == SubSeq(s, 1, Len(s) - 1)

\* Mutant: the name stack is not restored.
LeaveModuleKeepingName(i) ==
  /\ phase = "traverse"
  /\ frames # <<>>
  /\ Top.instance = i
  /\ Top.next \notin DOMAIN AttrsOf(program, i)
  /\ linkage' = linkage \cup {<<i, f, Append(nameStack, f)>>
                                : f \in program.methods[program.class[i]]}
  /\ frames' = Pop(frames)
  /\ UNCHANGED <<program, phase, nameStack, seen, globalSlots, tracker, functions>>

\* After the last attribute: name the methods, and return to the caller, which
\* takes the attribute off the name stack.
LeaveModule(i) ==
  /\ phase = "traverse"
  /\ frames # <<>>
  /\ Top.instance = i
  /\ Top.next \notin DOMAIN AttrsOf(program, i)
  /\ linkage' = linkage \cup {<<i, f, Append(nameStack, f)>>
                                : f \in program.methods[program.class[i]]}
  /\ frames' = Pop(frames)
  /\ nameStack' = IF nameStack = <<>> THEN <<>> ELSE Pop(nameStack)
  /\ UNCHANGED <<program, phase, seen, globalSlots, tracker, functions>>

\* Mutant: the methods of all instances are seeds.
StartTrackerWithMethods ==
  /\ phase = "traverse"
  /\ frames = <<>>
  /\ IF ConformsToSubset(program)
     THEN /\ phase' = "monomorphize"
          /\ monos' = Seeds(program)
                        \cup {[func |-> l[2], instances |-> <<l[1]>>] : l \in linkage}
          /\ dirty' = monos'
     ELSE phase' = "failed" /\ UNCHANGED tracker
  /\ UNCHANGED <<program, traversal, functions>>

\* The functions are verified and the tracker is given its seeds.
StartTracker ==
  /\ phase = "traverse"
  /\ frames = <<>>
  /\ IF ConformsToSubset(program)
     THEN /\ phase' = "monomorphize"
          /\ monos' = Seeds(program)
          /\ dirty' = Seeds(program)
     ELSE phase' = "failed" /\ UNCHANGED tracker
  /\ UNCHANGED <<program, traversal, functions>>

\* Mutant: every monomorphization a call needs is looked at again.
TrackAllCalls(m) ==
  /\ phase = "monomorphize"
  /\ m \in dirty
  /\ monos' = monos \cup CallsOf(program, m)
  /\ dirty' = (dirty \ {m}) \cup CallsOf(program, m)
  /\ UNCHANGED <<program, phase, traversal, functions>>

\* Mutant: what is needed is recorded, but its own calls are not looked at.
TrackCallsOfSeeds(m) ==
  /\ phase = "monomorphize"
  /\ m \in dirty
  /\ monos' = monos \cup CallsOf(program, m)
  /\ dirty' = dirty \ {m}
  /\ UNCHANGED <<program, phase, traversal, functions>>

\* Mutant: what is needed is looked at, but not recorded.
TrackCallsUnrecorded(m) ==
  /\ phase = "monomorphize"
  /\ m \in dirty
  /\ dirty' = (dirty \ {m}) \cup (CallsOf(program, m) \ monos)
  /\ UNCHANGED <<program, phase, traversal, monos, functions>>

\* generateNewMonomorphizations; the order of dirty ones is left open.
TrackCalls(m) ==
  /\ phase = "monomorphize"
  /\ m \in dirty
  /\ monos' = monos \cup CallsOf(program, m)
  /\ dirty' = (dirty \ {m}) \cup (CallsOf(program, m) \ monos)
  /\ UNCHANGED <<program, phase, traversal, functions>>

VerifyPublic ==
  /\ phase = "monomorphize"
  /\ dirty = {}
  /\ phase' = IF PublicMethodsAreUnique(program, monos) THEN "clone" ELSE "failed"
  /\ UNCHANGED <<program, traversal, tracker, functions>>

\* Steps 5 and 6: functions are cloned and rewritten, all else is erased.
CloneFunctions ==
  /\ phase = "clone"
  /\ functions' = {RewrittenClone(program, globalSlots, linkage, m) : m \in monos}
  /\ phase' = "done"
  /\ UNCHANGED <<program, traversal, tracker>>

Next ==
  \/ FindRoot
  \/ \E i \in Instance, a \in Attr : EnterModule(i, a)
  \/ \E i \in Instance, a \in Attr : VisitSlot(i, a)
  \/ \E i \in Instance : LeaveModule(i)
  \/ StartTracker
  \/ \E m \in dirty : TrackCalls(m)
  \/ VerifyPublic
  \/ CloneFunctions

Spec == Init /\ [][Next]_vars

\* The pass runs on one thread and its loops have no exit but their end.
FairSpec == Spec /\ WF_vars(Next)

-----------------------------------------------------------------------------
(* Properties.                                                             *)

Name == Seq(Attr \cup Func)

\* Every variable has its type.
TypeOK ==
  /\ program \in ProgramIR
  /\ phase \in {"start", "traverse", "monomorphize", "clone", "done", "failed"}
  /\ frames \in Seq([instance : Instance, next : Nat \ {0}])
  /\ nameStack \in Seq(ModuleAttr)
  /\ \A s \in seen : s[1] \in Instance /\ s[2] \in Seq(ModuleAttr)
  /\ \A g \in globalSlots : g[1] \in Instance /\ g[2] \in Attr /\ g[3] \in Name
  /\ \A l \in linkage : l[1] \in Instance /\ l[2] \in Func /\ l[3] \in Name
  /\ \A m \in monos : m \in Monomorphization
  /\ dirty \subseteq monos

\* A set of monomorphizations that has the seeds and what its members call.
ClosedUnderCalls(p, M) ==
  /\ Seeds(p) \subseteq M
  /\ \A m \in M : CallsOf(p, m) \subseteq M

\* When the tracker has finished, whatever a monomorphization calls is there and
\* nothing else: the clones are the least set with the seeds and their calls, in
\* every order of the worklist.
TrackedAreLeast ==
  phase \in {"clone", "done"} =>
    /\ ClosedUnderCalls(program, monos)
    /\ \A M \in SUBSET monos : ClosedUnderCalls(program, M) => M = monos

\* "The call root.encoder.forward(...) corresponds to func @encoder.forward", and
\* likewise for slots: following a name from the root leads to its owner.
NamesAreAccessPaths ==
  \A root \in Roots(program) :
    \A x \in globalSlots \cup linkage :
      /\ Follow(program, root, Pop(x[3])) = x[1]
      /\ x[3][Len(x[3])] = x[2]

\* The pass only succeeds when every module has one path from the root.
SharedModulesAreRejected ==
  phase = "done" => \A i \in Instance : Cardinality(Holders(program, i)) <= 1

\* The resulting module is a module: every call and every access has its function
\* or global slot, as the pass asserts, and no two symbols have the same name.
ModuleIsWellFormed ==
  phase = "done" =>
    /\ \A f \in functions :
         /\ f.calls \subseteq {g.name : g \in functions}
         /\ f.slots \subseteq {g[3] : g \in globalSlots}
    /\ \A f, g \in functions : f.name = g.name => f = g
    /\ \A g, h \in globalSlots : g[3] = h[3] => g = h

\* The pass succeeds or fails, even when functions call each other recursively.
PassTerminates == <>(phase \in {"done", "failed"})
=============================================================================
