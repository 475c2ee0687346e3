------------------------------ MODULE FxImporter ------------------------------
(***************************************************************************)
(* FxImporter.import_program and import_frozen_program, which turn a       *)
(* torch.export program into a function: placeholders are bound to         *)
(* arguments, constants or values loaded at their first use, the nodes are *)
(* emitted in order, and a value that mutates an input or a buffer is      *)
(* stored by a callback when its node is bound.                            *)
(*                                                                         *)
(* The function is straight-line code and is executed as it is emitted: a  *)
(* value is what it will hold when the function runs.  <<n, i>> is what    *)
(* the program computes as result i of node n from the contents that its   *)
(* inputs, parameters and buffers have on entry.                           *)
(***************************************************************************)
EXTENDS Integers, Sequences, FiniteSets

CONSTANTS
  Graphs,      (* The graphs of the programs to import.                     *)
  Signatures,  (* Their signatures.                                         *)
  Importers,   (* The method that is called, and the hooks.                 *)
  Address      (* Where a temporary tensor may be allocated.                *)

(***************************************************************************)
(* The nodes of a program are the positions of kind.  "parameter",         *)
(* "buffer", "constant", "argument" (a constant that is no tensor) and     *)
(* "user" are placeholders.  "op" and "cat" are calls with one result, the *)
(* arguments of "cat" are in a list; "pair" is a call with two results,    *)
(* "hop" auto_functionalized with one tensor that it mutates, "list" a     *)
(* call that returns a list, and "getitem" takes one of these apart.       *)
(***************************************************************************)
Placeholder == {"parameter", "buffer", "constant", "argument", "user"}
Call == {"op", "cat", "pair", "hop", "list", "getitem"}
Kind == Placeholder \cup Call \cup {"get_attr"}

GraphIR ==
  [kind    : Seq(Kind),
   args    : Seq(Seq(Nat \ {0})),
   index   : Nat,                         (* Of the getitem nodes.          *)
   boolean : SUBSET Nat]                  (* Nodes that are tensors of bool.*)

\* What is mutated, <<input, node of its new value>>, and the nodes of the
\* results, 0 for a result that is a constant.
SignatureIR == [mutates : SUBSET (Nat \X Nat), outputs : Seq(Nat)]

ImporterIR == [entry : {"program", "frozen"}, hooks : {"default", "external"}]

ASSUME FxProgramsAssumption ==
  /\ Graphs \subseteq GraphIR
  /\ Signatures \subseteq SignatureIR
  /\ Importers \subseteq ImporterIR
  /\ \A s \in Signatures : IsFiniteSet(s.mutates)
  \* A temporary tensor is made while those of the program are alive.
  /\ \A g \in Graphs : Address \cap (1..Len(g.kind)) = {}

\* Nodes that make one tensor.
OneTensor(g) == {n \in 1..Len(g.kind) : g.kind[n] \in {"parameter", "buffer", "user", "op", "cat", "getitem"}}

\* What torch.export makes: calls use nodes before them, getitem a call with
\* several results, and only getitem one with a tuple of results, from which it
\* does not take the None; inputs and buffers are mutated, each once, by nodes
\* that make a tensor.
Exported(g, s) ==
  /\ Len(g.args) = Len(g.kind)
  /\ \A n \in 1..Len(g.kind) : \A i \in DOMAIN g.args[n] : g.args[n][i] \in 1..(n - 1)
  /\ \A n \in 1..Len(g.kind) : g.kind[n] = "getitem" =>
       Len(g.args[n]) = 1 /\ g.kind[g.args[n][1]] \in {"pair", "hop", "list"}
  /\ \A n \in 1..Len(g.kind) : \A i \in DOMAIN g.args[n] :
       /\ g.kind[n] \in Call
       /\ g.kind[g.args[n][i]] \in {"pair", "hop"} => g.kind[n] = "getitem"
       /\ g.kind[g.args[n][i]] = "hop" => g.index = 1
  /\ g.index \in {0, 1}
  /\ \A i \in DOMAIN s.outputs :
       s.outputs[i] # 0 => /\ s.outputs[i] \in 1..Len(g.kind)
                           /\ g.kind[s.outputs[i]] \notin {"pair", "hop"}
  /\ \A m \in s.mutates : /\ m[1] \in 1..Len(g.kind) /\ g.kind[m[1]] \in {"user", "buffer"}
                          /\ m[2] \in OneTensor(g)
                          /\ \A o \in s.mutates : o[1] = m[1] => o = m

VARIABLES
  program,     (* The program, never changed.                               *)
  todo,        (* The nodes still to bind or to import, in order.           *)
  operands,    (* The operands of the first of them imported so far.        *)
  v,           (* GraphNodeImporter._v.                                     *)
  onProduced,  (* _on_node_produced: the input that a node's value is       *)
               (* stored to.                                                *)
  unpacked,    (* _unpack_list_values.                                      *)
  attrs,       (* RefTracker._refs: the data known for the tensor at an     *)
               (* address.                                                  *)
  ir,          (* The loads, stores and unpackings emitted.                 *)
  contents,    (* What inputs and buffers hold at this point of ir.         *)
  results,     (* The operands of the return.                               *)
  status       (* "importing", "imported" or "raised".                      *)

vars == <<program, todo, operands, v, onProduced, unpacked, attrs, ir,
          contents, results, status>>

-----------------------------------------------------------------------------
Node == 1..Len(program.kind)

\* The output node, and the node of a result that is a constant.
Output == 0
NoNode == 0

Empty == <<>>
Unbound == <<>>
Lazy == <<0>>              \* A callable that will make the value.
None == <<0, 0>>           \* A result that is Python's None.
Wrong == <<0, 1>>          \* The result of an op on the wrong operands.

Value == Nat \X Nat
Binding == Value \cup {Unbound, Lazy}

\* The nodes of the set S in the order of the graph.
Ordered(p, S) ==
  LET upTo[n \in 0..Len(p.kind)] ==
        IF n = 0 THEN <<>>
        ELSE IF n \in S THEN Append(upTo[n - 1], n)
        ELSE upTo[n - 1]
  IN  upTo[Len(p.kind)]

\* The nodes of the kinds K in the order of the graph.
InOrder(p, K) == Ordered(p, {n \in 1..Len(p.kind) : p.kind[n] \in K})

\* What import_program and import_stateless_graph go over, in their order.
\* A frozen program has no placeholders for parameters and constants.
Schedule(p) ==
  IF p.entry = "program"
  THEN InOrder(p, {"constant"}) \o InOrder(p, {"argument"}) \o InOrder(p, {"user"})
         \o InOrder(p, {"parameter"}) \o InOrder(p, {"buffer"})
         \o InOrder(p, Call) \o <<Output>>
  ELSE InOrder(p, {"user", "buffer", "argument"}) \o InOrder(p, Call) \o <<Output>>

\* The signature's user_inputs_to_mutate, inverted: its keys are the producers,
\* the last input with a producer is the one that is kept.
MutatedUserInputs ==
  {m \in program.mutates :
     /\ program.kind[m[1]] = "user"
     /\ \A o \in program.mutates : program.kind[o[1]] = "user" /\ o[2] = m[2] => o[1] <= m[1]}

\* mutable_buffer_target_producers.
MutableBuffers == {m \in program.mutates : program.kind[m[1]] = "buffer"}

\* The operands of the return: the output node of a graph has the values of
\* the mutations before the results.
OutputArgs ==
  IF program.entry = "program" THEN program.outputs
  ELSE LET mutated == Ordered(program, {m[1] : m \in program.mutates})
       IN  [i \in 1..Len(mutated) |->
              (CHOOSE m \in program.mutates : m[1] = mutated[i])[2]] \o program.outputs

Args(n) == IF n = Output THEN OutputArgs ELSE program.args[n]

\* The value that the exported program gives to a node.
Meaning(n) ==
  IF program.kind[n] = "getitem"
  THEN LET ref == program.args[n][1]
       IN  <<ref, program.index + (IF program.kind[ref] = "list" THEN 1 ELSE 0)>>
  ELSE <<n, 0>>

Init ==
  /\ \E g \in Graphs, s \in Signatures, c \in Importers :
       /\ Exported(g, s)
       /\ program = [kind |-> g.kind, args |-> g.args, index |-> g.index, boolean |-> g.boolean,
                     mutates |-> s.mutates, outputs |-> s.outputs,
                     entry |-> c.entry, hooks |-> c.hooks]
  /\ todo = Schedule(program)
  /\ operands = <<>>
  /\ v = [k \in Node \X {0, 1} |-> Unbound]
  /\ onProduced = [n \in Node |-> Output]
  /\ unpacked = {}
  /\ attrs = [a \in Node \cup Address |-> Empty]
  /\ ir = <<>>
  /\ contents = [n \in Node |-> <<n, 0>>]
  /\ results = <<>>
  /\ status = "importing"

-----------------------------------------------------------------------------
Current == Head(todo)
Importing(kinds) ==
  status = "importing" /\ Current \in Node /\ program.kind[Current] \in kinds

Raise ==
  /\ status' = "raised"
  /\ UNCHANGED <<program, todo, operands, v, onProduced, unpacked, attrs, ir,
                 contents, results>>

(***************************************************************************)
(* RefTracker.  The data of a tensor is found by the tensor's address.  A  *)
(* tensor of bool is converted to a temporary tensor, which is gone when   *)
(* its literal has been made; all others live as long as the program.      *)
(***************************************************************************)
\* Mutant: every literal is made of a temporary tensor.
AddressesOfTemporaries(n) == Address

Addresses(n) == IF n \in program.boolean THEN Address ELSE {n}

\* Mutant: the data is not put into an empty mapping.
LiteralOfUnknown(n, a) == attrs[a]

LiteralOf(n, a) == IF attrs[a] = Empty THEN <<n, 0>> ELSE attrs[a]
Tracked(n, a) == [attrs EXCEPT ![a] = LiteralOf(n, a)]

\* What bind_node_value asserts, and the callbacks do not accept.
BindFails(n, values) ==
  \/ v[<<n, 0>>] # Unbound
  \/ /\ onProduced[n] # Output
     /\ \/ \E i \in DOMAIN values : values[i] \in {Lazy, None}
        \/ program.hooks = "default" /\ program.kind[onProduced[n]] = "buffer"

\* Mutant: the callback is looked up under the input, not its new value.
RegisteredUnderTarget(target, producer) == [onProduced EXCEPT ![target] = target]
Registered(target, producer) == [onProduced EXCEPT ![producer] = target]

\* bind_node_value for each result of n, when ops have been emitted for it.
BindNodeValues(n, values, ops) ==
  /\ ~ BindFails(n, values)
  /\ v' = [k \in DOMAIN v |->
             IF k[1] = n /\ k[2] < Len(values) THEN values[k[2] + 1] ELSE v[k]]
  /\ IF onProduced[n] = Output
     THEN ir' = ir \o ops /\ UNCHANGED contents
     ELSE /\ ir' = ir \o ops
                      \o [i \in 1..Len(values) |-> [op |-> "store", node |-> onProduced[n]]]
          /\ contents' = [contents EXCEPT ![onProduced[n]] = values[Len(values)]]
  /\ todo' = Tail(todo)
  /\ operands' = <<>>
  /\ UNCHANGED <<program, results, status>>

\* import_constant.  An argument that is no tensor is not tracked.
ImportConstant ==
  /\ Importing({"constant", "argument"})
  /\ program.entry = "program"
  /\ LET n == Current IN
     IF BindFails(n, <<None>>) THEN Raise
     ELSE \E a \in Addresses(n) :
            /\ BindNodeValues(n, <<LiteralOf(n, a)>>, <<>>)
            /\ attrs' = IF program.kind[n] = "constant" THEN Tracked(n, a) ELSE attrs
            /\ UNCHANGED <<onProduced, unpacked>>

\* A user input, and in a graph without signature any placeholder, is an
\* argument of the function.
BindArgument ==
  /\ Importing(IF program.entry = "program" THEN {"user"} ELSE Placeholder)
  /\ ~ \E m \in MutatedUserInputs : m[1] = Current /\ program.entry = "program"
  /\ LET n == Current IN
     IF BindFails(n, <<<<n, 0>>>>) THEN Raise
     ELSE BindNodeValues(n, <<<<n, 0>>>>, <<>>) /\ UNCHANGED <<onProduced, unpacked, attrs>>

\* import_mutable_to_vtensor.
ImportMutableToVtensor ==
  /\ Importing({"user"})
  /\ program.entry = "program"
  /\ \E m \in MutatedUserInputs :
       /\ m[1] = Current
       /\ IF BindFails(m[1], <<contents[m[1]]>>) THEN Raise
          ELSE /\ BindNodeValues(m[1], <<contents[m[1]]>>, <<[op |-> "copy", node |-> m[1]]>>)
               /\ onProduced' = Registered(m[1], m[2])
               /\ UNCHANGED <<unpacked, attrs>>

\* lazy_import_parameter, lazy_import_buffer.
BindLazily ==
  /\ Importing({"parameter", "buffer"})
  /\ program.entry = "program"
  /\ LET n == Current IN
     IF BindFails(n, <<Lazy>>) THEN Raise
     ELSE /\ BindNodeValues(n, <<Lazy>>, <<>>)
          /\ onProduced' = IF \E m \in MutableBuffers : m[1] = n
                           THEN Registered(n, (CHOOSE m \in MutableBuffers : m[1] = n)[2])
                           ELSE onProduced
          /\ UNCHANGED <<unpacked, attrs>>

-----------------------------------------------------------------------------
\* The operand that is imported next.
Operand == Args(Current)[Len(operands) + 1]

\* Every operand is imported by _import_argument, but for the elements of lists
\* and for what import_program returns.
AsArgument ==
  ~ \/ Current = Output /\ program.entry = "program"
    \/ Current # Output /\ program.kind[Current] = "cat"

ImportingOperands ==
  /\ status = "importing"
  /\ Current \in Node => program.kind[Current] \in Call \ {"getitem"}
  /\ Len(operands) < Len(Args(Current))
  /\ Operand \in Node

UseOperand(value) ==
  /\ operands' = Append(operands, value)
  /\ UNCHANGED <<program, todo, onProduced, unpacked, contents, results, status>>

\* In a frozen program a tensor stands where its placeholder was used; an
\* element of a list cannot be one.
IsLiteral(n) == program.entry = "frozen" /\ program.kind[n] \in {"parameter", "constant"}

ImportLiteralOperand ==
  /\ ImportingOperands
  /\ IsLiteral(Operand)
  /\ IF ~ AsArgument THEN Raise
     ELSE \E a \in Addresses(Operand) :
            /\ UseOperand(LiteralOf(Operand, a))
            /\ attrs' = Tracked(Operand, a)
            /\ UNCHANGED <<v, ir>>

\* A get_attr node is bound when it is used; whether it is already bound is
\* asked of its target, which is never a key of _v.
ImportGetAttr ==
  /\ ImportingOperands
  /\ program.kind[Operand] = "get_attr" /\ AsArgument
  /\ IF v[<<Operand, 0>>] # Unbound THEN Raise
     ELSE \E a \in Addresses(Operand) :
            /\ UseOperand(LiteralOf(Operand, a))
            /\ v' = [v EXCEPT ![<<Operand, 0>>] = LiteralOf(Operand, a)]
            /\ attrs' = Tracked(Operand, a)
            /\ UNCHANGED ir

\* Mutant: the value of a callable is used and not kept.
ResolvedNotKept(n, value) == v
Resolved(n, value) == [v EXCEPT ![<<n, 0>>] = value]

\* _import_input: a hook loads what the input holds at this point, the default
\* is a literal of what it holds now.
ImportInput ==
  /\ ImportingOperands
  /\ v[<<Operand, 0>>] = Lazy
  /\ ir' = Append(ir, [op |-> "load", node |-> Operand])
  /\ IF program.hooks = "external"
     THEN /\ UseOperand(contents[Operand])
          /\ v' = Resolved(Operand, contents[Operand])
          /\ UNCHANGED attrs
     ELSE \E a \in Addresses(Operand) :
            /\ UseOperand(LiteralOf(Operand, a))
            /\ v' = Resolved(Operand, LiteralOf(Operand, a))
            /\ attrs' = Tracked(Operand, a)

\* resolve_node_value of what is not lazy.
ResolveNodeValue ==
  /\ ImportingOperands
  /\ ~ IsLiteral(Operand)
  /\ ~ (program.kind[Operand] = "get_attr" /\ AsArgument)
  /\ v[<<Operand, 0>>] # Lazy
  /\ IF \/ v[<<Operand, 0>>] \in {Unbound, None}
        \/ program.kind[Operand] \in {"pair", "hop"} /\ (AsArgument \/ Current # Output)
     THEN Raise
     ELSE UseOperand(v[<<Operand, 0>>]) /\ UNCHANGED <<v, attrs, ir>>

\* What a constant result i is: constants are values of their own.
ConstantResult(i) == <<0, i + 1>>

\* The constants that import_program returns are kept by their position among
\* all outputs of the signature, mutations first, and are looked up by their
\* position among the results; in a frozen program the output node has them.
ImportConstantResult ==
  /\ status = "importing" /\ Current = Output
  /\ Len(operands) < Len(OutputArgs)
  /\ Operand = NoNode
  /\ LET skipped == IF program.entry = "program" THEN Cardinality(program.mutates) ELSE 0
         i == Len(operands) + 1 - skipped
     IN  IF i < 1 \/ OutputArgs[i] # NoNode THEN Raise
         ELSE UseOperand(ConstantResult(i)) /\ UNCHANGED <<v, attrs, ir>>

\* The results of a call, given its operands: auto_functionalized begins with
\* the None that its op returns.
ResultsOf(n) ==
  LET right == \A i \in DOMAIN operands : operands[i] = Meaning(Args(n)[i])
      Result(i) == IF right THEN <<n, i>> ELSE Wrong
  IN  CASE program.kind[n] = "pair" -> <<Result(0), Result(1)>>
        [] program.kind[n] = "hop" -> <<None, Result(1)>>
        [] OTHER -> <<Result(0)>>

\* _import_torch_op_overload and _import_hop_auto_functionalized.
ImportCall ==
  /\ Importing(Call \ {"getitem"})
  /\ Len(operands) = Len(Args(Current))
  /\ IF BindFails(Current, ResultsOf(Current)) THEN Raise
     ELSE BindNodeValues(Current, ResultsOf(Current), <<>>) /\ UNCHANGED <<onProduced, unpacked, attrs>>

\* _import_getitem.  The list of a node is unpacked once.
ImportGetitem ==
  /\ Importing({"getitem"})
  /\ LET n   == Current
         ref == Args(n)[1]
         isList == program.kind[ref] = "list"
         value == IF ~ isList THEN v[<<ref, program.index>>]
                  ELSE IF v[<<ref, 0>>] = <<ref, 0>> THEN <<ref, program.index + 1>>
                  ELSE Wrong
         unpack == IF isList /\ ref \notin unpacked
                   THEN <<[op |-> "unpack", node |-> ref]>> ELSE <<>>
     IN  IF value \in {Unbound, None} \/ BindFails(n, <<value>>) THEN Raise
         ELSE /\ BindNodeValues(n, <<value>>, unpack)
              /\ unpacked' = IF isList THEN unpacked \cup {ref} ELSE unpacked
              /\ UNCHANGED <<onProduced, attrs>>

\* return_node_values.
ReturnNodeValues ==
  /\ status = "importing" /\ Current = Output
  /\ Len(operands) = Len(Args(Output))
  /\ results' = operands
  /\ status' = "imported"
  /\ UNCHANGED <<program, todo, operands, v, onProduced, unpacked, attrs, ir, contents>>

Done == status \in {"imported", "raised"} /\ UNCHANGED vars

Next ==
  \/ ImportConstant \/ BindArgument \/ ImportMutableToVtensor \/ BindLazily
  \/ ImportLiteralOperand \/ ImportGetAttr \/ ImportInput \/ ResolveNodeValue
  \/ ImportConstantResult \/ ImportCall \/ ImportGetitem \/ ReturnNodeValues \/ Done

Spec == Init /\ [][Next]_vars

-----------------------------------------------------------------------------
\* The variables are what the importer's attributes can hold; only nodes that
\* the program mutates have callbacks.
TypeOK ==
  /\ \A i \in DOMAIN operands : operands[i] \in Value
  /\ v \in [Node \X {0, 1} -> Binding]
  /\ onProduced \in [Node -> Node \cup {Output}]
  /\ unpacked \subseteq Node
  /\ attrs \in [Node \cup Address -> Value \cup {Empty}]
  /\ \A i \in DOMAIN ir : ir[i] \in [op : {"load", "copy", "store", "unpack"}, node : Node]
  /\ contents \in [Node -> Value]
  /\ \A i \in DOMAIN results : results[i] \in Value
  /\ status \in {"importing", "imported", "raised"}

(***************************************************************************)
(* Programs that the importer has no trouble with.                         *)
(***************************************************************************)
\* Where node t is used as an operand: the users, in the order of import.
Users(t) == {u \in Node : \E i \in DOMAIN program.args[u] : program.args[u][i] = t}
Returned(t) == \E i \in DOMAIN OutputArgs : OutputArgs[i] = t

\* Every new value has a node of its own, and that is a call.
ProducersAreDistinctCalls ==
  /\ \A m \in program.mutates : program.kind[m[2]] \in Call
  /\ \A m, o \in program.mutates : m[2] = o[2] => m = o

\* A mutated buffer that is used at all is used when its new value is computed,
\* or before.
BuffersAreReadBeforeTheyAreWritten ==
  \A m \in MutableBuffers :
    \/ Users(m[1]) = {} /\ ~ Returned(m[1])
    \/ \E u \in Users(m[1]) : u <= m[2]

\* There is a hook for the buffers that are mutated.
BuffersCanBeStored == MutableBuffers # {} => program.hooks = "external"

\* At most one tensor of bool is made a literal.
AtMostOneBoolean == \A a, b \in program.boolean : a = b

\* An attribute of the graph's module is used once and not in a list.
AttributesAreUsedOnce ==
  \A n \in Node : program.kind[n] = "get_attr" =>
    /\ ~ Returned(n)
    /\ \A u \in Users(n) :
         /\ program.kind[u] # "cat"
         /\ \A w \in Users(n) : w = u
         /\ \A i, j \in DOMAIN program.args[u] :
              program.args[u][i] = n /\ program.args[u][j] = n => i = j

\* A tensor that is frozen is not in a list.
NoLiteralInLists ==
  \A n \in Node : IsLiteral(n) => \A u \in Users(n) : program.kind[u] # "cat"

\* A program that mutates something returns no constant.
ConstantsAreFound ==
  \A i \in DOMAIN program.outputs : program.outputs[i] = NoNode => program.mutates = {}

Regular ==
  /\ program.entry = "program" =>
       /\ ProducersAreDistinctCalls /\ BuffersAreReadBeforeTheyAreWritten
       /\ BuffersCanBeStored /\ ConstantsAreFound
  /\ AtMostOneBoolean /\ AttributesAreUsedOnce /\ NoLiteralInLists

(***************************************************************************)
(* What the function does when it is called.                               *)
(***************************************************************************)
\* Every input and buffer that the program mutates is left with its new value,
\* all others as they were.
MutationsReachTheirTargets ==
  status = "imported" /\ program.entry = "program" =>
    \A t \in Node : contents[t] = IF \E m \in program.mutates : m[1] = t
                                  THEN Meaning((CHOOSE m \in program.mutates : m[1] = t)[2])
                                  ELSE <<t, 0>>

\* The function returns what the exported program returns, as computed from the
\* contents on entry.
ResultsAreThoseOfTheProgram ==
  status = "imported" =>
    /\ Len(results) = Len(OutputArgs)
    /\ \A i \in DOMAIN results : results[i] = IF OutputArgs[i] = NoNode THEN ConstantResult(i)
                                              ELSE Meaning(OutputArgs[i])

\* A regular program is imported, whatever its mix of inputs, mutations and
\* lists: bindings that are filled at first use, callbacks that fire when a
\* node is bound and unpackings that are shared leave a function that returns
\* the right values and updates the right inputs and buffers.
RegularProgramsAreImported ==
  Regular => /\ status # "raised"
             /\ MutationsReachTheirTargets
             /\ ResultsAreThoseOfTheProgram

\* The function copies, loads, stores and unpacks nothing twice, whatever the
\* program.
NothingIsEmittedTwice ==
  \A i, j \in DOMAIN ir : ir[i] = ir[j] => i = j
=============================================================================
