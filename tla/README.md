# Formal models of torch-mlir

TLA+ specifications of the parts of torch-mlir that decide something: the passes
of the Torch dialect whose correctness rests on an analysis, a fixpoint or a
traversal, the importer of `torch.export` programs, and the runner of the
end-to-end tests. Each module is a translation
of the source named below; TLC checks small instances, TLAPS proves what can be
proved for all of them. Paths are relative to the repository; `T/` stands for
`lib/Dialect/Torch/Transforms/`.

Run `tlc -config X.cfg M` for a configuration X of module M (the table under
"Runs"), `tlapm M.tla` for the modules whose name ends in `Proofs`.

## 1. Inventory

torch-mlir is a compiler. An importer turns a PyTorch program into the Torch
dialect; a pipeline of passes rewrites it until it satisfies the *backend
contract* (only value tensors of known rank and dtype, no global state); a
conversion lowers it to a backend dialect. Passes share nothing but the IR: each
one's output is the next one's input, and what one guarantees the next assumes.

    importer --> symbol-dce --> prepare-for-globalize --> globalize-object-graph
             --> inline --> adjust-calling-conventions --> lower-to-backend-contract
    lower-to-backend-contract = repeat { canonicalize, inline-global-slots,
        erase-module-initializer, recompose, reduce-op-variants,
        maximize-value-semantics, refine-public-return, shape and dtype
        refinement, decompose } until the contract holds

| Component | State | Operations | What is hard | Correct means |
|---|---|---|---|---|
| `T/GlobalizeObjectGraph.cpp` | name stack, seen modules, slot and method names, tracked and dirty monomorphizations | find root, traverse, track calls, verify, clone | recursion in step with a name stack; a worklist over mutually recursive functions; names given per clone | names are access paths; clones are exactly those needed; symbols unique; nothing dangles; ends |
| `T/InlineGlobalSlots.cpp` | a safe/unsafe state per slot and per value, dependency edges, a worklist | initial walk, visits, inlining | verdicts that depend on the order of visits, early returns that drop edges, aliases | the least solution; verdicts are final; inlining is invisible |
| `T/MaximizeValueSemantics.cpp` | the function being rewritten | two rewrite patterns under a greedy driver | aliases across overwrites, several copies, blocks, ops erased while listed | what the function computes and its types are preserved; ends |
| `T/LowerToBackendContract.cpp`, `T/Passes.cpp` | an iteration counter, types | run pipeline, test contract | a loop whose body need not make progress; refinements in any order | ends; success means the contract holds; types stay true and do not depend on the order |
| `T/Simplify*Calculations*.cpp` | calculate regions, list literals | unroll loops, interpret list ops, refine types | program points of list literals, users in nested regions, an interpretation that stops half-way | readers see the list they saw; refined sizes are those yielded |
| `T/Reify*.cpp` | calculate regions | look up a library function, adjust operands | one lookup per op | the function of the op |
| `T/AdjustCallingConventions.cpp` | signatures, type bounds | rewrite functions, calls, returns | three patterns that must agree, callers before or after callees | calls and returns match signatures |
| `T/ReduceOpVariants.cpp` | one op | copy operands, use the functional variant | in-place results written back, lists that are built by mutation | same results |
| `T/RefinePublicReturn.cpp` | one return | look through casts and copies, change the signature | casts with other users | same results |
| `T/DecomposeComplexOps.cpp`, `RecomposeComplexOps`, `FuseQuantizedOps`, ... | one op | some hundred patterns | arithmetic of tensors | same results |
| `lib/Dialect/Torch/IR` | types, ops | `meetTensorTypes`, verifiers, folders | lattice laws | meet is a greatest lower bound |
| `lib/Conversion/*`, TMTensor, TorchConversion, RefBackend | one op | one pattern per op | numerics | same results |
| importers (`fx_importer.py`, `onnx_importer.py`, `jit_ir_importer`, C++ ONNX) | node-to-value maps, callbacks on production, caches by object id | import in topological order | lazy bindings, mutation of buffers, ids of dead objects | every use is bound to its producer |
| LTC backend (`projects/ltc`) | parameters by data handle, graph | lower nodes | equal handles, aliases | every parameter has one input |
| e2e framework (`projects/pt1/python/torch_mlir_e2e_test`) | a pool of processes, timers, results | compile and run tests, poll, collect | crashes, timeouts at any instant, a pool that replaces workers by itself | one result per test; the run ends |

The hazards behind the third column are listed line by line in PROJECT.json.

### Which behaviours occur where

The compiler is sequential: its nondeterminism is the order in which worklists
and drivers take work, its failures are early returns. The test runner is
concurrent: processes, signals, crashes. Nothing is persisted anywhere, so there
is no crash recovery to model.

## 2. Plan

1. `InlineGlobalSlots` with an abstract `OptimisticAnalysis` and a semantics -- done
2. `MaximizeValueSemantics` with a semantics -- done
3. `GlobalizeObjectGraph` -- done
4. `TestRunner` -- done
5. `ListInterpretation` with a semantics of the block before and after -- done
6. `BackendContract` with its meaning: the loop over the pipeline, the lattice of
   tensor types and the refinements -- done
7. `ReduceOpVariants` and `PublicReturn`, composed with 2 in `ValuePipeline`;
   `CallingConventions` -- done
8. `FxImporter` -- done
9. Left: the lowering of the lazy backend, the TorchScript importer with its caches
   of imported values, the detour of types through reified calculations.

Proof still wanted: `FunctionalProgramsBecomeValues`, by an invariant of all three
passes that says which mutable tensors are left.

Dependencies between modules (`A <- B`: B extends A):

    OptimisticAnalysis <-(implements)- InlineGlobalSlots
    InlineGlobalSlots <- InlineGlobalSlotsSemantics <- InlineGlobalSlotsMC, InlineGlobalSlotsProofs
    MaximizeValueSemantics <- MaximizeValueSemanticsMeaning <- MaximizeValueSemanticsMC
    MaximizeValueSemanticsMeaning <- ReduceOpVariants, PublicReturn
    ReduceOpVariants, PublicReturn <- ValuePipeline <- ValuePipelineMC, MaximizeValueSemanticsProofs
    GlobalizeObjectGraph <- GlobalizeObjectGraphMC, GlobalizeObjectGraphProofs
    TestRunner <- TestRunnerProofs
    FxImporter <- FxImporterMC, FxImporterProofs
    ListInterpretation <- ListInterpretationSemantics <- ListInterpretationMC, ListInterpretationProofs
    BackendContract <- BackendContractMeaning <- BackendContractMC, BackendContractProofs
    CallingConventions <- CallingConventionsMC, CallingConventionsProofs

## 3. The modules and the code

### InlineGlobalSlots

A module is the sequence of its ops in the order of the post-order walk; an op
has a kind, operands, results, the slot it names and, for a terminator, the
results it forwards to. `InitializeOp` is `initialize` on the next op of the
walk, `SolverStep(o)` is `visit` on a point the solver takes from its worklist,
in any order, `InlineSafeSlots` is the transformation. `Examined` models the
early return of `isValueSafeTransferFunction`: uses behind the first unsafe one
leave no dependency edge. `unsafe` is the set of anchors whose
`InlineGlobalSlotsAnalysisState` is not safe; MLIR's `propagateIfChanged` is
`Visit`'s additions to the worklist.

`InlineGlobalSlotsSemantics` says what a module computes: objects with a count of
mutations, values that reach sets of objects, slots; the initializer runs once
and the functions several times. A read of an inlined slot runs the clone of the
slice in front of it, which computes from literals what the initializer computed: a
fresh object for each object the slot was initialized with. A value of an immutable
type reaches only what has no contents to change. A property compares what every op
observes before and after. `InitializerIsVerified` is what the verifier of the
initializer makes sure of: each slot has one initial value, and the ops allowed there
read no slot.

Left out: relocating slots that share an initial value is part of the semantics,
not of the IR; the erasure of ops is implied by the set `safeToInline`. A
`func.return` is an op of kind "pure" without results, vacuously safe like a yield:
what the caller does with a slot's value that it gets is not modelled, so that
`InliningPreservesBehaviour` and `InlinedAreUnmutated` say nothing about it.

### MaximizeValueSemantics

A function is a sequence of ops in program order in one or two blocks, with a
tensor type of one of two kinds. `AbstractlyInterpret(c)` is the first pattern
on the copy c with all of its early returns (`Interpretable`) and
`rewriteSlice`; `RewriteViews(c)` is the second one; `EraseDeadOp` is the greedy
driver's removal of dead ops. The driver may take the copies in any order. An
erased op that is touched again makes `status` "undefined".

`WellFormed` and `WellTyped` are what the definitions and verifiers of the ops
demand; the functions the pass is given satisfy them (`FunctionsAssumption`), and
`StaysWellTyped` is that every rewrite keeps it so. A rewrite needs positions for
the ops it puts before the return: `HasRoom`, a bound. The functions of the runs
have as many free positions as the rewrites of all their copies take, so that it
never keeps a pattern from being applied there.

`MaximizeValueSemanticsMeaning` computes the contents of every tensor as a term
over the arguments, with bases, view paths and writes through them, op by op
(`Denote`, by recursion in `Meaning`). A pure op is named in terms by the op of the
source that it is or was made for (`Origin`), so that the terms of a function and
of what the passes make of it can be compared; what unknown ops are given counts as
an observation, like what is returned.

Left out: shapes, dtypes and nested regions.

### GlobalizeObjectGraph

A program has instances with classes and attributes, functions over module
arguments, and bodies made of accesses, calls and unsupported uses; a value of
module type is an access path. `FindRoot`, `EnterModule`, `VisitSlot` and
`LeaveModule` are `recursivelyTraverse` with its explicit call stack;
`StartTracker` and `TrackCalls(m)` are the `MonomorphizationTracker`, with any
order of the dirty list; `VerifyPublic` and `CloneFunctions` are the rest of
`globalizeObjectGraph`. Arguments and attributes that are not modules are left
out of signatures.

`ProgramsAreVerified` says what the pass may rely on: slots have the classes their
attributes declare (`NnModuleOp::verifySymbolUses`), modules do not contain
themselves (SSA), calls match signatures (MLIR), and accesses are to attributes that
exist. Only the importer sees to the last one: `collectUsedSlots` reports others but
goes on.

### ReduceOpVariants, PublicReturn and ValuePipeline

The three passes work on the functions of `MaximizeValueSemantics`.
`ReduceToNewResult` and `ReduceInplace` are the patterns of
torch-reduce-op-variants: an op with value semantics reads copies of what it
read, also of the elements of a list, an in-place variant becomes that op and an
overwrite. `Reduce(o)` takes the illegal ops as the conversion driver does; when
one cannot be converted, the function is as it was and the pass has failed.
A result is copied back when it was mutable. `RefinePublicReturn` looks through
casts and copies of what is returned and changes the signature; its snapshots take
free positions too, hence `HasRoom`. `ValuePipeline` runs them in the order of
`createTorchSimplificationPipeline`; the contents of tensors are those of
`MaximizeValueSemanticsMeaning`, now with in-place ops and lists.

Left out: canonicalization between the passes, literals of mutable tensors,
optional tensors, `torch.operator` with an extra library, flash attention;
public functions that are called or have several returns, which
torch-refine-public-return refuses.

### CallingConventions

A function has argument types with bounds, results, calls and a return; only
types are kept. `CollectBounds` is the first walk of the pass,
`AdjustFunction(k)` converts signature, calls and returns of one function with
the three patterns, in the order of the module; `RefuseFunc` and `RefuseCall`
are the failures, after which earlier functions stay converted.

Left out: functions with several results (the importers make none), the uses of
arguments that are None, and calls with operands that become none or several:
the conversion framework does not give the pattern for calls such operands.

### BackendContract

A program is one function; each value has a type (value semantics or not, the
sizes and the dtype if known) and comes from an op. `BeginIteration` is the
`do` of `LowerToBackendContractPass` with its counter; `RefineSizes(v)` and
`RefineDtype(v)` refine one result, in the order a greedy driver pleases, with
`updateCalculateOpResultTypes`, `meetTensorTypes` and the cast for users that do
not allow refinement; `RefinePublicReturn` runs twice per iteration, as in the
pipeline; `DecomposeOp` and `CheckContract` are what their names say.
"unary", "binary" (a broadcast with promotion) and "complex" ops stand for the
library; "opaque" ones have no library function. `BackendContractMeaning` gives
every value the tensor of one execution and says what a type claims about it,
and what inference in program order yields.

Left out: slots, scalars, lists and tuples of tensors in the contract, the
other passes of the pipeline (torch-reduce-op-variants and
torch-maximize-value-semantics change types too, but not of arguments and views of
those, the only mutable tensors here), the exit of the loop when `runPipeline` fails, which none of the modelled
passes can make it do, and `InferTensorOp`, the sizes of literals.

### ListInterpretation

A block is the ops on one list: handled ones, others that mutate it (`sort`),
reads, and elements fetched; each may be nested in a region, with an index
that is constant or not. `UnrollLoop` is `FullyUnrollPrimLoopOp`; `SortUsers`,
`InterpretAppend`, `InterpretInsert`, `InterpretSetItem`, `InterpretRead` and
`StopInterpreting` are the walk of `AbstractlyInterpretListOpsWithinABlock`,
`RewriteMutation`, `RewriteUse` and `ReplaceOp` its rewriting, and `RefineShape`
is `refineShapeCalculateResult` on what is yielded. The semantics executes the
block for every number of times its regions may run.

`ListAssumption`: the last op of a block is its terminator, which yields the list
and is in no region; a loop has one trip count. `TripsAssumption`: a region runs a
natural number of times.

Left out: elements are constants; an element is stored in one other list; values
carried by loops (with a negative constant `maxTripCount`, which line 92 does not
take for 0, the code looks those up in an empty mapping and asserts; a loop without
them just loses its body, as modelled); a list that `torch.prim.If.yield` gives
another name; folders of single operators.

### FxImporter

A graph is a list of nodes with kinds, operands and, for placeholders, what the
export signature says. The function that is made is straight-line code and is
executed as it is emitted: `contents` is what inputs and buffers hold at that
point. `BindArgument`, `ImportConstant`, `ImportMutableToVtensor` and
`BindLazily` are the loops of `import_program` and `import_frozen_program` over
placeholders; `UseOperand`, `ImportInput` and `ResolveNodeValue` are
`resolve_node_value` with values made at first use; `BindNodeValues` is
`bind_node_value` with the callback that stores a mutation; `ImportLiteralOperand`
and `ImportGetAttr` are the literals with the `RefTracker`, whose keys are
addresses: a temporary (the copy of a bool tensor) may reuse one.
`ReturnNodeValues` is `return_node_values`. `Exported` is what `torch.export`
makes, as far as the importer relies on it. `Regular` names the programs that the
importer has no trouble with, one condition for each trouble (section 5 has some):
every new value has a call of its own, buffers are read before they are written
and have a hook, attributes are used once, no frozen tensor is in a list.

Left out: types, symbolic shapes, scalar promotion, the canonicalization of
single ops, and `import_graph_module`, which expects functional graphs.

### TestRunner

`compile_and_run_test` in each process is a small automaton (`Stage`): the instant
before the first `try`, the block, its handler, the instant before the second `try`,
the block, its handler, and the cloning of traces behind both. `TimesOut` is the
SIGALRM handler at any of these points: caught in the `try` blocks, nowhere else.
`missed` remembers the timers that expired at one of the two instants (that of a test
that compiled just in time, for one); whether the interpreter runs handlers there
depends on its version. `Crashes` is the death of a process. `StartPool`,
`ExitOnCrash` and `GetResults` are `run_tests` with its `while`/`else`; the
sequential loop is a process of its own (`Main`). The pool is external and
modelled from how Python documents and the source uses it: `TakeChunk`,
`ReplaceWorker`, results that arrive per chunk, an exception that stands for a
chunk and for the whole result.

## 4. Runs

| Run | Question | Instance |
|---|---|---|
| `inline_slots` | does the analysis end, in every order of visits, in the least solution; are verdicts final; is inlining invisible; does it implement the abstract analysis | 2 slots, 2 initial values (one may contain the other), 3 body ops of every kind, public and immutable variants, 2 calls of the function |
| `inline_yield` (violation) | are inlined objects never mutated | one variant, 4 body ops |
| `mvs_many_uses` | is each rewrite invisible and well typed; is everything that is merely viewed converted | 15530 functions: one copy and three ops; two copies, two ops and two blocks; a copy and its views returned |
| `mvs_other_operand` (violation) | the same, with views of two tensors | two copies |
| `value_pipeline` | does every step of three passes keep what is returned; do programs without mutation end without mutable tensors; does rewriting make progress | 3299 functions: one copy and three ops, two copies and two ops of every kind, lists, casts that are written through |
| `globalize_graph` | names, sharing, needed clones, references and symbols, termination | 5 instances of 3 classes, 4 functions with up to two ops each, 16896 programs |
| `test_runner` | one result per test, timers contained, the run ends | 4 tests in chunks of 2, 2 workers, 1 replacement, sequential round or not |
| `fx_importer` | are regular programs imported with the right results and contents; is nothing emitted twice | two placeholders of every kind, three nodes, every mutation, both entry points, with and without hooks |
| `fx_mutations` (violation) | does a mutation always reach its target | the same |
| `list_interpretation` | do readers see the list they saw; are loops unrolled faithfully; are refined sizes right; is an op removed per rewriting | 4911 blocks of up to 4 ops, lists of 0 or 2 elements, regions run 0 to 2 times |
| `backend_contract` | outcome, truth, precision and order of refinements; are enough iterations enough; does the loop end | 3326 programs of up to 4 values, 13 settings of the options |
| `calling_conventions` | do signatures, calls and returns agree in the end | 4986 modules of 2 functions that call each other or themselves |

Why the bounds are enough: in InlineGlobalSlots a verdict spreads along uses,
slots and shared initial values; three body ops and two slots make chains of
each and cycles between slots. In MaximizeValueSemantics an overwrite, an alias
made before it and a use after it are three ops; in the pipeline an in-place op
on a view and a later reader of what it views are three as well. In
GlobalizeObjectGraph two instances of one class, a method of two modules and
recursion with swapped arguments give clones that call each other. In TestRunner
a chunk of two tests is the smallest whose first test has a result when its
second one fails. In FxImporter two placeholders may be mutated by one node, by
each other or after a node that read them; a third, fourth and fifth node make a
pair, take it apart and use the result. In ListInterpretation a mutation, one
that stops the interpretation and a reader before or behind it are three ops; a
fourth reads the element that another op removed. In BackendContract a chain of
three ops takes an op that is complex behind one that is refined, and two
iterations for what the first decomposes; a negative, a sufficient and an
insufficient `maxIterations` are among the options. In CallingConventions two
functions are a caller converted before its callee, one after it, and both.

`CounterBound` caps the counter of iterations, where a negative `maxIterations`
would let it grow for ever. `MaxProcesses` bounds replacements; once it is
reached dead workers stay. That loses no behaviour of the main process, which
leaves when it sees the first crash.

Fairness. The passes run on one thread and their loops have no exit but their
end: weak fairness of `Next`. For the value pipeline and the lists, whose
drivers are inside MLIR, no fairness is assumed and progress is stated instead:
a rewriting leaves less to do (`LeftToDo` is a natural number that every one
lowers), or removes an op. TestRunner: each process, the pool's thread and the
main process are scheduled by the operating system, hence weak fairness of each;
that a stage ends needs that either it or the timer does. Python runs a signal
handler between two bytecodes, so a compiler that loops for ever in native code
is outside this assumption: then the run does hang.

`CHECK_DEADLOCK FALSE` is given where the program really ends.

## 5. Disagreements found

Three violation runs, each with a line of the source it contradicts:

* `inline_yield`: a slot read in a `torch.prim.If`, yielded and mutated outside is
  inlined; "cannot be mutated by the program" fails. The terminator has no results,
  so that "all results are safe" holds vacuously for it.
* `mvs_other_operand`: views are followed through their second operand, so that a
  view of another, mutated tensor becomes a value.
* `fx_mutations`: the store of a mutation is a callback of the node that makes the
  new value, one per node, registered after the inputs are bound: a new value that
  is itself an input, or that two buffers get, is never stored, without an error.

Others can be seen by a change of the instance:

* "For ReturnOp's, we need to update the operands to their original types."
  (`MaximizeValueSemantics.cpp:346`), but the second pattern knows the original types
  of views only (lines 336-345): a copy that is returned itself has become its value
  operand at line 333, and a view that takes the place of a returned
  `copy.to_vtensor` is returned as a mutable tensor. The function then returns what
  its signature does not promise. With `Families <- ReturnedBesides` TLC violates
  `ReturnsKeepTheirTypes`; `ReturnsBesidesViews` excepts these rewrites from
  `StaysWellTyped`.
* The declaration of a slot overwrites a verdict of unsafe, against the assertion
  in `setSafe`: with `SlotsFirst = FALSE` TLC violates `NeverSafeAgain`.
* Two clones of a private method of two modules get the same name: with
  `PairIsMethod = TRUE`, `ModuleIsWellFormed` fails. (A public method of a class with
  several instances that nothing calls vanishes without an error; no property is
  about that, `ModuleIsWellFormed` holds of what is left.)
* `run_tests` polls the truth of an exit code, so that a test that ends its worker
  with status 0 makes the run wait for ever: give `ExitCodes` the element "zero"
  and `RunEnds` fails.

And some are excepted by the properties, at the place where they say so:

* A view of one tensor with itself is put on the list of
  `RewriteViewLikeSubgraph` twice and is replaced after it was erased; the status
  is "undefined".
* torch-reduce-op-variants copies the elements a list was constructed with
  (`ReduceOpVariants.cpp:104`); what is appended later is lost (`ListsAreNotChanged`).
* torch-refine-public-return looks through a cast whose result has other users,
  also one that writes through it (`RefinePublicReturn.cpp:64`, `CastsHaveOneUser`).
  One user that is an in-place op is enough: torch-reduce-op-variants gives the cast
  the users of that op's result, the return among them, besides the overwrite.
* A view of two tensors may be converted for the one and then stands in the way of
  the other (`FunctionalProgramsBecomeValues` is about views of one tensor).
* A list that is replaced by a literal per state has lost its identity: a
  `torch.prim.If.yield` may give it a second name, and a reader through that name
  finds the contents of before. A test pins the miscompile
  (`test/Dialect/Torch/simplify-shape-calculations.mlir:320-373`). ListInterpretation
  has no such aliases: every user but `fetch` uses the list itself.
* The interpretation stops at a user it cannot handle, but the rewriting goes on over
  all users (`SimplifyAbstractInterpCalculationsUtils.cpp:206`): for an op it could
  handle behind that user it reads `listLiterals` out of bounds. And a literal that
  is stored may be made behind the op that stores it. `Interpretable` excepts both
  from `ReadersSeeTheSameList`.
* The meet of two non-value types without sizes is a value type
  (`TorchTypes.cpp:537`, the antecedent of `TypesOnlyGetMorePrecise`).
* A negative `maxIterations` never gives up, since it is compared for equality
  (the antecedent of `PassTerminates`).
* torch-adjust-calling-conventions leaves a function alone that has a tuple result
  and neither bounds nor None (line 249), although `Passes.td` says "Tuple return is
  rewritten to multiple return values."; a bounded argument that has value semantics
  already keeps its type (line 56); an argument without a bound next to one with a
  bound has its missing attribute read (line 60, status "undefined").
* Two tensors of bool may become one literal, because the tracker is keyed by the
  address of a temporary copy (such programs are excluded by `AtMostOneBoolean`). A
  frozen program whose `constants` hold its buffers
  never lifts them. A program that mutates something and returns a constant is
  refused, because its results are counted from different origins (lines 683 and
  1450-1461 of `fx_importer.py`; `ConstantsAreFound`).
* An attribute of the graph's module is looked up by its name but bound under its
  node, so that its second use binds it again and fails (line 1814 of
  `fx_importer.py`; `AttributesAreUsedOnce`).
* A timer that expires while the traceback of an exception is formatted
  (`framework.py:366`), or between the two `try` blocks (350), raises where nobody
  catches it and costs the results of all tests. `SlowTestsAreContained` excepts
  both: the tests that raised and the timers in `missed`.

Met while modelling and about no property: `--sequential` runs all tests in the
pool again after the sequential round, whereas `e2e_testing/main.py` says that it
"runs the tests in the same process"; results of aborted tests are never filled
in, because a crash ends the run first.

## 6. Proofs

All theorems hold for every value of the constants that satisfies the modules'
assumptions.

* `InlineGlobalSlotsProofs`: `TypeCorrect`; `Precision` (whatever is unsafe is
  unsafe in the least solution), without further hypotheses; `Fixpoint`,
  `Monotonicity` and `Refinement` for modules in SSA form whose slots are
  declared before their uses (`WellFormedModules`, which MLIR's verifier and
  globalize-object-graph provide; the first of the other disagreements in section 5
  shows that it is needed). The
  inductive invariant `IInv` is needed because "unsafe stays unsafe" is not
  inductive: it adds that whatever is unsafe is still rejected by the transfer
  function, that a slot is unsafe for a reason the walk has passed, that a
  visited safe value has recorded all its dependencies, and that a verdict the
  transfer function would change is pending in the worklist. From it the empty
  worklist gives a closed solution, and `Precision` says it is the least.
  `InliningIsInvisible`, for verified initializers, is a simulation between the run
  before inlining and the run after it (`Joint`), op by op and call by call.
  `Guarded` holds in both: what the clones will have copies of is reached by safe
  values and slots only, has not been mutated, and is all that an inlined slot and the
  slices of its initial value hold. It is preserved because each operand that reaches
  such an object is safe, hence used by an op that passes it to safe values or to no
  one (`ShieldedUse`). `Related` says that the runs observed and mutated the same and
  that all values and slots reach the same objects, up to copies of those
  (`MadeAlike`: a read of an inlined slot gives the slot's objects in one run and
  copies in the other). What an op makes of each part of the state is `ExecuteIs`;
  that the recursive functions which define calls and runs exist is `Recursion`.
  The same invariant gives `InlinedAreUnmutated`, what the source's comment claims,
  for modules that yield no value from a `torch.prim.If`; the run `inline_yield`
  shows that it needs this proviso.
* `MaximizeValueSemanticsProofs`: `TypeCorrect` and `RewritesStayWellTyped`. The
  invariant is that the function is one (`IsFunction`: op by op, `OpOK`). Both
  patterns are instances of one conversion (`ConversionIsTyped`): some ops are gone,
  views yield values, and each use of a turned tensor has become one of a value that
  is defined before it and still there, so that the only ops with such operands may
  be views and the return. For the first pattern what is turned are the aliases of
  the copy. An overwrite gives new contents to aliases only (`WritesAliases`, from
  the last one down to its target), so that a use that is replaced by the value of an
  overwrite was one of an alias (`ContentsAre`); going up through copies from there
  ends at a view or a value (`ThroughCopies`, by induction on positions). For the second one
  they are the copy and the views behind it, which all come after the copy
  (`SubgraphFacts`), so that what was copied is not converted itself. What is copied
  back is found at the return with the types it had (`ReturnedCopied`, by induction on
  the operands of the return; each step finds the two positions it needs, `FirstFreeIs`).
  That the recursive definitions have a solution is shown by `ReachExists` and, for
  recursion over the numbers, from `SetInduction` (see the item on `Naming`).

  `RewritingIsInvisible` is `ResultsPreserved`, for functions whose mutable views read
  one tensor: the run `mvs_other_operand` shows that it is false of others.
  `SlicesAreRewrittenInvisibly` is about all functions, and every step but those of
  the second pattern. `MeaningIs` unfolds the recursion: the meaning of an op is
  `Denote` of the final meanings, since an op looks at earlier ones only (`DenoteLocal`).
  A rewrite is then a simulation (`Simulated`), op by op: an op that stays means what
  it meant or, when it is a view that became a value, is the term that was read from
  it, at each of its uses. For the first pattern that term does not depend on the use
  (`SliceContents`): the aliases share a base, nothing else writes to it, and an alias
  that is still available was made since the last overwrite, or is one of the tensors
  that overwrite has written, for which its path is a prefix. For the second pattern
  nothing writes to the base at all. What is copied back and what is dead are the
  lemmas `PutObserved` and `DeadObserved`.

  `OnlyReturnedCopiesStay` is `ViewsBecomeValues` for functions whose mutable tensors
  are copies and views of one tensor (`MutableOnlyViewed`). Each part of that is needed:
  a view of two tensors blocks the one copy when the other is gone, a view with a
  value type blocks the first pattern only as long as its operand is mutable, and an
  op with value semantics on mutable tensors, which torch-reduce-op-variants removes, is
  unknown to the patterns. The argument: each rewrite keeps `MutableOnlyViewed` and adds
  only copies, and a copy with a user besides the return that is not dead fits the
  second pattern, so that `Finish` leaves none.

  `ValuesAreReturnedInvisibly` is `PipelinePreservesResults` through all three passes.
  Its hypotheses are `MutableViewsReadOne` and `HasRoomsToReduce`: no two ops that
  torch-reduce-op-variants converts share positions for the ops made of them, and an
  op has up to three operands, or a list of up to two. The second is a bound of the
  model, where an op is a position, and not of the code; TLC found both to hold of all
  functions of `value_pipeline`. The invariant is `PipelineInv`.
  - torch-reduce-op-variants (`Reduces`): replacing an op is a simulation (`Moved`,
    `Follows`) in which one base may take the place of another, and nothing is seen of
    it (`ObservedMoved`). For an in-place op, the functional op, the copy and the
    overwrite leave the same term in the same base (`InplaceFollows`). For an op whose
    operands are copied, each copy holds what its tensor held, as no op stands between
    the copy and the op (`CopyHolds`, `ConvertFollows`). The room that other ops have
    is left to them, and the failure of the pass is not reached when nothing is
    appended to a list.
  - torch-refine-public-return: `CastsEnd` (a mutable cast that is cast again or
    returned has besides that only snapshots and returns as users) is what
    `CastsHaveOneUser` becomes under the rewrites, together with `NoCastIsWritten`
    while ops are reduced. Then a tensor that is looked through has the contents of
    the cast or copy at the return (`ReadThroughIs`): nothing is written to its base
    since the cast was made, or the one user of the copy is looked through as well.
* `GlobalizeObjectGraphProofs`: `LeastClosure`. `TrackerInv` says that
  a monomorphization that is not dirty has its calls recorded and that every
  closed set contains what was recorded; with an empty dirty list the first
  makes the tracked set closed, the second makes it the least.
* In the same module `Naming`, `SharedRejected`, `TypeCorrect` and `WellFormed`.
  `TraverseInv` ties the call stack to the name stack: activation k was
  found at the first k - 1 names. `TourInv` says that every module was seen on one
  path, and that each of its attributes is handled or pending in an activation. At
  the end nothing is pending; a module that was missed would be held by missed
  modules only, against acyclicity (`AllSeen`); two holders of a module would make
  two paths to it. `MonosInv` types clones by `FollowIsTyped`: an access path that the
  classes declare leads to an instance of the declared class. `WellFormed` is for
  methods that take one module: section 5 has what happens to others. That a property
  holds after every step of a walk is an induction; the provers have no induction
  rule to instantiate, so `SetInduction` derives one for sets from `WFMin` and
  `NatLessThanWellFounded`: a set that is not Nat misses a least number.
* `FxImporterProofs`: `TypeCorrect`, `EmittedOnce` and `RegularImported`, every
  property of its run. `EmissionsOK` gives every
  emission its trace: what was loaded is no longer lazy, what was copied is bound,
  for what was stored the producer is bound, and lists are in `unpacked`. A node is
  bound once (`bind_node_value` asserts it), so nothing with a trace is emitted again;
  for stores this needs that producers make one tensor (`StaticOK`, from the export
  signature), for otherwise each result would be stored. `ImportInv` is the invariant
  of regular programs. What is left of the schedule has every placeholder before the
  calls and the calls in the order of the graph (`IsSchedule`, from `InitSchedule`), and
  its nodes are the ones without a binding (`BoundInOrder`), so that what a call uses is
  bound when the call is. A node is bound to its own value, or to a callable that has
  yet to read it (`ValuesRight`). What a callable reads at its first use is the content
  on entry: `ContentsRight` says that contents change when the new value is bound, and
  `OperandsAreRead` that whatever a bound call uses has been read, which with
  `BuffersAreReadBeforeTheyAreWritten` puts the read before the store
  (`LazyIsUnwritten`). The callback is there when the new value is bound
  (`CallbacksRight`), since producers are calls, behind all placeholders. The data found
  at an address is that of the tensor (`AttrsRight`): this needs `AtMostOneBoolean`, and
  that a temporary is allocated beside the program's tensors, which are alive
  (`FxProgramsAssumption`). `AttributesRight` traces the binding of an attribute to its
  one use. When the return is reached no node is pending, so every new value has been
  stored. `OrderedAscends` is about the recursive function that puts nodes in order, by
  induction from `SetInduction`.
* `BackendContractProofs`: about types, `MeetIsLowerBound` and `MeetDescribes`
  (the meet is below both types and claims nothing that neither says) and
  `BroadcastDescribes` (for all ranks and sizes); about the pass, `TypeCorrect`,
  `Precision`, `Outcome` and `Truth`. `IInv` adds to the types that the program is
  one that was given (`Static`) and that decomposition is the only change of a kind
  (`KindOK`). `Truth` is inductive as it stands: what an op implies of true types
  is true (`ImpliedDescribes`, which rests on the lemmas about broadcast and
  promotion), and so is the meet. `Outcome` needs `LoopInv`, which ties the counter
  to the phase. `Confluence` and `EnoughIterationsLower` are about the whole loop.
  `TypesInv` bounds each type from both sides (`Bounded`): it knows at least what was
  given and at most what its operands imply; when a pass over sizes or dtypes ends,
  nothing that is implied is left out (`Fixed`). True types cannot contradict each
  other, so that what is known determines a type (`KnownDetermines`), and by strong
  induction over the program (derived from `SetInduction`, see above) types that are
  fixed are those of `Inferred`. Value semantics is not among what is inferred: it
  depends on the order of the passes, because a meet without sizes gives a value
  type. `Progress` counts: where types are fixed and no op can be decomposed
  everything is known (`AllIsKnown`, again by strong induction), so that an iteration
  that misses the contract has decomposed an op, and there are finitely many.
* `ListInterpretationProofs`: `TypeCorrect`, `RewritingErasesAnOp`, `Soundness`,
  `LoopsRunTheSameOps` and `SizesAreRight`, every property of its run. `IInv` types
  the state and says that the users are in the order of the block, up to the first
  that mutates the list in a region (`UsersInOrder`, by `SortedIs` and
  `TruncatedIs`). `RInv` adds what the vectors mean: literal k holds the list behind
  the k-th user handled, as the semantics computes it, and an op that was rewritten
  uses the literal of as many users as are handled before it. `Soundness` is a
  simulation between two runs of one trace: before each step, the literal of the
  users run so far holds what the list held without the rewriting
  (`ListsAreSimulated`); once an op has changed the list that is not understood, all
  handled users have run, since the block is `Interpretable`. The facts about traces
  that it needs (`TraceIs`) are that ops of different parents run in order, and those
  in no region once. `LoopsRunTheSameOps` compares blocks op by op: the ops before and
  behind a loop are the same pieces (`AlikeBefore`, `AlikeBehind`), and n copies of
  its body are the n runs of its region (`UnrolledRunsTheSame`). `SizesAreRight`
  composes them: the source yields what the block yields, that is what the literal
  began with but for elements that a remaining assignment may change
  (`YieldedIsKept`). What a trace is, is a fold; it is unfolded once, by `FlattenedIs`,
  and runs by `RunIs`, which show that the recursive functions they are defined by
  exist.
* `CallingConventionsProofs`: `TypeCorrect` and `Agreement`. `AdjustInv` says that
  the functions before the next one are converted and the others are as they were
  given; agreement of what is converted follows from agreement of the source by
  `BoundIsFound` (a call finds the bounds of its callee, converted or not),
  `OperandsFollowSignature` and `ResultsAreFlattened`. Like the property, it is about
  modules whose functions `IsAdjustable`.
* `TestRunnerProofs`: `TypeCorrect`, `Containment` and `Accountability`.
  `Containment` rests on `StagesMatch`: no timer runs while traces are cloned, and
  handlers run only for tests that raised; a timer that expires anywhere else is
  caught, or remembered in `missed`. `Accountability` rests on
  `AccountsInv`: a chunk is held by one worker at most until it is done, a worker
  has exactly the results of the tests before the one it is at, and done chunks
  have all their results. The division of tests into chunks is handled by
  `ChunkOfMonotone`, `FirstOfChunk` and `LastOfChunk`.

Only model-checked: all termination properties (liveness under fairness is out of
the prover's reach); `FunctionalProgramsBecomeValues`, which needs of all three passes
what `OnlyReturnedCopiesStay` says of one; and `RewritesMakeProgress`,
which counts the ops left, by a sum over a set of the community modules (`LeftToDo`)
whose laws are inductions over that set.

## 7. Not modelled

Everything listed in PROJECT.json as not_modelled, by far the larger part of the
lines of the repository. Operator rewrites, conversions and kernels, which are
local rules about tensor arithmetic with no state of their own: the few that the
passes above rest on (a broadcast, a promotion, an in-place variant) are in
BackendContract and ReduceOpVariants. The library of shape and dtype functions,
which is generated, and the reification that inserts them. The verifiers and
folders of the dialect, one local rule per op. The ONNX and TorchScript importers
and the lazy backend. The Python entry points, the C API, tools and builds, which
hold no state; vendored code.
