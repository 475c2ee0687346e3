--------------------------- MODULE TestRunnerProofs ---------------------------
(***************************************************************************)
(* What run_tests guarantees for any number of tests and processes and any *)
(* size of the chunks: its state is well typed, a slow test costs only its *)
(* own result, and no result is lost or doubled.                           *)
(***************************************************************************)
EXTENDS TestRunner, TLAPS

(***************************************************************************)
(* The timer of a process runs as long as there is something it may end,   *)
(* and never while traces are cloned; the handlers run for tests that have *)
(* raised an exception.                                                    *)
(***************************************************************************)
StagesMatch ==
  \A p \in Process :
    /\ at[p].stage = "idle" <=> at[p].test = 0
    /\ at[p].stage \in {"idle", "clone"} => alarm[p] = 0
    /\ at[p].stage \in {"compileFailed", "runFailed"} => at[p].test \in erred

ContainedInv == TypeOK /\ StagesMatch /\ SlowTestsAreContained

-----------------------------------------------------------------------------
(* The division of the tests into chunks.                                  *)

LEMMA DivMonotone ==
  ASSUME NEW k \in Nat \ {0}, NEW a \in Nat, NEW b \in Nat, a <= b
  PROVE  a \div k <= b \div k
  OBVIOUS

LEMMA DivBounds ==
  ASSUME NEW k \in Nat \ {0}, NEW a \in Nat
  PROVE  /\ a \div k \in Nat
         /\ (a \div k) * k <= a
  OBVIOUS

LEMMA DivOfProduct ==
  ASSUME NEW k \in Nat \ {0}, NEW a \in Nat
  PROVE  (a * k) \div k = a
  OBVIOUS

LEMMA ProcessIsDisjoint == Main \notin Worker /\ Process = Worker \cup {Main}
  BY ConstantsAssumption DEF Main, Worker, Process

LEMMA ChunkOfType == \A t \in Test : ChunkOf(t) \in Nat
  <1> SUFFICES ASSUME NEW t \in Test PROVE ChunkOf(t) \in Nat
    OBVIOUS
  <1>1. t - 1 \in Nat /\ ChunkSize \in Nat \ {0}
    BY ConstantsAssumption DEF Test
  <1> QED BY <1>1, DivBounds DEF ChunkOf

\* Later tests are in later chunks.
LEMMA ChunkOfMonotone ==
  ASSUME NEW t \in Test, NEW u \in Test, t <= u
  PROVE  ChunkOf(t) <= ChunkOf(u)
  <1>1. /\ t - 1 \in Nat /\ u - 1 \in Nat /\ t - 1 <= u - 1
        /\ ChunkSize \in Nat \ {0}
    BY ConstantsAssumption DEF Test
  <1> QED BY <1>1, DivMonotone DEF ChunkOf

\* TakeChunk begins with the first test of its chunk.
LEMMA FirstOfChunk ==
  ASSUME NEW c \in Chunk
  PROVE  /\ c \in Nat
         /\ c * ChunkSize + 1 \in Test
         /\ ChunkOf(c * ChunkSize + 1) = c
         /\ \A u \in Test : ChunkOf(u) = c => c * ChunkSize + 1 <= u
  <1>1. ChunkSize \in Nat \ {0} /\ NumTests \in Nat
    BY ConstantsAssumption
  <1>2. ASSUME NEW u \in Test, ChunkOf(u) = c
        PROVE  c * ChunkSize + 1 <= u /\ c * ChunkSize \in Nat /\ c \in Nat
    <2>1. u - 1 \in Nat
      BY DEF Test
    <2>2. c \in Nat /\ c * ChunkSize <= u - 1
      BY <1>1, <1>2, <2>1, DivBounds DEF ChunkOf
    <2> QED BY <1>1, <2>1, <2>2 DEF Test
  <1>3. PICK t \in Test : ChunkOf(t) = c
    BY DEF Chunk
  <1>4. c \in Nat /\ c * ChunkSize \in Nat /\ c * ChunkSize + 1 <= t
    BY <1>2, <1>3
  <1>5. c * ChunkSize + 1 \in Test
    BY <1>1, <1>4 DEF Test
  <1>6. (c * ChunkSize + 1) - 1 = c * ChunkSize
    BY <1>4
  <1>7. ChunkOf(c * ChunkSize + 1) = c
    BY <1>1, <1>4, <1>6, DivOfProduct DEF ChunkOf
  <1> QED BY <1>2, <1>4, <1>5, <1>7

-----------------------------------------------------------------------------
(* Types, and what slow tests cost.                                        *)

LEMMA ActiveTest ==
  ASSUME ContainedInv, NEW p \in Process, NEW S \in SUBSET (Stage \ {"idle"}),
         Active(p, S)
  PROVE  at[p] \in [test : Test, stage : S]
  BY DEF ContainedInv, TypeOK, StagesMatch, Active, Stage, Test

LEMMA BeginType ==
  \A t \in Test : /\ Begin(t) \in [test : Test, stage : Stage]
                  /\ Begin(t).test = t
                  /\ Begin(t).stage = "entered"
  BY DEF Begin, Stage, Test

LEMMA IdleType ==
  /\ Idle \in [test : {0}, stage : Stage]
  /\ Idle.test = 0
  /\ Idle.stage = "idle"
  BY DEF Idle, Stage

LEMMA ReturnsContained ==
  ASSUME ContainedInv, NEW p \in Process, at[p].test \in Test,
         NEW o \in Outcome, Returns(p, o), UNCHANGED history
  PROVE  ContainedInv'
  <1> DEFINE t == at[p].test
             next == IF HasNext(p, t) THEN Begin(t + 1) ELSE Idle
             timer == IF HasNext(p, t) THEN t + 1 ELSE 0
             result == [test |-> t, outcome |-> o]
  <1> USE ConstantsAssumption
  <1>1. /\ at' = [at EXCEPT ![p] = next]
        /\ alarm' = [alarm EXCEPT ![p] = timer]
        /\ phase' = IF p = Main /\ ~ HasNext(p, t) THEN "startPool" ELSE phase
        /\ UNCHANGED <<failed, workers, history>>
    BY DEF Returns
  <1>2. /\ next \in [test : Test \cup {0}, stage : Stage]
        /\ timer \in Test \cup {0}
        /\ next.stage \in {"idle", "entered"}
        /\ next.stage = "idle" <=> next.test = 0
        /\ next.stage = "idle" => timer = 0
    <2>1. CASE HasNext(p, t)
      BY <2>1, BeginType DEF HasNext, Test
    <2>2. CASE ~ HasNext(p, t)
      BY <2>2, IdleType
    <2> QED BY <2>1, <2>2
  <1>3. result \in Result
    BY DEF Result
  <1>4. ChunkOf(t) \in Chunk
    BY DEF Chunk
  <1> HIDE DEF next, timer
  <1>5. /\ partial' \in [Worker -> SUBSET Result]
        /\ doneChunks' \subseteq Chunk
        /\ results' \subseteq Result
    <2>1. CASE p = Main
      BY <2>1 DEF Returns, ContainedInv, TypeOK
    <2>2. CASE p # Main
      <3>1. p \in Worker
        BY <2>2, ProcessIsDisjoint
      <3>2. partial[p] \subseteq Result
        BY <3>1 DEF ContainedInv, TypeOK
      <3>3. CASE HasNext(p, t)
        BY <1>3, <2>2, <3>1, <3>2, <3>3 DEF Returns, ContainedInv, TypeOK
      <3>4. CASE ~ HasNext(p, t)
        BY <1>3, <1>4, <2>2, <3>1, <3>2, <3>4 DEF Returns, ContainedInv, TypeOK
      <3> QED BY <3>3, <3>4
    <2> QED BY <2>1, <2>2
  <1>6. TypeOK'
    BY <1>1, <1>2, <1>5 DEF ContainedInv, TypeOK, workers, history
  <1>7. StagesMatch'
    BY <1>1, <1>2 DEF ContainedInv, TypeOK, StagesMatch, history
  <1>8. SlowTestsAreContained'
    BY <1>1 DEF ContainedInv, SlowTestsAreContained, history
  <1> QED BY <1>6, <1>7, <1>8 DEF ContainedInv

LEMMA RaisesContained ==
  ASSUME ContainedInv, NEW p \in Process, at[p].test \in Test, Raises(p),
         erred' \subseteq Test, erred \subseteq erred', missed' \subseteq Test,
         erred' \cup missed' # {}, crashed' = crashed
  PROVE  ContainedInv'
  <1>1. /\ at' = [at EXCEPT ![p] = Idle]
        /\ alarm' = [alarm EXCEPT ![p] = 0]
        /\ phase' \in {phase, "raised"}
        /\ failed' \in BOOLEAN
        /\ results' = results
        /\ UNCHANGED workers
    BY DEF Raises, answers, ContainedInv, TypeOK
  <1>2. ChunkOf(at[p].test) \in Chunk
    BY DEF Chunk
  <1>3. /\ partial' \in [Worker -> SUBSET Result]
        /\ doneChunks' \subseteq Chunk
    BY <1>2 DEF Raises, answers, ContainedInv, TypeOK
  <1>4. TypeOK'
    BY <1>1, <1>3, IdleType DEF ContainedInv, TypeOK, workers
  <1>5. StagesMatch'
    BY <1>1, IdleType DEF ContainedInv, TypeOK, StagesMatch
  <1> QED BY <1>4, <1>5 DEF ContainedInv, SlowTestsAreContained

LEMMA InitContained == Init => ContainedInv
  <1> SUFFICES ASSUME Init PROVE ContainedInv
    OBVIOUS
  <1> USE ConstantsAssumption
  <1>1. 1 \in Test /\ 0 \notin Test
    BY DEF Test
  <1>2. at \in [Process -> [test : Test \cup {0}, stage : Stage]]
    BY <1>1, BeginType, IdleType DEF Init
  <1>3. alarm \in [Process -> Test \cup {0}]
    BY <1>2 DEF Init
  <1>4. TypeOK
    <2>1. phase \in {"sequential", "startPool"}
      BY DEF Init
    <2>2. 0 \in 0 .. MaxProcesses
      OBVIOUS
    <2>3. /\ partial \in [Worker -> SUBSET Result]
          /\ exitCode \in [Worker -> {"none", "zero", "nonzero"}]
      BY DEF Init
    <2>4. pool = {} /\ poolCopy = {} /\ doneChunks = {} /\ results = {} /\ erred = {}
          /\ missed = {} /\ crashed = {} /\ failed = FALSE /\ started = 0 /\ nextChunk = 0
      BY DEF Init
    <2> QED BY <1>2, <1>3, <2>1, <2>2, <2>3, <2>4 DEF TypeOK
  <1>5. \A p \in Process : at[p] = Idle \/ at[p] = Begin(1)
    BY DEF Init
  <1>6. StagesMatch
    BY <1>1, <1>5, BeginType, IdleType DEF Init, StagesMatch
  <1> QED BY <1>4, <1>6 DEF ContainedInv, SlowTestsAreContained, Init

LEMMA ProcessStepContained ==
  ASSUME ContainedInv, NEW p \in Process, ProcessStep(p)
  PROVE  ContainedInv'
  <1> DEFINE t == at[p].test
  <1>1. CASE Compiles(p)
    <2>1. at[p] \in [test : Test, stage : {"compile"}]
      BY <1>1, ActiveTest DEF Compiles, Stage
    <2> QED BY <1>1, <2>1
        DEF Compiles, MoveTo, ContainedInv, TypeOK, StagesMatch, SlowTestsAreContained,
            Stage, Test, workers, answers, history
  <1>0. CASE EntersTry(p)
    <2>1. at[p] \in [test : Test, stage : {"entered", "compiled"}]
      BY <1>0, ActiveTest DEF EntersTry, Stage
    <2>2. PICK s \in {"compile", "run"} : MoveTo(p, s)
      BY <1>0 DEF EntersTry
    <2> QED BY <1>0, <2>1, <2>2
        DEF EntersTry, MoveTo, ContainedInv, TypeOK, StagesMatch, SlowTestsAreContained,
            Stage, Test, workers, answers, history
  <1>2. CASE Runs(p)
    <2>1. at[p] \in [test : Test, stage : {"run"}]
      BY <1>2, ActiveTest DEF Runs, Stage
    <2> QED BY <1>2, <2>1
        DEF Runs, MoveTo, ContainedInv, TypeOK, StagesMatch, SlowTestsAreContained,
            Stage, Test, workers, answers, history
  <1>3. CASE Errs(p)
    <2>1. at[p] \in [test : Test, stage : {"compile", "run", "clone"}]
      BY <1>3, ActiveTest DEF Errs, Stage
    <2>2. /\ erred' \subseteq Test
          /\ erred \subseteq erred'
          /\ t \in erred'
          /\ missed' = missed /\ missed \subseteq Test
          /\ crashed' = crashed
      BY <1>3, <2>1 DEF Errs, ContainedInv, TypeOK
    <2>3. CASE at[p].stage = "clone"
      BY <1>3, <2>1, <2>2, <2>3, RaisesContained DEF Errs
    <2>4. CASE at[p].stage # "clone"
      BY <1>3, <2>1, <2>2, <2>4, SMTT(30)
      DEF Errs, MoveTo, ContainedInv, TypeOK, StagesMatch, SlowTestsAreContained,
          Stage, Test, workers, answers
    <2> QED BY <2>3, <2>4
  <1>4. CASE Finishes(p)
    <2>1. at[p] \in [test : Test, stage : {"compileFailed", "runFailed", "clone"}]
      BY <1>4, ActiveTest DEF Finishes, Stage
    <2>2. PICK o \in Outcome : Returns(p, o)
      BY <1>4 DEF Finishes, Outcome
    <2> QED BY <1>4, <2>1, <2>2, ReturnsContained DEF Finishes
  <1>5. CASE TimesOut(p)
    <2>1. at[p] \in [test : Test, stage : Stage \ {"idle"}]
      BY <1>5, ActiveTest DEF TimesOut, Stage
    <2>2. CASE at[p].stage \in {"compile", "run"}
      <3>1. PICK o \in Outcome : Returns(p, o)
        BY <1>5, <2>2 DEF TimesOut, Outcome
      <3>2. UNCHANGED history
        BY <1>5, <2>2 DEF TimesOut, history
      <3> QED BY <2>1, <3>1, <3>2, ReturnsContained
    <2>3. CASE at[p].stage \notin {"compile", "run"}
      <3>1. Raises(p) /\ UNCHANGED <<erred, crashed>> /\ alarm[p] # 0
        BY <1>5, <2>3 DEF TimesOut
      <3>2. erred \subseteq Test /\ missed' \subseteq Test
        BY <1>5, <2>1 DEF TimesOut, ContainedInv, TypeOK
      <3>3. t \in erred \cup missed'
        <4>1. CASE at[p].stage \in {"entered", "compiled"}
          BY <1>5, <4>1 DEF TimesOut
        <4>2. CASE at[p].stage \in {"compileFailed", "runFailed"}
          BY <4>2 DEF ContainedInv, StagesMatch
        <4> QED BY <2>1, <2>3, <3>1, <4>1, <4>2 DEF ContainedInv, StagesMatch, Stage
      <3> QED BY <2>1, <3>1, <3>2, <3>3, RaisesContained
    <2> QED BY <2>2, <2>3
  <1>6. CASE Crashes(p)
    <2>1. at[p] \in [test : Test, stage : {"compile", "run"}]
      BY <1>6, ActiveTest DEF Crashes, Stage
    <2>2. CASE p = Main
      BY <1>6, <2>1, <2>2
      DEF Crashes, Active, ContainedInv, TypeOK, StagesMatch, SlowTestsAreContained, answers
    <2>3. CASE p # Main
      BY <1>6, <2>1, <2>3, ConstantsAssumption
      DEF Crashes, ContainedInv, TypeOK, StagesMatch, SlowTestsAreContained, answers
    <2> QED BY <2>2, <2>3
  <1> QED BY <1>0, <1>1, <1>2, <1>3, <1>4, <1>5, <1>6 DEF ProcessStep

LEMMA StepContained == ContainedInv /\ [Next]_vars => ContainedInv'
  <1> SUFFICES ASSUME ContainedInv, [Next]_vars PROVE ContainedInv'
    OBVIOUS
  <1> USE ConstantsAssumption
  <1>1. CASE \E p \in Process : ProcessStep(p)
    BY <1>1, ProcessStepContained
  <1>2. ASSUME NEW p \in Worker, TakeChunk(p) PROVE ContainedInv'
    <2> DEFINE first == nextChunk * ChunkSize + 1
    <2>1. nextChunk \in Chunk /\ first \in Test /\ nextChunk' \in Nat
      BY <1>2, FirstOfChunk DEF TakeChunk
    <2>2. /\ Begin(first) \in [test : Test, stage : Stage]
          /\ Begin(first).stage = "entered"
          /\ Begin(first).test = first
          /\ first # 0
      BY <2>1, BeginType DEF Test
    <2>3. /\ at' = [at EXCEPT ![p] = Begin(first)]
          /\ alarm' = [alarm EXCEPT ![p] = first]
          /\ UNCHANGED <<phase, exitCode, pool, poolCopy, started, answers, history>>
      BY <1>2 DEF TakeChunk
    <2> HIDE DEF first
    <2> QED BY <2>1, <2>2, <2>3
        DEF ContainedInv, TypeOK, StagesMatch, SlowTestsAreContained, answers, history
  <1>3. ASSUME NEW p \in Worker, ReplaceWorker(p) PROVE ContainedInv'
    <2>1. started' \in 0 .. MaxProcesses /\ pool' \subseteq Worker
      BY <1>3 DEF ReplaceWorker, ContainedInv, TypeOK, Worker
    <2> QED BY <1>3, <2>1
        DEF ReplaceWorker, ContainedInv, TypeOK, StagesMatch, SlowTestsAreContained,
            answers, history
  <1>4. CASE StartPool
    <2>1. /\ 1 .. NumProcesses \subseteq Worker
          /\ NumProcesses \in 0 .. MaxProcesses
      BY DEF Worker
    <2> QED BY <1>4, <2>1
        DEF StartPool, ContainedInv, TypeOK, StagesMatch, SlowTestsAreContained,
            answers, history
  <1>5. CASE ExitOnCrash
    BY <1>5
    DEF ExitOnCrash, ContainedInv, TypeOK, StagesMatch, SlowTestsAreContained, workers,
        answers, history
  <1>6. CASE GetResults
    <2>1. Aborted \subseteq Result
      BY DEF Aborted, Result, Outcome
    <2> QED BY <1>6, <2>1
        DEF GetResults, ContainedInv, TypeOK, StagesMatch, SlowTestsAreContained, workers,
            history
  <1>7. CASE UNCHANGED vars
    BY <1>7
    DEF vars, ContainedInv, TypeOK, StagesMatch, SlowTestsAreContained, workers, answers,
        history
  <1> QED BY <1>1, <1>2, <1>3, <1>4, <1>5, <1>6, <1>7 DEF Next, MainStep

LEMMA AlwaysContained == Spec => []ContainedInv
  BY InitContained, StepContained, PTL DEF Spec

\* For any numbers of tests, processes and chunks the state of run_tests is well
\* typed.
THEOREM TypeCorrect == Spec => []TypeOK
  BY AlwaysContained, PTL DEF ContainedInv

\* A slow test alone never costs the results of others: compile_and_run_test only
\* lets an exception out, and run_tests only fails with one, when a test has raised
\* one or a timer has expired in front of a try block.
THEOREM Containment == Spec => []SlowTestsAreContained
  BY AlwaysContained, PTL DEF ContainedInv

-----------------------------------------------------------------------------
(***************************************************************************)
(* No result is lost or doubled.  A chunk is in the hands of one worker at *)
(* most until it is done; what its worker has are the results of the tests *)
(* before the one it is at; and the chunks that are done have the results  *)
(* of all their tests, unless an exception stands for those.               *)
(***************************************************************************)
Working(p) == at[p].stage # "idle"

HeldChunk(p) == ChunkOf(at[p].test)

OneEach(rs) == \A r, s \in rs : r.test = s.test => r = s

ChunksAreHeldOnce ==
  /\ \A c \in doneChunks : c < nextChunk
  /\ \A p \in Worker : Working(p) =>
       /\ HeldChunk(p) < nextChunk
       /\ HeldChunk(p) \notin doneChunks
       /\ \A q \in Worker : Working(q) /\ q # p => HeldChunk(q) # HeldChunk(p)

PartialResults ==
  \A p \in Worker :
    /\ OneEach(partial[p])
    /\ \A r \in partial[p] :
         /\ Working(p)
         /\ r.outcome # "aborted"
         /\ ChunkOf(r.test) = HeldChunk(p)
         /\ r.test < at[p].test
    /\ \A u \in Test :
         Working(p) /\ ChunkOf(u) = HeldChunk(p) /\ u < at[p].test =>
           \E r \in partial[p] : r.test = u

CompleteResults ==
  /\ OneEach(results)
  /\ \A r \in results : r.outcome # "aborted" /\ ChunkOf(r.test) \in doneChunks
  /\ ~ failed => \A u \in Test : ChunkOf(u) \in doneChunks =>
                    \E r \in results : r.test = u
  /\ phase = "returned" => ~ failed /\ doneChunks = Chunk

AccountsInv ==
  ContainedInv /\ ChunksAreHeldOnce /\ PartialResults /\ CompleteResults

\* The invariant is strong enough.
LEMMA AccountsImplies == AccountsInv => EveryTestIsAccountedFor
  <1> SUFFICES ASSUME AccountsInv, phase = "returned", NEW t \in Test
               PROVE  \E r \in results : /\ {s \in results : s.test = t} = {r}
                                         /\ r.outcome = "aborted" => t \in crashed
    BY DEF EveryTestIsAccountedFor
  <1>1. ChunkOf(t) \in doneChunks /\ ~ failed
    BY DEF AccountsInv, CompleteResults, Chunk
  <1>2. PICK r \in results : r.test = t
    BY <1>1 DEF AccountsInv, CompleteResults
  <1>3. {s \in results : s.test = t} = {r}
    BY <1>2 DEF AccountsInv, CompleteResults, OneEach
  <1>4. r.outcome # "aborted"
    BY <1>2 DEF AccountsInv, CompleteResults
  <1> QED BY <1>3, <1>4

\* A worker that finds no next test has been through all of its chunk.
LEMMA LastOfChunk ==
  ASSUME NEW p \in Worker, NEW t \in Test, ~ HasNext(p, t),
         NEW u \in Test, ChunkOf(u) = ChunkOf(t)
  PROVE  u <= t
  <1> SUFFICES ASSUME ~ (u <= t) PROVE FALSE
    OBVIOUS
  <1>1. t + 1 \in Test /\ t <= t + 1 /\ t + 1 <= u
    BY ConstantsAssumption DEF Test
  <1>2. ChunkOf(t) <= ChunkOf(t + 1) /\ ChunkOf(t + 1) <= ChunkOf(u)
    BY <1>1, ChunkOfMonotone
  <1>3. ChunkOf(t) \in Nat /\ ChunkOf(t + 1) \in Nat
    BY <1>1, ChunkOfType
  <1>4. ChunkOf(t + 1) = ChunkOf(t)
    BY <1>2, <1>3
  <1> QED BY <1>1, <1>4, ProcessIsDisjoint DEF HasNext

LEMMA InitAccounts == Init => AccountsInv
  <1> SUFFICES ASSUME Init PROVE AccountsInv
    OBVIOUS
  <1>1. \A p \in Worker : at[p].stage = "idle" /\ partial[p] = {}
    BY ProcessIsDisjoint, IdleType DEF Init
  <1>2. ChunksAreHeldOnce
    BY <1>1 DEF ChunksAreHeldOnce, Working, Init
  <1>3. PartialResults
    BY <1>1 DEF PartialResults, Working, OneEach
  <1>4. CompleteResults
    BY DEF CompleteResults, OneEach, Init
  <1> QED BY <1>2, <1>3, <1>4, InitContained DEF AccountsInv

\* Steps within a test, and those of the main process, change nothing.
LEMMA StaysAccounted ==
  ASSUME AccountsInv, ContainedInv',
         \A q \in Worker : at'[q].test = at[q].test /\ (Working(q)' <=> Working(q)),
         UNCHANGED <<partial, doneChunks, nextChunk, failed, results>>,
         phase' = "returned" => phase = "returned" \/ (~ failed /\ doneChunks = Chunk)
  PROVE  AccountsInv'
  <1>1. \A q \in Worker : HeldChunk(q)' = HeldChunk(q)
    BY DEF HeldChunk, ChunkOf
  <1>2. ChunksAreHeldOnce'
    BY <1>1 DEF AccountsInv, ChunksAreHeldOnce
  <1>3. PartialResults'
    BY <1>1 DEF AccountsInv, PartialResults, OneEach, ChunkOf, Test
  <1>4. CompleteResults'
    BY DEF AccountsInv, CompleteResults, OneEach, ChunkOf, Chunk, Test
  <1> QED BY <1>2, <1>3, <1>4 DEF AccountsInv

LEMMA ReturnsAccounted ==
  ASSUME AccountsInv, ContainedInv', NEW p \in Process, at[p].test \in Test, Working(p),
         NEW o \in Outcome \ {"aborted"}, Returns(p, o), phase # "returned"
  PROVE  AccountsInv'
  <1> DEFINE t == at[p].test
             result == [test |-> t, outcome |-> o]
  <1>1. /\ at' = [at EXCEPT ![p] = IF HasNext(p, t) THEN Begin(t + 1) ELSE Idle]
        /\ phase' # "returned"
        /\ UNCHANGED <<failed, nextChunk>>
    BY DEF Returns, workers
  <1>2. at \in [Process -> [test : Test \cup {0}, stage : Stage]]
    BY DEF AccountsInv, ContainedInv, TypeOK
  <1>3. CASE p = Main
    <2>1. \A q \in Worker : at'[q] = at[q]
      BY <1>1, <1>2, <1>3, ProcessIsDisjoint
    <2>2. \A q \in Worker : at'[q].test = at[q].test /\ (Working(q)' <=> Working(q))
      BY <2>1 DEF Working
    <2>3. UNCHANGED <<partial, doneChunks, results>>
      BY <1>3 DEF Returns
    <2> QED BY <1>1, <2>2, <2>3, StaysAccounted
  <1>4. CASE p # Main /\ HasNext(p, t)
    <2>1. p \in Worker
      BY <1>4, ProcessIsDisjoint
    <2>2. t + 1 \in Test /\ ChunkOf(t + 1) = ChunkOf(t)
      BY <1>4 DEF HasNext
    <2>3. /\ at'[p].test = t + 1 /\ Working(p)' /\ HeldChunk(p)' = HeldChunk(p)
          /\ \A q \in Worker \ {p} : at'[q] = at[q]
      BY <1>1, <1>2, <1>4, <2>1, <2>2, BeginType, ProcessIsDisjoint
      DEF Working, HeldChunk, ChunkOf
    <2>4. \A q \in Worker \ {p} :
            (Working(q)' <=> Working(q)) /\ HeldChunk(q)' = HeldChunk(q)
      BY <2>3 DEF Working, HeldChunk, ChunkOf
    <2>5. /\ partial' = [partial EXCEPT ![p] = @ \cup {result}]
          /\ UNCHANGED <<doneChunks, results>>
      BY <1>4 DEF Returns
    <2>6. ChunksAreHeldOnce'
      BY <1>1, <2>3, <2>4, <2>5 DEF AccountsInv, ChunksAreHeldOnce
    <2>7. partial \in [Worker -> SUBSET Result]
      BY DEF AccountsInv, ContainedInv, TypeOK
    <2>8. /\ partial'[p] = partial[p] \cup {result}
          /\ \A q \in Worker \ {p} : partial'[q] = partial[q]
      BY <2>1, <2>5, <2>7
    <2>9. PartialResults'
      <3>1. ASSUME NEW r \in partial'[p]
            PROVE  /\ r.outcome # "aborted"
                   /\ ChunkOf(r.test) = HeldChunk(p)
                   /\ r.test < t + 1
                   /\ r.test = t => r = result
        <4>1. CASE r = result
          BY <4>1 DEF HeldChunk, Test
        <4>2. CASE r \in partial[p]
          <5>1. r.test \in Test
            BY <2>1, <2>7, <4>2 DEF Result
          <5> QED BY <2>1, <4>2, <5>1 DEF AccountsInv, PartialResults, Test
        <4> QED BY <2>8, <3>1, <4>1, <4>2
      <3>2. OneEach(partial'[p])
        BY <2>1, <2>8, <3>1 DEF AccountsInv, PartialResults, OneEach
      <3>3. ASSUME NEW u \in Test, ChunkOf(u) = HeldChunk(p), u < t + 1
            PROVE  \E r \in partial'[p] : r.test = u
        <4>1. CASE u = t
          <5>1. result \in partial'[p] /\ result.test = u
            BY <2>8, <4>1
          <5> QED BY <5>1
        <4>2. CASE u < t
          <5>1. PICK r \in partial[p] : r.test = u
            BY <2>1, <3>3, <4>2 DEF AccountsInv, PartialResults
          <5> QED BY <2>8, <5>1
        <4> QED BY <3>3, <4>1, <4>2 DEF Test
      <3>4. \A q \in Worker \ {p} : at'[q].test = at[q].test
        BY <2>3
      <3> QED BY <2>3, <2>4, <2>8, <3>1, <3>2, <3>3, <3>4
          DEF AccountsInv, PartialResults, OneEach, ChunkOf, Test
    <2>10. CompleteResults'
      BY <1>1, <2>5 DEF AccountsInv, CompleteResults, OneEach, ChunkOf, Test
    <2> QED BY <2>6, <2>9, <2>10 DEF AccountsInv
  <1>5. CASE p # Main /\ ~ HasNext(p, t)
    <2>1. p \in Worker
      BY <1>5, ProcessIsDisjoint
    <2>2. ~ Working(p)' /\ \A q \in Worker \ {p} : at'[q] = at[q]
      BY <1>1, <1>2, <1>5, <2>1, IdleType, ProcessIsDisjoint DEF Working
    <2>3. \A q \in Worker \ {p} :
            (Working(q)' <=> Working(q)) /\ HeldChunk(q)' = HeldChunk(q)
      BY <2>2 DEF Working, HeldChunk, ChunkOf
    <2>4. /\ partial' = [partial EXCEPT ![p] = {}]
          /\ doneChunks' = doneChunks \cup {ChunkOf(t)}
          /\ results' = results \cup partial[p] \cup {result}
      BY <1>5 DEF Returns
    <2>5. partial \in [Worker -> SUBSET Result] /\ results \subseteq Result
      BY DEF AccountsInv, ContainedInv, TypeOK
    <2>6. ChunksAreHeldOnce'
      BY <1>1, <2>1, <2>2, <2>3, <2>4 DEF AccountsInv, ChunksAreHeldOnce, HeldChunk
    <2>7. PartialResults'
      <3>1. partial'[p] = {} /\ \A q \in Worker \ {p} : partial'[q] = partial[q]
        BY <2>1, <2>4, <2>5
      <3> QED BY <2>2, <2>3, <3>1 DEF AccountsInv, PartialResults, OneEach, ChunkOf, Test
    <2>8. ASSUME NEW r \in partial[p] \cup {result}
          PROVE  /\ r.outcome # "aborted"
                 /\ ChunkOf(r.test) = ChunkOf(t)
                 /\ r.test = t => r = result
      <3>1. CASE r = result
        BY <3>1
      <3>2. CASE r \in partial[p]
        <4>1. r.test \in Test
          BY <2>1, <2>5, <3>2 DEF Result
        <4> QED BY <2>1, <3>2, <4>1 DEF AccountsInv, PartialResults, HeldChunk, Test
      <3> QED BY <2>8, <3>1, <3>2
    <2>9. OneEach(partial[p] \cup {result})
      BY <2>1, <2>8 DEF AccountsInv, PartialResults, OneEach
    <2>10. ChunkOf(t) \notin doneChunks
      BY <2>1 DEF AccountsInv, ChunksAreHeldOnce, HeldChunk
    <2>11. OneEach(results')
      <3>1. \A r \in results : ChunkOf(r.test) \in doneChunks
        BY DEF AccountsInv, CompleteResults
      <3>2. \A r \in results, s \in partial[p] \cup {result} : r.test # s.test
        BY <2>8, <2>10, <3>1 DEF ChunkOf
      <3> QED BY <2>4, <2>9, <3>2 DEF AccountsInv, CompleteResults, OneEach
    <2>12. \A r \in results' : r.outcome # "aborted" /\ ChunkOf(r.test) \in doneChunks'
      BY <2>4, <2>8 DEF AccountsInv, CompleteResults
    <2>13. ASSUME ~ failed, NEW u \in Test, ChunkOf(u) \in doneChunks'
           PROVE  \E r \in results' : r.test = u
      <3>1. CASE ChunkOf(u) \in doneChunks
        BY <2>4, <2>13, <3>1 DEF AccountsInv, CompleteResults
      <3>2. CASE ChunkOf(u) = ChunkOf(t)
        <4>1. u <= t
          BY <1>5, <2>1, <3>2, LastOfChunk
        <4>2. CASE u = t
          <5>1. result \in results' /\ result.test = u
            BY <2>4, <4>2
          <5> QED BY <5>1
        <4>3. CASE u < t
          <5>1. PICK r \in partial[p] : r.test = u
            BY <2>1, <3>2, <4>3 DEF AccountsInv, PartialResults, HeldChunk
          <5> QED BY <2>4, <5>1
        <4> QED BY <4>1, <4>2, <4>3 DEF Test
      <3> QED BY <2>4, <2>13, <3>1, <3>2
    <2>14. CompleteResults'
      BY <1>1, <2>11, <2>12, <2>13 DEF CompleteResults, OneEach, ChunkOf, Test
    <2> QED BY <2>6, <2>7, <2>14 DEF AccountsInv
  <1> QED BY <1>3, <1>4, <1>5

LEMMA RaisesAccounted ==
  ASSUME AccountsInv, ContainedInv', NEW p \in Process, Working(p),
         Raises(p), phase # "returned"
  PROVE  AccountsInv'
  <1>1. /\ at' = [at EXCEPT ![p] = Idle]
        /\ phase' # "returned"
        /\ UNCHANGED <<nextChunk, results>>
    BY DEF Raises, workers, answers
  <1>2. at \in [Process -> [test : Test \cup {0}, stage : Stage]]
    BY DEF AccountsInv, ContainedInv, TypeOK
  <1>3. CASE p = Main
    <2>1. \A q \in Worker : at'[q] = at[q]
      BY <1>1, <1>2, <1>3, ProcessIsDisjoint
    <2>2. \A q \in Worker : at'[q].test = at[q].test /\ (Working(q)' <=> Working(q))
      BY <2>1 DEF Working
    <2>3. UNCHANGED <<partial, doneChunks, failed>>
      BY <1>3 DEF Raises, answers
    <2> QED BY <1>1, <2>2, <2>3, StaysAccounted
  <1>4. CASE p # Main
    <2>1. p \in Worker
      BY <1>4, ProcessIsDisjoint
    <2>2. ~ Working(p)' /\ \A q \in Worker \ {p} : at'[q] = at[q]
      BY <1>1, <1>2, <2>1, IdleType, ProcessIsDisjoint DEF Working
    <2>3. \A q \in Worker \ {p} :
            (Working(q)' <=> Working(q)) /\ HeldChunk(q)' = HeldChunk(q)
      BY <2>2 DEF Working, HeldChunk, ChunkOf
    <2>4. /\ partial' = [partial EXCEPT ![p] = {}]
          /\ doneChunks' = doneChunks \cup {ChunkOf(at[p].test)}
          /\ failed'
      BY <1>4 DEF Raises
    <2>5. partial'[p] = {} /\ \A q \in Worker \ {p} : partial'[q] = partial[q]
      BY <2>1, <2>4 DEF AccountsInv, ContainedInv, TypeOK
    <2>6. ChunksAreHeldOnce'
      BY <1>1, <2>1, <2>2, <2>3, <2>4 DEF AccountsInv, ChunksAreHeldOnce, HeldChunk
    <2>7. PartialResults'
      BY <2>2, <2>3, <2>5 DEF AccountsInv, PartialResults, OneEach, ChunkOf, Test
    <2>8. CompleteResults'
      BY <1>1, <2>4 DEF AccountsInv, CompleteResults, OneEach, ChunkOf
    <2> QED BY <2>6, <2>7, <2>8 DEF AccountsInv
  <1> QED BY <1>3, <1>4

LEMMA TakeChunkAccounted ==
  ASSUME AccountsInv, ContainedInv', NEW p \in Worker, TakeChunk(p)
  PROVE  AccountsInv'
  <1> DEFINE first == nextChunk * ChunkSize + 1
  <1>1. /\ nextChunk \in Nat
        /\ first \in Test
        /\ ChunkOf(first) = nextChunk
        /\ \A u \in Test : ChunkOf(u) = nextChunk => first <= u
    BY FirstOfChunk DEF TakeChunk
  <1>2. /\ at' = [at EXCEPT ![p] = Begin(first)]
        /\ nextChunk' = nextChunk + 1
        /\ UNCHANGED <<phase, partial, doneChunks, failed, results>>
        /\ ~ Working(p)
    BY DEF TakeChunk, answers, Working
  <1> HIDE DEF first
  <1>3. /\ Working(p)'
        /\ at'[p].test = first
        /\ HeldChunk(p)' = nextChunk
        /\ \A q \in Worker \ {p} : at'[q] = at[q]
    BY <1>1, <1>2, BeginType, ProcessIsDisjoint
    DEF AccountsInv, ContainedInv, TypeOK, Working, HeldChunk, ChunkOf
  <1>4. \A q \in Worker \ {p} :
          (Working(q)' <=> Working(q)) /\ HeldChunk(q)' = HeldChunk(q)
    BY <1>3 DEF Working, HeldChunk, ChunkOf
  <1>5. ChunksAreHeldOnce'
    <2>1. \A c \in doneChunks : c \in Nat
      BY ChunkOfType DEF AccountsInv, ContainedInv, TypeOK, Chunk
    <2>2. \A q \in Worker : Working(q) => HeldChunk(q) \in Nat
      BY ChunkOfType, ProcessIsDisjoint
      DEF AccountsInv, ContainedInv, TypeOK, StagesMatch, Working, HeldChunk
    <2> QED BY <1>1, <1>2, <1>3, <1>4, <2>1, <2>2 DEF AccountsInv, ChunksAreHeldOnce
  <1>6. PartialResults'
    <2>1. partial[p] = {}
      BY <1>2 DEF AccountsInv, PartialResults
    <2>2. \A u \in Test : ~ (ChunkOf(u) = nextChunk /\ u < first)
      BY <1>1 DEF Test
    <2> QED BY <1>2, <1>3, <1>4, <2>1, <2>2
        DEF AccountsInv, PartialResults, OneEach, ChunkOf, Test
  <1>7. CompleteResults'
    BY <1>2 DEF AccountsInv, CompleteResults, OneEach, ChunkOf, Chunk, Test
  <1> QED BY <1>5, <1>6, <1>7 DEF AccountsInv

LEMMA ProcessStepAccounted ==
  ASSUME AccountsInv, ContainedInv', NEW p \in Process, ProcessStep(p)
  PROVE  AccountsInv'
  <1> USE DEF AccountsInv
  <1>1. at \in [Process -> [test : Test \cup {0}, stage : Stage]]
    BY DEF ContainedInv, TypeOK
  <1>2. /\ at[p].test \in Test
        /\ Working(p)
        /\ phase # "returned"
    <2>1. \E S \in SUBSET (Stage \ {"idle"}) : Active(p, S)
      BY DEF ProcessStep, EntersTry, Compiles, Runs, Errs, Finishes, TimesOut, Crashes, Stage
    <2> QED BY <2>1, ActiveTest DEF Active, Working
  <1>3. ASSUME NEW s \in Stage \ {"idle"}, MoveTo(p, s)
        PROVE  \A q \in Worker :
                 at'[q].test = at[q].test /\ (Working(q)' <=> Working(q))
    BY <1>1, <1>2, <1>3 DEF MoveTo, Working
  <1>0. CASE EntersTry(p)
    BY <1>2, <1>3, <1>0, StaysAccounted DEF EntersTry, Stage, workers, answers
  <1>4. CASE Compiles(p)
    BY <1>2, <1>3, <1>4, StaysAccounted DEF Compiles, Stage, workers, answers
  <1>5. CASE Runs(p)
    BY <1>2, <1>3, <1>5, StaysAccounted DEF Runs, Stage, workers, answers
  <1>6. CASE Errs(p)
    <2>1. CASE at[p].stage = "clone"
      BY <1>2, <1>6, <2>1, RaisesAccounted DEF Errs
    <2>2. CASE at[p].stage # "clone"
      BY <1>2, <1>3, <1>6, <2>2, StaysAccounted DEF Errs, Stage, workers, answers
    <2> QED BY <2>1, <2>2
  <1>7. CASE Finishes(p)
    <2>1. PICK o \in Outcome \ {"aborted"} : Returns(p, o)
      BY <1>7 DEF Finishes, Outcome
    <2> QED BY <1>2, <2>1, ReturnsAccounted
  <1>8. CASE TimesOut(p)
    <2>1. CASE at[p].stage \in {"compile", "run"}
      <3>1. PICK o \in Outcome \ {"aborted"} : Returns(p, o)
        BY <1>8, <2>1 DEF TimesOut, Outcome
      <3> QED BY <1>2, <3>1, ReturnsAccounted
    <2>2. CASE at[p].stage \notin {"compile", "run"}
      BY <1>2, <1>8, <2>2, RaisesAccounted DEF TimesOut
    <2> QED BY <2>1, <2>2
  <1>9. CASE Crashes(p)
    <2>1. /\ UNCHANGED <<at, partial, doneChunks, nextChunk, failed, results>>
          /\ phase' # "returned"
      BY <1>2, <1>9 DEF Crashes, answers
    <2> QED BY <2>1, StaysAccounted DEF Working
  <1> QED BY <1>0, <1>4, <1>5, <1>6, <1>7, <1>8, <1>9 DEF ProcessStep

LEMMA StepAccounts == AccountsInv /\ [Next]_vars => AccountsInv'
  <1> SUFFICES ASSUME AccountsInv, [Next]_vars PROVE AccountsInv'
    OBVIOUS
  <1>1. ContainedInv'
    BY StepContained DEF AccountsInv
  <1>2. CASE \E p \in Process : ProcessStep(p)
    BY <1>1, <1>2, ProcessStepAccounted
  <1>3. CASE \E p \in Worker : TakeChunk(p)
    BY <1>1, <1>3, TakeChunkAccounted
  <1>4. ASSUME UNCHANGED <<at, partial, doneChunks, nextChunk, failed, results>>,
               phase' = "returned" => phase = "returned" \/ (~ failed /\ doneChunks = Chunk)
        PROVE  AccountsInv'
    BY <1>1, <1>4, StaysAccounted DEF Working
  <1>5. CASE \E p \in Worker : ReplaceWorker(p)
    BY <1>4, <1>5 DEF ReplaceWorker, answers
  <1>6. CASE StartPool
    BY <1>4, <1>6 DEF StartPool, answers
  <1>7. CASE ExitOnCrash
    BY <1>4, <1>7 DEF ExitOnCrash, workers, answers
  <1>8. CASE GetResults
    <2>1. CASE failed
      BY <1>4, <1>8, <2>1 DEF GetResults, workers
    <2>2. CASE ~ failed
      <3>1. doneChunks = Chunk /\ results' = results \cup Aborted
        BY <1>8, <2>2 DEF GetResults, Ready
      <3>2. \A t \in Test : ChunkOf(t) \in doneChunks
        BY <3>1 DEF Chunk
      <3>3. Test \subseteq TestsWithResults
        BY <2>2, <3>2 DEF AccountsInv, CompleteResults, TestsWithResults
      <3>4. Aborted = {}
        BY <3>3 DEF Aborted
      <3> QED BY <1>4, <1>8, <2>2, <3>1, <3>4 DEF GetResults, workers
    <2> QED BY <2>1, <2>2
  <1>9. CASE UNCHANGED vars
    BY <1>4, <1>9 DEF vars, workers, answers
  <1> QED BY <1>2, <1>3, <1>5, <1>6, <1>7, <1>8, <1>9 DEF Next, MainStep

\* When run_tests returns it has exactly one result for every test, and a test is
\* only reported as aborted if it took its process down; for any numbers of tests,
\* workers and chunks, whatever is slow, fails or crashes.
THEOREM Accountability == Spec => []EveryTestIsAccountedFor
  <1>1. Spec => []AccountsInv
    BY InitAccounts, StepAccounts, PTL DEF Spec
  <1> QED BY <1>1, AccountsImplies, PTL
=============================================================================
