------------------------------ MODULE TestRunner ------------------------------
(***************************************************************************)
(* run_tests of the end-to-end test framework: tests are compiled and run  *)
(* by a pool of worker processes, each under a timer of its own, while the *)
(* main process polls the pool.  Workers crash, tests raise exceptions and *)
(* timers expire at any point; the pool replaces workers behind the main   *)
(* process's back.  With one process, or on demand, the tests are also run *)
(* one after the other in the main process first.                          *)
(*                                                                         *)
(* The pool is Python's multiprocessing.Pool: tests are handed out in      *)
(* chunks, the results of a chunk arrive together, an exception stands for *)
(* those of its whole chunk, and a chunk whose worker dies is lost.        *)
(***************************************************************************)
EXTENDS Naturals, FiniteSets

CONSTANTS
  NumTests,      (* Tests, in the order of their names.                    *)
  NumProcesses,  (* Workers in the pool.                                   *)
  ChunkSize,     (* Tests per chunk, chosen by the pool.                   *)
  MaxProcesses,  (* Bound on the processes that are ever started.          *)
  ExitCodes      (* With what a crashing test may make its process exit.   *)

ASSUME ConstantsAssumption ==
  /\ {NumTests, NumProcesses, ChunkSize, MaxProcesses} \subseteq Nat \ {0}
  /\ NumProcesses <= MaxProcesses
  /\ ExitCodes \subseteq {"zero", "nonzero"}

Test == 1 .. NumTests
Worker == 1 .. MaxProcesses
Main == 0
Process == Worker \cup {Main}

ChunkOf(t) == (t - 1) \div ChunkSize
Chunk == {ChunkOf(t) : t \in Test}

(***************************************************************************)
(* Where a process is in compile_and_run_test: in front of the first try   *)
(* block, in it, in its handler of exceptions, in front of the second one, *)
(* in it, in its handler, or behind them, cloning the traces it is going   *)
(* to return.                                                              *)
(***************************************************************************)
Stage == {"idle", "entered", "compile", "compileFailed", "compiled", "run", "runFailed", "clone"}

Outcome == {"compileError", "compileTimeout", "runError", "runTimeout",
            "trace", "aborted"}

VARIABLES
  phase,      (* Of run_tests: "sequential", "startPool", "poll", or how   *)
              (* it ended: "returned", "raised", "exited", "crashed".      *)
  at,         (* The test and the stage each process is at.                *)
  alarm,      (* The test whose timer is running in a process; 0 if none.  *)
  exitCode,   (* What each dead process exited with, "none" for others.   *)
  pool,       (* The processes of the pool.                                *)
  poolCopy,   (* Those that run_tests looks at.                            *)
  started,    (* How many workers have been started.                       *)
  nextChunk,  (* The first chunk that was not handed out yet.              *)
  partial,    (* What each worker has of the results of its chunk.         *)
  doneChunks, (* The chunks that are ready.                                *)
  failed,     (* Did an exception leave compile_and_run_test in a worker?  *)
  results,    (* The results of the chunks that are ready.                 *)
  erred,      (* History: the tests that raised an exception.              *)
  missed,     (* History: the tests whose timer expired before a try.      *)
  crashed     (* History: the tests that made a worker exit.               *)

workers == <<exitCode, pool, poolCopy, started, nextChunk>>
answers == <<partial, doneChunks, failed, results>>
history == <<erred, missed, crashed>>
vars == <<phase, at, alarm, workers, answers, history>>

Idle == [test |-> 0, stage |-> "idle"]
Begin(t) == [test |-> t, stage |-> "entered"]

Init ==
  /\ phase \in IF NumProcesses = 1 THEN {"sequential"} ELSE {"sequential", "startPool"}
  /\ at = [p \in Process |-> IF p = Main /\ phase = "sequential" THEN Begin(1) ELSE Idle]
  /\ alarm = [p \in Process |-> at[p].test]
  /\ exitCode = [p \in Worker |-> "none"]
  /\ pool = {}
  /\ poolCopy = {}
  /\ started = 0
  /\ nextChunk = 0
  /\ partial = [p \in Worker |-> {}]
  /\ doneChunks = {}
  /\ failed = FALSE
  /\ results = {}
  /\ erred = {}
  /\ missed = {}
  /\ crashed = {}

-----------------------------------------------------------------------------
(* compile_and_run_test, in process p.                                     *)

\* p is at a test, in one of the given stages, and nothing has ended it.
Active(p, stages) ==
  /\ at[p].stage \in stages
  /\ IF p = Main THEN phase = "sequential"
     ELSE phase = "poll" /\ exitCode[p] = "none"

\* Mutant: the end of the list of tests is missed.
HasNextPastTheEnd(p, t) == p = Main \/ ChunkOf(t + 1) = ChunkOf(t)

\* Is there a test for p after t, in the loop or in the chunk?
HasNext(p, t) ==
  (t + 1) \in Test /\ (p = Main \/ ChunkOf(t + 1) = ChunkOf(t))

\* p returns with a result, leaving the timeout context, and turns to its next
\* test.  The results of the loop in the main process are dropped.
Returns(p, outcome) ==
  LET t      == at[p].test
      more   == HasNext(p, t)
      result == [test |-> t, outcome |-> outcome]
  IN  /\ at' = [at EXCEPT ![p] = IF more THEN Begin(t + 1) ELSE Idle]
      /\ alarm' = [alarm EXCEPT ![p] = IF more THEN t + 1 ELSE 0]
      /\ phase' = IF p = Main /\ ~ more THEN "startPool" ELSE phase
      /\ IF p = Main THEN UNCHANGED <<partial, doneChunks, results>>
         ELSE IF more
         THEN /\ partial' = [partial EXCEPT ![p] = @ \cup {result}]
              /\ UNCHANGED <<doneChunks, results>>
         ELSE /\ partial' = [partial EXCEPT ![p] = {}]
              /\ doneChunks' = doneChunks \cup {ChunkOf(t)}
              /\ results' = results \cup partial[p] \cup {result}
      /\ UNCHANGED <<failed, workers>>

\* An exception leaves compile_and_run_test, and with it the loop or the chunk.
Raises(p) ==
  /\ at' = [at EXCEPT ![p] = Idle]
  /\ alarm' = [alarm EXCEPT ![p] = 0]
  /\ IF p = Main THEN phase' = "raised" /\ UNCHANGED answers
     ELSE /\ failed' = TRUE
          /\ partial' = [partial EXCEPT ![p] = {}]
          /\ doneChunks' = doneChunks \cup {ChunkOf(at[p].test)}
          /\ UNCHANGED <<phase, results>>
  /\ UNCHANGED workers

MoveTo(p, stage) == at' = [at EXCEPT ![p].stage = stage]

\* p comes to the try block in front of it.
EntersTry(p) ==
  /\ Active(p, {"entered", "compiled"})
  /\ MoveTo(p, IF at[p].stage = "entered" THEN "compile" ELSE "run")
  /\ UNCHANGED <<phase, alarm, workers, answers, history>>

Compiles(p) ==
  /\ Active(p, {"compile"})
  /\ MoveTo(p, "compiled")
  /\ UNCHANGED <<phase, alarm, workers, answers, history>>

\* Mutant: the timer goes on while the traces are cloned.
RunsOnTheClock(p) ==
  /\ Active(p, {"run"})
  /\ MoveTo(p, "clone")
  /\ UNCHANGED <<phase, alarm, workers, answers, history>>

\* The test has run in time: the timer is stopped.
Runs(p) ==
  /\ Active(p, {"run"})
  /\ MoveTo(p, "clone")
  /\ alarm' = [alarm EXCEPT ![p] = 0]
  /\ UNCHANGED <<phase, workers, answers, history>>

\* An exception: the handlers format it, cloning has none.
Errs(p) ==
  /\ Active(p, {"compile", "run", "clone"})
  /\ erred' = erred \cup {at[p].test}
  /\ IF at[p].stage = "clone" THEN Raises(p)
     ELSE /\ MoveTo(p, IF at[p].stage = "run" THEN "runFailed" ELSE "compileFailed")
          /\ UNCHANGED <<phase, alarm, workers, answers>>
  /\ UNCHANGED <<missed, crashed>>

Finishes(p) ==
  /\ Active(p, {"compileFailed", "runFailed", "clone"})
  /\ Returns(p, CASE at[p].stage = "compileFailed" -> "compileError"
                  [] at[p].stage = "runFailed"     -> "runError"
                  [] OTHER                         -> "trace")
  /\ UNCHANGED history

\* SIGALRM: TimeoutError is caught in the try blocks, and nowhere else.
TimesOut(p) ==
  /\ Active(p, Stage \ {"idle"})
  /\ alarm[p] # 0
  /\ IF at[p].stage \in {"compile", "run"}
     THEN Returns(p, IF at[p].stage = "run" THEN "runTimeout" ELSE "compileTimeout")
     ELSE Raises(p)
  /\ missed' = IF at[p].stage \in {"entered", "compiled"} THEN missed \cup {at[p].test} ELSE missed
  /\ UNCHANGED <<erred, crashed>>

\* The compiler or the compiled code takes the whole process down.
Crashes(p) ==
  /\ Active(p, {"compile", "run"})
  /\ IF p = Main
     THEN phase' = "crashed" /\ UNCHANGED <<exitCode, crashed>>
     ELSE /\ \E c \in ExitCodes : exitCode' = [exitCode EXCEPT ![p] = c]
          /\ crashed' = crashed \cup {at[p].test}
          /\ UNCHANGED phase
  /\ UNCHANGED <<at, alarm, pool, poolCopy, started, nextChunk, answers, erred, missed>>

-----------------------------------------------------------------------------
(* The pool.                                                               *)

StartPool ==
  /\ phase = "startPool"
  /\ phase' = "poll"
  /\ pool' = 1 .. NumProcesses
  /\ poolCopy' = pool'
  /\ started' = NumProcesses
  /\ UNCHANGED <<at, alarm, exitCode, nextChunk, answers, history>>

TakeChunk(p) ==
  /\ phase = "poll"
  /\ p \in pool
  /\ exitCode[p] = "none"
  /\ at[p].stage = "idle"
  /\ nextChunk \in Chunk
  /\ nextChunk' = nextChunk + 1
  /\ at' = [at EXCEPT ![p] = Begin(nextChunk * ChunkSize + 1)]
  /\ alarm' = [alarm EXCEPT ![p] = nextChunk * ChunkSize + 1]
  /\ UNCHANGED <<phase, exitCode, pool, poolCopy, started, answers, history>>

\* A thread of the pool puts a new worker in the place of a dead one.
ReplaceWorker(p) ==
  /\ phase = "poll"
  /\ p \in pool
  /\ exitCode[p] # "none"
  /\ started < MaxProcesses
  /\ started' = started + 1
  /\ pool' = (pool \ {p}) \cup {started'}
  /\ UNCHANGED <<phase, at, alarm, exitCode, poolCopy, nextChunk, answers, history>>

-----------------------------------------------------------------------------
(* The main process, while the pool is at work.                            *)

Ready == doneChunks = Chunk

\* Mutant: the processes the pool has now are looked at.
CrashInPool == \E p \in pool : exitCode[p] = "nonzero"

\* any(proc.exitcode for proc in pool_copy): an exit code of 0 is false.
CrashSeen == \E p \in poolCopy : exitCode[p] = "nonzero"

TestsWithResults == {r.test : r \in results}

Aborted == [test : Test \ TestsWithResults, outcome : {"aborted"}]

\* Mutant: when a worker has crashed the loop ends with the results there are.
SettleForLess ==
  /\ phase = "poll"
  /\ ~ Ready
  /\ CrashSeen
  /\ phase' = "returned"
  /\ results' = results \cup Aborted
  /\ UNCHANGED <<at, alarm, workers, partial, doneChunks, failed, history>>

ExitOnCrash ==
  /\ phase = "poll"
  /\ ~ Ready
  /\ CrashSeen
  /\ phase' = "exited"
  /\ UNCHANGED <<at, alarm, workers, answers, history>>

GetResults ==
  /\ phase = "poll"
  /\ Ready
  /\ IF failed THEN phase' = "raised" /\ UNCHANGED results
     ELSE phase' = "returned" /\ results' = results \cup Aborted
  /\ UNCHANGED <<at, alarm, workers, partial, doneChunks, failed, history>>

-----------------------------------------------------------------------------
ProcessStep(p) ==
  \/ EntersTry(p)
  \/ Compiles(p)
  \/ Runs(p)
  \/ Errs(p)
  \/ Finishes(p)
  \/ TimesOut(p)
  \/ Crashes(p)

MainStep == StartPool \/ ExitOnCrash \/ GetResults

Next ==
  \/ \E p \in Process : ProcessStep(p)
  \/ \E p \in Worker : TakeChunk(p)
  \/ \E p \in Worker : ReplaceWorker(p)
  \/ MainStep

Spec == Init /\ [][Next]_vars

(***************************************************************************)
(* Processes are scheduled fairly and a stage does not last for ever: it   *)
(* comes to its end or the timer does, which takes compilers and programs  *)
(* that return to the interpreter now and then.                            *)
(***************************************************************************)
FairSpec ==
  /\ Spec
  /\ \A p \in Process : WF_vars(ProcessStep(p))
  /\ \A p \in Worker : WF_vars(TakeChunk(p)) /\ WF_vars(ReplaceWorker(p))
  /\ WF_vars(MainStep)

-----------------------------------------------------------------------------
(* Properties.                                                             *)

Result == [test : Test, outcome : Outcome]

\* Every variable has its type.
TypeOK ==
  /\ phase \in {"sequential", "startPool", "poll", "returned", "raised", "exited",
                "crashed"}
  /\ at \in [Process -> [test : Test \cup {0}, stage : Stage]]
  /\ alarm \in [Process -> Test \cup {0}]
  /\ exitCode \in [Worker -> {"none", "zero", "nonzero"}]
  /\ pool \subseteq Worker
  /\ poolCopy \subseteq Worker
  /\ started \in 0 .. MaxProcesses
  /\ nextChunk \in Nat
  /\ partial \in [Worker -> SUBSET Result]
  /\ doneChunks \subseteq Chunk
  /\ failed \in BOOLEAN
  /\ results \subseteq Result
  /\ erred \subseteq Test
  /\ missed \subseteq Test
  /\ crashed \subseteq Test

\* When run_tests returns, every test has exactly one result, and only a test
\* that took its process down is reported as aborted.
EveryTestIsAccountedFor ==
  phase = "returned" =>
    \A t \in Test :
      \E r \in results :
        /\ {s \in results : s.test = t} = {r}
        /\ r.outcome = "aborted" => t \in crashed

\* A test that is merely slow does not cost the results of other tests: for the
\* whole run to fail with an exception some test must have raised one, or a timer
\* must have expired at one of the two instants in front of a try block.
SlowTestsAreContained ==
  failed \/ phase = "raised" => erred \cup missed # {}

\* run_tests ends: a worker that crashes, with the chunk it had, is noticed even
\* when the pool has replaced it by then.
RunEnds == <>(phase \in {"returned", "raised", "exited", "crashed"})
=============================================================================
