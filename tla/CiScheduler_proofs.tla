-------------------------- MODULE CiScheduler_proofs --------------------------
(***************************************************************************)
(* Proofs about CiScheduler for every number of runs, jobs and faults.     *)
(* Each part of the inductive invariant IInv has a lemma of its own, which *)
(* assumes the parts it needs; the theorems at the end put them together.  *)
(***************************************************************************)
EXTENDS CiScheduler, FiniteSetTheorems, TLAPS

(* The steps of job tasks, log writers and pods leave the tables, the      *)
(* handlers and the loop alone.                                            *)
Quiet == UNCHANGED <<dbVars, enqVars, tickVars, crashes, lost, panicked>>

LEMMA QuietSteps ==
    ASSUME NEW j \in JobIds,
           JobTask(j) \/ LogWriter(j) \/ StartPod(j) \/ FinishPod(j) \/ BreakPod(j)
    PROVE  Quiet
<1>1. CASE JobTask(j)
  BY <1>1 DEF JobTask, RunBuildStep, CreatePod, WaitTerminal, Deadline, AwaitWriter,
              ReadPhase, ReadExitCode, DeletePod, TaskStep, Quiet, dbVars, enqVars, tickVars
<1>2. CASE LogWriter(j)
  BY <1>2 DEF LogWriter, OpenLog, EndLog, Quiet, dbVars, enqVars, tickVars, faultVars
<1>3. CASE StartPod(j) \/ FinishPod(j) \/ BreakPod(j)
  BY <1>3 DEF StartPod, FinishPod, BreakPod, PodStep, Quiet, dbVars, enqVars, tickVars, faultVars
<1> QED BY <1>1, <1>2, <1>3

(* The same steps move the program counters within their types. *)
LEMMA QuietTypes ==
    ASSUME TypeOK, NEW j \in JobIds,
           JobTask(j) \/ LogWriter(j) \/ StartPod(j) \/ FinishPod(j) \/ BreakPod(j)
    PROVE  TypeOK'
<1>1. Quiet
  BY QuietSteps
<1>2. task' \in [JobIds -> TaskStates] /\ writer' \in [JobIds -> WriterStates]
      /\ pod' \in [JobIds -> PodStates] /\ api' \in Nat
  <2>1. CASE JobTask(j)
    BY <2>1 DEF JobTask, RunBuildStep, CreatePod, WaitTerminal, Deadline, AwaitWriter,
                ReadPhase, ReadExitCode, DeletePod, TaskStep, TypeOK, ApiFails,
                TaskStates, PodTasks, WriterStates, PodStates
  <2>2. CASE LogWriter(j)
    BY <2>2 DEF LogWriter, OpenLog, EndLog, TypeOK, ApiFails, WriterStates, faultVars
  <2>3. CASE StartPod(j) \/ FinishPod(j) \/ BreakPod(j)
    BY <2>3 DEF StartPod, FinishPod, BreakPod, PodStep, TypeOK, PodStates, Terminal, faultVars
  <2> QED BY <2>1, <2>2, <2>3
<1> QED BY <1>1, <1>2 DEF Quiet, TypeOK, dbVars, enqVars, tickVars

(* Panic(j) too leaves everything but the task and the set panicked alone. *)
QuietOrPanic(j) ==
    \/ JobTask(j) \/ LogWriter(j) \/ StartPod(j) \/ FinishPod(j) \/ BreakPod(j)
    \/ Panic(j)

-----------------------------------------------------------------------------
(* Types. *)

LEMMA TypeInit == CiSchedulerAssumption /\ Init => TypeOK
BY DEF CiSchedulerAssumption, Init, TypeOK, Verdicts, RunStatus, JobStatus, EnqStates, TaskStates,
       WriterStates, PodStates, RunIds, JobIds

LEMMA TypeStep ==
    ASSUME TypeOK, EnqInv, TickInv, [Next]_vars
    PROVE  TypeOK'
<1> USE CiSchedulerAssumption DEF TypeOK
<1>1. ASSUME NEW r \in RunIds, CreateRun(r) PROVE TypeOK'
  BY <1>1 DEF CreateRun, RunStatus, EnqStates, tickVars, podVars, faultVars
<1>2. ASSUME NEW r \in RunIds, InsertJob(r) PROVE TypeOK'
  <2>1. left[r] \in Nat \ {0}
    BY <1>2 DEF InsertJob, EnqInv
  <2>2. enq' \in [RunIds -> EnqStates] /\ left' \in [RunIds -> Nat]
    BY <1>2, <2>1 DEF InsertJob, EnqStates
  <2>3. job' \in [JobIds -> JobStatus] /\ owner' \in [JobIds -> RunIds \cup {0}] /\ lost' \in Nat
    BY <1>2 DEF InsertJob, LoseWrite, JobStatus
  <2> QED BY <1>2, <2>2, <2>3 DEF InsertJob, tickVars, podVars
<1>3. ASSUME NEW r \in RunIds, MarkSkipped(r) PROVE TypeOK'
  BY <1>3 DEF MarkSkipped, SetRunStatus, LoseWrite, RunStatus, EnqStates, tickVars, podVars
<1>4. CASE PendingRuns
  BY <1>4 DEF PendingRuns, Oldest, Queued, dbVars, enqVars, podVars, faultVars
<1>5. ASSUME NEW r \in RunIds, BeginRun(r) PROVE TypeOK'
  BY <1>5 DEF BeginRun, JobsOf, dbVars, enqVars, podVars, faultVars
<1>6. CASE Prepare \/ PrepareFails
  BY <1>6 DEF Prepare, PrepareFails, Verdicts, dbVars, enqVars, podVars, faultVars
<1>7. ASSUME NEW j \in JobIds, SpawnJob(j) PROVE TypeOK'
  BY <1>7 DEF SpawnJob, SetJobStatus, LoseWrite, JobStatus, TaskStates, enqVars
<1>8. ASSUME NEW j \in JobIds, JoinJob(j) \/ JoinPanicked(j) PROVE TypeOK'
  BY <1>8 DEF JoinJob, JoinPanicked, SetJobStatus, LoseWrite, JobStatus, Verdicts, TaskStates,
              WriterStates, dbVars, enqVars, tickVars, faultVars
<1>9. CASE FinishRun
  <2>1. cur \in RunIds
    BY <1>9 DEF FinishRun, TickInv
  <2> QED BY <1>9, <2>1 DEF FinishRun, SetRunStatus, LoseWrite, RunStatus, Verdicts, enqVars, podVars
<1>10. ASSUME NEW j \in JobIds, QuietOrPanic(j) PROVE TypeOK'
  <2>1. CASE Panic(j)
    BY <2>1 DEF Panic, TaskStates, dbVars, enqVars, tickVars
  <2> QED BY <1>10, <2>1, QuietTypes DEF QuietOrPanic
<1>11. CASE Restart
  BY <1>11 DEF Restart, Verdicts, EnqStates, TaskStates, WriterStates, dbVars
<1>12. CASE UNCHANGED vars
  BY <1>12 DEF vars, dbVars, enqVars, tickVars, podVars, faultVars
<1> QED BY <1>1, <1>2, <1>3, <1>4, <1>5, <1>6, <1>7, <1>8, <1>9, <1>10, <1>11, <1>12
        DEF Next, Handler, Tick, QuietOrPanic

-----------------------------------------------------------------------------
(* What a quiet step, or a panic, does to the tasks. *)
LEMMA QuietFrame ==
    ASSUME TypeOK, NEW j \in JobIds, QuietOrPanic(j)
    PROVE  /\ UNCHANGED <<run, job, owner, enq, left, batch, cur, stage, todo, verdict,
                          crashes, lost>>
           /\ panicked \subseteq panicked'
           /\ \A k \in JobIds :
                 /\ task'[k] # "none" <=> task[k] # "none"
                 /\ task'[k] = "panicked" => k \in panicked' \/ task[k] = "panicked"
<1>1. CASE Panic(j)
  BY <1>1 DEF Panic, TypeOK, PodTasks, dbVars, enqVars, tickVars
<1>2. CASE JobTask(j)
  <2>1. Quiet
    BY <1>2, QuietSteps
  <2>2. \A k \in JobIds : /\ task'[k] # "none" <=> task[k] # "none"
                          /\ task'[k] = "panicked" => task[k] = "panicked"
    BY <1>2 DEF JobTask, RunBuildStep, CreatePod, WaitTerminal, Deadline, AwaitWriter,
                ReadPhase, ReadExitCode, DeletePod, TaskStep, TypeOK
  <2> QED BY <2>1, <2>2 DEF Quiet, dbVars, enqVars, tickVars
<1>3. CASE LogWriter(j) \/ StartPod(j) \/ FinishPod(j) \/ BreakPod(j)
  BY <1>3 DEF LogWriter, OpenLog, EndLog, StartPod, FinishPod, BreakPod, PodStep, dbVars,
              enqVars, tickVars, faultVars
<1> QED BY <1>1, <1>2, <1>3 DEF QuietOrPanic

-----------------------------------------------------------------------------
(* Rows of the two tables appear in order, under a handler that got there. *)
LEMMA EnqStep ==
    ASSUME TypeOK, EnqInv, TickInv, [Next]_vars
    PROVE  EnqInv'
<1> USE CiSchedulerAssumption DEF TypeOK, EnqInv
<1>1. ASSUME NEW r \in RunIds, CreateRun(r) PROVE EnqInv'
  BY <1>1 DEF CreateRun, RunIds
<1>2. ASSUME NEW r \in RunIds, InsertJob(r) PROVE EnqInv'
  BY <1>2 DEF InsertJob, RunIds
<1>3. ASSUME NEW r \in RunIds, MarkSkipped(r) PROVE EnqInv'
  BY <1>3 DEF MarkSkipped, SetRunStatus
<1>4. CASE FinishRun
  BY <1>4 DEF FinishRun, SetRunStatus, TickInv, Undecided, Verdicts, enqVars
<1>5. CASE PendingRuns \/ Prepare \/ PrepareFails
  BY <1>5 DEF PendingRuns, Prepare, PrepareFails, dbVars, enqVars
<1>6. ASSUME NEW r \in RunIds, BeginRun(r) PROVE EnqInv'
  BY <1>6 DEF BeginRun, dbVars, enqVars
<1>7. ASSUME NEW j \in JobIds, SpawnJob(j) \/ JoinJob(j) \/ JoinPanicked(j) PROVE EnqInv'
  BY <1>7 DEF SpawnJob, JoinJob, JoinPanicked, dbVars, enqVars
<1>8. ASSUME NEW j \in JobIds, QuietOrPanic(j) PROVE EnqInv'
  BY <1>8, QuietFrame
<1>9. CASE Restart
  BY <1>9 DEF Restart, dbVars
<1>10. CASE UNCHANGED vars
  BY <1>10 DEF vars, dbVars, enqVars
<1> QED BY <1>1, <1>2, <1>3, <1>4, <1>5, <1>6, <1>7, <1>8, <1>9, <1>10
        DEF Next, Handler, Tick, QuietOrPanic

(* The batch and the current run stay undecided and in order. *)
LEMMA TickStep ==
    ASSUME TypeOK, EnqInv, TickInv, [Next]_vars
    PROVE  TickInv'
<1> USE CiSchedulerAssumption DEF TypeOK, TickInv, Undecided
<1>1. ASSUME NEW r \in RunIds, CreateRun(r) PROVE TickInv'
  BY <1>1 DEF CreateRun, EnqInv, tickVars
<1>2. ASSUME NEW r \in RunIds, InsertJob(r) PROVE TickInv'
  BY <1>2 DEF InsertJob, tickVars
<1>3. ASSUME NEW r \in RunIds, MarkSkipped(r) PROVE TickInv'
  BY <1>3 DEF MarkSkipped, SetRunStatus, tickVars
<1>4. CASE FinishRun
  BY <1>4 DEF FinishRun, SetRunStatus, RunIds
<1>5. CASE PendingRuns
  BY <1>5 DEF PendingRuns, Oldest, Queued, dbVars
<1>6. CASE Prepare \/ PrepareFails
  BY <1>6 DEF Prepare, PrepareFails, dbVars
<1>7. ASSUME NEW r \in RunIds, BeginRun(r) PROVE TickInv'
  BY <1>7 DEF BeginRun, RunIds, dbVars
<1>8. ASSUME NEW j \in JobIds, SpawnJob(j) \/ JoinJob(j) \/ JoinPanicked(j) PROVE TickInv'
  BY <1>8 DEF SpawnJob, JoinJob, JoinPanicked, dbVars, tickVars
<1>9. ASSUME NEW j \in JobIds, QuietOrPanic(j) PROVE TickInv'
  BY <1>9, QuietFrame
<1>10. CASE Restart
  BY <1>10 DEF Restart, dbVars
<1>11. CASE UNCHANGED vars
  BY <1>11 DEF vars, dbVars, tickVars
<1> QED BY <1>1, <1>2, <1>3, <1>4, <1>5, <1>6, <1>7, <1>8, <1>9, <1>10, <1>11
        DEF Next, Handler, Tick, QuietOrPanic

(* Live tasks and listed jobs stay those of the current run. *)
LEMMA TaskInvStep ==
    ASSUME TypeOK, EnqInv, TickInv, TaskInv, [Next]_vars
    PROVE  TaskInv'
<1> USE CiSchedulerAssumption DEF TypeOK, TaskInv
<1>1. ASSUME NEW r \in RunIds, CreateRun(r) PROVE TaskInv'
  BY <1>1 DEF CreateRun, tickVars, podVars, faultVars
<1>2. ASSUME NEW r \in RunIds, InsertJob(r) PROVE TaskInv'
  BY <1>2 DEF InsertJob, TickInv, RunIds, tickVars, podVars
<1>3. ASSUME NEW r \in RunIds, MarkSkipped(r) PROVE TaskInv'
  BY <1>3 DEF MarkSkipped, tickVars, podVars
<1>4. CASE FinishRun
  BY <1>4 DEF FinishRun, podVars
<1>5. CASE PendingRuns
  BY <1>5 DEF PendingRuns, dbVars, podVars, faultVars
<1>6. CASE Prepare \/ PrepareFails
  BY <1>6 DEF Prepare, PrepareFails, dbVars, podVars, faultVars
<1>7. ASSUME NEW r \in RunIds, BeginRun(r) PROVE TaskInv'
  BY <1>7 DEF BeginRun, JobsOf, TickInv, dbVars, podVars, faultVars
<1>8. ASSUME NEW j \in JobIds, SpawnJob(j) PROVE TaskInv'
  BY <1>8 DEF SpawnJob, SetJobStatus, TickInv, RunIds
<1>9. ASSUME NEW j \in JobIds, JoinJob(j) \/ JoinPanicked(j) PROVE TaskInv'
  BY <1>9 DEF JoinJob, JoinPanicked, SetJobStatus, TickInv, RunIds, dbVars, tickVars, faultVars
<1>10. ASSUME NEW j \in JobIds, QuietOrPanic(j) PROVE TaskInv'
  BY <1>10, QuietFrame
<1>11. CASE Restart
  BY <1>11 DEF Restart, dbVars
<1>12. CASE UNCHANGED vars
  BY <1>12 DEF vars, dbVars, tickVars, podVars, faultVars
<1> QED BY <1>1, <1>2, <1>3, <1>4, <1>5, <1>6, <1>7, <1>8, <1>9, <1>10, <1>11, <1>12
        DEF Next, Handler, Tick, QuietOrPanic

-----------------------------------------------------------------------------
(* Truncating an ordered queue keeps a prefix of it: whatever is older     *)
(* than a member of Oldest(S, n) is itself a member.                       *)
LEMMA OldestClosed ==
    ASSUME NEW S \in SUBSET RunIds, NEW n \in Nat,
           NEW r \in Oldest(S, n), NEW q \in S, q < r
    PROVE  q \in Oldest(S, n)
<1> DEFINE Below(x) == {y \in S : y < x}
<1>1. IsFiniteSet(RunIds)
  BY CiSchedulerAssumption, FS_Interval DEF RunIds
<1>2. IsFiniteSet(S)
  BY <1>1, FS_Subset
<1>3. Below(r) \in SUBSET S /\ Below(q) \in SUBSET Below(r)
  <2>1. q \in Int /\ r \in Int /\ \A y \in S : y \in Int
    BY CiSchedulerAssumption DEF RunIds, Oldest
  <2>2. \A y \in S : y < q => y < r
    BY <2>1
  <2> QED BY <2>2
<1>4. IsFiniteSet(Below(r)) /\ Cardinality(Below(r)) \in Nat
  BY <1>2, <1>3, FS_Subset, FS_CardinalityType
<1>5. IsFiniteSet(Below(q)) /\ Cardinality(Below(q)) <= Cardinality(Below(r))
  BY <1>3, <1>4, FS_Subset
<1>6. Cardinality(Below(q)) \in Nat
  BY <1>5, FS_CardinalityType
<1>7. Cardinality(Below(r)) < n
  BY DEF Oldest
<1>8. Cardinality(Below(q)) < n
  <2> HIDE DEF Below
  <2> QED BY <1>4, <1>5, <1>6, <1>7
<1> QED BY <1>8 DEF Oldest

(* The oldest queued run is never overtaken. *)
LEMMA FifoStep ==
    ASSUME TypeOK, EnqInv, TickInv, FifoInv, [Next]_vars
    PROVE  FifoInv'
<1> USE CiSchedulerAssumption DEF TypeOK, FifoInv
<1>1. ASSUME NEW r \in RunIds, CreateRun(r) PROVE FifoInv'
  <2>1. run' = [run EXCEPT ![r] = "queued"] /\ UNCHANGED <<batch, cur, lost>>
    BY <1>1 DEF CreateRun, tickVars, faultVars
  <2>2. \A q \in RunIds : enq[q] # "none" => q < r
    BY <1>1 DEF CreateRun, EnqInv, RunIds
  <2>3. (cur # 0 => cur < r) /\ \A b \in batch : b < r
    BY <2>2 DEF TickInv, EnqInv, Undecided
  <2> QED BY <2>1, <2>3 DEF RunIds
<1>2. ASSUME NEW r \in RunIds, InsertJob(r) PROVE FifoInv'
  BY <1>2 DEF InsertJob, LoseWrite, tickVars
<1>3. ASSUME NEW r \in RunIds, MarkSkipped(r) PROVE FifoInv'
  BY <1>3 DEF MarkSkipped, SetRunStatus, LoseWrite, tickVars
<1>4. CASE FinishRun
  <2>1. cur \in RunIds /\ UNCHANGED batch /\ cur' = 0
    BY <1>4 DEF FinishRun, TickInv
  <2>2. lost' = 0 => lost = 0 /\ run' = [run EXCEPT ![cur] = verdict]
    BY <1>4 DEF FinishRun, SetRunStatus, LoseWrite
  <2> QED BY <2>1, <2>2 DEF Verdicts
<1>5. CASE PendingRuns
  <2>1. \A q \in RunIds, b \in batch' : run'[q] = "queued" /\ q < b => q \in batch'
    BY <1>5, OldestClosed DEF PendingRuns, Queued, Oldest, dbVars
  <2> QED BY <1>5, <2>1 DEF PendingRuns, dbVars, faultVars
<1>6. CASE Prepare \/ PrepareFails
  BY <1>6 DEF Prepare, PrepareFails, dbVars, faultVars
<1>7. ASSUME NEW r \in RunIds, BeginRun(r) PROVE FifoInv'
  BY <1>7 DEF BeginRun, RunIds, dbVars, faultVars
<1>8. ASSUME NEW j \in JobIds, SpawnJob(j) \/ JoinJob(j) \/ JoinPanicked(j) PROVE FifoInv'
  BY <1>8 DEF SpawnJob, JoinJob, JoinPanicked, SetJobStatus, LoseWrite, dbVars, tickVars,
              faultVars
<1>9. ASSUME NEW j \in JobIds, QuietOrPanic(j) PROVE FifoInv'
  BY <1>9, QuietFrame
<1>10. CASE Restart
  BY <1>10 DEF Restart
<1>11. CASE UNCHANGED vars
  BY <1>11 DEF vars, dbVars, tickVars, faultVars
<1> QED BY <1>1, <1>2, <1>3, <1>4, <1>5, <1>6, <1>7, <1>8, <1>9, <1>10, <1>11
        DEF Next, Handler, Tick, QuietOrPanic

-----------------------------------------------------------------------------
(* The rows of a run that has not failed keep telling the truth about it.  *)
LEMMA VerdictStep ==
    ASSUME TypeOK, EnqInv, TickInv, TaskInv, VerdictInv, [Next]_vars
    PROVE  VerdictInv'
<1> USE CiSchedulerAssumption DEF TypeOK, VerdictInv, Settled
<1>1. ASSUME NEW r \in RunIds, CreateRun(r) PROVE VerdictInv'
  BY <1>1 DEF CreateRun, tickVars, podVars, faultVars
<1>2. ASSUME NEW r \in RunIds, InsertJob(r) PROVE VerdictInv'
  <2>1. UNCHANGED <<run, cur, todo, verdict, task, panicked>> /\ (lost' = 0 => lost = 0)
    BY <1>2 DEF InsertJob, LoseWrite, tickVars, podVars
  <2>2. CASE UNCHANGED <<job, owner>>
    BY <2>1, <2>2
  <2>3. ASSUME NEW j \in JobIds, owner[j] = 0, job' = [job EXCEPT ![j] = "queued"],
               owner' = [owner EXCEPT ![j] = r]
        PROVE  VerdictInv'
    <3>1. task[j] = "none"
      BY <2>3 DEF TaskInv, TickInv
    <3> QED BY <2>1, <2>3, <3>1
  <2> QED BY <1>2, <2>2, <2>3 DEF InsertJob
<1>3. ASSUME NEW r \in RunIds, MarkSkipped(r) PROVE VerdictInv'
  BY <1>3 DEF MarkSkipped, SetRunStatus, LoseWrite, tickVars, podVars
<1>4. CASE FinishRun
  <2>1. /\ UNCHANGED <<job, owner, todo, task, panicked>>
        /\ cur' = 0 /\ todo = {} /\ \A j \in JobIds : task[j] = "none"
        /\ cur \in RunIds
    BY <1>4 DEF FinishRun, TickInv, podVars
  <2>2. lost' = 0 => lost = 0 /\ run' = [run EXCEPT ![cur] = verdict]
    BY <1>4 DEF FinishRun, SetRunStatus, LoseWrite
  <2> QED BY <2>1, <2>2
<1>5. CASE PendingRuns \/ Prepare
  BY <1>5 DEF PendingRuns, Prepare, dbVars, podVars, faultVars
<1>6. CASE PrepareFails
  BY <1>6 DEF PrepareFails, dbVars, podVars, faultVars
<1>7. ASSUME NEW r \in RunIds, BeginRun(r) PROVE VerdictInv'
  BY <1>7 DEF BeginRun, JobsOf, dbVars, podVars, faultVars
<1>8. ASSUME NEW j \in JobIds, SpawnJob(j) PROVE VerdictInv'
  <2>1. /\ owner[j] = cur /\ cur \in RunIds /\ run[cur] # "success"
        /\ UNCHANGED <<run, owner, cur, verdict, panicked>>
        /\ todo' = todo \ {j} /\ task' = [task EXCEPT ![j] = task'[j]] /\ task'[j] # "none"
        /\ lost' = 0 => lost = 0 /\ job' = [job EXCEPT ![j] = "running"]
    BY <1>8 DEF SpawnJob, SetJobStatus, LoseWrite, TickInv, TaskInv, Undecided
  <2> QED BY <2>1
<1>9. ASSUME NEW j \in JobIds, JoinJob(j) \/ JoinPanicked(j) PROVE VerdictInv'
  <2>1. /\ owner[j] = cur /\ cur \in RunIds /\ run[cur] # "success"
        /\ UNCHANGED <<run, owner, cur, todo, panicked>>
        /\ task' = [task EXCEPT ![j] = "none"]
    BY <1>9 DEF JoinJob, JoinPanicked, TickInv, TaskInv, Undecided, dbVars, tickVars, faultVars
  <2>2. CASE JoinJob(j)
    BY <2>1, <2>2 DEF JoinJob, SetJobStatus, LoseWrite, Verdicts
  <2>3. CASE JoinPanicked(j)
    BY <2>1, <2>3 DEF JoinPanicked, TaskInv, dbVars, tickVars, faultVars
  <2> QED BY <1>9, <2>2, <2>3
<1>10. ASSUME NEW j \in JobIds, QuietOrPanic(j) PROVE VerdictInv'
  BY <1>10, QuietFrame
<1>11. CASE Restart
  BY <1>11 DEF Restart, dbVars
<1>12. CASE UNCHANGED vars
  BY <1>12 DEF vars, dbVars, tickVars, podVars, faultVars
<1> QED BY <1>1, <1>2, <1>3, <1>4, <1>5, <1>6, <1>7, <1>8, <1>9, <1>10, <1>11, <1>12
        DEF Next, Handler, Tick, QuietOrPanic

-----------------------------------------------------------------------------
(* Without a fault, a job that waits to be spawned has never been executed. *)
LEMMA OnceStep ==
    ASSUME TypeOK, EnqInv, TickInv, TaskInv, OnceInv, [Next]_vars
    PROVE  OnceInv'
<1> USE CiSchedulerAssumption DEF TypeOK, OnceInv
<1>1. ASSUME NEW r \in RunIds, CreateRun(r) PROVE OnceInv'
  BY <1>1 DEF CreateRun, EnqInv, tickVars, podVars, faultVars
<1>2. ASSUME NEW r \in RunIds, InsertJob(r) PROVE OnceInv'
  <2>1. UNCHANGED <<run, cur, todo, crashes>> /\ (lost' = 0 => lost = 0)
    BY <1>2 DEF InsertJob, LoseWrite, tickVars
  <2>2. CASE UNCHANGED <<job, owner>>
    BY <2>1, <2>2
  <2>3. ASSUME NEW j \in JobIds, owner[j] = 0, job' = [job EXCEPT ![j] = "queued"],
               owner' = [owner EXCEPT ![j] = r]
        PROVE  OnceInv'
    BY <2>1, <2>3
  <2> QED BY <1>2, <2>2, <2>3 DEF InsertJob
<1>3. ASSUME NEW r \in RunIds, MarkSkipped(r) PROVE OnceInv'
  BY <1>3 DEF MarkSkipped, SetRunStatus, LoseWrite, tickVars
<1>4. CASE FinishRun
  <2>1. UNCHANGED <<job, owner, todo, crashes>> /\ cur' = 0 /\ cur \in RunIds /\ todo = {}
    BY <1>4 DEF FinishRun, TickInv
  <2>2. lost' = 0 => lost = 0 /\ run' = [run EXCEPT ![cur] = verdict]
    BY <1>4 DEF FinishRun, SetRunStatus, LoseWrite
  <2> QED BY <2>1, <2>2 DEF Verdicts
<1>5. CASE PendingRuns \/ Prepare \/ PrepareFails
  BY <1>5 DEF PendingRuns, Prepare, PrepareFails, dbVars, faultVars
<1>6. ASSUME NEW r \in RunIds, BeginRun(r) PROVE OnceInv'
  <2>1. /\ UNCHANGED <<run, job, owner, lost, crashes>> /\ cur = 0 /\ cur' = r
        /\ todo' = JobsOf(r) /\ Undecided(r)
    BY <1>6 DEF BeginRun, TickInv, dbVars, faultVars
  <2>2. run[r] = "skipped" => todo' = {}
    BY <2>1 DEF EnqInv, JobsOf
  <2> QED BY <2>1, <2>2 DEF Undecided, JobsOf, RunIds
<1>7. ASSUME NEW j \in JobIds, SpawnJob(j) PROVE OnceInv'
  BY <1>7 DEF SpawnJob, SetJobStatus, LoseWrite, TaskInv
<1>8. ASSUME NEW j \in JobIds, JoinJob(j) \/ JoinPanicked(j) PROVE OnceInv'
  BY <1>8 DEF JoinJob, JoinPanicked, SetJobStatus, LoseWrite, TaskInv, dbVars, tickVars,
              faultVars
<1>9. ASSUME NEW j \in JobIds, QuietOrPanic(j) PROVE OnceInv'
  BY <1>9, QuietFrame
<1>10. CASE Restart
  BY <1>10 DEF Restart
<1>11. CASE UNCHANGED vars
  BY <1>11 DEF vars, dbVars, tickVars, faultVars
<1> QED BY <1>1, <1>2, <1>3, <1>4, <1>5, <1>6, <1>7, <1>8, <1>9, <1>10, <1>11
        DEF Next, Handler, Tick, QuietOrPanic

-----------------------------------------------------------------------------
(* A pod outlives its task only through a fault. *)
LEMMA PodStepInv ==
    ASSUME TypeOK, TickInv, TaskInv, NoPodLeak, [Next]_vars
    PROVE  NoPodLeak'
<1> USE CiSchedulerAssumption DEF TypeOK, NoPodLeak
<1>1. ASSUME NEW r \in RunIds, CreateRun(r) \/ MarkSkipped(r) PROVE NoPodLeak'
  BY <1>1 DEF CreateRun, MarkSkipped, tickVars, podVars, faultVars
<1>2. ASSUME NEW r \in RunIds, InsertJob(r) PROVE NoPodLeak'
  <2>1. UNCHANGED <<cur, task, pod, crashes, api, panicked>>
    BY <1>2 DEF InsertJob, tickVars, podVars
  <2>2. \A j \in JobIds : task[j] # "none" => owner[j] # 0
    BY DEF TaskInv, TickInv
  <2>3. \A j \in JobIds : owner[j] # 0 => owner'[j] = owner[j]
    BY <1>2 DEF InsertJob
  <2> QED BY <2>1, <2>2, <2>3 DEF PodTasks
<1>3. CASE FinishRun
  BY <1>3 DEF FinishRun, PodTasks, podVars
<1>4. CASE PendingRuns \/ Prepare \/ PrepareFails
  BY <1>4 DEF PendingRuns, Prepare, PrepareFails, dbVars, podVars, faultVars
<1>5. ASSUME NEW r \in RunIds, BeginRun(r) PROVE NoPodLeak'
  BY <1>5 DEF BeginRun, TickInv, TaskInv, PodTasks, dbVars, podVars, faultVars
<1>6. ASSUME NEW j \in JobIds, SpawnJob(j) PROVE NoPodLeak'
  BY <1>6 DEF SpawnJob, TaskInv, PodTasks
<1>7. ASSUME NEW j \in JobIds, JoinJob(j) \/ JoinPanicked(j) PROVE NoPodLeak'
  BY <1>7 DEF JoinJob, JoinPanicked, PodTasks, dbVars, tickVars, faultVars
<1>8. ASSUME NEW j \in JobIds, JobTask(j) PROVE NoPodLeak'
  <2>1. Quiet /\ (api' = 0 => api = 0) /\ \A k \in JobIds : k # j => task'[k] = task[k]
    <3>1. Quiet
      BY <1>8, QuietSteps
    <3> QED BY <1>8, <3>1 DEF JobTask, RunBuildStep, CreatePod, WaitTerminal, Deadline,
          AwaitWriter, ReadPhase, ReadExitCode, DeletePod, TaskStep, ApiFails
  <2>2. task[j] # "none" /\ owner[j] = cur
    BY <1>8 DEF JobTask, RunBuildStep, CreatePod, WaitTerminal, Deadline, AwaitWriter,
                ReadPhase, ReadExitCode, DeletePod, TaskStep, TaskInv
  <2>3. \A k \in JobIds : k # j => pod'[k] = pod[k]
    BY <1>8 DEF JobTask, RunBuildStep, CreatePod, WaitTerminal, Deadline, AwaitWriter,
                ReadPhase, ReadExitCode, DeletePod
  <2>4. (crashes = 0 /\ api' = 0 /\ panicked = {}) =>
           (pod'[j] # "absent" => task'[j] \in PodTasks)
    <3>1. CASE RunBuildStep(j)
      BY <2>1, <3>1 DEF RunBuildStep, TaskStep, PodTasks
    <3>2. CASE CreatePod(j)
      BY <2>1, <3>2 DEF CreatePod, TaskStep, ApiFails, PodTasks
    <3>3. CASE WaitTerminal(j) \/ Deadline(j) \/ AwaitWriter(j)
      BY <3>3 DEF WaitTerminal, Deadline, AwaitWriter, TaskStep, PodTasks
    <3>4. CASE ReadPhase(j) \/ ReadExitCode(j)
      BY <3>4 DEF ReadPhase, ReadExitCode, TaskStep, ApiFails, PodTasks
    <3>5. CASE DeletePod(j)
      BY <3>5 DEF DeletePod, TaskStep, ApiFails, PodTasks
    <3> QED BY <1>8, <3>1, <3>2, <3>3, <3>4, <3>5 DEF JobTask
  <2> QED BY <2>1, <2>2, <2>3, <2>4 DEF Quiet, dbVars, tickVars
<1>9. ASSUME NEW j \in JobIds, LogWriter(j) \/ StartPod(j) \/ FinishPod(j) \/ BreakPod(j)
      PROVE  NoPodLeak'
  BY <1>9 DEF LogWriter, OpenLog, EndLog, StartPod, FinishPod, BreakPod, PodStep, ApiFails,
              Terminal, dbVars, tickVars, faultVars
<1>10. ASSUME NEW j \in JobIds, Panic(j) PROVE NoPodLeak'
  BY <1>10 DEF Panic
<1>11. CASE Restart
  BY <1>11 DEF Restart
<1>12. CASE UNCHANGED vars
  BY <1>12 DEF vars, dbVars, tickVars, podVars, faultVars
<1> QED BY <1>1, <1>2, <1>3, <1>4, <1>5, <1>6, <1>7, <1>8, <1>9, <1>10, <1>11, <1>12
        DEF Next, Handler, Tick

-----------------------------------------------------------------------------
(* The inductive invariant, and what follows from it. *)

LEMMA IInvInit == Init => IInv
<1>1. Init => TypeOK
  BY TypeInit, CiSchedulerAssumption
<1>2. Init => EnqInv /\ TickInv /\ TaskInv
  BY CiSchedulerAssumption DEF Init, EnqInv, TickInv, TaskInv, RunIds
<1>3. Init => FifoInv /\ VerdictInv /\ OnceInv /\ NoPodLeak
  BY CiSchedulerAssumption DEF Init, FifoInv, VerdictInv, OnceInv, NoPodLeak, RunIds
<1> QED BY <1>1, <1>2, <1>3 DEF IInv

LEMMA IInvStep == IInv /\ [Next]_vars => IInv'
BY TypeStep, EnqStep, TickStep, TaskInvStep, FifoStep, VerdictStep, OnceStep, PodStepInv
   DEF IInv

(* The inductive invariant holds of every behaviour. *)
THEOREM Invariance == Spec => []IInv
BY IInvInit, IInvStep, PTL DEF Spec

(* Every variable keeps its type. *)
THEOREM TypeCorrect == Spec => []TypeOK
BY Invariance, PTL DEF IInv

(* A run reported success has no failed and no silently dropped job. *)
THEOREM SuccessIsTrue == Spec => []VerdictOfSuccess
<1>1. IInv => VerdictOfSuccess
  BY DEF IInv, VerdictInv, VerdictOfSuccess, HasRow, Settled
<1> QED BY <1>1, Invariance, PTL

(* No run waits behind a younger one. *)
THEOREM Fifo == Spec => []OldestFirst
<1>1. IInv => OldestFirst
  <2> SUFFICES ASSUME IInv, cur # 0, lost = 0, NEW q \in RunIds, q < cur, run[q] = "queued"
               PROVE  FALSE
    BY DEF OldestFirst
  <2>1. q \notin batch
    BY CiSchedulerAssumption DEF IInv, TypeOK, TickInv, RunIds
  <2> QED BY <2>1, CiSchedulerAssumption DEF IInv, TypeOK, FifoInv, RunIds
<1> QED BY <1>1, Invariance, PTL

(* "skipped" is only ever said of a run without jobs. *)
THEOREM SkippedIsEmpty == Spec => []SkippedHasNoJobs
<1>1. IInv => SkippedHasNoJobs
  BY DEF IInv, EnqInv, SkippedHasNoJobs, JobsOf
<1> QED BY <1>1, Invariance, PTL

(* Fault-free execution leaves no pod behind. *)
THEOREM PodsAreDeleted == Spec => []NoPodLeak
BY Invariance, PTL DEF IInv

(* The poll loop delivers a job at most once. *)
THEOREM AtMostOnce == Spec => NoReexecution
<1> DEFINE Fresh == \A j \in JobIds :
              job[j] \in Verdicts /\ job'[j] = "running" => crashes > 0 \/ lost > 0
<1>1. ASSUME IInv, [Next]_vars PROVE Fresh
  <2> SUFFICES ASSUME NEW j \in JobIds, job[j] \in Verdicts, job'[j] = "running",
                      crashes = 0, lost = 0
               PROVE  FALSE
    BY <1>1 DEF IInv, TypeOK
  <2>1. job'[j] # job[j]
    BY DEF Verdicts
  <2>2. ~ \E r \in RunIds : Handler(r)
    BY <1>1, <2>1 DEF IInv, TypeOK, Handler, CreateRun, InsertJob, MarkSkipped
  <2>3. ~ \E k \in JobIds : QuietOrPanic(k)
    BY <1>1, <2>1, QuietFrame DEF IInv
  <2>4. ~ (PendingRuns \/ Prepare \/ PrepareFails \/ FinishRun \/ Restart \/ UNCHANGED vars)
    BY <1>1, <2>1 DEF PendingRuns, Prepare, PrepareFails, FinishRun, Restart, vars, dbVars
  <2>5. ~ \E r \in RunIds : BeginRun(r)
    BY <1>1, <2>1 DEF BeginRun, dbVars
  <2>6. ~ \E k \in JobIds : JoinJob(k) \/ JoinPanicked(k)
    BY <1>1, <2>1 DEF IInv, TypeOK, JoinJob, JoinPanicked, SetJobStatus, dbVars
  <2>7. ~ \E k \in JobIds : SpawnJob(k)
    BY <1>1, <2>1 DEF IInv, TypeOK, OnceInv, SpawnJob, SetJobStatus, Verdicts
  <2> QED BY <1>1, <2>1, <2>2, <2>3, <2>4, <2>5, <2>6, <2>7 DEF Next, Tick, QuietOrPanic
<1> QED BY <1>1, Invariance, PTL DEF Spec, NoReexecution

(* A verdict is final. *)
THEOREM VerdictIsFinal == Spec => VerdictFinal
<1> DEFINE Final == \A r \in RunIds :
              run[r] \in Verdicts /\ JobsOf(r) # {} => run'[r] = run[r]
<1>1. ASSUME IInv, [Next]_vars PROVE Final
  <2> SUFFICES ASSUME NEW r \in RunIds, run[r] \in Verdicts, JobsOf(r) # {}, run'[r] # run[r]
               PROVE  FALSE
    OBVIOUS
  <2>1. enq[r] \notin {"none", "barren"} /\ ~Undecided(r)
    BY <1>1 DEF IInv, EnqInv, JobsOf, Undecided, Verdicts
  <2>2. ~ \E q \in RunIds : Handler(q)
    BY <1>1, <2>1 DEF IInv, TypeOK, Handler, CreateRun, InsertJob, MarkSkipped, SetRunStatus
  <2>3. ~ \E k \in JobIds : QuietOrPanic(k)
    BY <1>1, QuietFrame DEF IInv
  <2>4. ~ (PendingRuns \/ Prepare \/ PrepareFails \/ Restart \/ UNCHANGED vars)
    BY <1>1 DEF PendingRuns, Prepare, PrepareFails, Restart, vars, dbVars
  <2>5. ~ \E q \in RunIds : BeginRun(q)
    BY <1>1 DEF BeginRun, dbVars
  <2>6. ~ \E k \in JobIds : SpawnJob(k) \/ JoinJob(k) \/ JoinPanicked(k)
    BY <1>1 DEF SpawnJob, JoinJob, JoinPanicked, dbVars
  <2>7. ~ FinishRun
    BY <1>1, <2>1 DEF IInv, TypeOK, TickInv, FinishRun, SetRunStatus
  <2> QED BY <1>1, <2>2, <2>3, <2>4, <2>5, <2>6, <2>7 DEF Next, Tick, QuietOrPanic
<1> QED BY <1>1, Invariance, PTL DEF Spec, VerdictFinal

-----------------------------------------------------------------------------
(* The refinement: each step is a step of the run queue, or hidden from it. *)

LEMMA RunsInit == Init => Runs!Init
BY DEF Init, Runs!Init, Runs!RunIds, RunIds

LEMMA RunsStep == ASSUME IInv, [Next]_vars PROVE [Runs!Next]_(Runs!runVars)
<1> DEFINE Barren == {r \in RunIds : enq[r] = "barren"}
<1> USE CiSchedulerAssumption DEF Runs!RunIds, RunIds
<1>0. TypeOK
  BY DEF IInv
<1>1. ASSUME NEW r \in RunIds, CreateRun(r) PROVE Runs!Enqueue(r)
  <2>1. run[r] = "none" /\ \A q \in RunIds : q < r => run[q] # "none"
    BY <1>1 DEF IInv, EnqInv, CreateRun
  <2>2. run' = [run EXCEPT ![r] = "queued"] /\ UNCHANGED <<batch, cur>>
    BY <1>1 DEF CreateRun, tickVars
  <2>3. Barren' \in {Barren, Barren \cup {r}}
    BY <1>0, <1>1 DEF CreateRun, TypeOK
  <2> QED BY <2>1, <2>2, <2>3 DEF Runs!Enqueue
<1>2. ASSUME NEW r \in RunIds, InsertJob(r) PROVE UNCHANGED Runs!runVars
  BY <1>0, <1>2 DEF InsertJob, TypeOK, Runs!runVars, tickVars
<1>3. ASSUME NEW r \in RunIds, MarkSkipped(r) PROVE Runs!Skip(r)
  BY <1>0, <1>3 DEF MarkSkipped, SetRunStatus, TypeOK, Runs!Skip, tickVars
<1>4. ASSUME PendingRuns PROVE Runs!Claim
  <2>1. Runs!Queued = Queued
    BY DEF Runs!Queued, Queued
  <2>2. Runs!Oldest(Queued, MaxConcurrency) = Oldest(Queued, MaxConcurrency)
    BY DEF Runs!Oldest, Oldest, Runs!Cardinality, Cardinality
  <2> QED BY <1>4, <2>1, <2>2 DEF PendingRuns, Runs!Claim, dbVars, enqVars
<1>5. ASSUME NEW r \in RunIds, BeginRun(r) PROVE Runs!Start(r)
  BY <1>5 DEF BeginRun, Runs!Start, dbVars, enqVars
<1>6. ASSUME FinishRun PROVE Runs!Settle
  <2>1. cur # 0 /\ verdict \in Verdicts
    BY <1>0, <1>6 DEF IInv, TickInv, TypeOK, FinishRun
  <2> QED BY <1>6, <2>1 DEF FinishRun, SetRunStatus, Runs!Settle, Runs!Verdicts, Verdicts, enqVars
<1>7. CASE Prepare \/ PrepareFails
  BY <1>7 DEF Prepare, PrepareFails, Runs!runVars, dbVars, enqVars
<1>8. ASSUME NEW j \in JobIds, SpawnJob(j) \/ JoinJob(j) \/ JoinPanicked(j)
      PROVE  UNCHANGED Runs!runVars
  BY <1>8 DEF SpawnJob, JoinJob, JoinPanicked, Runs!runVars, dbVars, enqVars, tickVars
<1>9. ASSUME NEW j \in JobIds, QuietOrPanic(j) PROVE UNCHANGED Runs!runVars
  BY <1>0, <1>9, QuietFrame DEF Runs!runVars
<1>10. ASSUME Restart PROVE Runs!Restart
  BY <1>0, <1>10 DEF Restart, TypeOK, Runs!Restart, dbVars
<1>11. CASE UNCHANGED vars
  BY <1>11 DEF vars, Runs!runVars, dbVars, enqVars, tickVars
<1> QED BY <1>1, <1>2, <1>3, <1>4, <1>5, <1>6, <1>7, <1>8, <1>9, <1>10, <1>11
        DEF Next, Handler, Tick, QuietOrPanic, Runs!Next

(* The pipeline implements the run queue. *)
THEOREM Refinement == Spec => ImplementsCiRuns
BY RunsInit, RunsStep, Invariance, PTL DEF Spec, ImplementsCiRuns, Runs!Spec
===============================================================================
