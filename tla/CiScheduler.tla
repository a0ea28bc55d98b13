----------------------------- MODULE CiScheduler -----------------------------
(***************************************************************************)
(* The CI pipeline: request handlers that enqueue a run and its jobs row   *)
(* by row (actions.rs enqueue_run), the scheduler loop that claims queued  *)
(* runs and executes them (scheduler.rs tick, execute_run), one task per   *)
(* job that drives a Kubernetes pod and its log writer (runtime.rs         *)
(* run_pod_streaming), the pods themselves, and the status rows they all   *)
(* share (db.rs).                                                          *)
(*                                                                         *)
(* Faults are counted, and each counter has a bound: a restart of the      *)
(* process, a status or job write that fails and whose error the code      *)
(* drops (`let _ = db...`), a Kubernetes call that fails, a job task that  *)
(* panics.  Time is abstract: a deadline may pass at any moment.           *)
(***************************************************************************)
EXTENDS Naturals, FiniteSets

CONSTANTS
    MaxRuns,         \* bound: rows of the runs table
    MaxJobs,         \* bound: rows of the jobs table
    MaxSteps,        \* bound: runnable steps of one workflow
    MaxConcurrency,  \* runs claimed per tick (JJLAB_CI_MAX_CONCURRENCY)
    BuildJobs,       \* jobs of a `build` step (buildctl); others run a pod
    FaultyCluster,   \* pods may fail before their container starts, or vanish
    MaxCrashes, MaxLost, MaxApi, MaxPanics   \* bounds: faults of each sort

ASSUME CiSchedulerAssumption ==
    /\ MaxRuns \in Nat \ {0} /\ MaxJobs \in Nat /\ MaxSteps \in Nat
    /\ MaxConcurrency \in Nat \ {0}
    /\ BuildJobs \subseteq 1..MaxJobs
    /\ FaultyCluster \in BOOLEAN
    /\ MaxCrashes \in Nat /\ MaxLost \in Nat /\ MaxApi \in Nat /\ MaxPanics \in Nat

VARIABLES
    run,       \* runs.status; "none" while the row does not exist
    job,       \* jobs.status; "none" while the row does not exist
    owner,     \* jobs.run_id, 0 while the row does not exist
    enq,       \* the handler enqueuing run r: where it stands in enqueue_run
    left,      \* runnable steps the handler of run r has still to insert
    batch,     \* tick: the runs of `pending` not started yet
    cur,       \* tick: the run in execute_run, 0 outside
    stage,     \* execute_run: before ("prepare") or in ("jobs") its job loop
    todo,      \* execute_run: listed jobs not spawned yet
    verdict,   \* execute_run: failure once run_failed, or an early error
    task,      \* the JoinSet: where the task of job j stands
    writer,    \* the log writer the task of job j spawned
    pod,       \* pod jjlab-ci-{run}-{job} in the cluster
    crashes, lost, api, panicked   \* faults so far; panicked is a set of jobs

dbVars    == <<run, job, owner>>
enqVars   == <<enq, left>>
tickVars  == <<batch, cur, stage, todo, verdict>>
podVars   == <<task, writer, pod>>
faultVars == <<crashes, lost, api, panicked>>
vars      == <<dbVars, enqVars, tickVars, podVars, faultVars>>

RunIds == 1..MaxRuns
JobIds == 1..MaxJobs

Verdicts   == {"success", "failure"}
RunStatus  == {"none", "queued", "skipped"} \cup Verdicts
JobStatus  == {"none", "queued", "running"} \cup Verdicts
EnqStates  == {"none", "barren", "inserting", "done"}
Terminal   == {"Succeeded", "Failed", "Unstarted"}   \* Unstarted: phase Failed, container never ran
PodStates  == {"absent", "Pending", "Running"} \cup Terminal
(* run_pod_streaming from create to delete; "ok" and "bad" are returned results. *)
PodTasks   == {"watch", "drain", "phase", "sawSuccess", "sawOther", "deleteOk", "deleteBad"}
TaskStates == {"none", "create", "build", "ok", "bad", "panicked"} \cup PodTasks
WriterStates == {"none", "opening", "following", "ended"}

JobsOf(r) == {j \in JobIds : owner[j] = r}
Queued    == {r \in RunIds : run[r] = "queued"}

(* Mutant of Oldest: the queue is read in descending order. *)
Newest(S, n) == {r \in S : Cardinality({q \in S : q > r}) < n}

(* ORDER BY id ASC followed by truncate(n): the n smallest ids of S. *)
Oldest(S, n) == {r \in S : Cardinality({q \in S : q < r}) < n}

TypeOK ==
    /\ run \in [RunIds -> RunStatus]
    /\ job \in [JobIds -> JobStatus]
    /\ owner \in [JobIds -> RunIds \cup {0}]
    /\ enq \in [RunIds -> EnqStates]
    /\ left \in [RunIds -> Nat]
    /\ batch \subseteq RunIds
    /\ cur \in RunIds \cup {0}
    /\ stage \in {"idle", "prepare", "jobs"}
    /\ todo \subseteq JobIds
    /\ verdict \in Verdicts
    /\ task \in [JobIds -> TaskStates]
    /\ writer \in [JobIds -> WriterStates]
    /\ pod \in [JobIds -> PodStates]
    /\ crashes \in Nat /\ lost \in Nat /\ api \in Nat
    /\ panicked \subseteq JobIds

Init ==
    /\ run = [r \in RunIds |-> "none"]
    /\ job = [j \in JobIds |-> "none"]
    /\ owner = [j \in JobIds |-> 0]
    /\ enq = [r \in RunIds |-> "none"]
    /\ left = [r \in RunIds |-> 0]
    /\ batch = {} /\ cur = 0 /\ stage = "idle" /\ todo = {} /\ verdict = "success"
    /\ task = [j \in JobIds |-> "none"]
    /\ writer = [j \in JobIds |-> "none"]
    /\ pod = [j \in JobIds |-> "absent"]
    /\ crashes = 0 /\ lost = 0 /\ api = 0 /\ panicked = {}

-----------------------------------------------------------------------------
(* Writes whose error the callers drop, and Kubernetes calls that fail. *)

LoseWrite == lost < MaxLost /\ lost' = lost + 1
ApiFails  == api < MaxApi /\ api' = api + 1

SetRunStatus(r, s) ==
    \/ run' = [run EXCEPT ![r] = s] /\ UNCHANGED lost
    \/ LoseWrite /\ UNCHANGED run

SetJobStatus(j, s) ==
    \/ job' = [job EXCEPT ![j] = s] /\ UNCHANGED lost
    \/ LoseWrite /\ UNCHANGED job

-----------------------------------------------------------------------------
(* enqueue_run: one handler per run; every row is a write of its own. *)

(* The run row is visible to the scheduler as queued before it has a job. *)
CreateRun(r) ==
    /\ enq[r] = "none"
    /\ \A q \in RunIds : q < r => enq[q] # "none"
    /\ run' = [run EXCEPT ![r] = "queued"]
    /\ \E n \in 0..MaxSteps :
          /\ left' = [left EXCEPT ![r] = n]
          /\ enq' = [enq EXCEPT ![r] = IF n = 0 THEN "barren" ELSE "inserting"]
    /\ UNCHANGED <<job, owner, tickVars, podVars, faultVars>>

(* Mutant of InsertJob: the handler does not stop at the last step. *)
InsertJobForever(r) ==
    /\ enq[r] = "inserting"
    /\ left' = [left EXCEPT ![r] = @ - 1]
    /\ UNCHANGED <<dbVars, enq, tickVars, podVars, faultVars>>

(* The next job row (ids grow), unless its insertion fails: any_job is set *)
(* either way.                                                             *)
InsertJob(r) ==
    /\ enq[r] = "inserting"
    /\ left' = [left EXCEPT ![r] = @ - 1]
    /\ enq' = [enq EXCEPT ![r] = IF left[r] = 1 THEN "done" ELSE @]
    /\ \/ \E j \in JobIds :
             /\ owner[j] = 0
             /\ \A k \in JobIds : k < j => owner[k] # 0
             /\ job' = [job EXCEPT ![j] = "queued"]
             /\ owner' = [owner EXCEPT ![j] = r]
             /\ UNCHANGED lost
       \/ LoseWrite /\ UNCHANGED <<job, owner>>
    /\ UNCHANGED <<run, tickVars, podVars, crashes, api, panicked>>

(* Mutant of MarkSkipped: decided before the steps are walked. *)
MarkSkippedEarly(r) ==
    /\ enq[r] \in {"barren", "inserting"}
    /\ enq' = [enq EXCEPT ![r] = "done"]
    /\ SetRunStatus(r, "skipped")
    /\ UNCHANGED <<job, owner, left, tickVars, podVars, crashes, api, panicked>>

(* if !any_job { set_run_status(run_id, "skipped") } *)
MarkSkipped(r) ==
    /\ enq[r] = "barren"
    /\ enq' = [enq EXCEPT ![r] = "done"]
    /\ SetRunStatus(r, "skipped")
    /\ UNCHANGED <<job, owner, left, tickVars, podVars, crashes, api, panicked>>

-----------------------------------------------------------------------------
(* tick and execute_run: one loop, one run at a time. *)

(* Mutant of PendingRuns: the concurrency cap is not applied. *)
PendingRunsUncapped ==
    /\ cur = 0 /\ batch = {}
    /\ Queued # {}
    /\ batch' = Queued
    /\ UNCHANGED <<dbVars, enqVars, cur, stage, todo, verdict, podVars, faultVars>>

PendingRuns ==
    /\ cur = 0 /\ batch = {}
    /\ Queued # {}
    /\ batch' = Oldest(Queued, MaxConcurrency)
    /\ UNCHANGED <<dbVars, enqVars, cur, stage, todo, verdict, podVars, faultVars>>

(* execute_run begins: list_jobs is read once, here. *)
BeginRun(r) ==
    /\ cur = 0
    /\ r \in batch
    /\ \A q \in batch : r <= q
    /\ cur' = r
    /\ batch' = batch \ {r}
    /\ stage' = "prepare"
    /\ todo' = JobsOf(r)
    /\ UNCHANGED <<dbVars, enqVars, verdict, podVars, faultVars>>

(* The build context is created and the tree checked out, best effort. *)
Prepare ==
    /\ stage = "prepare"
    /\ stage' = "jobs"
    /\ UNCHANGED <<dbVars, enqVars, batch, cur, todo, verdict, podVars, faultVars>>

(* Mutant of PrepareFails: the error skips set_run_status. *)
PrepareFailsSilently ==
    /\ stage = "prepare"
    /\ cur' = 0 /\ stage' = "idle" /\ todo' = {}
    /\ UNCHANGED <<dbVars, enqVars, batch, verdict, podVars, faultVars>>

(* list_jobs, the repo id or the context directory fails: `?` ends the run. *)
PrepareFails ==
    /\ stage = "prepare"
    /\ stage' = "jobs"
    /\ todo' = {}
    /\ verdict' = "failure"
    /\ UNCHANGED <<dbVars, enqVars, batch, cur, podVars, faultVars>>

(* Jobs are spawned in id order; the row says running from here on. *)
SpawnJob(j) ==
    /\ stage = "jobs"
    /\ j \in todo
    /\ \A k \in todo : j <= k
    /\ todo' = todo \ {j}
    /\ task' = [task EXCEPT ![j] = IF j \in BuildJobs THEN "build" ELSE "create"]
    /\ SetJobStatus(j, "running")
    /\ UNCHANGED <<run, owner, enqVars, batch, cur, stage, verdict, writer, pod,
                   crashes, api, panicked>>

(* Mutants of JoinJob: a failed job does not fail the run; only failures   *)
(* are written back.                                                       *)
JoinJobForgetsFailure(j) ==
    /\ stage = "jobs" /\ todo = {}
    /\ task[j] \in {"ok", "bad"}
    /\ task' = [task EXCEPT ![j] = "none"]
    /\ writer' = [writer EXCEPT ![j] = "none"]
    /\ SetJobStatus(j, IF task[j] = "ok" THEN "success" ELSE "failure")
    /\ UNCHANGED <<run, owner, enqVars, tickVars, pod, crashes, api, panicked>>

JoinJobFailuresOnly(j) ==
    /\ stage = "jobs" /\ todo = {}
    /\ task[j] \in {"ok", "bad"}
    /\ task' = [task EXCEPT ![j] = "none"]
    /\ writer' = [writer EXCEPT ![j] = "none"]
    /\ verdict' = IF task[j] = "ok" THEN verdict ELSE "failure"
    /\ job' = IF task[j] = "ok" THEN job ELSE [job EXCEPT ![j] = "failure"]
    /\ UNCHANGED <<run, owner, enqVars, batch, cur, stage, todo, pod, faultVars>>

(* join_next: a returned result becomes the job's status. *)
JoinJob(j) ==
    /\ stage = "jobs" /\ todo = {}
    /\ task[j] \in {"ok", "bad"}
    /\ task' = [task EXCEPT ![j] = "none"]
    /\ writer' = [writer EXCEPT ![j] = "none"]
    /\ verdict' = IF task[j] = "ok" THEN verdict ELSE "failure"
    /\ SetJobStatus(j, IF task[j] = "ok" THEN "success" ELSE "failure")
    /\ UNCHANGED <<run, owner, enqVars, batch, cur, stage, todo, pod,
                   crashes, api, panicked>>

(* join_next: a panicked task is logged and skipped, its row untouched. *)
JoinPanicked(j) ==
    /\ stage = "jobs" /\ todo = {}
    /\ task[j] = "panicked"
    /\ task' = [task EXCEPT ![j] = "none"]
    /\ writer' = [writer EXCEPT ![j] = "none"]
    /\ UNCHANGED <<dbVars, enqVars, tickVars, pod, faultVars>>

(* Mutant of FinishRun: only success is written back. *)
FinishRunOnSuccess ==
    /\ stage = "jobs" /\ todo = {}
    /\ \A j \in JobIds : task[j] = "none"
    /\ run' = IF verdict = "failure" THEN run ELSE [run EXCEPT ![cur] = "success"]
    /\ cur' = 0 /\ stage' = "idle" /\ verdict' = "success"
    /\ UNCHANGED <<job, owner, enqVars, batch, todo, podVars, faultVars>>

FinishRun ==
    /\ stage = "jobs" /\ todo = {}
    /\ \A j \in JobIds : task[j] = "none"
    /\ SetRunStatus(cur, verdict)
    /\ cur' = 0 /\ stage' = "idle" /\ verdict' = "success"
    /\ UNCHANGED <<job, owner, enqVars, batch, todo, podVars, crashes, api, panicked>>

-----------------------------------------------------------------------------
(* The task of one job: run_build_step, or run_pod_streaming.             *)

TaskStep(j, from, to) ==
    /\ task[j] = from
    /\ task' = [task EXCEPT ![j] = to]
    /\ UNCHANGED <<dbVars, enqVars, tickVars, crashes, lost, panicked>>

(* buildctl exits, or its own timeout ends the wait. *)
RunBuildStep(j) ==
    /\ \E result \in {"ok", "bad"} : TaskStep(j, "build", result)
    /\ UNCHANGED <<writer, pod, api>>

(* POST pod, and spawn the log writer.  An existing name is refused.  A   *)
(* failed call may still have created the pod: its answer was lost.       *)
CreatePod(j) ==
    \/ /\ pod[j] = "absent"
       /\ TaskStep(j, "create", "watch")
       /\ pod' = [pod EXCEPT ![j] = "Pending"]
       /\ writer' = [writer EXCEPT ![j] = "opening"]
       /\ UNCHANGED api
    \/ /\ pod[j] # "absent"
       /\ TaskStep(j, "create", "bad")
       /\ UNCHANGED <<pod, writer, api>>
    \/ /\ ApiFails
       /\ TaskStep(j, "create", "bad")
       /\ pod' \in {pod, [pod EXCEPT ![j] = IF @ = "absent" THEN "Pending" ELSE @]}
       /\ UNCHANGED writer

(* wait_terminal returns: the phase is terminal, the pod is gone (404), a  *)
(* call failed, or the deadline passed.  Its result is dropped, and the    *)
(* task goes on to `writer.await`.                                         *)
WaitTerminal(j) ==
    /\ TaskStep(j, "watch", "drain")
    /\ \/ pod[j] \in Terminal \cup {"absent"} /\ UNCHANGED api
       \/ ApiFails
    /\ UNCHANGED <<writer, pod>>

Deadline(j) ==
    /\ pod[j] \in {"Pending", "Running"}
    /\ TaskStep(j, "watch", "drain")
    /\ UNCHANGED <<writer, pod, api>>

(* The log writer retries until the container's log opens ...              *)
OpenLog(j) ==
    /\ writer[j] = "opening"
    /\ pod[j] \in {"Running", "Succeeded", "Failed"}
    /\ writer' = [writer EXCEPT ![j] = "following"]
    /\ UNCHANGED <<dbVars, enqVars, tickVars, task, pod, faultVars>>

(* ... and follows it until it closes (or the stream breaks).              *)
EndLog(j) ==
    /\ writer[j] = "following"
    /\ \/ pod[j] \in Terminal \cup {"absent"} /\ UNCHANGED api
       \/ ApiFails
    /\ writer' = [writer EXCEPT ![j] = "ended"]
    /\ UNCHANGED <<dbVars, enqVars, tickVars, task, pod, crashes, lost, panicked>>

(* writer.await *)
AwaitWriter(j) ==
    /\ writer[j] = "ended"
    /\ TaskStep(j, "drain", "phase")
    /\ UNCHANGED <<writer, pod, api>>

(* pod_phase(...)? : an error returns before delete_pod. *)
ReadPhase(j) ==
    /\ \/ /\ pod[j] # "absent"
          /\ TaskStep(j, "phase", IF pod[j] = "Succeeded" THEN "sawSuccess" ELSE "sawOther")
          /\ UNCHANGED api
       \/ /\ pod[j] = "absent"
          /\ TaskStep(j, "phase", "bad")
          /\ UNCHANGED api
       \/ ApiFails /\ TaskStep(j, "phase", "bad")
    /\ UNCHANGED <<writer, pod>>

(* pod_exit_code(...)? : ok = phase is Succeeded or the exit code is 0. *)
ReadExitCode(j) ==
    /\ \E seen \in {"sawSuccess", "sawOther"} :
          \/ /\ pod[j] # "absent"
             /\ TaskStep(j, seen, IF seen = "sawSuccess" \/ pod[j] = "Succeeded"
                                  THEN "deleteOk" ELSE "deleteBad")
             /\ UNCHANGED api
          \/ /\ pod[j] = "absent"
             /\ TaskStep(j, seen, "bad")
             /\ UNCHANGED api
          \/ ApiFails /\ TaskStep(j, seen, "bad")
    /\ UNCHANGED <<writer, pod>>

(* Mutant of DeletePod: only the pods of successful jobs are deleted. *)
DeletePodOnSuccess(j) ==
    /\ \/ TaskStep(j, "deleteOk", "ok") /\ pod' = [pod EXCEPT ![j] = "absent"]
       \/ TaskStep(j, "deleteBad", "bad") /\ UNCHANGED pod
    /\ UNCHANGED <<writer, api>>

(* delete_pod, its error dropped. *)
DeletePod(j) ==
    /\ \/ TaskStep(j, "deleteOk", "ok")
       \/ TaskStep(j, "deleteBad", "bad")
    /\ \/ pod' = [pod EXCEPT ![j] = "absent"] /\ UNCHANGED api
       \/ ApiFails /\ UNCHANGED pod
    /\ UNCHANGED writer

(* A task may panic at any step; the pod it created stays. *)
Panic(j) ==
    /\ Cardinality(panicked) < MaxPanics
    /\ task[j] \in {"create", "build"} \cup PodTasks
    /\ task' = [task EXCEPT ![j] = "panicked"]
    /\ panicked' = panicked \cup {j}
    /\ UNCHANGED <<dbVars, enqVars, tickVars, writer, pod, crashes, lost, api>>

-----------------------------------------------------------------------------
(* The cluster (external), and restarts of the jjlab process. *)

PodStep(j, from, to) ==
    /\ pod[j] = from
    /\ pod' = [pod EXCEPT ![j] = to]
    /\ UNCHANGED <<dbVars, enqVars, tickVars, task, writer, faultVars>>

StartPod(j)  == PodStep(j, "Pending", "Running")
FinishPod(j) == \E phase \in {"Succeeded", "Failed"} : PodStep(j, "Running", phase)

(* The init container (snapshot fetch) fails, or somebody deletes the pod. *)
BreakPod(j) ==
    /\ FaultyCluster
    /\ \/ PodStep(j, "Pending", "Unstarted")
       \/ \E from \in {"Pending", "Running"} : PodStep(j, from, "absent")

(* Handlers, scheduler and tasks die with the process; rows and pods stay. *)
Restart ==
    /\ crashes < MaxCrashes
    /\ crashes' = crashes + 1
    /\ enq' = [r \in RunIds |-> IF enq[r] = "none" THEN "none" ELSE "done"]
    /\ left' = [r \in RunIds |-> 0]
    /\ batch' = {} /\ cur' = 0 /\ stage' = "idle" /\ todo' = {} /\ verdict' = "success"
    /\ task' = [j \in JobIds |-> "none"]
    /\ writer' = [j \in JobIds |-> "none"]
    /\ UNCHANGED <<dbVars, pod, lost, api, panicked>>

-----------------------------------------------------------------------------
Handler(r) == CreateRun(r) \/ InsertJob(r) \/ MarkSkipped(r)

Tick ==
    \/ PendingRuns
    \/ \E r \in RunIds : BeginRun(r)
    \/ Prepare
    \/ PrepareFails
    \/ \E j \in JobIds : SpawnJob(j) \/ JoinJob(j) \/ JoinPanicked(j)
    \/ FinishRun

JobTask(j) ==
    \/ RunBuildStep(j)
    \/ CreatePod(j)
    \/ WaitTerminal(j)
    \/ Deadline(j)
    \/ AwaitWriter(j)
    \/ ReadPhase(j)
    \/ ReadExitCode(j)
    \/ DeletePod(j)

LogWriter(j) == OpenLog(j) \/ EndLog(j)

Next ==
    \/ \E r \in RunIds : Handler(r)
    \/ Tick
    \/ \E j \in JobIds :
          \/ JobTask(j)
          \/ LogWriter(j)
          \/ Panic(j)
          \/ StartPod(j) \/ FinishPod(j) \/ BreakPod(j)
    \/ Restart

Spec == Init /\ [][Next]_vars

(***************************************************************************)
(* The scheduler loop and every tokio task it spawned keep being polled.   *)
(* Handlers get no fairness: a client may vanish and its request with it.  *)
(***************************************************************************)
ProcessFairness ==
    /\ WF_vars(Tick)
    /\ \A j \in JobIds : WF_vars(JobTask(j)) /\ WF_vars(LogWriter(j))

(* A cluster that starts every pod, and commands that end. *)
ClusterFairness == \A j \in JobIds : WF_vars(StartPod(j)) /\ WF_vars(FinishPod(j))

FairSpec == Spec /\ ProcessFairness /\ ClusterFairness

(* The scheduler's own fairness alone: nothing is assumed of pods. *)
LoopSpec == Spec /\ ProcessFairness

-----------------------------------------------------------------------------
(* Properties. *)

HasRow(j) == owner[j] # 0

(* A run is reported success only when none of its jobs failed: every job  *)
(* row of it says success, or still queued (inserted after list_jobs was   *)
(* read), or running because its task panicked.  Restarts, failing calls   *)
(* and re-executions included; only a dropped status write voids it.       *)
VerdictOfSuccess ==
    lost = 0 =>
      \A j \in JobIds :
         HasRow(j) /\ run[owner[j]] = "success" =>
           job[j] \in {"success", "queued"} \/ (job[j] = "running" /\ j \in panicked)

(* Oldest first: while a run executes, no older run is waiting, although   *)
(* the batch was read once and handlers keep inserting runs.               *)
OldestFirst ==
    (cur # 0 /\ lost = 0) => \A q \in RunIds : q < cur => run[q] # "queued"

(* A finished job is executed again only after a restart or a dropped      *)
(* status write: the poll loop itself delivers each job at most once.      *)
NoReexecution ==
    [][\A j \in JobIds :
         job[j] \in Verdicts /\ job'[j] = "running" => crashes > 0 \/ lost > 0]_vars

(* The verdict of a run that has a job row is final: neither a later tick  *)
(* nor the late "skipped" of enqueue_run overwrites it.                    *)
VerdictFinal ==
    [][\A r \in RunIds :
         run[r] \in Verdicts /\ JobsOf(r) # {} => run'[r] = run[r]]_vars

(* A run is skipped only if it has no job row, now or later. *)
SkippedHasNoJobs ==
    \A r \in RunIds : run[r] = "skipped" => JobsOf(r) = {} /\ enq[r] # "inserting"

(* Without a restart, a failing Kubernetes call or a panic, every pod in   *)
(* the cluster has a live task that will delete it.                        *)
NoPodLeak ==
    (crashes = 0 /\ api = 0 /\ panicked = {}) =>
      \A j \in JobIds :
         pod[j] # "absent" => owner[j] = cur /\ task[j] \in PodTasks

(* Every queued run is decided, through restarts and refused pod names.    *)
QueueDrains == \A r \in RunIds : (run[r] = "queued") ~> (run[r] # "queued")

(* A running job gets its verdict, or its run is already reported failed.  *)
JobsSettle ==
    \A j \in JobIds :
       (job[j] = "running") ~>
          (job[j] # "running" \/ (HasRow(j) /\ run[owner[j]] = "failure"))

(* "drains the queued-runs table and executes each job as a Kubernetes     *)
(* sandbox pod": a successful run has no job left unexecuted.              *)
EveryJobExecuted ==
    \A j \in JobIds :
       HasRow(j) /\ run[owner[j]] = "success" => job[j] # "queued"

(* "Job hard timeout": once the deadline of a job has passed, its task     *)
(* eventually ends, whatever its pod does.                                 *)
TimeoutEnforced ==
    \A j \in JobIds :
       (task[j] = "drain" /\ pod[j] \in {"Pending", "Running"}) ~> (task[j] # "drain")

(* The pipeline with jobs and pods is an implementation of the run queue.  *)
Runs == INSTANCE CiRuns WITH barren <- {r \in RunIds : enq[r] = "barren"}

ImplementsCiRuns == Runs!Spec

-----------------------------------------------------------------------------
(* The inductive invariant of the proofs, by what each part is about.      *)

(* Rows appear in id order, and belong to a handler that got that far. *)
EnqInv ==
    \A r \in RunIds :
       /\ enq[r] = "none" <=> run[r] = "none"
       /\ enq[r] # "none" => \A q \in RunIds : q < r => enq[q] # "none"
       /\ enq[r] = "inserting" => left[r] \in Nat \ {0}
       /\ enq[r] \in {"none", "barren"} => \A j \in JobIds : owner[j] # r
       /\ run[r] = "skipped" => enq[r] # "inserting" /\ \A j \in JobIds : owner[j] # r

Undecided(r) == run[r] \in {"queued", "skipped"}

(* The batch and the current run are undecided; the batch is younger. *)
TickInv ==
    /\ cur = 0 <=> stage = "idle"
    /\ cur = 0 => todo = {} /\ verdict = "success"
    /\ cur # 0 => Undecided(cur)
    /\ \A r \in batch : Undecided(r) /\ (cur # 0 => cur < r)
    /\ stage = "prepare" => verdict = "success"

(* Tasks and spawnable jobs belong to the current run. *)
TaskInv ==
    /\ \A j \in JobIds : job[j] = "none" <=> owner[j] = 0
    /\ \A j \in todo : owner[j] = cur /\ task[j] = "none"
    /\ \A j \in JobIds : task[j] # "none" => owner[j] = cur /\ stage = "jobs"
    /\ \A j \in JobIds : task[j] = "panicked" => j \in panicked

(* No queued run is older than the batch or the current run, save these.   *)
FifoInv ==
    lost = 0 =>
      \A q \in RunIds : run[q] = "queued" /\ q \notin batch =>
          /\ cur # 0 => q >= cur
          /\ \A b \in batch : q < b => q = cur

Settled(j) == job[j] \in {"success", "queued"} \/ (job[j] = "running" /\ j \in panicked)

(* While a run has not failed, each of its jobs is ahead, running or fine. *)
VerdictInv ==
    lost = 0 =>
      /\ \A j \in JobIds : owner[j] # 0 /\ run[owner[j]] = "success" => Settled(j)
      /\ \A j \in JobIds : task[j] # "none" => job[j] = "running"
      /\ (cur # 0 /\ verdict = "success") =>
            \A j \in JobIds : owner[j] = cur => j \in todo \/ task[j] # "none" \/ Settled(j)

(* Without restart and lost write, a job starts only out of queued.        *)
OnceInv ==
    (lost = 0 /\ crashes = 0) =>
      /\ \A j \in todo : job[j] = "queued"
      /\ \A j \in JobIds :
            owner[j] # 0 /\ owner[j] # cur /\ run[owner[j]] = "queued" => job[j] = "queued"

IInv ==
    /\ TypeOK /\ EnqInv /\ TickInv /\ TaskInv
    /\ FifoInv /\ VerdictInv /\ OnceInv /\ NoPodLeak
===============================================================================
