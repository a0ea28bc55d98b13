-------------------------------- MODULE CiRuns --------------------------------
(***************************************************************************)
(* What the CI queue promises about whole runs, with jobs and pods left    *)
(* out: a run is enqueued once; the scheduler claims the oldest queued     *)
(* runs in batches of at most MaxConcurrency, executes them one at a time  *)
(* from the oldest on, and only the execution of a run decides its         *)
(* verdict.  CiScheduler is shown to implement this module, and states     *)
(* what is assumed of the constants.                                       *)
(***************************************************************************)
EXTENDS Naturals, FiniteSets

CONSTANTS MaxRuns,        \* bound: rows of the runs table
          MaxConcurrency  \* runs claimed per tick (JJLAB_CI_MAX_CONCURRENCY)

VARIABLES
    run,     \* runs.status by run id; "none" while the row does not exist
    barren,  \* runs without a runnable step, still to be marked skipped
    batch,   \* runs claimed by the current tick and not started yet
    cur      \* the run being executed, 0 when there is none

runVars == <<run, barren, batch, cur>>

RunIds    == 1..MaxRuns
Verdicts  == {"success", "failure"}
RunStatus == {"none", "queued", "skipped"} \cup Verdicts

Queued == {r \in RunIds : run[r] = "queued"}

(* The n smallest ids of S: ORDER BY id followed by truncate(n). *)
Oldest(S, n) == {r \in S : Cardinality({q \in S : q < r}) < n}

Init ==
    /\ run = [r \in RunIds |-> "none"]
    /\ barren = {}
    /\ batch = {}
    /\ cur = 0

(* The row appears with status queued; ids grow (AUTOINCREMENT). *)
Enqueue(r) ==
    /\ run[r] = "none"
    /\ \A q \in RunIds : q < r => run[q] # "none"
    /\ run' = [run EXCEPT ![r] = "queued"]
    /\ barren' \in {barren, barren \cup {r}}
    /\ UNCHANGED <<batch, cur>>

(* A run without steps is marked skipped, whatever became of it meanwhile; *)
(* the status write may be lost.                                           *)
Skip(r) ==
    /\ r \in barren
    /\ barren' = barren \ {r}
    /\ run' \in {run, [run EXCEPT ![r] = "skipped"]}
    /\ UNCHANGED <<batch, cur>>

Claim ==
    /\ cur = 0 /\ batch = {}
    /\ Queued # {}
    /\ batch' = Oldest(Queued, MaxConcurrency)
    /\ UNCHANGED <<run, barren, cur>>

Start(r) ==
    /\ cur = 0
    /\ r \in batch
    /\ \A q \in batch : r <= q
    /\ cur' = r
    /\ batch' = batch \ {r}
    /\ UNCHANGED <<run, barren>>

(* The execution ends with a verdict; the status write may be lost. *)
Settle ==
    /\ cur # 0
    /\ run' \in {run} \cup {[run EXCEPT ![cur] = v] : v \in Verdicts}
    /\ cur' = 0
    /\ UNCHANGED <<barren, batch>>

(* The process restarts: the tables stay, everything in memory is gone. *)
Restart ==
    /\ barren' = {} /\ batch' = {} /\ cur' = 0
    /\ UNCHANGED run

Next ==
    \/ \E r \in RunIds : Enqueue(r) \/ Skip(r) \/ Start(r)
    \/ Claim
    \/ Settle
    \/ Restart

Spec == Init /\ [][Next]_runVars
===============================================================================
