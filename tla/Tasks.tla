-------------------------------- MODULE Tasks --------------------------------
(***************************************************************************)
(* A background task of /ops (a run, a build, an installation) and the     *)
(* event streams that follow it.  The task writes numbered lines: each is  *)
(* pushed to the log and then broadcast, in two steps.  A stream shows the *)
(* log, then the status, and only then subscribes.                         *)
(***************************************************************************)
EXTENDS ServerCalls, Sequences

CONSTANTS
    MaxLines,  \* lines of a task
    Keep,      \* lines its log keeps (500)
    Depth      \* events its channel keeps for a receiver (256)

ASSUME TasksAssumption ==
    MaxLines \in Nat /\ Keep \in Nat \ {0} /\ Depth \in Nat \ {0}

VARIABLES
    status,   \* the state of the task; "none" before it exists
    worker,   \* its spawned body: "off", "on", "ending" (all but the event), "over"
    lines,    \* lines written
    logs,     \* the last of them
    hand,     \* lines pushed, not yet broadcast
    stream    \* the stream of each client

taskVars == <<status, worker, lines, logs, hand, stream>>

Statuses == {"running", "done", "failed"}

\* The event of the final state, after every line.
Final == MaxLines + 1
Events == 1..Final

\* `shown`: the last line of the snapshot; `said`: the status; `got`, `queue`:
\* events received and waiting; `late`: subscribed after the last event.
Streams == [pc : {"snapshot", "status", "subscribe", "recv", "ended", "lost"},
            shown : 0..MaxLines, said : Statuses, got : Seq(Events), queue : Seq(Events),
            lagged : {"yes", "no"}, late : {"yes", "no"}]

TaskTypeOK ==
    /\ status \in Statuses \cup {"none"}
    /\ worker \in {"off", "on", "ending", "over"}
    /\ lines \in 0..MaxLines
    /\ logs \in Seq(1..MaxLines)
    /\ hand \subseteq 1..MaxLines
    /\ stream \in [Clients -> Streams \cup {Idle}]

TaskInit ==
    /\ status = "none" /\ worker = "off" /\ lines = 0
    /\ logs = <<>> /\ hand = {}
    /\ stream = [c \in Clients |-> Idle]

(***************************************************************************)
(* The task.                                                               *)
(***************************************************************************)
StartTask ==
    /\ status = "none" /\ Spend("streams")
    /\ status' = "running" /\ worker' = "on"
    /\ UNCHANGED <<lines, logs, hand, stream>>

LastOf(s) == s[Len(s)]

Trimmed(s) == IF Len(s) > Keep THEN Tail(s) ELSE s

\* Mutant of PushLine: the readers of stdout and stderr do not share a lock.
PushLineUnlocked ==
    /\ worker = "on" /\ lines < MaxLines
    /\ lines' = lines + 1
    /\ logs' = Trimmed(Append(logs, lines + 1))
    /\ hand' = hand \cup {lines + 1}
    /\ UNCHANGED <<status, worker, stream, left>>

\* One line at a time: the readers of the two pipes lock the sink for a line.
PushLine ==
    /\ worker = "on" /\ hand = {} /\ lines < MaxLines
    /\ lines' = lines + 1
    /\ logs' = Trimmed(Append(logs, lines + 1))
    /\ hand' = {lines + 1}
    /\ UNCHANGED <<status, worker, stream, left>>

Subscribed(c) == stream[c] # Idle /\ stream[c].pc = "recv"

\* A receiver that is too far behind loses the oldest events.
Offered(s, e) ==
    IF Len(s.queue) < Depth THEN [s EXCEPT !.queue = Append(@, e)]
    ELSE [s EXCEPT !.queue = Append(Tail(@), e), !.lagged = "yes"]

Broadcast(e) ==
    stream' = [c \in Clients |-> IF Subscribed(c) THEN Offered(stream[c], e) ELSE stream[c]]

SendLine == \E n \in hand :
    /\ Broadcast(n)
    /\ hand' = hand \ {n}
    /\ UNCHANGED <<status, worker, lines, logs, left>>

\* The body has joined the readers, which end with the pipes and not at the
\* time limit.
SetState ==
    /\ worker = "on" /\ hand = {}
    /\ status' \in {"done", "failed"} /\ worker' = "ending"
    /\ UNCHANGED <<lines, logs, hand, stream, left>>

\* Mutant of SendState: nobody is told.
SendNoState ==
    /\ worker = "ending" /\ worker' = "over"
    /\ UNCHANGED <<status, lines, logs, hand, stream, left>>

SendState ==
    /\ worker = "ending"
    /\ Broadcast(Final) /\ worker' = "over"
    /\ UNCHANGED <<status, lines, logs, hand, left>>

\* A body that panics, or waits for a pipe that a grandchild holds: the task
\* says that it runs for as long as the process does.
AbandonTask ==
    /\ worker = "on" /\ hand = {} /\ Spend("faults")
    /\ worker' = "off"
    /\ UNCHANGED <<status, lines, logs, hand, stream>>

(***************************************************************************)
(* ops_task_stream.                                                        *)
(***************************************************************************)
StreamUnchanged == UNCHANGED <<status, worker, lines, logs, hand, left>>

OpenStream(c) ==
    /\ stream[c] = Idle /\ status # "none" /\ Spend("streams")
    /\ stream' = [stream EXCEPT ![c] =
            [pc |-> "snapshot", shown |-> 0, said |-> "running", got |-> <<>>, queue |-> <<>>,
             lagged |-> "no", late |-> "no"]]
    /\ UNCHANGED <<status, worker, lines, logs, hand>>

On(c, pc) == stream[c] # Idle /\ stream[c].pc = pc

ShowLogs(c) ==
    /\ On(c, "snapshot")
    /\ stream' = [stream EXCEPT ![c].pc = "status",
                                ![c].shown = IF logs = <<>> THEN 0 ELSE LastOf(logs)]
    /\ StreamUnchanged

SayStatus(c) ==
    /\ On(c, "status")
    /\ stream' = [stream EXCEPT ![c].pc = "subscribe", ![c].said = status]
    /\ StreamUnchanged

Subscribe(c) ==
    /\ On(c, "subscribe")
    /\ stream' = [stream EXCEPT ![c].pc = "recv",
                                ![c].late = IF worker = "over" THEN "yes" ELSE "no"]
    /\ StreamUnchanged

\* Mutant of Receive: what a receiver lost is passed over.
ReceiveRest(c) ==
    LET e == Head(stream[c].queue) IN
    /\ On(c, "recv") /\ stream[c].queue # <<>>
    /\ stream' = [stream EXCEPT ![c].queue = Tail(@), ![c].got = Append(@, e),
                                ![c].pc = IF e = Final THEN "ended" ELSE "recv"]
    /\ StreamUnchanged

\* The final state ends the stream; so does a loss, without a word.
Receive(c) ==
    LET e == Head(stream[c].queue) IN
    /\ On(c, "recv") /\ stream[c].queue # <<>>
    /\ stream' = IF stream[c].lagged = "yes"
                   THEN [stream EXCEPT ![c].queue = <<>>, ![c].pc = "lost"]
                   ELSE [stream EXCEPT ![c].queue = Tail(@), ![c].got = Append(@, e),
                                       ![c].pc = IF e = Final THEN "ended" ELSE "recv"]
    /\ StreamUnchanged

CloseStream(c) ==
    /\ stream[c] # Idle
    /\ stream' = [stream EXCEPT ![c] = Idle]
    /\ StreamUnchanged

\* The tasks are gone with the process.
TaskCrash ==
    /\ status' = "none" /\ worker' = "off" /\ lines' = 0
    /\ logs' = <<>> /\ hand' = {}
    /\ stream' = [c \in Clients |-> Idle]

TaskNext ==
    \/ StartTask \/ PushLine \/ SendLine \/ SetState \/ SendState \/ AbandonTask
    \/ \E c \in Clients :
          \/ OpenStream(c) \/ ShowLogs(c) \/ SayStatus(c) \/ Subscribe(c)
          \/ Receive(c) \/ CloseStream(c)

\* Tasks by themselves.
TaskSpec ==
    /\ TaskInit /\ LeftTypeOK
    /\ [][TaskNext \/ (Spend("crashes") /\ TaskCrash)]_<<taskVars, left>>

(***************************************************************************)
(* Properties.                                                             *)
(***************************************************************************)

\* What a stream has been sent since it subscribed, while it lost nothing.
Told(s) == s.got \o s.queue

(* A stream never shows the lines of a task out of order, and leaves none  *)
(* out but between its snapshot and its subscription: what follows the     *)
(* snapshot begins with its last line (which was pushed and not yet sent)  *)
(* or after it, goes on without a gap, and ends with the final state.      *)
LinesInOrder ==
    \A c \in Clients : stream[c] # Idle =>
        LET s == stream[c]
            t == Told(s)
        IN
        /\ s.lagged = "no" =>
              /\ \A i \in 1..(Len(t) - 1) : t[i + 1] \in {t[i] + 1, Final} /\ t[i] # Final
              /\ t # <<>> => t[1] >= s.shown
        /\ \A i \in 1..(Len(s.got) - 1) :
              s.got[i + 1] \in {s.got[i] + 1, Final} /\ s.got[i] # Final

(* The end is told: a stream that the server ended has shown the final     *)
(* state or lost events; and when a task is over, a stream with nothing    *)
(* left to receive had subscribed too late for the event.  Such a stream   *)
(* waits for ever, and knows of the end only if its status said so.        *)
EndTold ==
    \A c \in Clients : stream[c] # Idle =>
        LET s == stream[c]
        IN
        /\ s.pc = "ended" => s.got # <<>> /\ LastOf(s.got) = Final
        /\ s.pc = "recv" /\ s.queue = <<>> /\ worker = "over" => s.late = "yes"
===============================================================================
