------------------------- MODULE ServerProcess_proofs -------------------------
(***************************************************************************)
(* Proofs about the background tasks, for all sets of clients and all      *)
(* bounds: the types, that a stream shows the lines of a task in order,    *)
(* and that the end of a task is told.  Then: what is proved of the        *)
(* lifecycle, the services and the tasks holds of the process in which     *)
(* they run and die together.                                              *)
(***************************************************************************)
EXTENDS ServerProcess, RepoLifecycle_proofs, Services_proofs, SequenceTheorems, TLAPS

-----------------------------------------------------------------------------
(* Sequences of events. *)

Ordered(t) ==
    \A i \in 1..(Len(t) - 1) : t[i + 1] \in {t[i] + 1, Final} /\ t[i] # Final

LEMMA EventsAreNat == Final \in Nat /\ Final > MaxLines /\ Events \subseteq Nat /\ Final \in Events
BY TasksAssumption DEF Final, Events

LEMMA AppendOrdered ==
    ASSUME NEW t \in Seq(Events), Ordered(t), NEW e \in Events,
           t # <<>> => LastOf(t) # Final /\ e \in {LastOf(t) + 1, Final}
    PROVE  /\ Append(t, e) \in Seq(Events) /\ Append(t, e) # <<>>
           /\ LastOf(Append(t, e)) = e
           /\ Ordered(Append(t, e))
           /\ t # <<>> => Append(t, e)[1] = t[1]
           /\ t = <<>> => Append(t, e)[1] = e
<1>1. /\ Append(t, e) \in Seq(Events) /\ Append(t, e) # <<>>
      /\ Len(Append(t, e)) = Len(t) + 1
      /\ \A i \in 1..Len(t) : Append(t, e)[i] = t[i]
      /\ Append(t, e)[Len(t) + 1] = e
  BY AppendProperties
<1>2. Len(t) \in Nat /\ (t # <<>> => Len(t) >= 1) /\ (t = <<>> => Len(t) = 0)
  BY EmptySeq
<1>3. LastOf(Append(t, e)) = e
  BY <1>1 DEF LastOf
<1>4. Ordered(Append(t, e))
  <2> SUFFICES ASSUME NEW i \in 1..Len(t)
               PROVE  /\ Append(t, e)[i + 1] \in {Append(t, e)[i] + 1, Final}
                      /\ Append(t, e)[i] # Final
    BY <1>1, <1>2 DEF Ordered
  <2>1. CASE i = Len(t)
    BY <1>1, <1>2, <2>1 DEF LastOf
  <2>2. CASE i # Len(t)
    <3>1. i \in 1..(Len(t) - 1) /\ i + 1 \in 1..Len(t)
      BY <1>2, <2>2
    <3> QED BY <1>1, <3>1 DEF Ordered
  <2> QED BY <2>1, <2>2
<1> QED BY <1>1, <1>2, <1>3, <1>4

LEMMA AppendLast ==
    ASSUME NEW t \in Seq(Events), NEW e \in Events
    PROVE  Append(t, e) \in Seq(Events) /\ Append(t, e) # <<>> /\ LastOf(Append(t, e)) = e
BY AppendProperties DEF LastOf

\* To append to what waits is to append to all that was told.
LEMMA ToldAppend ==
    ASSUME NEW got \in Seq(Events), NEW queue \in Seq(Events), NEW e \in Events
    PROVE  got \o Append(queue, e) = Append(got \o queue, e)
<1>1. Append(queue, e) = queue \o <<e>> /\ <<e>> \in Seq(Events) /\ got \o queue \in Seq(Events)
  BY AppendIsConcat, ConcatProperties
<1>2. Append(got \o queue, e) = (got \o queue) \o <<e>>
  BY <1>1, AppendIsConcat
<1> QED BY <1>1, <1>2, ConcatAssociative

\* Receiving an event does not change what was told.
LEMMA ToldReceive ==
    ASSUME NEW got \in Seq(Events), NEW queue \in Seq(Events), queue # <<>>
    PROVE  Append(got, Head(queue)) \o Tail(queue) = got \o queue
<1> DEFINE e == Head(queue)
           rest == Tail(queue)
<1>1. e \in Events /\ rest \in Seq(Events) /\ Len(rest) = Len(queue) - 1
      /\ \A i \in 1..Len(rest) : rest[i] = queue[i + 1]
  BY HeadTailProperties
<1>2. e = queue[1] /\ Len(queue) \in Nat /\ Len(queue) >= 1
  <2>1. Len(queue) \in Nat /\ Len(queue) >= 1
    BY EmptySeq
  <2>2. e = queue[1]
    OBVIOUS
  <2> QED BY <2>1, <2>2
<1>3. /\ Append(got, e) \in Seq(Events) /\ Len(Append(got, e)) = Len(got) + 1
      /\ \A i \in 1..Len(got) : Append(got, e)[i] = got[i]
      /\ Append(got, e)[Len(got) + 1] = e
  BY <1>1, AppendProperties
<1> HIDE DEF e, rest
<1> DEFINE moved == Append(got, e) \o rest
           before == got \o queue
<1>4. /\ moved \in Seq(Events) /\ Len(moved) = Len(got) + 1 + Len(rest)
      /\ \A i \in 1..(Len(got) + 1 + Len(rest)) :
            moved[i] = IF i <= Len(got) + 1 THEN Append(got, e)[i] ELSE rest[i - (Len(got) + 1)]
  <2> DEFINE s1 == Append(got, e)
  <2>1. s1 \in Seq(Events) /\ Len(s1) = Len(got) + 1 /\ Len(got) \in Nat /\ Len(rest) \in Nat
    BY <1>1, <1>3, EmptySeq
  <2> HIDE DEF s1
  <2>2. /\ s1 \o rest \in Seq(Events) /\ Len(s1 \o rest) = Len(s1) + Len(rest)
        /\ \A i \in 1..(Len(s1) + Len(rest)) :
              (s1 \o rest)[i] = IF i <= Len(s1) THEN s1[i] ELSE rest[i - Len(s1)]
    BY <1>1, <2>1, ConcatProperties
  <2>3. moved = s1 \o rest
    BY DEF s1
  <2> QED BY <2>1, <2>2, <2>3 DEF s1
<1>5. /\ before \in Seq(Events) /\ Len(before) = Len(got) + Len(queue)
      /\ \A i \in 1..(Len(got) + Len(queue)) :
            before[i] = IF i <= Len(got) THEN got[i] ELSE queue[i - Len(got)]
  BY ConcatProperties
<1> DEFINE n == Len(got)
           m == Len(queue)
           s1 == Append(got, e)
<1>6. /\ n \in Nat /\ m \in Nat /\ m >= 1 /\ Len(moved) = n + m /\ Len(before) = n + m
      /\ \A i \in 1..(n + m) :
            /\ moved[i] = IF i <= n + 1 THEN s1[i] ELSE rest[i - (n + 1)]
            /\ before[i] = IF i <= n THEN got[i] ELSE queue[i - n]
      /\ \A i \in 1..n : s1[i] = got[i]
      /\ s1[n + 1] = queue[1]
      /\ \A i \in 1..(m - 1) : rest[i] = queue[i + 1]
  <2>1. n \in Nat
    BY EmptySeq
  <2> HIDE DEF moved, before
  <2>2. Len(rest) = m - 1 /\ n + 1 + Len(rest) = n + m
    BY <1>1, <1>2, <2>1
  <2> QED BY <1>1, <1>2, <1>3, <1>4, <1>5, <2>1, <2>2
<1> HIDE DEF moved, before, n, m, s1
<1>7. Len(moved) = Len(before)
  BY <1>6
<1>8. ASSUME NEW i \in 1..Len(moved) PROVE moved[i] = before[i]
  <2>1. i \in Nat /\ i >= 1 /\ i <= n + m /\ i \in 1..(n + m)
    BY <1>6, <1>8
  <2>2. CASE i <= n
    <3>1. i <= n + 1 /\ i \in 1..n
      BY <1>6, <2>1, <2>2
    <3>2. moved[i] = s1[i] /\ before[i] = got[i]
      BY <1>6, <2>1, <2>2, <3>1
    <3>3. s1[i] = got[i]
      BY <1>6, <3>1
    <3> QED BY <3>2, <3>3
  <2>3. CASE i = n + 1
    <3>1. i <= n + 1 /\ ~(i <= n) /\ i - n = 1
      BY <1>6, <2>3
    <3>2. moved[i] = s1[i] /\ before[i] = queue[i - n]
      BY <1>6, <2>1, <3>1
    <3>3. s1[i] = queue[1]
      BY <1>6, <2>3
    <3> QED BY <3>1, <3>2, <3>3
  <2>4. CASE i > n + 1
    <3>0. ~(i <= n + 1) /\ ~(i <= n)
      BY <1>6, <2>1, <2>4
    <3>1. moved[i] = rest[i - (n + 1)] /\ before[i] = queue[i - n]
      BY <1>6, <2>1, <3>0
    <3>2. i - (n + 1) \in 1..(m - 1) /\ i - (n + 1) + 1 = i - n
      BY <1>6, <2>1, <2>4
    <3>3. rest[i - (n + 1)] = queue[i - (n + 1) + 1]
      BY <1>6, <3>2
    <3> QED BY <3>1, <3>2, <3>3
  <2> QED BY <1>6, <2>1, <2>2, <2>3, <2>4
<1>9. moved = before
  BY <1>4, <1>5, <1>7, <1>8, SeqEqual
<1> QED BY <1>9 DEF moved, before, e, rest

\* The first events of what was told are in order as the whole is.
LEMMA PrefixOrdered ==
    ASSUME NEW got \in Seq(Events), NEW queue \in Seq(Events), Ordered(got \o queue)
    PROVE  Ordered(got)
<1>1. /\ Len(got \o queue) = Len(got) + Len(queue)
      /\ \A i \in 1..Len(got) : (got \o queue)[i] = got[i]
  <2>1. Len(got) \in Nat /\ Len(queue) \in Nat
    BY EmptySeq
  <2> QED BY <2>1, ConcatProperties
<1>2. Len(got) \in Nat /\ Len(queue) \in Nat
  BY EmptySeq
<1> SUFFICES ASSUME NEW i \in 1..(Len(got) - 1)
             PROVE  got[i + 1] \in {got[i] + 1, Final} /\ got[i] # Final
  BY DEF Ordered
<1>3. i \in 1..(Len(got \o queue) - 1) /\ i \in 1..Len(got) /\ i + 1 \in 1..Len(got)
  BY <1>1, <1>2
<1> QED BY <1>1, <1>3 DEF Ordered

\* What waits behind an event that is not the last ends as before.
LEMMA TailLast ==
    ASSUME NEW queue \in Seq(Events), queue # <<>>, Head(queue) # LastOf(queue)
    PROVE  Tail(queue) # <<>> /\ LastOf(Tail(queue)) = LastOf(queue)
<1>1. Len(queue) \in Nat /\ Len(queue) >= 1
  BY EmptySeq
<1>2. Head(queue) = queue[1]
  OBVIOUS
<1>3. Len(queue) >= 2
  BY <1>1, <1>2 DEF LastOf
<1>4. /\ Tail(queue) \in Seq(Events) /\ Len(Tail(queue)) = Len(queue) - 1
      /\ \A i \in 1..Len(Tail(queue)) : Tail(queue)[i] = queue[i + 1]
  BY HeadTailProperties
<1>5. Len(Tail(queue)) \in 1..Len(Tail(queue)) /\ Len(Tail(queue)) + 1 = Len(queue)
  BY <1>1, <1>3, <1>4
<1> QED BY <1>4, <1>5, EmptySeq DEF LastOf

\* What waits ends as all that was told does.
LEMMA ToldEnd ==
    ASSUME NEW got \in Seq(Events), NEW queue \in Seq(Events), queue # <<>>
    PROVE  got \o queue # <<>> /\ LastOf(got \o queue) = LastOf(queue)
<1>1. Len(got) \in Nat /\ Len(queue) \in Nat /\ Len(queue) >= 1
  BY EmptySeq
<1>2. /\ got \o queue \in Seq(Events) /\ Len(got \o queue) = Len(got) + Len(queue)
      /\ \A i \in 1..(Len(got) + Len(queue)) :
            (got \o queue)[i] = IF i <= Len(got) THEN got[i] ELSE queue[i - Len(got)]
  BY ConcatProperties
<1>3. (got \o queue)[Len(got) + Len(queue)] = queue[Len(queue)]
  BY <1>1, <1>2
<1> QED BY <1>1, <1>2, <1>3, EmptySeq DEF LastOf

-----------------------------------------------------------------------------
(* The inductive invariant. *)

\* The last event that was broadcast, or 0.
Spoken == IF worker = "over" THEN Final ELSE IF hand = {} THEN lines ELSE lines - 1

\* What holds of a stream, given the worker, the lines and the last event.
StreamOK(s, w, l, spoken) ==
    /\ s.shown <= l
    /\ s.lagged = "no" => Ordered(Told(s)) /\ (Told(s) # <<>> => Told(s)[1] >= s.shown)
    /\ Ordered(s.got)
    /\ s.pc \in {"snapshot", "status", "subscribe"} =>
          s.got = <<>> /\ s.queue = <<>> /\ s.lagged = "no"
    /\ s.pc = "recv" =>
          /\ s.lagged = "no" /\ Told(s) # <<>> => LastOf(Told(s)) = spoken
          /\ w = "over" /\ s.late = "no" => s.queue # <<>> /\ LastOf(s.queue) = Final
    /\ s.pc = "ended" => s.got # <<>> /\ LastOf(s.got) = Final

StreamsOK == \A c \in Clients : stream[c] # Idle => StreamOK(stream[c], worker, lines, Spoken)

\* One line at most is pushed and not yet broadcast, and it is the last.
HandInv ==
    /\ hand \subseteq {lines}
    /\ hand # {} => worker = "on" /\ lines >= 1
    /\ status = "none" => worker = "off" /\ \A c \in Clients : stream[c] = Idle
    /\ \A i \in 1..Len(logs) : logs[i] <= lines

TaskInv == TaskTypeOK /\ HandInv /\ StreamsOK

LEMMA StreamType ==
    ASSUME NEW s \in Streams
    PROVE  /\ s.got \in Seq(Events) /\ s.queue \in Seq(Events) /\ s.shown \in Nat
           /\ s.lagged \in {"yes", "no"} /\ s.late \in {"yes", "no"} /\ Told(s) \in Seq(Events)
<1>1. s.got \in Seq(Events) /\ s.queue \in Seq(Events) /\ s.shown \in 0..MaxLines
      /\ s.lagged \in {"yes", "no"} /\ s.late \in {"yes", "no"}
  BY DEF Streams
<1>2. s.shown \in Nat
  BY <1>1, TasksAssumption
<1>3. Told(s) \in Seq(Events)
  BY <1>1, ConcatProperties DEF Told
<1> QED BY <1>1, <1>2, <1>3

\* A stream that receives nothing does not mind the task going on.
LEMMA StreamStays ==
    ASSUME NEW s \in Streams, NEW w, NEW l \in Nat, NEW spoken, StreamOK(s, w, l, spoken),
           NEW w2, NEW l2 \in Nat, NEW spoken2, l <= l2,
           s.pc # "recv" \/ (spoken2 = spoken /\ (w2 = "over" => w = "over"))
    PROVE  StreamOK(s, w2, l2, spoken2)
<1>1. s.shown <= l2
  BY StreamType DEF StreamOK
<1> QED BY <1>1 DEF StreamOK

\* The next event, offered to a receiver.
LEMMA OfferedOK ==
    ASSUME NEW s \in Streams, s.pc = "recv", NEW w, NEW l \in Nat, NEW spoken \in Nat,
           StreamOK(s, w, l, spoken), spoken # Final,
           NEW e \in Events, e \in {spoken + 1, Final}, e >= l, NEW w2, w2 = "over" => e = Final
    PROVE  Offered(s, e) \in Streams /\ StreamOK(Offered(s, e), w2, l, e)
<1>1. /\ s.got \in Seq(Events) /\ s.queue \in Seq(Events) /\ s.shown \in Nat
      /\ Told(s) \in Seq(Events) /\ Len(s.queue) \in Nat
  BY StreamType, EmptySeq
<1>2. e >= s.shown
  BY <1>1, EventsAreNat DEF StreamOK
<1>3. CASE Len(s.queue) < Depth
  <2> DEFINE q == Append(s.queue, e)
             r == [s EXCEPT !.queue = q]
  <2>1. q \in Seq(Events) /\ q # <<>> /\ LastOf(q) = e
    BY <1>1, AppendLast
  <2>2. Offered(s, e) = r
    BY <1>3 DEF Offered
  <2>3. s.got \o q = Append(Told(s), e)
    BY <1>1, ToldAppend DEF Told
  <2> HIDE DEF q
  <2>4. /\ r \in Streams /\ r.queue = q /\ r.got = s.got /\ r.shown = s.shown /\ r.pc = s.pc
        /\ r.lagged = s.lagged /\ r.late = s.late
    BY <2>1 DEF Streams
  <2> HIDE DEF r
  <2>5. Told(r) = Append(Told(s), e)
    BY <2>3, <2>4 DEF Told
  <2>6. s.lagged = "no" =>
           /\ Ordered(Told(r)) /\ Told(r)[1] >= s.shown /\ LastOf(Told(r)) = e
    <3> SUFFICES ASSUME s.lagged = "no"
                 PROVE  Ordered(Told(r)) /\ Told(r)[1] >= s.shown /\ LastOf(Told(r)) = e
      OBVIOUS
    <3>1. Ordered(Told(s)) /\ (Told(s) # <<>> => Told(s)[1] >= s.shown)
          /\ (Told(s) # <<>> => LastOf(Told(s)) = spoken)
      BY DEF StreamOK
    <3> QED BY <1>1, <1>2, <2>5, <3>1, AppendOrdered
  <2>7. StreamOK(r, w2, l, e)
    BY <2>1, <2>4, <2>6 DEF StreamOK
  <2> QED BY <2>2, <2>4, <2>7
<1>4. CASE ~(Len(s.queue) < Depth)
  <2>1. s.queue # <<>>
    BY <1>4, TasksAssumption
  <2> DEFINE rest == Tail(s.queue)
             q == Append(rest, e)
             r == [s EXCEPT !.queue = q, !.lagged = "yes"]
  <2>2. rest \in Seq(Events)
    BY <1>1, <2>1, HeadTailProperties
  <2>3. q \in Seq(Events) /\ q # <<>> /\ LastOf(q) = e
    BY <2>2, AppendLast
  <2>4. Offered(s, e) = r
    BY <1>4 DEF Offered
  <2> HIDE DEF q
  <2>5. /\ r \in Streams /\ r.queue = q /\ r.got = s.got /\ r.shown = s.shown /\ r.pc = s.pc
        /\ r.lagged = "yes" /\ r.late = s.late
    BY <2>3 DEF Streams
  <2> HIDE DEF r
  <2>6. StreamOK(r, w2, l, e)
    BY <2>3, <2>5 DEF StreamOK
  <2> QED BY <2>4, <2>5, <2>6
<1> QED BY <1>3, <1>4

\* A broadcast of the next event.
LEMMA BroadcastOK ==
    ASSUME TaskInv, NEW e \in Events, Broadcast(e), Spoken # Final,
           e \in {Spoken + 1, Final}, e >= lines, lines' = lines,
           worker' = "over" => e = Final, Spoken' = e, worker # "over"
    PROVE  /\ stream' \in [Clients -> Streams \cup {Idle}] /\ StreamsOK'
           /\ \A c \in Clients : stream[c] = Idle => stream'[c] = Idle
<1>0. lines \in Nat /\ Spoken \in Nat
  BY TasksAssumption, EventsAreNat DEF TaskInv, TaskTypeOK, HandInv, Spoken
<1>1. stream' = [c \in Clients |-> IF Subscribed(c) THEN Offered(stream[c], e) ELSE stream[c]]
  BY DEF Broadcast
<1>2. ASSUME NEW c \in Clients, Subscribed(c)
      PROVE  /\ Offered(stream[c], e) \in Streams
             /\ StreamOK(Offered(stream[c], e), worker', lines, e)
  <2>1. stream[c] \in Streams /\ stream[c].pc = "recv"
        /\ StreamOK(stream[c], worker, lines, Spoken)
    BY <1>2 DEF Subscribed, TaskInv, TaskTypeOK, StreamsOK
  <2> QED BY <1>0, <2>1, OfferedOK
<1>3. ASSUME NEW c \in Clients, ~Subscribed(c), stream[c] # Idle
      PROVE  StreamOK(stream[c], worker', lines, e)
  <2>1. stream[c] \in Streams /\ stream[c].pc # "recv"
        /\ StreamOK(stream[c], worker, lines, Spoken)
    BY <1>3 DEF Subscribed, TaskInv, TaskTypeOK, StreamsOK
  <2> QED BY <1>0, <2>1, StreamStays
<1>4. stream' \in [Clients -> Streams \cup {Idle}]
  BY <1>1, <1>2 DEF TaskInv, TaskTypeOK
<1>5. StreamsOK'
  <2> SUFFICES ASSUME NEW c \in Clients, stream'[c] # Idle
               PROVE  StreamOK(stream'[c], worker', lines', Spoken')
    BY DEF StreamsOK
  <2> QED BY <1>1, <1>2, <1>3
<1>6. \A c \in Clients : stream[c] = Idle => stream'[c] = Idle
  BY <1>1 DEF Subscribed
<1> QED BY <1>4, <1>5, <1>6

-----------------------------------------------------------------------------
(* The steps of the task. *)

\* A step of the task that no stream sees.
LEMMA Unseen ==
    ASSUME TaskInv, UNCHANGED stream, lines' \in Nat, lines <= lines', Spoken' = Spoken,
           worker' # "over"
    PROVE  StreamsOK'
<1>1. lines \in Nat
  BY TasksAssumption DEF TaskInv, TaskTypeOK
<1>2. ASSUME NEW c \in Clients, stream[c] # Idle
      PROVE  StreamOK(stream[c], worker', lines', Spoken')
  <2>1. stream[c] \in Streams /\ StreamOK(stream[c], worker, lines, Spoken)
    BY <1>2 DEF TaskInv, TaskTypeOK, StreamsOK
  <2> QED BY <1>1, <2>1, StreamStays
<1> QED BY <1>2 DEF StreamsOK

LEMMA PushStep == ASSUME TaskInv, PushLine PROVE TaskInv'
<1>1. /\ worker = "on" /\ hand = {} /\ lines < MaxLines /\ lines' = lines + 1
      /\ logs' = Trimmed(Append(logs, lines + 1)) /\ hand' = {lines + 1}
      /\ UNCHANGED <<status, worker, stream>>
  BY DEF PushLine
<1>2. lines \in Nat /\ lines' \in 0..MaxLines /\ lines + 1 \in 1..MaxLines
  BY <1>1, TasksAssumption DEF TaskInv, TaskTypeOK
<1> DEFINE s == Append(logs, lines + 1)
<1>3. s \in Seq(1..MaxLines) /\ s # <<>> /\ \A i \in 1..Len(s) : s[i] <= lines + 1
  <2>1. /\ s \in Seq(1..MaxLines) /\ s # <<>> /\ Len(s) = Len(logs) + 1
        /\ \A i \in 1..Len(logs) : s[i] = logs[i]
        /\ s[Len(logs) + 1] = lines + 1
    BY <1>2, AppendProperties DEF TaskInv, TaskTypeOK
  <2>2. Len(logs) \in Nat /\ \A i \in 1..Len(logs) : logs[i] \in Nat /\ logs[i] <= lines
    BY TasksAssumption, EmptySeq, ElementOfSeq DEF TaskInv, TaskTypeOK, HandInv
  <2> HIDE DEF s
  <2>3. \A i \in 1..Len(s) : s[i] <= lines + 1
    BY <1>2, <2>1, <2>2
  <2> QED BY <2>1, <2>3
<1> HIDE DEF s
<1>4. logs' \in Seq(1..MaxLines) /\ \A i \in 1..Len(logs') : logs'[i] <= lines + 1
  <2>1. CASE Len(s) > Keep
    <3>1. logs' = Tail(s)
      BY <1>1, <2>1 DEF Trimmed, s
    <3>2. Tail(s) \in Seq(1..MaxLines) /\ Len(Tail(s)) = Len(s) - 1
          /\ \A i \in 1..Len(Tail(s)) : Tail(s)[i] = s[i + 1]
      BY <1>3, HeadTailProperties
    <3>3. Len(s) \in Nat
      BY <1>3, EmptySeq
    <3> QED BY <1>3, <3>1, <3>2, <3>3
  <2>2. CASE ~(Len(s) > Keep)
    BY <1>1, <1>3, <2>2 DEF Trimmed, s
  <2> QED BY <2>1, <2>2
<1>5. TaskTypeOK'
  BY <1>1, <1>2, <1>4 DEF TaskInv, TaskTypeOK
<1>6. HandInv'
  BY <1>1, <1>2, <1>4 DEF TaskInv, HandInv
<1>7. Spoken' = Spoken
  BY <1>1, <1>2 DEF Spoken
<1> QED BY <1>1, <1>2, <1>5, <1>6, <1>7, Unseen DEF TaskInv

LEMMA SendLineStep == ASSUME TaskInv, SendLine PROVE TaskInv'
<1>1. PICK n \in hand : Broadcast(n) /\ hand' = hand \ {n} /\ UNCHANGED <<status, worker, lines, logs>>
  BY DEF SendLine
<1>2. /\ n = lines /\ hand = {lines} /\ worker = "on" /\ lines \in 1..MaxLines /\ hand' = {}
  BY <1>1, TasksAssumption DEF TaskInv, TaskTypeOK, HandInv
<1>3. n \in Events /\ n # Final /\ Spoken = n - 1 /\ Spoken' = n /\ n \in Nat /\ Spoken + 1 = n
  BY <1>1, <1>2, TasksAssumption DEF Events, Final, Spoken
<1>4. Spoken # Final
  BY <1>2, <1>3, TasksAssumption DEF Final
<1>5. /\ stream' \in [Clients -> Streams \cup {Idle}] /\ StreamsOK'
      /\ \A c \in Clients : stream[c] = Idle => stream'[c] = Idle
  BY <1>1, <1>2, <1>3, <1>4, BroadcastOK
<1>6. TaskTypeOK' /\ HandInv'
  BY <1>1, <1>2, <1>5 DEF TaskInv, TaskTypeOK, HandInv
<1> QED BY <1>5, <1>6 DEF TaskInv

LEMMA SendStateStep == ASSUME TaskInv, SendState PROVE TaskInv'
<1>1. worker = "ending" /\ Broadcast(Final) /\ worker' = "over" /\ UNCHANGED <<status, lines, logs, hand>>
  BY DEF SendState
<1>2. hand = {} /\ lines \in 0..MaxLines /\ status # "none"
  BY <1>1 DEF TaskInv, TaskTypeOK, HandInv
<1>3. Spoken = lines /\ Spoken' = Final /\ Final >= lines /\ Spoken # Final
  BY <1>1, <1>2, TasksAssumption DEF Spoken, Final
<1>4. /\ stream' \in [Clients -> Streams \cup {Idle}] /\ StreamsOK'
      /\ \A c \in Clients : stream[c] = Idle => stream'[c] = Idle
  BY <1>1, <1>3, EventsAreNat, BroadcastOK
<1>5. TaskTypeOK'
  BY <1>1, <1>4 DEF TaskInv, TaskTypeOK
<1>6. HandInv'
  BY <1>1, <1>2 DEF TaskInv, HandInv
<1> QED BY <1>4, <1>5, <1>6 DEF TaskInv

LEMMA WorkerSteps == ASSUME TaskInv, StartTask \/ SetState \/ AbandonTask PROVE TaskInv'
<1>1. UNCHANGED <<lines, logs, hand, stream>> /\ hand = {} /\ worker \in {"on", "off"}
      /\ worker' \in {"on", "ending", "off"} /\ status' \in Statuses
  BY DEF TaskInv, TaskTypeOK, HandInv, StartTask, SetState, AbandonTask, Statuses
<1>2. TaskTypeOK' /\ HandInv'
  BY <1>1 DEF TaskInv, TaskTypeOK, HandInv, Statuses
<1>3. Spoken' = Spoken
  BY <1>1 DEF Spoken
<1>4. lines' \in Nat /\ lines <= lines'
  BY <1>1, TasksAssumption DEF TaskInv, TaskTypeOK
<1> QED BY <1>1, <1>2, <1>3, <1>4, Unseen DEF TaskInv

-----------------------------------------------------------------------------
(* The steps of a stream. *)

\* Only the stream of c moves, to s.
LEMMA StreamMoves ==
    ASSUME TaskInv, NEW c \in Clients, NEW s \in Streams \cup {Idle},
           stream' = [stream EXCEPT ![c] = s],
           UNCHANGED <<status, worker, lines, logs, hand>>,
           s # Idle => status # "none" /\ StreamOK(s, worker, lines, Spoken)
    PROVE  TaskInv'
<1>1. TaskTypeOK' /\ HandInv'
  BY DEF TaskInv, TaskTypeOK, HandInv
<1>2. Spoken' = Spoken
  BY DEF Spoken
<1>3. StreamsOK'
  BY <1>2 DEF TaskInv, TaskTypeOK, StreamsOK
<1> QED BY <1>1, <1>3 DEF TaskInv

LEMMA EmptyOrdered == Ordered(<<>>) /\ <<>> \o <<>> = <<>> /\ <<>> \in Seq(Events)
<1>1. <<>> \in Seq(Events) /\ Len(<<>>) = 0
  BY EmptySeq
<1> QED BY <1>1, ConcatEmptySeq DEF Ordered

LEMMA OpenSteps ==
    ASSUME TaskInv, NEW c \in Clients,
           OpenStream(c) \/ ShowLogs(c) \/ SayStatus(c) \/ Subscribe(c) \/ CloseStream(c)
    PROVE  TaskInv'
<1>1. UNCHANGED <<status, worker, lines, logs, hand>>
  BY DEF OpenStream, ShowLogs, SayStatus, Subscribe, CloseStream, StreamUnchanged
<1>2. lines \in Nat /\ lines \in 0..MaxLines
  BY TasksAssumption DEF TaskInv, TaskTypeOK
<1>3. ASSUME NEW s \in Streams, s.got = <<>>, s.queue = <<>>, s.lagged = "no", s.shown <= lines,
             s.pc \in {"snapshot", "status", "subscribe", "recv"},
             s.pc = "recv" /\ worker = "over" => s.late = "yes",
             stream' = [stream EXCEPT ![c] = s], status # "none"
      PROVE  TaskInv'
  <2>1. Told(s) = <<>> /\ Ordered(Told(s)) /\ Ordered(s.got)
    BY <1>3, EmptyOrdered DEF Told
  <2>2. StreamOK(s, worker, lines, Spoken)
    BY <1>3, <2>1 DEF StreamOK
  <2> QED BY <1>1, <1>3, <2>2, StreamMoves
<1>4. CASE OpenStream(c)
  <2> DEFINE s == [pc |-> "snapshot", shown |-> 0, said |-> "running", got |-> <<>>, queue |-> <<>>,
                   lagged |-> "no", late |-> "no"]
  <2>1. s \in Streams
    BY EmptyOrdered, TasksAssumption DEF Streams, Statuses
  <2>2. /\ s.got = <<>> /\ s.queue = <<>> /\ s.lagged = "no" /\ s.shown <= lines
        /\ s.pc = "snapshot"
    BY <1>2
  <2>3. stream' = [stream EXCEPT ![c] = s] /\ status # "none"
    BY <1>4 DEF OpenStream
  <2> HIDE DEF s
  <2> QED BY <1>3, <2>1, <2>2, <2>3
<1>5. ASSUME NEW pc \in {"snapshot", "status", "subscribe"}, On(c, pc)
      PROVE  /\ stream[c] \in Streams /\ stream[c].got = <<>> /\ stream[c].queue = <<>>
             /\ stream[c].lagged = "no" /\ stream[c].shown <= lines
             /\ status # "none" /\ status \in Statuses
  BY <1>5 DEF On, TaskInv, TaskTypeOK, HandInv, StreamsOK, StreamOK
<1>6. CASE ShowLogs(c)
  <2> DEFINE n == IF logs = <<>> THEN 0 ELSE LastOf(logs)
             s == [stream[c] EXCEPT !.pc = "status", !.shown = n]
  <2>1. n \in 0..MaxLines /\ n <= lines
    <3>1. logs # <<>> => Len(logs) \in 1..Len(logs)
      BY EmptySeq DEF TaskInv, TaskTypeOK
    <3>2. logs # <<>> => LastOf(logs) \in 1..MaxLines /\ LastOf(logs) <= lines
      BY <3>1, ElementOfSeq DEF TaskInv, TaskTypeOK, HandInv, LastOf
    <3> QED BY <1>2, <3>2, TasksAssumption
  <2>2. stream' = [stream EXCEPT ![c] = s] /\ On(c, "snapshot")
    BY <1>6 DEF ShowLogs
  <2> HIDE DEF n
  <2>3. /\ s \in Streams /\ s.pc = "status" /\ s.shown = n /\ s.got = <<>> /\ s.queue = <<>>
        /\ s.lagged = "no"
    BY <1>5, <2>1, <2>2 DEF Streams
  <2> HIDE DEF s
  <2> QED BY <1>3, <1>5, <2>1, <2>2, <2>3
<1>7. CASE SayStatus(c)
  <2> DEFINE s == [stream[c] EXCEPT !.pc = "subscribe", !.said = status]
  <2>1. stream' = [stream EXCEPT ![c] = s] /\ On(c, "status")
    BY <1>7 DEF SayStatus
  <2>2. CASE status \in Statuses
    <3>1. /\ s \in Streams /\ s.pc = "subscribe" /\ s.shown = stream[c].shown /\ s.got = <<>>
          /\ s.queue = <<>> /\ s.lagged = "no"
      BY <1>5, <2>1, <2>2 DEF Streams
    <3> HIDE DEF s
    <3> QED BY <1>3, <1>5, <2>1, <3>1
  <2>3. status \in Statuses
    BY <1>5, <2>1
  <2> QED BY <2>2, <2>3
<1>8. CASE Subscribe(c)
  <2> DEFINE x == IF worker = "over" THEN "yes" ELSE "no"
             s == [stream[c] EXCEPT !.pc = "recv", !.late = x]
  <2>1. stream' = [stream EXCEPT ![c] = s] /\ On(c, "subscribe")
    BY <1>8 DEF Subscribe
  <2>2. x \in {"yes", "no"} /\ (worker = "over" => x = "yes")
    OBVIOUS
  <2> HIDE DEF x
  <2>3. /\ s \in Streams /\ s.pc = "recv" /\ s.shown = stream[c].shown /\ s.got = <<>>
        /\ s.queue = <<>> /\ s.lagged = "no" /\ s.late = x
    BY <1>5, <2>1, <2>2 DEF Streams
  <2> HIDE DEF s
  <2> QED BY <1>3, <1>5, <2>1, <2>2, <2>3
<1>9. CASE CloseStream(c)
  BY <1>1, <1>9, StreamMoves DEF CloseStream
<1> QED BY <1>4, <1>6, <1>7, <1>8, <1>9

LEMMA ReceiveStep == ASSUME TaskInv, NEW c \in Clients, Receive(c) PROVE TaskInv'
<1> DEFINE s0 == stream[c]
           e == Head(s0.queue)
<1>1. /\ s0 # Idle /\ s0.pc = "recv" /\ s0.queue # <<>>
      /\ UNCHANGED <<status, worker, lines, logs, hand>>
  BY DEF Receive, On, StreamUnchanged
<1>2. s0 \in Streams /\ StreamOK(s0, worker, lines, Spoken) /\ status # "none"
  BY <1>1 DEF TaskInv, TaskTypeOK, HandInv, StreamsOK
<1>3. s0.got \in Seq(Events) /\ s0.queue \in Seq(Events)
  BY <1>2, StreamType
<1>4. CASE s0.lagged = "yes"
  <2> DEFINE s == [s0 EXCEPT !.queue = <<>>, !.pc = "lost"]
  <2>1. stream' = [stream EXCEPT ![c] = s]
    BY <1>4 DEF Receive
  <2> HIDE DEF s0
  <2>2. /\ s \in Streams /\ s.pc = "lost" /\ s.lagged = "yes" /\ s.got = s0.got
        /\ s.shown = s0.shown
    BY <1>2, <1>4, EmptyOrdered DEF Streams
  <2> HIDE DEF s
  <2>3. StreamOK(s, worker, lines, Spoken)
    BY <1>2, <2>2 DEF StreamOK
  <2> QED BY <1>1, <1>2, <2>1, <2>2, <2>3, StreamMoves
<1>5. CASE s0.lagged = "no"
  <2> DEFINE pc == IF e = Final THEN "ended" ELSE "recv"
             got == Append(s0.got, e)
             rest == Tail(s0.queue)
             s == [s0 EXCEPT !.queue = rest, !.got = got, !.pc = pc]
  <2>1. stream' = [stream EXCEPT ![c] = s]
    BY <1>5 DEF Receive
  <2>2. e \in Events /\ rest \in Seq(Events)
    BY <1>1, <1>3, HeadTailProperties
  <2>3. got \in Seq(Events) /\ got # <<>> /\ LastOf(got) = e
    BY <1>3, <2>2, AppendLast
  <2>4. got \o rest = Told(s0)
    BY <1>1, <1>3, ToldReceive DEF Told
  <2>5. e # Final /\ LastOf(s0.queue) = Final => rest # <<>> /\ LastOf(rest) = Final
    BY <1>1, <1>3, TailLast
  <2>6. pc \in {"ended", "recv"} /\ (pc = "ended" => e = Final) /\ (pc = "recv" => e # Final)
    OBVIOUS
  <2> HIDE DEF s0, e, pc, got, rest
  <2>7. /\ s \in Streams /\ s.pc = pc /\ s.lagged = s0.lagged /\ s.got = got /\ s.queue = rest
        /\ s.shown = s0.shown /\ s.late = s0.late
    BY <1>2, <2>2, <2>3, <2>6 DEF Streams
  <2> HIDE DEF s
  <2>8. Told(s) = Told(s0)
    BY <2>4, <2>7 DEF Told
  <2>9. Ordered(Told(s0)) /\ (Told(s0) # <<>> => Told(s0)[1] >= s0.shown /\ LastOf(Told(s0)) = Spoken)
    BY <1>1, <1>2, <1>5 DEF StreamOK
  <2>10. Ordered(got)
    <3>1. Ordered(got \o rest)
      BY <2>4, <2>9
    <3> QED BY <2>2, <2>3, <3>1, PrefixOrdered
  <2>11. StreamOK(s, worker, lines, Spoken)
    BY <1>1, <1>2, <2>3, <2>5, <2>6, <2>7, <2>8, <2>9, <2>10 DEF StreamOK
  <2> QED BY <1>1, <1>2, <2>1, <2>7, <2>11, StreamMoves
<1> QED BY <1>2, <1>4, <1>5, StreamType

-----------------------------------------------------------------------------
(* The theorems. *)

LEMMA TaskNextHolds == ASSUME TaskInv, TaskNext PROVE TaskInv'
BY PushStep, SendLineStep, SendStateStep, WorkerSteps, OpenSteps, ReceiveStep DEF TaskNext

LEMMA TaskInitHolds == TaskInit => TaskInv
<1> SUFFICES ASSUME TaskInit PROVE TaskInv
  OBVIOUS
<1>1. \A c \in Clients : stream[c] = Idle
  BY DEF TaskInit
<1>2. logs \in Seq(1..MaxLines) /\ Len(logs) = 0
  BY EmptySeq DEF TaskInit
<1> QED BY <1>1, <1>2, TasksAssumption DEF TaskInit, TaskInv, TaskTypeOK, HandInv, StreamsOK

LEMMA TaskCrashHolds == ASSUME TaskInv, TaskCrash PROVE TaskInv'
<1>1. \A c \in Clients : stream'[c] = Idle
  BY DEF TaskCrash
<1>2. logs' \in Seq(1..MaxLines) /\ Len(logs') = 0
  BY EmptySeq DEF TaskCrash
<1> QED BY <1>1, <1>2, TasksAssumption DEF TaskCrash, TaskInv, TaskTypeOK, HandInv, StreamsOK

LEMMA TaskStutter == ASSUME TaskInv, UNCHANGED taskVars PROVE TaskInv'
<1>1. Spoken' = Spoken
  BY DEF taskVars, Spoken
<1> QED BY <1>1 DEF taskVars, TaskInv, TaskTypeOK, HandInv, StreamsOK

(* The types, that one line at most is in hand, and what each stream has   *)
(* been told, for any number of clients, lines and crashes and any depths  *)
(* of log and channel.                                                     *)
THEOREM TasksInvariance == TaskSpec => []TaskInv
<1>1. TaskInv /\ [TaskNext \/ (Spend("crashes") /\ TaskCrash)]_<<taskVars, left>> => TaskInv'
  BY TaskNextHolds, TaskCrashHolds, TaskStutter
<1> QED BY <1>1, TaskInitHolds, PTL DEF TaskSpec

LEMMA TaskInvTells == TaskInv => LinesInOrder /\ EndTold
<1>1. TaskInv => LinesInOrder
  BY DEF TaskInv, StreamsOK, StreamOK, Ordered, LinesInOrder
<1>2. TaskInv => EndTold
  <2> SUFFICES ASSUME TaskInv, NEW c \in Clients, stream[c] # Idle
               PROVE  /\ stream[c].pc = "ended" => stream[c].got # <<>> /\ LastOf(stream[c].got) = Final
                      /\ stream[c].pc = "recv" /\ stream[c].queue = <<>> /\ worker = "over"
                            => stream[c].late = "yes"
    BY DEF EndTold
  <2>1. StreamOK(stream[c], worker, lines, Spoken) /\ stream[c].late \in {"yes", "no"}
    BY StreamType DEF TaskInv, TaskTypeOK, StreamsOK
  <2> QED BY <2>1 DEF StreamOK
<1> QED BY <1>1, <1>2

(* A stream shows the lines of a task in order and without a gap after     *)
(* those that its snapshot had.                                            *)
THEOREM LinesAreInOrder == TaskSpec => []LinesInOrder
BY TaskInvTells, TasksInvariance, PTL

(* A stream that the server ended has shown the final state; one that      *)
(* still waits when the task is over subscribed too late for it.           *)
THEOREM EndIsTold == TaskSpec => []EndTold
BY TaskInvTells, TasksInvariance, PTL

-----------------------------------------------------------------------------
(* The process. *)

ServerInv == LifeInv /\ SvcInv /\ TaskInv

LEMMA TaskLeft ==
    ASSUME LeftTypeOK, TaskNext PROVE LeftTypeOK'
<1> USE DEF Kinds
<1>1. CASE \/ StartTask \/ PushLine \/ SendLine \/ SetState \/ SendState \/ AbandonTask
  BY <1>1, LeftStays DEF StartTask, PushLine, SendLine, SetState, SendState, AbandonTask
<1>2. ASSUME NEW c \in Clients,
             \/ OpenStream(c) \/ ShowLogs(c) \/ SayStatus(c) \/ Subscribe(c)
             \/ Receive(c) \/ CloseStream(c)
      PROVE  LeftTypeOK'
  BY <1>2, LeftStays DEF OpenStream, ShowLogs, SayStatus, Subscribe, Receive, CloseStream,
     StreamUnchanged
<1> QED BY <1>1, <1>2 DEF TaskNext

LEMMA InvHasLeft == ServerInv => LeftTypeOK
BY DEF ServerInv, LifeInv, LifeTypeOK

\* The steps of one part leave the others alone; a crash ends all.
LEMMA ServerStep ==
    ASSUME ServerInv, [ServerNext]_serverVars PROVE ServerInv'
<1> USE DEF ServerInv
<1>1. CASE LifeNext /\ UNCHANGED <<svcVars, taskVars>>
  BY <1>1, LifeNextHolds, SvcStutter, TaskStutter
<1>2. CASE SvcNext /\ UNCHANGED <<lifeVars, taskVars>>
  BY <1>2, InvHasLeft, SvcNextHolds, SvcLeft, LifeStutter, TaskStutter
<1>3. CASE TaskNext /\ UNCHANGED <<lifeVars, svcVars>>
  BY <1>3, InvHasLeft, TaskNextHolds, TaskLeft, LifeStutter, SvcStutter
<1>4. CASE Crash
  <2>1. LeftTypeOK'
    BY <1>4, InvHasLeft, SpendType DEF Crash, Kinds
  <2> QED BY <1>4, <2>1, CrashStep, SvcCrashHolds, TaskCrashHolds DEF Crash
<1>5. CASE UNCHANGED serverVars
  <2>1. UNCHANGED lifeVars /\ UNCHANGED svcVars /\ UNCHANGED taskVars /\ UNCHANGED left
    BY <1>5 DEF serverVars
  <2>2. LeftTypeOK'
    BY <2>1, InvHasLeft DEF LeftTypeOK
  <2> QED BY <2>1, <2>2, LifeStutter, SvcStutter, TaskStutter
<1> QED BY <1>1, <1>2, <1>3, <1>4, <1>5 DEF ServerNext

LEMMA ServerInvariance == ServerSpec => []ServerInv
<1>1. ServerInit => ServerInv
  BY LifeInitHolds, SvcInitHolds, TaskInitHolds DEF ServerInit, ServerInv
<1>2. ServerInv /\ [ServerNext]_serverVars => ServerInv'
  BY ServerStep
<1> QED BY <1>1, <1>2, PTL DEF ServerSpec

(* Every variable of the process keeps its type.                           *)
THEOREM ServerTypes == ServerSpec => []ServerTypeOK
<1>1. ServerInv => ServerTypeOK
  BY DEF ServerInv, LifeInv, SvcInv, TaskInv, ServerTypeOK
<1> QED BY <1>1, ServerInvariance, PTL

(* Services serve, edits are kept, both caches tell the truth and streams  *)
(* tell the lines in order and the end, whatever else the process does and *)
(* however often it dies.                                                  *)
THEOREM ServerServes ==
    ServerSpec => [](EnsuredServes /\ NoLostUpdate /\ CacheTrue /\ DerivedBuilt /\ LinesInOrder /\ EndTold)
<1>1. SvcInv => EnsuredServes /\ NoLostUpdate /\ CacheTrue /\ DerivedBuilt
  BY SvcInvServes
<1>2. TaskInv => LinesInOrder /\ EndTold
  BY TaskInvTells
<1>3. ServerInv => EnsuredServes /\ NoLostUpdate /\ CacheTrue /\ DerivedBuilt /\ LinesInOrder /\ EndTold
  BY <1>1, <1>2 DEF ServerInv
<1> QED BY <1>3, ServerInvariance, PTL

(* No step of the process loses a repository, its bookmarks or the row of  *)
(* a change but by a deletion of the name they are filed under.            *)
THEOREM ServerKeeps == ServerSpec => ContentKept /\ MetadataKept
<1>1. ServerInv /\ [ServerNext]_serverVars =>
        LifeInv /\ (LifeNext \/ LifeCrash \/ UNCHANGED lifeVars)
  BY DEF ServerInv, ServerNext, Crash, serverVars
<1>2. ServerInv /\ [ServerNext]_serverVars =>
        /\ [\A i \in Held(dir) \ Held(dir') :
              \E c \in Clients : At(c, "remove") /\ dir[call[c].name].id = i]_lifeVars
        /\ [/\ \A i \in Recorded(meta) \ Recorded(meta') :
                 \E c \in Clients : At(c, "unrow") /\ i \in meta[call[c].name]
            /\ \A x \in Changes : change[x] # NoRepo /\ change'[x] = NoRepo =>
                 \E c \in Clients : At(c, "unrow") /\ change[x] = call[c].name]_lifeVars
  BY <1>1, LifeKeeps
<1> QED BY <1>2, ServerInvariance, PTL DEF ServerSpec, ContentKept, MetadataKept

(* The repositories agree, and clones leave all or nothing, in the process *)
(* as a whole: services that start, stop and restart beside the requests,  *)
(* and crashes that end both at once, disturb no name.                     *)
THEOREM ServerAgrees == ServerSpec => [](Agree /\ CloneAllOrNothing)
<1>1. ServerInit => CareInv
  BY CareInit DEF ServerInit
<1>2. ServerInv => LifeInv
  BY DEF ServerInv
<1>3. ServerInv /\ [ServerNext]_serverVars =>
        LifeNext \/ LifeCrash \/ UNCHANGED lifeVars
  BY DEF ServerInv, ServerNext, Crash, serverVars
<1>4. ServerInv /\ CareInv /\ [ServerNext]_serverVars => CareInv'
  BY <1>2, <1>3, CareHolds
<1>5. ServerInv /\ CareInv => Agree /\ CloneAllOrNothing
  BY <1>2, CareAgrees
<1> QED BY <1>1, <1>4, <1>5, ServerInvariance, PTL DEF ServerSpec
===============================================================================
