--------------------------- MODULE OciUploads_proofs ---------------------------
(***************************************************************************)
(* Proofs about upload sessions, in the server with its package protocols, *)
(* for all sets of clients and sessions and layers of any length.          *)
(* Sections: the inductive invariant, what a step changes, chunks in a     *)
(* file, the steps, interruptions, the theorems.                           *)
(***************************************************************************)
EXTENDS RegistryServer, SequenceTheorems, TLAPS

-----------------------------------------------------------------------------
(* The inductive invariant: what is said of one session and its tasks. *)

Works(c, s) == up[c] # Idle /\ up[c].sid = s

\* The task has the lock of the file.
Locked(u) == u.pc \in {"bump", "read"} \/ (u.pc = "record" /\ u.op # "start")

\* What the file of a session x is when no task has it, and while task u has it.
AtRest(x) ==
    x.pos = Len(x.data) /\ x.size <= Len(x.data) /\ (~x.spilt => x.data = x.counted)

Part(x, u) ==
    /\ u.pc = "bump" => /\ x.pos = Len(x.data) /\ x.size + Len(u.chunk) <= Len(x.data)
                        /\ ~x.spilt => x.data = x.counted \o u.chunk
    /\ u.pc = "record" => AtRest(x)
    /\ u.pc = "read" => x.size <= Len(x.data) /\ (~x.spilt => x.data = x.counted)

FileInv(s) ==
    /\ sess[s].pos <= Len(sess[s].data)
    /\ ~sess[s].torn =>
          /\ sess[s].data = <<>> => sess[s].record \in {0, NoRow}
          /\ sess[s].size = Len(sess[s].counted)
          /\ sess[s].holder = Idle => AtRest(sess[s])
          /\ \A c \in Clients : sess[s].holder = c => Part(sess[s], up[c])

LockInv(s) ==
    \A c \in Clients :
        /\ Works(c, s) => sess[s].used
        /\ sess[s].holder = c <=> Works(c, s) /\ Locked(up[c])

\* A session that has left the map was put or deleted, and who did it still
\* unlinks the file and forgets the record, in one order or the other.
Unlinks(u) == u.pc = "unlink" \/ (u.pc = "forget" /\ u.op = "put" /\ u.ok)
Forgets(u) == u.pc = "forget" \/ (u.pc = "unlink" /\ ~(u.op = "put" /\ u.ok))

Shape(u) ==
    /\ u.op = "delete" => u.start = Unknown
    /\ u.op = "start" => u.pc \in {"record", "done"}
    /\ u.pc \in {"seek", "read", "store"} => u.op = "put"
    /\ ~u.ok => u.pc \in {"unlink", "forget", "done"}

EndInv(s) ==
    /\ \A c \in Clients : Works(c, s) =>
          /\ up[c].pc \in {"unlink", "forget"} => ~sess[s].mapped
          /\ Shape(up[c])
    /\ sess[s].used /\ ~sess[s].hurt /\ sess[s].mapped =>
          /\ sess[s].linked
          /\ \/ sess[s].record = sess[s].size
             \/ \E c \in Clients : Works(c, s) /\ up[c].pc = "record"
    /\ sess[s].used /\ ~sess[s].hurt /\ ~sess[s].mapped =>
          /\ sess[s].linked => \E c \in Clients : Works(c, s) /\ Unlinks(up[c])
          /\ sess[s].record # NoRow => \E c \in Clients : Works(c, s) /\ Forgets(up[c])

\* A task that met no other has the session to itself since its offset was
\* compared.
PlaceInv(s) ==
    /\ \A c, d \in Clients : c # d /\ Works(c, s) /\ Works(d, s) => up[c].met
    /\ \A c \in Clients :
          Works(c, s) /\ up[c].op \in {"patch", "put"} /\ up[c].start # Unknown
          /\ ~up[c].met /\ ~sess[s].torn /\ ~sess[s].spilt =>
             /\ up[c].pc = "lock" => up[c].start = sess[s].size
             /\ up[c].pc \notin {"check", "lock"} /\ up[c].ok => up[c].at = up[c].start

SessInv(s) == FileInv(s) /\ LockInv(s) /\ EndInv(s) /\ PlaceInv(s)

UploadInv == UploadTypeOK /\ \A s \in Sessions : SessInv(s)

-----------------------------------------------------------------------------
(* What a step changes. *)

LEMMA SessType ==
    ASSUME UploadTypeOK, NEW s \in Sessions
    PROVE  /\ sess[s] \in Session
           /\ sess[s].data \in Seq(1..Chunks) /\ sess[s].counted \in Seq(1..Chunks)
           /\ sess[s].pos \in Nat /\ sess[s].size \in Nat
           /\ sess[s].record \in Nat \cup {NoRow} /\ sess[s].holder \in Clients \cup {Idle}
           /\ sess[s].used \in BOOLEAN /\ sess[s].mapped \in BOOLEAN /\ sess[s].linked \in BOOLEAN
           /\ sess[s].spilt \in BOOLEAN /\ sess[s].torn \in BOOLEAN /\ sess[s].hurt \in BOOLEAN
BY DEF UploadTypeOK, Session

LEMMA TaskType ==
    ASSUME UploadTypeOK, NEW c \in Clients, up[c] # Idle
    PROVE  /\ up[c] \in Task /\ up[c].sid \in Sessions /\ up[c].start \in Offset
           /\ up[c].chunk \in {<<>>} \cup {<<k>> : k \in 1..Chunks}
           /\ up[c].pc \in UploadPcs /\ up[c].ok \in BOOLEAN /\ up[c].at \in Nat
           /\ up[c].met \in BOOLEAN
           /\ up[c].op \in {"start", "status", "patch", "put", "delete"}
BY DEF UploadTypeOK, Task

\* The step of one task c, on its session t.
Stepped(c, t, x, u) ==
    /\ up[c] # Idle /\ up[c].sid = t
    /\ sess' \in [Sessions -> Session] /\ up' \in [Clients -> Task \cup {Idle}]
    /\ sess'[t] = x /\ up'[c] = u
    /\ \A s \in Sessions \ {t} : sess'[s] = sess[s]
    /\ \A d \in Clients \ {c} : up'[d] = up[d]

LEMMA StepSets ==
    ASSUME UploadTypeOK, NEW c \in Clients, up[c] # Idle, NEW t \in Sessions, t = up[c].sid,
           NEW x \in Session, NEW u \in Task \cup {Idle}, Set(c, x), Next1(c, u)
    PROVE  Stepped(c, t, x, u)
BY DEF UploadTypeOK, Set, Next1, Stepped

\* What is said of a session stays true when neither it nor its tasks change.
LEMMA Elsewhere ==
    ASSUME NEW s \in Sessions, SessInv(s), sess'[s] = sess[s],
           \A d \in Clients : up'[d] = up[d] \/ (~Works(d, s) /\ ~Works(d, s)'),
           Idle \notin Clients
    PROVE  SessInv(s)'
<1>1. \A d \in Clients : Works(d, s)' <=> Works(d, s)
  BY DEF Works
<1>2. \A d \in Clients : Works(d, s) => up'[d] = up[d]
  OBVIOUS
<1>3. LockInv(s)'
  BY <1>1, <1>2 DEF SessInv, LockInv
<1>4. \A c \in Clients : sess[s].holder = c => Works(c, s)
  BY DEF SessInv, LockInv
<1>5. FileInv(s)'
  BY <1>2, <1>4 DEF SessInv, FileInv
<1>6. EndInv(s)'
  BY <1>1, <1>2 DEF SessInv, EndInv
<1>7. PlaceInv(s)'
  BY <1>1, <1>2 DEF SessInv, PlaceInv
<1> QED BY <1>3, <1>5, <1>6, <1>7 DEF SessInv

\* So it is enough to look at the session of the task that steps.
LEMMA OneSession ==
    ASSUME UploadInv, NEW c \in Clients, NEW t \in Sessions,
           NEW x \in Session, NEW u \in Task \cup {Idle}, Stepped(c, t, x, u),
           u = Idle \/ u.sid = t, uploads' \in Nat, SessInv(t)'
    PROVE  UploadInv'
<1>1. UploadTypeOK'
  BY DEF Stepped, UploadTypeOK
<1>2. ASSUME NEW s \in Sessions \ {t} PROVE SessInv(s)'
  <2>1. \A d \in Clients : up'[d] = up[d] \/ (~Works(d, s) /\ ~Works(d, s)')
    BY <1>2 DEF Stepped, Works
  <2> QED BY <1>2, <2>1, Elsewhere, UploadsAssumption DEF UploadInv, Stepped
<1> QED BY <1>1, <1>2 DEF UploadInv

LEMMA LockKept ==
    ASSUME UploadInv, NEW c \in Clients, NEW t \in Sessions,
           NEW x \in Session, NEW u \in Task \cup {Idle}, Stepped(c, t, x, u),
           u = Idle \/ u.sid = t, x.used = sess[t].used,
           u # Idle /\ Locked(u) <=> x.holder = c,
           \/ x.holder = sess[t].holder
           \/ x.holder = c /\ sess[t].holder = Idle
           \/ x.holder = Idle /\ sess[t].holder = c
    PROVE  LockInv(t)'
<1>1. LockInv(t) /\ Idle \notin Clients
  BY UploadsAssumption DEF UploadInv, SessInv
<1>2. ASSUME NEW d \in Clients \ {c}
      PROVE  (Works(d, t)' <=> Works(d, t)) /\ up'[d] = up[d]
             /\ (sess'[t].holder = d <=> sess[t].holder = d) /\ sess'[t].used = sess[t].used
  BY <1>1, <1>2 DEF Stepped, Works
<1>3. ASSUME NEW d \in Clients \ {c}
      PROVE  /\ Works(d, t)' => sess'[t].used
             /\ sess'[t].holder = d <=> Works(d, t)' /\ Locked(up'[d])
  BY <1>1, <1>2, <1>3 DEF LockInv
<1>4. /\ Works(c, t)' => sess'[t].used
      /\ sess'[t].holder = c <=> Works(c, t)' /\ Locked(up'[c])
  BY <1>1 DEF Stepped, Works, LockInv
<1> QED BY <1>3, <1>4 DEF LockInv

LEMMA PlaceKept ==
    ASSUME UploadInv, NEW c \in Clients, NEW t \in Sessions,
           NEW x \in Session, NEW u \in Task \cup {Idle}, Stepped(c, t, x, u),
           u = Idle \/ (u.sid = t /\ u.met = up[c].met),
           u # Idle /\ u.op \in {"patch", "put"} /\ u.start # Unknown /\ ~u.met /\ ~x.torn /\ ~x.spilt =>
              /\ u.pc = "lock" => u.start = x.size
              /\ u.pc \notin {"check", "lock"} /\ u.ok => u.at = u.start
    PROVE  PlaceInv(t)'
<1>1. PlaceInv(t)
  BY DEF UploadInv, SessInv
<1>2. Works(c, t) /\ up'[c] = u /\ sess'[t] = x
  BY DEF Stepped, Works
<1>3. ASSUME NEW d \in Clients \ {c}, Works(d, t)'
      PROVE  Works(d, t) /\ up'[d] = up[d] /\ up'[d].met /\ up[c].met
  BY <1>1, <1>2, <1>3 DEF Stepped, Works, PlaceInv
<1>4. ASSUME NEW d \in Clients, NEW e \in Clients, d # e, Works(d, t)', Works(e, t)'
      PROVE  up'[d].met
  BY <1>2, <1>3, <1>4 DEF Works
<1>5. ASSUME NEW d \in Clients, Works(d, t)', up'[d].op \in {"patch", "put"},
             up'[d].start # Unknown, ~up'[d].met, ~sess'[t].torn, ~sess'[t].spilt
      PROVE  /\ up'[d].pc = "lock" => up'[d].start = sess'[t].size
             /\ up'[d].pc \notin {"check", "lock"} /\ up'[d].ok => up'[d].at = up'[d].start
  BY <1>2, <1>3, <1>5 DEF Works
<1> QED BY <1>4, <1>5 DEF PlaceInv

LEMMA FileKept ==
    ASSUME UploadInv, NEW c \in Clients, NEW t \in Sessions,
           NEW x \in Session, NEW u \in Task \cup {Idle}, Stepped(c, t, x, u),
           x.data = sess[t].data, x.counted = sess[t].counted, x.pos = sess[t].pos,
           x.size = sess[t].size, x.torn = sess[t].torn, x.spilt = sess[t].spilt, x.holder = sess[t].holder,
           x.record = sess[t].record \/ x.record = NoRow \/ x.record = x.size,
           x.holder # c
    PROVE  FileInv(t)'
<1>1. FileInv(t) /\ sess'[t] = x
  BY DEF UploadInv, SessInv, Stepped
<1>2. ASSUME NEW d \in Clients, x.holder = d, ~x.torn PROVE Part(x, up'[d])
  <2>1. up'[d] = up[d] /\ Part(sess[t], up[d])
    BY <1>1, <1>2 DEF FileInv, Stepped
  <2> QED BY <2>1 DEF Part, AtRest
<1>3. ~x.torn /\ x.data = <<>> => x.size = 0
  <2> SUFFICES ASSUME ~x.torn, x.data = <<>> PROVE x.size = 0
    OBVIOUS
  <2>1. x.size \in Nat /\ Len(x.data) = 0 /\ x.data \in Seq(1..Chunks)
    BY DEF Session
  <2>2. CASE x.holder = Idle
    BY <1>1, <2>1, <2>2 DEF FileInv, AtRest
  <2>3. CASE x.holder \in Clients
    <3> PICK d \in Clients : x.holder = d
      BY <2>3
    <3>1. Works(d, t) /\ Locked(up[d])
      BY DEF UploadInv, SessInv, LockInv
    <3>4. Part(x, up[d])
      BY <1>1 DEF FileInv, Part, AtRest
    <3>2. Len(up[d].chunk) \in Nat
      BY <3>1, TaskType DEF UploadInv, Works
    <3>3. x.size + Len(up[d].chunk) <= 0 \/ x.size <= 0
      BY <2>1, <3>1, <3>4 DEF Part, AtRest, Locked
    <3> QED BY <2>1, <3>2, <3>3
  <2> QED BY <2>2, <2>3 DEF Session
<1> QED BY <1>1, <1>2, <1>3 DEF FileInv, AtRest

\* Another task, and what it owes the session, is as it was.
LEMMA OthersStay ==
    ASSUME NEW c \in Clients, NEW t \in Sessions, NEW x \in Session, NEW u \in Task \cup {Idle},
           Stepped(c, t, x, u)
    PROVE  /\ \A d \in Clients \ {c} : (Works(d, t)' <=> Works(d, t)) /\ up'[d] = up[d]
           /\ Works(c, t) /\ up'[c] = u /\ sess'[t] = x
           /\ Works(c, t)' <=> u # Idle /\ u.sid = t
BY DEF Stepped, Works

\* Who owes a session something: the task that steps, or another one.
Owed(c, t, u, P(_)) == (u # Idle /\ P(u)) \/ \E d \in Clients \ {c} : Works(d, t) /\ P(up[d])

LEMMA EndKept ==
    ASSUME UploadInv, NEW c \in Clients, NEW t \in Sessions,
           NEW x \in Session, NEW u \in Task \cup {Idle}, Stepped(c, t, x, u),
           u = Idle \/ u.sid = t, x.mapped => sess[t].mapped,
           u # Idle => /\ u.pc \in {"unlink", "forget"} => ~x.mapped
                       /\ Shape(u),
           x.used /\ ~x.hurt /\ x.mapped =>
              /\ x.linked
              /\ x.record = x.size \/ Owed(c, t, u, LAMBDA v : v.pc = "record"),
           x.used /\ ~x.hurt /\ ~x.mapped =>
              /\ x.linked => Owed(c, t, u, Unlinks)
              /\ x.record # NoRow => Owed(c, t, u, Forgets)
    PROVE  EndInv(t)'
<1>1. /\ \A d \in Clients \ {c} : (Works(d, t)' <=> Works(d, t)) /\ up'[d] = up[d]
      /\ Works(c, t) /\ up'[c] = u /\ sess'[t] = x
      /\ Works(c, t)' <=> u # Idle
  BY OthersStay
<1>2. EndInv(t)
  BY DEF UploadInv, SessInv
<1>3. ASSUME NEW d \in Clients, Works(d, t)'
      PROVE  /\ up'[d].pc \in {"unlink", "forget"} => ~x.mapped
             /\ Shape(up'[d])
  BY <1>1, <1>2, <1>3 DEF EndInv
<1>4. Owed(c, t, u, LAMBDA v : v.pc = "record") =>
         \E d \in Clients : Works(d, t)' /\ up'[d].pc = "record"
  BY <1>1 DEF Owed
<1>5. Owed(c, t, u, Unlinks) => \E d \in Clients : Works(d, t)' /\ Unlinks(up'[d])
  BY <1>1 DEF Owed
<1>6. Owed(c, t, u, Forgets) => \E d \in Clients : Works(d, t)' /\ Forgets(up'[d])
  BY <1>1 DEF Owed
<1> QED BY <1>1, <1>3, <1>4, <1>5, <1>6 DEF EndInv

\* What a session is owed that the task which steps did not owe.
LEMMA EndHeld ==
    ASSUME UploadInv, NEW c \in Clients, NEW t \in Sessions, Works(c, t), NEW u
    PROVE  LET s == sess[t] IN
           /\ up[c].pc \in {"unlink", "forget"} => ~s.mapped
           /\ Shape(up[c])
           /\ s.used
           /\ ~s.hurt /\ s.mapped => s.linked
           /\ ~s.hurt /\ s.mapped /\ up[c].pc # "record" =>
                 s.record = s.size \/ Owed(c, t, u, LAMBDA v : v.pc = "record")
           /\ ~s.hurt /\ ~s.mapped /\ s.linked /\ ~Unlinks(up[c]) => Owed(c, t, u, Unlinks)
           /\ ~s.hurt /\ ~s.mapped /\ s.record # NoRow /\ ~Forgets(up[c]) => Owed(c, t, u, Forgets)
<1>1. EndInv(t) /\ LockInv(t)
  BY DEF UploadInv, SessInv
<1> QED BY <1>1 DEF EndInv, LockInv, Owed

\* A task goes on as the same request.
Same(v, u) ==
    v.op = u.op /\ v.sid = u.sid /\ v.start = u.start /\ v.met = u.met /\ v.at = u.at
    /\ v.chunk = u.chunk /\ v.digest = u.digest

\* A step that does not touch the file.
LEMMA Aside ==
    ASSUME UploadInv, NEW c \in Clients, NEW t \in Sessions,
           NEW x \in Session, NEW u \in Task \cup {Idle}, Stepped(c, t, x, u),
           x.data = sess[t].data, x.counted = sess[t].counted, x.pos = sess[t].pos,
           x.size = sess[t].size, x.torn = sess[t].torn, x.spilt = sess[t].spilt, x.holder = sess[t].holder,
           x.used = sess[t].used, x.record \in {sess[t].record, NoRow},
           ~Locked(up[c]),
           \/ u = Idle
           \/ /\ Same(u, up[c]) /\ ~Locked(u) /\ (u.ok => up[c].ok)
              /\ u.pc = "lock" => u.start \in {Unknown, x.size}
              /\ u.pc \notin {"check", "lock"} /\ u.ok /\ u.op \in {"patch", "put"} =>
                     up[c].pc \notin {"check", "lock"},
           uploads' \in Nat, EndInv(t)'
    PROVE  UploadInv'
<1>1. SessInv(t)
  BY DEF UploadInv
<1>2. x.holder # c
  BY <1>1 DEF SessInv, LockInv
<1>3. up[c].sid = t /\ Works(c, t)
  BY DEF Stepped, Works
<1>4. LockInv(t)'
  BY <1>2, <1>3, LockKept DEF Same
<1>5. FileInv(t)'
  BY <1>2, FileKept
<1>6. PlaceInv(t)'
  <2>1. u # Idle /\ u.op \in {"patch", "put"} /\ u.start # Unknown /\ ~u.met /\ ~x.torn /\ ~x.spilt =>
              /\ u.pc = "lock" => u.start = x.size
              /\ u.pc \notin {"check", "lock"} /\ u.ok => u.at = u.start
    BY <1>1, <1>3 DEF SessInv, PlaceInv, Same
  <2> QED BY <1>3, <2>1, PlaceKept DEF Same
<1>7. SessInv(t)'
  BY <1>4, <1>5, <1>6 DEF SessInv
<1> QED BY <1>3, <1>7, OneSession DEF Same

LEMMA CheckStep == ASSUME UploadInv, NEW c \in Clients, CheckUpload(c) PROVE UploadInv'
<1> PICK t \in Sessions : up[c].sid = t
  BY TaskType DEF UploadInv, CheckUpload, On
<1> DEFINE s == sess[t]
           wrong == up[c].start # Unknown /\ up[c].start # s.size
           to == CASE up[c].op = "delete" -> "unlink" [] up[c].op = "status" -> "done"
                   [] OTHER -> "lock"
           x == IF up[c].op = "delete" THEN [s EXCEPT !.mapped = FALSE] ELSE s
           u == IF ~s.mapped \/ wrong THEN [up[c] EXCEPT !.pc = "done", !.ok = FALSE]
                ELSE [up[c] EXCEPT !.pc = to]
<1>1. /\ up[c] # Idle /\ up[c].pc = "check" /\ up[c] \in Task /\ s \in Session
      /\ Set(c, x) /\ Next1(c, u) /\ uploads' = uploads /\ uploads \in Nat
  BY TaskType, SessType DEF UploadInv, UploadTypeOK, CheckUpload, On, Sess, Fail, Quiet
<1>2. /\ x \in Session /\ x.used = s.used /\ x.linked = s.linked /\ x.data = s.data
      /\ x.counted = s.counted /\ x.pos = s.pos /\ x.size = s.size /\ x.torn = s.torn /\ x.spilt = s.spilt
      /\ x.holder = s.holder /\ x.record = s.record /\ x.hurt = s.hurt
      /\ x.mapped = (s.mapped /\ up[c].op # "delete")
  BY <1>1 DEF Session
<1>3. to \in UploadPcs /\ to \in {"unlink", "done", "lock"}
  <2> DEFINE op == up[c].op
  <2>1. to = IF op = "delete" THEN "unlink" ELSE IF op = "status" THEN "done" ELSE "lock"
    OBVIOUS
  <2> HIDE DEF to, op
  <2> QED BY <2>1 DEF UploadPcs
<1>4. /\ u \in Task /\ Same(u, up[c]) /\ (u.ok => up[c].ok)
      /\ u.pc = IF ~s.mapped \/ wrong THEN "done" ELSE to
      /\ ~s.mapped \/ wrong => ~u.ok
  BY <1>1, <1>3 DEF Task, Same, UploadPcs
<1>5. Stepped(c, t, x, u)
  <2> HIDE DEF x, u
  <2> QED BY <1>1, <1>2, <1>4, StepSets DEF UploadInv
<1>6. SessInv(t)
  BY DEF UploadInv
<1>7. EndInv(t)'
  <2>1. Works(c, t) /\ u # Idle
    BY <1>1, <1>4, UploadsAssumption DEF Works
  <2>2. /\ Shape(u)
        /\ u.pc \in {"unlink", "forget"} => ~x.mapped
        /\ s.mapped /\ ~x.mapped => u.pc = "unlink" /\ u.op = "delete"
    <3>1. Shape(up[c])
      BY <2>1, EndHeld
    <3> QED BY <1>1, <1>2, <1>4, <3>1 DEF Same, Shape
  <2>3. /\ x.mapped => x.linked \/ x.hurt
        /\ ~x.hurt /\ x.mapped => x.record = x.size \/ Owed(c, t, u, LAMBDA v : v.pc = "record")
    BY <1>1, <1>2, <2>1, EndHeld
  <2>4. ~x.hurt /\ ~x.mapped =>
           /\ x.linked => Owed(c, t, u, Unlinks)
           /\ x.record # NoRow => Owed(c, t, u, Forgets)
    <3>1. CASE s.mapped
      BY <2>1, <2>2, <3>1 DEF Owed, Unlinks, Forgets
    <3>2. CASE ~s.mapped
      <4>1. ~Unlinks(up[c]) /\ ~Forgets(up[c])
        BY <1>1 DEF Unlinks, Forgets
      <4> QED BY <1>2, <2>1, <3>2, <4>1, EndHeld
    <3> QED BY <3>1, <3>2
  <2>5. u.sid = t
    BY <1>4 DEF Same
  <2> HIDE DEF x, u, to, wrong
  <2> QED BY <1>2, <1>4, <1>5, <2>2, <2>3, <2>4, <2>5, EndKept
<1>8. /\ ~Locked(up[c]) /\ ~Locked(u)
      /\ u.pc = "lock" => u.start \in {Unknown, x.size}
      /\ u.pc \notin {"check", "lock"} /\ u.ok => u.op \notin {"patch", "put"}
  BY <1>1, <1>2, <1>4 DEF Locked, Same
<1> HIDE DEF x, u
<1> QED BY <1>1, <1>2, <1>4, <1>5, <1>7, <1>8, Aside

LEMMA StoreStep == ASSUME UploadInv, NEW c \in Clients, StoreUpload(c) PROVE UploadInv'
<1> PICK t \in Sessions : up[c].sid = t
  BY TaskType DEF UploadInv, StoreUpload, On
<1> PICK ok \in BOOLEAN :
       /\ Next1(c, IF ok THEN [up[c] EXCEPT !.pc = "forget"] ELSE Fail(up[c]))
       /\ Set(c, [Sess(c) EXCEPT !.mapped = @ /\ ~ok])
  BY DEF StoreUpload
<1> DEFINE s == sess[t]
           x == [s EXCEPT !.mapped = @ /\ ~ok]
           u == IF ok THEN [up[c] EXCEPT !.pc = "forget"]
                ELSE [up[c] EXCEPT !.pc = "done", !.ok = FALSE]
<1>1. /\ up[c] # Idle /\ up[c].pc = "store" /\ up[c] \in Task /\ s \in Session
      /\ Set(c, x) /\ Next1(c, u) /\ uploads' = uploads /\ uploads \in Nat
  BY TaskType, SessType DEF UploadInv, UploadTypeOK, StoreUpload, On, Sess, Fail, Quiet
<1>2. /\ x \in Session /\ x.used = s.used /\ x.linked = s.linked /\ x.data = s.data
      /\ x.counted = s.counted /\ x.pos = s.pos /\ x.size = s.size /\ x.torn = s.torn /\ x.spilt = s.spilt
      /\ x.holder = s.holder /\ x.record = s.record /\ x.hurt = s.hurt
      /\ x.mapped = (s.mapped /\ ~ok)
  BY <1>1 DEF Session
<1>3. /\ u \in Task /\ Same(u, up[c]) /\ (u.ok => up[c].ok)
      /\ u.pc = IF ok THEN "forget" ELSE "done"
  BY <1>1 DEF Task, Same, UploadPcs
<1>8. ok => u.ok = up[c].ok
  BY <1>1 DEF Task
<1>4. Works(c, t) /\ u # Idle /\ u.sid = t
  BY <1>1, <1>3, UploadsAssumption DEF Works, Same
<1> HIDE DEF x, u
<1>5. Stepped(c, t, x, u)
  BY <1>1, <1>2, <1>3, StepSets DEF UploadInv
<1>6. EndInv(t)'
  <2>1. ~Unlinks(up[c]) /\ ~Forgets(up[c])
    BY <1>1 DEF Unlinks, Forgets
  <2>2. (u.pc \in {"unlink", "forget"} => ~x.mapped) /\ u.pc \in {"forget", "done"}
    BY <1>2, <1>3
  <2>3. Shape(u)
    BY <1>1, <1>3, <1>4, <1>8, EndHeld DEF Same, Shape
  <2>4. ~x.hurt /\ x.mapped =>
          x.linked /\ (x.record = x.size \/ Owed(c, t, u, LAMBDA v : v.pc = "record"))
    BY <1>1, <1>2, <1>4, EndHeld
  <2>5. ~x.hurt /\ ~x.mapped =>
           /\ x.linked => Owed(c, t, u, Unlinks)
           /\ x.record # NoRow => Owed(c, t, u, Forgets)
    <3>1. CASE s.mapped
      <4>1. up[c].op = "put" /\ up[c].ok
        BY <1>1, <1>4, EndHeld DEF Shape
      <4>2. ~x.mapped => u.op = "put" /\ u.ok /\ u.pc = "forget"
        BY <1>2, <1>3, <1>8, <3>1, <4>1 DEF Same
      <4> QED BY <1>4, <4>2 DEF Owed, Unlinks, Forgets
    <3>2. CASE ~s.mapped
      BY <1>2, <1>4, <2>1, <3>2, EndHeld
    <3> QED BY <3>1, <3>2
  <2> QED BY <1>2, <1>3, <1>4, <1>5, <2>2, <2>3, <2>4, <2>5, EndKept
<1>7. ~Locked(up[c]) /\ ~Locked(u) /\ u.pc # "lock"
  BY <1>1, <1>3 DEF Locked
<1> QED BY <1>1, <1>2, <1>3, <1>5, <1>6, <1>7, Aside

LEMMA ForgetStep == ASSUME UploadInv, NEW c \in Clients, ForgetRecord(c) PROVE UploadInv'
<1> PICK t \in Sessions : up[c].sid = t
  BY TaskType DEF UploadInv, ForgetRecord, On
<1> PICK ok \in BOOLEAN :
       Set(c, [Sess(c) EXCEPT !.record = IF ok THEN NoRow ELSE @, !.hurt = @ \/ ~ok])
  BY DEF ForgetRecord
<1> DEFINE s == sess[t]
           x == [s EXCEPT !.record = IF ok THEN NoRow ELSE @, !.hurt = @ \/ ~ok]
           u == [up[c] EXCEPT !.pc = IF up[c].op = "put" /\ up[c].ok THEN "unlink" ELSE "done"]
<1>1. /\ up[c] # Idle /\ up[c].pc = "forget" /\ up[c] \in Task /\ s \in Session
      /\ Set(c, x) /\ Next1(c, u) /\ uploads' = uploads /\ uploads \in Nat
  BY TaskType, SessType DEF UploadInv, UploadTypeOK, ForgetRecord, On, Sess, Quiet
<1>2. /\ x \in Session /\ x.used = s.used /\ x.linked = s.linked /\ x.data = s.data
      /\ x.counted = s.counted /\ x.pos = s.pos /\ x.size = s.size /\ x.torn = s.torn /\ x.spilt = s.spilt
      /\ x.holder = s.holder /\ x.record \in {s.record, NoRow}
      /\ x.mapped = s.mapped /\ (~x.hurt => ~s.hurt /\ x.record = NoRow)
  BY <1>1 DEF Session
<1>3. /\ u \in Task /\ Same(u, up[c]) /\ u.ok = up[c].ok
      /\ u.pc = IF up[c].op = "put" /\ up[c].ok THEN "unlink" ELSE "done"
  BY <1>1 DEF Task, Same, UploadPcs
<1>4. Works(c, t) /\ u # Idle /\ u.sid = t
  BY <1>1, <1>3, UploadsAssumption DEF Works, Same
<1> HIDE DEF x, u
<1>5. Stepped(c, t, x, u)
  BY <1>1, <1>2, <1>3, StepSets DEF UploadInv
<1>6. EndInv(t)'
  <2>1. ~s.mapped /\ Shape(u) /\ u.pc \in {"unlink", "done"}
    BY <1>1, <1>3, <1>4, EndHeld DEF Same, Shape
  <2>2. ~x.hurt /\ x.linked => Owed(c, t, u, Unlinks)
    <3>1. CASE up[c].op = "put" /\ up[c].ok
      BY <1>3, <1>4, <3>1 DEF Owed, Unlinks
    <3>2. CASE ~(up[c].op = "put" /\ up[c].ok)
      <4>1. ~Unlinks(up[c])
        BY <1>1, <3>2 DEF Unlinks
      <4> QED BY <1>2, <1>4, <2>1, <4>1, EndHeld
    <3> QED BY <3>1, <3>2
  <2> QED BY <1>2, <1>3, <1>4, <1>5, <2>1, <2>2, EndKept
<1>7. ~Locked(up[c]) /\ ~Locked(u) /\ u.pc # "lock"
  BY <1>1, <1>3 DEF Locked
<1> QED BY <1>1, <1>2, <1>3, <1>5, <1>6, <1>7, Aside

LEMMA UnlinkStep == ASSUME UploadInv, NEW c \in Clients, UnlinkFile(c) PROVE UploadInv'
<1> PICK t \in Sessions : up[c].sid = t
  BY TaskType DEF UploadInv, UnlinkFile, On
<1> DEFINE s == sess[t]
           x == [s EXCEPT !.linked = FALSE]
           u == [up[c] EXCEPT !.pc = IF up[c].op = "put" /\ up[c].ok THEN "done" ELSE "forget"]
<1>1. /\ up[c] # Idle /\ up[c].pc = "unlink" /\ up[c] \in Task /\ s \in Session
      /\ Set(c, x) /\ Next1(c, u) /\ uploads' = uploads /\ uploads \in Nat
  BY TaskType, SessType DEF UploadInv, UploadTypeOK, UnlinkFile, On, Sess, Quiet
<1>2. /\ x \in Session /\ x.used = s.used /\ x.linked = FALSE /\ x.data = s.data
      /\ x.counted = s.counted /\ x.pos = s.pos /\ x.size = s.size /\ x.torn = s.torn /\ x.spilt = s.spilt
      /\ x.holder = s.holder /\ x.record = s.record /\ x.mapped = s.mapped /\ x.hurt = s.hurt
  BY <1>1 DEF Session
<1>3. /\ u \in Task /\ Same(u, up[c]) /\ u.ok = up[c].ok
      /\ u.pc = IF up[c].op = "put" /\ up[c].ok THEN "done" ELSE "forget"
  BY <1>1 DEF Task, Same, UploadPcs
<1>4. Works(c, t) /\ u # Idle /\ u.sid = t
  BY <1>1, <1>3, UploadsAssumption DEF Works, Same
<1> HIDE DEF x, u
<1>5. Stepped(c, t, x, u)
  BY <1>1, <1>2, <1>3, StepSets DEF UploadInv
<1>6. EndInv(t)'
  <2>1. ~s.mapped /\ Shape(u) /\ u.pc \in {"forget", "done"}
    BY <1>1, <1>3, <1>4, EndHeld DEF Same, Shape
  <2>2. ~x.hurt /\ x.record # NoRow => Owed(c, t, u, Forgets)
    <3>1. CASE up[c].op = "put" /\ up[c].ok
      <4>1. ~Forgets(up[c])
        BY <1>1, <3>1 DEF Forgets
      <4> QED BY <1>2, <1>4, <2>1, <4>1, EndHeld
    <3>2. CASE ~(up[c].op = "put" /\ up[c].ok)
      BY <1>3, <1>4, <3>2 DEF Owed, Forgets
    <3> QED BY <3>1, <3>2
  <2> QED BY <1>2, <1>3, <1>4, <1>5, <2>1, <2>2, EndKept
<1>7. ~Locked(up[c]) /\ ~Locked(u) /\ u.pc # "lock"
  BY <1>1, <1>3 DEF Locked
<1> QED BY <1>1, <1>2, <1>3, <1>5, <1>6, <1>7, Aside

LEMMA ReplyStep == ASSUME UploadInv, NEW c \in Clients, ReplyUpload(c) PROVE UploadInv'
<1> PICK t \in Sessions : up[c].sid = t
  BY TaskType DEF UploadInv, ReplyUpload, On
<1> DEFINE x == sess[t]
<1>1. /\ up[c] # Idle /\ up[c].pc = "done" /\ x \in Session /\ Works(c, t)
      /\ sess' = sess /\ Next1(c, Idle) /\ uploads' = uploads /\ uploads \in Nat
  BY SessType DEF UploadInv, UploadTypeOK, ReplyUpload, On, Quiet, Works
<1>2. Stepped(c, t, x, Idle)
  BY <1>1 DEF UploadInv, UploadTypeOK, Stepped, Next1
<1>3. ~Unlinks(up[c]) /\ ~Forgets(up[c]) /\ ~Locked(up[c]) /\ up[c].pc # "record"
  BY <1>1 DEF Unlinks, Forgets, Locked
<1>4. EndInv(t)'
  BY <1>1, <1>2, <1>3, EndHeld, EndKept
<1> QED BY <1>1, <1>2, <1>3, <1>4, Aside
-----------------------------------------------------------------------------
(* Chunks in a file. *)

LEMMA ChunkSeq ==
    ASSUME UploadTypeOK, NEW c \in Clients, up[c] # Idle
    PROVE  up[c].chunk \in Seq(1..Chunks) /\ Len(up[c].chunk) \in Nat
<1>1. up[c].chunk \in {<<>>} \cup {<<k>> : k \in 1..Chunks}
  BY TaskType
<1>2. <<>> \in Seq(1..Chunks) /\ \A k \in 1..Chunks : <<k>> \in Seq(1..Chunks)
  OBVIOUS
<1>3. up[c].chunk \in Seq(1..Chunks)
  BY <1>1, <1>2
<1> QED BY <1>3, LenProperties

LEMMA Written ==
    ASSUME NEW data \in Seq(1..Chunks), NEW chunk \in Seq(1..Chunks), NEW pos \in 0..Len(data)
    PROVE  LET n == Len(chunk)
               new == SubSeq(data, 1, pos) \o chunk \o SubSeq(data, pos + n + 1, Len(data))
           IN  /\ new \in Seq(1..Chunks) /\ pos + n <= Len(new)
               /\ new = <<>> => data = <<>>
               /\ pos = Len(data) => new = data \o chunk /\ Len(new) = Len(data) + n
<1> DEFINE n == Len(chunk)
           before == SubSeq(data, 1, pos)
           after == SubSeq(data, pos + n + 1, Len(data))
           new == before \o chunk \o after
<1>1. n \in Nat /\ Len(data) \in Nat /\ pos \in Nat /\ pos <= Len(data)
      /\ \A i \in 1..Len(data) : data[i] \in 1..Chunks
  <2>1. n \in Nat /\ Len(data) \in Nat
    BY LenProperties
  <2>2. pos \in Nat /\ pos <= Len(data)
    BY <2>1
  <2>3. \A i \in 1..Len(data) : data[i] \in 1..Chunks
    BY ElementOfSeq
  <2> QED BY <2>1, <2>2, <2>3
<1>2. before \in Seq(1..Chunks) /\ Len(before) = pos
  <2>1. \A i \in 1..pos : data[i] \in 1..Chunks
    BY <1>1
  <2> QED BY <1>1, <2>1, SubSeqProperties
<1>3. after \in Seq(1..Chunks) /\ Len(after) = IF pos + n + 1 <= Len(data) THEN Len(data) - pos - n ELSE 0
  <2>1. \A i \in (pos + n + 1)..Len(data) : data[i] \in 1..Chunks
    BY <1>1
  <2>2. pos + n + 1 \in Int /\ Len(data) \in Int
    BY <1>1
  <2>3. Len(data) - (pos + n + 1) + 1 = Len(data) - pos - n
    BY <1>1
  <2> HIDE DEF n
  <2> QED BY <2>1, <2>2, <2>3, SubSeqProperties
<1>4. before \o chunk \in Seq(1..Chunks) /\ Len(before \o chunk) = pos + n
  BY <1>2, ConcatProperties
<1>5. new \in Seq(1..Chunks) /\ Len(new) = pos + n + Len(after) /\ Len(after) \in Nat
  <2> HIDE DEF before, after, n
  <2> QED BY <1>3, <1>4, ConcatProperties, LenProperties
<1>6. new = <<>> => data = <<>>
  <2> HIDE DEF new, after, n
  <2>1. new = <<>> => Len(new) = 0
    BY EmptySeq
  <2>2. Len(new) = 0 => Len(data) = 0
    <3>1. Len(new) = 0 => pos = 0 /\ n = 0 /\ Len(after) = 0
      <4> DEFINE a == Len(after)
                 m == Len(new)
      <4>1. n \in Nat /\ pos \in Nat /\ a \in Nat /\ m = pos + n + a
        BY <1>1, <1>5
      <4>2. m = 0 => pos = 0 /\ n = 0 /\ a = 0
        <5> HIDE DEF a, m
        <5> QED BY <4>1
      <4> QED BY <4>2
    <3>2. Len(after) = IF pos + n + 1 <= Len(data) THEN Len(data) - pos - n ELSE 0
      BY <1>3
    <3>3. pos = 0 /\ n = 0 /\ Len(after) = 0 => Len(data) = 0
      <4> DEFINE a == Len(after)
                 l == Len(data)
      <4>1. a = IF pos + n + 1 <= l THEN l - pos - n ELSE 0
        BY <3>2
      <4>2. l \in Nat
        BY <1>1
      <4>3. pos = 0 /\ n = 0 /\ a = 0 => l = 0
        <5> HIDE DEF a, l
        <5> QED BY <4>1, <4>2
      <4> QED BY <4>3
    <3> QED BY <3>1, <3>3
  <2> QED BY <2>1, <2>2, EmptySeq
<1>7. pos = Len(data) => new = data \o chunk
  <2> SUFFICES ASSUME pos = Len(data) PROVE new = data \o chunk
    OBVIOUS
  <2>1. after = <<>>
    <3>1. Len(after) = 0
      BY <1>1, <1>3
    <3> QED BY <1>3, <3>1, EmptySeq
  <2>2. before = data
    BY <1>1, <1>2, SubSeqFull
  <2>3. data \o chunk \in Seq(1..Chunks)
    BY ConcatProperties
  <2> QED BY <2>1, <2>2, <2>3, ConcatEmptySeq
<1>8. pos + n <= Len(new) /\ (pos = Len(data) => Len(new) = Len(data) + n)
  <2> HIDE DEF new, after, n
  <2>1. pos = Len(data) => Len(after) = 0
    BY <1>1, <1>3
  <2>2. pos + n <= Len(new)
    BY <1>1, <1>5
  <2>3. pos = Len(data) => Len(new) = Len(data) + n
    BY <1>1, <1>5, <2>1
  <2> QED BY <2>2, <2>3
<1> QED BY <1>5, <1>6, <1>7, <1>8

-----------------------------------------------------------------------------
(* The steps that hold the lock. *)

\* The file after a step, when nobody else has its lock.
LEMMA FileOfHolder ==
    ASSUME NEW c \in Clients, NEW t \in Sessions,
           NEW x \in Session, NEW u \in Task \cup {Idle}, Stepped(c, t, x, u),
           x.holder \in {c, Idle}, x.pos <= Len(x.data),
           ~x.torn => /\ x.data = <<>> => x.record \in {0, NoRow}
                      /\ x.size = Len(x.counted)
                      /\ x.holder = Idle => AtRest(x)
                      /\ x.holder = c => Part(x, u)
    PROVE  FileInv(t)'
<1>1. sess'[t] = x /\ up'[c] = u /\ Idle \notin Clients
  BY UploadsAssumption DEF Stepped
<1> QED BY <1>1 DEF FileInv

\* A session that a step leaves in the map, or out of it, as it was.
LEMMA EndAside ==
    ASSUME UploadInv, NEW c \in Clients, NEW t \in Sessions,
           NEW x \in Session, NEW u \in Task, Stepped(c, t, x, u),
           u.op = up[c].op, u.start = up[c].start, u.sid = t, x.used = sess[t].used, x.mapped = sess[t].mapped, x.linked = sess[t].linked,
           x.record = sess[t].record, x.hurt = sess[t].hurt,
           up[c].pc \in {"lock", "bump", "seek"}, u.pc = "record" \/ x.size = sess[t].size,
           u.pc \in {"bump", "record", "read"}, u.ok = up[c].ok, u.pc = "read" => u.op = "put"
    PROVE  EndInv(t)'
<1>1. Works(c, t) /\ u # Idle
  BY UploadsAssumption DEF Stepped, Works
<1>2. ~Unlinks(up[c]) /\ ~Forgets(up[c])
  BY DEF Unlinks, Forgets
<1>3. Shape(u)
  <2>1. Shape(up[c])
    BY <1>1, EndHeld
  <2> QED BY <2>1 DEF Shape
<1>4. ~x.hurt /\ x.mapped =>
        x.linked /\ (x.record = x.size \/ Owed(c, t, u, LAMBDA v : v.pc = "record"))
  <2>1. CASE u.pc = "record"
    BY <1>1, <2>1, EndHeld DEF Owed
  <2>2. CASE x.size = sess[t].size
    BY <1>1, <2>2, EndHeld
  <2> QED BY <2>1, <2>2
<1>5. ~x.hurt /\ ~x.mapped => /\ x.linked => Owed(c, t, u, Unlinks)
                              /\ x.record # NoRow => Owed(c, t, u, Forgets)
  BY <1>1, <1>2, EndHeld
<1> QED BY <1>1, <1>3, <1>4, <1>5, EndKept

LEMMA WriteStep == ASSUME UploadInv, NEW c \in Clients, WriteChunk(c) PROVE UploadInv'
<1> PICK t \in Sessions : up[c].sid = t
  BY TaskType DEF UploadInv, WriteChunk, On
<1> PICK ok \in BOOLEAN, part \in {<<>>, up[c].chunk} :
       /\ ok => part = up[c].chunk
       /\ Set(c, [Sess(c) EXCEPT !.holder = IF ok THEN c ELSE Idle, !.pos = @ + Len(part),
                                 !.data = SubSeq(@, 1, Sess(c).pos) \o part
                                          \o SubSeq(@, Sess(c).pos + Len(part) + 1, Len(@)),
                                 !.spilt = @ \/ (~ok /\ part # <<>>)])
       /\ Next1(c, IF ok THEN [up[c] EXCEPT !.pc = "bump", !.at = Sess(c).pos]
                   ELSE IF up[c].op = "put" /\ up[c].start = Unknown /\ Sess(c).mapped
                        THEN [up[c] EXCEPT !.pc = "seek"] ELSE Fail(up[c]))
  BY DEF WriteChunk
<1> DEFINE s == sess[t]
           n == Len(part)
           new == SubSeq(s.data, 1, s.pos) \o part \o SubSeq(s.data, s.pos + n + 1, Len(s.data))
           spill == s.spilt \/ (~ok /\ part # <<>>)
           who == IF ok THEN c ELSE Idle
           x == [s EXCEPT !.holder = who, !.pos = s.pos + n, !.data = new, !.spilt = spill]
           u == IF ok THEN [up[c] EXCEPT !.pc = "bump", !.at = s.pos]
                ELSE IF up[c].op = "put" /\ up[c].start = Unknown /\ s.mapped
                     THEN [up[c] EXCEPT !.pc = "seek"]
                     ELSE [up[c] EXCEPT !.pc = "done", !.ok = FALSE]
<1>1. /\ up[c] # Idle /\ up[c].pc = "lock" /\ up[c] \in Task /\ s \in Session
      /\ s.holder = Idle /\ uploads' = uploads /\ uploads \in Nat
      /\ s.data \in Seq(1..Chunks) /\ s.pos \in Nat /\ s.size \in Nat
  BY TaskType, SessType DEF UploadInv, UploadTypeOK, WriteChunk, On, Free, Sess, Quiet
<1>2. Set(c, x) /\ Next1(c, u)
  <2>1. Sess(c) = s
    BY DEF Sess
  <2>2. Set(c, [s EXCEPT !.holder = who, !.pos = @ + n,
                         !.data = SubSeq(@, 1, s.pos) \o part \o SubSeq(@, s.pos + n + 1, Len(@)),
                         !.spilt = @ \/ (~ok /\ part # <<>>)])
    BY <2>1
  <2> QED BY <1>1, <2>1, <2>2 DEF Fail, Session
<1>3. FileInv(t) /\ PlaceInv(t) /\ Works(c, t)
  BY <1>1 DEF UploadInv, SessInv, Works
<1>4. part \in Seq(1..Chunks) /\ n \in Nat /\ Len(s.data) \in Nat /\ s.pos \in 0..Len(s.data)
  <2>1. Len(s.data) \in Nat
    BY <1>1, LenProperties
  <2>2. <<>> \in Seq(1..Chunks) /\ Len(<<>>) = 0
    OBVIOUS
  <2>3. part \in Seq(1..Chunks) /\ Len(part) \in Nat
    BY <1>1, <2>2, ChunkSeq DEF UploadInv
  <2> QED BY <1>1, <1>3, <2>1, <2>3 DEF FileInv
<1>5. /\ new \in Seq(1..Chunks) /\ s.pos + n <= Len(new)
      /\ new = <<>> => s.data = <<>>
      /\ s.pos = Len(s.data) => new = s.data \o part /\ Len(new) = Len(s.data) + n
  <2> DEFINE data == s.data
             pos  == s.pos
  <2>1. data \in Seq(1..Chunks) /\ part \in Seq(1..Chunks) /\ pos \in 0..Len(data)
    BY <1>1, <1>4
  <2> HIDE DEF s, data, pos
  <2> DEFINE m == Len(part)
             put == SubSeq(data, 1, pos) \o part \o SubSeq(data, pos + m + 1, Len(data))
  <2>2. /\ put \in Seq(1..Chunks) /\ pos + m <= Len(put)
        /\ put = <<>> => data = <<>>
        /\ pos = Len(data) => put = data \o part /\ Len(put) = Len(data) + m
    BY <2>1, Written
  <2>3. put = new /\ m = n
    BY DEF data, pos
  <2> HIDE DEF put, new, m, n
  <2> QED BY <2>2, <2>3 DEF data, pos
<1>14. spill \in BOOLEAN /\ who \in Clients \cup {Idle}
  OBVIOUS
<1>15. ~spill => ~s.spilt /\ (~ok => part = <<>>)
  OBVIOUS
<1>16. who = IF ok THEN c ELSE Idle
  OBVIOUS
<1> HIDE DEF new, n, spill, who
<1>6. /\ x \in Session /\ x.used = s.used /\ x.linked = s.linked /\ x.data = new
      /\ x.counted = s.counted /\ x.pos = s.pos + n /\ x.size = s.size /\ x.torn = s.torn
      /\ x.holder = who /\ x.record = s.record /\ x.mapped = s.mapped /\ x.hurt = s.hurt
      /\ x.spilt = spill
  <2>1. s.pos + n \in Nat
    BY <1>1, <1>4
  <2>2. s \in Session /\ new \in Seq(1..Chunks)
    BY <1>1, <1>5
  <2> HIDE DEF s
  <2> DEFINE pos == s.pos + n
  <2>3. pos \in Nat
    BY <2>1
  <2> HIDE DEF pos
  <2>4. LET y == [s EXCEPT !.holder = who, !.pos = pos, !.data = new, !.spilt = spill] IN
           /\ y \in Session /\ y.used = s.used /\ y.linked = s.linked /\ y.data = new
           /\ y.counted = s.counted /\ y.pos = pos /\ y.size = s.size /\ y.torn = s.torn
           /\ y.holder = who /\ y.record = s.record /\ y.mapped = s.mapped /\ y.hurt = s.hurt
           /\ y.spilt = spill
    BY <1>14, <2>2, <2>3 DEF Session
  <2> QED BY <2>4 DEF pos
<1>7. /\ u \in Task /\ u.op = up[c].op /\ u.sid = t /\ u.start = up[c].start
      /\ u.met = up[c].met /\ u.chunk = up[c].chunk /\ (u.ok => up[c].ok)
      /\ ok => u.ok = up[c].ok /\ u.pc = "bump" /\ u.at = s.pos /\ part = up[c].chunk
      /\ ~ok => \/ u.pc = "seek" /\ u.op = "put" /\ u.start = Unknown /\ u.ok = up[c].ok
                \/ u.pc = "done" /\ ~u.ok
  BY <1>1 DEF Task, UploadPcs
<1> HIDE DEF x, u
<1>8. Stepped(c, t, x, u) /\ u # Idle /\ c # Idle
  BY <1>1, <1>2, <1>6, <1>7, StepSets, UploadsAssumption DEF UploadInv
<1>9. ~s.torn => /\ AtRest(s) /\ s.size = Len(s.counted)
                 /\ s.data = <<>> => s.record \in {0, NoRow}
  BY <1>1, <1>3 DEF FileInv
<1>10. FileInv(t)'
  <2>1. ~x.torn => (ok => Part(x, u)) /\ (~ok => AtRest(x))
    <3> SUFFICES ASSUME ~x.torn PROVE (ok => Part(x, u)) /\ (~ok => AtRest(x))
      OBVIOUS
    <3>1. s.pos = Len(s.data) /\ s.size <= Len(s.data) /\ (~s.spilt => s.data = s.counted)
      BY <1>6, <1>9 DEF AtRest
    <3>2. new = s.data \o part /\ Len(new) = Len(s.data) + n
      BY <1>5, <3>1
    <3>3. x.pos = Len(x.data) /\ x.size + n <= Len(x.data) /\ x.size <= Len(x.data)
      BY <1>1, <1>4, <1>6, <3>1, <3>2
    <3>4. ~x.spilt => x.data = x.counted \o part
      BY <1>6, <1>15, <3>1, <3>2
    <3>5. CASE ok
      BY <1>7, <3>3, <3>4, <3>5 DEF Part, n
    <3>6. CASE ~ok
      <4>1. ~x.spilt => x.data = x.counted
        <5>1. x.counted \in Seq(1..Chunks)
          BY <1>6 DEF Session
        <5> QED BY <1>6, <1>15, <3>4, <3>6, <5>1, ConcatEmptySeq
      <4> QED BY <3>3, <3>6, <4>1 DEF AtRest
    <3> QED BY <3>5, <3>6
  <2>2. x.pos <= Len(x.data)
    BY <1>5, <1>6
  <2>3. ~x.torn => /\ x.data = <<>> => x.record \in {0, NoRow}
                   /\ x.size = Len(x.counted)
    BY <1>5, <1>6, <1>9
  <2> QED BY <1>6, <1>7, <1>8, <1>16, <2>1, <2>2, <2>3, FileOfHolder
<1>11. LockInv(t)'
  BY <1>1, <1>6, <1>7, <1>8, <1>16, LockKept DEF Locked
<1>12. PlaceInv(t)'
  <2>1. u.op \in {"patch", "put"} /\ u.start # Unknown /\ ~u.met /\ ~x.torn /\ ~x.spilt =>
           /\ u.pc = "lock" => u.start = x.size
           /\ u.pc \notin {"check", "lock"} /\ u.ok => u.at = u.start
    <3> SUFFICES ASSUME u.op \in {"patch", "put"}, u.start # Unknown, ~u.met, ~x.torn, ~x.spilt, u.ok
                 PROVE  u.pc # "lock" /\ u.at = u.start
      BY <1>7
    <3>1. ok /\ u.pc = "bump" /\ u.at = s.pos
      BY <1>7
    <3>2. up[c].start = s.size
      BY <1>1, <1>3, <1>6, <1>7, <1>15 DEF PlaceInv
    <3>3. s.pos = s.size
      BY <1>6, <1>9, <1>15 DEF AtRest
    <3> QED BY <1>7, <3>1, <3>2, <3>3
  <2> QED BY <1>6, <1>7, <1>8, <2>1, PlaceKept
<1>13. EndInv(t)'
  <2>1. CASE ok
    BY <1>1, <1>6, <1>7, <1>8, <2>1, EndAside
  <2>2. CASE ~ok
    <3>1. ~Unlinks(up[c]) /\ ~Forgets(up[c]) /\ u.pc \in {"seek", "done"}
      BY <1>1, <1>7, <2>2 DEF Unlinks, Forgets
    <3>2. Shape(u)
      <4>1. Shape(up[c])
        BY <1>3, EndHeld
      <4> QED BY <1>1, <1>7, <2>2, <4>1 DEF Shape
    <3>3. ~x.hurt /\ x.mapped =>
            x.linked /\ (x.record = x.size \/ Owed(c, t, u, LAMBDA v : v.pc = "record"))
      BY <1>1, <1>3, <1>6, EndHeld
    <3>4. ~x.hurt /\ ~x.mapped => /\ x.linked => Owed(c, t, u, Unlinks)
                                  /\ x.record # NoRow => Owed(c, t, u, Forgets)
      BY <1>3, <1>6, <3>1, EndHeld
    <3> QED BY <1>6, <1>7, <1>8, <3>1, <3>2, <3>3, <3>4, EndKept
  <2> QED BY <2>1, <2>2
<1> QED BY <1>1, <1>6, <1>7, <1>8, <1>10, <1>11, <1>12, <1>13, OneSession DEF SessInv

LEMMA BumpStep == ASSUME UploadInv, NEW c \in Clients, BumpSize(c) PROVE UploadInv'
<1> PICK t \in Sessions : up[c].sid = t
  BY TaskType DEF UploadInv, BumpSize, On
<1> DEFINE s == sess[t]
           chunk == up[c].chunk
           n == Len(chunk)
           more == s.counted \o chunk
           x == [s EXCEPT !.size = s.size + n, !.counted = more]
           u == [up[c] EXCEPT !.pc = "record"]
<1>1. /\ up[c] # Idle /\ up[c].pc = "bump" /\ up[c] \in Task /\ s \in Session
      /\ uploads' = uploads /\ uploads \in Nat
      /\ s.counted \in Seq(1..Chunks) /\ s.size \in Nat
  BY TaskType, SessType DEF UploadInv, UploadTypeOK, BumpSize, On, Sess, Quiet
<1>2. Set(c, x) /\ Next1(c, u)
  BY <1>1 DEF BumpSize, Sess, Session
<1>3. FileInv(t) /\ PlaceInv(t) /\ LockInv(t) /\ Works(c, t)
  BY <1>1 DEF UploadInv, SessInv, Works
<1>4. chunk \in Seq(1..Chunks) /\ n \in Nat /\ more \in Seq(1..Chunks)
  BY <1>1, ChunkSeq, ConcatProperties DEF UploadInv
<1> HIDE DEF more, n
<1>5. /\ x \in Session /\ x.used = s.used /\ x.linked = s.linked /\ x.data = s.data
      /\ x.counted = more /\ x.pos = s.pos /\ x.size = s.size + n /\ x.torn = s.torn /\ x.spilt = s.spilt
      /\ x.holder = s.holder /\ x.record = s.record /\ x.mapped = s.mapped /\ x.hurt = s.hurt
  <2>1. s.size + n \in Nat
    BY <1>1, <1>4
  <2> QED BY <1>1, <1>4, <2>1 DEF Session
<1>6. /\ u \in Task /\ u.ok = up[c].ok /\ u.pc = "record" /\ u.at = up[c].at /\ u.op = up[c].op
      /\ u.sid = t /\ u.start = up[c].start /\ u.met = up[c].met
  BY <1>1 DEF Task, UploadPcs
<1> HIDE DEF x, u
<1>7. Stepped(c, t, x, u) /\ u # Idle
  BY <1>1, <1>2, <1>5, <1>6, StepSets, UploadsAssumption DEF UploadInv
<1>8. s.holder = c /\ c # Idle
  BY <1>1, <1>3, UploadsAssumption DEF LockInv, Locked
<1>9. s.pos <= Len(s.data)
      /\ (~s.torn => /\ Part(s, up[c]) /\ s.size = Len(s.counted)
                     /\ s.data = <<>> => s.record \in {0, NoRow})
  BY <1>3, <1>8 DEF FileInv
<1>10. FileInv(t)'
  <2>1. ~x.torn => Part(x, u)
    BY <1>1, <1>5, <1>6, <1>9 DEF Part, AtRest, more, n
  <2>2. ~x.torn => x.size = Len(x.counted)
    <3> DEFINE a == s.counted
    <3>1. a \in Seq(1..Chunks) /\ chunk \in Seq(1..Chunks)
      BY <1>1, <1>4
    <3> HIDE DEF a, chunk
    <3>2. Len(a \o chunk) = Len(a) + Len(chunk)
      BY <3>1, ConcatProperties
    <3> QED BY <1>5, <1>9, <3>2 DEF a, chunk, more, n
  <2> QED BY <2>2, <1>5, <1>6, <1>7, <1>8, <1>9, <2>1, FileOfHolder
<1>11. LockInv(t)'
  <2>1. u.op # "start"
    BY <1>1, <1>3, <1>6, EndHeld DEF Shape
  <2> QED BY <1>1, <1>5, <1>6, <1>7, <1>8, <2>1, LockKept DEF Locked
<1>12. PlaceInv(t)'
  <2>1. u.op \in {"patch", "put"} /\ u.start # Unknown /\ ~u.met /\ ~x.torn /\ ~x.spilt /\ u.ok => u.at = u.start
    BY <1>1, <1>3, <1>5, <1>6 DEF PlaceInv
  <2> QED BY <1>5, <1>6, <1>7, <2>1, PlaceKept
<1>13. EndInv(t)'
  BY <1>1, <1>5, <1>6, <1>7, EndAside
<1> QED BY <1>1, <1>5, <1>6, <1>7, <1>10, <1>11, <1>12, <1>13, OneSession DEF SessInv

LEMMA SeekStep == ASSUME UploadInv, NEW c \in Clients, SeekStart(c) PROVE UploadInv'
<1> PICK t \in Sessions : up[c].sid = t
  BY TaskType DEF UploadInv, SeekStart, On
<1> DEFINE s == sess[t]
           x == [s EXCEPT !.holder = c, !.pos = 0]
           u == [up[c] EXCEPT !.pc = "read"]
<1>1. /\ up[c] # Idle /\ up[c].pc = "seek" /\ up[c] \in Task /\ s \in Session
      /\ s.holder = Idle /\ uploads' = uploads /\ uploads \in Nat
      /\ s.data \in Seq(1..Chunks) /\ Len(s.data) \in Nat
  BY TaskType, SessType, LenProperties
     DEF UploadInv, UploadTypeOK, SeekStart, On, Free, Sess, Quiet
<1>2. Set(c, x) /\ Next1(c, u)
  BY <1>1 DEF SeekStart, Sess
<1>3. FileInv(t) /\ PlaceInv(t) /\ Works(c, t)
  BY <1>1 DEF UploadInv, SessInv, Works
<1>4. /\ x \in Session /\ x.used = s.used /\ x.linked = s.linked /\ x.data = s.data
      /\ x.counted = s.counted /\ x.pos = 0 /\ x.size = s.size /\ x.torn = s.torn /\ x.spilt = s.spilt
      /\ x.holder = c /\ x.record = s.record /\ x.mapped = s.mapped /\ x.hurt = s.hurt
  BY <1>1 DEF Session
<1>5. /\ u \in Task /\ u.ok = up[c].ok /\ u.pc = "read" /\ u.at = up[c].at /\ u.op = up[c].op
      /\ u.sid = t /\ u.start = up[c].start /\ u.met = up[c].met
  BY <1>1 DEF Task, UploadPcs
<1> HIDE DEF x, u
<1>6. Stepped(c, t, x, u) /\ u # Idle
  BY <1>1, <1>2, <1>4, <1>5, StepSets, UploadsAssumption DEF UploadInv
<1>7. FileInv(t)'
  <2>1. ~x.torn => /\ Part(x, u) /\ x.size = Len(x.counted)
                   /\ x.data = <<>> => x.record \in {0, NoRow}
    BY <1>1, <1>3, <1>4, <1>5 DEF Part, AtRest, FileInv
  <2>2. x.pos <= Len(x.data) /\ x.holder # Idle
    BY <1>1, <1>4, UploadsAssumption
  <2> QED BY <1>4, <1>5, <1>6, <2>1, <2>2, FileOfHolder
<1>8. LockInv(t)'
  BY <1>1, <1>4, <1>5, <1>6, LockKept DEF Locked
<1>9. PlaceInv(t)'
  <2>1. u.op \in {"patch", "put"} /\ u.start # Unknown /\ ~u.met /\ ~x.torn /\ ~x.spilt /\ u.ok => u.at = u.start
    BY <1>1, <1>3, <1>4, <1>5 DEF PlaceInv
  <2> QED BY <1>4, <1>5, <1>6, <2>1, PlaceKept
<1>10. EndInv(t)'
  <2>1. u.op = "put"
    BY <1>1, <1>3, <1>5, EndHeld DEF Shape
  <2> QED BY <1>1, <1>4, <1>5, <1>6, <2>1, EndAside
<1> QED BY <1>1, <1>4, <1>5, <1>6, <1>7, <1>8, <1>9, <1>10, OneSession DEF SessInv

LEMMA ReadStep == ASSUME UploadInv, NEW c \in Clients, ReadBack(c) PROVE UploadInv'
<1> PICK t \in Sessions : up[c].sid = t
  BY TaskType DEF UploadInv, ReadBack, On
<1> DEFINE s == sess[t]
           good == s.data = Whole
           n == Len(s.data)
           to == IF good THEN "store" ELSE IF s.mapped THEN "unlink" ELSE "forget"
           x == [s EXCEPT !.holder = Idle, !.pos = n, !.mapped = s.mapped /\ good]
           u == [up[c] EXCEPT !.ok = good, !.pc = to]
<1>1. /\ up[c] # Idle /\ up[c].pc = "read" /\ up[c] \in Task /\ s \in Session
      /\ uploads' = uploads /\ uploads \in Nat
      /\ s.data \in Seq(1..Chunks) /\ n \in Nat /\ s.mapped \in BOOLEAN
  BY TaskType, SessType, LenProperties
     DEF UploadInv, UploadTypeOK, ReadBack, On, Sess, Quiet
<1>2. Set(c, x) /\ Next1(c, u)
  BY <1>1 DEF ReadBack, Sess
<1>3. FileInv(t) /\ PlaceInv(t) /\ LockInv(t) /\ Works(c, t)
  BY <1>1 DEF UploadInv, SessInv, Works
<1> HIDE DEF n, good
<1>4. /\ x.used = s.used /\ x.linked = s.linked /\ x.data = s.data
      /\ x.counted = s.counted /\ x.pos = n /\ x.size = s.size /\ x.torn = s.torn /\ x.spilt = s.spilt
      /\ x.holder = Idle /\ x.record = s.record /\ x.mapped = (s.mapped /\ good)
      /\ x.hurt = s.hurt
  BY <1>1 DEF Session
<1>5. good \in BOOLEAN /\ x \in Session
  <2> DEFINE kept == s.mapped /\ good
  <2>1. good \in BOOLEAN
    BY DEF good
  <2>2. kept \in BOOLEAN /\ s \in Session /\ n \in Nat
    BY <1>1, <2>1
  <2> HIDE DEF s, kept
  <2>3. [s EXCEPT !.holder = Idle, !.pos = n, !.mapped = kept] \in Session
    BY <2>2 DEF Session
  <2> QED BY <2>1, <2>3 DEF kept
<1>6. /\ u \in Task /\ u.ok = good /\ u.pc = to /\ u.at = up[c].at /\ u.op = up[c].op
      /\ u.sid = t /\ u.start = up[c].start /\ u.met = up[c].met
  <2>1. to \in UploadPcs
    BY DEF UploadPcs
  <2> HIDE DEF to
  <2> QED BY <1>1, <1>5, <2>1 DEF Task
<1> HIDE DEF x, u
<1>7. Stepped(c, t, x, u) /\ u # Idle
  BY <1>1, <1>2, <1>5, <1>6, StepSets, UploadsAssumption DEF UploadInv
<1>8. s.holder = c /\ c # Idle
  BY <1>1, <1>3, UploadsAssumption DEF LockInv, Locked
<1>9. FileInv(t)'
  <2>1. ~s.torn => /\ Part(s, up[c]) /\ s.size = Len(s.counted)
                   /\ s.data = <<>> => s.record \in {0, NoRow}
    BY <1>3, <1>8 DEF FileInv
  <2>2. ~x.torn => /\ AtRest(x) /\ x.size = Len(x.counted)
                   /\ x.data = <<>> => x.record \in {0, NoRow}
    BY <1>1, <1>4, <2>1 DEF Part, AtRest, n
  <2>3. x.pos <= Len(x.data) /\ x.holder = Idle
    BY <1>1, <1>4 DEF n
  <2> QED BY <1>5, <1>6, <1>7, <1>8, <2>2, <2>3, FileOfHolder
<1>10. LockInv(t)'
  BY <1>4, <1>5, <1>6, <1>7, <1>8, LockKept DEF Locked
<1>11. PlaceInv(t)'
  <2>1. u.op \in {"patch", "put"} /\ u.start # Unknown /\ ~u.met /\ ~x.torn /\ ~x.spilt /\ u.ok => u.at = u.start
    <3>1. Shape(up[c])
      BY <1>3, EndHeld
    <3>2. up[c].ok
      BY <1>1, <3>1 DEF Shape
    <3>3. u.op \in {"patch", "put"} /\ u.start # Unknown /\ ~u.met /\ ~s.torn /\ ~s.spilt => up[c].at = up[c].start
      BY <1>1, <1>3, <1>6, <3>2 DEF PlaceInv
    <3> QED BY <1>4, <1>6, <3>3
  <2> QED BY <1>5, <1>6, <1>7, <2>1, PlaceKept
<1>12. EndInv(t)'
  <2>1. u.op = "put" /\ ~Unlinks(up[c]) /\ ~Forgets(up[c])
    BY <1>1, <1>3, <1>6, EndHeld DEF Unlinks, Forgets, Shape
  <2>2. /\ u.pc \in {"unlink", "forget"} => ~x.mapped
        /\ Shape(u)
    BY <1>4, <1>6, <2>1 DEF Shape
  <2>3. ~x.hurt /\ x.mapped =>
          x.linked /\ (x.record = x.size \/ Owed(c, t, u, LAMBDA v : v.pc = "record"))
    BY <1>1, <1>3, <1>4, EndHeld
  <2>4. ~x.hurt /\ ~x.mapped => /\ x.linked => Owed(c, t, u, Unlinks)
                                /\ x.record # NoRow => Owed(c, t, u, Forgets)
    <3>1. CASE s.mapped /\ ~good
      BY <1>6, <1>7, <3>1 DEF Owed, Unlinks, Forgets
    <3>2. CASE ~s.mapped
      BY <1>3, <1>4, <2>1, <3>2, EndHeld
    <3> QED BY <1>4, <3>1, <3>2
  <2> QED BY <1>4, <1>5, <1>6, <1>7, <2>1, <2>2, <2>3, <2>4, EndKept
<1> QED BY <1>1, <1>5, <1>6, <1>7, <1>9, <1>10, <1>11, <1>12, OneSession DEF SessInv

LEMMA ReadFailStep == ASSUME UploadInv, NEW c \in Clients, ReadFails(c) PROVE UploadInv'
<1> PICK t \in Sessions : up[c].sid = t
  BY TaskType DEF UploadInv, ReadFails, On
<1> PICK p \in 0..Len(Sess(c).data) :
       Set(c, [Sess(c) EXCEPT !.holder = Idle, !.pos = p, !.torn = TRUE])
  BY Zenon DEF ReadFails
<1> DEFINE s == sess[t]
           x == [s EXCEPT !.holder = Idle, !.pos = p, !.torn = TRUE]
           u == [up[c] EXCEPT !.pc = "done", !.ok = FALSE]
<1>1. /\ up[c] # Idle /\ up[c].pc = "read" /\ up[c] \in Task /\ s \in Session
      /\ uploads' = uploads /\ uploads \in Nat
      /\ Len(s.data) \in Nat /\ p \in 0..Len(s.data)
  BY TaskType, SessType, LenProperties
     DEF UploadInv, UploadTypeOK, ReadFails, On, Sess, Quiet
<1>2. Set(c, x) /\ Next1(c, u)
  BY <1>1 DEF ReadFails, Sess, Fail
<1>3. LockInv(t) /\ Works(c, t)
  BY <1>1 DEF UploadInv, SessInv, Works
<1>4. /\ x \in Session /\ x.used = s.used /\ x.linked = s.linked /\ x.data = s.data
      /\ x.counted = s.counted /\ x.pos = p /\ x.size = s.size /\ x.torn /\ x.spilt = s.spilt
      /\ x.holder = Idle /\ x.record = s.record /\ x.mapped = s.mapped /\ x.hurt = s.hurt
  <2>1. s \in Session /\ p \in Nat
    BY <1>1
  <2> HIDE DEF s
  <2>2. LET y == [s EXCEPT !.holder = Idle, !.pos = p, !.torn = TRUE] IN
           /\ y \in Session /\ y.used = s.used /\ y.linked = s.linked /\ y.data = s.data
           /\ y.counted = s.counted /\ y.pos = p /\ y.size = s.size /\ y.torn /\ y.spilt = s.spilt
           /\ y.holder = Idle /\ y.record = s.record /\ y.mapped = s.mapped /\ y.hurt = s.hurt
    BY <2>1 DEF Session
  <2> QED BY <2>2
<1>5. /\ u \in Task /\ ~u.ok /\ u.pc = "done" /\ u.op = up[c].op
      /\ u.sid = t /\ u.start = up[c].start /\ u.met = up[c].met
  BY <1>1 DEF Task, UploadPcs
<1> HIDE DEF x, u
<1>6. Stepped(c, t, x, u) /\ u # Idle
  BY <1>1, <1>2, <1>4, <1>5, StepSets, UploadsAssumption DEF UploadInv
<1>7. s.holder = c /\ c # Idle
  BY <1>1, <1>3, UploadsAssumption DEF LockInv, Locked
<1>8. FileInv(t)'
  BY <1>1, <1>4, <1>5, <1>6, FileOfHolder
<1>9. LockInv(t)'
  BY <1>4, <1>5, <1>6, <1>7, LockKept DEF Locked
<1>10. PlaceInv(t)'
  BY <1>4, <1>5, <1>6, PlaceKept
<1>11. EndInv(t)'
  <2>1. ~Unlinks(up[c]) /\ ~Forgets(up[c])
    BY <1>1 DEF Unlinks, Forgets
  <2>2. Shape(u)
    BY <1>1, <1>3, <1>5, EndHeld DEF Shape
  <2>3. ~x.hurt /\ x.mapped =>
          x.linked /\ (x.record = x.size \/ Owed(c, t, u, LAMBDA v : v.pc = "record"))
    BY <1>1, <1>3, <1>4, EndHeld
  <2>4. ~x.hurt /\ ~x.mapped => /\ x.linked => Owed(c, t, u, Unlinks)
                                /\ x.record # NoRow => Owed(c, t, u, Forgets)
    BY <1>3, <1>4, <2>1, EndHeld
  <2> QED BY <1>4, <1>5, <1>6, <2>2, <2>3, <2>4, EndKept
<1> QED BY <1>1, <1>4, <1>5, <1>6, <1>8, <1>9, <1>10, <1>11, OneSession DEF SessInv

LEMMA SaveStep == ASSUME UploadInv, NEW c \in Clients, SaveRecord(c) PROVE UploadInv'
<1> PICK t \in Sessions : up[c].sid = t
  BY TaskType DEF UploadInv, SaveRecord, On
<1> PICK ok \in BOOLEAN :
       Set(c, [Sess(c) EXCEPT !.record = IF ok THEN Sess(c).size ELSE @,
                              !.holder = IF @ = c THEN Idle ELSE @,
                              !.hurt = @ \/ ~ok \/ ~Sess(c).mapped])
  BY DEF SaveRecord
<1> DEFINE s == sess[t]
           kept == IF ok THEN s.size ELSE s.record
           free == IF s.holder = c THEN Idle ELSE s.holder
           hit  == s.hurt \/ ~ok \/ ~s.mapped
           x == [s EXCEPT !.record = kept, !.holder = free, !.hurt = hit]
           u == IF up[c].op # "put" THEN [up[c] EXCEPT !.pc = "done"]
                ELSE IF s.mapped THEN [up[c] EXCEPT !.pc = "seek"]
                ELSE [up[c] EXCEPT !.pc = "done", !.ok = FALSE]
<1>1. /\ up[c] # Idle /\ up[c].pc = "record" /\ up[c] \in Task /\ s \in Session
      /\ Set(c, x) /\ Next1(c, u) /\ uploads' = uploads /\ uploads \in Nat
      /\ s.size \in Nat /\ s.mapped \in BOOLEAN
  BY TaskType, SessType DEF UploadInv, UploadTypeOK, SaveRecord, On, Sess, Fail, Quiet
<1>2. FileInv(t) /\ PlaceInv(t) /\ LockInv(t) /\ Works(c, t)
  BY <1>1 DEF UploadInv, SessInv, Works
<1>3. /\ x \in Session /\ x.used = s.used /\ x.linked = s.linked /\ x.data = s.data
      /\ x.counted = s.counted /\ x.pos = s.pos /\ x.size = s.size /\ x.torn = s.torn /\ x.spilt = s.spilt
      /\ x.holder = (IF s.holder = c THEN Idle ELSE s.holder)
      /\ x.record = (IF ok THEN s.size ELSE s.record)
      /\ x.mapped = s.mapped /\ (~x.hurt => ~s.hurt /\ ok /\ s.mapped)
  <2>1. kept \in Nat \cup {NoRow} /\ free \in Clients \cup {Idle} /\ hit \in BOOLEAN
    BY <1>1 DEF Session
  <2>2. ~hit => ~s.hurt /\ ok /\ s.mapped
    OBVIOUS
  <2> HIDE DEF kept, free, hit
  <2>3. /\ x \in Session /\ x.used = s.used /\ x.linked = s.linked /\ x.data = s.data
        /\ x.counted = s.counted /\ x.pos = s.pos /\ x.size = s.size /\ x.torn = s.torn /\ x.spilt = s.spilt
        /\ x.holder = free /\ x.record = kept /\ x.mapped = s.mapped /\ x.hurt = hit
    BY <1>1, <2>1 DEF Session
  <2> QED BY <2>2, <2>3 DEF kept, free
<1>4. /\ u \in Task /\ u.at = up[c].at /\ u.op = up[c].op /\ u.pc \in {"seek", "done"}
      /\ u.sid = t /\ u.start = up[c].start /\ u.met = up[c].met /\ (u.ok => up[c].ok)
      /\ u.pc = "seek" => u.op = "put" /\ u.ok = up[c].ok
  BY <1>1 DEF Task, UploadPcs
<1> HIDE DEF x, u
<1>5. Stepped(c, t, x, u) /\ u # Idle /\ c # Idle
  BY <1>1, <1>3, <1>4, StepSets, UploadsAssumption DEF UploadInv
<1>6. FileInv(t)'
  <2>1. CASE s.holder = c
    <3>1. s.pos <= Len(s.data)
          /\ (~s.torn => /\ Part(s, up[c]) /\ s.size = Len(s.counted)
                         /\ s.data = <<>> => s.record \in {0, NoRow})
      BY <1>2, <2>1 DEF FileInv
    <3>2. ~x.torn => AtRest(x) /\ x.size = Len(x.counted)
      BY <1>1, <1>3, <3>1 DEF Part, AtRest
    <3>3. ~x.torn /\ x.data = <<>> => x.record \in {0, NoRow}
      <4>1. x.data = <<>> => Len(x.data) = 0
        BY EmptySeq
      <4>2. ~x.torn /\ x.data = <<>> => x.size = 0
        BY <1>1, <1>3, <3>2, <4>1 DEF AtRest
      <4> QED BY <1>3, <3>1, <4>2
    <3> QED BY <1>3, <1>4, <1>5, <2>1, <3>1, <3>2, <3>3, FileOfHolder
  <2>2. CASE s.holder # c
    <3>1. x.record = s.record \/ x.record = x.size
      BY <1>3
    <3>2. x.holder = s.holder /\ x.holder # c
      BY <1>3, <2>2
    <3> QED BY <1>3, <1>4, <1>5, <3>1, <3>2, FileKept
  <2> QED BY <2>1, <2>2
<1>7. LockInv(t)'
  <2>1. ~Locked(u) /\ x.holder # c
    BY <1>3, <1>4, <1>5 DEF Locked
  <2> QED BY <1>3, <1>4, <1>5, <2>1, LockKept
<1>8. PlaceInv(t)'
  <2>1. u.op \in {"patch", "put"} /\ u.start # Unknown /\ ~u.met /\ ~x.torn /\ ~x.spilt /\ u.ok => u.at = u.start
    BY <1>1, <1>2, <1>3, <1>4 DEF PlaceInv
  <2> QED BY <1>3, <1>4, <1>5, <2>1, PlaceKept
<1>9. EndInv(t)'
  <2>1. Shape(u)
    BY <1>1, <1>2, <1>4, EndHeld DEF Shape
  <2>2. ~x.hurt /\ x.mapped => x.linked /\ x.record = x.size
    BY <1>2, <1>3, EndHeld
  <2>3. x.mapped \/ x.hurt
    BY <1>3
  <2> QED BY <1>3, <1>4, <1>5, <2>1, <2>2, <2>3, EndKept
<1> QED BY <1>1, <1>3, <1>4, <1>5, <1>6, <1>7, <1>8, <1>9, OneSession DEF SessInv

-----------------------------------------------------------------------------
(* Interruptions and arrivals. *)

LEMMA DropStep == ASSUME UploadInv, NEW c \in Clients, DropUpload(c) PROVE UploadInv'
<1> PICK t \in Sessions : up[c].sid = t
  BY TaskType DEF UploadInv, DropUpload
<1> DEFINE s == sess[t]
           rips == up[c].pc = "read"
           spill == up[c].pc = "bump" /\ up[c].chunk # <<>>
           owes == up[c].pc \in {"record", "forget", "unlink"}
           x == [s EXCEPT !.holder = IF @ = c THEN Idle ELSE @,
                          !.spilt = @ \/ spill, !.torn = @ \/ rips, !.hurt = @ \/ owes]
<1>1. /\ up[c] # Idle /\ up[c] \in Task /\ s \in Session /\ Set(c, x) /\ Next1(c, Idle)
      /\ uploads' = uploads /\ uploads \in Nat /\ c # Idle
  <2>1. Set(c, [s EXCEPT !.holder = IF @ = c THEN Idle ELSE @,
                         !.spilt = @ \/ (up[c].pc = "bump" /\ up[c].chunk # <<>>),
                         !.torn = @ \/ up[c].pc = "read",
                         !.hurt = @ \/ owes])
    BY DEF DropUpload, Sess
  <2>2. s \in Session /\ up[c] # Idle /\ up[c] \in Task
    BY TaskType, SessType DEF UploadInv, DropUpload
  <2> QED BY <2>1, <2>2, UploadsAssumption DEF UploadInv, UploadTypeOK, DropUpload, Session
<1>2. FileInv(t) /\ PlaceInv(t) /\ LockInv(t) /\ Works(c, t)
  BY <1>1 DEF UploadInv, SessInv, Works
<1>3. rips \in BOOLEAN /\ owes \in BOOLEAN /\ spill \in BOOLEAN
  OBVIOUS
<1>4. (s.holder = c => up[c].pc \in {"bump", "record", "read"}) /\ (s.holder # c => ~rips /\ ~spill)
  BY <1>2 DEF LockInv, Locked
<1>5. /\ ~rips => up[c].pc # "read"
      /\ ~spill /\ up[c].pc = "bump" => up[c].chunk = <<>>
      /\ ~owes => up[c].pc # "record" /\ ~Unlinks(up[c]) /\ ~Forgets(up[c])
  BY DEF Unlinks, Forgets
<1> HIDE DEF rips, owes, spill
<1>6. /\ x \in Session /\ x.used = s.used /\ x.linked = s.linked /\ x.data = s.data
      /\ x.counted = s.counted /\ x.pos = s.pos /\ x.size = s.size /\ x.torn = (s.torn \/ rips)
      /\ x.spilt = (s.spilt \/ spill)
      /\ x.holder = (IF s.holder = c THEN Idle ELSE s.holder) /\ x.record = s.record
      /\ x.mapped = s.mapped /\ x.hurt = (s.hurt \/ owes)
  <2> DEFINE r == s.torn \/ rips
             o == s.hurt \/ owes
             p == s.spilt \/ spill
  <2>1. r \in BOOLEAN /\ o \in BOOLEAN /\ p \in BOOLEAN
    BY <1>3
  <2> HIDE DEF r, o, p
  <2> DEFINE free == IF s.holder = c THEN Idle ELSE s.holder
  <2>2. s \in Session /\ free \in Clients \cup {Idle}
    BY <1>1 DEF Session
  <2> HIDE DEF s, free
  <2> DEFINE y == [s EXCEPT !.holder = free, !.spilt = p, !.torn = r, !.hurt = o]
  <2>3. /\ y \in Session /\ y.used = s.used /\ y.linked = s.linked /\ y.data = s.data
        /\ y.counted = s.counted /\ y.pos = s.pos /\ y.size = s.size /\ y.torn = r /\ y.spilt = p
        /\ y.holder = free /\ y.record = s.record
        /\ y.mapped = s.mapped /\ y.hurt = o
    BY <2>1, <2>2 DEF Session
  <2>4. x = y
    BY DEF free, r, o, p
  <2> HIDE DEF x, y
  <2> QED BY <2>3, <2>4 DEF free, r, o, p
<1> HIDE DEF x
<1>7. Stepped(c, t, x, Idle)
  BY <1>1, <1>6, StepSets DEF UploadInv
<1>8. FileInv(t)'
  <2>1. CASE s.holder = c
    <3>1. s.pos <= Len(s.data)
          /\ (~s.torn => /\ Part(s, up[c]) /\ s.size = Len(s.counted)
                         /\ s.data = <<>> => s.record \in {0, NoRow})
      BY <1>2, <2>1 DEF FileInv
    <3>2. s.counted \o <<>> = s.counted /\ s.size \in Nat /\ Len(s.data) \in Nat
      BY SessType, ConcatEmptySeq, LenProperties DEF UploadInv
    <3>3. ~x.torn => AtRest(x)
      <4> SUFFICES ASSUME ~x.torn PROVE AtRest(x)
        OBVIOUS
      <4>1. Part(s, up[c]) /\ ~rips
        BY <1>6, <3>1
      <4>2. CASE up[c].pc = "bump"
        <5>1. Len(up[c].chunk) \in Nat
          BY <1>1, ChunkSeq DEF UploadInv
        <5>2. s.pos = Len(s.data) /\ s.size <= Len(s.data)
          BY <3>2, <4>1, <4>2, <5>1 DEF Part
        <5>3. ~x.spilt => s.data = s.counted
          <6> SUFFICES ASSUME ~x.spilt PROVE s.data = s.counted
            OBVIOUS
          <6>1. ~s.spilt /\ up[c].chunk = <<>>
            BY <1>5, <1>6, <4>2
          <6>2. s.data = s.counted \o up[c].chunk
            BY <4>1, <4>2, <6>1 DEF Part
          <6> QED BY <3>2, <6>1, <6>2
        <5> QED BY <1>6, <5>2, <5>3 DEF AtRest
      <4>3. CASE up[c].pc = "record"
        BY <1>6, <4>1, <4>3 DEF Part, AtRest
      <4> QED BY <1>4, <1>5, <2>1, <4>1, <4>2, <4>3
    <3> QED BY <1>6, <1>7, <1>1, <2>1, <3>1, <3>3, FileOfHolder
  <2>2. CASE s.holder # c
    <3>1. x.torn = s.torn /\ x.spilt = s.spilt /\ x.holder = s.holder /\ x.holder # c
      BY <1>1, <1>4, <1>6, <2>2 DEF Session
    <3> QED BY <1>6, <1>7, <3>1, FileKept
  <2> QED BY <2>1, <2>2
<1>9. LockInv(t)'
  BY <1>1, <1>6, <1>7, LockKept
<1>10. PlaceInv(t)'
  BY <1>6, <1>7, PlaceKept
<1>11. EndInv(t)'
  <2>1. ~x.hurt /\ x.mapped =>
          x.linked /\ (x.record = x.size \/ Owed(c, t, Idle, LAMBDA v : v.pc = "record"))
    BY <1>2, <1>5, <1>6, EndHeld
  <2>2. ~x.hurt /\ ~x.mapped => /\ x.linked => Owed(c, t, Idle, Unlinks)
                                /\ x.record # NoRow => Owed(c, t, Idle, Forgets)
    BY <1>2, <1>5, <1>6, EndHeld
  <2> QED BY <1>6, <1>7, <2>1, <2>2, EndKept
<1> QED BY <1>1, <1>6, <1>7, <1>8, <1>9, <1>10, <1>11, OneSession DEF SessInv

\* A request that begins on a session that is there.
LEMMA ArriveHolds ==
    ASSUME UploadInv, NEW c \in Clients, NEW v \in Task, v.pc = "check", v.ok, v.op # "start",
           v.op = "delete" => v.start = Unknown, sess[v.sid].used, Arrive(c, v), UNCHANGED sess
    PROVE  UploadInv'
<1> DEFINE others == {d \in Clients \ {c} : up[d] # Idle /\ up[d].sid = v.sid}
           u == [v EXCEPT !.met = (others # {})]
<1>1. up[c] = Idle /\ uploads' = uploads - 1 /\ uploads > 0 /\ Idle \notin Clients \cup Task
      /\ up' = [d \in Clients |-> IF d = c THEN u
                                  ELSE IF d \in others THEN [up[d] EXCEPT !.met = TRUE]
                                  ELSE up[d]]
  BY UploadsAssumption DEF Arrive
<1>2. /\ u \in Task /\ u.pc = "check" /\ u.ok /\ u.op = v.op /\ u.start = v.start
      /\ u.sid = v.sid /\ u.chunk = v.chunk /\ (u.met <=> others # {})
  <2> DEFINE m == others # {}
  <2>1. m \in BOOLEAN
    OBVIOUS
  <2> HIDE DEF m
  <2>2. LET w == [v EXCEPT !.met = m]
        IN  w \in Task /\ w.pc = v.pc /\ w.ok = v.ok /\ w.op = v.op /\ w.start = v.start
            /\ w.sid = v.sid /\ w.chunk = v.chunk /\ w.met = m
    BY <2>1 DEF Task
  <2> QED BY <2>2 DEF m
<1>3. ASSUME NEW d \in Clients \ {c}
      PROVE  /\ up'[d] \in Task \cup {Idle} /\ (up'[d] = Idle <=> up[d] = Idle)
             /\ up[d] # Idle => /\ up'[d].pc = up[d].pc /\ up'[d].op = up[d].op
                                /\ up'[d].sid = up[d].sid /\ up'[d].start = up[d].start
                                /\ up'[d].ok = up[d].ok /\ up'[d].at = up[d].at
                                /\ up'[d].chunk = up[d].chunk
                                /\ up'[d].met = (up[d].met \/ up[d].sid = v.sid)
  <2>1. CASE d \in others
    <3>1. up'[d] = [up[d] EXCEPT !.met = TRUE] /\ up[d] \in Task /\ up[d].sid = v.sid
      BY <1>1, <2>1, TaskType DEF UploadInv
    <3> HIDE DEF others
    <3>2. LET w == [up[d] EXCEPT !.met = TRUE]
          IN  /\ w \in Task /\ w.pc = up[d].pc /\ w.op = up[d].op /\ w.sid = up[d].sid
              /\ w.start = up[d].start /\ w.ok = up[d].ok /\ w.at = up[d].at
              /\ w.chunk = up[d].chunk /\ w.met = TRUE
      BY <3>1 DEF Task
    <3>3. up[d] # Idle /\ up'[d] # Idle
      BY <2>1, <3>1, <3>2, UploadsAssumption DEF others
    <3>4. up'[d].met = TRUE /\ (up[d].met \/ up[d].sid = v.sid) = TRUE
      BY <3>1, <3>2
    <3> QED BY <3>1, <3>2, <3>3, <3>4
  <2>2. CASE d \notin others
    <3>1. up'[d] = up[d] /\ (up[d] # Idle => up[d].sid # v.sid)
      BY <1>1, <2>2
    <3>2. up[d] # Idle => up[d].met \in BOOLEAN
      BY TaskType DEF UploadInv
    <3> QED BY <3>1, <3>2 DEF UploadInv, UploadTypeOK
  <2> QED BY <2>1, <2>2
<1>4. up'[c] = u /\ u # Idle /\ sess' = sess
  BY <1>1, <1>2
<1>5. (\E d \in Clients \ {c} : Works(d, v.sid)) => u.met
  BY <1>2 DEF Works
<1> HIDE DEF u, others
<1>6. UploadTypeOK'
  <2>1. up' \in [Clients -> Task \cup {Idle}]
    <3>1. \A d \in Clients : up'[d] \in Task \cup {Idle}
      BY <1>2, <1>3, <1>4
    <3> QED BY <1>1, <3>1
  <2> QED BY <1>1, <1>4, <2>1 DEF UploadInv, UploadTypeOK
<1>7. ASSUME NEW s \in Sessions PROVE SessInv(s)'
  <2>1. FileInv(s) /\ LockInv(s) /\ EndInv(s) /\ PlaceInv(s) /\ sess'[s] = sess[s]
    BY <1>4 DEF UploadInv, SessInv
  <2>2. \A d \in Clients \ {c} : Works(d, s)' <=> Works(d, s)
    BY <1>3 DEF Works
  <2>3. (Works(c, s)' <=> s = v.sid) /\ ~Works(c, s) /\ sess[s].holder # c
    BY <1>1, <1>2, <1>4, <2>1 DEF Works, LockInv
  <2>4. LockInv(s)'
    <3>1. ASSUME NEW d \in Clients \ {c}
          PROVE  /\ Works(d, s)' => sess'[s].used
                 /\ sess'[s].holder = d <=> Works(d, s)' /\ Locked(up'[d])
      BY <1>3, <2>1, <2>2, <3>1 DEF LockInv, Locked, Works
    <3>2. /\ Works(c, s)' => sess'[s].used
          /\ sess'[s].holder = c <=> Works(c, s)' /\ Locked(up'[c])
      BY <1>2, <1>4, <2>1, <2>3 DEF Locked
    <3> QED BY <3>1, <3>2 DEF LockInv
  <2>5. FileInv(s)'
    <3>1. ASSUME NEW d \in Clients, sess[s].holder = d, Part(sess[s], up[d])
          PROVE  Part(sess'[s], up'[d])
      <4>1. d # c /\ Works(d, s)
        BY <2>1, <2>3, <3>1 DEF LockInv
      <4> QED BY <1>3, <2>1, <3>1, <4>1 DEF Part, AtRest, Works
    <3> QED BY <2>1, <3>1 DEF FileInv
  <2>6. EndInv(s)'
    <3>1. ASSUME NEW d \in Clients, Works(d, s)'
          PROVE  /\ up'[d].pc \in {"unlink", "forget"} => ~sess'[s].mapped
                 /\ Shape(up'[d])
      <4>1. CASE d = c
        BY <1>2, <1>4, <4>1 DEF Shape
      <4>2. CASE d # c
        <5>1. Works(d, s) /\ Shape(up[d])
              /\ (up[d].pc \in {"unlink", "forget"} => ~sess[s].mapped)
          BY <2>1, <2>2, <3>1, <4>2 DEF EndInv
        <5> QED BY <1>3, <2>1, <4>2, <5>1 DEF Shape, Works
      <4> QED BY <4>1, <4>2
    <3>2. ASSUME NEW d \in Clients, Works(d, s)
          PROVE  /\ Works(d, s)' /\ up'[d].pc = up[d].pc
                 /\ Unlinks(up[d]) => Unlinks(up'[d])
                 /\ Forgets(up[d]) => Forgets(up'[d])
      BY <1>3, <2>2, <2>3, <3>2 DEF Unlinks, Forgets, Works
    <3> QED BY <2>1, <3>1, <3>2 DEF EndInv
  <2>7. PlaceInv(s)'
    <3>1. ASSUME NEW d \in Clients, NEW e \in Clients, d # e, Works(d, s)', Works(e, s)'
          PROVE  up'[d].met
      <4>1. CASE d = c
        <5>1. Works(e, s) /\ s = v.sid
          BY <2>2, <2>3, <3>1, <4>1
        <5> QED BY <1>4, <1>5, <3>1, <4>1, <5>1
      <4>2. CASE e = c
        <5>1. Works(d, s) /\ s = v.sid
          BY <2>2, <2>3, <3>1, <4>2
        <5>2. up[d] # Idle /\ up[d].sid = v.sid /\ d \in Clients \ {c}
          BY <3>1, <4>2, <5>1 DEF Works
        <5>3. up'[d].met = (up[d].met \/ up[d].sid = v.sid)
          BY <1>3, <5>2
        <5>4. (up[d].met \/ up[d].sid = v.sid) = TRUE
          BY <5>2
        <5> QED BY <5>3, <5>4
      <4>3. CASE d # c /\ e # c
        <5>1. Works(d, s) /\ Works(e, s) /\ d \in Clients \ {c}
          BY <2>2, <3>1, <4>3
        <5>2. up[d].met /\ up[d] # Idle
          BY <2>1, <3>1, <5>1 DEF PlaceInv, Works
        <5>3. up'[d].met = (up[d].met \/ up[d].sid = v.sid)
          BY <1>3, <5>1, <5>2
        <5>4. (up[d].met \/ up[d].sid = v.sid) = TRUE
          BY <5>2
        <5> QED BY <5>3, <5>4
      <4> QED BY <4>1, <4>2, <4>3
    <3>2. ASSUME NEW d \in Clients, Works(d, s)', up'[d].op \in {"patch", "put"},
                 up'[d].start # Unknown, ~up'[d].met, ~sess'[s].torn, ~sess'[s].spilt
          PROVE  /\ up'[d].pc = "lock" => up'[d].start = sess'[s].size
                 /\ up'[d].pc \notin {"check", "lock"} /\ up'[d].ok => up'[d].at = up'[d].start
      <4>1. CASE d = c
        BY <1>2, <1>4, <4>1
      <4>2. CASE d # c
        <5>1. Works(d, s) /\ up[d] # Idle /\ d \in Clients \ {c}
          BY <2>2, <3>2, <4>2 DEF Works
        <5>2. /\ up'[d].pc = up[d].pc /\ up'[d].op = up[d].op /\ up'[d].start = up[d].start
              /\ up'[d].ok = up[d].ok /\ up'[d].at = up[d].at
              /\ up'[d].met = (up[d].met \/ up[d].sid = v.sid)
          BY <1>3, <5>1
        <5>3. ~up[d].met
          <6>1. up[d].met => (up[d].met \/ up[d].sid = v.sid) = TRUE
            OBVIOUS
          <6> QED BY <3>2, <5>2, <6>1
        <5> QED BY <2>1, <3>2, <5>1, <5>2, <5>3 DEF PlaceInv
      <4> QED BY <4>1, <4>2
    <3> QED BY <3>1, <3>2 DEF PlaceInv
  <2> QED BY <2>4, <2>5, <2>6, <2>7 DEF SessInv
<1> QED BY <1>6, <1>7 DEF UploadInv

\* What a session that was just made needs.
LEMMA NewIsSession ==
    LET x == [NewSession EXCEPT !.used = TRUE, !.mapped = TRUE, !.linked = TRUE] IN
    /\ x \in Session /\ NewSession \in Session
    /\ x.used /\ x.mapped /\ x.linked /\ x.data = <<>> /\ x.counted = <<>> /\ x.pos = 0
    /\ x.size = 0 /\ x.holder = Idle /\ x.record = NoRow
    /\ ~NewSession.used /\ NewSession.data = <<>> /\ NewSession.counted = <<>>
    /\ NewSession.pos = 0 /\ NewSession.size = 0 /\ NewSession.holder = Idle
    /\ NewSession.record = NoRow
<1>1. <<>> \in Seq(1..Chunks)
  OBVIOUS
<1> QED BY <1>1 DEF NewSession, Session

\* No task works on a session that nobody has asked for.
LEMMA StartStep == ASSUME UploadInv, NEW c \in Clients, StartUpload(c) PROVE UploadInv'
<1> DEFINE x == [NewSession EXCEPT !.used = TRUE, !.mapped = TRUE, !.linked = TRUE]
<1> PICK t \in Sessions, dg \in Digests :
       /\ ~sess[t].used /\ Arrive(c, Job("start", t, Unknown, <<>>, dg, "record"))
       /\ sess' = [sess EXCEPT ![t] = x]
  BY DEF StartUpload
<1> DEFINE v == Job("start", t, Unknown, <<>>, dg, "record")
           others == {d \in Clients \ {c} : up[d] # Idle /\ up[d].sid = t}
           u == [v EXCEPT !.met = FALSE]
<1>1. v \in Task /\ v.op = "start" /\ v.sid = t /\ v.pc = "record" /\ v.ok = TRUE /\ v.start = Unknown
  <2>1. "record" \in UploadPcs /\ Unknown \in Offset
    BY DEF UploadPcs, Offset
  <2> QED BY <2>1 DEF Job, Task
<1>2. \A d \in Clients : ~Works(d, t)
  BY DEF UploadInv, SessInv, LockInv
<1>3. others = {}
  BY <1>2 DEF Works
<1>4. u \in Task /\ u.op = "start" /\ u.sid = t /\ u.pc = "record" /\ u.ok = TRUE
      /\ u.start = Unknown
  <2> HIDE DEF v
  <2> QED BY <1>1 DEF Task
<1>5. /\ up' = [d \in Clients |-> IF d = c THEN u ELSE up[d]]
      /\ up[c] = Idle /\ uploads > 0 /\ uploads' = uploads - 1
  <2>1. v.sid = t /\ (others # {}) = FALSE
    BY <1>1, <1>3
  <2>2. /\ up' = [d \in Clients |-> IF d = c THEN [v EXCEPT !.met = (others # {})]
                                    ELSE IF d \in others THEN [up[d] EXCEPT !.met = TRUE]
                                    ELSE up[d]]
        /\ up[c] = Idle /\ uploads > 0 /\ uploads' = uploads - 1
    <3> HIDE DEF v
    <3>1. Arrive(c, v)
      BY DEF v
    <3> QED BY <2>1, <3>1 DEF Arrive
  <2> HIDE DEF v, others
  <2> QED BY <1>3, <2>1, <2>2
<1> HIDE DEF u, v
<1>6. x \in Session /\ x.used /\ x.mapped /\ x.linked /\ x.data = <<>> /\ x.counted = <<>>
      /\ x.pos = 0 /\ x.size = 0 /\ x.holder = Idle /\ x.record = NoRow
  BY NewIsSession
<1> HIDE DEF x
<1>7. Idle \notin Clients \cup Task /\ u # Idle /\ up'[c] = u /\ sess'[t] = x
      /\ \A s \in Sessions \ {t} : sess'[s] = sess[s]
  BY <1>4, <1>5, UploadsAssumption DEF UploadInv, UploadTypeOK
<1>8. \A d \in Clients \ {c} : up'[d] = up[d] /\ ~Works(d, t) /\ ~Works(d, t)'
  BY <1>2, <1>5 DEF Works
<1>9. UploadTypeOK'
  BY <1>4, <1>5, <1>6 DEF UploadInv, UploadTypeOK
<1>10. SessInv(t)'
  <2>1. FileInv(t)'
    BY <1>6, <1>7 DEF FileInv, AtRest
  <2>2. LockInv(t)'
    BY <1>4, <1>6, <1>7, <1>8 DEF LockInv, Locked
  <2>3. EndInv(t)'
    <3>1. Works(c, t)' /\ up'[c].pc = "record"
      BY <1>4, <1>7 DEF Works
    <3>2. Shape(up'[c])
      BY <1>4, <1>7 DEF Shape
    <3> QED BY <1>4, <1>6, <1>7, <1>8, <3>1, <3>2 DEF EndInv
  <2>4. PlaceInv(t)'
    BY <1>4, <1>7, <1>8 DEF PlaceInv
  <2> QED BY <2>1, <2>2, <2>3, <2>4 DEF SessInv
<1>11. ASSUME NEW s \in Sessions \ {t} PROVE SessInv(s)'
  <2>1. ~Works(c, s) /\ ~Works(c, s)'
    BY <1>4, <1>5, <1>7 DEF Works
  <2>2. \A d \in Clients : up'[d] = up[d] \/ (~Works(d, s) /\ ~Works(d, s)')
    BY <1>8, <2>1
  <2> QED BY <1>7, <2>2, Elsewhere DEF UploadInv
<1> QED BY <1>9, <1>10, <1>11 DEF UploadInv

\* The other requests begin with the look at the session.
LEMMA RequestStep == ASSUME UploadInv, NEW c \in Clients, UploadRequest(c) PROVE UploadInv'
<1>1. "check" \in UploadPcs /\ Unknown \in Offset
      /\ \A k \in 1..Chunks : k - 1 \in Offset /\ <<k>> \in {<<>>} \cup {<<j>> : j \in 1..Chunks}
  BY ChunksAssumption DEF UploadPcs, Offset
<1>2. ASSUME NEW op \in {"status", "patch", "put", "delete"}, NEW s \in Sessions,
             NEW start \in Offset, NEW chunk \in {<<>>} \cup {<<k>> : k \in 1..Chunks},
             NEW d \in Digests, op = "delete" => start = Unknown, sess[s].used,
             Arrive(c, Job(op, s, start, chunk, d, "check")), UNCHANGED sess
      PROVE  UploadInv'
  <2> DEFINE v == Job(op, s, start, chunk, d, "check")
  <2>1. v \in Task /\ v.op = op /\ v.sid = s /\ v.start = start /\ v.pc = "check" /\ v.ok
    BY <1>1, <1>2 DEF Job, Task
  <2> HIDE DEF v
  <2>2. Arrive(c, v)
    BY <1>2 DEF v
  <2> QED BY <1>2, <2>1, <2>2, ArriveHolds
<1>3. CASE StartUpload(c)
  BY <1>3, StartStep
<1>4. CASE StatusUpload(c)
  BY <1>1, <1>2, <1>4 DEF StatusUpload
<1>5. CASE PatchUpload(c)
  <2> PICK s \in Sessions, k \in 1..Chunks, d \in Digests :
         \E start \in {Unknown, k - 1} :
            sess[s].used /\ Arrive(c, Job("patch", s, start, <<k>>, d, "check")) /\ UNCHANGED sess
    BY <1>5 DEF PatchUpload
  <2> QED BY <1>1, <1>2
<1>6. CASE PutUpload(c)
  <2> PICK s \in Sessions, d \in Digests :
         /\ sess[s].used /\ UNCHANGED sess
         /\ \/ Arrive(c, Job("put", s, Unknown, <<>>, d, "check"))
            \/ \E k \in 1..Chunks, start \in Offset :
                 start \in {Unknown, k - 1} /\ Arrive(c, Job("put", s, start, <<k>>, d, "check"))
    BY <1>6 DEF PutUpload
  <2>1. CASE Arrive(c, Job("put", s, Unknown, <<>>, d, "check"))
    BY <1>1, <1>2, <2>1
  <2>2. CASE \E k \in 1..Chunks, start \in Offset :
                Arrive(c, Job("put", s, start, <<k>>, d, "check"))
    BY <1>1, <1>2, <2>2
  <2> QED BY <2>1, <2>2
<1>7. CASE DeleteUpload(c)
  BY <1>1, <1>2, <1>7 DEF DeleteUpload
<1> QED BY <1>3, <1>4, <1>5, <1>6, <1>7 DEF UploadRequest

\* A restart: no task is left, and what restore makes of a session is whole.
LEMMA RestoreStep == ASSUME UploadInv, RestoreUploads PROVE UploadInv'
<1>1. /\ Idle \notin Clients /\ uploads' \in Nat
      /\ \A c \in Clients : up'[c] = Idle
      /\ up' \in [Clients -> Task \cup {Idle}]
  BY UploadsAssumption DEF UploadInv, UploadTypeOK, RestoreUploads
<1>2. ASSUME NEW s \in Sessions
      PROVE  sess'[s] \in Session /\ SessInv(s)'
  <2> DEFINE y == sess[s]
             back == y.record # NoRow /\ y.linked
             x == [y EXCEPT !.mapped = back, !.pos = 0, !.holder = Idle,
                            !.record = IF back THEN @ ELSE NoRow,
                            !.size = IF back THEN y.record ELSE @,
                            !.torn = @ \/ y.data # <<>>,
                            !.hurt = y.linked /\ ~back]
  <2>1. sess'[s] = x /\ y \in Session /\ FileInv(s) /\ LockInv(s)
    BY SessType DEF UploadInv, SessInv, RestoreUploads, Restored
  <2>2. back \in BOOLEAN /\ (back => y.record \in Nat /\ y.record # NoRow /\ y.linked) /\ (~back => ~y.linked \/ y.record = NoRow)
    BY <2>1 DEF Session
  <2> HIDE DEF back
  <2>3. /\ x \in Session /\ x.used = y.used /\ x.mapped = back /\ x.linked = y.linked
        /\ x.data = y.data /\ x.counted = y.counted /\ x.pos = 0 /\ x.holder = Idle
        /\ x.record = (IF back THEN y.record ELSE NoRow)
        /\ x.size = (IF back THEN y.record ELSE y.size)
        /\ x.torn = (y.torn \/ y.data # <<>>) /\ x.hurt = (y.linked /\ ~back)
    <3> DEFINE rec  == IF back THEN y.record ELSE NoRow
               size == IF back THEN y.record ELSE y.size
               torn == y.torn \/ y.data # <<>>
               hurt == y.linked /\ ~back
    <3>1. y \in Session /\ y.size \in Nat /\ back \in BOOLEAN
      BY <2>1, <2>2 DEF Session
    <3>2. rec \in Nat \cup {NoRow} /\ size \in Nat
      BY <2>2, <3>1
    <3>3. torn \in BOOLEAN /\ hurt \in BOOLEAN
      BY <3>1 DEF Session
    <3> HIDE DEF y, rec, size, torn, hurt
    <3> DEFINE z == [y EXCEPT !.mapped = back, !.pos = 0, !.holder = Idle, !.record = rec,
                              !.size = size, !.torn = torn, !.hurt = hurt]
    <3>4. /\ z.used = y.used /\ z.mapped = back /\ z.linked = y.linked
          /\ z.data = y.data /\ z.counted = y.counted /\ z.pos = 0 /\ z.holder = Idle
          /\ z.record = rec /\ z.size = size /\ z.torn = torn /\ z.hurt = hurt
      BY <3>1 DEF Session
    <3>5. z \in Session
      BY <3>1, <3>2, <3>3 DEF Session
    <3>6. x = z
      BY DEF rec, size, torn, hurt
    <3> HIDE DEF x, z
    <3> QED BY <3>4, <3>5, <3>6 DEF rec, size, torn, hurt
  <2>4. y.data \in Seq(1..Chunks) /\ y.counted \in Seq(1..Chunks) /\ y.size \in Nat
        /\ y.holder \in Clients \cup {Idle}
    BY <2>1 DEF Session
  <2>5. y.data = <<>> /\ ~y.torn => y.counted = <<>> /\ y.size = 0 /\ Len(y.counted) = 0
    <3> SUFFICES ASSUME y.data = <<>>, ~y.torn
                 PROVE  y.counted = <<>> /\ y.size = 0 /\ Len(y.counted) = 0
      OBVIOUS
    <3>1. Len(y.data) = 0 /\ y.size = Len(y.counted) /\ y.size \in Nat
      BY <2>1, <2>4 DEF FileInv
    <3>2. y.size <= Len(y.data)
      <4>1. CASE y.holder = Idle
        BY <2>1, <4>1 DEF FileInv, AtRest
      <4>2. CASE y.holder \in Clients
        <5> PICK d \in Clients : y.holder = d
          BY <4>2
        <5>1. Works(d, s) /\ Locked(up[d]) /\ Part(y, up[d])
          BY <2>1 DEF LockInv, FileInv
        <5>2. Len(up[d].chunk) \in Nat
          BY <5>1, TaskType, ChunkSeq DEF UploadInv, Works
        <5> DEFINE n == Len(up[d].chunk)
                   l == Len(y.data)
        <5>3. y.size <= l \/ y.size + n <= l
          BY <5>1 DEF Locked, Part, AtRest
        <5>4. n \in Nat /\ l = 0 /\ y.size \in Nat
          BY <3>1, <5>2
        <5> HIDE DEF n, l, y
        <5> QED BY <5>3, <5>4 DEF l
      <4> QED BY <2>4, <4>1, <4>2
    <3>3. y.size = 0 /\ Len(y.counted) = 0
      BY <3>1, <3>2
    <3> QED BY <2>4, <3>3, EmptySeq
  <2>6. y.data = <<>> /\ ~y.torn => y.record \in {0, NoRow}
    BY <2>1 DEF FileInv
  <2>7. Len(x.data) \in Nat /\ (x.data = <<>> => Len(x.data) = 0)
    BY <2>3, <2>4
  <2> HIDE DEF x, y
  <2>8. ~x.torn => x.data = <<>> /\ ~y.torn
    BY <2>3
  <2>9. FileInv(s)'
    <3>1. ~x.torn => x.record \in {0, NoRow} /\ x.size = Len(x.counted) /\ AtRest(x)
      <4> SUFFICES ASSUME ~x.torn
                   PROVE  x.record \in {0, NoRow} /\ x.size = Len(x.counted) /\ AtRest(x)
        OBVIOUS
      <4>1. /\ x.data = <<>> /\ x.counted = <<>> /\ y.size = 0 /\ y.record \in {0, NoRow}
            /\ Len(x.data) = 0 /\ Len(x.counted) = 0 /\ x.pos = 0
        BY <2>3, <2>5, <2>6, <2>7, <2>8
      <4>2. x.record \in {0, NoRow} /\ x.size = 0
        BY <2>2, <2>3, <4>1
      <4> QED BY <4>1, <4>2 DEF AtRest
    <3>2. sess'[s] = x /\ x.pos <= Len(x.data) /\ \A d \in Clients : x.holder # d
      BY <1>1, <2>1, <2>3, <2>7
    <3> QED BY <3>1, <3>2 DEF FileInv
  <2>10. \A d \in Clients : ~Works(d, s)'
    BY <1>1 DEF Works
  <2>11. LockInv(s)' /\ PlaceInv(s)'
    BY <1>1, <2>1, <2>3, <2>10 DEF LockInv, PlaceInv
  <2>12. EndInv(s)'
    BY <2>1, <2>2, <2>3, <2>10 DEF EndInv
  <2> QED BY <2>1, <2>3, <2>9, <2>11, <2>12 DEF SessInv
<1>3. sess' \in [Sessions -> Session]
  BY <1>2 DEF RestoreUploads
<1> QED BY <1>1, <1>2, <1>3 DEF UploadInv, UploadTypeOK

-----------------------------------------------------------------------------
(* The theorems. *)

LEMMA UploadsStart == ServerInit => UploadInv
<1> SUFFICES ASSUME ServerInit PROVE UploadInv
  OBVIOUS
<1>1. /\ uploads \in Nat /\ Idle \notin Clients
      /\ sess = [s \in Sessions |-> NewSession] /\ up = [c \in Clients |-> Idle]
  BY UploadsAssumption DEF ServerInit, UploadInit
<1>2. UploadTypeOK
  BY <1>1, NewIsSession DEF UploadTypeOK
<1>3. ASSUME NEW s \in Sessions PROVE SessInv(s)
  <2>1. sess[s] = NewSession /\ \A c \in Clients : ~Works(c, s)
    BY <1>1 DEF Works
  <2>2. FileInv(s)
    BY <1>1, <2>1, NewIsSession DEF FileInv, AtRest
  <2>3. LockInv(s) /\ EndInv(s) /\ PlaceInv(s)
    BY <1>1, <2>1, NewIsSession DEF LockInv, EndInv, PlaceInv
  <2> QED BY <2>2, <2>3 DEF SessInv
<1> QED BY <1>2, <1>3 DEF UploadInv

LEMMA UploadsStay == ASSUME UploadInv, UNCHANGED upVars PROVE UploadInv'
<1>1. UploadTypeOK' /\ Idle \notin Clients
  BY UploadsAssumption DEF UploadInv, UploadTypeOK, upVars
<1>2. ASSUME NEW s \in Sessions PROVE SessInv(s)'
  BY <1>1, Elsewhere DEF UploadInv, upVars
<1> QED BY <1>1, <1>2 DEF UploadInv

LEMMA UploadsStep == UploadInv /\ [Next]_allVars => UploadInv'
<1> SUFFICES ASSUME UploadInv, [Next]_allVars PROVE UploadInv'
  OBVIOUS
<1>1. CASE UNCHANGED upVars
  BY <1>1, UploadsStay
<1>2. CASE \E c \in Clients : UploadRequest(c)
  BY <1>2, RequestStep
<1>3. CASE \E c \in Clients : UploadStep(c)
  <2> PICK c \in Clients : UploadStep(c)
    BY <1>3
  <2> QED BY CheckStep, WriteStep, BumpStep, SaveStep, SeekStep, ReadStep, ReadFailStep, StoreStep,
             ForgetStep, UnlinkStep, ReplyStep DEF UploadStep
<1>4. CASE \E c \in Clients : DropUpload(c)
  BY <1>4, DropStep
<1>5. CASE RestoreUploads
  BY <1>5, RestoreStep
<1> QED BY <1>1, <1>2, <1>3, <1>4, <1>5 DEF Next, Serving, Uploading, RestartServer, allVars

\* In every state of the server, whatever the protocol of the package and with
\* any number of clients: the invariant of the upload sessions holds.
THEOREM UploadsInvariance == Spec => []UploadInv
<1> QED BY UploadsStart, UploadsStep, PTL DEF Spec

\* The sessions, their tasks and the bound have the types the module gives them.
THEOREM UploadTypes == Spec => []UploadTypeOK
<1>1. UploadInv => UploadTypeOK
  BY DEF UploadInv
<1> QED BY <1>1, UploadsInvariance, PTL

\* The cursor of a session nobody has locked is at the end of its file, so that
\* no acknowledged chunk is written over, and the file is the sequence of those
\* chunks when no body failed and no task was dropped before the count, for any
\* number of clients that send chunks of any layer in any order.
THEOREM UploadsAreIntact == Spec => []UploadIntact
<1>1. UploadInv => UploadIntact
  BY DEF UploadInv, SessInv, FileInv, AtRest, UploadIntact
<1> QED BY <1>1, UploadsInvariance, PTL

\* A session at rest is all there or all gone: what a task still owes it when
\* it leaves the map is what keeps the file and the record in step.
THEOREM SessionsAreWhole == Spec => []SessionWhole
<1>1. UploadInv => SessionWhole
  <2> SUFFICES ASSUME UploadInv, NEW s \in Sessions, sess[s].used, ~sess[s].hurt,
                      \A c \in Clients : up[c] # Idle => up[c].sid # s
               PROVE  IF sess[s].mapped THEN sess[s].linked /\ sess[s].record = sess[s].size
                                        ELSE ~sess[s].linked /\ sess[s].record = NoRow
    BY DEF SessionWhole
  <2>1. EndInv(s) /\ \A c \in Clients : ~Works(c, s)
    BY DEF UploadInv, SessInv, Works
  <2> QED BY <2>1 DEF EndInv
<1> QED BY <1>1, UploadsInvariance, PTL

\* A chunk that names its offset is written there when its task had the
\* session to itself and every byte of the file is counted: nobody moved the
\* cursor between the comparison and the lock.
THEOREM ChunksAreInPlace == Spec => []ChunkInPlace
<1>1. UploadInv => ChunkInPlace
  <2> SUFFICES ASSUME UploadInv, NEW c \in Clients, up[c] # Idle,
                      up[c].op \in {"patch", "put"}, up[c].start # Unknown, ~up[c].met,
                      up[c].pc \notin {"check", "lock"}, up[c].ok, ~Sess(c).torn,
                      ~Sess(c).spilt
               PROVE  up[c].at = up[c].start
    BY DEF ChunkInPlace
  <2> PICK t \in Sessions : up[c].sid = t
    BY TaskType DEF UploadInv
  <2>1. PlaceInv(t) /\ Works(c, t)
    BY DEF UploadInv, SessInv, Works
  <2> QED BY <2>1 DEF PlaceInv, Sess
<1> QED BY <1>1, UploadsInvariance, PTL
===============================================================================
