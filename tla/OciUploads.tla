------------------------------ MODULE OciUploads ------------------------------
(***************************************************************************)
(* Upload sessions of the OCI adapter.                                     *)
(*                                                                         *)
(* A layer is uploaded in chunks to a session.  A session is four things   *)
(* that no transaction ties together: an entry in a map in memory, a       *)
(* temporary file with a cursor, a counter of its bytes, and a record in   *)
(* the database from which a restart brings the session back.  The file is *)
(* behind a lock; the map and the counter are not.                         *)
(*                                                                         *)
(* Chunks are numbered by their place in the layer, which is Whole; an     *)
(* offset counts chunks.  A session and its task are kept in this module's *)
(* variables; the blob directory is Registry's.                            *)
(***************************************************************************)
EXTENDS Registry, Sequences

CONSTANTS Sessions,    \* ids of sessions
          Chunks       \* number of chunks in a layer

ASSUME ChunksAssumption == Chunks \in Nat \ {0} /\ Sessions # {}

Whole   == [i \in 1..Chunks |-> i]
Unknown == -1          \* no Content-Range
Offset  == {Unknown} \cup 0..Chunks

VARIABLES sess,        \* the sessions
          up,          \* what the upload task of each client is doing
          uploads      \* what is left of the bound on upload requests

upVars == <<sess, up, uploads>>

(***************************************************************************)
(* History: "counted" are the chunks that went into the counter; "spilt":  *)
(* bytes reached the file that were never counted; "torn": the cursor was  *)
(* left away from the end of the file; "hurt": the session's parts came    *)
(* apart.                                                                  *)
(***************************************************************************)
Session ==
    [used : BOOLEAN, mapped : BOOLEAN, linked : BOOLEAN, data : Seq(1..Chunks),
     pos : Nat, size : Nat, record : Nat \cup {NoRow}, holder : Clients \cup {Idle},
     counted : Seq(1..Chunks), spilt : BOOLEAN, torn : BOOLEAN, hurt : BOOLEAN]

NewSession ==
    [used |-> FALSE, mapped |-> FALSE, linked |-> FALSE, data |-> <<>>,
     pos |-> 0, size |-> 0, record |-> NoRow, holder |-> Idle,
     counted |-> <<>>, spilt |-> FALSE, torn |-> FALSE, hurt |-> FALSE]

UploadPcs == {"record", "check", "lock", "bump", "seek", "read", "store",
              "forget", "unlink", "done"}
Task ==
    [op : {"start", "status", "patch", "put", "delete"}, sid : Sessions, start : Offset,
     chunk : {<<>>} \cup {<<k>> : k \in 1..Chunks}, digest : Digests, pc : UploadPcs,
     ok : BOOLEAN, at : Nat, met : BOOLEAN]

\* Nobody is a task or a client; the bound on upload requests is a number.
ASSUME UploadsAssumption ==
    /\ Idle \notin Clients \cup Task
    /\ \A s \in Scenarios : s.uploads \in Nat

Job(op, s, start, chunk, d, pc) ==
    [op |-> op, sid |-> s, start |-> start, chunk |-> chunk, digest |-> d,
     pc |-> pc, ok |-> TRUE, at |-> 0, met |-> FALSE]

Fail(u) == [u EXCEPT !.pc = "done", !.ok = FALSE]

(***************************************************************************)
(* Requests.                                                               *)
(***************************************************************************)
Arrive(c, u) ==
    LET others == {x \in Clients \ {c} : up[x] # Idle /\ up[x].sid = u.sid} IN
    /\ format = "oci" /\ uploads > 0
    /\ req[c] = Idle /\ up[c] = Idle
    /\ up' = [x \in Clients |-> IF x = c THEN [u EXCEPT !.met = (others # {})]
                                ELSE IF x \in others THEN [up[x] EXCEPT !.met = TRUE]
                                ELSE up[x]]
    /\ uploads' = uploads - 1
    /\ UNCHANGED vars

\* start: the file and the entry in the map; nobody else knows the id yet.
StartUpload(c) == \E s \in Sessions, d \in Digests :
    /\ ~sess[s].used
    /\ Arrive(c, Job("start", s, Unknown, <<>>, d, "record"))
    /\ sess' = [sess EXCEPT ![s] = [NewSession EXCEPT !.used = TRUE, !.mapped = TRUE, !.linked = TRUE]]

StatusUpload(c) == \E s \in Sessions, d \in Digests :
    /\ sess[s].used
    /\ Arrive(c, Job("status", s, Unknown, <<>>, d, "check"))
    /\ UNCHANGED sess

PatchUpload(c) == \E s \in Sessions, k \in 1..Chunks, d \in Digests :
    \E start \in {Unknown, k - 1} :
    /\ sess[s].used
    /\ Arrive(c, Job("patch", s, start, <<k>>, d, "check"))
    /\ UNCHANGED sess

\* The last chunk may come with the PUT that names the digest.
PutUpload(c) == \E s \in Sessions, d \in Digests :
    /\ sess[s].used
    /\ \/ Arrive(c, Job("put", s, Unknown, <<>>, d, "check"))
       \/ \E k \in 1..Chunks, start \in Offset :
            start \in {Unknown, k - 1} /\ Arrive(c, Job("put", s, start, <<k>>, d, "check"))
    /\ UNCHANGED sess

DeleteUpload(c) == \E s \in Sessions, d \in Digests :
    /\ sess[s].used
    /\ Arrive(c, Job("delete", s, Unknown, <<>>, d, "check"))
    /\ UNCHANGED sess

UploadRequest(c) ==
    \/ StartUpload(c) \/ StatusUpload(c) \/ PatchUpload(c) \/ PutUpload(c) \/ DeleteUpload(c)

(***************************************************************************)
(* Steps.                                                                  *)
(***************************************************************************)
On(c, pc)  == up[c] # Idle /\ up[c].pc = pc
Sess(c)    == sess[up[c].sid]
Free(c)    == Sess(c).holder = Idle
Set(c, s)  == sess' = [sess EXCEPT ![up[c].sid] = s]
Next1(c, u) == up' = [up EXCEPT ![c] = u]
Quiet      == UNCHANGED <<uploads, format, row, req, gc, dirty, calls, crashes, collections>>
NoFault    == UNCHANGED <<faults, broken>>
Fault(ok)  == IF ok THEN NoFault
              ELSE faults > 0 /\ faults' = faults - 1 /\ broken' = TRUE
NoBlob     == UNCHANGED <<blob, blamed>>

\* Mutant of CheckUpload: the offset is not compared.
CheckUploadAnyOffset(c) ==
    LET u == up[c]  s == Sess(c) IN
    /\ On(c, "check")
    /\ Next1(c, IF ~s.mapped THEN Fail(u)
                ELSE [u EXCEPT !.pc = CASE u.op = "delete" -> "unlink"
                                        [] u.op = "status" -> "done"
                                        [] OTHER -> "lock"])
    /\ Set(c, IF u.op = "delete" THEN [s EXCEPT !.mapped = FALSE] ELSE s)
    /\ Quiet /\ NoFault /\ NoBlob

\* The session is looked up and the offset compared; DELETE unmaps at once.
CheckUpload(c) ==
    LET u == up[c]  s == Sess(c)
        wrong == u.start # Unknown /\ u.start # s.size IN
    /\ On(c, "check")
    /\ Next1(c, IF ~s.mapped \/ wrong THEN Fail(u)
                ELSE [u EXCEPT !.pc = CASE u.op = "delete" -> "unlink"
                                        [] u.op = "status" -> "done"
                                        [] OTHER -> "lock"])
    /\ Set(c, IF u.op = "delete" THEN [s EXCEPT !.mapped = FALSE] ELSE s)
    /\ Quiet /\ NoFault /\ NoBlob

\* With the lock: the body of the request is copied to the file at its cursor,
\* as it arrives.  When the body (or the file) fails, what has arrived stays in
\* the file, uncounted, and the lock is released; a PUT without an offset
\* ignores the error and commits.  (Part of a chunk is nothing or all of it.)
WriteChunk(c) ==
    LET u == up[c]  s == Sess(c) IN
    /\ On(c, "lock") /\ Free(c)
    /\ \E ok \in BOOLEAN, part \in {<<>>, u.chunk} :
        /\ ok => part = u.chunk
        /\ Set(c, [s EXCEPT !.holder = IF ok THEN c ELSE Idle,
                            !.pos = @ + Len(part),
                            !.data = SubSeq(@, 1, s.pos) \o part
                                     \o SubSeq(@, s.pos + Len(part) + 1, Len(@)),
                            !.spilt = @ \/ (~ok /\ part # <<>>)])
        /\ Next1(c, IF ok THEN [u EXCEPT !.pc = "bump", !.at = s.pos]
                    ELSE IF u.op = "put" /\ u.start = Unknown /\ s.mapped
                         THEN [u EXCEPT !.pc = "seek"] ELSE Fail(u))
        /\ Fault(ok)
    /\ Quiet /\ NoBlob

BumpSize(c) ==
    LET u == up[c]  s == Sess(c) IN
    /\ On(c, "bump")
    /\ Set(c, [s EXCEPT !.size = @ + Len(u.chunk), !.counted = @ \o u.chunk])
    /\ Next1(c, [u EXCEPT !.pc = "record"])
    /\ Quiet /\ NoFault /\ NoBlob

\* save_upload, whose error is dropped; then the lock is released, and a PUT
\* goes on to commit, which looks the session up again.
SaveRecord(c) == \E ok \in BOOLEAN :
    LET u == up[c]  s == Sess(c) IN
    /\ On(c, "record")
    /\ Set(c, [s EXCEPT !.record = IF ok THEN s.size ELSE @,
                        !.holder = IF @ = c THEN Idle ELSE @,
                        !.hurt = @ \/ ~ok \/ ~s.mapped])
    /\ Next1(c, IF u.op # "put" THEN [u EXCEPT !.pc = "done"]
                ELSE IF s.mapped THEN [u EXCEPT !.pc = "seek"] ELSE Fail(u))
    /\ Quiet /\ Fault(ok) /\ NoBlob

\* Mutant of SeekStart: the file is read without its lock.
SeekStartUnlocked(c) ==
    /\ On(c, "seek")
    /\ Set(c, [Sess(c) EXCEPT !.pos = 0])
    /\ Next1(c, [up[c] EXCEPT !.pc = "read"])
    /\ Quiet /\ NoFault /\ NoBlob

SeekStart(c) ==
    /\ On(c, "seek") /\ Free(c)
    /\ Set(c, [Sess(c) EXCEPT !.holder = c, !.pos = 0])
    /\ Next1(c, [up[c] EXCEPT !.pc = "read"])
    /\ Quiet /\ NoFault /\ NoBlob

\* The file is hashed; when the digest is not the wanted one the session is
\* cancelled.
ReadBack(c) ==
    LET u == up[c]  s == Sess(c)  good == s.data = Whole IN
    /\ On(c, "read")
    /\ Set(c, [s EXCEPT !.holder = Idle, !.pos = Len(s.data), !.mapped = @ /\ good])
    /\ Next1(c, [u EXCEPT !.ok = good,
                          !.pc = IF good THEN "store" ELSE IF s.mapped THEN "unlink" ELSE "forget"])
    /\ Quiet /\ NoFault /\ NoBlob

\* The file cannot be read: its cursor stays where the reading stopped.
ReadFails(c) ==
    LET s == Sess(c) IN
    /\ On(c, "read")
    /\ \E p \in 0..Len(s.data) : Set(c, [s EXCEPT !.holder = Idle, !.pos = p, !.torn = TRUE])
    /\ Next1(c, Fail(up[c]))
    /\ Quiet /\ Fault(FALSE) /\ NoBlob

\* put_if_absent, and out of the map.
StoreUpload(c) == \E ok \in BOOLEAN :
    LET u == up[c] IN
    /\ On(c, "store")
    /\ Next1(c, IF ok THEN [u EXCEPT !.pc = "forget"] ELSE Fail(u))
    /\ Set(c, [Sess(c) EXCEPT !.mapped = @ /\ ~ok])
    /\ blob' = IF ok THEN blob \cup {u.digest} ELSE blob
    /\ blamed' = IF ok THEN blamed \ {u.digest} ELSE blamed
    /\ Quiet /\ Fault(ok)

\* Mutant of ForgetRecord: the record is left behind.
ForgetRecordNot(c) ==
    LET u == up[c] IN
    /\ On(c, "forget")
    /\ Next1(c, [u EXCEPT !.pc = IF u.op = "put" /\ u.ok THEN "unlink" ELSE "done"])
    /\ UNCHANGED sess /\ Quiet /\ NoFault /\ NoBlob

\* A commit forgets the record and unlinks the file; a cancel does it the
\* other way round.
ForgetRecord(c) == \E ok \in BOOLEAN :
    LET u == up[c] IN
    /\ On(c, "forget")
    /\ Set(c, [Sess(c) EXCEPT !.record = IF ok THEN NoRow ELSE @, !.hurt = @ \/ ~ok])
    /\ Next1(c, [u EXCEPT !.pc = IF u.op = "put" /\ u.ok THEN "unlink" ELSE "done"])
    /\ Quiet /\ Fault(ok) /\ NoBlob

UnlinkFile(c) ==
    LET u == up[c] IN
    /\ On(c, "unlink")
    /\ Set(c, [Sess(c) EXCEPT !.linked = FALSE])
    /\ Next1(c, [u EXCEPT !.pc = IF u.op = "put" /\ u.ok THEN "done" ELSE "forget"])
    /\ Quiet /\ NoFault /\ NoBlob

ReplyUpload(c) ==
    /\ On(c, "done")
    /\ Next1(c, Idle)
    /\ UNCHANGED sess /\ Quiet /\ NoFault /\ NoBlob

UploadStep(c) ==
    \/ CheckUpload(c) \/ WriteChunk(c) \/ BumpSize(c) \/ SaveRecord(c) \/ SeekStart(c)
    \/ ReadBack(c) \/ ReadFails(c) \/ StoreUpload(c) \/ ForgetRecord(c) \/ UnlinkFile(c)
    \/ ReplyUpload(c)

(***************************************************************************)
(* Interruptions.                                                          *)
(***************************************************************************)
\* A task dropped with the lock leaves the file where it was.
DropUpload(c) ==
    LET u == up[c]  s == Sess(c) IN
    /\ up[c] # Idle /\ up[c].pc # "done" /\ crashes > 0
    /\ Set(c, [s EXCEPT !.holder = IF @ = c THEN Idle ELSE @,
                        !.spilt = @ \/ (u.pc = "bump" /\ u.chunk # <<>>),
                        !.torn = @ \/ u.pc = "read",
                        !.hurt = @ \/ u.pc \in {"record", "forget", "unlink"}])
    /\ Next1(c, Idle)
    /\ crashes' = crashes - 1 /\ broken' = TRUE
    /\ UNCHANGED <<uploads, format, row, req, gc, dirty, calls, faults, collections>> /\ NoBlob

\* Mutant of Restored: the record is read without looking whether it is there.
RestoredBlindly(s) ==
    [s EXCEPT !.mapped = s.linked, !.pos = 0, !.holder = Idle, !.size = s.record]

\* restore: a record whose file opens is a session again, with the cursor at
\* the start; a record without a file is deleted.
Restored(s) ==
    LET back == s.record # NoRow /\ s.linked IN
    [s EXCEPT !.mapped = back, !.pos = 0, !.holder = Idle,
              !.record = IF back THEN @ ELSE NoRow,
              !.size = IF back THEN s.record ELSE @,
              !.torn = @ \/ s.data # <<>>,
              !.hurt = s.linked /\ ~back]

RestoreUploads ==
    /\ sess' = [s \in Sessions |-> Restored(sess[s])]
    /\ up' = [c \in Clients |-> Idle]
    /\ UNCHANGED uploads

UploadInit ==
    /\ sess = [s \in Sessions |-> NewSession]
    /\ up = [c \in Clients |-> Idle]

(***************************************************************************)
(* Properties.                                                             *)
(***************************************************************************)
UploadTypeOK ==
    /\ sess \in [Sessions -> Session]
    /\ up \in [Clients -> Task \cup {Idle}]
    /\ uploads \in Nat

\* Between two requests the cursor of a session is at the end of its file, so
\* that no acknowledged chunk is written over, in whatever order requests came,
\* unless a task was dropped or failed while it was reading the file, or the
\* server was restarted.  The file is then the sequence of the acknowledged chunks, and the
\* counter its length, unless a body failed or a task was dropped between the
\* copy and the count: such bytes stay in the file, ahead of the counter.
UploadIntact ==
    \A s \in Sessions : sess[s].mapped /\ sess[s].holder = Idle /\ ~sess[s].torn =>
        /\ sess[s].pos = Len(sess[s].data)
        /\ sess[s].size = Len(sess[s].counted) /\ sess[s].size <= sess[s].pos
        /\ ~sess[s].spilt => sess[s].data = sess[s].counted

\* A session at rest is all there or all gone: map, file and record agree, and
\* the record holds the size, unless a storage call failed, a task was dropped
\* in between, or a late PATCH saved the record of a session that had ended.
SessionWhole ==
    \A s \in Sessions :
        sess[s].used /\ ~sess[s].hurt /\ (\A c \in Clients : up[c] # Idle => up[c].sid # s) =>
        IF sess[s].mapped THEN sess[s].linked /\ sess[s].record = sess[s].size
                          ELSE ~sess[s].linked /\ sess[s].record = NoRow

\* A chunk that names its offset is written at that offset, unless another
\* request was working on the session at the same time, or the file holds bytes
\* that were never counted: after a body that failed, the offset a client asks
\* for and is given is the counter's, and its retry lands behind those bytes.
ChunkInPlace ==
    \A c \in Clients :
        up[c] # Idle /\ up[c].op \in {"patch", "put"} /\ up[c].start # Unknown /\ ~up[c].met
        /\ up[c].pc \notin {"check", "lock"} /\ up[c].ok /\ ~Sess(c).torn /\ ~Sess(c).spilt
            => up[c].at = up[c].start
===============================================================================
