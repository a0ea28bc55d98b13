-------------------------- MODULE RepoView_proofs --------------------------
(***************************************************************************)
(* Proofs about RepoView for every set of bookmarks and clients and every  *)
(* number of requests and edits: the types, the serialization of imports,  *)
(* that no acknowledged edit is lost, and that both doors show the same    *)
(* repository once requests come one after the other.                      *)
(*                                                                         *)
(* Sections: commits and targets; types; the import lock; what commits     *)
(* lead to; merging; what is known of an edit (EditInv), and each action   *)
(* in turn; lengths; requests one after the other (SoloInv).               *)
(***************************************************************************)
EXTENDS RepoView, TLAPS, SequenceTheorems, WellFoundedInduction

Requests == [at : Stages, kind : Kinds, snap : Views, new : Views,
             adds : SUBSET (Bookmarks \X Edits)]

-----------------------------------------------------------------------------
(* Commits and targets. *)

LEMMA TargetOps ==
    /\ Absent \in Targets
    /\ \A e \in Edits : <<<<e>>>> \in Targets
    /\ \A c \in Targets, e \in Edits : Append(c, <<e>>) \in Targets
    /\ \A c \in Targets : \A n \in 1..Len(c) : SubSeq(c, 1, n) \in Targets
<1>1. Absent \in Targets /\ \A e \in Edits : <<e>> \in Seq(Edits)
  BY DEF Targets, Absent
<1>2. \A e \in Edits : <<<<e>>>> \in Targets
  BY <1>1 DEF Targets
<1>3. \A c \in Targets, e \in Edits : Append(c, <<e>>) \in Targets
  BY <1>1 DEF Targets
<1>4. ASSUME NEW c \in Targets, NEW n \in 1..Len(c) PROVE SubSeq(c, 1, n) \in Targets
  BY SubSeqProperties DEF Targets
<1> QED BY <1>1, <1>2, <1>3, <1>4

LEMMA AmendedType ==
    ASSUME NEW c \in Targets, c # Absent, NEW e \in Edits PROVE Amended(c, e) \in Targets
<1>1. Len(c) \in 1..Len(c) /\ c[Len(c)] \in Seq(Edits)
  BY DEF Targets, Absent
<1>2. Append(c[Len(c)], e) \in Seq(Edits)
  BY <1>1
<1> QED BY <1>1, <1>2 DEF Amended, Targets

LEMMA RewriteType ==
    ASSUME NEW t \in SUBSET Targets, NEW p \in Targets, NEW q \in Targets
    PROVE  Rewrite(t, p, q) \subseteq Targets
<1>1. ASSUME NEW c \in t, IsAncestor(p, c)
      PROVE  q \o SubSeq(c, Len(p) + 1, Len(c)) \in Targets
  <2>1. SubSeq(c, Len(p) + 1, Len(c)) \in Targets
    BY <1>1, SubSeqProperties DEF Targets, IsAncestor
  <2> QED BY <2>1 DEF Targets
<1> QED BY <1>1 DEF Rewrite

LEMMA TipType == ASSUME NEW t \in SUBSET Targets, IsNormal(t) 
    PROVE  Tip(t) \in Targets \ {Absent}
BY DEF IsNormal, Tip

LEMMA Merge3Type ==
    ASSUME NEW b \in SUBSET Targets, NEW l \in SUBSET Targets, NEW r \in SUBSET Targets
    PROVE  Merge3(b, l, r) \in SUBSET Targets
BY DEF Merge3

LEMMA MergedType ==
    ASSUME TypeOK, NEW c \in Clients
    PROVE  /\ Merged(c, view, "view") \in [Bookmarks -> SUBSET Targets]
           /\ Merged(c, seen, "seen") \in [Bookmarks -> SUBSET Targets]
<1>1. /\ req[c].snap \in Views /\ req[c].new \in Views
      /\ view \in [Bookmarks -> SUBSET Targets] /\ seen \in [Bookmarks -> SUBSET Targets]
  BY DEF TypeOK, Views, Now
<1>2. \A b \in Bookmarks :
         /\ Merge3(req[c].snap["view"][b], view[b], req[c].new["view"][b]) \in SUBSET Targets
         /\ Merge3(req[c].snap["seen"][b], seen[b], req[c].new["seen"][b]) \in SUBSET Targets
  BY <1>1, Merge3Type DEF Views
<1> QED BY <1>2 DEF Merged

-----------------------------------------------------------------------------
(* Types. *)

LEMMA BlankType == Idle \in Requests
BY TargetOps DEF Idle, Blank, Requests, Stages, Kinds, Views

LEMMA BeginType ==
    ASSUME TypeOK, NEW c \in Clients, NEW nv \in [Bookmarks -> SUBSET Targets],
           NEW adds \in SUBSET (Bookmarks \X Edits), Begin(c, nv, adds),
           dropped' \subseteq Bookmarks \X Edits, edits' \in Edits
    PROVE  TypeOK'
<1>1. Now \in Views /\ [view |-> nv, seen |-> seen] \in Views
  BY DEF TypeOK, Now, Views
<1>2. req' \in [Clients -> Requests]
  BY <1>1 DEF Begin, TypeOK, Requests, Stages, Kinds
<1>3. requests' \in Nat /\ overlapped' \in BOOLEAN
  BY DEF Begin, Arrive, TypeOK
<1>4. Now' = Now /\ UNCHANGED <<ref, head, lock, acked, faulty>>
  BY DEF Begin, jj, Now
<1>5. (lock \in Clients => Importing(lock))'
  <2>1. lock # c
    BY RepoViewAssumption DEF Begin, Arrive, TypeOK, Importing
  <2> QED BY <1>4, <2>1 DEF Begin, TypeOK, Importing
<1> QED BY <1>1, <1>2, <1>3, <1>4, <1>5 DEF TypeOK, Requests

LEMMA WriteType ==
    ASSUME TypeOK, NEW c \in Clients, Write(c) PROVE TypeOK'
<1>0. view \in [Bookmarks -> SUBSET Targets] /\ dropped \subseteq Bookmarks \X Edits
      /\ edits \in Edits
  BY DEF TypeOK, Now, Views
<1>1. ASSUME NEW nv PROVE dropped \cup Forgets(nv) \subseteq Bookmarks \X Edits
  BY <1>0 DEF Forgets
<1>2. ASSUME NEW b \in Bookmarks, SetBookmark(c, b) PROVE TypeOK'
  <2>0. PICK o \in Bookmarks : \E s \in view[o] : \E n \in 1..Len(s) :
           /\ Begin(c, [view EXCEPT ![b] = {SubSeq(s, 1, n)}], {})
           /\ dropped' = dropped \cup Forgets([view EXCEPT ![b] = {SubSeq(s, 1, n)}])
           /\ edits' = edits
    BY <1>2 DEF SetBookmark
  <2>1. PICK s \in view[o] : \E n \in 1..Len(s) :
           /\ Begin(c, [view EXCEPT ![b] = {SubSeq(s, 1, n)}], {})
           /\ dropped' = dropped \cup Forgets([view EXCEPT ![b] = {SubSeq(s, 1, n)}])
           /\ edits' = edits
    BY <2>0
  <2>2. PICK n \in 1..Len(s) :
           /\ Begin(c, [view EXCEPT ![b] = {SubSeq(s, 1, n)}], {})
           /\ dropped' = dropped \cup Forgets([view EXCEPT ![b] = {SubSeq(s, 1, n)}])
           /\ edits' = edits
    BY <2>1
  <2> DEFINE nv == [view EXCEPT ![b] = {SubSeq(s, 1, n)}]
  <2>3. nv \in [Bookmarks -> SUBSET Targets]
    BY <1>0, TargetOps
  <2>4. Begin(c, nv, {}) /\ dropped' = dropped \cup Forgets(nv) /\ edits' = edits
    BY <2>2
  <2> HIDE DEF nv
  <2> QED BY <1>0, <1>1, <2>3, <2>4, BeginType
<1>3. ASSUME NEW b \in Bookmarks, DeleteBookmark(c, b) PROVE TypeOK'
  <2> DEFINE nv == [view EXCEPT ![b] = {Absent}]
  <2>1. nv \in [Bookmarks -> SUBSET Targets]
    BY <1>0, TargetOps
  <2>2. Begin(c, nv, {}) /\ dropped' = dropped \cup Forgets(nv) /\ edits' = edits
    BY <1>3 DEF DeleteBookmark
  <2> HIDE DEF nv
  <2> QED BY <1>0, <1>1, <2>1, <2>2, BeginType
<1>4. ASSUME NEW b \in Bookmarks, CommitEdits(c, b) PROVE TypeOK'
  <2>1. Tip(view[b]) \in Targets \ {Absent}
    BY <1>0, <1>4, TipType DEF CommitEdits
  <2>2. edits' \in Edits /\ {<<b, edits'>>} \in SUBSET (Bookmarks \X Edits)
        /\ dropped' \subseteq Bookmarks \X Edits
    BY <1>0, <1>4, RepoViewAssumption DEF CommitEdits, Edits
  <2>3. [view EXCEPT ![b] = {Append(Tip(view[b]), <<edits'>>)}]
          \in [Bookmarks -> SUBSET Targets]
    BY <1>0, <2>1, <2>2, TargetOps
  <2>4. [o \in Bookmarks |-> Rewrite(view[o], Tip(view[b]), Amended(Tip(view[b]), edits'))]
          \in [Bookmarks -> SUBSET Targets]
    BY <1>0, <2>1, <2>2, AmendedType, RewriteType
  <2> QED BY <1>4, <2>2, <2>3, <2>4, BeginType DEF CommitEdits
<1>5. ASSUME NEW s \in Bookmarks, NEW d \in Bookmarks, RebaseBookmark(c, s, d) PROVE TypeOK'
  <2> DEFINE source == Tip(view[s])
             dest   == Tip(view[d])
             moved  == Append(dest, source[Len(source)])
             nv     == [o \in Bookmarks |->
                          IF o = d THEN {moved} ELSE Rewrite(view[o], source, moved)]
  <2>1. source \in Targets /\ dest \in Targets /\ source # Absent
    BY <1>0, <1>5, TipType DEF RebaseBookmark
  <2>3. source[Len(source)] \in Seq(Edits)
    BY <2>1 DEF Targets, Absent
  <2>4. moved \in Targets
    BY <2>1, <2>3 DEF Targets
  <2>5. nv \in [Bookmarks -> SUBSET Targets]
    BY <1>0, <2>1, <2>4, RewriteType
  <2>6. Begin(c, nv, {}) /\ dropped' = dropped \cup Forgets(nv) /\ edits' = edits
    BY <1>5 DEF RebaseBookmark
  <2> HIDE DEF nv
  <2> QED BY <1>0, <1>1, <2>5, <2>6, BeginType
<1> QED BY <1>2, <1>3, <1>4, <1>5 DEF Write

LEMMA PushType ==
    ASSUME TypeOK, StageInv, NEW c \in Clients, Push(c) PROVE TypeOK'
<1> USE DEF TypeOK
<1>1. ASSUME NEW b \in Bookmarks, Receive(c, b) PROVE TypeOK'
  <2>1. /\ edits' \in Edits /\ ref' \in [Bookmarks -> Targets]
        /\ acked' \subseteq Bookmarks \X Edits /\ dropped' \subseteq Bookmarks \X Edits
    <3>1. ASSUME NEW v \in Targets, Move(b, v)
          PROVE  ref' \in [Bookmarks -> Targets] /\ dropped' \subseteq Bookmarks \X Edits
      BY <3>1 DEF Move, Content
    <3>2. CASE edits < MaxEdits /\ edits' = edits + 1
      <4>1. edits' \in Edits
        BY <3>2, RepoViewAssumption DEF Edits
      <4>2. \A o \in Bookmarks : Append(ref[o], <<edits'>>) \in Targets /\ ref[o] \in Targets
        BY <4>1, TargetOps
      <4>3. ref[b] # Absent => Amended(ref[b], edits') \in Targets
        BY <4>1, AmendedType
      <4>4. acked' \subseteq Bookmarks \X Edits
        BY <1>1, <4>1 DEF Receive
      <4> QED BY <1>1, <3>1, <4>1, <4>2, <4>3, <4>4, TargetOps DEF Receive
    <3>3. CASE UNCHANGED <<edits, acked>>
      <4>1. \E v \in Targets : Move(b, v)
        <5>1. edits + 1 # edits
          BY DEF Edits
        <5> QED BY <1>1, <3>3, <5>1, TargetOps DEF Receive
      <4> QED BY <3>1, <3>3, <4>1
    <3> QED BY <1>1, <3>2, <3>3 DEF Receive
  <2>2. req' \in [Clients -> Requests]
    <3>1. [req[c] EXCEPT !.at = "waiting", !.kind = "push"] \in Requests
      BY DEF Requests, Stages, Kinds
    <3> QED BY <1>1, <3>1 DEF Receive, Requests
  <2>3. lock # c /\ requests' \in Nat /\ overlapped' \in BOOLEAN
    BY <1>1, RepoViewAssumption DEF Receive, Arrive, Importing
  <2>4. (lock \in Clients => Importing(lock))'
    BY <1>1, <2>3 DEF Receive, Importing
  <2>5. Now' = Now /\ UNCHANGED <<head, lock, faulty>>
    BY <1>1 DEF Receive, jj, Now
  <2> QED BY <2>1, <2>2, <2>3, <2>4, <2>5 DEF Requests
<1>2. ASSUME TakeLock(c) PROVE TypeOK'
  <2>1. Now' = Now
    BY <1>2 DEF TakeLock, jj, Now
  <2>2. req' \in [Clients -> Requests] /\ req'[c].at = "reading" /\ req'[c].kind = req[c].kind
    BY <1>2 DEF TakeLock, Requests, Stages
  <2>3. lock' = c /\ req[c].kind = "push" /\ req'[c].at \notin {"idle", "waiting"}
    BY <1>2, <2>2 DEF TakeLock, StageInv
  <2> QED BY <1>2, <2>1, <2>2, <2>3 DEF TakeLock, Importing, Requests, hist
<1>3. ASSUME ReadRefs(c) PROVE TypeOK'
  <2>1. Now' = Now
    BY <1>3 DEF ReadRefs, jj, Now
  <2>2. Imported(req[c].snap) \in Views
    <3>1. \A b \in Bookmarks : {ref[b]} \in SUBSET Targets
      BY DEF Views
    <3>2. ASSUME NEW b \in Bookmarks
          PROVE  Merge3(req[c].snap.seen[b], req[c].snap.view[b], {ref[b]}) \in SUBSET Targets
      <4>1. req[c].snap.seen[b] \in SUBSET Targets /\ req[c].snap.view[b] \in SUBSET Targets
        BY DEF Views
      <4> QED BY <3>1, <4>1, Merge3Type
    <3> QED BY <3>1, <3>2 DEF Imported, Views
  <2>3. req' \in [Clients -> Requests]
    <3>1. PICK n : n = Imported(req[c].snap)
      OBVIOUS
    <3>2. [req[c] EXCEPT !.at = "commit", !.new = n] \in Requests
      BY <2>2, <3>1 DEF Requests, Stages
    <3>3. req' = [req EXCEPT ![c] = [req[c] EXCEPT !.at = "commit", !.new = n]]
      BY <1>3, <3>1 DEF ReadRefs
    <3> QED BY <3>2, <3>3 DEF Requests
  <2>4. (lock \in Clients => Importing(lock))'
    BY <1>3 DEF ReadRefs, Importing
  <2> QED BY <1>3, <2>1, <2>3, <2>4 DEF ReadRefs, Requests, hist
<1> QED BY <1>1, <1>2, <1>3 DEF Push

LEMMA TransactionType ==
    ASSUME TypeOK, StageInv, NEW c \in Clients, Transaction(c) PROVE TypeOK'
<1> USE DEF TypeOK
<1>1. ASSUME CommitTx(c) PROVE TypeOK'
  <2>1. Now' \in Views
    BY <1>1, MergedType DEF CommitTx, Now, Views
  <2>2. [Idle EXCEPT !.at = "project", !.kind = req[c].kind] \in Requests
    BY BlankType DEF Requests, Stages
  <2>3. req' \in [Clients -> Requests] /\ (lock \in Clients => Importing(lock))'
    BY <1>1, <2>2, BlankType DEF CommitTx, Requests, Importing
  <2>4. acked' \subseteq Bookmarks \X Edits /\ dropped' \subseteq Bookmarks \X Edits
    BY <1>1 DEF CommitTx, Relinquished
  <2> QED BY <1>1, <2>1, <2>3, <2>4 DEF CommitTx, Requests
<1>2. ASSUME OpenProject(c) PROVE TypeOK'
  <2>1. Now' = Now
    BY <1>2 DEF OpenProject, jj, Now
  <2>2. req' \in [Clients -> Requests]
    <3>1. [req[c] EXCEPT !.at = "export", !.snap = Now] \in Requests
      BY DEF Requests, Stages
    <3>2. req' = [req EXCEPT ![c] = [req[c] EXCEPT !.at = "export", !.snap = Now]]
      BY <1>2 DEF OpenProject
    <3> QED BY <3>1, <3>2 DEF Requests
  <2>3. (lock \in Clients => Importing(lock))'
    BY <1>2 DEF OpenProject, Importing
  <2> QED BY <1>2, <2>1, <2>2, <2>3 DEF OpenProject, Requests, hist
<1>3. ASSUME ExportRefs(c) PROVE TypeOK'
  <2> DEFINE s == req[c].snap
             new == [view |-> s.view, seen |->
                       [b \in Bookmarks |-> IF Exports(s, b) THEN s.view[b] ELSE s.seen[b]]]
  <2>1. Now' = Now
    BY <1>3 DEF ExportRefs, jj, Now
  <2>2. new \in Views
    BY DEF Views
  <2>3. req' = [req EXCEPT ![c].at = "close", ![c].new = new]
    BY <1>3 DEF ExportRefs
  <2> HIDE DEF new
  <2>4. [req[c] EXCEPT !.at = "close", !.new = new] \in Requests
    BY <2>2 DEF Requests, Stages
  <2>5. req' \in [Clients -> Requests]
    BY <2>3, <2>4 DEF Requests
  <2>8. req'[c].at = "close" /\ req'[c].kind = req[c].kind
        /\ \A d \in Clients \ {c} : req'[d] = req[d]
    BY <2>3 DEF Requests
  <2>9. (lock \in Clients => Importing(lock))'
    BY <1>3, <2>8 DEF ExportRefs, Importing
  <2>6. ASSUME NEW b \in Bookmarks, Exports(s, b) PROVE Tip(s.view[b]) \in Targets
    BY <2>6 DEF Exports, Tip, Views
  <2>7. ref' \in [Bookmarks -> Targets]
    BY <1>3, <2>6 DEF ExportRefs
  <2> QED BY <1>3, <2>1, <2>5, <2>7, <2>9 DEF ExportRefs, Requests, hist
<1>4. ASSUME CloseExport(c) PROVE TypeOK'
  <2>1. Now' \in Views
    BY <1>4, MergedType DEF CloseExport, Now, Views
  <2>2. head' \in Bookmarks
    BY <1>4, RepoViewAssumption DEF CloseExport
  <2>3. /\ req' \in [Clients -> Requests] /\ lock' \in Clients \cup {NoClient}
        /\ (lock \in Clients => Importing(lock))'
    BY <1>4, BlankType, RepoViewAssumption DEF CloseExport, Release, Requests, Importing
  <2> QED BY <1>4, <2>1, <2>2, <2>3 DEF CloseExport, Requests, hist
<1> QED BY <1>1, <1>2, <1>3, <1>4 DEF Transaction

LEMMA FaultType ==
    ASSUME TypeOK, StageInv, Restart \/ \E c \in Clients : Fail(c) \/ Disconnect(c)
    PROVE  TypeOK'
<1> USE DEF TypeOK
<1>1. ASSUME NEW c \in Clients, Fail(c) PROVE TypeOK'
  <2>1. Now' = Now
    BY <1>1 DEF Fail, jj, Now
  <2>2. /\ req' \in [Clients -> Requests] /\ lock' \in Clients \cup {NoClient}
        /\ (lock \in Clients => Importing(lock))'
    BY <1>1, BlankType, RepoViewAssumption DEF Fail, Release, Requests, Importing
  <2> QED BY <1>1, <2>1, <2>2 DEF Fail, Requests
<1>2. ASSUME NEW c \in Clients, Disconnect(c) PROVE TypeOK'
  <2>1. Now' = Now
    BY <1>2 DEF Disconnect, jj, Now
  <2>2. /\ req' \in [Clients -> Requests] /\ lock' \in Clients \cup {NoClient}
        /\ (lock \in Clients => Importing(lock))'
    BY <1>2, BlankType, RepoViewAssumption DEF Disconnect, Requests, Importing
  <2> QED BY <1>2, <2>1, <2>2 DEF Disconnect, Requests
<1>3. ASSUME Restart PROVE TypeOK'
  <2>1. Now' = Now
    BY <1>3 DEF Restart, jj, Now
  <2> QED BY <1>3, <2>1, BlankType, RepoViewAssumption DEF Restart, Requests
<1> QED BY <1>1, <1>2, <1>3

-----------------------------------------------------------------------------
(* The import lock. *)

LEMMA LockStep ==
    ASSUME TypeOK, StageInv, LockInv, [Next]_vars PROVE StageInv' /\ LockInv'
<1>0. req \in [Clients -> Requests]
  BY DEF TypeOK, Requests
<1> USE DEF StageInv, LockInv, Importing, Requests
<1>1. ASSUME NEW c \in Clients, Write(c) PROVE StageInv' /\ LockInv'
  <2>1. PICK nv, adds : Begin(c, nv, adds)
    BY <1>1 DEF Write, SetBookmark, DeleteBookmark, CommitEdits, RebaseBookmark
  <2>2. /\ req'[c].at = "commit" /\ req'[c].kind = "write"
        /\ \A d \in Clients \ {c} : req'[d] = req[d]
        /\ UNCHANGED <<lock, faulty>>
    BY <1>0, <2>1 DEF Begin
  <2> QED BY <2>2
<1>2. ASSUME NEW c \in Clients, NEW b \in Bookmarks, Receive(c, b)
      PROVE  StageInv' /\ LockInv'
  BY <1>0, <1>2 DEF Receive
<1>3. ASSUME NEW c \in Clients, TakeLock(c) PROVE StageInv' /\ LockInv'
  BY <1>0, <1>3, RepoViewAssumption DEF TakeLock, hist
<1>4. ASSUME NEW c \in Clients, ReadRefs(c) PROVE StageInv' /\ LockInv'
  BY <1>0, <1>4 DEF ReadRefs, hist
<1>5. ASSUME NEW c \in Clients, Transaction(c) PROVE StageInv' /\ LockInv'
  <2>1. CASE CommitTx(c)
    BY <1>0, <2>1 DEF CommitTx, Idle
  <2>2. CASE OpenProject(c)
    BY <1>0, <2>2 DEF OpenProject, hist
  <2>3. CASE ExportRefs(c)
    <3>1. req'[c].at = "close" /\ req'[c].kind = req[c].kind /\ req[c].at = "export"
          /\ \A d \in Clients \ {c} : req'[d] = req[d]
      BY <1>0, <2>3 DEF ExportRefs
    <3> QED BY <1>0, <2>3, <3>1 DEF ExportRefs, hist
  <2>4. CASE CloseExport(c)
    BY <1>0, <2>4 DEF CloseExport, Release, Idle, hist
  <2> QED BY <1>5, <2>1, <2>2, <2>3, <2>4 DEF Transaction
<1>6. ASSUME NEW c \in Clients, Fail(c) \/ Disconnect(c) PROVE StageInv' /\ LockInv'
  BY <1>0, <1>6 DEF Fail, Disconnect, Idle
<1>7. CASE Restart
  BY <1>7 DEF Restart, Idle
<1>8. CASE UNCHANGED vars
  BY <1>8 DEF vars, hist
<1> QED BY <1>1, <1>2, <1>3, <1>4, <1>5, <1>6, <1>7, <1>8 DEF Next, Push

-----------------------------------------------------------------------------
(* The inductive invariant. *)

LEMMA InitIInv == Init => IInv
<1> SUFFICES ASSUME Init PROVE IInv
  OBVIOUS
<1>1. 1 \in Edits
  BY RepoViewAssumption DEF Edits
<1>2. \A b \in Bookmarks : Initial(b) \in Targets
  BY <1>1, TargetOps DEF Initial
<1>3. Now \in Views
  BY <1>2 DEF Init, Now, Views
<1>4. req \in [Clients -> Requests]
  BY BlankType DEF Init
<1>5. TypeOK
  <2>1. ref \in [Bookmarks -> Targets]
    BY <1>2 DEF Init
  <2>2. acked \subseteq Bookmarks \X Edits /\ dropped \subseteq Bookmarks \X Edits
    BY <1>1, RepoViewAssumption DEF Init
  <2>3. /\ head \in Bookmarks /\ lock = NoClient /\ NoClient \notin Clients
        /\ edits \in Edits /\ requests \in Nat
        /\ overlapped \in BOOLEAN /\ faulty \in BOOLEAN
    BY <1>1, RepoViewAssumption DEF Init
  <2> QED BY <1>3, <1>4, <2>1, <2>2, <2>3 DEF TypeOK, Requests
<1> QED BY <1>5 DEF IInv, Init, StageInv, LockInv, Importing, Idle

LEMMA NextIInv == IInv /\ [Next]_vars => IInv'
<1> SUFFICES ASSUME IInv, [Next]_vars PROVE IInv'
  OBVIOUS
<1>1. TypeOK'
  <2>1. CASE UNCHANGED vars
    BY <2>1 DEF IInv, vars, jj, hist, TypeOK, Now, Importing
  <2>2. CASE Next
    BY <2>2, WriteType, PushType, TransactionType, FaultType DEF Next, IInv
  <2> QED BY <2>1, <2>2
<1> QED BY <1>1, LockStep DEF IInv

(* The inductive invariant holds in every reachable state: which stages a  *)
(* request can be in, and who holds the import lock.                       *)
THEOREM Invariance == Spec => []IInv
BY InitIInv, NextIInv, PTL DEF Spec

(* Views, refs, snapshots and requests keep their types, and the import    *)
(* lock is only ever held by a push that is importing.                     *)
THEOREM TypeCorrect == Spec => []TypeOK
<1>1. IInv => TypeOK
  BY DEF IInv
<1> QED BY <1>1, Invariance, PTL

(* Pushes of a repository are imported one at a time unless a client goes  *)
(* away or a request fails, for any number of clients.                     *)
THEOREM ImportsAreSerialized == Spec => []ImportsSerialized
<1>1. IInv => ImportsSerialized
  BY DEF IInv, LockInv, ImportsSerialized
<1> QED BY <1>1, Invariance, PTL

-----------------------------------------------------------------------------
(* What commits lead to. *)

Holds(t, e) == \E s \in t : e \in Content(s)

LEMMA HoldsContent == \A t, e : e \in ContentOf(t) <=> Holds(t, e)
BY DEF ContentOf, Holds

LEMMA ContentGrows ==
    ASSUME NEW c \in Targets, NEW d \in Targets, Len(c) <= Len(d),
           \A i \in 1..Len(c) : /\ Len(c[i]) <= Len(d[i])
                                /\ \A k \in 1..Len(c[i]) : d[i][k] = c[i][k]
    PROVE  Content(c) \subseteq Content(d)
<1>1. ASSUME NEW e \in Content(c) PROVE e \in Content(d)
  <2>1. PICK i \in DOMAIN c : \E k \in DOMAIN c[i] : c[i][k] = e
    BY <1>1 DEF Content
  <2>2. PICK k \in DOMAIN c[i] : c[i][k] = e
    BY <2>1
  <2>3. /\ i \in 1..Len(c) /\ Len(c) \in Nat /\ Len(d) \in Nat
        /\ DOMAIN d = 1..Len(d) /\ c[i] \in Seq(Edits)
    BY DEF Targets
  <2>4. i \in DOMAIN d /\ d[i] \in Seq(Edits)
    BY <2>3 DEF Targets
  <2>5. k \in 1..Len(c[i]) /\ Len(c[i]) <= Len(d[i])
    BY <2>2, <2>3
  <2>6. k \in DOMAIN d[i] /\ d[i][k] = e
    BY <2>2, <2>3, <2>4, <2>5
  <2> QED BY <1>1, <2>4, <2>6 DEF Content
<1> QED BY <1>1

LEMMA AncestorContent ==
    ASSUME NEW c \in Targets, NEW d \in Targets, IsAncestor(c, d)
    PROVE  Content(c) \subseteq Content(d)
<1>1. \A i \in 1..Len(c) : d[i] = c[i]
  BY SubSeqProperties DEF IsAncestor, Targets
<1>2. \A i \in 1..Len(c) : c[i] \in Seq(Edits)
  BY DEF Targets
<1> QED BY <1>1, <1>2, ContentGrows DEF IsAncestor

LEMMA AppendContent ==
    ASSUME NEW c \in Targets, NEW e \in Edits
    PROVE  Content(c) \subseteq Content(Append(c, <<e>>)) /\ e \in Content(Append(c, <<e>>))
<1> DEFINE d == Append(c, <<e>>)
<1>1. d \in Targets /\ Len(d) = Len(c) + 1 /\ Len(c) \in Nat
  BY TargetOps DEF Targets
<1>2. \A i \in 1..Len(c) : d[i] = c[i] /\ c[i] \in Seq(Edits)
  BY DEF Targets
<1>3. d[Len(d)] = <<e>> /\ Len(d) \in DOMAIN d
  BY <1>1 DEF Targets
<1> HIDE DEF d
<1>4. Content(c) \subseteq Content(d)
  BY <1>1, <1>2, ContentGrows
<1>5. 1 \in DOMAIN <<e>> /\ <<e>>[1] = e
  OBVIOUS
<1>6. e \in Content(d)
  BY <1>3, <1>5 DEF Content
<1> QED BY <1>4, <1>6 DEF d

LEMMA AmendedIs ==
    ASSUME NEW c \in Targets, c # Absent, NEW e \in Edits
    PROVE  /\ Amended(c, e) \in Targets /\ Len(Amended(c, e)) = Len(c)
           /\ Len(c) \in 1..Len(c)
           /\ \A i \in 1..Len(c) : i # Len(c) => Amended(c, e)[i] = c[i]
           /\ Amended(c, e)[Len(c)] = Append(c[Len(c)], e)
<1>1. Len(c) \in 1..Len(c)
  BY DEF Targets, Absent
<1> QED BY <1>1, AmendedType DEF Amended, Targets

LEMMA AmendedContent ==
    ASSUME NEW c \in Targets, c # Absent, NEW e \in Edits
    PROVE  Content(c) \subseteq Content(Amended(c, e)) /\ e \in Content(Amended(c, e))
<1>1. \A i \in 1..Len(c) : c[i] \in Seq(Edits)
  BY DEF Targets
<1> DEFINE d == Amended(c, e)
<1>2. /\ d \in Targets /\ Len(d) = Len(c) /\ Len(c) \in 1..Len(c)
      /\ \A i \in 1..Len(c) : i # Len(c) => d[i] = c[i]
      /\ d[Len(c)] = Append(c[Len(c)], e)
  BY AmendedIs
<1> HIDE DEF d
<1>3. ASSUME NEW i \in 1..Len(c)
      PROVE  Len(c[i]) <= Len(d[i]) /\ \A k \in 1..Len(c[i]) : d[i][k] = c[i][k]
  <2>1. PICK s : s = c[i]
    OBVIOUS
  <2>2. d[i] \in {s, Append(s, e)} /\ s \in Seq(Edits)
    BY <1>1, <1>2, <2>1
  <2>3. Len(s) <= Len(d[i]) /\ \A k \in 1..Len(s) : d[i][k] = s[k]
    BY <2>2
  <2> QED BY <2>1, <2>3
<1>7. Len(c) \in Nat
  BY DEF Targets
<1>4. Content(c) \subseteq Content(d)
  BY <1>2, <1>3, <1>7, ContentGrows
<1> DEFINE last == d[Len(d)]
<1>5. Len(d) \in DOMAIN d /\ last \in Seq(Edits) /\ Len(last) \in DOMAIN last /\ last[Len(last)] = e
  BY <1>1, <1>2 DEF Targets
<1> HIDE DEF last
<1>6. e \in Content(d)
  BY <1>5 DEF Content, last
<1> QED BY <1>4, <1>6 DEF d

LEMMA RewrittenContent ==
    ASSUME NEW p \in Targets, p # Absent, NEW e \in Edits, NEW c \in Targets, IsAncestor(p, c)
    PROVE  LET d == Amended(p, e) \o SubSeq(c, Len(p) + 1, Len(c))
           IN  Content(c) \subseteq Content(d)
<1> DEFINE q == Amended(p, e)
           rest == SubSeq(c, Len(p) + 1, Len(c))
           d == q \o rest
<1>1. /\ q \in Targets /\ Len(q) = Len(p) /\ Len(p) \in 1..Len(p)
      /\ \A i \in 1..Len(p) : i # Len(p) => q[i] = p[i]
      /\ q[Len(p)] = Append(p[Len(p)], e)
  BY AmendedIs
<1>2. Len(p) <= Len(c) /\ \A i \in 1..Len(p) : c[i] = p[i]
  BY SubSeqProperties DEF IsAncestor, Targets
<1>3. /\ rest \in Targets /\ Len(rest) = Len(c) - Len(p)
      /\ \A i \in 1..Len(rest) : rest[i] = c[Len(p) + i]
  BY <1>2, SubSeqProperties DEF Targets
<1> HIDE DEF q, rest
<1>4. /\ d \in Targets /\ Len(d) = Len(c)
      /\ \A i \in 1..Len(p) : d[i] = q[i]
      /\ \A i \in Len(p)+1..Len(c) : d[i] = rest[i - Len(p)]
  <2>1. Len(p) \in Nat /\ Len(c) \in Nat /\ Len(rest) \in Nat
    BY <1>3 DEF Targets
  <2>2. PICK n, m, l : n = Len(p) /\ m = Len(c) /\ l = Len(rest)
    OBVIOUS
  <2>3. /\ n \in Nat /\ m \in Nat /\ l \in Nat /\ n + l = m
        /\ Len(q) = n
    BY <1>1, <1>2, <1>3, <2>1, <2>2
  <2>4. /\ d \in Targets /\ Len(d) = n + l
        /\ \A i \in 1..(n + l) : d[i] = IF i <= n THEN q[i] ELSE rest[i - n]
    <3> DEFINE X == Seq(Edits)
    <3>1. q \in Seq(X) /\ rest \in Seq(X)
      BY <1>1, <1>3 DEF Targets
    <3> HIDE DEF X
    <3>2. /\ d \in Seq(X) /\ Len(d) = Len(q) + Len(rest)
          /\ \A i \in 1..Len(q) + Len(rest) :
                d[i] = IF i <= Len(q) THEN q[i] ELSE rest[i - Len(q)]
      BY <3>1, ConcatProperties, Zenon
    <3> HIDE DEF d
    <3>3. d \in Targets
      BY <3>2 DEF X, Targets
    <3> QED BY <2>2, <2>3, <3>2, <3>3
  <2> HIDE DEF d
  <2>5. \A i \in 1..n : d[i] = q[i]
    BY <2>3, <2>4
  <2>6. \A i \in n+1..m : d[i] = rest[i - n]
    BY <2>3, <2>4
  <2> QED BY <2>2, <2>3, <2>4, <2>5, <2>6
<1> HIDE DEF d
<1>5. \A i \in 1..Len(c) : c[i] \in Seq(Edits)
  BY DEF Targets
<1>6. ASSUME NEW i \in 1..Len(c)
      PROVE  Len(c[i]) <= Len(d[i]) /\ \A k \in 1..Len(c[i]) : d[i][k] = c[i][k]
  <2>0. Len(c) \in Nat /\ Len(p) \in Nat
    BY DEF Targets
  <2>1. CASE i = Len(p)
    <3>1. d[i] = Append(c[i], e) /\ c[i] \in Seq(Edits)
      BY <1>1, <1>2, <1>4, <1>5, <2>1
    <3> QED BY <3>1
  <2>2. CASE i < Len(p)
    <3>1. d[i] = c[i]
      BY <1>1, <1>2, <1>4, <2>0, <2>2
    <3> QED BY <1>5, <3>1
  <2>3. CASE i > Len(p)
    <3>1. i \in Len(p)+1..Len(c) /\ i - Len(p) \in 1..Len(rest) /\ Len(p) + (i - Len(p)) = i
      BY <1>3, <2>0, <2>3
    <3>2. d[i] = c[i]
      BY <1>3, <1>4, <3>1
    <3> QED BY <1>5, <3>2
  <2> QED BY <2>0, <2>1, <2>2, <2>3
<1>7. Content(c) \subseteq Content(d)
  <2>1. Len(c) \in Nat
    BY DEF Targets
  <2> QED BY <1>4, <1>6, <2>1, ContentGrows
<1> QED BY <1>7 DEF d, q, rest

-----------------------------------------------------------------------------
(* Merging. *)

(* The lengths of the sides have a bound, so that one of them is longest. *)
Bounded(t) == \E n \in Nat : \A s \in t : Len(s) <= n

LEMMA Topmost ==
    ASSUME NEW T \in SUBSET Targets, T # {}, Bounded(T)
    PROVE  \E t \in T : \A u \in T : Len(u) <= Len(t)
<1>1. PICK n \in Nat : \A s \in T : Len(s) <= n
  BY DEF Bounded
<1> DEFINE S == {n - Len(t) : t \in T}
<1>2. \A t \in T : Len(t) \in Nat
  BY DEF Targets
<1>3. S \subseteq Nat /\ S # {}
  BY <1>1, <1>2
<1> HIDE DEF S
<1>4. PICK v \in S : \A w \in S : <<w, v>> \notin OpToRel(<, Nat)
  BY <1>3, WFMin, NatLessThanWellFounded, Zenon
<1>5. \A w \in S : w \in Nat /\ v \in Nat
  BY <1>3
<1>6. \A w \in S : ~(w < v)
  BY <1>4, <1>5, Zenon DEF OpToRel
<1>7. PICK t \in T : v = n - Len(t)
  BY DEF S
<1>8. ASSUME NEW u \in T PROVE Len(u) <= Len(t)
  <2>1. n - Len(u) \in S
    BY DEF S
  <2>2. ~(n - Len(u) < n - Len(t))
    BY <1>6, <1>7, <2>1
  <2> QED BY <1>1, <1>2, <2>2
<1> QED BY <1>8

LEMMA BoundedOps ==
    /\ \A s \in Targets : Bounded({s})
    /\ \A t, u \in SUBSET Targets : Bounded(t) /\ Bounded(u) => Bounded(t \cup u)
    /\ \A t, u : Bounded(t) /\ u \subseteq t => Bounded(u)
<1>1. ASSUME NEW s \in Targets PROVE Bounded({s})
  <2>1. Len(s) \in Nat /\ Len(s) <= Len(s)
    BY DEF Targets
  <2> QED BY <2>1 DEF Bounded
<1>2. ASSUME NEW t \in SUBSET Targets, NEW u \in SUBSET Targets, Bounded(t), Bounded(u)
      PROVE  Bounded(t \cup u)
  <2>1. PICK n \in Nat : \A s \in t : Len(s) <= n
    BY <1>2 DEF Bounded
  <2>2. PICK m \in Nat : \A s \in u : Len(s) <= m
    BY <1>2 DEF Bounded
  <2>3. n + m \in Nat /\ \A s \in t \cup u : Len(s) \in Nat
    BY DEF Targets
  <2>4. \A s \in t \cup u : Len(s) <= n + m
    BY <2>1, <2>2, <2>3
  <2> QED BY <2>3, <2>4 DEF Bounded
<1>3. \A t, u : Bounded(t) /\ u \subseteq t => Bounded(u)
  BY DEF Bounded
<1> QED BY <1>1, <1>2, <1>3

LEMMA MergeBounded ==
    ASSUME NEW base, NEW left \in SUBSET Targets, NEW right \in SUBSET Targets,
           Bounded(left), Bounded(right)
    PROVE  Bounded(Merge3(base, left, right))
<1>1. Merge3(base, left, right) \subseteq left \cup right
  BY DEF Merge3
<1> QED BY <1>1, BoundedOps

(* A merge adds nothing that neither side had. *)
LEMMA MergeFrom ==
    ASSUME NEW base, NEW left, NEW right, NEW e, Holds(Merge3(base, left, right), e)
    PROVE  Holds(left, e) \/ Holds(right, e)
<1>1. Merge3(base, left, right) \subseteq left \cup right
  BY DEF Merge3
<1> QED BY <1>1 DEF Holds

(* Only descendants push a side out of a merge. *)
LEMMA MergeHolds ==
    ASSUME NEW base, NEW left \in SUBSET Targets, NEW right \in SUBSET Targets,
           Bounded(left), Bounded(right), NEW e,
           NEW s \in (left \cap right) \cup (left \ base) \cup (right \ base),
           e \in Content(s)
    PROVE  Holds(Merge3(base, left, right), e)
<1> DEFINE sides == (left \cap right) \cup (left \ base) \cup (right \ base)
           Behind(x) == \E t \in sides \ {x} :
                           /\ x # Absent /\ IsAncestor(x, t)
                           /\ \E b \in base : IsAncestor(b, x)
           T == {t \in sides : e \in Content(t)}
<1>1. sides \subseteq Targets /\ T \subseteq Targets /\ s \in T /\ s \in sides
  OBVIOUS
<1>2. Bounded(T)
  <2>1. T \subseteq left \cup right /\ Bounded(left \cup right)
    BY BoundedOps
  <2> QED BY <2>1, BoundedOps
<1>3. PICK t \in T : \A u \in T : Len(u) <= Len(t)
  BY <1>1, <1>2, Topmost
<1>4. ~Behind(t)
  <2> SUFFICES ASSUME NEW u \in sides, u # t, IsAncestor(t, u) PROVE FALSE
    OBVIOUS
  <2>1. u \in T
    BY <1>1, AncestorContent
  <2>2. Len(u) = Len(t) /\ Len(t) \in Nat
    BY <1>1, <1>3, <2>1 DEF IsAncestor, Targets
  <2>3. SubSeq(u, 1, Len(u)) = u
    BY <1>1, SubSeqFull DEF Targets
  <2> QED BY <2>2, <2>3 DEF IsAncestor
<1>5. t \in sides /\ e \in Content(t)
  OBVIOUS
<1>6. CASE left = right \/ right = base \/ left = base \/ sides = {}
  <2>1. \/ Merge3(base, left, right) = left /\ s \in left
        \/ Merge3(base, left, right) = right /\ s \in right
    <3>1. CASE left = right \/ right = base
      <4>1. Merge3(base, left, right) = left
        BY <3>1 DEF Merge3
      <4> QED BY <3>1, <4>1
    <3>2. CASE ~(left = right \/ right = base) /\ left = base
      <4>1. Merge3(base, left, right) = right
        BY <3>2 DEF Merge3
      <4> QED BY <3>2, <4>1
    <3> QED BY <1>1, <1>6, <3>1, <3>2
  <2> QED BY <2>1 DEF Holds
<1>7. CASE left # right /\ right # base /\ left # base /\ sides # {}
  <2>1. Merge3(base, left, right) = {x \in sides : ~Behind(x)}
    BY <1>7 DEF Merge3
  <2> HIDE DEF Behind, sides
  <2>2. t \in Merge3(base, left, right)
    BY <1>4, <1>5, <2>1
  <2> QED BY <1>5, <2>2 DEF Holds
<1> QED BY <1>6, <1>7

(* What the left side has a merge keeps, if the right side keeps it of the *)
(* sides that it takes from the base.                                      *)
LEMMA MergeKeeps ==
    ASSUME NEW base \in SUBSET Targets, NEW left \in SUBSET Targets, NEW right \in SUBSET Targets,
           Bounded(left), Bounded(right), NEW e, Holds(left, e),
           \A s \in base \ right :
              e \in Content(s) => \E t \in right \ base : e \in Content(t)
    PROVE  Holds(Merge3(base, left, right), e)
<1>1. PICK s \in left : e \in Content(s)
  BY DEF Holds
<1>2. CASE s \notin base \/ s \in right
  BY <1>1, <1>2, MergeHolds
<1>3. CASE s \in base \ right
  BY <1>1, <1>3, MergeHolds
<1> QED BY <1>2, <1>3

-----------------------------------------------------------------------------
(* Edits: what a bookmark owes of an edit that nobody has replaced. *)

(* What the view has seen of git it shows, and git still has. *)
Covered(b, e) ==
    Holds(seen[b], e) => Holds(view[b], e) /\ e \in Content(ref[b])

(* What a request remembers of either door is still there. *)
Remembered(q, b, e) ==
    /\ Holds(q.snap.view[b], e) => Holds(view[b], e)
    /\ Holds(q.snap.seen[b], e) => Holds(q.snap.view[b], e) /\ e \in Content(ref[b])
    /\ Holds(q.new.seen[b], e) => e \in Content(ref[b])

(* The new sides take an edit away with an old one, and bring it with none. *)
Leaves(old, new, e) == Holds(old \ new, e) /\ ~Holds(new \ old, e)

(* What a transaction found, has imported or adds, it commits; what an     *)
(* export will say the view has seen, the view had.                        *)
Carried(q, b, e) ==
    /\ q.at = "commit" /\ ~Leaves(q.snap.seen[b], q.new.seen[b], e) =>
          (Holds(q.snap.view[b], e) \/ Holds(q.new.seen[b], e) \/ <<b, e>> \in q.adds
             => Holds(q.new.view[b], e))
    /\ q.at = "close" => (Holds(q.new.seen[b], e) => Holds(q.snap.view[b], e))
    /\ <<b, e>> \in q.adds => q.at = "commit"

Owed(b, e) == <<b, e>> \in acked => Holds(view[b], e) \/ e \in Content(ref[b])

Kept(b, e) ==
    /\ Covered(b, e) /\ Owed(b, e)
    /\ \A c \in Clients : Remembered(req[c], b, e) /\ Carried(req[c], b, e)

(* Every side of every bookmark is one of finitely many lengths. *)
BoundInv ==
    \A b \in Bookmarks :
       /\ Bounded(view[b])
       /\ \A c \in Clients : Bounded(req[c].snap.view[b]) /\ Bounded(req[c].new.view[b])

EditInv ==
    /\ BoundInv
    /\ \A b \in Bookmarks, e \in Edits : <<b, e>> \notin dropped => Kept(b, e)

LEMMA EditsAreKept == ASSUME EditInv, TypeOK PROVE NoLostEdit
<1> SUFFICES ASSUME NEW b \in Bookmarks, NEW e \in Edits, <<b, e>> \in acked \ dropped
             PROVE  \/ Holds(view[b], e)
                    \/ {ref[b]} # seen[b] /\ e \in Content(ref[b])
  BY HoldsContent DEF NoLostEdit, TypeOK
<1>1. Covered(b, e) /\ (Holds(view[b], e) \/ e \in Content(ref[b]))
  BY DEF EditInv, Kept, Owed
<1> QED BY <1>1 DEF Covered, Holds

-----------------------------------------------------------------------------
(* What each step does to the requests. *)

LEMMA ReqTypes ==
    ASSUME TypeOK, NEW c \in Clients
    PROVE  /\ req \in [Clients -> Requests] /\ req[c] \in Requests
           /\ req[c].snap \in Views /\ req[c].new \in Views
           /\ view \in [Bookmarks -> SUBSET Targets] /\ seen \in [Bookmarks -> SUBSET Targets]
           /\ \A b \in Bookmarks :
                 /\ view[b] \in SUBSET Targets /\ seen[b] \in SUBSET Targets
                 /\ ref[b] \in Targets
                 /\ req[c].snap.view[b] \in SUBSET Targets /\ req[c].snap.seen[b] \in SUBSET Targets
                 /\ req[c].new.view[b] \in SUBSET Targets /\ req[c].new.seen[b] \in SUBSET Targets
<1>1. req \in [Clients -> Requests] /\ req[c] \in Requests /\ Now \in Views
      /\ ref \in [Bookmarks -> Targets]
  BY DEF TypeOK, Requests
<1>2. req[c].snap \in Views /\ req[c].new \in Views
  BY <1>1 DEF Requests
<1>3. view \in [Bookmarks -> SUBSET Targets] /\ seen \in [Bookmarks -> SUBSET Targets]
  BY <1>1 DEF Now, Views
<1> QED BY <1>1, <1>2, <1>3 DEF Views

LEMMA NoContent == \A e : ~Holds({Absent}, e)
BY DEF Holds, Content, Absent

(* A request that has ended, or whose transaction has, remembers nothing.  *)
LEMMA BlankHolds ==
    ASSUME NEW q, q.snap = Blank, q.new = Blank, q.adds = {}, q.at \notin {"commit", "close"},
           NEW b \in Bookmarks, NEW e
    PROVE  Remembered(q, b, e)' /\ Carried(q, b, e)
<1>1. Blank.view[b] = {Absent} /\ Blank.seen[b] = {Absent}
  BY DEF Blank
<1> QED BY <1>1, NoContent DEF Remembered, Carried

(* As long as either door keeps an edit, so do the requests that stand.    *)
LEMMA OthersRemember ==
    ASSUME NEW q, NEW b, NEW e, Remembered(q, b, e), Carried(q, b, e),
           Holds(view[b], e) => Holds(view'[b], e),
           e \in Content(ref[b]) => e \in Content(ref'[b])
    PROVE  Remembered(q, b, e)' /\ Carried(q, b, e)
BY DEF Remembered

LEMMA StepKept ==
    ASSUME NEW b \in Bookmarks, NEW e \in Edits, Kept(b, e), NEW c \in Clients,
           Holds(view[b], e) => Holds(view'[b], e),
           e \in Content(ref[b]) => e \in Content(ref'[b]),
           Covered(b, e)', Owed(b, e)',
           \A d \in Clients \ {c} : req'[d] = req[d],
           NEW q, req'[c] = q, Remembered(q, b, e)', Carried(q, b, e)
    PROVE  Kept(b, e)'
<1>1. ASSUME NEW d \in Clients PROVE (Remembered(req[d], b, e) /\ Carried(req[d], b, e))'
  <2>1. CASE d = c
    BY <2>1
  <2>2. CASE d # c
    <3>1. PICK r : r = req[d] /\ r = req'[d]
      BY <2>2
    <3>2. Remembered(r, b, e) /\ Carried(r, b, e)
      BY <3>1 DEF Kept
    <3>3. Remembered(r, b, e)' /\ Carried(r, b, e)
      BY <3>2, OthersRemember
    <3> QED BY <3>1, <3>3
  <2> QED BY <2>1, <2>2
<1> QED BY <1>1 DEF Kept

-----------------------------------------------------------------------------
(* Every step keeps what is owed: writes. *)

LEMMA BeginKept ==
    ASSUME TypeOK, NEW c \in Clients, NEW nv, NEW adds, Begin(c, nv, adds),
           NEW b \in Bookmarks, NEW e \in Edits, Kept(b, e),
           Holds(view[b], e) \/ <<b, e>> \in adds => Holds(nv[b], e)
    PROVE  Kept(b, e)'
<1>1. PICK q : q = [at |-> "commit", kind |-> "write", snap |-> Now,
                    new |-> [view |-> nv, seen |-> seen], adds |-> adds]
  OBVIOUS
<1>2. /\ req'[c] = q /\ \A d \in Clients \ {c} : req'[d] = req[d]
      /\ UNCHANGED <<view, seen, ref, acked>>
  BY <1>1, ReqTypes DEF Begin, jj
<1>3. /\ q.at = "commit" /\ q.snap.view = view /\ q.snap.seen = seen /\ q.adds = adds
      /\ q.new.view = nv /\ q.new.seen = seen
  BY <1>1 DEF Now
<1>4. Remembered(q, b, e)'
  BY <1>2, <1>3 DEF Remembered, Kept, Covered
<1>5. Carried(q, b, e)
  BY <1>3 DEF Carried, Kept, Covered
<1>6. Covered(b, e)' /\ Owed(b, e)'
  BY <1>2 DEF Covered, Owed, Kept
<1> QED BY <1>2, <1>4, <1>5, <1>6, StepKept

LEMMA ForgetsNot ==
    ASSUME NEW nv, NEW b \in Bookmarks, NEW e \in Edits, <<b, e>> \notin Forgets(nv), Holds(view[b], e)
    PROVE  Holds(nv[b], e)
BY HoldsContent DEF Forgets

LEMMA CommitContent ==
    ASSUME TypeOK, NEW b \in Bookmarks, IsNormal(view[b]), NEW f \in Edits,
           NEW o \in Bookmarks, NEW e
    PROVE  LET tip == Tip(view[b])
               new == [view EXCEPT ![b] = {Append(tip, <<f>>)}]
               amended == [x \in Bookmarks |-> Rewrite(view[x], tip, Amended(tip, f))]
           IN  /\ Holds(view[o], e) => Holds(new[o], e) /\ Holds(amended[o], e)
               /\ Holds(new[b], f) /\ Holds(amended[b], f)
<1> DEFINE tip == Tip(view[b])
           new == [view EXCEPT ![b] = {Append(tip, <<f>>)}]
           amended == [x \in Bookmarks |-> Rewrite(view[x], tip, Amended(tip, f))]
<1>1. view \in [Bookmarks -> SUBSET Targets]
  BY DEF TypeOK, Now, Views
<1>2. view[b] = {tip} /\ tip \in Targets /\ tip # Absent
  BY <1>1 DEF IsNormal, Tip
<1>3. Content(tip) \subseteq Content(Append(tip, <<f>>)) /\ f \in Content(Append(tip, <<f>>))
  BY <1>2, AppendContent
<1>4. Content(tip) \subseteq Content(Amended(tip, f)) /\ f \in Content(Amended(tip, f))
  BY <1>2, AmendedContent
<1> HIDE DEF tip
<1>5. new[b] = {Append(tip, <<f>>)} /\ (o # b => new[o] = view[o])
  BY <1>1
<1>6. Holds(view[o], e) => Holds(new[o], e)
  BY <1>2, <1>3, <1>5 DEF Holds
<1>7. Holds(new[b], f)
  BY <1>3, <1>5 DEF Holds
<1>8. ASSUME NEW x \in Bookmarks, NEW s \in view[x], NEW g, g \in Content(s)
      PROVE  Holds(amended[x], g)
  <2>1. s \in Targets
    BY <1>1
  <2>2. amended[x] = Rewrite(view[x], tip, Amended(tip, f))
    OBVIOUS
  <2>3. CASE IsAncestor(tip, s)
    <3>1. PICK d : d = Amended(tip, f) \o SubSeq(s, Len(tip) + 1, Len(s))
      OBVIOUS
    <3>2. d \in amended[x]
      BY <2>2, <2>3, <3>1 DEF Rewrite
    <3>3. Content(s) \subseteq Content(d)
      BY <1>2, <2>1, <2>3, <3>1, RewrittenContent
    <3> QED BY <1>8, <3>2, <3>3 DEF Holds
  <2>4. CASE ~IsAncestor(tip, s)
    BY <1>8, <2>2, <2>4 DEF Rewrite, Holds
  <2> QED BY <2>3, <2>4
<1>9. Holds(view[o], e) => Holds(amended[o], e)
  BY <1>8 DEF Holds
<1>10. Holds(amended[b], f)
  <2>1. PICK d : d = Amended(tip, f) \o SubSeq(tip, Len(tip) + 1, Len(tip))
    OBVIOUS
  <2>2. IsAncestor(tip, tip)
    BY <1>2, SubSeqFull DEF IsAncestor, Targets
  <2>3. d \in amended[b]
    BY <1>2, <2>1, <2>2 DEF Rewrite
  <2>4. d = Amended(tip, f)
    <3>1. SubSeq(tip, Len(tip) + 1, Len(tip)) = <<>> /\ Amended(tip, f) \in Targets
      BY <1>2, AmendedType, SubSeqEmpty DEF Targets
    <3> QED BY <2>1, <3>1, ConcatEmptySeq DEF Targets
  <2> QED BY <1>4, <2>3, <2>4 DEF Holds
<1> QED BY <1>6, <1>7, <1>9, <1>10 DEF tip

LEMMA WriteKept ==
    ASSUME TypeOK, NEW c \in Clients, Write(c),
           NEW b \in Bookmarks, NEW e \in Edits, <<b, e>> \notin dropped', Kept(b, e)
    PROVE  Kept(b, e)'
<1>1. ASSUME NEW nv, Begin(c, nv, {}), dropped' = dropped \cup Forgets(nv) PROVE Kept(b, e)'
  <2>1. Holds(view[b], e) => Holds(nv[b], e)
    BY <1>1, ForgetsNot
  <2> QED BY <1>1, <2>1, BeginKept
<1>2. CASE \E o \in Bookmarks : SetBookmark(c, o) \/ DeleteBookmark(c, o)
  BY <1>1, <1>2 DEF SetBookmark, DeleteBookmark
<1>3. ASSUME NEW s \in Bookmarks, NEW d \in Bookmarks, RebaseBookmark(c, s, d) PROVE Kept(b, e)'
  BY <1>1, <1>3 DEF RebaseBookmark
<1>4. ASSUME NEW o \in Bookmarks, CommitEdits(c, o) PROVE Kept(b, e)'
  <2>1. edits' \in Edits /\ IsNormal(view[o])
    BY <1>4, RepoViewAssumption DEF CommitEdits, TypeOK, Edits
  <2>2. \E f \in Edits : \E nv : /\ Begin(c, nv, {<<o, f>>}) /\ Holds(nv[o], f)
                                 /\ Holds(view[b], e) => Holds(nv[b], e)
    <3>1. PICK f \in Edits : f = edits'
      BY <2>1
    <3> DEFINE tip == Tip(view[o])
               new == [view EXCEPT ![o] = {Append(tip, <<f>>)}]
               amended == [x \in Bookmarks |-> Rewrite(view[x], tip, Amended(tip, f))]
    <3>2. /\ Holds(view[b], e) => Holds(new[b], e) /\ Holds(amended[b], e)
          /\ Holds(new[o], f) /\ Holds(amended[o], f)
      BY <2>1, CommitContent
    <3>3. Begin(c, new, {<<o, f>>}) \/ Begin(c, amended, {<<o, f>>})
      BY <1>4, <3>1 DEF CommitEdits
    <3> HIDE DEF new, amended
    <3> QED BY <3>2, <3>3
  <2>3. PICK f \in Edits : \E nv : /\ Begin(c, nv, {<<o, f>>}) /\ Holds(nv[o], f)
                                   /\ Holds(view[b], e) => Holds(nv[b], e)
    BY <2>2
  <2>4. PICK nv : /\ Begin(c, nv, {<<o, f>>}) /\ Holds(nv[o], f)
                  /\ Holds(view[b], e) => Holds(nv[b], e)
    BY <2>3
  <2>7. <<b, e>> \in {<<o, f>>} => b = o /\ e = f
    OBVIOUS
  <2>5. Holds(view[b], e) \/ <<b, e>> \in {<<o, f>>} => Holds(nv[b], e)
    BY <2>4, <2>7
  <2>6. Begin(c, nv, {<<o, f>>})
    BY <2>4
  <2> QED BY <2>5, <2>6, BeginKept
<1> QED BY <1>2, <1>3, <1>4 DEF Write

-----------------------------------------------------------------------------
(* Pushes. *)

LEMMA ReceiveKept ==
    ASSUME TypeOK, NEW c \in Clients, NEW o \in Bookmarks, Receive(c, o),
           NEW b \in Bookmarks, NEW e \in Edits, <<b, e>> \notin dropped', Kept(b, e)
    PROVE  Kept(b, e)'
<1>1. PICK q : q = [req[c] EXCEPT !.at = "waiting", !.kind = "push"]
  OBVIOUS
<1>2. /\ req'[c] = q /\ \A d \in Clients \ {c} : req'[d] = req[d]
      /\ req[c].at = "idle" /\ UNCHANGED <<view, seen>>
  BY <1>1, ReqTypes DEF Receive, Arrive, jj
<1>3. /\ q.at = "waiting" /\ q.snap = req[c].snap /\ q.new = req[c].new
      /\ q.adds = req[c].adds
  BY <1>1, ReqTypes DEF Requests
<1>4. \E v : Move(o, v) /\ (acked' = acked \/ (edits' \in Edits /\ edits' \in Content(v)
                                              /\ acked' = acked \cup {<<o, edits'>>}))
  <2>1. CASE edits < MaxEdits /\ edits' = edits + 1
    <3>1. edits' \in Edits /\ edits' # edits
      BY <2>1, RepoViewAssumption DEF TypeOK, Edits
    <3>2. \A x \in Bookmarks : edits' \in Content(Append(ref[x], <<edits'>>))
      BY <3>1, ReqTypes, AppendContent
    <3>3. ref[o] # Absent => edits' \in Content(Amended(ref[o], edits'))
      BY <3>1, ReqTypes, AmendedContent
    <3> QED BY <1>2, <3>1, <3>2, <3>3 DEF Receive
  <2>2. CASE UNCHANGED <<edits, acked>>
    <3>1. edits + 1 # edits
      BY DEF Edits, TypeOK
    <3> QED BY <2>2, <3>1 DEF Receive
  <2> QED BY <2>1, <2>2 DEF Receive
<1>5. PICK v : Move(o, v) /\ (acked' = acked \/ (edits' \in Edits /\ edits' \in Content(v)
                                              /\ acked' = acked \cup {<<o, edits'>>}))
  BY <1>4
<1>6. ref'[o] = v /\ \A x \in Bookmarks \ {o} : ref'[x] = ref[x]
  BY <1>5 DEF Move, TypeOK
<1>7. e \in Content(ref[b]) => e \in Content(ref'[b])
  BY <1>5, <1>6 DEF Move
<1>8. Covered(b, e)' /\ Owed(b, e)'
  BY <1>2, <1>5, <1>6, <1>7 DEF Covered, Owed, Kept
<1>9. Remembered(req[c], b, e) /\ Carried(req[c], b, e)
  BY DEF Kept
<1>10. Remembered(q, b, e) /\ Carried(q, b, e)
  BY <1>2, <1>3, <1>9 DEF Remembered, Carried
<1>11. Remembered(q, b, e)' /\ Carried(q, b, e)
  BY <1>2, <1>7, <1>10, OthersRemember
<1> QED BY <1>2, <1>7, <1>8, <1>11, StepKept

(* A request remembers what it sees. *)
LEMMA LookKept ==
    ASSUME TypeOK, NEW c \in Clients, NEW b \in Bookmarks, NEW e \in Edits, Kept(b, e),
           NEW q \in Requests, req' = [req EXCEPT ![c] = q],
           UNCHANGED <<view, seen, ref, acked>>,
           req[c].at \notin {"commit", "close"}, q.at \notin {"commit", "close"},
           q.snap = Now, q.new = req[c].new, q.adds = req[c].adds
    PROVE  Kept(b, e)'
<1>1. req'[c] = q /\ \A d \in Clients \ {c} : req'[d] = req[d]
  BY ReqTypes
<1>2. q.snap.view = view /\ q.snap.seen = seen
  BY DEF Now
<1>3. Remembered(req[c], b, e) /\ Carried(req[c], b, e) /\ Covered(b, e)
  BY DEF Kept
<1>4. Remembered(q, b, e)' /\ Carried(q, b, e)
  BY <1>2, <1>3 DEF Remembered, Carried, Covered
<1>5. Covered(b, e)' /\ Owed(b, e)'
  BY DEF Covered, Owed, Kept
<1> QED BY <1>1, <1>4, <1>5, StepKept

LEMMA TakeLockKept ==
    ASSUME TypeOK, NEW c \in Clients, TakeLock(c),
           NEW b \in Bookmarks, NEW e \in Edits, Kept(b, e)
    PROVE  Kept(b, e)'
<1>1. PICK q : q = [req[c] EXCEPT !.at = "reading", !.snap = Now]
  OBVIOUS
<1>2. q \in Requests /\ q.at = "reading" /\ q.snap = Now /\ q.new = req[c].new
      /\ q.adds = req[c].adds
  BY <1>1, ReqTypes DEF Requests, Stages, TypeOK
<1>3. req' = [req EXCEPT ![c] = q] /\ req[c].at = "waiting"
      /\ UNCHANGED <<view, seen, ref, acked>>
  BY <1>1 DEF TakeLock, jj, hist
<1> QED BY <1>2, <1>3, LookKept

LEMMA OpenProjectKept ==
    ASSUME TypeOK, NEW c \in Clients, OpenProject(c),
           NEW b \in Bookmarks, NEW e \in Edits, Kept(b, e)
    PROVE  Kept(b, e)'
<1>1. PICK q : q = [req[c] EXCEPT !.at = "export", !.snap = Now]
  OBVIOUS
<1>2. q \in Requests /\ q.at = "export" /\ q.snap = Now /\ q.new = req[c].new
      /\ q.adds = req[c].adds
  BY <1>1, ReqTypes DEF Requests, Stages, TypeOK
<1>3. req' = [req EXCEPT ![c] = q] /\ req[c].at = "project"
      /\ UNCHANGED <<view, seen, ref, acked>>
  BY <1>1 DEF OpenProject, jj, hist
<1> QED BY <1>2, <1>3, LookKept

(* An import of git's side keeps what the view had and what git has. *)
LEMMA ImportHolds ==
    ASSUME NEW s \in Views, NEW b \in Bookmarks, ref[b] \in Targets, NEW e,
           Bounded(s.view[b]),
           ~Leaves(s.seen[b], Imported(s).seen[b], e),
           Holds(s.seen[b], e) => Holds(s.view[b], e) /\ e \in Content(ref[b]),
           Holds(s.view[b], e) \/ e \in Content(ref[b])
    PROVE  Holds(Imported(s).view[b], e)
<1> DEFINE r == ref[b]
<1>1. /\ Imported(s).view[b] = Merge3(s.seen[b], s.view[b], {r})
      /\ Imported(s).seen[b] = {r}
  BY DEF Imported
<1>2. /\ s.view[b] \in SUBSET Targets /\ s.seen[b] \in SUBSET Targets
      /\ {r} \in SUBSET Targets /\ Bounded({r})
  BY BoundedOps DEF Views
<1> HIDE DEF r
<1>3. CASE Holds(s.view[b], e)
  <2>1. \A x \in s.seen[b] \ {r} :
           e \in Content(x) => \E t \in {r} \ s.seen[b] : e \in Content(t)
    BY <1>1 DEF Leaves, Holds
  <2> QED BY <1>1, <1>2, <1>3, <2>1, MergeKeeps
<1>4. CASE ~Holds(s.view[b], e)
  <2>1. e \in Content(r) /\ r \notin s.seen[b]
    BY <1>4 DEF Holds, r
  <2>2. PICK base, left, right : base = s.seen[b] /\ left = s.view[b] /\ right = {r}
    OBVIOUS
  <2>3. r \in (left \cap right) \cup (left \ base) \cup (right \ base)
    BY <2>1, <2>2
  <2>4. left \in SUBSET Targets /\ right \in SUBSET Targets /\ Bounded(left) /\ Bounded(right)
    BY <1>2, <2>2
  <2>5. Holds(Merge3(base, left, right), e)
    BY <2>1, <2>3, <2>4, MergeHolds
  <2> QED BY <1>1, <2>2, <2>5
<1> QED BY <1>3, <1>4

LEMMA ReadRefsKept ==
    ASSUME TypeOK, BoundInv, NEW c \in Clients, ReadRefs(c),
           NEW b \in Bookmarks, NEW e \in Edits, Kept(b, e)
    PROVE  Kept(b, e)'
<1>1. PICK n : n = Imported(req[c].snap)
  OBVIOUS
<1>2. PICK q : q = [req[c] EXCEPT !.at = "commit", !.new = n]
  OBVIOUS
<1>3. q.at = "commit" /\ q.snap = req[c].snap /\ q.new = n /\ q.adds = req[c].adds
  BY <1>2, ReqTypes DEF Requests
<1>4. /\ req'[c] = q /\ \A d \in Clients \ {c} : req'[d] = req[d]
      /\ req[c].at = "reading" /\ UNCHANGED <<view, seen, ref, acked>>
  BY <1>1, <1>2, ReqTypes DEF ReadRefs, jj, hist
<1>5. Remembered(req[c], b, e) /\ Carried(req[c], b, e)
  BY DEF Kept
<1>6. n.seen[b] = {ref[b]}
  BY <1>1 DEF Imported
<1>7. Remembered(q, b, e)'
  BY <1>3, <1>4, <1>5, <1>6 DEF Remembered, Holds
<1>8. Carried(q, b, e)
  <2> SUFFICES ASSUME ~Leaves(q.snap.seen[b], q.new.seen[b], e),
                      Holds(q.snap.view[b], e) \/ e \in Content(ref[b])
               PROVE  Holds(n.view[b], e)
    BY <1>3, <1>4, <1>5, <1>6 DEF Carried, Holds
  <2>1. PICK s : s = req[c].snap
    OBVIOUS
  <2>2. s \in Views /\ ref[b] \in Targets /\ Bounded(s.view[b]) /\ n = Imported(s)
    BY <1>1, <2>1, ReqTypes DEF BoundInv
  <2>3. ~Leaves(s.seen[b], n.seen[b], e)
    BY <1>3, <2>1
  <2>4. Holds(s.seen[b], e) => Holds(s.view[b], e) /\ e \in Content(ref[b])
    BY <1>5, <2>1 DEF Remembered
  <2>5. Holds(s.view[b], e) \/ e \in Content(ref[b])
    BY <1>3, <2>1
  <2> QED BY <2>2, <2>3, <2>4, <2>5, ImportHolds
<1>9. Covered(b, e)' /\ Owed(b, e)'
  BY <1>4 DEF Covered, Owed, Kept
<1> QED BY <1>4, <1>7, <1>8, <1>9, StepKept

-----------------------------------------------------------------------------
(* Transactions. *)

LEMMA MergedIs ==
    ASSUME NEW c \in Clients, NEW b \in Bookmarks
    PROVE  /\ Merged(c, view, "view")[b] = Merge3(req[c].snap.view[b], view[b], req[c].new.view[b])
           /\ Merged(c, seen, "seen")[b] = Merge3(req[c].snap.seen[b], seen[b], req[c].new.seen[b])
BY DEF Merged

(* Nothing else has moved since: the merge is what the request made of it. *)
LEMMA MergeAlone == \A v, n : Merge3(v, v, n) = n
BY DEF Merge3

(* A transaction that keeps what it found, and leaves no edit to sides that *)
(* may have gone, merges into whatever the view has become.                *)
LEMMA MergeInto ==
    ASSUME NEW base \in SUBSET Targets, NEW left \in SUBSET Targets, NEW right \in SUBSET Targets,
           Bounded(left), Bounded(right), NEW e,
           left = base \/ ~Leaves(base, right, e),
           Holds(base, e) => Holds(left, e) /\ Holds(right, e),
           Holds(left, e) \/ Holds(right, e)
    PROVE  Holds(Merge3(base, left, right), e)
<1>1. CASE left = base
  <2>1. Merge3(base, left, right) = right /\ Holds(right, e)
    BY <1>1, MergeAlone
  <2> QED BY <2>1
<1>2. CASE left # base /\ Holds(left, e)
  <2>1. \A s \in base \ right :
           e \in Content(s) => \E t \in right \ base : e \in Content(t)
    BY <1>2 DEF Leaves, Holds
  <2> QED BY <1>2, <2>1, MergeKeeps
<1>3. CASE left # base /\ ~Holds(left, e)
  <2>1. PICK s \in right : e \in Content(s)
    BY <1>3 DEF Holds
  <2>2. s \notin base
    BY <1>3, <2>1 DEF Holds
  <2> QED BY <2>1, <2>2, MergeHolds
<1> QED BY <1>1, <1>2, <1>3

LEMMA CommitTxKept ==
    ASSUME TypeOK, BoundInv, NEW c \in Clients, CommitTx(c),
           NEW b \in Bookmarks, NEW e \in Edits, <<b, e>> \notin dropped', Kept(b, e)
    PROVE  Kept(b, e)'
<1>1. PICK r : r = req[c]
  OBVIOUS
<1>2. PICK q : q = [Idle EXCEPT !.at = "project", !.kind = req[c].kind]
  OBVIOUS
<1>3. q.at = "project" /\ q.snap = Blank /\ q.new = Blank /\ q.adds = {}
  BY <1>2 DEF Idle
<1>4. /\ req'[c] = q /\ \A d \in Clients \ {c} : req'[d] = req[d]
      /\ r.at = "commit" /\ ref' = ref /\ acked' = acked \cup r.adds
      /\ view'[b] = Merge3(r.snap.view[b], view[b], r.new.view[b])
      /\ seen'[b] = Merge3(r.snap.seen[b], seen[b], r.new.seen[b])
  BY <1>1, <1>2, ReqTypes, MergedIs DEF CommitTx
<1>5. Remembered(r, b, e) /\ Carried(r, b, e) /\ Covered(b, e) /\ Owed(b, e)
  BY <1>1 DEF Kept
<1>6. /\ ~Leaves(r.snap.seen[b], r.new.seen[b], e)
      /\ view[b] = r.snap.view[b] \/ ~Leaves(r.snap.view[b], r.new.view[b], e)
  <2>1. <<b, e>> \notin Relinquished(c)
    BY DEF CommitTx
  <2>2. ASSUME NEW part \in {"view", "seen"}, Leaves(r.snap[part][b], r.new[part][b], e)
        PROVE  part = "view" /\ view[b] = r.snap.view[b]
    <3>1. PICK old, new : old = r.snap[part][b] /\ new = r.new[part][b]
      OBVIOUS
    <3>2. e \in ContentOf(old \ new) \ ContentOf(new \ old)
      BY <2>2, <3>1, HoldsContent DEF Leaves
    <3>3. ~(part = "view" => view[b] # old)
      BY <1>1, <2>1, <3>1, <3>2 DEF Relinquished
    <3> QED BY <3>1, <3>3
  <2> QED BY <2>2
<1> DEFINE base == r.snap.view[b]
           right == r.new.view[b]
<1>7. /\ base \in SUBSET Targets /\ right \in SUBSET Targets /\ view[b] \in SUBSET Targets
      /\ Bounded(view[b]) /\ Bounded(right)
  BY <1>1, ReqTypes DEF BoundInv
<1>8. view[b] = base \/ ~Leaves(base, right, e)
  BY <1>6
<1>9. /\ Holds(base, e) => Holds(view[b], e) /\ Holds(right, e)
      /\ Holds(r.new.seen[b], e) => Holds(right, e) /\ e \in Content(ref[b])
      /\ <<b, e>> \in r.adds => Holds(right, e)
  BY <1>4, <1>5, <1>6 DEF Remembered, Carried
<1>10. Holds(view[b], e) \/ Holds(right, e) => Holds(view'[b], e)
  <2>1. view'[b] = Merge3(base, view[b], right)
    BY <1>4
  <2> HIDE DEF base, right
  <2> QED BY <1>7, <1>8, <1>9, <2>1, MergeInto
<1>11. Covered(b, e)'
  <2> SUFFICES ASSUME Holds(seen'[b], e) PROVE Holds(view'[b], e) /\ e \in Content(ref[b])
    BY <1>4 DEF Covered
  <2>1. Holds(seen[b], e) \/ Holds(r.new.seen[b], e)
    BY <1>4, MergeFrom
  <2> QED BY <1>5, <1>9, <1>10, <2>1 DEF Covered
<1>12. Owed(b, e)'
  BY <1>4, <1>5, <1>9, <1>10 DEF Owed
<1>13. Remembered(q, b, e)' /\ Carried(q, b, e)
  BY <1>3, BlankHolds
<1> QED BY <1>4, <1>10, <1>11, <1>12, <1>13, StepKept

LEMMA ExportRefsKept ==
    ASSUME TypeOK, NEW c \in Clients, ExportRefs(c),
           NEW b \in Bookmarks, NEW e \in Edits, Kept(b, e)
    PROVE  Kept(b, e)'
<1>1. PICK s : s = req[c].snap
  OBVIOUS
<1>2. PICK n : n = [view |-> s.view, seen |->
                      [x \in Bookmarks |-> IF Exports(s, x) THEN s.view[x] ELSE s.seen[x]]]
  OBVIOUS
<1>3. PICK q : q = [req[c] EXCEPT !.at = "close", !.new = n]
  OBVIOUS
<1>4. q.at = "close" /\ q.snap = s /\ q.new = n /\ q.adds = req[c].adds
  BY <1>1, <1>3, ReqTypes DEF Requests
<1>5. /\ req'[c] = q /\ \A d \in Clients \ {c} : req'[d] = req[d]
      /\ req[c].at = "export" /\ UNCHANGED <<view, seen, acked>>
  <2>1. req' = [req EXCEPT ![c] = q]
    BY <1>1, <1>2, <1>3 DEF ExportRefs
  <2> QED BY <2>1, ReqTypes DEF ExportRefs, jj, hist
<1>6. ref'[b] = IF Exports(s, b) THEN Tip(s.view[b]) ELSE ref[b]
  BY <1>1 DEF ExportRefs
<1>7. n.seen[b] = IF Exports(s, b) THEN s.view[b] ELSE s.seen[b]
  BY <1>2
<1>8. Remembered(req[c], b, e) /\ Carried(req[c], b, e) /\ Covered(b, e) /\ Owed(b, e)
  BY DEF Kept
<1>9. /\ Holds(s.seen[b], e) => Holds(s.view[b], e) /\ e \in Content(ref[b])
      /\ Holds(s.view[b], e) => Holds(view[b], e)
  BY <1>1, <1>8 DEF Remembered
<1>10. Exports(s, b) => /\ Holds(s.view[b], e) <=> e \in Content(ref'[b])
                        /\ e \in Content(ref[b]) => Holds(s.view[b], e)
  <2> SUFFICES ASSUME Exports(s, b)
               PROVE  /\ Holds(s.view[b], e) <=> e \in Content(ref'[b])
                      /\ e \in Content(ref[b]) => Holds(s.view[b], e)
    OBVIOUS
  <2>1. PICK v \in s.view[b], o \in s.seen[b] :
           s.view[b] = {v} /\ s.seen[b] = {o} /\ ref[b] \in {v, o}
    BY DEF Exports
  <2>2. ref'[b] = v
    BY <1>6, <2>1 DEF Tip
  <2> QED BY <1>9, <2>1, <2>2 DEF Holds
<1>11. e \in Content(ref[b]) => e \in Content(ref'[b])
  BY <1>6, <1>10
<1>12. Covered(b, e)' /\ Owed(b, e)'
  BY <1>5, <1>8, <1>11 DEF Covered, Owed
<1>13. Remembered(q, b, e)'
  <2>1. Holds(n.seen[b], e) => e \in Content(ref'[b])
    BY <1>7, <1>9, <1>10, <1>11
  <2> QED BY <1>4, <1>5, <1>9, <1>11, <2>1 DEF Remembered
<1>14. Carried(q, b, e)
  BY <1>4, <1>5, <1>7, <1>8, <1>9 DEF Carried
<1> QED BY <1>5, <1>11, <1>12, <1>13, <1>14, StepKept

LEMMA CloseExportKept ==
    ASSUME TypeOK, NEW c \in Clients, CloseExport(c),
           NEW b \in Bookmarks, NEW e \in Edits, Kept(b, e)
    PROVE  Kept(b, e)'
<1>1. PICK r : r = req[c]
  OBVIOUS
<1>2. PICK q : q = Idle
  OBVIOUS
<1>3. /\ req'[c] = q /\ \A d \in Clients \ {c} : req'[d] = req[d]
      /\ r.at = "close" /\ UNCHANGED <<view, ref, acked>>
      /\ seen'[b] = Merge3(r.snap.seen[b], seen[b], r.new.seen[b])
  BY <1>1, <1>2, ReqTypes, MergedIs DEF CloseExport, hist
<1>4. Remembered(r, b, e) /\ Carried(r, b, e) /\ Covered(b, e) /\ Owed(b, e)
  BY <1>1 DEF Kept
<1>5. Covered(b, e)'
  <2> SUFFICES ASSUME Holds(seen'[b], e) PROVE Holds(view[b], e) /\ e \in Content(ref[b])
    BY <1>3 DEF Covered
  <2>1. Holds(seen[b], e) \/ Holds(r.new.seen[b], e)
    BY <1>3, MergeFrom
  <2> QED BY <1>3, <1>4, <2>1 DEF Covered, Remembered, Carried
<1>6. Owed(b, e)'
  BY <1>3, <1>4 DEF Owed
<1>7. q.at = "idle" /\ q.snap = Blank /\ q.new = Blank /\ q.adds = {}
  BY <1>2 DEF Idle
<1>8. Remembered(q, b, e)' /\ Carried(q, b, e)
  BY <1>7, BlankHolds
<1> QED BY <1>3, <1>5, <1>6, <1>8, StepKept

LEMMA FaultKept ==
    ASSUME TypeOK, Restart \/ (\E c \in Clients : Fail(c) \/ Disconnect(c)) \/ UNCHANGED vars,
           NEW b \in Bookmarks, NEW e \in Edits, Kept(b, e)
    PROVE  Kept(b, e)'
<1>0. req \in [Clients -> Requests]
  BY DEF TypeOK, Requests
<1> DEFINE Stands(d) == req'[d] = req[d] \/ req'[d] = Idle
<1>1. UNCHANGED <<view, seen, ref, acked>> /\ \A d \in Clients : Stands(d)
  <2>1. CASE Restart
    BY <2>1 DEF Restart, jj
  <2>2. ASSUME NEW c \in Clients, Fail(c) \/ Disconnect(c)
        PROVE  UNCHANGED <<view, seen, ref, acked>> /\ \A d \in Clients : Stands(d)
    <3>1. req' = req \/ req' = [req EXCEPT ![c] = Idle]
      BY <2>2 DEF Fail, Disconnect
    <3>2. \A d \in Clients : Stands(d)
      BY <1>0, <3>1
    <3> QED BY <2>2, <3>2 DEF Fail, Disconnect, jj
  <2>3. CASE UNCHANGED vars
    BY <2>3 DEF vars, jj, hist
  <2> QED BY <2>1, <2>2, <2>3
<1>2. Covered(b, e)' /\ Owed(b, e)'
  BY <1>1 DEF Covered, Owed, Kept
<1>3. ASSUME NEW d \in Clients PROVE (Remembered(req[d], b, e) /\ Carried(req[d], b, e))'
  <2>1. PICK r : r = req'[d]
    OBVIOUS
  <2>2. CASE r = req[d]
    <3>1. Remembered(r, b, e) /\ Carried(r, b, e)
      BY <2>2 DEF Kept
    <3>2. Remembered(r, b, e)' /\ Carried(r, b, e)
      BY <1>1, <3>1, OthersRemember
    <3> QED BY <2>1, <3>2
  <2>3. CASE r = Idle
    <3>1. r.at = "idle" /\ r.snap = Blank /\ r.new = Blank /\ r.adds = {}
      BY <2>3 DEF Idle
    <3>2. Remembered(r, b, e)' /\ Carried(r, b, e)
      BY <3>1, BlankHolds
    <3> QED BY <2>1, <3>2
  <2> QED BY <1>1, <2>1, <2>2, <2>3
<1> QED BY <1>2, <1>3 DEF Kept

-----------------------------------------------------------------------------
(* The bounds. *)

LEMMA RewriteBounded ==
    ASSUME NEW t \in SUBSET Targets, NEW p \in Targets, NEW q \in Targets, Bounded(t)
    PROVE  Bounded(Rewrite(t, p, q))
<1>1. PICK n \in Nat : \A s \in t : Len(s) <= n
  BY DEF Bounded
<1>2. PICK m \in Nat : m = n + Len(q) /\ Len(q) \in Nat
  BY DEF Targets
<1>3. ASSUME NEW s \in t PROVE Len(s) <= m
  BY <1>1, <1>2 DEF Targets
<1>4. ASSUME NEW s \in t, IsAncestor(p, s)
      PROVE  Len(q \o SubSeq(s, Len(p) + 1, Len(s))) <= m
  <2>1. PICK x : x = SubSeq(s, Len(p) + 1, Len(s))
    OBVIOUS
  <2>2. Len(s) \in Nat /\ Len(p) \in Nat /\ Len(p) <= Len(s)
    BY <1>4 DEF IsAncestor, Targets
  <2>3. x \in Targets /\ Len(x) = Len(s) - Len(p)
    BY <2>1, <2>2, SubSeqProperties DEF Targets
  <2>4. Len(q \o x) = Len(q) + Len(x)
    BY <2>3, ConcatProperties, Zenon DEF Targets
  <2> QED BY <1>1, <1>2, <2>1, <2>2, <2>3, <2>4
<1>5. \A x \in Rewrite(t, p, q) : Len(x) <= m
  BY <1>3, <1>4 DEF Rewrite
<1> QED BY <1>2, <1>5 DEF Bounded

LEMMA BoundStep ==
    ASSUME BoundInv, TypeOK, NEW c \in Clients,
           \A b \in Bookmarks : Bounded(view'[b]),
           \A d \in Clients \ {c} : req'[d] = req[d],
           \A b \in Bookmarks : Bounded(req'[c].snap.view[b]) /\ Bounded(req'[c].new.view[b])
    PROVE  BoundInv'
<1>1. ASSUME NEW d \in Clients, NEW b \in Bookmarks
      PROVE  Bounded(req'[d].snap.view[b]) /\ Bounded(req'[d].new.view[b])
  BY DEF BoundInv
<1> QED BY <1>1 DEF BoundInv

LEMMA BeginBound ==
    ASSUME BoundInv, TypeOK, NEW c \in Clients, NEW nv, NEW adds, Begin(c, nv, adds),
           \A b \in Bookmarks : Bounded(nv[b])
    PROVE  BoundInv'
<1>1. /\ req'[c].snap = Now /\ req'[c].new.view = nv
      /\ \A d \in Clients \ {c} : req'[d] = req[d]
      /\ view' = view
  BY ReqTypes DEF Begin, jj
<1>2. Now.view = view
  BY DEF Now
<1>3. \A b \in Bookmarks : Bounded(view[b])
  BY DEF BoundInv
<1> QED BY <1>1, <1>2, <1>3, BoundStep

LEMMA WriteBound ==
    ASSUME BoundInv, TypeOK, NEW c \in Clients, Write(c) PROVE BoundInv'
<1>0. view \in [Bookmarks -> SUBSET Targets] /\ \A b \in Bookmarks : Bounded(view[b])
  BY ReqTypes DEF BoundInv
<1>1. ASSUME NEW b \in Bookmarks, NEW t \in Targets, NEW nv, nv = [view EXCEPT ![b] = {t}]
      PROVE  \A o \in Bookmarks : Bounded(nv[o])
  BY <1>0, <1>1, BoundedOps
<1>2. ASSUME NEW b \in Bookmarks, SetBookmark(c, b) PROVE BoundInv'
  <2>1. \E o \in Bookmarks : \E s \in view[o] : \E n \in 1..Len(s) :
           Begin(c, [view EXCEPT ![b] = {SubSeq(s, 1, n)}], {})
    BY <1>2 DEF SetBookmark
  <2>2. \E t \in Targets : Begin(c, [view EXCEPT ![b] = {t}], {})
    BY <1>0, <2>1, TargetOps
  <2>3. PICK t \in Targets : Begin(c, [view EXCEPT ![b] = {t}], {})
    BY <2>2
  <2>4. PICK nv : nv = [view EXCEPT ![b] = {t}]
    OBVIOUS
  <2>5. Begin(c, nv, {}) /\ \A o \in Bookmarks : Bounded(nv[o])
    BY <1>1, <2>3, <2>4
  <2> QED BY <2>5, BeginBound
<1>3. ASSUME NEW b \in Bookmarks, DeleteBookmark(c, b) PROVE BoundInv'
  <2>1. PICK nv : nv = [view EXCEPT ![b] = {Absent}]
    OBVIOUS
  <2>2. Begin(c, nv, {}) /\ \A o \in Bookmarks : Bounded(nv[o])
    BY <1>1, <1>3, <2>1, TargetOps DEF DeleteBookmark
  <2> QED BY <2>2, BeginBound
<1>4. ASSUME NEW b \in Bookmarks, CommitEdits(c, b) PROVE BoundInv'
  <2>1. PICK tip : tip = Tip(view[b])
    OBVIOUS
  <2>2. tip \in Targets \ {Absent} /\ edits' \in Edits
    BY <1>0, <1>4, <2>1, TipType, RepoViewAssumption DEF CommitEdits, TypeOK, Edits
  <2>3. \E nv : Begin(c, nv, {<<b, edits'>>}) /\ \A o \in Bookmarks : Bounded(nv[o])
    <3>1. CASE Begin(c, [view EXCEPT ![b] = {Append(tip, <<edits'>>)}], {<<b, edits'>>})
      <4>1. Append(tip, <<edits'>>) \in Targets
        BY <2>2, TargetOps
      <4> QED BY <1>1, <3>1, <4>1
    <3>2. CASE Begin(c, [o \in Bookmarks |-> Rewrite(view[o], tip, Amended(tip, edits'))],
                     {<<b, edits'>>})
      <4>1. PICK q : q = Amended(tip, edits')
        OBVIOUS
      <4>2. q \in Targets
        BY <2>2, <4>1, AmendedType
      <4>3. \A o \in Bookmarks : Bounded(Rewrite(view[o], tip, q))
        BY <1>0, <2>2, <4>2, RewriteBounded
      <4> DEFINE nv == [o \in Bookmarks |-> Rewrite(view[o], tip, q)]
      <4>4. Begin(c, nv, {<<b, edits'>>}) /\ \A o \in Bookmarks : Bounded(nv[o])
        BY <3>2, <4>1, <4>3
      <4> HIDE DEF nv
      <4> QED BY <4>4
    <3> QED BY <1>4, <2>1, <3>1, <3>2 DEF CommitEdits
  <2> QED BY <2>3, BeginBound
<1>5. ASSUME NEW s \in Bookmarks, NEW d \in Bookmarks, RebaseBookmark(c, s, d) PROVE BoundInv'
  <2>1. PICK source, dest : source = Tip(view[s]) /\ dest = Tip(view[d])
    OBVIOUS
  <2>2. source \in Targets \ {Absent} /\ dest \in Targets
    BY <1>0, <1>5, <2>1, TipType DEF RebaseBookmark
  <2>3. PICK moved : moved = Append(dest, source[Len(source)])
    OBVIOUS
  <2>4. moved \in Targets
    <3>1. source[Len(source)] \in Seq(Edits)
      BY <2>2 DEF Targets, Absent
    <3> QED BY <2>2, <2>3, <3>1 DEF Targets
  <2> DEFINE nv == [o \in Bookmarks |->
                       IF o = d THEN {moved} ELSE Rewrite(view[o], source, moved)]
  <2>5. \A o \in Bookmarks : Bounded(Rewrite(view[o], source, moved)) /\ Bounded({moved})
    BY <1>0, <2>2, <2>4, RewriteBounded, BoundedOps
  <2>6. Begin(c, nv, {}) /\ \A o \in Bookmarks : Bounded(nv[o])
    BY <1>5, <2>1, <2>3, <2>5 DEF RebaseBookmark
  <2> HIDE DEF nv
  <2> QED BY <2>6, BeginBound
<1> QED BY <1>2, <1>3, <1>4, <1>5 DEF Write

LEMMA BlankBound == \A b \in Bookmarks : Bounded(Blank.view[b])
<1>1. \A b \in Bookmarks : Blank.view[b] = {Absent}
  BY DEF Blank
<1> QED BY <1>1, BoundedOps, TargetOps

LEMMA OtherBound ==
    ASSUME BoundInv, TypeOK, NEW c \in Clients, Push(c) \/ Transaction(c)
    PROVE  BoundInv'
<1>0. /\ \A b \in Bookmarks : /\ Bounded(view[b])
                              /\ Bounded(req[c].snap.view[b]) /\ Bounded(req[c].new.view[b])
      /\ req[c] \in Requests /\ req \in [Clients -> Requests] /\ Now.view = view
      /\ Idle.snap = Blank /\ Idle.new = Blank
  BY ReqTypes DEF BoundInv, Now, Idle
<1>1. CASE (\E b \in Bookmarks : Receive(c, b)) \/ TakeLock(c) \/ OpenProject(c)
  <2>1. /\ \A d \in Clients \ {c} : req'[d] = req[d]
        /\ req'[c].snap \in {req[c].snap, Now} /\ req'[c].new = req[c].new /\ view' = view
    BY <1>0, <1>1 DEF Receive, TakeLock, OpenProject, jj, Requests
  <2>2. \A b \in Bookmarks : Bounded(req'[c].snap.view[b]) /\ Bounded(req'[c].new.view[b])
    BY <1>0, <2>1
  <2> QED BY <1>0, <2>1, <2>2, BoundStep
<1>2. CASE ReadRefs(c)
  <2>1. PICK n : n = Imported(req[c].snap)
    OBVIOUS
  <2>2. /\ \A d \in Clients \ {c} : req'[d] = req[d]
        /\ req'[c].snap = req[c].snap /\ req'[c].new = n /\ view' = view
    BY <1>0, <1>2, <2>1 DEF ReadRefs, jj, Requests
  <2>3. ASSUME NEW b \in Bookmarks PROVE Bounded(n.view[b])
    <3>1. n.view[b] = Merge3(req[c].snap.seen[b], req[c].snap.view[b], {ref[b]})
      BY <2>1 DEF Imported
    <3>2. req[c].snap.view[b] \in SUBSET Targets /\ {ref[b]} \in SUBSET Targets /\ Bounded({ref[b]})
      BY ReqTypes, BoundedOps
    <3> QED BY <1>0, <3>1, <3>2, MergeBounded
  <2> QED BY <1>0, <2>2, <2>3, BoundStep
<1>3. CASE CommitTx(c)
  <2>1. /\ \A d \in Clients \ {c} : req'[d] = req[d]
        /\ req'[c].snap = Blank /\ req'[c].new = Blank
    BY <1>0, <1>3 DEF CommitTx, Idle
  <2>2. ASSUME NEW b \in Bookmarks PROVE Bounded(view'[b])
    <3>1. view'[b] = Merge3(req[c].snap.view[b], view[b], req[c].new.view[b])
      BY <1>3, MergedIs DEF CommitTx
    <3> QED BY <1>0, <3>1, ReqTypes, MergeBounded
  <2> QED BY <2>1, <2>2, BlankBound, BoundStep
<1>4. CASE ExportRefs(c)
  <2>1. PICK s : s = req[c].snap
    OBVIOUS
  <2>2. PICK n : n = [view |-> s.view, seen |->
                        [x \in Bookmarks |-> IF Exports(s, x) THEN s.view[x] ELSE s.seen[x]]]
    OBVIOUS
  <2>3. req' = [req EXCEPT ![c].at = "close", ![c].new = n] /\ view' = view
    BY <1>4, <2>1, <2>2 DEF ExportRefs, jj
  <2>4. /\ \A d \in Clients \ {c} : req'[d] = req[d]
        /\ req'[c].snap = s /\ req'[c].new = n
    BY <1>0, <2>1, <2>3 DEF Requests
  <2>5. n.view = s.view
    BY <2>2
  <2> QED BY <1>0, <2>1, <2>3, <2>4, <2>5, BoundStep
<1>5. CASE CloseExport(c)
  <2>1. /\ \A d \in Clients \ {c} : req'[d] = req[d]
        /\ req'[c].snap = Blank /\ req'[c].new = Blank /\ view' = view
    BY <1>0, <1>5 DEF CloseExport, Idle
  <2> QED BY <1>0, <2>1, BlankBound, BoundStep
<1> QED BY <1>1, <1>2, <1>3, <1>4, <1>5 DEF Push, Transaction

LEMMA FaultBound ==
    ASSUME BoundInv, TypeOK,
           Restart \/ (\E c \in Clients : Fail(c) \/ Disconnect(c)) \/ UNCHANGED vars
    PROVE  BoundInv'
<1>1. Idle.snap = Blank /\ Idle.new = Blank /\ req \in [Clients -> Requests]
  BY DEF Idle, TypeOK, Requests
<1>2. ASSUME NEW d \in Clients, NEW b \in Bookmarks, req'[d] = req[d] \/ req'[d] = Idle
      PROVE  Bounded(req'[d].snap.view[b]) /\ Bounded(req'[d].new.view[b])
  BY <1>1, <1>2, BlankBound DEF BoundInv
<1>3. CASE Restart
  BY <1>2, <1>3 DEF Restart, jj, BoundInv
<1>4. ASSUME NEW c \in Clients, Fail(c) \/ Disconnect(c) PROVE BoundInv'
  <2>1. (req' = req \/ req' = [req EXCEPT ![c] = Idle]) /\ view' = view
    BY <1>4 DEF Fail, Disconnect, jj
  <2>2. \A d \in Clients : req'[d] = req[d] \/ req'[d] = Idle
    BY <1>1, <2>1
  <2> QED BY <1>2, <2>1, <2>2 DEF BoundInv
<1>5. CASE UNCHANGED vars
  BY <1>5 DEF vars, jj, BoundInv
<1> QED BY <1>3, <1>4, <1>5

-----------------------------------------------------------------------------
(* The invariant of the edits. *)

LEMMA EditInit == ASSUME Init PROVE EditInv
<1>0. 1 \in Edits
  BY RepoViewAssumption DEF Edits
<1>1. \A b \in Bookmarks : /\ Initial(b) \in Targets /\ view[b] = {Initial(b)}
                            /\ seen[b] = {Initial(b)} /\ ref[b] = Initial(b)
  BY <1>0, TargetOps DEF Init, Initial
<1>2. \A c \in Clients : req[c] = Idle
  BY DEF Init
<1>3. /\ Idle.snap = Blank /\ Idle.new = Blank /\ Idle.adds = {}
      /\ Idle.at = "idle"
  BY DEF Idle
<1>4. BoundInv
  BY <1>1, <1>2, <1>3, BoundedOps, BlankBound DEF BoundInv
<1>5. ASSUME NEW b \in Bookmarks, NEW e \in Edits PROVE Kept(b, e)
  <2>1. Covered(b, e)
    BY <1>1 DEF Covered, Holds
  <2>2. Owed(b, e)
    <3> SUFFICES ASSUME <<b, e>> \in acked PROVE e \in Content(ref[b])
      BY DEF Owed
    <3>1. b = Main /\ e = 1
      BY DEF Init
    <3>2. ref[b] = <<<<1>>>>
      BY <1>1, <3>1 DEF Initial
    <3>3. 1 \in DOMAIN <<<<1>>>> /\ 1 \in DOMAIN <<<<1>>>>[1] /\ <<<<1>>>>[1][1] = 1
      OBVIOUS
    <3> QED BY <1>0, <3>1, <3>2, <3>3 DEF Content
  <2>3. ASSUME NEW c \in Clients PROVE Remembered(req[c], b, e) /\ Carried(req[c], b, e)
    <3>1. Blank.view[b] = {Absent} /\ Blank.seen[b] = {Absent}
      BY DEF Blank
    <3> QED BY <1>2, <1>3, <3>1, NoContent DEF Remembered, Carried
  <2> QED BY <2>1, <2>2, <2>3 DEF Kept
<1> QED BY <1>4, <1>5 DEF EditInv

LEMMA EditNext == ASSUME IInv, EditInv, [Next]_vars PROVE EditInv'
<1>1. TypeOK /\ BoundInv
  BY DEF IInv, EditInv
<1>2. BoundInv'
  BY <1>1, WriteBound, OtherBound, FaultBound DEF Next
<1>3. dropped \subseteq dropped'
  <2>1. ASSUME NEW c \in Clients, Write(c) PROVE dropped \subseteq dropped'
    BY <2>1 DEF Write, SetBookmark, DeleteBookmark, CommitEdits, RebaseBookmark
  <2>2. ASSUME NEW c \in Clients, NEW b \in Bookmarks, Receive(c, b)
        PROVE  dropped \subseteq dropped'
    <3>1. \A v : Move(b, v) => dropped \subseteq dropped'
      BY DEF Move
    <3> HIDE DEF Move
    <3>2. \E v : Move(b, v)
      BY <2>2 DEF Receive
    <3> QED BY <3>1, <3>2
  <2>3. ASSUME NEW c \in Clients, TakeLock(c) \/ ReadRefs(c) \/ Transaction(c)
        PROVE  dropped \subseteq dropped'
    BY <2>3 DEF TakeLock, ReadRefs, Transaction, CommitTx, OpenProject, ExportRefs,
                CloseExport, hist
  <2>4. CASE Restart \/ (\E c \in Clients : Fail(c) \/ Disconnect(c)) \/ UNCHANGED vars
    BY <2>4 DEF Restart, Fail, Disconnect, vars, hist
  <2> QED BY <2>1, <2>2, <2>3, <2>4 DEF Next, Push
<1>4. ASSUME NEW b \in Bookmarks, NEW e \in Edits, <<b, e>> \notin dropped' PROVE Kept(b, e)'
  <2>1. Kept(b, e)
    BY <1>3, <1>4 DEF EditInv
  <2>2. ASSUME NEW c \in Clients, Write(c) PROVE Kept(b, e)'
    BY <1>1, <1>4, <2>1, <2>2, WriteKept
  <2>3. ASSUME NEW c \in Clients, Push(c) PROVE Kept(b, e)'
    BY <1>1, <1>4, <2>1, <2>3, ReceiveKept, TakeLockKept, ReadRefsKept DEF Push
  <2>4. ASSUME NEW c \in Clients, Transaction(c) PROVE Kept(b, e)'
    BY <1>1, <1>4, <2>1, <2>4, CommitTxKept, OpenProjectKept, ExportRefsKept, CloseExportKept
       DEF Transaction
  <2>5. CASE Restart \/ (\E c \in Clients : Fail(c) \/ Disconnect(c)) \/ UNCHANGED vars
    BY <1>1, <2>1, <2>5, FaultKept
  <2> QED BY <2>2, <2>3, <2>4, <2>5 DEF Next
<1> QED BY <1>2, <1>4 DEF EditInv

-----------------------------------------------------------------------------
(* Requests one after the other. *)

OneSided(f) == \A b \in Bookmarks : \E t \in f[b] : f[b] = {t}
Existing(f) == \E b \in Bookmarks : f[b] # {Absent}

(* Both doors show the same repository. *)
Synced ==
    /\ \A b \in Bookmarks : view[b] = {ref[b]} /\ seen[b] = {ref[b]}
    /\ ref[head] # Absent

(* How far a request that is alone has brought either door: what it found  *)
(* is what is still there, and after its transaction git lags behind the   *)
(* view by what the transaction did.                                       *)
InStep(q) ==
    /\ q.at \notin {"idle", "waiting", "project"} => q.snap.view = view /\ q.snap.seen = seen
    /\ q.at \in {"waiting", "reading"} =>
          /\ \A b \in Bookmarks : view[b] = seen[b]
          /\ OneSided(view) /\ ref[head] # Absent
    /\ q.at = "commit" =>
          /\ \A b \in Bookmarks : view[b] = seen[b] /\ q.new.seen[b] = {ref[b]}
          /\ OneSided(q.new.view) /\ Existing(q.new.view)
    /\ q.at \in {"project", "export"} =>
          /\ \A b \in Bookmarks : seen[b] = {ref[b]}
          /\ OneSided(view) /\ Existing(view)
    /\ q.at = "close" =>
          /\ \A b \in Bookmarks : view[b] = {ref[b]} /\ q.new.seen[b] = {ref[b]}
          /\ Existing(view)

SoloInv ==
    ~overlapped /\ ~faulty =>
       /\ \A c, d \in Clients : req[c].at # "idle" /\ req[d].at # "idle" => c = d
       /\ \A c \in Clients : InStep(req[c])
       /\ (\A c \in Clients : req[c].at = "idle") => Synced

LEMMA SoloSyncs == ASSUME SoloInv PROVE InSync
BY DEF SoloInv, InSync, Synced

LEMMA SoloStep ==
    ASSUME NEW c \in Clients,
           \A d \in Clients \ {c} : req'[d] = req[d] /\ req[d].at = "idle",
           NEW q, req'[c] = q, InStep(q)', q.at = "idle" => Synced'
    PROVE  SoloInv'
<1>1. ASSUME NEW d \in Clients \ {c} PROVE InStep(req[d])'
  <2>1. PICK r : r = req[d] /\ r = req'[d] /\ r.at = "idle"
    OBVIOUS
  <2>2. InStep(r)'
    BY <2>1 DEF InStep
  <2> QED BY <2>1, <2>2
<1>2. \A d \in Clients : InStep(req[d])'
  BY <1>1
<1>3. \A x, y \in Clients : req'[x].at # "idle" /\ req'[y].at # "idle" => x = y
  OBVIOUS
<1>4. (\A d \in Clients : req'[d].at = "idle") => Synced'
  OBVIOUS
<1> QED BY <1>2, <1>3, <1>4 DEF SoloInv

(* The request that goes on is the only one, and as far as its stage says. *)
LEMMA SoloAt ==
    ASSUME SoloInv, ~overlapped, ~faulty, NEW c \in Clients, req[c].at # "idle"
    PROVE  InStep(req[c]) /\ \A d \in Clients \ {c} : req[d].at = "idle"
BY DEF SoloInv

LEMMA SoloArrives ==
    ASSUME SoloInv, ~overlapped', ~faulty, NEW c \in Clients, Arrive(c)
    PROVE  Synced /\ \A d \in Clients : req[d].at = "idle"
BY DEF SoloInv, Arrive

LEMMA SoloBegin ==
    ASSUME TypeOK, SoloInv, NEW c \in Clients, NEW nv, NEW adds, Begin(c, nv, adds),
           Synced => OneSided(nv) /\ Existing(nv)
    PROVE  SoloInv'
<1> SUFFICES ASSUME ~overlapped', ~faulty PROVE SoloInv'
  BY DEF Begin, SoloInv
<1>1. Synced /\ \A d \in Clients : req[d].at = "idle"
  BY SoloArrives DEF Begin
<1>2. PICK q : q = [at |-> "commit", kind |-> "write", snap |-> Now,
                    new |-> [view |-> nv, seen |-> seen], adds |-> adds]
  OBVIOUS
<1>3. /\ req'[c] = q /\ \A d \in Clients \ {c} : req'[d] = req[d]
      /\ UNCHANGED <<view, seen, ref, head>>
  BY <1>2, ReqTypes DEF Begin, jj
<1>4. /\ q.at = "commit" /\ q.snap.view = view /\ q.snap.seen = seen
      /\ q.new.view = nv /\ q.new.seen = seen
  BY <1>2 DEF Now
<1>5. InStep(q)'
  BY <1>1, <1>3, <1>4 DEF InStep, Synced
<1> QED BY <1>1, <1>3, <1>4, <1>5, SoloStep

LEMMA SyncedNormal ==
    ASSUME TypeOK, Synced, NEW b \in Bookmarks
    PROVE  /\ view[b] = {ref[b]} /\ ref[b] \in Targets
           /\ IsNormal(view[b]) <=> ref[b] # Absent
           /\ Tip(view[b]) = ref[b]
BY ReqTypes DEF Synced, IsNormal, Tip, TypeOK

LEMMA SoloWrite ==
    ASSUME TypeOK, SoloInv, NEW c \in Clients, Write(c) PROVE SoloInv'
<1>0. view \in [Bookmarks -> SUBSET Targets]
  BY ReqTypes
<1>1. ASSUME NEW b \in Bookmarks, SetBookmark(c, b) PROVE SoloInv'
  <2>1. PICK o \in Bookmarks : \E s \in view[o] : \E n \in 1..Len(s) :
           Begin(c, [view EXCEPT ![b] = {SubSeq(s, 1, n)}], {})
    BY <1>1 DEF SetBookmark
  <2>2. PICK s \in view[o] : \E n \in 1..Len(s) :
           Begin(c, [view EXCEPT ![b] = {SubSeq(s, 1, n)}], {})
    BY <2>1
  <2>3. PICK n \in 1..Len(s) : Begin(c, [view EXCEPT ![b] = {SubSeq(s, 1, n)}], {})
    BY <2>2
  <2>4. SubSeq(s, 1, n) # Absent
    <3>1. s \in Targets /\ Len(SubSeq(s, 1, n)) = n
      BY <1>0, SubSeqProperties DEF Targets
    <3> QED BY <3>1 DEF Absent
  <2>5. PICK nv : nv = [view EXCEPT ![b] = {SubSeq(s, 1, n)}]
    OBVIOUS
  <2>6. nv[b] = {SubSeq(s, 1, n)} /\ \A x \in Bookmarks \ {b} : nv[x] = view[x]
    BY <1>0, <2>5
  <2>7. ASSUME Synced PROVE OneSided(nv) /\ Existing(nv)
    <3>1. nv[b] # {Absent}
      BY <2>4, <2>6
    <3>2. \A x \in Bookmarks : \E t \in nv[x] : nv[x] = {t}
      BY <2>6, <2>7 DEF Synced
    <3> QED BY <3>1, <3>2 DEF OneSided, Existing
  <2>8. Begin(c, nv, {})
    BY <2>3, <2>5
  <2> QED BY <2>7, <2>8, SoloBegin
<1>2. ASSUME NEW b \in Bookmarks, DeleteBookmark(c, b) PROVE SoloInv'
  <2>1. PICK nv : nv = [view EXCEPT ![b] = {Absent}]
    OBVIOUS
  <2>2. nv[b] = {Absent} /\ \A x \in Bookmarks \ {b} : nv[x] = view[x]
    BY <1>0, <2>1
  <2>3. ASSUME Synced PROVE OneSided(nv) /\ Existing(nv)
    <3>1. IsNormal(view[b])
      BY <1>2, <2>3, SyncedNormal DEF DeleteBookmark
    <3>2. PICK o \in Bookmarks \ {b} : IsNormal(view[o])
      BY <1>2, <3>1 DEF DeleteBookmark
    <3>3. nv[o] # {Absent}
      BY <2>2, <3>2 DEF IsNormal
    <3> QED BY <2>2, <2>3, <3>3 DEF Synced, OneSided, Existing
  <2>4. Begin(c, nv, {})
    BY <1>2, <2>1 DEF DeleteBookmark
  <2> QED BY <2>3, <2>4, SoloBegin
<1>3. ASSUME NEW b \in Bookmarks, CommitEdits(c, b) PROVE SoloInv'
  <2>1. PICK tip, e : tip = Tip(view[b]) /\ e = edits'
    OBVIOUS
  <2>2. tip \in Targets \ {Absent} /\ e \in Edits
    BY <1>0, <1>3, <2>1, TipType, RepoViewAssumption DEF CommitEdits, TypeOK, Edits
  <2>3. CASE Begin(c, [view EXCEPT ![b] = {Append(tip, <<e>>)}], {<<b, e>>})
    <3>1. PICK nv : nv = [view EXCEPT ![b] = {Append(tip, <<e>>)}]
      OBVIOUS
    <3>2. nv[b] = {Append(tip, <<e>>)} /\ \A x \in Bookmarks \ {b} : nv[x] = view[x]
      BY <1>0, <3>1
    <3>3. Append(tip, <<e>>) # Absent
      <4>1. PICK t : t = Append(tip, <<e>>)
        OBVIOUS
      <4>2. Len(t) = Len(tip) + 1 /\ Len(tip) \in Nat
        BY <2>2, <4>1 DEF Targets
      <4> QED BY <4>1, <4>2 DEF Absent
    <3>4. Synced => OneSided(nv) /\ Existing(nv)
      BY <3>2, <3>3 DEF Synced, OneSided, Existing
    <3>5. Begin(c, nv, {<<b, e>>})
      BY <2>3, <3>1
    <3> QED BY <3>4, <3>5, SoloBegin
  <2>4. CASE Begin(c, [o \in Bookmarks |-> Rewrite(view[o], tip, Amended(tip, e))], {<<b, e>>})
    <3>1. PICK nv : nv = [o \in Bookmarks |-> Rewrite(view[o], tip, Amended(tip, e))]
      OBVIOUS
    <3>2. ASSUME Synced PROVE OneSided(nv) /\ Existing(nv)
      <4>1. ASSUME NEW o \in Bookmarks PROVE \E t \in nv[o] : nv[o] = {t}
        <5>1. view[o] = {ref[o]} /\ nv[o] = Rewrite(view[o], tip, Amended(tip, e))
          BY <3>1, <3>2 DEF Synced
        <5>2. PICK r : r = IF IsAncestor(tip, ref[o])
                             THEN Amended(tip, e) \o SubSeq(ref[o], Len(tip) + 1, Len(ref[o]))
                             ELSE ref[o]
          OBVIOUS
        <5>3. nv[o] = {r}
          BY <5>1, <5>2 DEF Rewrite
        <5> QED BY <5>3
      <4>2. PICK d : d = Amended(tip, e) \o SubSeq(tip, Len(tip) + 1, Len(tip))
        OBVIOUS
      <4>3. d # Absent
        <5>1. SubSeq(tip, Len(tip) + 1, Len(tip)) = <<>> /\ Amended(tip, e) \in Targets
              /\ Len(Amended(tip, e)) = Len(tip) /\ Len(tip) \in 1..Len(tip)
          BY <2>2, AmendedIs, SubSeqEmpty
        <5>2. d = Amended(tip, e)
          BY <4>2, <5>1, ConcatEmptySeq DEF Targets
        <5> QED BY <5>1, <5>2 DEF Absent
      <4>4. d \in nv[b]
        <5>1. tip \in view[b]
          BY <2>1, <3>2, SyncedNormal DEF Synced
        <5>2. IsAncestor(tip, tip)
          BY <2>2, SubSeqFull DEF IsAncestor, Targets
        <5> QED BY <3>1, <4>2, <5>1, <5>2 DEF Rewrite
      <4> QED BY <4>1, <4>3, <4>4 DEF OneSided, Existing
    <3>3. Begin(c, nv, {<<b, e>>})
      BY <2>4, <3>1
    <3> QED BY <3>2, <3>3, SoloBegin
  <2> QED BY <1>3, <2>1, <2>3, <2>4 DEF CommitEdits
<1>4. ASSUME NEW s \in Bookmarks, NEW d \in Bookmarks, RebaseBookmark(c, s, d) PROVE SoloInv'
  <2>1. PICK source, dest, moved : /\ source = Tip(view[s]) /\ dest = Tip(view[d])
                                   /\ moved = Append(dest, source[Len(source)])
    OBVIOUS
  <2>2. moved # Absent
    <3>1. source \in Targets \ {Absent} /\ dest \in Targets
      BY <1>0, <1>4, <2>1, TipType DEF RebaseBookmark
    <3>2. source[Len(source)] \in Seq(Edits)
      BY <3>1 DEF Targets, Absent
    <3>3. Len(moved) = Len(dest) + 1 /\ Len(dest) \in Nat
      BY <2>1, <3>1, <3>2 DEF Targets
    <3> QED BY <3>3 DEF Absent
  <2>3. PICK nv : nv = [o \in Bookmarks |->
                          IF o = d THEN {moved} ELSE Rewrite(view[o], source, moved)]
    OBVIOUS
  <2>4. ASSUME Synced PROVE OneSided(nv) /\ Existing(nv)
    <3>1. ASSUME NEW o \in Bookmarks PROVE \E t \in nv[o] : nv[o] = {t}
      <4>1. view[o] = {ref[o]} /\ (nv[o] = {moved} \/ nv[o] = Rewrite(view[o], source, moved))
        BY <2>3, <2>4 DEF Synced
      <4>2. PICK r : r = IF IsAncestor(source, ref[o])
                           THEN moved \o SubSeq(ref[o], Len(source) + 1, Len(ref[o]))
                           ELSE ref[o]
        OBVIOUS
      <4>3. Rewrite(view[o], source, moved) = {r}
        BY <4>1, <4>2 DEF Rewrite
      <4> QED BY <4>1, <4>3
    <3>2. nv[d] = {moved}
      BY <2>3
    <3> QED BY <2>2, <3>1, <3>2 DEF OneSided, Existing
  <2>5. Begin(c, nv, {})
    BY <1>4, <2>1, <2>3 DEF RebaseBookmark
  <2> QED BY <2>4, <2>5, SoloBegin
<1> QED BY <1>1, <1>2, <1>3, <1>4 DEF Write

LEMMA SoloReceive ==
    ASSUME TypeOK, SoloInv, NEW c \in Clients, NEW o \in Bookmarks, Receive(c, o) PROVE SoloInv'
<1> SUFFICES ASSUME ~overlapped', ~faulty PROVE SoloInv'
  BY DEF Receive, SoloInv
<1>1. Synced /\ \A d \in Clients : req[d].at = "idle"
  BY SoloArrives DEF Receive
<1>2. PICK q : q = [req[c] EXCEPT !.at = "waiting", !.kind = "push"]
  OBVIOUS
<1>3. /\ req'[c] = q /\ \A d \in Clients \ {c} : req'[d] = req[d]
      /\ UNCHANGED <<view, seen, head>> /\ q.at = "waiting"
  BY <1>2, ReqTypes DEF Receive, jj, Requests
<1>4. ref'[head] # Absent
  <2>1. \E v : Move(o, v) /\ (o = head => v # Absent)
    <3>1. CASE edits < MaxEdits /\ edits' = edits + 1
      <4>1. edits' \in Edits /\ edits' # edits
        BY <3>1, RepoViewAssumption DEF TypeOK, Edits
      <4>2. ASSUME NEW x \in Bookmarks PROVE Append(ref[x], <<edits'>>) # Absent
        <5>1. PICK t : t = Append(ref[x], <<edits'>>)
          OBVIOUS
        <5>2. Len(t) = Len(ref[x]) + 1 /\ Len(ref[x]) \in Nat
          BY <5>1, ReqTypes DEF Targets
        <5> QED BY <5>1, <5>2 DEF Absent
      <4>3. ref[o] # Absent => Amended(ref[o], edits') # Absent
        <5>1. ref[o] # Absent => /\ Len(Amended(ref[o], edits')) = Len(ref[o])
                                 /\ Len(ref[o]) \in 1..Len(ref[o])
          BY <4>1, ReqTypes, AmendedIs
        <5> QED BY <5>1 DEF Absent
      <4> QED BY <4>1, <4>2, <4>3 DEF Receive
    <3>2. CASE UNCHANGED <<edits, acked>>
      <4>1. edits + 1 # edits
        BY DEF Edits, TypeOK
      <4> QED BY <3>2, <4>1 DEF Receive
    <3> QED BY <3>1, <3>2 DEF Receive
  <2>2. PICK v : Move(o, v) /\ (o = head => v # Absent)
    BY <2>1
  <2> QED BY <1>1, <2>2 DEF Move, TypeOK, Synced
<1>5. InStep(q)'
  <2>1. OneSided(view) /\ \A b \in Bookmarks : view[b] = seen[b]
    BY <1>1 DEF OneSided, Synced
  <2> QED BY <1>3, <1>4, <2>1 DEF InStep, OneSided
<1> QED BY <1>1, <1>3, <1>5, SoloStep

LEMMA SoloPush ==
    ASSUME TypeOK, SoloInv, NEW c \in Clients, TakeLock(c) \/ ReadRefs(c) PROVE SoloInv'
<1> SUFFICES ASSUME ~overlapped, ~faulty PROVE SoloInv'
  BY DEF TakeLock, ReadRefs, hist, SoloInv
<1>1. InStep(req[c]) /\ \A d \in Clients \ {c} : req[d].at = "idle"
  BY SoloAt DEF TakeLock, ReadRefs
<1>2. CASE TakeLock(c)
  <2>1. PICK q : q = [req[c] EXCEPT !.at = "reading", !.snap = Now]
    OBVIOUS
  <2>2. /\ req'[c] = q /\ \A d \in Clients \ {c} : req'[d] = req[d]
        /\ UNCHANGED <<view, seen, ref, head>> /\ req[c].at = "waiting"
    BY <1>2, <2>1, ReqTypes DEF TakeLock, jj
  <2>3. q.at = "reading" /\ q.snap.view = view /\ q.snap.seen = seen
    BY <2>1, ReqTypes DEF Requests, Now
  <2>4. InStep(q)'
    BY <1>1, <2>2, <2>3 DEF InStep, OneSided
  <2> QED BY <1>1, <2>2, <2>3, <2>4, SoloStep
<1>3. CASE ReadRefs(c)
  <2>1. PICK n : n = Imported(req[c].snap)
    OBVIOUS
  <2>2. PICK q : q = [req[c] EXCEPT !.at = "commit", !.new = n]
    OBVIOUS
  <2>3. /\ req'[c] = q /\ \A d \in Clients \ {c} : req'[d] = req[d]
        /\ UNCHANGED <<view, seen, ref, head>> /\ req[c].at = "reading"
    BY <1>3, <2>1, <2>2, ReqTypes DEF ReadRefs, jj
  <2>4. q.at = "commit" /\ q.snap = req[c].snap /\ q.new = n
    BY <2>2, ReqTypes DEF Requests
  <2>5. \A b \in Bookmarks : n.view[b] = {ref[b]} /\ n.seen[b] = {ref[b]} /\ view[b] = seen[b]
    <3>1. \A b \in Bookmarks : view[b] = seen[b] /\ req[c].snap.view[b] = view[b]
                              /\ req[c].snap.seen[b] = view[b]
      BY <1>1, <2>3 DEF InStep
    <3>2. ASSUME NEW b \in Bookmarks PROVE n.view[b] = {ref[b]} /\ n.seen[b] = {ref[b]}
      <4>1. /\ n.view[b] = Merge3(req[c].snap.seen[b], req[c].snap.view[b], {ref[b]})
            /\ n.seen[b] = {ref[b]}
        BY <2>1 DEF Imported
      <4>2. req[c].snap.seen[b] = req[c].snap.view[b]
        BY <3>1
      <4> QED BY <4>1, <4>2, MergeAlone
    <3> QED BY <3>1, <3>2
  <2>6. OneSided(n.view) /\ Existing(n.view)
    <3>1. head \in Bookmarks /\ ref[head] # Absent
      BY <1>1, <2>3 DEF InStep, TypeOK
    <3>2. n.view[head] # {Absent}
      BY <2>5, <3>1
    <3> QED BY <2>5, <3>1, <3>2 DEF OneSided, Existing
  <2>7. InStep(q)'
    BY <1>1, <2>3, <2>4, <2>5, <2>6 DEF InStep, OneSided, Existing
  <2> QED BY <1>1, <2>3, <2>4, <2>7, SoloStep
<1> QED BY <1>2, <1>3

LEMMA SoloTransaction ==
    ASSUME TypeOK, SoloInv, NEW c \in Clients, Transaction(c) PROVE SoloInv'
<1> SUFFICES ASSUME ~overlapped, ~faulty PROVE SoloInv'
  BY DEF Transaction, CommitTx, OpenProject, ExportRefs, CloseExport, hist, SoloInv
<1>1. PICK r : r = req[c]
  OBVIOUS
<1>2. InStep(r) /\ \A d \in Clients \ {c} : req[d].at = "idle"
  BY <1>1, SoloAt DEF Transaction, CommitTx, OpenProject, ExportRefs, CloseExport
<1>3. CASE CommitTx(c)
  <2>1. PICK q : q = [Idle EXCEPT !.at = "project", !.kind = req[c].kind]
    OBVIOUS
  <2>2. /\ req'[c] = q /\ \A d \in Clients \ {c} : req'[d] = req[d]
        /\ q.at = "project" /\ r.at = "commit" /\ ref' = ref
    BY <1>1, <1>3, <2>1, ReqTypes DEF CommitTx, Idle
  <2>3. \A b \in Bookmarks : view'[b] = r.new.view[b] /\ seen'[b] = {ref[b]}
    <3>1. \A b \in Bookmarks :
             /\ view'[b] = Merge3(r.snap.view[b], view[b], r.new.view[b])
             /\ seen'[b] = Merge3(r.snap.seen[b], seen[b], r.new.seen[b])
      BY <1>1, <1>3, MergedIs DEF CommitTx
    <3> QED BY <1>2, <2>2, <3>1, MergeAlone DEF InStep
  <2>4. OneSided(view)' /\ Existing(view)'
    BY <1>2, <2>2, <2>3 DEF InStep, OneSided, Existing
  <2>5. InStep(q)'
    BY <2>2, <2>3, <2>4 DEF InStep, OneSided, Existing
  <2> QED BY <1>2, <2>2, <2>5, SoloStep
<1>4. CASE OpenProject(c)
  <2>1. PICK q : q = [req[c] EXCEPT !.at = "export", !.snap = Now]
    OBVIOUS
  <2>2. /\ req'[c] = q /\ \A d \in Clients \ {c} : req'[d] = req[d]
        /\ UNCHANGED <<view, seen, ref, head>> /\ r.at = "project"
    BY <1>1, <1>4, <2>1, ReqTypes DEF OpenProject, jj
  <2>3. q.at = "export" /\ q.snap.view = view /\ q.snap.seen = seen
    BY <2>1, ReqTypes DEF Requests, Now
  <2>4. InStep(q)'
    BY <1>2, <2>2, <2>3 DEF InStep, OneSided, Existing
  <2> QED BY <1>2, <2>2, <2>3, <2>4, SoloStep
<1>5. CASE ExportRefs(c)
  <2>1. PICK s : s = r.snap
    OBVIOUS
  <2>2. PICK n : n = [view |-> s.view, seen |->
                        [x \in Bookmarks |-> IF Exports(s, x) THEN s.view[x] ELSE s.seen[x]]]
    OBVIOUS
  <2>3. PICK q : q = [req[c] EXCEPT !.at = "close", !.new = n]
    OBVIOUS
  <2>4. req' = [req EXCEPT ![c] = q] /\ r.at = "export" /\ UNCHANGED <<view, seen, head>>
    BY <1>1, <1>5, <2>1, <2>2, <2>3 DEF ExportRefs, jj
  <2>5. /\ req'[c] = q /\ \A d \in Clients \ {c} : req'[d] = req[d]
        /\ q.at = "close" /\ q.snap = s /\ q.new = n
    BY <1>1, <2>1, <2>3, <2>4, ReqTypes DEF Requests
  <2>6. ASSUME NEW b \in Bookmarks PROVE view[b] = {ref'[b]} /\ n.seen[b] = {ref'[b]}
    <3>1. /\ ref'[b] = IF Exports(s, b) THEN Tip(s.view[b]) ELSE ref[b]
          /\ n.seen[b] = IF Exports(s, b) THEN s.view[b] ELSE s.seen[b]
      BY <1>1, <1>5, <2>1, <2>2 DEF ExportRefs
    <3>2. PICK t \in view[b] : view[b] = {t}
      BY <1>2, <2>4 DEF InStep, OneSided
    <3>3. seen[b] = {ref[b]} /\ s.view[b] = {t} /\ s.seen[b] = {ref[b]}
      BY <1>2, <2>1, <2>4, <3>2 DEF InStep
    <3>4. Exports(s, b) <=> t # ref[b]
      BY <3>3 DEF Exports
    <3>5. Tip(s.view[b]) = t
      BY <3>3 DEF Tip
    <3> QED BY <3>1, <3>2, <3>3, <3>4, <3>5
  <2>7. InStep(q)'
    BY <1>2, <2>1, <2>4, <2>5, <2>6 DEF InStep, Existing
  <2> QED BY <1>2, <2>5, <2>7, SoloStep
<1>6. CASE CloseExport(c)
  <2>1. PICK q : q = Idle
    OBVIOUS
  <2>2. /\ req'[c] = q /\ \A d \in Clients \ {c} : req'[d] = req[d]
        /\ q.at = "idle" /\ r.at = "close" /\ UNCHANGED <<view, ref>>
    BY <1>1, <1>6, <2>1, ReqTypes DEF CloseExport, Idle
  <2>3. \A b \in Bookmarks : view[b] = {ref[b]} /\ seen'[b] = {ref[b]}
    <3>1. \A b \in Bookmarks : seen'[b] = Merge3(r.snap.seen[b], seen[b], r.new.seen[b])
      BY <1>1, <1>6, MergedIs DEF CloseExport
    <3> QED BY <1>2, <2>2, <3>1, MergeAlone DEF InStep
  <2>4. ref[head'] # Absent /\ head' \in Bookmarks
    <3>1. PICK exists : exists = {b \in Bookmarks : view[b] # {Absent}}
      OBVIOUS
    <3>2. r.snap.view = view /\ exists # {}
      BY <1>2, <2>2, <3>1 DEF InStep, Existing
    <3>3. head' \in (IF exists = {} \/ Main \in exists THEN {Main} ELSE exists)
      BY <1>1, <1>6, <3>1, <3>2 DEF CloseExport
    <3>4. head' \in exists
      BY <3>2, <3>3
    <3> QED BY <2>3, <3>1, <3>4
  <2>5. Synced'
    BY <2>2, <2>3, <2>4 DEF Synced
  <2>6. InStep(q)'
    BY <2>2 DEF InStep, OneSided, Existing
  <2> QED BY <1>2, <2>2, <2>5, <2>6, SoloStep
<1> QED BY <1>3, <1>4, <1>5, <1>6 DEF Transaction

LEMMA SoloInit == ASSUME Init PROVE SoloInv
<1>1. Synced
  BY RepoViewAssumption DEF Init, Initial, Absent, Synced
<1>2. \A c \in Clients : req[c].at = "idle"
  BY DEF Init, Idle
<1> QED BY <1>1, <1>2 DEF SoloInv, InStep

LEMMA SoloNext == ASSUME IInv, SoloInv, [Next]_vars PROVE SoloInv'
<1>1. TypeOK
  BY DEF IInv
<1>2. ASSUME NEW c \in Clients, Write(c) \/ Push(c) \/ Transaction(c) PROVE SoloInv'
  BY <1>1, <1>2, SoloWrite, SoloReceive, SoloPush, SoloTransaction DEF Push
<1>3. CASE Restart \/ \E c \in Clients : Fail(c) \/ Disconnect(c)
  BY <1>3 DEF Restart, Fail, Disconnect, SoloInv
<1>4. CASE UNCHANGED vars
  BY <1>4 DEF vars, jj, hist, SoloInv, Synced, InStep, OneSided, Existing
<1> QED BY <1>2, <1>3, <1>4 DEF Next

-----------------------------------------------------------------------------
(* What becomes of edits, and of the two doors. *)

(* What is known of every edit nobody dropped, and of requests that come   *)
(* one after the other, holds in every reachable state.                    *)
THEOREM EditInvariance == Spec => [](EditInv /\ SoloInv)
<1>1. Init => EditInv /\ SoloInv
  BY EditInit, SoloInit
<1>2. IInv /\ (EditInv /\ SoloInv) /\ [Next]_vars => (EditInv /\ SoloInv)'
  BY EditNext, SoloNext
<1> QED BY <1>1, <1>2, Invariance, PTL DEF Spec

(* An edit that was acknowledged on a bookmark is on that bookmark, in the *)
(* view or in git, until someone rewrites, moves or deletes the bookmark   *)
(* without it, or takes it with one side of a conflict: however writes,    *)
(* pushes, imports and exports interleave, fail and restart.               *)
THEOREM NoEditIsLost == Spec => []NoLostEdit
<1>1. IInv /\ EditInv /\ SoloInv => NoLostEdit
  BY EditsAreKept DEF IInv
<1> QED BY <1>1, Invariance, EditInvariance, PTL

(* Once the requests are done, and as long as none overlapped another or   *)
(* failed, the view, what it has seen of git, and git agree, and HEAD      *)
(* names a ref that exists.                                                *)
THEOREM DoorsInSync == Spec => []InSync
<1>1. EditInv /\ SoloInv => InSync
  BY SoloSyncs
<1> QED BY <1>1, EditInvariance, PTL
==============================================================================
