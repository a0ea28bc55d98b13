------------------------------ MODULE RepoView ------------------------------
(***************************************************************************)
(* One repository seen through two doors: the jj view (bookmarks), written *)
(* by API requests in jj transactions, and the git refs, written by        *)
(* receive-pack and by the export that ends every request (mutation.rs,    *)
(* project.rs, sync.rs import_after_receive, handlers/git_http.rs).        *)
(*                                                                         *)
(* jj-lib (external) opens a transaction on a snapshot and merges it into  *)
(* the current view when it commits, bookmark by bookmark; a bookmark that *)
(* both have moved apart is conflicted and has several sides.  Beside each *)
(* bookmark the view remembers the git ref it last saw.                    *)
(*                                                                         *)
(* A commit is the sequence of changes from the root to it, and a change   *)
(* the sequence of edits that went into it: a new commit appends a change, *)
(* an amend extends the last one, ancestors are prefixes.  Absent is the   *)
(* target of a bookmark or ref that does not exist.                        *)
(***************************************************************************)
EXTENDS Naturals, Sequences

CONSTANTS
    Bookmarks,  \* names of bookmarks (git branches)
    Main,       \* the default bookmark
    Clients,    \* concurrent requests
    NoClient,   \* nobody
    MaxEdits,   \* bound: edits ever made
    MaxRequests \* bound: requests ever begun

ASSUME RepoViewAssumption ==
    /\ Main \in Bookmarks
    /\ NoClient \notin Clients
    /\ MaxEdits \in Nat \ {0} /\ MaxRequests \in Nat

VARIABLES
    view,       \* jj: the sides of each bookmark
    seen,       \* jj: the git target of each bookmark last imported or exported
    ref,        \* git: refs/heads/{name}
    head,       \* git: the branch HEAD names
    lock,       \* import_locks: the request that imports, or NoClient
    req,        \* the request a client has in progress
    edits,      \* edits made so far
    requests,   \* requests begun so far
    acked,      \* history: <<bookmark, edit>> of every acknowledged edit
    dropped,    \* history: <<bookmark, edit>> replaced by a request that saw it,
                \*          or taken with one side of a conflict, left to the others
    overlapped, \* history: two requests were in progress at once
    faulty      \* history: a request failed or was abandoned, or a restart

jj   == <<view, seen>>
hist == <<acked, dropped, overlapped, faulty>>
vars == <<jj, ref, head, lock, req, edits, requests, hist>>

Absent  == <<>>
Edits   == 1..MaxEdits
Targets == Seq(Seq(Edits))
Stages  == {"idle", "waiting", "reading", "commit", "project", "export", "close"}
Kinds   == {"none", "write", "push"}

Content(c) ==
    {e \in Edits : \E i \in DOMAIN c : \E k \in DOMAIN c[i] : c[i][k] = e}
ContentOf(t) == UNION {Content(c) : c \in t}

IsAncestor(c, d) == Len(c) <= Len(d) /\ SubSeq(d, 1, Len(c)) = c
Amended(c, e)    == [c EXCEPT ![Len(c)] = Append(@, e)]

(* The commits of t that are p or descend from p are rewritten to follow q. *)
Rewrite(t, p, q) ==
    {IF IsAncestor(p, c) THEN q \o SubSeq(c, Len(p) + 1, Len(c)) ELSE c : c \in t}

(* as_normal: neither absent nor conflicted. *)
IsNormal(t) == t # {Absent} /\ \E c \in t : t = {c}
Tip(t)      == CHOOSE c \in t : TRUE

(* merge_ref_targets: what both keep and what either adds; a side gives    *)
(* way to its descendant if it descends from the base.                     *)
Merge3(base, left, right) ==
    LET sides == (left \cap right) \cup (left \ base) \cup (right \ base)
        Behind(s) == \E t \in sides \ {s} :
                        /\ s # Absent /\ IsAncestor(s, t)
                        /\ \E b \in base : IsAncestor(b, s)
    IN  IF left = right \/ right = base THEN left
        ELSE IF left = base THEN right
        ELSE IF sides = {} THEN left \cup right
        ELSE {s \in sides : ~Behind(s)}

Now   == [view |-> view, seen |-> seen]
Blank == [view |-> [b \in Bookmarks |-> {Absent}], seen |-> [b \in Bookmarks |-> {Absent}]]
Idle  == [at |-> "idle", kind |-> "none", snap |-> Blank, new |-> Blank, adds |-> {}]

(* create_repo: one commit on the default bookmark, projected. *)
Initial(b) == IF b = Main THEN <<<<1>>>> ELSE Absent

Init ==
    /\ view = [b \in Bookmarks |-> {Initial(b)}]
    /\ seen = [b \in Bookmarks |-> {Initial(b)}]
    /\ ref = [b \in Bookmarks |-> Initial(b)]
    /\ head = Main
    /\ lock = NoClient
    /\ req = [c \in Clients |-> Idle]
    /\ edits = 1 /\ requests = 0
    /\ acked = {<<Main, 1>>} /\ dropped = {}
    /\ overlapped = FALSE /\ faulty = FALSE

(* A client without a request in progress begins one. *)
Arrive(c) ==
    /\ req[c].at = "idle"
    /\ requests < MaxRequests /\ requests' = requests + 1
    /\ overlapped' = (overlapped \/ \E d \in Clients \ {c} : req[d].at # "idle")

-----------------------------------------------------------------------------
(* API requests: open the repository, and change the snapshot's view in a  *)
(* transaction.  The blocking closure that does it outlives its client.    *)

Begin(c, nv, adds) ==
    /\ Arrive(c)
    /\ req' = [req EXCEPT ![c] =
                 [at |-> "commit", kind |-> "write", snap |-> Now,
                  new |-> [view |-> nv, seen |-> seen], adds |-> adds]]
    /\ UNCHANGED <<jj, ref, head, lock, acked, faulty>>

(* What the view nv no longer holds of the current one. *)
Forgets(nv) ==
    {x \in Bookmarks \X Edits : x[2] \in ContentOf(view[x[1]]) \ ContentOf(nv[x[1]])}

(* set_bookmark: to any commit some bookmark leads to. *)
SetBookmark(c, b) ==
    \E o \in Bookmarks : \E s \in view[o] : \E n \in 1..Len(s) :
       LET nv == [view EXCEPT ![b] = {SubSeq(s, 1, n)}]
       IN  /\ Begin(c, nv, {})
           /\ dropped' = dropped \cup Forgets(nv)
           /\ UNCHANGED edits

(* delete_bookmark, refused for the only bookmark of the snapshot. *)
DeleteBookmark(c, b) ==
    LET nv == [view EXCEPT ![b] = {Absent}]
    IN  /\ view[b] # {Absent}
        /\ {o \in Bookmarks : IsNormal(view[o])} # {b}
        /\ Begin(c, nv, {})
        /\ dropped' = dropped \cup Forgets(nv)
        /\ UNCHANGED edits

(* commit_edits on the tip of b, as a new commit or amending the tip; an   *)
(* amend carries every bookmark on the tip or its descendants along.       *)
CommitEdits(c, b) ==
    /\ IsNormal(view[b])
    /\ edits < MaxEdits
    /\ edits' = edits + 1
    /\ LET tip == Tip(view[b])
       IN  \/ Begin(c, [view EXCEPT ![b] = {Append(tip, <<edits'>>)}], {<<b, edits'>>})
           \/ Begin(c, [o \in Bookmarks |-> Rewrite(view[o], tip, Amended(tip, edits'))],
                    {<<b, edits'>>})
    /\ UNCHANGED dropped

(* rebase_bookmark: the last change of the source is moved onto the dest,  *)
(* the bookmarks on the source and the dest bookmark follow.               *)
RebaseBookmark(c, s, d) ==
    /\ IsNormal(view[s]) /\ IsNormal(view[d])
    /\ LET source == Tip(view[s])
           dest   == Tip(view[d])
           moved  == Append(dest, source[Len(source)])
           nv     == [o \in Bookmarks |->
                        IF o = d THEN {moved} ELSE Rewrite(view[o], source, moved)]
       IN  /\ ~IsAncestor(source, dest)
           /\ Begin(c, nv, {})
           /\ dropped' = dropped \cup Forgets(nv)
    /\ UNCHANGED edits

-----------------------------------------------------------------------------
(* Pushes: smart_http_rpc. *)

Move(b, v) ==
    /\ v # ref[b]
    /\ ref' = [ref EXCEPT ![b] = v]
    /\ dropped' = dropped \cup ({b} \X (Content(ref[b]) \ Content(v)))

(* git receive-pack moves b, from the value its client has seen, to a new  *)
(* commit, an amended one, a commit of another branch, or away (HEAD's     *)
(* branch cannot be deleted).  The import comes after.                     *)
Receive(c, b) ==
    /\ Arrive(c)
    /\ req' = [req EXCEPT ![c].at = "waiting", ![c].kind = "push"]
    /\ \/ /\ edits < MaxEdits
          /\ edits' = edits + 1
          /\ \/ \E o \in Bookmarks : Move(b, Append(ref[o], <<edits'>>))
             \/ ref[b] # Absent /\ Move(b, Amended(ref[b], edits'))
          /\ acked' = acked \cup {<<b, edits'>>}
       \/ /\ \/ \E o \in Bookmarks : ref[o] # Absent /\ Move(b, ref[o])
             \/ b # head /\ Move(b, Absent)
          /\ UNCHANGED <<edits, acked>>
    /\ UNCHANGED <<jj, head, lock, faulty>>

(* Mutant of TakeLock: the map of locks gives every request a new mutex. *)
TakeAnyLock(c) ==
    /\ req[c].at = "waiting"
    /\ lock' = c
    /\ req' = [req EXCEPT ![c].at = "reading", ![c].snap = Now]
    /\ UNCHANGED <<jj, ref, head, edits, requests, hist>>

(* The import lock is taken; import_after_receive opens the repository ... *)
TakeLock(c) ==
    /\ req[c].at = "waiting"
    /\ lock = NoClient
    /\ lock' = c
    /\ req' = [req EXCEPT ![c].at = "reading", ![c].snap = Now]
    /\ UNCHANGED <<jj, ref, head, edits, requests, hist>>

(* Mutant of Imported: the git target replaces the bookmark. *)
ImportedOver(s) ==
    [view |-> [b \in Bookmarks |-> IF s.seen[b] = {ref[b]} THEN s.view[b] ELSE {ref[b]}],
     seen |-> [b \in Bookmarks |-> {ref[b]}]]

(* import_refs: each ref that moved since it was last seen is merged in.   *)
Imported(s) ==
    [view |-> [b \in Bookmarks |-> Merge3(s.seen[b], s.view[b], {ref[b]})],
     seen |-> [b \in Bookmarks |-> {ref[b]}]]

(* ... and reads the refs. *)
ReadRefs(c) ==
    /\ req[c].at = "reading"
    /\ req' = [req EXCEPT ![c].at = "commit", ![c].new = Imported(req[c].snap)]
    /\ UNCHANGED <<jj, ref, head, lock, edits, requests, hist>>

-----------------------------------------------------------------------------
(* Transactions, and project_repo after each. *)

Merged(c, now, part) ==
    [b \in Bookmarks |-> Merge3(req[c].snap[part][b], now[b], req[c].new[part][b])]

(* The edits the transaction takes away with a side of a bookmark that has *)
(* moved since, or of its git target, and leaves to the other sides.       *)
Relinquished(c) ==
    {x \in Bookmarks \X Edits : \E part \in {"view", "seen"} :
        LET old == req[c].snap[part][x[1]]
            new == req[c].new[part][x[1]]
        IN  /\ x[2] \in ContentOf(old \ new) \ ContentOf(new \ old)
            /\ part = "view" => view[x[1]] # old}

(* tx.commit of a write or an import. *)
CommitTx(c) ==
    /\ req[c].at = "commit"
    /\ view' = Merged(c, view, "view")
    /\ seen' = Merged(c, seen, "seen")
    /\ acked' = acked \cup req[c].adds
    /\ dropped' = dropped \cup Relinquished(c)
    /\ req' = [req EXCEPT ![c] = [Idle EXCEPT !.at = "project", !.kind = req[c].kind]]
    /\ UNCHANGED <<ref, head, lock, edits, requests, overlapped, faulty>>

OpenProject(c) ==
    /\ req[c].at = "project"
    /\ req' = [req EXCEPT ![c].at = "export", ![c].snap = Now]
    /\ UNCHANGED <<jj, ref, head, lock, edits, requests, hist>>

(* Mutant of Exports: the ref is written whatever it is now. *)
ExportsBlindly(s, b) ==
    /\ s.view[b] # s.seen[b]
    /\ \E c \in s.view[b] : s.view[b] = {c}

(* A bookmark is exported if it is not conflicted, and its ref is still    *)
(* where the view saw it last, or already where it shall be.               *)
Exports(s, b) ==
    /\ s.view[b] # s.seen[b]
    /\ \E c \in s.view[b], o \in s.seen[b] :
          s.view[b] = {c} /\ s.seen[b] = {o} /\ ref[b] \in {c, o}

(* export_refs; a bookmark that fails is only logged. *)
ExportRefs(c) ==
    LET s == req[c].snap
    IN  /\ req[c].at = "export"
        /\ ref' = [b \in Bookmarks |-> IF Exports(s, b) THEN Tip(s.view[b]) ELSE ref[b]]
        /\ req' = [req EXCEPT ![c].at = "close",
                     ![c].new = [view |-> s.view, seen |->
                        [b \in Bookmarks |-> IF Exports(s, b) THEN s.view[b] ELSE s.seen[b]]]]
        /\ UNCHANGED <<jj, head, lock, edits, requests, hist>>

Release(c) == lock' = IF lock = c THEN NoClient ELSE lock

(* Mutant of CloseExport: the transaction of the export is not committed. *)
CloseExportForgets(c) ==
    /\ req[c].at = "close"
    /\ head' \in Bookmarks
    /\ req[c].snap.view[head'] # {Absent} \/ head' = Main
    /\ req' = [req EXCEPT ![c] = Idle]
    /\ Release(c)
    /\ UNCHANGED <<jj, ref, edits, requests, hist>>

(* tx.commit of the export; HEAD then names the default bookmark of the    *)
(* view that was opened, or some bookmark of it.                           *)
CloseExport(c) ==
    LET exists == {b \in Bookmarks : req[c].snap.view[b] # {Absent}}
    IN  /\ req[c].at = "close"
        /\ seen' = Merged(c, seen, "seen")
        /\ head' \in (IF exists = {} \/ Main \in exists THEN {Main} ELSE exists)
        /\ req' = [req EXCEPT ![c] = Idle]
        /\ Release(c)
        /\ UNCHANGED <<view, ref, edits, requests, hist>>

-----------------------------------------------------------------------------
(* Mutant of Fail: only an import that succeeds gives the lock back. *)
FailKeepsLock(c) ==
    /\ req[c].at \notin {"idle", "waiting"}
    /\ req' = [req EXCEPT ![c] = Idle]
    /\ faulty' = TRUE
    /\ UNCHANGED <<jj, ref, head, lock, edits, requests, acked, dropped, overlapped>>

(* The closure returns an error (its transaction is dropped), or panics. *)
Fail(c) ==
    /\ req[c].at \notin {"idle", "waiting"}
    /\ req' = [req EXCEPT ![c] = Idle]
    /\ Release(c)
    /\ faulty' = TRUE
    /\ UNCHANGED <<jj, ref, head, edits, requests, acked, dropped, overlapped>>

(* The client of a push disconnects and its handler is dropped: before the *)
(* import has begun there will be none, and later the lock is released but *)
(* the import goes on.                                                     *)
Disconnect(c) ==
    /\ req[c].kind = "push"
    /\ \/ /\ req[c].at = "waiting"
          /\ req' = [req EXCEPT ![c] = Idle]
          /\ UNCHANGED lock
       \/ /\ lock = c
          /\ lock' = NoClient
          /\ UNCHANGED req
    /\ faulty' = TRUE
    /\ UNCHANGED <<jj, ref, head, edits, requests, acked, dropped, overlapped>>

(* The process restarts: the view and the refs are on disk. *)
Restart ==
    /\ req' = [c \in Clients |-> Idle]
    /\ lock' = NoClient
    /\ faulty' = TRUE
    /\ UNCHANGED <<jj, ref, head, edits, requests, acked, dropped, overlapped>>

Write(c) ==
    \E b \in Bookmarks :
       \/ SetBookmark(c, b) \/ DeleteBookmark(c, b) \/ CommitEdits(c, b)
       \/ \E d \in Bookmarks \ {b} : RebaseBookmark(c, b, d)

Push(c) == (\E b \in Bookmarks : Receive(c, b)) \/ TakeLock(c) \/ ReadRefs(c)

Transaction(c) == CommitTx(c) \/ OpenProject(c) \/ ExportRefs(c) \/ CloseExport(c)

Next ==
    \/ \E c \in Clients :
          \/ Write(c) \/ Push(c) \/ Transaction(c)
          \/ Fail(c) \/ Disconnect(c)
    \/ Restart

Spec == Init /\ [][Next]_vars

-----------------------------------------------------------------------------
(* Properties. *)

Views == [view : [Bookmarks -> SUBSET Targets], seen : [Bookmarks -> SUBSET Targets]]

Importing(c) == req[c].kind = "push" /\ req[c].at \notin {"idle", "waiting"}

(* The values of the variables; the lock is held only by a push that is    *)
(* importing.                                                              *)
TypeOK ==
    /\ Now \in Views
    /\ ref \in [Bookmarks -> Targets]
    /\ head \in Bookmarks
    /\ lock \in Clients \cup {NoClient}
    /\ req \in [Clients -> [at : Stages, kind : Kinds, snap : Views, new : Views,
                            adds : SUBSET (Bookmarks \X Edits)]]
    /\ edits \in Edits /\ requests \in Nat
    /\ acked \subseteq Bookmarks \X Edits /\ dropped \subseteq Bookmarks \X Edits
    /\ overlapped \in BOOLEAN /\ faulty \in BOOLEAN
    /\ lock \in Clients => Importing(lock)

(* An edit acknowledged on a bookmark, through the API or by a push, stays *)
(* in one of its sides, or in its git ref as long as the ref is still to   *)
(* be imported: concurrent writes, pushes, imports and exports, failing    *)
(* and abandoned ones included, never lose it.  Only a request that had it *)
(* in its view or ref (a move, a deletion, a forced push, a rebase) may    *)
(* replace it, or one that takes it with its side of a conflict while      *)
(* another request changes the bookmark: two that replace different sides  *)
(* at once may each count on the side of the other.                        *)
NoLostEdit ==
    \A x \in acked \ dropped :
       LET b == x[1] IN
       \/ x[2] \in ContentOf(view[b])
       \/ {ref[b]} # seen[b] /\ x[2] \in Content(ref[b])

(* Requests that never overlap and never fail leave both doors showing the *)
(* same repository: no bookmark is conflicted, every ref is where its      *)
(* bookmark is and the view knows it, and HEAD names an existing branch.   *)
InSync ==
    (~overlapped /\ ~faulty /\ \A c \in Clients : req[c].at = "idle") =>
       /\ \A b \in Bookmarks : view[b] = {ref[b]} /\ seen[b] = {ref[b]}
       /\ ref[head] # Absent

(* As long as no client disconnects and nothing fails, pushes of the       *)
(* repository are imported one at a time.                                  *)
ImportsSerialized ==
    ~faulty => \A c, d \in Clients : Importing(c) /\ Importing(d) => c = d

(* "A keyed mutex makes the second import wait": never two at once.        *)
OneImportAtATime ==
    \A c, d \in Clients : Importing(c) /\ Importing(d) => c = d

(* "a repo must never be left without a single bookmark" *)
LastBookmarkStays == \E b \in Bookmarks : view[b] # {Absent}

-----------------------------------------------------------------------------
(* The inductive invariant of the types and the import lock. *)

(* Only a push waits for the lock or imports. *)
StageInv ==
    \A c \in Clients :
       /\ req[c].at = "idle" => req[c].kind = "none"
       /\ req[c].at \in {"waiting", "reading"} => req[c].kind = "push"

(* Without disconnects and failures, who imports holds the lock. *)
LockInv == ~faulty => \A c \in Clients : Importing(c) => lock = c

IInv == TypeOK /\ StageInv /\ LockInv
===============================================================================
