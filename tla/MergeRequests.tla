---------------------------- MODULE MergeRequests ----------------------------
(***************************************************************************)
(* Merge requests: the rows and their numbers (db.rs), the request         *)
(* handlers that create, close, reopen and re-head them (handlers/mr.rs),  *)
(* the hidden git refs that keep the reviewed commits alive (mr_anchor.rs) *)
(* and the reconciler of the scheduler loop that prunes the anchors of     *)
(* requests no longer open (mr_reconcile.rs).                              *)
(*                                                                         *)
(* Which commit a head or an anchor names is left out: the anchor of a     *)
(* request is there or not.  A handler ends when its client disconnects or *)
(* one of its calls fails.                                                 *)
(***************************************************************************)
EXTENDS Naturals

CONSTANTS
    Repos,        \* the repositories
    NoRepo,       \* no repository: the row does not exist
    Clients,      \* concurrent requests
    MaxMrs,       \* bound: rows of merge_requests
    MaxGitFails,  \* bound: git commands that fail
    MaxDbErrors,  \* bound: statements that fail where the code goes on
    MaxRestarts   \* bound: restarts of the process

ASSUME MergeRequestsAssumption ==
    /\ NoRepo \notin Repos
    /\ MaxMrs \in Nat
    /\ MaxGitFails \in Nat /\ MaxDbErrors \in Nat /\ MaxRestarts \in Nat

VARIABLES
    repoOf,    \* merge_requests.repo_id, NoRepo while the row does not exist
    number,    \* merge_requests.number
    state,     \* merge_requests.state
    anchors,   \* the numbers n with a ref refs/jjlab/mr/{n}/head, by repository
    req,       \* the request a client has in progress
    scan,      \* reconciler: repositories still to visit in this pass
    scanned,   \* reconciler: the repository being visited
    refs,      \* reconciler: listed anchors not looked at yet
    doomed,    \* reconciler: the anchor it is about to delete, 0 when none
    pinned,    \* history: rows whose anchor a handler has set
    left,      \* history: rows whose state was ever set to other than open
    gitFails, dbErrors, restarts   \* faults so far

rows  == <<repoOf, number, state>>
recon == <<scan, scanned, refs, doomed>>
faults == <<gitFails, dbErrors, restarts>>
vars  == <<rows, anchors, req, recon, pinned, left, faults>>

Ids     == 1..MaxMrs
States  == {"open", "closed", "other"}   \* closed or merged; the handler takes any string
Steps   == {"idle", "create", "insert", "pin", "repin", "unpin"}

Rows(r)      == {i \in Ids : repoOf[i] = r}
Open(r, n)   == \E i \in Rows(r) : number[i] = n /\ state[i] = "open"
(* n is COALESCE(MAX(number), 0) + 1 of repository r. *)
NextNumber(r, n) ==
    /\ \A i \in Rows(r) : number[i] < n
    /\ n = 1 \/ \E i \in Rows(r) : number[i] = n - 1

Idle == [at |-> "idle", repo |-> NoRepo, mr |-> 0, num |-> 0]
(* Mutant of On: the row id in place of the number. *)
OnId(step, i) == [at |-> step, repo |-> repoOf[i], mr |-> i, num |-> i]
(* A request at a step, about row i. *)
On(step, i) == [at |-> step, repo |-> repoOf[i], mr |-> i, num |-> number[i]]

Init ==
    /\ repoOf = [i \in Ids |-> NoRepo]
    /\ number = [i \in Ids |-> 0]
    /\ state = [i \in Ids |-> "open"]
    /\ anchors = [r \in Repos |-> {}]
    /\ req = [c \in Clients |-> Idle]
    /\ scan = {} /\ scanned = NoRepo /\ refs = {} /\ doomed = 0
    /\ pinned = {} /\ left = {}
    /\ gitFails = 0 /\ dbErrors = 0 /\ restarts = 0

Done(c)       == req' = [req EXCEPT ![c] = Idle]
GitFails      == gitFails < MaxGitFails /\ gitFails' = gitFails + 1
DbFails       == dbErrors < MaxDbErrors /\ dbErrors' = dbErrors + 1

-----------------------------------------------------------------------------
(* create_mr_handler. *)

(* resolve_rev found the head in repository r; an unknown one is refused. *)
ResolveHead(c, r) ==
    /\ req[c].at = "idle"
    /\ req' = [req EXCEPT ![c] = [Idle EXCEPT !.at = "create", !.repo = r]]
    /\ UNCHANGED <<rows, anchors, recon, pinned, left, faults>>

(* Mutant of ReadMax: the highest number itself, 0 in an empty repository. *)
ReadMaxOnly(c) ==
    /\ req[c].at = "create"
    /\ \E n \in 0..MaxMrs :
          /\ NextNumber(req[c].repo, n + 1)
          /\ req' = [req EXCEPT ![c].at = "insert", ![c].num = n]
    /\ UNCHANGED <<rows, anchors, recon, pinned, left, faults>>

(* SELECT COALESCE(MAX(number), 0) + 1, a statement of its own. *)
ReadMax(c) ==
    /\ req[c].at = "create"
    /\ \E n \in 1..(MaxMrs + 1) :
          /\ NextNumber(req[c].repo, n)
          /\ req' = [req EXCEPT ![c].at = "insert", ![c].num = n]
    /\ UNCHANGED <<rows, anchors, recon, pinned, left, faults>>

Insert(c, i) ==
    /\ repoOf[i] = NoRepo
    /\ \A k \in Ids : k < i => repoOf[k] # NoRepo
    /\ repoOf' = [repoOf EXCEPT ![i] = req[c].repo]
    /\ number' = [number EXCEPT ![i] = req[c].num]
    /\ req' = [req EXCEPT ![c].at = "pin", ![c].mr = i]

(* Mutant of InsertRow: without UNIQUE (repo_id, number). *)
InsertRowAnyway(c) ==
    /\ req[c].at = "insert"
    /\ \E i \in Ids : Insert(c, i)
    /\ UNCHANGED <<state, anchors, recon, pinned, left, faults>>

(* INSERT, refused by UNIQUE (repo_id, number) when the number was taken. *)
InsertRow(c) ==
    /\ req[c].at = "insert"
    /\ \/ /\ \A i \in Rows(req[c].repo) : number[i] # req[c].num
          /\ \E i \in Ids : Insert(c, i)
       \/ /\ \E i \in Rows(req[c].repo) : number[i] = req[c].num
          /\ Done(c) /\ UNCHANGED <<repoOf, number>>
    /\ UNCHANGED <<state, anchors, recon, pinned, left, faults>>

(* set_mr_head: the anchor is set or moved; its failure is only logged. *)
Pin(c) ==
    /\ req[c].at \in {"pin", "repin"}
    /\ Done(c)
    /\ \/ /\ anchors' = [anchors EXCEPT ![req[c].repo] = @ \cup {req[c].num}]
          /\ pinned' = pinned \cup {req[c].mr}
          /\ UNCHANGED gitFails
       \/ GitFails /\ UNCHANGED <<anchors, pinned>>
    /\ UNCHANGED <<rows, recon, left, dbErrors, restarts>>

-----------------------------------------------------------------------------
(* update_mr_handler and update_mr_head_handler. *)

(* update_mr with a state; merged and closed go on to release the anchor. *)
SetState(c, i) ==
    /\ req[c].at = "idle"
    /\ repoOf[i] # NoRepo
    /\ \E s \in States :
          /\ state' = [state EXCEPT ![i] = s]
          /\ left' = IF s = "open" THEN left ELSE left \cup {i}
          /\ req' = IF s = "closed" THEN [req EXCEPT ![c] = On("unpin", i)] ELSE req
    /\ UNCHANGED <<repoOf, number, anchors, recon, pinned, faults>>

(* clear_mr_head: its failure is only logged. *)
Unpin(c) ==
    /\ req[c].at = "unpin"
    /\ Done(c)
    /\ \/ /\ anchors' = [anchors EXCEPT ![req[c].repo] = @ \ {req[c].num}]
          /\ UNCHANGED gitFails
       \/ GitFails /\ UNCHANGED anchors
    /\ UNCHANGED <<rows, recon, pinned, left, dbErrors, restarts>>

(* update_mr with a head, in whatever state the request is, re-anchors it. *)
UpdateHead(c, i) ==
    /\ req[c].at = "idle"
    /\ repoOf[i] # NoRepo
    /\ req' = [req EXCEPT ![c] = On("repin", i)]
    /\ UNCHANGED <<rows, anchors, recon, pinned, left, faults>>

-----------------------------------------------------------------------------
(* prune_stale_mr_anchors, once per tick of the scheduler loop. *)

ListRepos ==
    /\ scan = {} /\ refs = {} /\ doomed = 0
    /\ scan' = Repos
    /\ scanned' = NoRepo
    /\ UNCHANGED <<rows, anchors, req, refs, doomed, pinned, left, faults>>

(* for-each-ref; when it fails the repository is passed over. *)
ListRefs(r) ==
    /\ r \in scan /\ refs = {} /\ doomed = 0
    /\ scan' = scan \ {r}
    /\ scanned' = r
    /\ \/ refs' = anchors[r] /\ UNCHANGED gitFails
       \/ GitFails /\ UNCHANGED refs
    /\ UNCHANGED <<rows, anchors, req, doomed, pinned, left, dbErrors, restarts>>

(* Mutant of CheckRef: prunes the terminal states and missing rows only. *)
CheckRefTerminal(n) ==
    /\ n \in refs /\ doomed = 0
    /\ refs' = refs \ {n}
    /\ \/ /\ doomed' = IF \E i \in Rows(scanned) : number[i] = n /\ state[i] # "closed"
                       THEN 0 ELSE n
          /\ UNCHANGED dbErrors
       \/ DbFails /\ doomed' = n
    /\ UNCHANGED <<rows, anchors, req, scan, scanned, pinned, left,
                   gitFails, restarts>>

(* open_mr(n): a read that fails counts as not open. *)
CheckRef(n) ==
    /\ n \in refs /\ doomed = 0
    /\ refs' = refs \ {n}
    /\ \/ doomed' = (IF Open(scanned, n) THEN 0 ELSE n) /\ UNCHANGED dbErrors
       \/ DbFails /\ doomed' = n
    /\ UNCHANGED <<rows, anchors, req, scan, scanned, pinned, left,
                   gitFails, restarts>>

(* delete_ref: a refusal of git is ignored; when git cannot be run at all,  *)
(* the rest of the repository is left for the next pass.                   *)
DeleteRef ==
    /\ doomed # 0
    /\ doomed' = 0
    /\ \/ /\ anchors' = [anchors EXCEPT ![scanned] = @ \ {doomed}]
          /\ UNCHANGED <<refs, gitFails>>
       \/ GitFails /\ refs' \in {refs, {}} /\ UNCHANGED anchors
    /\ UNCHANGED <<rows, req, scan, scanned, pinned, left, dbErrors,
                   restarts>>

-----------------------------------------------------------------------------
(* A client disconnects at an await, or a statement fails.  The blocking   *)
(* closure of create_mr is not cancelled, but its INSERT may fail.         *)
Abandon(c) ==
    /\ req[c].at # "idle"
    /\ Done(c)
    /\ UNCHANGED <<rows, anchors, recon, pinned, left, faults>>

(* The process restarts: rows, refs and commits stay. *)
Restart ==
    /\ restarts < MaxRestarts /\ restarts' = restarts + 1
    /\ req' = [c \in Clients |-> Idle]
    /\ scan' = {} /\ scanned' = NoRepo /\ refs' = {} /\ doomed' = 0
    /\ UNCHANGED <<rows, anchors, pinned, left, gitFails, dbErrors>>

Request(c) ==
    \/ \E r \in Repos : ResolveHead(c, r)
    \/ \E i \in Ids : SetState(c, i) \/ UpdateHead(c, i)
    \/ ReadMax(c) \/ InsertRow(c) \/ Pin(c) \/ Unpin(c)
    \/ Abandon(c)

Reconcile ==
    \/ ListRepos
    \/ \E r \in Repos : ListRefs(r)
    \/ \E n \in refs : CheckRef(n)
    \/ DeleteRef

Next == (\E c \in Clients : Request(c)) \/ Reconcile \/ Restart

Spec == Init /\ [][Next]_vars

(* The scheduler loop, which starts every round with the reconciler, keeps *)
(* being polled; a request may stop anywhere.                              *)
FairSpec == Spec /\ WF_vars(Reconcile)

-----------------------------------------------------------------------------
(* Properties. *)

Requests == [at : Steps, repo : Repos \cup {NoRepo}, mr : Ids \cup {0}, num : Nat]

TypeOK ==
    /\ repoOf \in [Ids -> Repos \cup {NoRepo}]
    /\ number \in [Ids -> Nat]
    /\ state \in [Ids -> States]
    /\ anchors \in [Repos -> SUBSET (Nat \ {0})]
    /\ req \in [Clients -> Requests]
    /\ scan \subseteq Repos /\ scanned \in Repos \cup {NoRepo}
    /\ refs \subseteq Nat \ {0} /\ doomed \in Nat
    /\ pinned \subseteq Ids /\ left \subseteq Ids
    /\ gitFails \in Nat /\ dbErrors \in Nat /\ restarts \in Nat

Exists(i) == repoOf[i] # NoRepo

(* Concurrent creations never share a number and leave no gap: the numbers *)
(* of a repository are 1, 2, ... n (create_mr reads MAX(number) and        *)
(* inserts in two statements).                                             *)
NumbersDense ==
    \A i \in Ids : Exists(i) =>
        /\ number[i] >= 1
        /\ \A k \in Rows(repoOf[i]) : number[k] = number[i] => k = i
        /\ number[i] > 1 => \E k \in Rows(repoOf[i]) : number[k] = number[i] - 1

(* The reviewed commit of a request that was anchored and never left open  *)
(* stays anchored, whatever other requests, restarts and the reconciler    *)
(* do.  A read of its row that fails in the reconciler voids it.           *)
AnchorKept ==
    dbErrors = 0 => \A i \in pinned \ left : number[i] \in anchors[repoOf[i]]

(* "stale anchors are harmless ... but they must never accumulate": an     *)
(* anchor whose request is not open is deleted, unless the request is      *)
(* reopened, although the closing handler may stop before it gets there.   *)
StaleAnchorsPruned ==
    \A r \in Repos, n \in Ids :
        (n \in anchors[r] /\ ~Open(r, n)) ~> (n \notin anchors[r] \/ Open(r, n))

(* "drop hidden anchors whose MR is no longer open": the reconciler never  *)
(* deletes the anchor of a request that never left open.                   *)
OpenAnchorsSurvive ==
    \A i \in pinned \ left : number[i] \in anchors[repoOf[i]]

-----------------------------------------------------------------------------
(* The inductive invariant of the proofs, by what each part is about.      *)

HasNumber(r, n) == \E i \in Rows(r) : number[i] = n

(* A request in progress is about the row it has read or inserted; the     *)
(* number it is about to insert extends those of its repository.           *)
ReqInv ==
    \A c \in Clients :
       /\ req[c].at # "idle" => req[c].repo \in Repos
       /\ req[c].at = "insert" =>
             req[c].num >= 1 /\ (req[c].num = 1 \/ HasNumber(req[c].repo, req[c].num - 1))
       /\ req[c].at \in {"pin", "repin", "unpin"} =>
             /\ req[c].mr \in Ids
             /\ req[c].repo = repoOf[req[c].mr]
             /\ req[c].num = number[req[c].mr]
       /\ req[c].at = "unpin" => req[c].mr \in left

(* Histories are about rows that exist; a row not open has left. *)
HistoryInv ==
    /\ \A i \in pinned \cup left : Exists(i)
    /\ \A i \in Ids \ left : state[i] = "open"

(* Every anchor, listed or not, belongs to a row; a doomed one to a row    *)
(* that has left, unless its read failed.                                  *)
AnchorInv ==
    /\ \A r \in Repos : \A n \in anchors[r] : HasNumber(r, n)
    /\ refs # {} \/ doomed # 0 => scanned \in Repos
    /\ \A n \in refs : HasNumber(scanned, n)
    /\ doomed # 0 =>
          \E i \in Rows(scanned) : number[i] = doomed /\ (dbErrors = 0 => i \in left)

IInv ==
    /\ TypeOK /\ NumbersDense /\ ReqInv /\ HistoryInv /\ AnchorInv /\ AnchorKept
===============================================================================
