---------------------------- MODULE RepoLifecycle ----------------------------
(***************************************************************************)
(* A repository is a directory and a row, and no transaction spans the     *)
(* two.  Requests create, clone, fetch, rename and delete repositories,    *)
(* rename and delete organizations, fail, lose their client and die with   *)
(* the process.  RepoView models what is inside of one directory; here a   *)
(* directory holds the identity of the repository it belongs to.           *)
(***************************************************************************)
EXTENDS ServerCalls

CONSTANTS
    Orgs, Repos,       \* segments of a path: org/repo
    Stems, StemOf,     \* the name a clone of a repository stages under
    Changes, Root,     \* change ids, and that of the commit every repository begins with
    NoRepo,            \* no repository
    Histories,         \* what a repository may hold when it is recorded
    NoClient,          \* nobody holds the lock
    MaxIds             \* repositories ever initialized or cloned

Names  == Orgs \X Repos
Stages == Orgs \X Stems
Paths  == Names \cup Stages
Ids    == 1..MaxIds

ASSUME LifeAssumption ==
    /\ StemOf \in [Repos -> Stems]
    /\ Repos \cap Stems = {}
    /\ Root \in Changes
    /\ \A h \in Histories : Root \in h.changes /\ h.conflicts \subseteq h.changes
    /\ Histories \subseteq
          [changes : SUBSET Changes, conflicts : SUBSET (Changes \ {Root}), bookmarks : BOOLEAN]
    /\ NoRepo \notin Names
    /\ MaxIds \in Nat
    /\ NoClient \notin Clients

VARIABLES
    dir,       \* what is at a path
    orgs,      \* rows of organizations
    rows,      \* rows of repositories
    meta,      \* whose bookmarks are under a row
    change,    \* under which row the row of a change is filed
    conflict,  \* rows of conflicts: of a change, filed under a row
    initLock,  \* who initializes a repository
    call,      \* the request of each client
    nextId,
    marks      \* what has gone wrong at a name: an observer, read by no action

lifeVars == <<dir, orgs, rows, meta, change, conflict, initLock, call, nextId, marks>>

Gone  == [state |-> "gone", id |-> 0]
Empty == [state |-> "empty", id |-> 0]

\* "scraps": files, but no .jj; "half": .jj is being made; "torn": .jj is there,
\* and part of the repository has been removed.
Dirs == {Gone, Empty} \cup [state : {"scraps", "half", "whole", "torn"}, id : Ids]

Ops == {"create", "delete", "rename", "undo", "clone", "fetch"}
Pcs == {"row", "open", "init", "finish", "load", "rows", "view", "record",
        "remove", "removed", "unrow", "unrepo", "look", "clobber", "update", "move",
        "mkdir", "git", "import", "commit", "promote"}

\* `quit`: the client of a rename is gone, and what runs is only its statement.
Calls == [op : Ops, pc : Pcs, name : Names, to : Names, id : 0..MaxIds, quit : {"no", "yes"}]

ASSUME IdleAssumption == Idle \notin Calls

Marks == Ops \cup {"overlap", "org", "scraps", "held"}

LifeTypeOK ==
    /\ dir \in [Paths -> Dirs]
    /\ orgs \subseteq Orgs
    /\ rows \subseteq Names
    /\ meta \in [Names -> SUBSET Ids]
    /\ change \in [Changes -> Names \cup {NoRepo}]
    /\ conflict \subseteq Changes \X Names
    /\ initLock \in Clients \cup {NoClient}
    /\ call \in [Clients -> Calls \cup {Idle}]
    /\ nextId \in 1..(MaxIds + 1)
    /\ marks \in [Names -> SUBSET Marks]
    /\ LeftTypeOK

LifeInit ==
    /\ dir = [p \in Paths |-> Gone]
    /\ orgs = {} /\ rows = {}
    /\ meta = [n \in Names |-> {}]
    /\ change = [x \in Changes |-> NoRepo]
    /\ conflict = {}
    /\ initLock = NoClient
    /\ call = [c \in Clients |-> Idle]
    /\ nextId = 1
    /\ marks = [n \in Names |-> {}]

\* Mutant of Stage: git clones into the final directory.
StageInPlace(n) == n

Stage(n) == <<n[1], StemOf[n[2]]>>
Exists(p) == dir[p].state \in {"half", "whole", "torn"}
Whole(p)  == dir[p].state = "whole"

Touched(r) == {r.name, r.to} \cup (IF r.op = "clone" THEN {Stage(r.name)} ELSE {})

Busy(n) == \E c \in Clients : call[c] # Idle /\ n \in Touched(call[c])

(***************************************************************************)
(* How a request begins, proceeds and ends.                                *)
(***************************************************************************)
Marked(S, kind) == [n \in Names |-> IF n \in S THEN marks[n] \cup {kind} ELSE marks[n]]

Blank(op, pc, n, m) == [op |-> op, pc |-> pc, name |-> n, to |-> m, id |-> 0, quit |-> "no"]

\* The observer: requests that overlap disturb each other's names, a rename
\* carries a mark along, and a delete nobody disturbs makes a name good again,
\* but for files it does not find because their .jj is gone.
Observed(c, r) ==
    LET met == {d \in Clients \ {c} :
                    call[d] # Idle /\ Touched(call[d]) \cap Touched(r) # {}}
    IN  IF met # {}
          THEN Marked(Touched(r) \cup UNION {Touched(call[d]) : d \in met}, "overlap")
        ELSE IF r.op = "delete"
          THEN [marks EXCEPT ![r.name] = IF dir[r.name].state = "scraps" THEN {"scraps"} ELSE {}]
        ELSE IF r.op = "rename"
          THEN [n \in Names |->
                  IF n \in Touched(r) THEN marks[r.name] \cup marks[r.to] ELSE marks[n]]
        ELSE marks

BeginCall(c, r) ==
    /\ call[c] = Idle /\ Spend("calls")
    /\ call' = [call EXCEPT ![c] = r]
    /\ marks' = Observed(c, r)
    /\ UNCHANGED <<dir, orgs, rows, meta, change, conflict, initLock, nextId>>

At(c, pc) == call[c] # Idle /\ call[c].pc = pc
Goto(c, pc) == call' = [call EXCEPT ![c].pc = pc]
Reply(c) == call' = [call EXCEPT ![c] = Idle]

(***************************************************************************)
(* create_repo and project_repo.                                           *)
(***************************************************************************)
CreateRepo(c) == \E n \in Names :
    ~Exists(n) /\ BeginCall(c, Blank("create", "row", n, n))

\* upsert_org, upsert_repo.
UpsertRepo(c) ==
    /\ At(c, "row") \/ At(c, "rows")
    /\ orgs' = orgs \cup {call[c].name[1]}
    /\ rows' = rows \cup {call[c].name}
    /\ Goto(c, IF call[c].pc = "row" THEN "open" ELSE "view")
    /\ UNCHANGED <<dir, meta, change, conflict, initLock, nextId, left, marks>>

OpenOrInit(c) ==
    /\ At(c, "open")
    /\ \/ /\ Exists(call[c].name)
          /\ Goto(c, "load") /\ UNCHANGED initLock
       \/ /\ ~Exists(call[c].name) /\ initLock = NoClient
          /\ initLock' = c /\ Goto(c, "init")
    /\ UNCHANGED <<dir, orgs, rows, meta, change, conflict, nextId, left, marks>>

StartInit(c) ==
    /\ At(c, "init")
    /\ \/ /\ Exists(call[c].name)
          /\ initLock' = NoClient /\ Goto(c, "load")
          /\ UNCHANGED <<dir, nextId>>
       \/ /\ ~Exists(call[c].name) /\ nextId <= MaxIds
          /\ dir' = [dir EXCEPT ![call[c].name] = [state |-> "half", id |-> nextId]]
          /\ call' = [call EXCEPT ![c].pc = "finish", ![c].id = nextId]
          /\ nextId' = nextId + 1
          /\ UNCHANGED initLock
    /\ UNCHANGED <<orgs, rows, meta, change, conflict, left, marks>>

FinishInit(c) ==
    /\ At(c, "finish")
    /\ initLock' = NoClient
    /\ \/ /\ dir[call[c].name] = [state |-> "half", id |-> call[c].id]
          /\ dir' = [dir EXCEPT ![call[c].name].state = "whole"]
          /\ Goto(c, "load")
       \/ /\ dir[call[c].name] # [state |-> "half", id |-> call[c].id]
          /\ Reply(c) /\ UNCHANGED dir
    /\ UNCHANGED <<orgs, rows, meta, change, conflict, nextId, left, marks>>

\* open, for the transaction of the request (which RepoView models).
Load(c) ==
    /\ At(c, "load")
    /\ \/ Whole(call[c].name) /\ Goto(c, "rows")
       \/ ~Whole(call[c].name) /\ Reply(c)
    /\ UNCHANGED <<dir, orgs, rows, meta, change, conflict, initLock, nextId, left, marks>>

\* Mutant of OpenView: what is there need not be a repository.
OpenViewOfAny(c) ==
    /\ At(c, "view")
    /\ call' = [call EXCEPT ![c].pc = "record", ![c].id = dir[call[c].name].id]
    /\ UNCHANGED <<dir, orgs, rows, meta, change, conflict, initLock, nextId, left, marks>>

\* project_repo opens the repository once more, and exports from it.
OpenView(c) ==
    /\ At(c, "view")
    /\ \/ /\ Whole(call[c].name)
          /\ call' = [call EXCEPT ![c].pc = "record", ![c].id = dir[call[c].name].id]
       \/ ~Whole(call[c].name) /\ Reply(c)
    /\ UNCHANGED <<dir, orgs, rows, meta, change, conflict, initLock, nextId, left, marks>>

\* A clone projects twice.
Projected(c) ==
    IF call[c].op = "clone"
      THEN call' = [call EXCEPT ![c].op = "fetch", ![c].pc = "rows"]
      ELSE Reply(c)

\* The rows of what the repository holds now: its changes, the conflicts of
\* paths that have no row yet, whether it has bookmarks.  A change has one row
\* among all repositories, and stays with the repository that recorded it first.
\* Others commit: more than a first commit and its bookmark is an event.
Record(c) ==
    LET n == call[c].name IN
    /\ At(c, "record")
    /\ \E h \in Histories :
          LET new == {x \in h.changes : change[x] = NoRepo} IN
          /\ IF h.changes = {Root} /\ h.bookmarks THEN UNCHANGED left ELSE Spend("events")
          /\ \/ /\ n \in rows
                /\ change' = [x \in Changes |-> IF x \in new THEN n ELSE change[x]]
                /\ conflict' = conflict \cup (h.conflicts \X {n})
                /\ meta' = IF h.bookmarks THEN [meta EXCEPT ![n] = @ \cup {call[c].id}] ELSE meta
                /\ Projected(c)
             \* Foreign keys refuse the first row that refers to no repository.
             \/ /\ n \notin rows
                /\ IF new # {} \/ h.conflicts # {} \/ h.bookmarks THEN Reply(c) ELSE Projected(c)
                /\ UNCHANGED <<meta, change, conflict>>
    /\ UNCHANGED <<dir, orgs, rows, initLock, nextId, marks>>

\* fetch_remote, pull_mirror, push_mirror and the requests that write.
Fetch(c) == \E n \in Names : BeginCall(c, Blank("fetch", "load", n, n))

(***************************************************************************)
(* clone_remote: git clones into a staging directory beside the            *)
(* repository, which is made a jj repository and renamed into place.       *)
(***************************************************************************)
CloneRemote(c) == \E n \in Names :
    dir[n] = Gone /\ BeginCall(c, Blank("clone", "mkdir", n, n))

CloneUnchanged == UNCHANGED <<orgs, rows, meta, change, conflict, initLock, left, marks>>

\* The final directory, and an empty staging directory.
MakeDirs(c) ==
    LET n == call[c].name IN
    /\ At(c, "mkdir")
    /\ dir' = [dir EXCEPT ![n] = IF @ = Gone THEN Empty ELSE @, ![Stage(n)] = Empty]
    /\ Goto(c, "git")
    /\ CloneUnchanged /\ UNCHANGED nextId

\* git refuses a directory that is not empty.
StartGit(c) ==
    LET s == Stage(call[c].name) IN
    /\ At(c, "git") /\ nextId <= MaxIds
    /\ dir[s] \in {Gone, Empty}
    /\ dir' = [dir EXCEPT ![s] = [state |-> "scraps", id |-> nextId]]
    /\ call' = [call EXCEPT ![c].pc = "import", ![c].id = nextId]
    /\ nextId' = nextId + 1
    /\ CloneUnchanged

\* It refused, somebody removed the directory under it, or the remote failed.
GitFails(c) ==
    LET s == Stage(call[c].name) IN
    /\ \/ At(c, "git") /\ dir[s] \notin {Gone, Empty} /\ UNCHANGED left
       \/ At(c, "import") /\ dir[s].id # call[c].id /\ UNCHANGED left
       \/ /\ At(c, "git") \/ At(c, "import")
          /\ Spend("faults")
    /\ dir' = [dir EXCEPT ![s] = Gone]
    /\ Reply(c)
    /\ UNCHANGED <<orgs, rows, meta, change, conflict, initLock, nextId, marks>>

\* git is done; init_external_git makes .jj.
InitClone(c) ==
    LET s == Stage(call[c].name) IN
    /\ At(c, "import")
    /\ dir[s] = [state |-> "scraps", id |-> call[c].id]
    /\ dir' = [dir EXCEPT ![s].state = "half"]
    /\ Goto(c, "commit")
    /\ CloneUnchanged /\ UNCHANGED nextId

\* import_refs and "jjlab: clone".
CommitClone(c) ==
    LET s == Stage(call[c].name) IN
    /\ At(c, "commit")
    /\ \/ /\ dir[s] = [state |-> "half", id |-> call[c].id]
          /\ dir' = [dir EXCEPT ![s].state = "whole"]
          /\ Goto(c, "promote")
       \/ /\ dir[s] # [state |-> "half", id |-> call[c].id]
          /\ Reply(c) /\ UNCHANGED dir
    /\ CloneUnchanged /\ UNCHANGED nextId

\* Mutant of MoveDir: what is in the way is replaced.
MoveDirOver(from, to) ==
    /\ dir[from] # Gone /\ from # to
    /\ dir' = [dir EXCEPT ![to] = dir[from], ![from] = Gone]

\* rename(2): the target must be absent or empty.
MoveDir(from, to) ==
    /\ dir[from] # Gone /\ dir[to] \in {Gone, Empty}
    /\ dir' = [dir EXCEPT ![to] = dir[from], ![from] = Gone]

CannotMove(from, to) == dir[from] = Gone \/ dir[to] \notin {Gone, Empty}

Promote(c) ==
    LET n == call[c].name IN
    /\ At(c, "promote")
    /\ \/ MoveDir(Stage(n), n) /\ Goto(c, "rows")
       \/ CannotMove(Stage(n), n) /\ Reply(c) /\ UNCHANGED dir
    /\ CloneUnchanged /\ UNCHANGED nextId

(***************************************************************************)
(* delete_repo: the directory first, then the rows.                        *)
(***************************************************************************)
DeleteRepo(c) == \E n \in Names :
    BeginCall(c, Blank("delete", IF Exists(n) THEN "remove" ELSE "unrow", n, n))

\* remove_dir_all removes entry by entry, .jj before or after the rest.
StartRemove(c) ==
    LET n == call[c].name IN
    /\ At(c, "remove")
    /\ \/ /\ dir[n].id # 0
          /\ \E state \in {"scraps", "torn"} : dir' = [dir EXCEPT ![n].state = state]
          /\ call' = [call EXCEPT ![c].pc = "removed", ![c].id = dir[n].id]
       \/ dir[n].id = 0 /\ Reply(c) /\ UNCHANGED dir
    /\ UNCHANGED <<orgs, rows, meta, change, conflict, initLock, nextId, left, marks>>

EndRemove(c) ==
    LET n == call[c].name IN
    /\ At(c, "removed")
    /\ \/ /\ dir[n].id = call[c].id
          /\ dir' = [dir EXCEPT ![n] = Gone] /\ Goto(c, "unrow")
       \/ dir[n].id # call[c].id /\ Reply(c) /\ UNCHANGED dir
    /\ UNCHANGED <<orgs, rows, meta, change, conflict, initLock, nextId, left, marks>>

\* Db::delete_repo: if there is a row, what is filed under it, then the row.
\* The changes go although other repositories share them, or stay, and the row
\* with them, when a conflict of another repository refers to one.
DeleteDependents(c) ==
    LET n == call[c].name
        others == {k \in conflict : k[2] # n}
    IN
    /\ At(c, "unrow")
    /\ \/ /\ n \notin rows
          /\ Reply(c) /\ UNCHANGED <<meta, change, conflict, marks>>
       \/ /\ n \in rows /\ \A k \in others : change[k[1]] # n
          /\ meta' = [meta EXCEPT ![n] = {}] /\ conflict' = others
          /\ change' = [x \in Changes |-> IF change[x] = n THEN NoRepo ELSE change[x]]
          /\ Goto(c, "unrepo") /\ UNCHANGED marks
       \/ /\ n \in rows /\ \E k \in others : change[k[1]] = n
          /\ meta' = [meta EXCEPT ![n] = {}] /\ conflict' = others
          /\ Reply(c) /\ marks' = Marked({n}, "held") /\ UNCHANGED change
    /\ UNCHANGED <<dir, orgs, rows, initLock, nextId, left>>

Bare(n) == meta[n] = {} /\ (\A x \in Changes : change[x] # n) /\ (\A k \in conflict : k[2] # n)

\* The foreign keys refuse when something refers to the row again.
DeleteRow(c) ==
    LET n == call[c].name IN
    /\ At(c, "unrepo")
    /\ rows' = IF Bare(n) THEN rows \ {n} ELSE rows
    /\ Reply(c)
    /\ UNCHANGED <<dir, orgs, meta, change, conflict, initLock, nextId, left, marks>>

(***************************************************************************)
(* rename_repo: the row first, in the three statements of Db::rename_repo, *)
(* then the directory; the row back when that fails.                       *)
(***************************************************************************)
RenameRepo(c) == \E n, m \in Names :
    n[1] = m[1] /\ BeginCall(c, Blank("rename", "look", n, m))

RowUnchanged == UNCHANGED <<dir, orgs, initLock, nextId, left, marks>>

LookOld(c) ==
    /\ At(c, "look")
    /\ \/ call[c].name \in rows /\ Goto(c, "clobber")
       \/ call[c].name \notin rows /\ Reply(c)
    /\ UNCHANGED <<rows, meta, change, conflict>> /\ RowUnchanged

LookNew(c) ==
    /\ At(c, "clobber")
    /\ \/ call[c].to \notin rows /\ Goto(c, "update")
       \/ call[c].to \in rows /\ Reply(c)
    /\ UNCHANGED <<rows, meta, change, conflict>> /\ RowUnchanged

\* What the handler does after the statement; the roll-back ends there.
AfterUpdate(c) ==
    IF call[c].op = "rename" /\ call[c].quit = "no" THEN Goto(c, "move") ELSE Reply(c)

\* ON UPDATE CASCADE: what is filed under row k is filed under f[k].
Refile(f) ==
    /\ change' = [x \in Changes |-> IF change[x] = NoRepo THEN NoRepo ELSE f[change[x]]]
    /\ conflict' = {<<k[1], f[k[2]]>> : k \in conflict}

\* Mutant of UpdateRow: UPDATE OR REPLACE.
UpdateRowReplacing(c) ==
    LET n == call[c].name
        m == call[c].to
    IN
    /\ At(c, "update")
    /\ rows' = IF n \in rows THEN (rows \ {n}) \cup {m} ELSE rows
    /\ meta' = IF n \in rows THEN [meta EXCEPT ![m] = meta[n], ![n] = {}] ELSE meta
    /\ Refile([k \in Names |-> IF k = n THEN m ELSE k])
    /\ AfterUpdate(c)
    /\ RowUnchanged

\* UPDATE repos: of no row, it is no error; the primary key refuses a second
\* row of the new name; what depends on the row follows it.
UpdateRow(c) ==
    LET n == call[c].name
        m == call[c].to
    IN
    /\ At(c, "update")
    /\ \/ n \notin rows /\ AfterUpdate(c) /\ UNCHANGED <<rows, meta, change, conflict>>
       \/ n \in rows /\ m \in rows /\ Reply(c) /\ UNCHANGED <<rows, meta, change, conflict>>
       \/ /\ n \in rows /\ m \notin rows
          /\ rows' = (rows \ {n}) \cup {m}
          /\ meta' = [meta EXCEPT ![m] = meta[n], ![n] = {}]
          /\ Refile([k \in Names |-> IF k = n THEN m ELSE k])
          /\ AfterUpdate(c)
    /\ RowUnchanged

Undo(c) == call' = [call EXCEPT ![c] = Blank("undo", "look", call[c].to, call[c].name)]

\* Mutant of RenameDir: the row stays renamed when the directory could not be.
RenameDirNoUndo(c) ==
    /\ At(c, "move")
    /\ \/ MoveDir(call[c].name, call[c].to) /\ UNCHANGED left
       \/ CannotMove(call[c].name, call[c].to) /\ UNCHANGED <<dir, left>>
       \/ Spend("faults") /\ UNCHANGED dir
    /\ Reply(c)
    /\ UNCHANGED <<orgs, rows, meta, change, conflict, initLock, nextId, marks>>

RenameDir(c) ==
    /\ At(c, "move")
    /\ \/ MoveDir(call[c].name, call[c].to) /\ Reply(c) /\ UNCHANGED left
       \/ CannotMove(call[c].name, call[c].to) /\ Undo(c) /\ UNCHANGED <<dir, left>>
       \/ /\ Spend("faults")
          /\ Undo(c) /\ UNCHANGED dir
    /\ UNCHANGED <<orgs, rows, meta, change, conflict, initLock, nextId, marks>>

\* rename_repo is the one handler that is dropped with its client: what it
\* awaits goes on, and what comes after does not.
QuitRename(c) ==
    /\ call[c] # Idle /\ call[c].op \in {"rename", "undo"} /\ call[c].quit = "no"
    /\ Spend("faults")
    /\ IF call[c].pc = "move" THEN Reply(c) ELSE call' = [call EXCEPT ![c].quit = "yes"]
    /\ marks' = Marked(Touched(call[c]), "rename")
    /\ UNCHANGED <<dir, orgs, rows, meta, change, conflict, initLock, nextId>>

(***************************************************************************)
(* Organizations are rows only: no handler moves their directory.          *)
(***************************************************************************)
OrgUnchanged == UNCHANGED <<dir, initLock, call, nextId>>

OrgCall(c) ==
    /\ call[c] = Idle /\ Spend("calls")

CreateOrg(c) == \E o \in Orgs \ orgs :
    /\ OrgCall(c) /\ orgs' = orgs \cup {o}
    /\ UNCHANGED <<rows, meta, change, conflict, marks>> /\ OrgUnchanged

\* Foreign keys hold back the count that was read too early.
DeleteOrg(c) == \E o \in orgs :
    /\ OrgCall(c)
    /\ rows \cap ({o} \X Repos) = {}
    /\ orgs' = orgs \ {o}
    /\ UNCHANGED <<rows, meta, change, conflict, marks>> /\ OrgUnchanged

\* One transaction: the rows of all its repositories take the new name.
RenameOrg(c) == \E o \in orgs, p \in Orgs \ orgs :
    LET Old(n) == <<o, n[2]>>
    IN
    /\ OrgCall(c)
    /\ orgs' = (orgs \ {o}) \cup {p}
    /\ rows' = {n \in Names : IF n[1] = p THEN Old(n) \in rows ELSE n[1] # o /\ n \in rows}
    /\ meta' = [n \in Names |->
                 IF n[1] = p THEN meta[Old(n)] ELSE IF n[1] = o THEN {} ELSE meta[n]]
    /\ Refile([n \in Names |-> IF n[1] = o THEN <<p, n[2]>> ELSE n])
    /\ marks' = Marked({n \in Names : n[1] \in {o, p}}, "org")
    /\ OrgUnchanged

(***************************************************************************)
(* Failures.  A failed clone or rename owes that nothing has changed; the  *)
(* others say nothing of what they leave behind.                           *)
(***************************************************************************)
Blameless(r) == \/ r.op = "rename" /\ r.pc # "move"
                \/ r.op = "fetch" /\ r.pc = "load"
                \/ r.op = "clone" /\ r.pc \in {"mkdir", "git", "import", "commit", "promote"}

\* A statement, a file operation, or jj returns an error.
FailCall(c) ==
    /\ call[c] # Idle
    /\ Spend("faults")
    /\ call[c].pc \notin {"git", "import", "move"}
    /\ Reply(c)
    /\ initLock' = IF initLock = c THEN NoClient ELSE initLock
    /\ marks' = IF Blameless(call[c]) THEN marks ELSE Marked(Touched(call[c]), call[c].op)
    /\ UNCHANGED <<dir, orgs, rows, meta, change, conflict, nextId>>

\* The process dies.
LifeCrash ==
    /\ call' = [c \in Clients |-> Idle]
    /\ initLock' = NoClient
    /\ LET active == {c \in Clients : call[c] # Idle}
       IN  marks' = [n \in Names |->
               marks[n] \cup {call[c].op : c \in {d \in active : n \in Touched(call[d])}}]
    /\ UNCHANGED <<dir, orgs, rows, meta, change, conflict, nextId>>

LifeRequest(c) ==
    \/ CreateRepo(c) \/ CloneRemote(c) \/ Fetch(c) \/ DeleteRepo(c) \/ RenameRepo(c)
    \/ CreateOrg(c) \/ DeleteOrg(c) \/ RenameOrg(c)

LifeStep(c) ==
    \/ UpsertRepo(c) \/ OpenOrInit(c) \/ StartInit(c) \/ FinishInit(c)
    \/ Load(c) \/ OpenView(c) \/ Record(c)
    \/ MakeDirs(c) \/ StartGit(c) \/ GitFails(c) \/ InitClone(c) \/ CommitClone(c) \/ Promote(c)
    \/ StartRemove(c) \/ EndRemove(c) \/ DeleteDependents(c) \/ DeleteRow(c)
    \/ LookOld(c) \/ LookNew(c) \/ UpdateRow(c) \/ RenameDir(c)
    \/ QuitRename(c) \/ FailCall(c)

LifeNext == \E c \in Clients : LifeRequest(c) \/ LifeStep(c)

\* The lifecycle by itself.
LifeSpec ==
    /\ LifeInit /\ LeftTypeOK
    /\ [][LifeNext \/ (Spend("crashes") /\ LifeCrash)]_<<lifeVars, left>>

(***************************************************************************)
(* Properties.                                                             *)
(***************************************************************************)

(* Where nothing has gone wrong that the code does not answer for, and     *)
(* nobody is at work, a name has a whole repository and a row, with no     *)
(* bookmarks but those of that repository, or it has neither.  This covers *)
(* the roll-back of a rename, a clone that failed, a deletion that repairs *)
(* a name, and names used again; not a deletion that another repository's  *)
(* conflict holds back, which leaves a row without a directory.            *)
Agree ==
    \A n \in Names : marks[n] \subseteq {"scraps"} /\ ~Busy(n) =>
        \/ Whole(n) /\ n \in rows /\ meta[n] \subseteq {dir[n].id}
        \/ ~Exists(n) /\ n \notin rows

(* "a failed clone never leaves a half-initialized repo at the final path" *)
(* (sync.rs): whatever a clone, a fetch or a rename died of, a name has a  *)
(* whole repository or none.                                               *)
CloneAllOrNothing ==
    \A n \in Names : marks[n] \subseteq {"clone", "fetch", "rename", "held"} /\ ~Busy(n) =>
        dir[n] \in {Gone, Empty} \/ Whole(n)

Held(d) == {d[n].id : n \in {m \in Names : d[m].state = "whole"}}

(* Whatever overlaps and whatever fails, a whole repository disappears     *)
(* only by a deletion of the name it has at that moment.                   *)
ContentKept ==
    [][\A i \in Held(dir) \ Held(dir') :
          \E c \in Clients : At(c, "remove") /\ dir[call[c].name].id = i]_lifeVars

Recorded(m) == UNION {m[n] : n \in Names}

(* Likewise its bookmarks: two renames, or a rename and a creation, that   *)
(* pass the test of the new name together cannot replace each other's      *)
(* rows.  The row of a change goes only by a deletion of the name it is    *)
(* filed under, which need not be the only repository that has the change. *)
MetadataKept ==
    [][/\ \A i \in Recorded(meta) \ Recorded(meta') :
             \E c \in Clients : At(c, "unrow") /\ i \in meta[call[c].name]
       /\ \A x \in Changes : change[x] # NoRepo /\ change'[x] = NoRepo =>
             \E c \in Clients : At(c, "unrow") /\ change[x] = call[c].name]_lifeVars
===============================================================================
