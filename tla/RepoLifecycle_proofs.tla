------------------------ MODULE RepoLifecycle_proofs ------------------------
(***************************************************************************)
(* Proofs about RepoLifecycle for all sets of clients, organizations and   *)
(* repositories: the types, that no step loses a repository or what is     *)
(* recorded of it but a deletion, and that directories, rows and bookmarks *)
(* agree at every name where nothing has gone wrong.  Sections: paths and  *)
(* requests, directories, rows, the theorems of what is never lost; then   *)
(* names and requests where nothing has gone wrong, what a step leaves     *)
(* alone, requests begin, proceed and fail, the theorems of what agrees.   *)
(***************************************************************************)
EXTENDS RepoLifecycle, TLAPS

-----------------------------------------------------------------------------
(* The inductive invariant. *)

\* Identities are handed out in order.
Fresh ==
    /\ \A p \in Paths : dir[p].id < nextId
    /\ \A c \in Clients : call[c] # Idle => call[c].id < nextId

\* A repository is at one path.
OneHome ==
    \A p, q \in Paths : dir[p].id # 0 /\ dir[p].id = dir[q].id => p = q

\* What a deletion has begun to remove is never made whole again.
RemovedTorn ==
    \A c \in Clients : At(c, "removed") =>
        /\ call[c].id # 0
        /\ \A p \in Paths : dir[p].id = call[c].id =>
              p \in Names /\ dir[p].state \in {"scraps", "torn"}

DirInv == Fresh /\ OneHome /\ RemovedTorn

\* What is recorded hangs on a row, and a row on an organization.
RowInv ==
    /\ \A n \in Names : n \notin rows => meta[n] = {}
    /\ \A x \in Changes : change[x] # NoRepo => change[x] \in rows
    /\ \A k \in conflict : k[2] \in rows /\ change[k[1]] # NoRepo
    /\ \A n \in rows : n[1] \in orgs
    /\ \A c \in Clients :
          /\ At(c, "record") => call[c].id \in Ids
          /\ call[c] # Idle => call[c].name[1] = call[c].to[1]

LifeInv == LifeTypeOK /\ DirInv /\ RowInv

-----------------------------------------------------------------------------
(* Paths and requests. *)

LEMMA StageIsApart ==
    ASSUME NEW n \in Names
    PROVE  n \in Paths /\ Stage(n) \in Paths /\ Stage(n) \notin Names /\ n # Stage(n)
<1>1. StemOf[n[2]] \in Stems /\ n[1] \in Orgs
  BY LifeAssumption DEF Names
<1>2. Stage(n) \in Stages
  BY <1>1 DEF Stage, Stages
<1>3. StemOf[n[2]] \notin Repos
  BY <1>1, LifeAssumption
<1>4. Stage(n) \notin Names
  BY <1>3 DEF Stage, Names
<1> QED BY <1>2, <1>4 DEF Paths

LEMMA CallType ==
    ASSUME LifeTypeOK, NEW c \in Clients, call[c] # Idle
    PROVE  /\ call[c] \in Calls
           /\ call[c].name \in Names /\ call[c].to \in Names /\ call[c].id \in 0..MaxIds
           /\ call[c].name \in Paths
BY DEF LifeTypeOK, Calls, Paths

\* What a step does to the requests: that of c becomes r, or ends.
Turns(c, r) ==
    /\ call' \in [Clients -> Calls \cup {Idle}]
    /\ call'[c] = r
    /\ \A d \in Clients \ {c} : call'[d] = call[d]

LEMMA ReplyTurns ==
    ASSUME LifeTypeOK, NEW c \in Clients, Reply(c) PROVE Turns(c, Idle)
BY DEF LifeTypeOK, Reply, Turns

LEMMA SetTurns ==
    ASSUME LifeTypeOK, NEW c \in Clients, NEW r \in Calls, call' = [call EXCEPT ![c] = r]
    PROVE  Turns(c, r)
BY DEF LifeTypeOK, Turns

\* A request goes on to another step.
Goes(c, pc) ==
    /\ call[c] # Idle /\ call'[c] \in Calls
    /\ call'[c].pc = pc /\ call'[c].id = call[c].id /\ call'[c].op = call[c].op
    /\ call'[c].name = call[c].name /\ call'[c].to = call[c].to /\ call'[c].quit = call[c].quit

LEMMA GotoTurns ==
    ASSUME LifeTypeOK, NEW c \in Clients, NEW pc \in Pcs, call[c] # Idle, Goto(c, pc)
    PROVE  Turns(c, call'[c]) /\ Goes(c, pc)
<1> DEFINE r == [call[c] EXCEPT !.pc = pc]
<1>1. r \in Calls /\ r.pc = pc /\ r.id = call[c].id /\ r.op = call[c].op
      /\ r.name = call[c].name /\ r.to = call[c].to /\ r.quit = call[c].quit
  BY CallType DEF Calls
<1>2. call' = [call EXCEPT ![c] = r]
  BY DEF Goto
<1> HIDE DEF r
<1>3. Turns(c, r)
  BY <1>1, <1>2, SetTurns
<1> QED BY <1>1, <1>3 DEF Turns, Goes

-----------------------------------------------------------------------------
(* Requests that fit the invariant. *)

Fits(r) ==
    \/ r = Idle
    \/ /\ r.id < nextId' /\ r.pc # "removed"
       /\ r.pc = "record" => r.id \in Ids
       /\ r.name[1] = r.to[1]

LEMMA GoesFits ==
    ASSUME LifeInv, NEW c \in Clients, NEW pc \in Pcs \ {"removed", "record"},
           Goes(c, pc), nextId' = nextId
    PROVE  Fits(call'[c])
BY DEF LifeInv, DirInv, Fresh, RowInv, Goes, Fits

LEMMA DirStays ==
    ASSUME LifeInv, NEW c \in Clients, NEW r, Turns(c, r), Fits(r), UNCHANGED <<dir, nextId>>
    PROVE  DirInv'
<1>1. Fresh'
  BY DEF LifeInv, DirInv, Fresh, Turns, Fits
<1>2. OneHome'
  BY DEF LifeInv, DirInv, OneHome
<1>3. RemovedTorn'
  BY DEF LifeInv, DirInv, RemovedTorn, At, Turns, Fits
<1> QED BY <1>1, <1>2, <1>3 DEF DirInv

LEMMA RowStays ==
    ASSUME LifeInv, NEW c \in Clients, NEW r, Turns(c, r), Fits(r),
           UNCHANGED <<orgs, rows, meta, change, conflict>>
    PROVE  RowInv'
BY DEF LifeInv, RowInv, At, Turns, Fits

LEMMA ControlStep ==
    ASSUME LifeInv, NEW c \in Clients, NEW r, Turns(c, r), Fits(r),
           UNCHANGED <<dir, orgs, rows, meta, change, conflict, nextId>>,
           initLock' \in Clients \cup {NoClient}, marks' \in [Names -> SUBSET Marks], LeftTypeOK'
    PROVE  LifeInv'
<1>1. LifeTypeOK'
  BY DEF LifeInv, LifeTypeOK, Turns
<1>2. DirInv' /\ RowInv'
  BY DirStays, RowStays
<1> QED BY <1>1, <1>2 DEF LifeInv

LEMMA SpendType ==
    ASSUME LeftTypeOK, NEW kind \in Kinds, Spend(kind) PROVE LeftTypeOK'
BY DEF LeftTypeOK, Spend

LEMMA MarkedType ==
    ASSUME LifeTypeOK, NEW S, NEW kind \in Marks
    PROVE  Marked(S, kind) \in [Names -> SUBSET Marks]
BY DEF LifeTypeOK, Marked

-----------------------------------------------------------------------------
(* Requests begin, proceed, fail. *)

LEMMA BlankType ==
    ASSUME NEW op \in Ops, NEW pc \in Pcs, NEW n \in Names, NEW m \in Names
    PROVE  Blank(op, pc, n, m) \in Calls
BY LifeAssumption DEF Blank, Calls

LEMMA ObservedType ==
    ASSUME LifeTypeOK, NEW c \in Clients, NEW r \in Calls
    PROVE  Observed(c, r) \in [Names -> SUBSET Marks]
<1>0. marks \in [Names -> SUBSET Marks] /\ "overlap" \in Marks /\ "scraps" \in Marks
      /\ r.name \in Names /\ r.to \in Names
  BY DEF LifeTypeOK, Marks, Calls
<1>1. \A S : Marked(S, "overlap") \in [Names -> SUBSET Marks]
  BY <1>0, MarkedType
<1>2. [marks EXCEPT ![r.name] = IF dir[r.name].state = "scraps" THEN {"scraps"} ELSE {}]
         \in [Names -> SUBSET Marks]
  BY <1>0
<1>3. [n \in Names |-> IF n \in Touched(r) THEN marks[r.name] \cup marks[r.to] ELSE marks[n]]
         \in [Names -> SUBSET Marks]
  BY <1>0
<1> QED BY <1>0, <1>1, <1>2, <1>3 DEF Observed

LEMMA BeginStep ==
    ASSUME LifeInv, NEW c \in Clients, NEW op \in Ops, NEW pc \in Pcs \ {"removed", "record"},
           NEW n \in Names, NEW m \in Names, BeginCall(c, Blank(op, pc, n, m)), n[1] = m[1]
    PROVE  LifeInv'
<1> DEFINE r == Blank(op, pc, n, m)
<1>1. r \in Calls
  BY BlankType
<1>2. call' = [call EXCEPT ![c] = r] /\ marks' = Observed(c, r) /\ Spend("calls")
      /\ UNCHANGED <<dir, orgs, rows, meta, change, conflict, initLock, nextId>>
  BY DEF BeginCall
<1>3. Fits(r)
  <2>1. nextId' \in 1..(MaxIds + 1)
    BY <1>2 DEF LifeInv, LifeTypeOK
  <2> QED BY <2>1, LifeAssumption DEF Fits, Blank
<1> HIDE DEF r
<1>4. Turns(c, r)
  BY <1>1, <1>2, SetTurns DEF LifeInv
<1>5. marks' \in [Names -> SUBSET Marks]
  BY <1>1, <1>2, ObservedType DEF LifeInv
<1>6. LeftTypeOK'
  BY <1>2, SpendType DEF LifeInv, LifeTypeOK, Kinds
<1> QED BY <1>2, <1>3, <1>4, <1>5, <1>6, ControlStep DEF LifeInv, LifeTypeOK

LEMMA RequestStep ==
    ASSUME LifeInv, NEW c \in Clients,
           CreateRepo(c) \/ CloneRemote(c) \/ Fetch(c) \/ DeleteRepo(c) \/ RenameRepo(c)
    PROVE  LifeInv'
<1>0. {"create", "clone", "fetch", "delete", "rename"} \subseteq Ops
      /\ {"row", "mkdir", "load", "remove", "unrow", "look"} \subseteq Pcs \ {"removed", "record"}
  BY DEF Ops, Pcs
<1>1. CASE CreateRepo(c)
  <2>1. PICK n \in Names : BeginCall(c, Blank("create", "row", n, n))
    BY <1>1 DEF CreateRepo
  <2> QED BY <1>0, <2>1, BeginStep
<1>2. CASE CloneRemote(c)
  <2>1. PICK n \in Names : BeginCall(c, Blank("clone", "mkdir", n, n))
    BY <1>2 DEF CloneRemote
  <2> QED BY <1>0, <2>1, BeginStep
<1>3. CASE Fetch(c)
  <2>1. PICK n \in Names : BeginCall(c, Blank("fetch", "load", n, n))
    BY <1>3 DEF Fetch
  <2> QED BY <1>0, <2>1, BeginStep
<1>4. CASE DeleteRepo(c)
  <2>1. PICK n \in Names : BeginCall(c, Blank("delete", IF Exists(n) THEN "remove" ELSE "unrow", n, n))
    BY <1>4 DEF DeleteRepo
  <2>2. BeginCall(c, Blank("delete", "remove", n, n)) \/ BeginCall(c, Blank("delete", "unrow", n, n))
    BY <2>1
  <2> QED BY <1>0, <2>2, BeginStep
<1>5. CASE RenameRepo(c)
  <2>1. PICK n, m \in Names : n[1] = m[1] /\ BeginCall(c, Blank("rename", "look", n, m))
    BY <1>5 DEF RenameRepo
  <2> QED BY <1>0, <2>1, BeginStep
<1> QED BY <1>1, <1>2, <1>3, <1>4, <1>5

\* StepsOn that decide where a request goes, and change nothing else.
LEMMA GoStep ==
    ASSUME LifeInv, NEW c \in Clients, NEW pc \in Pcs \ {"removed", "record"},
           call[c] # Idle, Goto(c, pc) \/ Reply(c),
           UNCHANGED <<dir, orgs, rows, meta, change, conflict, nextId, left, marks>>,
           initLock' \in Clients \cup {NoClient}
    PROVE  LifeInv'
<1>0. LifeTypeOK
  BY DEF LifeInv
<1>1. marks' \in [Names -> SUBSET Marks] /\ LeftTypeOK'
  BY DEF LifeInv, LifeTypeOK, LeftTypeOK
<1>2. CASE Goto(c, pc)
  <2>1. Turns(c, call'[c]) /\ Goes(c, pc)
    BY <1>0, <1>2, GotoTurns
  <2>2. Fits(call'[c])
    BY <2>1, GoesFits
  <2> QED BY <1>1, <2>1, <2>2, ControlStep
<1>3. CASE Reply(c)
  <2>1. Turns(c, Idle)
    BY <1>0, <1>3, ReplyTurns
  <2> QED BY <1>1, <2>1, ControlStep DEF Fits
<1> QED BY <1>2, <1>3

LEMMA RouteStep ==
    ASSUME LifeInv, NEW c \in Clients,
           \/ OpenOrInit(c) \/ Load(c) \/ LookOld(c) \/ LookNew(c)
    PROVE  LifeInv'
<1>0. {"load", "init", "rows", "clobber", "update"} \subseteq Pcs \ {"removed", "record"}
      /\ initLock \in Clients \cup {NoClient}
  BY DEF Pcs, LifeInv, LifeTypeOK
<1>1. CASE OpenOrInit(c)
  <2>1. /\ call[c] # Idle /\ UNCHANGED <<dir, orgs, rows, meta, change, conflict, nextId, left, marks>>
        /\ initLock' \in Clients \cup {NoClient} /\ (Goto(c, "load") \/ Goto(c, "init"))
    BY <1>0, <1>1 DEF OpenOrInit, At
  <2> QED BY <1>0, <2>1, GoStep
<1>2. CASE Load(c)
  <2>1. /\ call[c] # Idle /\ UNCHANGED <<dir, orgs, rows, meta, change, conflict, nextId, left, marks>>
        /\ initLock' \in Clients \cup {NoClient} /\ (Goto(c, "rows") \/ Reply(c))
    BY <1>0, <1>2 DEF Load, At
  <2> QED BY <1>0, <2>1, GoStep
<1>3. CASE LookOld(c)
  <2>1. /\ call[c] # Idle /\ UNCHANGED <<dir, orgs, rows, meta, change, conflict, nextId, left, marks>>
        /\ initLock' \in Clients \cup {NoClient} /\ (Goto(c, "clobber") \/ Reply(c))
    BY <1>0, <1>3 DEF LookOld, At, RowUnchanged
  <2> QED BY <1>0, <2>1, GoStep
<1>4. CASE LookNew(c)
  <2>1. /\ call[c] # Idle /\ UNCHANGED <<dir, orgs, rows, meta, change, conflict, nextId, left, marks>>
        /\ initLock' \in Clients \cup {NoClient} /\ (Goto(c, "update") \/ Reply(c))
    BY <1>0, <1>4 DEF LookNew, At, RowUnchanged
  <2> QED BY <1>0, <2>1, GoStep
<1> QED BY <1>1, <1>2, <1>3, <1>4

LEMMA OpenViewStep == ASSUME LifeInv, NEW c \in Clients, OpenView(c) PROVE LifeInv'
<1>0. LifeTypeOK /\ call[c] # Idle /\ UNCHANGED <<dir, orgs, rows, meta, change, conflict, initLock, nextId, left, marks>>
  BY DEF LifeInv, OpenView, At
<1>1. CASE Reply(c)
  <2>1. "load" \in Pcs \ {"removed", "record"} /\ initLock' \in Clients \cup {NoClient}
    BY <1>0 DEF Pcs, LifeTypeOK
  <2> QED BY <1>0, <1>1, <2>1, GoStep
<1>2. CASE ~Reply(c)
  <2> DEFINE d == dir[call[c].name]
             r == [call[c] EXCEPT !.pc = "record", !.id = d.id]
  <2>1. d \in Dirs /\ d.state = "whole" /\ call' = [call EXCEPT ![c] = r]
    BY <1>0, <1>2, CallType DEF OpenView, Whole, LifeTypeOK
  <2>2. d.id \in Ids /\ d.id < nextId
    BY <1>0, <2>1, CallType DEF Dirs, Gone, Empty, LifeInv, DirInv, Fresh
  <2> HIDE DEF d
  <2>3. r \in Calls /\ r.id = d.id /\ r.pc = "record" /\ r.op = call[c].op
        /\ r.name = call[c].name /\ r.to = call[c].to
    <3>1. call[c] \in Calls /\ d.id \in 0..MaxIds /\ "record" \in Pcs
      BY <1>0, <2>2, CallType, LifeAssumption DEF Ids, Pcs
    <3> QED BY <3>1 DEF Calls
  <2> HIDE DEF r
  <2>4. Turns(c, r)
    BY <1>0, <2>1, <2>3, SetTurns
  <2>5. Fits(r)
    BY <1>0, <2>2, <2>3 DEF Fits, LifeInv, RowInv
  <2> QED BY <1>0, <2>4, <2>5, ControlStep DEF LifeTypeOK, LeftTypeOK
<1> QED BY <1>1, <1>2

LEMMA QuitStep == ASSUME LifeInv, NEW c \in Clients, QuitRename(c) PROVE LifeInv'
<1>0. /\ LifeTypeOK /\ call[c] # Idle /\ call[c].op \in {"rename", "undo"}
      /\ Spend("faults") /\ marks' = Marked(Touched(call[c]), "rename")
      /\ UNCHANGED <<dir, orgs, rows, meta, change, conflict, initLock, nextId>>
  BY DEF LifeInv, QuitRename
<1>1. LeftTypeOK' /\ marks' \in [Names -> SUBSET Marks] /\ initLock' \in Clients \cup {NoClient}
  <2>1. "faults" \in Kinds /\ "rename" \in Marks /\ LeftTypeOK
    BY <1>0 DEF Kinds, Marks, Ops, LifeTypeOK
  <2> QED BY <1>0, <2>1, SpendType, MarkedType DEF LifeTypeOK
<1>2. CASE Reply(c)
  BY <1>0, <1>1, <1>2, ReplyTurns, ControlStep DEF Fits
<1>3. CASE call' = [call EXCEPT ![c].quit = "yes"] /\ call[c].pc # "move"
  <2> DEFINE r == [call[c] EXCEPT !.quit = "yes"]
  <2>1. r \in Calls /\ r.id = call[c].id /\ r.op = call[c].op /\ r.pc = call[c].pc
        /\ r.name = call[c].name /\ r.to = call[c].to
    BY <1>0, CallType DEF Calls
  <2>2. call' = [call EXCEPT ![c] = r]
    BY <1>3
  <2> HIDE DEF r
  <2>3. Turns(c, r)
    BY <1>0, <2>1, <2>2, SetTurns
  <2>4. CASE r.pc # "removed"
    <3>1. Fits(r)
      BY <1>0, <2>1, <2>4 DEF Fits, LifeInv, DirInv, Fresh, RowInv, At
    <3> QED BY <1>0, <1>1, <2>3, <3>1, ControlStep
  <2>5. CASE r.pc = "removed"
    <3>1. LifeTypeOK'
      BY <1>0, <1>1, <2>3 DEF LifeTypeOK, Turns
    <3>2. DirInv'
      <4>1. At(c, "removed") /\ call'[c].id = call[c].id
            /\ \A d \in Clients \ {c} : call'[d] = call[d]
        BY <1>0, <2>1, <2>3, <2>5 DEF At, Turns
      <4>2. Fresh'
        BY <1>0, <4>1 DEF LifeInv, DirInv, Fresh
      <4>3. OneHome'
        BY <1>0 DEF LifeInv, DirInv, OneHome
      <4>4. RemovedTorn'
        BY <1>0, <4>1 DEF LifeInv, DirInv, RemovedTorn, At
      <4> QED BY <4>2, <4>3, <4>4 DEF DirInv
    <3>3. RowInv'
      BY <1>0, <2>1, <2>3, <2>5 DEF LifeInv, RowInv, At, Turns
    <3> QED BY <3>1, <3>2, <3>3 DEF LifeInv
  <2> QED BY <2>4, <2>5
<1> QED BY <1>0, <1>2, <1>3 DEF QuitRename

LEMMA FailStep == ASSUME LifeInv, NEW c \in Clients, FailCall(c) PROVE LifeInv'
<1>0. /\ LifeTypeOK /\ call[c] # Idle /\ Spend("faults") /\ Reply(c)
      /\ UNCHANGED <<dir, orgs, rows, meta, change, conflict, nextId>>
      /\ initLock' \in Clients \cup {NoClient}
      /\ marks' \in {marks, Marked(Touched(call[c]), call[c].op)}
  BY DEF LifeInv, FailCall, LifeTypeOK
<1>1. LeftTypeOK' /\ marks' \in [Names -> SUBSET Marks]
  <2>1. "faults" \in Kinds /\ LeftTypeOK /\ call[c].op \in Marks /\ marks \in [Names -> SUBSET Marks]
    BY <1>0, CallType DEF Kinds, Marks, Calls, LifeTypeOK
  <2> QED BY <1>0, <2>1, SpendType, MarkedType
<1> QED BY <1>0, <1>1, ReplyTurns, ControlStep DEF Fits

LEMMA CrashStep == ASSUME LifeInv, LifeCrash, LeftTypeOK' PROVE LifeInv'
<1>0. /\ LifeTypeOK /\ call' = [c \in Clients |-> Idle] /\ initLock' = NoClient
      /\ UNCHANGED <<dir, orgs, rows, meta, change, conflict, nextId>>
  BY DEF LifeInv, LifeCrash
<1>1. marks' \in [Names -> SUBSET Marks]
  <2>1. \A d \in Clients : call[d] # Idle => call[d].op \in Marks
    BY <1>0, CallType DEF Calls, Marks
  <2>2. marks \in [Names -> SUBSET Marks]
    BY <1>0 DEF LifeTypeOK
  <2> QED BY <2>1, <2>2 DEF LifeCrash
<1>2. LifeTypeOK'
  BY <1>0, <1>1 DEF LifeTypeOK
<1>3. \A c \in Clients : call'[c] = Idle
  BY <1>0
<1>4. DirInv'
  BY <1>0, <1>3 DEF LifeInv, DirInv, Fresh, OneHome, RemovedTorn, At
<1>5. RowInv'
  BY <1>0, <1>3 DEF LifeInv, RowInv, At
<1> QED BY <1>2, <1>4, <1>5 DEF LifeInv

-----------------------------------------------------------------------------
(* Directories. *)

LEMMA DirType ==
    ASSUME LifeTypeOK, NEW p \in Paths
    PROVE  /\ dir[p] \in Dirs /\ dir[p].id \in 0..MaxIds
           /\ dir[p].state \in {"scraps", "half", "whole", "torn"} => dir[p].id \in Ids
           /\ dir[p].id # 0 => dir[p] \in [state : {"scraps", "half", "whole", "torn"}, id : Ids]
BY LifeAssumption DEF LifeTypeOK, Dirs, Gone, Empty, Ids

\* Only request c and directories change.
OnlyDirs(c, r) ==
    /\ Turns(c, r) /\ Fits(r)
    /\ dir' \in [Paths -> Dirs]
    /\ UNCHANGED <<orgs, rows, meta, change, conflict, marks>>
    /\ initLock' \in Clients \cup {NoClient} /\ LeftTypeOK'

LEMMA DirsStep ==
    ASSUME LifeInv, NEW c \in Clients, NEW r, OnlyDirs(c, r), DirInv',
           nextId' \in 1..(MaxIds + 1)
    PROVE  LifeInv'
<1>1. LifeTypeOK'
  BY DEF LifeInv, LifeTypeOK, OnlyDirs, Turns
<1>2. RowInv'
  BY RowStays DEF OnlyDirs
<1> QED BY <1>1, <1>2 DEF LifeInv

\* What is at p is emptied, changes its state, or is new.
Puts(p, d) ==
    /\ dir' = [dir EXCEPT ![p] = d]
    /\ \/ d.id = 0 /\ nextId' = nextId
       \/ d.id = dir[p].id /\ nextId' = nextId
          /\ (\/ p \in Names /\ d.state \in {"scraps", "torn"}
              \/ p \notin Names
              \/ dir[p].state \notin {"scraps", "torn"})
       \/ d.id = nextId /\ nextId' = nextId + 1

LEMMA PutStep ==
    ASSUME LifeInv, NEW c \in Clients, NEW r, NEW p \in Paths, NEW d \in Dirs,
           Puts(p, d), Turns(c, r), Fits(r)
    PROVE  DirInv'
<1>0. /\ dir' = [dir EXCEPT ![p] = d] /\ dir \in [Paths -> Dirs] /\ nextId \in 1..(MaxIds + 1)
      /\ DirInv
      /\ d.id = 0 \/ d.id = dir[p].id \/ d.id = nextId
      /\ nextId' \in {nextId, nextId + 1} /\ (d.id = nextId /\ d.id # dir[p].id => nextId' = nextId + 1)
  BY DEF LifeInv, LifeTypeOK, Puts, DirInv, Fresh
<1>1. /\ dir'[p] = d /\ \A q \in Paths \ {p} : dir'[q] = dir[q]
      /\ \A q \in Paths : dir[q].id \in 0..MaxIds /\ dir[q].id < nextId
  BY <1>0, DirType DEF LifeInv, DirInv, Fresh
<1>1a. nextId \in Nat \ {0} /\ nextId' \in Nat /\ nextId' >= nextId /\ d.id < nextId'
       /\ \A q \in Paths : dir[q].id \in Nat
  BY <1>0, <1>1, LifeAssumption DEF Puts
<1>1b. \A e \in Clients : call[e] # Idle => call[e].id \in Nat
  BY CallType DEF LifeInv
<1>2. Fresh'
  BY <1>0, <1>1, <1>1a, <1>1b DEF DirInv, Fresh, Turns, Fits
<1>3. OneHome'
  BY <1>0, <1>1, <1>1a DEF DirInv, OneHome, Fresh
<1>4. RemovedTorn'
  <2> SUFFICES ASSUME NEW e \in Clients, At(e, "removed")'
               PROVE  /\ call'[e].id # 0
                      /\ \A q \in Paths : dir'[q].id = call'[e].id =>
                            q \in Names /\ dir'[q].state \in {"scraps", "torn"}
    BY DEF RemovedTorn, At
  <2>1. e # c /\ call'[e] = call[e] /\ At(e, "removed")
    BY DEF At, Turns, Fits
  <2>2. call[e].id # 0 /\ call[e].id < nextId
        /\ \A q \in Paths : dir[q].id = call[e].id => q \in Names /\ dir[q].state \in {"scraps", "torn"}
    BY <1>0, <2>1 DEF DirInv, RemovedTorn, Fresh, At
  <2>3. dir'[p].id = call[e].id => p \in Names /\ dir'[p].state \in {"scraps", "torn"}
    BY <1>0, <1>1, <1>1a, <1>1b, <2>1, <2>2 DEF Puts, At
  <2> QED BY <1>1, <2>1, <2>2, <2>3
<1> QED BY <1>2, <1>3, <1>4 DEF DirInv

LEMMA MoveStep ==
    ASSUME LifeInv, NEW c \in Clients, NEW r, NEW p \in Paths, NEW n \in Names,
           MoveDir(p, n), Turns(c, r), Fits(r), nextId' = nextId
    PROVE  DirInv' /\ dir' \in [Paths -> Dirs]
<1>0. /\ dir \in [Paths -> Dirs] /\ nextId \in 1..(MaxIds + 1) /\ DirInv
      /\ dir' = [dir EXCEPT ![n] = dir[p], ![p] = Gone] /\ n \in Paths
      /\ Gone \in Dirs /\ Gone.id = 0 /\ Empty.id = 0 /\ dir[n].id = 0
  BY DEF LifeInv, LifeTypeOK, MoveDir, Paths, Dirs, Gone, Empty
<1>1. /\ dir'[p] = Gone /\ (n # p => dir'[n] = dir[p])
      /\ \A q \in Paths \ {p, n} : dir'[q] = dir[q]
      /\ dir' \in [Paths -> Dirs]
  BY <1>0
<1>2. Fresh'
  <2>1. \A q \in Paths : dir[q].id < nextId
    BY <1>0 DEF DirInv, Fresh
  <2>2. \A q \in Paths : dir'[q].id < nextId'
    BY <1>0, <1>1, <2>1, LifeAssumption
  <2>3. \A e \in Clients : call'[e] # Idle => call'[e].id < nextId'
    BY <1>0 DEF DirInv, Fresh, Turns, Fits
  <2> QED BY <2>2, <2>3 DEF Fresh
<1>3. OneHome'
  BY <1>0, <1>1 DEF DirInv, OneHome
<1>4. RemovedTorn'
  BY <1>0, <1>1 DEF DirInv, RemovedTorn, At, Turns, Fits
<1> QED BY <1>1, <1>2, <1>3, <1>4 DEF DirInv

\* Directories that are emptied.
LEMMA ClearStep ==
    ASSUME LifeInv, NEW c \in Clients, NEW r, Turns(c, r), Fits(r), nextId' = nextId,
           \A q \in Paths : dir'[q].id = 0 \/ dir'[q] = dir[q]
    PROVE  DirInv'
<1>0. nextId \in 1..(MaxIds + 1) /\ DirInv
  BY DEF LifeInv, LifeTypeOK
<1>1. Fresh'
  BY <1>0, LifeAssumption DEF DirInv, Fresh, Turns, Fits
<1>2. OneHome'
  BY <1>0 DEF DirInv, OneHome
<1>3. RemovedTorn'
  BY <1>0 DEF DirInv, RemovedTorn, At, Turns, Fits
<1> QED BY <1>1, <1>2, <1>3 DEF DirInv

\* The facts every step begins with.
LEMMA StepFacts ==
    ASSUME LifeInv, NEW c \in Clients, call[c] # Idle
    PROVE  /\ LifeTypeOK /\ dir \in [Paths -> Dirs] /\ nextId \in 1..(MaxIds + 1)
           /\ initLock \in Clients \cup {NoClient} /\ LeftTypeOK
           /\ call[c].name \in Names /\ call[c].to \in Names
           /\ call[c].name \in Paths /\ call[c].to \in Paths
           /\ Stage(call[c].name) \in Paths /\ Stage(call[c].name) \notin Names
           /\ Stage(call[c].name) # call[c].name
           /\ call[c] \in Calls /\ call[c].id < nextId /\ call[c].id \in 0..MaxIds
           /\ Gone \in Dirs /\ Empty \in Dirs /\ Gone.id = 0 /\ Empty.id = 0
BY CallType, StageIsApart DEF LifeInv, LifeTypeOK, Paths, DirInv, Fresh, Dirs, Gone, Empty

LEMMA GoesOrEnds ==
    ASSUME LifeInv, NEW c \in Clients, NEW pc \in Pcs \ {"removed", "record"},
           call[c] # Idle, Goto(c, pc) \/ Reply(c), nextId' = nextId
    PROVE  Turns(c, call'[c]) /\ Fits(call'[c])
<1>0. LifeTypeOK
  BY DEF LifeInv
<1>1. CASE Goto(c, pc)
  BY <1>0, <1>1, GotoTurns, GoesFits
<1>2. CASE Reply(c)
  <2>1. Turns(c, Idle)
    BY <1>0, <1>2, ReplyTurns
  <2> QED BY <2>1 DEF Turns, Fits
<1> QED BY <1>1, <1>2

\* A directory is put, and the request goes on or ends.
LEMMA PutAndGo ==
    ASSUME LifeInv, NEW c \in Clients, NEW pc \in Pcs \ {"removed", "record"},
           call[c] # Idle, Goto(c, pc) \/ Reply(c), NEW p \in Paths, NEW d \in Dirs,
           Puts(p, d), nextId' = nextId, UNCHANGED <<orgs, rows, meta, change, conflict, marks>>,
           initLock' \in Clients \cup {NoClient}, LeftTypeOK'
    PROVE  LifeInv'
<1>1. Turns(c, call'[c]) /\ Fits(call'[c])
  BY GoesOrEnds
<1>2. DirInv'
  BY <1>1, PutStep
<1>3. dir' \in [Paths -> Dirs]
  BY DEF Puts, LifeInv, LifeTypeOK
<1> QED BY <1>1, <1>2, <1>3, DirsStep DEF OnlyDirs, LifeInv, LifeTypeOK

LEMMA NewType ==
    ASSUME LifeTypeOK, nextId <= MaxIds, NEW state \in {"scraps", "half"}
    PROVE  [state |-> state, id |-> nextId] \in Dirs
BY LifeAssumption DEF LifeTypeOK, Dirs, Ids

\* A directory with a new identity.
LEMMA PutNew ==
    ASSUME LifeInv, NEW c \in Clients, NEW pc \in Pcs \ {"removed", "record"}, call[c] # Idle,
           NEW p \in Paths, NEW state \in {"scraps", "half"}, nextId <= MaxIds,
           dir' = [dir EXCEPT ![p] = [state |-> state, id |-> nextId]],
           call' = [call EXCEPT ![c].pc = pc, ![c].id = nextId], nextId' = nextId + 1,
           UNCHANGED <<orgs, rows, meta, change, conflict, marks, initLock, left>>
    PROVE  LifeInv'
<1>0. LifeTypeOK /\ dir \in [Paths -> Dirs] /\ nextId \in 1..(MaxIds + 1) /\ call[c] \in Calls
  BY StepFacts
<1> DEFINE d == [state |-> state, id |-> nextId]
           r == [call[c] EXCEPT !.pc = pc, !.id = nextId]
<1>1. d \in Dirs /\ d.id = nextId /\ dir' = [dir EXCEPT ![p] = d]
  BY <1>0, NewType
<1>2. call' = [call EXCEPT ![c] = r]
  BY <1>0 DEF LifeTypeOK
<1>3. r \in Calls /\ r.pc = pc /\ r.id = nextId /\ r.op = call[c].op
      /\ r.name = call[c].name /\ r.to = call[c].to
  <2>1. nextId \in 0..MaxIds
    BY <1>0, LifeAssumption
  <2> QED BY <1>0, <2>1 DEF Calls
<1> HIDE DEF d, r
<1>4. Turns(c, r)
  BY <1>0, <1>2, <1>3, SetTurns
<1>5. Fits(r)
  <2>1. r.id < nextId'
    BY <1>0, <1>3, LifeAssumption
  <2> QED BY <1>3, <2>1 DEF Fits, LifeInv, RowInv
<1>6. Puts(p, d)
  BY <1>1 DEF Puts
<1>7. DirInv'
  BY <1>1, <1>4, <1>5, <1>6, PutStep
<1>8. dir' \in [Paths -> Dirs] /\ nextId' \in 1..(MaxIds + 1)
  BY <1>0, <1>1, LifeAssumption
<1> QED BY <1>4, <1>5, <1>7, <1>8, DirsStep DEF OnlyDirs, LifeInv, LifeTypeOK, LeftTypeOK

LEMMA InitStep ==
    ASSUME LifeInv, NEW c \in Clients, StartInit(c) \/ FinishInit(c) PROVE LifeInv'
<1>0. {"load", "finish"} \subseteq Pcs \ {"removed", "record"} /\ "half" \in {"scraps", "half"}
      /\ NoClient \in Clients \cup {NoClient} /\ call[c] # Idle
  BY DEF Pcs, StartInit, FinishInit, At
<1>1. CASE StartInit(c)
  <2>1. CASE Exists(call[c].name)
    BY <1>0, <1>1, <2>1, GoStep DEF StartInit
  <2>2. CASE ~Exists(call[c].name)
    <3>1. /\ nextId <= MaxIds
          /\ dir' = [dir EXCEPT ![call[c].name] = [state |-> "half", id |-> nextId]]
          /\ call' = [call EXCEPT ![c].pc = "finish", ![c].id = nextId]
          /\ nextId' = nextId + 1
          /\ UNCHANGED <<orgs, rows, meta, change, conflict, marks, initLock, left>>
      BY <1>1, <2>2 DEF StartInit
    <3> QED BY <1>0, <3>1, PutNew, StepFacts
  <2> QED BY <2>1, <2>2
<1>2. CASE FinishInit(c)
  <2> DEFINE n == call[c].name
             d == [state |-> "whole", id |-> call[c].id]
  <2>1. CASE dir[n] # [state |-> "half", id |-> call[c].id]
    BY <1>0, <1>2, <2>1, GoStep DEF FinishInit
  <2>2. CASE dir[n] = [state |-> "half", id |-> call[c].id]
    <3>1. dir' = [dir EXCEPT ![n] = d] /\ n \in Paths /\ d.id = dir[n].id
      BY <1>0, <1>2, <2>2, StepFacts DEF FinishInit
    <3>2. d \in Dirs
      <4>1. dir[n].id \in Ids
        BY <1>0, <2>2, StepFacts, DirType
      <4> QED BY <3>1, <4>1 DEF Dirs
    <3>3. Puts(n, d)
      BY <1>2, <2>2, <3>1 DEF Puts, FinishInit
    <3>4. Goto(c, "load") /\ nextId' = nextId /\ UNCHANGED <<orgs, rows, meta, change, conflict, marks, left>>
          /\ initLock' = NoClient
      BY <1>2, <2>2 DEF FinishInit
    <3> HIDE DEF d
    <3> QED BY <1>0, <3>1, <3>2, <3>3, <3>4, StepFacts, PutAndGo DEF LeftTypeOK
  <2> QED BY <2>1, <2>2
<1> QED BY <1>1, <1>2

LEMMA MakeDirsStep == ASSUME LifeInv, NEW c \in Clients, MakeDirs(c) PROVE LifeInv'
<1> DEFINE n == call[c].name
           s == Stage(n)
<1>0. /\ call[c] # Idle /\ "git" \in Pcs \ {"removed", "record"} /\ Goto(c, "git")
      /\ nextId' = nextId /\ UNCHANGED <<orgs, rows, meta, change, conflict, marks, initLock, left>>
      /\ dir' = [dir EXCEPT ![n] = IF @ = Gone THEN Empty ELSE @, ![s] = Empty]
  BY DEF Pcs, MakeDirs, At, CloneUnchanged
<1>1. Turns(c, call'[c]) /\ Fits(call'[c])
  BY <1>0, GoesOrEnds
<1>2. n \in Paths /\ s \in Paths /\ n # s /\ Empty \in Dirs /\ Empty.id = 0 /\ dir \in [Paths -> Dirs]
  BY <1>0, StepFacts
<1> HIDE DEF n, s
<1>3. /\ dir' \in [Paths -> Dirs]
      /\ \A q \in Paths : dir'[q].id = 0 \/ dir'[q] = dir[q]
  BY <1>0, <1>2
<1>4. DirInv'
  BY <1>0, <1>1, <1>3, ClearStep
<1> QED BY <1>0, <1>1, <1>3, <1>4, DirsStep DEF OnlyDirs, LifeInv, LifeTypeOK, LeftTypeOK

LEMMA CloneStep ==
    ASSUME LifeInv, NEW c \in Clients,
           StartGit(c) \/ GitFails(c) \/ InitClone(c) \/ CommitClone(c)
    PROVE  LifeInv'
<1> DEFINE s == Stage(call[c].name)
<1>0. {"import", "commit", "promote"} \subseteq Pcs \ {"removed", "record"}
      /\ call[c] # Idle /\ "scraps" \in {"scraps", "half"}
  BY DEF Pcs, StartGit, GitFails, InitClone, CommitClone, At
<1>f. s \in Paths /\ s \notin Names /\ Gone \in Dirs /\ Gone.id = 0 /\ dir \in [Paths -> Dirs]
      /\ LifeTypeOK /\ LeftTypeOK /\ initLock \in Clients \cup {NoClient}
  BY <1>0, StepFacts
<1>1. CASE StartGit(c)
  <2>1. /\ nextId <= MaxIds
        /\ dir' = [dir EXCEPT ![s] = [state |-> "scraps", id |-> nextId]]
        /\ call' = [call EXCEPT ![c].pc = "import", ![c].id = nextId]
        /\ nextId' = nextId + 1
        /\ UNCHANGED <<orgs, rows, meta, change, conflict, marks, initLock, left>>
    BY <1>1 DEF StartGit, CloneUnchanged
  <2> HIDE DEF s
  <2> QED BY <1>0, <1>f, <2>1, PutNew
<1>2. CASE GitFails(c)
  <2>1. /\ dir' = [dir EXCEPT ![s] = Gone] /\ Reply(c)
        /\ UNCHANGED <<orgs, rows, meta, change, conflict, initLock, nextId, marks>>
        /\ left' = left \/ Spend("faults")
    BY <1>2 DEF GitFails
  <2>2. LeftTypeOK'
    BY <1>f, <2>1, SpendType DEF Kinds, LeftTypeOK
  <2>3. Puts(s, Gone)
    BY <1>f, <2>1 DEF Puts
  <2> HIDE DEF s
  <2> QED BY <1>0, <1>f, <2>1, <2>2, <2>3, PutAndGo
<1>3. CASE InitClone(c)
  <2> DEFINE d == [state |-> "half", id |-> call[c].id]
  <2>0. /\ dir[s] = [state |-> "scraps", id |-> call[c].id] /\ Goto(c, "commit")
        /\ dir' = [dir EXCEPT ![s].state = "half"] /\ nextId' = nextId
        /\ UNCHANGED <<orgs, rows, meta, change, conflict, marks, initLock, left>>
    BY <1>3 DEF InitClone, CloneUnchanged
  <2>1. dir' = [dir EXCEPT ![s] = d]
    <3>1. [[state |-> "scraps", id |-> call[c].id] EXCEPT !.state = "half"] = d
      OBVIOUS
    <3>2. dir' = [dir EXCEPT ![s] = [dir[s] EXCEPT !.state = "half"]]
      BY <2>0
    <3> HIDE DEF d, s
    <3> QED BY <2>0, <3>1, <3>2
  <2>2. d \in Dirs /\ d.id = dir[s].id
    <3>1. dir[s].id \in Ids
      BY <1>f, <2>0, DirType
    <3> QED BY <2>0, <3>1 DEF Dirs
  <2>3. Puts(s, d)
    BY <1>f, <2>0, <2>1, <2>2 DEF Puts
  <2> HIDE DEF s, d
  <2> QED BY <1>0, <1>f, <2>0, <2>1, <2>2, <2>3, PutAndGo DEF LeftTypeOK
<1>4. CASE CommitClone(c)
  <2> DEFINE d == [state |-> "whole", id |-> call[c].id]
  <2>0. nextId' = nextId /\ UNCHANGED <<orgs, rows, meta, change, conflict, marks, initLock, left>>
    BY <1>4 DEF CommitClone, CloneUnchanged
  <2>1. CASE dir[s] # [state |-> "half", id |-> call[c].id]
    <3>1. Reply(c) /\ dir' = dir
      BY <1>4, <2>1 DEF CommitClone
    <3> QED BY <1>0, <1>f, <2>0, <3>1, GoStep
  <2>2. CASE dir[s] = [state |-> "half", id |-> call[c].id]
    <3>1. dir' = [dir EXCEPT ![s] = d] /\ Goto(c, "promote")
      BY <1>4, <1>f, <2>2 DEF CommitClone
    <3>2. d \in Dirs /\ d.id = dir[s].id
      <4>1. dir[s].id \in Ids
        BY <1>f, <2>2, DirType
      <4> QED BY <2>2, <4>1 DEF Dirs
    <3>3. Puts(s, d)
      BY <1>f, <2>0, <3>1, <3>2 DEF Puts
    <3> HIDE DEF s, d
    <3> QED BY <1>0, <1>f, <2>0, <3>1, <3>2, <3>3, PutAndGo DEF LeftTypeOK
  <2> QED BY <2>1, <2>2
<1> QED BY <1>1, <1>2, <1>3, <1>4

LEMMA PromoteStep == ASSUME LifeInv, NEW c \in Clients, Promote(c) PROVE LifeInv'
<1> DEFINE n == call[c].name
           s == Stage(n)
<1>0. /\ call[c] # Idle /\ "rows" \in Pcs \ {"removed", "record"}
      /\ nextId' = nextId /\ UNCHANGED <<orgs, rows, meta, change, conflict, marks, initLock, left>>
      /\ (MoveDir(s, n) /\ Goto(c, "rows")) \/ (Reply(c) /\ dir' = dir)
  BY DEF Pcs, Promote, At, CloneUnchanged
<1>1. n \in Names /\ s \in Paths /\ LifeTypeOK
  BY <1>0, StepFacts
<1> HIDE DEF n, s
<1>2. CASE Reply(c) /\ dir' = dir
  BY <1>0, <1>1, <1>2, GoStep DEF LifeTypeOK
<1>3. CASE MoveDir(s, n) /\ Goto(c, "rows")
  <2>1. Turns(c, call'[c]) /\ Fits(call'[c])
    BY <1>0, <1>3, GoesOrEnds
  <2>2. DirInv' /\ dir' \in [Paths -> Dirs]
    BY <1>0, <1>1, <1>3, <2>1, MoveStep
  <2> QED BY <1>0, <2>1, <2>2, DirsStep DEF OnlyDirs, LifeInv, LifeTypeOK, LeftTypeOK
<1> QED BY <1>0, <1>2, <1>3

LEMMA UndoTurns ==
    ASSUME LifeInv, NEW c \in Clients, call[c] # Idle, Undo(c), nextId' = nextId
    PROVE  Turns(c, call'[c]) /\ Fits(call'[c])
<1> DEFINE r == Blank("undo", "look", call[c].to, call[c].name)
<1>1. LifeTypeOK /\ call[c].name \in Names /\ call[c].to \in Names /\ nextId' \in 1..(MaxIds + 1)
  BY StepFacts
<1>2. r \in Calls
  <2>1. "undo" \in Ops /\ "look" \in Pcs
    BY DEF Ops, Pcs
  <2> QED BY <1>1, <2>1, BlankType
<1>3. call' = [call EXCEPT ![c] = r]
  BY DEF Undo
<1>4. Fits(r)
  BY <1>1, LifeAssumption DEF Fits, Blank, LifeInv, RowInv
<1> HIDE DEF r
<1>5. Turns(c, r)
  BY <1>1, <1>2, <1>3, SetTurns
<1> QED BY <1>4, <1>5 DEF Turns

LEMMA RenameDirStep ==
    ASSUME LifeInv, NEW c \in Clients, RenameDir(c) PROVE LifeInv'
<1>0. /\ call[c] # Idle /\ "look" \in Pcs \ {"removed", "record"}
      /\ UNCHANGED <<orgs, rows, meta, change, conflict, initLock, nextId, marks>>
      /\ left' = left \/ Spend("faults")
      /\ (MoveDir(call[c].name, call[c].to) /\ Reply(c)) \/ (Undo(c) /\ dir' = dir)
  BY DEF Pcs, RenameDir, At
<1>1. /\ call[c].name \in Paths /\ call[c].to \in Names /\ LifeTypeOK
      /\ LeftTypeOK /\ dir \in [Paths -> Dirs] /\ nextId \in 1..(MaxIds + 1)
  BY <1>0, StepFacts
<1>2. LeftTypeOK'
  BY <1>0, <1>1, SpendType DEF Kinds, LeftTypeOK
<1>3. Turns(c, call'[c]) /\ Fits(call'[c])
  BY <1>0, UndoTurns, GoesOrEnds
<1>4. DirInv' /\ dir' \in [Paths -> Dirs]
  BY <1>0, <1>1, <1>3, MoveStep, DirStays
<1> QED BY <1>0, <1>1, <1>2, <1>3, <1>4, DirsStep DEF OnlyDirs, LifeTypeOK

LEMMA RemoveStep ==
    ASSUME LifeInv, NEW c \in Clients, StartRemove(c) \/ EndRemove(c) PROVE LifeInv'
<1> DEFINE n == call[c].name
<1>0. /\ call[c] # Idle /\ {"unrow", "load"} \subseteq Pcs \ {"removed", "record"} /\ "removed" \in Pcs
      /\ UNCHANGED <<orgs, rows, meta, change, conflict, initLock, nextId, left, marks>>
  BY DEF Pcs, StartRemove, EndRemove, At
<1>1. /\ LifeTypeOK /\ LeftTypeOK /\ dir \in [Paths -> Dirs] /\ nextId \in 1..(MaxIds + 1)
      /\ n \in Names /\ n \in Paths /\ call[c] \in Calls /\ Gone \in Dirs /\ Gone.id = 0
      /\ initLock' \in Clients \cup {NoClient} /\ LeftTypeOK'
  BY <1>0, StepFacts DEF LeftTypeOK
<1>2. CASE StartRemove(c)
  <2>1. CASE dir[n].id = 0
    <3>1. Reply(c) /\ dir' = dir
      BY <1>2, <2>1 DEF StartRemove
    <3> HIDE DEF n
    <3> QED BY <1>0, <1>1, <3>1, GoStep
  <2>2. CASE dir[n].id # 0
    <3>1. PICK state \in {"scraps", "torn"} : dir' = [dir EXCEPT ![n].state = state]
      BY <1>2, <2>2 DEF StartRemove
    <3> DEFINE d == [dir[n] EXCEPT !.state = state]
               r == [call[c] EXCEPT !.pc = "removed", !.id = dir[n].id]
    <3>2. d \in Dirs /\ d.id = dir[n].id /\ d.state = state /\ dir[n].id \in Ids
      <4>1. dir[n] \in [state : {"scraps", "half", "whole", "torn"}, id : Ids]
        BY <1>1, <2>2, DirType
      <4> QED BY <4>1 DEF Dirs
    <3>3. dir' = [dir EXCEPT ![n] = d] /\ call' = [call EXCEPT ![c] = r]
      BY <1>2, <2>2, <3>1 DEF StartRemove
    <3>4. r \in Calls /\ r.pc = "removed" /\ r.id = dir[n].id /\ r.op = call[c].op
          /\ r.name = call[c].name /\ r.to = call[c].to
      <4>1. dir[n].id \in 0..MaxIds
        BY <1>1, DirType
      <4> QED BY <1>0, <1>1, <4>1 DEF Calls
    <3> HIDE DEF d, r
    <3>5. Turns(c, r)
      BY <1>1, <3>3, <3>4, SetTurns
    <3>6. /\ dir'[n] = d /\ \A q \in Paths \ {n} : dir'[q] = dir[q]
          /\ dir' \in [Paths -> Dirs] /\ \A q \in Paths : dir'[q].id = dir[q].id
      BY <1>1, <3>2, <3>3
    <3>7. Fresh'
      BY <1>0, <1>1, <3>2, <3>4, <3>5, <3>6 DEF LifeInv, DirInv, Fresh, Turns
    <3>8. OneHome'
      BY <3>6 DEF LifeInv, DirInv, OneHome
    <3>9. RemovedTorn'
      <4> SUFFICES ASSUME NEW e \in Clients, At(e, "removed")'
                   PROVE  /\ call'[e].id # 0
                          /\ \A q \in Paths : dir'[q].id = call'[e].id =>
                                q \in Names /\ dir'[q].state \in {"scraps", "torn"}
        BY DEF RemovedTorn, At
      <4>1. CASE e = c
        <5>1. call'[e].id = dir[n].id /\ dir[n].id # 0
          BY <2>2, <3>4, <3>5, <4>1 DEF Turns
        <5>2. \A q \in Paths : dir'[q].id = dir[n].id => q = n
          BY <1>1, <2>2, <3>6 DEF LifeInv, DirInv, OneHome
        <5> QED BY <1>1, <3>2, <3>6, <5>1, <5>2
      <4>2. CASE e # c
        <5>1. call'[e] = call[e] /\ At(e, "removed")
          BY <3>5, <4>2 DEF Turns, At
        <5>2. call[e].id # 0 /\ \A q \in Paths : dir[q].id = call[e].id =>
                                q \in Names /\ dir[q].state \in {"scraps", "torn"}
          BY <5>1 DEF LifeInv, DirInv, RemovedTorn
        <5> QED BY <1>1, <3>2, <3>6, <5>1, <5>2
      <4> QED BY <4>1, <4>2
    <3>10. RowInv'
      BY <1>0, <3>4, <3>5 DEF LifeInv, RowInv, At, Turns
    <3>11. LifeTypeOK'
      BY <1>0, <1>1, <3>5, <3>6 DEF LifeTypeOK, Turns
    <3> QED BY <3>7, <3>8, <3>9, <3>10, <3>11 DEF LifeInv, DirInv
  <2> QED BY <2>1, <2>2
<1>3. CASE EndRemove(c)
  <2>1. CASE dir[n].id # call[c].id
    <3>1. Reply(c) /\ dir' = dir
      BY <1>3, <2>1 DEF EndRemove
    <3> HIDE DEF n
    <3> QED BY <1>0, <1>1, <3>1, GoStep
  <2>2. CASE dir[n].id = call[c].id
    <3>1. dir' = [dir EXCEPT ![n] = Gone] /\ Goto(c, "unrow")
      BY <1>3, <2>2 DEF EndRemove
    <3>2. Puts(n, Gone)
      BY <1>0, <1>1, <3>1 DEF Puts
    <3> HIDE DEF n
    <3> QED BY <1>0, <1>1, <3>1, <3>2, PutAndGo
  <2> QED BY <2>1, <2>2
<1> QED BY <1>2, <1>3

-----------------------------------------------------------------------------
(* Rows. *)

\* Rows have their organization, what is recorded has its row.
RowsHold ==
    /\ orgs \subseteq Orgs /\ rows \subseteq Names /\ meta \in [Names -> SUBSET Ids]
    /\ change \in [Changes -> Names \cup {NoRepo}] /\ conflict \subseteq Changes \X Names
    /\ \A n \in Names : n \notin rows => meta[n] = {}
    /\ \A x \in Changes : change[x] # NoRepo => change[x] \in rows
    /\ \A k \in conflict : k[2] \in rows /\ change[k[1]] # NoRepo
    /\ \A n \in rows : n[1] \in orgs

LEMMA RowsHeld == ASSUME LifeInv PROVE RowsHold
BY DEF LifeInv, LifeTypeOK, RowInv, RowsHold

LEMMA RowsStep ==
    ASSUME LifeInv, NEW c \in Clients, NEW r, Turns(c, r), Fits(r), RowsHold',
           UNCHANGED <<dir, initLock, nextId>>, left' = left \/ LeftTypeOK',
           marks' \in [Names -> SUBSET Marks]
    PROVE  LifeInv'
<1>1. LifeTypeOK'
  BY DEF LifeInv, LifeTypeOK, Turns, RowsHold, LeftTypeOK
<1>2. DirInv'
  BY DirStays
<1>3. RowInv'
  BY DEF LifeInv, RowInv, At, Turns, Fits, RowsHold
<1> QED BY <1>1, <1>2, <1>3 DEF LifeInv

LEMMA OrgStep ==
    ASSUME LifeInv, UNCHANGED <<dir, initLock, call, nextId>>, RowsHold',
           marks' \in [Names -> SUBSET Marks], LeftTypeOK'
    PROVE  LifeInv'
<1>1. LifeTypeOK'
  BY DEF LifeInv, LifeTypeOK, RowsHold
<1>2. DirInv'
  BY DEF LifeInv, DirInv, Fresh, OneHome, RemovedTorn, At
<1>3. RowInv'
  BY DEF LifeInv, RowInv, RowsHold, At
<1> QED BY <1>1, <1>2, <1>3 DEF LifeInv

LEMMA UpsertStep == ASSUME LifeInv, NEW c \in Clients, UpsertRepo(c) PROVE LifeInv'
<1>0. /\ call[c] # Idle /\ {"open", "view"} \subseteq Pcs \ {"removed", "record"}
      /\ Goto(c, "open") \/ Goto(c, "view")
      /\ orgs' = orgs \cup {call[c].name[1]} /\ rows' = rows \cup {call[c].name}
      /\ UNCHANGED <<dir, meta, change, conflict, initLock, nextId, left, marks>>
  BY DEF Pcs, UpsertRepo, At
<1>1. call[c].name \in Names /\ call[c].name[1] \in Orgs
  <2>1. call[c].name \in Names
    BY <1>0, StepFacts
  <2> QED BY <2>1 DEF Names
<1>2. RowsHold'
  BY <1>0, <1>1, RowsHeld DEF RowsHold
<1>3. Turns(c, call'[c]) /\ Fits(call'[c])
  BY <1>0, GoesOrEnds
<1> QED BY <1>0, <1>2, <1>3, RowsStep DEF LifeInv, LifeTypeOK

LEMMA RecordStep == ASSUME LifeInv, NEW c \in Clients, Record(c) PROVE LifeInv'
<1> DEFINE n == call[c].name
<1>0. /\ call[c] # Idle /\ call[c].pc = "record" /\ "rows" \in Pcs
      /\ UNCHANGED <<dir, orgs, rows, initLock, nextId, marks>>
  BY DEF Pcs, Record, At
<1>1. /\ LifeTypeOK /\ n \in Names /\ call[c].id \in Ids /\ call[c] \in Calls
      /\ call[c].id < nextId /\ marks' \in [Names -> SUBSET Marks] /\ LeftTypeOK
  BY <1>0, StepFacts DEF LifeInv, RowInv, At, LifeTypeOK
<1>2. Reply(c) \/ call' = [call EXCEPT ![c].op = "fetch", ![c].pc = "rows"]
  BY DEF Record, Projected
<1>3. left' = left \/ LeftTypeOK'
  <2>1. left' = left \/ Spend("events")
    BY DEF Record
  <2> QED BY <1>1, <2>1, SpendType DEF Kinds
<1>4. RowsHold'
  <2>0. RowsHold
    BY RowsHeld
  <2>1. CASE UNCHANGED <<meta, change, conflict>>
    BY <1>0, <2>0, <2>1 DEF RowsHold
  <2>2. CASE n \in rows
    <3>1. PICK h \in Histories, new \in SUBSET Changes :
             /\ \A x \in h.changes : x \notin new => change[x] # NoRepo
             /\ change' = [x \in Changes |-> IF x \in new THEN n ELSE change[x]]
             /\ conflict' = conflict \cup (h.conflicts \X {n})
             /\ meta' = meta \/ meta' = [meta EXCEPT ![n] = @ \cup {call[c].id}]
      BY <2>2, LifeAssumption DEF Record
    <3>2. h.conflicts \subseteq h.changes /\ h.changes \subseteq Changes
      BY LifeAssumption
    <3>3. NoRepo \notin Names
      BY LifeAssumption
    <3> HIDE DEF n
    <3>4. /\ meta' \in [Names -> SUBSET Ids] /\ \A k \in Names : k \notin rows' => meta'[k] = {}
      BY <1>0, <1>1, <2>0, <2>2, <3>1 DEF RowsHold
    <3>5. /\ change' \in [Changes -> Names \cup {NoRepo}]
          /\ \A x \in Changes : change'[x] # NoRepo => change'[x] \in rows'
      BY <1>0, <1>1, <2>0, <2>2, <3>1 DEF RowsHold
    <3>6. \A k \in h.conflicts \X {n} : k \in Changes \X Names /\ k[1] \in h.changes /\ k[2] = n
      BY <1>1, <3>2
    <3>7. conflict' \subseteq Changes \X Names
      BY <2>0, <3>1, <3>6 DEF RowsHold
    <3>8. ASSUME NEW k \in conflict' PROVE k[2] \in rows' /\ change'[k[1]] # NoRepo
      <4>1. k[1] \in Changes /\ (k \in conflict => change[k[1]] # NoRepo /\ k[2] \in rows)
        BY <2>0, <3>7 DEF RowsHold
      <4>2. change'[k[1]] = IF k[1] \in new THEN n ELSE change[k[1]]
        BY <3>1, <4>1
      <4>3. k \in conflict \/ (k[1] \in h.changes /\ k[2] = n)
        BY <3>1, <3>6
      <4> QED BY <1>0, <1>1, <2>2, <3>1, <3>3, <4>1, <4>2, <4>3
    <3> QED BY <1>0, <2>0, <3>4, <3>5, <3>7, <3>8 DEF RowsHold
  <2> QED BY <2>1, <2>2 DEF Record
<1>5. CASE Reply(c)
  BY <1>0, <1>1, <1>3, <1>4, <1>5, ReplyTurns, RowsStep DEF Fits
<1>6. CASE ~Reply(c)
  <2> DEFINE r == [call[c] EXCEPT !.op = "fetch", !.pc = "rows"]
  <2>1. call' = [call EXCEPT ![c] = r]
    BY <1>1, <1>2, <1>6 DEF LifeTypeOK
  <2>2. r \in Calls /\ r.id = call[c].id /\ r.pc = "rows"
        /\ r.name = call[c].name /\ r.to = call[c].to
    BY <1>0, <1>1 DEF Calls, Ops
  <2> HIDE DEF r
  <2>3. Turns(c, r)
    BY <1>1, <2>1, <2>2, SetTurns
  <2>4. Fits(r)
    BY <1>0, <1>1, <2>2 DEF Fits, LifeInv, RowInv
  <2> QED BY <1>0, <1>1, <1>3, <1>4, <2>3, <2>4, RowsStep
<1> QED BY <1>5, <1>6

LEMMA DeleteStep ==
    ASSUME LifeInv, NEW c \in Clients, DeleteDependents(c) \/ DeleteRow(c) PROVE LifeInv'
<1> DEFINE n == call[c].name
<1>0. /\ call[c] # Idle /\ "unrepo" \in Pcs \ {"removed", "record"}
      /\ UNCHANGED <<dir, orgs, initLock, nextId, left>>
      /\ Goto(c, "unrepo") \/ Reply(c)
      /\ marks' \in {marks, Marked({n}, "held")}
  BY DEF Pcs, DeleteDependents, DeleteRow, At
<1>1. n \in Names /\ marks' \in [Names -> SUBSET Marks]
  <2>1. LifeTypeOK /\ n \in Names /\ marks \in [Names -> SUBSET Marks] /\ "held" \in Marks
    BY <1>0, StepFacts DEF LifeTypeOK, Marks
  <2>2. Marked({n}, "held") \in [Names -> SUBSET Marks]
    BY <2>1, MarkedType
  <2> QED BY <1>0, <2>1, <2>2
<1>2. Turns(c, call'[c]) /\ Fits(call'[c])
  BY <1>0, GoesOrEnds
<1>3. RowsHold'
  <2>1. RowsHold
    BY RowsHeld
  <2>2. CASE DeleteDependents(c)
    <3>1. /\ rows' = rows /\ (meta' = [meta EXCEPT ![n] = {}] \/ meta' = meta)
          /\ conflict' \subseteq conflict
          /\ \/ change' = change
             \/ /\ \A k \in conflict' : change[k[1]] # n
                /\ change' = [x \in Changes |-> IF change[x] = n THEN NoRepo ELSE change[x]]
      BY <2>2 DEF DeleteDependents
    <3> HIDE DEF n
    <3>2. meta' \in [Names -> SUBSET Ids] /\ \A k \in Names : k \notin rows' => meta'[k] = {}
      BY <1>1, <2>1, <3>1 DEF RowsHold
    <3>3. /\ change' \in [Changes -> Names \cup {NoRepo}]
          /\ \A x \in Changes : change'[x] # NoRepo => change'[x] \in rows'
          /\ \A x \in Changes : change'[x] = change[x] \/ change[x] = n
      BY <2>1, <3>1 DEF RowsHold
    <3>4. ASSUME NEW k \in conflict' PROVE k[2] \in rows' /\ change'[k[1]] # NoRepo
      <4>1. k[1] \in Changes /\ change[k[1]] # NoRepo /\ k[2] \in rows
        BY <2>1, <3>1 DEF RowsHold
      <4> QED BY <3>1, <4>1
    <3> QED BY <1>0, <2>1, <3>1, <3>2, <3>3, <3>4 DEF RowsHold
  <2>3. CASE DeleteRow(c)
    <3>1. /\ UNCHANGED <<meta, change, conflict>>
          /\ rows' = rows \/ (Bare(n) /\ rows' = rows \ {n})
      BY <2>3 DEF DeleteRow
    <3> HIDE DEF n
    <3> QED BY <1>0, <1>1, <2>1, <3>1 DEF RowsHold, Bare
  <2> QED BY <2>2, <2>3
<1> QED BY <1>0, <1>1, <1>2, <1>3, RowsStep

\* A row that takes another name takes along what is filed under it.
LEMMA Refiled ==
    ASSUME RowsHold, NEW f \in [Names -> Names], Refile(f), \A k \in rows : f[k] \in rows'
    PROVE  /\ change' \in [Changes -> Names \cup {NoRepo}] /\ conflict' \subseteq Changes \X Names
           /\ \A x \in Changes : change'[x] # NoRepo => change'[x] \in rows'
           /\ \A k \in conflict' : k[2] \in rows' /\ change'[k[1]] # NoRepo
           /\ \A x \in Changes : change[x] # NoRepo => change'[x] # NoRepo
<1>0. NoRepo \notin Names
  BY LifeAssumption
<1>1. /\ change \in [Changes -> Names \cup {NoRepo}] /\ conflict \subseteq Changes \X Names
      /\ \A x \in Changes : change[x] # NoRepo => change[x] \in rows
      /\ \A k \in conflict : k[2] \in rows /\ change[k[1]] # NoRepo
  BY DEF RowsHold
<1>2. \A x \in Changes : /\ change[x] = NoRepo => change'[x] = NoRepo
                         /\ change[x] # NoRepo => /\ change[x] \in Names
                                                  /\ change'[x] = f[change[x]]
                                                  /\ f[change[x]] \in Names
  BY <1>1 DEF Refile
<1>3. change' \in [Changes -> Names \cup {NoRepo}]
  BY <1>1 DEF Refile
<1>4. \A k \in conflict' : \E q \in conflict : k[1] = q[1] /\ k[2] = f[q[2]] /\ k = <<q[1], f[q[2]]>>
  BY DEF Refile
<1>5. \A q \in conflict : q[1] \in Changes /\ q[2] \in Names /\ f[q[2]] \in Names
  BY <1>1
<1>6. conflict' \subseteq Changes \X Names
  BY <1>4, <1>5
<1>7. \A k \in conflict' : k[2] \in rows' /\ change'[k[1]] # NoRepo
  BY <1>0, <1>1, <1>2, <1>4, <1>5
<1> QED BY <1>0, <1>1, <1>2, <1>3, <1>6, <1>7

LEMMA UpdateStep == ASSUME LifeInv, NEW c \in Clients, UpdateRow(c) PROVE LifeInv'
<1> DEFINE n == call[c].name
           m == call[c].to
<1>0. /\ call[c] # Idle /\ UNCHANGED <<dir, orgs, initLock, nextId, left, marks>>
      /\ "move" \in Pcs \ {"removed", "record"}
  BY DEF Pcs, UpdateRow, At, RowUnchanged
<1>1. n \in Names /\ m \in Names /\ LifeTypeOK /\ marks' \in [Names -> SUBSET Marks]
  BY <1>0, StepFacts DEF LifeTypeOK
<1>2. Reply(c) \/ Goto(c, "move")
  BY DEF UpdateRow, AfterUpdate
<1>3. Turns(c, call'[c]) /\ Fits(call'[c])
  BY <1>0, <1>2, GoesOrEnds
<1>4. RowsHold'
  <2>1. RowsHold
    BY RowsHeld
  <2>2. CASE UNCHANGED <<rows, meta, change, conflict>>
    BY <1>0, <2>1, <2>2 DEF RowsHold
  <2>3. CASE ~UNCHANGED <<rows, meta, change, conflict>>
    <3>0. PICK f : f = [k \in Names |-> IF k = n THEN m ELSE k]
      OBVIOUS
    <3>1. /\ n \in rows /\ m \notin rows /\ rows' = (rows \ {n}) \cup {m}
          /\ meta' = [meta EXCEPT ![m] = meta[n], ![n] = {}] /\ Refile(f)
      BY <2>3, <3>0 DEF UpdateRow
    <3>2. n[1] = m[1]
      BY <1>0 DEF LifeInv, RowInv
    <3> HIDE DEF n, m
    <3>3. /\ orgs' \subseteq Orgs /\ rows' \subseteq Names /\ meta' \in [Names -> SUBSET Ids]
          /\ \A k \in Names : k \notin rows' => meta'[k] = {}
          /\ \A k \in rows' : k[1] \in orgs'
      BY <1>0, <1>1, <2>1, <3>1, <3>2 DEF RowsHold
    <3>4. f \in [Names -> Names] /\ \A k \in rows : f[k] \in rows'
      BY <1>1, <2>1, <3>0, <3>1 DEF RowsHold
    <3> QED BY <2>1, <3>1, <3>3, <3>4, Refiled DEF RowsHold
  <2> QED BY <2>2, <2>3
<1> QED BY <1>0, <1>1, <1>3, <1>4, RowsStep

LEMMA OrgsStep ==
    ASSUME LifeInv, NEW c \in Clients, CreateOrg(c) \/ DeleteOrg(c) \/ RenameOrg(c)
    PROVE  LifeInv'
<1>0. UNCHANGED <<dir, initLock, call, nextId>> /\ Spend("calls") /\ RowsHold
  BY RowsHeld DEF CreateOrg, DeleteOrg, RenameOrg, OrgUnchanged, OrgCall
<1>1. LeftTypeOK' /\ marks \in [Names -> SUBSET Marks] /\ LifeTypeOK /\ "org" \in Marks
  BY <1>0, SpendType DEF LifeInv, LifeTypeOK, Kinds, Marks
<1>2. CASE CreateOrg(c)
  <2>1. RowsHold' /\ marks' = marks
    BY <1>0, <1>2 DEF CreateOrg, RowsHold
  <2> QED BY <1>0, <1>1, <2>1, OrgStep
<1>3. CASE DeleteOrg(c)
  <2>1. PICK o \in orgs : rows \cap ({o} \X Repos) = {} /\ orgs' = orgs \ {o}
                          /\ UNCHANGED <<rows, meta, change, conflict, marks>>
    BY <1>3 DEF DeleteOrg
  <2>2. \A n \in rows : n[1] # o
    <3> SUFFICES ASSUME NEW n \in rows, n[1] = o PROVE FALSE
      OBVIOUS
    <3>1. n \in {o} \X Repos
      BY <1>0 DEF RowsHold, Names
    <3> QED BY <2>1, <3>1
  <2>3. RowsHold'
    BY <1>0, <2>1, <2>2 DEF RowsHold
  <2> QED BY <1>0, <1>1, <2>1, <2>3, OrgStep
<1>4. CASE RenameOrg(c)
  <2>1. PICK o \in orgs, p \in Orgs \ orgs :
          /\ orgs' = (orgs \ {o}) \cup {p}
          /\ rows' = {n \in Names : IF n[1] = p THEN <<o, n[2]>> \in rows ELSE n[1] # o /\ n \in rows}
          /\ meta' = [n \in Names |->
                       IF n[1] = p THEN meta[<<o, n[2]>>] ELSE IF n[1] = o THEN {} ELSE meta[n]]
          /\ Refile([n \in Names |-> IF n[1] = o THEN <<p, n[2]>> ELSE n])
          /\ marks' = Marked({n \in Names : n[1] \in {o, p}}, "org")
    BY <1>4 DEF RenameOrg
  <2>2. \A n \in Names : <<o, n[2]>> \in Names /\ <<p, n[2]>> \in Names /\ n = <<n[1], n[2]>>
    BY <1>0 DEF RowsHold, Names
  <2>3. RowsHold'
    <3>1. orgs' \subseteq Orgs /\ rows' \subseteq Names
      BY <1>0, <2>1 DEF RowsHold
    <3>2. meta' \in [Names -> SUBSET Ids]
      BY <1>0, <2>1, <2>2 DEF RowsHold
    <3>3. \A n \in Names : n \notin rows' => meta'[n] = {}
      BY <1>0, <2>1, <2>2 DEF RowsHold
    <3>4. \A n \in rows' : n[1] \in orgs'
      BY <1>0, <2>1 DEF RowsHold
    <3>5. PICK f : f = [n \in Names |-> IF n[1] = o THEN <<p, n[2]>> ELSE n]
      OBVIOUS
    <3>6. f \in [Names -> Names] /\ Refile(f)
      BY <2>1, <2>2, <3>5
    <3>7. ASSUME NEW n \in rows PROVE f[n] \in rows'
      <4>1. n \in Names /\ n[1] \in orgs
        BY <1>0 DEF RowsHold
      <4>2. CASE n[1] = o
        <5>1. PICK k : k = <<p, n[2]>>
          OBVIOUS
        <5>2. k[1] = p /\ <<o, k[2]>> = n /\ k \in Names /\ f[n] = k
          BY <2>2, <3>5, <4>1, <4>2, <5>1
        <5> QED BY <2>1, <5>2
      <4>3. CASE n[1] # o
        BY <2>1, <3>5, <4>1, <4>3
      <4> QED BY <4>2, <4>3
    <3> QED BY <1>0, <3>1, <3>2, <3>3, <3>4, <3>6, <3>7, Refiled DEF RowsHold
  <2>4. marks' \in [Names -> SUBSET Marks]
    BY <1>1, <2>1, MarkedType
  <2> QED BY <1>0, <1>1, <2>3, <2>4, OrgStep
<1> QED BY <1>2, <1>3, <1>4

-----------------------------------------------------------------------------
(* The theorems. *)

LEMMA LifeInitHolds == ASSUME LifeInit, LeftTypeOK PROVE LifeInv
<1>1. LifeTypeOK
  BY LifeAssumption DEF LifeInit, LifeTypeOK, Dirs
<1>2. DirInv
  BY DEF LifeInit, DirInv, Fresh, OneHome, RemovedTorn, At, Gone
<1>3. RowInv
  BY DEF LifeInit, RowInv, At
<1> QED BY <1>1, <1>2, <1>3 DEF LifeInv

LEMMA LifeNextHolds == ASSUME LifeInv, LifeNext PROVE LifeInv'
<1>1. PICK c \in Clients : LifeRequest(c) \/ LifeStep(c)
  BY DEF LifeNext
<1>2. CASE LifeRequest(c)
  BY <1>2, RequestStep, OrgsStep DEF LifeRequest
<1>3. CASE LifeStep(c)
  BY <1>3, UpsertStep, RouteStep, InitStep, OpenViewStep, RecordStep, MakeDirsStep, CloneStep,
     PromoteStep, RemoveStep, DeleteStep, UpdateStep, RenameDirStep, QuitStep, FailStep DEF LifeStep
<1> QED BY <1>1, <1>2, <1>3

LEMMA LifeStutter == ASSUME LifeInv, UNCHANGED lifeVars, LeftTypeOK' PROVE LifeInv'
<1>1. LifeTypeOK'
  BY DEF LifeInv, LifeTypeOK, lifeVars
<1>2. DirInv'
  BY DEF LifeInv, DirInv, Fresh, OneHome, RemovedTorn, At, lifeVars
<1>3. RowInv'
  BY DEF LifeInv, RowInv, At, lifeVars
<1> QED BY <1>1, <1>2, <1>3 DEF LifeInv

(* The inductive invariant: identities are fresh and at one path, what a   *)
(* deletion began to remove stays broken, bookmarks, changes and conflicts *)
(* hang on rows, and rows on organizations, whatever overlaps, fails,      *)
(* quits or crashes.                                                       *)
THEOREM LifeInvariance == LifeSpec => []LifeInv
<1>1. LifeInit /\ LeftTypeOK => LifeInv
  BY LifeInitHolds
<1>2. LifeInv /\ [LifeNext \/ (Spend("crashes") /\ LifeCrash)]_<<lifeVars, left>> => LifeInv'
  <2> SUFFICES ASSUME LifeInv, [LifeNext \/ (Spend("crashes") /\ LifeCrash)]_<<lifeVars, left>>
               PROVE  LifeInv'
    OBVIOUS
  <2>0. LeftTypeOK
    BY DEF LifeInv, LifeTypeOK
  <2>1. CASE LifeNext
    BY <2>1, LifeNextHolds
  <2>2. CASE Spend("crashes") /\ LifeCrash
    BY <2>0, <2>2, SpendType, CrashStep DEF Kinds
  <2>3. CASE UNCHANGED <<lifeVars, left>>
    BY <2>0, <2>3, LifeStutter DEF LeftTypeOK
  <2> QED BY <2>1, <2>2, <2>3
<1> QED BY <1>1, <1>2, PTL DEF LifeSpec

-----------------------------------------------------------------------------
(* What no step loses. *)

LEMMA HeldStays ==
    ASSUME \A n \in Names : dir[n].state = "whole" =>
              \E m \in Names : dir'[m].state = "whole" /\ dir'[m].id = dir[n].id
    PROVE  Held(dir) \subseteq Held(dir')
BY DEF Held

\* A step that changes one path that is not a whole repository.
LEMMA HeldBut ==
    ASSUME NEW p, \A q \in Names \ {p} : dir'[q] = dir[q], p \in Names => dir[p].state # "whole"
    PROVE  Held(dir) \subseteq Held(dir')
BY HeldStays

LEMMA DirNames == ASSUME LifeInv PROVE Names \subseteq Paths /\ dir \in [Paths -> Dirs]
BY DEF LifeInv, LifeTypeOK, Paths

LEMMA MoveHeld ==
    ASSUME LifeInv, NEW p \in Paths, NEW n \in Names, MoveDir(p, n)
    PROVE  Held(dir) \subseteq Held(dir')
<1>1. /\ p # n /\ p \in Paths /\ n \in Paths /\ dir \in [Paths -> Dirs] => dir'[n] = dir[p]
      /\ dir \in [Paths -> Dirs] => \A q \in Paths \ {p, n} : dir'[q] = dir[q]
      /\ dir[n].state # "whole"
  BY DEF MoveDir, Gone, Empty
<1>2. SUFFICES ASSUME NEW q \in Names, dir[q].state = "whole"
               PROVE  \E m \in Names : dir'[m].state = "whole" /\ dir'[m].id = dir[q].id
  BY HeldStays
<1>3. CASE q = p
  BY <1>1, <1>2, <1>3, DirNames
<1>4. CASE q # p
  BY <1>1, <1>2, <1>4, DirNames
<1> QED BY <1>3, <1>4

\* A repository goes only by a deletion of its name.
Lost(i) == \E c \in Clients : At(c, "remove") /\ dir[call[c].name].id = i

LEMMA StepKeeps ==
    ASSUME LifeInv, NEW c \in Clients, LifeStep(c)
    PROVE  \A i \in Held(dir) \ Held(dir') : Lost(i)
<1> DEFINE n == call[c].name
           s == Stage(n)
<1>0. dir \in [Paths -> Dirs] /\ Names \subseteq Paths
  BY DirNames
<1>1. call[c] # Idle => n \in Names /\ call[c].to \in Names /\ s \in Paths /\ s \notin Names
  BY StepFacts
<1>2. CASE dir' = dir
  BY <1>2
<1>3. CASE StartInit(c) \/ FinishInit(c)
  <2>1. call[c] # Idle /\ (dir' = dir \/ (dir[n].state # "whole"
            /\ \A q \in Names \ {n} : dir'[q] = dir[q]))
    BY <1>0, <1>1, <1>3 DEF StartInit, FinishInit, Exists, At
  <2> HIDE DEF n, s
  <2> QED BY <2>1, HeldBut
<1>4. CASE MakeDirs(c)
  <2>1. call[c] # Idle /\ dir' = [dir EXCEPT ![n] = IF @ = Gone THEN Empty ELSE @, ![s] = Empty]
    BY <1>4 DEF MakeDirs, At
  <2> HIDE DEF n, s
  <2>2. \A q \in Names : dir[q].state = "whole" => dir'[q] = dir[q]
    BY <1>0, <1>1, <2>1 DEF Gone
  <2> QED BY <2>2, HeldStays
<1>5. CASE StartGit(c) \/ GitFails(c) \/ InitClone(c) \/ CommitClone(c)
  <2>1. call[c] # Idle /\ \A q \in Paths \ {s} : dir'[q] = dir[q]
    BY <1>0, <1>5 DEF StartGit, GitFails, InitClone, CommitClone, At
  <2> HIDE DEF n, s
  <2> QED BY <1>0, <1>1, <2>1, HeldBut
<1>6. CASE Promote(c) \/ RenameDir(c)
  <2>1. call[c] # Idle /\ (dir' = dir \/ MoveDir(s, n) \/ MoveDir(n, call[c].to))
    BY <1>6 DEF Promote, RenameDir, At
  <2> HIDE DEF n, s
  <2> QED BY <1>0, <1>1, <2>1, MoveHeld
<1>7. CASE StartRemove(c)
  <2>1. At(c, "remove") /\ \A q \in Names \ {n} : dir'[q] = dir[q]
    BY <1>0, <1>7 DEF StartRemove
  <2> QED BY <2>1 DEF Lost, Held
<1>8. CASE EndRemove(c)
  <2>1. call[c] # Idle /\ (dir' = dir \/ (dir[n].id = call[c].id /\ At(c, "removed")
            /\ \A q \in Names \ {n} : dir'[q] = dir[q]))
    BY <1>0, <1>8 DEF EndRemove, At
  <2>2. dir[n].id = call[c].id /\ At(c, "removed") => dir[n].state # "whole"
    BY <1>0, <1>1, <2>1 DEF LifeInv, DirInv, RemovedTorn
  <2> HIDE DEF n, s
  <2> QED BY <2>1, <2>2, HeldBut
<1> QED BY <1>2, <1>3, <1>4, <1>5, <1>6, <1>7, <1>8
     DEF LifeStep, UpsertRepo, OpenOrInit, Load, OpenView, Record, DeleteDependents, DeleteRow,
         LookOld, LookNew, UpdateRow, QuitRename, FailCall, RowUnchanged

LEMMA NextKeeps ==
    ASSUME LifeInv, LifeNext \/ LifeCrash
    PROVE  \A i \in Held(dir) \ Held(dir') : Lost(i)
<1>1. CASE LifeCrash
  BY <1>1 DEF LifeCrash
<1>2. CASE LifeNext
  <2>1. PICK c \in Clients : LifeRequest(c) \/ LifeStep(c)
    BY <1>2 DEF LifeNext
  <2>2. LifeRequest(c) => dir' = dir
    BY DEF LifeRequest, CreateRepo, CloneRemote, Fetch, DeleteRepo, RenameRepo, BeginCall,
           CreateOrg, DeleteOrg, RenameOrg, OrgUnchanged
  <2> QED BY <2>1, <2>2, StepKeeps
<1> QED BY <1>1, <1>2

\* Bookmarks, and the row of a change, go only by a deletion.
Unrowed(i) == \E c \in Clients : At(c, "unrow") /\ i \in meta[call[c].name]
Unfiled(x) == \E c \in Clients : At(c, "unrow") /\ change[x] = call[c].name

LEMMA RecordedStays ==
    ASSUME \A n \in Names : \A i \in meta[n] : \E m \in Names : i \in meta'[m]
    PROVE  Recorded(meta) \subseteq Recorded(meta')
BY DEF Recorded

LEMMA RowsKeep ==
    ASSUME LifeInv, LifeNext \/ LifeCrash
    PROVE  \A i \in Recorded(meta) \ Recorded(meta') : Unrowed(i)
<1>0. RowsHold
  BY RowsHeld
<1>1. CASE meta' = meta
  BY <1>1
<1>2. ASSUME NEW c \in Clients, Record(c)
      PROVE  \A i \in Recorded(meta) \ Recorded(meta') : Unrowed(i)
  <2>1. \A n \in Names : meta[n] \subseteq meta'[n]
    BY <1>0, <1>2 DEF Record, RowsHold
  <2> QED BY <2>1, RecordedStays
<1>3. ASSUME NEW c \in Clients, DeleteDependents(c)
      PROVE  \A i \in Recorded(meta) \ Recorded(meta') : Unrowed(i)
  <2>1. At(c, "unrow") /\ \A n \in Names \ {call[c].name} : meta'[n] = meta[n]
    BY <1>0, <1>3 DEF DeleteDependents, RowsHold
  <2> QED BY <2>1 DEF Recorded, Unrowed
<1>4. ASSUME NEW c \in Clients, UpdateRow(c)
      PROVE  \A i \in Recorded(meta) \ Recorded(meta') : Unrowed(i)
  <2> DEFINE n == call[c].name
             m == call[c].to
  <2>1. n \in Names /\ m \in Names
    BY <1>4, StepFacts DEF UpdateRow, At
  <2>2. meta' = meta \/ (n \in rows /\ m \notin rows
                            /\ meta' = [meta EXCEPT ![m] = meta[n], ![n] = {}])
    BY <1>4 DEF UpdateRow
  <2> HIDE DEF n, m
  <2>3. \A q \in Names : \A i \in meta[q] : \E p \in Names : i \in meta'[p]
    BY <1>0, <2>1, <2>2 DEF RowsHold
  <2> QED BY <2>3, RecordedStays
<1>5. ASSUME NEW c \in Clients, RenameOrg(c)
      PROVE  \A i \in Recorded(meta) \ Recorded(meta') : Unrowed(i)
  <2>1. PICK o \in orgs, p \in Orgs \ orgs :
          meta' = [n \in Names |->
                    IF n[1] = p THEN meta[<<o, n[2]>>] ELSE IF n[1] = o THEN {} ELSE meta[n]]
    BY <1>5 DEF RenameOrg
  <2>2. \A n \in Names : n[1] = p => meta[n] = {}
    BY <1>0 DEF RowsHold
  <2>3. ASSUME NEW n \in Names, NEW i \in meta[n] PROVE \E m \in Names : i \in meta'[m]
    <3>1. CASE n[1] = o
      <4>1. <<p, n[2]>> \in Names /\ <<o, n[2]>> = n
        BY <3>1 DEF Names
      <4>2. meta'[<<p, n[2]>>] = meta[n]
        BY <2>1, <4>1
      <4> QED BY <2>3, <4>1, <4>2
    <3>2. CASE n[1] # o
      BY <2>1, <2>2, <2>3, <3>2
    <3> QED BY <3>1, <3>2
  <2> QED BY <2>3, RecordedStays
<1>6. CASE LifeCrash
  BY <1>1, <1>6 DEF LifeCrash
<1>7. CASE LifeNext
  <2>1. PICK c \in Clients : LifeRequest(c) \/ LifeStep(c)
    BY <1>7 DEF LifeNext
  <2>2. CASE LifeRequest(c)
    BY <1>1, <1>5, <2>2 DEF LifeRequest, CreateRepo, CloneRemote, Fetch, DeleteRepo, RenameRepo,
       BeginCall, CreateOrg, DeleteOrg
  <2>3. CASE LifeStep(c)
    BY <1>1, <1>2, <1>3, <1>4, <2>3
       DEF LifeStep, UpsertRepo, OpenOrInit, StartInit, FinishInit, Load, OpenView, MakeDirs,
           StartGit, GitFails, InitClone, CommitClone, Promote, StartRemove, EndRemove, DeleteRow,
           LookOld, LookNew, RenameDir, QuitRename, FailCall, CloneUnchanged
  <2> QED BY <2>1, <2>2, <2>3
<1> QED BY <1>6, <1>7

LEMMA ChangesKeep ==
    ASSUME LifeInv, LifeNext \/ LifeCrash
    PROVE  \A x \in Changes : change[x] # NoRepo /\ change'[x] = NoRepo => Unfiled(x)
<1>0. RowsHold /\ NoRepo \notin Names
  BY RowsHeld, LifeAssumption
<1>1. CASE change' = change
  BY <1>1
<1>2. ASSUME NEW f \in [Names -> Names], Refile(f)
      PROVE  \A x \in Changes : change[x] # NoRepo => change'[x] # NoRepo
  BY <1>0, <1>2 DEF Refile, RowsHold
<1>3. ASSUME NEW c \in Clients, Record(c)
      PROVE  \A x \in Changes : change[x] # NoRepo => change'[x] # NoRepo
  <2>1. CASE change' = change
    BY <2>1
  <2>2. CASE change' # change
    <3>1. PICK h \in Histories :
             change' = [x \in Changes |-> IF x \in {y \in h.changes : change[y] = NoRepo}
                                            THEN call[c].name ELSE change[x]]
      BY <1>3, <2>2 DEF Record
    <3> QED BY <3>1
  <2> QED BY <2>1, <2>2
<1>4. ASSUME NEW c \in Clients, DeleteDependents(c)
      PROVE  \A x \in Changes : change[x] # NoRepo /\ change'[x] = NoRepo => Unfiled(x)
  <2>1. At(c, "unrow") /\ \A x \in Changes : change'[x] = change[x] \/ change[x] = call[c].name
    BY <1>4 DEF DeleteDependents
  <2> QED BY <2>1 DEF Unfiled
<1>5. ASSUME NEW c \in Clients, UpdateRow(c)
      PROVE  \A x \in Changes : change[x] # NoRepo => change'[x] # NoRepo
  <2>1. CASE change' = change
    BY <2>1
  <2>2. CASE change' # change
    <3>1. PICK f : f = [k \in Names |-> IF k = call[c].name THEN call[c].to ELSE k]
      OBVIOUS
    <3>2. Refile(f) /\ call[c].to \in Names
      BY <1>5, <2>2, <3>1, StepFacts DEF UpdateRow, At
    <3> QED BY <1>2, <3>1, <3>2
  <2> QED BY <2>1, <2>2
<1>6. ASSUME NEW c \in Clients, RenameOrg(c)
      PROVE  \A x \in Changes : change[x] # NoRepo => change'[x] # NoRepo
  <2>1. PICK o \in orgs, p \in Orgs \ orgs : Refile([n \in Names |-> IF n[1] = o THEN <<p, n[2]>> ELSE n])
    BY <1>6 DEF RenameOrg
  <2>2. PICK f : f = [n \in Names |-> IF n[1] = o THEN <<p, n[2]>> ELSE n]
    OBVIOUS
  <2>3. f \in [Names -> Names] /\ Refile(f)
    BY <2>1, <2>2 DEF Names
  <2> QED BY <1>2, <2>3
<1>7. CASE LifeCrash
  BY <1>1, <1>7 DEF LifeCrash
<1>8. CASE LifeNext
  <2>1. PICK c \in Clients : LifeRequest(c) \/ LifeStep(c)
    BY <1>8 DEF LifeNext
  <2>2. CASE LifeRequest(c)
    BY <1>1, <1>6, <2>2 DEF LifeRequest, CreateRepo, CloneRemote, Fetch, DeleteRepo, RenameRepo,
       BeginCall, CreateOrg, DeleteOrg
  <2>3. CASE LifeStep(c)
    BY <1>1, <1>3, <1>4, <1>5, <2>3
       DEF LifeStep, UpsertRepo, OpenOrInit, StartInit, FinishInit, Load, OpenView, MakeDirs,
           StartGit, GitFails, InitClone, CommitClone, Promote, StartRemove, EndRemove, DeleteRow,
           LookOld, LookNew, RenameDir, QuitRename, FailCall, CloneUnchanged
  <2> QED BY <2>1, <2>2, <2>3
<1> QED BY <1>7, <1>8

\* All, of one step, as the actions of the properties state them.
LEMMA LifeKeeps ==
    ASSUME LifeInv, LifeNext \/ LifeCrash \/ UNCHANGED lifeVars
    PROVE  /\ [\A i \in Held(dir) \ Held(dir') :
                 \E c \in Clients : At(c, "remove") /\ dir[call[c].name].id = i]_lifeVars
           /\ [/\ \A i \in Recorded(meta) \ Recorded(meta') :
                    \E c \in Clients : At(c, "unrow") /\ i \in meta[call[c].name]
               /\ \A x \in Changes : change[x] # NoRepo /\ change'[x] = NoRepo =>
                    \E c \in Clients : At(c, "unrow") /\ change[x] = call[c].name]_lifeVars
BY NextKeeps, RowsKeep, ChangesKeep DEF Lost, Unrowed, Unfiled

(* A whole repository disappears only by a deletion of the name it has,    *)
(* for any number of clients, names, requests, errors and crashes.         *)
THEOREM RepositoriesKept == LifeSpec => ContentKept
<1>1. LifeInv /\ [LifeNext \/ (Spend("crashes") /\ LifeCrash)]_<<lifeVars, left>> =>
        [\A i \in Held(dir) \ Held(dir') :
            \E c \in Clients : At(c, "remove") /\ dir[call[c].name].id = i]_lifeVars
  BY LifeKeeps
<1> QED BY <1>1, LifeInvariance, PTL DEF LifeSpec, ContentKept

(* The bookmarks of a repository disappear only by a deletion of its row:  *)
(* no rename and no creation replaces the row of another repository.  The  *)
(* row of a change disappears only by a deletion of the repository it is   *)
(* filed under: no other statement takes it from those who share it.       *)
THEOREM MetadataIsKept == LifeSpec => MetadataKept
<1>1. LifeInv /\ [LifeNext \/ (Spend("crashes") /\ LifeCrash)]_<<lifeVars, left>> =>
        [/\ \A i \in Recorded(meta) \ Recorded(meta') :
              \E c \in Clients : At(c, "unrow") /\ i \in meta[call[c].name]
         /\ \A x \in Changes : change[x] # NoRepo /\ change'[x] = NoRepo =>
              \E c \in Clients : At(c, "unrow") /\ change[x] = call[c].name]_lifeVars
  BY LifeKeeps
<1> QED BY <1>1, LifeInvariance, PTL DEF LifeSpec, MetadataKept

-----------------------------------------------------------------------------
(* Where nothing has gone wrong: what a name is then, and how far its      *)
(* request has come.                                                       *)

\* Nothing has gone wrong that the code does not answer for; or nothing that
\* leaves a directory half made.
Clean(n) == marks[n] \subseteq {"scraps"}
Kept(n)  == marks[n] \subseteq {"clone", "fetch", "rename", "held"}

Serves(n)  == Whole(n) /\ n \in rows /\ meta[n] \subseteq {dir[n].id}
Vacant(n)  == ~Exists(n) /\ n \notin rows
Settled(n) == Serves(n) \/ Vacant(n)
Begun(n)   == Whole(n) /\ meta[n] \subseteq {dir[n].id}
Blanked(n) == dir[n] \in {Gone, Empty}
Neat(n)    == Blanked(n) \/ Whole(n)

\* The directory is still, or again, at n; the row is already, or still, at m.
Parted(n, m) ==
    /\ n # m /\ Whole(n) /\ n \notin rows
    /\ ~Exists(m) /\ m \in rows /\ meta[m] \subseteq {dir[n].id}

Creating(r) ==
    /\ r.op = "create"
    /\ \/ r.pc = "row" /\ Vacant(r.name)
       \/ r.pc \in {"open", "init"} /\ ~Exists(r.name) /\ r.name \in rows /\ meta[r.name] = {}
       \/ /\ r.pc = "finish" /\ dir[r.name] = [state |-> "half", id |-> r.id]
          /\ r.name \in rows /\ meta[r.name] = {}
       \/ r.pc = "load" /\ Begun(r.name)

Projecting(r) ==
    /\ r.op \in {"create", "clone", "fetch"} /\ Begun(r.name)
    /\ \/ r.pc = "rows"
       \/ r.pc = "view" /\ r.name \in rows
       \/ r.pc = "record" /\ r.name \in rows /\ r.id = dir[r.name].id

Cloning(r) ==
    /\ r.op = "clone" /\ Vacant(r.name)
    /\ \/ r.pc \in {"mkdir", "git", "import", "commit"}
       \/ r.pc = "promote" /\ Whole(Stage(r.name))

Deleting(r) ==
    /\ r.op = "delete"
    /\ \/ r.pc = "remove" /\ Exists(r.name)
       \/ r.pc = "removed" /\ dir[r.name].id = r.id
       \/ r.pc = "unrow" /\ ~Exists(r.name)
       \/ r.pc = "unrepo" /\ ~Exists(r.name) /\ Bare(r.name)

Renaming(r) ==
    \/ /\ r.op = "rename" /\ r.quit = "no"
       /\ \/ r.pc = "look" /\ Settled(r.name) /\ Settled(r.to)
          \/ r.pc = "clobber" /\ Serves(r.name) /\ Settled(r.to)
          \/ r.pc = "update" /\ Serves(r.name) /\ Vacant(r.to)
          \/ r.pc = "move" /\ Parted(r.name, r.to)
    \/ r.op = "undo" /\ r.pc \in {"look", "clobber", "update"} /\ Parted(r.to, r.name)

\* A request whose names nothing has happened to.
OnTrack(r) ==
    \/ Creating(r) \/ Projecting(r) \/ Cloning(r) \/ Deleting(r) \/ Renaming(r)
    \/ r.op = "fetch" /\ r.pc = "load" /\ Settled(r.name)

\* The same of directories only, after failures that owe no more than that.
InOrder(r) ==
    \/ /\ r.op = "create"
       /\ \/ r.pc \in {"row", "open", "init"} /\ Blanked(r.name)
          \/ r.pc = "finish" /\ dir[r.name] = [state |-> "half", id |-> r.id]
    \/ r.op = "clone" /\ r.pc = "promote" /\ Neat(r.name) /\ Whole(Stage(r.name))
    \/ /\ r.op = "delete"
       /\ \/ r.pc = "remove" /\ Exists(r.name)
          \/ r.pc = "removed" /\ dir[r.name].id = r.id
    \/ /\ r.pc \in {"load", "rows", "view", "record", "unrow", "unrepo", "look", "clobber",
                    "update", "move", "mkdir", "git", "import", "commit"}
       /\ Neat(r.name) /\ Neat(r.to)

ClonePcs == {"mkdir", "git", "import", "commit", "promote"}

\* Both names of a rename have met the same.
Kin(r) ==
    /\ marks[r.name] = marks[r.to] \/ "overlap" \in marks[r.name] \cap marks[r.to]
    /\ r.op \notin {"rename", "undo"} => r.name = r.to
    /\ r.pc \in ClonePcs => r.op = "clone"

Right(r) ==
    /\ Kin(r)
    /\ Clean(r.name) => OnTrack(r)
    /\ Kept(r.name) => InOrder(r)

\* A name where nobody is at work.
Good(n) == (Clean(n) => Settled(n)) /\ (Kept(n) => Neat(n))

Meet(r, q) == Touched(r) \cap Touched(q) # {}

\* Requests that meet have marked their names.
Apart ==
    \A c, d \in Clients :
        c # d /\ call[c] # Idle /\ call[d] # Idle /\ Meet(call[c], call[d]) =>
            "overlap" \in marks[call[c].name] /\ "overlap" \in marks[call[c].to]

\* The inductive invariant of what agrees, together with LifeInv.
CareInv ==
    /\ Apart
    /\ \A c \in Clients : call[c] # Idle => Right(call[c])
    /\ \A n \in Names : ~Busy(n) => Good(n)

-----------------------------------------------------------------------------
(* What a step leaves alone stays as it is. *)

Same(n) ==
    /\ dir'[n] = dir[n] /\ meta'[n] = meta[n] /\ marks'[n] = marks[n]
    /\ n \in rows' <=> n \in rows
    /\ Bare(n) => Bare(n)'

LEMMA BareStays == ASSUME UNCHANGED <<meta, change, conflict>>, NEW k PROVE Bare(k) => Bare(k)'
BY DEF Bare

LEMMA GoodStays ==
    ASSUME NEW n, Same(n), Good(n) PROVE Good(n)'
BY DEF Same, Good, Clean, Kept, Settled, Serves, Vacant, Neat, Blanked, Whole, Exists

\* Nothing has changed at the names of r.
SameFor(r) ==
    /\ Same(r.name) /\ Same(r.to)
    /\ r.op = "clone" => dir'[Stage(r.name)] = dir[Stage(r.name)]

LEMMA TrackStays ==
    ASSUME NEW r, SameFor(r)
    PROVE  (OnTrack(r) => OnTrack(r)') /\ (InOrder(r) => InOrder(r)')
<1> DEFINE n == r.name
           m == r.to
<1>1. /\ Whole(n)' = Whole(n) /\ Exists(n)' = Exists(n) /\ dir'[n] = dir[n]
      /\ Whole(m)' = Whole(m) /\ Exists(m)' = Exists(m) /\ dir'[m] = dir[m]
      /\ r.op = "clone" => Whole(Stage(n))' = Whole(Stage(n))
      /\ meta'[n] = meta[n] /\ meta'[m] = meta[m] /\ (Bare(n) => Bare(n)')
      /\ (n \in rows' <=> n \in rows) /\ (m \in rows' <=> m \in rows)
  BY DEF SameFor, Same, Whole, Exists
<1>2. OnTrack(r) => OnTrack(r)'
  <2>1. Creating(r) => Creating(r)'
    BY <1>1 DEF Creating, Vacant, Begun
  <2>2. Projecting(r) => Projecting(r)'
    BY <1>1 DEF Projecting, Begun
  <2>3. Cloning(r) => Cloning(r)'
    BY <1>1 DEF Cloning, Vacant
  <2>4. Deleting(r) => Deleting(r)'
    BY <1>1 DEF Deleting
  <2>5. Renaming(r) => Renaming(r)'
    BY <1>1 DEF Renaming, Settled, Serves, Vacant, Parted
  <2>6. Settled(n) => Settled(n)'
    BY <1>1 DEF Settled, Serves, Vacant
  <2> QED BY <2>1, <2>2, <2>3, <2>4, <2>5, <2>6 DEF OnTrack
<1>3. InOrder(r) => InOrder(r)'
  BY <1>1 DEF InOrder, Neat, Blanked
<1> QED BY <1>2, <1>3

LEMMA RightStays ==
    ASSUME NEW r, Right(r), SameFor(r) PROVE Right(r)'
<1>1. Kin(r)' /\ (Clean(r.name)' => Clean(r.name)) /\ (Kept(r.name)' => Kept(r.name))
  BY DEF SameFor, Same, Right, Kin, Clean, Kept
<1> QED BY <1>1, TrackStays DEF Right

LEMMA TouchesNames ==
    ASSUME LifeTypeOK, NEW c \in Clients, call[c] # Idle
    PROVE  /\ call[c].name \in Touched(call[c]) /\ call[c].to \in Touched(call[c])
           /\ call[c].op = "clone" => Stage(call[c].name) \in Touched(call[c])
           /\ Touched(call[c]) \subseteq Paths
           /\ \A n \in Names : n \in Touched(call[c]) => n \in {call[c].name, call[c].to}
BY CallType, StageIsApart DEF Touched, Paths

\* The step of request c keeps to its own names.
Keeps(c, n, m) ==
    /\ call[c] # Idle /\ call[c].name = n /\ call[c].to = m
    /\ \A d \in Clients \ {c} : call'[d] = call[d]
    /\ \A p \in Paths \ Touched(call[c]) : dir'[p] = dir[p]
    /\ \A k \in Names \ {n, m} : Same(k) \/ dir'[k] # dir[k]
    /\ \A k \in Names : marks[k] \subseteq marks'[k]

\* It ends, or goes on with the same names.
Comes(c, n, m) ==
    \/ call'[c] = Idle /\ Good(n)' /\ Good(m)'
    \/ /\ call'[c] # Idle /\ Right(call[c])'
       /\ {call'[c].name, call'[c].to} = {n, m} /\ Touched(call'[c]) \subseteq Touched(call[c])

\* A step of one request preserves the invariant when it leaves its own names so.
LEMMA Proceeds ==
    ASSUME LifeInv, CareInv, NEW c \in Clients, NEW n \in Names, NEW m \in Names,
           Keeps(c, n, m), Comes(c, n, m)
    PROVE  CareInv'
<1>0. LifeTypeOK
  BY DEF LifeInv
<1>1. ASSUME NEW d \in Clients \ {c}, call[d] # Idle
      PROVE  /\ call'[d] = call[d]
             /\ Meet(call[c], call[d]) => "overlap" \in marks'[call[d].name] /\ "overlap" \in marks'[call[d].to]
                                          /\ "overlap" \in marks'[n] /\ "overlap" \in marks'[m]
  <2>1. call[d].name \in Names /\ call[d].to \in Names /\ call[c].name = n /\ call[c].to = m
    BY <1>0, <1>1, CallType DEF Keeps
  <2>2. Meet(call[c], call[d]) => Meet(call[d], call[c])
    BY DEF Meet
  <2> QED BY <1>1, <2>1, <2>2 DEF CareInv, Apart, Keeps
<1>2. Apart'
  <2> SUFFICES ASSUME NEW d \in Clients, NEW e \in Clients, d # e, call'[d] # Idle, call'[e] # Idle,
                      Meet(call'[d], call'[e])
               PROVE  "overlap" \in marks'[call'[d].name] /\ "overlap" \in marks'[call'[d].to]
    BY DEF Apart, Meet
  <2>1. CASE d = c
    <3>1. call'[e] = call[e] /\ call[e] # Idle /\ e \in Clients \ {c}
      BY <2>1 DEF Keeps
    <3>2. Meet(call[c], call[e]) /\ {call'[c].name, call'[c].to} = {n, m}
      BY <2>1, <3>1 DEF Comes, Meet
    <3> QED BY <1>1, <2>1, <3>1, <3>2
  <2>2. CASE e = c
    <3>1. call'[d] = call[d] /\ call[d] # Idle /\ d \in Clients \ {c}
      BY <2>2 DEF Keeps
    <3>2. Meet(call[c], call[d])
      BY <2>2, <3>1 DEF Comes, Meet
    <3> QED BY <1>1, <2>2, <3>1, <3>2
  <2>3. CASE d # c /\ e # c
    <3>1. call'[d] = call[d] /\ call'[e] = call[e]
      BY <2>3 DEF Keeps
    <3>2. call[d].name \in Names /\ call[d].to \in Names
      BY <1>0, <3>1, CallType
    <3>3. "overlap" \in marks[call[d].name] /\ "overlap" \in marks[call[d].to]
      BY <3>1 DEF CareInv, Apart
    <3> QED BY <3>1, <3>2, <3>3 DEF Keeps
  <2> QED BY <2>1, <2>2, <2>3
<1>3. ASSUME NEW d \in Clients, call'[d] # Idle
      PROVE  Right(call[d])'
  <2>1. CASE d = c
    BY <1>3, <2>1 DEF Comes
  <2>2. CASE d # c
    <3>1. PICK r : r = call[d]
      OBVIOUS
    <3>2. call'[d] = r /\ r # Idle /\ Right(r) /\ r.name \in Names /\ r.to \in Names
      BY <1>0, <1>3, <2>2, <3>1, CallType DEF Keeps, CareInv
    <3>3. CASE Meet(call[c], r)
      <4>1. "overlap" \in marks'[r.name] /\ "overlap" \in marks'[r.to]
        BY <1>1, <2>2, <3>1, <3>2, <3>3
      <4>2. Right(r)'
        BY <3>2, <4>1 DEF Right, Kin, Clean, Kept
      <4> QED BY <3>2, <4>2
    <3>4. CASE ~Meet(call[c], r)
      <4>1. /\ r.name \notin Touched(call[c]) /\ r.to \notin Touched(call[c])
            /\ r.op = "clone" => Stage(r.name) \in Paths \ Touched(call[c])
        BY <1>0, <3>1, <3>2, <3>4, TouchesNames DEF Meet
      <4>2. n \in Touched(call[c]) /\ m \in Touched(call[c])
        BY <1>0, TouchesNames DEF Keeps
      <4>3. SameFor(r)
        BY <3>2, <4>1, <4>2 DEF Keeps, Paths, SameFor
      <4>4. Right(r)'
        BY <3>2, <4>3, RightStays
      <4> QED BY <3>2, <4>4
    <3> QED BY <3>3, <3>4
  <2> QED BY <2>1, <2>2
<1>4. ASSUME NEW k \in Names, ~Busy(k)'
      PROVE  Good(k)'
  <2>1. \A d \in Clients : call'[d] # Idle => k \notin Touched(call'[d])
    BY <1>4 DEF Busy
  <2>2. CASE k \in {n, m}
    <3>1. call'[c] = Idle
      BY <2>1, <2>2 DEF Comes, Touched
    <3> QED BY <2>2, <3>1 DEF Comes
  <2>3. CASE k \notin {n, m}
    <3>1. k \in Paths \ Touched(call[c])
      BY <1>0, <2>3, TouchesNames DEF Keeps, Paths
    <3>2. Same(k)
      BY <2>3, <3>1 DEF Keeps
    <3>3. ~Busy(k)
      BY <2>1, <3>1 DEF Busy, Keeps
    <3> QED BY <3>2, <3>3, GoodStays DEF CareInv
  <2> QED BY <2>2, <2>3
<1> QED BY <1>2, <1>3, <1>4 DEF CareInv

-----------------------------------------------------------------------------
(* Requests begin. *)

Quiet(c, r) == \A d \in Clients \ {c} : call[d] # Idle => ~Meet(call[d], r)

\* A name of the new request, or of one that it meets.
Met(c, r, n) ==
    \/ n \in Touched(r)
    \/ \E d \in Clients \ {c} : call[d] # Idle /\ Meet(call[d], r) /\ n \in Touched(call[d])

LEMMA ObservedMeets ==
    ASSUME LifeTypeOK, NEW c \in Clients, NEW r, ~Quiet(c, r), marks' = Observed(c, r)
    PROVE  \A n \in Names :
              /\ Met(c, r, n) => "overlap" \in marks'[n] /\ marks[n] \subseteq marks'[n]
              /\ ~Met(c, r, n) => marks'[n] = marks[n]
<1> DEFINE met == {d \in Clients \ {c} : call[d] # Idle /\ Touched(call[d]) \cap Touched(r) # {}}
           S == Touched(r) \cup UNION {Touched(call[d]) : d \in met}
<1>1. met # {}
  BY DEF Quiet, Meet
<1>2. marks' = Marked(S, "overlap")
  BY <1>1 DEF Observed
<1>3. \A n \in Names : n \in S <=> Met(c, r, n)
  BY DEF Met, Meet
<1> HIDE DEF S
<1> QED BY <1>2, <1>3 DEF Marked

LEMMA ObservedQuiet ==
    ASSUME LifeTypeOK, NEW c \in Clients, NEW r \in Calls, Quiet(c, r), marks' = Observed(c, r)
    PROVE  /\ \A n \in Names : n \notin Touched(r) => marks'[n] = marks[n]
           /\ r.op = "delete" => marks'[r.name] = IF dir[r.name].state = "scraps" THEN {"scraps"} ELSE {}
           /\ r.op = "rename" => /\ marks'[r.name] = marks[r.name] \cup marks[r.to]
                                 /\ marks'[r.to] = marks[r.name] \cup marks[r.to]
           /\ r.op \notin {"delete", "rename"} => marks' = marks
<1>1. {d \in Clients \ {c} : call[d] # Idle /\ Touched(call[d]) \cap Touched(r) # {}} = {}
  BY DEF Quiet, Meet
<1>2. /\ r.name \in Names /\ r.to \in Names /\ marks \in [Names -> SUBSET Marks]
      /\ r.name \in Touched(r) /\ r.to \in Touched(r)
  BY DEF LifeTypeOK, Calls, Touched
<1>3. CASE r.op = "delete"
  <2>1. marks' = [marks EXCEPT ![r.name] = IF dir[r.name].state = "scraps" THEN {"scraps"} ELSE {}]
    BY <1>1, <1>3 DEF Observed
  <2> QED BY <1>2, <1>3, <2>1
<1>4. CASE r.op = "rename"
  <2>1. marks' = [n \in Names |->
                    IF n \in Touched(r) THEN marks[r.name] \cup marks[r.to] ELSE marks[n]]
    BY <1>1, <1>4 DEF Observed
  <2> QED BY <1>2, <1>4, <2>1
<1>5. CASE r.op \notin {"delete", "rename"}
  BY <1>1, <1>5 DEF Observed
<1> QED BY <1>3, <1>4, <1>5

\* A request that begins, with the names it may have.
Starts(c, r) ==
    /\ r \in Calls /\ BeginCall(c, r)
    /\ r.op \notin {"rename", "undo"} => r.name = r.to
    /\ r.pc \in ClonePcs => r.op = "clone"

LEMMA BeginsTurn ==
    ASSUME LifeInv, NEW c \in Clients, NEW r, Starts(c, r)
    PROVE  /\ LifeTypeOK /\ call[c] = Idle /\ call'[c] = r /\ r # Idle
           /\ \A d \in Clients \ {c} : call'[d] = call[d]
           /\ UNCHANGED <<dir, rows, meta, change, conflict>> /\ marks' = Observed(c, r)
           /\ r.name \in Names /\ r.to \in Names /\ r.name \in Touched(r) /\ r.to \in Touched(r)
           /\ \A n \in Names : n \in Touched(r) => n \in {r.name, r.to}
BY IdleAssumption, StageIsApart DEF Starts, LifeInv, LifeTypeOK, BeginCall, Calls, Touched

\* A request that begins meets another, and all their names are marked; or it
\* meets nobody, and finds its own in order.
LEMMA BeginsMet ==
    ASSUME LifeInv, CareInv, NEW c \in Clients, NEW r, Starts(c, r), ~Quiet(c, r)
    PROVE  CareInv'
<1>0. /\ LifeTypeOK /\ call[c] = Idle /\ call'[c] = r /\ r # Idle
      /\ \A d \in Clients \ {c} : call'[d] = call[d]
      /\ UNCHANGED <<dir, rows, meta, change, conflict>>
      /\ r.name \in Names /\ r.to \in Names /\ r.name \in Touched(r) /\ r.to \in Touched(r)
  BY BeginsTurn
<1>1. \A n \in Names :
              /\ Met(c, r, n) => "overlap" \in marks'[n] /\ marks[n] \subseteq marks'[n]
              /\ ~Met(c, r, n) => marks'[n] = marks[n]
  BY BeginsTurn, ObservedMeets
<1>r. "overlap" \in marks'[r.name] /\ "overlap" \in marks'[r.to]
  BY <1>0, <1>1 DEF Met
<1>2. ASSUME NEW d \in Clients \ {c}, call[d] # Idle
      PROVE  /\ call[d].name \in Names /\ call[d].to \in Names
             /\ call[d].name \in Touched(call[d]) /\ call[d].to \in Touched(call[d])
             /\ Meet(call[d], r) => "overlap" \in marks'[call[d].name] /\ "overlap" \in marks'[call[d].to]
             /\ \/ marks'[call[d].name] = marks[call[d].name] /\ marks'[call[d].to] = marks[call[d].to]
                \/ "overlap" \in marks'[call[d].name] /\ "overlap" \in marks'[call[d].to]
             /\ marks[call[d].name] \subseteq marks'[call[d].name]
             /\ marks[call[d].to] \subseteq marks'[call[d].to]
  <2>1. /\ call[d].name \in Names /\ call[d].to \in Names
        /\ call[d].name \in Touched(call[d]) /\ call[d].to \in Touched(call[d])
    BY <1>0, <1>2, CallType, TouchesNames
  <2>2. Meet(call[d], r) => Met(c, r, call[d].name) /\ Met(c, r, call[d].to)
    BY <1>2, <2>1 DEF Met
  <2>3. CASE \E e \in Clients \ {d} : call[e] # Idle /\ Meet(call[d], call[e])
    <3>1. "overlap" \in marks[call[d].name] /\ "overlap" \in marks[call[d].to]
      BY <1>2, <2>3 DEF CareInv, Apart
    <3> QED BY <1>1, <2>1, <3>1, <2>2
  <2>4. CASE ~\E e \in Clients \ {d} : call[e] # Idle /\ Meet(call[d], call[e])
    <3>1. ~Meet(call[d], r) => ~Met(c, r, call[d].name) /\ ~Met(c, r, call[d].to)
      BY <2>1, <2>4 DEF Met, Meet
    <3> QED BY <1>1, <2>1, <2>2, <3>1
  <2> QED BY <2>3, <2>4
<1>3. Apart'
  <2> SUFFICES ASSUME NEW d \in Clients, NEW e \in Clients, d # e, call'[d] # Idle, call'[e] # Idle,
                      Meet(call'[d], call'[e])
               PROVE  "overlap" \in marks'[call'[d].name] /\ "overlap" \in marks'[call'[d].to]
    BY DEF Apart, Meet
  <2>1. CASE d = c
    BY <1>0, <1>r, <2>1
  <2>2. CASE d # c /\ e = c
    BY <1>0, <1>2, <2>2
  <2>3. CASE d # c /\ e # c
    <3>1. "overlap" \in marks[call[d].name] /\ "overlap" \in marks[call[d].to]
      BY <1>0, <2>3 DEF CareInv, Apart
    <3> QED BY <1>0, <1>2, <2>3, <3>1
  <2> QED BY <2>1, <2>2, <2>3
<1>4. ASSUME NEW d \in Clients, call'[d] # Idle PROVE Right(call[d])'
  <2>1. CASE d = c
    <3>1. Right(r)'
      BY <1>r DEF Starts, Right, Kin, Clean, Kept
    <3> QED BY <1>0, <2>1, <3>1
  <2>2. CASE d # c
    <3>1. PICK q : q = call[d]
      OBVIOUS
    <3>2. call'[d] = q /\ q # Idle /\ Right(q)
      BY <1>0, <1>4, <2>2, <3>1 DEF CareInv
    <3>3. CASE "overlap" \in marks'[q.name] /\ "overlap" \in marks'[q.to]
      <4>1. Right(q)'
        BY <3>2, <3>3 DEF Right, Kin, Clean, Kept
      <4> QED BY <3>2, <4>1
    <3>4. CASE marks'[q.name] = marks[q.name] /\ marks'[q.to] = marks[q.to]
      <4>1. Right(q)'
        BY <1>0, <3>2, <3>4, RightStays, BareStays DEF Same, SameFor
      <4> QED BY <3>2, <4>1
    <3> QED BY <1>2, <2>2, <3>1, <3>2, <3>3, <3>4
  <2> QED BY <2>1, <2>2
<1>5. ASSUME NEW n \in Names, ~Busy(n)' PROVE Good(n)'
  <2>1. ~Busy(n)
    BY <1>0, <1>5 DEF Busy
  <2>2. ~Met(c, r, n)
    BY <1>0, <1>5 DEF Busy, Met
  <2> QED BY <1>0, <1>1, <2>1, <2>2, GoodStays, BareStays DEF CareInv, Same
<1> QED BY <1>3, <1>4, <1>5 DEF CareInv

LEMMA BeginsQuiet ==
    ASSUME LifeInv, CareInv, NEW c \in Clients, NEW r, Starts(c, r), Quiet(c, r),
           Good(r.name) /\ Good(r.to) => Right(r)'
    PROVE  CareInv'
<1>0. /\ LifeTypeOK /\ call[c] = Idle /\ call'[c] = r /\ r # Idle /\ r \in Calls
      /\ \A d \in Clients \ {c} : call'[d] = call[d]
      /\ UNCHANGED <<dir, rows, meta, change, conflict>>
      /\ r.name \in Names /\ r.to \in Names /\ r.name \in Touched(r) /\ r.to \in Touched(r)
  BY BeginsTurn DEF Starts
<1>1. \A n \in Names : n \notin Touched(r) => marks'[n] = marks[n]
  BY <1>0, BeginsTurn, ObservedQuiet
<1>2. ASSUME NEW d \in Clients \ {c}, call[d] # Idle
      PROVE  /\ Touched(call[d]) \cap Touched(r) = {}
             /\ call[d].name \in Names /\ call[d].to \in Names
             /\ call[d].name \in Touched(call[d]) /\ call[d].to \in Touched(call[d])
             /\ marks'[call[d].name] = marks[call[d].name] /\ marks'[call[d].to] = marks[call[d].to]
  <2>1. Touched(call[d]) \cap Touched(r) = {}
    BY <1>2 DEF Quiet, Meet
  <2>2. /\ call[d].name \in Names /\ call[d].to \in Names
        /\ call[d].name \in Touched(call[d]) /\ call[d].to \in Touched(call[d])
    BY <1>0, <1>2, CallType, TouchesNames
  <2> QED BY <1>1, <2>1, <2>2
<1>3. Apart'
  <2> SUFFICES ASSUME NEW d \in Clients, NEW e \in Clients, d # e, call'[d] # Idle, call'[e] # Idle,
                      Meet(call'[d], call'[e])
               PROVE  "overlap" \in marks'[call'[d].name] /\ "overlap" \in marks'[call'[d].to]
    BY DEF Apart, Meet
  <2>1. d # c /\ e # c /\ call'[d] = call[d] /\ call'[e] = call[e]
    BY <1>0, <1>2 DEF Meet
  <2>2. "overlap" \in marks[call[d].name] /\ "overlap" \in marks[call[d].to]
    BY <2>1 DEF CareInv, Apart
  <2> QED BY <1>2, <2>1, <2>2
<1>4. ASSUME NEW d \in Clients, call'[d] # Idle PROVE Right(call[d])'
  <2>1. CASE d = c
    <3>1. ~Busy(r.name) /\ ~Busy(r.to)
      BY <1>0, <1>2 DEF Busy
    <3>2. Right(r)'
      BY <1>0, <3>1 DEF CareInv
    <3> QED BY <1>0, <2>1, <3>2
  <2>2. CASE d # c
    <3>1. PICK q : q = call[d]
      OBVIOUS
    <3>2. call'[d] = q /\ q # Idle /\ Right(q)
      BY <1>0, <1>4, <2>2, <3>1 DEF CareInv
    <3>3. Right(q)'
      BY <1>0, <1>2, <2>2, <3>1, <3>2, RightStays, BareStays DEF Same, SameFor
    <3> QED BY <3>2, <3>3
  <2> QED BY <2>1, <2>2
<1>5. ASSUME NEW n \in Names, ~Busy(n)' PROVE Good(n)'
  <2>1. ~Busy(n) /\ n \notin Touched(r)
    BY <1>0, <1>5 DEF Busy
  <2> QED BY <1>0, <1>1, <2>1, GoodStays, BareStays DEF CareInv, Same
<1> QED BY <1>3, <1>4, <1>5 DEF CareInv

LEMMA BlankStarts ==
    ASSUME NEW c \in Clients, NEW op \in Ops, NEW pc \in Pcs, NEW n \in Names, NEW m \in Names,
           BeginCall(c, Blank(op, pc, n, m)), op \notin {"rename", "undo"} => n = m,
           pc \in ClonePcs => op = "clone"
    PROVE  \E r : /\ Starts(c, r) /\ r.op = op /\ r.pc = pc /\ r.name = n /\ r.to = m
                  /\ r.quit = "no"
<1> DEFINE r == Blank(op, pc, n, m)
<1>1. r \in Calls
  BY BlankType
<1>2. r.op = op /\ r.pc = pc /\ r.name = n /\ r.to = m /\ r.quit = "no"
  BY DEF Blank
<1>3. BeginCall(c, r)
  OBVIOUS
<1> HIDE DEF r
<1> QED BY <1>1, <1>2, <1>3 DEF Starts

LEMMA RequestCare ==
    ASSUME LifeInv, CareInv, NEW c \in Clients,
           CreateRepo(c) \/ CloneRemote(c) \/ Fetch(c) \/ DeleteRepo(c) \/ RenameRepo(c)
    PROVE  CareInv'
<1> SUFFICES ASSUME NEW r, Starts(c, r), Quiet(c, r), Good(r.name), Good(r.to),
                    UNCHANGED <<dir, rows, meta, change, conflict>>, LifeTypeOK, r.name \in Names, r.to \in Names,
                    r.quit = "no",
                    \/ r.op = "create" /\ r.pc = "row" /\ ~Exists(r.name) /\ marks' = marks
                    \/ r.op = "clone" /\ r.pc = "mkdir" /\ dir[r.name] = Gone /\ marks' = marks
                    \/ r.op = "fetch" /\ r.pc = "load" /\ marks' = marks
                    \/ /\ r.op = "delete" /\ r.pc = IF Exists(r.name) THEN "remove" ELSE "unrow"
                       /\ marks'[r.name] = IF dir[r.name].state = "scraps" THEN {"scraps"} ELSE {}
                    \/ /\ r.op = "rename" /\ r.pc = "look"
                       /\ marks'[r.name] = marks[r.name] \cup marks[r.to]
                       /\ marks'[r.to] = marks[r.name] \cup marks[r.to]
             PROVE  Right(r)'
  <2>0. {"create", "clone", "fetch", "delete", "rename"} \subseteq Ops
        /\ {"row", "mkdir", "load", "remove", "unrow", "look"} \subseteq Pcs
    BY DEF Ops, Pcs
  <2>1. PICK r : /\ Starts(c, r) /\ r.quit = "no"
                 /\ \/ r.op = "create" /\ r.pc = "row" /\ ~Exists(r.name)
                    \/ r.op = "clone" /\ r.pc = "mkdir" /\ dir[r.name] = Gone
                    \/ r.op = "fetch" /\ r.pc = "load"
                    \/ r.op = "delete" /\ r.pc = IF Exists(r.name) THEN "remove" ELSE "unrow"
                    \/ r.op = "rename" /\ r.pc = "look"
    <3>1. CASE CreateRepo(c)
      <4>1. PICK n \in Names : ~Exists(n) /\ BeginCall(c, Blank("create", "row", n, n))
        BY <3>1 DEF CreateRepo
      <4> QED BY <2>0, <4>1, BlankStarts DEF ClonePcs
    <3>2. CASE CloneRemote(c)
      <4>1. PICK n \in Names : dir[n] = Gone /\ BeginCall(c, Blank("clone", "mkdir", n, n))
        BY <3>2 DEF CloneRemote
      <4> QED BY <2>0, <4>1, BlankStarts
    <3>3. CASE Fetch(c)
      <4>1. PICK n \in Names : BeginCall(c, Blank("fetch", "load", n, n))
        BY <3>3 DEF Fetch
      <4> QED BY <2>0, <4>1, BlankStarts DEF ClonePcs
    <3>4. CASE DeleteRepo(c)
      <4>1. PICK n \in Names : BeginCall(c, Blank("delete", IF Exists(n) THEN "remove" ELSE "unrow", n, n))
        BY <3>4 DEF DeleteRepo
      <4>2. CASE Exists(n)
        BY <2>0, <4>1, <4>2, BlankStarts DEF ClonePcs
      <4>3. CASE ~Exists(n)
        BY <2>0, <4>1, <4>3, BlankStarts DEF ClonePcs
      <4> QED BY <4>2, <4>3
    <3>5. CASE RenameRepo(c)
      <4>1. PICK n, m \in Names : n[1] = m[1] /\ BeginCall(c, Blank("rename", "look", n, m))
        BY <3>5 DEF RenameRepo
      <4> QED BY <2>0, <4>1, BlankStarts DEF ClonePcs
    <3> QED BY <3>1, <3>2, <3>3, <3>4, <3>5
  <2>2. /\ LifeTypeOK /\ UNCHANGED <<dir, rows, meta, change, conflict>> /\ r \in Calls /\ marks' = Observed(c, r)
        /\ r.name \in Names /\ r.to \in Names
    BY <2>1, BeginsTurn DEF Starts
  <2>3. ASSUME Quiet(c, r), Good(r.name), Good(r.to) PROVE Right(r)'
    BY <2>1, <2>2, <2>3, ObservedQuiet
  <2> QED BY <2>1, <2>3, BeginsMet, BeginsQuiet
<1>1. dir[r.name] \in Dirs
  BY DirType DEF Paths
<1>2. /\ Exists(r.name)' = Exists(r.name) /\ Exists(r.to)' = Exists(r.to)
      /\ Whole(r.name)' = Whole(r.name) /\ Whole(r.to)' = Whole(r.to)
      /\ dir' = dir /\ rows' = rows /\ meta' = meta
  BY DEF Exists, Whole
<1>3. Kin(r)'
  BY DEF Starts, Kin
<1>4. CASE r.op \in {"create", "clone", "fetch"}
  <2>1. ASSUME Clean(r.name)' PROVE OnTrack(r)'
    <3>1. Settled(r.name)
      BY <1>4, <2>1 DEF Good, Clean
    <3> QED BY <1>2, <1>4, <3>1
            DEF OnTrack, Creating, Cloning, Settled, Serves, Vacant, Exists, Whole, Gone
  <2>2. ASSUME Kept(r.name)' PROVE InOrder(r)'
    <3>1. Neat(r.name) /\ Neat(r.to)
      BY <1>3, <1>4, <2>2 DEF Good, Kept, Kin
    <3> QED BY <1>2, <1>4, <3>1 DEF InOrder, Neat, Blanked, Exists, Whole
  <2> QED BY <1>3, <2>1, <2>2 DEF Right
<1>5. CASE r.op = "delete"
  <2>1. OnTrack(r)'
    BY <1>2, <1>5 DEF OnTrack, Deleting
  <2>2. ASSUME Kept(r.name)' PROVE InOrder(r)'
    <3>1. ~Exists(r.name) => Neat(r.name)
      BY <1>1, <1>5, <2>2 DEF Kept, Exists, Neat, Blanked, Dirs
    <3> QED BY <1>2, <1>3, <1>5, <3>1 DEF InOrder, Neat, Blanked, Kin
  <2> QED BY <1>3, <2>1, <2>2 DEF Right
<1>6. CASE r.op = "rename"
  <2>1. ASSUME Clean(r.name)' PROVE OnTrack(r)'
    <3>1. Settled(r.name) /\ Settled(r.to)
      BY <1>6, <2>1 DEF Good, Clean
    <3> QED BY <1>2, <1>6, <3>1 DEF OnTrack, Renaming, Settled, Serves, Vacant
  <2>2. ASSUME Kept(r.name)' PROVE InOrder(r)'
    <3>1. Neat(r.name) /\ Neat(r.to)
      BY <1>6, <2>2 DEF Good, Kept
    <3> QED BY <1>2, <1>6, <3>1 DEF InOrder, Neat, Blanked
  <2> QED BY <1>3, <2>1, <2>2 DEF Right
<1> QED BY <1>4, <1>5, <1>6

-----------------------------------------------------------------------------
(* Requests proceed. *)

\* What becomes of a request: r is q now, under the same names.
Follows(r, q) ==
    /\ q # Idle /\ {q.name, q.to} = {r.name, r.to}
    /\ \/ q.op = r.op /\ (q.pc \in ClonePcs => r.pc \in ClonePcs)
       \/ q.op = "undo" /\ q.pc \notin ClonePcs
       \/ q.op = "fetch" /\ r.op = "clone" /\ q.pc \notin ClonePcs

LEMMA FollowsTouched ==
    ASSUME NEW r, NEW q, Follows(r, q), Kin(r)
    PROVE  Touched(q) \subseteq Touched(r)
BY DEF Follows, Kin, Touched

\* A step of one request, which marks nothing.
LEMMA LifeOnward ==
    ASSUME LifeInv, CareInv, NEW c \in Clients, NEW r, NEW q, call[c] = r, r # Idle, Turns(c, q),
           \A p \in Paths \ Touched(r) : dir'[p] = dir[p],
           \A k \in Names \ {r.name, r.to} : meta'[k] = meta[k] /\ (k \in rows' <=> k \in rows),
           \A k \in Names \ {r.name, r.to} : Bare(k) => Bare(k)',
           marks' = marks,
           q = Idle \/ Follows(r, q),
           Clean(r.name) /\ OnTrack(r) =>
               IF q = Idle THEN Settled(r.name)' /\ Settled(r.to)' ELSE OnTrack(q)',
           Kept(r.name) /\ InOrder(r) =>
               IF q = Idle THEN Neat(r.name)' /\ Neat(r.to)' ELSE InOrder(q)'
    PROVE  CareInv'
<1>0. LifeTypeOK /\ r.name \in Names /\ r.to \in Names
  BY CallType DEF LifeInv
<1>1. Right(r) /\ Kin(r)
  BY DEF CareInv, Right
<1>2. Clean(r.name)' = Clean(r.name) /\ Clean(r.to)' = Clean(r.to) /\ Kept(r.name)' = Kept(r.name)
      /\ Kept(r.to)' = Kept(r.to)
  BY DEF Clean, Kept
<1>3. (Clean(r.to) => Clean(r.name)) /\ (Kept(r.to) => Kept(r.name))
      /\ (Clean(r.name) => Clean(r.to)) /\ (Kept(r.name) => Kept(r.to))
  BY <1>1 DEF Kin, Clean, Kept
<1>4. \A k \in Names \ {r.name, r.to} : Same(k) \/ dir'[k] # dir[k]
  BY DEF Same
<1>5. Keeps(c, r.name, r.to)
  BY <1>0, <1>4 DEF Keeps, Turns
<1>6. CASE q = Idle
  <2>1. Good(r.name)' /\ Good(r.to)'
    BY <1>1, <1>2, <1>3, <1>6 DEF Good, Right
  <2> QED BY <1>0, <1>5, <1>6, <2>1, Proceeds DEF Comes, Turns
<1>7. CASE q # Idle
  <2>1. Follows(r, q) /\ q.name \in {r.name, r.to} /\ q.to \in {r.name, r.to}
    BY <1>7 DEF Follows
  <2>2. Kin(q)'
    BY <1>1, <2>1 DEF Kin, Follows
  <2>3. (Clean(q.name)' => Clean(r.name)) /\ (Kept(q.name)' => Kept(r.name))
    BY <1>2, <1>3, <2>1
  <2>4. Right(q)'
    BY <1>1, <1>7, <2>2, <2>3 DEF Right
  <2>5. Touched(q) \subseteq Touched(r)
    BY <1>1, <2>1, FollowsTouched
  <2>6. Right(call[c])'
    BY <2>4 DEF Turns
  <2>7. Comes(c, r.name, r.to)
    BY <1>7, <2>1, <2>5, <2>6 DEF Comes, Turns, Follows
  <2> QED BY <1>0, <1>5, <2>7, Proceeds
<1> QED BY <1>6, <1>7

\* r goes on to another step.
StepsOn(r, q, pc) ==
    /\ q # Idle /\ q.pc = pc /\ q.id = r.id /\ q.op = r.op
    /\ q.name = r.name /\ q.to = r.to /\ q.quit = r.quit

LEMMA GotoSteps ==
    ASSUME LifeInv, NEW c \in Clients, NEW pc \in Pcs, call[c] # Idle, Goto(c, pc)
    PROVE  \E r, q : call[c] = r /\ Turns(c, q) /\ StepsOn(r, q, pc)
<1>1. Turns(c, call'[c]) /\ Goes(c, pc)
  BY GotoTurns DEF LifeInv
<1> QED BY <1>1, IdleAssumption DEF Goes, StepsOn

LEMMA StepsFollow ==
    ASSUME NEW r, NEW q, NEW pc, StepsOn(r, q, pc), pc \in ClonePcs => r.pc \in ClonePcs
    PROVE  Follows(r, q)
BY DEF StepsOn, Follows

\* Nothing changes but the step that a request is at, or it ends.
LEMMA RouteOnward ==
    ASSUME LifeInv, CareInv, NEW c \in Clients, NEW r, NEW q, call[c] = r, r # Idle, Turns(c, q),
           UNCHANGED <<dir, rows, meta, change, conflict, marks>>,
           q = Idle \/ Follows(r, q),
           OnTrack(r) => IF q = Idle THEN Settled(r.name) /\ Settled(r.to) ELSE OnTrack(q),
           InOrder(r) => IF q = Idle THEN Neat(r.name) /\ Neat(r.to) ELSE InOrder(q)
    PROVE  CareInv'
<1>1. Settled(r.name)' = Settled(r.name) /\ Settled(r.to)' = Settled(r.to)
      /\ Neat(r.name)' = Neat(r.name) /\ Neat(r.to)' = Neat(r.to)
  BY DEF Settled, Serves, Vacant, Neat, Blanked, Whole, Exists
<1>2. (OnTrack(q) => OnTrack(q)') /\ (InOrder(q) => InOrder(q)')
  BY TrackStays, BareStays DEF Same, SameFor
<1> QED BY <1>1, <1>2, LifeOnward, BareStays

LEMMA RouteCare ==
    ASSUME LifeInv, CareInv, NEW c \in Clients,
           OpenOrInit(c) \/ Load(c) \/ LookOld(c) \/ LookNew(c)
    PROVE  CareInv'
<1>0. /\ {"load", "init", "rows", "clobber", "update"} \subseteq Pcs \ ClonePcs /\ call[c] # Idle
      /\ UNCHANGED <<dir, rows, meta, change, conflict, marks>>
  BY DEF Pcs, ClonePcs, OpenOrInit, Load, LookOld, LookNew, At, RowUnchanged
<1>1. PICK r : call[c] = r /\ r # Idle
  BY <1>0
<1>2. LifeTypeOK /\ r.name \in Names /\ r.to \in Names /\ Kin(r)
  BY <1>1, CallType DEF LifeInv, CareInv, Right
<1>3. \/ /\ Reply(c)
         /\ \/ r.pc = "load" /\ ~Whole(r.name)
            \/ r.pc = "look" /\ r.name \notin rows
            \/ r.pc = "clobber" /\ r.to \in rows
      \/ \E pc \in {"load", "init", "rows", "clobber", "update"} :
            /\ Goto(c, pc)
            /\ \/ r.pc = "open" /\ Exists(r.name) /\ pc = "load"
               \/ r.pc = "open" /\ ~Exists(r.name) /\ pc = "init"
               \/ r.pc = "load" /\ Whole(r.name) /\ pc = "rows"
               \/ r.pc = "look" /\ r.name \in rows /\ pc = "clobber"
               \/ r.pc = "clobber" /\ r.to \notin rows /\ pc = "update"
  BY <1>1 DEF OpenOrInit, Load, LookOld, LookNew, At
<1>4. CASE /\ Reply(c)
           /\ \/ r.pc = "load" /\ ~Whole(r.name)
              \/ r.pc = "look" /\ r.name \notin rows
              \/ r.pc = "clobber" /\ r.to \in rows
  <2>1. Turns(c, Idle)
    BY <1>2, <1>4, ReplyTurns
  <2>2. OnTrack(r) => Settled(r.name) /\ Settled(r.to)
    BY <1>2, <1>4 DEF OnTrack, Creating, Projecting, Cloning, Deleting, Renaming, Begun,
                      Kin, Settled, Parted
  <2>3. InOrder(r) => Neat(r.name) /\ Neat(r.to)
    BY <1>4 DEF InOrder
  <2> QED BY <1>0, <1>1, <2>1, <2>2, <2>3, RouteOnward
<1>5. ASSUME NEW pc \in {"load", "init", "rows", "clobber", "update"}, Goto(c, pc),
             \/ r.pc = "open" /\ Exists(r.name) /\ pc = "load"
             \/ r.pc = "open" /\ ~Exists(r.name) /\ pc = "init"
             \/ r.pc = "load" /\ Whole(r.name) /\ pc = "rows"
             \/ r.pc = "look" /\ r.name \in rows /\ pc = "clobber"
             \/ r.pc = "clobber" /\ r.to \notin rows /\ pc = "update"
      PROVE CareInv'
  <2>1. PICK q : Turns(c, q) /\ StepsOn(r, q, pc)
    BY <1>0, <1>1, <1>5, GotoSteps
  <2>2. Follows(r, q)
    BY <1>0, <1>5, <2>1, StepsFollow
  <2>3. OnTrack(r) => OnTrack(q)
    <3>1. CASE pc \in {"load", "init"}
      BY <1>5, <2>1, <3>1
         DEF OnTrack, Creating, Projecting, Cloning, Deleting, Renaming, StepsOn
    <3>2. CASE pc = "rows"
      BY <1>5, <2>1, <3>2
         DEF OnTrack, Creating, Projecting, Cloning, Deleting, Renaming, StepsOn, Begun, Settled,
             Serves, Vacant, Whole, Exists
    <3>3. CASE pc \in {"clobber", "update"}
      BY <1>5, <2>1, <3>3
         DEF OnTrack, Creating, Projecting, Cloning, Deleting, Renaming, StepsOn, Settled, Serves,
             Vacant, Parted
    <3> QED BY <3>1, <3>2, <3>3
  <2>4. InOrder(r) => InOrder(q)
    BY <1>5, <2>1 DEF InOrder, StepsOn, Blanked, Exists, Gone, Empty
  <2> QED BY <1>0, <1>1, <2>1, <2>2, <2>3, <2>4, RouteOnward DEF Follows
<1> QED BY <1>3, <1>4, <1>5

\* The facts about request r of client c.
LEMMA RequestFacts ==
    ASSUME LifeInv, CareInv, NEW c \in Clients, call[c] # Idle
    PROVE  \E r : /\ call[c] = r /\ r # Idle /\ r \in Calls /\ Right(r) /\ Kin(r)
                  /\ LifeTypeOK /\ RowsHold
                  /\ r.name \in Names /\ r.to \in Names /\ Stage(r.name) \in Paths
                  /\ r.name \in Paths /\ r.to \in Paths /\ Stage(r.name) \notin Names
                  /\ Stage(r.name) # r.name /\ Stage(r.name) # r.to
                  /\ r.name \in Touched(r) /\ r.to \in Touched(r)
                  /\ r.op = "clone" => Stage(r.name) \in Touched(r)
BY StepFacts, RowsHeld DEF CareInv, Right, Touched

LEMMA OpenViewCare ==
    ASSUME LifeInv, CareInv, NEW c \in Clients, OpenView(c) PROVE CareInv'
<1>0. call[c] # Idle /\ UNCHANGED <<dir, rows, meta, change, conflict, marks>>
  BY DEF OpenView, At
<1>1. PICK r : /\ call[c] = r /\ r # Idle /\ r \in Calls /\ Kin(r) /\ LifeTypeOK
               /\ r.name \in Paths
  BY <1>0, RequestFacts
<1>2. CASE ~Whole(r.name)
  <2>1. Turns(c, Idle) /\ r.pc = "view"
    BY <1>1, <1>2, ReplyTurns DEF OpenView, At
  <2>2. ~OnTrack(r)
    BY <1>2, <2>1 DEF OnTrack, Creating, Projecting, Cloning, Deleting, Renaming, Begun
  <2>3. InOrder(r) => Neat(r.name) /\ Neat(r.to)
    BY <2>1 DEF InOrder
  <2> QED BY <1>0, <1>1, <2>1, <2>2, <2>3, RouteOnward
<1>3. CASE Whole(r.name)
  <2> DEFINE q == [r EXCEPT !.pc = "record", !.id = dir[r.name].id]
  <2>1. r.pc = "view" /\ call' = [call EXCEPT ![c] = q]
    BY <1>1, <1>3 DEF OpenView, At
  <2>2. q \in Calls /\ q.pc = "record" /\ q.id = dir[r.name].id /\ q.op = r.op
        /\ q.name = r.name /\ q.to = r.to
    <3>1. dir[r.name].id \in 0..MaxIds /\ "record" \in Pcs
      BY <1>1, DirType DEF Pcs
    <3> QED BY <1>1, <3>1 DEF Calls
  <2> HIDE DEF q
  <2>3. Turns(c, q)
    BY <1>1, <2>1, <2>2, SetTurns
  <2>4. Follows(r, q)
    BY <2>2, IdleAssumption DEF Follows, ClonePcs
  <2>5. OnTrack(r) => OnTrack(q)
    BY <2>1, <2>2 DEF OnTrack, Creating, Projecting, Cloning, Deleting, Renaming
  <2>6. InOrder(r) => InOrder(q)
    BY <2>1, <2>2 DEF InOrder
  <2> QED BY <1>0, <1>1, <2>3, <2>4, <2>5, <2>6, RouteOnward DEF Follows
<1> QED BY <1>2, <1>3

LEMMA UpsertCare ==
    ASSUME LifeInv, CareInv, NEW c \in Clients, UpsertRepo(c) PROVE CareInv'
<1>0. /\ call[c] # Idle /\ UNCHANGED <<dir, meta, change, conflict, marks>> /\ "open" \in Pcs \ ClonePcs
      /\ "view" \in Pcs \ ClonePcs
  BY DEF UpsertRepo, At, Pcs, ClonePcs
<1>1. PICK r : /\ call[c] = r /\ r # Idle /\ Kin(r) /\ RowsHold /\ r.name \in Names
  BY <1>0, RequestFacts
<1>2. PICK pc \in {"open", "view"} : /\ Goto(c, pc) /\ rows' = rows \cup {r.name}
                                     /\ \/ r.pc = "row" /\ pc = "open"
                                        \/ r.pc = "rows" /\ pc = "view"
  BY <1>1 DEF UpsertRepo, At
<1>3. PICK q : Turns(c, q) /\ StepsOn(r, q, pc)
  BY <1>0, <1>1, <1>2, GotoSteps
<1>4. Follows(r, q)
  BY <1>0, <1>2, <1>3, StepsFollow
<1>5. /\ Whole(r.name)' = Whole(r.name) /\ Exists(r.name)' = Exists(r.name)
      /\ Neat(r.name)' = Neat(r.name) /\ Neat(r.to)' = Neat(r.to)
  BY <1>0 DEF Whole, Exists, Neat, Blanked
<1>6. OnTrack(r) => OnTrack(q)'
  <2>1. CASE r.pc = "row"
    BY <1>0, <1>1, <1>2, <1>3, <1>5, <2>1
       DEF OnTrack, Creating, Projecting, Cloning, Deleting, Renaming, StepsOn, Vacant, RowsHold
  <2>2. CASE r.pc = "rows"
    BY <1>0, <1>1, <1>2, <1>3, <1>5, <2>2
       DEF OnTrack, Creating, Projecting, Cloning, Deleting, Renaming, StepsOn, Begun
  <2> QED BY <1>2, <2>1, <2>2
<1>7. InOrder(r) => InOrder(q)'
  BY <1>0, <1>2, <1>3, <1>5 DEF InOrder, StepsOn, Blanked
<1> QED BY <1>0, <1>1, <1>2, <1>3, <1>4, <1>6, <1>7, LifeOnward, BareStays DEF Follows

\* A name that no row takes has nothing filed under it that it had not before.
LEMMA RefiledBare ==
    ASSUME RowsHold, NEW f \in [Names -> Names], Refile(f), NEW n \in Names,
           \A k \in Names : f[k] = n => k = n, Bare(n), meta'[n] = meta[n]
    PROVE  Bare(n)'
<1>0. /\ NoRepo \notin Names /\ conflict \subseteq Changes \X Names
      /\ \A x \in Changes : change[x] # NoRepo => change[x] \in Names
  BY LifeAssumption DEF RowsHold
<1>1. \A x \in Changes : change'[x] # n
  BY <1>0 DEF Refile, Bare
<1>2. \A k \in conflict' : \E q \in conflict : k = <<q[1], f[q[2]]>>
  BY DEF Refile
<1>3. \A k \in conflict' : k[2] # n
  BY <1>0, <1>2 DEF Bare
<1> QED BY <1>1, <1>3 DEF Bare

LEMMA RecordCare ==
    ASSUME LifeInv, CareInv, NEW c \in Clients, Record(c) PROVE CareInv'
<1>0. call[c] # Idle /\ call[c].pc = "record" /\ UNCHANGED <<dir, rows, marks>>
  BY DEF Record, At
<1>1. PICK r : /\ call[c] = r /\ r # Idle /\ r \in Calls /\ Kin(r) /\ LifeTypeOK /\ RowsHold
               /\ r.name \in Names /\ r.to \in Names /\ r.pc = "record"
  BY <1>0, RequestFacts
<1>2. (InOrder(r) => Neat(r.name)' /\ Neat(r.to)')
  BY <1>0, <1>1 DEF InOrder, Neat, Blanked, Whole
<1>t. OnTrack(r) => Begun(r.name) /\ r.name \in rows /\ r.id = dir[r.name].id
                    /\ r.op \in {"create", "clone", "fetch"}
  BY <1>1 DEF OnTrack, Creating, Projecting, Cloning, Deleting, Renaming
<1>3. /\ UNCHANGED <<meta, change, conflict>>
         \/ /\ r.name \in rows
            /\ meta' = meta \/ meta' = [meta EXCEPT ![r.name] = @ \cup {r.id}]
            /\ \A x \in Changes : change'[x] = change[x] \/ change'[x] = r.name
            /\ \A k \in conflict' : k \in conflict \/ k[2] = r.name
      /\ Projected(c) \/ (Reply(c) /\ r.name \notin rows)
  <2>1. PICK h \in Histories :
          \/ /\ r.name \in rows /\ Projected(c)
             /\ change' = [x \in Changes |-> IF x \in {y \in h.changes : change[y] = NoRepo}
                                               THEN r.name ELSE change[x]]
             /\ conflict' = conflict \cup (h.conflicts \X {r.name})
             /\ meta' = meta \/ meta' = [meta EXCEPT ![r.name] = @ \cup {r.id}]
          \/ /\ r.name \notin rows /\ (Projected(c) \/ Reply(c))
             /\ UNCHANGED <<meta, change, conflict>>
    BY <1>1 DEF Record
  <2>2. CASE r.name \notin rows
    BY <2>1, <2>2
  <2>3. CASE r.name \in rows
    <3>1. \A k \in h.conflicts \X {r.name} : k[2] = r.name
      OBVIOUS
    <3> QED BY <2>1, <2>3, <3>1
  <2> QED BY <2>2, <2>3
<1>4. \A k \in Names \ {r.name, r.to} : Bare(k) => Bare(k)'
  <2> SUFFICES ASSUME NEW k \in Names \ {r.name, r.to}, Bare(k) PROVE Bare(k)'
    OBVIOUS
  <2>1. CASE UNCHANGED <<meta, change, conflict>>
    BY <2>1, BareStays
  <2>2. CASE ~UNCHANGED <<meta, change, conflict>>
    <3>1. meta'[k] = meta[k]
      BY <1>1, <1>3, <2>2 DEF RowsHold
    <3> QED BY <1>1, <1>3, <2>2, <3>1 DEF Bare
  <2> QED BY <2>1, <2>2
<1>5. \A k \in Names \ {r.name, r.to} : meta'[k] = meta[k]
  BY <1>1, <1>3 DEF RowsHold
<1>6. OnTrack(r) => Serves(r.name)' /\ Begun(r.name)'
  BY <1>0, <1>1, <1>3, <1>t DEF RowsHold, Begun, Serves, Whole
<1>7. CASE Projected(c) /\ r.op = "clone"
  <2> DEFINE q == [r EXCEPT !.op = "fetch", !.pc = "rows"]
  <2>1. call' = [call EXCEPT ![c] = q]
    BY <1>1, <1>7 DEF Projected, LifeTypeOK
  <2>2. q \in Calls /\ q.pc = "rows" /\ q.op = "fetch" /\ q.name = r.name /\ q.to = r.to
    BY <1>1 DEF Calls, Ops, Pcs
  <2> HIDE DEF q
  <2>3. Turns(c, q)
    BY <1>1, <2>1, <2>2, SetTurns
  <2>4. Follows(r, q)
    BY <1>7, <2>2, IdleAssumption DEF Follows, ClonePcs
  <2>5. OnTrack(r) => OnTrack(q)'
    BY <1>6, <2>2 DEF OnTrack, Projecting
  <2>6. InOrder(r) => InOrder(q)'
    BY <1>2, <2>2 DEF InOrder
  <2> QED BY <1>0, <1>1, <1>4, <1>5, <2>3, <2>4, <2>5, <2>6, LifeOnward DEF Follows
<1>8. CASE ~(Projected(c) /\ r.op = "clone")
  <2>1. Reply(c)
    BY <1>1, <1>3, <1>8 DEF Projected
  <2>2. Turns(c, Idle)
    BY <1>1, <2>1, ReplyTurns
  <2>3. OnTrack(r) => r.to = r.name
    BY <1>1, <1>t DEF Kin
  <2>4. OnTrack(r) => Settled(r.name)' /\ Settled(r.to)'
    BY <1>6, <2>3 DEF Settled
  <2> QED BY <1>0, <1>1, <1>2, <1>4, <1>5, <2>2, <2>4, LifeOnward
<1> QED BY <1>7, <1>8

LEMMA DeleteCare ==
    ASSUME LifeInv, CareInv, NEW c \in Clients, DeleteDependents(c) \/ DeleteRow(c) PROVE CareInv'
<1>0. call[c] # Idle /\ UNCHANGED dir /\ "unrepo" \in Pcs \ ClonePcs
  BY DEF DeleteDependents, DeleteRow, At, Pcs, ClonePcs
<1>1. PICK r : /\ call[c] = r /\ r # Idle /\ r \in Calls /\ Kin(r) /\ Right(r) /\ LifeTypeOK
               /\ RowsHold /\ r.name \in Names /\ r.to \in Names
               /\ r.name \in Touched(r) /\ r.to \in Touched(r)
  BY <1>0, RequestFacts
<1>2. /\ Neat(r.name)' = Neat(r.name) /\ Neat(r.to)' = Neat(r.to)
      /\ Exists(r.name)' = Exists(r.name)
  BY <1>0 DEF Neat, Blanked, Whole, Exists
<1>3. r.pc \in {"unrow", "unrepo"} /\ (InOrder(r) => Neat(r.name)' /\ Neat(r.to)')
  BY <1>1, <1>2 DEF DeleteDependents, DeleteRow, At, InOrder
<1>4. OnTrack(r) => /\ r.op = "delete" /\ r.to = r.name /\ ~Exists(r.name)'
                    /\ r.pc = "unrepo" => Bare(r.name)
  BY <1>1, <1>2, <1>3 DEF OnTrack, Creating, Projecting, Cloning, Deleting, Renaming, Kin
<1> DEFINE others == {k \in conflict : k[2] # r.name}
<1>5. CASE DeleteDependents(c) /\ r.name \in rows
  <2>1. /\ r.pc = "unrow" /\ rows' = rows
        /\ meta' = [meta EXCEPT ![r.name] = {}] /\ conflict' = others
        /\ \/ /\ change' = [x \in Changes |-> IF change[x] = r.name THEN NoRepo ELSE change[x]]
              /\ Goto(c, "unrepo") /\ marks' = marks
           \/ Reply(c) /\ marks' = Marked({r.name}, "held") /\ change' = change
    BY <1>1, <1>5 DEF DeleteDependents, At
  <2>2. meta'[r.name] = {} /\ \A k \in Names \ {r.name, r.to} : meta'[k] = meta[k]
    BY <1>1, <2>1 DEF RowsHold
  <2>3. \A x \in Changes : \A k \in Names : change'[x] = k => change[x] = k
    <3>1. NoRepo \notin Names
      BY LifeAssumption
    <3> QED BY <2>1, <3>1
  <2>4. \A k \in Names \ {r.name, r.to} : Bare(k) => Bare(k)'
    BY <2>1, <2>2, <2>3 DEF Bare
  <2>5. CASE Goto(c, "unrepo") /\ marks' = marks
             /\ change' = [x \in Changes |-> IF change[x] = r.name THEN NoRepo ELSE change[x]]
    <3>1. PICK q : Turns(c, q) /\ StepsOn(r, q, "unrepo")
      BY <1>0, <1>1, <2>5, GotoSteps
    <3>2. Follows(r, q)
      BY <1>0, <3>1, StepsFollow
    <3>3. Bare(r.name)'
      <4>1. \A x \in Changes : change'[x] # r.name
        BY <1>1, <2>5, LifeAssumption
      <4>2. \A k \in conflict' : k[2] # r.name
        BY <2>1
      <4> QED BY <2>2, <4>1, <4>2 DEF Bare
    <3>4. OnTrack(r) => OnTrack(q)'
      BY <1>4, <3>1, <3>3 DEF OnTrack, Deleting, StepsOn
    <3>5. InOrder(r) => InOrder(q)'
      BY <1>3, <3>1 DEF InOrder, StepsOn
    <3> QED BY <1>0, <1>1, <2>1, <2>2, <2>4, <2>5, <3>1, <3>2, <3>4, <3>5, LifeOnward DEF Follows
  <2>6. CASE Reply(c) /\ marks' = Marked({r.name}, "held")
    <3>1. Turns(c, Idle)
      BY <1>1, <2>6, ReplyTurns
    <3>2. /\ "held" \in marks'[r.name] /\ marks'[r.name] = marks[r.name] \cup {"held"}
          /\ \A k \in Names : marks[k] \subseteq marks'[k]
          /\ \A k \in Names \ {r.name} : marks'[k] = marks[k]
      BY <1>1, <2>6 DEF Marked
    <3>3. ~Clean(r.name)' /\ ~Clean(r.to)'
      <4>1. ~Clean(r.name)'
        BY <3>2 DEF Clean
      <4>2. ASSUME r.to # r.name, Clean(r.to)' PROVE FALSE
        <5>1. Clean(r.to)
          BY <1>1, <3>2, <4>2 DEF Clean
        <5>2. Clean(r.name)
          BY <1>1, <5>1 DEF Kin, Clean
        <5> QED BY <1>1, <1>4, <4>2, <5>2 DEF Right
      <4> QED BY <4>1, <4>2
    <3>4. Kept(r.name)' \/ Kept(r.to)' => Neat(r.name)' /\ Neat(r.to)'
      <4>1. Kept(r.name)' \/ Kept(r.to)' => Kept(r.name)
        BY <1>1, <3>2 DEF Kept, Kin
      <4> QED BY <1>1, <1>3, <4>1 DEF Right
    <3>5. \A k \in Names \ {r.name, r.to} : Same(k)
      BY <1>0, <2>1, <2>2, <2>4, <3>2 DEF Same
    <3>6. Keeps(c, r.name, r.to)
      BY <1>0, <1>1, <3>1, <3>2, <3>5 DEF Keeps, Turns
    <3>7. Comes(c, r.name, r.to)
      BY <3>1, <3>3, <3>4 DEF Comes, Good, Turns
    <3> QED BY <1>1, <3>6, <3>7, Proceeds
  <2> QED BY <2>1, <2>5, <2>6
<1>6. CASE ~(DeleteDependents(c) /\ r.name \in rows)
  <2>1. /\ Turns(c, Idle) /\ UNCHANGED <<meta, change, conflict, marks>>
        /\ \/ r.pc = "unrow" /\ r.name \notin rows /\ rows' = rows
           \/ r.pc = "unrepo" /\ rows' = IF Bare(r.name) THEN rows \ {r.name} ELSE rows
    BY <1>1, <1>6, ReplyTurns DEF DeleteDependents, DeleteRow, At
  <2>2. OnTrack(r) => Settled(r.name)' /\ Settled(r.to)'
    BY <1>4, <2>1 DEF Settled, Vacant
  <2> QED BY <1>0, <1>1, <1>3, <2>1, <2>2, LifeOnward, BareStays
<1> QED BY <1>5, <1>6

LEMMA UpdateCare ==
    ASSUME LifeInv, CareInv, NEW c \in Clients, UpdateRow(c) PROVE CareInv'
<1>0. call[c] # Idle /\ UNCHANGED <<dir, marks>> /\ "move" \in Pcs \ ClonePcs
  BY DEF UpdateRow, At, Pcs, ClonePcs, RowUnchanged
<1>1. PICK r : /\ call[c] = r /\ r # Idle /\ Kin(r) /\ LifeTypeOK /\ RowsHold
               /\ r.name \in Names /\ r.to \in Names /\ r.pc = "update"
  BY <1>0, RequestFacts DEF UpdateRow, At
<1> DEFINE n == r.name
           m == r.to
<1>2. /\ Neat(n)' = Neat(n) /\ Neat(m)' = Neat(m) /\ Exists(n)' = Exists(n) /\ Exists(m)' = Exists(m)
      /\ Whole(n)' = Whole(n) /\ Whole(m)' = Whole(m)
  BY <1>0 DEF Neat, Blanked, Whole, Exists
<1>3. InOrder(r) => Neat(n)' /\ Neat(m)'
  BY <1>1, <1>2 DEF InOrder
<1>4. OnTrack(r) => \/ r.op = "rename" /\ r.quit = "no" /\ Serves(n) /\ Vacant(m)
                    \/ r.op = "undo" /\ Parted(m, n)
  BY <1>1 DEF OnTrack, Creating, Projecting, Cloning, Deleting, Renaming
<1>5. CASE UNCHANGED <<rows, meta, change, conflict>> /\ ~(n \in rows /\ m \notin rows)
  <2>1. ~OnTrack(r)
    BY <1>4, <1>5 DEF Serves, Vacant, Parted
  <2>2. CASE Reply(c)
    <3>1. Turns(c, Idle)
      BY <1>1, <2>2, ReplyTurns
    <3> QED BY <1>0, <1>1, <1>3, <1>5, <2>1, <3>1, LifeOnward, BareStays
  <2>3. CASE Goto(c, "move")
    <3>1. PICK q : Turns(c, q) /\ StepsOn(r, q, "move")
      BY <1>0, <1>1, <2>3, GotoSteps
    <3>2. Follows(r, q)
      BY <1>0, <3>1, StepsFollow
    <3>3. InOrder(r) => InOrder(q)'
      BY <1>3, <3>1 DEF InOrder, StepsOn
    <3> QED BY <1>0, <1>1, <1>5, <2>1, <3>1, <3>2, <3>3, LifeOnward, BareStays DEF Follows
  <2> QED BY <1>5, <2>2, <2>3 DEF UpdateRow, AfterUpdate
<1>6. CASE n \in rows /\ m \notin rows
  <2>1. /\ rows' = (rows \ {n}) \cup {m} /\ meta' = [meta EXCEPT ![m] = meta[n], ![n] = {}]
        /\ Refile([k \in Names |-> IF k = n THEN m ELSE k]) /\ AfterUpdate(c)
    BY <1>1, <1>6 DEF UpdateRow
  <2>2. /\ n # m /\ meta'[m] = meta[n] /\ meta'[n] = {}
        /\ \A k \in Names \ {n, m} : meta'[k] = meta[k] /\ (k \in rows' <=> k \in rows)
        /\ m \in rows' /\ n \notin rows'
    BY <1>1, <1>6, <2>1 DEF RowsHold
  <2>b. ASSUME NEW k \in Names \ {n, m}, Bare(k) PROVE Bare(k)'
    <3>1. PICK f : f = [j \in Names |-> IF j = n THEN m ELSE j]
      OBVIOUS
    <3>2. Refile(f) /\ \A j \in Names : f[j] = k => j = k
      BY <2>1, <2>b, <3>1
    <3>3. f \in [Names -> Names]
      BY <1>1, <3>1
    <3> HIDE DEF n, m
    <3> QED BY <1>1, <2>2, <2>b, <3>2, <3>3, RefiledBare
  <2>3. CASE r.op = "rename" /\ r.quit = "no"
    <3>1. Goto(c, "move")
      BY <1>1, <2>1, <2>3 DEF AfterUpdate
    <3>2. PICK q : Turns(c, q) /\ StepsOn(r, q, "move")
      BY <1>0, <1>1, <3>1, GotoSteps
    <3>3. Follows(r, q)
      BY <1>0, <3>2, StepsFollow
    <3>4. InOrder(r) => InOrder(q)'
      BY <1>3, <3>2 DEF InOrder, StepsOn
    <3>5. OnTrack(r) => OnTrack(q)'
      <4>1. Serves(n) /\ Vacant(m) => Parted(n, m)'
        BY <1>0, <1>2, <2>2 DEF Serves, Vacant, Parted
      <4> QED BY <1>4, <2>3, <3>2, <4>1 DEF OnTrack, Renaming, StepsOn
    <3> QED BY <1>0, <1>1, <2>2, <2>b, <3>2, <3>3, <3>4, <3>5, LifeOnward DEF Follows
  <2>4. CASE ~(r.op = "rename" /\ r.quit = "no")
    <3>1. Turns(c, Idle)
      BY <1>1, <2>1, <2>4, ReplyTurns DEF AfterUpdate
    <3>2. OnTrack(r) => Settled(n)' /\ Settled(m)'
      BY <1>0, <1>2, <1>4, <2>2, <2>4 DEF Parted, Settled, Serves, Vacant
    <3> QED BY <1>0, <1>1, <1>3, <2>2, <2>b, <3>1, <3>2, LifeOnward
  <2> QED BY <2>3, <2>4
<1> QED BY <1>1, <1>5, <1>6 DEF UpdateRow

\* d is put at path p.
PutAt(p, d) == dir'[p] = d /\ \A k \in Paths \ {p} : dir'[k] = dir[k]

LEMMA ExceptPuts ==
    ASSUME LifeTypeOK, NEW p \in Paths, NEW d, dir' = [dir EXCEPT ![p] = d]
    PROVE  PutAt(p, d)
BY DEF LifeTypeOK, PutAt

\* A step that puts something at a path of its request.
LEMMA PutOnward ==
    ASSUME LifeInv, CareInv, NEW c \in Clients, NEW r, NEW q, call[c] = r, r # Idle, Turns(c, q),
           NEW p \in Touched(r), NEW d, PutAt(p, d),
           UNCHANGED <<rows, meta, change, conflict, marks>>, q = Idle \/ Follows(r, q),
           OnTrack(r) => IF q = Idle THEN Settled(r.name)' /\ Settled(r.to)' ELSE OnTrack(q)',
           InOrder(r) => IF q = Idle THEN Neat(r.name)' /\ Neat(r.to)' ELSE InOrder(q)'
    PROVE  CareInv'
BY LifeOnward, BareStays DEF PutAt

LEMMA InitCare ==
    ASSUME LifeInv, CareInv, NEW c \in Clients, StartInit(c) \/ FinishInit(c) PROVE CareInv'
<1>0. /\ call[c] # Idle /\ UNCHANGED <<rows, meta, change, conflict, marks>> /\ "load" \in Pcs \ ClonePcs
      /\ "finish" \in Pcs \ ClonePcs
  BY DEF StartInit, FinishInit, At, Pcs, ClonePcs
<1>1. PICK r : /\ call[c] = r /\ r # Idle /\ r \in Calls /\ Kin(r) /\ LifeTypeOK
               /\ r.name \in Names /\ r.to \in Names /\ r.name \in Touched(r) /\ r.name \in Paths
  BY <1>0, RequestFacts
<1> DEFINE n == r.name
<1>2. CASE StartInit(c)
  <2>1. r.pc = "init"
    BY <1>1, <1>2 DEF StartInit, At
  <2>2. OnTrack(r) => r.op = "create" /\ ~Exists(n) /\ n \in rows /\ meta[n] = {}
    BY <2>1 DEF OnTrack, Creating, Projecting, Cloning, Deleting, Renaming
  <2>3. InOrder(r) => r.op = "create" /\ ~Exists(n)
    BY <2>1 DEF InOrder, Blanked, Exists, Gone, Empty
  <2>4. CASE Exists(n)
    <3>1. Goto(c, "load") /\ UNCHANGED dir
      BY <1>1, <1>2, <2>4 DEF StartInit
    <3>2. PICK q : Turns(c, q) /\ StepsOn(r, q, "load")
      BY <1>0, <1>1, <3>1, GotoSteps
    <3>3. Follows(r, q)
      BY <1>0, <3>2, StepsFollow
    <3> QED BY <1>0, <1>1, <2>2, <2>3, <2>4, <3>1, <3>2, <3>3, RouteOnward
  <2>5. CASE ~Exists(n)
    <3>0. PICK q, d : q = [r EXCEPT !.pc = "finish", !.id = nextId] /\ d = [state |-> "half", id |-> nextId]
      OBVIOUS
    <3>1. dir' = [dir EXCEPT ![n] = d] /\ nextId <= MaxIds
          /\ call' = [call EXCEPT ![c].pc = "finish", ![c].id = nextId]
      BY <1>1, <1>2, <2>5, <3>0 DEF StartInit
    <3>2. call' = [call EXCEPT ![c] = q]
      BY <1>1, <3>0, <3>1 DEF LifeTypeOK
    <3>3. q \in Calls /\ q.pc = "finish" /\ q.id = nextId /\ q.op = r.op /\ q.name = n /\ q.to = r.to
      <4>1. nextId \in 0..MaxIds
        BY <1>1, <3>1, LifeAssumption DEF LifeTypeOK
      <4> QED BY <1>0, <1>1, <3>0, <4>1 DEF Calls
    <3>4. d = [state |-> "half", id |-> q.id] /\ PutAt(n, d)
      <4>1. PutAt(n, d)
        BY <1>1, <3>1 DEF PutAt, LifeTypeOK
      <4> QED BY <3>0, <3>3, <4>1
    <3>5. Turns(c, q)
      BY <1>1, <3>2, <3>3, SetTurns
    <3>6. Follows(r, q)
      BY <1>0, <3>3, IdleAssumption DEF Follows
    <3>7. OnTrack(r) => OnTrack(q)'
      BY <1>0, <2>2, <3>3, <3>4 DEF OnTrack, Creating, PutAt
    <3>8. InOrder(r) => InOrder(q)'
      BY <2>3, <3>3, <3>4 DEF InOrder, PutAt
    <3> QED BY <1>0, <1>1, <3>4, <3>5, <3>6, <3>7, <3>8, PutOnward DEF Follows
  <2> QED BY <2>4, <2>5
<1>3. CASE FinishInit(c)
  <2>1. r.pc = "finish"
    BY <1>1, <1>3 DEF FinishInit, At
  <2> DEFINE h == [state |-> "half", id |-> r.id]
             d == [state |-> "whole", id |-> r.id]
  <2>2. OnTrack(r) => r.op = "create" /\ dir[n] = h /\ n \in rows /\ meta[n] = {}
    BY <2>1 DEF OnTrack, Creating, Projecting, Cloning, Deleting, Renaming
  <2>3. InOrder(r) => r.op = "create" /\ dir[n] = h
    BY <2>1 DEF InOrder
  <2>4. CASE dir[n] # h
    <3>1. Turns(c, Idle) /\ dir' = dir
      BY <1>1, <1>3, <2>4, ReplyTurns DEF FinishInit
    <3> QED BY <1>0, <1>1, <2>2, <2>3, <2>4, <3>1, RouteOnward
  <2>5. CASE dir[n] = h
    <3>1. Goto(c, "load") /\ dir' = [dir EXCEPT ![n].state = "whole"]
      BY <1>1, <1>3, <2>5 DEF FinishInit
    <3>2. PutAt(n, d)
      <4>1. [h EXCEPT !.state = "whole"] = d
        OBVIOUS
      <4>2. dir' = [dir EXCEPT ![n] = [dir[n] EXCEPT !.state = "whole"]]
        BY <1>1, <3>1
      <4> HIDE DEF h, d
      <4>3. dir' = [dir EXCEPT ![n] = d]
        BY <2>5, <4>1, <4>2
      <4> QED BY <1>1, <4>3 DEF PutAt, LifeTypeOK
    <3>3. PICK q : Turns(c, q) /\ StepsOn(r, q, "load")
      BY <1>0, <1>1, <3>1, GotoSteps
    <3>4. Follows(r, q)
      BY <1>0, <3>3, StepsFollow
    <3>5. d.state = "whole" /\ d.id = r.id
      OBVIOUS
    <3> HIDE DEF d
    <3>6. OnTrack(r) => OnTrack(q)'
      BY <1>0, <2>2, <3>2, <3>3, <3>5 DEF OnTrack, Creating, Begun, Whole, StepsOn, PutAt
    <3>7. InOrder(r) => InOrder(q)'
      BY <1>1, <2>3, <3>2, <3>3, <3>5 DEF InOrder, Neat, Whole, Kin, StepsOn, PutAt
    <3> QED BY <1>0, <1>1, <3>2, <3>3, <3>4, <3>6, <3>7, PutOnward DEF Follows
  <2> QED BY <2>4, <2>5
<1> QED BY <1>2, <1>3

LEMMA RemoveCare ==
    ASSUME LifeInv, CareInv, NEW c \in Clients, StartRemove(c) \/ EndRemove(c) PROVE CareInv'
<1>0. /\ call[c] # Idle /\ UNCHANGED <<rows, meta, change, conflict, marks>> /\ "removed" \in Pcs \ ClonePcs
      /\ "unrow" \in Pcs \ ClonePcs
  BY DEF StartRemove, EndRemove, At, Pcs, ClonePcs
<1>1. PICK r : /\ call[c] = r /\ r # Idle /\ r \in Calls /\ Kin(r) /\ LifeTypeOK
               /\ r.name \in Names /\ r.to \in Names /\ r.name \in Touched(r) /\ r.name \in Paths
  BY <1>0, RequestFacts
<1> DEFINE n == r.name
<1>2. CASE StartRemove(c)
  <2>1. r.pc = "remove"
    BY <1>1, <1>2 DEF StartRemove, At
  <2>2. (OnTrack(r) \/ InOrder(r)) => r.op = "delete" /\ dir[n].id # 0
    <3>1. (OnTrack(r) \/ InOrder(r)) => r.op = "delete" /\ Exists(n)
      BY <2>1 DEF OnTrack, Creating, Projecting, Cloning, Deleting, Renaming, InOrder
    <3> QED BY <1>1, <3>1, DirType, LifeAssumption DEF Exists, Ids
  <2>3. CASE dir[n].id = 0
    <3>1. Turns(c, Idle) /\ dir' = dir
      BY <1>1, <1>2, <2>3, ReplyTurns DEF StartRemove
    <3> QED BY <1>0, <1>1, <2>2, <2>3, <3>1, RouteOnward
  <2>4. CASE dir[n].id # 0
    <3>1. PICK state \in {"scraps", "torn"} : dir' = [dir EXCEPT ![n].state = state]
      BY <1>1, <1>2, <2>4 DEF StartRemove
    <3>0. PICK q, d : /\ q = [r EXCEPT !.pc = "removed", !.id = dir[n].id]
                      /\ d = [dir[n] EXCEPT !.state = state]
      OBVIOUS
    <3>2. d.id = dir[n].id
      <4>1. dir[n] \in [state : {"scraps", "half", "whole", "torn"}, id : Ids]
        BY <1>1, <2>4, DirType
      <4> QED BY <3>0, <4>1
    <3>3. dir' = [dir EXCEPT ![n] = d] /\ call' = [call EXCEPT ![c] = q]
      BY <1>1, <1>2, <2>4, <3>0, <3>1 DEF StartRemove
    <3>4. q \in Calls /\ q.pc = "removed" /\ q.id = dir[n].id /\ q.op = r.op /\ q.name = n /\ q.to = r.to
      <4>1. dir[n].id \in 0..MaxIds
        BY <1>1, DirType
      <4> QED BY <1>0, <1>1, <3>0, <4>1 DEF Calls
    <3>5. Turns(c, q) /\ PutAt(n, d)
      BY <1>1, <3>3, <3>4, SetTurns, ExceptPuts
    <3>6. Follows(r, q)
      BY <1>0, <3>4, IdleAssumption DEF Follows
    <3>7. OnTrack(r) => OnTrack(q)'
      BY <2>2, <3>2, <3>4, <3>5 DEF OnTrack, Deleting, PutAt
    <3>8. InOrder(r) => InOrder(q)'
      BY <2>2, <3>2, <3>4, <3>5 DEF InOrder, PutAt
    <3> QED BY <1>0, <1>1, <3>5, <3>6, <3>7, <3>8, PutOnward DEF Follows
  <2> QED BY <2>3, <2>4
<1>3. CASE EndRemove(c)
  <2>1. r.pc = "removed"
    BY <1>1, <1>3 DEF EndRemove, At
  <2>2. (OnTrack(r) \/ InOrder(r)) => r.op = "delete" /\ dir[n].id = r.id
    BY <2>1 DEF OnTrack, Creating, Projecting, Cloning, Deleting, Renaming, InOrder
  <2>3. CASE dir[n].id # r.id
    <3>1. Turns(c, Idle) /\ dir' = dir
      BY <1>1, <1>3, <2>3, ReplyTurns DEF EndRemove
    <3> QED BY <1>0, <1>1, <2>2, <2>3, <3>1, RouteOnward
  <2>4. CASE dir[n].id = r.id
    <3>1. Goto(c, "unrow") /\ PutAt(n, Gone)
      BY <1>1, <1>3, <2>4, ExceptPuts DEF EndRemove
    <3>2. PICK q : Turns(c, q) /\ StepsOn(r, q, "unrow")
      BY <1>0, <1>1, <3>1, GotoSteps
    <3>3. Follows(r, q)
      BY <1>0, <3>2, StepsFollow
    <3>4. OnTrack(r) => OnTrack(q)'
      BY <2>2, <3>1, <3>2 DEF OnTrack, Deleting, StepsOn, Exists, Gone, PutAt
    <3>5. InOrder(r) => InOrder(q)'
      BY <1>1, <2>2, <3>1, <3>2 DEF InOrder, StepsOn, Neat, Blanked, Kin, PutAt
    <3> QED BY <1>0, <1>1, <3>1, <3>2, <3>3, <3>4, <3>5, PutOnward DEF Follows
  <2> QED BY <2>3, <2>4
<1> QED BY <1>2, <1>3

\* A request that clones: what holds of its names holds while only its staging
\* directory changes.
LEMMA CloneFacts ==
    ASSUME LifeInv, CareInv, NEW c \in Clients, call[c] # Idle, call[c].pc \in ClonePcs
    PROVE  \E r, s : /\ call[c] = r /\ r # Idle /\ r \in Calls /\ Kin(r) /\ LifeTypeOK
                     /\ s = Stage(r.name) /\ s \in Touched(r) /\ s \in Paths /\ s # r.name
                     /\ r.op = "clone" /\ r.to = r.name /\ r.name \in Names /\ r.name \in Paths
                     /\ r.pc \in ClonePcs /\ r.name \in Touched(r)
                     /\ OnTrack(r) => Vacant(r.name)
                     /\ InOrder(r) => Neat(r.name)
                     /\ r.pc = "promote" /\ (OnTrack(r) \/ InOrder(r)) => Whole(s)
<1>1. PICK r : /\ call[c] = r /\ r # Idle /\ r \in Calls /\ Kin(r) /\ LifeTypeOK
               /\ r.name \in Names /\ r.name \in Paths /\ r.name \in Touched(r)
               /\ Stage(r.name) \in Paths /\ Stage(r.name) # r.name
               /\ r.op = "clone" => Stage(r.name) \in Touched(r)
  BY RequestFacts
<1>2. r.pc \in ClonePcs /\ r.op = "clone" /\ r.to = r.name
  BY <1>1 DEF Kin
<1>3. OnTrack(r) => Vacant(r.name) /\ (r.pc = "promote" => Whole(Stage(r.name)))
  BY <1>2 DEF OnTrack, Creating, Projecting, Cloning, Deleting, Renaming, ClonePcs
<1>4. InOrder(r) => Neat(r.name) /\ (r.pc = "promote" => Whole(Stage(r.name)))
  BY <1>2 DEF InOrder, ClonePcs
<1> QED BY <1>1, <1>2, <1>3, <1>4

LEMMA StageCare ==
    ASSUME LifeInv, CareInv, NEW c \in Clients,
           StartGit(c) \/ GitFails(c) \/ InitClone(c) \/ CommitClone(c)
    PROVE  CareInv'
<1>0. /\ call[c] # Idle /\ UNCHANGED <<rows, meta, change, conflict, marks>>
      /\ call[c].pc \in ClonePcs
      /\ {"import", "commit", "promote"} \subseteq Pcs
  BY DEF StartGit, GitFails, InitClone, CommitClone, At, Pcs, ClonePcs, CloneUnchanged
<1>1. PICK r, s : /\ call[c] = r /\ r # Idle /\ r \in Calls /\ Kin(r) /\ LifeTypeOK
                  /\ s = Stage(r.name) /\ s \in Touched(r) /\ s \in Paths /\ s # r.name
                  /\ r.op = "clone" /\ r.to = r.name /\ r.name \in Names /\ r.name \in Paths
                  /\ r.pc \in ClonePcs
                  /\ OnTrack(r) => Vacant(r.name)
                  /\ InOrder(r) => Neat(r.name)
  BY <1>0, CloneFacts
<1>2. ASSUME NEW d, PutAt(s, d)
      PROVE  (OnTrack(r) => Vacant(r.name)') /\ (InOrder(r) => Neat(r.name)')
             /\ (d.state = "whole" => Whole(s)')
  BY <1>0, <1>1, <1>2 DEF PutAt, Vacant, Exists, Neat, Blanked, Whole
<1>3. ASSUME NEW d, PutAt(s, d), Reply(c) PROVE CareInv'
  <2>1. Turns(c, Idle)
    BY <1>1, <1>3, ReplyTurns
  <2>2. OnTrack(r) => Settled(r.name)' /\ Settled(r.to)'
    BY <1>1, <1>2, <1>3 DEF Settled
  <2>3. InOrder(r) => Neat(r.name)' /\ Neat(r.to)'
    BY <1>1, <1>2, <1>3
  <2> QED BY <1>0, <1>1, <1>3, <2>1, <2>2, <2>3, PutOnward
<1>4. ASSUME NEW d, PutAt(s, d), NEW q, Turns(c, q), q # Idle, q.op = "clone", q.name = r.name,
             q.to = r.to,
             q.pc \in {"import", "commit"} \/ (q.pc = "promote" /\ d.state = "whole")
      PROVE  CareInv'
  <2>1. Follows(r, q)
    BY <1>1, <1>4 DEF Follows
  <2>2. OnTrack(r) => OnTrack(q)'
    BY <1>1, <1>2, <1>4 DEF OnTrack, Cloning
  <2>3. InOrder(r) => InOrder(q)'
    BY <1>1, <1>2, <1>4 DEF InOrder
  <2> QED BY <1>0, <1>1, <1>4, <2>1, <2>2, <2>3, PutOnward
<1>5. CASE StartGit(c)
  <2>0. PICK q, d : q = [r EXCEPT !.pc = "import", !.id = nextId] /\ d = [state |-> "scraps", id |-> nextId]
    OBVIOUS
  <2>1. /\ nextId <= MaxIds /\ dir' = [dir EXCEPT ![s] = d]
        /\ call' = [call EXCEPT ![c].pc = "import", ![c].id = nextId]
    BY <1>1, <1>5, <2>0 DEF StartGit
  <2>2. call' = [call EXCEPT ![c] = q]
    BY <1>1, <2>0, <2>1 DEF LifeTypeOK
  <2>3. q \in Calls /\ q.pc = "import" /\ q.op = r.op /\ q.name = r.name /\ q.to = r.to
    <3>1. nextId \in 0..MaxIds
      BY <1>1, <2>1, LifeAssumption DEF LifeTypeOK
    <3> QED BY <1>0, <1>1, <2>0, <3>1 DEF Calls
  <2>4. Turns(c, q) /\ q # Idle
    BY <1>1, <2>2, <2>3, SetTurns, IdleAssumption
  <2>5. PutAt(s, d)
    BY <1>1, <2>1 DEF PutAt, LifeTypeOK
  <2> QED BY <1>1, <1>4, <2>3, <2>4, <2>5
<1>6. CASE GitFails(c)
  <2>1. PutAt(s, Gone) /\ Reply(c)
    BY <1>1, <1>6 DEF GitFails, PutAt, LifeTypeOK
  <2> QED BY <1>3, <2>1
<1>7. CASE InitClone(c)
  <2>1. Goto(c, "commit") /\ dir' = [dir EXCEPT ![s] = [dir[s] EXCEPT !.state = "half"]]
    BY <1>1, <1>7 DEF InitClone
  <2>2. PICK d : d = [dir[s] EXCEPT !.state = "half"]
    OBVIOUS
  <2>3. PutAt(s, d)
    <3>1. dir' = [dir EXCEPT ![s] = d]
      BY <2>1, <2>2
    <3> QED BY <1>1, <3>1 DEF PutAt, LifeTypeOK
  <2>4. PICK q : Turns(c, q) /\ StepsOn(r, q, "commit")
    BY <1>0, <1>1, <2>1, GotoSteps
  <2> QED BY <1>1, <1>4, <2>3, <2>4 DEF StepsOn
<1>8. CASE CommitClone(c)
  <2>1. PICK h, d : h = [state |-> "half", id |-> r.id] /\ d = [h EXCEPT !.state = "whole"]
    OBVIOUS
  <2>2. CASE dir[s] = h
    <3>1. Goto(c, "promote") /\ dir' = [dir EXCEPT ![s] = [dir[s] EXCEPT !.state = "whole"]]
      BY <1>1, <1>8, <2>1, <2>2 DEF CommitClone
    <3>2. dir' = [dir EXCEPT ![s] = d]
      BY <2>1, <2>2, <3>1
    <3>3. d.state = "whole"
      BY <2>1
    <3>4. PutAt(s, d)
      BY <1>1, <3>2 DEF PutAt, LifeTypeOK
    <3>5. PICK q : Turns(c, q) /\ StepsOn(r, q, "promote")
      BY <1>0, <1>1, <3>1, GotoSteps
    <3> QED BY <1>1, <1>4, <3>3, <3>4, <3>5 DEF StepsOn
  <2>3. CASE dir[s] # h
    <3>1. Reply(c) /\ dir' = dir
      BY <1>1, <1>8, <2>1, <2>3 DEF CommitClone
    <3>2. PutAt(s, dir[s])
      BY <3>1 DEF PutAt
    <3> QED BY <1>3, <3>1, <3>2
  <2> QED BY <2>2, <2>3
<1> QED BY <1>5, <1>6, <1>7, <1>8

LEMMA MakeDirsCare ==
    ASSUME LifeInv, CareInv, NEW c \in Clients, MakeDirs(c) PROVE CareInv'
<1>0. /\ call[c] # Idle /\ UNCHANGED <<rows, meta, change, conflict, marks>> /\ call[c].pc = "mkdir"
      /\ call[c].pc \in ClonePcs /\ "git" \in Pcs
  BY DEF MakeDirs, At, Pcs, ClonePcs, CloneUnchanged
<1>1. PICK r, s : /\ call[c] = r /\ r # Idle /\ LifeTypeOK
                  /\ s = Stage(r.name) /\ s \in Touched(r) /\ s \in Paths /\ s # r.name
                  /\ r.op = "clone" /\ r.to = r.name /\ r.name \in Names /\ r.name \in Paths
                  /\ r.pc \in ClonePcs /\ r.name \in Touched(r)
                  /\ OnTrack(r) => Vacant(r.name)
                  /\ InOrder(r) => Neat(r.name)
  BY <1>0, CloneFacts
<1>2. dir' = [dir EXCEPT ![r.name] = IF dir[r.name] = Gone THEN Empty ELSE dir[r.name], ![s] = Empty]
  BY <1>1 DEF MakeDirs
<1>3. /\ dir'[r.name] = IF dir[r.name] = Gone THEN Empty ELSE dir[r.name]
      /\ \A p \in Paths \ Touched(r) : dir'[p] = dir[p]
  BY <1>1, <1>2 DEF LifeTypeOK
<1>4. PICK q : Turns(c, q) /\ StepsOn(r, q, "git")
  BY <1>0, <1>1, GotoSteps DEF MakeDirs
<1>5. Follows(r, q)
  BY <1>1, <1>4, StepsFollow
<1>6. OnTrack(r) => OnTrack(q)'
  <2>1. Vacant(r.name) => Vacant(r.name)'
    BY <1>0, <1>3 DEF Vacant, Exists, Empty
  <2> QED BY <1>1, <1>4, <2>1 DEF OnTrack, Cloning, StepsOn
<1>7. InOrder(r) => InOrder(q)'
  <2>1. Neat(r.name) => Neat(r.name)'
    BY <1>3 DEF Neat, Blanked, Whole
  <2> QED BY <1>1, <1>4, <2>1 DEF InOrder, StepsOn
<1> QED BY <1>0, <1>1, <1>3, <1>4, <1>5, <1>6, <1>7, LifeOnward, BareStays DEF Follows

\* A directory has moved.
Moved(p, n) ==
    /\ dir[p] # Gone /\ dir[n] \in {Gone, Empty} /\ dir'[n] = dir[p] /\ dir'[p] = Gone /\ p # n
    /\ \A k \in Paths \ {p, n} : dir'[k] = dir[k]

LEMMA MoveMoved ==
    ASSUME LifeTypeOK, NEW p \in Paths, NEW n \in Paths, p # n, MoveDir(p, n) PROVE Moved(p, n)
BY DEF LifeTypeOK, MoveDir, Moved

LEMMA PromoteCare ==
    ASSUME LifeInv, CareInv, NEW c \in Clients, Promote(c) PROVE CareInv'
<1>0. /\ call[c] # Idle /\ UNCHANGED <<rows, meta, change, conflict, marks>> /\ call[c].pc = "promote"
      /\ call[c].pc \in ClonePcs /\ "rows" \in Pcs \ ClonePcs
  BY DEF Promote, At, Pcs, ClonePcs, CloneUnchanged
<1>1. PICK r, s : /\ call[c] = r /\ r # Idle /\ LifeTypeOK
                  /\ s = Stage(r.name) /\ s \in Touched(r) /\ s \in Paths /\ s # r.name
                  /\ r.op = "clone" /\ r.to = r.name /\ r.name \in Names /\ r.name \in Paths
                  /\ r.pc \in ClonePcs /\ r.name \in Touched(r)
                  /\ OnTrack(r) => Vacant(r.name)
                  /\ InOrder(r) => Neat(r.name)
                  /\ r.pc = "promote" /\ (OnTrack(r) \/ InOrder(r)) => Whole(s)
  BY <1>0, CloneFacts
<1>2. CASE Reply(c) /\ dir' = dir
  <2>1. Turns(c, Idle)
    BY <1>1, <1>2, ReplyTurns
  <2> QED BY <1>0, <1>1, <1>2, <2>1, RouteOnward DEF Settled
<1>3. CASE MoveDir(s, r.name) /\ Goto(c, "rows")
  <2>1. Moved(s, r.name)
    BY <1>1, <1>3, MoveMoved
  <2>2. PICK q : Turns(c, q) /\ StepsOn(r, q, "rows")
    BY <1>0, <1>1, <1>3, GotoSteps
  <2>3. Follows(r, q)
    BY <1>0, <2>2, StepsFollow
  <2>4. OnTrack(r) => OnTrack(q)'
    <3>1. OnTrack(r) => Begun(r.name)'
      BY <1>0, <1>1, <2>1, RowsHeld DEF RowsHold, Begun, Vacant, Whole, Moved
    <3> QED BY <1>1, <2>2, <3>1 DEF OnTrack, Projecting, StepsOn
  <2>5. InOrder(r) => InOrder(q)'
    BY <1>0, <1>1, <2>1, <2>2 DEF InOrder, StepsOn, Neat, Whole, Moved
  <2>6. \A p \in Paths \ Touched(r) : dir'[p] = dir[p]
    BY <1>1, <2>1 DEF Moved
  <2> QED BY <1>0, <1>1, <2>2, <2>3, <2>4, <2>5, <2>6, LifeOnward, BareStays DEF Follows
<1> QED BY <1>1, <1>2, <1>3 DEF Promote

LEMMA RenameDirCare ==
    ASSUME LifeInv, CareInv, NEW c \in Clients, RenameDir(c) PROVE CareInv'
<1>0. /\ call[c] # Idle /\ UNCHANGED <<rows, meta, change, conflict, marks>> /\ call[c].pc = "move"
      /\ (MoveDir(call[c].name, call[c].to) /\ Reply(c)) \/ (Undo(c) /\ dir' = dir)
  BY DEF RenameDir, At
<1>1. PICK r : /\ call[c] = r /\ r # Idle /\ r \in Calls /\ Kin(r) /\ LifeTypeOK
               /\ r.name \in Names /\ r.to \in Names /\ r.name \in Paths /\ r.to \in Paths
               /\ r.name \in Touched(r) /\ r.to \in Touched(r)
  BY <1>0, RequestFacts
<1> DEFINE n == r.name
           m == r.to
<1>2. OnTrack(r) => Parted(n, m)
  BY <1>0, <1>1 DEF OnTrack, Creating, Projecting, Cloning, Deleting, Renaming
<1>3. InOrder(r) => Neat(n) /\ Neat(m)
  BY <1>0, <1>1 DEF InOrder
<1>4. CASE MoveDir(n, m) /\ Reply(c)
  <2>1. Turns(c, Idle)
    BY <1>1, <1>4, ReplyTurns
  <2>2. CASE n # m
    <3>1. Moved(n, m)
      BY <1>1, <1>4, <2>2, MoveMoved
    <3>2. OnTrack(r) => Settled(n)' /\ Settled(m)'
      BY <1>0, <1>2, <3>1 DEF Parted, Settled, Serves, Vacant, Whole, Exists, Moved, Gone
    <3>3. InOrder(r) => Neat(n)' /\ Neat(m)'
      BY <1>3, <3>1 DEF Neat, Blanked, Whole, Moved
    <3>4. \A p \in Paths \ Touched(r) : dir'[p] = dir[p]
      BY <1>1, <3>1 DEF Moved
    <3> QED BY <1>0, <1>1, <2>1, <3>2, <3>3, <3>4, LifeOnward, BareStays
  <2>3. CASE n = m
    <3>1. dir'[n] = Gone /\ \A p \in Paths \ {n} : dir'[p] = dir[p]
      BY <1>1, <1>4, <2>3 DEF LifeTypeOK, MoveDir
    <3>2. ~OnTrack(r)
      BY <1>2, <2>3 DEF Parted
    <3>3. Neat(n)' /\ Neat(m)'
      BY <2>3, <3>1 DEF Neat, Blanked
    <3> QED BY <1>0, <1>1, <2>1, <3>1, <3>2, <3>3, LifeOnward, BareStays
  <2> QED BY <2>2, <2>3
<1>5. CASE Undo(c) /\ dir' = dir
  <2>1. PICK q : q = Blank("undo", "look", m, n)
    OBVIOUS
  <2>2. q \in Calls /\ q.op = "undo" /\ q.pc = "look" /\ q.name = m /\ q.to = n /\ q # Idle
    <3>1. "undo" \in Ops /\ "look" \in Pcs
      BY DEF Ops, Pcs
    <3>2. q \in Calls
      BY <1>1, <2>1, <3>1, BlankType
    <3> QED BY <2>1, <3>2, IdleAssumption DEF Blank
  <2>3. call' = [call EXCEPT ![c] = q]
    BY <1>1, <1>5, <2>1 DEF Undo
  <2>4. Turns(c, q)
    BY <1>1, <2>2, <2>3, SetTurns
  <2>5. Follows(r, q)
    BY <2>2 DEF Follows, ClonePcs
  <2>6. OnTrack(r) => OnTrack(q)
    BY <1>2, <2>2 DEF OnTrack, Renaming
  <2>7. InOrder(r) => InOrder(q)
    BY <1>3, <2>2 DEF InOrder
  <2> QED BY <1>0, <1>1, <1>5, <2>2, <2>4, <2>5, <2>6, <2>7, RouteOnward
<1> QED BY <1>0, <1>1, <1>4, <1>5

-----------------------------------------------------------------------------
(* Requests fail, organizations are renamed, the process dies. *)

LEMMA FailCare ==
    ASSUME LifeInv, CareInv, NEW c \in Clients, FailCall(c) PROVE CareInv'
<1>0. call[c] # Idle /\ UNCHANGED <<dir, rows, meta, change, conflict>> /\ Reply(c)
  BY DEF FailCall
<1>1. PICK r : /\ call[c] = r /\ r # Idle /\ r \in Calls /\ Kin(r) /\ Right(r) /\ LifeTypeOK
               /\ r.name \in Names /\ r.to \in Names
               /\ r.name \in Touched(r) /\ r.to \in Touched(r)
  BY <1>0, RequestFacts
<1>2. Turns(c, Idle)
  BY <1>0, <1>1, ReplyTurns
<1>3. CASE Blameless(r)
  <2>1. marks' = marks
    BY <1>1, <1>3 DEF FailCall
  <2>2. OnTrack(r) => Settled(r.name) /\ Settled(r.to)
    BY <1>1, <1>3 DEF Blameless, OnTrack, Creating, Projecting, Cloning, Deleting, Renaming,
                      Settled, Kin
  <2>3. InOrder(r) => Neat(r.name) /\ Neat(r.to)
    BY <1>1, <1>3 DEF Blameless, InOrder, Kin
  <2> QED BY <1>0, <1>1, <1>2, <2>1, <2>2, <2>3, RouteOnward
<1>4. CASE ~Blameless(r)
  <2>1. marks' = Marked(Touched(r), r.op)
    BY <1>1, <1>4 DEF FailCall
  <2>2. /\ r.op \in marks'[r.name] /\ r.op \in marks'[r.to] /\ r.op \in Ops
        /\ \A k \in Names : marks[k] \subseteq marks'[k]
        /\ \A k \in Names \ {r.name, r.to} : marks'[k] = marks[k]
    <3>1. \A k \in Names : k \in Touched(r) => k \in {r.name, r.to}
      BY <1>1, TouchesNames
    <3> QED BY <1>1, <2>1, <3>1 DEF Marked, Calls
  <2>3. ~Clean(r.name)' /\ ~Clean(r.to)'
    BY <2>2 DEF Clean, Ops
  <2>4. Kept(r.name)' \/ Kept(r.to)' => Neat(r.name)' /\ Neat(r.to)'
    <3>1. Kept(r.name)' \/ Kept(r.to)' => r.op \in {"clone", "fetch", "rename"} /\ Kept(r.name)
      BY <1>1, <2>2 DEF Kept, Kin, Ops
    <3>2. r.op \in {"clone", "fetch", "rename"} /\ InOrder(r) => Neat(r.name)' /\ Neat(r.to)'
      BY <1>0, <1>1 DEF InOrder, Kin, Neat, Blanked, Whole
    <3> QED BY <1>1, <3>1, <3>2 DEF Right
  <2>5. Keeps(c, r.name, r.to)
    BY <1>0, <1>1, <1>2, <2>2, BareStays DEF Keeps, Same, Turns
  <2>6. Comes(c, r.name, r.to)
    BY <1>2, <2>3, <2>4 DEF Comes, Good, Turns
  <2> QED BY <1>1, <2>5, <2>6, Proceeds
<1> QED BY <1>3, <1>4

LEMMA QuitCare ==
    ASSUME LifeInv, CareInv, NEW c \in Clients, QuitRename(c) PROVE CareInv'
<1>0. /\ call[c] # Idle /\ UNCHANGED <<dir, rows, meta, change, conflict>>
      /\ marks' = Marked(Touched(call[c]), "rename") /\ call[c].op \in {"rename", "undo"}
  BY DEF QuitRename
<1>1. PICK r : /\ call[c] = r /\ r # Idle /\ r \in Calls /\ Kin(r) /\ Right(r) /\ LifeTypeOK
               /\ r.name \in Names /\ r.to \in Names
               /\ r.name \in Touched(r) /\ r.to \in Touched(r)
  BY <1>0, RequestFacts
<1>2. /\ marks'[r.name] = marks[r.name] \cup {"rename"} /\ marks'[r.to] = marks[r.to] \cup {"rename"}
      /\ \A k \in Names : marks[k] \subseteq marks'[k]
      /\ \A k \in Names \ {r.name, r.to} : marks'[k] = marks[k]
  <2>1. \A k \in Names : k \in Touched(r) => k \in {r.name, r.to}
    BY <1>1, TouchesNames
  <2> QED BY <1>0, <1>1, <2>1 DEF Marked
<1>3. ~Clean(r.name)' /\ ~Clean(r.to)'
  BY <1>2 DEF Clean
<1>4. Kept(r.name)' \/ Kept(r.to)' => InOrder(r)
  <2>1. Kept(r.name)' \/ Kept(r.to)' => Kept(r.name)
    BY <1>1, <1>2 DEF Kept, Kin
  <2> QED BY <1>1, <2>1 DEF Right
<1>5. InOrder(r) => Neat(r.name)' /\ Neat(r.to)'
  BY <1>0, <1>1 DEF InOrder, Neat, Blanked, Whole
<1>6. ASSUME NEW q, Turns(c, q) PROVE Keeps(c, r.name, r.to)
  BY <1>0, <1>1, <1>2, <1>6, BareStays DEF Keeps, Same, Turns
<1>7. CASE Reply(c)
  <2>1. Turns(c, Idle)
    BY <1>1, <1>7, ReplyTurns
  <2>2. Comes(c, r.name, r.to)
    BY <1>3, <1>4, <1>5, <2>1 DEF Comes, Good, Turns
  <2> QED BY <1>1, <1>6, <2>1, <2>2, Proceeds
<1>8. CASE call' = [call EXCEPT ![c].quit = "yes"]
  <2>1. PICK q : q = [r EXCEPT !.quit = "yes"]
    OBVIOUS
  <2>2. /\ q \in Calls /\ q.op = r.op /\ q.pc = r.pc /\ q.name = r.name /\ q.to = r.to /\ q.id = r.id
        /\ q # Idle
    BY <1>1, <2>1, IdleAssumption DEF Calls
  <2>3. call' = [call EXCEPT ![c] = q]
    BY <1>1, <1>8, <2>1
  <2>4. Turns(c, q)
    BY <1>1, <2>2, <2>3, SetTurns
  <2>5. Kin(q)'
    BY <1>1, <1>2, <2>2 DEF Kin
  <2>6. InOrder(r) => InOrder(q)'
    BY <1>0, <1>1, <1>5, <2>2 DEF InOrder
  <2>7. Right(q)'
    BY <1>3, <1>4, <2>2, <2>5, <2>6 DEF Right
  <2>8. Touched(q) = Touched(r)
    BY <2>2 DEF Touched
  <2>9. Comes(c, r.name, r.to)
    <3>1. Right(call[c])'
      BY <2>4, <2>7 DEF Turns
    <3> QED BY <2>2, <2>4, <2>8, <1>1, <3>1 DEF Comes, Turns
  <2> QED BY <1>1, <1>6, <2>4, <2>9, Proceeds
<1> QED BY <1>7, <1>8 DEF QuitRename

LEMMA CareStays ==
    ASSUME CareInv, UNCHANGED <<dir, rows, meta, change, conflict, call, marks>> PROVE CareInv'
<1>1. Apart'
  BY DEF CareInv, Apart
<1>2. ASSUME NEW c \in Clients, call'[c] # Idle PROVE Right(call[c])'
  <2>1. PICK r : r = call[c]
    OBVIOUS
  <2>2. Right(r) /\ call'[c] = r
    BY <1>2, <2>1 DEF CareInv
  <2>3. Right(r)'
    BY <2>2, RightStays, BareStays DEF Same, SameFor
  <2> QED BY <2>2, <2>3
<1>3. ASSUME NEW n \in Names, ~Busy(n)' PROVE Good(n)'
  <2>1. ~Busy(n)
    BY <1>3 DEF Busy
  <2> QED BY <2>1, GoodStays, BareStays DEF CareInv, Same
<1> QED BY <1>1, <1>2, <1>3 DEF CareInv

\* Where every name of no organization that is renamed stays as it is.
LEMMA OrgCare ==
    ASSUME LifeInv, CareInv, UNCHANGED <<dir, call>>, NEW O,
           \A n \in Names : IF n[1] \in O THEN marks'[n] = marks[n] \cup {"org"} ELSE Same(n)
    PROVE  CareInv'
<1>0. LifeTypeOK
  BY DEF LifeInv
<1>1. Apart'
  <2>1. \A n \in Names : marks[n] \subseteq marks'[n]
    BY DEF Same
  <2>2. \A c \in Clients : call[c] # Idle => call[c].name \in Names /\ call[c].to \in Names
    BY <1>0, CallType
  <2> QED BY <2>1, <2>2 DEF CareInv, Apart, Meet
<1>2. ASSUME NEW c \in Clients, call'[c] # Idle PROVE Right(call[c])'
  <2>1. PICK r : r = call[c]
    OBVIOUS
  <2>2. /\ r # Idle /\ Right(r) /\ r.name \in Names /\ r.to \in Names /\ r.name[1] = r.to[1]
        /\ call'[c] = r
    BY <1>0, <1>2, <2>1, CallType DEF CareInv, LifeInv, RowInv
  <2>3. CASE r.name[1] \in O
    <3>1. marks'[r.name] = marks[r.name] \cup {"org"} /\ marks'[r.to] = marks[r.to] \cup {"org"}
      BY <2>2, <2>3
    <3>2. Right(r)'
      BY <2>2, <3>1 DEF Right, Kin, Clean, Kept
    <3> QED BY <2>2, <3>2
  <2>4. CASE r.name[1] \notin O
    <3>1. SameFor(r)
      BY <2>2, <2>4 DEF SameFor
    <3>2. Right(r)'
      BY <2>2, <3>1, RightStays
    <3> QED BY <2>2, <3>2
  <2> QED BY <2>3, <2>4
<1>3. ASSUME NEW n \in Names, ~Busy(n)' PROVE Good(n)'
  <2>1. CASE n[1] \in O
    BY <2>1 DEF Good, Clean, Kept
  <2>2. CASE n[1] \notin O
    <3>1. ~Busy(n)
      BY <1>3 DEF Busy
    <3> QED BY <2>2, <3>1, GoodStays DEF CareInv
  <2> QED BY <2>1, <2>2
<1> QED BY <1>1, <1>2, <1>3 DEF CareInv

LEMMA OrgsCare ==
    ASSUME LifeInv, CareInv, NEW c \in Clients, CreateOrg(c) \/ DeleteOrg(c) \/ RenameOrg(c)
    PROVE  CareInv'
<1>0. UNCHANGED <<dir, call>> /\ RowsHold /\ marks \in [Names -> SUBSET Marks]
  BY RowsHeld DEF CreateOrg, DeleteOrg, RenameOrg, OrgUnchanged, LifeInv, LifeTypeOK
<1>1. CASE CreateOrg(c) \/ DeleteOrg(c)
  BY <1>0, <1>1, CareStays DEF CreateOrg, DeleteOrg
<1>2. CASE RenameOrg(c)
  <2>1. PICK o \in orgs, p \in Orgs \ orgs :
          /\ rows' = {n \in Names : IF n[1] = p THEN <<o, n[2]>> \in rows ELSE n[1] # o /\ n \in rows}
          /\ meta' = [n \in Names |->
                       IF n[1] = p THEN meta[<<o, n[2]>>] ELSE IF n[1] = o THEN {} ELSE meta[n]]
          /\ Refile([n \in Names |-> IF n[1] = o THEN <<p, n[2]>> ELSE n])
          /\ marks' = Marked({n \in Names : n[1] \in {o, p}}, "org")
    BY <1>2 DEF RenameOrg
  <2>2. \A n \in Names : IF n[1] \in {o, p} THEN marks'[n] = marks[n] \cup {"org"} ELSE Same(n)
    <3>1. \A n \in Names : n[1] \in {o, p} => marks'[n] = marks[n] \cup {"org"}
      BY <1>0, <2>1 DEF Marked
    <3>2. ASSUME NEW n \in Names, n[1] \notin {o, p} PROVE Same(n)
      <4>1. dir'[n] = dir[n] /\ meta'[n] = meta[n] /\ marks'[n] = marks[n] /\ (n \in rows' <=> n \in rows)
        BY <1>0, <2>1, <3>2 DEF Marked
      <4>2. PICK f : f = [k \in Names |-> IF k[1] = o THEN <<p, k[2]>> ELSE k]
        OBVIOUS
      <4>3. f \in [Names -> Names]
        BY <4>2 DEF Names
      <4>4. Refile(f) /\ \A k \in Names : f[k] = n => k = n
        BY <2>1, <3>2, <4>2
      <4>5. Bare(n) => Bare(n)'
        BY <1>0, <4>1, <4>3, <4>4, RefiledBare
      <4> QED BY <4>1, <4>5 DEF Same
    <3> QED BY <3>1, <3>2
  <2> QED BY <1>0, <2>2, OrgCare
<1> QED BY <1>1, <1>2

LEMMA CrashCare ==
    ASSUME LifeInv, CareInv, LifeCrash PROVE CareInv'
<1>0. LifeTypeOK /\ (\A c \in Clients : call'[c] = Idle) /\ UNCHANGED <<dir, rows, meta, change, conflict>>
  BY DEF LifeCrash, LifeInv
<1>1. \A n \in Names : marks'[n] = marks[n] \cup
          {call[c].op : c \in {d \in {e \in Clients : call[e] # Idle} : n \in Touched(call[d])}}
  BY DEF LifeCrash
<1>2. Apart' /\ \A c \in Clients : call'[c] # Idle => Right(call[c])'
  BY <1>0 DEF Apart
<1>3. ASSUME NEW n \in Names PROVE Good(n)'
  <2>1. CASE ~Busy(n)
    <3>1. marks'[n] = marks[n]
      BY <1>1, <2>1 DEF Busy
    <3> QED BY <1>0, <2>1, <3>1, GoodStays, BareStays DEF CareInv, Same
  <2>2. CASE Busy(n)
    <3>1. PICK c \in Clients : call[c] # Idle /\ n \in Touched(call[c])
      BY <2>2 DEF Busy
    <3>2. PICK r : /\ call[c] = r /\ r # Idle /\ r \in Calls /\ Kin(r) /\ Right(r)
                   /\ r.name \in Names /\ r.to \in Names
      BY <3>1, RequestFacts
    <3>3. r.op \in marks'[n] /\ marks[n] \subseteq marks'[n] /\ r.op \in Ops /\ n \in {r.name, r.to}
      BY <1>0, <1>1, <3>1, <3>2, TouchesNames DEF Calls
    <3>4. ~Clean(n)'
      BY <3>3 DEF Clean, Ops
    <3>5. Kept(n)' => Neat(n)'
      <4>1. Kept(n)' => r.op \in {"clone", "fetch", "rename"} /\ Kept(r.name)
        BY <3>2, <3>3 DEF Kept, Kin, Ops
      <4>2. r.op \in {"clone", "fetch", "rename"} /\ InOrder(r) => Neat(r.name)' /\ Neat(r.to)'
        BY <1>0, <3>2 DEF InOrder, Kin, Neat, Blanked, Whole
      <4> QED BY <3>2, <3>3, <4>1, <4>2 DEF Right
    <3> QED BY <3>4, <3>5 DEF Good
  <2> QED BY <2>1, <2>2
<1> QED BY <1>2, <1>3 DEF CareInv

-----------------------------------------------------------------------------
(* The theorems of what agrees. *)

LEMMA CareInit == ASSUME LifeInit PROVE CareInv
<1>1. Apart /\ \A c \in Clients : call[c] # Idle => Right(call[c])
  BY DEF LifeInit, Apart
<1>2. ASSUME NEW n \in Names PROVE Good(n)
  <2>1. dir[n] = Gone /\ n \notin rows
    BY DEF LifeInit, Paths
  <2> QED BY <2>1 DEF Good, Settled, Vacant, Exists, Neat, Blanked, Gone
<1> QED BY <1>1, <1>2 DEF CareInv

LEMMA CareNext == ASSUME LifeInv, CareInv, LifeNext PROVE CareInv'
<1>1. PICK c \in Clients : LifeRequest(c) \/ LifeStep(c)
  BY DEF LifeNext
<1>2. CASE LifeRequest(c)
  BY <1>2, RequestCare, OrgsCare DEF LifeRequest
<1>3. CASE LifeStep(c)
  BY <1>3, UpsertCare, RouteCare, InitCare, OpenViewCare, RecordCare, MakeDirsCare, StageCare,
     PromoteCare, RemoveCare, DeleteCare, UpdateCare, RenameDirCare, QuitCare, FailCare DEF LifeStep
<1> QED BY <1>1, <1>2, <1>3

\* Any step of a process that the lifecycle has a part in.
LEMMA CareHolds ==
    ASSUME LifeInv, CareInv, LifeNext \/ LifeCrash \/ UNCHANGED lifeVars PROVE CareInv'
<1>1. UNCHANGED lifeVars => UNCHANGED <<dir, rows, meta, change, conflict, call, marks>>
  BY DEF lifeVars
<1> QED BY <1>1, CareNext, CrashCare, CareStays

LEMMA CareAgrees == ASSUME LifeInv, CareInv PROVE Agree /\ CloneAllOrNothing
<1>1. Agree
  BY DEF CareInv, Good, Clean, Settled, Serves, Vacant, Agree
<1>2. CloneAllOrNothing
  BY DEF CareInv, Good, Kept, Neat, Blanked, CloneAllOrNothing
<1> QED BY <1>1, <1>2

(* The inductive invariant of what agrees: requests that share a name have *)
(* marked each other, every other request is as far as its next step says, *)
(* and a name that nobody works at is in order.                            *)
THEOREM CareInvariance == LifeSpec => [](LifeInv /\ CareInv)
<1>1. LifeInit /\ LeftTypeOK => LifeInv /\ CareInv
  BY LifeInitHolds, CareInit
<1>2. LifeInv /\ CareInv /\ [LifeNext \/ (Spend("crashes") /\ LifeCrash)]_<<lifeVars, left>> => CareInv'
  BY CareHolds DEF lifeVars
<1> QED BY <1>1, <1>2, LifeInvariance, PTL DEF LifeSpec

(* Where nothing has gone wrong that the code does not answer for, and     *)
(* nobody is at work, a name has a whole repository and a row with no      *)
(* bookmarks but its own, or neither: for any number of clients, names,    *)
(* requests and histories, however the repositories share rows of changes, *)
(* through roll-backs, failed clones, repairs and crashes.                 *)
THEOREM RepositoriesAgree == LifeSpec => []Agree
BY CareAgrees, CareInvariance, PTL

(* Whatever a clone, a fetch or a rename died of, a name has a whole       *)
(* repository or none: create and delete alone leave one half made.        *)
THEOREM ClonesAllOrNothing == LifeSpec => []CloneAllOrNothing
BY CareAgrees, CareInvariance, PTL
===============================================================================
