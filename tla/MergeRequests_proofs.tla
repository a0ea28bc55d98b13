------------------------ MODULE MergeRequests_proofs ------------------------
(***************************************************************************)
(* Proofs about MergeRequests for every set of repositories and clients    *)
(* and every number of rows and faults.  Each part of the inductive        *)
(* invariant IInv has a lemma of its own, which assumes the parts it needs.*)
(***************************************************************************)
EXTENDS MergeRequests, TLAPS

LEMMA InitIInv == Init => IInv
BY MergeRequestsAssumption
   DEF Init, IInv, TypeOK, Requests, Steps, States, Idle, NumbersDense, Exists, ReqInv,
       HistoryInv, AnchorInv, AnchorKept

(* What every step of a handler that is not a creation leaves alone. *)
LEMMA RowsFrame ==
    ASSUME [Next]_vars, ~ \E c \in Clients : InsertRow(c)
    PROVE  UNCHANGED <<repoOf, number>>
<1>1. ASSUME NEW c \in Clients, Request(c) PROVE UNCHANGED <<repoOf, number>>
  BY <1>1 DEF Request, ResolveHead, SetState, UpdateHead, ReadMax, Pin, Unpin, Abandon, rows
<1>2. CASE Reconcile
  BY <1>2 DEF Reconcile, ListRepos, ListRefs, CheckRef, DeleteRef, rows
<1>3. CASE Restart \/ UNCHANGED vars
  BY <1>3 DEF Restart, vars, rows
<1> QED BY <1>1, <1>2, <1>3 DEF Next

(* The row an INSERT adds. *)
LEMMA RowAdded ==
    ASSUME TypeOK, ReqInv, NEW c \in Clients, NEW i \in Ids, InsertRow(c), Insert(c, i)
    PROVE  /\ repoOf[i] = NoRepo
           /\ req[c].at = "insert" /\ req[c].repo \in Repos /\ req[c].num \in Nat
           /\ \A k \in Rows(req[c].repo) : number[k] # req[c].num
           /\ \A k \in Ids : repoOf'[k] = IF k = i THEN req[c].repo ELSE repoOf[k]
           /\ \A k \in Ids : number'[k] = IF k = i THEN req[c].num ELSE number[k]
<1>1. req[c].at = "insert" /\ req[c].repo \in Repos /\ req[c].num \in Nat
  BY DEF InsertRow, ReqInv, TypeOK, Requests
<1>2. \A k \in Rows(req[c].repo) : number[k] # req[c].num
  <2>1. CASE \E k \in Rows(req[c].repo) : number[k] = req[c].num
    <3>1. CASE \A k \in Rows(req[c].repo) : number[k] # req[c].num
      BY <3>1
    <3>2. CASE UNCHANGED repoOf
      <4>1. repoOf[i] = NoRepo /\ repoOf'[i] = req[c].repo
        BY DEF Insert, TypeOK
      <4> QED BY <3>2, <4>1, <1>1, MergeRequestsAssumption
    <3> QED BY <3>1, <3>2 DEF InsertRow
  <2> QED BY <2>1
<1> QED BY <1>1, <1>2 DEF Insert, TypeOK

-----------------------------------------------------------------------------
(* Types. *)

LEMMA TypeStep == ASSUME TypeOK, ReqInv, AnchorInv, NumbersDense, [Next]_vars PROVE TypeOK'
<1> USE MergeRequestsAssumption DEF TypeOK, Requests, Steps
<1>1. ASSUME NEW c \in Clients, NEW r \in Repos, ResolveHead(c, r) PROVE TypeOK'
  BY <1>1 DEF ResolveHead, Idle, rows, recon, faults
<1>2. ASSUME NEW c \in Clients, NEW i \in Ids, SetState(c, i) PROVE TypeOK'
  <2>1. state' \in [Ids -> States] /\ left' \subseteq Ids
    BY <1>2 DEF SetState
  <2>2. req' \in [Clients -> Requests]
    BY <1>2 DEF SetState, On
  <2> QED BY <1>2, <2>1, <2>2 DEF SetState, recon, faults
<1>3. ASSUME NEW c \in Clients, NEW i \in Ids, UpdateHead(c, i) PROVE TypeOK'
  BY <1>3 DEF UpdateHead, On, rows, recon, faults
<1>4. ASSUME NEW c \in Clients, ReadMax(c) PROVE TypeOK'
  <2>1. PICK n \in 1..(MaxMrs + 1) :
           req' = [req EXCEPT ![c].at = "insert", ![c].num = n]
    BY <1>4 DEF ReadMax
  <2>2. n \in Nat
    BY MergeRequestsAssumption DEF MergeRequestsAssumption
  <2>3. [req[c] EXCEPT !.at = "insert", !.num = n] \in Requests
    BY <2>2
  <2>4. req' \in [Clients -> Requests]
    BY <2>1, <2>3
  <2> QED BY <1>4, <2>4 DEF ReadMax, rows, recon, faults
<1>5. ASSUME NEW c \in Clients, InsertRow(c) PROVE TypeOK'
  <2>1. req[c].repo \in Repos
    BY <1>5 DEF InsertRow, ReqInv
  <2>2. repoOf' \in [Ids -> Repos \cup {NoRepo}] /\ number' \in [Ids -> Nat]
        /\ req' \in [Clients -> Requests]
    BY <1>5, <2>1 DEF InsertRow, Insert, Done, Idle
  <2> QED BY <1>5, <2>2 DEF InsertRow, recon, faults
<1>6. ASSUME NEW c \in Clients, Pin(c) PROVE TypeOK'
  <2>1. req[c].mr \in Ids /\ req[c].repo \in Repos /\ req[c].num = number[req[c].mr]
        /\ req[c].repo = repoOf[req[c].mr]
    BY <1>6 DEF Pin, ReqInv
  <2>2. req[c].num \in Nat \ {0}
    BY <2>1 DEF NumbersDense, Exists
  <2>3. req' \in [Clients -> Requests]
    BY <1>6 DEF Pin, Done, Idle
  <2> QED BY <1>6, <2>1, <2>2, <2>3 DEF Pin, GitFails, rows, recon
<1>7. ASSUME NEW c \in Clients, Unpin(c) PROVE TypeOK'
  BY <1>7 DEF Unpin, Done, Idle, GitFails, rows, recon
<1>8. ASSUME NEW c \in Clients, Abandon(c) PROVE TypeOK'
  BY <1>8 DEF Abandon, Done, Idle, rows, recon, faults
<1>9. CASE ListRepos
  BY <1>9 DEF ListRepos, rows, faults
<1>10. ASSUME NEW r \in Repos, ListRefs(r) PROVE TypeOK'
  BY <1>10 DEF ListRefs, GitFails, rows
<1>11. ASSUME NEW n \in refs, CheckRef(n) PROVE TypeOK'
  BY <1>11 DEF CheckRef, DbFails, rows
<1>12. CASE DeleteRef
  <2>1. scanned \in Repos
    BY <1>12 DEF DeleteRef, AnchorInv
  <2>2. anchors[scanned] \ {doomed} \in SUBSET (Nat \ {0})
    BY <2>1
  <2>3. anchors' \in [Repos -> SUBSET (Nat \ {0})]
    BY <1>12, <2>2 DEF DeleteRef
  <2>4. refs' \subseteq Nat \ {0}
    BY <1>12 DEF DeleteRef
  <2> QED BY <1>12, <2>3, <2>4 DEF DeleteRef, GitFails, rows
<1>13. CASE Restart
  BY <1>13 DEF Restart, Idle, rows
<1>14. CASE UNCHANGED vars
  BY <1>14 DEF vars, rows, recon, faults
<1> QED BY <1>1, <1>2, <1>3, <1>4, <1>5, <1>6, <1>7, <1>8, <1>9, <1>10, <1>11, <1>12, <1>13,
           <1>14 DEF Next, Request, Reconcile

-----------------------------------------------------------------------------
(* Numbers: only an INSERT touches them, and it extends the sequence of    *)
(* its repository although the maximum was read in an earlier statement.   *)

HasNumberNext(r, n) == \E i \in Ids : repoOf'[i] = r /\ number'[i] = n

LEMMA NumbersStep ==
    ASSUME TypeOK, ReqInv, NumbersDense, [Next]_vars
    PROVE  /\ NumbersDense'
           /\ \A r \in Repos, n \in Nat : HasNumber(r, n) => HasNumberNext(r, n)
           /\ \A i \in Ids : Exists(i) => UNCHANGED <<repoOf[i], number[i]>>
<1> USE MergeRequestsAssumption
<1>1. CASE ~ \E c \in Clients : InsertRow(c)
  <2>1. UNCHANGED <<repoOf, number>>
    BY <1>1, RowsFrame
  <2> QED BY <2>1 DEF NumbersDense, Exists, Rows, HasNumber, HasNumberNext
<1>2. ASSUME NEW c \in Clients, InsertRow(c), UNCHANGED <<repoOf, number>>
      PROVE  /\ NumbersDense'
             /\ \A r \in Repos, n \in Nat : HasNumber(r, n) => HasNumberNext(r, n)
             /\ \A i \in Ids : Exists(i) => UNCHANGED <<repoOf[i], number[i]>>
  BY <1>2 DEF NumbersDense, Exists, Rows, HasNumber, HasNumberNext
<1>3. ASSUME NEW c \in Clients, NEW i \in Ids, InsertRow(c), Insert(c, i)
      PROVE  /\ NumbersDense'
             /\ \A r \in Repos, n \in Nat : HasNumber(r, n) => HasNumberNext(r, n)
             /\ \A k \in Ids : Exists(k) => UNCHANGED <<repoOf[k], number[k]>>
  <2> DEFINE q == req[c].repo
             m == req[c].num
  <2>1. /\ repoOf[i] = NoRepo
        /\ q \in Repos /\ m \in Nat
        /\ \A k \in Rows(q) : number[k] # m
        /\ \A k \in Ids : repoOf'[k] = IF k = i THEN q ELSE repoOf[k]
        /\ \A k \in Ids : number'[k] = IF k = i THEN m ELSE number[k]
    BY <1>3, RowAdded
  <2>2. m >= 1 /\ (m = 1 \/ HasNumber(q, m - 1))
    BY <1>3 DEF InsertRow, ReqInv
  <2>3. \A r \in Repos, n \in Nat : HasNumber(r, n) => HasNumberNext(r, n)
    BY <2>1 DEF HasNumber, HasNumberNext, Rows
  <2>4. \A k \in Ids : Exists(k) => UNCHANGED <<repoOf[k], number[k]>>
    BY <2>1 DEF Exists
  <2>5. ASSUME NEW k \in Ids, repoOf'[k] # NoRepo
        PROVE  /\ number'[k] >= 1
               /\ \A l \in Ids : repoOf'[l] = repoOf'[k] /\ number'[l] = number'[k] => l = k
               /\ number'[k] > 1 => HasNumberNext(repoOf'[k], number'[k] - 1)
    <3>1. CASE k = i
      <4>1. repoOf'[k] = q /\ number'[k] = m
        BY <2>1, <3>1
      <4>2. \A l \in Ids : repoOf'[l] = q /\ number'[l] = m => l = i
        BY <2>1 DEF Rows
      <4>3. m > 1 => HasNumberNext(q, m - 1)
        BY <2>1, <2>2, <2>3
      <4> QED BY <2>2, <3>1, <4>1, <4>2, <4>3
    <3>2. CASE k # i
      <4>1. Exists(k) /\ repoOf'[k] = repoOf[k] /\ number'[k] = number[k]
        BY <2>1, <2>5, <3>2 DEF Exists
      <4>2. repoOf[k] \in Repos /\ number[k] \in Nat
        BY <4>1 DEF Exists, TypeOK
      <4>3. /\ number[k] >= 1
            /\ \A l \in Rows(repoOf[k]) : number[l] = number[k] => l = k
            /\ number[k] > 1 => HasNumber(repoOf[k], number[k] - 1)
        BY <4>1 DEF NumbersDense, HasNumber
      <4>4. \A l \in Ids : repoOf'[l] = repoOf[k] /\ number'[l] = number[k] => l = k
        BY <2>1, <4>1, <4>3 DEF Rows
      <4>5. number[k] > 1 => HasNumberNext(repoOf[k], number[k] - 1)
        BY <2>3, <4>2, <4>3
      <4> QED BY <4>1, <4>3, <4>4, <4>5
    <3> QED BY <3>1, <3>2
  <2>6. NumbersDense'
    BY <2>5 DEF NumbersDense, Exists, Rows, HasNumberNext
  <2> QED BY <2>3, <2>4, <2>6
<1> QED BY <1>1, <1>2, <1>3 DEF InsertRow

-----------------------------------------------------------------------------
(* Requests in progress. *)

LEMMA ReqStep ==
    ASSUME TypeOK, ReqInv, NumbersDense, [Next]_vars
    PROVE  ReqInv'
<1> USE MergeRequestsAssumption
<1> DEFINE Fine(c) ==
       /\ req[c].at # "idle" => req[c].repo \in Repos
       /\ req[c].at = "insert" =>
             req[c].num >= 1 /\ (req[c].num = 1 \/ HasNumber(req[c].repo, req[c].num - 1))
       /\ req[c].at \in {"pin", "repin", "unpin"} =>
             /\ req[c].mr \in Ids
             /\ req[c].repo = repoOf[req[c].mr]
             /\ req[c].num = number[req[c].mr]
       /\ req[c].at = "unpin" => req[c].mr \in left
<1>0. \A c \in Clients : Fine(c)
  BY DEF ReqInv
<1>1. /\ \A r \in Repos, n \in Nat : HasNumber(r, n) => HasNumberNext(r, n)
      /\ \A i \in Ids : Exists(i) => UNCHANGED <<repoOf[i], number[i]>>
  BY NumbersStep
<1>2. left \subseteq left'
  <2>1. ASSUME NEW c \in Clients, Request(c) PROVE left \subseteq left'
    BY <2>1 DEF Request, ResolveHead, SetState, UpdateHead, ReadMax, InsertRow, Pin, Unpin, Abandon
  <2>2. CASE Reconcile \/ Restart \/ UNCHANGED vars
    BY <2>2 DEF Reconcile, ListRepos, ListRefs, CheckRef, DeleteRef, Restart, vars
  <2> QED BY <2>1, <2>2 DEF Next
(* A request that does not step stays fine. *)
<1>3. ASSUME NEW c \in Clients, req'[c] = req[c] PROVE Fine(c)'
  <2>1. Fine(c) /\ req[c] \in Requests
    BY <1>0 DEF TypeOK
  <2>2. req[c].at = "insert" =>
          req[c].num = 1 \/ HasNumberNext(req[c].repo, req[c].num - 1)
    BY <1>1, <2>1 DEF Requests
  <2>3. req[c].at \in {"pin", "repin", "unpin"} =>
          /\ repoOf'[req[c].mr] = repoOf[req[c].mr]
          /\ number'[req[c].mr] = number[req[c].mr]
    BY <1>1, <2>1 DEF Exists
  <2>4. req[c].at = "unpin" => req[c].mr \in left'
    BY <1>2, <2>1
  <2>5. req[c].at = "insert" =>
          req'[c].num = 1 \/ HasNumber(req[c].repo, req[c].num - 1)'
    BY <1>3, <2>2 DEF HasNumber, HasNumberNext, Rows
  <2> QED BY <1>3, <2>1, <2>3, <2>4, <2>5
<1>4. ASSUME NEW c \in Clients, req'[c] = Idle PROVE Fine(c)'
  BY <1>4 DEF Idle
<1>5. ASSUME NEW c \in Clients, Request(c) PROVE \A d \in Clients : Fine(d)'
  <2>1. \A d \in Clients : d # c => req'[d] = req[d]
    BY <1>5 DEF Request, ResolveHead, SetState, UpdateHead, ReadMax, InsertRow, Insert, Pin,
               Unpin, Abandon, Done, TypeOK
  <2>2. Fine(c)'
    <3>1. ASSUME NEW r \in Repos, ResolveHead(c, r) PROVE Fine(c)'
      <4>1. req'[c].at = "create" /\ req'[c].repo \in Repos
        BY <3>1 DEF ResolveHead, TypeOK, Idle
      <4> QED BY <4>1
    <3>2. ASSUME NEW i \in Ids, SetState(c, i) PROVE Fine(c)'
      <4>1. CASE req' = req
        BY <1>3, <4>1
      <4>2. ASSUME req' = [req EXCEPT ![c] = On("unpin", i)], i \in left' PROVE Fine(c)'
        <5>1. req'[c] = On("unpin", i) /\ repoOf[i] \in Repos
              /\ UNCHANGED <<repoOf, number>>
          BY <3>2, <4>2 DEF SetState, TypeOK
        <5> QED BY <4>2, <5>1 DEF On
      <4> QED BY <3>2, <4>1, <4>2 DEF SetState
    <3>3. ASSUME NEW i \in Ids, UpdateHead(c, i) PROVE Fine(c)'
      <4>1. req'[c] = On("repin", i) /\ repoOf[i] \in Repos
            /\ UNCHANGED <<repoOf, number>>
        BY <3>3 DEF UpdateHead, TypeOK, rows
      <4> QED BY <4>1 DEF On
    <3>4. CASE ReadMax(c)
      <4>1. PICK n \in 1..(MaxMrs + 1) :
               NextNumber(req[c].repo, n)
               /\ req' = [req EXCEPT ![c].at = "insert", ![c].num = n]
        BY <3>4 DEF ReadMax
      <4>2. req'[c].at = "insert" /\ req'[c].num = n /\ req'[c].repo = req[c].repo
        BY <4>1 DEF TypeOK, Requests
      <4>3. req[c].repo \in Repos
        BY <1>0, <3>4 DEF ReadMax
      <4>4. n = 1 \/ HasNumber(req[c].repo, n - 1)
        BY <4>1 DEF NextNumber, HasNumber
      <4>5. n = 1 \/ HasNumberNext(req'[c].repo, req'[c].num - 1)
        BY <1>1, <4>1, <4>2, <4>3, <4>4
      <4>6. req'[c].num \in Nat /\ req'[c].num >= 1
        BY <4>2, MergeRequestsAssumption DEF MergeRequestsAssumption
      <4>7. req'[c].num = 1 \/ HasNumber(req[c].repo, req[c].num - 1)'
        BY <4>2, <4>5 DEF HasNumber, HasNumberNext, Rows
      <4> QED BY <4>2, <4>3, <4>6, <4>7
    <3>5. CASE InsertRow(c)
      <4>1. CASE Done(c)
        BY <1>4, <4>1 DEF Done, TypeOK
      <4>2. ASSUME NEW i \in Ids, Insert(c, i) PROVE Fine(c)'
        <5>1. req'[c].at = "pin" /\ req'[c].mr = i /\ req'[c].num = req[c].num
              /\ req'[c].repo = req[c].repo
          BY <4>2 DEF Insert, TypeOK, Requests
        <5>2. repoOf'[i] = req[c].repo /\ number'[i] = req[c].num /\ req[c].repo \in Repos
          BY <3>5, <4>2, RowAdded
        <5> QED BY <5>1, <5>2
      <4> QED BY <3>5, <4>1, <4>2 DEF InsertRow
    <3>6. CASE Pin(c) \/ Unpin(c) \/ Abandon(c)
      BY <1>4, <3>6 DEF Pin, Unpin, Abandon, Done, TypeOK
    <3> QED BY <1>5, <3>1, <3>2, <3>3, <3>4, <3>5, <3>6 DEF Request
  <2> QED BY <1>3, <2>1, <2>2
<1>6. CASE Reconcile \/ UNCHANGED vars
  <2>1. req' = req
    BY <1>6 DEF Reconcile, ListRepos, ListRefs, CheckRef, DeleteRef, vars
  <2> QED BY <1>3, <2>1 DEF ReqInv
<1>7. CASE Restart
  BY <1>4, <1>7 DEF Restart, ReqInv
<1>8. (\A c \in Clients : Fine(c)') => ReqInv'
  BY DEF ReqInv
<1> QED BY <1>5, <1>6, <1>7, <1>8 DEF Next

-----------------------------------------------------------------------------
(* Histories. *)

LEMMA HistoryStep ==
    ASSUME TypeOK, ReqInv, NumbersDense, HistoryInv, [Next]_vars
    PROVE  HistoryInv'
<1> USE MergeRequestsAssumption DEF TypeOK, HistoryInv, Exists
<1>1. \A i \in Ids : Exists(i) => repoOf'[i] = repoOf[i]
  BY NumbersStep
<1>2. \A i \in pinned \cup left : repoOf'[i] # NoRepo
  BY <1>1
<1>3. ASSUME NEW c \in Clients, Request(c) PROVE HistoryInv'
  <2>1. ASSUME NEW i \in Ids, SetState(c, i) PROVE HistoryInv'
    <3>1. PICK s \in States :
             /\ state' = [state EXCEPT ![i] = s]
             /\ left' = IF s = "open" THEN left ELSE left \cup {i}
      BY <2>1 DEF SetState
    <3>2. \A k \in Ids \ left' : state'[k] = "open"
      BY <3>1
    <3>3. left' \subseteq left \cup {i} /\ repoOf[i] # NoRepo
          /\ UNCHANGED <<repoOf, pinned>>
      BY <2>1, <3>1 DEF SetState
    <3> QED BY <3>2, <3>3
  <2>2. CASE Pin(c)
    <3>1. repoOf[req[c].mr] \in Repos
      BY <2>2 DEF Pin, ReqInv
    <3> QED BY <2>2, <3>1 DEF Pin, rows
  <2>3. CASE InsertRow(c)
    BY <1>2, <2>3 DEF InsertRow
  <2>4. CASE (\E r \in Repos : ResolveHead(c, r)) \/ (\E i \in Ids : UpdateHead(c, i))
             \/ ReadMax(c) \/ Unpin(c) \/ Abandon(c)
    BY <2>4 DEF ResolveHead, UpdateHead, ReadMax, Unpin, Abandon, rows
  <2> QED BY <1>3, <2>1, <2>2, <2>3, <2>4 DEF Request
<1>4. CASE Reconcile \/ Restart \/ UNCHANGED vars
  BY <1>4 DEF Reconcile, ListRepos, ListRefs, CheckRef, DeleteRef, Restart, vars, rows
<1> QED BY <1>3, <1>4 DEF Next

-----------------------------------------------------------------------------
(* Anchors belong to rows, and the reconciler dooms only those that left.  *)

LEMMA AnchorStep ==
    ASSUME TypeOK, ReqInv, NumbersDense, HistoryInv, AnchorInv, [Next]_vars
    PROVE  AnchorInv'
<1> USE MergeRequestsAssumption DEF TypeOK
(* All that is said of rows survives any step. *)
<1>1. /\ \A r \in Repos, n \in Nat : HasNumber(r, n) => HasNumberNext(r, n)
      /\ \A i \in Ids : Exists(i) => repoOf'[i] = repoOf[i] /\ number'[i] = number[i]
  BY NumbersStep
<1>2. ASSUME UNCHANGED anchors, UNCHANGED <<scanned, refs, doomed, dbErrors>>, left \subseteq left'
      PROVE  AnchorInv'
  <2>1. \A r \in Repos : \A n \in anchors[r] : HasNumberNext(r, n)
    BY <1>1 DEF AnchorInv
  <2>2. \A n \in refs : HasNumberNext(scanned, n)
    BY <1>1 DEF AnchorInv
  <2>3. doomed # 0 =>
          \E i \in Ids : repoOf'[i] = scanned /\ number'[i] = doomed
                         /\ (dbErrors = 0 => i \in left')
    BY <1>1, <1>2 DEF AnchorInv, Rows, Exists
  <2> QED BY <1>2, <2>1, <2>2, <2>3 DEF AnchorInv, HasNumber, HasNumberNext, Rows
<1>3. ASSUME NEW c \in Clients, Request(c) PROVE AnchorInv'
  <2>1. UNCHANGED <<scanned, refs, doomed, dbErrors>> /\ left \subseteq left'
    BY <1>3 DEF Request, ResolveHead, SetState, UpdateHead, ReadMax, InsertRow, Pin, Unpin,
                Abandon, recon, faults
  <2>2. CASE UNCHANGED anchors
    BY <1>2, <2>1, <2>2
  <2>3. ASSUME Pin(c) \/ Unpin(c) PROVE AnchorInv'
    <3>1. UNCHANGED <<repoOf, number>>
      BY <2>3 DEF Pin, Unpin, rows
    <3>2. HasNumber(req[c].repo, req[c].num)
      BY <2>3 DEF Pin, Unpin, ReqInv, HasNumber, Rows
    <3>3. \A r \in Repos : anchors'[r] \subseteq anchors[r] \cup
                           (IF r = req[c].repo THEN {req[c].num} ELSE {})
      BY <2>3 DEF Pin, Unpin
    <3>4. \A r \in Repos : \A n \in anchors'[r] : HasNumber(r, n)
      BY <3>2, <3>3 DEF AnchorInv
    <3> QED BY <2>1, <3>1, <3>4 DEF AnchorInv, HasNumber, Rows
  <2>4. Pin(c) \/ Unpin(c) \/ UNCHANGED anchors
    BY <1>3 DEF Request, ResolveHead, SetState, UpdateHead, ReadMax, InsertRow, Abandon
  <2> QED BY <2>2, <2>3, <2>4
<1>4. CASE ListRepos
  BY <1>4 DEF ListRepos, AnchorInv, rows, HasNumber, Rows
<1>5. ASSUME NEW r \in Repos, ListRefs(r) PROVE AnchorInv'
  BY <1>5 DEF ListRefs, AnchorInv, rows, HasNumber, Rows
<1>6. ASSUME NEW n \in refs, CheckRef(n) PROVE AnchorInv'
  <2>1. /\ UNCHANGED <<repoOf, number, anchors, scanned, left>>
        /\ refs' \subseteq refs /\ dbErrors' \in Nat /\ scanned \in Repos
    BY <1>6 DEF CheckRef, DbFails, rows, AnchorInv
  <2>2. PICK i \in Rows(scanned) : number[i] = n
    BY <1>6 DEF AnchorInv, HasNumber
  <2>3. doomed' # 0 => doomed' = n /\ (dbErrors' = 0 => i \in left)
    <3>1. CASE doomed' = (IF Open(scanned, n) THEN 0 ELSE n)
      BY <2>2, <3>1 DEF Open, HistoryInv, Rows
    <3>2. CASE DbFails /\ doomed' = n
      BY <3>2 DEF DbFails
    <3> QED BY <1>6, <3>1, <3>2 DEF CheckRef
  <2> QED BY <2>1, <2>2, <2>3 DEF AnchorInv, HasNumber, Rows
<1>7. CASE DeleteRef
  <2>1. /\ UNCHANGED <<repoOf, number, scanned>>
        /\ refs' \subseteq refs /\ doomed' = 0 /\ scanned \in Repos
        /\ \A r \in Repos : anchors'[r] \subseteq anchors[r]
    BY <1>7 DEF DeleteRef, rows, AnchorInv
  <2> QED BY <2>1 DEF AnchorInv, HasNumber, Rows
<1>8. CASE Restart
  BY <1>8 DEF Restart, AnchorInv, rows, HasNumber, Rows
<1>9. CASE UNCHANGED vars
  BY <1>2, <1>9 DEF vars, recon, faults
<1> QED BY <1>3, <1>4, <1>5, <1>6, <1>7, <1>8, <1>9 DEF Next, Reconcile

LEMMA KeptStep ==
    ASSUME TypeOK, ReqInv, NumbersDense, HistoryInv, AnchorInv, AnchorKept, [Next]_vars
    PROVE  AnchorKept'
<1> USE MergeRequestsAssumption DEF TypeOK
<1>1. \A i \in Ids : Exists(i) => repoOf'[i] = repoOf[i] /\ number'[i] = number[i]
  BY NumbersStep
<1>2. \A i \in pinned : i \in Ids /\ repoOf[i] \in Repos
      /\ repoOf'[i] = repoOf[i] /\ number'[i] = number[i]
  BY <1>1 DEF HistoryInv, Exists
<1>3. ASSUME UNCHANGED <<anchors, pinned>>, left \subseteq left', dbErrors' = 0 => dbErrors = 0
      PROVE  AnchorKept'
  BY <1>2, <1>3 DEF AnchorKept
<1>4. ASSUME NEW c \in Clients, Pin(c) PROVE AnchorKept'
  <2>1. /\ req[c].mr \in Ids /\ req[c].repo \in Repos
        /\ req[c].repo = repoOf[req[c].mr] /\ req[c].num = number[req[c].mr]
    BY <1>4 DEF Pin, ReqInv
  <2> QED BY <1>2, <1>4, <2>1 DEF Pin, AnchorKept, rows
<1>5. ASSUME NEW c \in Clients, Unpin(c) PROVE AnchorKept'
  <2>1. /\ req[c].mr \in Ids /\ req[c].repo \in Repos /\ req[c].mr \in left
        /\ req[c].repo = repoOf[req[c].mr] /\ req[c].num = number[req[c].mr]
    BY <1>5 DEF Unpin, ReqInv
  <2>2. \A i \in pinned \ left : repoOf[i] = req[c].repo => number[i] # req[c].num
    BY <1>2, <2>1 DEF NumbersDense, Exists, Rows
  <2> QED BY <1>2, <1>5, <2>1, <2>2 DEF Unpin, AnchorKept, rows
<1>6. CASE DeleteRef
  <2>1. CASE dbErrors # 0
    BY <1>6, <2>1 DEF DeleteRef, AnchorKept
  <2>2. CASE dbErrors = 0
    <3>1. PICK k \in Rows(scanned) : number[k] = doomed /\ k \in left
      BY <1>6, <2>2 DEF DeleteRef, AnchorInv
    <3>2. \A i \in pinned \ left : repoOf[i] = scanned => number[i] # doomed
      BY <1>2, <3>1 DEF NumbersDense, Exists, Rows
    <3> QED BY <1>2, <1>6, <3>2 DEF DeleteRef, AnchorKept, rows
  <2> QED BY <2>1, <2>2
<1>7. ASSUME NEW c \in Clients, Request(c) PROVE AnchorKept'
  <2>1. CASE Pin(c) \/ Unpin(c)
    BY <1>4, <1>5, <2>1
  <2>2. CASE ~(Pin(c) \/ Unpin(c))
    <3>1. UNCHANGED <<anchors, pinned, dbErrors>> /\ left \subseteq left'
      BY <1>7, <2>2 DEF Request, ResolveHead, SetState, UpdateHead, ReadMax, InsertRow,
                        Abandon, faults
    <3> QED BY <1>3, <3>1
  <2> QED BY <2>1, <2>2
<1>8. CASE ListRepos \/ (\E r \in Repos : ListRefs(r)) \/ (\E n \in refs : CheckRef(n))
           \/ Restart \/ UNCHANGED vars
  <2>1. UNCHANGED <<anchors, pinned, left>> /\ (dbErrors' = 0 => dbErrors = 0)
    BY <1>8 DEF ListRepos, ListRefs, CheckRef, DbFails, Restart, vars, faults
  <2> QED BY <1>3, <2>1
<1> QED BY <1>6, <1>7, <1>8 DEF Next, Reconcile

-----------------------------------------------------------------------------
(* The theorems. *)

LEMMA IInvStep == IInv /\ [Next]_vars => IInv'
BY TypeStep, NumbersStep, ReqStep, HistoryStep, AnchorStep, KeptStep DEF IInv

(* The inductive invariant holds in every reachable state. *)
THEOREM Invariance == Spec => []IInv
BY InitIInv, IInvStep, PTL DEF Spec

(* Rows, anchors, requests and the reconciler stay within their types.  *)
THEOREM TypeCorrect == Spec => []TypeOK
<1>1. IInv => TypeOK
  BY DEF IInv
<1> QED BY <1>1, Invariance, PTL

(* create_mr numbers the requests of each repository 1, 2, ... without a   *)
(* duplicate or a gap, however many creations run at once.                 *)
THEOREM NumbersAreDense == Spec => []NumbersDense
<1>1. IInv => NumbersDense
  BY DEF IInv
<1> QED BY <1>1, Invariance, PTL

(* The anchor of a request that never left open is not lost to a closing   *)
(* handler, to a restart or to the reconciler, unless a read failed there. *)
THEOREM AnchorsAreKept == Spec => []AnchorKept
<1>1. IInv => AnchorKept
  BY DEF IInv
<1> QED BY <1>1, Invariance, PTL
===============================================================================
