---------------------------- MODULE Registry_proofs ----------------------------
(***************************************************************************)
(* Proofs about the storage of the registry and the handlers that use it,  *)
(* in the server with its uploads and its collector, for any number of     *)
(* clients, versions, files and contents, and for every protocol.          *)
(***************************************************************************)
EXTENDS OciUploads_proofs, WellFoundedInduction, FiniteSetTheorems

-----------------------------------------------------------------------------
(* The least and the greatest of a set of versions. *)

LEMMA LeastIn ==
    ASSUME NEW S \in SUBSET Nat, S # {}
    PROVE  Least(S) \in S /\ \A w \in S : Least(S) <= w
<1>1. S \subseteq Nat
  OBVIOUS
<1>2. PICK v \in S : \A w \in S : <<w, v>> \notin OpToRel(<, Nat)
  BY <1>1, WFMin, NatLessThanWellFounded, Zenon
<1>3. \A w \in S : w \in Nat /\ v \in Nat
  OBVIOUS
<1>4. \A w \in S : ~(w < v)
  BY <1>2, <1>3, Zenon DEF OpToRel
<1>5. \A w \in S : v <= w
  BY <1>3, <1>4
<1> QED BY <1>5 DEF Least

\* Of a finite set of numbers, the one with the fewest above it is the greatest.
LEMMA MaxIn ==
    ASSUME NEW S \in SUBSET Nat, IsFiniteSet(S), S # {}
    PROVE  Max(S) \in S
<1> DEFINE above(x) == {y \in S : y > x}
           sizes    == {Cardinality(above(x)) : x \in S}
<1>1. \A x \in S : IsFiniteSet(above(x)) /\ Cardinality(above(x)) \in Nat
  <2> SUFFICES ASSUME NEW x \in S PROVE IsFiniteSet(above(x)) /\ Cardinality(above(x)) \in Nat
    OBVIOUS
  <2>1. above(x) \in SUBSET S
    OBVIOUS
  <2> HIDE DEF above
  <2> QED BY <2>1, FS_Subset, FS_CardinalityType
<1>2. sizes \in SUBSET Nat /\ sizes # {}
  BY <1>1
<1>3. PICK v \in S : \A x \in S : Cardinality(above(v)) <= Cardinality(above(x))
  <2> HIDE DEF above
  <2>1. Least(sizes) \in sizes /\ \A n \in sizes : Least(sizes) <= n
    BY <1>2, LeastIn
  <2> QED BY <2>1
<1>4. \A y \in S : v >= y
  <2> SUFFICES ASSUME NEW y \in S, ~(v >= y) PROVE FALSE
    OBVIOUS
  <2>1. above(y) \in SUBSET above(v) /\ y \in above(v) /\ y \notin above(y)
    <3>1. v \in Nat /\ y \in Nat /\ y > v
      OBVIOUS
    <3>2. \A x \in S : x \in Nat /\ (x > y => x > v)
      BY <3>1
    <3>3. ~(y > y)
      BY <3>1
    <3> QED BY <3>1, <3>2, <3>3
  <2>2. Cardinality(above(y)) < Cardinality(above(v))
    <3> HIDE DEF above
    <3>1. /\ Cardinality(above(y)) <= Cardinality(above(v))
          /\ Cardinality(above(v)) = Cardinality(above(y)) => above(v) = above(y)
      BY <1>1, <2>1, FS_Subset
    <3> QED BY <1>1, <2>1, <3>1
  <2> QED BY <1>1, <1>3, <2>2
<1> QED BY <1>4 DEF Max

LEMMA VersAreNat == Vers \in SUBSET Nat /\ IsFiniteSet(Vers) /\ Doc \in Vers /\ Doc \notin Versions \cup References
<1>1. IsFiniteSet((Versions \cup References) \cup {Doc})
  BY VersionsAssumption, FS_AddElement
<1> QED BY <1>1, VersionsAssumption DEF Vers, Doc

LEMMA LeastVersion == ASSUME NEW S \in SUBSET Vers, S # {} PROVE Least(S) \in S
BY VersAreNat, LeastIn

LEMMA GreatestVersion == ASSUME NEW S \in SUBSET Vers, S # {} PROVE Max(S) \in S
<1>1. S \in SUBSET Nat /\ IsFiniteSet(S)
  BY VersAreNat, FS_Subset
<1> QED BY <1>1, MaxIn

-----------------------------------------------------------------------------
(* The inductive invariant, request by request. *)

\* Flows that never work on the document, and flows that walk over a list.
Numbered == {"overwrite", "merge", "prune", "amend", "image", "serve", "head", "resolve"}
Walking  == {"remove", "drop", "tag", "index", "image", "amend"}
OnImages == {"image", "resolve", "layer", "unlink"}
OnFiles  == {"overwrite", "merge", "prune", "edit", "tag", "amend", "mark", "serve", "head"}

Here(r) == {r.ver} \cup r.vers     \* the versions a walk has still to come to

\* How the parameters and the locals of a handler fit together.
WalkFits(r) ==
    /\ r.flow \notin Walking => r.vers = {}
    /\ r.tail => r.flow = "remove" /\ Doc \in r.aim
    /\ r.flow \in Numbered => Doc \notin Here(r)
    /\ r.flow \in {"remove", "drop"} /\ r.pc \notin {"list", "done"} => Here(r) \subseteq r.aim
    /\ r.flow \in {"image", "amend"} => Here(r) \subseteq r.aim
    /\ r.flow = "index" /\ r.pc = "read" => Here(r) \subseteq r.aim
    /\ r.flow \in {"index", "amend"} => r.ver \notin r.vers \/ r.pc = "list"
    /\ r.flow = "tag" /\ r.pc \in {"check", "save"} => r.vers = {}
    /\ r.flow = "remove" /\ r.pc = "check" => r.vers = {} /\ ~r.tail

FileFits(r) ==
    /\ r.flow \in {"prune", "amend"} => r.data = NoData
    /\ r.flow = "layer" => r.data # NoData
    /\ r.flow \in {"overwrite", "merge"} /\ r.pc \in {"blob", "cull"} => r.data # NoData
    /\ r.flow = "merge" /\ r.pc = "cull" => r.data \notin r.todo
    /\ r.flow = "overwrite" =>
          /\ r.row.source = r.source /\ r.row.notes = {}
          /\ r.pc = "blob" \/ r.data = NoData => r.row.files = {}
          /\ DigestsOf(r.row) \subseteq {r.data}

NoteFits(r) ==
    /\ r.flow \in {"edit", "tag"} => r.ver = Doc /\ r.note \in Notes /\ r.row.files = {}
    /\ r.flow \in {"edit", "tag"} => r.row.source = ""
    /\ r.flow = "edit" /\ r.pc = "check" => r.note[2] # Doc
    /\ r.flow = "tag" /\ r.pc = "check" => r.add
    /\ r.flow = "amend" => r.note \in Notes
    /\ r.flow \in {"serve", "head"} => r.note = NoData
    /\ r.flow \in {"merge", "mark"} /\ r.pc = "rev" => r.note \in Notes

ImageFits(r) ==
    /\ r.flow = "image" =>
          \E m \in Manifests :
             /\ r.note = Holds(m) /\ r.file = TheFile
             /\ r.row = [files |-> Layers, source |-> r.source, notes |-> {Holds(m)}]
             /\ Here(r) \subseteq References /\ Here(r) \cap Manifests \subseteq {m}
    /\ r.flow = "resolve" =>
          \E m \in Manifests \cup {Doc} :
             /\ r.note = Holds(m)
             /\ r.ver \in References /\ r.file = TheFile
             /\ r.ver \in Manifests => m \in {r.ver, Doc}
    /\ r.flow \in OnImages => format = "oci"
    /\ r.flow \in OnFiles => format # "oci"

Formed(r) == WalkFits(r) /\ FileFits(r) /\ NoteFits(r) /\ ImageFits(r)

\* The versions that a request has still to write.
Pending(r) ==
    IF r.pc = "done" THEN {}
    ELSE CASE r.flow \in {"overwrite", "edit", "tag", "wipe", "mark"} -> Vers
           [] r.flow = "merge" -> IF r.pc = "rev" THEN Vers ELSE Vers \ {Doc}
           [] r.flow = "prune" -> IF r.pc = "cull" THEN {} ELSE Vers
           [] r.flow \in {"remove", "drop"} ->
                IF r.pc = "list" THEN Vers ELSE Here(r) \cup (IF r.tail THEN {Doc} ELSE {})
           [] r.flow \in {"amend", "image"} -> Here(r)
           [] OTHER -> {}

\* A request that is alone has left the pending versions as it found them (a
\* version may be written twice) and brought the others to what it promises.
Exact(r) == \A w \in Vers :
    IF w \in Pending(r)
    THEN \/ row[w] = r.before[w]
         \/ r.flow \in {"remove", "drop", "image"} /\ r.pc # "list" /\ row[w] = Promised(r, w)
    ELSE row[w] = Promised(r, w)

\* What it has built or learned fits what it found.
Built(r) ==
    /\ r.flow \in {"overwrite", "edit", "tag", "amend"} /\ r.pc = "save" => r.row = Promised(r, r.ver)
    /\ r.flow = "merge" /\ r.pc \in {"cull", "save"} => r.row = Promised(r, r.ver)
    /\ r.flow = "merge" /\ r.pc = "blob" =>
          r.row = [OrBlank(r.before[r.ver]) EXCEPT !.source = IF r.source = "" THEN @ ELSE r.source]
    /\ r.flow = "prune" /\ r.pc = "save" =>
          /\ Promised(r, r.ver) = IF r.row.files = {} THEN NoRow ELSE r.row
          /\ r.before[r.ver] # NoRow /\ r.row.source = r.before[r.ver].source
    /\ r.flow = "amend" /\ r.pc = "save" => r.before[r.ver] # NoRow
    /\ r.flow = "edit" /\ r.pc = "load" => r.note[2] = Doc \/ r.before[r.note[2]] # NoRow
    /\ r.flow = "tag" /\ r.pc = "load" => r.vers = {v \in Vers : r.before[v] # NoRow}
    /\ r.flow = "tag" /\ r.pc = "check" =>
          r.row = [Blank EXCEPT !.notes = Edited([r EXCEPT !.vers = {v \in Vers : r.before[v] # NoRow}],
                                                 OrBlank(r.before[r.ver]))]

\* A request that turned to the upstream had found nothing in the store.
Lacks(r) == \A f \in OrBlank(r.before[r.ver]).files : f.name # r.file

Missing(r) ==
    /\ r.flow \in {"serve", "head"} /\ r.pc = "fetch" => Lacks(r)
    /\ r.flow \in {"overwrite", "merge"} /\ r.source = "pull" /\ r.pc # "done" => Lacks(r)
    /\ r.flow = "resolve" /\ r.pc = "fetch" => r.before[r.ver] = NoRow
    /\ r.flow = "image" /\ r.source = "pull" /\ r.pc # "done" =>
          \A w \in Here(r) \ Manifests : r.before[w] = NoRow

\* What it answers is what it found.
Answers(r) ==
    /\ r.flow = "list" /\ r.pc = "done" =>
          r.out = {<<v, {}>> : v \in ListOciImages(r.aim, r.before, r.source)}
    /\ r.flow = "index" /\ r.pc = "list" => r.out = {}
    /\ r.flow = "index" /\ r.pc # "list" =>
          r.out = {<<v, DigestsOf(r.before[v])>> :
                      v \in {w \in r.aim : r.before[w] # NoRow} \ (IF r.pc = "read" THEN Here(r) ELSE {})}
    /\ r.flow = "serve" /\ r.pc = "open" => r.row = r.before[r.ver]
    /\ r.flow \in {"serve", "head"} /\ r.pc = "done" => r.out = Served(r)

\* A download of a file that is stored, and of one that is not.
LEMMA ServedIs ==
    ASSUME NEW r
    PROVE  /\ Wanted(r) # {} => Served(r) = {<<r.ver, {f.digest}>> : f \in Wanted(r)}
           /\ Lacks(r) => Served(r) = IF r.data = NoData THEN {} ELSE {<<r.ver, {r.data}>>}
<1>1. Lacks(r) => Wanted(r) = {}
  BY DEF Lacks, Wanted
<1> QED BY <1>1 DEF Served

Progress(r) == Exact(r) /\ Built(r) /\ Missing(r) /\ Answers(r)

RequestInv == \A c \in Clients : req[c] # Idle =>
    /\ Formed(req[c])
    /\ req[c].clean => Progress(req[c])

\* Of two requests that can disturb each other, neither is alone.
CleanInv == \A c, d \in Clients :
    c # d /\ req[c] # Idle /\ req[d] # Idle /\ Disturbs(req[c], req[d]) => ~req[c].clean

\* The document has no files.
DocInv == DigestsOf(row[Doc]) = {}

\* What the collector has seen, of the versions not written since it began.
GcInv ==
    /\ gc.pc = "mark" /\ ~gc.missed =>
          \A v \in Vers \ (gc.rows \cup dirty \cup {Doc}) : DigestsOf(row[v]) \subseteq gc.live
    /\ gc.pc = "sweep" /\ ~gc.missed =>
          \A v \in Vers \ dirty : DigestsOf(row[v]) \cap gc.todo = {}

\* A row of an image holds one manifest; under a digest, that manifest.
ImageRows == format = "oci" =>
    \A w \in Vers : row[w] # NoRow =>
       w \in References /\
       \E m \in Manifests : /\ row[w].files = Layers /\ row[w].notes = {Holds(m)}
                            /\ w \in Manifests => w = m

\* The manifest that a put is about has its row, or will have it.
TagsInv == format = "oci" =>
    /\ TagsResolve
    /\ \A c \in Clients : At(c, {"image"}, "save") => \A m \in Manifests : req[c].note = Holds(m) =>
          m \in Here(req[c]) \/ row[m] # NoRow \/ m \in unnamed \/ broken

\* A blob that a row misses: somebody is about to rewrite the row.
RowsHeld == \A v \in Vers : \A d \in DigestsOf(row[v]) \ blob :
    \/ d \in blamed
    \/ \E c \in Clients : req[c] # Idle /\ req[c].ver = v /\
          (  (req[c].flow = "merge" /\ req[c].pc \in {"cull", "save"})
          \/ (req[c].flow = "remove" /\ req[c].pc \in {"cull", "drop"}) )

\* The digests of the row that a handler is about to put.
Held(r) ==
    /\ r.flow = "overwrite" /\ r.pc = "save" => DigestsOf(r.row) \subseteq blob \cup blamed
    /\ r.flow = "merge" /\ r.pc \in {"cull", "save"} => r.data \in blob \cup blamed \cup {NoData}
    /\ r.clean /\ \/ r.flow = "merge" /\ r.pc \in {"blob", "cull", "save"}
                  \/ r.flow \in {"prune", "amend"} /\ r.pc = "save"
          => DigestsOf(r.row) \subseteq blob \cup blamed

DangInv == format = "oci" \/ broken \/
    (RowsHeld /\ \A c \in Clients : req[c] # Idle => Held(req[c]))

StoreInv == TypeOK /\ RequestInv /\ CleanInv /\ DocInv /\ GcInv /\ ImageRows /\ TagsInv /\ DangInv

-----------------------------------------------------------------------------
(* The types of a request, and what one step does to it. *)

LEMMA RowTypes ==
    ASSUME TypeOK, NEW v \in Vers
    PROVE  row[v] \in Row \cup {NoRow} /\ OrBlank(row[v]) \in Row /\ Blank \in Row
           /\ DigestsOf(row[v]) \subseteq Digests /\ NoRow \notin Row
<1>1. Blank \in Row
  BY DEF Blank, Row, Source
<1>2. row[v] \in Row \cup {NoRow}
  BY DEF TypeOK
<1>3. ASSUME row[v] \in Row PROVE {f.digest : f \in row[v].files} \subseteq Digests
  <2>1. row[v].files \subseteq File
    BY <1>3 DEF Row
  <2> QED BY <2>1 DEF File
<1> QED BY <1>1, <1>2, <1>3, NullAssumption DEF OrBlank, DigestsOf

LEMMA RequestTypes ==
    ASSUME NEW r \in Request
    PROVE  /\ r.flow \in Flows /\ r.ver \in Vers /\ r.file \in Files /\ r.data \in Digests \cup {NoData}
           /\ r.source \in Source /\ r.note \in Notes \cup {NoData} /\ r.add \in BOOLEAN
           /\ r.store \in Stores /\ r.keep \in BOOLEAN /\ r.aim \subseteq Vers
           /\ r.tail \in BOOLEAN /\ r.pc \in Pcs /\ r.row \in Row /\ r.todo \subseteq Digests
           /\ r.vers \subseteq Vers /\ r.out \subseteq Vers \X SUBSET Digests
           /\ r.before \in [Vers -> Row \cup {NoRow}] /\ r.clean \in BOOLEAN
BY DEF Request

\* The parameters, the kind, the walk and the answer of a request.
Asked(r, u) ==
    /\ u.file = r.file /\ u.data = r.data /\ u.note = r.note /\ u.add = r.add
    /\ u.store = r.store /\ u.keep = r.keep /\ u.aim = r.aim /\ u.before = r.before
Kind(r, u) == u.flow = r.flow /\ u.source = r.source
Walk(r, u) == u.ver = r.ver /\ u.vers = r.vers /\ u.tail = r.tail

\* The task of c steps from r to u; ok says whether its storage call worked.
Moves(c, r, u, ok) ==
    /\ r = req[c] /\ r # Idle /\ r \in Request
    /\ u \in Request /\ req' \in [Clients -> Request \cup {Idle}]
    /\ req'[c] = u /\ \A d \in Clients \ {c} : req'[d] = req[d]
    /\ ok \in BOOLEAN /\ (u.clean => r.clean /\ ok)
    /\ broken' \in BOOLEAN /\ (broken => broken') /\ (ok \/ broken') /\ faults' \in Nat
    /\ UNCHANGED <<format, gc, calls, crashes, collections>>

LEMMA GoMoves ==
    ASSUME TypeOK, NEW c \in Clients, NEW r, r = req[c], r # Idle,
           NEW x \in Request, NEW ok \in BOOLEAN, Go(c, x, ok), x.clean => r.clean
    PROVE  \E u : /\ Moves(c, r, u, ok) /\ Asked(x, u) /\ Kind(x, u) /\ Walk(x, u)
                  /\ u.pc = x.pc /\ u.row = x.row /\ u.todo = x.todo /\ u.out = x.out
                  /\ (u.clean => x.clean)
<1> DEFINE k == x.clean /\ ok
           u == [x EXCEPT !.clean = k]
<1>1. req' = [req EXCEPT ![c] = u]
  BY DEF Go
<1>2. k \in BOOLEAN /\ (k => x.clean /\ ok)
  BY RequestTypes
<1>3. /\ u \in Request /\ Asked(x, u) /\ Kind(x, u) /\ Walk(x, u) /\ u.clean = k
      /\ u.pc = x.pc /\ u.row = x.row /\ u.todo = x.todo /\ u.out = x.out
  <2> HIDE DEF k
  <2> QED BY <1>2 DEF Request, Asked, Kind, Walk
<1> HIDE DEF k, u
<1>4. r \in Request
  BY DEF TypeOK
<1>5. /\ req' \in [Clients -> Request \cup {Idle}]
      /\ req'[c] = u /\ \A d \in Clients \ {c} : req'[d] = req[d]
  BY <1>1, <1>3 DEF TypeOK
<1>6. broken' \in BOOLEAN /\ (broken => broken') /\ (ok \/ broken') /\ faults' \in Nat
  <2>1. CASE ok
    BY <2>1 DEF Go, TypeOK
  <2>2. CASE ~ok
    <3>1. broken' = TRUE /\ faults' = faults - 1 /\ faults > 0
      BY <2>2 DEF Go
    <3> QED BY <3>1 DEF TypeOK
  <2> QED BY <2>1, <2>2
<1>7. UNCHANGED <<format, gc, calls, crashes, collections>>
  BY DEF Go
<1>8. Moves(c, r, u, ok)
  BY <1>2, <1>3, <1>4, <1>5, <1>6, <1>7 DEF Moves
<1> QED BY <1>2, <1>3, <1>8

-----------------------------------------------------------------------------
(* The changes that steps make to a request. *)

SetPc(r, p) == [r EXCEPT !.pc = p]
SetPcRow(r, p, w) == [r EXCEPT !.pc = p, !.row = w]
SetPcTodo(r, p, t) == [r EXCEPT !.pc = p, !.todo = t]
SetPcRowTodo(r, p, w, t) == [r EXCEPT !.pc = p, !.row = w, !.todo = t]
SetPcOut(r, p, o) == [r EXCEPT !.pc = p, !.out = o]
SetOut(r, o) == [r EXCEPT !.out = o]
SetVers(r, vs) == [r EXCEPT !.vers = vs]

LEMMA PcSet ==
    ASSUME NEW r \in Request, NEW p \in Pcs
    PROVE  LET x == SetPc(r, p) IN
           /\ x \in Request /\ Asked(r, x) /\ Kind(r, x) /\ Walk(r, x) /\ x.clean = r.clean
           /\ x.pc = p /\ x.row = r.row /\ x.todo = r.todo /\ x.out = r.out
<1>1. SetPc(r, p) \in Request
  BY DEF Request, SetPc
<1> QED BY <1>1 DEF Request, SetPc, Asked, Kind, Walk

LEMMA PcRowSet ==
    ASSUME NEW r \in Request, NEW p \in Pcs, NEW w \in Row
    PROVE  LET x == SetPcRow(r, p, w) IN
           /\ x \in Request /\ Asked(r, x) /\ Kind(r, x) /\ Walk(r, x) /\ x.clean = r.clean
           /\ x.pc = p /\ x.row = w /\ x.todo = r.todo /\ x.out = r.out
<1>1. SetPcRow(r, p, w) \in Request
  BY DEF Request, SetPcRow
<1> QED BY <1>1 DEF Request, SetPcRow, Asked, Kind, Walk

LEMMA PcTodoSet ==
    ASSUME NEW r \in Request, NEW p \in Pcs, NEW t \in SUBSET Digests
    PROVE  LET x == SetPcTodo(r, p, t) IN
           /\ x \in Request /\ Asked(r, x) /\ Kind(r, x) /\ Walk(r, x) /\ x.clean = r.clean
           /\ x.pc = p /\ x.row = r.row /\ x.todo = t /\ x.out = r.out
<1>1. SetPcTodo(r, p, t) \in Request
  BY DEF Request, SetPcTodo
<1> QED BY <1>1 DEF Request, SetPcTodo, Asked, Kind, Walk

LEMMA PcRowTodoSet ==
    ASSUME NEW r \in Request, NEW p \in Pcs, NEW w \in Row, NEW t \in SUBSET Digests
    PROVE  LET x == SetPcRowTodo(r, p, w, t) IN
           /\ x \in Request /\ Asked(r, x) /\ Kind(r, x) /\ Walk(r, x) /\ x.clean = r.clean
           /\ x.pc = p /\ x.row = w /\ x.todo = t /\ x.out = r.out
<1>1. SetPcRowTodo(r, p, w, t) \in Request
  BY DEF Request, SetPcRowTodo
<1> QED BY <1>1 DEF Request, SetPcRowTodo, Asked, Kind, Walk

LEMMA PcOutSet ==
    ASSUME NEW r \in Request, NEW p \in Pcs, NEW o \in SUBSET (Vers \X SUBSET Digests)
    PROVE  LET x == SetPcOut(r, p, o) IN
           /\ x \in Request /\ Asked(r, x) /\ Kind(r, x) /\ Walk(r, x) /\ x.clean = r.clean
           /\ x.pc = p /\ x.row = r.row /\ x.todo = r.todo /\ x.out = o
<1>1. SetPcOut(r, p, o) \in Request
  BY DEF Request, SetPcOut
<1> QED BY <1>1 DEF Request, SetPcOut, Asked, Kind, Walk

LEMMA OutSet ==
    ASSUME NEW r \in Request, NEW o \in SUBSET (Vers \X SUBSET Digests)
    PROVE  LET x == SetOut(r, o) IN
           /\ x \in Request /\ Asked(r, x) /\ Kind(r, x) /\ Walk(r, x) /\ x.clean = r.clean
           /\ x.pc = r.pc /\ x.row = r.row /\ x.todo = r.todo /\ x.out = o
<1>1. SetOut(r, o) \in Request
  BY DEF Request, SetOut
<1> QED BY <1>1 DEF Request, SetOut, Asked, Kind, Walk

LEMMA VersSet ==
    ASSUME NEW r \in Request, NEW vs \in SUBSET Vers
    PROVE  LET x == SetVers(r, vs) IN
           /\ x \in Request /\ Asked(r, x) /\ Kind(r, x) /\ x.clean = r.clean
           /\ x.ver = r.ver /\ x.vers = vs /\ x.tail = r.tail
           /\ x.pc = r.pc /\ x.row = r.row /\ x.todo = r.todo /\ x.out = r.out
<1>1. SetVers(r, vs) \in Request
  BY DEF Request, SetVers
<1> QED BY <1>1 DEF Request, SetVers, Asked, Kind

\* A walk goes on to the next version, or to the document, or ends.
Advanced(r, u, p) ==
    \/ r.vers # {} /\ u.pc = p /\ u.ver \in r.vers /\ u.vers = r.vers \ {u.ver} /\ u.tail = r.tail
    \/ r.vers = {} /\ r.tail /\ u.pc = "drop" /\ u.ver = Doc /\ u.vers = {} /\ ~u.tail
    \/ r.vers = {} /\ ~r.tail /\ u.pc = "done" /\ u.ver = r.ver /\ u.vers = {} /\ ~u.tail

LEMMA Advances ==
    ASSUME NEW r \in Request, NEW p \in Pcs
    PROVE  LET x == Advance(r, p) IN
           /\ x \in Request /\ Asked(r, x) /\ Kind(r, x) /\ x.clean = r.clean
           /\ x.row = r.row /\ x.todo = r.todo /\ x.out = r.out /\ Advanced(r, x, p)
<1> DEFINE x == Advance(r, p)
<1>1. CASE r.vers # {}
  <2>1. PICK l, vs : /\ l = Least(r.vers) /\ vs = r.vers \ {l}
                     /\ x = [r EXCEPT !.pc = p, !.ver = l, !.vers = vs]
    BY <1>1, Zenon DEF Advance
  <2>2. l \in r.vers /\ l \in Vers /\ vs \in SUBSET Vers
    BY <1>1, <2>1, LeastVersion, RequestTypes
  <2>3. x = [r EXCEPT !.pc = p, !.ver = l, !.vers = vs]
    BY <2>1
  <2>4. x \in Request
    BY <2>2, <2>3 DEF Request
  <2>5. /\ Asked(r, x) /\ Kind(r, x) /\ x.clean = r.clean
        /\ x.row = r.row /\ x.todo = r.todo /\ x.out = r.out
        /\ x.pc = p /\ x.ver = l /\ x.vers = vs /\ x.tail = r.tail
    BY <2>3 DEF Request, Asked, Kind
  <2> QED BY <1>1, <2>1, <2>2, <2>4, <2>5 DEF Advanced
<1>2. CASE r.vers = {} /\ r.tail
  <2>1. x = [r EXCEPT !.pc = "drop", !.ver = Doc, !.tail = FALSE]
    BY <1>2 DEF Advance
  <2>2. "drop" \in Pcs /\ Doc \in Vers
    BY VersAreNat DEF Pcs
  <2>3. x \in Request
    BY <2>1, <2>2 DEF Request
  <2>4. /\ Asked(r, x) /\ Kind(r, x) /\ x.clean = r.clean
        /\ x.row = r.row /\ x.todo = r.todo /\ x.out = r.out
        /\ x.pc = "drop" /\ x.ver = Doc /\ x.vers = r.vers /\ ~x.tail
    BY <2>1 DEF Request, Asked, Kind
  <2> QED BY <1>2, <2>3, <2>4 DEF Advanced
<1>3. CASE r.vers = {} /\ ~r.tail
  <2>1. x = SetPc(r, "done") /\ "done" \in Pcs
    BY <1>3 DEF Advance, Pcs, SetPc
  <2>2. /\ x \in Request /\ Asked(r, x) /\ Kind(r, x) /\ Walk(r, x) /\ x.clean = r.clean
        /\ x.pc = "done" /\ x.row = r.row /\ x.todo = r.todo /\ x.out = r.out
    BY <2>1, PcSet
  <2> QED BY <1>3, <2>2 DEF Advanced, Walk
<1> QED BY <1>1, <1>2, <1>3

-----------------------------------------------------------------------------
(* What each step does: to its request, to the rows and to the blobs. *)

Puts(ok, v, x) == IF ok THEN SetRow(v, x) ELSE UNCHANGED <<row, dirty>>

Adds(ok, d) ==
    IF ok THEN blob' = blob \cup {d} /\ blamed' = blamed \ {d} ELSE UNCHANGED <<blob, blamed>>

LEMMA AtNow ==
    ASSUME TypeOK, NEW c \in Clients, NEW flows, NEW pc, At(c, flows, pc)
    PROVE  req[c] # Idle /\ req[c] \in Request /\ req[c].flow \in flows /\ req[c].pc = pc
BY DEF At, TypeOK

LEMMA GotTypes ==
    ASSUME TypeOK, NEW c \in Clients, req[c] # Idle, NEW ok \in BOOLEAN
    PROVE  /\ Got(c, ok) \in Row \cup {NoRow} /\ OrBlank(Got(c, ok)) \in Row
           /\ DigestsOf(Got(c, ok)) \subseteq Digests
           /\ OrBlank(Got(c, ok)).files \subseteq File
           /\ ok => Got(c, ok) = row[req[c].ver]
           /\ ~ok => Got(c, ok) = NoRow
<1>1. req[c].ver \in Vers
  BY RequestTypes DEF TypeOK
<1>2. CASE ok
  BY <1>1, <1>2, RowTypes DEF Got, Row
<1>3. CASE ~ok
  BY <1>1, <1>3, RowTypes DEF Got, OrBlank, DigestsOf, Row
<1> QED BY <1>2, <1>3

LEMMA RowFields ==
    ASSUME NEW o \in Row
    PROVE  /\ o.files \subseteq File /\ o.source \in Source /\ o.notes \subseteq Notes
           /\ \A s \in Source : [o EXCEPT !.source = s] \in Row
           /\ \A F \in SUBSET File : [o EXCEPT !.files = F] \in Row
           /\ \A N \in SUBSET Notes : [o EXCEPT !.notes = N] \in Row
BY DEF Row

LEMMA BlankFields ==
    /\ Blank \in Row /\ Blank.files = {} /\ Blank.source = "" /\ Blank.notes = {}
    /\ \A N \in SUBSET Notes : [Blank EXCEPT !.notes = N] \in Row
BY Zenon DEF Blank, Row, Source

\* A row is its three fields.
LEMMA SameRow ==
    ASSUME NEW a \in Row, NEW b \in Row,
           a.files = b.files, a.source = b.source, a.notes = b.notes
    PROVE  a = b
BY DEF Row

LEMMA LoadToMergeDoes ==
    ASSUME TypeOK, NEW c \in Clients, LoadToMerge(c)
    PROVE  \E ok, r, u :
              /\ Moves(c, r, u, ok) /\ Asked(r, u) /\ Kind(r, u) /\ Walk(r, u) /\ OnlyReads
              /\ r.flow = "merge" /\ r.pc = "load" /\ u.pc = (IF r.data = NoData THEN "save" ELSE "blob")
              /\ u.row.files = OrBlank(Got(c, ok)).files /\ u.row.notes = OrBlank(Got(c, ok)).notes
              /\ u.row.source = (IF r.source = "" THEN OrBlank(Got(c, ok)).source ELSE r.source)
              /\ u.todo = r.todo /\ u.out = r.out
<1>1. PICK r : r = req[c] /\ r # Idle /\ r \in Request /\ r.flow = "merge" /\ r.pc = "load"
  BY AtNow DEF LoadToMerge
<1>2. PICK ok \in BOOLEAN :
         \E p, s, w, x :
           /\ p = IF r.data = NoData THEN "save" ELSE "blob"
           /\ s = IF r.source = "" THEN OrBlank(Got(c, ok)).source ELSE r.source
           /\ w = [OrBlank(Got(c, ok)) EXCEPT !.source = s]
           /\ x = SetPcRow(r, p, w)
           /\ Go(c, x, ok) /\ OnlyReads
  BY <1>1, Zenon DEF LoadToMerge, SetPcRow
<1>3. PICK p, s, w, x :
         /\ p = IF r.data = NoData THEN "save" ELSE "blob"
         /\ s = IF r.source = "" THEN OrBlank(Got(c, ok)).source ELSE r.source
         /\ w = [OrBlank(Got(c, ok)) EXCEPT !.source = s]
         /\ x = SetPcRow(r, p, w)
         /\ Go(c, x, ok) /\ OnlyReads
  BY <1>2, Zenon
<1>4. p \in Pcs /\ s \in Source /\ OrBlank(Got(c, ok)) \in Row
  <2>1. OrBlank(Got(c, ok)) \in Row
    BY <1>1, GotTypes
  <2> QED BY <1>1, <1>3, <2>1, RequestTypes, Zenon DEF Pcs, Row
<1>5. /\ w \in Row /\ w.files = OrBlank(Got(c, ok)).files /\ w.notes = OrBlank(Got(c, ok)).notes
      /\ w.source = s
  BY <1>3, <1>4, Zenon DEF Row
<1>6. x = SetPcRow(r, p, w) /\ Go(c, x, ok)
  BY <1>3, Zenon
<1>7. /\ x \in Request /\ Asked(r, x) /\ Kind(r, x) /\ Walk(r, x) /\ x.clean = r.clean
      /\ x.pc = p /\ x.row = w /\ x.todo = r.todo /\ x.out = r.out
  BY <1>1, <1>4, <1>5, <1>6, PcRowSet
<1>8. PICK u : /\ Moves(c, r, u, ok) /\ Asked(x, u) /\ Kind(x, u) /\ Walk(x, u)
               /\ u.pc = x.pc /\ u.row = x.row /\ u.todo = x.todo /\ u.out = x.out
  BY <1>1, <1>6, <1>7, GoMoves
<1>9. Asked(r, u) /\ Kind(r, u) /\ Walk(r, u)
  BY <1>7, <1>8 DEF Asked, Kind, Walk
<1>10. p = (IF r.data = NoData THEN "save" ELSE "blob") /\ OnlyReads
      /\ s = IF r.source = "" THEN OrBlank(Got(c, ok)).source ELSE r.source
  BY <1>3, Zenon
<1>11. /\ Moves(c, r, u, ok) /\ Asked(r, u) /\ Kind(r, u) /\ Walk(r, u) /\ OnlyReads
       /\ r.flow = "merge" /\ r.pc = "load" /\ u.pc = (IF r.data = NoData THEN "save" ELSE "blob")
       /\ u.row.files = OrBlank(Got(c, ok)).files /\ u.row.notes = OrBlank(Got(c, ok)).notes
       /\ u.row.source = (IF r.source = "" THEN OrBlank(Got(c, ok)).source ELSE r.source)
       /\ u.todo = r.todo /\ u.out = r.out
  BY <1>1, <1>5, <1>7, <1>8, <1>9, <1>10, Zenon
<1> QED BY <1>11, Zenon

LEMMA LoadToRemoveDoes ==
    ASSUME TypeOK, NEW c \in Clients, LoadToRemove(c)
    PROVE  \E ok, r, u :
              /\ Moves(c, r, u, ok) /\ Asked(r, u) /\ Kind(r, u) /\ Walk(r, u) /\ OnlyReads
              /\ r.flow = "remove" /\ r.pc = "load"
              /\ u.pc \in {"drop", "cull"} /\ u.row = r.row /\ u.out = r.out
<1>1. PICK r : r = req[c] /\ r # Idle /\ r \in Request /\ r.flow = "remove" /\ r.pc = "load"
  BY AtNow DEF LoadToRemove
<1>2. PICK ok \in BOOLEAN :
         \E p, t, x :
           /\ p = IF t = {} THEN "drop" ELSE "cull"
           /\ t = DigestsOf(Got(c, ok))
           /\ x = SetPcTodo(r, p, t)
           /\ Go(c, x, ok) /\ OnlyReads
  BY <1>1, Zenon DEF LoadToRemove, SetPcTodo
<1>3. PICK p, t, x :
         /\ p = IF t = {} THEN "drop" ELSE "cull"
         /\ t = DigestsOf(Got(c, ok))
         /\ x = SetPcTodo(r, p, t)
         /\ Go(c, x, ok) /\ OnlyReads
  BY <1>2
<1>4. p \in Pcs /\ p \in {"drop", "cull"} /\ t \in SUBSET Digests
  BY <1>1, <1>3, GotTypes DEF Pcs
<1>5. x = SetPcTodo(r, p, t) /\ Go(c, x, ok) /\ OnlyReads
  BY <1>3
<1>6. /\ x \in Request /\ Asked(r, x) /\ Kind(r, x) /\ Walk(r, x) /\ x.clean = r.clean
      /\ x.pc = p /\ x.row = r.row /\ x.todo = t /\ x.out = r.out
  BY <1>1, <1>4, <1>5, PcTodoSet
<1>7. PICK u : /\ Moves(c, r, u, ok) /\ Asked(x, u) /\ Kind(x, u) /\ Walk(x, u)
               /\ u.pc = x.pc /\ u.row = x.row /\ u.todo = x.todo /\ u.out = x.out
  BY <1>1, <1>5, <1>6, GoMoves
<1>8. Asked(r, u) /\ Kind(r, u) /\ Walk(r, u)
  BY <1>6, <1>7 DEF Asked, Kind, Walk
<1>9. /\ Moves(c, r, u, ok) /\ Asked(r, u) /\ Kind(r, u) /\ Walk(r, u) /\ OnlyReads
      /\ r.flow = "remove" /\ r.pc = "load"
      /\ u.pc \in {"drop", "cull"} /\ u.row = r.row /\ u.out = r.out
  BY <1>1, <1>4, <1>5, <1>6, <1>7, <1>8
<1> QED BY <1>9

LEMMA LoadToPruneDoes ==
    ASSUME TypeOK, NEW c \in Clients, LoadToPrune(c)
    PROVE  \E ok, r, u :
              /\ Moves(c, r, u, ok) /\ Asked(r, u) /\ Kind(r, u) /\ Walk(r, u) /\ OnlyReads
              /\ r.flow = "prune" /\ r.pc = "load"
              /\ u.pc = (IF Got(c, ok) = NoRow THEN "done" ELSE "save") /\ u.out = r.out
              /\ u.row.files = {f \in OrBlank(Got(c, ok)).files : f.name # r.file}
              /\ u.row.source = OrBlank(Got(c, ok)).source /\ u.row.notes = OrBlank(Got(c, ok)).notes
<1>1. PICK r : r = req[c] /\ r # Idle /\ r \in Request /\ r.flow = "prune" /\ r.pc = "load"
  BY AtNow DEF LoadToPrune
<1> DEFINE p(ok) == IF Got(c, ok) = NoRow THEN "done" ELSE "save"
           o(ok) == OrBlank(Got(c, ok))
           g(ok) == {f \in o(ok).files : f.name = r.file}
           w(ok) == [o(ok) EXCEPT !.files = @ \ g(ok)]
           t(ok) == {f.digest : f \in g(ok)}
<1>2. PICK ok \in BOOLEAN : Go(c, SetPcRowTodo(r, p(ok), w(ok), t(ok)), ok) /\ OnlyReads
  BY <1>1, Zenon DEF LoadToPrune, SetPcRowTodo
<1>3. o(ok) \in Row /\ o(ok).files \subseteq File
  BY <1>1, GotTypes
<1>4. /\ w(ok) \in Row /\ w(ok).files = {f \in o(ok).files : f.name # r.file}
      /\ w(ok).source = o(ok).source /\ w(ok).notes = o(ok).notes
  <2>1. o(ok).files \ g(ok) = {f \in o(ok).files : f.name # r.file}
    OBVIOUS
  <2> HIDE DEF o, g
  <2> QED BY <1>3, <2>1 DEF Row
<1>5. p(ok) \in Pcs /\ t(ok) \in SUBSET Digests
  <2>1. g(ok) \subseteq File
    BY <1>3
  <2>2. t(ok) \in SUBSET Digests
    <3> HIDE DEF g
    <3> QED BY <2>1 DEF File
  <2> QED BY <2>2 DEF Pcs
<1> HIDE DEF p, w, t
<1>6. PICK x : x = SetPcRowTodo(r, p(ok), w(ok), t(ok)) /\ Go(c, x, ok)
  BY <1>2
<1>7. /\ x \in Request /\ Asked(r, x) /\ Kind(r, x) /\ Walk(r, x) /\ x.clean = r.clean
      /\ x.pc = p(ok) /\ x.row = w(ok) /\ x.todo = t(ok) /\ x.out = r.out
  BY <1>1, <1>4, <1>5, <1>6, PcRowTodoSet
<1>8. PICK u : /\ Moves(c, r, u, ok) /\ Asked(x, u) /\ Kind(x, u) /\ Walk(x, u)
               /\ u.pc = x.pc /\ u.row = x.row /\ u.todo = x.todo /\ u.out = x.out
  BY <1>1, <1>6, <1>7, GoMoves
<1>9. Asked(r, u) /\ Kind(r, u) /\ Walk(r, u)
  BY <1>7, <1>8 DEF Asked, Kind, Walk
<1>10. /\ Moves(c, r, u, ok) /\ Asked(r, u) /\ Kind(r, u) /\ Walk(r, u) /\ OnlyReads
       /\ r.flow = "prune" /\ r.pc = "load"
       /\ u.pc = (IF Got(c, ok) = NoRow THEN "done" ELSE "save") /\ u.out = r.out
       /\ u.row.files = {f \in OrBlank(Got(c, ok)).files : f.name # r.file}
       /\ u.row.source = OrBlank(Got(c, ok)).source /\ u.row.notes = OrBlank(Got(c, ok)).notes
  BY <1>1, <1>2, <1>4, <1>7, <1>8, <1>9 DEF p
<1> QED BY <1>10

LEMMA LoadToServeDoes ==
    ASSUME TypeOK, NEW c \in Clients, LoadToServe(c)
    PROVE  \E ok, r, u, named :
              /\ Moves(c, r, u, ok) /\ Asked(r, u) /\ Kind(r, u) /\ Walk(r, u) /\ OnlyReads
              /\ r.flow \in {"serve", "head"} /\ r.pc = "load" /\ u.todo = r.todo
              /\ named = {f \in OrBlank(Got(c, ok)).files : f.name = r.file}
              /\ \/ /\ r.flow = "head" /\ u.pc = "done" /\ u.row = r.row /\ named # {}
                    /\ u.out = {<<r.ver, {f.digest}>> : f \in named}
                 \/ r.flow = "serve" /\ u.pc = "open" /\ u.row = Got(c, ok) /\ u.out = r.out
                 \/ /\ r.flow = "head" => named = {}
                    /\ r.flow = "serve" => Got(c, ok) = NoRow
                    /\ u.pc = "fetch" /\ u.row = r.row /\ u.out = r.out
<1>1. PICK r : r = req[c] /\ r # Idle /\ r \in Request /\ r.flow \in {"serve", "head"} /\ r.pc = "load"
  BY AtNow DEF LoadToServe
<1> DEFINE named(ok) == {f \in OrBlank(Got(c, ok)).files : f.name = r.file}
           o(ok) == {<<r.ver, {f.digest}>> : f \in named(ok)}
<1>2. PICK ok \in BOOLEAN :
         \E x :
           /\ \/ r.flow = "head" /\ named(ok) # {} /\ x = SetPcOut(r, "done", o(ok))
              \/ r.flow = "serve" /\ Got(c, ok) # NoRow /\ x = SetPcRow(r, "open", Got(c, ok))
              \/ /\ r.flow = "head" => named(ok) = {}
                 /\ r.flow = "serve" => Got(c, ok) = NoRow
                 /\ x = SetPc(r, "fetch")
           /\ Go(c, x, ok) /\ OnlyReads
  <2>1. PICK ok \in BOOLEAN :
           /\ Go(c, CASE r.flow = "head" /\ named(ok) # {} -> SetPcOut(r, "done", o(ok))
                      [] r.flow = "serve" /\ Got(c, ok) # NoRow -> SetPcRow(r, "open", Got(c, ok))
                      [] OTHER -> SetPc(r, "fetch"), ok)
           /\ OnlyReads
    BY <1>1, Zenon DEF LoadToServe, SetPcOut, SetPcRow, SetPc
  <2> HIDE DEF named, o
  <2>2. CASE r.flow = "head" /\ named(ok) # {}
    BY <2>1, <2>2
  <2>3. CASE r.flow = "serve" /\ Got(c, ok) # NoRow
    BY <2>1, <2>3
  <2>4. CASE ~(r.flow = "head" /\ named(ok) # {}) /\ ~(r.flow = "serve" /\ Got(c, ok) # NoRow)
    BY <2>1, <2>4
  <2> QED BY <2>2, <2>3, <2>4
<1>3. PICK x :
         /\ \/ r.flow = "head" /\ named(ok) # {} /\ x = SetPcOut(r, "done", o(ok))
            \/ r.flow = "serve" /\ Got(c, ok) # NoRow /\ x = SetPcRow(r, "open", Got(c, ok))
            \/ /\ r.flow = "head" => named(ok) = {}
               /\ r.flow = "serve" => Got(c, ok) = NoRow
               /\ x = SetPc(r, "fetch")
         /\ Go(c, x, ok) /\ OnlyReads
  BY <1>2
<1>4. /\ o(ok) \in SUBSET (Vers \X SUBSET Digests)
      /\ Got(c, ok) # NoRow => Got(c, ok) \in Row
      /\ "done" \in Pcs /\ "open" \in Pcs /\ "fetch" \in Pcs
  <2>1. \A f \in OrBlank(Got(c, ok)).files : f.digest \in Digests
    <3>1. OrBlank(Got(c, ok)).files \subseteq File
      BY <1>1, GotTypes
    <3> QED BY <3>1 DEF File
  <2>2. r.ver \in Vers
    BY <1>1, RequestTypes
  <2>3. o(ok) \in SUBSET (Vers \X SUBSET Digests)
    BY <2>1, <2>2
  <2> QED BY <1>1, <2>3, GotTypes DEF Pcs
<1> HIDE DEF named, o
<1>5. /\ x \in Request /\ Asked(r, x) /\ Kind(r, x) /\ Walk(r, x) /\ x.clean = r.clean
      /\ x.todo = r.todo
      /\ \/ r.flow = "head" /\ named(ok) # {} /\ x.pc = "done" /\ x.row = r.row /\ x.out = o(ok)
         \/ r.flow = "serve" /\ x.pc = "open" /\ x.row = Got(c, ok) /\ x.out = r.out
         \/ /\ r.flow = "head" => named(ok) = {}
            /\ r.flow = "serve" => Got(c, ok) = NoRow
            /\ x.pc = "fetch" /\ x.row = r.row /\ x.out = r.out
  <2>1. CASE r.flow = "head" /\ named(ok) # {} /\ x = SetPcOut(r, "done", o(ok))
    BY <1>1, <1>4, <2>1, PcOutSet
  <2>2. CASE r.flow = "serve" /\ Got(c, ok) # NoRow /\ x = SetPcRow(r, "open", Got(c, ok))
    BY <1>1, <1>4, <2>2, PcRowSet
  <2>3. CASE /\ r.flow = "head" => named(ok) = {}
             /\ r.flow = "serve" => Got(c, ok) = NoRow
             /\ x = SetPc(r, "fetch")
    BY <1>1, <1>4, <2>3, PcSet
  <2> QED BY <1>3, <2>1, <2>2, <2>3
<1>6. PICK u : /\ Moves(c, r, u, ok) /\ Asked(x, u) /\ Kind(x, u) /\ Walk(x, u)
               /\ u.pc = x.pc /\ u.row = x.row /\ u.todo = x.todo /\ u.out = x.out
  BY <1>1, <1>3, <1>5, GoMoves
<1>7. Asked(r, u) /\ Kind(r, u) /\ Walk(r, u)
  BY <1>5, <1>6 DEF Asked, Kind, Walk
<1>8. /\ Moves(c, r, u, ok) /\ Asked(r, u) /\ Kind(r, u) /\ Walk(r, u) /\ OnlyReads
      /\ r.flow \in {"serve", "head"} /\ r.pc = "load" /\ u.todo = r.todo
      /\ \/ r.flow = "head" /\ named(ok) # {} /\ u.pc = "done" /\ u.row = r.row /\ u.out = o(ok)
         \/ r.flow = "serve" /\ u.pc = "open" /\ u.row = Got(c, ok) /\ u.out = r.out
         \/ /\ r.flow = "head" => named(ok) = {}
            /\ r.flow = "serve" => Got(c, ok) = NoRow
            /\ u.pc = "fetch" /\ u.row = r.row /\ u.out = r.out
  BY <1>1, <1>3, <1>5, <1>6, <1>7
<1> WITNESS ok, r, u, named(ok)
<1> QED BY <1>8 DEF named, o

\* The notes that LoadToEdit puts into the document.
LEMMA EditedTypes ==
    ASSUME NEW r \in Request, r.note \in Notes, NEW o \in Row
    PROVE  Edited(r, o) \subseteq Notes
<1>1. r.vers # {} => <<"latest", Max(r.vers)>> \in Notes
  <2>1. r.vers # {} => Max(r.vers) \in Vers
    BY RequestTypes, GreatestVersion
  <2> QED BY <2>1 DEF Notes, Labels
<1>2. o.notes \subseteq Notes
  BY RowFields
<1> QED BY <1>1, <1>2 DEF Edited

LEMMA LoadToEditDoes ==
    ASSUME TypeOK, NEW c \in Clients, Formed(req[c]), LoadToEdit(c)
    PROVE  \E ok, r, u :
              /\ Moves(c, r, u, ok) /\ Asked(r, u) /\ Kind(r, u) /\ OnlyReads
              /\ u.ver = r.ver /\ u.tail = r.tail /\ u.vers = {}
              /\ r.flow \in {"edit", "tag"} /\ r.pc = "load" /\ u.todo = r.todo /\ u.out = r.out
              /\ u.pc = (IF r.flow = "tag" /\ r.add THEN "check" ELSE "save")
              /\ u.row.files = {} /\ u.row.source = ""
              /\ u.row.notes = Edited(r, OrBlank(Got(c, ok)))
<1>1. PICK r : r = req[c] /\ r # Idle /\ r \in Request /\ r.flow \in {"edit", "tag"} /\ r.pc = "load"
  BY AtNow DEF LoadToEdit
<1> DEFINE p == IF r.flow = "tag" /\ r.add THEN "check" ELSE "save"
           e(ok) == Edited(r, OrBlank(Got(c, ok)))
           w(ok) == [Blank EXCEPT !.notes = e(ok)]
           x(ok) == [r EXCEPT !.row = w(ok), !.vers = {}, !.pc = p]
<1>2. PICK ok \in BOOLEAN : Go(c, x(ok), ok) /\ OnlyReads
  BY <1>1, Zenon DEF LoadToEdit
<1>3. e(ok) \subseteq Notes
  <2>1. r.note \in Notes
    BY <1>1, Zenon DEF Formed, NoteFits
  <2>2. OrBlank(Got(c, ok)) \in Row
    BY <1>1, GotTypes
  <2> QED BY <1>1, <2>1, <2>2, EditedTypes
<1>4. w(ok) \in Row /\ w(ok).files = {} /\ w(ok).source = "" /\ w(ok).notes = e(ok)
  <2> HIDE DEF e
  <2> QED BY <1>3, BlankFields, Zenon DEF Row
<1>5. p \in Pcs
  BY DEF Pcs
<1> HIDE DEF p, w
<1>6. /\ x(ok) \in Request /\ Asked(r, x(ok)) /\ Kind(r, x(ok)) /\ x(ok).clean = r.clean
      /\ x(ok).pc = p /\ x(ok).row = w(ok) /\ x(ok).todo = r.todo /\ x(ok).out = r.out
      /\ x(ok).ver = r.ver /\ x(ok).vers = {} /\ x(ok).tail = r.tail
  <2>1. x(ok) \in Request
    BY <1>1, <1>4, <1>5, Zenon DEF Request
  <2> QED BY <1>1, <2>1 DEF Request, Asked, Kind
<1> HIDE DEF x
<1>7. PICK u : /\ Moves(c, r, u, ok) /\ Asked(x(ok), u) /\ Kind(x(ok), u) /\ Walk(x(ok), u)
               /\ u.pc = x(ok).pc /\ u.row = x(ok).row /\ u.todo = x(ok).todo /\ u.out = x(ok).out
  BY <1>1, <1>2, <1>6, GoMoves
<1>8. Asked(r, u) /\ Kind(r, u) /\ u.ver = r.ver /\ u.tail = r.tail /\ u.vers = {}
  BY <1>6, <1>7 DEF Asked, Kind, Walk
<1>9. /\ Moves(c, r, u, ok) /\ Asked(r, u) /\ Kind(r, u) /\ OnlyReads
      /\ u.ver = r.ver /\ u.tail = r.tail /\ u.vers = {}
      /\ r.flow \in {"edit", "tag"} /\ r.pc = "load" /\ u.todo = r.todo /\ u.out = r.out
      /\ u.pc = p /\ u.row.files = {} /\ u.row.source = "" /\ u.row.notes = e(ok)
  BY <1>1, <1>2, <1>4, <1>6, <1>7, <1>8, Zenon
<1> QED BY <1>9, Zenon DEF p

LEMMA LoadToAmendDoes ==
    ASSUME TypeOK, NEW c \in Clients, Formed(req[c]), LoadToAmend(c)
    PROVE  \E ok, r, u :
              /\ Moves(c, r, u, ok) /\ Asked(r, u) /\ Kind(r, u) /\ OnlyReads
              /\ r.flow = "amend" /\ r.pc = "load" /\ u.todo = r.todo /\ u.out = r.out
              /\ \/ Got(c, ok) = NoRow /\ Advanced(r, u, "load") /\ u.row = r.row
                 \/ /\ Got(c, ok) # NoRow /\ Walk(r, u) /\ u.pc = "save"
                    /\ u.row.files = Got(c, ok).files /\ u.row.source = Got(c, ok).source
                    /\ u.row.notes = (IF r.add THEN Got(c, ok).notes \cup {r.note}
                                               ELSE Got(c, ok).notes \ {r.note})
<1>1. PICK r : r = req[c] /\ r # Idle /\ r \in Request /\ r.flow = "amend" /\ r.pc = "load"
  BY AtNow DEF LoadToAmend
<1> DEFINE o(ok) == OrBlank(Got(c, ok))
           n(ok) == IF r.add THEN o(ok).notes \cup {r.note} ELSE o(ok).notes \ {r.note}
           w(ok) == [o(ok) EXCEPT !.notes = n(ok)]
<1>2. PICK ok \in BOOLEAN :
         \E x :
           /\ x = IF Got(c, ok) = NoRow THEN Advance(r, "load") ELSE SetPcRow(r, "save", w(ok))
           /\ Go(c, x, ok) /\ OnlyReads
  BY <1>1, Zenon DEF LoadToAmend, SetPcRow
<1>3. PICK x :
         /\ x = IF Got(c, ok) = NoRow THEN Advance(r, "load") ELSE SetPcRow(r, "save", w(ok))
         /\ Go(c, x, ok) /\ OnlyReads
  BY <1>2
<1>4. w(ok) \in Row /\ w(ok).files = o(ok).files /\ w(ok).source = o(ok).source /\ w(ok).notes = n(ok)
  <2>1. r.note \in Notes
    BY <1>1 DEF Formed, NoteFits
  <2>2. o(ok) \in Row
    BY <1>1, GotTypes
  <2>3. n(ok) \subseteq Notes
    BY <2>1, <2>2, RowFields
  <2> HIDE DEF n, o
  <2> QED BY <2>2, <2>3 DEF Row
<1>5. "load" \in Pcs /\ "save" \in Pcs /\ (Got(c, ok) # NoRow => o(ok) = Got(c, ok))
  BY DEF Pcs, OrBlank
<1> HIDE DEF w
<1>6. /\ x \in Request /\ Asked(r, x) /\ Kind(r, x) /\ x.clean = r.clean
      /\ x.todo = r.todo /\ x.out = r.out
      /\ \/ Got(c, ok) = NoRow /\ Advanced(r, x, "load") /\ x.row = r.row
         \/ Got(c, ok) # NoRow /\ Walk(r, x) /\ x.pc = "save" /\ x.row = w(ok)
  <2>1. CASE Got(c, ok) = NoRow /\ x = Advance(r, "load")
    BY <1>1, <1>5, <2>1, Advances
  <2>2. CASE Got(c, ok) # NoRow /\ x = SetPcRow(r, "save", w(ok))
    BY <1>1, <1>4, <1>5, <2>2, PcRowSet
  <2> QED BY <1>3, <2>1, <2>2
<1>7. PICK u : /\ Moves(c, r, u, ok) /\ Asked(x, u) /\ Kind(x, u) /\ Walk(x, u)
               /\ u.pc = x.pc /\ u.row = x.row /\ u.todo = x.todo /\ u.out = x.out
  BY <1>1, <1>3, <1>6, GoMoves
<1>8. Asked(r, u) /\ Kind(r, u)
  BY <1>6, <1>7 DEF Asked, Kind
<1>9. \/ Got(c, ok) = NoRow /\ Advanced(r, u, "load") /\ u.row = r.row
      \/ Got(c, ok) # NoRow /\ Walk(r, u) /\ u.pc = "save" /\ u.row = w(ok)
  BY <1>6, <1>7 DEF Advanced, Walk
<1>10. \/ Got(c, ok) = NoRow /\ Advanced(r, u, "load") /\ u.row = r.row
      \/ /\ Got(c, ok) # NoRow /\ Walk(r, u) /\ u.pc = "save"
         /\ u.row.files = Got(c, ok).files /\ u.row.source = Got(c, ok).source
         /\ u.row.notes = (IF r.add THEN Got(c, ok).notes \cup {r.note} ELSE Got(c, ok).notes \ {r.note})
  BY <1>4, <1>5, <1>9
<1>11. /\ Moves(c, r, u, ok) /\ Asked(r, u) /\ Kind(r, u) /\ OnlyReads
       /\ r.flow = "amend" /\ r.pc = "load" /\ u.todo = r.todo /\ u.out = r.out
  BY <1>1, <1>3, <1>6, <1>7, <1>8
<1> QED BY <1>10, <1>11, Zenon

LEMMA CheckDoes ==
    ASSUME TypeOK, NEW c \in Clients, Check(c)
    PROVE  \E ok, r, u, v :
              /\ Moves(c, r, u, ok) /\ Asked(r, u) /\ Kind(r, u) /\ Walk(r, u) /\ OnlyReads
              /\ r.flow \in {"edit", "tag", "remove"} /\ r.pc = "check"
              /\ v = (IF r.flow = "remove" THEN r.ver ELSE r.note[2])
              /\ u.row = r.row /\ u.todo = r.todo /\ u.out = r.out
              /\ \/ ok /\ row[v] # NoRow /\ u.pc = (IF r.flow = "tag" THEN "save" ELSE "load")
                 \/ ~ok /\ u.pc = "done"
                 \/ row[v] = NoRow /\ u.pc = "done"
<1>1. PICK r : r = req[c] /\ r # Idle /\ r \in Request /\ r.flow \in {"edit", "tag", "remove"} /\ r.pc = "check"
  BY AtNow DEF Check
<1> DEFINE v == IF r.flow = "remove" THEN r.ver ELSE r.note[2]
           there(ok) == ok /\ row[v] # NoRow
           p(ok) == IF ~there(ok) THEN "done" ELSE IF r.flow = "tag" THEN "save" ELSE "load"
<1>2. PICK ok \in BOOLEAN : Go(c, SetPc(r, p(ok)), ok) /\ OnlyReads
  BY <1>1 DEF Check, SetPc
<1>3. /\ p(ok) \in Pcs
      /\ \/ ok /\ row[v] # NoRow /\ p(ok) = (IF r.flow = "tag" THEN "save" ELSE "load")
         \/ ~ok /\ p(ok) = "done"
         \/ row[v] = NoRow /\ p(ok) = "done"
  BY DEF Pcs
<1> HIDE DEF p, v
<1>4. PICK x : x = SetPc(r, p(ok)) /\ Go(c, x, ok)
  BY <1>2
<1>5. /\ x \in Request /\ Asked(r, x) /\ Kind(r, x) /\ Walk(r, x) /\ x.clean = r.clean
      /\ x.pc = p(ok) /\ x.row = r.row /\ x.todo = r.todo /\ x.out = r.out
  BY <1>1, <1>3, <1>4, PcSet
<1>6. PICK u : /\ Moves(c, r, u, ok) /\ Asked(x, u) /\ Kind(x, u) /\ Walk(x, u)
               /\ u.pc = x.pc /\ u.row = x.row /\ u.todo = x.todo /\ u.out = x.out
  BY <1>1, <1>4, <1>5, GoMoves
<1>7. Asked(r, u) /\ Kind(r, u) /\ Walk(r, u)
  BY <1>5, <1>6 DEF Asked, Kind, Walk
<1> WITNESS ok, r, u, v
<1> QED BY <1>1, <1>2, <1>3, <1>5, <1>6, <1>7 DEF v

LEMMA SaveRevDoes ==
    ASSUME TypeOK, NEW c \in Clients, Formed(req[c]), SaveRev(c)
    PROVE  \E ok, r, u, w :
              /\ Moves(c, r, u, ok) /\ Asked(r, u) /\ Kind(r, u) /\ Walk(r, u)
              /\ r.flow \in {"merge", "mark"} /\ r.pc = "rev"
              /\ u.pc = (IF r.flow = "mark" THEN "done" ELSE "load")
              /\ u.row = r.row /\ u.todo = r.todo /\ u.out = r.out
              /\ w \in Row /\ w.files = {} /\ w.source = "" /\ w.notes = {r.note}
              /\ Puts(ok, Doc, w) /\ UNCHANGED <<blob, blamed>>
<1>1. PICK r : r = req[c] /\ r # Idle /\ r \in Request /\ r.flow \in {"merge", "mark"} /\ r.pc = "rev"
  BY AtNow DEF SaveRev
<1> DEFINE p == IF r.flow = "mark" THEN "done" ELSE "load"
           w == [Blank EXCEPT !.notes = {r.note}]
<1>2. PICK ok \in BOOLEAN : /\ Go(c, SetPc(r, p), ok)
                            /\ IF ok THEN SetRow(Doc, w) ELSE UNCHANGED <<row, dirty>>
                            /\ UNCHANGED <<blob, blamed>>
  BY <1>1 DEF SaveRev, SetPc
<1>3. p \in Pcs /\ w \in Row /\ w.files = {} /\ w.source = "" /\ w.notes = {r.note}
  <2>1. {r.note} \subseteq Notes
    BY <1>1, Zenon DEF Formed, NoteFits
  <2> QED BY <2>1, BlankFields, Zenon DEF Row, Pcs
<1> HIDE DEF p, w
<1>4. PICK x : x = SetPc(r, p) /\ Go(c, x, ok)
  BY <1>2
<1>5. /\ x \in Request /\ Asked(r, x) /\ Kind(r, x) /\ Walk(r, x) /\ x.clean = r.clean
      /\ x.pc = p /\ x.row = r.row /\ x.todo = r.todo /\ x.out = r.out
  BY <1>1, <1>3, <1>4, PcSet, Zenon
<1>6. PICK u : /\ Moves(c, r, u, ok) /\ Asked(x, u) /\ Kind(x, u) /\ Walk(x, u)
               /\ u.pc = x.pc /\ u.row = x.row /\ u.todo = x.todo /\ u.out = x.out
  BY <1>1, <1>4, <1>5, GoMoves
<1>7. Asked(r, u) /\ Kind(r, u) /\ Walk(r, u)
  BY <1>5, <1>6 DEF Asked, Kind, Walk
<1>8. Puts(ok, Doc, w)
  BY <1>2 DEF Puts
<1> WITNESS ok, r, u, w
<1> QED BY <1>1, <1>2, <1>3, <1>5, <1>6, <1>7, <1>8, Zenon DEF p

LEMMA ListDoes ==
    ASSUME TypeOK, NEW c \in Clients, List(c)
    PROVE  \E ok, r, u, found :
              /\ Moves(c, r, u, ok) /\ Asked(r, u) /\ Kind(r, u) /\ OnlyReads
              /\ r.flow \in {"remove", "drop", "tag", "serve", "index", "list"} /\ r.pc = "list"
              /\ found = (IF ok THEN {v \in Vers : row[v] # NoRow} ELSE {})
              /\ u.row = r.row /\ u.todo = r.todo
              /\ \/ /\ r.flow = "list" /\ u.pc = "done" /\ Walk(r, u)
                    /\ u.out = {<<v, {}>> : v \in found \cap ListOciImages(r.aim, row, r.source)}
                 \/ /\ r.flow = "tag" /\ u.pc = "load" /\ u.ver = r.ver /\ u.tail = r.tail
                    /\ u.vers = found /\ u.out = r.out
                 \/ /\ r.flow = "serve" /\ Walk(r, u) /\ u.out = r.out
                    /\ u.pc = (IF r.ver \in found THEN "load" ELSE "fetch")
                 \/ /\ r.flow \in {"index", "remove", "drop"} /\ u.out = r.out
                    /\ \E next \in Request :
                          /\ next.ver = r.ver /\ next.tail = r.tail /\ next.vers = found \cap r.aim
                          /\ Advanced(next, u, CASE r.flow = "index" -> "read"
                                                 [] r.flow = "remove" -> "load"
                                                 [] r.flow = "drop" -> "drop")
<1>1. PICK r : /\ r = req[c] /\ r # Idle /\ r \in Request /\ r.pc = "list"
               /\ r.flow \in {"remove", "drop", "tag", "serve", "index", "list"}
  BY AtNow DEF List
<1> DEFINE found(ok) == IF ok THEN {v \in Vers : row[v] # NoRow} ELSE {}
           vs(ok)    == IF r.flow = "tag" THEN found(ok) ELSE found(ok) \cap r.aim
           next(ok)  == SetVers(r, vs(ok))
           out(ok)   == {<<v, {}>> : v \in found(ok) \cap ListOciImages(r.aim, row, r.source)}
           pv(ok)    == IF r.ver \in found(ok) THEN "load" ELSE "fetch"
<1>2. PICK ok \in BOOLEAN :
        /\ Go(c, CASE r.flow = "list"   -> SetPcOut(r, "done", out(ok))
                   [] r.flow = "tag"    -> SetPc(next(ok), "load")
                   [] r.flow = "serve"  -> SetPc(r, pv(ok))
                   [] r.flow = "index"  -> Advance(next(ok), "read")
                   [] r.flow = "remove" -> Advance(next(ok), "load")
                   [] r.flow = "drop"   -> Advance(next(ok), "drop"), ok)
        /\ OnlyReads
  BY <1>1, Zenon DEF List, SetPcOut, SetVers, SetPc, ListVersions
<1>3. /\ vs(ok) \in SUBSET Vers /\ pv(ok) \in Pcs /\ "done" \in Pcs /\ "load" \in Pcs
      /\ "read" \in Pcs /\ "drop" \in Pcs /\ out(ok) \in SUBSET (Vers \X SUBSET Digests)
  BY DEF Pcs
<1>4. (r.flow = "tag" => vs(ok) = found(ok)) /\ (r.flow # "tag" => vs(ok) = found(ok) \cap r.aim)
  OBVIOUS
<1> HIDE DEF found, vs, out, pv
<1>5. /\ next(ok) \in Request /\ Asked(r, next(ok)) /\ Kind(r, next(ok)) /\ next(ok).clean = r.clean
      /\ next(ok).ver = r.ver /\ next(ok).vers = vs(ok) /\ next(ok).tail = r.tail
      /\ next(ok).pc = r.pc /\ next(ok).row = r.row /\ next(ok).todo = r.todo /\ next(ok).out = r.out
  BY <1>1, <1>3, VersSet
<1> HIDE DEF next
<1> DEFINE To(x) ==
      \/ r.flow = "list" /\ x.pc = "done" /\ Walk(r, x) /\ x.out = out(ok)
      \/ /\ r.flow = "tag" /\ x.pc = "load" /\ x.ver = r.ver /\ x.tail = r.tail
         /\ x.vers = found(ok) /\ x.out = r.out
      \/ r.flow = "serve" /\ Walk(r, x) /\ x.out = r.out /\ x.pc = pv(ok)
      \/ r.flow = "index" /\ x.out = r.out /\ Advanced(next(ok), x, "read")
      \/ r.flow = "remove" /\ x.out = r.out /\ Advanced(next(ok), x, "load")
      \/ r.flow = "drop" /\ x.out = r.out /\ Advanced(next(ok), x, "drop")
<1>6. PICK x :
         /\ Go(c, x, ok)
         /\ \/ r.flow = "list" /\ x = SetPcOut(r, "done", out(ok))
            \/ r.flow = "tag" /\ x = SetPc(next(ok), "load")
            \/ r.flow = "serve" /\ x = SetPc(r, pv(ok))
            \/ r.flow = "index" /\ x = Advance(next(ok), "read")
            \/ r.flow = "remove" /\ x = Advance(next(ok), "load")
            \/ r.flow = "drop" /\ x = Advance(next(ok), "drop")
  BY <1>1, <1>2
<1>7. /\ x \in Request /\ Asked(r, x) /\ Kind(r, x) /\ x.clean = r.clean
      /\ x.row = r.row /\ x.todo = r.todo /\ To(x)
  <2>1. CASE r.flow = "list" /\ x = SetPcOut(r, "done", out(ok))
    BY <1>1, <1>3, <2>1, PcOutSet
  <2>2. CASE r.flow = "tag" /\ x = SetPc(next(ok), "load")
    <3>1. /\ x \in Request /\ Asked(next(ok), x) /\ Kind(next(ok), x) /\ Walk(next(ok), x)
          /\ x.clean = next(ok).clean /\ x.pc = "load" /\ x.row = next(ok).row
          /\ x.todo = next(ok).todo /\ x.out = next(ok).out
      BY <1>3, <1>5, <2>2, PcSet
    <3>2. Asked(r, x) /\ Kind(r, x) /\ x.ver = r.ver /\ x.vers = vs(ok) /\ x.tail = r.tail
      BY <1>5, <3>1 DEF Asked, Kind, Walk
    <3> QED BY <1>4, <1>5, <2>2, <3>1, <3>2
  <2>3. CASE r.flow = "serve" /\ x = SetPc(r, pv(ok))
    BY <1>1, <1>3, <2>3, PcSet
  <2>4. CASE r.flow \in {"index", "remove", "drop"}
    <3>1. \E p \in Pcs : x = Advance(next(ok), p)
      BY <1>3, <1>6, <2>4
    <3>2. /\ x \in Request /\ Asked(next(ok), x) /\ Kind(next(ok), x) /\ x.clean = next(ok).clean
          /\ x.row = next(ok).row /\ x.todo = next(ok).todo /\ x.out = next(ok).out
      BY <1>5, <3>1, Advances
    <3>3. Asked(r, x) /\ Kind(r, x)
      BY <1>5, <3>2 DEF Asked, Kind
    <3>4. CASE r.flow = "index" /\ x = Advance(next(ok), "read")
      BY <1>3, <1>5, <3>2, <3>3, <3>4, Advances
    <3>5. CASE r.flow = "remove" /\ x = Advance(next(ok), "load")
      BY <1>3, <1>5, <3>2, <3>3, <3>5, Advances
    <3>6. CASE r.flow = "drop" /\ x = Advance(next(ok), "drop")
      BY <1>3, <1>5, <3>2, <3>3, <3>6, Advances
    <3> QED BY <1>6, <2>4, <3>4, <3>5, <3>6
  <2> QED BY <1>1, <1>6, <2>1, <2>2, <2>3, <2>4
<1>8. PICK u : /\ Moves(c, r, u, ok) /\ Asked(x, u) /\ Kind(x, u) /\ Walk(x, u)
               /\ u.pc = x.pc /\ u.row = x.row /\ u.todo = x.todo /\ u.out = x.out
  BY <1>1, <1>6, <1>7, GoMoves
<1>9. Asked(r, u) /\ Kind(r, u)
  BY <1>6, <1>7, <1>8 DEF Asked, Kind
<1>10. To(u)
  BY <1>6, <1>7, <1>8 DEF Advanced, Walk
<1>11. \/ /\ r.flow = "list" /\ u.pc = "done" /\ Walk(r, u)
          /\ u.out = {<<v, {}>> : v \in found(ok) \cap ListOciImages(r.aim, row, r.source)}
       \/ /\ r.flow = "tag" /\ u.pc = "load" /\ u.ver = r.ver /\ u.tail = r.tail
          /\ u.vers = found(ok) /\ u.out = r.out
       \/ /\ r.flow = "serve" /\ Walk(r, u) /\ u.out = r.out
          /\ u.pc = (IF r.ver \in found(ok) THEN "load" ELSE "fetch")
       \/ /\ r.flow \in {"index", "remove", "drop"} /\ u.out = r.out
          /\ \E nx \in Request :
                /\ nx.ver = r.ver /\ nx.tail = r.tail /\ nx.vers = found(ok) \cap r.aim
                /\ Advanced(nx, u, CASE r.flow = "index" -> "read"
                                     [] r.flow = "remove" -> "load"
                                     [] r.flow = "drop" -> "drop")
  <2>1. CASE r.flow \in {"list", "tag", "serve"}
    BY <1>10, <2>1 DEF out, pv
  <2>2. CASE r.flow \in {"index", "remove", "drop"}
    <3>1. next(ok) \in Request /\ next(ok).ver = r.ver /\ next(ok).tail = r.tail /\ next(ok).vers = found(ok) \cap r.aim
      BY <1>4, <1>5, <2>2
    <3>2. u.out = r.out /\ Advanced(next(ok), u, CASE r.flow = "index" -> "read"
                                     [] r.flow = "remove" -> "load"
                                     [] r.flow = "drop" -> "drop")
      <4>1. CASE r.flow = "index"
        BY <1>10, <4>1
      <4>2. CASE r.flow = "remove"
        BY <1>10, <4>2
      <4>3. CASE r.flow = "drop"
        BY <1>10, <4>3
      <4> QED BY <2>2, <4>1, <4>2, <4>3
    <3> HIDE DEF To
    <3> QED BY <2>2, <3>1, <3>2
  <2> QED BY <1>1, <2>1, <2>2
<1> WITNESS ok, r, u, found(ok)
<1> HIDE DEF To
<1> QED BY <1>1, <1>2, <1>6, <1>7, <1>8, <1>9, <1>11 DEF found

LEMMA ReadDoes ==
    ASSUME TypeOK, NEW c \in Clients, Read(c)
    PROVE  \E ok, r, u :
              /\ Moves(c, r, u, ok) /\ Asked(r, u) /\ Kind(r, u) /\ OnlyReads
              /\ r.flow = "index" /\ r.pc = "read" /\ Advanced(r, u, "read")
              /\ u.row = r.row /\ u.todo = r.todo
              /\ u.out = r.out \cup (IF Got(c, ok) = NoRow THEN {} ELSE {<<r.ver, DigestsOf(Got(c, ok))>>})
<1>1. PICK r : r = req[c] /\ r # Idle /\ r \in Request /\ r.flow = "index" /\ r.pc = "read"
  BY AtNow DEF Read
<1> DEFINE got(ok) == IF Got(c, ok) = NoRow THEN {} ELSE {<<r.ver, DigestsOf(Got(c, ok))>>}
           o(ok) == r.out \cup got(ok)
           y(ok) == SetOut(r, o(ok))
<1>2. PICK ok \in BOOLEAN : Go(c, Advance(y(ok), "read"), ok) /\ OnlyReads
  BY <1>1 DEF Read, SetOut
<1>3. o(ok) \in SUBSET (Vers \X SUBSET Digests) /\ "read" \in Pcs
  <2>1. r.ver \in Vers /\ r.out \subseteq Vers \X SUBSET Digests
    BY <1>1, RequestTypes
  <2>2. DigestsOf(Got(c, ok)) \subseteq Digests
    BY <1>1, GotTypes
  <2> QED BY <2>1, <2>2 DEF Pcs
<1> HIDE DEF o
<1>4. /\ y(ok) \in Request /\ Asked(r, y(ok)) /\ Kind(r, y(ok)) /\ Walk(r, y(ok)) /\ y(ok).clean = r.clean
      /\ y(ok).pc = r.pc /\ y(ok).row = r.row /\ y(ok).todo = r.todo /\ y(ok).out = o(ok)
  BY <1>1, <1>3, OutSet
<1> HIDE DEF y
<1>5. PICK x : x = Advance(y(ok), "read") /\ Go(c, x, ok)
  BY <1>2
<1>6. /\ x \in Request /\ Asked(y(ok), x) /\ Kind(y(ok), x) /\ x.clean = y(ok).clean
      /\ x.row = y(ok).row /\ x.todo = y(ok).todo /\ x.out = y(ok).out /\ Advanced(y(ok), x, "read")
  BY <1>3, <1>4, <1>5, Advances
<1>7. PICK u : /\ Moves(c, r, u, ok) /\ Asked(x, u) /\ Kind(x, u) /\ Walk(x, u)
               /\ u.pc = x.pc /\ u.row = x.row /\ u.todo = x.todo /\ u.out = x.out
  BY <1>1, <1>4, <1>5, <1>6, GoMoves
<1>8. Asked(r, u) /\ Kind(r, u) /\ Advanced(r, u, "read")
  BY <1>4, <1>6, <1>7 DEF Asked, Kind, Walk, Advanced
<1>9. /\ Moves(c, r, u, ok) /\ Asked(r, u) /\ Kind(r, u) /\ OnlyReads
      /\ r.flow = "index" /\ r.pc = "read" /\ Advanced(r, u, "read")
      /\ u.row = r.row /\ u.todo = r.todo /\ u.out = o(ok)
  BY <1>1, <1>2, <1>4, <1>6, <1>7, <1>8
<1> QED BY <1>9 DEF o

\* What Open finds: a file that is stored, or, had no blob been lost, no file.
Opened(r, u, named) ==
    \/ u.pc = "fetch" /\ u.out = r.out /\ (u.clean => named = {})
    \/ /\ u.pc = "done"
       /\ u.clean => named # {} /\ u.out = {<<r.ver, {f.digest}>> : f \in named}

LEMMA OpenDoes ==
    ASSUME TypeOK, NEW c \in Clients, Open(c)
    PROVE  \E r, u, named :
              /\ Moves(c, r, u, TRUE) /\ Asked(r, u) /\ Kind(r, u) /\ Walk(r, u) /\ OnlyReads
              /\ r.flow = "serve" /\ r.pc = "open" /\ u.row = r.row /\ u.todo = r.todo
              /\ named = {f \in r.row.files : f.name = r.file}
              /\ Opened(r, u, named)
<1>1. PICK r : r = req[c] /\ r # Idle /\ r \in Request /\ r.flow = "serve" /\ r.pc = "open"
  BY AtNow DEF Open
<1> DEFINE named == {f \in r.row.files : f.name = r.file}
           here == Servable(r)
           stored == {f.digest : f \in named} \subseteq blob
           k == r.clean /\ stored
           o == {<<r.ver, {f.digest}>> : f \in here}
           y == [r EXCEPT !.pc = "fetch", !.clean = k]
           z == [r EXCEPT !.pc = "done", !.clean = k, !.out = o]
<1>2. OnlyReads /\ Go(c, IF here = {} THEN y ELSE z, TRUE)
  BY <1>1 DEF Open
<1>3. o \in SUBSET (Vers \X SUBSET Digests) /\ "done" \in Pcs /\ "fetch" \in Pcs
  <2>1. r.row.files \subseteq File /\ r.ver \in Vers
    BY <1>1, RequestTypes, RowFields
  <2>2. \A f \in Servable(r) : f.digest \in Digests
    BY <2>1 DEF Servable, File
  <2> QED BY <2>1, <2>2 DEF Pcs
<1>4. /\ k \in BOOLEAN
      /\ k /\ here = {} => named = {}
      /\ k /\ here # {} => named # {} /\ o = {<<r.ver, {f.digest}>> : f \in named}
  <2>1. k \in BOOLEAN
    BY <1>1, RequestTypes
  <2>2. stored => here = named
    BY DEF Servable
  <2> QED BY <2>1, <2>2
<1> HIDE DEF k, o, named, here
<1>5. /\ y \in Request /\ Asked(r, y) /\ Kind(r, y) /\ Walk(r, y) /\ y.clean = k
      /\ y.pc = "fetch" /\ y.row = r.row /\ y.todo = r.todo /\ y.out = r.out
  <2>1. y \in Request
    BY <1>1, <1>3, <1>4 DEF Request
  <2> QED BY <1>1, <2>1 DEF Request, Asked, Kind, Walk
<1>6. /\ z \in Request /\ Asked(r, z) /\ Kind(r, z) /\ Walk(r, z) /\ z.clean = k
      /\ z.pc = "done" /\ z.row = r.row /\ z.todo = r.todo /\ z.out = o
  <2>1. z \in Request
    BY <1>1, <1>3, <1>4 DEF Request
  <2> QED BY <1>1, <2>1 DEF Request, Asked, Kind, Walk
<1> HIDE DEF y, z
<1>7. PICK x : Go(c, x, TRUE) /\ ((here = {} /\ x = y) \/ (here # {} /\ x = z))
  <2>1. CASE here = {}
    <3>1. Go(c, y, TRUE)
      BY <1>2, <2>1, Zenon
    <3> QED BY <2>1, <3>1, Zenon
  <2>2. CASE here # {}
    <3>1. Go(c, z, TRUE)
      BY <1>2, <2>2, Zenon
    <3> QED BY <2>2, <3>1, Zenon
  <2> QED BY <2>1, <2>2
<1>8. /\ x \in Request /\ Asked(r, x) /\ Kind(r, x) /\ Walk(r, x) /\ (x.clean => r.clean)
      /\ x.row = r.row /\ x.todo = r.todo
      /\ \/ x.pc = "fetch" /\ x.out = r.out /\ (x.clean => named = {})
         \/ /\ x.pc = "done"
            /\ x.clean => named # {} /\ x.out = {<<r.ver, {f.digest}>> : f \in named}
  <2>1. k => r.clean
    BY DEF k
  <2>2. CASE here = {} /\ x = y
    BY <1>4, <1>5, <2>1, <2>2
  <2>3. CASE here # {} /\ x = z
    BY <1>4, <1>6, <2>1, <2>3
  <2> QED BY <1>7, <2>2, <2>3
<1>9. PICK u : /\ Moves(c, r, u, TRUE) /\ Asked(x, u) /\ Kind(x, u) /\ Walk(x, u)
               /\ u.pc = x.pc /\ u.row = x.row /\ u.todo = x.todo /\ u.out = x.out /\ (u.clean => x.clean)
  BY <1>1, <1>7, <1>8, GoMoves
<1>10. Asked(r, u) /\ Kind(r, u) /\ Walk(r, u)
  BY <1>8, <1>9 DEF Asked, Kind, Walk
<1>11. PICK m : m = named
  OBVIOUS
<1>12. /\ Moves(c, r, u, TRUE) /\ Asked(r, u) /\ Kind(r, u) /\ Walk(r, u) /\ OnlyReads
       /\ r.flow = "serve" /\ r.pc = "open" /\ u.row = r.row /\ u.todo = r.todo
       /\ m = {f \in r.row.files : f.name = r.file}
       /\ Opened(r, u, m)
  <2>1. Opened(r, u, m)
    BY <1>8, <1>9, <1>11 DEF Opened
  <2> QED BY <1>1, <1>2, <1>8, <1>9, <1>10, <1>11, <2>1 DEF named
<1> WITNESS r, u, m
<1> QED BY <1>12

\* What Fetch answers with: what the upstream has.
Fetched(ok, r, u) == ok => u.out = IF r.data = NoData THEN {} ELSE {<<r.ver, {r.data}>>}

LEMMA FetchDoes ==
    ASSUME TypeOK, NEW c \in Clients, Fetch(c)
    PROVE  \E ok, r, u :
              /\ Moves(c, r, u, ok) /\ Asked(r, u) /\ Walk(r, u) /\ UNCHANGED <<row, dirty>>
              /\ r.flow \in {"serve", "head"} /\ r.pc = "fetch" /\ u.todo = r.todo
              /\ Adds(ok /\ r.data # NoData /\ r.keep, r.data)
              /\ \/ /\ Kind(r, u) /\ u.pc = "done" /\ u.row = r.row
                    /\ Fetched(ok, r, u)
                 \/ /\ ok /\ r.data # NoData
                    /\ u.flow = r.store /\ r.store \in {"overwrite", "merge"} /\ u.source = "pull"
                    /\ u.row.files = {} /\ u.row.source = "pull" /\ u.row.notes = {}
                    /\ u.pc = (IF r.store = "merge" THEN "load" ELSE "blob")
<1>1. PICK r : r = req[c] /\ r # Idle /\ r \in Request /\ r.flow \in {"serve", "head"} /\ r.pc = "fetch"
  BY AtNow DEF Fetch
<1> DEFINE hit == r.data # NoData
           o == IF hit THEN {<<r.ver, {r.data}>>} ELSE {}
           y == SetOut(r, o)
           o2(ok) == IF ok THEN y.out ELSE {}
           w == [Blank EXCEPT !.source = "pull"]
           p == IF r.store = "merge" THEN "load" ELSE "blob"
           z == [y EXCEPT !.flow = r.store, !.source = "pull", !.row = w, !.pc = p]
<1>2. PICK ok \in BOOLEAN :
         /\ Go(c, IF ~hit \/ r.store = "none" THEN SetPc(y, "done")
                  ELSE IF ~ok \/ r.store = "blob" THEN SetPcOut(y, "done", o2(ok)) ELSE z, ok)
         /\ blob' = IF hit /\ r.keep /\ ok THEN blob \cup {r.data} ELSE blob
         /\ blamed' = IF hit /\ r.keep /\ ok THEN blamed \ {r.data} ELSE blamed
         /\ UNCHANGED <<row, dirty>>
  BY <1>1, Zenon DEF Fetch, SetOut, SetPc, SetPcOut
<1>3. /\ o \in SUBSET (Vers \X SUBSET Digests)
      /\ o = IF r.data = NoData THEN {} ELSE {<<r.ver, {r.data}>>}
  <2>1. hit => r.data \in Digests
    BY <1>1, RequestTypes
  <2>2. r.ver \in Vers
    BY <1>1, RequestTypes
  <2> QED BY <2>1, <2>2
<1>4. "done" \in Pcs /\ p \in Pcs /\ w \in Row /\ w.files = {} /\ w.source = "pull" /\ w.notes = {}
      /\ "pull" \in Source
  <2>1. "pull" \in Source
    BY DEF Source
  <2> QED BY <2>1, BlankFields, Zenon DEF Row, Pcs
<1> HIDE DEF o, p, w
<1>5. /\ y \in Request /\ Asked(r, y) /\ Kind(r, y) /\ Walk(r, y) /\ y.clean = r.clean
      /\ y.pc = r.pc /\ y.row = r.row /\ y.todo = r.todo /\ y.out = o
  BY <1>1, <1>3, OutSet
<1>6. o2(ok) \in SUBSET (Vers \X SUBSET Digests) /\ (ok => o2(ok) = o)
  BY <1>3, <1>5
<1> HIDE DEF y, o2
<1>7. ASSUME r.store \in {"overwrite", "merge"}
      PROVE  /\ z \in Request /\ Asked(y, z) /\ Walk(y, z) /\ z.clean = y.clean
             /\ z.flow = r.store /\ z.source = "pull" /\ z.pc = p /\ z.row = w /\ z.todo = y.todo
  <2>1. r.store \in Flows
    BY <1>7 DEF Flows, Writing
  <2>2. z \in Request
    BY <1>4, <1>5, <2>1 DEF Request
  <2> QED BY <1>5, <2>2 DEF Request, Asked, Walk
<1> HIDE DEF z
<1>8. r.store \in Stores
  BY <1>1, RequestTypes
<1>9. PICK x : /\ Go(c, x, ok)
               /\ \/ x = SetPc(y, "done")
                  \/ x = SetPcOut(y, "done", o2(ok))
                  \/ ok /\ hit /\ r.store \in {"overwrite", "merge"} /\ x = z
  BY <1>2, <1>8 DEF Stores
<1>10. /\ x \in Request /\ Asked(y, x) /\ Walk(y, x) /\ x.clean = y.clean /\ x.todo = y.todo
       /\ \/ Kind(y, x) /\ x.pc = "done" /\ x.row = y.row /\ (ok => x.out = o)
          \/ /\ ok /\ hit /\ r.store \in {"overwrite", "merge"} /\ x.flow = r.store
             /\ x.source = "pull" /\ x.row = w /\ x.pc = p
  <2>1. CASE x = SetPc(y, "done")
    BY <1>3, <1>4, <1>5, <2>1, PcSet
  <2>2. CASE x = SetPcOut(y, "done", o2(ok))
    BY <1>4, <1>5, <1>6, <2>2, PcOutSet
  <2>3. CASE ok /\ hit /\ r.store \in {"overwrite", "merge"} /\ x = z
    BY <1>7, <2>3
  <2> QED BY <1>9, <2>1, <2>2, <2>3
<1>11. PICK u : /\ Moves(c, r, u, ok) /\ Asked(x, u) /\ Kind(x, u) /\ Walk(x, u)
                /\ u.pc = x.pc /\ u.row = x.row /\ u.todo = x.todo /\ u.out = x.out
  <2>1. x.clean => r.clean
    BY <1>5, <1>10
  <2> QED BY <1>1, <1>9, <1>10, <2>1, GoMoves
<1>12. Asked(r, u) /\ Walk(r, u) /\ u.todo = r.todo
  BY <1>5, <1>10, <1>11 DEF Asked, Walk
<1>13. \/ /\ Kind(r, u) /\ u.pc = "done" /\ u.row = r.row
          /\ Fetched(ok, r, u)
       \/ /\ ok /\ r.data # NoData /\ u.flow = r.store /\ r.store \in {"overwrite", "merge"}
          /\ u.source = "pull" /\ u.row = w /\ u.pc = p
  BY <1>3, <1>5, <1>10, <1>11 DEF Kind, Fetched
<1>14. Adds(ok /\ r.data # NoData /\ r.keep, r.data) /\ UNCHANGED <<row, dirty>>
  BY <1>2 DEF Adds
<1>15. /\ Moves(c, r, u, ok) /\ Asked(r, u) /\ Walk(r, u) /\ UNCHANGED <<row, dirty>>
       /\ r.flow \in {"serve", "head"} /\ r.pc = "fetch" /\ u.todo = r.todo
       /\ Adds(ok /\ r.data # NoData /\ r.keep, r.data)
       /\ \/ /\ Kind(r, u) /\ u.pc = "done" /\ u.row = r.row
             /\ Fetched(ok, r, u)
          \/ /\ ok /\ r.data # NoData
             /\ u.flow = r.store /\ r.store \in {"overwrite", "merge"} /\ u.source = "pull"
             /\ u.row.files = {} /\ u.row.source = "pull" /\ u.row.notes = {}
             /\ u.pc = p
  BY <1>1, <1>4, <1>11, <1>12, <1>13, <1>14
<1> WITNESS ok, r, u
<1> QED BY <1>15 DEF p

LEMMA PutBlobDoes ==
    ASSUME TypeOK, NEW c \in Clients, Formed(req[c]), PutBlob(c)
    PROVE  \E ok, r, u :
              /\ Moves(c, r, u, ok) /\ Asked(r, u) /\ Kind(r, u) /\ Walk(r, u) /\ UNCHANGED <<row, dirty>>
              /\ r.flow \in {"overwrite", "merge"} /\ r.pc = "blob" /\ u.out = r.out
              /\ r.data \in Digests /\ Adds(ok, r.data)
              /\ u.row.source = r.row.source /\ u.row.notes = r.row.notes
              /\ u.row.files = {f \in r.row.files : f.name # r.file}
                               \cup (IF ok THEN {[name |-> r.file, digest |-> r.data]} ELSE {})
              /\ u.todo = {f.digest : f \in Replaced(r)} \ {r.data}
              /\ u.pc = (IF u.todo = {} THEN "save" ELSE "cull")
<1>1. PICK r : r = req[c] /\ r # Idle /\ r \in Request /\ r.flow \in {"overwrite", "merge"} /\ r.pc = "blob"
  BY AtNow DEF PutBlob
<1>2. r.data \in Digests /\ r.row.files \subseteq File /\ r.file \in Files
  <2>1. r.data # NoData
    BY <1>1 DEF Formed, FileFits
  <2> QED BY <1>1, <2>1, RequestTypes, RowFields
<1> DEFINE new(ok) == IF ok THEN {[name |-> r.file, digest |-> r.data]} ELSE {}
           old == {f.digest : f \in Replaced(r)} \ {r.data}
           F(ok) == (r.row.files \ Replaced(r)) \cup new(ok)
           p == IF old = {} THEN "save" ELSE "cull"
           x(ok) == [r EXCEPT !.row.files = F(ok), !.todo = old, !.pc = p]
<1>3. PICK ok \in BOOLEAN :
         /\ Go(c, x(ok), ok)
         /\ blob' = IF ok THEN blob \cup {r.data} ELSE blob
         /\ blamed' = IF ok THEN blamed \ {r.data} ELSE blamed
         /\ UNCHANGED <<row, dirty>>
  BY <1>1, Zenon DEF PutBlob
<1>4. Adds(ok, r.data) /\ UNCHANGED <<row, dirty>> /\ Go(c, x(ok), ok)
  BY <1>3 DEF Adds
<1>5. F(ok) = {f \in r.row.files : f.name # r.file}
              \cup (IF ok THEN {[name |-> r.file, digest |-> r.data]} ELSE {})
  BY DEF Replaced
<1>6. F(ok) \in SUBSET File /\ old \in SUBSET Digests /\ p \in Pcs
  <2>1. new(ok) \subseteq File
    BY <1>2 DEF File
  <2>2. \A f \in Replaced(r) : f.digest \in Digests
    BY <1>2 DEF Replaced, File
  <2> QED BY <1>2, <2>1, <2>2 DEF Pcs
<1> HIDE DEF F, old, p
<1>7. /\ x(ok) \in Request /\ Asked(r, x(ok)) /\ Kind(r, x(ok)) /\ Walk(r, x(ok)) /\ x(ok).clean = r.clean
      /\ x(ok).pc = p /\ x(ok).todo = old /\ x(ok).out = r.out
      /\ x(ok).row.files = F(ok) /\ x(ok).row.source = r.row.source /\ x(ok).row.notes = r.row.notes
  <2> DEFINE w == [r.row EXCEPT !.files = F(ok)]
  <2>1. r.row \in Row
    BY <1>1, RequestTypes
  <2>2. w \in Row /\ w.files = F(ok) /\ w.source = r.row.source /\ w.notes = r.row.notes
    BY <1>6, <2>1 DEF Row
  <2>3. x(ok) = [r EXCEPT !.row = w, !.todo = old, !.pc = p]
    BY <1>1, <2>1 DEF Request
  <2> HIDE DEF x, w
  <2>4. x(ok) \in Request
    BY <1>1, <1>6, <2>2, <2>3, Zenon DEF Request
  <2>5. /\ Asked(r, x(ok)) /\ Kind(r, x(ok)) /\ Walk(r, x(ok)) /\ x(ok).clean = r.clean
        /\ x(ok).pc = p /\ x(ok).todo = old /\ x(ok).out = r.out /\ x(ok).row = w
    BY <1>1, <2>3 DEF Request, Asked, Kind, Walk
  <2> QED BY <2>2, <2>4, <2>5
<1> HIDE DEF x
<1>8. PICK u : /\ Moves(c, r, u, ok) /\ Asked(x(ok), u) /\ Kind(x(ok), u) /\ Walk(x(ok), u)
               /\ u.pc = x(ok).pc /\ u.row = x(ok).row /\ u.todo = x(ok).todo /\ u.out = x(ok).out
  BY <1>1, <1>4, <1>7, GoMoves
<1>9. Asked(r, u) /\ Kind(r, u) /\ Walk(r, u)
  BY <1>7, <1>8 DEF Asked, Kind, Walk
<1>10. /\ Moves(c, r, u, ok) /\ Asked(r, u) /\ Kind(r, u) /\ Walk(r, u) /\ UNCHANGED <<row, dirty>>
       /\ r.flow \in {"overwrite", "merge"} /\ r.pc = "blob" /\ u.out = r.out
       /\ r.data \in Digests /\ Adds(ok, r.data)
       /\ u.row.source = r.row.source /\ u.row.notes = r.row.notes
       /\ u.row.files = F(ok) /\ u.todo = old /\ u.pc = p
  BY <1>1, <1>2, <1>4, <1>7, <1>8, <1>9
<1>11. p = (IF old = {} THEN "save" ELSE "cull")
  BY DEF p
<1>12. u.todo = {f.digest : f \in Replaced(r)} \ {r.data}
  BY <1>10 DEF old
<1>13. u.pc = (IF u.todo = {} THEN "save" ELSE "cull")
  BY <1>10, <1>11
<1>14. u.row.files = {f \in r.row.files : f.name # r.file}
                     \cup (IF ok THEN {[name |-> r.file, digest |-> r.data]} ELSE {})
  BY <1>5, <1>10
<1> QED BY <1>10, <1>12, <1>13, <1>14

LEMMA CullDoes ==
    ASSUME TypeOK, NEW c \in Clients, Cull(c)
    PROVE  \E ok, r, u, d :
              /\ Moves(c, r, u, ok) /\ Asked(r, u) /\ Kind(r, u) /\ Walk(r, u) /\ UNCHANGED <<row, dirty>>
              /\ r.flow \in {"remove", "merge", "prune", "unlink"} /\ r.pc = "cull"
              /\ u.row = r.row /\ u.out = r.out /\ d \in r.todo /\ d \in Digests /\ u.todo = r.todo \ {d}
              /\ \/ u.pc = "cull"
                 \/ r.flow = "merge" /\ u.pc = "save"
                 \/ r.flow = "remove" /\ u.pc = "drop"
                 \/ r.flow \in {"prune", "unlink"} /\ u.pc = "done"
              /\ blob' = (IF ok THEN blob \ {d} ELSE blob)
              /\ blamed' = (IF ok /\ InUse(c, d) THEN blamed \cup {d} ELSE blamed)
<1>1. PICK r : /\ r = req[c] /\ r # Idle /\ r \in Request /\ r.pc = "cull"
               /\ r.flow \in {"remove", "merge", "prune", "unlink"}
  BY AtNow DEF Cull
<1> DEFINE t(d) == r.todo \ {d}
           p(d) == IF r.todo # {d} THEN r.pc
                   ELSE CASE r.flow = "merge"  -> "save"
                          [] r.flow = "remove" -> "drop"
                          [] OTHER -> "done"
           y(d) == [r EXCEPT !.todo = t(d), !.pc = p(d)]
<1>2. PICK ok \in BOOLEAN, d \in Digests :
         /\ d \in r.todo /\ Go(c, y(d), ok)
         /\ blob' = (IF ok THEN blob \ {d} ELSE blob)
         /\ blamed' = (IF ok /\ InUse(c, d) THEN blamed \cup {d} ELSE blamed)
         /\ UNCHANGED <<row, dirty>>
  BY <1>1, Zenon DEF Cull
<1>3. /\ p(d) \in Pcs
      /\ \/ p(d) = "cull"
         \/ r.flow = "merge" /\ p(d) = "save"
         \/ r.flow = "remove" /\ p(d) = "drop"
         \/ r.flow \in {"prune", "unlink"} /\ p(d) = "done"
  BY <1>1 DEF Pcs
<1>4. t(d) \in SUBSET Digests
  BY <1>1, RequestTypes
<1> HIDE DEF p
<1>5. y(d) = SetPcTodo(r, p(d), t(d))
  <2>1. SetPcTodo(r, p(d), t(d)) \in Request
    BY <1>1, <1>3, <1>4, PcTodoSet
  <2> HIDE DEF t
  <2>2. y(d) \in Request
    BY <1>1, <1>3, <1>4 DEF Request
  <2> QED BY <1>1, <2>1, <2>2 DEF Request, SetPcTodo
<1>6. PICK x : x = SetPcTodo(r, p(d), t(d)) /\ Go(c, x, ok)
  BY <1>2, <1>5
<1> HIDE DEF y
<1>7. /\ x \in Request /\ Asked(r, x) /\ Kind(r, x) /\ Walk(r, x) /\ x.clean = r.clean
      /\ x.pc = p(d) /\ x.row = r.row /\ x.todo = t(d) /\ x.out = r.out
  <2> HIDE DEF t
  <2> QED BY <1>1, <1>3, <1>4, <1>6, PcTodoSet
<1>8. PICK u : /\ Moves(c, r, u, ok) /\ Asked(x, u) /\ Kind(x, u) /\ Walk(x, u)
               /\ u.pc = x.pc /\ u.row = x.row /\ u.todo = x.todo /\ u.out = x.out
  BY <1>1, <1>6, <1>7, GoMoves
<1>9. Asked(r, u) /\ Kind(r, u) /\ Walk(r, u)
  BY <1>7, <1>8 DEF Asked, Kind, Walk
<1>10. /\ blob' = (IF ok THEN blob \ {d} ELSE blob)
       /\ blamed' = (IF ok /\ InUse(c, d) THEN blamed \cup {d} ELSE blamed)
       /\ UNCHANGED <<row, dirty>> /\ d \in r.todo /\ d \in Digests
  BY <1>2
<1> WITNESS ok, r, u, d
<1> QED BY <1>1, <1>3, <1>7, <1>8, <1>9, <1>10

LEMMA SaveDoes ==
    ASSUME TypeOK, NEW c \in Clients, Save(c)
    PROVE  \E ok, r, u, kept :
              /\ Moves(c, r, u, ok) /\ Asked(r, u) /\ Kind(r, u) /\ UNCHANGED blob
              /\ r.flow \in {"overwrite", "merge", "prune", "edit", "tag", "amend"} /\ r.pc = "save"
              /\ u.row = r.row /\ u.todo = r.todo /\ u.out = r.out
              /\ \/ r.flow = "prune" /\ u.pc = "cull" /\ Walk(r, u)
                 \/ Advanced(r, u, "load")
              /\ kept = (IF r.flow = "prune" /\ r.row.files = {} THEN NoRow ELSE r.row)
              /\ Puts(ok, r.ver, kept)
              /\ blamed' = (IF ok THEN blamed \cup Revived(r) ELSE blamed)
<1>1. PICK r : /\ r = req[c] /\ r # Idle /\ r \in Request /\ r.pc = "save"
               /\ r.flow \in {"overwrite", "merge", "prune", "edit", "tag", "amend"}
  BY AtNow DEF Save
<1> DEFINE kept == IF r.flow = "prune" /\ r.row.files = {} THEN NoRow ELSE r.row
<1>2. PICK ok \in BOOLEAN :
         /\ Go(c, IF r.flow = "prune" /\ r.todo # {} THEN SetPc(r, "cull") ELSE Advance(r, "load"), ok)
         /\ IF ok THEN SetRow(r.ver, kept) ELSE UNCHANGED <<row, dirty>>
         /\ blamed' = IF ok THEN blamed \cup Revived(r) ELSE blamed
         /\ UNCHANGED blob
  BY <1>1 DEF Save, SetPc
<1>3. PICK x : Go(c, x, ok) /\ ((r.flow = "prune" /\ x = SetPc(r, "cull")) \/ x = Advance(r, "load"))
  BY <1>2
<1>4. "cull" \in Pcs /\ "load" \in Pcs
  BY DEF Pcs
<1>5. /\ x \in Request /\ Asked(r, x) /\ Kind(r, x) /\ x.clean = r.clean
      /\ x.row = r.row /\ x.todo = r.todo /\ x.out = r.out
      /\ (r.flow = "prune" /\ x.pc = "cull" /\ Walk(r, x)) \/ Advanced(r, x, "load")
  <2>1. CASE r.flow = "prune" /\ x = SetPc(r, "cull")
    BY <1>1, <1>4, <2>1, PcSet
  <2>2. CASE x = Advance(r, "load")
    BY <1>1, <1>4, <2>2, Advances
  <2> QED BY <1>3, <2>1, <2>2
<1>6. PICK u : /\ Moves(c, r, u, ok) /\ Asked(x, u) /\ Kind(x, u) /\ Walk(x, u)
               /\ u.pc = x.pc /\ u.row = x.row /\ u.todo = x.todo /\ u.out = x.out
  BY <1>1, <1>3, <1>5, GoMoves
<1>7. /\ Asked(r, u) /\ Kind(r, u)
      /\ (r.flow = "prune" /\ u.pc = "cull" /\ Walk(r, u)) \/ Advanced(r, u, "load")
  BY <1>5, <1>6 DEF Asked, Kind, Walk, Advanced
<1> HIDE DEF kept
<1>8. Puts(ok, r.ver, kept) /\ UNCHANGED blob /\ blamed' = IF ok THEN blamed \cup Revived(r) ELSE blamed
  BY <1>2 DEF Puts
<1> WITNESS ok, r, u, kept
<1> QED BY <1>1, <1>5, <1>6, <1>7, <1>8 DEF kept

LEMMA DropDoes ==
    ASSUME TypeOK, NEW c \in Clients, Drop(c)
    PROVE  \E ok, r, u :
              /\ Moves(c, r, u, ok) /\ Asked(r, u) /\ Kind(r, u) /\ UNCHANGED <<blob, blamed>>
              /\ r.flow \in {"remove", "drop"} /\ r.pc = "drop"
              /\ u.row = r.row /\ u.todo = r.todo /\ u.out = r.out
              /\ Advanced(r, u, IF r.flow = "remove" THEN "load" ELSE "drop")
              /\ Puts(ok, r.ver, NoRow)
<1>1. PICK r : r = req[c] /\ r # Idle /\ r \in Request /\ r.pc = "drop" /\ r.flow \in {"remove", "drop"}
  BY AtNow DEF Drop
<1> DEFINE p == IF r.flow = "remove" THEN "load" ELSE "drop"
<1>2. PICK ok \in BOOLEAN :
         /\ Go(c, Advance(r, p), ok)
         /\ IF ok THEN SetRow(r.ver, NoRow) ELSE UNCHANGED <<row, dirty>>
         /\ UNCHANGED <<blob, blamed>>
  BY <1>1 DEF Drop
<1>3. p \in Pcs
  BY DEF Pcs
<1> HIDE DEF p
<1>4. PICK x : Go(c, x, ok) /\ x = Advance(r, p)
  BY <1>2
<1>5. /\ x \in Request /\ Asked(r, x) /\ Kind(r, x) /\ x.clean = r.clean
      /\ x.row = r.row /\ x.todo = r.todo /\ x.out = r.out /\ Advanced(r, x, p)
  BY <1>1, <1>3, <1>4, Advances
<1>6. PICK u : /\ Moves(c, r, u, ok) /\ Asked(x, u) /\ Kind(x, u) /\ Walk(x, u)
               /\ u.pc = x.pc /\ u.row = x.row /\ u.todo = x.todo /\ u.out = x.out
  BY <1>1, <1>4, <1>5, GoMoves
<1>7. Asked(r, u) /\ Kind(r, u) /\ Advanced(r, u, p)
  BY <1>5, <1>6 DEF Asked, Kind, Walk, Advanced
<1>8. Puts(ok, r.ver, NoRow) /\ UNCHANGED <<blob, blamed>>
  BY <1>2 DEF Puts
<1>9. /\ Moves(c, r, u, ok) /\ Asked(r, u) /\ Kind(r, u) /\ UNCHANGED <<blob, blamed>>
      /\ r.flow \in {"remove", "drop"} /\ r.pc = "drop"
      /\ u.row = r.row /\ u.todo = r.todo /\ u.out = r.out
      /\ Advanced(r, u, p) /\ Puts(ok, r.ver, NoRow)
  BY <1>1, <1>5, <1>6, <1>7, <1>8
<1> QED BY <1>9 DEF p

LEMMA WipeDoes ==
    ASSUME TypeOK, NEW c \in Clients, Wipe(c)
    PROVE  \E ok, r, u :
              /\ Moves(c, r, u, ok) /\ Asked(r, u) /\ Kind(r, u) /\ Walk(r, u)
              /\ UNCHANGED <<blob, blamed>>
              /\ r.flow = "wipe" /\ r.pc = "drop" /\ u.pc = "done"
              /\ u.row = r.row /\ u.todo = r.todo /\ u.out = r.out
              /\ IF ok THEN /\ row' = [v \in Vers |-> NoRow]
                            /\ dirty' = (IF gc.pc = "idle" THEN {} ELSE Vers)
                       ELSE UNCHANGED <<row, dirty>>
<1>1. PICK r : r = req[c] /\ r # Idle /\ r \in Request /\ r.pc = "drop" /\ r.flow = "wipe"
  BY AtNow DEF Wipe
<1>2. PICK ok \in BOOLEAN :
         \E x :
           /\ x = SetPc(r, "done") /\ Go(c, x, ok) /\ UNCHANGED <<blob, blamed>>
           /\ IF ok THEN /\ row' = [v \in Vers |-> NoRow]
                         /\ dirty' = (IF gc.pc = "idle" THEN {} ELSE Vers)
                    ELSE UNCHANGED <<row, dirty>>
  BY <1>1 DEF Wipe, SetPc
<1>3. PICK x :
         /\ x = SetPc(r, "done") /\ Go(c, x, ok) /\ UNCHANGED <<blob, blamed>>
         /\ IF ok THEN /\ row' = [v \in Vers |-> NoRow]
                       /\ dirty' = (IF gc.pc = "idle" THEN {} ELSE Vers)
                  ELSE UNCHANGED <<row, dirty>>
  BY <1>2
<1>4. "done" \in Pcs
  BY DEF Pcs
<1>5. /\ x \in Request /\ Asked(r, x) /\ Kind(r, x) /\ Walk(r, x) /\ x.clean = r.clean
      /\ x.pc = "done" /\ x.row = r.row /\ x.todo = r.todo /\ x.out = r.out
  BY <1>1, <1>3, <1>4, PcSet
<1>6. PICK u : /\ Moves(c, r, u, ok) /\ Asked(x, u) /\ Kind(x, u) /\ Walk(x, u)
               /\ u.pc = x.pc /\ u.row = x.row /\ u.todo = x.todo /\ u.out = x.out
  BY <1>1, <1>3, <1>5, GoMoves
<1>7. Asked(r, u) /\ Kind(r, u) /\ Walk(r, u)
  BY <1>5, <1>6 DEF Asked, Kind, Walk
<1> WITNESS ok, r, u
<1> QED BY <1>1, <1>3, <1>5, <1>6, <1>7

LEMMA TheFileIn == TheFile \in Files
BY ConstAssumption DEF TheFile

\* A request that has only a flow, a version and a first step.
Bare(x, f, v, p) ==
    /\ x \in Request
    /\ x.flow = f /\ x.ver = v /\ x.pc = p /\ x.file = TheFile /\ x.data = NoData
    /\ x.source = "" /\ x.note = NoData /\ x.add = FALSE /\ x.store = "none" /\ x.keep = FALSE
    /\ x.aim = {} /\ x.tail = FALSE /\ x.row = Blank /\ x.todo = {} /\ x.vers = {} /\ x.out = {}
    /\ x.before = row /\ x.clean = TRUE

LEMMA AskFields ==
    ASSUME TypeOK, NEW f \in Flows, NEW v \in Vers, NEW p \in Pcs
    PROVE  Bare(Ask(f, v, p), f, v, p)
<1> DEFINE x == Ask(f, v, p)
<1>1. /\ x.flow = f /\ x.ver = v /\ x.pc = p /\ x.file = TheFile /\ x.data = NoData
      /\ x.source = "" /\ x.note = NoData /\ x.add = FALSE /\ x.store = "none" /\ x.keep = FALSE
      /\ x.aim = {} /\ x.tail = FALSE /\ x.row = Blank /\ x.todo = {} /\ x.vers = {} /\ x.out = {}
      /\ x.before = row /\ x.clean = TRUE
  BY DEF Ask
<1>2. /\ row \in [Vers -> Row \cup {NoRow}] /\ TheFile \in Files /\ "" \in Source /\ "none" \in Stores
      /\ Blank \in Row
  BY TheFileIn, BlankFields, Zenon DEF TypeOK, Source, Stores
<1>3. x \in Request
  BY <1>2, Zenon DEF Ask, Request
<1> HIDE DEF x
<1>4. Bare(x, f, v, p)
  BY <1>1, <1>3, Zenon DEF Bare
<1> QED BY <1>4 DEF x

LEMMA HoldsNotes ==
    ASSUME NEW m \in Manifests \cup {Doc}
    PROVE  Holds(m) \in Notes /\ Holds(m)[2] = m /\ m \in Vers
           /\ \A n : Holds(n) = Holds(m) => n = m
<1>1. m \in Vers
  BY ManifestsAssumption DEF Vers
<1> QED BY <1>1 DEF Holds, Notes, Labels

\* A request to put manifest m, and the versions that are left to put.
Putting(x, m, v, S, s) ==
    /\ x \in Request
    /\ x.flow = "image" /\ x.ver = v /\ x.pc = "save" /\ x.file = TheFile /\ x.data = NoData
    /\ x.source = s /\ x.note = Holds(m) /\ x.aim = {v} \cup S /\ x.tail = FALSE
    /\ x.row = [files |-> Layers, source |-> s, notes |-> {Holds(m)}]
    /\ x.vers = S

LEMMA ImageFields ==
    ASSUME TypeOK, NEW m \in Manifests, NEW v \in References, NEW S \in SUBSET References,
           NEW s \in Source
    PROVE  LET x == Image(m, v, S, s) IN
           Putting(x, m, v, S, s) /\ x.before = row /\ x.clean = TRUE
<1> DEFINE w == [files |-> Layers, source |-> s, notes |-> {Holds(m)}]
           a == Ask("image", v, "save")
           A == {v} \cup S
           n == Holds(m)
<1>1. w \in Row
  <2>1. Layers \subseteq File
    BY TheFileIn DEF Layers, File
  <2>2. {Holds(m)} \subseteq Notes
    BY HoldsNotes
  <2> QED BY <2>1, <2>2 DEF Row
<1>2. /\ a \in Request /\ a.flow = "image" /\ a.ver = v /\ a.pc = "save" /\ a.file = TheFile
      /\ a.data = NoData /\ a.tail = FALSE /\ a.before = row /\ a.clean = TRUE
  <2>1. "image" \in Flows /\ "save" \in Pcs /\ v \in Vers
    BY DEF Flows, Writing, Pcs, Vers
  <2>2. Bare(a, "image", v, "save")
    BY <2>1, AskFields
  <2> HIDE DEF w, a, A, n
  <2> QED BY <2>2, Zenon DEF Bare
<1>3. A \in SUBSET Vers /\ S \in SUBSET Vers /\ n \in Notes
  BY HoldsNotes DEF Vers
<1> HIDE DEF w, a, A, n
<1>4. Image(m, v, S, s) = [a EXCEPT !.note = n, !.source = s, !.aim = A, !.vers = S, !.row = w]
  BY DEF Image, w, a, A, n
<1> DEFINE x == [a EXCEPT !.note = n, !.source = s, !.aim = A, !.vers = S, !.row = w]
<1>5. x \in Request
  BY <1>1, <1>2, <1>3 DEF Request
<1>6. /\ x.flow = a.flow /\ x.ver = a.ver /\ x.pc = a.pc /\ x.file = a.file /\ x.data = a.data
      /\ x.source = s /\ x.note = n /\ x.aim = A /\ x.tail = a.tail /\ x.row = w
      /\ x.vers = S /\ x.before = a.before /\ x.clean = a.clean
  BY <1>2 DEF Request
<1> HIDE DEF x
<1>7. Image(m, v, S, s) = x
  BY <1>4 DEF x
<1>8. Putting(x, m, v, S, s) /\ x.before = row /\ x.clean = TRUE
  BY <1>2, <1>5, <1>6 DEF w, n, A, Putting
<1> QED BY <1>7, <1>8

LEMMA ResolveDoes ==
    ASSUME TypeOK, NEW c \in Clients, Resolve(c)
    PROVE  \E ok, r, u :
              /\ Moves(c, r, u, ok) /\ Asked(r, u) /\ Kind(r, u) /\ Walk(r, u) /\ OnlyReads
              /\ r.flow = "resolve" /\ r.pc = "load" /\ u.row = r.row /\ u.todo = r.todo
              /\ u.pc = (IF Got(c, ok) = NoRow THEN "fetch" ELSE "done")
<1>1. PICK r : r = req[c] /\ r # Idle /\ r \in Request /\ r.flow = "resolve" /\ r.pc = "load"
  BY AtNow DEF Resolve
<1> DEFINE o == {<<r.ver, {}>>}
<1>2. PICK ok \in BOOLEAN :
         \E x :
           /\ x = (IF Got(c, ok) = NoRow THEN SetPc(r, "fetch") ELSE SetPcOut(r, "done", o))
           /\ Go(c, x, ok) /\ OnlyReads
  BY <1>1 DEF Resolve, SetPc, SetPcOut
<1>3. PICK x :
         /\ x = (IF Got(c, ok) = NoRow THEN SetPc(r, "fetch") ELSE SetPcOut(r, "done", o))
         /\ Go(c, x, ok) /\ OnlyReads
  BY <1>2
<1>4. o \in SUBSET (Vers \X SUBSET Digests) /\ "done" \in Pcs /\ "fetch" \in Pcs
  <2>1. r.ver \in Vers
    BY <1>1, RequestTypes
  <2> QED BY <2>1 DEF Pcs
<1> HIDE DEF o
<1>5. /\ x \in Request /\ Asked(r, x) /\ Kind(r, x) /\ Walk(r, x) /\ x.clean = r.clean
      /\ x.row = r.row /\ x.todo = r.todo /\ x.pc = (IF Got(c, ok) = NoRow THEN "fetch" ELSE "done")
  <2>1. CASE Got(c, ok) = NoRow /\ x = SetPc(r, "fetch")
    BY <1>1, <1>4, <2>1, PcSet
  <2>2. CASE Got(c, ok) # NoRow /\ x = SetPcOut(r, "done", o)
    BY <1>1, <1>4, <2>2, PcOutSet
  <2> QED BY <1>3, <2>1, <2>2
<1>6. PICK u : /\ Moves(c, r, u, ok) /\ Asked(x, u) /\ Kind(x, u) /\ Walk(x, u)
               /\ u.pc = x.pc /\ u.row = x.row /\ u.todo = x.todo /\ u.out = x.out
  BY <1>1, <1>3, <1>5, GoMoves
<1>7. Asked(r, u) /\ Kind(r, u) /\ Walk(r, u)
  BY <1>5, <1>6 DEF Asked, Kind, Walk
<1> QED BY <1>1, <1>3, <1>5, <1>6, <1>7

LEMMA FetchManifestDoes ==
    ASSUME TypeOK, NEW c \in Clients, Formed(req[c]), FetchManifest(c)
    PROVE  \E r, u :
              /\ Moves(c, r, u, TRUE) /\ OnlyReads /\ r.flow = "resolve" /\ r.pc = "fetch"
              /\ u.before = r.before
              /\ \/ Asked(r, u) /\ Kind(r, u) /\ Walk(r, u) /\ u.row = r.row /\ u.todo = r.todo /\ u.pc = "done"
                 \/ \E m \in Manifests :
                       /\ r.note = Holds(m) /\ r.ver \in References /\ (r.ver \in Manifests => m = r.ver)
                       /\ Putting(u, m, r.ver, {m}, "pull")
<1>1. PICK r : r = req[c] /\ r # Idle /\ r \in Request /\ r.flow = "resolve" /\ r.pc = "fetch"
  BY AtNow DEF FetchManifest
<1>2. PICK m \in Manifests \cup {Doc} :
         /\ r.note = Holds(m) /\ r.ver \in References /\ (r.ver \in Manifests => m \in {r.ver, Doc})
  BY <1>1 DEF Formed, ImageFits
<1>3. r.note[2] = m
  BY <1>2, HoldsNotes
<1> DEFINE b == Image(m, r.ver, {m}, "pull")
           y == [b EXCEPT !.before = r.before, !.clean = r.clean]
<1>4. Go(c, IF m = Doc THEN SetPc(r, "done") ELSE y, TRUE) /\ OnlyReads
  BY <1>1, <1>3 DEF FetchManifest, SetPc
<1>5. CASE m = Doc
  <2>1. PICK ok \in BOOLEAN : \E x : ok = TRUE /\ x = SetPc(r, "done") /\ Go(c, x, ok)
    BY <1>4, <1>5
  <2>2. PICK x : ok = TRUE /\ x = SetPc(r, "done") /\ Go(c, x, ok)
    BY <2>1
  <2>3. /\ x \in Request /\ Asked(r, x) /\ Kind(r, x) /\ Walk(r, x) /\ x.clean = r.clean
        /\ x.row = r.row /\ x.todo = r.todo /\ x.pc = "done"
    BY <1>1, <2>2, PcSet DEF Pcs
  <2>4. PICK u : /\ Moves(c, r, u, ok) /\ Asked(x, u) /\ Kind(x, u) /\ Walk(x, u)
                 /\ u.pc = x.pc /\ u.row = x.row /\ u.todo = x.todo /\ u.out = x.out
    <3>1. x \in Request /\ (x.clean => r.clean) /\ Go(c, x, ok)
      BY <2>2, <2>3
    <3> QED BY <1>1, <3>1, GoMoves
  <2>5. Asked(r, u) /\ Kind(r, u) /\ Walk(r, u) /\ u.before = r.before
    BY <2>3, <2>4 DEF Asked, Kind, Walk
  <2>6. /\ Moves(c, r, u, TRUE) /\ OnlyReads /\ r.flow = "resolve" /\ r.pc = "fetch"
        /\ u.before = r.before
        /\ Asked(r, u) /\ Kind(r, u) /\ Walk(r, u) /\ u.row = r.row /\ u.todo = r.todo /\ u.pc = "done"
    BY <1>1, <1>4, <2>2, <2>3, <2>4, <2>5
  <2> QED BY <2>6
<1>6. CASE m \in Manifests /\ m # Doc
  <2>1. Putting(b, m, r.ver, {m}, "pull")
    <3>1. {m} \in SUBSET References /\ "pull" \in Source /\ m \in Manifests /\ r.ver \in References
      BY <1>2, <1>6, ManifestsAssumption DEF Source
    <3> QED BY <3>1, ImageFields
  <2> HIDE DEF b
  <2>2. Putting(y, m, r.ver, {m}, "pull") /\ y.before = r.before /\ y.clean = r.clean
    <3>1. r.before \in [Vers -> Row \cup {NoRow}] /\ r.clean \in BOOLEAN /\ b \in Request
      BY <1>1, <2>1, RequestTypes DEF Putting
    <3>2. y \in Request
      BY <3>1 DEF Request
    <3>3. /\ y.before = r.before /\ y.clean = r.clean
          /\ y.flow = b.flow /\ y.ver = b.ver /\ y.pc = b.pc /\ y.file = b.file /\ y.data = b.data
          /\ y.source = b.source /\ y.note = b.note /\ y.aim = b.aim /\ y.tail = b.tail
          /\ y.row = b.row /\ y.vers = b.vers
      BY <3>1 DEF Request
    <3> HIDE DEF y
    <3> QED BY <2>1, <3>2, <3>3 DEF Putting
  <2> HIDE DEF y
  <2>3. PICK ok \in BOOLEAN : \E x : ok = TRUE /\ x = y /\ Go(c, x, ok)
    BY <1>4, <1>6
  <2>4. PICK x : ok = TRUE /\ x = y /\ Go(c, x, ok)
    BY <2>3
  <2>5. x \in Request /\ (x.clean => r.clean) /\ Go(c, x, ok)
    BY <2>2, <2>4 DEF Putting
  <2>6. PICK u : /\ Moves(c, r, u, ok) /\ Asked(x, u) /\ Kind(x, u) /\ Walk(x, u)
                 /\ u.pc = x.pc /\ u.row = x.row /\ u.todo = x.todo /\ u.out = x.out
    BY <1>1, <2>5, GoMoves
  <2>7. Putting(u, m, r.ver, {m}, "pull") /\ u.before = r.before
    <3>1. u \in Request
      BY <2>6 DEF Moves
    <3> QED BY <2>2, <2>4, <2>6, <3>1 DEF Asked, Kind, Walk, Putting
  <2>8. Moves(c, r, u, TRUE)
    BY <2>4, <2>6
  <2>9. m \in Manifests /\ (r.ver \in Manifests => m = r.ver)
    BY <1>2, <1>6
  <2>10. /\ Moves(c, r, u, TRUE) /\ OnlyReads /\ r.flow = "resolve" /\ r.pc = "fetch"
        /\ u.before = r.before
        /\ r.note = Holds(m) /\ r.ver \in References /\ (r.ver \in Manifests => m = r.ver)
        /\ Putting(u, m, r.ver, {m}, "pull")
    BY <1>1, <1>2, <1>4, <2>7, <2>8, <2>9
  <2> QED BY <2>9, <2>10
<1>7. Doc \notin Manifests
  BY VersAreNat, ManifestsAssumption
<1> QED BY <1>2, <1>5, <1>6, <1>7

LEMMA PutImageDoes ==
    ASSUME TypeOK, NEW c \in Clients, PutImage(c)
    PROVE  \E ok, r, u :
              /\ Moves(c, r, u, ok) /\ Asked(r, u) /\ Kind(r, u) /\ UNCHANGED <<blob, blamed>>
              /\ r.flow = "image" /\ r.pc = "save" /\ u.row = r.row /\ u.todo = r.todo
              /\ \/ ~ok /\ u.pc = "done" /\ Walk(r, u)
                 \/ Advanced(r, u, "save")
              /\ Puts(ok, r.ver, r.row)
<1>1. PICK r : r = req[c] /\ r # Idle /\ r \in Request /\ r.pc = "save" /\ r.flow = "image"
  BY AtNow DEF PutImage
<1>2. PICK ok \in BOOLEAN :
         \E x :
           /\ x = (IF ~ok /\ r.source = "push" THEN SetPc(r, "done") ELSE Advance(r, "save"))
           /\ Go(c, x, ok) /\ UNCHANGED <<blob, blamed>>
           /\ IF ok THEN SetRow(r.ver, r.row) ELSE UNCHANGED <<row, dirty>>
  BY <1>1 DEF PutImage, SetPc
<1>3. PICK x :
         /\ x = (IF ~ok /\ r.source = "push" THEN SetPc(r, "done") ELSE Advance(r, "save"))
         /\ Go(c, x, ok) /\ UNCHANGED <<blob, blamed>>
         /\ IF ok THEN SetRow(r.ver, r.row) ELSE UNCHANGED <<row, dirty>>
  BY <1>2
<1>4. "done" \in Pcs /\ "save" \in Pcs
  BY DEF Pcs
<1>5. /\ x \in Request /\ Asked(r, x) /\ Kind(r, x) /\ x.clean = r.clean
      /\ x.row = r.row /\ x.todo = r.todo
      /\ (~ok /\ x.pc = "done" /\ Walk(r, x)) \/ Advanced(r, x, "save")
  <2>1. CASE ~ok /\ x = SetPc(r, "done")
    BY <1>1, <1>4, <2>1, PcSet
  <2>2. CASE x = Advance(r, "save")
    BY <1>1, <1>4, <2>2, Advances
  <2> QED BY <1>3, <2>1, <2>2
<1>6. PICK u : /\ Moves(c, r, u, ok) /\ Asked(x, u) /\ Kind(x, u) /\ Walk(x, u)
               /\ u.pc = x.pc /\ u.row = x.row /\ u.todo = x.todo /\ u.out = x.out
  BY <1>1, <1>3, <1>5, GoMoves
<1>7. /\ Asked(r, u) /\ Kind(r, u)
      /\ (~ok /\ u.pc = "done" /\ Walk(r, u)) \/ Advanced(r, u, "save")
  BY <1>5, <1>6 DEF Asked, Kind, Walk, Advanced
<1>8. Puts(ok, r.ver, r.row)
  BY <1>3 DEF Puts
<1> QED BY <1>1, <1>3, <1>5, <1>6, <1>7, <1>8

\* The steps on a single blob.
LEMMA LayerDoes ==
    ASSUME TypeOK, NEW c \in Clients, StatBlob(c) \/ StoreBlob(c)
    PROVE  \E ok, b, r, u :
              /\ Moves(c, r, u, ok) /\ Asked(r, u) /\ Kind(r, u) /\ Walk(r, u) /\ UNCHANGED <<row, dirty>>
              /\ r.flow = "layer" /\ u.row = r.row /\ u.todo = r.todo /\ u.pc \in {"blob", "done"}
              /\ Adds(b, r.data)
<1>1. CASE StatBlob(c)
  <2>1. PICK r : r = req[c] /\ r # Idle /\ r \in Request /\ r.flow = "layer"
    BY <1>1, AtNow DEF StatBlob
  <2> DEFINE p == IF r.data \notin blob /\ r.keep THEN "blob" ELSE "done"
  <2>2. PICK ok \in BOOLEAN : \E x : ok = TRUE /\ x = SetPc(r, p) /\ Go(c, x, ok) /\ OnlyReads
    BY <1>1, <2>1 DEF StatBlob, SetPc
  <2>3. PICK x : ok = TRUE /\ x = SetPc(r, p) /\ Go(c, x, ok) /\ OnlyReads
    BY <2>2
  <2>4. p \in Pcs /\ p \in {"blob", "done"}
    BY DEF Pcs
  <2> HIDE DEF p
  <2>5. /\ x \in Request /\ Asked(r, x) /\ Kind(r, x) /\ Walk(r, x) /\ x.clean = r.clean
        /\ x.pc = p /\ x.row = r.row /\ x.todo = r.todo /\ x.out = r.out
    BY <2>1, <2>3, <2>4, PcSet
  <2>6. PICK u : /\ Moves(c, r, u, ok) /\ Asked(x, u) /\ Kind(x, u) /\ Walk(x, u)
                 /\ u.pc = x.pc /\ u.row = x.row /\ u.todo = x.todo /\ u.out = x.out
    <3>1. x \in Request /\ (x.clean => r.clean) /\ Go(c, x, ok)
      BY <2>3, <2>5
    <3> QED BY <2>1, <3>1, GoMoves
  <2>7. Asked(r, u) /\ Kind(r, u) /\ Walk(r, u)
    BY <2>5, <2>6 DEF Asked, Kind, Walk
  <2>8. Adds(FALSE, r.data) /\ UNCHANGED <<row, dirty>>
    BY <2>3 DEF OnlyReads, Adds
  <2> WITNESS ok, FALSE, r, u
  <2> QED BY <2>1, <2>4, <2>5, <2>6, <2>7, <2>8
<1>2. CASE StoreBlob(c)
  <2>1. PICK r : r = req[c] /\ r # Idle /\ r \in Request /\ r.flow = "layer"
    BY <1>2, AtNow DEF StoreBlob
  <2>2. PICK ok \in BOOLEAN :
           \E x :
             /\ x = SetPc(r, "done") /\ Go(c, x, ok) /\ UNCHANGED <<row, dirty>> /\ Adds(ok, r.data)
    BY <1>2, <2>1 DEF StoreBlob, SetPc, Adds
  <2>3. PICK x :
           /\ x = SetPc(r, "done") /\ Go(c, x, ok) /\ UNCHANGED <<row, dirty>> /\ Adds(ok, r.data)
    BY <2>2
  <2>4. "done" \in Pcs
    BY DEF Pcs
  <2>5. /\ x \in Request /\ Asked(r, x) /\ Kind(r, x) /\ Walk(r, x) /\ x.clean = r.clean
        /\ x.pc = "done" /\ x.row = r.row /\ x.todo = r.todo /\ x.out = r.out
    BY <2>1, <2>3, <2>4, PcSet
  <2>6. PICK u : /\ Moves(c, r, u, ok) /\ Asked(x, u) /\ Kind(x, u) /\ Walk(x, u)
                 /\ u.pc = x.pc /\ u.row = x.row /\ u.todo = x.todo /\ u.out = x.out
    BY <2>1, <2>3, <2>5, GoMoves
  <2>7. Asked(r, u) /\ Kind(r, u) /\ Walk(r, u)
    BY <2>5, <2>6 DEF Asked, Kind, Walk
  <2> WITNESS ok, ok, r, u
  <2> QED BY <2>1, <2>3, <2>5, <2>6, <2>7
<1> QED BY <1>1, <1>2

-----------------------------------------------------------------------------
(* What stays when the rows do, and when only one request moves. *)

LEMMA FormedStays ==
    ASSUME NEW r, Formed(r), UNCHANGED format
    PROVE  Formed(r)'
BY Zenon DEF Formed, WalkFits, FileFits, NoteFits, ImageFits

LEMMA ProgressStays ==
    ASSUME NEW r, Progress(r), UNCHANGED row
    PROVE  Progress(r)'
<1>1. Exact(r)'
  BY DEF Progress, Exact
<1>2. Built(r)'
  BY Zenon DEF Progress, Built
<1>3. Missing(r)' /\ Answers(r)'
  BY DEF Progress, Missing, Answers, Lacks, Served, Wanted
<1> QED BY <1>1, <1>2, <1>3 DEF Progress

\* What a step of client c must do for its own request.
Fits(c, r, u, ok) ==
    /\ Moves(c, r, u, ok)
    /\ Formed(u)
    /\ u.flow \in Writing <=> r.flow \in Writing
    /\ UNCHANGED row \/ r.flow \in Writing
    /\ u.clean => Progress(u)'

LEMMA OneRequest ==
    ASSUME TypeOK, RequestInv, CleanInv, NEW c \in Clients, NEW r, NEW u, NEW ok, Fits(c, r, u, ok)
    PROVE  RequestInv' /\ CleanInv'
<1>1. /\ r = req[c] /\ r # Idle /\ u # Idle /\ req'[c] = u /\ \A d \in Clients \ {c} : req'[d] = req[d]
      /\ (u.clean => r.clean) /\ UNCHANGED format /\ Formed(u) /\ (u.clean => Progress(u)')
      /\ u.flow \in Writing <=> r.flow \in Writing
      /\ UNCHANGED row \/ r.flow \in Writing
  BY NullAssumption DEF Fits, Moves
<1>2. ASSUME NEW d \in Clients, req'[d] # Idle
      PROVE  Formed(req[d])' /\ (req'[d].clean => Progress(req[d])')
  <2>1. CASE d = c
    BY <1>1, <2>1, FormedStays
  <2>2. CASE d # c
    <3>1. req'[d] = req[d] /\ req[d] # Idle /\ Formed(req[d])
      BY <1>1, <1>2, <2>2 DEF RequestInv
    <3>2. Formed(req[d])'
      BY <1>1, <3>1, FormedStays
    <3>3. ASSUME req[d].clean PROVE Progress(req[d])'
      <4>1. Progress(req[d])
        BY <3>1, <3>3 DEF RequestInv
      <4>2. UNCHANGED row
        <5>1. r.flow \notin Writing
          BY <1>1, <2>2, <3>1, <3>3 DEF CleanInv, Disturbs
        <5> QED BY <1>1, <5>1
      <4> QED BY <3>1, <4>1, <4>2, ProgressStays
    <3> QED BY <3>1, <3>2, <3>3
  <2> QED BY <2>1, <2>2
<1>3. RequestInv'
  BY <1>2 DEF RequestInv
<1>4. ASSUME NEW a \in Clients, NEW b \in Clients, a # b, req'[a] # Idle, req'[b] # Idle,
             Disturbs(req'[a], req'[b])
      PROVE  ~req'[a].clean
  <2>1. \A d \in Clients : req'[d] # Idle =>
           /\ req[d] # Idle /\ (req'[d].clean => req[d].clean)
           /\ req'[d].flow \in Writing <=> req[d].flow \in Writing
    BY <1>1
  <2> QED BY <1>4, <2>1 DEF CleanInv, Disturbs
<1>5. CleanInv'
  BY <1>4 DEF CleanInv, Disturbs
<1> QED BY <1>3, <1>5

\* What a request promises for a version depends on few of its fields.
OneVersion == {"overwrite", "merge", "prune", "edit", "tag"}

LEMMA EditedSame ==
    ASSUME NEW r, NEW u, NEW o, u.flow = r.flow, u.vers = r.vers, u.note = r.note, u.add = r.add
    PROVE  Edited(u, o) = Edited(r, o)
BY DEF Edited

LEMMA EditedVers ==
    ASSUME NEW r \in Request, NEW u \in Request, NEW o, NEW V,
           u.flow = r.flow, u.note = r.note, u.add = r.add
    PROVE  /\ Edited([u EXCEPT !.vers = V], o) = Edited([r EXCEPT !.vers = V], o)
           /\ r.vers = V => Edited([r EXCEPT !.vers = V], o) = Edited(r, o)
<1> DEFINE a == [r EXCEPT !.vers = V]
           b == [u EXCEPT !.vers = V]
<1>1. a.flow = r.flow /\ a.vers = V /\ a.note = r.note /\ a.add = r.add
  BY DEF Request
<1>2. b.flow = u.flow /\ b.vers = V /\ b.note = u.note /\ b.add = u.add
  BY DEF Request
<1> HIDE DEF a, b
<1>3. Edited(b, o) = Edited(a, o)
  BY <1>1, <1>2, EditedSame
<1>4. r.vers = V => Edited(a, o) = Edited(r, o)
  BY <1>1, EditedSame
<1> QED BY <1>3, <1>4 DEF a, b

LEMMA PromisedSame ==
    ASSUME NEW r \in Request, NEW u \in Request, Asked(r, u), Kind(r, u), NEW w,
           u.ver = r.ver \/ r.flow \notin OneVersion, u.row = r.row \/ r.flow # "image"
    PROVE  Promised(u, w) = Promised(r, w)
<1>1. /\ u.flow = r.flow /\ u.source = r.source /\ u.file = r.file /\ u.data = r.data
      /\ u.note = r.note /\ u.add = r.add /\ u.aim = r.aim /\ u.before = r.before
  BY DEF Asked, Kind
<1> DEFINE V == {v \in Vers : r.before[v] # NoRow}
           o == OrBlank(r.before[w])
<1>2. Edited([u EXCEPT !.vers = V], o) = Edited([r EXCEPT !.vers = V], o)
  BY <1>1, EditedVers
<1>3. CASE r.flow \in OneVersion /\ r.flow # "tag"
  <2>1. u.ver = r.ver
    BY <1>3
  <2> QED BY <1>1, <1>3, <2>1 DEF OneVersion, Promised
<1>4. CASE r.flow = "tag"
  <2>1. u.ver = r.ver
    BY <1>4 DEF OneVersion
  <2> QED BY <1>1, <1>2, <1>4, <2>1 DEF Promised
<1>5. CASE r.flow \notin OneVersion /\ r.flow # "image"
  BY <1>1, <1>5 DEF OneVersion, Promised
<1>6. CASE r.flow = "image"
  <2>1. u.row = r.row
    BY <1>6
  <2> QED BY <1>1, <1>6, <2>1 DEF Promised
<1> QED BY <1>3, <1>4, <1>5, <1>6

-----------------------------------------------------------------------------
(* What a step must do for the other parts of the invariant. *)

LEMMA ExactStep ==
    ASSUME NEW r \in Request, NEW u \in Request, Asked(r, u), Kind(r, u), Exact(r),
           u.ver = r.ver \/ r.flow \notin OneVersion, u.row = r.row \/ r.flow # "image",
           u.pc # "list" \/ r.pc = "list",
           \A w \in Vers :
              \/ /\ row'[w] = row[w] /\ (w \in Pending(u) => w \in Pending(r))
                 /\ w \in Pending(r) => w \in Pending(u) \/ row[w] = Promised(r, w)
              \/ /\ row'[w] = Promised(r, w)
                 /\ w \notin Pending(u) \/ (r.flow \in {"remove", "drop", "image"} /\ u.pc # "list")
    PROVE  Exact(u)'
<1> SUFFICES ASSUME NEW w \in Vers
             PROVE  IF w \in Pending(u)
                    THEN \/ row'[w] = u.before[w]
                         \/ u.flow \in {"remove", "drop", "image"} /\ u.pc # "list" /\ row'[w] = Promised(u, w)
                    ELSE row'[w] = Promised(u, w)
  BY Zenon DEF Exact, Pending, Promised, Here
<1>1. Promised(u, w) = Promised(r, w)
  BY PromisedSame
<1>2. u.flow = r.flow /\ u.before = r.before
  BY DEF Asked, Kind
<1>3. IF w \in Pending(r)
      THEN \/ row[w] = r.before[w]
           \/ r.flow \in {"remove", "drop", "image"} /\ r.pc # "list" /\ row[w] = Promised(r, w)
      ELSE row[w] = Promised(r, w)
  BY DEF Exact
<1> QED BY <1>1, <1>2, <1>3

LEMMA TypeStays ==
    ASSUME TypeOK, NEW c \in Clients, NEW r, NEW u, NEW ok, Moves(c, r, u, ok),
           row' \in [Vers -> Row \cup {NoRow}], blob' \subseteq Digests,
           blamed' \subseteq Digests, dirty' \subseteq Vers
    PROVE  TypeOK'
BY DEF TypeOK, Moves

LEMMA RowsStay ==
    ASSUME DocInv, GcInv, ImageRows, UNCHANGED <<row, gc, dirty, format>>
    PROVE  DocInv' /\ GcInv' /\ ImageRows'
BY DEF DocInv, GcInv, ImageRows, DigestsOf

LEMMA PutsOne ==
    ASSUME TypeOK, DocInv, GcInv, ImageRows, UNCHANGED <<gc, format>>,
           NEW v \in Vers, NEW x \in Row \cup {NoRow}, NEW ok \in BOOLEAN, Puts(ok, v, x),
           DigestsOf(x) = {} \/ v # Doc,
           format = "oci" /\ ok /\ x # NoRow =>
              v \in References /\ \E m \in Manifests :
                 x.files = Layers /\ x.notes = {Holds(m)} /\ (v \in Manifests => v = m)
    PROVE  /\ row' \in [Vers -> Row \cup {NoRow}] /\ dirty' \subseteq Vers
           /\ row'[v] = (IF ok THEN x ELSE row[v]) /\ \A w \in Vers \ {v} : row'[w] = row[w]
           /\ DocInv' /\ GcInv' /\ ImageRows'
<1>1. CASE ~ok
  <2>1. UNCHANGED <<row, dirty>>
    BY <1>1 DEF Puts
  <2> QED BY <1>1, <2>1, RowsStay DEF TypeOK
<1>2. CASE ok
  <2>1. /\ row' = [row EXCEPT ![v] = x]
        /\ dirty' = IF gc.pc = "idle" THEN {} ELSE dirty \cup {v}
    BY <1>2 DEF Puts, SetRow
  <2>2. row' \in [Vers -> Row \cup {NoRow}] /\ dirty' \subseteq Vers
    BY <2>1 DEF TypeOK
  <2>3. row'[v] = x /\ \A w \in Vers \ {v} : row'[w] = row[w]
    BY <2>1 DEF TypeOK
  <2>4. Doc \in Vers
    BY VersAreNat
  <2>5. DocInv'
    BY <2>3, <2>4 DEF DocInv
  <2>6. GcInv'
    <3>1. ASSUME gc.pc # "idle", NEW w \in Vers, w \notin dirty' PROVE w \notin dirty /\ row'[w] = row[w]
      BY <2>1, <2>3, <3>1
    <3> QED BY <3>1 DEF GcInv
  <2>7. ImageRows'
    BY <1>2, <2>3 DEF ImageRows
  <2> QED BY <1>2, <2>2, <2>3, <2>5, <2>6, <2>7
<1> QED BY <1>1, <1>2

\* The digest of manifest m resolves, was deleted, or the history is broken.
Named(m) == row[m] # NoRow \/ m \in unnamed \/ broken

LEMMA NamedStays ==
    ASSUME Unname, broken => broken', NEW m \in Manifests, Named(m)
    PROVE  Named(m)'
BY DEF Named, Unname

LEMMA HoldsOne ==
    ASSUME NEW m, NEW n, Holds(m) = Holds(n)
    PROVE  m = n
BY DEF Holds

Puttings(r) == r.flow = "image" /\ r.pc = "save"

LEMMA TagsNow ==
    ASSUME TagsInv, format = "oci"
    PROVE  /\ \A d \in Clients : req[d] # Idle /\ Puttings(req[d]) =>
                 \A m \in Manifests : req[d].note = Holds(m) => m \in Here(req[d]) \/ Named(m)
           /\ \A v \in References : \A m \in ManifestOf(OrBlank(row[v])) :
                 Named(m) \/ \E d \in Clients : req[d] # Idle /\ Puttings(req[d]) /\ m \in Here(req[d])
<1>1. TagsResolve
  BY DEF TagsInv
<1>2. ASSUME NEW d \in Clients, req[d] # Idle, Puttings(req[d]),
             NEW m \in Manifests, req[d].note = Holds(m)
      PROVE  m \in Here(req[d]) \/ Named(m)
  <2>1. At(d, {"image"}, "save")
    BY <1>2 DEF At, Puttings
  <2> QED BY <1>2, <2>1 DEF TagsInv, Named
<1>3. ASSUME NEW v \in References, NEW m \in ManifestOf(OrBlank(row[v]))
      PROVE  Named(m) \/ \E d \in Clients : req[d] # Idle /\ Puttings(req[d]) /\ m \in Here(req[d])
  <2>1. \/ row[m] # NoRow \/ m \in unnamed \/ broken
        \/ \E x \in Clients : At(x, {"image"}, "save") /\ m \in {req[x].ver} \cup req[x].vers
    BY <1>1, <1>3 DEF TagsResolve
  <2> QED BY <2>1 DEF Puttings, At, Named, Here
<1> QED BY <1>2, <1>3

LEMMA TagsStep ==
    ASSUME TypeOK, TagsInv, ImageRows', Unname, NEW c \in Clients, NEW r, NEW u, NEW ok,
           Moves(c, r, u, ok),
           \A v \in References : \/ row'[v] = row[v] \/ row'[v] = NoRow
                                 \/ v = r.ver /\ Puttings(r) /\ row'[v] = r.row,
           Puttings(r) => \A m \in Manifests : r.row.notes = {Holds(m)} => r.note = Holds(m),
           Puttings(r) => \A m \in Manifests \cap Here(r) : Named(m)' \/ (Puttings(u) /\ m \in Here(u)),
           Puttings(u) /\ (u.note = r.note => ~Puttings(r)) =>
              \A m \in Manifests : u.note = Holds(m) => m \in Here(u) \/ Named(m)'
    PROVE  TagsInv'
<1> SUFFICES ASSUME format' = "oci" PROVE TagsInv'
  BY DEF TagsInv
<1>1. /\ r = req[c] /\ r # Idle /\ req'[c] = u /\ u # Idle /\ \A d \in Clients \ {c} : req'[d] = req[d]
      /\ broken => broken'
  BY NullAssumption DEF Moves
<1> DEFINE Put(m) == \E d \in Clients : req[d] # Idle /\ Puttings(req[d]) /\ m \in Here(req[d])
<1>2. /\ \A d \in Clients : req[d] # Idle /\ Puttings(req[d]) =>
            \A m \in Manifests : req[d].note = Holds(m) => m \in Here(req[d]) \/ Named(m)
      /\ \A v \in References : \A m \in ManifestOf(OrBlank(row[v])) : Named(m) \/ Put(m)
  <2>1. format = "oci"
    BY DEF Moves
  <2> QED BY ONLY TagsInv, <2>1, TagsNow
<1> HIDE DEF Put
<1>3. ASSUME NEW m \in Manifests, NEW d \in Clients, req[d] # Idle, Puttings(req[d]), m \in Here(req[d])
      PROVE  Named(m)' \/ \E x \in Clients : req'[x] # Idle /\ Puttings(req'[x]) /\ m \in Here(req'[x])
  <2>1. CASE d = c
    BY <1>1, <1>3, <2>1
  <2>2. CASE d # c
    BY <1>1, <1>3, <2>2
  <2> QED BY <2>1, <2>2
<1>4. ASSUME NEW m \in Manifests, NEW d \in Clients, req[d] # Idle, Puttings(req[d]), req[d].note = Holds(m)
      PROVE  Named(m)' \/ m \in Here(req[d])
  <2>1. m \in Here(req[d]) \/ Named(m)
    BY <1>2, <1>4
  <2> QED BY <1>1, <2>1, NamedStays
<1>5. ASSUME NEW v \in References, NEW m \in ManifestOf(OrBlank(row'[v]))
      PROVE  /\ v \in Manifests => m = v
             /\ Named(m)' \/ \E x \in Clients : req'[x] # Idle /\ Puttings(req'[x]) /\ m \in Here(req'[x])
  <2>1. v \in Vers /\ m \in Manifests /\ Holds(m) \in OrBlank(row'[v]).notes
    BY DEF ManifestOf, Vers
  <2>2. row'[v] # NoRow /\ Holds(m) \in row'[v].notes
    BY <2>1, Zenon DEF OrBlank, Blank
  <2>3. PICK n \in Manifests : row'[v].notes = {Holds(n)} /\ (v \in Manifests => v = n)
    BY <2>1, <2>2 DEF ImageRows
  <2>4. n = m
    BY <2>2, <2>3, HoldsOne
  <2>5. CASE row'[v] = row[v]
    <3>1. m \in ManifestOf(OrBlank(row[v]))
      BY <2>5
    <3>2. Named(m) \/ Put(m)
      BY <1>2, <3>1
    <3> QED BY <1>1, <1>3, <2>1, <2>3, <2>4, <3>2, NamedStays DEF Put
  <2>6. CASE v = r.ver /\ Puttings(r) /\ row'[v] = r.row
    <3>1. r.note = Holds(m)
      BY <2>3, <2>4, <2>6
    <3> QED BY <1>1, <1>3, <1>4, <2>3, <2>4, <2>6, <3>1
  <2> QED BY <2>2, <2>5, <2>6
<1>6. TagsResolve'
  BY <1>5 DEF TagsResolve, Named, Puttings, At, Here
<1>7. ASSUME NEW d \in Clients, At(d, {"image"}, "save")', NEW m \in Manifests, req'[d].note = Holds(m)
      PROVE  m \in Here(req'[d]) \/ Named(m)'
  <2>1. req'[d] # Idle /\ Puttings(req'[d])
    BY <1>7 DEF At, Puttings
  <2>2. CASE d # c
    BY <1>1, <1>4, <1>7, <2>1, <2>2
  <2>3. CASE d = c
    <3>1. CASE u.note = r.note /\ Puttings(r)
      <4>1. Named(m)' \/ m \in Here(r)
        BY <1>1, <1>4, <1>7, <2>3, <3>1
      <4> QED BY <1>1, <2>3, <3>1, <4>1
    <3>2. CASE u.note = r.note => ~Puttings(r)
      BY <1>1, <1>7, <2>1, <2>3, <3>2
    <3> QED BY <3>1, <3>2
  <2> QED BY <2>2, <2>3
<1> QED BY <1>6, <1>7 DEF TagsInv, Named, Here

Rewriting(r) ==
    \/ r.flow = "merge" /\ r.pc \in {"cull", "save"}
    \/ r.flow = "remove" /\ r.pc \in {"cull", "drop"}

LEMMA HeldStays ==
    ASSUME NEW r, Held(r), NEW L, blob \cup blamed \subseteq blob' \cup blamed' \cup L,
           L \cap (DigestsOf(r.row) \cup {r.data}) = {}
    PROVE  Held(r)'
BY DEF Held, DigestsOf

\* L: what the step deletes.
LEMMA DangStep ==
    ASSUME TypeOK, DangInv, NEW c \in Clients, NEW r, NEW u, NEW ok, Moves(c, r, u, ok), NEW L,
           format # "oci" /\ ~broken' /\ ~broken =>
             /\ blob \cup blamed \subseteq blob' \cup blamed' \cup L
             /\ Held(u)'
             /\ \A v \in Vers : \/ DigestsOf(row'[v]) \subseteq blob' \cup blamed'
                                \/ /\ row'[v] = row[v]
                                   /\ Rewriting(r) /\ r.ver = v => Rewriting(u) /\ u.ver = v
                                   /\ L \cap DigestsOf(row[v]) # {} => Rewriting(u) /\ u.ver = v
             /\ \A d \in Clients \ {c} : req[d] # Idle => L \cap (DigestsOf(req[d].row) \cup {req[d].data}) = {}
    PROVE  DangInv'
<1> SUFFICES ASSUME format' # "oci", ~broken'
             PROVE  RowsHeld' /\ \A d \in Clients : req'[d] # Idle => Held(req[d])'
  BY DEF DangInv
<1>1. /\ r = req[c] /\ r # Idle /\ req'[c] = u /\ u # Idle /\ \A d \in Clients \ {c} : req'[d] = req[d]
      /\ format # "oci" /\ ~broken
  BY NullAssumption DEF Moves
<1>2. RowsHeld /\ \A d \in Clients : req[d] # Idle => Held(req[d])
  BY <1>1 DEF DangInv
<1>3. ASSUME NEW d \in Clients, req'[d] # Idle PROVE Held(req[d])'
  <2>1. CASE d = c
    BY <1>1, <2>1
  <2>2. CASE d # c
    <3>1. req'[d] = req[d] /\ Held(req[d])
      BY <1>1, <1>2, <1>3, <2>2
    <3> QED BY <1>1, <1>3, <2>2, <3>1, HeldStays
  <2> QED BY <2>1, <2>2
<1>4. ASSUME NEW v \in Vers, NEW d \in DigestsOf(row'[v]) \ blob', d \notin blamed'
      PROVE  \E x \in Clients : req'[x] # Idle /\ req'[x].ver = v /\ Rewriting(req'[x])
  <2>1. /\ row'[v] = row[v] /\ (Rewriting(r) /\ r.ver = v => Rewriting(u) /\ u.ver = v)
        /\ (L \cap DigestsOf(row[v]) # {} => Rewriting(u) /\ u.ver = v)
    BY <1>1, <1>4
  <2>2. CASE d \in L
    BY <1>1, <2>1, <2>2
  <2>3. CASE d \notin L
    <3>1. d \notin blob /\ d \notin blamed /\ d \in DigestsOf(row[v])
      BY <1>1, <1>4, <2>1, <2>3
    <3>2. PICK x \in Clients : req[x] # Idle /\ req[x].ver = v /\ Rewriting(req[x])
      BY <1>2, <3>1 DEF RowsHeld, Rewriting
    <3> QED BY <1>1, <2>1, <3>2
  <2> QED BY <2>2, <2>3
<1>5. RowsHeld'
  BY <1>4 DEF RowsHeld, Rewriting, DigestsOf
<1> QED BY <1>3, <1>5

-----------------------------------------------------------------------------
(* How the invariant follows for a step of one request. *)

LEMMA Before ==
    ASSUME StoreInv, NEW c \in Clients, NEW r, NEW u, NEW ok, Moves(c, r, u, ok)
    PROVE  /\ r \in Request /\ u \in Request /\ r = req[c] /\ r # Idle /\ Formed(r) /\ ok \in BOOLEAN
           /\ u.clean => ok /\ r.clean /\ Exact(r) /\ Built(r) /\ Missing(r) /\ Answers(r)
           /\ UNCHANGED <<format, gc>> /\ (broken => broken') /\ (ok \/ broken')
BY DEF StoreInv, RequestInv, Moves, Progress

LEMMA FitsBy ==
    ASSUME NEW c, NEW r, NEW u, NEW ok, Moves(c, r, u, ok), Formed(u),
           u.flow \in Writing <=> r.flow \in Writing,
           UNCHANGED row \/ r.flow \in Writing,
           u.clean => Exact(u)' /\ Built(u) /\ Missing(u) /\ Answers(u)
    PROVE  Fits(c, r, u, ok)
<1>1. ASSUME Built(u), Missing(u), Answers(u) PROVE Built(u)' /\ Missing(u)' /\ Answers(u)'
  <2>1. Built(u)'
    BY <1>1, Zenon DEF Built
  <2>2. Missing(u)' /\ Answers(u)'
    BY <1>1 DEF Missing, Answers, Lacks, Served, Wanted
  <2> QED BY <2>1, <2>2
<1>2. u.clean => Progress(u)'
  BY <1>1 DEF Progress
<1> QED BY <1>2 DEF Fits

\* A step that only reads.
LEMMA QuietKeeps ==
    ASSUME StoreInv, Unname, NEW c \in Clients, NEW r, NEW u, NEW ok, Fits(c, r, u, ok), OnlyReads,
           ~Puttings(r), ~Rewriting(r),
           Puttings(u) => \A m \in Manifests : u.note = Holds(m) => m \in Here(u),
           format # "oci" /\ ~broken' => Held(u)
    PROVE  StoreInv'
<1>1. Moves(c, r, u, ok) /\ UNCHANGED <<row, blob, dirty, blamed, gc, format>>
  BY DEF Fits, Moves, OnlyReads
<1>2. TypeOK'
  BY <1>1, TypeStays DEF StoreInv, TypeOK
<1>3. RequestInv' /\ CleanInv'
  BY OneRequest DEF StoreInv
<1>4. DocInv' /\ GcInv' /\ ImageRows'
  BY <1>1, RowsStay DEF StoreInv
<1>5. TagsInv'
  BY <1>1, <1>4, TagsStep DEF StoreInv
<1>6. DangInv'
  <2>1. \A v \in Vers : row'[v] = row[v]
    BY <1>1
  <2> DEFINE L == {}
  <2>2. blob \cup blamed \subseteq blob' \cup blamed' \cup L /\ \A S : L \cap S = {}
    BY <1>1
  <2> HIDE DEF L
  <2>3. ASSUME format # "oci", ~broken' PROVE Held(u)'
    BY <2>2, <2>3, HeldStays
  <2> QED BY <1>1, <2>1, <2>2, <2>3, DangStep DEF StoreInv
<1> QED BY <1>2, <1>3, <1>4, <1>5, <1>6 DEF StoreInv

\* A clean request that writes finds the blobs of the row it reads.
LEMMA RowHeld ==
    ASSUME StoreInv, format # "oci", ~broken, NEW c \in Clients, req[c] # Idle,
           req[c].clean, req[c].flow \in Writing, ~Rewriting(req[c]), NEW v \in Vers
    PROVE  DigestsOf(row[v]) \subseteq blob \cup blamed
<1> SUFFICES ASSUME NEW d \in DigestsOf(row[v]) \ blob, d \notin blamed PROVE FALSE
  OBVIOUS
<1>1. PICK x \in Clients : req[x] # Idle /\ req[x].ver = v /\ Rewriting(req[x])
  BY DEF StoreInv, DangInv, RowsHeld, Rewriting
<1>2. x # c /\ Disturbs(req[c], req[x])
  BY <1>1 DEF Disturbs
<1> QED BY <1>1, <1>2 DEF StoreInv, CleanInv

-----------------------------------------------------------------------------
(* What the handlers promise, flow by flow. *)

FileOf(r) == IF r.data = NoData THEN {} ELSE {[name |-> r.file, digest |-> r.data]}

LEMMA FileOfTypes ==
    ASSUME NEW r \in Request
    PROVE  FileOf(r) \subseteq File
<1>1. r.file \in Files /\ (r.data # NoData => r.data \in Digests)
  BY RequestTypes
<1> QED BY <1>1 DEF FileOf, File

\* The rows that a request found.
LEMMA FoundTypes ==
    ASSUME NEW r \in Request, NEW v \in Vers
    PROVE  /\ r.before[v] \in Row \cup {NoRow} /\ OrBlank(r.before[v]) \in Row
           /\ r.before[v] # NoRow => OrBlank(r.before[v]) = r.before[v] /\ r.before[v] \in Row
           /\ r.before[v] = NoRow => OrBlank(r.before[v]) = Blank
<1>1. r.before[v] \in Row \cup {NoRow}
  BY RequestTypes
<1> QED BY <1>1, BlankFields, Zenon DEF OrBlank

LEMMA PromisedOverwrite ==
    ASSUME NEW r \in Request, r.flow = "overwrite"
    PROVE  /\ LET p == Promised(r, r.ver) IN
              p \in Row /\ p.files = FileOf(r) /\ p.source = r.source /\ p.notes = {}
           /\ \A w : w # r.ver => Promised(r, w) = r.before[w]
<1> DEFINE p == [Blank EXCEPT !.files = FileOf(r), !.source = r.source]
<1>1. Promised(r, r.ver) = p
  BY DEF Promised, FileOf
<1>2. FileOf(r) \subseteq File /\ r.source \in Source
  BY FileOfTypes, RequestTypes
<1>3. p \in Row /\ p.files = FileOf(r) /\ p.source = r.source /\ p.notes = {}
  <2> HIDE DEF FileOf
  <2> QED BY <1>2 DEF Row, Blank
<1>4. \A w : w # r.ver => Promised(r, w) = r.before[w]
  BY DEF Promised
<1> HIDE DEF p
<1> QED BY <1>1, <1>3, <1>4

LEMMA PromisedMerge ==
    ASSUME NEW r \in Request, r.flow = "merge", r.ver # Doc
    PROVE  LET o == OrBlank(r.before[r.ver])
               p == Promised(r, r.ver) IN
           /\ p \in Row /\ p.notes = o.notes
           /\ p.files = {f \in o.files : r.data = NoData \/ f.name # r.file} \cup FileOf(r)
           /\ p.source = (IF r.source = "" THEN o.source ELSE r.source)
           /\ \A w : w # r.ver /\ w # Doc => Promised(r, w) = r.before[w]
           /\ Promised(r, Doc) = (IF r.note = NoData THEN r.before[Doc]
                                   ELSE [Blank EXCEPT !.notes = {r.note}])
<1> DEFINE o == OrBlank(r.before[r.ver])
           F == {f \in o.files : FileOf(r) = {} \/ f.name # r.file} \cup FileOf(r)
           s == IF r.source = "" THEN o.source ELSE r.source
           p == [o EXCEPT !.files = F, !.source = s]
<1>1. Promised(r, r.ver) = p
  BY DEF Promised, FileOf
<1>2. FileOf(r) \subseteq File /\ r.source \in Source /\ o \in Row /\ (FileOf(r) = {} <=> r.data = NoData)
  BY FileOfTypes, RequestTypes, FoundTypes DEF FileOf
<1>3. F \subseteq File /\ s \in Source /\ F = {f \in o.files : r.data = NoData \/ f.name # r.file} \cup FileOf(r)
  BY <1>2, RowFields, Zenon
<1>4. \A w : w # r.ver /\ w # Doc => Promised(r, w) = r.before[w]
  BY DEF Promised
<1>5. Promised(r, Doc) = (IF r.note = NoData THEN r.before[Doc]
                          ELSE [Blank EXCEPT !.notes = {r.note}])
  BY DEF Promised
<1> HIDE DEF F, s, o
<1>6. p \in Row /\ p.files = F /\ p.source = s /\ p.notes = o.notes
  BY <1>2, <1>3, Zenon DEF Row
<1> HIDE DEF p
<1> QED BY <1>1, <1>3, <1>4, <1>5, <1>6, Zenon DEF s, o

LEMMA PromisedPrune ==
    ASSUME NEW r \in Request, r.flow = "prune"
    PROVE  /\ \A w : w # r.ver \/ r.before[w] = NoRow => Promised(r, w) = r.before[w]
           /\ r.before[r.ver] # NoRow =>
                 LET o == r.before[r.ver]
                     F == {f \in o.files : f.name # r.file}
                     p == Promised(r, r.ver) IN
                 /\ F = {} => p = NoRow
                 /\ F # {} => p \in Row /\ p.files = F /\ p.source = o.source /\ p.notes = o.notes
<1>1. \A w : w # r.ver \/ r.before[w] = NoRow => Promised(r, w) = r.before[w]
  BY DEF Promised
<1>2. ASSUME r.before[r.ver] # NoRow
      PROVE  LET o == r.before[r.ver]
                 F == {f \in o.files : f.name # r.file}
                 p == Promised(r, r.ver) IN
             /\ F = {} => p = NoRow
             /\ F # {} => p \in Row /\ p.files = F /\ p.source = o.source /\ p.notes = o.notes
  <2> DEFINE o == r.before[r.ver]
             F == {f \in o.files : f.name # r.file}
             p == [o EXCEPT !.files = F]
  <2>1. Promised(r, r.ver) = IF F = {} THEN NoRow ELSE p
    BY <1>2 DEF Promised
  <2>2. o \in Row
    BY <1>2, RequestTypes
  <2>3. F \subseteq File
    BY <2>2, RowFields
  <2> HIDE DEF o, F
  <2>4. p \in Row /\ p.files = F /\ p.source = o.source /\ p.notes = o.notes
    BY <2>2, <2>3 DEF Row
  <2> HIDE DEF p
  <2> QED BY <2>1, <2>4 DEF o, F
<1> QED BY <1>1, <1>2

NoteOf(r) == IF r.note = NoData THEN {} ELSE {r.note}

LEMMA PromisedAmend ==
    ASSUME NEW r \in Request, r.flow = "amend", r.note \in Notes
    PROVE  /\ \A w : w \notin r.aim \/ r.before[w] = NoRow => Promised(r, w) = r.before[w]
           /\ \A w \in r.aim : r.before[w] # NoRow =>
                 LET o == r.before[w]
                     p == Promised(r, w) IN
                 /\ p \in Row /\ p.files = o.files /\ p.source = o.source
                 /\ p.notes = (IF r.add THEN o.notes \cup {r.note} ELSE o.notes \ {r.note})
<1>1. \A w : w \notin r.aim \/ r.before[w] = NoRow => Promised(r, w) = r.before[w]
  BY DEF Promised
<1>2. ASSUME NEW w \in r.aim, r.before[w] # NoRow
      PROVE  LET o == r.before[w]
                 p == Promised(r, w) IN
             /\ p \in Row /\ p.files = o.files /\ p.source = o.source
             /\ p.notes = (IF r.add THEN o.notes \cup {r.note} ELSE o.notes \ {r.note})
  <2> DEFINE o == r.before[w]
             N == IF r.add THEN o.notes \cup {r.note} ELSE o.notes \ {r.note}
             p == [o EXCEPT !.notes = N]
  <2>1. r.note # NoData
    BY NullAssumption
  <2>2. Promised(r, w) = p
    BY <1>2, <2>1 DEF Promised
  <2>3. o \in Row
    BY <1>2, RequestTypes
  <2>4. N \subseteq Notes
    BY <2>3, RowFields
  <2> HIDE DEF o, N
  <2>5. p \in Row /\ p.files = o.files /\ p.source = o.source /\ p.notes = N
    BY <2>3, <2>4 DEF Row
  <2> HIDE DEF p
  <2> QED BY <2>2, <2>5 DEF o, N
<1> QED BY <1>1, <1>2

\* An entry of a document whose subject is there.
Subject(r) == r.note[2] = Doc \/ r.before[r.note[2]] # NoRow

LEMMA PromisedEdit ==
    ASSUME NEW r \in Request, r.flow = "edit", r.note \in Notes
    PROVE  /\ \A w : w # r.ver \/ ~Subject(r) => Promised(r, w) = r.before[w]
           /\ Subject(r) =>
                 LET p == Promised(r, r.ver) IN
                 /\ p \in Row /\ p.files = {} /\ p.source = ""
                 /\ p.notes = Edited(r, OrBlank(r.before[r.ver]))
<1>1. \A w : w # r.ver \/ ~Subject(r) => Promised(r, w) = r.before[w]
  BY DEF Promised, Subject
<1>2. ASSUME Subject(r)
      PROVE  LET p == Promised(r, r.ver) IN
             /\ p \in Row /\ p.files = {} /\ p.source = ""
             /\ p.notes = Edited(r, OrBlank(r.before[r.ver]))
  <2> DEFINE o == OrBlank(r.before[r.ver])
             N == IF r.add THEN o.notes \cup {r.note} ELSE o.notes \ {r.note}
             p == [Blank EXCEPT !.notes = N]
  <2>1. r.note # NoData
    BY NullAssumption
  <2>2. Promised(r, r.ver) = p
    BY <1>2, <2>1 DEF Promised, Subject
  <2>3. o \in Row
    BY FoundTypes, RequestTypes
  <2>4. N \subseteq Notes
    BY <2>3, RowFields
  <2>5. N = Edited(r, o)
    BY DEF Edited
  <2> HIDE DEF o, N
  <2>6. p \in Row /\ p.files = {} /\ p.source = "" /\ p.notes = N
    BY <2>4, Zenon DEF Row, Blank, Source
  <2> HIDE DEF p
  <2> QED BY <2>2, <2>5, <2>6, Zenon DEF o
<1> QED BY <1>1, <1>2, Zenon

Listed(r) == {v \in Vers : r.before[v] # NoRow}

LEMMA PromisedTag ==
    ASSUME NEW r \in Request, r.flow = "tag"
    PROVE  /\ \A w : w # r.ver \/ (r.add /\ r.before[r.note[2]] = NoRow) => Promised(r, w) = r.before[w]
           /\ (r.add => r.before[r.note[2]] # NoRow) =>
                 Promised(r, r.ver) = [Blank EXCEPT !.notes = Edited([r EXCEPT !.vers = Listed(r)],
                                                                     OrBlank(r.before[r.ver]))]
<1>1. \A w : w # r.ver \/ (r.add /\ r.before[r.note[2]] = NoRow) => Promised(r, w) = r.before[w]
  BY DEF Promised
<1>2. (r.add => r.before[r.note[2]] # NoRow) =>
         Promised(r, r.ver) = [Blank EXCEPT !.notes = Edited([r EXCEPT !.vers = Listed(r)],
                                                             OrBlank(r.before[r.ver]))]
  BY DEF Promised, Listed
<1> QED BY <1>1, <1>2

LEMMA PromisedOther ==
    ASSUME NEW r \in Request, NEW w
    PROVE  /\ r.flow = "mark" /\ w = Doc /\ r.note # NoData =>
                 Promised(r, w) = [Blank EXCEPT !.notes = {r.note}]
           /\ r.flow = "mark" /\ (w # Doc \/ r.note = NoData) => Promised(r, w) = r.before[w]
           /\ r.flow \in {"remove", "drop"} => Promised(r, w) = (IF w \in r.aim THEN NoRow ELSE r.before[w])
           /\ r.flow = "wipe" => Promised(r, w) = NoRow
           /\ r.flow = "image" => Promised(r, w) =
                 (IF w \in r.aim THEN [files |-> r.row.files, source |-> r.source, notes |-> {r.note}]
                                 ELSE r.before[w])
           /\ r.flow \in {"serve", "head", "index", "list", "resolve", "layer", "unlink"} =>
                 Promised(r, w) = r.before[w]
BY Zenon DEF Promised

-----------------------------------------------------------------------------
(* The steps that only read. *)

LEMMA LoadToMergeKeeps ==
    ASSUME StoreInv, Unname, NEW c \in Clients, LoadToMerge(c)
    PROVE  StoreInv'
<1>1. PICK ok, r, u :
         /\ Moves(c, r, u, ok) /\ Asked(r, u) /\ Kind(r, u) /\ Walk(r, u) /\ OnlyReads
         /\ r.flow = "merge" /\ r.pc = "load" /\ u.pc = (IF r.data = NoData THEN "save" ELSE "blob")
         /\ u.row.files = OrBlank(Got(c, ok)).files /\ u.row.notes = OrBlank(Got(c, ok)).notes
         /\ u.row.source = (IF r.source = "" THEN OrBlank(Got(c, ok)).source ELSE r.source)
         /\ u.todo = r.todo /\ u.out = r.out
  BY LoadToMergeDoes, Zenon DEF StoreInv
<1>2. /\ r \in Request /\ u \in Request /\ r = req[c] /\ r # Idle /\ Formed(r) /\ ok \in BOOLEAN
      /\ u.clean => ok /\ r.clean /\ Exact(r) /\ Built(r) /\ Missing(r) /\ Answers(r)
      /\ UNCHANGED <<format, gc>> /\ (broken => broken') /\ (ok \/ broken')
  <2>1. Moves(c, r, u, ok)
    BY <1>1, Zenon
  <2> QED BY <2>1, Before
<1>3. /\ u.flow = r.flow /\ u.source = r.source /\ u.file = r.file /\ u.data = r.data /\ u.note = r.note
      /\ u.aim = r.aim /\ u.before = r.before /\ u.ver = r.ver /\ u.vers = r.vers /\ u.tail = r.tail
  BY <1>1, Zenon DEF Asked, Kind, Walk
<1>4. Formed(u)
  BY <1>1, <1>2, <1>3, Zenon DEF Formed, WalkFits, FileFits, NoteFits, ImageFits, Here, Walking, OnImages, OnFiles
<1>5. ok => Got(c, ok) = row[r.ver] /\ r.ver \in Vers /\ OrBlank(row[r.ver]) \in Row
  BY <1>2, GotTypes, RowTypes, RequestTypes DEF StoreInv
<1>6. ASSUME u.clean PROVE Exact(u)' /\ Built(u) /\ Missing(u) /\ Answers(u)
  <2>1. ok /\ r.clean /\ Exact(r) /\ Missing(r)
    BY <1>2, <1>6
  <2>2. Pending(u) = Pending(r) /\ Pending(r) = Vers \ {Doc}
    BY <1>1, <1>3, Zenon DEF Pending
  <2>3. Exact(u)'
    BY <1>1, <1>2, <1>3, <2>1, <2>2, ExactStep, Zenon DEF OnlyReads
  <2>4. row[r.ver] = r.before[r.ver]
    BY <1>1, <1>2, <1>5, <2>1, <2>2, Zenon DEF Exact, Formed, WalkFits, Numbered, Here
  <2>5. Built(u)
    <3> DEFINE o == OrBlank(r.before[r.ver])
               s == IF r.source = "" THEN o.source ELSE r.source
               w == [o EXCEPT !.source = s]
    <3>1. o \in Row /\ s \in Source
      BY <1>2, <1>5, <2>1, <2>4, RequestTypes, RowFields, Zenon
    <3>2. w \in Row /\ w.files = o.files /\ w.notes = o.notes /\ w.source = s
      BY <3>1, RowFields, Zenon DEF Row
    <3>3. u.row.files = o.files /\ u.row.notes = o.notes /\ u.row.source = s
      BY <1>1, <1>5, <2>1, <2>4, Zenon
    <3>4. u.row \in Row
      BY <1>2, RequestTypes
    <3> HIDE DEF w
    <3>5. u.row = w
      BY <3>2, <3>3, <3>4, SameRow, Zenon
    <3>6. CASE u.pc = "blob"
      BY <1>1, <1>3, <3>5, <3>6, Zenon DEF Built, w
    <3>7. CASE u.pc = "save" /\ r.data = NoData
      <4>1. u.ver # Doc /\ FileOf(u) = {} /\ OrBlank(u.before[u.ver]) = o
        BY <1>2, <1>3, <1>1, <3>7, Zenon DEF Formed, WalkFits, Numbered, Here, FileOf
      <4> DEFINE p == Promised(u, u.ver)
      <4>2. p \in Row /\ p.files = o.files /\ p.notes = o.notes /\ p.source = s
        <5>1. u \in Request /\ u.flow = "merge" /\ u.data = NoData /\ u.source = r.source
          BY <1>1, <1>2, <1>3, <3>7, Zenon
        <5> HIDE DEF o
        <5>2. /\ p \in Row /\ p.notes = o.notes
              /\ p.files = {f \in o.files : u.data = NoData \/ f.name # u.file} \cup {}
              /\ p.source = (IF u.source = "" THEN o.source ELSE u.source)
          BY <4>1, <5>1, PromisedMerge, Zenon
        <5> QED BY <5>1, <5>2, Zenon
      <4> HIDE DEF p
      <4>3. u.row = p
        BY <3>3, <3>4, <4>2, SameRow, Zenon
      <4> QED BY <1>1, <1>3, <3>7, <4>3, Zenon DEF Built, p
    <3> QED BY <1>1, <3>6, <3>7, Zenon
  <2>6. Missing(u) /\ Answers(u)
    BY <1>1, <1>3, <2>1, Zenon DEF Missing, Answers, Lacks
  <2> QED BY <2>3, <2>5, <2>6
<1>7. Fits(c, r, u, ok)
  BY <1>1, <1>3, <1>4, <1>6, FitsBy, Zenon DEF OnlyReads
<1>8. ASSUME format # "oci", ~broken' PROVE Held(u)
  <2>1. r.clean => DigestsOf(row[r.ver]) \subseteq blob \cup blamed
    BY <1>1, <1>2, <1>5, <1>8, RowHeld, Zenon DEF Rewriting, Writing
  <2>2. DigestsOf(u.row) \subseteq DigestsOf(row[r.ver])
    BY <1>1, <1>2, <1>5, <1>8, BlankFields, Zenon DEF DigestsOf, OrBlank
  <2>3. u.clean => r.clean
    BY <1>2
  <2> QED BY <1>1, <1>3, <2>1, <2>2, <2>3, Zenon DEF Held
<1>9. OnlyReads /\ ~Puttings(r) /\ ~Rewriting(r) /\ ~Puttings(u)
  BY <1>1, <1>3, Zenon DEF Puttings, Rewriting
<1> QED BY <1>7, <1>8, <1>9, QuietKeeps

LEMMA LoadToRemoveKeeps ==
    ASSUME StoreInv, Unname, NEW c \in Clients, LoadToRemove(c)
    PROVE  StoreInv'
<1>1. PICK ok, r, u :
         /\ Moves(c, r, u, ok) /\ Asked(r, u) /\ Kind(r, u) /\ Walk(r, u) /\ OnlyReads
         /\ r.flow = "remove" /\ r.pc = "load"
         /\ u.pc \in {"drop", "cull"} /\ u.row = r.row /\ u.out = r.out
  BY LoadToRemoveDoes DEF StoreInv
<1>2. /\ r \in Request /\ u \in Request /\ r = req[c] /\ r # Idle /\ Formed(r) /\ ok \in BOOLEAN
      /\ u.clean => ok /\ r.clean /\ Exact(r) /\ Built(r) /\ Missing(r) /\ Answers(r)
      /\ UNCHANGED <<format, gc>> /\ (broken => broken') /\ (ok \/ broken')
  <2>1. Moves(c, r, u, ok)
    BY <1>1
  <2> QED BY <2>1, Before
<1>3. /\ u.flow = r.flow /\ u.source = r.source /\ u.file = r.file /\ u.data = r.data /\ u.note = r.note
      /\ u.add = r.add /\ u.aim = r.aim /\ u.before = r.before
      /\ u.ver = r.ver /\ u.vers = r.vers /\ u.tail = r.tail
  BY <1>1 DEF Asked, Kind, Walk
<1>4. Formed(u)
  BY <1>1, <1>2, <1>3, Zenon DEF Formed, WalkFits, FileFits, NoteFits, ImageFits, Here, Walking, OnImages, OnFiles, Numbered
<1>5. ASSUME u.clean PROVE Exact(u)' /\ Built(u) /\ Missing(u) /\ Answers(u)
  <2>1. Pending(u) = Pending(r)
    BY <1>1, <1>3 DEF Pending, Here
  <2>2. Exact(u)'
    BY <1>1, <1>2, <1>3, <1>5, <2>1, ExactStep DEF OnlyReads
  <2>3. Built(u) /\ Missing(u) /\ Answers(u)
    BY <1>1, <1>3 DEF Built, Missing, Answers
  <2> QED BY <2>2, <2>3
<1>6. Held(u)
  BY <1>1, <1>3 DEF Held
<1>7. Fits(c, r, u, ok)
  BY <1>1, <1>3, <1>4, <1>5, FitsBy DEF OnlyReads
<1>8. OnlyReads /\ ~Puttings(r) /\ ~Rewriting(r) /\ ~Puttings(u)
  BY <1>1, <1>3 DEF Puttings, Rewriting
<1> QED BY <1>7, <1>6, <1>8, QuietKeeps

LEMMA LoadToPruneKeeps ==
    ASSUME StoreInv, Unname, NEW c \in Clients, LoadToPrune(c)
    PROVE  StoreInv'
<1>1. PICK ok, r, u :
         /\ Moves(c, r, u, ok) /\ Asked(r, u) /\ Kind(r, u) /\ Walk(r, u) /\ OnlyReads
         /\ r.flow = "prune" /\ r.pc = "load"
         /\ u.pc = (IF Got(c, ok) = NoRow THEN "done" ELSE "save") /\ u.out = r.out
         /\ u.row.files = {f \in OrBlank(Got(c, ok)).files : f.name # r.file}
         /\ u.row.source = OrBlank(Got(c, ok)).source /\ u.row.notes = OrBlank(Got(c, ok)).notes
  BY LoadToPruneDoes DEF StoreInv
<1>2. /\ r \in Request /\ u \in Request /\ r = req[c] /\ r # Idle /\ Formed(r) /\ ok \in BOOLEAN
      /\ u.clean => ok /\ r.clean /\ Exact(r) /\ Built(r) /\ Missing(r) /\ Answers(r)
      /\ UNCHANGED <<format, gc>> /\ (broken => broken') /\ (ok \/ broken')
  <2>1. Moves(c, r, u, ok)
    BY <1>1
  <2> QED BY <2>1, Before
<1>3. /\ u.flow = r.flow /\ u.source = r.source /\ u.file = r.file /\ u.data = r.data /\ u.note = r.note
      /\ u.add = r.add /\ u.aim = r.aim /\ u.before = r.before
      /\ u.ver = r.ver /\ u.vers = r.vers /\ u.tail = r.tail
  BY <1>1 DEF Asked, Kind, Walk
<1>4. Formed(u)
  BY <1>1, <1>2, <1>3, Zenon DEF Formed, WalkFits, FileFits, NoteFits, ImageFits, Here, Walking, OnImages, OnFiles, Numbered
<1>5. ok => Got(c, ok) = row[r.ver] /\ r.ver \in Vers
  BY <1>2, GotTypes, RequestTypes DEF StoreInv
<1>6. ASSUME u.clean PROVE Exact(u)' /\ Built(u) /\ Missing(u) /\ Answers(u)
  <2>1. ok /\ Exact(r)
    BY <1>2, <1>6
  <2>2. Pending(r) = Vers /\ (u.pc = "save" => Pending(u) = Vers) /\ (u.pc = "done" => Pending(u) = {})
    BY <1>1, <1>3 DEF Pending
  <2>3. \A w \in Vers : row[w] = r.before[w]
    BY <1>1, <2>1, <2>2 DEF Exact
  <2>4. ASSUME u.pc = "done", NEW w \in Vers PROVE row[w] = Promised(r, w)
    <3>1. r.before[r.ver] = NoRow
      BY <1>1, <1>5, <2>1, <2>3, <2>4
    <3>2. r \in Request /\ r.flow = "prune"
      BY <1>1, <1>2
    <3>3. w # r.ver \/ r.before[w] = NoRow
      BY <3>1
    <3>4. Promised(r, w) = r.before[w]
      BY ONLY <3>2, <3>3, PromisedPrune
    <3> QED BY <2>3, <3>4
  <2>5. Exact(u)'
    BY <1>1, <1>2, <1>3, <2>1, <2>2, <2>4, ExactStep DEF OnlyReads
  <2>6. Built(u)
    <3> SUFFICES ASSUME u.pc = "save"
                 PROVE  /\ Promised(u, u.ver) = IF u.row.files = {} THEN NoRow ELSE u.row
                        /\ u.before[u.ver] # NoRow /\ u.row.source = u.before[u.ver].source
      BY <1>1, <1>3 DEF Built
    <3> DEFINE o == u.before[u.ver]
               F == {f \in o.files : f.name # u.file}
               p == Promised(u, u.ver)
    <3>1. o # NoRow /\ o = row[r.ver] /\ OrBlank(Got(c, ok)) = o
      BY <1>1, <1>3, <1>5, <2>1, <2>3 DEF OrBlank
    <3>2. u.flow = "prune"
      BY <1>1, <1>3
    <3>3. /\ F = {} => p = NoRow
          /\ F # {} => p \in Row /\ p.files = F /\ p.source = o.source /\ p.notes = o.notes
      BY <1>2, <3>1, <3>2, PromisedPrune
    <3>4. u.row.files = F /\ u.row.source = o.source /\ u.row.notes = o.notes /\ u.row \in Row
      BY <1>1, <1>2, <1>3, <3>1, RequestTypes
    <3> HIDE DEF o, F, p
    <3>5. p = IF u.row.files = {} THEN NoRow ELSE u.row
      BY <3>3, <3>4, SameRow
    <3> QED BY <3>1, <3>4, <3>5 DEF o, p
  <2>7. Missing(u) /\ Answers(u)
    BY <1>1, <1>3 DEF Missing, Answers
  <2> QED BY <2>5, <2>6, <2>7
<1>7. ASSUME format # "oci", ~broken' PROVE Held(u)
  <2>1. r.clean => DigestsOf(row[r.ver]) \subseteq blob \cup blamed
    BY <1>1, <1>2, <1>5, <1>7, RowHeld DEF Rewriting, Writing
  <2>2. DigestsOf(u.row) \subseteq DigestsOf(row[r.ver])
    BY <1>1, <1>2, <1>5, <1>7, BlankFields, Zenon DEF DigestsOf, OrBlank
  <2>3. u.clean => r.clean
    BY <1>2
  <2> QED BY <1>1, <1>3, <2>1, <2>2, <2>3 DEF Held
<1>8. Fits(c, r, u, ok)
  BY <1>1, <1>3, <1>4, <1>6, FitsBy DEF OnlyReads
<1>9. OnlyReads /\ ~Puttings(r) /\ ~Rewriting(r) /\ ~Puttings(u)
  BY <1>1, <1>3 DEF Puttings, Rewriting
<1> QED BY <1>8, <1>7, <1>9, QuietKeeps

LEMMA LoadToServeKeeps ==
    ASSUME StoreInv, Unname, NEW c \in Clients, LoadToServe(c)
    PROVE  StoreInv'
<1>1. PICK ok, r, u, named :
         /\ Moves(c, r, u, ok) /\ Asked(r, u) /\ Kind(r, u) /\ Walk(r, u) /\ OnlyReads
         /\ r.flow \in {"serve", "head"} /\ r.pc = "load" /\ u.todo = r.todo
         /\ named = {f \in OrBlank(Got(c, ok)).files : f.name = r.file}
         /\ \/ /\ r.flow = "head" /\ u.pc = "done" /\ u.row = r.row /\ named # {}
               /\ u.out = {<<r.ver, {f.digest}>> : f \in named}
            \/ r.flow = "serve" /\ u.pc = "open" /\ u.row = Got(c, ok) /\ u.out = r.out
            \/ /\ r.flow = "head" => named = {}
               /\ r.flow = "serve" => Got(c, ok) = NoRow
               /\ u.pc = "fetch" /\ u.row = r.row /\ u.out = r.out
  BY LoadToServeDoes DEF StoreInv
<1>2. /\ r \in Request /\ u \in Request /\ r = req[c] /\ r # Idle /\ Formed(r) /\ ok \in BOOLEAN
      /\ u.clean => ok /\ r.clean /\ Exact(r) /\ Built(r) /\ Missing(r) /\ Answers(r)
      /\ UNCHANGED <<format, gc>> /\ (broken => broken') /\ (ok \/ broken')
  <2>1. Moves(c, r, u, ok)
    BY <1>1
  <2> QED BY <2>1, Before
<1>3. /\ u.flow = r.flow /\ u.source = r.source /\ u.file = r.file /\ u.data = r.data /\ u.note = r.note
      /\ u.add = r.add /\ u.aim = r.aim /\ u.before = r.before
      /\ u.ver = r.ver /\ u.vers = r.vers /\ u.tail = r.tail
  BY <1>1 DEF Asked, Kind, Walk
<1>4. Formed(u)
  BY <1>1, <1>2, <1>3, Zenon DEF Formed, WalkFits, FileFits, NoteFits, ImageFits, Here, Walking, OnImages, OnFiles, Numbered
<1>5. ok => Got(c, ok) = row[r.ver] /\ r.ver \in Vers /\ OrBlank(row[r.ver]) \in Row
  BY <1>2, GotTypes, RowTypes, RequestTypes DEF StoreInv
<1>6. ASSUME u.clean PROVE Exact(u)' /\ Built(u) /\ Missing(u) /\ Answers(u)
  <2>1. ok /\ Exact(r)
    BY <1>2, <1>6
  <2>2. Pending(r) = {} /\ Pending(u) = {}
    BY <1>1, <1>3 DEF Pending
  <2>3. Exact(u)'
    BY <1>1, <1>2, <1>3, <2>1, <2>2, ExactStep DEF OnlyReads
  <2>4. row[r.ver] = r.before[r.ver]
    BY <1>1, <1>2, <1>5, <2>1, <2>2, PromisedOther DEF Exact
  <2>5. Built(u)
    BY <1>1, <1>3, Zenon DEF Built
  <2>6. Missing(u)
    BY <1>1, <1>3, <1>5, <2>1, <2>4, BlankFields, Zenon DEF Missing, Lacks, OrBlank
  <2>7. Answers(u)
    <3>1. r.flow = "head" /\ u.pc = "done" => u.out = Served(u)
      <4>1. Wanted(u) = named
        BY <1>1, <1>3, <1>5, <2>1, <2>4 DEF Wanted
      <4>2. named # {} => Served(u) = {<<u.ver, {f.digest}>> : f \in Wanted(u)}
        BY <4>1, ServedIs
      <4>3. {<<u.ver, {f.digest}>> : f \in Wanted(u)} = {<<r.ver, {f.digest}>> : f \in named}
        BY <1>3, <4>1
      <4> QED BY <1>1, <4>2, <4>3
    <3>2. u.flow = "serve" => u.pc # "done" /\ (u.pc = "open" => u.row = u.before[u.ver])
      BY <1>1, <1>3, <1>5, <2>1, <2>4
    <3> QED BY <1>1, <1>3, <3>1, <3>2 DEF Answers
  <2> QED BY <2>3, <2>5, <2>6, <2>7
<1>7. Held(u)
  BY <1>1, <1>3 DEF Held
<1>8. Fits(c, r, u, ok)
  BY <1>1, <1>3, <1>4, <1>6, FitsBy DEF OnlyReads
<1>9. OnlyReads /\ ~Puttings(r) /\ ~Rewriting(r) /\ ~Puttings(u)
  BY <1>1, <1>3 DEF Puttings, Rewriting
<1> QED BY <1>8, <1>7, <1>9, QuietKeeps

LEMMA LoadToEditKeeps ==
    ASSUME StoreInv, Unname, NEW c \in Clients, LoadToEdit(c)
    PROVE  StoreInv'
<1>1. Formed(req[c])
  BY DEF LoadToEdit, At, StoreInv, RequestInv
<1>2. PICK ok, r, u :
         /\ Moves(c, r, u, ok) /\ Asked(r, u) /\ Kind(r, u) /\ OnlyReads
         /\ u.ver = r.ver /\ u.tail = r.tail /\ u.vers = {}
         /\ r.flow \in {"edit", "tag"} /\ r.pc = "load" /\ u.todo = r.todo /\ u.out = r.out
         /\ u.pc = (IF r.flow = "tag" /\ r.add THEN "check" ELSE "save")
         /\ u.row.files = {} /\ u.row.source = ""
         /\ u.row.notes = Edited(r, OrBlank(Got(c, ok)))
  BY <1>1, LoadToEditDoes, Zenon DEF StoreInv
<1>3. /\ r \in Request /\ u \in Request /\ r = req[c] /\ r # Idle /\ Formed(r) /\ ok \in BOOLEAN
      /\ u.clean => ok /\ r.clean /\ Exact(r) /\ Built(r) /\ Missing(r) /\ Answers(r)
      /\ UNCHANGED <<format, gc>> /\ (broken => broken') /\ (ok \/ broken')
  <2>1. Moves(c, r, u, ok)
    BY <1>2, Zenon
  <2> QED BY <2>1, Before
<1>4. /\ u.flow = r.flow /\ u.source = r.source /\ u.file = r.file /\ u.data = r.data /\ u.note = r.note
      /\ u.add = r.add /\ u.aim = r.aim /\ u.before = r.before
  BY <1>2, Zenon DEF Asked, Kind
<1>5. Formed(u)
  BY <1>2, <1>3, <1>4, Zenon DEF Formed, WalkFits, FileFits, NoteFits, ImageFits, Here, Walking, OnImages, OnFiles, Numbered
<1>6. (ok => Got(c, ok) = row[r.ver]) /\ r.ver \in Vers
  BY <1>3, GotTypes, RequestTypes DEF StoreInv
<1>7. ASSUME u.clean PROVE Exact(u)' /\ Built(u) /\ Missing(u) /\ Answers(u)
  <2>1. ok /\ Exact(r) /\ Built(r)
    BY <1>3, <1>7
  <2>2. Pending(r) = Vers /\ Pending(u) = Vers
    BY <1>2, <1>4, Zenon DEF Pending
  <2>3. Exact(u)'
    BY <1>2, <1>3, <1>4, <2>1, <2>2, ExactStep, Zenon DEF OnlyReads
  <2>4. row[r.ver] = r.before[r.ver]
    BY <1>2, <1>3, <1>6, <2>1, <2>2, Zenon DEF Exact
  <2> DEFINE o == OrBlank(r.before[r.ver])
             N == Edited(r, o)
             w == [Blank EXCEPT !.notes = N]
  <2>5. u.row.notes = N /\ u.row \in Row
    <3>1. OrBlank(Got(c, ok)) = o /\ u.row \in Row
      BY <1>3, <1>6, <2>1, <2>4, RequestTypes
    <3> HIDE DEF o
    <3> QED BY <1>2, <3>1, Zenon
  <2>6. w \in Row /\ w.files = {} /\ w.source = "" /\ w.notes = N
    <3>1. N \subseteq Notes
      BY <2>5, RowFields
    <3> HIDE DEF N
    <3> QED BY <3>1, Zenon DEF Row, Blank, Source
  <2> HIDE DEF w, N
  <2>7. u.row = w
    BY <1>2, <2>5, <2>6, SameRow, Zenon
  <2>8. Built(u)
    <3>1. ASSUME r.flow = "edit" PROVE u.row = Promised(u, u.ver)
      <4> DEFINE p == Promised(u, u.ver)
      <4>1. u.flow = "edit" /\ u.note \in Notes /\ Subject(u)
        BY <1>2, <1>3, <1>4, <2>1, <3>1, Zenon DEF Formed, NoteFits, Built, Subject
      <4>2. Edited(u, OrBlank(u.before[u.ver])) = N
        BY <1>2, <1>4, <3>1, Zenon DEF Edited, N, o
      <4>3. p \in Row /\ p.files = {} /\ p.source = "" /\ p.notes = N
        <5>1. p \in Row /\ p.files = {} /\ p.source = "" /\ p.notes = Edited(u, OrBlank(u.before[u.ver]))
          BY <1>3, <4>1, PromisedEdit, Zenon
        <5> QED BY <4>2, <5>1, Zenon
      <4> HIDE DEF p
      <4>4. u.row = p
        BY <1>2, <2>5, <4>3, SameRow, Zenon
      <4> QED BY <4>4 DEF p
    <3>2. ASSUME r.flow = "tag"
          PROVE  u.row = [Blank EXCEPT !.notes = Edited([u EXCEPT !.vers = Listed(u)], OrBlank(u.before[u.ver]))]
      <4>1. r.vers = Listed(r) /\ Listed(u) = Listed(r) /\ OrBlank(u.before[u.ver]) = o
        BY <1>2, <1>4, <2>1, <3>2, Zenon DEF Built, Listed
      <4> HIDE DEF o
      <4>2. Edited([u EXCEPT !.vers = Listed(r)], o) = Edited(r, o)
        <5>1. /\ Edited([u EXCEPT !.vers = Listed(r)], o) = Edited([r EXCEPT !.vers = Listed(r)], o)
              /\ r.vers = Listed(r) => Edited([r EXCEPT !.vers = Listed(r)], o) = Edited(r, o)
          <6>1. r \in Request /\ u \in Request /\ u.flow = r.flow /\ u.note = r.note /\ u.add = r.add
            BY <1>3, <1>4
          <6> QED BY ONLY <6>1, EditedVers
        <5> QED BY <4>1, <5>1
      <4> QED BY <2>7, <4>1, <4>2 DEF w, N
    <3>3. ASSUME r.flow = "tag", ~r.add PROVE u.row = Promised(u, u.ver)
      <4>1. u.flow = "tag" /\ ~u.add
        BY <1>4, <3>3
      <4>2. Promised(u, u.ver) = [Blank EXCEPT !.notes = Edited([u EXCEPT !.vers = Listed(u)],
                                                               OrBlank(u.before[u.ver]))]
        BY <1>3, <4>1, PromisedTag
      <4> QED BY <3>2, <3>3, <4>2
    <3> QED BY <1>2, <1>4, <3>1, <3>2, <3>3, Zenon DEF Built, Listed
  <2>9. Missing(u) /\ Answers(u)
    BY <1>2, <1>4, Zenon DEF Missing, Answers
  <2> QED BY <2>3, <2>8, <2>9
<1>8. Held(u)
  BY <1>2, <1>4, Zenon DEF Held
<1>9. Fits(c, r, u, ok)
  BY <1>2, <1>4, <1>5, <1>7, FitsBy, Zenon DEF OnlyReads
<1>10. OnlyReads /\ ~Puttings(r) /\ ~Rewriting(r) /\ ~Puttings(u)
  BY <1>2, <1>4, Zenon DEF Puttings, Rewriting
<1> QED BY <1>9, <1>8, <1>10, QuietKeeps

\* What follows after a version of a walk is one of the versions to come.
LEMMA AdvancedHere ==
    ASSUME NEW r, NEW u, NEW p, Advanced(r, u, p)
    PROVE  /\ r.vers # {} => Here(u) = r.vers /\ u.ver \in r.vers /\ u.pc = p
           /\ r.vers = {} => u.pc = (IF r.tail THEN "drop" ELSE "done")
BY DEF Advanced, Here

LEMMA LoadToAmendKeeps ==
    ASSUME StoreInv, Unname, NEW c \in Clients, LoadToAmend(c)
    PROVE  StoreInv'
<1>1. Formed(req[c])
  BY DEF LoadToAmend, At, StoreInv, RequestInv
<1>2. PICK ok, r, u :
         /\ Moves(c, r, u, ok) /\ Asked(r, u) /\ Kind(r, u) /\ OnlyReads
         /\ r.flow = "amend" /\ r.pc = "load" /\ u.todo = r.todo /\ u.out = r.out
         /\ \/ Got(c, ok) = NoRow /\ Advanced(r, u, "load") /\ u.row = r.row
            \/ /\ Got(c, ok) # NoRow /\ Walk(r, u) /\ u.pc = "save"
               /\ u.row.files = Got(c, ok).files /\ u.row.source = Got(c, ok).source
               /\ u.row.notes = (IF r.add THEN Got(c, ok).notes \cup {r.note}
                                          ELSE Got(c, ok).notes \ {r.note})
  BY <1>1, LoadToAmendDoes DEF StoreInv
<1>3. /\ r \in Request /\ u \in Request /\ r = req[c] /\ r # Idle /\ Formed(r) /\ ok \in BOOLEAN
      /\ u.clean => ok /\ r.clean /\ Exact(r) /\ Built(r) /\ Missing(r) /\ Answers(r)
      /\ UNCHANGED <<format, gc>> /\ (broken => broken') /\ (ok \/ broken')
  <2>1. Moves(c, r, u, ok)
    BY <1>2
  <2> QED BY <2>1, Before
<1>4. /\ u.flow = r.flow /\ u.source = r.source /\ u.file = r.file /\ u.data = r.data /\ u.note = r.note
      /\ u.add = r.add /\ u.aim = r.aim /\ u.before = r.before
  BY <1>2 DEF Asked, Kind
<1>5. /\ r.note \in Notes /\ ~r.tail /\ r.ver \in r.aim /\ r.vers \subseteq r.aim /\ r.ver \notin r.vers
      /\ Doc \notin Here(r)
  BY <1>2, <1>3 DEF Formed, WalkFits, NoteFits, Here, Numbered
<1>6. \/ Got(c, ok) # NoRow /\ u.pc = "save" /\ u.ver = r.ver /\ u.vers = r.vers /\ u.tail = r.tail
      \/ Got(c, ok) = NoRow /\ u.pc = "load" /\ u.ver \in r.vers /\ u.vers = r.vers \ {u.ver} /\ ~u.tail
      \/ Got(c, ok) = NoRow /\ r.vers = {} /\ u.pc = "done" /\ u.ver = r.ver /\ u.vers = {} /\ ~u.tail
  BY <1>2, <1>5 DEF Walk, Advanced
<1>7. Formed(u)
  <2>1. WalkFits(u)
    BY <1>2, <1>4, <1>5, <1>6 DEF WalkFits, Here, Walking, Numbered
  <2>2. FileFits(u) /\ NoteFits(u) /\ ImageFits(u)
    BY <1>2, <1>3, <1>4, <1>5, Zenon DEF Formed, FileFits, NoteFits, ImageFits, OnImages, OnFiles
  <2> QED BY <2>1, <2>2 DEF Formed
<1>8. (ok => Got(c, ok) = row[r.ver]) /\ r.ver \in Vers
  BY <1>3, GotTypes, RequestTypes DEF StoreInv
<1>9. ASSUME u.clean PROVE Exact(u)' /\ Built(u) /\ Missing(u) /\ Answers(u)
  <2>1. ok /\ Exact(r)
    BY <1>3, <1>9
  <2>2. Pending(r) = Here(r) /\ Pending(u) = (IF u.pc = "done" THEN {} ELSE Here(u))
    BY <1>2, <1>4 DEF Pending
  <2>3. row[r.ver] = r.before[r.ver]
    BY <1>2, <1>8, <2>1, <2>2 DEF Exact, Here
  <2>4. Got(c, ok) = NoRow => row[r.ver] = Promised(r, r.ver)
    <3>1. r \in Request /\ r.flow = "amend" /\ r.note \in Notes
      BY <1>2, <1>3, <1>5
    <3>2. r.before[r.ver] = NoRow => Promised(r, r.ver) = r.before[r.ver]
      BY ONLY <3>1, PromisedAmend
    <3> QED BY <1>8, <2>1, <2>3, <3>2
  <2>5. Exact(u)'
    <3>1. ASSUME NEW w \in Vers
          PROVE  /\ row'[w] = row[w] /\ (w \in Pending(u) => w \in Pending(r))
                 /\ w \in Pending(r) => w \in Pending(u) \/ row[w] = Promised(r, w)
      BY <1>2, <1>6, <2>2, <2>4 DEF Here, OnlyReads
    <3>2. r.flow \notin OneVersion /\ r.flow # "image" /\ u.pc # "list"
      BY <1>2, <1>6 DEF OneVersion
    <3>3. r \in Request /\ u \in Request /\ Asked(r, u) /\ Kind(r, u)
      BY <1>2, <1>3
    <3> QED BY <2>1, <3>1, <3>2, <3>3, ExactStep
  <2>6. ASSUME u.pc = "save"
        PROVE  u.row = Promised(u, u.ver) /\ u.before[u.ver] # NoRow
    <3> DEFINE p == Promised(u, u.ver)
               o == u.before[u.ver]
    <3>1. /\ u.flow = "amend" /\ u.note \in Notes /\ o # NoRow /\ u.ver \in u.aim /\ o = Got(c, ok)
          /\ u.add = r.add /\ u.note = r.note /\ u \in Request
      <4>1. Got(c, ok) # NoRow /\ u.ver = r.ver
        BY <1>6, <2>6
      <4>2. o = Got(c, ok) /\ o # NoRow
        BY <1>4, <1>8, <2>1, <2>3, <4>1
      <4> HIDE DEF o
      <4> QED BY <1>2, <1>3, <1>4, <1>5, <4>1, <4>2
    <3>2. /\ p \in Row /\ p.files = o.files /\ p.source = o.source
          /\ p.notes = (IF u.add THEN o.notes \cup {u.note} ELSE o.notes \ {u.note})
      BY <3>1, PromisedAmend
    <3>3. /\ u.row \in Row /\ u.row.files = o.files /\ u.row.source = o.source
          /\ u.row.notes = (IF u.add THEN o.notes \cup {u.note} ELSE o.notes \ {u.note})
      BY <1>2, <1>6, <2>6, <3>1, RequestTypes
    <3> HIDE DEF p, o
    <3>4. u.row = p
      BY <3>2, <3>3, SameRow
    <3> QED BY <3>1, <3>4 DEF p, o
  <2>7. Built(u)
    BY <1>2, <1>4, <2>6 DEF Built
  <2>8. Missing(u) /\ Answers(u)
    BY <1>2, <1>4 DEF Missing, Answers
  <2> QED BY <2>5, <2>7, <2>8
<1>10. ASSUME format # "oci", ~broken' PROVE Held(u)
  <2>1. r.clean => DigestsOf(row[r.ver]) \subseteq blob \cup blamed
    BY <1>2, <1>3, <1>8, <1>10, RowHeld DEF Rewriting, Writing
  <2>2. u.pc = "save" => DigestsOf(u.row) \subseteq DigestsOf(row[r.ver])
    BY <1>2, <1>3, <1>8, <1>10, <1>6 DEF DigestsOf
  <2>3. u.clean => r.clean
    BY <1>3
  <2> QED BY <1>2, <1>4, <2>1, <2>2, <2>3 DEF Held
<1>11. Fits(c, r, u, ok)
  BY <1>2, <1>4, <1>7, <1>9, FitsBy DEF OnlyReads
<1>12. OnlyReads /\ ~Puttings(r) /\ ~Rewriting(r) /\ ~Puttings(u)
  BY <1>2, <1>4 DEF Puttings, Rewriting
<1> QED BY <1>11, <1>10, <1>12, QuietKeeps

LEMMA CheckKeeps ==
    ASSUME StoreInv, Unname, NEW c \in Clients, Check(c)
    PROVE  StoreInv'
<1>1. PICK ok, r, u, v :
         /\ Moves(c, r, u, ok) /\ Asked(r, u) /\ Kind(r, u) /\ Walk(r, u) /\ OnlyReads
         /\ r.flow \in {"edit", "tag", "remove"} /\ r.pc = "check"
         /\ v = (IF r.flow = "remove" THEN r.ver ELSE r.note[2])
         /\ u.row = r.row /\ u.todo = r.todo /\ u.out = r.out
         /\ \/ ok /\ row[v] # NoRow /\ u.pc = (IF r.flow = "tag" THEN "save" ELSE "load")
            \/ ~ok /\ u.pc = "done"
            \/ row[v] = NoRow /\ u.pc = "done"
  BY CheckDoes DEF StoreInv
<1>2. /\ r \in Request /\ u \in Request /\ r = req[c] /\ r # Idle /\ Formed(r) /\ ok \in BOOLEAN
      /\ u.clean => ok /\ r.clean /\ Exact(r) /\ Built(r) /\ Missing(r) /\ Answers(r)
      /\ UNCHANGED <<format, gc>> /\ (broken => broken') /\ (ok \/ broken')
  <2>1. Moves(c, r, u, ok)
    BY <1>1
  <2> QED BY <2>1, Before
<1>3. /\ u.flow = r.flow /\ u.source = r.source /\ u.file = r.file /\ u.data = r.data /\ u.note = r.note
      /\ u.add = r.add /\ u.aim = r.aim /\ u.before = r.before
      /\ u.ver = r.ver /\ u.vers = r.vers /\ u.tail = r.tail
  BY <1>1 DEF Asked, Kind, Walk
<1>4. /\ r.flow = "remove" => r.vers = {} /\ ~r.tail /\ r.ver \in r.aim
      /\ r.flow \in {"edit", "tag"} => r.ver = Doc /\ r.note \in Notes /\ r.vers = {}
      /\ r.flow = "edit" => r.note[2] # Doc
      /\ r.flow = "tag" => r.add
  BY <1>1, <1>2, Zenon DEF Formed, WalkFits, NoteFits, Here, Walking
<1>5. Formed(u)
  <2>1. WalkFits(u)
    BY <1>1, <1>2, <1>3, <1>4 DEF Formed, WalkFits, Here, Walking, Numbered
  <2>2. FileFits(u) /\ NoteFits(u) /\ ImageFits(u)
    BY <1>1, <1>2, <1>3, Zenon DEF Formed, FileFits, NoteFits, ImageFits, OnImages, OnFiles
  <2> QED BY <2>1, <2>2 DEF Formed
<1>6. v \in Vers
  BY <1>1, <1>2, <1>4, RequestTypes DEF Notes
<1>7. ASSUME u.clean PROVE Exact(u)' /\ Built(u) /\ Missing(u) /\ Answers(u)
  <2>1. ok /\ Exact(r) /\ Built(r)
    BY <1>2, <1>7
  <2>2. /\ r.flow = "remove" => Pending(r) = {r.ver}
        /\ r.flow # "remove" => Pending(r) = Vers
        /\ Pending(u) = (IF u.pc = "done" THEN {} ELSE Pending(r))
    BY <1>1, <1>3, <1>4 DEF Pending, Here
  <2>3. r.flow # "remove" => \A w \in Vers : row[w] = r.before[w]
    BY <2>1, <2>2, <1>1 DEF Exact
  <2>4. ASSUME u.pc = "done", NEW w \in Pending(r) PROVE row[w] = Promised(r, w)
    <3>1. row[v] = NoRow
      BY <1>1, <2>1, <2>4
    <3>2. CASE r.flow = "remove"
      <4>1. w = r.ver /\ w \in r.aim /\ row[w] = NoRow
        BY <1>1, <1>4, <2>2, <2>4, <3>1, <3>2
      <4>2. Promised(r, w) = (IF w \in r.aim THEN NoRow ELSE r.before[w])
        BY <1>2, <3>2, PromisedOther
      <4> QED BY <4>1, <4>2
    <3>3. CASE r.flow = "edit"
      <4>1. ~Subject(r) /\ r.note \in Notes /\ r \in Request
        BY <1>1, <1>2, <1>6, <1>4, <2>3, <3>1, <3>3 DEF Subject
      <4>2. Promised(r, w) = r.before[w]
        BY <3>3, <4>1, PromisedEdit, Zenon
      <4> QED BY <2>2, <2>3, <2>4, <3>3, <4>2
    <3>4. CASE r.flow = "tag"
      <4>1. r.add /\ r.before[r.note[2]] = NoRow /\ r \in Request
        BY <1>1, <1>2, <1>6, <1>4, <2>3, <3>1, <3>4
      <4>2. Promised(r, w) = r.before[w]
        BY <3>4, <4>1, PromisedTag
      <4> QED BY <2>2, <2>3, <2>4, <3>4, <4>2
    <3> QED BY <1>1, <3>2, <3>3, <3>4
  <2>5. Exact(u)'
    <3>1. ASSUME NEW w \in Vers
          PROVE  /\ row'[w] = row[w] /\ (w \in Pending(u) => w \in Pending(r))
                 /\ w \in Pending(r) => w \in Pending(u) \/ row[w] = Promised(r, w)
      BY <1>1, <2>2, <2>4 DEF OnlyReads
    <3>2. u.ver = r.ver /\ u.row = r.row /\ u.pc # "list"
      BY <1>1, <1>3
    <3>3. r \in Request /\ u \in Request /\ Asked(r, u) /\ Kind(r, u)
      BY <1>1, <1>2
    <3> QED BY <2>1, <3>1, <3>2, <3>3, ExactStep
  <2>6. r.flow # "remove" /\ u.pc # "done" => r.before[r.note[2]] # NoRow
    BY <1>1, <1>6, <2>3
  <2>7. ASSUME r.flow = "tag", u.pc = "save" PROVE u.row = Promised(u, u.ver)
    <3>1. u.before[u.note[2]] # NoRow /\ u.flow = "tag"
      BY <1>3, <2>6, <2>7
    <3>2. Promised(u, u.ver) = [Blank EXCEPT !.notes = Edited([u EXCEPT !.vers = Listed(u)],
                                                             OrBlank(u.before[u.ver]))]
      BY <1>2, <3>1, PromisedTag
    <3>3. r.row = [Blank EXCEPT !.notes = Edited([r EXCEPT !.vers = Listed(r)], OrBlank(r.before[r.ver]))]
      BY <1>1, <2>1, <2>7 DEF Built, Listed
    <3>4. Listed(u) = Listed(r)
      BY <1>3 DEF Listed
    <3> DEFINE o == OrBlank(r.before[r.ver])
               L == Listed(r)
    <3>5. Edited([u EXCEPT !.vers = L], o) = Edited([r EXCEPT !.vers = L], o)
      <4>1. r \in Request /\ u \in Request /\ u.flow = r.flow /\ u.note = r.note /\ u.add = r.add
        BY <1>2, <1>3
      <4> QED BY ONLY <4>1, EditedVers
    <3> QED BY <1>1, <1>3, <3>2, <3>3, <3>4, <3>5
  <2>8. Built(u)
    BY <1>1, <1>3, <2>6, <2>7, Zenon DEF Built
  <2>9. Missing(u) /\ Answers(u)
    BY <1>1, <1>3 DEF Missing, Answers
  <2> QED BY <2>5, <2>8, <2>9
<1>8. Held(u)
  BY <1>1, <1>3 DEF Held
<1>9. Fits(c, r, u, ok)
  BY <1>1, <1>3, <1>5, <1>7, FitsBy DEF OnlyReads
<1>10. OnlyReads /\ ~Puttings(r) /\ ~Rewriting(r) /\ ~Puttings(u)
  BY <1>1, <1>3 DEF Puttings, Rewriting
<1> QED BY <1>9, <1>8, <1>10, QuietKeeps

LEMMA ReadKeeps ==
    ASSUME StoreInv, Unname, NEW c \in Clients, Read(c)
    PROVE  StoreInv'
<1>1. PICK ok, r, u :
         /\ Moves(c, r, u, ok) /\ Asked(r, u) /\ Kind(r, u) /\ OnlyReads
         /\ r.flow = "index" /\ r.pc = "read" /\ Advanced(r, u, "read")
         /\ u.row = r.row /\ u.todo = r.todo
         /\ u.out = r.out \cup (IF Got(c, ok) = NoRow THEN {} ELSE {<<r.ver, DigestsOf(Got(c, ok))>>})
  BY ReadDoes DEF StoreInv
<1>2. /\ r \in Request /\ u \in Request /\ r = req[c] /\ r # Idle /\ Formed(r) /\ ok \in BOOLEAN
      /\ u.clean => ok /\ r.clean /\ Exact(r) /\ Built(r) /\ Missing(r) /\ Answers(r)
      /\ UNCHANGED <<format, gc>> /\ (broken => broken') /\ (ok \/ broken')
  <2>1. Moves(c, r, u, ok)
    BY <1>1
  <2> QED BY <2>1, Before
<1>3. /\ u.flow = r.flow /\ u.source = r.source /\ u.file = r.file /\ u.data = r.data /\ u.note = r.note
      /\ u.add = r.add /\ u.aim = r.aim /\ u.before = r.before
  BY <1>1 DEF Asked, Kind
<1>4. ~r.tail /\ r.ver \in r.aim /\ r.vers \subseteq r.aim /\ r.ver \notin r.vers
  BY <1>1, <1>2 DEF Formed, WalkFits, Here
<1>5. \/ u.pc = "read" /\ u.ver \in r.vers /\ u.vers = r.vers \ {u.ver} /\ ~u.tail
      \/ r.vers = {} /\ u.pc = "done" /\ u.ver = r.ver /\ u.vers = {} /\ ~u.tail
  BY <1>1, <1>4 DEF Advanced
<1>6. Formed(u)
  <2>1. WalkFits(u)
    BY <1>1, <1>3, <1>4, <1>5 DEF WalkFits, Here, Walking, Numbered
  <2>2. FileFits(u) /\ NoteFits(u) /\ ImageFits(u)
    BY <1>1, <1>2, <1>3, Zenon DEF Formed, FileFits, NoteFits, ImageFits, OnImages, OnFiles
  <2> QED BY <2>1, <2>2 DEF Formed
<1>7. (ok => Got(c, ok) = row[r.ver]) /\ r.ver \in Vers
  BY <1>2, GotTypes, RequestTypes DEF StoreInv
<1>8. ASSUME u.clean PROVE Exact(u)' /\ Built(u) /\ Missing(u) /\ Answers(u)
  <2>1. ok /\ Exact(r) /\ Answers(r)
    BY <1>2, <1>8
  <2>2. Pending(r) = {} /\ Pending(u) = {}
    BY <1>1, <1>3 DEF Pending
  <2>3. Exact(u)'
    <3>1. u.row = r.row /\ u.pc # "list" /\ r.flow \notin OneVersion
      BY <1>1, <1>5 DEF OneVersion
    <3>2. r \in Request /\ u \in Request /\ Asked(r, u) /\ Kind(r, u)
      BY <1>1, <1>2
    <3> QED BY <1>1, <2>1, <2>2, <3>1, <3>2, ExactStep DEF OnlyReads
  <2>4. Got(c, ok) = r.before[r.ver]
    <3>1. row[r.ver] = Promised(r, r.ver)
      BY <1>7, <2>1, <2>2 DEF Exact
    <3>2. Promised(r, r.ver) = r.before[r.ver]
      BY <1>1, <1>2, PromisedOther
    <3> QED BY <1>7, <2>1, <3>1, <3>2
  <2>5. Built(u) /\ Missing(u)
    BY <1>1, <1>3 DEF Built, Missing
  <2>6. Answers(u)
    <3> DEFINE F == {w \in r.aim : r.before[w] # NoRow}
               To == IF u.pc = "read" THEN Here(u) ELSE {}
    <3>1. r.out = {<<v, DigestsOf(r.before[v])>> : v \in F \ Here(r)}
      BY <1>1, <2>1 DEF Answers
    <3>2. F \ To = (F \ Here(r)) \cup (IF r.before[r.ver] = NoRow THEN {} ELSE {r.ver})
      BY <1>4, <1>5 DEF Here
    <3> HIDE DEF F, To
    <3>3. u.out = {<<v, DigestsOf(r.before[v])>> : v \in F \ To}
      BY <1>1, <2>4, <3>1, <3>2
    <3> QED BY <1>1, <1>3, <1>5, <3>3 DEF Answers, F, To
  <2> QED BY <2>3, <2>5, <2>6
<1>9. Held(u)
  BY <1>1, <1>3 DEF Held
<1>10. Fits(c, r, u, ok)
  BY <1>1, <1>3, <1>6, <1>8, FitsBy DEF OnlyReads
<1>11. OnlyReads /\ ~Puttings(r) /\ ~Rewriting(r) /\ ~Puttings(u)
  BY <1>1, <1>3 DEF Puttings, Rewriting
<1> QED BY <1>10, <1>9, <1>11, QuietKeeps

LEMMA OpenKeeps ==
    ASSUME StoreInv, Unname, NEW c \in Clients, Open(c)
    PROVE  StoreInv'
<1>0. PICK r, u, named :
         /\ Moves(c, r, u, TRUE) /\ Asked(r, u) /\ Kind(r, u) /\ Walk(r, u) /\ OnlyReads
         /\ r.flow = "serve" /\ r.pc = "open" /\ u.row = r.row /\ u.todo = r.todo
         /\ named = {f \in r.row.files : f.name = r.file}
         /\ Opened(r, u, named)
  BY OpenDoes DEF StoreInv
<1>1. /\ Moves(c, r, u, TRUE) /\ Asked(r, u) /\ Kind(r, u) /\ Walk(r, u) /\ OnlyReads
      /\ r.flow = "serve" /\ r.pc = "open" /\ u.row = r.row /\ u.todo = r.todo
      /\ named = {f \in r.row.files : f.name = r.file}
      /\ \/ u.pc = "fetch" /\ u.out = r.out /\ (u.clean => named = {})
         \/ /\ u.pc = "done"
            /\ u.clean => named # {} /\ u.out = {<<r.ver, {f.digest}>> : f \in named}
  BY <1>0 DEF Opened
<1>2. /\ r \in Request /\ u \in Request /\ r = req[c] /\ r # Idle /\ Formed(r)
      /\ u.clean => r.clean /\ Exact(r) /\ Built(r) /\ Missing(r) /\ Answers(r)
      /\ UNCHANGED <<format, gc>> /\ (broken => broken')
  <2>1. Moves(c, r, u, TRUE)
    BY <1>1
  <2> QED BY <2>1, Before
<1>3. /\ u.flow = r.flow /\ u.source = r.source /\ u.file = r.file /\ u.data = r.data /\ u.note = r.note
      /\ u.add = r.add /\ u.aim = r.aim /\ u.before = r.before
      /\ u.ver = r.ver /\ u.vers = r.vers /\ u.tail = r.tail
  BY <1>1 DEF Asked, Kind, Walk
<1>4. Formed(u)
  BY <1>1, <1>2, <1>3, Zenon DEF Formed, WalkFits, FileFits, NoteFits, ImageFits, Here, Walking, OnImages, OnFiles, Numbered
<1>5. ASSUME u.clean PROVE Exact(u)' /\ Built(u) /\ Missing(u) /\ Answers(u)
  <2>1. Exact(r) /\ Answers(r) /\ r.row = r.before[r.ver] /\ r.ver \in Vers /\ r.row \in Row
    BY <1>1, <1>2, <1>5, RequestTypes DEF Answers
  <2>2. Pending(r) = {} /\ Pending(u) = {}
    BY <1>1, <1>3 DEF Pending
  <2>3. Exact(u)'
    BY <1>1, <1>2, <1>3, <2>1, <2>2, ExactStep DEF OnlyReads
  <2>4. OrBlank(u.before[u.ver]) = r.row
    BY <1>3, <2>1, NullAssumption DEF OrBlank
  <2>5. Built(u) /\ Missing(u)
    BY <1>1, <1>3, <1>5, <2>4 DEF Built, Missing, Lacks
  <2>6. Answers(u)
    <3>1. u.pc = "done" => u.out = Served(u)
      <4>1. Wanted(u) = named
        BY <1>1, <1>3, <2>4 DEF Wanted
      <4>2. named # {} => Served(u) = {<<u.ver, {f.digest}>> : f \in Wanted(u)}
        BY <4>1, ServedIs
      <4>3. {<<u.ver, {f.digest}>> : f \in Wanted(u)} = {<<r.ver, {f.digest}>> : f \in named}
        BY <1>3, <4>1
      <4> QED BY <1>1, <1>5, <4>2, <4>3
    <3> QED BY <1>1, <1>3, <3>1 DEF Answers
  <2> QED BY <2>3, <2>5, <2>6
<1>6. Held(u)
  BY <1>1, <1>3 DEF Held
<1>7. Fits(c, r, u, TRUE)
  BY <1>1, <1>3, <1>4, <1>5, FitsBy DEF OnlyReads
<1>8. OnlyReads /\ ~Puttings(r) /\ ~Rewriting(r) /\ ~Puttings(u)
  BY <1>1, <1>3 DEF Puttings, Rewriting
<1> QED BY <1>7, <1>6, <1>8, QuietKeeps

LEMMA ListKeeps ==
    ASSUME StoreInv, Unname, NEW c \in Clients, List(c)
    PROVE  StoreInv'
<1>1. PICK ok, r, u, found :
         /\ Moves(c, r, u, ok) /\ Asked(r, u) /\ Kind(r, u) /\ OnlyReads
         /\ r.flow \in {"remove", "drop", "tag", "serve", "index", "list"} /\ r.pc = "list"
         /\ found = (IF ok THEN {v \in Vers : row[v] # NoRow} ELSE {})
         /\ u.row = r.row /\ u.todo = r.todo
         /\ \/ /\ r.flow = "list" /\ u.pc = "done" /\ Walk(r, u)
               /\ u.out = {<<v, {}>> : v \in found \cap ListOciImages(r.aim, row, r.source)}
            \/ /\ r.flow = "tag" /\ u.pc = "load" /\ u.ver = r.ver /\ u.tail = r.tail
               /\ u.vers = found /\ u.out = r.out
            \/ /\ r.flow = "serve" /\ Walk(r, u) /\ u.out = r.out
               /\ u.pc = (IF r.ver \in found THEN "load" ELSE "fetch")
            \/ /\ r.flow \in {"index", "remove", "drop"} /\ u.out = r.out
               /\ \E next \in Request :
                     /\ next.ver = r.ver /\ next.tail = r.tail /\ next.vers = found \cap r.aim
                     /\ Advanced(next, u, CASE r.flow = "index" -> "read"
                                            [] r.flow = "remove" -> "load"
                                            [] r.flow = "drop" -> "drop")
  BY ListDoes DEF StoreInv
<1>2. /\ r \in Request /\ u \in Request /\ r = req[c] /\ r # Idle /\ Formed(r) /\ ok \in BOOLEAN
      /\ u.clean => ok /\ r.clean /\ Exact(r) /\ Built(r) /\ Missing(r) /\ Answers(r)
      /\ UNCHANGED <<format, gc>> /\ (broken => broken') /\ (ok \/ broken')
  <2>1. Moves(c, r, u, ok)
    BY <1>1
  <2> QED BY <2>1, Before
<1>3. /\ u.flow = r.flow /\ u.source = r.source /\ u.file = r.file /\ u.data = r.data /\ u.note = r.note
      /\ u.add = r.add /\ u.aim = r.aim /\ u.before = r.before
  BY <1>1 DEF Asked, Kind
<1>4. r.flow # "remove" => ~r.tail
  BY <1>2 DEF Formed, WalkFits
<1>5. ASSUME r.flow \in {"index", "remove", "drop"}
      PROVE  \/ /\ u.pc \in {"read", "load", "drop"} /\ (r.flow = "index" <=> u.pc = "read")
                /\ u.ver \in found \cap r.aim /\ u.vers = (found \cap r.aim) \ {u.ver} /\ u.tail = r.tail
             \/ /\ found \cap r.aim = {} /\ r.tail /\ u.pc = "drop" /\ u.ver = Doc /\ u.vers = {} /\ ~u.tail
             \/ /\ found \cap r.aim = {} /\ ~r.tail /\ u.pc = "done" /\ u.ver = r.ver
                /\ u.vers = {} /\ ~u.tail
  <2>1. PICK p \in {"read", "load", "drop"} :
           /\ r.flow = "index" <=> p = "read"
           /\ \E next \in Request :
                 /\ next.ver = r.ver /\ next.tail = r.tail /\ next.vers = found \cap r.aim
                 /\ Advanced(next, u, p)
    BY <1>1, <1>5
  <2> QED BY <2>1 DEF Advanced
<1>6. Formed(u)
  <2>1. WalkFits(u)
    <3>1. CASE r.flow \in {"index", "remove", "drop"}
      BY <1>2, <1>3, <1>4, <1>5, <3>1 DEF Formed, WalkFits, Here, Walking, Numbered
    <3>2. CASE r.flow \in {"tag", "serve", "list"}
      BY <1>1, <1>2, <1>3, <3>2 DEF Formed, WalkFits, Here, Walking, Numbered, Walk
    <3> QED BY <1>1, <3>1, <3>2
  <2>2. NoteFits(u)
    BY <1>1, <1>2, <1>3, Zenon DEF Formed, NoteFits
  <2>3. FileFits(u) /\ ImageFits(u)
    BY <1>1, <1>2, <1>3 DEF Formed, FileFits, ImageFits, OnImages, OnFiles
  <2> QED BY <2>1, <2>2, <2>3 DEF Formed
<1>7. ASSUME u.clean PROVE Exact(u)' /\ Built(u) /\ Missing(u) /\ Answers(u)
  <2>1. ok /\ Exact(r) /\ Answers(r) /\ found = {v \in Vers : row[v] # NoRow} /\ r.aim \subseteq Vers
    BY <1>1, <1>2, <1>7, RequestTypes
  <2>2. \A w \in Vers : row[w] = r.before[w]
    <3>1. r.flow \in {"remove", "drop", "tag"} => Pending(r) = Vers
      <4>1. CASE r.flow = "tag"
        BY <1>1, <4>1 DEF Pending
      <4>2. CASE r.flow \in {"remove", "drop"}
        BY <1>1, <4>2 DEF Pending
      <4> QED BY <4>1, <4>2
    <3>2. r.flow \in {"serve", "index", "list"} => Pending(r) = {} /\ \A w : Promised(r, w) = r.before[w]
      BY <1>1, <1>2, PromisedOther DEF Pending
    <3> QED BY <1>1, <2>1, <3>1, <3>2 DEF Exact
  <2>3. Exact(u)'
    <3>1. u.pc # "list" /\ u.row = r.row /\ (u.ver = r.ver \/ r.flow \notin OneVersion)
      BY <1>1, <1>5 DEF OneVersion, Walk
    <3>2. r \in Request /\ u \in Request /\ Asked(r, u) /\ Kind(r, u)
      BY <1>1, <1>2
    <3>3. ASSUME NEW w \in Vers
          PROVE  /\ row'[w] = row[w] /\ (w \in Pending(u) => w \in Pending(r))
                 /\ w \in Pending(r) => w \in Pending(u) \/ row[w] = Promised(r, w)
      <4>1. CASE r.flow \in {"remove", "drop"}
        <5>1. Pending(r) = Vers /\ Pending(u) \subseteq Vers
          BY <1>1, <1>2, <1>3, <4>1, VersAreNat, RequestTypes DEF Pending, Here
        <5>2. found \cap r.aim \subseteq Pending(u)
          <6>1. CASE u.pc = "done"
            BY <1>5, <4>1, <6>1
          <6>2. CASE u.pc # "done"
            BY <1>3, <1>5, <4>1, <6>2 DEF Pending, Here
          <6> QED BY <6>1, <6>2
        <5>3. Promised(r, w) = (IF w \in r.aim THEN NoRow ELSE r.before[w])
          BY <1>2, <4>1, PromisedOther
        <5> QED BY <1>1, <2>1, <2>2, <5>1, <5>2, <5>3 DEF OnlyReads
      <4>2. CASE r.flow = "tag"
        BY <1>1, <1>3, <4>2 DEF Pending, OnlyReads
      <4>3. CASE r.flow \in {"serve", "index", "list"}
        BY <1>1, <1>3, <4>3 DEF Pending, OnlyReads
      <4> QED BY <1>1, <4>1, <4>2, <4>3
    <3> QED BY <2>1, <3>1, <3>2, <3>3, ExactStep
  <2>4. Built(u)
    <3>1. found = {v \in Vers : r.before[v] # NoRow}
      BY <2>1, <2>2
    <3>2. r.flow = "tag" => u.vers = found /\ u.pc = "load"
      BY <1>1
    <3>3. r.flow \notin {"overwrite", "amend", "merge", "prune", "edit"}
      BY <1>1
    <3> QED BY <1>3, <3>1, <3>2, <3>3, Zenon DEF Built
  <2>5. Missing(u)
    <3>1. ASSUME r.flow = "serve", u.pc = "fetch" PROVE Lacks(u)
      <4>1. r.ver \in Vers /\ r.before[r.ver] = NoRow /\ u.ver = r.ver
        BY <1>1, <1>2, <2>1, <2>2, <3>1, RequestTypes DEF Walk
      <4> QED BY <1>3, <4>1, BlankFields, Zenon DEF Lacks, OrBlank
    <3> QED BY <1>1, <1>3, <3>1 DEF Missing
  <2>6. Answers(u)
    <3>1. row = r.before
      <4>1. row \in [Vers -> Row \cup {NoRow}] /\ r.before \in [Vers -> Row \cup {NoRow}]
        BY <1>2, RequestTypes DEF StoreInv, TypeOK
      <4> QED BY <2>2, <4>1
    <3>2. CASE r.flow = "list"
      <4>1. ListOciImages(r.aim, row, r.source) \subseteq found
        BY <2>1, Zenon DEF ListOciImages
      <4>2. found \cap ListOciImages(r.aim, row, r.source) = ListOciImages(r.aim, row, r.source)
        BY <4>1
      <4>3. u.out = {<<v, {}>> : v \in ListOciImages(r.aim, row, r.source)}
        BY <1>1, <3>2, <4>2
      <4> QED BY <1>3, <3>1, <3>2, <4>3 DEF Answers
    <3>3. CASE r.flow = "index"
      <4>1. r.out = {} /\ u.out = {}
        BY <1>1, <2>1, <3>3 DEF Answers
      <4>2. found \cap r.aim = {w \in r.aim : r.before[w] # NoRow}
        BY <2>1, <3>1
      <4>3. ~r.tail
        BY <1>4, <3>3
      <4>4. (found \cap r.aim) \ (IF u.pc = "read" THEN Here(u) ELSE {}) = {}
        BY <1>5, <3>3, <4>3 DEF Here
      <4> HIDE DEF Here
      <4> QED BY <1>3, <1>5, <3>3, <4>1, <4>2, <4>3, <4>4 DEF Answers
    <3>4. CASE r.flow \notin {"list", "index"}
      <4>1. u.pc \notin {"open", "done"} \/ r.flow # "serve"
        BY <1>1
      <4> QED BY <1>1, <1>3, <3>4, <4>1 DEF Answers
    <3> QED BY <3>2, <3>3, <3>4
  <2> QED BY <2>3, <2>4, <2>5, <2>6
<1>8. Held(u)
  BY <1>1, <1>3 DEF Held
<1>9. Fits(c, r, u, ok)
  BY <1>1, <1>3, <1>6, <1>7, FitsBy DEF OnlyReads
<1>10. OnlyReads /\ ~Puttings(r) /\ ~Rewriting(r) /\ ~Puttings(u)
  BY <1>1, <1>3 DEF Puttings, Rewriting
<1> QED BY <1>9, <1>8, <1>10, QuietKeeps

LEMMA ResolveKeeps ==
    ASSUME StoreInv, Unname, NEW c \in Clients, Resolve(c)
    PROVE  StoreInv'
<1>1. PICK ok, r, u :
         /\ Moves(c, r, u, ok) /\ Asked(r, u) /\ Kind(r, u) /\ Walk(r, u) /\ OnlyReads
         /\ r.flow = "resolve" /\ r.pc = "load" /\ u.row = r.row /\ u.todo = r.todo
         /\ u.pc = (IF Got(c, ok) = NoRow THEN "fetch" ELSE "done")
  BY ResolveDoes DEF StoreInv
<1>2. /\ r \in Request /\ u \in Request /\ r = req[c] /\ r # Idle /\ Formed(r) /\ ok \in BOOLEAN
      /\ u.clean => ok /\ r.clean /\ Exact(r) /\ Built(r) /\ Missing(r) /\ Answers(r)
      /\ UNCHANGED <<format, gc>> /\ (broken => broken') /\ (ok \/ broken')
  <2>1. Moves(c, r, u, ok)
    BY <1>1
  <2> QED BY <2>1, Before
<1>3. /\ u.flow = r.flow /\ u.source = r.source /\ u.file = r.file /\ u.data = r.data /\ u.note = r.note
      /\ u.add = r.add /\ u.aim = r.aim /\ u.before = r.before
      /\ u.ver = r.ver /\ u.vers = r.vers /\ u.tail = r.tail
  BY <1>1 DEF Asked, Kind, Walk
<1>4. Formed(u)
  <2>1. WalkFits(u) /\ FileFits(u) /\ NoteFits(u)
    BY <1>1, <1>2, <1>3, Zenon DEF Formed, WalkFits, FileFits, NoteFits, Here, Walking, Numbered
  <2>2. ImageFits(u)
    BY <1>1, <1>2, <1>3 DEF Formed, ImageFits, Here, OnImages, OnFiles
  <2> QED BY <2>1, <2>2 DEF Formed
<1>5. (ok => Got(c, ok) = row[r.ver]) /\ r.ver \in Vers
  BY <1>2, GotTypes, RequestTypes DEF StoreInv
<1>6. ASSUME u.clean PROVE Exact(u)' /\ Built(u) /\ Missing(u) /\ Answers(u)
  <2>1. ok /\ Exact(r)
    BY <1>2, <1>6
  <2>2. Pending(r) = {} /\ Pending(u) = {}
    BY <1>1, <1>3 DEF Pending
  <2>3. Exact(u)'
    BY <1>1, <1>2, <1>3, <2>1, <2>2, ExactStep DEF OnlyReads
  <2>4. row[r.ver] = r.before[r.ver]
    BY <1>1, <1>2, <1>5, <2>1, <2>2, PromisedOther DEF Exact
  <2>5. Built(u) /\ Missing(u) /\ Answers(u)
    BY <1>1, <1>3, <1>5, <2>1, <2>4 DEF Built, Missing, Answers
  <2> QED BY <2>3, <2>5
<1>7. Held(u)
  BY <1>1, <1>3 DEF Held
<1>8. Fits(c, r, u, ok)
  BY <1>1, <1>3, <1>4, <1>6, FitsBy DEF OnlyReads
<1>9. OnlyReads /\ ~Puttings(r) /\ ~Rewriting(r) /\ ~Puttings(u)
  BY <1>1, <1>3 DEF Puttings, Rewriting
<1> QED BY <1>8, <1>7, <1>9, QuietKeeps

LEMMA FetchManifestKeeps ==
    ASSUME StoreInv, Unname, NEW c \in Clients, FetchManifest(c)
    PROVE  StoreInv'
<1>1. Formed(req[c])
  BY DEF FetchManifest, At, StoreInv, RequestInv
<1>2. PICK ok, r, u :
         /\ Moves(c, r, u, ok) /\ OnlyReads /\ r.flow = "resolve" /\ r.pc = "fetch" /\ u.before = r.before
         /\ \/ Asked(r, u) /\ Kind(r, u) /\ Walk(r, u) /\ u.row = r.row /\ u.todo = r.todo /\ u.pc = "done"
            \/ \E m \in Manifests :
                  /\ r.note = Holds(m) /\ r.ver \in References /\ (r.ver \in Manifests => m = r.ver)
                  /\ Putting(u, m, r.ver, {m}, "pull")
  BY <1>1, FetchManifestDoes DEF StoreInv
<1>3. /\ r \in Request /\ u \in Request /\ r = req[c] /\ r # Idle /\ Formed(r) /\ ok \in BOOLEAN
      /\ u.clean => ok /\ r.clean /\ Exact(r) /\ Built(r) /\ Missing(r) /\ Answers(r)
      /\ UNCHANGED <<format, gc>> /\ (broken => broken') /\ (ok \/ broken')
  <2>1. Moves(c, r, u, ok)
    BY <1>2
  <2> QED BY <2>1, Before
<1>4. format = "oci"
  BY <1>2, <1>3 DEF Formed, ImageFits, OnImages
<1>5. ~Puttings(r) /\ ~Rewriting(r)
  BY <1>2 DEF Puttings, Rewriting
<1>6. CASE Asked(r, u) /\ Kind(r, u) /\ Walk(r, u) /\ u.row = r.row /\ u.todo = r.todo /\ u.pc = "done"
  <2>1. /\ u.flow = r.flow /\ u.source = r.source /\ u.file = r.file /\ u.data = r.data /\ u.note = r.note
        /\ u.add = r.add /\ u.aim = r.aim /\ u.before = r.before
        /\ u.ver = r.ver /\ u.vers = r.vers /\ u.tail = r.tail
    BY <1>6 DEF Asked, Kind, Walk
  <2>2. Formed(u)
    <3>1. WalkFits(u) /\ FileFits(u) /\ NoteFits(u)
      BY <1>2, <1>3, <1>6, <2>1, Zenon DEF Formed, WalkFits, FileFits, NoteFits, Here, Walking, Numbered
    <3>2. ImageFits(u)
      BY <1>2, <1>3, <1>6, <2>1 DEF Formed, ImageFits, Here, OnImages, OnFiles
    <3> QED BY <3>1, <3>2 DEF Formed
  <2>3. ASSUME u.clean PROVE Exact(u)' /\ Built(u) /\ Missing(u) /\ Answers(u)
    <3>1. Exact(r) /\ Pending(r) = {} /\ Pending(u) = {}
      BY <1>2, <1>3, <2>1, <2>3 DEF Pending
    <3>2. Exact(u)'
      BY <1>2, <1>3, <1>6, <2>1, <3>1, ExactStep DEF OnlyReads
    <3> QED BY <1>2, <1>6, <2>1, <3>2 DEF Built, Missing, Answers
  <2>4. Fits(c, r, u, ok)
    BY <1>2, <2>1, <2>2, <2>3, FitsBy DEF OnlyReads
  <2>5. ~Puttings(u)
    BY <1>2, <2>1 DEF Puttings
  <2> QED BY <1>2, <1>4, <1>5, <2>4, <2>5, QuietKeeps
<1>7. ASSUME NEW m \in Manifests, r.note = Holds(m), r.ver \in References, r.ver \in Manifests => m = r.ver,
             Putting(u, m, r.ver, {m}, "pull")
      PROVE  StoreInv'
  <2>1. /\ u.flow = "image" /\ u.ver = r.ver /\ u.pc = "save" /\ u.file = TheFile /\ u.data = NoData
        /\ u.source = "pull" /\ u.note = Holds(m) /\ u.aim = {r.ver} \cup {m} /\ u.tail = FALSE
        /\ u.row = [files |-> Layers, source |-> "pull", notes |-> {Holds(m)}]
        /\ u.vers = {m}
    BY <1>7 DEF Putting
  <2>2. Here(u) = {r.ver, m} /\ Here(u) \subseteq References /\ Here(u) \cap Manifests \subseteq {m}
    BY <1>7, <2>1, ManifestsAssumption DEF Here
  <2>3. Formed(u)
    <3>1. WalkFits(u)
      BY <2>1, <2>2, VersAreNat DEF WalkFits, Walking, Here
    <3>2. FileFits(u) /\ NoteFits(u)
      BY <2>1 DEF FileFits, NoteFits
    <3>3. ImageFits(u)
      BY <1>4, <2>1, <2>2 DEF ImageFits, OnFiles, OnImages
    <3> QED BY <3>1, <3>2, <3>3 DEF Formed
  <2>4. ASSUME u.clean PROVE Exact(u)' /\ Built(u) /\ Missing(u) /\ Answers(u)
    <3>1. Exact(r) /\ Pending(r) = {} /\ Missing(r) /\ r.before[r.ver] = NoRow
      BY <1>2, <1>3, <2>4 DEF Pending, Missing
    <3>2. \A w \in Vers : row'[w] = u.before[w]
      BY <1>2, <1>3, <3>1, PromisedOther DEF Exact, OnlyReads
    <3>3. Pending(u) = {r.ver, m}
      BY <2>1, <2>2 DEF Pending
    <3>4. \A w : w \notin {r.ver, m} => Promised(u, w) = u.before[w]
      BY <1>3, <2>1, PromisedOther
    <3>5. Exact(u)'
      <4> SUFFICES ASSUME NEW w \in Vers
                   PROVE  IF w \in Pending(u)
                          THEN \/ row'[w] = u.before[w]
                               \/ u.flow \in {"remove", "drop", "image"} /\ u.pc # "list" /\ row'[w] = Promised(u, w)
                          ELSE row'[w] = Promised(u, w)
        BY Zenon DEF Exact, Pending, Promised, Here
      <4> QED BY <3>2, <3>3, <3>4
    <3>6. Missing(u)
      BY <1>2, <1>7, <2>1, <2>2, <3>1 DEF Missing
    <3>7. Built(u) /\ Answers(u)
      BY <2>1 DEF Built, Answers
    <3> QED BY <3>5, <3>6, <3>7
  <2>5. Fits(c, r, u, ok)
    <3>1. u.flow \in Writing /\ r.flow \in Writing
      BY <1>2, <2>1 DEF Writing
    <3> QED BY <1>2, <2>3, <2>4, <3>1, FitsBy
  <2>6. \A n \in Manifests : u.note = Holds(n) => n \in Here(u)
    BY <2>1, <2>2, HoldsOne
  <2> QED BY <1>2, <1>4, <1>5, <2>5, <2>6, QuietKeeps
<1> QED BY <1>2, <1>6, <1>7

-----------------------------------------------------------------------------
(* The steps that write a row. *)

LEMMA WriteKeeps ==
    ASSUME StoreInv, NEW c \in Clients, NEW r, NEW u, NEW ok, Fits(c, r, u, ok),
           row' \in [Vers -> Row \cup {NoRow}], dirty' \subseteq Vers,
           blob' \subseteq Digests, blamed' \subseteq Digests,
           DocInv', GcInv', ImageRows', TagsInv', DangInv'
    PROVE  StoreInv'
<1>1. Moves(c, r, u, ok)
  BY DEF Fits
<1>2. TypeOK'
  BY <1>1, TypeStays DEF StoreInv
<1>3. RequestInv' /\ CleanInv'
  BY OneRequest DEF StoreInv
<1> QED BY <1>2, <1>3 DEF StoreInv

\* Nothing is deleted and the row that is put has its blobs.
LEMMA DangPut ==
    ASSUME TypeOK, DangInv, NEW c \in Clients, NEW r, NEW u, NEW ok, Moves(c, r, u, ok),
           NEW v \in Vers,
           \A w \in Vers \ {v} : row'[w] = row[w] /\ (Rewriting(r) => r.ver # w),
           format # "oci" /\ ~broken' /\ ~broken =>
             /\ blob \cup blamed \subseteq blob' \cup blamed'
             /\ Held(u)'
             /\ DigestsOf(row'[v]) \subseteq blob' \cup blamed'
    PROVE  DangInv'
<1> DEFINE L == {}
<1>1. L \cap {} = {} /\ (\A S : L \cap S = {}) /\ \A S : S \cup L = S
  OBVIOUS
<1> HIDE DEF L
<1>2. format # "oci" /\ ~broken' /\ ~broken =>
             /\ blob \cup blamed \subseteq blob' \cup blamed' \cup L
             /\ Held(u)'
             /\ \A w \in Vers : \/ DigestsOf(row'[w]) \subseteq blob' \cup blamed'
                                \/ /\ row'[w] = row[w]
                                   /\ Rewriting(r) /\ r.ver = w => Rewriting(u) /\ u.ver = w
                                   /\ L \cap DigestsOf(row[w]) # {} => Rewriting(u) /\ u.ver = w
             /\ \A d \in Clients \ {c} : req[d] # Idle => L \cap (DigestsOf(req[d].row) \cup {req[d].data}) = {}
  BY <1>1
<1>3. TypeOK /\ DangInv /\ c \in Clients /\ Moves(c, r, u, ok)
  OBVIOUS
<1> QED BY ONLY <1>2, <1>3, DangStep

LEMMA SaveRevKeeps ==
    ASSUME StoreInv, Unname, NEW c \in Clients, SaveRev(c)
    PROVE  StoreInv'
<1>1. Formed(req[c])
  BY DEF SaveRev, At, StoreInv, RequestInv
<1>2. PICK ok, r, u, w :
         /\ Moves(c, r, u, ok) /\ Asked(r, u) /\ Kind(r, u) /\ Walk(r, u)
         /\ r.flow \in {"merge", "mark"} /\ r.pc = "rev"
         /\ u.pc = (IF r.flow = "mark" THEN "done" ELSE "load")
         /\ u.row = r.row /\ u.todo = r.todo /\ u.out = r.out
         /\ w \in Row /\ w.files = {} /\ w.source = "" /\ w.notes = {r.note}
         /\ Puts(ok, Doc, w) /\ UNCHANGED <<blob, blamed>>
  BY <1>1, SaveRevDoes, Zenon DEF StoreInv
<1>3. /\ r \in Request /\ u \in Request /\ r = req[c] /\ r # Idle /\ Formed(r) /\ ok \in BOOLEAN
      /\ u.clean => ok /\ r.clean /\ Exact(r) /\ Built(r) /\ Missing(r) /\ Answers(r)
      /\ UNCHANGED <<format, gc>> /\ (broken => broken') /\ (ok \/ broken')
  <2>1. Moves(c, r, u, ok)
    BY <1>2, Zenon
  <2> QED BY <2>1, Before
<1>4. /\ u.flow = r.flow /\ u.source = r.source /\ u.file = r.file /\ u.data = r.data /\ u.note = r.note
      /\ u.add = r.add /\ u.aim = r.aim /\ u.before = r.before
      /\ u.ver = r.ver /\ u.vers = r.vers /\ u.tail = r.tail
  BY <1>2, Zenon DEF Asked, Kind, Walk
<1>5. Formed(u)
  BY <1>2, <1>3, <1>4, Zenon DEF Formed, WalkFits, FileFits, NoteFits, ImageFits, Here, Walking, OnImages, OnFiles, Numbered
<1>6. /\ r.note \in Notes /\ r.note # NoData /\ format # "oci" /\ (r.flow = "merge" => r.ver # Doc)
      /\ r.flow \in Writing
  BY <1>2, <1>3, NullAssumption, Zenon DEF Formed, NoteFits, ImageFits, WalkFits, OnFiles, Numbered, Here, Writing
<1>7. DigestsOf(w) = {} /\ w # NoRow
  BY <1>2, NullAssumption, Zenon DEF DigestsOf
<1>8. /\ row' \in [Vers -> Row \cup {NoRow}] /\ dirty' \subseteq Vers
      /\ row'[Doc] = (IF ok THEN w ELSE row[Doc]) /\ \A v \in Vers \ {Doc} : row'[v] = row[v]
      /\ DocInv' /\ GcInv' /\ ImageRows'
  <2>1. Doc \in Vers /\ w \in Row \cup {NoRow}
    BY <1>2, VersAreNat, Zenon
  <2>2. Puts(ok, Doc, w) /\ ok \in BOOLEAN /\ UNCHANGED <<gc, format>> /\ format # "oci"
    BY <1>2, <1>3, <1>6, Zenon
  <2>3. TypeOK /\ DocInv /\ GcInv /\ ImageRows
    BY DEF StoreInv
  <2> QED BY ONLY <2>1, <2>2, <2>3, <1>7, PutsOne
<1>9. ASSUME u.clean PROVE Exact(u)' /\ Built(u) /\ Missing(u) /\ Answers(u)
  <2>1. ok /\ Exact(r) /\ Missing(r)
    BY <1>3, <1>9
  <2>2. Pending(r) = Vers /\ Pending(u) = (IF r.flow = "mark" THEN {} ELSE Vers \ {Doc})
    <3>1. CASE r.flow = "mark"
      BY <1>2, <1>4, <3>1, Zenon DEF Pending
    <3>2. CASE r.flow = "merge"
      BY <1>2, <1>4, <3>2, Zenon DEF Pending
    <3> QED BY <1>2, <3>1, <3>2, Zenon
  <2>3. \A v \in Vers : row[v] = r.before[v]
    BY <1>2, <2>1, <2>2, Zenon DEF Exact
  <2>4. Promised(r, Doc) = [Blank EXCEPT !.notes = {r.note}]
    <3>1. CASE r.flow = "mark"
      BY <1>3, <1>6, <3>1, PromisedOther
    <3>2. CASE r.flow = "merge"
      BY <1>3, <1>6, <3>2, PromisedMerge, Zenon
    <3> QED BY <1>2, <3>1, <3>2, Zenon
  <2>5. w = Promised(r, Doc)
    <3> DEFINE p == [Blank EXCEPT !.notes = {r.note}]
    <3>1. p \in Row /\ p.files = {} /\ p.source = "" /\ p.notes = {r.note}
      BY <1>6, Zenon DEF Row, Blank, Source
    <3> HIDE DEF p
    <3>2. w = p
      BY <1>2, <3>1, SameRow, Zenon
    <3> QED BY <2>4, <3>2 DEF p
  <2>6. r.flow = "mark" => \A v \in Vers \ {Doc} : row[v] = Promised(r, v)
    BY <1>3, <2>3, PromisedOther
  <2>7. Exact(u)'
    <3>1. \A v \in Vers :
              \/ /\ row'[v] = row[v] /\ (v \in Pending(u) => v \in Pending(r))
                 /\ v \in Pending(r) => v \in Pending(u) \/ row[v] = Promised(r, v)
              \/ /\ row'[v] = Promised(r, v)
                 /\ v \notin Pending(u) \/ (r.flow \in {"remove", "drop", "image"} /\ u.pc # "list")
      BY <1>8, <2>1, <2>2, <2>5, <2>6
    <3>2. u.pc # "list" /\ u.ver = r.ver /\ u.row = r.row
      BY <1>2, <1>4, Zenon
    <3>3. r \in Request /\ u \in Request /\ Asked(r, u) /\ Kind(r, u)
      BY <1>2, <1>3, Zenon
    <3> QED BY <2>1, <3>1, <3>2, <3>3, ExactStep
  <2>8. Built(u) /\ Missing(u) /\ Answers(u)
    BY <1>2, <1>4, <2>1, Zenon DEF Built, Missing, Answers, Lacks
  <2> QED BY <2>7, <2>8
<1>10. Fits(c, r, u, ok)
  BY <1>2, <1>4, <1>5, <1>6, <1>9, FitsBy, Zenon
<1>11. TagsInv'
  BY <1>3, <1>6 DEF TagsInv
<1>12. DangInv'
  <2>1. ~Rewriting(r) /\ Held(u)'
    BY <1>2, <1>4, Zenon DEF Rewriting, Held
  <2>2. Doc \in Vers
    BY VersAreNat
  <2>3. ~broken' => DigestsOf(row'[Doc]) = {}
    BY <1>3, <1>7, <1>8
  <2> QED BY <1>2, <1>8, <2>1, <2>2, <2>3, DangPut, Zenon DEF StoreInv
<1>13. blob' \subseteq Digests /\ blamed' \subseteq Digests
  BY <1>2, Zenon DEF StoreInv, TypeOK
<1> QED BY <1>8, <1>10, <1>11, <1>12, <1>13, WriteKeeps

LEMMA DropKeeps ==
    ASSUME StoreInv, Unname, NEW c \in Clients, Drop(c)
    PROVE  StoreInv'
<1>1. PICK ok, r, u :
         /\ Moves(c, r, u, ok) /\ Asked(r, u) /\ Kind(r, u) /\ UNCHANGED <<blob, blamed>>
         /\ r.flow \in {"remove", "drop"} /\ r.pc = "drop"
         /\ u.row = r.row /\ u.todo = r.todo /\ u.out = r.out
         /\ Advanced(r, u, IF r.flow = "remove" THEN "load" ELSE "drop")
         /\ Puts(ok, r.ver, NoRow)
  BY DropDoes DEF StoreInv
<1>2. /\ r \in Request /\ u \in Request /\ r = req[c] /\ r # Idle /\ Formed(r) /\ ok \in BOOLEAN
      /\ u.clean => ok /\ r.clean /\ Exact(r) /\ Built(r) /\ Missing(r) /\ Answers(r)
      /\ UNCHANGED <<format, gc>> /\ (broken => broken') /\ (ok \/ broken')
  <2>1. Moves(c, r, u, ok)
    BY <1>1
  <2> QED BY <2>1, Before
<1>3. /\ u.flow = r.flow /\ u.source = r.source /\ u.file = r.file /\ u.data = r.data /\ u.note = r.note
      /\ u.add = r.add /\ u.aim = r.aim /\ u.before = r.before
  BY <1>1 DEF Asked, Kind
<1>4. /\ r.flow # "remove" => ~r.tail
      /\ r.tail => Doc \in r.aim
      /\ r.ver \in r.aim /\ r.vers \subseteq r.aim /\ r.ver \in Vers /\ r.flow \in Writing
  BY <1>1, <1>2, RequestTypes DEF Formed, WalkFits, Here, Writing
<1>5. \/ u.pc \in {"load", "drop"} /\ u.ver \in r.vers /\ u.vers = r.vers \ {u.ver} /\ u.tail = r.tail
      \/ r.vers = {} /\ r.tail /\ u.pc = "drop" /\ u.ver = Doc /\ u.vers = {} /\ ~u.tail
      \/ r.vers = {} /\ ~r.tail /\ u.pc = "done" /\ u.ver = r.ver /\ u.vers = {} /\ ~u.tail
  BY <1>1 DEF Advanced
<1>6. Formed(u)
  <2>1. WalkFits(u)
    BY <1>1, <1>2, <1>3, <1>4, <1>5 DEF Formed, WalkFits, Here, Walking, Numbered
  <2>2. FileFits(u) /\ NoteFits(u) /\ ImageFits(u)
    BY <1>1, <1>2, <1>3, Zenon DEF Formed, FileFits, NoteFits, ImageFits, OnImages, OnFiles
  <2> QED BY <2>1, <2>2 DEF Formed
<1>7. /\ row' \in [Vers -> Row \cup {NoRow}] /\ dirty' \subseteq Vers
      /\ row'[r.ver] = (IF ok THEN NoRow ELSE row[r.ver]) /\ \A v \in Vers \ {r.ver} : row'[v] = row[v]
      /\ DocInv' /\ GcInv' /\ ImageRows'
  <2> DEFINE v == r.ver
             x == NoRow
  <2>1. v \in Vers /\ x \in Row \cup {NoRow} /\ DigestsOf(x) = {} /\ x = NoRow
    BY <1>4 DEF DigestsOf
  <2>2. Puts(ok, v, x) /\ ok \in BOOLEAN /\ UNCHANGED <<gc, format>>
    BY <1>1, <1>2
  <2>3. TypeOK /\ DocInv /\ GcInv /\ ImageRows
    BY DEF StoreInv
  <2> HIDE DEF v, x
  <2>4. /\ row' \in [Vers -> Row \cup {NoRow}] /\ dirty' \subseteq Vers
        /\ row'[v] = (IF ok THEN x ELSE row[v]) /\ \A w \in Vers \ {v} : row'[w] = row[w]
        /\ DocInv' /\ GcInv' /\ ImageRows'
    BY ONLY <2>1, <2>2, <2>3, PutsOne
  <2> QED BY <2>4 DEF v, x
<1>8. ASSUME u.clean PROVE Exact(u)' /\ Built(u) /\ Missing(u) /\ Answers(u)
  <2>1. ok /\ Exact(r)
    BY <1>2, <1>8
  <2>2. Promised(r, r.ver) = NoRow
    BY <1>1, <1>2, <1>4, PromisedOther
  <2>3. /\ Pending(r) = {r.ver} \cup r.vers \cup (IF r.tail THEN {Doc} ELSE {})
        /\ Pending(u) = (IF u.pc = "done" THEN {} ELSE {u.ver} \cup u.vers \cup (IF u.tail THEN {Doc} ELSE {}))
    BY <1>1, <1>3, <1>5 DEF Pending, Here
  <2>4. Pending(u) \subseteq Pending(r) /\ Pending(r) \subseteq Pending(u) \cup {r.ver}
    BY <1>5, <2>3
  <2>5. Exact(u)'
    <3>1. ASSUME NEW v \in Vers
          PROVE
              \/ /\ row'[v] = row[v] /\ (v \in Pending(u) => v \in Pending(r))
                 /\ v \in Pending(r) => v \in Pending(u) \/ row[v] = Promised(r, v)
              \/ /\ row'[v] = Promised(r, v)
                 /\ v \notin Pending(u) \/ (r.flow \in {"remove", "drop", "image"} /\ u.pc # "list")
      <4>1. CASE v = r.ver
        BY <1>1, <1>5, <1>7, <2>1, <2>2, <4>1
      <4>2. CASE v # r.ver
        BY <1>7, <2>4, <4>2
      <4> QED BY <4>1, <4>2
    <3>2. u.pc # "list" /\ r.flow \notin OneVersion /\ u.row = r.row
      BY <1>1, <1>5 DEF OneVersion
    <3>3. r \in Request /\ u \in Request /\ Asked(r, u) /\ Kind(r, u)
      BY <1>1, <1>2
    <3> QED BY <2>1, <3>1, <3>2, <3>3, ExactStep
  <2>6. Built(u) /\ Missing(u) /\ Answers(u)
    BY <1>1, <1>3, Zenon DEF Built, Missing, Answers
  <2> QED BY <2>5, <2>6
<1>9. Fits(c, r, u, ok)
  BY <1>1, <1>3, <1>6, <1>4, <1>8, FitsBy
<1>10. TagsInv'
  <2>1. ~Puttings(r) /\ ~Puttings(u)
    BY <1>1, <1>3 DEF Puttings
  <2>2. \A v \in References : row'[v] = row[v] \/ row'[v] = NoRow
    BY <1>7 DEF Vers
  <2> QED BY <1>1, <1>7, <2>1, <2>2, TagsStep DEF StoreInv
<1>11. DangInv'
  <2>1. Held(u)'
    BY <1>1, <1>3 DEF Held
  <2>2. ~broken' => DigestsOf(row'[r.ver]) = {}
    BY <1>2, <1>7 DEF DigestsOf
  <2> QED BY <1>1, <1>4, <1>7, <2>1, <2>2, DangPut DEF StoreInv
<1>12. blob' \subseteq Digests /\ blamed' \subseteq Digests
  BY <1>1 DEF StoreInv, TypeOK
<1> QED BY <1>7, <1>9, <1>10, <1>11, <1>12, WriteKeeps

LEMMA SaveKeeps ==
    ASSUME StoreInv, Unname, NEW c \in Clients, Save(c)
    PROVE  StoreInv'
<1>1. PICK ok, r, u, kept :
         /\ Moves(c, r, u, ok) /\ Asked(r, u) /\ Kind(r, u) /\ UNCHANGED blob
         /\ r.flow \in {"overwrite", "merge", "prune", "edit", "tag", "amend"} /\ r.pc = "save"
         /\ u.row = r.row /\ u.todo = r.todo /\ u.out = r.out
         /\ \/ r.flow = "prune" /\ u.pc = "cull" /\ Walk(r, u)
            \/ Advanced(r, u, "load")
         /\ kept = (IF r.flow = "prune" /\ r.row.files = {} THEN NoRow ELSE r.row)
         /\ Puts(ok, r.ver, kept)
         /\ blamed' = (IF ok THEN blamed \cup Revived(r) ELSE blamed)
  BY SaveDoes DEF StoreInv
<1>2. /\ r \in Request /\ u \in Request /\ r = req[c] /\ r # Idle /\ Formed(r) /\ ok \in BOOLEAN
      /\ u.clean => ok /\ r.clean /\ Exact(r) /\ Built(r) /\ Missing(r) /\ Answers(r)
      /\ UNCHANGED <<format, gc>> /\ (broken => broken') /\ (ok \/ broken')
  <2>1. Moves(c, r, u, ok)
    BY <1>1
  <2> QED BY <2>1, Before
<1>3. /\ u.flow = r.flow /\ u.source = r.source /\ u.file = r.file /\ u.data = r.data /\ u.note = r.note
      /\ u.add = r.add /\ u.aim = r.aim /\ u.before = r.before
  BY <1>1 DEF Asked, Kind
<1>4. /\ ~r.tail /\ (r.flow # "amend" => r.vers = {}) /\ format # "oci"
      /\ r.ver \in Vers /\ r.ver \notin r.vers /\ r.flow \in Writing
      /\ r.flow = "amend" => r.note \in Notes /\ r.ver \in r.aim /\ r.vers \subseteq r.aim
      /\ r.flow \in {"edit", "tag"} => r.ver = Doc /\ r.note \in Notes
      /\ r.flow \notin {"edit", "tag"} => r.ver # Doc /\ Doc \notin r.vers
      /\ DigestsOf(kept) = {} \/ r.ver # Doc
  <2>1. Formed(r) /\ r.ver \in Vers
    BY <1>2, RequestTypes
  <2>2. /\ ~r.tail /\ (r.flow # "amend" => r.vers = {}) /\ r.ver \notin r.vers
        /\ r.flow = "amend" => r.ver \in r.aim /\ r.vers \subseteq r.aim
        /\ r.flow \notin {"edit", "tag"} => r.ver # Doc /\ Doc \notin r.vers
    <3>1. WalkFits(r)
      BY <2>1 DEF Formed
    <3>2. CASE r.flow \in {"edit", "overwrite", "merge", "prune"}
      BY <1>1, <3>1, <3>2 DEF WalkFits, Here, Walking, Numbered
    <3>3. CASE r.flow = "tag"
      BY <1>1, <3>1, <3>3 DEF WalkFits
    <3>4. CASE r.flow = "amend"
      BY <1>1, <3>1, <3>4 DEF WalkFits, Here, Numbered
    <3> QED BY <1>1, <3>2, <3>3, <3>4
  <2>3. /\ r.flow = "amend" => r.note \in Notes
        /\ r.flow \in {"edit", "tag"} => r.ver = Doc /\ r.note \in Notes /\ r.row.files = {}
    BY <2>1, Zenon DEF Formed, NoteFits
  <2>4. format # "oci" /\ r.flow \in Writing
    BY <1>1, <2>1 DEF Formed, ImageFits, OnFiles, Writing
  <2>5. r.flow \in {"edit", "tag"} => DigestsOf(kept) = {}
    BY <1>1, <2>3 DEF DigestsOf
  <2> QED BY <1>1, <2>1, <2>2, <2>3, <2>4, <2>5
<1>5. \/ r.flow = "prune" /\ u.pc = "cull" /\ u.ver = r.ver /\ u.vers = r.vers /\ u.tail = r.tail
      \/ r.flow = "amend" /\ u.pc = "load" /\ u.ver \in r.vers /\ u.vers = r.vers \ {u.ver} /\ ~u.tail
      \/ r.vers = {} /\ u.pc = "done" /\ u.ver = r.ver /\ u.vers = {} /\ ~u.tail
  BY <1>1, <1>4 DEF Advanced, Walk
<1>6. Formed(u)
  <2>1. WalkFits(u)
    BY <1>1, <1>3, <1>4, <1>5 DEF WalkFits, Here, Walking, Numbered
  <2>2. FileFits(u) /\ NoteFits(u) /\ ImageFits(u)
    BY <1>1, <1>2, <1>3, <1>4, <1>5, Zenon DEF Formed, FileFits, NoteFits, ImageFits, OnImages, OnFiles
  <2> QED BY <2>1, <2>2 DEF Formed
<1>7. /\ row' \in [Vers -> Row \cup {NoRow}] /\ dirty' \subseteq Vers
      /\ row'[r.ver] = (IF ok THEN kept ELSE row[r.ver]) /\ \A v \in Vers \ {r.ver} : row'[v] = row[v]
      /\ DocInv' /\ GcInv' /\ ImageRows'
  <2> DEFINE v == r.ver
  <2>1. v \in Vers /\ kept \in Row \cup {NoRow} /\ (DigestsOf(kept) = {} \/ v # Doc)
    BY <1>1, <1>2, <1>4, RequestTypes
  <2>2. Puts(ok, v, kept) /\ ok \in BOOLEAN /\ UNCHANGED <<gc, format>> /\ format # "oci"
    BY <1>1, <1>2, <1>4
  <2>3. TypeOK /\ DocInv /\ GcInv /\ ImageRows
    BY DEF StoreInv
  <2> HIDE DEF v
  <2>4. /\ row' \in [Vers -> Row \cup {NoRow}] /\ dirty' \subseteq Vers
        /\ row'[v] = (IF ok THEN kept ELSE row[v]) /\ \A w \in Vers \ {v} : row'[w] = row[w]
        /\ DocInv' /\ GcInv' /\ ImageRows'
    BY ONLY <2>1, <2>2, <2>3, PutsOne
  <2> QED BY <2>4 DEF v
<1>8. ASSUME u.clean PROVE Exact(u)' /\ Built(u) /\ Missing(u) /\ Answers(u)
  <2>1. ok /\ Exact(r) /\ Built(r)
    BY <1>2, <1>8
  <2>2. kept = Promised(r, r.ver)
    BY <1>1, <2>1 DEF Built
  <2>3. /\ r.flow \in {"overwrite", "edit", "tag", "prune"} => Pending(r) = Vers /\ Pending(u) = {}
        /\ r.flow = "merge" => Pending(r) = Vers \ {Doc} /\ Pending(u) = {}
        /\ r.flow = "amend" => Pending(r) = {r.ver} \cup r.vers /\ Pending(u) = r.vers
    <3>1. CASE r.flow \in {"overwrite", "edit", "tag"}
      BY <1>1, <1>3, <1>5, <3>1 DEF Pending
    <3>2. CASE r.flow = "prune"
      BY <1>1, <1>3, <1>5, <3>2 DEF Pending
    <3>3. CASE r.flow = "merge"
      BY <1>1, <1>3, <1>5, <3>3 DEF Pending
    <3>4. CASE r.flow = "amend"
      BY <1>1, <1>3, <1>5, <3>4 DEF Pending, Here
    <3> QED BY <1>1, <3>1, <3>2, <3>3, <3>4
  <2>4. \A w \in Pending(r) \cap Vers : row[w] = r.before[w]
    BY <1>1, <2>1 DEF Exact
  <2>5. ASSUME r.flow # "amend" PROVE \A w : w # r.ver /\ (r.flow = "merge" => w # Doc) => Promised(r, w) = r.before[w]
    <3>1. r \in Request
      BY <1>2
    <3>2. CASE r.flow = "overwrite"
      BY <3>1, <3>2, PromisedOverwrite
    <3>3. CASE r.flow = "merge"
      BY <3>1, <1>4, <3>3, PromisedMerge, Zenon
    <3>4. CASE r.flow = "prune"
      BY <3>1, <3>4, PromisedPrune
    <3>5. CASE r.flow = "edit"
      BY <3>1, <1>4, <3>5, PromisedEdit, Zenon
    <3>6. CASE r.flow = "tag"
      BY <3>1, <3>6, PromisedTag
    <3> QED BY <1>1, <2>5, <3>2, <3>3, <3>4, <3>5, <3>6
  <2>6. Exact(u)'
    <3>1. ASSUME NEW w \in Vers
          PROVE
              \/ /\ row'[w] = row[w] /\ (w \in Pending(u) => w \in Pending(r))
                 /\ w \in Pending(r) => w \in Pending(u) \/ row[w] = Promised(r, w)
              \/ /\ row'[w] = Promised(r, w)
                 /\ w \notin Pending(u) \/ (r.flow \in {"remove", "drop", "image"} /\ u.pc # "list")
      <4>1. CASE w = r.ver
        <5>1. row'[w] = Promised(r, w)
          BY <1>7, <2>1, <2>2, <4>1
        <5>2. w \notin Pending(u)
          BY <1>1, <1>4, <2>3, <4>1
        <5> QED BY <5>1, <5>2
      <4>2. CASE w # r.ver
        <5>1. row'[w] = row[w] /\ (w \in Pending(u) => w \in Pending(r))
          BY <1>1, <1>7, <2>3, <4>2
        <5>2. CASE r.flow = "amend"
          BY <2>3, <4>2, <5>1, <5>2
        <5>3. CASE r.flow # "amend"
          <6>1. w \in Pending(r) => row[w] = r.before[w] /\ (r.flow = "merge" => w # Doc)
            BY <2>3, <2>4
          <6> QED BY <2>5, <4>2, <5>1, <5>3, <6>1
        <5> QED BY <5>2, <5>3
      <4> QED BY <4>1, <4>2
    <3>2. u.pc # "list" /\ u.row = r.row /\ (u.ver = r.ver \/ r.flow \notin OneVersion)
      BY <1>1, <1>5 DEF OneVersion
    <3>3. r \in Request /\ u \in Request /\ Asked(r, u) /\ Kind(r, u)
      BY <1>1, <1>2
    <3> QED BY <2>1, <3>1, <3>2, <3>3, ExactStep
  <2>7. Built(u) /\ Missing(u) /\ Answers(u)
    BY <1>1, <1>3, <1>5, Zenon DEF Built, Missing, Answers
  <2> QED BY <2>6, <2>7
<1>9. Fits(c, r, u, ok)
  BY <1>1, <1>3, <1>6, <1>4, <1>8, FitsBy
<1>10. TagsInv'
  BY <1>2, <1>4 DEF TagsInv
<1>11. DangInv'
  <2>1. Held(u)'
    BY <1>1, <1>3, <1>5 DEF Held
  <2>2. ASSUME ~broken', ~broken PROVE DigestsOf(row'[r.ver]) \subseteq blob' \cup blamed'
    <3>1. ok /\ row'[r.ver] = kept /\ blamed' = blamed \cup Revived(r) /\ blob' = blob
      BY <1>1, <1>2, <1>7, <2>2
    <3>2. Held(r)
      BY <1>2, <1>4, <2>2 DEF StoreInv, DangInv
    <3>3. r.row # NoRow /\ r.row \in Row
      BY <1>2, RequestTypes, NullAssumption
    <3>4. DigestsOf(kept) \subseteq DigestsOf(r.row)
      BY <1>1 DEF DigestsOf
    <3>5. DigestsOf(r.row) \subseteq Digests
      <4>1. r.row.files \subseteq File
        BY <3>3, RowFields
      <4> QED BY <3>3, <4>1 DEF DigestsOf, File
    <3>6. CASE r.flow = "overwrite"
      BY <1>1, <3>1, <3>2, <3>4, <3>6 DEF Held
    <3>7. CASE r.flow \in {"merge", "prune", "amend"} /\ r.clean
      BY <1>1, <3>1, <3>2, <3>4, <3>7 DEF Held
    <3>8. CASE r.flow \in {"merge", "prune", "amend"} /\ ~r.clean
      <4>1. Revived(r) = DigestsOf(r.row) \ (blob \cup {r.data})
        BY <3>8 DEF Revived
      <4>2. r.data \in blob \cup blamed \cup {NoData}
        BY <1>1, <1>2, <3>2, <3>8 DEF Held, Formed, FileFits
      <4>3. NoData \notin Digests
        BY ConstAssumption
      <4> QED BY <3>1, <3>4, <3>5, <4>1, <4>2, <4>3
    <3>9. CASE r.flow \in {"edit", "tag"}
      BY <1>4, <3>1, <3>9
    <3> QED BY <1>1, <3>6, <3>7, <3>8, <3>9
  <2>3. \A w \in Vers \ {r.ver} : row'[w] = row[w] /\ (Rewriting(r) => r.ver # w)
    BY <1>7
  <2>4. blob \cup blamed \subseteq blob' \cup blamed'
    BY <1>1
  <2>5. TypeOK /\ DangInv /\ r.ver \in Vers /\ Moves(c, r, u, ok)
    BY <1>1, <1>4 DEF StoreInv
  <2> QED BY <2>1, <2>2, <2>3, <2>4, <2>5, DangPut
<1>12. blob' \subseteq Digests /\ blamed' \subseteq Digests
  <2>1. Revived(r) \subseteq Digests
    <3>1. r.row.files \subseteq File
      BY <1>2, RequestTypes, RowFields
    <3> QED BY <3>1 DEF Revived, DigestsOf, File
  <2> QED BY <1>1, <2>1 DEF StoreInv, TypeOK
<1> QED BY <1>7, <1>9, <1>10, <1>11, <1>12, WriteKeeps

LEMMA WipeKeeps ==
    ASSUME StoreInv, Unname, NEW c \in Clients, Wipe(c)
    PROVE  StoreInv'
<1>1. PICK ok, r, u :
         /\ Moves(c, r, u, ok) /\ Asked(r, u) /\ Kind(r, u) /\ Walk(r, u)
         /\ UNCHANGED <<blob, blamed>>
         /\ r.flow = "wipe" /\ r.pc = "drop" /\ u.pc = "done"
         /\ u.row = r.row /\ u.todo = r.todo /\ u.out = r.out
         /\ IF ok THEN /\ row' = [v \in Vers |-> NoRow]
                       /\ dirty' = (IF gc.pc = "idle" THEN {} ELSE Vers)
                  ELSE UNCHANGED <<row, dirty>>
  BY WipeDoes DEF StoreInv
<1>2. /\ r \in Request /\ u \in Request /\ r = req[c] /\ r # Idle /\ Formed(r) /\ ok \in BOOLEAN
      /\ u.clean => ok /\ r.clean /\ Exact(r) /\ Built(r) /\ Missing(r) /\ Answers(r)
      /\ UNCHANGED <<format, gc>> /\ (broken => broken') /\ (ok \/ broken')
  <2>1. Moves(c, r, u, ok)
    BY <1>1
  <2> QED BY <2>1, Before
<1>3. /\ u.flow = r.flow /\ u.source = r.source /\ u.file = r.file /\ u.data = r.data /\ u.note = r.note
      /\ u.add = r.add /\ u.aim = r.aim /\ u.before = r.before
      /\ u.ver = r.ver /\ u.vers = r.vers /\ u.tail = r.tail
  BY <1>1 DEF Asked, Kind, Walk
<1>4. Formed(u)
  BY <1>1, <1>2, <1>3, Zenon DEF Formed, WalkFits, FileFits, NoteFits, ImageFits, Here, Walking, OnImages, OnFiles, Numbered
<1>5. r.flow \in Writing
  BY <1>1 DEF Writing
<1>6. (ok => \A v \in Vers : row'[v] = NoRow) /\ (~ok => UNCHANGED <<row, dirty>>)
  BY <1>1
<1>7. row' \in [Vers -> Row \cup {NoRow}] /\ dirty' \subseteq Vers /\ DocInv' /\ GcInv' /\ ImageRows'
  <2>1. CASE ok
    <3>1. row' \in [Vers -> Row \cup {NoRow}] /\ dirty' \subseteq Vers
      BY <1>1, <2>1
    <3>2. DocInv'
      BY <1>6, <2>1, VersAreNat DEF DocInv, DigestsOf
    <3>3. GcInv'
      BY <1>1, <1>2, <2>1 DEF GcInv
    <3>4. ImageRows'
      BY <1>6, <2>1 DEF ImageRows
    <3> QED BY <3>1, <3>2, <3>3, <3>4
  <2>2. CASE ~ok
    BY <1>2, <1>6, <2>2, RowsStay DEF StoreInv, TypeOK
  <2> QED BY <1>2, <2>1, <2>2
<1>8. ASSUME u.clean PROVE Exact(u)' /\ Built(u) /\ Missing(u) /\ Answers(u)
  <2>1. ok /\ Exact(r)
    BY <1>2, <1>8
  <2>2. Pending(u) = {} /\ \A w : Promised(r, w) = NoRow
    BY <1>1, <1>2, <1>3, PromisedOther DEF Pending
  <2>3. Exact(u)'
    <3>1. u.row = r.row /\ u.pc # "list" /\ u.ver = r.ver
      BY <1>1, <1>3
    <3>2. r \in Request /\ u \in Request /\ Asked(r, u) /\ Kind(r, u)
      BY <1>1, <1>2
    <3> QED BY <1>6, <2>1, <2>2, <3>1, <3>2, ExactStep
  <2>4. Built(u) /\ Missing(u) /\ Answers(u)
    BY <1>1, <1>3 DEF Built, Missing, Answers
  <2> QED BY <2>3, <2>4
<1>9. Fits(c, r, u, ok)
  BY <1>1, <1>3, <1>4, <1>5, <1>8, FitsBy
<1>10. TagsInv'
  <2>1. ~Puttings(r) /\ ~Puttings(u)
    BY <1>1, <1>3 DEF Puttings
  <2>2. \A v \in References : row'[v] = row[v] \/ row'[v] = NoRow
    BY <1>2, <1>6 DEF Vers
  <2> QED BY <1>1, <1>7, <2>1, <2>2, TagsStep DEF StoreInv
<1>11. DangInv'
  <2>1. Held(u)' /\ ~Rewriting(r)
    BY <1>1, <1>3 DEF Held, Rewriting
  <2> DEFINE L == {}
  <2>2. (\A S : L \cap S = {}) /\ blob \cup blamed \subseteq blob' \cup blamed' \cup L
    BY <1>1
  <2> HIDE DEF L
  <2>3. \A w \in Vers : ~broken' => DigestsOf(row'[w]) = {}
    BY <1>2, <1>6 DEF DigestsOf
  <2>4. format # "oci" /\ ~broken' /\ ~broken =>
             /\ blob \cup blamed \subseteq blob' \cup blamed' \cup L
             /\ Held(u)'
             /\ \A w \in Vers : \/ DigestsOf(row'[w]) \subseteq blob' \cup blamed'
                                \/ /\ row'[w] = row[w]
                                   /\ Rewriting(r) /\ r.ver = w => Rewriting(u) /\ u.ver = w
                                   /\ L \cap DigestsOf(row[w]) # {} => Rewriting(u) /\ u.ver = w
             /\ \A d \in Clients \ {c} : req[d] # Idle => L \cap (DigestsOf(req[d].row) \cup {req[d].data}) = {}
    BY <2>1, <2>2, <2>3
  <2>5. TypeOK /\ DangInv /\ c \in Clients /\ Moves(c, r, u, ok)
    BY <1>1 DEF StoreInv
  <2> QED BY ONLY <2>4, <2>5, DangStep
<1>12. blob' \subseteq Digests /\ blamed' \subseteq Digests
  BY <1>1 DEF StoreInv, TypeOK
<1> QED BY <1>7, <1>9, <1>10, <1>11, <1>12, WriteKeeps

LEMMA PutImageKeeps ==
    ASSUME StoreInv, Unname, NEW c \in Clients, PutImage(c)
    PROVE  StoreInv'
<1>1. PICK ok, r, u :
         /\ Moves(c, r, u, ok) /\ Asked(r, u) /\ Kind(r, u) /\ UNCHANGED <<blob, blamed>>
         /\ r.flow = "image" /\ r.pc = "save" /\ u.row = r.row /\ u.todo = r.todo
         /\ \/ ~ok /\ u.pc = "done" /\ Walk(r, u)
            \/ Advanced(r, u, "save")
         /\ Puts(ok, r.ver, r.row)
  BY PutImageDoes DEF StoreInv
<1>2. /\ r \in Request /\ u \in Request /\ r = req[c] /\ r # Idle /\ Formed(r) /\ ok \in BOOLEAN
      /\ u.clean => ok /\ r.clean /\ Exact(r) /\ Built(r) /\ Missing(r) /\ Answers(r)
      /\ UNCHANGED <<format, gc>> /\ (broken => broken') /\ (ok \/ broken')
  <2>1. Moves(c, r, u, ok)
    BY <1>1
  <2> QED BY <2>1, Before
<1>3. /\ u.flow = r.flow /\ u.source = r.source /\ u.file = r.file /\ u.data = r.data /\ u.note = r.note
      /\ u.add = r.add /\ u.aim = r.aim /\ u.before = r.before
  BY <1>1 DEF Asked, Kind
<1>4. PICK m \in Manifests :
         /\ r.note = Holds(m) /\ r.file = TheFile
         /\ r.row = [files |-> Layers, source |-> r.source, notes |-> {Holds(m)}]
         /\ Here(r) \subseteq References /\ Here(r) \cap Manifests \subseteq {m}
  BY <1>1, <1>2 DEF Formed, ImageFits
<1>5. /\ ~r.tail /\ Here(r) \subseteq r.aim /\ format = "oci" /\ r.flow \in Writing
      /\ r.ver \in Vers /\ r.ver # Doc /\ r.ver \in r.aim /\ Here(r) = {r.ver} \cup r.vers
      /\ r.row \in Row /\ r.row # NoRow
  BY <1>1, <1>2, <1>4, RequestTypes, NullAssumption DEF Formed, WalkFits, ImageFits, OnImages, Numbered, Here, Writing
<1>6. \/ ~ok /\ u.pc = "done" /\ u.ver = r.ver /\ u.vers = r.vers /\ ~u.tail
      \/ u.pc = "save" /\ u.ver \in r.vers /\ u.vers = r.vers \ {u.ver} /\ ~u.tail
      \/ r.vers = {} /\ u.pc = "done" /\ u.ver = r.ver /\ u.vers = {} /\ ~u.tail
  BY <1>1, <1>5 DEF Advanced, Walk
<1>7. Here(u) \subseteq Here(r)
  BY <1>6 DEF Here
<1>8. Formed(u)
  <2>1. WalkFits(u)
    BY <1>1, <1>2, <1>3, <1>6, <1>7 DEF Formed, WalkFits, Walking
  <2>2. FileFits(u) /\ NoteFits(u)
    BY <1>1, <1>3 DEF FileFits, NoteFits
  <2>3. ImageFits(u)
    BY <1>1, <1>3, <1>4, <1>5, <1>7 DEF ImageFits, OnImages, OnFiles
  <2> QED BY <2>1, <2>2, <2>3 DEF Formed
<1>9. /\ row' \in [Vers -> Row \cup {NoRow}] /\ dirty' \subseteq Vers
      /\ row'[r.ver] = (IF ok THEN r.row ELSE row[r.ver]) /\ \A v \in Vers \ {r.ver} : row'[v] = row[v]
      /\ DocInv' /\ GcInv' /\ ImageRows'
  <2> DEFINE v == r.ver
             x == r.row
  <2>1. v \in Vers /\ x \in Row \cup {NoRow} /\ v # Doc
    BY <1>5
  <2>2. Puts(ok, v, x) /\ ok \in BOOLEAN /\ UNCHANGED <<gc, format>>
    BY <1>1, <1>2
  <2>3. v \in References /\ x.files = Layers /\ x.notes = {Holds(m)} /\ (v \in Manifests => v = m)
    BY <1>4, <1>5
  <2>4. TypeOK /\ DocInv /\ GcInv /\ ImageRows
    BY DEF StoreInv
  <2> HIDE DEF v, x
  <2>5. /\ row' \in [Vers -> Row \cup {NoRow}] /\ dirty' \subseteq Vers
        /\ row'[v] = (IF ok THEN x ELSE row[v]) /\ \A w \in Vers \ {v} : row'[w] = row[w]
        /\ DocInv' /\ GcInv' /\ ImageRows'
    BY ONLY m \in Manifests, <2>1, <2>2, <2>3, <2>4, PutsOne
  <2> QED BY <2>5 DEF v, x
<1>10. ASSUME u.clean PROVE Exact(u)' /\ Built(u) /\ Missing(u) /\ Answers(u)
  <2>1. ok /\ Exact(r) /\ Missing(r)
    BY <1>2, <1>10
  <2>2. Promised(r, r.ver) = r.row
    <3>1. Promised(r, r.ver) = [files |-> r.row.files, source |-> r.source, notes |-> {r.note}]
      BY <1>1, <1>2, <1>5, PromisedOther
    <3>2. r.row.files = Layers
      BY <1>4
    <3> QED BY <1>4, <3>1, <3>2
  <2>3. /\ Pending(r) = {r.ver} \cup r.vers
        /\ Pending(u) = (IF u.pc = "done" THEN {} ELSE {u.ver} \cup u.vers)
    BY <1>1, <1>3 DEF Pending, Here
  <2>4. Pending(u) \subseteq Pending(r) /\ Pending(r) \subseteq Pending(u) \cup {r.ver}
    BY <1>6, <2>1, <2>3
  <2>5. Exact(u)'
    <3>1. ASSUME NEW v \in Vers
          PROVE
              \/ /\ row'[v] = row[v] /\ (v \in Pending(u) => v \in Pending(r))
                 /\ v \in Pending(r) => v \in Pending(u) \/ row[v] = Promised(r, v)
              \/ /\ row'[v] = Promised(r, v)
                 /\ v \notin Pending(u) \/ (r.flow \in {"remove", "drop", "image"} /\ u.pc # "list")
      <4>1. CASE v = r.ver
        BY <1>1, <1>9, <1>6, <2>1, <2>2, <4>1
      <4>2. CASE v # r.ver
        BY <1>9, <2>4, <4>2
      <4> QED BY <4>1, <4>2
    <3>2. u.pc # "list" /\ r.flow \notin OneVersion /\ u.row = r.row
      BY <1>1, <1>6 DEF OneVersion
    <3>3. r \in Request /\ u \in Request /\ Asked(r, u) /\ Kind(r, u)
      BY <1>1, <1>2
    <3> QED BY <2>1, <3>1, <3>2, <3>3, ExactStep
  <2>6. Missing(u)
    BY <1>1, <1>3, <1>7, <2>1 DEF Missing
  <2>7. Built(u) /\ Answers(u)
    BY <1>1, <1>3 DEF Built, Answers
  <2> QED BY <2>5, <2>6, <2>7
<1>11. Fits(c, r, u, ok)
  BY <1>1, <1>3, <1>8, <1>5, <1>10, FitsBy
<1>12. TagsInv'
  <2>1. Puttings(r) /\ u.note = r.note
    BY <1>1, <1>3 DEF Puttings
  <2>2. \A v \in References : row'[v] = row[v] \/ (v = r.ver /\ Puttings(r) /\ row'[v] = r.row)
    <3>1. \A v \in References : v \in Vers
      BY DEF Vers
    <3> QED BY <1>9, <2>1, <3>1
  <2>3. \A n \in Manifests : r.row.notes = {Holds(n)} => r.note = Holds(n)
    BY <1>4
  <2>4. ASSUME NEW n \in Manifests \cap Here(r) PROVE Named(n)' \/ (Puttings(u) /\ n \in Here(u))
    <3>1. CASE ~ok
      BY <1>2, <3>1 DEF Named
    <3>2. CASE ok /\ n = r.ver
      BY <1>5, <1>9, <3>2 DEF Named
    <3>3. CASE ok /\ n \in r.vers
      BY <1>1, <1>3, <1>6, <3>3 DEF Puttings, Here
    <3> QED BY <1>2, <1>5, <3>1, <3>2, <3>3
  <2>5. TypeOK /\ TagsInv /\ ImageRows' /\ Unname /\ c \in Clients /\ Moves(c, r, u, ok)
    BY <1>1, <1>9 DEF StoreInv
  <2> QED BY ONLY <2>1, <2>2, <2>3, <2>4, <2>5, TagsStep
<1>13. DangInv'
  BY <1>2, <1>5 DEF DangInv
<1>14. blob' \subseteq Digests /\ blamed' \subseteq Digests
  BY <1>1 DEF StoreInv, TypeOK
<1> QED BY <1>9, <1>11, <1>12, <1>13, <1>14, WriteKeeps

-----------------------------------------------------------------------------
(* The steps that store or delete a blob, and the end of a request. *)

\* A step that stores a blob, or nothing, and leaves the rows alone.
LEMMA AddKeeps ==
    ASSUME StoreInv, Unname, NEW c \in Clients, NEW r, NEW u, NEW ok, Fits(c, r, u, ok),
           UNCHANGED <<row, dirty>>, NEW b \in BOOLEAN, NEW d, b => d \in Digests, Adds(b, d),
           ~Puttings(r), ~Puttings(u), Rewriting(r) => Rewriting(u) /\ u.ver = r.ver,
           format # "oci" /\ ~broken' /\ ~broken => Held(u)'
    PROVE  StoreInv'
<1>1. Moves(c, r, u, ok) /\ UNCHANGED <<row, dirty, gc, format>>
  BY DEF Fits, Moves
<1>2. /\ blob' \subseteq Digests /\ blamed' \subseteq Digests
      /\ blob \cup blamed \subseteq blob' \cup blamed'
  BY DEF Adds, StoreInv, TypeOK
<1>3. DocInv' /\ GcInv' /\ ImageRows'
  BY <1>1, RowsStay DEF StoreInv
<1>4. TagsInv'
  <2>1. \A v \in References : row'[v] = row[v]
    BY <1>1
  <2> QED BY <1>1, <1>3, <2>1, TagsStep DEF StoreInv
<1>5. DangInv'
  <2> DEFINE L == {}
  <2>1. (\A S : L \cap S = {}) /\ blob \cup blamed \subseteq blob' \cup blamed' \cup L
    BY <1>2
  <2> HIDE DEF L
  <2>2. format # "oci" /\ ~broken' /\ ~broken =>
             /\ blob \cup blamed \subseteq blob' \cup blamed' \cup L
             /\ Held(u)'
             /\ \A w \in Vers : \/ DigestsOf(row'[w]) \subseteq blob' \cup blamed'
                                \/ /\ row'[w] = row[w]
                                   /\ Rewriting(r) /\ r.ver = w => Rewriting(u) /\ u.ver = w
                                   /\ L \cap DigestsOf(row[w]) # {} => Rewriting(u) /\ u.ver = w
             /\ \A x \in Clients \ {c} : req[x] # Idle => L \cap (DigestsOf(req[x].row) \cup {req[x].data}) = {}
    BY <1>1, <2>1
  <2>3. TypeOK /\ DangInv /\ c \in Clients /\ Moves(c, r, u, ok)
    BY <1>1 DEF StoreInv
  <2> QED BY ONLY <2>2, <2>3, DangStep
<1>6. row' \in [Vers -> Row \cup {NoRow}] /\ dirty' \subseteq Vers
  BY <1>1 DEF StoreInv, TypeOK
<1> QED BY <1>2, <1>3, <1>4, <1>5, <1>6, WriteKeeps

LEMMA FetchKeeps ==
    ASSUME StoreInv, Unname, NEW c \in Clients, Fetch(c)
    PROVE  StoreInv'
<1>1. PICK ok, r, u :
         /\ Moves(c, r, u, ok) /\ Asked(r, u) /\ Walk(r, u) /\ UNCHANGED <<row, dirty>>
         /\ r.flow \in {"serve", "head"} /\ r.pc = "fetch" /\ u.todo = r.todo
         /\ Adds(ok /\ r.data # NoData /\ r.keep, r.data)
         /\ \/ /\ Kind(r, u) /\ u.pc = "done" /\ u.row = r.row
               /\ Fetched(ok, r, u)
            \/ /\ ok /\ r.data # NoData
               /\ u.flow = r.store /\ r.store \in {"overwrite", "merge"} /\ u.source = "pull"
               /\ u.row.files = {} /\ u.row.source = "pull" /\ u.row.notes = {}
               /\ u.pc = (IF r.store = "merge" THEN "load" ELSE "blob")
  BY FetchDoes DEF StoreInv
<1>2. /\ r \in Request /\ u \in Request /\ r = req[c] /\ r # Idle /\ Formed(r) /\ ok \in BOOLEAN
      /\ u.clean => ok /\ r.clean /\ Exact(r) /\ Built(r) /\ Missing(r) /\ Answers(r)
      /\ UNCHANGED <<format, gc>> /\ (broken => broken') /\ (ok \/ broken')
  <2>1. Moves(c, r, u, ok)
    BY <1>1
  <2> QED BY <2>1, Before
<1>3. /\ u.file = r.file /\ u.data = r.data /\ u.note = r.note
      /\ u.add = r.add /\ u.aim = r.aim /\ u.before = r.before
      /\ u.ver = r.ver /\ u.vers = r.vers /\ u.tail = r.tail
  BY <1>1 DEF Asked, Walk
<1>4. \/ /\ u.flow = r.flow /\ u.source = r.source /\ u.pc = "done"
         /\ Fetched(ok, r, u)
      \/ /\ u.flow \in {"overwrite", "merge"} /\ u.source = "pull" /\ r.data # NoData
         /\ u.row.files = {} /\ u.row.source = "pull" /\ u.row.notes = {}
         /\ u.pc = (IF u.flow = "merge" THEN "load" ELSE "blob")
  BY <1>1 DEF Kind
<1>5. /\ r.vers = {} /\ ~r.tail /\ r.ver # Doc /\ r.ver \in Vers /\ r.note = NoData /\ format # "oci"
      /\ r.flow \in Writing
  BY <1>1, <1>2, RequestTypes, Zenon
     DEF Formed, WalkFits, NoteFits, ImageFits, OnFiles, Walking, Numbered, Here, Writing
<1>6. Formed(u)
  <2>1. WalkFits(u)
    BY <1>1, <1>3, <1>4, <1>5 DEF WalkFits, Here, Walking, Numbered
  <2>2. FileFits(u)
    BY <1>1, <1>3, <1>4 DEF FileFits, DigestsOf
  <2>3. NoteFits(u) /\ ImageFits(u)
    BY <1>1, <1>3, <1>4, <1>5, Zenon DEF NoteFits, ImageFits, OnImages, OnFiles
  <2> QED BY <2>1, <2>2, <2>3 DEF Formed
<1>7. ASSUME u.clean PROVE Exact(u)' /\ Built(u) /\ Missing(u) /\ Answers(u)
  <2>1. Exact(r) /\ Pending(r) = {} /\ Lacks(r)
    BY <1>1, <1>2, <1>7 DEF Pending, Missing
  <2>2. \A w \in Vers : row'[w] = u.before[w]
    BY <1>1, <1>2, <1>3, <2>1, PromisedOther DEF Exact
  <2>3. \A w \in Vers \ Pending(u) : Promised(u, w) = u.before[w]
    <3>1. CASE u.flow = r.flow
      BY <1>1, <1>2, <3>1, PromisedOther
    <3>2. CASE u.flow = "overwrite"
      BY <1>1, <1>4, <3>2 DEF Pending
    <3>3. CASE u.flow = "merge"
      <4>1. Vers \ Pending(u) = {Doc}
        BY <1>1, <1>4, <3>3, VersAreNat DEF Pending
      <4>2. u.ver # Doc /\ u.note = NoData /\ u \in Request
        BY <1>2, <1>3, <1>5
      <4>3. Promised(u, Doc) = u.before[Doc]
        BY <3>3, <4>2, PromisedMerge, Zenon
      <4> QED BY <4>1, <4>3
    <3> QED BY <1>4, <3>1, <3>2, <3>3
  <2>4. Exact(u)'
    <3> SUFFICES ASSUME NEW w \in Vers
                 PROVE  IF w \in Pending(u)
                        THEN \/ row'[w] = u.before[w]
                             \/ u.flow \in {"remove", "drop", "image"} /\ u.pc # "list" /\ row'[w] = Promised(u, w)
                        ELSE row'[w] = Promised(u, w)
      BY Zenon DEF Exact, Pending, Promised, Here
    <3> QED BY <2>2, <2>3
  <2>5. Built(u)
    BY <1>1, <1>4, Zenon DEF Built
  <2>6. Missing(u)
    BY <1>1, <1>3, <1>4, <2>1 DEF Missing, Lacks
  <2>7. Answers(u)
    <3>1. ok /\ Lacks(u)
      BY <1>2, <1>3, <1>7, <2>1 DEF Lacks
    <3>2. Served(u) = IF r.data = NoData THEN {} ELSE {<<r.ver, {r.data}>>}
      BY <1>3, <3>1, ServedIs
    <3> QED BY <1>1, <1>3, <1>4, <3>1, <3>2 DEF Answers, Fetched
  <2> QED BY <2>4, <2>5, <2>6, <2>7
<1>8. Fits(c, r, u, ok)
  <2>1. u.flow \in Writing
    BY <1>4, <1>5 DEF Writing
  <2> QED BY <1>1, <1>5, <1>6, <1>7, <2>1, FitsBy
<1>9. Held(u)' /\ ~Puttings(r) /\ ~Rewriting(r) /\ ~Puttings(u)
  BY <1>1, <1>4 DEF Held, Puttings, Rewriting
<1>10. PICK b \in BOOLEAN : Adds(b, r.data) /\ (b => r.data \in Digests)
  <2>1. r.data \in Digests \cup {NoData}
    BY <1>2, RequestTypes
  <2>2. (ok /\ r.data # NoData /\ r.keep) \in BOOLEAN
    OBVIOUS
  <2> QED BY <1>1, <2>1, <2>2
<1> QED BY <1>1, <1>8, <1>9, <1>10, AddKeeps

LEMMA LayerKeeps ==
    ASSUME StoreInv, Unname, NEW c \in Clients, StatBlob(c) \/ StoreBlob(c)
    PROVE  StoreInv'
<1>1. PICK ok, b, r, u :
         /\ Moves(c, r, u, ok) /\ Asked(r, u) /\ Kind(r, u) /\ Walk(r, u) /\ UNCHANGED <<row, dirty>>
         /\ r.flow = "layer" /\ u.row = r.row /\ u.todo = r.todo /\ u.pc \in {"blob", "done"}
         /\ Adds(b, r.data)
  BY LayerDoes DEF StoreInv
<1>2. /\ r \in Request /\ u \in Request /\ r = req[c] /\ r # Idle /\ Formed(r) /\ ok \in BOOLEAN
      /\ u.clean => ok /\ r.clean /\ Exact(r) /\ Built(r) /\ Missing(r) /\ Answers(r)
      /\ UNCHANGED <<format, gc>> /\ (broken => broken') /\ (ok \/ broken')
  <2>1. Moves(c, r, u, ok)
    BY <1>1
  <2> QED BY <2>1, Before
<1>3. /\ u.flow = r.flow /\ u.source = r.source /\ u.file = r.file /\ u.data = r.data /\ u.note = r.note
      /\ u.add = r.add /\ u.aim = r.aim /\ u.before = r.before
      /\ u.ver = r.ver /\ u.vers = r.vers /\ u.tail = r.tail
  BY <1>1 DEF Asked, Kind, Walk
<1>4. Formed(u)
  <2>1. WalkFits(u) /\ FileFits(u) /\ NoteFits(u)
    BY <1>1, <1>2, <1>3, Zenon DEF Formed, WalkFits, FileFits, NoteFits, Here, Walking, Numbered
  <2>2. ImageFits(u)
    BY <1>1, <1>2, <1>3 DEF Formed, ImageFits, Here, OnImages, OnFiles
  <2> QED BY <2>1, <2>2 DEF Formed
<1>5. r.data \in Digests /\ r.flow \in Writing
  BY <1>1, <1>2, RequestTypes DEF Formed, FileFits, Writing
<1>6. ASSUME u.clean PROVE Exact(u)' /\ Built(u) /\ Missing(u) /\ Answers(u)
  <2>1. Exact(r) /\ Pending(r) = {} /\ Pending(u) = {}
    BY <1>1, <1>2, <1>3, <1>6 DEF Pending
  <2>2. Exact(u)'
    <3>1. u.row = r.row /\ u.pc # "list" /\ u.ver = r.ver
      BY <1>1, <1>3
    <3>2. r \in Request /\ u \in Request /\ Asked(r, u) /\ Kind(r, u)
      BY <1>1, <1>2
    <3> QED BY <1>1, <2>1, <3>1, <3>2, ExactStep
  <2> QED BY <1>1, <1>3, <2>2 DEF Built, Missing, Answers
<1>7. Fits(c, r, u, ok)
  BY <1>1, <1>3, <1>4, <1>6, FitsBy
<1>8. Held(u)' /\ ~Puttings(r) /\ ~Rewriting(r) /\ ~Puttings(u)
  BY <1>1, <1>3 DEF Held, Puttings, Rewriting
<1>9. PICK e \in BOOLEAN : Adds(e, r.data)
  BY <1>1 DEF Adds
<1> QED BY <1>1, <1>5, <1>7, <1>8, <1>9, AddKeeps

LEMMA PutBlobKeeps ==
    ASSUME StoreInv, Unname, NEW c \in Clients, PutBlob(c)
    PROVE  StoreInv'
<1>1. Formed(req[c])
  BY DEF PutBlob, At, StoreInv, RequestInv
<1>2. PICK ok, r, u :
         /\ Moves(c, r, u, ok) /\ Asked(r, u) /\ Kind(r, u) /\ Walk(r, u) /\ UNCHANGED <<row, dirty>>
         /\ r.flow \in {"overwrite", "merge"} /\ r.pc = "blob" /\ u.out = r.out
         /\ r.data \in Digests /\ Adds(ok, r.data)
         /\ u.row.source = r.row.source /\ u.row.notes = r.row.notes
         /\ u.row.files = {f \in r.row.files : f.name # r.file}
                          \cup (IF ok THEN {[name |-> r.file, digest |-> r.data]} ELSE {})
         /\ u.todo = {f.digest : f \in Replaced(r)} \ {r.data}
         /\ u.pc = (IF u.todo = {} THEN "save" ELSE "cull")
  BY <1>1, PutBlobDoes DEF StoreInv
<1>3. /\ r \in Request /\ u \in Request /\ r = req[c] /\ r # Idle /\ Formed(r) /\ ok \in BOOLEAN
      /\ u.clean => ok /\ r.clean /\ Exact(r) /\ Built(r) /\ Missing(r) /\ Answers(r)
      /\ UNCHANGED <<format, gc>> /\ (broken => broken') /\ (ok \/ broken')
  <2>1. Moves(c, r, u, ok)
    BY <1>2
  <2> QED BY <2>1, Before
<1>4. /\ u.flow = r.flow /\ u.source = r.source /\ u.file = r.file /\ u.data = r.data /\ u.note = r.note
      /\ u.add = r.add /\ u.aim = r.aim /\ u.before = r.before
      /\ u.ver = r.ver /\ u.vers = r.vers /\ u.tail = r.tail
  BY <1>2 DEF Asked, Kind, Walk
<1>5. /\ r.data # NoData /\ format # "oci" /\ r.ver # Doc /\ r.ver \in Vers /\ r.flow \in Writing
      /\ r.flow = "overwrite" => r.row.files = {} /\ r.row.source = r.source /\ r.row.notes = {}
      /\ u.row \in Row /\ r.row \in Row
  BY <1>2, <1>3, RequestTypes, ConstAssumption
     DEF Formed, WalkFits, FileFits, ImageFits, OnFiles, Numbered, Here, Writing
<1>6. r.flow = "overwrite" => u.todo = {} /\ u.pc = "save"
  BY <1>2, <1>5 DEF Replaced
<1>7. DigestsOf(u.row) \subseteq DigestsOf(r.row) \cup {r.data} /\ (r.flow = "overwrite" => DigestsOf(r.row) = {})
  <2>1. u.row # NoRow /\ r.row # NoRow
    BY <1>5, NullAssumption
  <2> QED BY <1>2, <1>5, <2>1 DEF DigestsOf
<1>8. Formed(u)
  <2>1. WalkFits(u) /\ NoteFits(u) /\ ImageFits(u)
    BY <1>2, <1>3, <1>4, <1>5, Zenon DEF Formed, WalkFits, NoteFits, ImageFits, Here, Walking, Numbered, OnImages, OnFiles
  <2>2. FileFits(u)
    BY <1>2, <1>4, <1>5, <1>6, <1>7 DEF FileFits
  <2> QED BY <2>1, <2>2 DEF Formed
<1>9. ASSUME u.clean PROVE Exact(u)' /\ Built(u) /\ Missing(u) /\ Answers(u)
  <2>1. ok /\ Exact(r) /\ Missing(r) /\ Built(r)
    BY <1>3, <1>9
  <2>2. Pending(u) = Pending(r)
    BY <1>2, <1>4 DEF Pending
  <2>3. Exact(u)'
    <3>1. u.pc # "list" /\ u.ver = r.ver /\ r.flow # "image"
      BY <1>2, <1>4
    <3>2. r \in Request /\ u \in Request /\ Asked(r, u) /\ Kind(r, u)
      BY <1>2, <1>3
    <3> QED BY <1>2, <2>1, <2>2, <3>1, <3>2, ExactStep
  <2> DEFINE p == Promised(u, u.ver)
             N == [name |-> r.file, digest |-> r.data]
  <2>4. FileOf(u) = {N} /\ u \in Request /\ u.ver # Doc /\ u.data # NoData /\ u.file = r.file
    BY <1>3, <1>4, <1>5 DEF FileOf
  <2>5. u.row = p
    <3>1. CASE r.flow = "overwrite"
      <4>1. u.flow = "overwrite" /\ u.source = r.source
        BY <1>4, <3>1
      <4> HIDE DEF N
      <4>2. p \in Row /\ p.files = {N} /\ p.source = r.source /\ p.notes = {}
        BY <2>4, <4>1, PromisedOverwrite
      <4>3. u.row.files = {N} /\ u.row.source = r.source /\ u.row.notes = {}
        BY <1>2, <1>5, <2>1, <3>1 DEF N
      <4> HIDE DEF p
      <4> QED BY <1>5, <4>2, <4>3, SameRow
    <3>2. CASE r.flow = "merge"
      <4> DEFINE o == OrBlank(r.before[r.ver])
                 s == IF r.source = "" THEN o.source ELSE r.source
      <4>1. u.flow = "merge" /\ u.source = r.source /\ OrBlank(u.before[u.ver]) = o
        BY <1>4, <3>2
      <4>2. r.row.files = o.files /\ r.row.source = s /\ r.row.notes = o.notes
        <5>1. r.row = [o EXCEPT !.source = s]
          BY <1>2, <2>1, <3>2, Zenon DEF Built
        <5>2. o \in Row
          BY <1>3, <1>5, FoundTypes
        <5> HIDE DEF o, s
        <5> QED BY <5>1, <5>2 DEF Row
      <4> HIDE DEF o, N
      <4>3. /\ p \in Row /\ p.notes = o.notes /\ p.source = (IF u.source = "" THEN o.source ELSE u.source)
            /\ p.files = {f \in o.files : u.data = NoData \/ f.name # u.file} \cup {N}
        BY <2>4, <4>1, PromisedMerge, Zenon
      <4>4. p.files = {f \in o.files : f.name # r.file} \cup {N} /\ p.source = s
        BY <2>4, <4>1, <4>3, Zenon
      <4>5. u.row.files = {f \in o.files : f.name # r.file} \cup {N} /\ u.row.source = s /\ u.row.notes = o.notes
        BY <1>2, <2>1, <4>2, Zenon DEF N
      <4> HIDE DEF p, s
      <4> QED BY <1>5, <4>3, <4>4, <4>5, SameRow, Zenon
    <3> QED BY <1>2, <3>1, <3>2
  <2>6. Built(u)
    BY <1>2, <1>4, <2>5 DEF Built
  <2>7. Missing(u) /\ Answers(u)
    BY <1>2, <1>4, <2>1 DEF Missing, Answers, Lacks
  <2> QED BY <2>3, <2>6, <2>7
<1>10. Fits(c, r, u, ok)
  BY <1>2, <1>4, <1>8, <1>9, FitsBy
<1>11. ASSUME ~broken', ~broken PROVE Held(u)'
  <2>1. r.data \in blob' /\ blob \cup blamed \subseteq blob' \cup blamed'
    BY <1>2, <1>3, <1>11 DEF Adds
  <2>2. Held(r) /\ (u.clean => r.clean)
    BY <1>3, <1>5, <1>11 DEF StoreInv, DangInv
  <2>3. r.flow = "overwrite" \/ u.clean => DigestsOf(u.row) \subseteq blob' \cup blamed'
    BY <1>2, <1>7, <2>1, <2>2 DEF Held
  <2> QED BY <1>2, <1>4, <2>1, <2>3 DEF Held, DigestsOf
<1>12. ~Puttings(r) /\ ~Rewriting(r) /\ ~Puttings(u)
  BY <1>2, <1>4 DEF Puttings, Rewriting
<1>13. ok \in BOOLEAN /\ r.data \in Digests /\ Adds(ok, r.data) /\ UNCHANGED <<row, dirty>>
  BY <1>2, <1>3
<1> QED BY <1>10, <1>11, <1>12, <1>13, AddKeeps

LEMMA CullKeeps ==
    ASSUME StoreInv, Unname, NEW c \in Clients, Cull(c)
    PROVE  StoreInv'
<1>1. PICK ok, r, u, d :
         /\ Moves(c, r, u, ok) /\ Asked(r, u) /\ Kind(r, u) /\ Walk(r, u) /\ UNCHANGED <<row, dirty>>
         /\ r.flow \in {"remove", "merge", "prune", "unlink"} /\ r.pc = "cull"
         /\ u.row = r.row /\ u.out = r.out /\ d \in r.todo /\ d \in Digests /\ u.todo = r.todo \ {d}
         /\ \/ u.pc = "cull"
            \/ r.flow = "merge" /\ u.pc = "save"
            \/ r.flow = "remove" /\ u.pc = "drop"
            \/ r.flow \in {"prune", "unlink"} /\ u.pc = "done"
         /\ blob' = (IF ok THEN blob \ {d} ELSE blob)
         /\ blamed' = (IF ok /\ InUse(c, d) THEN blamed \cup {d} ELSE blamed)
  BY CullDoes DEF StoreInv
<1>2. /\ r \in Request /\ u \in Request /\ r = req[c] /\ r # Idle /\ Formed(r) /\ ok \in BOOLEAN
      /\ u.clean => ok /\ r.clean /\ Exact(r) /\ Built(r) /\ Missing(r) /\ Answers(r)
      /\ UNCHANGED <<format, gc>> /\ (broken => broken') /\ (ok \/ broken')
  <2>1. Moves(c, r, u, ok)
    BY <1>1
  <2> QED BY <2>1, Before
<1>3. /\ u.flow = r.flow /\ u.source = r.source /\ u.file = r.file /\ u.data = r.data /\ u.note = r.note
      /\ u.add = r.add /\ u.aim = r.aim /\ u.before = r.before
      /\ u.ver = r.ver /\ u.vers = r.vers /\ u.tail = r.tail
  BY <1>1 DEF Asked, Kind, Walk
<1>4. /\ r.flow = "merge" => r.data # d
      /\ r.flow = "unlink" => format = "oci"
      /\ r.flow \in Writing
  BY <1>1, <1>2 DEF Formed, FileFits, ImageFits, OnImages, Writing
<1>5. Formed(u)
  <2>1. WalkFits(u) /\ NoteFits(u)
    BY <1>1, <1>2, <1>3, Zenon DEF Formed, WalkFits, NoteFits, Here, Walking, Numbered
  <2>2. FileFits(u) /\ ImageFits(u)
    BY <1>1, <1>2, <1>3 DEF Formed, FileFits, ImageFits, OnImages, OnFiles
  <2> QED BY <2>1, <2>2 DEF Formed
<1>6. ASSUME u.clean PROVE Exact(u)' /\ Built(u) /\ Missing(u) /\ Answers(u)
  <2>1. Exact(r) /\ Missing(r) /\ Built(r)
    BY <1>2, <1>6
  <2>2. Pending(u) = Pending(r)
    BY <1>1, <1>3 DEF Pending, Here
  <2>3. u.pc # "list" /\ u.ver = r.ver /\ u.row = r.row
    BY <1>1, <1>3
  <2>4. r \in Request /\ u \in Request /\ Asked(r, u) /\ Kind(r, u)
    BY <1>1, <1>2
  <2>5. Exact(u)'
    BY <1>1, <2>1, <2>2, <2>3, <2>4, ExactStep
  <2>6. Promised(u, u.ver) = Promised(r, r.ver)
    BY <2>3, <2>4, PromisedSame
  <2>7. Built(u)
    BY <1>1, <1>3, <2>1, <2>6, Zenon DEF Built
  <2>8. Missing(u) /\ Answers(u)
    BY <1>1, <1>3, <2>1 DEF Missing, Answers, Lacks
  <2> QED BY <2>5, <2>7, <2>8
<1>7. Fits(c, r, u, ok)
  BY <1>1, <1>3, <1>5, <1>6, FitsBy
<1>8. /\ row' \in [Vers -> Row \cup {NoRow}] /\ dirty' \subseteq Vers
      /\ blob' \subseteq Digests /\ blamed' \subseteq Digests
      /\ DocInv' /\ GcInv' /\ ImageRows'
  <2>1. UNCHANGED <<row, dirty, gc, format>>
    BY <1>1, <1>2
  <2> QED BY <1>1, <2>1, RowsStay DEF StoreInv, TypeOK
<1>9. TagsInv'
  <2>1. ~Puttings(r) /\ ~Puttings(u)
    BY <1>1, <1>3 DEF Puttings
  <2>2. \A v \in References : row'[v] = row[v]
    BY <1>1
  <2> QED BY <1>1, <1>8, <2>1, <2>2, TagsStep DEF StoreInv
<1>10. DangInv'
  <2> DEFINE L == IF InUse(c, d) THEN {} ELSE {d}
  <2>1. L \subseteq {d} /\ (d \in L => ~InUse(c, d)) /\ (d \notin L => InUse(c, d))
    OBVIOUS
  <2>2. ASSUME format # "oci", ~broken', ~broken
        PROVE  /\ blob \cup blamed \subseteq blob' \cup blamed' \cup L
               /\ Held(u)'
               /\ \A w \in Vers : /\ row'[w] = row[w]
                                  /\ Rewriting(r) /\ r.ver = w => Rewriting(u) /\ u.ver = w
                                  /\ L \cap DigestsOf(row[w]) # {} => Rewriting(u) /\ u.ver = w
               /\ \A x \in Clients \ {c} : req[x] # Idle => L \cap (DigestsOf(req[x].row) \cup {req[x].data}) = {}
    <3>1. ok /\ blob' = blob \ {d} /\ (d \in L => blamed' = blamed) /\ (d \notin L => blamed' = blamed \cup {d})
      BY <1>1, <1>2, <2>1, <2>2
    <3> HIDE DEF L
    <3>2. blob \cup blamed \subseteq blob' \cup blamed' \cup L
      BY <2>1, <3>1
    <3>3. d \in L => /\ \A v \in Vers : d \in DigestsOf(row[v]) => v = r.ver /\ r.flow # "prune"
                     /\ r.flow = "merge" => d \notin DigestsOf(r.row)
                     /\ \A x \in Clients \ {c} : req[x] # Idle => req[x].data # d /\ d \notin DigestsOf(req[x].row)
      BY <1>2, <2>1 DEF InUse
    <3>4. Held(u)'
      <4>1. Held(r) /\ (u.clean => r.clean)
        BY <1>2, <2>2 DEF StoreInv, DangInv
      <4>2. r.flow = "merge" => r.data \in blob' \cup blamed' \cup {NoData}
        BY <1>1, <1>4, <3>1, <4>1 DEF Held
      <4>3. r.flow = "merge" /\ u.clean => DigestsOf(u.row) \subseteq blob' \cup blamed'
        BY <1>1, <2>1, <3>2, <3>3, <4>1 DEF Held
      <4> QED BY <1>1, <1>3, <4>2, <4>3 DEF Held, DigestsOf
    <3>5. r.flow \in {"remove", "merge"} => Rewriting(u)
      BY <1>1, <1>3 DEF Rewriting
    <3>6. Rewriting(r) => r.flow \in {"remove", "merge"}
      BY DEF Rewriting
    <3>7. ASSUME NEW w \in Vers
          PROVE  /\ row'[w] = row[w]
                 /\ Rewriting(r) /\ r.ver = w => Rewriting(u) /\ u.ver = w
                 /\ L \cap DigestsOf(row[w]) # {} => Rewriting(u) /\ u.ver = w
      BY <1>1, <1>3, <1>4, <2>1, <2>2, <3>3, <3>5, <3>6
    <3>8. \A x \in Clients \ {c} : req[x] # Idle => L \cap (DigestsOf(req[x].row) \cup {req[x].data}) = {}
      BY <2>1, <3>3
    <3> QED BY <3>2, <3>4, <3>7, <3>8
  <2>3. TypeOK /\ DangInv /\ c \in Clients /\ Moves(c, r, u, ok)
    BY <1>1 DEF StoreInv
  <2> HIDE DEF L
  <2>4. format # "oci" /\ ~broken' /\ ~broken =>
             /\ blob \cup blamed \subseteq blob' \cup blamed' \cup L
             /\ Held(u)'
             /\ \A w \in Vers : \/ DigestsOf(row'[w]) \subseteq blob' \cup blamed'
                                \/ /\ row'[w] = row[w]
                                   /\ Rewriting(r) /\ r.ver = w => Rewriting(u) /\ u.ver = w
                                   /\ L \cap DigestsOf(row[w]) # {} => Rewriting(u) /\ u.ver = w
             /\ \A x \in Clients \ {c} : req[x] # Idle => L \cap (DigestsOf(req[x].row) \cup {req[x].data}) = {}
    BY <2>2
  <2> QED BY ONLY <2>3, <2>4, DangStep
<1> QED BY <1>7, <1>8, <1>9, <1>10, WriteKeeps

-----------------------------------------------------------------------------
(* Steps in which no request goes on: the tasks of S end, the others wait. *)

LEMMA RestKeeps ==
    ASSUME StoreInv, TypeOK', NEW S \in SUBSET Clients,
           \A c \in Clients : req'[c] = IF c \in S THEN Idle ELSE req[c],
           UNCHANGED <<format, row>>, GcInv', broken => broken',
           \A m \in Manifests : Named(m) => Named(m)',
           \A c \in S : req[c] # Idle /\ req[c].flow \in Writing /\ req[c].pc # "done" => broken',
           NEW L, blob \cup blamed \subseteq blob' \cup blamed' \cup L,
           format # "oci" /\ ~broken' =>
              /\ \A v \in Vers : L \cap DigestsOf(row[v]) = {}
              /\ \A c \in Clients : req[c] # Idle => L \cap (DigestsOf(req[c].row) \cup {req[c].data}) = {}
    PROVE  StoreInv'
<1>1. \A c \in Clients : req'[c] # Idle => req'[c] = req[c] /\ req[c] # Idle
  OBVIOUS
<1>2. ASSUME NEW c \in Clients, req[c] # Idle, req[c].flow \in Writing, req[c].pc # "done"
      PROVE  broken' \/ req'[c] = req[c]
  BY <1>2
<1>3. RequestInv'
  <2>1. ASSUME NEW c \in Clients, req'[c] # Idle
        PROVE  Formed(req[c])' /\ (req'[c].clean => Progress(req[c])')
    <3>1. req'[c] = req[c] /\ Formed(req[c]) /\ (req[c].clean => Progress(req[c]))
      BY <1>1, <2>1 DEF StoreInv, RequestInv
    <3> QED BY <3>1, FormedStays, ProgressStays
  <2> QED BY <2>1 DEF RequestInv
<1>4. CleanInv'
  BY <1>1 DEF StoreInv, CleanInv
<1>5. DocInv' /\ ImageRows'
  BY DEF StoreInv, DocInv, ImageRows
<1>6. TagsInv'
  <2> SUFFICES ASSUME format = "oci" PROVE TagsInv'
    BY DEF TagsInv
  <2> DEFINE Put(m) == \E d \in Clients : req[d] # Idle /\ Puttings(req[d]) /\ m \in Here(req[d])
  <2>1. /\ \A d \in Clients : req[d] # Idle /\ Puttings(req[d]) =>
              \A m \in Manifests : req[d].note = Holds(m) => m \in Here(req[d]) \/ Named(m)
        /\ \A v \in References : \A m \in ManifestOf(OrBlank(row[v])) : Named(m) \/ Put(m)
    BY TagsNow DEF StoreInv
  <2>2. ASSUME NEW m \in Manifests, Put(m)
        PROVE  Named(m)' \/ Put(m)'
    <3>1. PICK d \in Clients : req[d] # Idle /\ Puttings(req[d]) /\ m \in Here(req[d])
      BY <2>2
    <3>2. req[d].flow \in Writing /\ req[d].pc # "done"
      BY <3>1 DEF Puttings, Writing
    <3>3. CASE broken'
      BY <3>3 DEF Named
    <3>4. CASE req'[d] = req[d]
      BY <3>1, <3>4
    <3> QED BY <1>2, <3>1, <3>2, <3>3, <3>4
  <2>3. ASSUME NEW v \in References, NEW m \in ManifestOf(OrBlank(row[v]))
        PROVE  (v \in Manifests => m = v) /\ (Named(m)' \/ Put(m)')
    <3>1. m \in Manifests /\ (v \in Manifests => m = v)
      BY DEF StoreInv, TagsInv, TagsResolve, ManifestOf
    <3>2. Named(m) \/ Put(m)
      BY <2>1
    <3> HIDE DEF Put
    <3> QED BY <2>2, <3>1, <3>2
  <2>4. TagsResolve'
    BY <2>3 DEF TagsResolve, Named, Puttings, At, Here
  <2>5. ASSUME NEW d \in Clients, At(d, {"image"}, "save")', NEW m \in Manifests, req'[d].note = Holds(m)
        PROVE  m \in Here(req'[d]) \/ Named(m)'
    <3>1. req'[d] = req[d] /\ req[d] # Idle /\ Puttings(req[d])
      BY <1>1, <2>5 DEF At, Puttings
    <3>2. m \in Here(req[d]) \/ Named(m)
      BY <2>1, <2>5, <3>1
    <3> QED BY <3>1, <3>2
  <2> QED BY <2>4, <2>5 DEF TagsInv, Named, Here
<1>7. DangInv'
  <2> SUFFICES ASSUME format # "oci", ~broken'
               PROVE  RowsHeld' /\ \A c \in Clients : req'[c] # Idle => Held(req[c])'
    BY DEF DangInv
  <2>1. RowsHeld /\ \A c \in Clients : req[c] # Idle => Held(req[c])
    BY DEF StoreInv, DangInv
  <2>2. ASSUME NEW c \in Clients, req'[c] # Idle PROVE Held(req[c])'
    <3>1. req'[c] = req[c] /\ req[c] # Idle /\ Held(req[c])
      BY <1>1, <2>1, <2>2
    <3> QED BY <3>1, HeldStays
  <2>3. ASSUME NEW v \in Vers, NEW d \in DigestsOf(row[v]) \ blob', d \notin blamed'
        PROVE  \E x \in Clients : req'[x] # Idle /\ req'[x].ver = v /\ Rewriting(req'[x])
    <3>1. d \notin L
      OBVIOUS
    <3>2. d \notin blob /\ d \notin blamed
      BY <2>3, <3>1
    <3>3. PICK x \in Clients : req[x] # Idle /\ req[x].ver = v /\ Rewriting(req[x])
      BY <2>1, <3>2 DEF RowsHeld, Rewriting
    <3>4. req'[x] = req[x]
      BY <1>2, <3>3 DEF Rewriting, Writing
    <3> QED BY <3>3, <3>4
  <2>4. RowsHeld'
    BY <2>3 DEF RowsHeld, Rewriting, DigestsOf
  <2> QED BY <2>2, <2>4
<1> QED BY <1>3, <1>4, <1>5, <1>6, <1>7 DEF StoreInv

LEMMA NamedRemains ==
    ASSUME Unname, UNCHANGED row, broken => broken', NEW m \in Manifests, Named(m)
    PROVE  Named(m)'
BY NamedStays

LEMMA ReplyKeeps == ASSUME StoreInv, Unname, NEW c \in Clients, Reply(c) PROVE StoreInv'
<1>1. /\ req[c] # Idle /\ req[c].pc = "done" /\ req' = [req EXCEPT ![c] = Idle]
      /\ UNCHANGED <<format, row, blob, gc, dirty, blamed, broken, calls, faults, crashes, collections>>
  BY DEF Reply, At
<1> DEFINE S == {c}
<1>2. TypeOK' /\ S \in SUBSET Clients /\ \A d \in Clients : req'[d] = IF d \in S THEN Idle ELSE req[d]
  BY <1>1 DEF StoreInv, TypeOK
<1>3. GcInv'
  BY <1>1, RowsStay DEF StoreInv
<1>4. \A m \in Manifests : Named(m) => Named(m)'
  BY <1>1, NamedRemains
<1> DEFINE L == {}
<1>5. blob \cup blamed \subseteq blob' \cup blamed' \cup L /\ \A X : L \cap X = {}
  BY <1>1
<1> HIDE DEF L
<1>6. \A d \in S : req[d] # Idle /\ req[d].flow \in Writing /\ req[d].pc # "done" => broken'
  BY <1>1
<1>7. UNCHANGED <<format, row>> /\ (broken => broken')
  BY <1>1
<1> HIDE DEF S
<1> QED BY ONLY StoreInv, <1>2, <1>3, <1>4, <1>5, <1>6, <1>7, RestKeeps

\* The tasks of S are dropped.
Dropped(S) ==
    /\ \A d \in Clients : req'[d] = IF d \in S THEN Idle ELSE req[d]
    /\ req' \in [Clients -> Request \cup {Idle}]
    /\ broken' \in BOOLEAN /\ (broken => broken')
    /\ \A d \in S : req[d] # Idle /\ req[d].flow \in Writing => broken'
    /\ crashes > 0 /\ crashes' = crashes - 1
    /\ UNCHANGED <<gc, dirty>> \/ (gc' = GcIdle /\ dirty' = {})
    /\ UNCHANGED <<format, row, blob, blamed, calls, faults, collections>>

LEMMA CutKeeps == ASSUME StoreInv, Unname, NEW S \in SUBSET Clients, Dropped(S) PROVE StoreInv'
<1>1. /\ \A d \in Clients : req'[d] = IF d \in S THEN Idle ELSE req[d]
      /\ req' \in [Clients -> Request \cup {Idle}]
      /\ broken' \in BOOLEAN /\ (broken => broken')
      /\ \A d \in S : req[d] # Idle /\ req[d].flow \in Writing => broken'
      /\ crashes > 0 /\ crashes' = crashes - 1
      /\ UNCHANGED <<format, row, blob, blamed, calls, faults, collections>>
  BY DEF Dropped
<1>2. gc' \in GcState /\ dirty' \subseteq Vers /\ GcInv'
  <2>1. CASE UNCHANGED <<gc, dirty>>
    BY <1>1, <2>1, RowsStay DEF StoreInv, TypeOK
  <2>2. CASE gc' = GcIdle /\ dirty' = {}
    BY <2>2 DEF GcIdle, GcState, GcPcs, GcInv
  <2> QED BY <2>1, <2>2 DEF Dropped
<1>3. crashes' \in Nat
  BY <1>1 DEF StoreInv, TypeOK
<1>4. TypeOK'
  BY <1>1, <1>2, <1>3 DEF StoreInv, TypeOK
<1>5. \A m \in Manifests : Named(m) => Named(m)'
  BY <1>1, NamedRemains
<1> DEFINE L == {}
<1>6. blob \cup blamed \subseteq blob' \cup blamed' \cup L /\ \A X : L \cap X = {}
  BY <1>1
<1> HIDE DEF L
<1>7. \A d \in S : req[d] # Idle /\ req[d].flow \in Writing /\ req[d].pc # "done" => broken'
  BY <1>1
<1> QED BY <1>1, <1>2, <1>4, <1>5, <1>6, <1>7, RestKeeps

LEMMA HangUpKeeps == ASSUME StoreInv, Unname, NEW c \in Clients, HangUp(c) PROVE StoreInv'
<1> DEFINE S == {c}
<1>1. /\ req' = [req EXCEPT ![c] = Idle] /\ broken' = (broken \/ Cut(S))
      /\ crashes > 0 /\ crashes' = crashes - 1
      /\ UNCHANGED <<format, row, blob, gc, dirty, blamed, calls, faults, collections>>
  BY DEF HangUp
<1>2. /\ req' \in [Clients -> Request \cup {Idle}] /\ S \in SUBSET Clients
      /\ \A d \in Clients : req'[d] = IF d \in S THEN Idle ELSE req[d]
  BY <1>1 DEF StoreInv, TypeOK
<1>3. /\ broken' \in BOOLEAN /\ (broken => broken')
      /\ \A d \in S : req[d] # Idle /\ req[d].flow \in Writing => broken'
  BY <1>1 DEF Cut, StoreInv, TypeOK
<1> HIDE DEF S
<1>4. Dropped(S)
  BY <1>1, <1>2, <1>3 DEF Dropped
<1> QED BY <1>2, <1>4, CutKeeps

LEMMA RestartKeeps == ASSUME StoreInv, Unname, Restart PROVE StoreInv'
<1>1. /\ req' = [c \in Clients |-> Idle] /\ broken' = (broken \/ Cut(Clients))
      /\ gc' = GcIdle /\ dirty' = {} /\ crashes > 0 /\ crashes' = crashes - 1
      /\ UNCHANGED <<format, row, blob, blamed, calls, faults, collections>>
  BY DEF Restart
<1>2. /\ req' \in [Clients -> Request \cup {Idle}]
      /\ \A d \in Clients : req'[d] = IF d \in Clients THEN Idle ELSE req[d]
  BY <1>1
<1>3. /\ broken' \in BOOLEAN /\ (broken => broken')
      /\ \A d \in Clients : req[d] # Idle /\ req[d].flow \in Writing => broken'
  BY <1>1 DEF Cut, StoreInv, TypeOK
<1>4. Dropped(Clients)
  BY <1>1, <1>2, <1>3 DEF Dropped
<1> QED BY <1>4, CutKeeps

-----------------------------------------------------------------------------
(* The collector. *)

LEMMA GcTypes ==
    ASSUME TypeOK
    PROVE  gc.pc \in GcPcs /\ gc.rows \subseteq Vers /\ gc.live \subseteq Digests /\ gc.todo \subseteq Digests
           /\ gc.missed \in BOOLEAN
BY DEF TypeOK, GcState

\* A record of the collector and its fields.
LEMMA GcFields ==
    ASSUME TypeOK, NEW p \in GcPcs, NEW R \in SUBSET Vers, NEW V \in SUBSET Digests,
           NEW T \in SUBSET Digests, NEW b \in BOOLEAN
    PROVE  LET g == [gc EXCEPT !.pc = p, !.rows = R, !.live = V, !.todo = T, !.missed = b] IN
           g \in GcState /\ g.pc = p /\ g.rows = R /\ g.live = V /\ g.todo = T /\ g.missed = b
BY DEF TypeOK, GcState

LEMMA CollectKeeps == ASSUME StoreInv, Unname, Collect PROVE StoreInv'
<1>1. TypeOK /\ UNCHANGED <<format, req, calls, crashes, row, broken>>
  BY Zenon DEF StoreInv, Collect, GcStart, GcMark, GcList, GcSweep, GcDone, Package
<1>2. \A m \in Manifests : Named(m) => Named(m)'
  BY <1>1, NamedRemains
<1>3. \E L : /\ gc' \in GcState /\ dirty' \subseteq Vers /\ GcInv'
             /\ blob' \subseteq Digests /\ blamed' \subseteq Digests
             /\ faults' \in Nat /\ collections' \in Nat
             /\ blob \cup blamed \subseteq blob' \cup blamed' \cup L
             /\ \A v \in Vers : L \cap DigestsOf(row[v]) = {}
             /\ \A c \in Clients : req[c] # Idle => L \cap (DigestsOf(req[c].row) \cup {req[c].data}) = {}
  <2>1. CASE GcStart
    <3>1. gc' = [GcIdle EXCEPT !.pc = "mark", !.rows = ListPackages] /\ dirty' = {}
          /\ UNCHANGED <<blob, blamed, faults>> /\ collections > 0 /\ collections' = collections - 1
      BY <2>1 DEF GcStart
    <3>2. ListPackages \subseteq Vers
      BY DEF ListPackages, ListVersions
    <3>3. gc' \in GcState /\ gc'.pc = "mark" /\ gc'.rows = ListPackages /\ gc'.live = {}
      BY <3>1, <3>2 DEF GcIdle, GcState, GcPcs
    <3>4. GcInv'
      BY <1>1, <3>3 DEF GcInv, ListPackages, ListVersions, DigestsOf
    <3>5. blob \cup blamed \subseteq blob' \cup blamed' \cup {}
      BY <3>1
    <3> QED BY <1>1, <3>1, <3>3, <3>4, <3>5 DEF TypeOK
  <2>2. CASE GcMark
    <3>1. PICK v \in gc.rows, ok \in BOOLEAN :
            /\ gc.pc = "mark"
            /\ gc' = [gc EXCEPT !.rows = @ \ {v}, !.missed = @ \/ ~ok,
                                !.live = @ \cup (IF ok THEN DigestsOf(row[v]) ELSE {})]
            /\ \/ ok /\ UNCHANGED faults
               \/ ~ok /\ faults > 0 /\ faults' = faults - 1
            /\ UNCHANGED <<blob, dirty, blamed, collections>>
      BY <2>2, Zenon DEF GcMark
    <3>2. v \in Vers /\ DigestsOf(row[v]) \subseteq Digests
      BY <1>1, <3>1, GcTypes, RowTypes
    <3> DEFINE V == gc.live \cup (IF ok THEN DigestsOf(row[v]) ELSE {})
               b == gc.missed \/ ~ok
               R == gc.rows \ {v}
    <3>3. V \in SUBSET Digests /\ b \in BOOLEAN /\ R \in SUBSET Vers
      BY <1>1, <3>2, GcTypes
    <3>4. gc' = [gc EXCEPT !.rows = R, !.missed = b, !.live = V]
      BY <3>1
    <3> HIDE DEF V, b, R
    <3>5. gc' \in GcState /\ gc'.pc = "mark" /\ gc'.rows = R /\ gc'.live = V /\ gc'.missed = b
      BY <1>1, <3>1, <3>3, <3>4 DEF TypeOK, GcState
    <3>6. GcInv'
      BY <1>1, <3>1, <3>5 DEF StoreInv, GcInv, V, b, R, DigestsOf
    <3>7. faults' \in Nat /\ blob \cup blamed \subseteq blob' \cup blamed' \cup {}
      BY <1>1, <3>1 DEF TypeOK
    <3>8. dirty' \subseteq Vers /\ blob' \subseteq Digests /\ blamed' \subseteq Digests /\ collections' \in Nat
      BY <1>1, <3>1 DEF TypeOK
    <3>9. \A X : {} \cap X = {}
      OBVIOUS
    <3> QED BY <3>5, <3>6, <3>7, <3>8, <3>9
  <2>3. CASE GcList
    <3> DEFINE T == blob \ gc.live
    <3>1. gc.pc = "mark" /\ gc.rows = {} /\ gc' = [gc EXCEPT !.pc = "sweep", !.todo = T]
          /\ UNCHANGED <<blob, dirty, blamed, faults, collections>>
      BY <2>3 DEF GcList
    <3>2. T \in SUBSET Digests
      BY <1>1 DEF TypeOK
    <3>3. gc' \in GcState /\ gc'.pc = "sweep" /\ gc'.todo = T /\ gc'.missed = gc.missed
      <4> HIDE DEF T
      <4> QED BY <1>1, <3>1, <3>2 DEF TypeOK, GcState, GcPcs
    <3>4. GcInv'
      BY <1>1, <3>1, <3>3 DEF StoreInv, GcInv, DocInv, DigestsOf
    <3>5. blob \cup blamed \subseteq blob' \cup blamed' \cup {}
      BY <3>1
    <3> QED BY <1>1, <3>1, <3>3, <3>4, <3>5 DEF TypeOK
  <2>4. CASE GcSweep
    <3> DEFINE used(d) == \/ \E v \in Vers : d \in DigestsOf(row[v])
                          \/ \E x \in Clients :
                               req[x] # Idle /\ (req[x].data = d \/ d \in DigestsOf(req[x].row))
    <3>1. PICK d \in gc.todo :
            /\ gc.pc = "sweep" /\ gc' = [gc EXCEPT !.todo = @ \ {d}] /\ blob' = blob \ {d}
            /\ blamed' = IF used(d) THEN blamed \cup {d} ELSE blamed
            /\ UNCHANGED <<dirty, faults, collections>>
      BY <2>4 DEF GcSweep
    <3> DEFINE L == IF used(d) THEN {} ELSE {d}
    <3>2. gc' \in GcState /\ gc'.pc = "sweep" /\ gc'.missed = gc.missed /\ gc'.todo \subseteq gc.todo
      BY <1>1, <3>1 DEF TypeOK, GcState
    <3>3. GcInv'
      BY <1>1, <3>1, <3>2 DEF StoreInv, GcInv, DigestsOf
    <3>4. d \in Digests
      BY <1>1, GcTypes
    <3>5. blob \cup blamed \subseteq blob' \cup blamed' \cup L
      <4> HIDE DEF used
      <4> QED BY <3>1
    <3>6. /\ \A v \in Vers : L \cap DigestsOf(row[v]) = {}
          /\ \A c \in Clients : req[c] # Idle => L \cap (DigestsOf(req[c].row) \cup {req[c].data}) = {}
      OBVIOUS
    <3>7. blob' \subseteq Digests /\ blamed' \subseteq Digests
      <4> HIDE DEF used
      <4> QED BY <1>1, <3>1, <3>4 DEF TypeOK
    <3> HIDE DEF L, used
    <3> QED BY <1>1, <3>1, <3>2, <3>3, <3>5, <3>6, <3>7 DEF TypeOK
  <2>5. CASE GcDone
    <3>1. gc' = GcIdle /\ dirty' = {} /\ UNCHANGED <<blob, blamed, faults, collections>>
      BY <2>5 DEF GcDone
    <3>2. gc' \in GcState /\ GcInv'
      BY <3>1 DEF GcIdle, GcState, GcPcs, GcInv
    <3>3. blob \cup blamed \subseteq blob' \cup blamed' \cup {}
      BY <3>1
    <3> QED BY <1>1, <3>1, <3>2, <3>3 DEF TypeOK
  <2> QED BY <2>1, <2>2, <2>3, <2>4, <2>5 DEF Collect
<1>4. TypeOK'
  BY <1>1, <1>3 DEF TypeOK
<1>5. PICK L : /\ blob \cup blamed \subseteq blob' \cup blamed' \cup L /\ GcInv'
               /\ \A v \in Vers : L \cap DigestsOf(row[v]) = {}
               /\ \A c \in Clients : req[c] # Idle => L \cap (DigestsOf(req[c].row) \cup {req[c].data}) = {}
  BY <1>3
<1>6. \A c \in Clients : req'[c] = IF c \in {} THEN Idle ELSE req[c]
  BY <1>1
<1>7. \A c \in {} : req[c] # Idle /\ req[c].flow \in Writing /\ req[c].pc # "done" => broken'
  OBVIOUS
<1> QED BY <1>1, <1>2, <1>4, <1>5, <1>6, <1>7, RestKeeps

-----------------------------------------------------------------------------
(* The uploads: they add a blob, and never touch a row or a request. *)

UploadBlobs ==
    \/ UNCHANGED <<blob, blamed>>
    \/ \E d \in Digests : blob' = blob \cup {d} /\ blamed' = blamed \ {d}

LEMMA FaultTypes ==
    ASSUME TypeOK, NEW ok \in BOOLEAN, Fault(ok)
    PROVE  broken' \in BOOLEAN /\ (broken => broken') /\ faults' \in Nat
<1>1. CASE ok
  BY <1>1 DEF Fault, NoFault, TypeOK
<1>2. CASE ~ok
  BY <1>2 DEF Fault, TypeOK
<1> QED BY <1>1, <1>2

LEMMA UploadStepStores ==
    ASSUME TypeOK, UploadTypeOK, NEW c \in Clients, UploadStep(c)
    PROVE  /\ UNCHANGED <<format, row, req, gc, dirty, calls, crashes, collections>>
           /\ broken' \in BOOLEAN /\ (broken => broken') /\ faults' \in Nat /\ UploadBlobs
<1>1. CASE SaveRecord(c)
  <2>1. PICK ok \in BOOLEAN : Quiet /\ Fault(ok) /\ NoBlob
    BY <1>1 DEF SaveRecord
  <2> QED BY <2>1, FaultTypes DEF Quiet, NoBlob, UploadBlobs
<1>2. CASE ForgetRecord(c)
  <2>1. PICK ok \in BOOLEAN : Quiet /\ Fault(ok) /\ NoBlob
    BY <1>2 DEF ForgetRecord
  <2> QED BY <2>1, FaultTypes DEF Quiet, NoBlob, UploadBlobs
<1>3. CASE StoreUpload(c)
  <2>1. PICK ok \in BOOLEAN :
           /\ On(c, "store") /\ Quiet /\ Fault(ok)
           /\ blob' = IF ok THEN blob \cup {up[c].digest} ELSE blob
           /\ blamed' = IF ok THEN blamed \ {up[c].digest} ELSE blamed
    BY <1>3 DEF StoreUpload
  <2>2. up[c] \in Task
    BY <2>1 DEF On, UploadTypeOK
  <2>3. up[c].digest \in Digests
    BY <2>2 DEF Task
  <2> QED BY <2>1, <2>3, FaultTypes DEF Quiet, UploadBlobs
<1>5. CASE WriteChunk(c) \/ ReadFails(c)
  <2>1. PICK ok \in BOOLEAN : Quiet /\ Fault(ok) /\ NoBlob
    BY <1>5 DEF WriteChunk, ReadFails
  <2> QED BY <2>1, FaultTypes DEF Quiet, NoBlob, UploadBlobs
<1>4. CASE CheckUpload(c) \/ BumpSize(c) \/ SeekStart(c)
            \/ ReadBack(c) \/ UnlinkFile(c) \/ ReplyUpload(c)
  <2>1. Quiet /\ NoFault /\ NoBlob
    BY <1>4 DEF CheckUpload, BumpSize, SeekStart, ReadBack, UnlinkFile, ReplyUpload
  <2> QED BY <2>1 DEF Quiet, NoFault, NoBlob, UploadBlobs, TypeOK
<1> QED BY <1>1, <1>2, <1>3, <1>4, <1>5 DEF UploadStep

\* The requests stay as they are, and blobs are only added.
Resting ==
    /\ UNCHANGED <<format, row, req, gc, dirty, calls, collections>>
    /\ broken' \in BOOLEAN /\ (broken => broken') /\ faults' \in Nat /\ crashes' \in Nat /\ UploadBlobs

LEMMA RestingKeeps ==
    ASSUME StoreInv, Resting, \A m \in Manifests : Named(m) => Named(m)'
    PROVE  StoreInv'
<1> DEFINE S == {}
           L == {}
<1>1. UNCHANGED <<format, row, req, gc, dirty>>
  BY DEF Resting
<1>2. /\ blob' \subseteq Digests /\ blamed' \subseteq Digests
      /\ blob \cup blamed \subseteq blob' \cup blamed' \cup L
  BY DEF Resting, UploadBlobs, StoreInv, TypeOK
<1>3. TypeOK'
  BY <1>2 DEF Resting, StoreInv, TypeOK
<1>4. GcInv'
  BY <1>1, RowsStay DEF StoreInv
<1>5. /\ S \in SUBSET Clients /\ \A X : L \cap X = {}
      /\ \A c \in Clients : req'[c] = IF c \in S THEN Idle ELSE req[c]
      /\ \A c \in S : req[c] # Idle /\ req[c].flow \in Writing /\ req[c].pc # "done" => broken'
  BY <1>1
<1>6. UNCHANGED <<format, row>> /\ (broken => broken')
  BY DEF Resting
<1> HIDE DEF S, L
<1> QED BY ONLY StoreInv, <1>2, <1>3, <1>4, <1>5, <1>6, RestKeeps, \A m \in Manifests : Named(m) => Named(m)'

LEMMA ArriveStays == ASSUME NEW c, NEW u, Arrive(c, u) PROVE UNCHANGED vars
BY DEF Arrive

LEMMA UploadingKeeps == ASSUME StoreInv, Unname, UploadTypeOK, Uploading PROVE StoreInv'
<1>1. PICK c \in Clients : UploadRequest(c) \/ UploadStep(c) \/ DropUpload(c)
  BY DEF Uploading
<1>2. Resting
  <2>1. TypeOK
    BY DEF StoreInv
  <2>2. CASE UploadRequest(c)
    <3>1. UNCHANGED vars
      BY <2>2, ArriveStays
         DEF UploadRequest, StartUpload, StatusUpload, PatchUpload, PutUpload, DeleteUpload
    <3> QED BY <2>1, <3>1 DEF vars, Resting, UploadBlobs, TypeOK
  <2>3. CASE UploadStep(c)
    <3>1. crashes' \in Nat
      BY <2>1, <2>3, UploadStepStores DEF TypeOK
    <3> QED BY <2>1, <2>3, <3>1, UploadStepStores DEF Resting
  <2>4. CASE DropUpload(c)
    <3>1. /\ crashes > 0 /\ crashes' = crashes - 1 /\ broken' = TRUE
          /\ UNCHANGED <<format, row, req, gc, dirty, calls, faults, collections, blob, blamed>>
      BY <2>4 DEF DropUpload, NoBlob
    <3> QED BY <2>1, <3>1 DEF Resting, UploadBlobs, TypeOK
  <2> QED BY <1>1, <2>2, <2>3, <2>4
<1>3. \A m \in Manifests : Named(m) => Named(m)'
  BY <1>2, NamedRemains DEF Resting
<1> QED BY <1>2, <1>3, RestingKeeps

LEMMA StutterKeeps == ASSUME StoreInv, UNCHANGED allVars PROVE StoreInv'
<1>1. UNCHANGED <<vars, unnamed>>
  BY DEF allVars
<1>2. Resting /\ \A m \in Manifests : Named(m) => Named(m)'
  BY <1>1 DEF vars, Resting, UploadBlobs, Named, StoreInv, TypeOK
<1> QED BY <1>2, RestingKeeps

-----------------------------------------------------------------------------
(* A request arrives: what it changes for the requests it meets. *)

\* The same request, which may have met another.
Only(a, b) ==
    /\ a \in Request /\ b \in Request /\ Asked(a, b) /\ Kind(a, b) /\ Walk(a, b)
    /\ b.pc = a.pc /\ b.row = a.row /\ b.todo = a.todo /\ b.out = a.out
    /\ (b.clean => a.clean)

LEMMA OnlyFields ==
    ASSUME NEW a, NEW b, Only(a, b)
    PROVE  /\ b.flow = a.flow /\ b.source = a.source /\ b.file = a.file /\ b.data = a.data
           /\ b.note = a.note /\ b.add = a.add /\ b.aim = a.aim /\ b.before = a.before
           /\ b.ver = a.ver /\ b.vers = a.vers /\ b.tail = a.tail /\ b.pc = a.pc
           /\ b.row = a.row /\ b.todo = a.todo /\ b.out = a.out
BY DEF Only, Asked, Kind, Walk

LEMMA OnlyFormed == ASSUME NEW a, NEW b, Only(a, b), Formed(a) PROVE Formed(b)
<1>1. /\ b.flow = a.flow /\ b.source = a.source /\ b.file = a.file /\ b.data = a.data
      /\ b.note = a.note /\ b.add = a.add /\ b.aim = a.aim /\ b.before = a.before
      /\ b.ver = a.ver /\ b.vers = a.vers /\ b.tail = a.tail /\ b.pc = a.pc
      /\ b.row = a.row /\ b.todo = a.todo /\ b.out = a.out
  BY OnlyFields
<1>2. WalkFits(b)
  BY <1>1 DEF Formed, WalkFits, Here
<1>3. FileFits(b)
  BY <1>1 DEF Formed, FileFits
<1>4. NoteFits(b)
  BY <1>1, Zenon DEF Formed, NoteFits
<1>5. ImageFits(b)
  BY <1>1 DEF Formed, ImageFits, Here
<1> QED BY <1>2, <1>3, <1>4, <1>5 DEF Formed

LEMMA OnlyProgress == ASSUME NEW a, NEW b, Only(a, b), Progress(a) PROVE Progress(b)
<1>1. /\ b.flow = a.flow /\ b.source = a.source /\ b.file = a.file /\ b.data = a.data
      /\ b.note = a.note /\ b.add = a.add /\ b.aim = a.aim /\ b.before = a.before
      /\ b.ver = a.ver /\ b.vers = a.vers /\ b.tail = a.tail /\ b.pc = a.pc
      /\ b.row = a.row /\ b.todo = a.todo /\ b.out = a.out
  BY OnlyFields
<1>2. \A w : Promised(b, w) = Promised(a, w)
  BY <1>1, PromisedSame DEF Only
<1>3. Pending(b) = Pending(a)
  BY <1>1 DEF Pending, Here
<1>4. Exact(b)
  BY <1>1, <1>2, <1>3 DEF Progress, Exact
<1>5. Built(b)
  <2>1. a \in Request /\ b \in Request
    BY DEF Only
  <2>2. CASE a.flow = "tag" /\ a.pc = "check"
    <3> DEFINE V == {v \in Vers : a.before[v] # NoRow}
               o == OrBlank(a.before[a.ver])
    <3>1. Edited([b EXCEPT !.vers = V], o) = Edited([a EXCEPT !.vers = V], o)
      <4> HIDE DEF V, o
      <4> QED BY <1>1, <2>1, EditedVers
    <3>2. a.row = [Blank EXCEPT !.notes = Edited([a EXCEPT !.vers = V], o)]
      BY <2>2 DEF Progress, Built
    <3>3. b.row = [Blank EXCEPT !.notes = Edited([b EXCEPT !.vers = V], o)]
      <4> HIDE DEF V, o
      <4> QED BY <1>1, <3>1, <3>2
    <3>4. /\ V = {v \in Vers : b.before[v] # NoRow} /\ o = OrBlank(b.before[b.ver])
          /\ b.flow = "tag" /\ b.pc = "check"
      BY <1>1, <2>2
    <3> HIDE DEF V, o
    <3> QED BY <3>3, <3>4 DEF Built
  <2>3. CASE ~(a.flow = "tag" /\ a.pc = "check")
    <3>1. CASE a.flow = "tag"
      <4>1. {v \in Vers : b.before[v] # NoRow} = {v \in Vers : a.before[v] # NoRow}
        BY <1>1
      <4>2. a.pc = "load" => a.vers = {v \in Vers : a.before[v] # NoRow}
        BY <3>1 DEF Progress, Built
      <4>3. b.pc = "load" => b.vers = {v \in Vers : b.before[v] # NoRow}
        BY <1>1, <4>1, <4>2
      <4>4. b.pc = "save" => b.row = Promised(b, b.ver)
        BY <1>1, <1>2, <3>1 DEF Progress, Built
      <4> QED BY <1>1, <2>3, <3>1, <4>3, <4>4 DEF Built
    <3>2. CASE a.flow = "merge"
      <4> DEFINE w(x) == [OrBlank(x.before[x.ver]) EXCEPT !.source = IF x.source = "" THEN @ ELSE x.source]
      <4>1. w(b) = w(a)
        BY <1>1
      <4>2. a.pc = "blob" => a.row = w(a)
        BY <3>2, Zenon DEF Progress, Built
      <4>3. b.pc = "blob" => b.row = w(b)
        BY <1>1, <4>1, <4>2, Zenon
      <4>4. a.pc \in {"cull", "save"} => a.row = Promised(a, a.ver)
        BY <3>2, Zenon DEF Progress, Built
      <4>5. Promised(b, b.ver) = Promised(a, a.ver)
        BY <1>1, <1>2
      <4>6. b.pc \in {"cull", "save"} => b.row = Promised(b, b.ver)
        BY <1>1, <4>4, <4>5
      <4> QED BY <1>1, <3>2, <4>3, <4>6, Zenon DEF Built
    <3>3. CASE a.flow \notin {"tag", "merge"}
      <4>1. Promised(b, b.ver) = Promised(a, a.ver)
        BY <1>1, <1>2
      <4> QED BY <1>1, <3>3, <4>1, Zenon DEF Progress, Built
    <3> QED BY <3>1, <3>2, <3>3
  <2> QED BY <2>2, <2>3
<1>6. Missing(b)
  BY <1>1 DEF Progress, Missing, Lacks, Here
<1>7. Answers(b)
  <2>1. Served(b) = Served(a)
    BY <1>1 DEF Served, Wanted
  <2> QED BY <1>1, <2>1 DEF Progress, Answers, Here
<1> QED BY <1>4, <1>5, <1>6, <1>7 DEF Progress

LEMMA OnlyHeld == ASSUME NEW a, NEW b, Only(a, b), Held(a) PROVE Held(b)
<1>1. /\ b.flow = a.flow /\ b.data = a.data /\ b.pc = a.pc /\ b.row = a.row /\ (b.clean => a.clean)
  BY OnlyFields DEF Only
<1> QED BY <1>1 DEF Held

LEMMA BeginDoes ==
    ASSUME TypeOK, NEW c \in Clients, req[c] = Idle, calls > 0, NEW r \in Request, r.clean, Begin(c, r)
    PROVE  /\ req' \in [Clients -> Request \cup {Idle}] /\ calls' \in Nat
           /\ Only(r, req'[c])
           /\ \A x \in Clients \ {c} : /\ req[x] = Idle => req'[x] = Idle
                                       /\ req[x] # Idle => Only(req[x], req'[x])
           /\ \A x \in Clients \ {c} : req[x] # Idle /\ Disturbs(req[x], r) =>
                                          ~req'[x].clean /\ ~req'[c].clean
           /\ UNCHANGED <<format, row, blob, gc, dirty, blamed, broken, faults, crashes, collections>>
<1> DEFINE met == {x \in Clients \ {c} : req[x] # Idle /\ Disturbs(req[x], r)}
           k == met = {}
           s == [r EXCEPT !.clean = k]
           t(x) == [req[x] EXCEPT !.clean = FALSE]
<1>1. /\ req' = [x \in Clients |-> IF x = c THEN s ELSE IF x \in met THEN t(x) ELSE req[x]]
      /\ calls' = calls - 1
      /\ UNCHANGED <<format, row, blob, gc, dirty, blamed, broken, faults, crashes, collections>>
  BY DEF Begin
<1>2. k \in BOOLEAN /\ r.clean \in BOOLEAN
  BY RequestTypes
<1>3. Only(r, s) /\ s.clean = k
  <2> HIDE DEF k
  <2> QED BY <1>2 DEF Only, Request, Asked, Kind, Walk
<1>4. ASSUME NEW x \in Clients, req[x] # Idle
      PROVE  Only(req[x], req[x]) /\ Only(req[x], t(x)) /\ ~t(x).clean
  <2>1. req[x] \in Request
    BY <1>4 DEF TypeOK
  <2> QED BY <2>1, Zenon DEF Only, Request, Asked, Kind, Walk
<1>5. \A x \in met : x \in Clients \ {c} /\ req[x] # Idle
  OBVIOUS
<1>6. \A x \in Clients \ {c} : req[x] # Idle /\ Disturbs(req[x], r) => x \in met /\ ~k
  OBVIOUS
<1> HIDE DEF met, k, s, t
<1>7. \A x \in Clients : req'[x] = IF x = c THEN s ELSE IF x \in met THEN t(x) ELSE req[x]
  BY <1>1
<1>8. Only(r, req'[c]) /\ req'[c].clean = k
  BY <1>3, <1>7
<1>9. \A x \in Clients \ {c} : /\ req[x] = Idle => req'[x] = Idle
                               /\ req[x] # Idle => Only(req[x], req'[x])
  BY <1>4, <1>5, <1>7
<1>10. \A x \in Clients \ {c} : req[x] # Idle /\ Disturbs(req[x], r) =>
                                   ~req'[x].clean /\ ~req'[c].clean
  BY <1>4, <1>6, <1>7, <1>8
<1>11. req' \in [Clients -> Request \cup {Idle}]
  <2>1. ASSUME NEW x \in Clients PROVE req'[x] \in Request \cup {Idle}
    BY <1>8, <1>9, <2>1 DEF Only
  <2>2. req' = [x \in Clients |-> req'[x]]
    BY <1>1
  <2> QED BY <2>1, <2>2
<1>12. calls' \in Nat
  BY <1>1 DEF TypeOK
<1> QED BY <1>1, <1>8, <1>9, <1>10, <1>11, <1>12

\* What must hold of a request when it arrives.
Arrived(r) ==
    /\ r \in Request /\ r.clean /\ Formed(r) /\ Progress(r)
    /\ format # "oci" /\ ~broken => Held(r)
    /\ Puttings(r) => \A m \in Manifests : r.note = Holds(m) => m \in Here(r)

LEMMA ArriveKeeps ==
    ASSUME StoreInv, Unname, NEW c \in Clients, req[c] = Idle, calls > 0,
           NEW r, Arrived(r), Begin(c, r)
    PROVE  StoreInv'
<1>1. r \in Request /\ r.clean /\ TypeOK
  BY DEF Arrived, StoreInv
<1>2. /\ req' \in [Clients -> Request \cup {Idle}] /\ calls' \in Nat
      /\ Only(r, req'[c])
      /\ \A x \in Clients \ {c} : /\ req[x] = Idle => req'[x] = Idle
                                  /\ req[x] # Idle => Only(req[x], req'[x])
      /\ \A x \in Clients \ {c} : req[x] # Idle /\ Disturbs(req[x], r) =>
                                     ~req'[x].clean /\ ~req'[c].clean
      /\ UNCHANGED <<format, row, blob, gc, dirty, blamed, broken, faults, crashes, collections>>
  BY <1>1, BeginDoes
<1>3. TypeOK'
  BY <1>1, <1>2 DEF TypeOK
<1>4. ASSUME NEW x \in Clients, x # c, req'[x] # Idle
      PROVE  req[x] # Idle /\ Only(req[x], req'[x])
  BY <1>2, <1>4
<1>5. RequestInv'
  <2>1. ASSUME NEW x \in Clients, req'[x] # Idle
        PROVE  Formed(req[x])' /\ (req'[x].clean => Progress(req[x])')
    <3>1. CASE x = c
      <4>1. Formed(req'[c]) /\ Progress(req'[c])
        BY <1>2, OnlyFormed, OnlyProgress DEF Arrived
      <4> QED BY <1>2, <3>1, <4>1, FormedStays, ProgressStays
    <3>2. CASE x # c
      <4>1. req[x] # Idle /\ Only(req[x], req'[x])
        BY <1>4, <2>1, <3>2
      <4>2. Formed(req[x]) /\ (req[x].clean => Progress(req[x]))
        BY <4>1 DEF StoreInv, RequestInv
      <4>3. Formed(req'[x]) /\ (req'[x].clean => Progress(req'[x]))
        BY <4>1, <4>2, OnlyFormed, OnlyProgress DEF Only
      <4> QED BY <1>2, <4>3, FormedStays, ProgressStays
    <3> QED BY <3>1, <3>2
  <2> QED BY <2>1 DEF RequestInv
<1>6. CleanInv'
  <2>1. ASSUME NEW x \in Clients, NEW y \in Clients, x # y, req'[x] # Idle, req'[y] # Idle,
               Disturbs(req'[x], req'[y])
        PROVE  ~req'[x].clean
    <3>1. req'[c].flow = r.flow
      BY <1>2, OnlyFields
    <3>2. \A z \in Clients : z # c /\ req'[z] # Idle =>
             req[z] # Idle /\ req'[z].flow = req[z].flow /\ (req'[z].clean => req[z].clean)
      BY <1>4, OnlyFields DEF Only
    <3>3. CASE x = c
      BY <1>2, <2>1, <3>1, <3>2, <3>3 DEF Disturbs
    <3>4. CASE y = c
      BY <1>2, <2>1, <3>1, <3>2, <3>4 DEF Disturbs
    <3>5. CASE x # c /\ y # c
      BY <2>1, <3>2, <3>5 DEF StoreInv, CleanInv, Disturbs
    <3> QED BY <3>3, <3>4, <3>5
  <2> QED BY <2>1 DEF CleanInv, Disturbs
<1>7. DocInv' /\ GcInv' /\ ImageRows'
  BY <1>2, RowsStay DEF StoreInv
<1>8. ASSUME NEW x \in Clients, req[x] # Idle
      PROVE  /\ req'[x] # Idle /\ x # c /\ req'[x].ver = req[x].ver /\ Here(req'[x]) = Here(req[x])
             /\ (Puttings(req[x]) => Puttings(req'[x])) /\ (Rewriting(req[x]) => Rewriting(req'[x]))
  <2>1. x # c /\ Only(req[x], req'[x])
    BY <1>2, <1>8
  <2>2. req'[x] # Idle
    BY <2>1, NullAssumption DEF Only
  <2> QED BY <2>1, <2>2, OnlyFields DEF Here, Puttings, Rewriting
<1>9. \A m \in Manifests : Named(m) => Named(m)'
  BY <1>2, NamedRemains
<1>10. TagsInv'
  <2> SUFFICES ASSUME format = "oci" PROVE TagsInv'
    BY <1>2 DEF TagsInv
  <2>1. /\ \A d \in Clients : req[d] # Idle /\ Puttings(req[d]) =>
              \A m \in Manifests : req[d].note = Holds(m) => m \in Here(req[d]) \/ Named(m)
        /\ \A v \in References : \A m \in ManifestOf(OrBlank(row[v])) :
              Named(m) \/ \E d \in Clients : req[d] # Idle /\ Puttings(req[d]) /\ m \in Here(req[d])
    BY TagsNow DEF StoreInv
  <2>2. ASSUME NEW v \in References, NEW m \in ManifestOf(OrBlank(row[v]))
        PROVE  /\ v \in Manifests => m = v
               /\ Named(m)' \/ \E d \in Clients : req'[d] # Idle /\ Puttings(req'[d]) /\ m \in Here(req'[d])
    <3>1. m \in Manifests /\ (v \in Manifests => m = v)
      BY DEF StoreInv, TagsInv, TagsResolve, ManifestOf
    <3>2. CASE Named(m)
      BY <1>9, <3>1, <3>2
    <3>3. CASE ~Named(m)
      <4>1. PICK d \in Clients : req[d] # Idle /\ Puttings(req[d]) /\ m \in Here(req[d])
        BY <2>1, <3>3
      <4> QED BY <1>8, <3>1, <4>1
    <3> QED BY <3>2, <3>3
  <2>3. TagsResolve'
    BY <1>2, <2>2 DEF TagsResolve, Named, Puttings, At, Here
  <2>4. ASSUME NEW d \in Clients, At(d, {"image"}, "save")', NEW m \in Manifests, req'[d].note = Holds(m)
        PROVE  m \in Here(req'[d]) \/ Named(m)'
    <3>1. req'[d] # Idle /\ Puttings(req'[d])
      BY <2>4 DEF At, Puttings
    <3>2. CASE d = c
      <4>1. Puttings(r) /\ r.note = Holds(m) /\ Here(req'[d]) = Here(r)
        BY <1>2, <2>4, <3>1, <3>2, OnlyFields DEF Puttings, Here
      <4> QED BY <4>1 DEF Arrived
    <3>3. CASE d # c
      <4>1. req[d] # Idle /\ Only(req[d], req'[d])
        BY <1>4, <3>1, <3>3
      <4>2. Puttings(req[d]) /\ req[d].note = Holds(m) /\ Here(req'[d]) = Here(req[d])
        BY <2>4, <3>1, <4>1, OnlyFields DEF Puttings, Here
      <4> QED BY <1>9, <2>1, <4>1, <4>2
    <3> QED BY <3>2, <3>3
  <2> QED BY <2>3, <2>4 DEF TagsInv, Named, Here
<1>11. DangInv'
  <2> SUFFICES ASSUME format # "oci", ~broken
               PROVE  RowsHeld' /\ \A x \in Clients : req'[x] # Idle => Held(req[x])'
    BY <1>2 DEF DangInv
  <2>1. RowsHeld /\ \A x \in Clients : req[x] # Idle => Held(req[x])
    BY DEF StoreInv, DangInv
  <2> DEFINE L == {}
  <2>2. blob \cup blamed \subseteq blob' \cup blamed' \cup L /\ \A X : L \cap X = {}
    BY <1>2
  <2> HIDE DEF L
  <2>3. ASSUME NEW x \in Clients, req'[x] # Idle PROVE Held(req[x])'
    <3>1. Held(req'[x])
      <4>1. CASE x = c
        BY <1>2, <4>1, OnlyHeld DEF Arrived
      <4>2. CASE x # c
        BY <1>4, <2>1, <2>3, <4>2, OnlyHeld
      <4> QED BY <4>1, <4>2
    <3> QED BY <2>2, <3>1, HeldStays
  <2>4. ASSUME NEW v \in Vers, NEW d \in DigestsOf(row[v]) \ blob, d \notin blamed
        PROVE  \E x \in Clients : req'[x] # Idle /\ req'[x].ver = v /\ Rewriting(req'[x])
    <3>1. PICK x \in Clients : req[x] # Idle /\ req[x].ver = v /\ Rewriting(req[x])
      BY <2>1, <2>4 DEF RowsHeld, Rewriting
    <3> QED BY <1>8, <3>1
  <2>5. RowsHeld'
    BY <1>2, <2>4 DEF RowsHeld, Rewriting, DigestsOf
  <2> QED BY <2>3, <2>5
<1> QED BY <1>3, <1>5, <1>6, <1>7, <1>10, <1>11 DEF StoreInv

-----------------------------------------------------------------------------
(* What a request of each flow looks like when it arrives. *)

\* A request that has just been made.
New(r) == r \in Request /\ r.clean /\ r.before = row /\ r.out = {}

LEMMA NewArrives ==
    ASSUME NEW r, New(r), Formed(r), \A w \in Vers \ Pending(r) : Promised(r, w) = r.before[w],
           Built(r), Missing(r), Answers(r), Held(r), ~Puttings(r)
    PROVE  Arrived(r)
<1>1. Exact(r)
  BY DEF New, Exact
<1> QED BY <1>1 DEF New, Arrived, Progress

\* One that only reads, or starts by reading, has nothing to show.
LEMMA ReaderArrives ==
    ASSUME NEW r, New(r), Formed(r), r.pc \notin {"blob", "cull", "save", "fetch", "done"},
           \A w \in Vers \ Pending(r) : Promised(r, w) = r.before[w],
           r.flow \in {"overwrite", "merge"} => r.source # "pull",
           r.flow \in {"edit", "tag"} /\ r.pc = "load" => r.flow = "edit" /\ r.note[2] = Doc,
           r.flow = "tag" => r.pc # "check",
           r.flow = "index" /\ r.pc # "list" => r.pc = "read" /\ r.aim \subseteq Here(r),
           r.flow # "image",
           r.flow = "serve" => r.pc # "open"
    PROVE  Arrived(r)
<1>1. Built(r)
  BY Zenon DEF Built
<1>2. Missing(r)
  BY DEF Missing
<1>3. Answers(r)
  <2>1. CASE r.flow = "index" /\ r.pc # "list"
    <3>1. r.out = {} /\ {w \in r.aim : r.before[w] # NoRow} \ Here(r) = {}
      BY <2>1 DEF New
    <3> QED BY <2>1, <3>1 DEF Answers
  <2>2. CASE ~(r.flow = "index" /\ r.pc # "list")
    BY <2>2 DEF Answers, New
  <2> QED BY <2>1, <2>2
<1>4. Held(r) /\ ~Puttings(r)
  BY DEF Held, Puttings
<1> QED BY <1>1, <1>2, <1>3, <1>4, NewArrives

LEMMA OverwriteArrives ==
    ASSUME NEW r, New(r), format # "oci", r.flow = "overwrite", r.ver # Doc, r.source # "pull",
           r.vers = {}, ~r.tail, r.pc = IF r.data = NoData THEN "save" ELSE "blob",
           r.row.files = {}, r.row.source = r.source, r.row.notes = {}
    PROVE  Arrived(r)
<1>1. r \in Request /\ DigestsOf(r.row) = {}
  BY NullAssumption, RequestTypes DEF New, DigestsOf
<1>2. Formed(r)
  BY <1>1 DEF Formed, WalkFits, FileFits, NoteFits, ImageFits, Here, Numbered, Walking, OnImages, OnFiles
<1>3. Pending(r) = Vers
  BY DEF Pending
<1>4. Built(r)
  <2>1. ASSUME r.pc = "save" PROVE r.row = Promised(r, r.ver)
    <3>1. FileOf(r) = {} /\ r.row \in Row
      BY <1>1, <2>1, RequestTypes DEF FileOf
    <3> DEFINE p == Promised(r, r.ver)
    <3>2. p \in Row /\ p.files = {} /\ p.source = r.source /\ p.notes = {}
      BY <1>1, <3>1, PromisedOverwrite
    <3> HIDE DEF p
    <3>3. r.row = p
      BY <3>1, <3>2, SameRow
    <3> QED BY <3>3 DEF p
  <2> QED BY <2>1 DEF Built
<1>5. Missing(r) /\ Answers(r) /\ ~Puttings(r)
  BY DEF Missing, Answers, Puttings
<1>6. Held(r)
  BY <1>1 DEF Held
<1> QED BY <1>2, <1>3, <1>4, <1>5, <1>6, NewArrives

LEMMA MergeArrives ==
    ASSUME NEW r, New(r), format # "oci", r.flow = "merge", r.ver # Doc, r.source # "pull",
           r.vers = {}, ~r.tail,
           \/ r.pc = "load" /\ r.note = NoData
           \/ r.pc = "rev" /\ r.note \in Notes
    PROVE  Arrived(r)
<1>1. r \in Request
  BY DEF New
<1>2. Formed(r)
  BY <1>1 DEF Formed, WalkFits, FileFits, NoteFits, ImageFits, Here, Numbered, Walking, OnImages, OnFiles
<1>3. \A w \in Vers \ Pending(r) : Promised(r, w) = r.before[w]
  BY <1>1, PromisedMerge, Zenon DEF Pending
<1> QED BY <1>2, <1>3, ReaderArrives

\* One version that is removed, or all that are listed, and the document.
LEMMA RemoveArrives ==
    ASSUME NEW r, New(r), r.flow \in {"remove", "drop"}, r.vers = {},
           r.tail => r.flow = "remove" /\ Doc \in r.aim,
           \/ r.pc = "list"
           \/ /\ r.pc \in {"load", "check", "drop"} /\ (r.pc = "check" => ~r.tail)
              /\ r.ver \in r.aim /\ r.aim \subseteq {r.ver} \cup (IF r.tail THEN {Doc} ELSE {})
    PROVE  Arrived(r)
<1>1. r \in Request /\ Here(r) = {r.ver}
  BY DEF New, Here
<1>2. Formed(r)
  BY <1>1, Zenon DEF Formed, WalkFits, FileFits, NoteFits, ImageFits, Numbered, Walking, OnImages, OnFiles
<1>3. \A w \in Vers \ Pending(r) : Promised(r, w) = r.before[w]
  BY <1>1, PromisedOther DEF Pending
<1> QED BY <1>2, <1>3, ReaderArrives

LEMMA PruneArrives ==
    ASSUME NEW r, New(r), format # "oci", r.flow = "prune", r.ver # Doc, r.vers = {}, ~r.tail,
           r.data = NoData, r.pc = "load"
    PROVE  Arrived(r)
<1>1. r \in Request
  BY DEF New
<1>2. Formed(r)
  BY <1>1 DEF Formed, WalkFits, FileFits, NoteFits, ImageFits, Here, Numbered, Walking, OnImages, OnFiles
<1>3. \A w \in Vers \ Pending(r) : Promised(r, w) = r.before[w]
  BY DEF Pending
<1> QED BY <1>2, <1>3, ReaderArrives

LEMMA EditArrives ==
    ASSUME NEW r, New(r), format # "oci", r.flow = "edit", r.ver = Doc, r.vers = {}, ~r.tail,
           r.note \in Notes, r.row.files = {}, r.row.source = "",
           \/ r.pc = "load" /\ r.note[2] = Doc
           \/ r.pc = "check" /\ r.note[2] # Doc
    PROVE  Arrived(r)
<1>1. r \in Request
  BY Zenon DEF New
<1>2. Formed(r)
  BY <1>1, Zenon DEF Formed, WalkFits, FileFits, NoteFits, ImageFits, Here, Numbered, Walking, OnImages, OnFiles
<1>3. \A w \in Vers \ Pending(r) : Promised(r, w) = r.before[w]
  BY Zenon DEF Pending
<1> QED BY <1>2, <1>3, ReaderArrives, Zenon

LEMMA TagArrives ==
    ASSUME NEW r, New(r), format # "oci", r.flow = "tag", r.ver = Doc, r.vers = {}, ~r.tail,
           r.note \in Notes, r.row.files = {}, r.row.source = "", r.pc = "list"
    PROVE  Arrived(r)
<1>1. r \in Request
  BY Zenon DEF New
<1>2. Formed(r)
  BY <1>1, Zenon DEF Formed, WalkFits, FileFits, NoteFits, ImageFits, Here, Numbered, Walking, OnImages, OnFiles
<1>3. \A w \in Vers \ Pending(r) : Promised(r, w) = r.before[w]
  BY Zenon DEF Pending
<1> QED BY <1>2, <1>3, ReaderArrives, Zenon

LEMMA AmendArrives ==
    ASSUME NEW r, New(r), format # "oci", r.flow = "amend", r.aim = Here(r), r.ver \notin r.vers,
           Doc \notin r.aim, ~r.tail, r.note \in Notes, r.data = NoData, r.pc = "load"
    PROVE  Arrived(r)
<1>1. r \in Request
  BY DEF New
<1>2. Formed(r)
  BY <1>1 DEF Formed, WalkFits, FileFits, NoteFits, ImageFits, Numbered, Walking, OnImages, OnFiles
<1>3. \A w \in Vers \ Pending(r) : Promised(r, w) = r.before[w]
  BY <1>1, PromisedAmend DEF Pending
<1> QED BY <1>2, <1>3, ReaderArrives

LEMMA MarkArrives ==
    ASSUME NEW r, New(r), format # "oci", r.flow = "mark", r.vers = {}, ~r.tail,
           r.note \in Notes, r.pc = "rev"
    PROVE  Arrived(r)
<1>1. r \in Request
  BY DEF New
<1>2. Formed(r)
  BY <1>1 DEF Formed, WalkFits, FileFits, NoteFits, ImageFits, Here, Numbered, Walking, OnImages, OnFiles
<1>3. \A w \in Vers \ Pending(r) : Promised(r, w) = r.before[w]
  BY DEF Pending
<1> QED BY <1>2, <1>3, ReaderArrives

LEMMA ServeArrives ==
    ASSUME NEW r, New(r), format # "oci", r.flow \in {"serve", "head"}, r.ver # Doc, r.vers = {}, ~r.tail,
           r.note = NoData, r.pc \in {"list", "load"}
    PROVE  Arrived(r)
<1>1. r \in Request
  BY DEF New
<1>2. Formed(r)
  BY <1>1, NullAssumption, Zenon DEF Formed, WalkFits, FileFits, NoteFits, ImageFits, Here, Numbered, Walking, OnImages, OnFiles
<1>3. \A w \in Vers \ Pending(r) : Promised(r, w) = r.before[w]
  BY <1>1, PromisedOther
<1> QED BY <1>2, <1>3, ReaderArrives

LEMMA WipeArrives ==
    ASSUME NEW r, New(r), r.flow = "wipe", r.vers = {}, ~r.tail, r.pc = "drop"
    PROVE  Arrived(r)
<1>1. r \in Request
  BY DEF New
<1>2. Formed(r)
  BY <1>1 DEF Formed, WalkFits, FileFits, NoteFits, ImageFits, Here, Numbered, Walking, OnImages, OnFiles
<1>3. \A w \in Vers \ Pending(r) : Promised(r, w) = r.before[w]
  BY DEF Pending
<1> QED BY <1>2, <1>3, ReaderArrives

LEMMA ReadArrives ==
    ASSUME NEW r, New(r), r.flow \in {"index", "list"}, ~r.tail, r.flow = "list" => r.vers = {},
           r.pc = "list" \/ (r.flow = "index" /\ r.pc = "read" /\ r.aim = Here(r) /\ r.ver \notin r.vers)
    PROVE  Arrived(r)
<1>1. r \in Request
  BY DEF New
<1>2. Formed(r)
  BY <1>1, Zenon DEF Formed, WalkFits, FileFits, NoteFits, ImageFits, Numbered, Walking, OnImages, OnFiles
<1>3. \A w \in Vers \ Pending(r) : Promised(r, w) = r.before[w]
  BY <1>1, PromisedOther
<1> QED BY <1>2, <1>3, ReaderArrives

LEMMA ResolveArrives ==
    ASSUME NEW r, New(r), format = "oci", r.flow = "resolve", r.ver \in References, r.vers = {}, ~r.tail,
           r.file = TheFile, r.pc = "load",
           NEW m \in Manifests \cup {Doc}, r.note = Holds(m), r.ver \in Manifests => m \in {r.ver, Doc}
    PROVE  Arrived(r)
<1>1. r \in Request /\ r.ver # Doc
  BY VersAreNat DEF New
<1>2. Formed(r)
  BY <1>1 DEF Formed, WalkFits, FileFits, NoteFits, ImageFits, Here, Numbered, Walking, OnImages, OnFiles
<1>3. \A w \in Vers \ Pending(r) : Promised(r, w) = r.before[w]
  BY <1>1, PromisedOther
<1> QED BY <1>2, <1>3, ReaderArrives

LEMMA LayerArrives ==
    ASSUME NEW r, New(r), format = "oci", r.vers = {}, ~r.tail,
           \/ r.flow = "layer" /\ r.pc \in {"open", "blob"} /\ r.data # NoData
           \/ r.flow = "unlink" /\ r.pc = "cull"
    PROVE  Arrived(r)
<1>1. r \in Request
  BY DEF New
<1>2. Formed(r)
  BY <1>1, Zenon DEF Formed, WalkFits, FileFits, NoteFits, ImageFits, Here, Numbered, Walking, OnImages, OnFiles
<1>3. \A w \in Vers \ Pending(r) : Promised(r, w) = r.before[w]
  BY <1>1, PromisedOther
<1>4. Built(r) /\ Missing(r) /\ Answers(r) /\ Held(r) /\ ~Puttings(r)
  BY Zenon DEF Built, Missing, Answers, Held, Puttings
<1> QED BY <1>2, <1>3, <1>4, NewArrives

LEMMA ImageArrives ==
    ASSUME TypeOK, format = "oci", NEW m \in Manifests, NEW v \in References, NEW S \in SUBSET References,
           NEW r, New(r), Putting(r, m, v, S, "push"),
           m \in {v} \cup S, (({v} \cup S) \cap Manifests) \subseteq {m}
    PROVE  Arrived(r)
<1>1. r \in Request /\ Here(r) = {v} \cup S /\ Doc \notin Here(r)
  BY VersAreNat DEF New, Here, Putting
<1>2. Formed(r)
  <2>1. WalkFits(r) /\ FileFits(r) /\ NoteFits(r)
    BY <1>1 DEF Putting, WalkFits, FileFits, NoteFits, Numbered, Walking
  <2>2. ImageFits(r)
    BY <1>1 DEF Putting, ImageFits, OnImages, OnFiles
  <2> QED BY <2>1, <2>2 DEF Formed
<1>3. \A w \in Vers \ Pending(r) : Promised(r, w) = r.before[w]
  BY <1>1, PromisedOther DEF Pending, Putting
<1>4. Built(r) /\ Missing(r) /\ Answers(r)
  BY DEF Built, Missing, Answers, Putting
<1>5. Exact(r)
  BY <1>3 DEF New, Exact
<1>6. \A n \in Manifests : r.note = Holds(n) => n \in Here(r)
  BY <1>1, HoldsNotes DEF Putting
<1> QED BY <1>1, <1>2, <1>4, <1>5, <1>6 DEF New, Arrived, Progress

LEMMA OverwriteAsked ==
    ASSUME TypeOK, format # "oci", NEW v \in Versions, NEW file \in Files, NEW d \in Body,
           NEW source \in {"push", ""}
    PROVE  Arrived(Overwrite(v, file, d, source))
<1> DEFINE p == IF d = NoData THEN "save" ELSE "blob"
           a == Ask("overwrite", v, p)
           w == [Blank EXCEPT !.source = source]
           x == [a EXCEPT !.file = file, !.data = d, !.source = source, !.row = w]
<1>1. Bare(a, "overwrite", v, p)
  <2>1. p \in Pcs /\ "overwrite" \in Flows /\ v \in Vers
    BY Zenon DEF Pcs, Flows, Writing, Vers
  <2> HIDE DEF p
  <2> QED BY <2>1, AskFields, Zenon
<1>2. Overwrite(v, file, d, source) = x
  BY Zenon DEF Overwrite
<1>3. w \in Row /\ w.files = {} /\ w.source = source /\ w.notes = {}
  BY Zenon DEF Row, Blank, Source
<1>4. p = IF d = NoData THEN "save" ELSE "blob"
  BY Zenon
<1> HIDE DEF p, a, w
<1>5. /\ New(x) /\ x.flow = "overwrite" /\ x.ver = v /\ x.data = d /\ x.source = source
      /\ x.vers = {} /\ ~x.tail /\ x.pc = p /\ x.row = w
  BY <1>1, <1>3, Zenon DEF Bare, Request, New, Body, Source
<1> HIDE DEF x
<1> QED BY <1>2, <1>3, <1>4, <1>5, OverwriteArrives, VersAreNat, Zenon

LEMMA MergeAsked ==
    ASSUME TypeOK, format # "oci", NEW v \in Versions, NEW file \in Files, NEW d \in Body,
           NEW source \in {"push", ""}
    PROVE  Arrived(Merge(v, file, d, source))
<1> DEFINE a == Ask("merge", v, "load")
           x == [a EXCEPT !.file = file, !.data = d, !.source = source]
<1>1. Bare(a, "merge", v, "load")
  BY AskFields, VersAreNat, Zenon DEF Flows, Writing, Pcs, Vers
<1>2. Merge(v, file, d, source) = x
  BY Zenon DEF Merge
<1> HIDE DEF a
<1>3. a \in Request
  BY <1>1, Zenon DEF Bare
<1>4. x \in Request
  BY <1>3, Zenon DEF Request, Body, Source
<1>5. New(x) /\ x.flow = "merge" /\ x.ver = v /\ x.source = source /\ x.pc = "load" /\ x.note = NoData /\ x.vers = {} /\ ~x.tail
  BY <1>1, <1>3, <1>4, Zenon DEF Bare, Request, New
<1> HIDE DEF x
<1> QED BY <1>2, <1>5, MergeArrives, VersAreNat, Zenon

LEMMA RevisionAsked ==
    ASSUME TypeOK, format # "oci", NEW v \in Versions, NEW file \in Files, NEW d \in Body
    PROVE  Arrived([ConanStoreFile(v, file, d) EXCEPT !.pc = "rev", !.note = ConanRev(v)])
<1> DEFINE a == Ask("merge", v, "load")
           n == ConanRev(v)
           x == [[a EXCEPT !.file = file, !.data = d, !.source = ""] EXCEPT !.pc = "rev", !.note = n]
<1>1. Bare(a, "merge", v, "load")
  BY AskFields, VersAreNat DEF Flows, Writing, Pcs, Vers
<1>2. [ConanStoreFile(v, file, d) EXCEPT !.pc = "rev", !.note = ConanRev(v)] = x
  BY DEF ConanStoreFile, Merge
<1>3. n \in Notes
  BY VersAreNat DEF ConanRev, Notes, Labels, Vers
<1> HIDE DEF a, n
<1>4. a \in Request
  BY <1>1, Zenon DEF Bare
<1>5. x \in Request
  BY <1>4, <1>3, Zenon DEF Request, Body, Source, Pcs
<1>6. New(x) /\ x.flow = "merge" /\ x.ver = v /\ x.source = "" /\ x.pc = "rev" /\ x.note = n /\ x.vers = {} /\ ~x.tail
  BY <1>1, <1>4, <1>5, Zenon DEF Bare, Request, New
<1> HIDE DEF x
<1> QED BY <1>2, <1>3, <1>6, MergeArrives, VersAreNat, Zenon

LEMMA RemoveAsked ==
    ASSUME TypeOK, NEW v \in Versions
    PROVE  Arrived(Remove(v))
<1> DEFINE a == Ask("remove", v, "load")
           A == {v}
           x == [a EXCEPT !.aim = A]
<1>1. Bare(a, "remove", v, "load")
  BY AskFields, VersAreNat DEF Flows, Writing, Pcs, Vers
<1>2. Remove(v) = x
  BY DEF Remove
<1>3. A \in SUBSET Vers /\ A = {v}
  BY DEF Vers
<1> HIDE DEF a, A
<1>4. a \in Request
  BY <1>1, Zenon DEF Bare
<1>5. x \in Request
  BY <1>4, <1>3 DEF Request
<1>6. New(x) /\ x.flow = "remove" /\ x.ver = v /\ x.pc = "load" /\ x.aim = A /\ x.vers = {} /\ ~x.tail
  BY <1>1, <1>4, <1>5, Zenon DEF Bare, Request, New
<1> HIDE DEF x
<1> QED BY <1>2, <1>3, <1>6, RemoveArrives

LEMMA RemoveCheckedAsked ==
    ASSUME TypeOK, NEW v \in Versions
    PROVE  Arrived([Remove(v) EXCEPT !.pc = "check"])
<1> DEFINE a == Ask("remove", v, "load")
           A == {v}
           x == [[a EXCEPT !.aim = A] EXCEPT !.pc = "check"]
<1>1. Bare(a, "remove", v, "load")
  BY AskFields, VersAreNat DEF Flows, Writing, Pcs, Vers
<1>2. [Remove(v) EXCEPT !.pc = "check"] = x
  BY DEF Remove
<1>3. A \in SUBSET Vers /\ A = {v}
  BY DEF Vers
<1> HIDE DEF a, A
<1>4. a \in Request
  BY <1>1, Zenon DEF Bare
<1>5. x \in Request
  BY <1>4, <1>3 DEF Request, Pcs
<1>6. New(x) /\ x.flow = "remove" /\ x.ver = v /\ x.pc = "check" /\ x.aim = A /\ x.vers = {} /\ ~x.tail
  BY <1>1, <1>4, <1>5, Zenon DEF Bare, Request, New
<1> HIDE DEF x
<1> QED BY <1>2, <1>3, <1>6, RemoveArrives

LEMMA RecipeAsked ==
    ASSUME TypeOK, NEW v \in Versions
    PROVE  Arrived(ConanDropArtifact(v))
<1> DEFINE a == Ask("remove", v, "load")
           A == {v}
           B == {v, Doc}
           x == [[a EXCEPT !.aim = A] EXCEPT !.aim = B, !.tail = TRUE]
<1>1. Bare(a, "remove", v, "load")
  BY AskFields, VersAreNat DEF Flows, Writing, Pcs, Vers
<1>2. ConanDropArtifact(v) = x
  BY DEF ConanDropArtifact, Remove
<1>3. B \in SUBSET Vers /\ B = {v, Doc}
  BY VersAreNat DEF Vers
<1> HIDE DEF a, A, B
<1>4. a \in Request
  BY <1>1, Zenon DEF Bare
<1>5. x \in Request
  BY <1>4, <1>3 DEF Request
<1>6. New(x) /\ x.flow = "remove" /\ x.ver = v /\ x.pc = "load" /\ x.aim = B /\ x.vers = {} /\ x.tail
  BY <1>1, <1>4, <1>5, Zenon DEF Bare, Request, New
<1> HIDE DEF x
<1> QED BY <1>2, <1>3, <1>6, RemoveArrives

LEMMA RemoveAllAsked ==
    ASSUME TypeOK
    PROVE  Arrived(RemoveAll)
<1> DEFINE a == Ask("remove", Doc, "list")
           x == [a EXCEPT !.aim = Vers]
<1>1. Bare(a, "remove", Doc, "list")
  BY AskFields, VersAreNat DEF Flows, Writing, Pcs, Vers
<1>2. RemoveAll = x
  BY DEF RemoveAll
<1> HIDE DEF a
<1>3. a \in Request
  BY <1>1, Zenon DEF Bare
<1>4. x \in Request
  BY <1>3 DEF Request
<1>5. New(x) /\ x.flow = "remove" /\ x.pc = "list" /\ x.vers = {} /\ ~x.tail
  BY <1>1, <1>3, <1>4, Zenon DEF Bare, Request, New
<1> HIDE DEF x
<1> QED BY <1>2, <1>5, RemoveArrives

LEMMA RemovePackageAsked ==
    ASSUME TypeOK
    PROVE  Arrived(NpmRemovePackage)
<1> DEFINE a == Ask("remove", Doc, "list")
           x == [[a EXCEPT !.aim = Vers] EXCEPT !.tail = TRUE]
<1>1. Bare(a, "remove", Doc, "list")
  BY AskFields, VersAreNat DEF Flows, Writing, Pcs, Vers
<1>2. NpmRemovePackage = x
  BY DEF NpmRemovePackage, RemoveAll
<1> HIDE DEF a
<1>3. a \in Request
  BY <1>1, Zenon DEF Bare
<1>4. x \in Request
  BY <1>3 DEF Request
<1>5. New(x) /\ x.flow = "remove" /\ x.pc = "list" /\ x.aim = Vers /\ x.vers = {} /\ x.tail
  BY <1>1, <1>3, <1>4, Zenon DEF Bare, Request, New
<1> HIDE DEF x
<1> QED BY <1>2, <1>5, RemoveArrives, VersAreNat

LEMMA ReconcileAsked ==
    ASSUME TypeOK, NEW keep \in SUBSET Versions
    PROVE  Arrived(NpmReconcileVersions(keep))
<1> DEFINE a == Ask("remove", Doc, "list")
           A == Vers \ keep
           x == [[a EXCEPT !.aim = Vers] EXCEPT !.aim = A]
<1>1. Bare(a, "remove", Doc, "list")
  BY AskFields, VersAreNat DEF Flows, Writing, Pcs, Vers
<1>2. NpmReconcileVersions(keep) = x
  BY DEF NpmReconcileVersions, RemoveAll
<1>3. A \in SUBSET Vers
  OBVIOUS
<1> HIDE DEF a, A
<1>4. a \in Request
  BY <1>1, Zenon DEF Bare
<1>5. x \in Request
  BY <1>4, <1>3 DEF Request
<1>6. New(x) /\ x.flow = "remove" /\ x.pc = "list" /\ x.vers = {} /\ ~x.tail
  BY <1>1, <1>4, <1>5, Zenon DEF Bare, Request, New
<1> HIDE DEF x
<1> QED BY <1>2, <1>3, <1>6, RemoveArrives

LEMMA PruneAsked ==
    ASSUME TypeOK, format # "oci", NEW v \in Versions, NEW file \in Files
    PROVE  Arrived(Prune(v, file))
<1> DEFINE a == Ask("prune", v, "load")
           x == [a EXCEPT !.file = file]
<1>1. Bare(a, "prune", v, "load")
  BY AskFields, VersAreNat DEF Flows, Writing, Pcs, Vers
<1>2. Prune(v, file) = x
  BY DEF Prune
<1> HIDE DEF a
<1>3. a \in Request
  BY <1>1, Zenon DEF Bare
<1>4. x \in Request
  BY <1>3 DEF Request
<1>5. New(x) /\ x.flow = "prune" /\ x.ver = v /\ x.pc = "load" /\ x.data = NoData /\ x.vers = {} /\ ~x.tail
  BY <1>1, <1>3, <1>4, Zenon DEF Bare, Request, New
<1> HIDE DEF x
<1> QED BY <1>2, <1>5, PruneArrives, VersAreNat

LEMMA DownloadAsked ==
    ASSUME TypeOK, format # "oci", NEW v \in Versions, NEW file \in Files, NEW d \in Body,
           NEW store \in Stores, NEW keep \in BOOLEAN
    PROVE  Arrived(Download(v, file, d, store, keep))
<1> DEFINE a == Ask("serve", v, "load")
           x == [a EXCEPT !.file = file, !.data = d, !.store = store, !.keep = keep]
<1>1. Bare(a, "serve", v, "load")
  BY AskFields, VersAreNat DEF Flows, Writing, Pcs, Vers
<1>2. Download(v, file, d, store, keep) = x
  BY DEF Download
<1> HIDE DEF a
<1>3. a \in Request
  BY <1>1, Zenon DEF Bare
<1>4. x \in Request
  BY <1>3 DEF Request, Body
<1>5. New(x) /\ x.flow = "serve" /\ x.ver = v /\ x.pc = "load" /\ x.note = NoData /\ x.vers = {} /\ ~x.tail
  BY <1>1, <1>3, <1>4, Zenon DEF Bare, Request, New
<1> HIDE DEF x
<1> QED BY <1>2, <1>5, ServeArrives, VersAreNat

LEMMA ListedDownloadAsked ==
    ASSUME TypeOK, format # "oci", NEW v \in Versions, NEW file \in Files, NEW d \in Body,
           NEW store \in Stores, NEW keep \in BOOLEAN
    PROVE  Arrived([Download(v, file, d, store, keep) EXCEPT !.pc = "list"])
<1> DEFINE a == Ask("serve", v, "load")
           x == [[a EXCEPT !.file = file, !.data = d, !.store = store, !.keep = keep] EXCEPT !.pc = "list"]
<1>1. Bare(a, "serve", v, "load")
  BY AskFields, VersAreNat DEF Flows, Writing, Pcs, Vers
<1>2. [Download(v, file, d, store, keep) EXCEPT !.pc = "list"] = x
  BY DEF Download
<1> HIDE DEF a
<1>3. a \in Request
  BY <1>1, Zenon DEF Bare
<1>4. x \in Request
  BY <1>3 DEF Request, Body, Pcs
<1>5. New(x) /\ x.flow = "serve" /\ x.ver = v /\ x.pc = "list" /\ x.note = NoData /\ x.vers = {} /\ ~x.tail
  BY <1>1, <1>3, <1>4, Zenon DEF Bare, Request, New
<1> HIDE DEF x
<1> QED BY <1>2, <1>5, ServeArrives, VersAreNat

LEMMA HeadAsked ==
    ASSUME TypeOK, format # "oci", NEW v \in Versions, NEW file \in Files, NEW d \in Body,
           NEW store \in Stores, NEW keep \in BOOLEAN
    PROVE  Arrived([Download(v, file, d, store, keep) EXCEPT !.flow = "head"])
<1> DEFINE a == Ask("serve", v, "load")
           x == [[a EXCEPT !.file = file, !.data = d, !.store = store, !.keep = keep] EXCEPT !.flow = "head"]
<1>1. Bare(a, "serve", v, "load")
  BY AskFields, VersAreNat DEF Flows, Writing, Pcs, Vers
<1>2. [Download(v, file, d, store, keep) EXCEPT !.flow = "head"] = x
  BY DEF Download
<1> HIDE DEF a
<1>3. a \in Request
  BY <1>1, Zenon DEF Bare
<1>4. x \in Request
  BY <1>3, Zenon DEF Request, Body, Flows, Writing
<1>5. New(x) /\ x.flow = "head" /\ x.ver = v /\ x.pc = "load" /\ x.note = NoData /\ x.vers = {} /\ ~x.tail
  BY <1>1, <1>3, <1>4, Zenon DEF Bare, Request, New
<1> HIDE DEF x
<1> QED BY <1>2, <1>5, ServeArrives, VersAreNat

LEMMA OwnersAsked ==
    ASSUME TypeOK, format # "oci", NEW add \in BOOLEAN
    PROVE  Arrived(CargoMeta(<<"owners", Doc>>, add))
<1> DEFINE a == Ask("edit", Doc, "load")
           n == <<"owners", Doc>>
           x == [a EXCEPT !.note = n, !.add = add]
<1>1. Bare(a, "edit", Doc, "load")
  BY AskFields, VersAreNat DEF Flows, Writing, Pcs, Vers
<1>2. CargoMeta(<<"owners", Doc>>, add) = x
  BY DEF CargoMeta
<1>3. n \in Notes /\ n[2] = Doc
  BY VersAreNat DEF Notes, Labels
<1> HIDE DEF a, n
<1>4. a \in Request
  BY <1>1, Zenon DEF Bare
<1>5. x \in Request
  BY <1>4, <1>3 DEF Request
<1>6. New(x) /\ x.flow = "edit" /\ x.ver = Doc /\ x.pc = "load" /\ x.note = n /\ x.row = Blank /\ x.vers = {} /\ ~x.tail
  BY <1>1, <1>4, <1>5, Zenon DEF Bare, Request, New
<1> HIDE DEF x
<1> QED BY <1>2, <1>3, <1>6, EditArrives, BlankFields, Zenon

LEMMA YankedAsked ==
    ASSUME TypeOK, format # "oci", NEW v \in Versions, NEW add \in BOOLEAN
    PROVE  Arrived(CargoSetYanked(v, add))
<1> DEFINE a == Ask("edit", Doc, "load")
           n == <<"yanked", v>>
           x == [[a EXCEPT !.note = n, !.add = add] EXCEPT !.pc = "check"]
<1>1. Bare(a, "edit", Doc, "load")
  BY AskFields, VersAreNat DEF Flows, Writing, Pcs, Vers
<1>2. CargoSetYanked(v, add) = x
  BY DEF CargoSetYanked, CargoMeta
<1>3. n \in Notes /\ n[2] # Doc
  BY VersAreNat DEF Notes, Labels, Vers
<1> HIDE DEF a, n
<1>4. a \in Request
  BY <1>1, Zenon DEF Bare
<1>5. x \in Request
  BY <1>4, <1>3 DEF Request, Pcs
<1>6. New(x) /\ x.flow = "edit" /\ x.ver = Doc /\ x.pc = "check" /\ x.note = n /\ x.row = Blank /\ x.vers = {} /\ ~x.tail
  BY <1>1, <1>4, <1>5, Zenon DEF Bare, Request, New
<1> HIDE DEF x
<1> QED BY <1>2, <1>3, <1>6, EditArrives, BlankFields, Zenon

LEMMA TagAsked ==
    ASSUME TypeOK, format # "oci", NEW n \in Notes, NEW add \in BOOLEAN
    PROVE  Arrived(NpmTag(n, add))
<1> DEFINE a == Ask("tag", Doc, "list")
           x == [a EXCEPT !.note = n, !.add = add]
<1>1. Bare(a, "tag", Doc, "list")
  BY AskFields, VersAreNat DEF Flows, Writing, Pcs, Vers
<1>2. NpmTag(n, add) = x
  BY DEF NpmTag
<1> HIDE DEF a
<1>3. a \in Request
  BY <1>1, Zenon DEF Bare
<1>4. x \in Request
  BY <1>3 DEF Request
<1>5. New(x) /\ x.flow = "tag" /\ x.ver = Doc /\ x.pc = "list" /\ x.note = n /\ x.row = Blank /\ x.vers = {} /\ ~x.tail
  BY <1>1, <1>3, <1>4, Zenon DEF Bare, Request, New
<1> HIDE DEF x
<1> QED BY <1>2, <1>5, TagArrives, BlankFields, Zenon

LEMMA MarkAsked ==
    ASSUME TypeOK, format # "oci", NEW v \in Versions
    PROVE  Arrived([Ask("mark", v, "rev") EXCEPT !.note = ConanRev(v)])
<1> DEFINE a == Ask("mark", v, "rev")
           n == ConanRev(v)
           x == [a EXCEPT !.note = n]
<1>1. Bare(a, "mark", v, "rev")
  BY AskFields, VersAreNat DEF Flows, Writing, Pcs, Vers
<1>2. [Ask("mark", v, "rev") EXCEPT !.note = ConanRev(v)] = x
  OBVIOUS
<1>3. n \in Notes
  BY VersAreNat DEF ConanRev, Notes, Labels, Vers
<1> HIDE DEF a, n
<1>4. a \in Request
  BY <1>1, Zenon DEF Bare
<1>5. x \in Request
  BY <1>4, <1>3 DEF Request
<1>6. New(x) /\ x.flow = "mark" /\ x.pc = "rev" /\ x.note = n /\ x.vers = {} /\ ~x.tail
  BY <1>1, <1>4, <1>5, Zenon DEF Bare, Request, New
<1> HIDE DEF x
<1> QED BY <1>2, <1>3, <1>6, MarkArrives

LEMMA DropAllAsked ==
    ASSUME TypeOK
    PROVE  Arrived([Ask("drop", Doc, "list") EXCEPT !.aim = Vers])
<1> DEFINE a == Ask("drop", Doc, "list")
           x == [a EXCEPT !.aim = Vers]
<1>1. Bare(a, "drop", Doc, "list")
  BY AskFields, VersAreNat DEF Flows, Writing, Pcs, Vers
<1>2. [Ask("drop", Doc, "list") EXCEPT !.aim = Vers] = x
  OBVIOUS
<1> HIDE DEF a
<1>3. a \in Request
  BY <1>1, Zenon DEF Bare
<1>4. x \in Request
  BY <1>3 DEF Request
<1>5. New(x) /\ x.flow = "drop" /\ x.pc = "list" /\ x.vers = {} /\ ~x.tail
  BY <1>1, <1>3, <1>4, Zenon DEF Bare, Request, New
<1> HIDE DEF x
<1> QED BY <1>2, <1>5, RemoveArrives

LEMMA ListingAsked ==
    ASSUME TypeOK
    PROVE  Arrived(Listing)
<1> DEFINE a == Ask("list", Doc, "list")
           x == [a EXCEPT !.aim = Vers]
<1>1. Bare(a, "list", Doc, "list")
  BY AskFields, VersAreNat DEF Flows, Writing, Pcs, Vers
<1>2. Listing = x
  BY DEF Listing
<1> HIDE DEF a
<1>3. a \in Request
  BY <1>1, Zenon DEF Bare
<1>4. x \in Request
  BY <1>3 DEF Request
<1>5. New(x) /\ x.flow = "list" /\ x.pc = "list" /\ x.vers = {} /\ ~x.tail
  BY <1>1, <1>3, <1>4, Zenon DEF Bare, Request, New
<1> HIDE DEF x
<1> QED BY <1>2, <1>5, ReadArrives

LEMMA ListingOfAsked ==
    ASSUME TypeOK, NEW A \in SUBSET Vers
    PROVE  Arrived([Listing EXCEPT !.aim = A])
<1> DEFINE a == Ask("list", Doc, "list")
           x == [[a EXCEPT !.aim = Vers] EXCEPT !.aim = A]
<1>1. Bare(a, "list", Doc, "list")
  BY AskFields, VersAreNat DEF Flows, Writing, Pcs, Vers
<1>2. [Listing EXCEPT !.aim = A] = x
  BY DEF Listing
<1> HIDE DEF a
<1>3. a \in Request
  BY <1>1, Zenon DEF Bare
<1>4. x \in Request
  BY <1>3 DEF Request
<1>5. New(x) /\ x.flow = "list" /\ x.pc = "list" /\ x.vers = {} /\ ~x.tail
  BY <1>1, <1>3, <1>4, Zenon DEF Bare, Request, New
<1> HIDE DEF x
<1> QED BY <1>2, <1>5, ReadArrives

LEMMA SourcesAsked ==
    ASSUME TypeOK, NEW A \in SUBSET Vers, NEW source \in Source
    PROVE  Arrived([Listing EXCEPT !.aim = A, !.source = source])
<1> DEFINE a == Ask("list", Doc, "list")
           x == [[a EXCEPT !.aim = Vers] EXCEPT !.aim = A, !.source = source]
<1>1. Bare(a, "list", Doc, "list")
  BY AskFields, VersAreNat DEF Flows, Writing, Pcs, Vers
<1>2. [Listing EXCEPT !.aim = A, !.source = source] = x
  BY DEF Listing
<1> HIDE DEF a
<1>3. a \in Request
  BY <1>1, Zenon DEF Bare
<1>4. x \in Request
  BY <1>3, Zenon DEF Request, Source
<1>5. New(x) /\ x.flow = "list" /\ x.pc = "list" /\ x.vers = {} /\ ~x.tail
  BY <1>1, <1>3, <1>4, Zenon DEF Bare, Request, New
<1> HIDE DEF x
<1> QED BY <1>2, <1>5, ReadArrives

LEMMA IndexAsked ==
    ASSUME TypeOK, NEW A \in SUBSET Vers
    PROVE  Arrived([Ask("index", Doc, "list") EXCEPT !.aim = A])
<1> DEFINE a == Ask("index", Doc, "list")
           x == [a EXCEPT !.aim = A]
<1>1. Bare(a, "index", Doc, "list")
  BY AskFields, VersAreNat DEF Flows, Writing, Pcs, Vers
<1>2. [Ask("index", Doc, "list") EXCEPT !.aim = A] = x
  OBVIOUS
<1> HIDE DEF a
<1>3. a \in Request
  BY <1>1, Zenon DEF Bare
<1>4. x \in Request
  BY <1>3 DEF Request
<1>5. New(x) /\ x.flow = "index" /\ x.pc = "list" /\ x.vers = {} /\ ~x.tail
  BY <1>1, <1>3, <1>4, Zenon DEF Bare, Request, New
<1> HIDE DEF x
<1> QED BY <1>2, <1>5, ReadArrives

\* A walk over the versions of S, from the least.
LEMMA FromLeast ==
    ASSUME NEW S \in SUBSET Vers, S # {}
    PROVE  /\ Least(S) \in S /\ Least(S) \in Vers /\ (S \ {Least(S)}) \in SUBSET Vers
           /\ {Least(S)} \cup (S \ {Least(S)}) = S /\ Least(S) \notin S \ {Least(S)}
BY LeastVersion

LEMMA ReadRowsAsked ==
    ASSUME TypeOK, NEW S \in SUBSET Vers, S # {}
    PROVE  Arrived(ReadRows(S))
<1> DEFINE l == Least(S)
           T == S \ {l}
           a == Ask("index", l, "read")
           x == [a EXCEPT !.aim = S, !.vers = T]
<1>1. l \in Vers /\ T \in SUBSET Vers /\ {l} \cup T = S /\ l \notin T
  BY FromLeast DEF Vers
<1>2. ReadRows(S) = x
  BY DEF ReadRows
<1> HIDE DEF l, T
<1>3. Bare(a, "index", l, "read")
  BY <1>1, AskFields DEF Flows, Writing, Pcs
<1> HIDE DEF a
<1>4. S \in SUBSET Vers
  BY <1>1
<1>5. New(x) /\ x.flow = "index" /\ x.ver = l /\ x.pc = "read" /\ x.aim = S /\ x.vers = T /\ ~x.tail
  BY <1>1, <1>3, <1>4, Zenon DEF Bare, Request, New
<1> HIDE DEF x
<1>6. Here(x) = S /\ x.ver \notin x.vers
  BY <1>1, <1>5 DEF Here
<1> QED BY <1>2, <1>5, <1>6, ReadArrives

Deprecation(S, add) ==
    [Ask("amend", Least(S), "load")
       EXCEPT !.note = <<"deprecated", Doc>>, !.add = add, !.aim = S, !.vers = S \ {Least(S)}]

LEMMA DeprecateAsked ==
    ASSUME TypeOK, format # "oci", NEW S \in SUBSET Versions, S # {}, NEW add \in BOOLEAN
    PROVE  Arrived(Deprecation(S, add))
<1> DEFINE l == Least(S)
           T == S \ {l}
           a == Ask("amend", l, "load")
           n == <<"deprecated", Doc>>
           x == [a EXCEPT !.note = n, !.add = add, !.aim = S, !.vers = T]
<1>1. l \in Vers /\ T \in SUBSET Vers /\ {l} \cup T = S /\ l \notin T
  BY FromLeast DEF Vers
<1>2. Deprecation(S, add) = x
  BY DEF Deprecation
<1>3. n \in Notes
  BY VersAreNat DEF Notes, Labels
<1> HIDE DEF l, T
<1>4. Bare(a, "amend", l, "load")
  BY <1>1, AskFields DEF Flows, Writing, Pcs
<1> HIDE DEF a, n
<1>5. S \in SUBSET Vers
  BY <1>1
<1>6. New(x) /\ x.flow = "amend" /\ x.ver = l /\ x.pc = "load" /\ x.aim = S /\ x.vers = T /\ ~x.tail
      /\ x.note = n /\ x.data = NoData
  BY <1>1, <1>3, <1>4, <1>5, Zenon DEF Bare, Request, New
<1> HIDE DEF x
<1>7. Here(x) = S /\ x.ver \notin x.vers
  BY <1>1, <1>6 DEF Here
<1> QED BY <1>2, <1>3, <1>6, <1>7, AmendArrives, VersAreNat

LEMMA ResolveAsked ==
    ASSUME TypeOK, format = "oci", NEW v \in References, NEW m \in Manifests \cup {Doc},
           v \in Manifests => m \in {v, Doc}
    PROVE  Arrived([Ask("resolve", v, "load") EXCEPT !.note = Holds(m)])
<1> DEFINE a == Ask("resolve", v, "load")
           n == Holds(m)
           x == [a EXCEPT !.note = n]
<1>1. Bare(a, "resolve", v, "load")
  BY AskFields, VersAreNat DEF Flows, Writing, Pcs, Vers
<1>2. [Ask("resolve", v, "load") EXCEPT !.note = Holds(m)] = x
  OBVIOUS
<1>3. n \in Notes /\ n = Holds(m)
  BY HoldsNotes
<1> HIDE DEF a, n
<1>4. a \in Request
  BY <1>1, Zenon DEF Bare
<1>5. x \in Request
  BY <1>4, <1>3 DEF Request
<1>6. New(x) /\ x.flow = "resolve" /\ x.ver = v /\ x.pc = "load" /\ x.file = TheFile /\ x.note = n /\ x.vers = {} /\ ~x.tail
  BY <1>1, <1>4, <1>5, Zenon DEF Bare, Request, New
<1> HIDE DEF x
<1> QED BY <1>2, <1>3, <1>6, ResolveArrives

LEMMA UntagAsked ==
    ASSUME TypeOK, NEW v \in References
    PROVE  Arrived([Ask("drop", v, "drop") EXCEPT !.aim = {v}])
<1> DEFINE a == Ask("drop", v, "drop")
           A == {v}
           x == [a EXCEPT !.aim = A]
<1>1. Bare(a, "drop", v, "drop")
  BY AskFields, VersAreNat DEF Flows, Writing, Pcs, Vers
<1>2. [Ask("drop", v, "drop") EXCEPT !.aim = {v}] = x
  OBVIOUS
<1>3. A \in SUBSET Vers /\ A = {v}
  BY DEF Vers
<1> HIDE DEF a, A
<1>4. a \in Request
  BY <1>1, Zenon DEF Bare
<1>5. x \in Request
  BY <1>4, <1>3 DEF Request
<1>6. New(x) /\ x.flow = "drop" /\ x.ver = v /\ x.pc = "drop" /\ x.aim = A /\ x.vers = {} /\ ~x.tail
  BY <1>1, <1>4, <1>5, Zenon DEF Bare, Request, New
<1> HIDE DEF x
<1> QED BY <1>2, <1>3, <1>6, RemoveArrives

LEMMA BlobAsked ==
    ASSUME TypeOK, format = "oci", NEW d \in Digests, NEW keep \in BOOLEAN
    PROVE  Arrived([Ask("layer", Doc, "open") EXCEPT !.data = d, !.keep = keep])
<1> DEFINE a == Ask("layer", Doc, "open")
           x == [a EXCEPT !.data = d, !.keep = keep]
<1>1. Bare(a, "layer", Doc, "open")
  BY AskFields, VersAreNat DEF Flows, Writing, Pcs, Vers
<1>2. [Ask("layer", Doc, "open") EXCEPT !.data = d, !.keep = keep] = x
  OBVIOUS
<1> HIDE DEF a
<1>3. a \in Request
  BY <1>1, Zenon DEF Bare
<1>4. x \in Request
  BY <1>3 DEF Request
<1>5. New(x) /\ x.flow = "layer" /\ x.pc = "open" /\ x.data = d /\ x.vers = {} /\ ~x.tail
  BY <1>1, <1>3, <1>4, Zenon DEF Bare, Request, New
<1> HIDE DEF x
<1> QED BY <1>2, <1>5, LayerArrives, ConstAssumption

LEMMA StatAsked ==
    ASSUME TypeOK, format = "oci", NEW d \in Digests
    PROVE  Arrived([Ask("layer", Doc, "open") EXCEPT !.data = d])
<1> DEFINE a == Ask("layer", Doc, "open")
           x == [a EXCEPT !.data = d]
<1>1. Bare(a, "layer", Doc, "open")
  BY AskFields, VersAreNat DEF Flows, Writing, Pcs, Vers
<1>2. [Ask("layer", Doc, "open") EXCEPT !.data = d] = x
  OBVIOUS
<1> HIDE DEF a
<1>3. a \in Request
  BY <1>1, Zenon DEF Bare
<1>4. x \in Request
  BY <1>3 DEF Request
<1>5. New(x) /\ x.flow = "layer" /\ x.pc = "open" /\ x.data = d /\ x.vers = {} /\ ~x.tail
  BY <1>1, <1>3, <1>4, Zenon DEF Bare, Request, New
<1> HIDE DEF x
<1> QED BY <1>2, <1>5, LayerArrives, ConstAssumption

LEMMA PostAsked ==
    ASSUME TypeOK, format = "oci", NEW d \in Digests
    PROVE  Arrived([Ask("layer", Doc, "blob") EXCEPT !.data = d, !.keep = TRUE])
<1> DEFINE a == Ask("layer", Doc, "blob")
           x == [a EXCEPT !.data = d, !.keep = TRUE]
<1>1. Bare(a, "layer", Doc, "blob")
  BY AskFields, VersAreNat DEF Flows, Writing, Pcs, Vers
<1>2. [Ask("layer", Doc, "blob") EXCEPT !.data = d, !.keep = TRUE] = x
  OBVIOUS
<1> HIDE DEF a
<1>3. a \in Request
  BY <1>1, Zenon DEF Bare
<1>4. x \in Request
  BY <1>3 DEF Request
<1>5. New(x) /\ x.flow = "layer" /\ x.pc = "blob" /\ x.data = d /\ x.vers = {} /\ ~x.tail
  BY <1>1, <1>3, <1>4, Zenon DEF Bare, Request, New
<1> HIDE DEF x
<1> QED BY <1>2, <1>5, LayerArrives, ConstAssumption

LEMMA UnlinkAsked ==
    ASSUME TypeOK, format = "oci", NEW d \in Digests
    PROVE  Arrived([Ask("unlink", Doc, "cull") EXCEPT !.todo = {d}])
<1> DEFINE a == Ask("unlink", Doc, "cull")
           D == {d}
           x == [a EXCEPT !.todo = D]
<1>1. Bare(a, "unlink", Doc, "cull")
  BY AskFields, VersAreNat DEF Flows, Writing, Pcs, Vers
<1>2. [Ask("unlink", Doc, "cull") EXCEPT !.todo = {d}] = x
  OBVIOUS
<1>3. D \in SUBSET Digests
  OBVIOUS
<1> HIDE DEF a, D
<1>4. a \in Request
  BY <1>1, Zenon DEF Bare
<1>5. x \in Request
  BY <1>4, <1>3 DEF Request
<1>6. New(x) /\ x.flow = "unlink" /\ x.pc = "cull" /\ x.vers = {} /\ ~x.tail
  BY <1>1, <1>4, <1>5, Zenon DEF Bare, Request, New
<1> HIDE DEF x
<1> QED BY <1>2, <1>3, <1>6, LayerArrives

LEMMA WipeAsked == ASSUME TypeOK PROVE Arrived(Ask("wipe", Doc, "drop"))
<1> DEFINE x == Ask("wipe", Doc, "drop")
<1>1. Bare(x, "wipe", Doc, "drop")
  BY AskFields, VersAreNat DEF Flows, Writing, Pcs
<1> HIDE DEF x
<1>2. New(x) /\ x.flow = "wipe" /\ x.pc = "drop" /\ x.vers = {} /\ ~x.tail
  BY <1>1, Zenon DEF Bare, New
<1>3. Arrived(x)
  BY <1>2, WipeArrives
<1> QED BY <1>3 DEF x

LEMMA ImageAsked ==
    ASSUME TypeOK, format = "oci", NEW m \in Manifests, NEW v \in References, NEW S \in SUBSET References,
           m \in {v} \cup S, (({v} \cup S) \cap Manifests) \subseteq {m}
    PROVE  Arrived(Image(m, v, S, "push"))
<1> DEFINE x == Image(m, v, S, "push")
<1>1. Putting(x, m, v, S, "push") /\ x.before = row /\ x.clean = TRUE
  BY ImageFields, Zenon DEF Source
<1>2. x.out = {}
  <2>1. Ask("image", v, "save").out = {}
    BY DEF Ask
  <2> QED BY DEF Image, Ask
<1> HIDE DEF x
<1>3. New(x)
  BY <1>1, <1>2 DEF New, Putting
<1>4. Arrived(x)
  BY <1>1, <1>3, ImageArrives
<1> QED BY <1>4 DEF x

-----------------------------------------------------------------------------
(* Every route asks for such a request. *)

Asks(c) == \E r : Arrived(r) /\ Begin(c, r)

LEMMA MetadataVersion == MavenMetadata \in Versions
<1>1. Versions \in SUBSET Vers /\ Versions # {}
  BY VersionsAssumption DEF Vers
<1> QED BY <1>1, GreatestVersion DEF MavenMetadata

LEMMA TagNotes == <<"latest", Doc>> \in Notes /\ \A v \in Versions : <<"latest", v>> \in Notes
BY VersAreNat DEF Notes, Labels, Vers

\* What is put of an image: under a tag and the digest, or the digest and tags.
LEMMA ImageSets ==
    ASSUME NEW m \in Manifests
    PROVE  /\ \A t \in Tags : /\ t \in References /\ {m} \in SUBSET References
                              /\ m \in {t} \cup {m} /\ ({t} \cup {m}) \cap Manifests \subseteq {m}
           /\ m \in References
           /\ \A S \in SUBSET Tags : /\ S \in SUBSET References
                                     /\ m \in {m} \cup S /\ ({m} \cup S) \cap Manifests \subseteq {m}
BY ManifestsAssumption DEF Tags

LEMMA CargoAsks ==
    ASSUME TypeOK, format # "oci", NEW c, CargoRequest(c)
    PROVE  Asks(c)
<1>1. CASE CargoPublish(c)
  BY <1>1, OverwriteAsked, TheFileIn, Zenon DEF Asks, CargoPublish, CargoPublishBody, CargoStoreVersion
<1>2. CASE CargoDownload(c)
  BY <1>2, DownloadAsked, TheFileIn DEF Asks, CargoDownload, Stores
<1>3. CASE CargoYank(c) \/ CargoUnyank(c)
  BY <1>3, YankedAsked DEF Asks, CargoYank, CargoUnyank
<1>4. CASE CargoAddOwners(c) \/ CargoRemoveOwners(c)
  BY <1>4, OwnersAsked DEF Asks, CargoAddOwners, CargoRemoveOwners
<1>5. CASE CargoListOwners(c)
  BY <1>5, ReadRowsAsked, VersAreNat DEF Asks, CargoListOwners
<1>6. CASE CargoSearch(c) \/ CargoCrate(c)
  BY <1>6, ListingAsked DEF Asks, CargoSearch, CargoCrate
<1>7. CASE CargoSparseIndex(c)
  BY <1>7, IndexAsked DEF Asks, CargoSparseIndex, Index
<1> QED BY <1>1, <1>2, <1>3, <1>4, <1>5, <1>6, <1>7 DEF CargoRequest

LEMMA NpmAsks ==
    ASSUME TypeOK, format # "oci", NEW c, NpmRequest(c)
    PROVE  Asks(c)
<1>1. CASE NpmPublish(c)
  BY <1>1, OverwriteAsked, TheFileIn, Zenon DEF Asks, NpmPublish, NpmStoreVersion
<1>2. CASE NpmTarball(c)
  BY <1>2, ListedDownloadAsked, TheFileIn DEF Asks, NpmTarball, Stores
<1>3. CASE NpmDelete(c)
  BY <1>3, RemoveAsked, RemovePackageAsked DEF Asks, NpmDelete, NpmRemoveVersion
<1>4. CASE NpmRev(c)
  BY <1>4, ReconcileAsked, RemovePackageAsked DEF Asks, NpmRev
<1>5. CASE NpmDeprecate(c)
  <2>1. PICK S \in SUBSET Versions, add \in BOOLEAN :
           \E r :
            S # {} /\ r = Deprecation(S, add) /\ Begin(c, r)
    BY <1>5, Zenon DEF NpmDeprecate, Deprecation
  <2>2. PICK r :
          S # {} /\ r = Deprecation(S, add) /\ Begin(c, r)
    BY <2>1
  <2>3. Arrived(r)
    BY <2>2, DeprecateAsked
  <2> QED BY <2>2, <2>3 DEF Asks
<1>6. CASE NpmDistTags(c)
  BY <1>6, TagAsked, TagNotes, IndexAsked DEF Asks, NpmDistTags, Index
<1>7. CASE NpmAllPackages(c)
  BY <1>7, ListingAsked DEF Asks, NpmAllPackages
<1>8. CASE NpmMetadata(c)
  BY <1>8, IndexAsked DEF Asks, NpmMetadata, Index
<1> QED BY <1>1, <1>2, <1>3, <1>4, <1>5, <1>6, <1>7, <1>8 DEF NpmRequest

LEMMA PypiAsks ==
    ASSUME TypeOK, format # "oci", NEW c, PypiRequest(c)
    PROVE  Asks(c)
<1>1. CASE PypiUpload(c)
  BY <1>1, OverwriteAsked, Zenon DEF Asks, PypiUpload, PypiStoreVersion
<1>2. CASE PypiSimpleFile(c) \/ PypiMetadataFile(c)
  BY <1>2, ListedDownloadAsked DEF Asks, PypiSimpleFile, PypiMetadataFile, Stores, Body
<1>3. CASE PypiDeleteRelease(c) \/ PypiDeleteProject(c)
  BY <1>3, RemoveAsked, RemoveAllAsked DEF Asks, PypiDeleteRelease, PypiDeleteProject, PypiRemoveVersion
<1>4. CASE PypiDeleteFiles(c)
  BY <1>4, PruneAsked, RemoveAsked, RemoveAllAsked DEF Asks, PypiDeleteFiles, PypiRemoveVersion
<1>5. CASE PypiSimpleRoot(c)
  BY <1>5, ListingAsked DEF Asks, PypiSimpleRoot
<1>6. CASE PypiSimpleProject(c) \/ PypiSimpleProjectJson(c)
  BY <1>6, IndexAsked DEF Asks, PypiSimpleProject, PypiSimpleProjectJson, Index
<1> QED BY <1>1, <1>2, <1>3, <1>4, <1>5, <1>6 DEF PypiRequest

LEMMA MavenAsks ==
    ASSUME TypeOK, format # "oci", NEW c, MavenDispatch(c)
    PROVE  Asks(c)
<1>1. CASE MavenGet(c) \/ MavenHashFile(c)
  BY <1>1, DownloadAsked DEF Asks, MavenGet, MavenHashFile, MavenVersions, Stores
<1>2. CASE MavenHead(c)
  BY <1>2, HeadAsked DEF Asks, MavenHead, MavenVersions, Stores
<1>3. CASE MavenPut(c)
  BY <1>3, MergeAsked, Zenon DEF Asks, MavenPut, MavenVersions, MavenStoreVersion
<1>4. CASE MavenPutMetadata(c)
  BY <1>4, MergeAsked, MetadataVersion, TheFileIn, Zenon DEF Asks, MavenPutMetadata, MavenStoreVersion
<1>5. CASE MavenDelete(c)
  BY <1>5, PruneAsked DEF Asks, MavenDelete, MavenVersions
<1>6. CASE MavenMetadataXml(c)
  BY <1>6, ListingAsked DEF Asks, MavenMetadataXml
<1>7. CASE MavenSnapshotXml(c)
  BY <1>7, ReadRowsAsked DEF Asks, MavenSnapshotXml, MavenVersions, Vers
<1> QED BY <1>1, <1>2, <1>3, <1>4, <1>5, <1>6, <1>7 DEF MavenDispatch

LEMMA GenericAsks ==
    ASSUME TypeOK, format # "oci", NEW c, GenericDispatch(c)
    PROVE  Asks(c)
<1>1. CASE GenericUpload(c)
  BY <1>1, MergeAsked, Zenon DEF Asks, GenericUpload, GenericStore
<1>2. CASE GenericDownload(c)
  BY <1>2, DownloadAsked DEF Asks, GenericDownload, Stores, Body
<1>3. CASE GenericDelete(c)
  BY <1>3, DropAllAsked DEF Asks, GenericDelete
<1> QED BY <1>1, <1>2, <1>3 DEF GenericDispatch

LEMMA ConanAsks ==
    ASSUME TypeOK, format # "oci", NEW c, ConanRequest(c)
    PROVE  Asks(c)
<1>1. CASE ConanFilePut(c)
  BY <1>1, RevisionAsked, Zenon DEF Asks, ConanFilePut
<1>2. CASE ConanPkgFilePut(c) \/ ConanFileUploadRecipe(c) \/ ConanFileUploadPackage(c)
  BY <1>2, MergeAsked, Zenon DEF Asks, ConanPkgFilePut, ConanFileUploadRecipe, ConanFileUploadPackage, ConanStoreFile
<1>3. CASE ConanRecipeUploadUrls(c)
  BY <1>3, MarkAsked DEF Asks, ConanRecipeUploadUrls
<1>4. CASE ConanFileGet(c) \/ ConanPkgFileGet(c)
  BY <1>4, DownloadAsked DEF Asks, ConanFileGet, ConanPkgFileGet, Stores
<1>5. CASE ConanDeleteRecipe(c) \/ ConanDeleteRecipeRev(c) \/ ConanDeletePackage(c)
  BY <1>5, RecipeAsked DEF Asks, ConanDeleteRecipe, ConanDeleteRecipeRev, ConanDeletePackage
<1>6. CASE ConanSearch(c)
  BY <1>6, ListingAsked DEF Asks, ConanSearch
<1>7. CASE ConanLatest(c) \/ ConanRevisions(c)
  BY <1>7, ReadRowsAsked, VersAreNat DEF Asks, ConanLatest, ConanRevisions, Vers
<1>8. CASE ConanFiles(c) \/ ConanPkgLatest(c) \/ ConanPkgRevisions(c) \/ ConanPkgFilesList(c) \/ ConanProxyRecipe(c)
  BY <1>8, ReadRowsAsked DEF Asks, ConanFiles, ConanPkgLatest, ConanPkgRevisions, ConanPkgFilesList, ConanProxyRecipe, Vers
<1> QED BY <1>1, <1>2, <1>3, <1>4, <1>5, <1>6, <1>7, <1>8 DEF ConanRequest

LEMMA GemsAsks ==
    ASSUME TypeOK, format # "oci", NEW c, GemsRequest(c)
    PROVE  Asks(c)
<1>1. CASE GemsUpload(c)
  BY <1>1, OverwriteAsked, TheFileIn, Zenon DEF Asks, GemsUpload, GemsStoreVersion
<1>2. CASE GemsDownload(c)
  BY <1>2, DownloadAsked, TheFileIn DEF Asks, GemsDownload, Stores
<1>3. CASE GemsYank(c)
  BY <1>3, RemoveAsked, RemoveAllAsked DEF Asks, GemsYank, GemsRemoveVersion
<1>4. CASE GemsNames(c) \/ GemsSearch(c) \/ GemsCompactVersions(c) \/ GemsSpecs(c) \/ GemsDependencies(c)
  BY <1>4, ListingAsked DEF Asks, GemsNames, GemsSearch, GemsCompactVersions, GemsSpecs, GemsDependencies
<1>5. CASE GemsCompactInfo(c)
  BY <1>5, IndexAsked DEF Asks, GemsCompactInfo, Index
<1>6. CASE GemsQuickMarshal(c)
  BY <1>6, ReadRowsAsked DEF Asks, GemsQuickMarshal, Vers
<1> QED BY <1>1, <1>2, <1>3, <1>4, <1>5, <1>6 DEF GemsRequest

LEMMA HexAsks ==
    ASSUME TypeOK, format # "oci", NEW c, HexRequest(c)
    PROVE  Asks(c)
<1>1. CASE HexPublish(c) \/ HexCreateRelease(c)
  BY <1>1, OverwriteAsked, TheFileIn, Zenon DEF Asks, HexPublish, HexCreateRelease, HexStoreVersion, Body
<1>2. CASE HexTarball(c)
  BY <1>2, DownloadAsked, TheFileIn DEF Asks, HexTarball, Stores
<1>3. CASE HexDeleteRelease(c)
  BY <1>3, RemoveCheckedAsked DEF Asks, HexDeleteRelease
<1>4. CASE HexNames(c) \/ HexVersions(c)
  BY <1>4, ListingAsked DEF Asks, HexNames, HexVersions
<1>5. CASE HexPackage(c)
  BY <1>5, IndexAsked DEF Asks, HexPackage, Index
<1> QED BY <1>1, <1>2, <1>3, <1>4, <1>5 DEF HexRequest

LEMMA NugetAsks ==
    ASSUME TypeOK, format # "oci", NEW c, NugetRequest(c)
    PROVE  Asks(c)
<1>1. CASE NugetPush(c)
  BY <1>1, OverwriteAsked, TheFileIn, Zenon DEF Asks, NugetPush, NugetStoreVersion
<1>2. CASE NugetFlatFile(c)
  BY <1>2, DownloadAsked, TheFileIn DEF Asks, NugetFlatFile, Stores
<1>3. CASE NugetDelete(c)
  BY <1>3, RemoveAsked DEF Asks, NugetDelete
<1>4. CASE NugetAutocomplete(c) \/ NugetSearch(c) \/ NugetRegistration(c) \/ NugetFlatIndex(c)
  BY <1>4, ListingAsked DEF Asks, NugetAutocomplete, NugetSearch, NugetRegistration, NugetFlatIndex
<1> QED BY <1>1, <1>2, <1>3, <1>4 DEF NugetRequest

LEMMA SwiftAsks ==
    ASSUME TypeOK, format # "oci", NEW c, SwiftRequest(c)
    PROVE  Asks(c)
<1>1. CASE SwiftPut(c)
  BY <1>1, OverwriteAsked, TheFileIn, Zenon DEF Asks, SwiftPut, SwiftStoreVersion, Body
<1>2. CASE SwiftSourceZip(c) \/ SwiftManifest(c)
  BY <1>2, DownloadAsked, TheFileIn DEF Asks, SwiftSourceZip, SwiftManifest, Stores, Body
<1>3. CASE SwiftReleases(c)
  BY <1>3, ListingAsked DEF Asks, SwiftReleases
<1>4. CASE SwiftVersionMeta(c)
  BY <1>4, ReadRowsAsked DEF Asks, SwiftVersionMeta, Vers
<1> QED BY <1>1, <1>2, <1>3, <1>4 DEF SwiftRequest

LEMMA ComposerAsks ==
    ASSUME TypeOK, format # "oci", NEW c, ComposerRequest(c)
    PROVE  Asks(c)
<1>1. CASE ComposerUpload(c)
  BY <1>1, OverwriteAsked, TheFileIn, Zenon DEF Asks, ComposerUpload, ComposerStoreVersion
<1>2. CASE ComposerDist(c)
  BY <1>2, DownloadAsked, TheFileIn DEF Asks, ComposerDist, Stores
<1>3. CASE ComposerDelete(c)
  BY <1>3, RemoveAllAsked DEF Asks, ComposerDelete
<1>4. CASE ComposerPackages(c) \/ ComposerSearch(c)
  BY <1>4, ListingAsked DEF Asks, ComposerPackages, ComposerSearch
<1>5. CASE ComposerP2(c) \/ ComposerProvider(c)
  BY <1>5, IndexAsked DEF Asks, ComposerP2, ComposerProvider, Index
<1> QED BY <1>1, <1>2, <1>3, <1>4, <1>5 DEF ComposerRequest

LEMMA GoAsks ==
    ASSUME TypeOK, format # "oci", NEW c, GoDispatch(c)
    PROVE  Asks(c)
<1>1. CASE GoUpload(c)
  BY <1>1, OverwriteAsked, TheFileIn, Zenon DEF Asks, GoUpload, GoStoreVersion
<1>2. CASE GoModuleZip(c) \/ GoMod(c)
  BY <1>2, DownloadAsked, TheFileIn DEF Asks, GoModuleZip, GoMod, Stores
<1>3. CASE GoLatest(c) \/ GoVersions(c)
  BY <1>3, ListingAsked DEF Asks, GoLatest, GoVersions
<1>4. CASE GoInfo(c)
  BY <1>4, ReadRowsAsked DEF Asks, GoInfo, Vers
<1> QED BY <1>1, <1>2, <1>3, <1>4 DEF GoDispatch

LEMMA HelmAsks ==
    ASSUME TypeOK, format # "oci", NEW c, HelmRequest(c)
    PROVE  Asks(c)
<1>1. CASE HelmUpload(c)
  BY <1>1, OverwriteAsked, TheFileIn, Zenon DEF Asks, HelmUpload, HelmStoreChart
<1>2. CASE HelmChart(c)
  BY <1>2, ListedDownloadAsked, TheFileIn DEF Asks, HelmChart, Stores
<1>3. CASE HelmDeleteChart(c) \/ HelmDeleteChartVersion(c)
  BY <1>3, RemoveAsked, RemoveAllAsked DEF Asks, HelmDeleteChart, HelmDeleteChartVersion, HelmRemoveVersion
<1>4. CASE HelmIndexYaml(c)
  BY <1>4, IndexAsked DEF Asks, HelmIndexYaml, Index
<1> QED BY <1>1, <1>2, <1>3, <1>4 DEF HelmRequest

LEMMA PubAsks ==
    ASSUME TypeOK, format # "oci", NEW c, PubRequest(c)
    PROVE  Asks(c)
<1>1. CASE PubNewUpload(c)
  BY <1>1, OverwriteAsked, TheFileIn, Zenon DEF Asks, PubNewUpload, PubStoreVersion
<1>2. CASE PubArchive(c)
  BY <1>2, DownloadAsked, TheFileIn DEF Asks, PubArchive, Stores
<1>3. CASE PubRetract(c)
  BY <1>3, RemoveAsked DEF Asks, PubRetract
<1>4. CASE PubPackages(c)
  BY <1>4, ListingAsked DEF Asks, PubPackages
<1>5. CASE PubMetadata(c) \/ PubVersionMetadata(c)
  BY <1>5, IndexAsked DEF Asks, PubMetadata, PubVersionMetadata, Index
<1> QED BY <1>1, <1>2, <1>3, <1>4, <1>5 DEF PubRequest

LEMMA PackageAsks == ASSUME TypeOK, NEW c, PackageRequest(c) PROVE Asks(c)
BY CargoAsks, NpmAsks, PypiAsks, MavenAsks, GenericAsks, ConanAsks, GemsAsks, HexAsks, NugetAsks,
   SwiftAsks, ComposerAsks, GoAsks, HelmAsks, PubAsks DEF PackageRequest

LEMMA OciAsks ==
    ASSUME TypeOK, format = "oci", NEW c, OciRequest(c)
    PROVE  Asks(c)
<1>1. CASE PutManifest(c)
  BY <1>1, ImageAsked, ImageSets DEF Asks, PutManifest
<1>2. CASE GetManifest(c)
  BY <1>2, ResolveAsked DEF Asks, GetManifest
<1>3. CASE DeleteManifest(c)
  BY <1>3, UntagAsked DEF Asks, DeleteManifest
<1>4. CASE GetBlob(c)
  BY <1>4, BlobAsked, Zenon DEF Asks, GetBlob
<1>5. CASE CheckBlob(c) \/ MountBlob(c)
  BY <1>5, StatAsked DEF Asks, CheckBlob, MountBlob
<1>6. CASE PostBlob(c)
  BY <1>6, PostAsked, Zenon DEF Asks, PostBlob
<1>7. CASE DeleteBlob(c)
  BY <1>7, UnlinkAsked DEF Asks, DeleteBlob
<1>8. CASE ListTags(c)
  BY <1>8, ListingAsked DEF Asks, ListTags
<1>9. CASE ListReferrers(c)
  BY <1>9, IndexAsked, ManifestsAssumption DEF Asks, ListReferrers, Vers
<1> QED BY <1>1, <1>2, <1>3, <1>4, <1>5, <1>6, <1>7, <1>8, <1>9 DEF OciRequest

LEMMA PublishAsks == ASSUME TypeOK, NEW c, AdapterPublish(c) PROVE Asks(c)
<1>1. PICK v \in Versions, file \in Files, d \in Body, f \in Files :
         format # "oci" /\ \E source \in {"push", ""} :
            Begin(c, Overwrite(v, f, d, source)) \/ Begin(c, Merge(v, f, d, source))
  BY TheFileIn, Zenon
     DEF AdapterPublish, NpmStoreVersion, PypiStoreVersion, CargoStoreVersion, GoStoreVersion,
         MavenStoreVersion, ComposerStoreVersion, NugetStoreVersion, GemsStoreVersion,
         HexStoreVersion, PubStoreVersion, SwiftStoreVersion, HelmStoreChart, GenericStore
<1> QED BY <1>1, OverwriteAsked, MergeAsked, Zenon DEF Asks

LEMMA ServerAsks ==
    ASSUME TypeOK, NEW c, ServerRequest(c)
    PROVE  Asks(c)
<1>1. CASE DeletePackage(c)
  BY <1>1, WipeAsked DEF Asks, DeletePackage
<1>2. CASE SystemPackages(c) \/ OpsPackages(c)
  BY <1>2, ListingOfAsked DEF Asks, SystemPackages, OpsPackages
<1>3. CASE OpsImages(c)
  BY <1>3, SourcesAsked, Zenon DEF Asks, OpsImages, Vers
<1>4. CASE ClientDelete(c)
  BY <1>4, RemoveAsked DEF Asks, ClientDelete
<1>5. CASE AdapterPublish(c)
  BY <1>5, PublishAsks DEF Asks, AdapterPublish
<1>6. CASE ConanClientPublish(c)
  BY <1>6, RevisionAsked, Zenon DEF Asks, ConanClientPublish, Body
<1>7. CASE OciClientPublish(c)
  BY <1>7, ImageAsked, ImageSets DEF Asks, OciClientPublish
<1> QED BY <1>1, <1>2, <1>3, <1>4, <1>5, <1>6, <1>7 DEF ServerRequest

LEMMA CallKeeps == ASSUME StoreInv, Unname, NEW c \in Clients, Call(c) PROVE StoreInv'
<1>1. req[c] = Idle /\ calls > 0 /\ TypeOK
  BY DEF Call, StoreInv
<1>2. Asks(c)
  BY <1>1, PackageAsks, OciAsks, ServerAsks DEF Call
<1>3. PICK r : Arrived(r) /\ Begin(c, r)
  BY <1>2 DEF Asks
<1> QED BY <1>1, <1>3, ArriveKeeps

-----------------------------------------------------------------------------
(* The invariant holds at the start, and every step keeps it. *)

LEMMA StockedRows ==
    ASSUME NEW stock \in SUBSET Versions, NEW t \in Stocked(stock)
    PROVE  /\ t \in [Vers -> Row \cup {NoRow}] /\ t[Doc] = NoRow
           /\ stock = {} => \A v \in Vers : t[v] = NoRow
<1> DEFINE Pushed == [files : {{[name |-> TheFile, digest |-> d]} : d \in Digests},
                      source : {"push"}, notes : {{}}]
<1>1. Pushed \subseteq Row
  <2>1. \A d \in Digests : {[name |-> TheFile, digest |-> d]} \in SUBSET File
    BY TheFileIn DEF File
  <2> QED BY <2>1, Zenon DEF Row, Source
<1>2. t \in [Vers -> Pushed \cup {NoRow}] /\ \A v \in Vers \ stock : t[v] = NoRow
  BY DEF Stocked
<1> HIDE DEF Pushed
<1>3. Doc \in Vers \ stock
  BY VersAreNat
<1> QED BY <1>1, <1>2, <1>3

LEMMA StoreStarts == ServerInit => StoreInv
<1> SUFFICES ASSUME ServerInit PROVE StoreInv
  OBVIOUS
<1>1. PICK s \in Scenarios : Init(s)
  BY DEF ServerInit
<1>2. /\ format = s.format /\ calls = s.calls /\ faults = s.faults
      /\ crashes = s.crashes /\ collections = s.collections
      /\ row \in Stocked(s.stock) /\ blob = UNION {DigestsOf(row[v]) : v \in Vers}
      /\ req = [c \in Clients |-> Idle] /\ gc = GcIdle /\ dirty = {} /\ blamed = {} /\ broken = FALSE
  BY <1>1 DEF Init
<1>3. s.stock \in SUBSET Versions /\ (s.format = "oci" => s.stock = {})
      /\ s.calls \in Nat /\ s.faults \in Nat /\ s.crashes \in Nat /\ s.collections \in Nat
  BY ScenarioAssumption
<1>4. /\ row \in [Vers -> Row \cup {NoRow}] /\ row[Doc] = NoRow
      /\ format = "oci" => \A v \in Vers : row[v] = NoRow
  BY <1>2, <1>3, StockedRows
<1>5. \A c \in Clients : req[c] = Idle
  BY <1>2
<1>6. TypeOK
  <2>1. \A v \in Vers : DigestsOf(row[v]) \subseteq Digests
    <3> SUFFICES ASSUME NEW v \in Vers PROVE DigestsOf(row[v]) \subseteq Digests
      OBVIOUS
    <3>1. row[v] # NoRow => row[v].files \subseteq File
      BY <1>4, RowFields
    <3> QED BY <3>1 DEF DigestsOf, File
  <2>2. blob \subseteq Digests
    BY <1>2, <2>1
  <2>3. gc \in GcState
    BY <1>2 DEF GcIdle, GcState, GcPcs
  <2>4. req \in [Clients -> Request \cup {Idle}]
    BY <1>2
  <2> QED BY <1>2, <1>3, <1>4, <2>2, <2>3, <2>4 DEF TypeOK
<1>7. RequestInv /\ CleanInv
  BY <1>5 DEF RequestInv, CleanInv
<1>8. DocInv /\ GcInv
  BY <1>2, <1>4 DEF DocInv, GcInv, GcIdle, DigestsOf
<1>9. ImageRows
  BY <1>4 DEF ImageRows
<1>10. TagsInv
  <2>1. ASSUME format = "oci", NEW v \in References PROVE ManifestOf(OrBlank(row[v])) = {}
    <3>1. row[v] = NoRow
      BY <1>4, <2>1 DEF Vers
    <3> QED BY <3>1 DEF OrBlank, Blank, ManifestOf
  <2> QED BY <1>5, <2>1 DEF TagsInv, TagsResolve, At
<1>11. DangInv
  <2>1. RowsHeld
    BY <1>2 DEF RowsHeld
  <2> QED BY <1>5, <2>1 DEF DangInv
<1> QED BY <1>6, <1>7, <1>8, <1>9, <1>10, <1>11 DEF StoreInv

LEMMA InternalKeeps == ASSUME StoreInv, Unname, NEW c \in Clients, Step(c) \/ OciStep(c) PROVE StoreInv'
BY LoadToMergeKeeps, LoadToRemoveKeeps, LoadToPruneKeeps, LoadToServeKeeps, LoadToEditKeeps,
   LoadToAmendKeeps, CheckKeeps, SaveRevKeeps, ListKeeps, ReadKeeps, OpenKeeps, FetchKeeps,
   PutBlobKeeps, CullKeeps, SaveKeeps, DropKeeps, WipeKeeps, ReplyKeeps,
   ResolveKeeps, FetchManifestKeeps, PutImageKeeps, LayerKeeps DEF Step, OciStep

LEMMA StoreSteps == StoreInv /\ UploadTypeOK /\ [Next]_allVars => StoreInv'
<1> SUFFICES ASSUME StoreInv, UploadTypeOK, [Next]_allVars PROVE StoreInv'
  OBVIOUS
<1>1. CASE UNCHANGED allVars
  BY <1>1, StutterKeeps
<1>2. CASE Serving /\ Unname
  <2>1. CASE \E c \in Clients : Call(c)
    BY <1>2, <2>1, CallKeeps
  <2>2. CASE \E c \in Clients : Step(c) \/ OciStep(c)
    BY <1>2, <2>2, InternalKeeps
  <2>3. CASE \E c \in Clients : HangUp(c)
    BY <1>2, <2>3, HangUpKeeps
  <2>4. CASE Collect
    BY <1>2, <2>4, CollectKeeps
  <2> QED BY <1>2, <2>1, <2>2, <2>3, <2>4 DEF Serving, Internal
<1>3. CASE Uploading /\ Unname
  BY <1>3, UploadingKeeps
<1>4. CASE RestartServer /\ Unname
  BY <1>4, RestartKeeps DEF RestartServer
<1> QED BY <1>1, <1>2, <1>3, <1>4 DEF Next

\* In every state of the server, for every protocol, with any number of clients
\* and versions, whatever fails, is cut or restarted: the invariant of the
\* stores, of the requests and of the collector holds.
THEOREM StoreInvariance == Spec => []StoreInv
<1>1. ServerInit => StoreInv
  BY StoreStarts
<1>2. StoreInv /\ UploadTypeOK /\ [Next]_allVars => StoreInv'
  BY StoreSteps
<1> QED BY <1>1, <1>2, UploadTypes, PTL DEF Spec

-----------------------------------------------------------------------------
(* What the invariant says of every state. *)

\* The stores, the requests, the collector and the bounds have their types.
THEOREM StoreTypes == Spec => []TypeOK
<1>1. StoreInv => TypeOK
  BY DEF StoreInv
<1> QED BY <1>1, StoreInvariance, PTL

\* A row names only blobs that are stored, unless a request is removing or
\* replacing the row, another user of the blob deleted it, or a failure came
\* between: for any number of clients, and whatever they do at the same time.
THEOREM RowsDoNotDangle == Spec => []NoDanglingRow
<1>1. StoreInv => NoDanglingRow
  <2> SUFFICES ASSUME StoreInv, format # "oci", NEW v \in Vers,
                      NEW d \in DigestsOf(row[v]) \ blob, d \notin blamed, ~broken
               PROVE  \E c \in Clients : req[c] # Idle /\ req[c].ver = v
                                         /\ req[c].flow \in {"remove", "merge"}
    BY DEF NoDanglingRow
  <2>1. RowsHeld
    BY DEF StoreInv, DangInv
  <2> QED BY <2>1 DEF RowsHeld
<1> QED BY <1>1, StoreInvariance, PTL

\* A request that met no other writer and no failure leaves exactly the rows it
\* promises, after any number of steps over any number of versions.
THEOREM RequestsAreExact == Spec => []ExactWhenAlone
<1>1. StoreInv => ExactWhenAlone
  <2> SUFFICES ASSUME StoreInv, NEW c \in Clients, req[c] # Idle, req[c].pc = "done",
                      req[c].clean, NEW w \in Vers
               PROVE  row[w] = Promised(req[c], w)
    BY DEF ExactWhenAlone
  <2>1. Exact(req[c])
    BY DEF StoreInv, RequestInv, Progress
  <2>2. Pending(req[c]) = {}
    BY DEF Pending
  <2> QED BY <2>1, <2>2 DEF Exact
<1> QED BY <1>1, StoreInvariance, PTL

\* A read that met no writer, no failure and no lost blob answers with the rows
\* as they are: a stored file with that file, whatever the upstream has.
THEOREM ReadsAreExact == Spec => []AnswersExact
<1>1. StoreInv => AnswersExact
  <2> SUFFICES ASSUME StoreInv, NEW c \in Clients, req[c] # Idle, req[c].pc = "done", req[c].clean
               PROVE  LET r == req[c] IN
                      /\ r.flow = "list"  =>
                            r.out = {<<v, {}>> : v \in ListOciImages(r.aim, r.before, r.source)}
                      /\ r.flow = "index" =>
                            r.out = {<<v, DigestsOf(r.before[v])>> :
                                        v \in {w \in r.aim : r.before[w] # NoRow}}
                      /\ r.flow \in {"serve", "head"} => r.out = Served(r)
    BY DEF AnswersExact
  <2> PICK r : r = req[c]
    OBVIOUS
  <2>1. Answers(r) /\ r.pc = "done"
    BY DEF StoreInv, RequestInv, Progress
  <2>2. ASSUME r.flow = "index"
        PROVE  r.out = {<<v, DigestsOf(r.before[v])>> : v \in {w \in r.aim : r.before[w] # NoRow}}
    <3> DEFINE S == {w \in r.aim : r.before[w] # NoRow}
               T == S \ (IF r.pc = "read" THEN Here(r) ELSE {})
    <3>1. r.out = {<<v, DigestsOf(r.before[v])>> : v \in T}
      BY <2>1, <2>2 DEF Answers
    <3>2. T = S
      BY <2>1
    <3> HIDE DEF T
    <3> QED BY <3>1, <3>2
  <2> QED BY <2>1, <2>2 DEF Answers
<1> QED BY <1>1, StoreInvariance, PTL

\* A tag always leads to a digest that resolves, and a digest to the manifest
\* with that digest, for any set of tags and manifests.
THEOREM TagsLead == Spec => []TagsResolve
<1>1. StoreInv => TagsResolve
  <2>1. CASE format = "oci"
    BY <2>1 DEF StoreInv, TagsInv
  <2>2. CASE format # "oci"
    BY <2>2 DEF TagsResolve
  <2> QED BY <2>1, <2>2
<1> QED BY <1>1, StoreInvariance, PTL

-----------------------------------------------------------------------------
(* What a step may never do. *)

\* The arrival of a request, the uploads and the restart leave the rows alone;
\* so does the collector, and it alone deletes while it sweeps.
Writes(c) == SaveRev(c) \/ Save(c) \/ Drop(c) \/ Wipe(c) \/ PutImage(c)

LEMMA StepWrites ==
    ASSUME NEW c \in Clients, Step(c) \/ OciStep(c)
    PROVE  UNCHANGED gc /\ (UNCHANGED row \/ Writes(c))
<1>1. CASE LoadToMerge(c) \/ LoadToRemove(c) \/ LoadToPrune(c) \/ LoadToServe(c) \/ LoadToEdit(c)
  BY <1>1, Zenon DEF LoadToMerge, LoadToRemove, LoadToPrune, LoadToServe, LoadToEdit, Go, OnlyReads
<1>2. CASE LoadToAmend(c) \/ Check(c) \/ List(c) \/ Read(c) \/ Open(c)
  BY <1>2, Zenon DEF LoadToAmend, Check, List, Read, Open, Go, OnlyReads
<1>3. CASE Fetch(c) \/ PutBlob(c) \/ Cull(c) \/ Reply(c)
  BY <1>3, Zenon DEF Fetch, PutBlob, Cull, Reply, Go
<1>4. CASE Resolve(c) \/ FetchManifest(c) \/ StatBlob(c) \/ StoreBlob(c)
  BY <1>4, Zenon DEF Resolve, FetchManifest, StatBlob, StoreBlob, Go, OnlyReads
<1>5. CASE Writes(c)
  BY <1>5, Zenon DEF Writes, SaveRev, Save, Drop, Wipe, PutImage, Go
<1> QED BY <1>1, <1>2, <1>3, <1>4, <1>5 DEF Step, OciStep, Writes

LEMMA NextWrites ==
    ASSUME TypeOK, UploadTypeOK, [Next]_allVars
    PROVE  /\ UNCHANGED row \/ \E c \in Clients : Writes(c)
           /\ UNCHANGED gc \/ blob' = blob \/ GcSweep
<1>1. CASE UNCHANGED allVars
  BY <1>1 DEF allVars, vars
<1>2. CASE Serving
  <2>1. CASE \E c \in Clients : Call(c)
    <3>1. PICK c \in Clients : Call(c)
      BY <2>1
    <3>2. Asks(c)
      BY <3>1, PackageAsks, OciAsks, ServerAsks DEF Call
    <3> QED BY <3>2 DEF Asks, Begin
  <2>2. CASE \E c \in Clients : Step(c) \/ OciStep(c)
    BY <2>2, StepWrites
  <2>3. CASE \E c \in Clients : HangUp(c)
    BY <2>3 DEF HangUp
  <2>4. CASE Collect
    BY <2>4, Zenon DEF Collect, GcStart, GcMark, GcList, GcSweep, GcDone
  <2> QED BY <1>2, <2>1, <2>2, <2>3, <2>4 DEF Serving, Internal
<1>3. CASE Uploading
  <2>1. PICK c \in Clients : UploadRequest(c) \/ UploadStep(c) \/ DropUpload(c)
    BY <1>3 DEF Uploading
  <2>2. CASE UploadRequest(c)
    <3>1. UNCHANGED vars
      BY <2>2, ArriveStays
         DEF UploadRequest, StartUpload, StatusUpload, PatchUpload, PutUpload, DeleteUpload
    <3> QED BY <3>1 DEF vars
  <2>3. CASE UploadStep(c)
    BY <2>3, UploadStepStores
  <2>4. CASE DropUpload(c)
    BY <2>4 DEF DropUpload
  <2> QED BY <2>1, <2>2, <2>3, <2>4
<1>4. CASE RestartServer
  BY <1>4 DEF RestartServer, Restart
<1> QED BY <1>1, <1>2, <1>3, <1>4 DEF Next

\* A collection deletes the blob of a row only when the row was written since
\* the collection began or could not be read, however many rows, requests and
\* uploads come in between.
THEOREM CollectionIsSafe == Spec => GcSafe
<1>1. StoreInv /\ UploadTypeOK /\ [Next]_allVars =>
        [\A d \in blob \ blob', v \in Vers :
            gc.pc = "sweep" /\ gc'.todo # gc.todo /\ d \in DigestsOf(row[v])
               => v \in dirty \/ gc.missed]_vars
  <2> SUFFICES ASSUME StoreInv, UploadTypeOK, [Next]_allVars,
                      NEW d \in blob \ blob', NEW v \in Vers, gc.pc = "sweep", gc'.todo # gc.todo,
                      d \in DigestsOf(row[v]), v \notin dirty, ~gc.missed
               PROVE  FALSE
    OBVIOUS
  <2>1. GcSweep
    BY NextWrites DEF StoreInv
  <2>2. PICK e \in gc.todo : blob' = blob \ {e}
    BY <2>1 DEF GcSweep
  <2>3. d \in gc.todo
    BY <2>2
  <2> QED BY <2>3 DEF StoreInv, GcInv
<1> QED BY <1>1, StoreInvariance, UploadTypes, PTL DEF Spec, GcSafe

\* The row that a save of a request on its own puts over a pushed one.
LEMMA SaveOverPush ==
    ASSUME StoreInv, NEW c \in Clients, Save(c), req[c].clean, NEW v \in Vers,
           row[v] # NoRow, row[v].source = "push",
           row'[v] # NoRow, row'[v].source = "pull"
    PROVE  req[c] # Idle /\ req[c].ver = v /\ \A f \in row[v].files : f.name # req[c].file
<1>1. PICK ok, r, u, kept :
         /\ Moves(c, r, u, ok)
         /\ r.flow \in {"overwrite", "merge", "prune", "edit", "tag", "amend"} /\ r.pc = "save"
         /\ kept = (IF r.flow = "prune" /\ r.row.files = {} THEN NoRow ELSE r.row)
         /\ Puts(ok, r.ver, kept)
  BY SaveDoes, Zenon DEF StoreInv
<1>2. r = req[c] /\ r # Idle /\ r \in Request /\ r.ver \in Vers
  BY <1>1, RequestTypes DEF Moves
<1>3. Formed(r) /\ Exact(r) /\ Built(r) /\ Missing(r)
  BY <1>2 DEF StoreInv, RequestInv, Progress
<1>4. /\ row \in [Vers -> Row \cup {NoRow}] /\ v = r.ver /\ row'[v] = kept
      /\ kept = r.row /\ r.row.source = "pull"
  BY <1>1, <1>2 DEF Puts, SetRow, StoreInv, TypeOK
<1>5. r.flow \in Numbered => r.ver # Doc
  BY <1>3 DEF Formed, WalkFits, Here
<1>6. v \in Pending(r)
  BY <1>1, <1>2, <1>4, <1>5 DEF Pending, Numbered, Here
<1>7. row[v] = r.before[v] /\ OrBlank(r.before[v]) = row[v]
  BY <1>1, <1>3, <1>6 DEF Exact, OrBlank
<1>8. ~(r.flow \in {"edit", "tag"})
  BY <1>3, <1>4 DEF Formed, NoteFits
<1>9. r.flow # "prune"
  BY <1>1, <1>3, <1>4, <1>7 DEF Built
<1>10. r.flow # "amend"
  <2> SUFFICES ASSUME r.flow = "amend" PROVE FALSE
    OBVIOUS
  <2>1. r.row = Promised(r, r.ver) /\ r.note \in Notes /\ r.ver \in r.aim
    BY <1>1, <1>3 DEF Built, Formed, NoteFits, WalkFits, Here
  <2>2. Promised(r, r.ver).source = r.before[r.ver].source
    BY <1>2, <1>4, <1>7, <2>1, PromisedAmend
  <2> QED BY <1>4, <1>7, <2>1, <2>2
<1>11. r.source = "pull"
  <2>1. CASE r.flow = "overwrite"
    BY <1>3, <1>4, <2>1 DEF Formed, FileFits
  <2>2. CASE r.flow = "merge"
    <3>1. r.row = Promised(r, r.ver) /\ r.ver # Doc
      BY <1>1, <1>3, <1>5, <2>2 DEF Built, Numbered
    <3>2. Promised(r, r.ver).source = (IF r.source = "" THEN OrBlank(r.before[r.ver]).source ELSE r.source)
      BY <1>2, <2>2, <3>1, PromisedMerge, Zenon
    <3> QED BY <1>4, <1>7, <3>1, <3>2, Zenon
  <2> QED BY <1>1, <1>8, <1>9, <1>10, <2>1, <2>2
<1>12. Lacks(r)
  BY <1>1, <1>3, <1>8, <1>9, <1>10, <1>11 DEF Missing
<1> QED BY <1>2, <1>4, <1>7, <1>12 DEF Lacks

\* The manifest that is put over a pushed one is the same.
LEMMA ImageOverPush ==
    ASSUME StoreInv, NEW c \in Clients, PutImage(c), req[c].clean, NEW v \in Vers,
           row[v] # NoRow, row[v].source = "push",
           row'[v] # NoRow, row'[v].source = "pull"
    PROVE  row[v].files = row'[v].files /\ row[v].notes = row'[v].notes
<1>1. PICK ok, r, u :
         Moves(c, r, u, ok) /\ r.flow = "image" /\ r.pc = "save" /\ Puts(ok, r.ver, r.row)
  BY PutImageDoes DEF StoreInv
<1>2. r = req[c] /\ r # Idle /\ r \in Request /\ r.ver \in Vers
  BY <1>1, RequestTypes DEF Moves
<1>3. Formed(r) /\ Exact(r) /\ Missing(r)
  BY <1>2 DEF StoreInv, RequestInv, Progress
<1>4. row \in [Vers -> Row \cup {NoRow}] /\ v = r.ver /\ row'[v] = r.row /\ r.row.source = "pull"
  BY <1>1, <1>2 DEF Puts, SetRow, StoreInv, TypeOK
<1>5. PICK m \in Manifests :
         /\ r.row = [files |-> Layers, source |-> r.source, notes |-> {Holds(m)}]
         /\ Here(r) \cap Manifests \subseteq {m}
  BY <1>1, <1>3 DEF Formed, ImageFits
<1>6. r.row.files = Layers /\ r.row.source = r.source /\ r.row.notes = {Holds(m)} /\ r.source = "pull"
  BY <1>4, <1>5
<1>7. v \in Here(r) /\ v \in r.aim /\ format = "oci"
  BY <1>1, <1>3, <1>4 DEF Formed, WalkFits, ImageFits, Here, OnImages
<1>8. v \in Manifests
  <2> SUFFICES ASSUME v \notin Manifests PROVE FALSE
    OBVIOUS
  <2>1. r.before[v] = NoRow
    BY <1>1, <1>3, <1>6, <1>7 DEF Missing
  <2>2. v \in Pending(r)
    BY <1>1, <1>7 DEF Pending
  <2>3. row[v] = Promised(r, v)
    BY <1>3, <2>1, <2>2 DEF Exact
  <2>4. Promised(r, v).source = r.source
    BY <1>1, <1>7 DEF Promised
  <2> QED BY <1>6, <2>3, <2>4
<1>9. v = m
  BY <1>5, <1>7, <1>8
<1>10. row[v].files = Layers /\ row[v].notes = {Holds(v)}
  BY <1>7, <1>8 DEF StoreInv, ImageRows
<1> QED BY <1>4, <1>6, <1>9, <1>10

\* The cache never replaces a good release: a pushed version gets other, pulled
\* contents only when it cannot serve the wanted file, or when the request met
\* another one or a failure.
THEOREM PushesAreKept == Spec => PullKeepsPush
<1>1. StoreInv /\ UploadTypeOK /\ [Next]_allVars =>
        [\A v \in Vers :
            LET old == row[v]  new == row'[v] IN
            old # NoRow /\ new # NoRow /\ old.source = "push" /\ new.source = "pull" =>
              \/ old.files = new.files /\ old.notes = new.notes
              \/ \E c \in Clients : req[c] # Idle /\ req[c].ver = v /\
                    (~req[c].clean \/ \A f \in old.files : f.name # req[c].file)]_vars
  <2> SUFFICES ASSUME StoreInv, UploadTypeOK, [Next]_allVars, NEW v \in Vers,
                      row[v] # NoRow, row'[v] # NoRow, row[v].source = "push", row'[v].source = "pull"
               PROVE  \/ row[v].files = row'[v].files /\ row[v].notes = row'[v].notes
                      \/ \E c \in Clients : req[c] # Idle /\ req[c].ver = v /\
                            (~req[c].clean \/ \A f \in row[v].files : f.name # req[c].file)
    OBVIOUS
  <2>1. row \in [Vers -> Row \cup {NoRow}] /\ row'[v] # row[v]
    BY DEF StoreInv, TypeOK
  <2>2. PICK c \in Clients : Writes(c)
    BY <2>1, NextWrites DEF StoreInv
  <2>3. CASE SaveRev(c)
    <3>1. req[c] # Idle /\ Formed(req[c])
      BY <2>3 DEF SaveRev, At, StoreInv, RequestInv
    <3>2. PICK ok, w : w.source = "" /\ Puts(ok, Doc, w)
      BY <2>3, <3>1, SaveRevDoes, Zenon DEF StoreInv
    <3>3. row'[v] = w
      BY <2>1, <3>2, Zenon DEF Puts, SetRow
    <3> QED BY <3>2, <3>3, Zenon
  <2>4. CASE Drop(c)
    <3>1. PICK ok, w : Puts(ok, w, NoRow)
      BY <2>4, DropDoes DEF StoreInv
    <3> QED BY <2>1, <3>1 DEF Puts, SetRow
  <2>5. CASE Wipe(c)
    BY <2>1, <2>5 DEF Wipe
  <2>6. CASE Save(c)
    <3>1. PICK ok, r, u, kept : Moves(c, r, u, ok) /\ Puts(ok, r.ver, kept)
      BY <2>6, SaveDoes DEF StoreInv
    <3>2. req[c] # Idle /\ req[c].ver = v
      BY <2>1, <3>1 DEF Moves, Puts, SetRow
    <3> QED BY <2>6, <3>2, SaveOverPush
  <2>7. CASE PutImage(c)
    <3>1. PICK ok, r, u : Moves(c, r, u, ok) /\ Puts(ok, r.ver, r.row)
      BY <2>7, PutImageDoes DEF StoreInv
    <3>2. req[c] # Idle /\ req[c].ver = v
      BY <2>1, <3>1 DEF Moves, Puts, SetRow
    <3> QED BY <2>7, <3>2, ImageOverPush
  <2> QED BY <2>2, <2>3, <2>4, <2>5, <2>6, <2>7 DEF Writes
<1> QED BY <1>1, StoreInvariance, UploadTypes, PTL DEF Spec, PullKeepsPush
===============================================================================
