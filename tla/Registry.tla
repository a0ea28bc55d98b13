------------------------------- MODULE Registry -------------------------------
(***************************************************************************)
(* The storage of the package registry and the handlers that use it.       *)
(*                                                                         *)
(* Every protocol adapter of pkglab works on two stores: a table of        *)
(* artifact rows (SqliteArtifactStore) and a directory of blobs named by   *)
(* their digest (FsBlobStore).  There is no transaction over the two and   *)
(* none over two rows; a handler is a sequence of storage calls with an    *)
(* await between any two of them.  The adapters differ in their wire       *)
(* format, but their handlers are made of few sequences, the flows of this *)
(* module.  One request runs one flow, one storage call per step, and the  *)
(* steps of the clients and of the collector interleave freely.            *)
(*                                                                         *)
(* One package is modelled, of a protocol that Init chooses; what two      *)
(* packages share, the blobs, two versions of one package share as well.   *)
(* Versions are numbers, in the order in which the table sorts them; the   *)
(* versions of an image are its tags and the digests of its manifests.     *)
(* Doc is the empty version, under which cargo, npm and conan keep a       *)
(* document about the whole package.  The content of a blob is its digest. *)
(***************************************************************************)
EXTENDS Integers, FiniteSets, FiniteSetsExt

CONSTANTS Scenarios,    \* the protocol of the package, and the bounds of a behaviour
          Versions,     \* versions of a package: positive numbers
          References,   \* tags and digests of an image: positive numbers
          Files,        \* names of files inside a version
          Digests,      \* contents
          Clients,      \* tasks of the server, one for each running request
          NoRow, NoData, Idle

Doc == 0

ASSUME VersionsAssumption ==
    /\ Versions \cup References \subseteq Nat \ {0} /\ IsFiniteSet(Versions \cup References)
    /\ Versions # {} /\ References # {}
ASSUME ConstAssumption ==
    /\ Clients # {} /\ Files # {} /\ Digests # {}
    /\ NoData \notin Digests
\* The versions that may be there at the start, and the bounds: requests,
\* failing storage calls, hang-ups and restarts, collections.  (A version that
\* was pushed is no image.)
ASSUME ScenarioAssumption ==
    \A s \in Scenarios :
        /\ s.stock \subseteq Versions
        /\ s.format = "oci" => s.stock = {}
        /\ {s.calls, s.faults, s.crashes, s.collections} \subseteq Nat

Vers   == Versions \cup References \cup {Doc}
File   == [name : Files, digest : Digests]
\* Kinds of entries in a document.
Labels == {"latest", "yanked", "owners", "deprecated", "revision", "manifest"}
Notes  == Labels \X Vers
Source == {"push", "pull", ""}
Row    == [files : SUBSET File, source : Source, notes : SUBSET Notes]
Blank  == [files |-> {}, source |-> "", notes |-> {}]

DigestsOf(r) == IF r = NoRow THEN {} ELSE {f.digest : f \in r.files}
OrBlank(r)   == IF r = NoRow THEN Blank ELSE r

VARIABLES format,    \* the protocol of the package
          row,       \* its rows in the artifacts table
          blob,      \* digests present in the blob directory
          req,       \* what the task of each client is doing
          gc,        \* the collector
          dirty,     \* history: versions written since the collection began
          blamed,    \* history: digests lost to a race or to a second user
          broken,    \* history: a request was cut or a storage call failed
          calls, faults, crashes, collections   \* what is left of the bounds

vars == <<format, row, blob, req, gc, dirty, blamed, broken,
          calls, faults, crashes, collections>>

(***************************************************************************)
(* Requests.  The fields up to "aim" are the request as it arrived, those  *)
(* from "pc" on are the locals of its handler; "before" and "clean" are    *)
(* history: the rows it found, and whether it met no other request, no     *)
(* failure and no row whose blob is gone.                                  *)
(***************************************************************************)
Writing == {"overwrite", "merge", "remove", "drop", "prune", "edit", "tag",
            "amend", "mark", "serve", "head", "wipe", "image", "resolve",
            "layer", "unlink"}
Flows   == Writing \cup {"index", "list"}
Pcs     == {"rev", "list", "check", "load", "read", "open", "fetch", "blob",
            "cull", "save", "drop", "done"}
Stores  == {"none", "blob", "overwrite", "merge"}  \* what a download keeps

Request ==
    [flow : Flows, ver : Vers, file : Files, data : Digests \cup {NoData},
     source : Source, note : Notes \cup {NoData}, add : BOOLEAN,
     store : Stores, keep : BOOLEAN, aim : SUBSET Vers,
     tail : BOOLEAN, pc : Pcs, row : Row, todo : SUBSET Digests, vers : SUBSET Vers,
     out : SUBSET (Vers \X SUBSET Digests),
     before : [Vers -> Row \cup {NoRow}], clean : BOOLEAN]

\* The null values are none of the values they stand beside.
ASSUME NullAssumption == NoRow \notin Row /\ NoData \notin Notes /\ Idle \notin Request

TheFile == CHOOSE f \in Files : TRUE   \* the file of a one-file version

\* A request of a flow, before the parameters of that flow are filled in.
Ask(flow, v, pc) ==
    [flow |-> flow, ver |-> v, file |-> TheFile, data |-> NoData,
     source |-> "", note |-> NoData, add |-> FALSE,
     store |-> "none", keep |-> FALSE, aim |-> {}, tail |-> FALSE,
     pc |-> pc, row |-> Blank, todo |-> {}, vers |-> {}, out |-> {},
     before |-> row, clean |-> TRUE]

Disturbs(r, s) == r.flow \in Writing \/ s.flow \in Writing

\* The router hands a request to a task of its own (a free one: the caller
\* looks).
Begin(c, r) ==
    LET met == {x \in Clients \ {c} : req[x] # Idle /\ Disturbs(req[x], r)}
    IN  /\ req' = [x \in Clients |->
                     IF x = c THEN [r EXCEPT !.clean = (met = {})]
                     ELSE IF x \in met THEN [req[x] EXCEPT !.clean = FALSE]
                     ELSE req[x]]
        /\ calls' = calls - 1
        /\ UNCHANGED <<format, row, blob, gc, dirty, blamed, broken, faults, crashes, collections>>

At(c, flows, pc) == req[c] # Idle /\ req[c].flow \in flows /\ req[c].pc = pc

\* The next step of a request whose storage call worked or failed; a handler
\* drops the error of a failing call and goes on.
Go(c, r, ok) ==
    /\ req' = [req EXCEPT ![c] = [r EXCEPT !.clean = @ /\ ok]]
    /\ \/ ok /\ UNCHANGED <<faults, broken>>
       \/ ~ok /\ faults > 0 /\ faults' = faults - 1
              /\ broken' = TRUE
    /\ UNCHANGED <<format, gc, calls, crashes, collections>>
OnlyReads == UNCHANGED <<row, blob, dirty, blamed>>

(***************************************************************************)
(* The storage calls.                                                      *)
(***************************************************************************)
\* ArtifactStore::put and ::delete: one row, in one statement.
SetRow(v, r) ==
    /\ row' = [row EXCEPT ![v] = r]
    /\ dirty' = IF gc.pc = "idle" THEN {} ELSE dirty \cup {v}

\* ArtifactStore::get: to the handlers an error is the same as no row.
Got(c, ok) == IF ok THEN row[req[c].ver] ELSE NoRow

\* ArtifactStore::list_versions: every row of the package, Doc included.
ListVersions == {v \in Vers : row[v] # NoRow}

\* ArtifactStore::list_packages: the rows of the package whose version is not empty.
ListPackages == ListVersions \ {Doc}

\* ArtifactStore::list_oci_images, on the rows of one image: they count as
\* pulled when one of them is; "" asks for both.
ListOciImages(versions, rows, source) ==
    LET found  == {v \in versions : rows[v] # NoRow}
        pulled == \E v \in found : rows[v].source = "pull"
    IN  IF source = "" \/ (source = "pull") = pulled THEN found ELSE {}

Least(S) == CHOOSE v \in S : \A w \in S : v <= w

\* History: somebody other than the row being removed or replaced still uses
\* digest d: another row, another file of the row, or a running request.
InUse(c, d) ==
    LET r == req[c] IN
    \/ \E v \in Vers : d \in DigestsOf(row[v]) /\ (v # r.ver \/ r.flow = "prune")
    \/ r.flow = "merge" /\ d \in DigestsOf(r.row)
    \/ \E x \in Clients \ {c} :
         req[x] # Idle /\ (req[x].data = d \/ d \in DigestsOf(req[x].row))

\* The next version of a handler that walks over a list of them; npm and conan
\* delete the document after the last one ("tail").
Advance(r, pc) ==
    IF r.vers # {} THEN [r EXCEPT !.pc = pc, !.ver = Least(r.vers), !.vers = @ \ {Least(@)}]
    ELSE IF r.tail THEN [r EXCEPT !.pc = "drop", !.ver = Doc, !.tail = FALSE]
    ELSE [r EXCEPT !.pc = "done"]

\* Reads: the versions of the package; all its rows; the rows of some versions.
Listing == [Ask("list", Doc, "list") EXCEPT !.aim = Vers]
Index   == [Ask("index", Doc, "list") EXCEPT !.aim = Vers]
ReadRows(S) ==
    [Ask("index", Least(S), "read") EXCEPT !.aim = S, !.vers = S \ {Least(S)}]

(***************************************************************************)
(* The steps.  Each performs one storage call of a handler and moves to    *)
(* the next.                                                               *)
(***************************************************************************)
LoadToMerge(c) == \E ok \in BOOLEAN :
    LET r == req[c]  old == OrBlank(Got(c, ok)) IN
    /\ At(c, {"merge"}, "load")
    /\ Go(c, [r EXCEPT !.pc = IF r.data = NoData THEN "save" ELSE "blob",
                       !.row = [old EXCEPT !.source = IF r.source = "" THEN @ ELSE r.source]], ok)
    /\ OnlyReads

LoadToRemove(c) == \E ok \in BOOLEAN :
    LET r == req[c]  gone == DigestsOf(Got(c, ok)) IN
    /\ At(c, {"remove"}, "load")
    /\ Go(c, [r EXCEPT !.pc = IF gone = {} THEN "drop" ELSE "cull", !.todo = gone], ok)
    /\ OnlyReads

LoadToPrune(c) == \E ok \in BOOLEAN :
    LET r == req[c]  old == OrBlank(Got(c, ok))
        gone == {f \in old.files : f.name = r.file} IN
    /\ At(c, {"prune"}, "load")
    /\ Go(c, [r EXCEPT !.pc = IF Got(c, ok) = NoRow THEN "done" ELSE "save",
                       !.row = [old EXCEPT !.files = @ \ gone],
                       !.todo = {f.digest : f \in gone}], ok)
    /\ OnlyReads

\* Mutant of LoadToServe: a download never looks at the row.
LoadToServeUpstream(c) ==
    /\ At(c, {"serve", "head"}, "load")
    /\ Go(c, [req[c] EXCEPT !.pc = "fetch"], TRUE)
    /\ OnlyReads

LoadToServe(c) == \E ok \in BOOLEAN :
    LET r == req[c]  found == Got(c, ok)
        named == {f \in OrBlank(found).files : f.name = r.file} IN
    /\ At(c, {"serve", "head"}, "load")
    /\ Go(c, CASE r.flow = "head" /\ named # {} ->
                     [r EXCEPT !.pc = "done", !.out = {<<r.ver, {f.digest}>> : f \in named}]
               [] r.flow = "serve" /\ found # NoRow -> [r EXCEPT !.pc = "open", !.row = found]
               [] OTHER -> [r EXCEPT !.pc = "fetch"], ok)
    /\ OnlyReads

\* The document with an entry set or removed; npm starts from "latest" of
\* the versions it has listed when the document has no tags.
Edited(r, old) ==
    LET top   == IF r.vers = {} THEN {} ELSE {<<"latest", Max(r.vers)>>}
        notes == IF r.flow = "tag" /\ old.notes = {} THEN top ELSE old.notes
        rest  == IF r.flow = "tag" THEN {n \in notes : n[1] # r.note[1]}
                                   ELSE notes \ {r.note}
    IN  IF r.add THEN rest \cup {r.note} ELSE rest

LoadToEdit(c) == \E ok \in BOOLEAN :
    LET r == req[c] IN
    /\ At(c, {"edit", "tag"}, "load")
    /\ Go(c, [r EXCEPT !.row = [Blank EXCEPT !.notes = Edited(r, OrBlank(Got(c, ok)))],
                       !.vers = {},
                       !.pc = IF r.flow = "tag" /\ r.add THEN "check" ELSE "save"], ok)
    /\ OnlyReads

LoadToAmend(c) == \E ok \in BOOLEAN :
    LET r == req[c]  old == OrBlank(Got(c, ok)) IN
    /\ At(c, {"amend"}, "load")
    /\ Go(c, IF Got(c, ok) = NoRow THEN Advance(r, "load")
             ELSE [r EXCEPT !.pc = "save",
                            !.row = [old EXCEPT !.notes = IF r.add THEN @ \cup {r.note}
                                                          ELSE @ \ {r.note}]], ok)
    /\ OnlyReads

\* The version that a document entry is about must have a row (edit, tag);
\* hex looks for the release before it removes it.
Check(c) == \E ok \in BOOLEAN :
    LET r == req[c]
        there == ok /\ row[IF r.flow = "remove" THEN r.ver ELSE r.note[2]] # NoRow
    IN  /\ At(c, {"edit", "tag", "remove"}, "check")
        /\ Go(c, [r EXCEPT !.pc = IF ~there THEN "done"
                                  ELSE IF r.flow = "tag" THEN "save" ELSE "load"], ok)
        /\ OnlyReads

\* conan writes the revision of the recipe into the document of the package.
SaveRev(c) == \E ok \in BOOLEAN :
    LET r == req[c] IN
    /\ At(c, {"merge", "mark"}, "rev")
    /\ Go(c, [r EXCEPT !.pc = IF r.flow = "mark" THEN "done" ELSE "load"], ok)
    /\ IF ok THEN SetRow(Doc, [Blank EXCEPT !.notes = {r.note}]) ELSE UNCHANGED <<row, dirty>>
    /\ UNCHANGED <<blob, blamed>>

\* list_versions, and what the flow does with the list.
List(c) == \E ok \in BOOLEAN :
    LET r == req[c]
        found == IF ok THEN ListVersions ELSE {}
        next  == [r EXCEPT !.vers = IF r.flow = "tag" THEN found ELSE found \cap r.aim]
    IN  /\ At(c, {"remove", "drop", "tag", "serve", "index", "list"}, "list")
        /\ Go(c, CASE r.flow = "list"   -> [r EXCEPT !.pc = "done", !.out =
                                   {<<v, {}>> : v \in found \cap ListOciImages(r.aim, row, r.source)}]
                   [] r.flow = "tag"    -> [next EXCEPT !.pc = "load"]
                   [] r.flow = "serve"  -> [r EXCEPT !.pc = IF r.ver \in found THEN "load" ELSE "fetch"]
                   [] r.flow = "index"  -> Advance(next, "read")
                   [] r.flow = "remove" -> Advance(next, "load")
                   [] r.flow = "drop"   -> Advance(next, "drop"), ok)
        /\ OnlyReads

\* An index page reads the rows one by one; one it cannot read is left out, or
\* listed without its checksum.
Read(c) == \E ok \in BOOLEAN :
    LET r == req[c]  found == Got(c, ok)
        got == IF found = NoRow THEN {} ELSE {<<r.ver, DigestsOf(found)>>} IN
    /\ At(c, {"index"}, "read")
    /\ Go(c, Advance([r EXCEPT !.out = @ \cup got], "read"), ok)
    /\ OnlyReads

\* Mutant of Servable: any file of the row will do.
ServableAny(r) == {f \in r.row.files : f.digest \in blob}

\* A download: the blob of the wanted file if it is there, else upstream.
Servable(r) == {f \in r.row.files : f.name = r.file /\ f.digest \in blob}

Open(c) ==
    LET r == req[c]
        here   == Servable(r)
        stored == {f.digest : f \in {g \in r.row.files : g.name = r.file}} \subseteq blob
    IN  /\ At(c, {"serve"}, "open")
        /\ Go(c, IF here = {} THEN [r EXCEPT !.pc = "fetch", !.clean = @ /\ stored]
                 ELSE [r EXCEPT !.pc = "done", !.clean = @ /\ stored,
                                !.out = {<<r.ver, {f.digest}>> : f \in here}], TRUE)
        /\ OnlyReads

\* The answer of the upstream, which Begin has chosen; fetch() stores what it
\* got at once ("keep"), and fails when it cannot.
Fetch(c) == \E ok \in BOOLEAN :
    LET r == req[c]
        hit  == r.data # NoData
        answered == [r EXCEPT !.out = IF hit THEN {<<r.ver, {r.data}>>} ELSE {}]
        kept == hit /\ r.keep
    IN  /\ At(c, {"serve", "head"}, "fetch")
        /\ ~ok => kept
        /\ Go(c, IF ~hit \/ r.store = "none" THEN [answered EXCEPT !.pc = "done"]
                 ELSE IF ~ok \/ r.store = "blob" THEN [answered EXCEPT !.pc = "done", !.out = IF ok THEN @ ELSE {}]
                 ELSE [answered EXCEPT !.flow = r.store, !.source = "pull",
                                       !.row = [Blank EXCEPT !.source = "pull"],
                                       !.pc = IF r.store = "merge" THEN "load" ELSE "blob"], ok)
        /\ blob' = IF kept /\ ok THEN blob \cup {r.data} ELSE blob
        /\ blamed' = IF kept /\ ok THEN blamed \ {r.data} ELSE blamed
        /\ UNCHANGED <<row, dirty>>

\* put_if_absent, then the file is added to the row in memory; a file that
\* could not be stored is left out of it.
Replaced(r) == {f \in r.row.files : f.name = r.file}

PutBlob(c) == \E ok \in BOOLEAN :
    LET r == req[c]
        new == IF ok THEN {[name |-> r.file, digest |-> r.data]} ELSE {}
        old == {f.digest : f \in Replaced(r)} \ {r.data}
    IN  /\ At(c, {"overwrite", "merge"}, "blob")
        /\ Go(c, [r EXCEPT !.row.files = (@ \ Replaced(r)) \cup new, !.todo = old,
                           !.pc = IF old = {} THEN "save" ELSE "cull"], ok)
        /\ blob' = IF ok THEN blob \cup {r.data} ELSE blob
        /\ blamed' = IF ok THEN blamed \ {r.data} ELSE blamed
        /\ UNCHANGED <<row, dirty>>

\* blobs.delete of one blob the handler is done with.
Cull(c) == \E ok \in BOOLEAN, d \in Digests :
    LET r == req[c]  last == r.todo = {d} IN
    /\ At(c, {"remove", "merge", "prune", "unlink"}, "cull")
    /\ d \in r.todo
    /\ Go(c, [r EXCEPT !.todo = @ \ {d},
                       !.pc = IF ~last THEN @
                              ELSE CASE r.flow = "merge"  -> "save"
                                     [] r.flow = "remove" -> "drop"
                                     [] OTHER -> "done"], ok)
    /\ blob' = IF ok THEN blob \ {d} ELSE blob
    /\ blamed' = IF ok /\ InUse(c, d) THEN blamed \cup {d} ELSE blamed
    /\ UNCHANGED <<row, dirty>>

\* History: digests that a handler writes back from its reading of the row
\* after another request has deleted their blobs.
Revived(r) ==
    IF r.flow \in {"merge", "prune", "amend"} /\ ~r.clean
    THEN DigestsOf(r.row) \ (blob \cup {r.data}) ELSE {}

\* meta.put of the row that was built; a version that lost its last file is
\* deleted instead.
Save(c) == \E ok \in BOOLEAN :
    LET r == req[c]
        kept == IF r.flow = "prune" /\ r.row.files = {} THEN NoRow ELSE r.row IN
    /\ At(c, {"overwrite", "merge", "prune", "edit", "tag", "amend"}, "save")
    /\ Go(c, IF r.flow = "prune" /\ r.todo # {} THEN [r EXCEPT !.pc = "cull"]
             ELSE Advance(r, "load"), ok)
    /\ IF ok THEN SetRow(r.ver, kept) ELSE UNCHANGED <<row, dirty>>
    /\ blamed' = IF ok THEN blamed \cup Revived(r) ELSE blamed
    /\ UNCHANGED blob

\* Mutant of Drop: the handler returns after the first version.
DropOne(c) == \E ok \in BOOLEAN :
    /\ At(c, {"remove", "drop"}, "drop")
    /\ Go(c, [req[c] EXCEPT !.pc = "done"], ok)
    /\ IF ok THEN SetRow(req[c].ver, NoRow) ELSE UNCHANGED <<row, dirty>>
    /\ UNCHANGED <<blob, blamed>>

\* meta.delete of a version, and on to the next one.
Drop(c) == \E ok \in BOOLEAN :
    LET r == req[c] IN
    /\ At(c, {"remove", "drop"}, "drop")
    /\ Go(c, Advance(r, IF r.flow = "remove" THEN "load" ELSE "drop"), ok)
    /\ IF ok THEN SetRow(r.ver, NoRow) ELSE UNCHANGED <<row, dirty>>
    /\ UNCHANGED <<blob, blamed>>

\* delete_repo: every row of the package in one statement; no blob is touched.
Wipe(c) == \E ok \in BOOLEAN :
    /\ At(c, {"wipe"}, "drop")
    /\ Go(c, [req[c] EXCEPT !.pc = "done"], ok)
    /\ IF ok THEN /\ row' = [v \in Vers |-> NoRow]
                  /\ dirty' = IF gc.pc = "idle" THEN {} ELSE Vers
             ELSE UNCHANGED <<row, dirty>>
    /\ UNCHANGED <<blob, blamed>>

Reply(c) ==
    /\ At(c, Flows, "done")
    /\ req' = [req EXCEPT ![c] = Idle]
    /\ UNCHANGED <<format, row, blob, gc, dirty, blamed, broken, calls, faults, crashes, collections>>

Step(c) ==
    \/ LoadToMerge(c) \/ LoadToRemove(c) \/ LoadToPrune(c) \/ LoadToServe(c)
    \/ LoadToEdit(c) \/ LoadToAmend(c) \/ Check(c) \/ SaveRev(c)
    \/ List(c) \/ Read(c) \/ Open(c) \/ Fetch(c)
    \/ PutBlob(c) \/ Cull(c) \/ Save(c) \/ Drop(c) \/ Wipe(c) \/ Reply(c)

(***************************************************************************)
(* The collector: mark what the rows name, sweep the rest.                 *)
(***************************************************************************)
GcPcs == {"idle", "mark", "list", "sweep"}
GcState == [pc : GcPcs, rows : SUBSET Vers, live : SUBSET Digests, todo : SUBSET Digests, missed : BOOLEAN]
GcIdle == [pc |-> "idle", rows |-> {}, live |-> {}, todo |-> {}, missed |-> FALSE]

Package == UNCHANGED <<format, req, calls, crashes>>

\* list_packages: the rows whose version is not empty.
GcStart ==
    /\ gc.pc = "idle" /\ collections > 0
    /\ gc' = [GcIdle EXCEPT !.pc = "mark", !.rows = ListPackages]
    /\ dirty' = {} /\ collections' = collections - 1
    /\ UNCHANGED <<row, blob, blamed, broken, faults>> /\ Package

\* Mutant of GcMark: the set of live digests is that of the last row.
GcMarkLast == \E v \in gc.rows :
    /\ gc.pc = "mark"
    /\ gc' = [gc EXCEPT !.rows = @ \ {v}, !.live = DigestsOf(row[v])]
    /\ UNCHANGED <<row, blob, dirty, blamed, broken, faults, collections>> /\ Package

\* meta.get of a listed row; one that cannot be read is passed over.
GcMark == \E v \in gc.rows, ok \in BOOLEAN :
    /\ gc.pc = "mark"
    /\ gc' = [gc EXCEPT !.rows = @ \ {v}, !.missed = @ \/ ~ok,
                        !.live = @ \cup (IF ok THEN DigestsOf(row[v]) ELSE {})]
    /\ \/ ok /\ UNCHANGED faults
       \/ ~ok /\ faults > 0 /\ faults' = faults - 1
    /\ UNCHANGED <<row, blob, dirty, blamed, broken, collections>> /\ Package

\* blobs.list, after the last row.
GcList ==
    /\ gc.pc = "mark" /\ gc.rows = {}
    /\ gc' = [gc EXCEPT !.pc = "sweep", !.todo = blob \ gc.live]
    /\ UNCHANGED <<row, blob, dirty, blamed, broken, faults, collections>> /\ Package

\* blobs.delete of an unmarked blob.
GcSweep == \E d \in gc.todo :
    LET used_by == \/ \E v \in Vers : d \in DigestsOf(row[v])
                   \/ \E x \in Clients :
                        req[x] # Idle /\ (req[x].data = d \/ d \in DigestsOf(req[x].row))
    IN  /\ gc.pc = "sweep"
        /\ gc' = [gc EXCEPT !.todo = @ \ {d}]
        /\ blob' = blob \ {d}
        /\ blamed' = IF used_by THEN blamed \cup {d} ELSE blamed
        /\ UNCHANGED <<row, dirty, broken, faults, collections>> /\ Package

GcDone ==
    /\ gc.pc = "sweep" /\ gc.todo = {}
    /\ gc' = GcIdle /\ dirty' = {}
    /\ UNCHANGED <<row, blob, blamed, broken, faults, collections>> /\ Package

Collect == GcStart \/ GcMark \/ GcList \/ GcSweep \/ GcDone

(***************************************************************************)
(* Interruptions.  The server drops the task of a client that hangs up, at *)
(* the await it has reached; a restart drops every task.                   *)
(***************************************************************************)
Cut(S) == \E c \in S : req[c] # Idle /\ req[c].flow \in Writing

HangUp(c) ==
    /\ crashes > 0
    /\ req[c] # Idle /\ req[c].pc # "done"
    /\ req' = [req EXCEPT ![c] = Idle]
    /\ broken' = (broken \/ Cut({c}))
    /\ crashes' = crashes - 1
    /\ UNCHANGED <<format, row, blob, gc, dirty, blamed, calls, faults, collections>>

Restart ==
    /\ crashes > 0
    /\ req' = [c \in Clients |-> Idle]
    /\ gc' = GcIdle /\ dirty' = {}
    /\ broken' = (broken \/ Cut(Clients))
    /\ crashes' = crashes - 1
    /\ UNCHANGED <<format, row, blob, blamed, calls, faults, collections>>

\* The server starts on the stores that an earlier run has left: none, or some
\* versions of a package, each with one file that was pushed.
Stocked(stock) ==
    LET Pushed == [files : {{[name |-> TheFile, digest |-> d]} : d \in Digests},
                   source : {"push"}, notes : {{}}]
    IN  {r \in [Vers -> Pushed \cup {NoRow}] :
           \A v \in Vers \ stock : r[v] = NoRow}

Init(s) ==
    /\ format = s.format /\ calls = s.calls /\ faults = s.faults
    /\ crashes = s.crashes /\ collections = s.collections
    /\ row \in Stocked(s.stock) /\ blob = UNION {DigestsOf(row[v]) : v \in Vers}
    /\ req = [c \in Clients |-> Idle]
    /\ gc = GcIdle /\ dirty = {}
    /\ blamed = {} /\ broken = FALSE

\* Everything but the arrival of requests and the restart.
Internal == (\E c \in Clients : Step(c) \/ HangUp(c)) \/ Collect

(***************************************************************************)
(* Properties.                                                             *)
(***************************************************************************)
TypeOK ==
    /\ format \in {s.format : s \in Scenarios}
    /\ row \in [Vers -> Row \cup {NoRow}] /\ blob \subseteq Digests
    /\ req \in [Clients -> Request \cup {Idle}]
    /\ gc \in GcState /\ dirty \subseteq Vers
    /\ blamed \subseteq Digests /\ broken \in BOOLEAN
    /\ calls \in Nat /\ faults \in Nat /\ crashes \in Nat /\ collections \in Nat

\* A row names only blobs that are stored, except while a request is removing
\* or replacing the row.  The exceptions are the two ways in which the code
\* breaks this: a blob is deleted while something else uses it (blobs are
\* shared by digest and no handler counts the users), and a request that was
\* cut or whose storage call failed leaves the row and the blob apart.  (An
\* image is not in the claim: the server takes a manifest without its layers.)
NoDanglingRow ==
    format # "oci" => \A v \in Vers : \A d \in DigestsOf(row[v]) \ blob :
       \/ d \in blamed
       \/ broken
       \/ \E c \in Clients : req[c] # Idle /\ req[c].ver = v
                             /\ req[c].flow \in {"remove", "merge"}

\* The row that version w has when request r has finished, had it been alone:
\* what the handler promises, said without its steps.
Promised(r, w) ==
    LET old  == r.before[w]
        mine == w = r.ver
        note == IF r.note = NoData THEN {} ELSE {r.note}
        file == IF r.data = NoData THEN {} ELSE {[name |-> r.file, digest |-> r.data]}
    IN  CASE r.flow = "overwrite" /\ mine -> [Blank EXCEPT !.files = file, !.source = r.source]
          [] r.flow = "merge" /\ mine ->
               [OrBlank(old) EXCEPT !.files = {f \in @ : file = {} \/ f.name # r.file} \cup file,
                                    !.source = IF r.source = "" THEN @ ELSE r.source]
          [] r.flow \in {"merge", "mark"} /\ w = Doc /\ note # {} -> [Blank EXCEPT !.notes = note]
          [] r.flow \in {"remove", "drop"} /\ w \in r.aim -> NoRow
          [] r.flow = "wipe" -> NoRow
          [] r.flow = "image" /\ w \in r.aim ->
               [files |-> r.row.files, source |-> r.source, notes |-> {r.note}]
          [] r.flow = "prune" /\ mine /\ old # NoRow ->
               LET left == {f \in old.files : f.name # r.file} IN
               IF left = {} THEN NoRow ELSE [old EXCEPT !.files = left]
          [] r.flow = "amend" /\ w \in r.aim /\ old # NoRow ->
               [old EXCEPT !.notes = IF r.add THEN @ \cup note ELSE @ \ note]
          [] r.flow = "edit" /\ mine /\ (r.note[2] = Doc \/ r.before[r.note[2]] # NoRow) ->
               [Blank EXCEPT !.notes = IF r.add THEN OrBlank(old).notes \cup note
                                       ELSE OrBlank(old).notes \ note]
          [] r.flow = "tag" /\ mine /\ (r.add => r.before[r.note[2]] # NoRow) ->
               [Blank EXCEPT !.notes = Edited([r EXCEPT !.vers = {v \in Vers : r.before[v] # NoRow}],
                                              OrBlank(old))]
          [] OTHER -> old

\* A request that met no other writer of its package and no failure leaves
\* exactly the rows it promises: no handler forgets a row, touches one that is
\* not its own, or answers before it has written.
ExactWhenAlone ==
    \A c \in Clients : req[c] # Idle /\ req[c].pc = "done" /\ req[c].clean =>
        \A w \in Vers : row[w] = Promised(req[c], w)

\* What a download answers, had it been alone: the named file of the row it
\* found, and what the upstream gave only when the row has no such file.
Wanted(r) == {f \in OrBlank(r.before[r.ver]).files : f.name = r.file}
Served(r) ==
    IF Wanted(r) # {} THEN {<<r.ver, {f.digest}>> : f \in Wanted(r)}
    ELSE IF r.data = NoData THEN {} ELSE {<<r.ver, {r.data}>>}

\* A read that met no writer, no failure and no lost blob answers with the rows
\* as they are: an index names every version with its digests, and a download
\* answers a stored file with that file, never with the upstream's bytes and
\* never with nothing, and the upstream's bytes only when no such file is
\* stored.  (A download that goes on to write a row has become a push when it
\* answers: ExactWhenAlone and PullKeepsPush are about it.)
AnswersExact ==
    \A c \in Clients : req[c] # Idle /\ req[c].pc = "done" /\ req[c].clean =>
        LET r == req[c] IN
        /\ r.flow = "list"  => r.out = {<<v, {}>> : v \in ListOciImages(r.aim, r.before, r.source)}
        /\ r.flow = "index" => r.out = {<<v, DigestsOf(r.before[v])>> :
                                           v \in {w \in r.aim : r.before[w] # NoRow}}
        /\ r.flow \in {"serve", "head"} => r.out = Served(r)

\* A collection deletes the blob of a row only when the row was written since
\* the collection began, or when the collector could not read the row: the
\* mark phase itself never overlooks a row.
GcSafe ==
    [][\A d \in blob \ blob', v \in Vers :
         gc.pc = "sweep" /\ gc'.todo # gc.todo /\ d \in DigestsOf(row[v])
            => v \in dirty \/ gc.missed]_vars

\* A pushed version is replaced by other, pulled contents only when it cannot
\* serve the wanted file (it has no such file, or the blob is gone), or when the
\* request met another or a failure: the cache never replaces a good release.
PullKeepsPush ==
    [][\A v \in Vers :
         LET old == row[v]  new == row'[v] IN
         old # NoRow /\ new # NoRow /\ old.source = "push" /\ new.source = "pull" =>
           \/ old.files = new.files /\ old.notes = new.notes
           \/ \E c \in Clients : req[c] # Idle /\ req[c].ver = v /\
                 (~req[c].clean \/ \A f \in old.files : f.name # req[c].file)]_vars
===============================================================================
