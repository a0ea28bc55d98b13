------------------------------ MODULE OciImages -------------------------------
(***************************************************************************)
(* Manifests, tags and layers of the OCI adapter, over the storage of      *)
(* Registry.                                                               *)
(*                                                                         *)
(* A manifest is stored as a row under every reference that names it: its  *)
(* digest and its tags, one put after the other.  References are numbers;  *)
(* those in Manifests are digests, and stand for the manifest with that    *)
(* digest, the others are tags.  A row notes which manifest it holds.      *)
(***************************************************************************)
EXTENDS Registry

CONSTANT Manifests   \* the digests among the references

ASSUME ManifestsAssumption == Manifests \subseteq References /\ Manifests # {}

Tags == References \ Manifests

VARIABLE unnamed     \* history: digests whose row was deleted since it was written

Holds(m)       == <<"manifest", m>>
ManifestOf(r)  == {m \in Manifests : Holds(m) \in r.notes}

\* extract_blobs: the layers that a manifest names, whether stored or not.
Layers == {[name |-> TheFile, digest |-> d] : d \in Digests}

\* Mutant of Image: the row is put under the wanted reference only.
ImageOneRow(m, ref, others, source) ==
    [Ask("image", ref, "save") EXCEPT !.note = Holds(m), !.source = source, !.aim = {ref},
       !.row = [files |-> Layers, source |-> source, notes |-> {Holds(m)}]]

\* Rows of manifest m are put under ref and then under the others.
Image(m, ref, others, source) ==
    [Ask("image", ref, "save") EXCEPT !.note = Holds(m), !.source = source,
       !.aim = {ref} \cup others, !.vers = others,
       !.row = [files |-> Layers, source |-> source, notes |-> {Holds(m)}]]

(***************************************************************************)
(* Requests.                                                               *)
(***************************************************************************)
\* Under a tag, the digest follows; under the digest, the tags of ?tag=.
PutManifest(c) == \E m \in Manifests :
    \/ \E t \in Tags : Begin(c, Image(m, t, {m}, "push"))
    \/ \E S \in SUBSET Tags : Begin(c, Image(m, m, S, "push"))

\* A tag or a digest; the upstream knows manifest m under it, or nothing.
GetManifest(c) == \E ref \in References, m \in Manifests \cup {Doc} :
    /\ ref \in Manifests => m \in {ref, Doc}
    /\ Begin(c, [Ask("resolve", ref, "load") EXCEPT !.note = Holds(m)])

DeleteManifest(c) == \E ref \in References :
    Begin(c, [Ask("drop", ref, "drop") EXCEPT !.aim = {ref}])

\* stat, then the file, else the upstream's bytes, kept when their digest is
\* the wanted one ("keep").
GetBlob(c) == \E d \in Digests, keep \in BOOLEAN :
    Begin(c, [Ask("layer", Doc, "open") EXCEPT !.data = d, !.keep = keep])

\* HEAD of a blob, and POST with ?mount=: whether it is there.
CheckBlob(c) == \E d \in Digests : Begin(c, [Ask("layer", Doc, "open") EXCEPT !.data = d])
MountBlob(c) == \E d \in Digests : Begin(c, [Ask("layer", Doc, "open") EXCEPT !.data = d])

\* POST with ?digest=: the body is the blob; put_if_absent checks the digest.
PostBlob(c) == \E d \in Digests :
    Begin(c, [Ask("layer", Doc, "blob") EXCEPT !.data = d, !.keep = TRUE])

DeleteBlob(c) == \E d \in Digests :
    Begin(c, [Ask("unlink", Doc, "cull") EXCEPT !.todo = {d}])

ListTags(c) == Begin(c, Listing)
ListReferrers(c) == Begin(c, [Ask("index", Doc, "list") EXCEPT !.aim = Manifests])

OciRequest(c) ==
    \/ PutManifest(c) \/ GetManifest(c) \/ DeleteManifest(c)
    \/ GetBlob(c) \/ CheckBlob(c) \/ MountBlob(c) \/ PostBlob(c) \/ DeleteBlob(c) \/ ListTags(c) \/ ListReferrers(c)

(***************************************************************************)
(* Steps.                                                                  *)
(***************************************************************************)
\* local_manifest; an error is a miss.
Resolve(c) == \E ok \in BOOLEAN :
    LET r == req[c] IN
    /\ At(c, {"resolve"}, "load")
    /\ Go(c, IF Got(c, ok) = NoRow THEN [r EXCEPT !.pc = "fetch"]
             ELSE [r EXCEPT !.pc = "done", !.out = {<<r.ver, {}>>}], ok)
    /\ OnlyReads

\* What the upstream has is stored under the reference and under its digest.
FetchManifest(c) ==
    LET r == req[c]  m == r.note[2] IN
    /\ At(c, {"resolve"}, "fetch")
    /\ Go(c, IF m = Doc THEN [r EXCEPT !.pc = "done"]
             ELSE [Image(m, r.ver, {m}, "pull") EXCEPT !.before = r.before, !.clean = r.clean], TRUE)
    /\ OnlyReads

\* One put.  A push stops at the first that fails, a pull goes on.
PutImage(c) == \E ok \in BOOLEAN :
    LET r == req[c] IN
    /\ At(c, {"image"}, "save")
    /\ Go(c, IF ~ok /\ r.source = "push" THEN [r EXCEPT !.pc = "done"] ELSE Advance(r, "save"), ok)
    /\ IF ok THEN SetRow(r.ver, r.row) ELSE UNCHANGED <<row, dirty>>
    /\ UNCHANGED <<blob, blamed>>

StatBlob(c) ==
    LET r == req[c] IN
    /\ At(c, {"layer"}, "open")
    /\ Go(c, [r EXCEPT !.pc = IF r.data \notin blob /\ r.keep THEN "blob" ELSE "done"], TRUE)
    /\ OnlyReads

StoreBlob(c) == \E ok \in BOOLEAN :
    LET r == req[c] IN
    /\ At(c, {"layer"}, "blob")
    /\ Go(c, [r EXCEPT !.pc = "done"], ok)
    /\ blob' = IF ok THEN blob \cup {r.data} ELSE blob
    /\ blamed' = IF ok THEN blamed \ {r.data} ELSE blamed
    /\ UNCHANGED <<row, dirty>>

OciStep(c) ==
    Resolve(c) \/ FetchManifest(c) \/ PutImage(c) \/ StatBlob(c) \/ StoreBlob(c)

\* History, in every step.
Unname ==
    unnamed' = {m \in Manifests : row'[m] = NoRow /\ (row[m] # NoRow \/ m \in unnamed)}

(***************************************************************************)
(* Properties.                                                             *)
(***************************************************************************)
\* A tag always leads to a digest that resolves: the manifest a tag names has
\* a row under its own digest, and that row holds this manifest, unless the
\* digest was deleted, a put has failed or was cut, or is still to come.
TagsResolve ==
    format = "oci" =>
    \A ref \in References : \A m \in ManifestOf(OrBlank(row[ref])) :
       /\ ref \in Manifests => m = ref
       /\ \/ row[m] # NoRow \/ m \in unnamed \/ broken
          \/ \E c \in Clients : At(c, {"image"}, "save") /\ m \in {req[c].ver} \cup req[c].vers
===============================================================================
