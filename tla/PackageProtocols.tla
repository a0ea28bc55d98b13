-------------------------- MODULE PackageProtocols ----------------------------
(***************************************************************************)
(* The handlers of the package protocols, over the storage of Registry.    *)
(*                                                                         *)
(* Every operator below that takes a client c is one route: it says which  *)
(* flow the handler runs and with which parameters; the storage calls of   *)
(* the flow are the steps of Registry.  Store operators are the functions  *)
(* that the routes (and the in-process client of pkglab-api) share.        *)
(*                                                                         *)
(* The parsing of paths, forms and archives comes down to what the         *)
(* handlers do with the result: a version, a file name and the bytes,      *)
(* which may be empty.  The name of a file carries its version, so a       *)
(* handler that looks for a file in every version finds it in one.         *)
(***************************************************************************)
EXTENDS Registry

Body == Digests \cup {NoData}   \* uploaded bytes, or the answer of an upstream

(***************************************************************************)
(* The flows and their parameters.                                         *)
(***************************************************************************)
\* Mutant of Overwrite: an empty body is stored like any other.
OverwriteEmpty(v, file, d, source) ==
    [Ask("overwrite", v, "blob") EXCEPT !.file = file, !.data = d, !.source = source,
       !.row = [Blank EXCEPT !.source = source]]

\* Mutant of Overwrite: the row is written and the blob never.
OverwriteRowOnly(v, file, d, source) ==
    [Ask("overwrite", v, "save") EXCEPT !.file = file, !.data = d, !.source = source,
       !.row = [Blank EXCEPT !.source = source,
                             !.files = IF d = NoData THEN {} ELSE {[name |-> file, digest |-> d]}]]

\* A row is built from nothing and replaces the one that is there.
Overwrite(v, file, d, source) ==
    [Ask("overwrite", v, IF d = NoData THEN "save" ELSE "blob")
       EXCEPT !.file = file, !.data = d, !.source = source,
              !.row = [Blank EXCEPT !.source = source]]

\* A file is added to the row that is there.
Merge(v, file, d, source) ==
    [Ask("merge", v, "load") EXCEPT !.file = file, !.data = d, !.source = source]

\* One version, or all of them, with their blobs.
Remove(v) == [Ask("remove", v, "load") EXCEPT !.aim = {v}]
RemoveAll == [Ask("remove", Doc, "list") EXCEPT !.aim = Vers]
Prune(v, file) == [Ask("prune", v, "load") EXCEPT !.file = file]

\* A file from the store; on a miss from upstream, which answers d.
Download(v, file, d, store, keep) ==
    [Ask("serve", v, "load")
       EXCEPT !.file = file, !.data = d, !.store = store, !.keep = keep]

(***************************************************************************)
(* cargo: the document of a crate holds the yanked versions and            *)
(* the owners.                                                             *)
(***************************************************************************)
CargoMeta(note, add) == [Ask("edit", Doc, "load") EXCEPT !.note = note, !.add = add]

CargoStoreVersion(v, d, source) == Overwrite(v, TheFile, d, source)

\* A frame without a readable head is taken whole; a short body is empty.
CargoPublishBody == Versions \X Body

CargoPublish(c) ==
    \E b \in CargoPublishBody : Begin(c, CargoStoreVersion(b[1], b[2], "push"))

CargoDownload(c) ==
    \E v \in Versions, d \in Body : Begin(c, Download(v, TheFile, d, "overwrite", FALSE))

CargoSetYanked(v, yanked) == [CargoMeta(<<"yanked", v>>, yanked) EXCEPT !.pc = "check"]

CargoYank(c) == \E v \in Versions : Begin(c, CargoSetYanked(v, TRUE))

CargoUnyank(c) == \E v \in Versions : Begin(c, CargoSetYanked(v, FALSE))

CargoAddOwners(c) == Begin(c, CargoMeta(<<"owners", Doc>>, TRUE))

CargoRemoveOwners(c) == Begin(c, CargoMeta(<<"owners", Doc>>, FALSE))

CargoListOwners(c) == Begin(c, ReadRows({Doc}))

CargoSearch(c) == Begin(c, Listing)

CargoCrate(c) == Begin(c, Listing)

CargoSparseIndex(c) == Begin(c, Index)

(***************************************************************************)
(* npm: the document of a package holds its dist tags.                     *)
(***************************************************************************)
NpmStoreVersion(v, d, source) == Overwrite(v, TheFile, d, source)

NpmPublish(c) ==
    \E v \in Versions, d \in Body : Begin(c, NpmStoreVersion(v, d, "push"))

NpmTarball(c) ==
    \E v \in Versions, d \in Body :
        Begin(c, [Download(v, TheFile, d, "overwrite", FALSE) EXCEPT !.pc = "list"])

NpmRemoveVersion(v) == Remove(v)

NpmRemovePackage == [RemoveAll EXCEPT !.tail = TRUE]

NpmDelete(c) ==
    \/ \E v \in Versions : Begin(c, NpmRemoveVersion(v))
    \/ Begin(c, NpmRemovePackage)

\* The document is listed like a version and is never among those to keep.
NpmReconcileVersions(keep) == [RemoveAll EXCEPT !.aim = Vers \ keep]

NpmRev(c) ==
    \/ \E keep \in SUBSET Versions : Begin(c, NpmReconcileVersions(keep))
    \/ Begin(c, NpmRemovePackage)

NpmDeprecate(c) ==
    \E S \in (SUBSET Versions) \ {{}}, add \in BOOLEAN :
        Begin(c, [Ask("amend", Least(S), "load")
                    EXCEPT !.note = <<"deprecated", Doc>>, !.add = add, !.aim = S, !.vers = S \ {Least(S)}])

NpmTag(note, add) == [Ask("tag", Doc, "list") EXCEPT !.note = note, !.add = add]

NpmDistTags(c) ==
    \/ \E v \in Versions : Begin(c, NpmTag(<<"latest", v>>, TRUE))
    \/ Begin(c, NpmTag(<<"latest", Doc>>, FALSE))
    \/ Begin(c, Index)

NpmAllPackages(c) == Begin(c, Listing)

NpmMetadata(c) == Begin(c, Index)

(***************************************************************************)
(* pypi: a release has several files, but each upload builds its row from nothing. *)
(***************************************************************************)
PypiStoreVersion(v, file, d, source) == Overwrite(v, file, d, source)

PypiUpload(c) ==
    \E v \in Versions, file \in Files, d \in Body : Begin(c, PypiStoreVersion(v, file, d, "push"))

PypiSimpleFile(c) ==
    \E v \in Versions, file \in Files, d \in Body :
        Begin(c, [Download(v, file, d, "overwrite", TRUE) EXCEPT !.pc = "list"])

PypiMetadataFile(c) ==
    \E v \in Versions, file \in Files :
        Begin(c, [Download(v, file, NoData, "none", FALSE) EXCEPT !.pc = "list"])

PypiRemoveVersion(v) == Remove(v)

PypiDeleteRelease(c) == \E v \in Versions : Begin(c, PypiRemoveVersion(v))

\* Some files of a release; without a list of files the release; without a
\* release the project.
PypiDeleteFiles(c) ==
    \/ \E v \in Versions, file \in Files : Begin(c, Prune(v, file))
    \/ \E v \in Versions : Begin(c, PypiRemoveVersion(v))
    \/ Begin(c, RemoveAll)

PypiDeleteProject(c) == Begin(c, RemoveAll)

PypiSimpleRoot(c) == Begin(c, Listing)

PypiSimpleProject(c) == Begin(c, Index)

PypiSimpleProjectJson(c) == Begin(c, Index)

(***************************************************************************)
(* maven: a version collects files; the metadata of an artifact is kept in a *)
(* version of its own, here the greatest one.                              *)
(***************************************************************************)
MavenMetadata == Max(Versions)

MavenVersions == Versions \ {MavenMetadata}

MavenStoreVersion(v, file, d, source) == Merge(v, file, d, source)

MavenGet(c) ==
    \E v \in MavenVersions, file \in Files, d \in Body :
        Begin(c, Download(v, file, d, "merge", TRUE))

\* HEAD answers from the row; on a miss the file is fetched and its blob kept.
MavenHead(c) ==
    \E v \in MavenVersions, file \in Files, d \in Body :
        Begin(c, [Download(v, file, d, "blob", TRUE) EXCEPT !.flow = "head"])

\* The sidecar is computed from the blob; on a miss upstream's is kept.
MavenHashFile(c) ==
    \E v \in MavenVersions, file \in Files, d \in Body :
        Begin(c, Download(v, file, d, "blob", TRUE))

MavenPut(c) ==
    \E v \in MavenVersions, file \in Files, d \in Body :
        Begin(c, MavenStoreVersion(v, file, d, "push"))

MavenPutMetadata(c) ==
    \E d \in Body : Begin(c, MavenStoreVersion(MavenMetadata, TheFile, d, "push"))

MavenDelete(c) == \E v \in MavenVersions, file \in Files : Begin(c, Prune(v, file))

MavenMetadataXml(c) == Begin(c, Listing)

MavenSnapshotXml(c) == \E v \in MavenVersions : Begin(c, ReadRows({v}))

MavenDispatch(c) ==
    \/ MavenGet(c) \/ MavenHead(c) \/ MavenHashFile(c) \/ MavenPut(c) \/ MavenPutMetadata(c)
    \/ MavenDelete(c) \/ MavenMetadataXml(c) \/ MavenSnapshotXml(c)

(***************************************************************************)
(* generic: files are added to a version; a package is deleted row by row, and its *)
(* blobs are left to the collector.                                        *)
(***************************************************************************)
GenericStore(v, file, d) == Merge(v, file, d, "")

GenericUpload(c) ==
    \E v \in Versions, file \in Files, d \in Body : Begin(c, GenericStore(v, file, d))

GenericDownload(c) ==
    \E v \in Versions, file \in Files : Begin(c, Download(v, file, NoData, "none", FALSE))

GenericDelete(c) == Begin(c, [Ask("drop", Doc, "list") EXCEPT !.aim = Vers])

GenericDispatch(c) == GenericUpload(c) \/ GenericDownload(c) \/ GenericDelete(c)

(***************************************************************************)
(* conan: the document of a recipe name holds the revision that was named last. *)
(***************************************************************************)
ConanRev(v) == <<"revision", v>>

ConanStoreFile(v, file, d) == Merge(v, file, d, "")

\* The revision is written before the body is read.
ConanFilePut(c) ==
    \E v \in Versions, file \in Files, d \in Body :
        Begin(c, [ConanStoreFile(v, file, d) EXCEPT !.pc = "rev", !.note = ConanRev(v)])

ConanPkgFilePut(c) ==
    \E v \in Versions, file \in Files, d \in Body : Begin(c, ConanStoreFile(v, file, d))

ConanFileUploadRecipe(c) ==
    \E v \in Versions, file \in Files, d \in Body : Begin(c, ConanStoreFile(v, file, d))

ConanFileUploadPackage(c) ==
    \E v \in Versions, file \in Files, d \in Body : Begin(c, ConanStoreFile(v, file, d))

ConanRecipeUploadUrls(c) ==
    \E v \in Versions : Begin(c, [Ask("mark", v, "rev") EXCEPT !.note = ConanRev(v)])

ConanFileGet(c) ==
    \E v \in Versions, file \in Files, d \in Body : Begin(c, Download(v, file, d, "none", FALSE))

ConanPkgFileGet(c) ==
    \E v \in Versions, file \in Files, d \in Body : Begin(c, Download(v, file, d, "none", FALSE))

\* The version, and with it the document of the whole name.
ConanDropArtifact(v) == [Remove(v) EXCEPT !.aim = {v, Doc}, !.tail = TRUE]

ConanDeleteRecipe(c) == \E v \in Versions : Begin(c, ConanDropArtifact(v))

ConanDeleteRecipeRev(c) == \E v \in Versions : Begin(c, ConanDropArtifact(v))

ConanDeletePackage(c) == \E v \in Versions : Begin(c, ConanDropArtifact(v))

ConanSearch(c) == Begin(c, Listing)

ConanLatest(c) == \E v \in Versions : Begin(c, ReadRows({v, Doc}))

ConanRevisions(c) == \E v \in Versions : Begin(c, ReadRows({v, Doc}))

ConanFiles(c) == \E v \in Versions : Begin(c, ReadRows({v}))

ConanPkgLatest(c) == \E v \in Versions : Begin(c, ReadRows({v}))

ConanPkgRevisions(c) == \E v \in Versions : Begin(c, ReadRows({v}))

ConanPkgFilesList(c) == \E v \in Versions : Begin(c, ReadRows({v}))

ConanProxyRecipe(c) == \E v \in Versions : Begin(c, ReadRows({v}))

(***************************************************************************)
(* rubygems: one file per version.                                         *)
(***************************************************************************)
GemsStoreVersion(v, d, source) == Overwrite(v, TheFile, d, source)

GemsUpload(c) ==
    \E v \in Versions, d \in Body : Begin(c, GemsStoreVersion(v, d, "push"))

GemsDownload(c) ==
    \E v \in Versions, d \in Body : Begin(c, Download(v, TheFile, d, "overwrite", FALSE))

GemsRemoveVersion(v) == Remove(v)

\* Without a version every version is yanked.
GemsYank(c) ==
    \/ \E v \in Versions : Begin(c, GemsRemoveVersion(v))
    \/ Begin(c, RemoveAll)

GemsNames(c) == Begin(c, Listing)

GemsSearch(c) == Begin(c, Listing)

GemsCompactVersions(c) == Begin(c, Listing)

GemsSpecs(c) == Begin(c, Listing)

GemsDependencies(c) == Begin(c, Listing)

GemsCompactInfo(c) == Begin(c, Index)

GemsQuickMarshal(c) == \E v \in Versions : Begin(c, ReadRows({v}))

(***************************************************************************)
(* hex: a release that is not stored is only proxied.                      *)
(***************************************************************************)
HexStoreVersion(v, d) == Overwrite(v, TheFile, d, "")

HexPublish(c) == \E v \in Versions, d \in Body : Begin(c, HexStoreVersion(v, d))

\* A body that is no release is answered like one, and nothing is stored.
HexCreateRelease(c) ==
    \E v \in Versions, d \in Digests : Begin(c, HexStoreVersion(v, d))

HexTarball(c) ==
    \E v \in Versions, d \in Body : Begin(c, Download(v, TheFile, d, "none", FALSE))

HexDeleteRelease(c) ==
    \E v \in Versions : Begin(c, [Remove(v) EXCEPT !.pc = "check"])

HexNames(c) == Begin(c, Listing)

HexVersions(c) == Begin(c, Listing)

HexPackage(c) == Begin(c, Index)

(***************************************************************************)
(* nuget: one file per version.                                            *)
(***************************************************************************)
NugetStoreVersion(v, d, source) == Overwrite(v, TheFile, d, source)

NugetPush(c) ==
    \E v \in Versions, d \in Body : Begin(c, NugetStoreVersion(v, d, "push"))

NugetFlatFile(c) ==
    \E v \in Versions, d \in Body : Begin(c, Download(v, TheFile, d, "overwrite", FALSE))

NugetDelete(c) == \E v \in Versions : Begin(c, Remove(v))

NugetAutocomplete(c) == Begin(c, Listing)

NugetSearch(c) == Begin(c, Listing)

NugetRegistration(c) == Begin(c, Listing)

NugetFlatIndex(c) == Begin(c, Listing)

(***************************************************************************)
(* swift: the archive comes from a clone of the package's repository, or from *)
(* upstream.                                                               *)
(***************************************************************************)
SwiftStoreVersion(v, d, source) == Overwrite(v, TheFile, d, source)

\* An upload without an archive is refused.
SwiftPut(c) ==
    \E v \in Versions, d \in Digests : Begin(c, SwiftStoreVersion(v, d, "push"))

SwiftSourceZip(c) ==
    \E v \in Versions, d \in Body, upstream \in BOOLEAN :
        Begin(c, Download(v, TheFile, d, "overwrite", upstream))

SwiftManifest(c) ==
    \E v \in Versions : Begin(c, Download(v, TheFile, NoData, "none", FALSE))

SwiftReleases(c) == Begin(c, Listing)

SwiftVersionMeta(c) == \E v \in Versions : Begin(c, ReadRows({v}))

(***************************************************************************)
(* composer: one file per version.                                         *)
(***************************************************************************)
ComposerStoreVersion(v, d, source) == Overwrite(v, TheFile, d, source)

ComposerUpload(c) ==
    \E v \in Versions, d \in Body : Begin(c, ComposerStoreVersion(v, d, "push"))

ComposerDist(c) ==
    \E v \in Versions, d \in Body : Begin(c, Download(v, TheFile, d, "overwrite", TRUE))

ComposerDelete(c) == Begin(c, RemoveAll)

ComposerPackages(c) == Begin(c, Listing)

ComposerSearch(c) == Begin(c, Listing)

ComposerP2(c) == Begin(c, Index)

ComposerProvider(c) == Begin(c, Index)

(***************************************************************************)
(* go: versions of a module are never deleted through the protocol.        *)
(***************************************************************************)
GoStoreVersion(v, d, source) == Overwrite(v, TheFile, d, source)

GoUpload(c) == \E v \in Versions, d \in Body : Begin(c, GoStoreVersion(v, d, "push"))

GoModuleZip(c) ==
    \E v \in Versions, d \in Body : Begin(c, Download(v, TheFile, d, "overwrite", FALSE))

GoMod(c) ==
    \E v \in Versions, d \in Body : Begin(c, Download(v, TheFile, d, "none", FALSE))

GoLatest(c) == Begin(c, Listing)

GoVersions(c) == Begin(c, Listing)

GoInfo(c) == \E v \in Versions : Begin(c, ReadRows({v}))

GoDispatch(c) ==
    GoUpload(c) \/ GoModuleZip(c) \/ GoMod(c) \/ GoLatest(c) \/ GoVersions(c) \/ GoInfo(c)

(***************************************************************************)
(* helm: a chart that is not stored is only proxied.                       *)
(***************************************************************************)
HelmStoreChart(v, d) == Overwrite(v, TheFile, d, "")

HelmUpload(c) == \E v \in Versions, d \in Body : Begin(c, HelmStoreChart(v, d))

HelmChart(c) ==
    \E v \in Versions, d \in Body :
        Begin(c, [Download(v, TheFile, d, "none", FALSE) EXCEPT !.pc = "list"])

HelmRemoveVersion(v) == Remove(v)

HelmDeleteChart(c) == Begin(c, RemoveAll)

HelmDeleteChartVersion(c) == \E v \in Versions : Begin(c, HelmRemoveVersion(v))

HelmIndexYaml(c) == Begin(c, Index)

(***************************************************************************)
(* pub: the archive is stored by the upload itself; finishing it does nothing. *)
(***************************************************************************)
PubStoreVersion(v, d, source) == Overwrite(v, TheFile, d, source)

PubNewUpload(c) ==
    \E v \in Versions, d \in Body : Begin(c, PubStoreVersion(v, d, "push"))

PubArchive(c) ==
    \E v \in Versions, d \in Body : Begin(c, Download(v, TheFile, d, "overwrite", TRUE))

PubRetract(c) == \E v \in Versions : Begin(c, Remove(v))

PubPackages(c) == Begin(c, Listing)

PubMetadata(c) == Begin(c, Index)

PubVersionMetadata(c) == Begin(c, Index)

(***************************************************************************)
(* The requests of a client.                                               *)
(***************************************************************************)
CargoRequest(c) ==
    \/ CargoPublish(c) \/ CargoDownload(c) \/ CargoYank(c) \/ CargoUnyank(c)
    \/ CargoAddOwners(c) \/ CargoRemoveOwners(c) \/ CargoListOwners(c) \/ CargoSearch(c)
    \/ CargoCrate(c) \/ CargoSparseIndex(c)

NpmRequest(c) ==
    \/ NpmPublish(c) \/ NpmTarball(c) \/ NpmDelete(c) \/ NpmRev(c) \/ NpmDeprecate(c)
    \/ NpmDistTags(c) \/ NpmAllPackages(c) \/ NpmMetadata(c)

PypiRequest(c) ==
    \/ PypiUpload(c) \/ PypiSimpleFile(c) \/ PypiMetadataFile(c) \/ PypiDeleteRelease(c)
    \/ PypiDeleteFiles(c) \/ PypiDeleteProject(c) \/ PypiSimpleRoot(c)
    \/ PypiSimpleProject(c) \/ PypiSimpleProjectJson(c)

ConanRequest(c) ==
    \/ ConanFilePut(c) \/ ConanPkgFilePut(c) \/ ConanFileUploadRecipe(c)
    \/ ConanFileUploadPackage(c) \/ ConanRecipeUploadUrls(c) \/ ConanFileGet(c)
    \/ ConanPkgFileGet(c) \/ ConanDeleteRecipe(c) \/ ConanDeleteRecipeRev(c)
    \/ ConanDeletePackage(c) \/ ConanSearch(c) \/ ConanLatest(c) \/ ConanRevisions(c)
    \/ ConanFiles(c) \/ ConanPkgLatest(c) \/ ConanPkgRevisions(c)
    \/ ConanPkgFilesList(c) \/ ConanProxyRecipe(c)

GemsRequest(c) ==
    \/ GemsUpload(c) \/ GemsDownload(c) \/ GemsYank(c) \/ GemsNames(c) \/ GemsSearch(c)
    \/ GemsCompactVersions(c) \/ GemsSpecs(c) \/ GemsDependencies(c)
    \/ GemsCompactInfo(c) \/ GemsQuickMarshal(c)

HexRequest(c) ==
    \/ HexPublish(c) \/ HexCreateRelease(c) \/ HexTarball(c) \/ HexDeleteRelease(c)
    \/ HexNames(c) \/ HexVersions(c) \/ HexPackage(c)

NugetRequest(c) ==
    \/ NugetPush(c) \/ NugetFlatFile(c) \/ NugetDelete(c) \/ NugetAutocomplete(c)
    \/ NugetSearch(c) \/ NugetRegistration(c) \/ NugetFlatIndex(c)

SwiftRequest(c) ==
    \/ SwiftPut(c) \/ SwiftSourceZip(c) \/ SwiftManifest(c) \/ SwiftReleases(c)
    \/ SwiftVersionMeta(c)

ComposerRequest(c) ==
    \/ ComposerUpload(c) \/ ComposerDist(c) \/ ComposerDelete(c) \/ ComposerPackages(c)
    \/ ComposerSearch(c) \/ ComposerP2(c) \/ ComposerProvider(c)

HelmRequest(c) ==
    \/ HelmUpload(c) \/ HelmChart(c) \/ HelmDeleteChart(c) \/ HelmDeleteChartVersion(c)
    \/ HelmIndexYaml(c)

PubRequest(c) ==
    \/ PubNewUpload(c) \/ PubArchive(c) \/ PubRetract(c) \/ PubPackages(c)
    \/ PubMetadata(c) \/ PubVersionMetadata(c)

PackageRequest(c) ==
    \/ format = "cargo"    /\ CargoRequest(c)
    \/ format = "npm"      /\ NpmRequest(c)
    \/ format = "pypi"     /\ PypiRequest(c)
    \/ format = "maven"    /\ MavenDispatch(c)
    \/ format = "generic"  /\ GenericDispatch(c)
    \/ format = "conan"    /\ ConanRequest(c)
    \/ format = "rubygems" /\ GemsRequest(c)
    \/ format = "hex"      /\ HexRequest(c)
    \/ format = "nuget"    /\ NugetRequest(c)
    \/ format = "swift"    /\ SwiftRequest(c)
    \/ format = "composer" /\ ComposerRequest(c)
    \/ format = "go"       /\ GoDispatch(c)
    \/ format = "helm"     /\ HelmRequest(c)
    \/ format = "pub"      /\ PubRequest(c)
===============================================================================
