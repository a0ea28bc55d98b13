---------------------------- MODULE RegistryServer ----------------------------
(***************************************************************************)
(* The registry server: the package protocols, the images and the uploads  *)
(* on one pair of stores, with the collector.                              *)
(***************************************************************************)
EXTENDS PackageProtocols, OciImages, OciUploads

allVars == <<vars, unnamed, upVars>>

ServerInit == \E s \in Scenarios :
    Init(s) /\ UploadInit /\ uploads = s.uploads /\ unnamed = {}

(***************************************************************************)
(* The routes of the server itself, and the in-process client of           *)
(* pkglab-api, which calls the functions of the adapters.                  *)
(***************************************************************************)
DeletePackage(c) == Begin(c, Ask("wipe", Doc, "drop"))

SystemPackages(c) == Begin(c, [Listing EXCEPT !.aim = Vers \ {Doc}])

OpsPackages(c) == Begin(c, [Listing EXCEPT !.aim = Vers \ {Doc}])

\* Pushed images only, unless all are asked for.
OpsImages(c) == \E source \in Source :
    format = "oci" /\ Begin(c, [Listing EXCEPT !.aim = References, !.source = source])

ClientDelete(c) == \E v \in Versions : Begin(c, Remove(v))

AdapterPublish(c) == \E v \in Versions, file \in Files, d \in Body :
    \/ format = "npm"      /\ Begin(c, NpmStoreVersion(v, d, "push"))
    \/ format = "pypi"     /\ Begin(c, PypiStoreVersion(v, file, d, "push"))
    \/ format = "cargo"    /\ Begin(c, CargoStoreVersion(v, d, "push"))
    \/ format = "go"       /\ Begin(c, GoStoreVersion(v, d, "push"))
    \/ format = "maven"    /\ Begin(c, MavenStoreVersion(v, file, d, "push"))
    \/ format = "composer" /\ Begin(c, ComposerStoreVersion(v, d, "push"))
    \/ format = "nuget"    /\ Begin(c, NugetStoreVersion(v, d, "push"))
    \/ format = "rubygems" /\ Begin(c, GemsStoreVersion(v, d, "push"))
    \/ format = "hex"      /\ Begin(c, HexStoreVersion(v, d))
    \/ format = "pub"      /\ Begin(c, PubStoreVersion(v, d, "push"))
    \/ format = "swift"    /\ Begin(c, SwiftStoreVersion(v, d, "push"))
    \/ format = "helm"     /\ Begin(c, HelmStoreChart(v, d))
    \/ format = "generic"  /\ Begin(c, GenericStore(v, file, d))

\* Conan writes the revision, then the file (of several, the first).
ConanClientPublish(c) == \E v \in Versions, file \in Files, d \in Digests :
    format = "conan"
    /\ Begin(c, [ConanStoreFile(v, file, d) EXCEPT !.pc = "rev", !.note = ConanRev(v)])

OciClientPublish(c) == \E m \in Manifests :
    /\ format = "oci"
    /\ \/ \E t \in Tags : Begin(c, Image(m, t, {m}, "push"))
       \/ \E S \in SUBSET Tags : Begin(c, Image(m, m, S, "push"))

ServerRequest(c) ==
    \/ DeletePackage(c) \/ SystemPackages(c) \/ OpsPackages(c) \/ OpsImages(c)
    \/ ClientDelete(c) \/ AdapterPublish(c) \/ ConanClientPublish(c) \/ OciClientPublish(c)

Call(c) ==
    /\ req[c] = Idle /\ up[c] = Idle /\ calls > 0
    /\ \/ PackageRequest(c)
       \/ format = "oci" /\ OciRequest(c)
       \/ ServerRequest(c)

Serving ==
    /\ (\E c \in Clients : Call(c) \/ OciStep(c)) \/ Internal
    /\ UNCHANGED upVars

Uploading ==
    \E c \in Clients : UploadRequest(c) \/ UploadStep(c) \/ DropUpload(c)

RestartServer == Restart /\ RestoreUploads

Next == (Serving \/ Uploading \/ RestartServer) /\ Unname

Spec == ServerInit /\ [][Next]_allVars
===============================================================================
