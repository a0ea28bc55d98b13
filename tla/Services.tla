------------------------------- MODULE Services -------------------------------
(***************************************************************************)
(* One long-running service of /ops: a bare pod, a deployment or both      *)
(* under one name, with a Kubernetes Service before them; the image a      *)
(* sandbox is derived from; and the synchronization of a repository into   *)
(* the worker.  The handlers are dropped with their client.                *)
(***************************************************************************)
EXTENDS ServerCalls

CONSTANTS
    None,      \* no object, nothing synchronized
    MaxSha,    \* commits of the branch that is synchronized
    MaxVer,    \* versions of the deployment
    MaxScale   \* replicas a client may ask for

VARIABLES
    deployment,  \* None, or its version, replicas, template and life
    pod,         \* None, or the bare pod and what its worker holds
    svc,         \* the Service: "none" or "here"
    revisions,   \* templates of the ReplicaSets
    nextVer,     \* next resource version, and next template
    derived,     \* DERIVED: "none" or "listed"
    image,       \* the derived image: "none" or "built"
    tip,         \* the commit of the branch
    cache,       \* SyncCache of the service
    ask,         \* the request of each client
    wanted,      \* observer: the edits of the deployment that were accepted
    drift,       \* observer: "yes" while cache and worker need not agree
    poisoned     \* observer: "yes" once a build was abandoned

svcVars == <<deployment, pod, svc, revisions, nextVer, derived, image, tip, cache,
             ask, wanted, drift, poisoned>>

Shas == 1..MaxSha
Vers == 1..MaxVer
Specs == [replicas : 0..MaxScale, tmpl : Vers]

Deployments == [ver : Vers, replicas : 0..MaxScale, tmpl : Vers,
                life : {"live", "dying"}, ready : {"yes", "no"}]
Pods == [life : {"live", "dying"}, ready : {"yes", "no"}, data : Shas \cup {None},
         sandbox : {"yes", "no"}]

Operations == {"ensure", "delete", "scale", "restart", "rollback", "sync"}
Steps == {"derive", "build", "get", "await", "create", "unsvc", "newsvc", "wait",
          "undep", "unpod", "dropsvc", "read", "put", "check", "status", "send", "insert"}

\* `value`: replicas, a template or a commit; `base`: the deployment that was read.
Asks == [op : Operations, pc : Steps, kind : {"bare", "deployment"}, sandbox : {"yes", "no"},
         value : Nat, base : Deployments \cup {None}, force : {"yes", "no"},
         alone : {"yes", "no"}]

ASSUME ServicesAssumption ==
    /\ MaxSha \in Nat \ {0} /\ MaxVer \in Nat /\ MaxScale \in Nat
    /\ None \notin Nat \cup Deployments \cup Pods
    /\ Idle \notin Asks

SvcTypeOK ==
    /\ deployment \in Deployments \cup {None}
    /\ pod \in Pods \cup {None}
    /\ svc \in {"none", "here"}
    /\ revisions \subseteq Vers
    /\ nextVer \in 1..(MaxVer + 1)
    /\ derived \in {"none", "listed"} /\ image \in {"none", "built"}
    /\ tip \in Shas
    /\ cache \in Shas \cup {None}
    /\ ask \in [Clients -> Asks \cup {Idle}]
    /\ wanted \in Specs \cup {None}
    /\ drift \in {"yes", "no"} /\ poisoned \in {"yes", "no"}

SvcInit ==
    /\ deployment = None /\ pod = None /\ svc = "none" /\ revisions = {} /\ nextVer = 1
    /\ derived = "none" /\ image = "none"
    /\ tip = 1 /\ cache = None
    /\ ask = [c \in Clients |-> Idle]
    /\ wanted = None /\ drift = "no" /\ poisoned = "no"

Cluster == <<deployment, pod, svc, revisions, nextVer>>
Memory  == <<derived, cache>>
Seen    == <<wanted, drift, poisoned>>

(***************************************************************************)
(* How a request begins, proceeds and ends.                                *)
(***************************************************************************)
Request(op, pc) ==
    [op |-> op, pc |-> pc, kind |-> "bare", sandbox |-> "no", value |-> 0, base |-> None,
     force |-> "no", alone |-> "yes"]

\* The observer of overlaps: a request that another one meets is not alone.
BeginAsk(c, r) ==
    LET others == {d \in Clients \ {c} : ask[d] # Idle}
    IN
    /\ ask[c] = Idle /\ Spend("ops")
    /\ ask' = [d \in Clients |->
                 IF d = c THEN [r EXCEPT !.alone = IF others = {} THEN "yes" ELSE "no"]
                 ELSE IF ask[d] = Idle THEN Idle
                 ELSE [ask[d] EXCEPT !.alone = "no"]]
    /\ drift' = IF r.op = "sync" /\ \E d \in others : ask[d].op = "sync" THEN "yes" ELSE drift
    /\ UNCHANGED <<Cluster, Memory, image, tip, wanted, poisoned>>

Asking(c, pc) == ask[c] # Idle /\ ask[c].pc = pc
Proceed(c, pc) == ask' = [ask EXCEPT ![c].pc = pc]
Answer(c) == ask' = [ask EXCEPT ![c] = Idle]

Object(kind) == IF kind = "bare" THEN pod ELSE deployment

(***************************************************************************)
(* ops_service_create: derive_sandbox_image, then ServiceClient::ensure.   *)
(***************************************************************************)
Ensure(c) == \E kind \in {"bare", "deployment"}, sandbox \in {"yes", "no"} :
    /\ sandbox = "yes" => kind = "bare"
    /\ BeginAsk(c, [Request("ensure", IF sandbox = "yes" THEN "derive" ELSE "get")
                      EXCEPT !.kind = kind, !.sandbox = sandbox])

\* The name is listed before it is built.
Derive(c) ==
    /\ Asking(c, "derive")
    /\ derived' = "listed"
    /\ Proceed(c, IF derived = "listed" THEN "get" ELSE "build")
    /\ UNCHANGED <<Cluster, image, tip, cache, Seen, left>>

Build(c) ==
    /\ Asking(c, "build")
    /\ image' = "built" /\ Proceed(c, "get")
    /\ UNCHANGED <<Cluster, Memory, tip, Seen, left>>

\* Mutant of BuildFails: an image that was not built stays listed.
BuildFailsListed(c) ==
    /\ Asking(c, "build") /\ Spend("faults")
    /\ Answer(c)
    /\ UNCHANGED <<Cluster, image, tip, Memory, Seen>>

\* Only an exit status other than zero takes the name off the list.
BuildFails(c) ==
    /\ Asking(c, "build") /\ Spend("faults")
    /\ \/ derived' = "none" /\ UNCHANGED poisoned
       \/ poisoned' = "yes" /\ UNCHANGED derived
    /\ Answer(c)
    /\ UNCHANGED <<Cluster, image, tip, cache, wanted, drift>>

EnsureUnchanged == UNCHANGED <<Memory, image, tip, drift, poisoned, left>>

\* Mutant of GetObject: one that is being deleted is reused.
GetObjectAny(c) ==
    /\ Asking(c, "get")
    /\ Proceed(c, IF Object(ask[c].kind) = None THEN "create" ELSE "unsvc")
    /\ EnsureUnchanged /\ UNCHANGED <<Cluster, wanted>>

\* Get-or-create: one that is being deleted is waited for.
GetObject(c) ==
    LET object == Object(ask[c].kind) IN
    /\ Asking(c, "get")
    /\ Proceed(c, IF object = None THEN "create"
                  ELSE IF object.life = "live" THEN "unsvc" ELSE "await")
    /\ EnsureUnchanged /\ UNCHANGED <<Cluster, wanted>>

AwaitGone(c) ==
    /\ Asking(c, "await")
    /\ \/ Object(ask[c].kind) = None /\ Proceed(c, "create")
       \/ Object(ask[c].kind) # None /\ Answer(c)     \* the deadline
    /\ EnsureUnchanged /\ UNCHANGED <<Cluster, wanted>>

CreatePod(c) ==
    /\ Asking(c, "create") /\ ask[c].kind = "bare"
    /\ \/ pod # None /\ Answer(c) /\ UNCHANGED pod
       \/ /\ pod = None
          /\ pod' = [life |-> "live", ready |-> "no", data |-> None, sandbox |-> ask[c].sandbox]
          /\ Proceed(c, "unsvc")
    /\ EnsureUnchanged /\ UNCHANGED <<deployment, svc, revisions, nextVer, wanted>>

CreateDeployment(c) ==
    /\ Asking(c, "create") /\ ask[c].kind = "deployment"
    /\ \/ /\ deployment # None /\ Answer(c)
          /\ UNCHANGED <<deployment, revisions, nextVer, wanted>>
       \/ /\ deployment = None /\ nextVer <= MaxVer /\ MaxScale > 0
          /\ deployment' = [ver |-> nextVer, replicas |-> 1, tmpl |-> nextVer,
                             life |-> "live", ready |-> "no"]
          /\ revisions' = {nextVer} /\ nextVer' = nextVer + 1
          /\ wanted' = [replicas |-> 1, tmpl |-> nextVer]
          /\ Proceed(c, "unsvc")
    /\ EnsureUnchanged /\ UNCHANGED <<pod, svc>>

\* upsert_service deletes the Service, whatever comes of it, and makes it again.
DeleteService(c) ==
    /\ Asking(c, "unsvc")
    /\ \/ svc' = "none" /\ UNCHANGED left
       \/ Spend("faults") /\ UNCHANGED svc
    /\ Proceed(c, "newsvc")
    /\ UNCHANGED <<deployment, pod, revisions, nextVer, Memory, image, tip, Seen>>

CreateService(c) ==
    /\ Asking(c, "newsvc")
    /\ \/ svc = "none" /\ svc' = "here" /\ Proceed(c, "wait")
       \/ svc = "here" /\ Answer(c) /\ UNCHANGED svc
    /\ EnsureUnchanged /\ UNCHANGED <<deployment, pod, revisions, nextVer, wanted>>

\* Until status says ready, or there is nothing, or at the deadline.
AwaitReady(c) ==
    /\ Asking(c, "wait") /\ Answer(c)
    /\ EnsureUnchanged /\ UNCHANGED <<Cluster, wanted>>

(***************************************************************************)
(* ServiceClient::delete: every error is dropped.                          *)
(***************************************************************************)
Delete(c) == BeginAsk(c, Request("delete", "undep"))

Dying(object) == IF object = None THEN None ELSE [object EXCEPT !.life = "dying"]

DeleteObject(c) ==
    /\ \/ /\ Asking(c, "undep") /\ Proceed(c, "unpod")
          /\ \/ deployment' = Dying(deployment) /\ UNCHANGED <<pod, svc, left>>
             \/ Spend("faults") /\ UNCHANGED <<deployment, pod, svc>>
       \/ /\ Asking(c, "unpod") /\ Proceed(c, "dropsvc")
          /\ \/ pod' = Dying(pod) /\ UNCHANGED <<deployment, svc, left>>
             \/ Spend("faults") /\ UNCHANGED <<deployment, pod, svc>>
       \/ /\ Asking(c, "dropsvc") /\ Answer(c)
          /\ \/ svc' = "none" /\ UNCHANGED <<deployment, pod, left>>
             \/ Spend("faults") /\ UNCHANGED <<deployment, pod, svc>>
    /\ UNCHANGED <<revisions, nextVer, Memory, image, tip, Seen>>

(***************************************************************************)
(* scale, restart and service_rollback read the deployment, edit the       *)
(* object and put it back; Kubernetes compares the version.                *)
(***************************************************************************)
Scale(c) == \E n \in 0..MaxScale : BeginAsk(c, [Request("scale", "read") EXCEPT !.value = n])
Restart(c) == BeginAsk(c, Request("restart", "read"))
Rollback(c) == \E t \in revisions : BeginAsk(c, [Request("rollback", "read") EXCEPT !.value = t])

ReadDeployment(c) ==
    /\ Asking(c, "read")
    /\ \/ deployment = None /\ Answer(c)
       \/ deployment # None /\ ask' = [ask EXCEPT ![c].pc = "put", ![c].base = deployment]
    /\ EnsureUnchanged /\ UNCHANGED <<Cluster, wanted>>

\* Mutant of Current: the object is built without its version.
CurrentAny(c) == deployment # None

Current(c) == deployment # None /\ deployment.ver = ask[c].base.ver

\* Mutant of Edited: a scale adds to the replicas.
EditedBy(c) ==
    LET base == ask[c].base
    IN  CASE ask[c].op = "scale" ->
                {[replicas |-> base.replicas + ask[c].value, tmpl |-> base.tmpl]}
          [] ask[c].op = "rollback" -> {[replicas |-> base.replicas, tmpl |-> ask[c].value]}
          [] OTHER -> {[replicas |-> base.replicas, tmpl |-> nextVer]}

\* The stamp of a restart is in seconds: a second one may leave all as it was.
Edited(c) ==
    LET base == ask[c].base
    IN  CASE ask[c].op = "scale"    -> {[replicas |-> ask[c].value, tmpl |-> base.tmpl]}
          [] ask[c].op = "rollback" -> {[replicas |-> base.replicas, tmpl |-> ask[c].value]}
          [] OTHER -> {[replicas |-> base.replicas, tmpl |-> t] : t \in {base.tmpl, nextVer}}

ReplaceDeployment(c) ==
    /\ Asking(c, "put") /\ Answer(c)
    /\ \/ /\ Current(c) /\ nextVer <= MaxVer
          /\ \E spec \in Edited(c) :
                /\ deployment' = [deployment EXCEPT !.ver = nextVer, !.replicas = spec.replicas,
                                                    !.tmpl = spec.tmpl]
                /\ revisions' = revisions \cup {spec.tmpl}
                /\ wanted' = IF ask[c].op = "scale" THEN [wanted EXCEPT !.replicas = ask[c].value]
                             ELSE [wanted EXCEPT !.tmpl = spec.tmpl]
          /\ nextVer' = nextVer + 1
       \/ ~Current(c) /\ UNCHANGED <<deployment, revisions, nextVer, wanted>>
    /\ EnsureUnchanged /\ UNCHANGED <<pod, svc>>

(***************************************************************************)
(* ops_service_sync: the branch is resolved, the cache consulted, the tree *)
(* of the commit sent to the worker, the cache written.                    *)
(***************************************************************************)
Sync(c) == \E force \in {"yes", "no"} :
    BeginAsk(c, [Request("sync", "check") EXCEPT !.value = tip, !.force = force])

CheckCache(c) ==
    /\ Asking(c, "check")
    /\ IF ask[c].force = "no" /\ cache = ask[c].value THEN Answer(c) ELSE Proceed(c, "status")
    /\ EnsureUnchanged /\ UNCHANGED <<Cluster, wanted>>

WorkerReady == pod # None /\ pod.ready = "yes"

\* Of a deployment the port is not found, and nothing can be sent.
CheckStatus(c) ==
    /\ Asking(c, "status")
    /\ IF deployment = None /\ WorkerReady
         THEN Proceed(c, "send") ELSE Answer(c)
    /\ EnsureUnchanged /\ UNCHANGED <<Cluster, wanted>>

\* Mutant of Archive: the branch is resolved again.
ArchiveTip(c) == tip

\* The tree is that of the resolved commit.
Archive(c) == ask[c].value

Syncing(d) == ask[d] # Idle /\ ask[d].op = "sync"

Send(c) ==
    /\ Asking(c, "send") /\ WorkerReady
    /\ pod' = [pod EXCEPT !.data = Archive(c)]
    /\ drift' = IF \E d \in Clients \ {c} : Syncing(d) THEN drift ELSE "no"
    /\ Proceed(c, "insert")
    /\ UNCHANGED <<deployment, svc, revisions, nextVer, Memory, image, tip, wanted, poisoned, left>>

\* No answer in time, or a bad one: the worker has the tree, a part of it, or nothing new.
SendFails(c) ==
    /\ Asking(c, "send") /\ Answer(c)
    /\ \/ ~WorkerReady /\ UNCHANGED <<pod, drift, left>>
       \/ /\ WorkerReady /\ Spend("faults")
          /\ \E data \in {pod.data, Archive(c), None} : pod' = [pod EXCEPT !.data = data]
          /\ drift' = "yes"
    /\ UNCHANGED <<deployment, svc, revisions, nextVer, Memory, image, tip, wanted, poisoned>>

InsertCache(c) ==
    /\ Asking(c, "insert") /\ Answer(c)
    /\ cache' = ask[c].value
    /\ UNCHANGED <<Cluster, derived, image, tip, Seen, left>>

(***************************************************************************)
(* Errors, lost clients, a crash.                                          *)
(***************************************************************************)
FailAsk(c) ==
    /\ ask[c] # Idle /\ Spend("faults") /\ Answer(c)
    /\ poisoned' = IF ask[c].pc = "build" THEN "yes" ELSE poisoned
    /\ drift' = IF ask[c].pc \in {"send", "insert"} THEN "yes" ELSE drift
    /\ UNCHANGED <<Cluster, Memory, image, tip, wanted>>

SvcCrash ==
    /\ ask' = [c \in Clients |-> Idle]
    /\ derived' = "none" /\ cache' = None
    /\ UNCHANGED <<Cluster, image, tip, Seen>>

(***************************************************************************)
(* The cluster and the repository.                                         *)
(***************************************************************************)
OutsideUnchanged == UNCHANGED <<revisions, nextVer, Memory, image, ask, poisoned>>

\* A pod of a derived image starts only when there is one.
BecomeReady ==
    /\ \/ /\ pod # None /\ pod.ready = "no" /\ (pod.sandbox = "yes" => image = "built")
          /\ pod' = [pod EXCEPT !.ready = "yes"] /\ UNCHANGED deployment
       \/ /\ deployment # None /\ deployment.ready = "no"
          /\ deployment' = [deployment EXCEPT !.ready = "yes"] /\ UNCHANGED pod
    /\ OutsideUnchanged /\ UNCHANGED <<svc, tip, wanted, drift, left>>

EndDying ==
    /\ \/ /\ pod # None /\ pod.life = "dying"
          /\ pod' = None /\ drift' = "yes" /\ UNCHANGED <<deployment, wanted, revisions>>
       \/ /\ deployment # None /\ deployment.life = "dying"
          /\ deployment' = None /\ wanted' = None /\ revisions' = {} /\ UNCHANGED <<pod, drift>>
    /\ UNCHANGED <<svc, nextVer, Memory, image, tip, ask, poisoned, left>>

\* The container is started again, on an empty disk.
RestartWorker ==
    /\ pod # None /\ Spend("events")
    /\ pod' = [pod EXCEPT !.data = None, !.ready = "no"]
    /\ drift' = "yes"
    /\ OutsideUnchanged /\ UNCHANGED <<deployment, svc, tip, wanted>>

MoveTip ==
    /\ Spend("events")
    /\ tip' \in Shas \ {tip}
    /\ OutsideUnchanged /\ UNCHANGED <<deployment, pod, svc, wanted, drift>>

SvcRequest(c) ==
    Ensure(c) \/ Delete(c) \/ Scale(c) \/ Restart(c) \/ Rollback(c) \/ Sync(c)

SvcStep(c) ==
    \/ Derive(c) \/ Build(c) \/ BuildFails(c) \/ GetObject(c) \/ AwaitGone(c)
    \/ CreatePod(c) \/ CreateDeployment(c) \/ DeleteService(c) \/ CreateService(c)
    \/ AwaitReady(c) \/ DeleteObject(c) \/ ReadDeployment(c) \/ ReplaceDeployment(c)
    \/ CheckCache(c) \/ CheckStatus(c) \/ Send(c) \/ SendFails(c) \/ InsertCache(c)
    \/ FailAsk(c)

Outside == BecomeReady \/ EndDying \/ RestartWorker \/ MoveTip

SvcNext == (\E c \in Clients : SvcRequest(c) \/ SvcStep(c)) \/ Outside

\* Services by themselves.
SvcSpec ==
    /\ SvcInit /\ LeftTypeOK
    /\ [][SvcNext \/ (Spend("crashes") /\ SvcCrash)]_<<svcVars, left>>

(***************************************************************************)
(* Properties.                                                             *)
(***************************************************************************)

(* An ensure that met no other request, and has come to wait for readiness *)
(* (it answers from there), has a live object of its kind and a Service,   *)
(* whatever was created, deleted, dropped or interrupted before it.        *)
EnsuredServes ==
    \A c \in Clients : Asking(c, "wait") /\ ask[c].alone = "yes" =>
        /\ Object(ask[c].kind) # None /\ Object(ask[c].kind).life = "live"
        /\ svc = "here"

(* Each edit of a deployment that was accepted is in it until an edit of   *)
(* the same field: a scale, a restart and a roll-back that overlap put     *)
(* back the whole object and do not undo each other.                       *)
NoLostUpdate ==
    deployment # None => wanted = [replicas |-> deployment.replicas, tmpl |-> deployment.tmpl]

(* "Skip when the worker is already at this rev": unless the worker was    *)
(* started again, a synchronization failed or two of them overlapped, the  *)
(* cached commit is what the worker holds, however the branch moved.       *)
CacheTrue ==
    cache # None /\ drift = "no" /\ ~(\E c \in Clients : Asking(c, "insert")) =>
        pod # None /\ pod.data = cache

(* The list of derived images is written before the build: where nobody is *)
(* building and no build was abandoned, what it lists exists.              *)
DerivedBuilt ==
    derived = "listed" /\ poisoned = "no" /\ ~(\E c \in Clients : Asking(c, "build")) =>
        image = "built"
===============================================================================
