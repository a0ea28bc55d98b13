--------------------------- MODULE Services_proofs ---------------------------
(***************************************************************************)
(* Proofs about Services for all sets of clients and all bounds: the       *)
(* types, that a service which is answered for is there, that no edit of a *)
(* deployment is lost, and that both caches tell the truth.                *)
(***************************************************************************)
EXTENDS Services, TLAPS

-----------------------------------------------------------------------------
(* The inductive invariant. *)

\* What a request is about, from the step it has come to.
AskOK(r) ==
    /\ r.pc = "put" => r.base \in Deployments /\ r.base.ver < nextVer
    /\ r.pc \in {"read", "put"} => r.op \in {"scale", "restart", "rollback"}
    /\ r.pc \in {"check", "status", "send", "insert"} => r.op = "sync"
    /\ r.op = "scale" => r.value \in 0..MaxScale
    /\ r.op = "rollback" => r.value \in Vers
    /\ r.op = "sync" => r.value \in Shas

AskInv == \A c \in Clients : ask[c] # Idle => AskOK(ask[c])

\* A version stands for what the deployment was when it was written.
EditInv ==
    /\ deployment # None =>
          /\ deployment.ver < nextVer
          /\ wanted = [replicas |-> deployment.replicas, tmpl |-> deployment.tmpl]
    /\ \A c \in Clients :
          Asking(c, "put") /\ deployment # None /\ deployment.ver = ask[c].base.ver =>
              /\ deployment.replicas = ask[c].base.replicas
              /\ deployment.tmpl = ask[c].base.tmpl

\* Without drift, at most one request writes worker and cache.
CacheInv ==
    drift = "no" =>
        /\ \A c, d \in Clients : Syncing(c) /\ Syncing(d) => c = d
        /\ \A c \in Clients : Asking(c, "insert") => pod # None /\ pod.data = ask[c].value
        /\ CacheTrue

\* Who is alone finds what it has made as it left it.
AloneInv ==
    \A c \in Clients : ask[c] # Idle /\ ask[c].alone = "yes" =>
        /\ \A d \in Clients \ {c} : ask[d] = Idle
        /\ ask[c].pc \in {"unsvc", "newsvc", "wait"} =>
              Object(ask[c].kind) # None /\ Object(ask[c].kind).life = "live"
        /\ ask[c].pc = "wait" => svc = "here"

SvcInv == SvcTypeOK /\ AskInv /\ EditInv /\ CacheInv /\ AloneInv /\ DerivedBuilt

-----------------------------------------------------------------------------
(* Requests. *)

\* What a step does to the requests: that of c becomes r, or ends.
Turned(c, r) ==
    /\ ask' \in [Clients -> Asks \cup {Idle}]
    /\ ask'[c] = r
    /\ \A d \in Clients \ {c} : ask'[d] = ask[d]

LEMMA AnswerTurns ==
    ASSUME SvcTypeOK, NEW c \in Clients, Answer(c) PROVE Turned(c, Idle)
BY DEF SvcTypeOK, Answer, Turned

\* A request goes on to another step.
Onward(c, pc) ==
    /\ Turned(c, ask'[c]) /\ ask'[c] \in Asks /\ ask'[c].pc = pc
    /\ ask'[c].op = ask[c].op /\ ask'[c].kind = ask[c].kind
    /\ ask'[c].value = ask[c].value /\ ask'[c].base = ask[c].base
    /\ ask'[c].alone = ask[c].alone /\ ask'[c].sandbox = ask[c].sandbox

LEMMA ProceedGoesOn ==
    ASSUME SvcTypeOK, NEW c \in Clients, NEW pc \in Steps, ask[c] # Idle, Proceed(c, pc)
    PROVE  Onward(c, pc)
<1> DEFINE r == [ask[c] EXCEPT !.pc = pc]
<1>1. ask[c] \in Asks
  BY DEF SvcTypeOK
<1>2. r \in Asks /\ r.pc = pc /\ r.op = ask[c].op /\ r.kind = ask[c].kind /\ r.value = ask[c].value
      /\ r.base = ask[c].base /\ r.alone = ask[c].alone /\ r.sandbox = ask[c].sandbox
  BY <1>1 DEF Asks
<1>3. ask' = [ask EXCEPT ![c] = r]
  BY DEF Proceed
<1> HIDE DEF r
<1>4. ask'[c] = r /\ ask' \in [Clients -> Asks \cup {Idle}] /\ \A d \in Clients \ {c} : ask'[d] = ask[d]
  BY <1>2, <1>3 DEF SvcTypeOK
<1> QED BY <1>2, <1>4 DEF Turned, Onward

-----------------------------------------------------------------------------
(* What each part of the invariant asks of a step. *)

\* The request of c goes on as r, or is answered.
Went(c, r) ==
    /\ Turned(c, r) /\ ask[c] # Idle
    /\ \/ r = Idle
       \/ /\ r \in Asks
          /\ r.op = ask[c].op /\ r.kind = ask[c].kind
          /\ r.value = ask[c].value /\ r.alone = ask[c].alone

LEMMA AnswerWent ==
    ASSUME SvcTypeOK, NEW c \in Clients, ask[c] # Idle, Answer(c)
    PROVE  Went(c, ask'[c]) /\ ask'[c] = Idle
BY AnswerTurns DEF Went, Turned

LEMMA ProceedWent ==
    ASSUME SvcTypeOK, NEW c \in Clients, NEW pc \in Steps, ask[c] # Idle, Proceed(c, pc)
    PROVE  Went(c, ask'[c]) /\ ask'[c].pc = pc /\ ask'[c].base = ask[c].base
BY ProceedGoesOn DEF Went, Onward, Turned

AskFits(r) ==
    /\ r.pc = "put" => r.base \in Deployments /\ r.base.ver < nextVer'
    /\ r.pc = "read" => r.op \in {"scale", "restart", "rollback"}
    /\ r.pc = "put" => r.op \in {"scale", "restart", "rollback"}
    /\ r.pc \in {"check", "status", "send", "insert"} => r.op = "sync"

LEMMA AskKept ==
    ASSUME SvcTypeOK, AskInv, NEW c \in Clients, NEW r, Went(c, r), r = Idle \/ AskFits(r),
           nextVer' \in Nat, nextVer <= nextVer'
    PROVE  AskInv'
<1> SUFFICES ASSUME NEW d \in Clients, ask'[d] # Idle PROVE AskOK(ask[d])'
  BY DEF AskInv
<1>1. CASE d = c
  <2>1. ask'[d] = r /\ r # Idle /\ AskFits(r)
    BY <1>1 DEF Went, Turned
  <2>2. AskOK(ask[c]) /\ r.op = ask[c].op /\ r.value = ask[c].value
    BY <2>1 DEF Went, AskInv
  <2> QED BY <2>1, <2>2 DEF AskFits, AskOK
<1>2. CASE d # c
  <2>1. ask'[d] = ask[d] /\ AskOK(ask[d])
    BY <1>2 DEF Went, Turned, AskInv
  <2>2. ask[d].pc = "put" => ask[d].base.ver \in Nat
    BY <2>1 DEF AskOK, Deployments, Vers
  <2>3. nextVer \in Nat
    BY ServicesAssumption DEF SvcTypeOK
  <2> QED BY <2>1, <2>2, <2>3 DEF AskOK
<1> QED BY <1>1, <1>2

LEMMA EditKept ==
    ASSUME SvcTypeOK, EditInv, NEW c \in Clients, NEW r, Went(c, r), r = Idle \/ r.pc # "put",
           UNCHANGED <<deployment, nextVer, wanted>>
    PROVE  EditInv'
BY DEF EditInv, Went, Turned, Asking

\* As far as a step leaves the worker, the cache and drift alone.
LEMMA CacheKept ==
    ASSUME SvcTypeOK, CacheInv, NEW c \in Clients, NEW r, Went(c, r), r = Idle \/ r.pc # "insert",
           ask[c].pc # "insert",
           UNCHANGED <<cache, drift>>,
           pod' = pod \/ (pod' \in Pods /\ pod' # None /\ pod # None /\ pod'.data = pod.data)
    PROVE  CacheInv'
<1>1. \A d \in Clients : Asking(d, "insert")' <=> Asking(d, "insert")
  BY DEF Went, Turned, Asking
<1>2. \A d \in Clients : Syncing(d)' => Syncing(d)
  BY DEF Went, Turned, Syncing
<1>3. \A d \in Clients : Asking(d, "insert") => ask'[d] = ask[d]
  BY DEF Went, Turned, Asking
<1>4. \A d \in Clients : Asking(d, "insert") => ask'[d].value = ask[d].value
  BY <1>3
<1> QED BY <1>1, <1>2, <1>4 DEF CacheInv, CacheTrue

\* An object stays what it was, or c is not alone with its kind of request.
LEMMA AloneKept ==
    ASSUME SvcTypeOK, AloneInv, NEW c \in Clients, NEW r, Went(c, r),
           r = Idle \/ (r.alone = "yes" =>
             /\ r.pc \in {"unsvc", "newsvc", "wait"} =>
                   \/ r.kind = "bare" /\ pod' # None /\ pod'.life = "live"
                   \/ r.kind # "bare" /\ deployment' # None /\ deployment'.life = "live"
             /\ r.pc = "wait" => svc' = "here")
    PROVE  AloneInv'
<1> SUFFICES ASSUME NEW d \in Clients, ask'[d] # Idle, ask'[d].alone = "yes"
             PROVE  /\ \A e \in Clients \ {d} : ask'[e] = Idle
                    /\ ask'[d].pc \in {"unsvc", "newsvc", "wait"} =>
                          (Object(ask[d].kind) # None /\ Object(ask[d].kind).life = "live")'
                    /\ ask'[d].pc = "wait" => svc' = "here"
  BY DEF AloneInv
<1>1. d = c
  BY DEF AloneInv, Went, Turned
<1>2. ask'[d] = r /\ r # Idle /\ r.alone = ask[c].alone
  BY <1>1 DEF Went, Turned
<1>3. \A e \in Clients \ {d} : ask'[e] = Idle
  BY <1>1, <1>2 DEF AloneInv, Went, Turned
<1> QED BY <1>1, <1>2, <1>3 DEF Object

LEMMA DerivedKept ==
    ASSUME SvcTypeOK, DerivedBuilt, NEW c \in Clients, NEW r, Went(c, r),
           ask[c].pc # "build", UNCHANGED <<derived, image, poisoned>>
    PROVE  DerivedBuilt'
BY DEF DerivedBuilt, Went, Turned, Asking

-----------------------------------------------------------------------------
(* The steps of a request. *)

\* A step that only moves its request, or answers it.
LEMMA QuietStep ==
    ASSUME SvcInv, NEW c \in Clients, NEW r, Went(c, r),
           r = Idle \/ (AskFits(r) /\ r.pc \notin {"put", "insert", "newsvc", "wait"}),
           r # Idle /\ r.pc = "unsvc" =>
               Object(ask[c].kind) # None /\ Object(ask[c].kind).life = "live",
           ask[c].pc \notin {"insert", "build"},
           UNCHANGED <<Cluster, Memory, image, tip, Seen>>
    PROVE  SvcInv'
<1> USE DEF SvcInv
<1>1. SvcTypeOK'
  BY DEF SvcTypeOK, Went, Turned, Cluster, Memory, Seen
<1>2. AskInv'
  BY AskKept, ServicesAssumption DEF Cluster, SvcTypeOK
<1>3. EditInv'
  BY EditKept DEF Cluster, Seen
<1>4. CacheInv'
  BY CacheKept DEF Cluster, Memory, Seen
<1>5. AloneInv'
  <2>1. r # Idle => r \in Asks /\ r.kind = ask[c].kind
    BY DEF Went
  <2> QED BY <2>1, AloneKept DEF Cluster, Object
<1>6. DerivedBuilt'
  BY DerivedKept DEF Memory, Seen
<1> QED BY <1>1, <1>2, <1>3, <1>4, <1>5, <1>6

LEMMA QuietSteps ==
    ASSUME SvcInv, NEW c \in Clients,
           \/ GetObject(c) \/ AwaitGone(c) \/ AwaitReady(c) \/ CheckCache(c) \/ CheckStatus(c)
    PROVE  SvcInv'
<1> USE DEF EnsureUnchanged, Seen, Cluster, Memory
<1>0. SvcTypeOK /\ AskInv
  BY DEF SvcInv
<1>1. ASSUME Answer(c), ask[c] # Idle, ask[c].pc \notin {"insert", "build"},
             UNCHANGED <<Cluster, Memory, image, tip, Seen>>
      PROVE  SvcInv'
  BY <1>0, <1>1, AnswerWent, QuietStep
<1>2. ASSUME NEW pc \in {"create", "unsvc", "await", "status", "send"}, Proceed(c, pc),
             ask[c] # Idle, ask[c].pc \notin {"insert", "build"},
             pc \in {"status", "send"} => ask[c].pc \in {"check", "status"},
             pc = "unsvc" => Object(ask[c].kind) # None /\ Object(ask[c].kind).life = "live",
             UNCHANGED <<Cluster, Memory, image, tip, Seen>>
      PROVE  SvcInv'
  <2>1. Went(c, ask'[c]) /\ ask'[c].pc = pc
    BY <1>0, <1>2, ProceedWent DEF Steps
  <2>2. AskFits(ask'[c]) \/ ask'[c] = Idle
    BY <1>0, <1>2, <2>1 DEF AskInv, AskOK, AskFits, Went
  <2> QED BY <1>2, <2>1, <2>2, QuietStep
<1>3. CASE GetObject(c)
  BY <1>2, <1>3 DEF GetObject, Asking
<1>4. CASE AwaitGone(c)
  BY <1>1, <1>2, <1>4 DEF AwaitGone, Asking
<1>5. CASE AwaitReady(c)
  BY <1>1, <1>5 DEF AwaitReady, Asking
<1>6. CASE CheckCache(c)
  BY <1>1, <1>2, <1>6 DEF CheckCache, Asking
<1>7. CASE CheckStatus(c)
  BY <1>1, <1>2, <1>7 DEF CheckStatus, Asking
<1> QED BY <1>3, <1>4, <1>5, <1>6, <1>7

LEMMA DeriveStep ==
    ASSUME SvcInv, NEW c \in Clients, Derive(c) PROVE SvcInv'
<1> USE DEF SvcInv
<1>0. PICK pc \in {"get", "build"} : Proceed(c, pc) /\ (pc = "get" <=> derived = "listed")
  BY DEF Derive
<1>1. ask[c] # Idle /\ ask[c].pc = "derive"
  BY DEF Derive, Asking
<1>2. Went(c, ask'[c]) /\ ask'[c].pc = pc
  BY <1>0, <1>1, ProceedWent DEF Steps
<1>3. UNCHANGED <<Cluster, image, tip, cache, Seen>> /\ derived' = "listed"
  BY DEF Derive
<1>4. SvcTypeOK'
  BY <1>2, <1>3 DEF SvcTypeOK, Went, Turned, Cluster, Seen
<1>5. AskInv'
  BY <1>2, <1>3, AskKept, ServicesAssumption DEF Cluster, SvcTypeOK, AskFits
<1>6. EditInv'
  BY <1>2, <1>3, EditKept DEF Cluster, Seen
<1>7. CacheInv'
  BY <1>1, <1>2, <1>3, CacheKept DEF Cluster, Seen
<1>8. AloneInv'
  BY <1>2, AloneKept
<1>9. DerivedBuilt'
  <2>1. CASE pc = "get"
    BY <1>0, <1>1, <1>2, <1>3, <2>1 DEF DerivedBuilt, Went, Turned, Asking, Seen
  <2>2. CASE pc = "build"
    <3>1. ask'[c] # Idle
      BY <1>0, <1>1, ProceedGoesOn, ServicesAssumption DEF Onward, Steps
    <3> QED BY <1>2, <1>3, <2>2, <3>1 DEF DerivedBuilt, Asking
  <2> QED BY <1>0, <2>1, <2>2
<1> QED BY <1>4, <1>5, <1>6, <1>7, <1>8, <1>9

LEMMA BuildStep ==
    ASSUME SvcInv, NEW c \in Clients, Build(c) \/ BuildFails(c), LeftTypeOK PROVE SvcInv'
<1> USE DEF SvcInv
<1>1. ask[c] # Idle /\ ask[c].pc = "build"
  BY DEF Build, BuildFails, Asking
<1>2. Went(c, ask'[c]) /\ (ask'[c] = Idle \/ ask'[c].pc = "get")
  BY <1>1, AnswerWent, ProceedWent DEF Build, BuildFails, Steps
<1>3. UNCHANGED <<Cluster, cache, tip, wanted, drift>>
  BY DEF Build, BuildFails, Memory, Seen
<1>4. \/ image' = "built" /\ UNCHANGED <<derived, poisoned>>
      \/ UNCHANGED image /\ derived' = "none" /\ UNCHANGED poisoned
      \/ UNCHANGED image /\ poisoned' = "yes" /\ UNCHANGED derived
  BY DEF Build, BuildFails, Memory, Seen
<1>5. SvcTypeOK'
  BY <1>2, <1>3, <1>4 DEF SvcTypeOK, Went, Turned, Cluster
<1>6. AskInv'
  BY <1>2, <1>3, AskKept, ServicesAssumption DEF Cluster, SvcTypeOK, AskFits
<1>7. EditInv'
  BY <1>2, <1>3, EditKept DEF Cluster
<1>8. CacheInv'
  BY <1>1, <1>2, <1>3, CacheKept DEF Cluster
<1>9. AloneInv'
  BY <1>2, AloneKept
<1>10. DerivedBuilt'
  BY <1>1, <1>2, <1>4 DEF DerivedBuilt, Went, Turned, Asking
<1> QED BY <1>5, <1>6, <1>7, <1>8, <1>9, <1>10

\* Worker, cache and drift are kept; deployment, versions and edits as shown.
LEMMA ClusterStep ==
    ASSUME SvcInv, NEW c \in Clients, Went(c, ask'[c]), SvcTypeOK', EditInv',
           nextVer <= nextVer',
           ask[c].pc \notin {"build", "insert"},
           ask'[c] = Idle \/ ask'[c].pc \in {"unsvc", "newsvc", "wait", "unpod", "dropsvc"},
           ask'[c] # Idle /\ ask'[c].pc \in {"unsvc", "newsvc", "wait"} /\ ask'[c].alone = "yes" =>
              \/ ask[c].kind = "bare" /\ pod' # None /\ pod'.life = "live"
              \/ ask[c].kind # "bare" /\ deployment' # None /\ deployment'.life = "live",
           ask'[c] # Idle /\ ask'[c].pc = "wait" => svc' = "here",
           UNCHANGED <<Memory, image, poisoned, drift>>,
           pod' = pod \/ (pod' # None /\ pod # None /\ pod'.data = pod.data)
    PROVE  SvcInv'
<1> USE DEF SvcInv
<1>1. nextVer' \in Nat
  BY ServicesAssumption DEF SvcTypeOK
<1>2. AskInv'
  BY <1>1, AskKept DEF AskFits
<1>3. CacheInv'
  <2>1. pod' = pod \/ (pod' \in Pods /\ pod' # None /\ pod # None /\ pod'.data = pod.data)
    BY DEF SvcTypeOK
  <2> QED BY <2>1, CacheKept DEF Memory
<1>4. AloneInv'
  <2>1. ask'[c] # Idle => ask'[c].kind = ask[c].kind
    BY DEF Went
  <2> QED BY <2>1, AloneKept
<1>5. DerivedBuilt'
  BY DerivedKept DEF Memory
<1> QED BY <1>2, <1>3, <1>4, <1>5

\* A request that is alone left its object as it should be.
LEMMA AloneServes ==
    ASSUME SvcInv, NEW c \in Clients, ask[c] # Idle, ask[c].alone = "yes",
           ask[c].pc \in {"unsvc", "newsvc", "wait"}
    PROVE  \/ ask[c].kind = "bare" /\ pod # None /\ pod.life = "live"
           \/ ask[c].kind # "bare" /\ deployment # None /\ deployment.life = "live"
BY DEF SvcInv, AloneInv, Object

LEMMA ServiceSteps ==
    ASSUME SvcInv, NEW c \in Clients, LeftTypeOK, DeleteService(c) \/ CreateService(c)
    PROVE  SvcInv'
<1>1. ask[c] # Idle /\ ask[c].pc \in {"unsvc", "newsvc"}
  BY DEF DeleteService, CreateService, Asking
<1>2. Went(c, ask'[c]) /\ (ask'[c] = Idle \/ ask'[c].pc = "newsvc"
                                          \/ (ask'[c].pc = "wait" /\ svc' = "here"))
  BY <1>1, AnswerWent, ProceedWent DEF SvcInv, DeleteService, CreateService, Steps
<1>3. UNCHANGED <<deployment, pod, revisions, nextVer, Memory, image, tip, wanted, drift, poisoned>>
  BY DEF DeleteService, CreateService, EnsureUnchanged, Seen
<1>4. svc' \in {"none", "here"}
  BY DEF DeleteService, CreateService, SvcInv, SvcTypeOK
<1>5. SvcTypeOK'
  BY <1>2, <1>3, <1>4 DEF SvcInv, SvcTypeOK, Went, Turned, Memory
<1>6. EditInv'
  BY <1>2, <1>3, EditKept DEF SvcInv
<1>7. ask'[c] # Idle => ask'[c].alone = ask[c].alone
  BY <1>2 DEF Went
<1>8. nextVer <= nextVer'
  BY <1>3, ServicesAssumption DEF SvcInv, SvcTypeOK
<1> QED BY <1>1, <1>2, <1>3, <1>5, <1>6, <1>7, <1>8, AloneServes, ClusterStep

LEMMA DeleteObjectStep ==
    ASSUME SvcInv, NEW c \in Clients, LeftTypeOK, DeleteObject(c)
    PROVE  SvcInv'
<1>1. ask[c] # Idle /\ ask[c].pc \in {"undep", "unpod", "dropsvc"}
  BY DEF DeleteObject, Asking
<1>2. Went(c, ask'[c]) /\ (ask'[c] = Idle \/ ask'[c].pc \in {"unpod", "dropsvc"})
  BY <1>1, AnswerWent, ProceedWent DEF SvcInv, DeleteObject, Steps
<1>3. UNCHANGED <<revisions, nextVer, Memory, image, tip, Seen>>
  BY DEF DeleteObject
<1>4. deployment' \in {deployment, Dying(deployment)} /\ pod' \in {pod, Dying(pod)}
      /\ svc' \in {svc, "none"}
  BY DEF DeleteObject
<1>5. deployment' = deployment \/
         /\ deployment # None /\ deployment' \in Deployments /\ deployment' # None
         /\ deployment'.ver = deployment.ver /\ deployment'.replicas = deployment.replicas
         /\ deployment'.tmpl = deployment.tmpl
  BY <1>4, ServicesAssumption DEF SvcInv, SvcTypeOK, Dying, Deployments
<1>6. pod' = pod \/ (pod # None /\ pod' \in Pods /\ pod' # None /\ pod'.data = pod.data)
  BY <1>4, ServicesAssumption DEF SvcInv, SvcTypeOK, Dying, Pods
<1>7. SvcTypeOK'
  BY <1>2, <1>3, <1>4, <1>5, <1>6 DEF SvcInv, SvcTypeOK, Went, Turned, Memory, Seen
<1>8. EditInv'
  <2>1. ask'[c] = Idle \/ ask'[c].pc # "put"
    BY <1>2
  <2> QED BY <1>2, <1>3, <1>5, <2>1 DEF SvcInv, EditInv, Went, Turned, Asking, Seen
<1>9. nextVer <= nextVer'
  BY <1>3, ServicesAssumption DEF SvcInv, SvcTypeOK
<1> QED BY <1>1, <1>2, <1>3, <1>6, <1>7, <1>8, <1>9, ClusterStep DEF Seen

LEMMA CreatePodStep ==
    ASSUME SvcInv, NEW c \in Clients, CreatePod(c)
    PROVE  SvcInv'
<1>1. ask[c] # Idle /\ ask[c].pc = "create" /\ ask[c].kind = "bare"
  BY DEF CreatePod, Asking
<1>2. Went(c, ask'[c]) /\ (ask'[c] = Idle \/ ask'[c].pc = "unsvc")
  BY <1>1, AnswerWent, ProceedWent DEF SvcInv, CreatePod, Steps
<1>3. UNCHANGED <<deployment, svc, revisions, nextVer, Memory, image, tip, Seen>>
  BY DEF CreatePod, EnsureUnchanged, Seen
<1>4. EditInv'
  BY <1>2, <1>3, EditKept DEF SvcInv, Seen
<1>5. nextVer <= nextVer'
  BY <1>3, ServicesAssumption DEF SvcInv, SvcTypeOK
<1>6. CASE UNCHANGED pod /\ Answer(c)
  <2>1. ask'[c] = Idle
    BY <1>1, <1>6, AnswerWent DEF SvcInv
  <2>2. SvcTypeOK'
    BY <1>2, <1>3, <1>6 DEF SvcInv, SvcTypeOK, Went, Turned, Memory, Seen
  <2> QED BY <1>1, <1>2, <1>3, <1>4, <1>5, <1>6, <2>1, <2>2, ClusterStep DEF Seen
<1>7. CASE /\ pod = None
           /\ pod' = [life |-> "live", ready |-> "no", data |-> None, sandbox |-> ask[c].sandbox]
  <2>1. ask[c].sandbox \in {"yes", "no"}
    BY <1>1 DEF SvcInv, SvcTypeOK, Asks
  <2>2. pod' \in Pods /\ pod'.life = "live"
    BY <1>7, <2>1 DEF Pods
  <2>3. pod' # None
    BY <2>2, ServicesAssumption
  <2>4. SvcTypeOK'
    BY <1>2, <1>3, <2>2 DEF SvcInv, SvcTypeOK, Went, Turned, Memory, Seen
  <2>5. AskInv'
    BY <1>2, <1>3, <1>5, AskKept, ServicesAssumption DEF SvcInv, SvcTypeOK, AskFits
  <2>6. CacheInv'
    <3>1. drift = "no" => \A d \in Clients : ~Asking(d, "insert")
      BY <1>7 DEF SvcInv, CacheInv
    <3>2. drift = "no" => cache = None
      BY <1>7, <3>1 DEF SvcInv, CacheInv, CacheTrue
    <3>3. drift = "no" => \A d \in Clients : ~Asking(d, "insert")'
      BY <1>2, <3>1 DEF Went, Turned, Asking
    <3>4. \A d \in Clients : Syncing(d)' => Syncing(d)
      BY <1>2 DEF Went, Turned, Syncing
    <3>5. UNCHANGED <<drift, cache>>
      BY <1>3 DEF Memory, Seen
    <3> QED BY <3>2, <3>3, <3>4, <3>5 DEF SvcInv, CacheInv, CacheTrue
  <2>7. AloneInv'
    <3>1. ask'[c] # Idle => ask'[c].kind = "bare"
      BY <1>1, <1>2 DEF Went
    <3> QED BY <1>2, <2>2, <2>3, <3>1, AloneKept DEF SvcInv
  <2>8. DerivedBuilt'
    BY <1>1, <1>2, <1>3, DerivedKept DEF SvcInv, Memory, Seen
  <2> QED BY <1>4, <2>4, <2>5, <2>6, <2>7, <2>8 DEF SvcInv
<1> QED BY <1>6, <1>7 DEF CreatePod

LEMMA CreateDeploymentStep ==
    ASSUME SvcInv, NEW c \in Clients, CreateDeployment(c)
    PROVE  SvcInv'
<1>1. ask[c] # Idle /\ ask[c].pc = "create" /\ ask[c].kind = "deployment"
  BY DEF CreateDeployment, Asking
<1>2. Went(c, ask'[c]) /\ (ask'[c] = Idle \/ ask'[c].pc = "unsvc")
  BY <1>1, AnswerWent, ProceedWent DEF SvcInv, CreateDeployment, Steps
<1>3. UNCHANGED <<pod, svc, Memory, image, tip, drift, poisoned>>
  BY DEF CreateDeployment, EnsureUnchanged
<1>4. CASE Answer(c) /\ UNCHANGED <<deployment, revisions, nextVer, wanted>>
  <2>1. ask'[c] = Idle
    BY <1>1, <1>4, AnswerWent DEF SvcInv
  <2>2. SvcTypeOK'
    BY <1>2, <1>3, <1>4 DEF SvcInv, SvcTypeOK, Went, Turned, Memory
  <2>3. EditInv'
    BY <1>2, <1>4, <2>1, EditKept DEF SvcInv
  <2>4. nextVer <= nextVer'
    BY <1>4, ServicesAssumption DEF SvcInv, SvcTypeOK
  <2> QED BY <1>1, <1>2, <1>3, <2>1, <2>2, <2>3, <2>4, ClusterStep
<1>5. CASE /\ nextVer <= MaxVer /\ MaxScale > 0
           /\ deployment' = [ver |-> nextVer, replicas |-> 1, tmpl |-> nextVer,
                             life |-> "live", ready |-> "no"]
           /\ revisions' = {nextVer} /\ nextVer' = nextVer + 1
           /\ wanted' = [replicas |-> 1, tmpl |-> nextVer]
  <2>1. nextVer \in Vers /\ nextVer' \in 1..(MaxVer + 1) /\ 1 \in 0..MaxScale /\ nextVer < nextVer'
    BY <1>5, ServicesAssumption DEF SvcInv, SvcTypeOK, Vers
  <2>2. deployment' \in Deployments /\ deployment' # None /\ deployment'.life = "live"
        /\ deployment'.ver = nextVer /\ deployment'.replicas = 1 /\ deployment'.tmpl = nextVer
    BY <1>5, <2>1, ServicesAssumption DEF Deployments
  <2>3. wanted' \in Specs /\ revisions' \subseteq Vers
    BY <1>5, <2>1 DEF Specs
  <2>4. SvcTypeOK'
    BY <1>2, <1>3, <2>1, <2>2, <2>3 DEF SvcInv, SvcTypeOK, Went, Turned, Memory
  <2>5. EditInv'
    <3>1. \A d \in Clients : Asking(d, "put")' => ask'[d] = ask[d] /\ Asking(d, "put")
      BY <1>2 DEF Went, Turned, Asking
    <3>2. \A d \in Clients : Asking(d, "put") => ask[d].base.ver # nextVer
      BY ServicesAssumption DEF SvcInv, SvcTypeOK, AskInv, AskOK, Asking, Deployments, Vers
    <3> QED BY <1>5, <2>1, <2>2, <3>1, <3>2 DEF EditInv
  <2>6. nextVer <= nextVer'
    BY <2>1, ServicesAssumption DEF Vers
  <2>7. ask'[c] # Idle => ask[c].kind # "bare" /\ deployment' # None /\ deployment'.life = "live"
    BY <1>1, <2>2
  <2> QED BY <1>1, <1>2, <1>3, <2>4, <2>5, <2>6, <2>7, ClusterStep
<1> QED BY <1>4, <1>5 DEF CreateDeployment

LEMMA ReadStep ==
    ASSUME SvcInv, NEW c \in Clients, ReadDeployment(c)
    PROVE  SvcInv'
<1> USE DEF EnsureUnchanged, Cluster, Memory, Seen
<1>1. ask[c] # Idle /\ ask[c].pc = "read" /\ SvcTypeOK /\ ask[c] \in Asks
  BY DEF ReadDeployment, Asking, SvcInv, SvcTypeOK
<1>2. UNCHANGED <<Cluster, Memory, image, tip, Seen>>
  BY DEF ReadDeployment
<1>3. CASE deployment = None
  <2>1. Answer(c)
    BY <1>3 DEF ReadDeployment
  <2> QED BY <1>1, <1>2, <2>1, AnswerWent, QuietStep
<1>4. CASE deployment # None
  <2> DEFINE r == [ask[c] EXCEPT !.pc = "put", !.base = deployment]
  <2>1. ask' = [ask EXCEPT ![c] = r]
    BY <1>4 DEF ReadDeployment
  <2>2. /\ r \in Asks /\ r.pc = "put" /\ r.base = deployment /\ r.op = ask[c].op
        /\ r.kind = ask[c].kind /\ r.value = ask[c].value /\ r.alone = ask[c].alone
    BY <1>1 DEF Asks, SvcTypeOK, Steps
  <2>3. ask[c].op \in {"scale", "restart", "rollback"} /\ r.base \in Deployments
        /\ r.base.ver < nextVer
    BY <1>1, <1>4, <2>2 DEF SvcInv, AskInv, AskOK, EditInv, SvcTypeOK
  <2> HIDE DEF r
  <2>4. Went(c, r)
    BY <1>1, <2>1, <2>2 DEF Went, Turned, SvcTypeOK
  <2>5. SvcTypeOK'
    BY <1>1, <1>2, <2>4 DEF SvcTypeOK, Went, Turned
  <2>6. AskInv'
    BY <1>1, <1>2, <2>2, <2>3, <2>4, AskKept, ServicesAssumption
       DEF SvcInv, SvcTypeOK, AskFits
  <2>7. EditInv'
    BY <1>2, <2>2, <2>4 DEF SvcInv, EditInv, Went, Turned, Asking
  <2>8. CacheInv'
    BY <1>1, <1>2, <2>2, <2>4, CacheKept DEF SvcInv
  <2>9. AloneInv'
    BY <1>1, <2>2, <2>4, AloneKept DEF SvcInv
  <2>10. DerivedBuilt'
    BY <1>1, <1>2, <2>4, DerivedKept DEF SvcInv
  <2> QED BY <2>5, <2>6, <2>7, <2>8, <2>9, <2>10 DEF SvcInv
<1> QED BY <1>3, <1>4

\* Whose version is current has read what is there.
LEMMA ReplaceStep ==
    ASSUME SvcInv, NEW c \in Clients, ReplaceDeployment(c)
    PROVE  SvcInv'
<1>1. ask[c] # Idle /\ ask[c].pc = "put" /\ Asking(c, "put") /\ Answer(c) /\ ask[c] \in Asks
  BY DEF ReplaceDeployment, Asking, SvcInv, SvcTypeOK
<1>2. Went(c, ask'[c]) /\ ask'[c] = Idle
  BY <1>1, AnswerWent DEF SvcInv
<1>3. UNCHANGED <<pod, svc, Memory, image, tip, drift, poisoned>>
  BY DEF ReplaceDeployment, EnsureUnchanged
<1>4. CASE UNCHANGED <<deployment, revisions, nextVer, wanted>>
  <2>1. SvcTypeOK'
    BY <1>2, <1>3, <1>4 DEF SvcInv, SvcTypeOK, Went, Turned, Memory
  <2>2. EditInv'
    BY <1>2, <1>4, EditKept DEF SvcInv
  <2>3. nextVer <= nextVer'
    BY <1>4, ServicesAssumption DEF SvcInv, SvcTypeOK
  <2> QED BY <1>1, <1>2, <1>3, <2>1, <2>2, <2>3, ClusterStep
<1>5. ASSUME Current(c), nextVer <= MaxVer, nextVer' = nextVer + 1, NEW spec \in Edited(c),
             deployment' = [deployment EXCEPT !.ver = nextVer, !.replicas = spec.replicas,
                                              !.tmpl = spec.tmpl],
             revisions' = revisions \cup {spec.tmpl},
             wanted' = IF ask[c].op = "scale" THEN [wanted EXCEPT !.replicas = ask[c].value]
                       ELSE [wanted EXCEPT !.tmpl = spec.tmpl]
      PROVE  SvcInv'
  <2>1. nextVer \in Vers /\ nextVer' \in 1..(MaxVer + 1) /\ nextVer < nextVer' /\ nextVer \in Nat
    BY <1>5, ServicesAssumption DEF SvcInv, SvcTypeOK, Vers
  <2>2. /\ ask[c].base \in Deployments /\ ask[c].op \in {"scale", "restart", "rollback"}
        /\ ask[c].op = "scale" => ask[c].value \in 0..MaxScale
        /\ ask[c].op = "rollback" => ask[c].value \in Vers
    BY <1>1 DEF SvcInv, AskInv, AskOK
  <2>3. /\ deployment # None /\ deployment \in Deployments
        /\ deployment.replicas = ask[c].base.replicas /\ deployment.tmpl = ask[c].base.tmpl
        /\ wanted = [replicas |-> deployment.replicas, tmpl |-> deployment.tmpl]
    BY <1>1, <1>5 DEF Current, SvcInv, SvcTypeOK, EditInv
  <2>4. \/ /\ ask[c].op = "scale"
           /\ spec = [replicas |-> ask[c].value, tmpl |-> deployment.tmpl]
        \/ /\ ask[c].op # "scale" /\ spec.tmpl \in Vers
           /\ spec = [replicas |-> deployment.replicas, tmpl |-> spec.tmpl]
    <3>1. CASE ask[c].op = "scale"
      BY <1>5, <2>3, <3>1 DEF Edited
    <3>2. CASE ask[c].op = "rollback"
      BY <1>5, <2>2, <2>3, <3>2 DEF Edited
    <3>3. CASE ask[c].op = "restart"
      BY <1>5, <2>1, <2>3, <3>3 DEF Edited, Deployments
    <3> QED BY <2>2, <3>1, <3>2, <3>3
  <2>5. spec.replicas \in 0..MaxScale /\ spec.tmpl \in Vers
        /\ wanted' = [replicas |-> spec.replicas, tmpl |-> spec.tmpl]
    BY <1>5, <2>2, <2>3, <2>4 DEF Deployments
  <2>6. deployment' \in Deployments /\ deployment'.ver = nextVer
        /\ deployment'.replicas = spec.replicas /\ deployment'.tmpl = spec.tmpl
    BY <1>5, <2>1, <2>3, <2>5 DEF Deployments
  <2>7. deployment' # None
    BY <2>6, ServicesAssumption
  <2>8. SvcTypeOK'
    BY <1>2, <1>3, <1>5, <2>1, <2>5, <2>6 DEF SvcInv, SvcTypeOK, Went, Turned, Memory, Specs
  <2>9. EditInv'
    <3>1. \A d \in Clients : Asking(d, "put")' => ask'[d] = ask[d] /\ Asking(d, "put")
      BY <1>2 DEF Went, Turned, Asking
    <3>2. \A d \in Clients : Asking(d, "put") => ask[d].base.ver # nextVer
      BY <2>1 DEF SvcInv, AskInv, AskOK, Asking, Deployments, Vers
    <3> QED BY <2>1, <2>5, <2>6, <3>1, <3>2 DEF EditInv
  <2>10. nextVer <= nextVer'
    BY <2>1, <1>5
  <2> QED BY <1>1, <1>2, <1>3, <2>8, <2>9, <2>10, ClusterStep
<1> QED BY <1>4, <1>5 DEF ReplaceDeployment

-----------------------------------------------------------------------------
(* Worker and cache. *)

\* Nothing but the worker, the cache and drift.
LEMMA WorkerStep ==
    ASSUME SvcInv, NEW c \in Clients, Went(c, ask'[c]),
           ask'[c] = Idle \/ (ask'[c].pc = "insert" /\ ask[c].op = "sync"),
           ask[c].pc # "build",
           UNCHANGED <<deployment, svc, revisions, nextVer, derived, image, tip, wanted, poisoned>>,
           pod' \in Pods \cup {None}, cache' \in Shas \cup {None}, drift' \in {"yes", "no"},
           CacheInv'
    PROVE  SvcInv'
<1>1. SvcTypeOK'
  BY DEF SvcInv, SvcTypeOK, Went, Turned
<1>2. AskInv'
  BY AskKept, ServicesAssumption DEF SvcInv, SvcTypeOK, AskFits, Went
<1>3. EditInv'
  BY EditKept DEF SvcInv
<1>4. AloneInv'
  BY AloneKept DEF SvcInv
<1>5. DerivedBuilt'
  BY DerivedKept DEF SvcInv
<1> QED BY <1>1, <1>2, <1>3, <1>4, <1>5 DEF SvcInv

\* Once all is adrift, any tree and any cache will do.
LEMMA Adrift == ASSUME drift' = "yes" PROVE CacheInv'
BY DEF CacheInv

LEMMA SendStep ==
    ASSUME SvcInv, NEW c \in Clients, Send(c)
    PROVE  SvcInv'
<1>1. ask[c] # Idle /\ ask[c].pc = "send" /\ ask[c].op = "sync" /\ ask[c].value \in Shas
  BY DEF Send, Asking, SvcInv, AskInv, AskOK
<1>2. Went(c, ask'[c]) /\ ask'[c].pc = "insert" /\ ask'[c] # Idle
  <2>1. Onward(c, "insert")
    BY <1>1, ProceedGoesOn DEF SvcInv, Send, Steps
  <2> QED BY <1>1, <2>1, ProceedWent, ServicesAssumption DEF SvcInv, Send, Steps, Onward
<1>3. UNCHANGED <<deployment, svc, revisions, nextVer, derived, cache, image, tip, wanted, poisoned>>
  BY DEF Send, Memory
<1>4. pod \in Pods /\ pod' = [pod EXCEPT !.data = ask[c].value]
  BY DEF Send, WorkerReady, Archive, SvcInv, SvcTypeOK
<1>5. pod' \in Pods /\ pod'.data = ask[c].value
  BY <1>1, <1>4 DEF Pods
<1>6. pod' # None
  BY <1>5, ServicesAssumption
<1>7. drift' = IF \E d \in Clients \ {c} : Syncing(d) THEN drift ELSE "no"
  BY DEF Send
<1>8. CacheInv'
  <2> SUFFICES ASSUME drift' = "no" PROVE CacheInv'
    BY DEF CacheInv
  <2>1. \A d \in Clients \ {c} : ~Syncing(d)
    BY <1>1, <1>7 DEF SvcInv, CacheInv, Syncing
  <2>2. \A d \in Clients : Syncing(d)' => d = c
    BY <1>2, <2>1 DEF Went, Turned, Syncing
  <2>3. \A d \in Clients : Asking(d, "insert")' => d = c
    BY <1>2, <2>1 DEF Went, Turned, Asking, Syncing, SvcInv, AskInv, AskOK
  <2>4. Asking(c, "insert")' /\ ask'[c].value = ask[c].value
    BY <1>2 DEF Went, Asking
  <2> QED BY <1>5, <1>6, <2>2, <2>3, <2>4 DEF CacheInv, CacheTrue
<1> QED BY <1>1, <1>2, <1>3, <1>5, <1>7, <1>8, WorkerStep DEF SvcInv, SvcTypeOK

LEMMA SendFailsStep ==
    ASSUME SvcInv, NEW c \in Clients, SendFails(c), LeftTypeOK
    PROVE  SvcInv'
<1>1. ask[c] # Idle /\ ask[c].pc = "send"
  BY DEF SendFails, Asking
<1>2. Went(c, ask'[c]) /\ ask'[c] = Idle
  BY <1>1, AnswerWent DEF SvcInv, SendFails
<1>3. UNCHANGED <<deployment, svc, revisions, nextVer, derived, cache, image, tip, wanted, poisoned>>
  BY DEF SendFails, Memory
<1>4. CASE UNCHANGED <<pod, drift>>
  BY <1>1, <1>2, <1>3, <1>4, CacheKept, WorkerStep DEF SvcInv, SvcTypeOK
<1>5. CASE /\ WorkerReady /\ drift' = "yes"
           /\ \E data \in {pod.data, Archive(c), None} : pod' = [pod EXCEPT !.data = data]
  <2>1. pod \in Pods /\ ask[c].value \in Shas
    BY <1>1, <1>5 DEF WorkerReady, SvcInv, SvcTypeOK, AskInv, AskOK
  <2>2. pod' \in Pods
    BY <1>5, <2>1 DEF Pods, Archive
  <2> QED BY <1>1, <1>2, <1>3, <1>5, <2>2, Adrift, WorkerStep DEF SvcInv, SvcTypeOK
<1> QED BY <1>4, <1>5 DEF SendFails

LEMMA InsertStep ==
    ASSUME SvcInv, NEW c \in Clients, InsertCache(c)
    PROVE  SvcInv'
<1>1. ask[c] # Idle /\ ask[c].pc = "insert" /\ ask[c].op = "sync" /\ ask[c].value \in Shas
  BY DEF InsertCache, Asking, SvcInv, AskInv, AskOK
<1>2. Went(c, ask'[c]) /\ ask'[c] = Idle
  BY <1>1, AnswerWent DEF SvcInv, InsertCache
<1>3. /\ UNCHANGED <<deployment, svc, revisions, nextVer, derived, image, tip, wanted, poisoned>>
      /\ UNCHANGED <<pod, drift>> /\ cache' = ask[c].value
  BY DEF InsertCache, Cluster, Seen
<1>4. CacheInv'
  <2> SUFFICES ASSUME drift = "no" PROVE CacheInv'
    BY <1>3 DEF CacheInv
  <2>1. pod # None /\ pod.data = ask[c].value
    BY <1>1 DEF SvcInv, CacheInv, Asking
  <2>2. \A d \in Clients : ~Syncing(d)'
    BY <1>1, <1>2 DEF SvcInv, CacheInv, Syncing, Went, Turned
  <2>3. \A d \in Clients : Asking(d, "insert")' => Syncing(d)'
    BY <1>1, <1>2 DEF SvcInv, AskInv, AskOK, Asking, Syncing, Went, Turned
  <2> QED BY <1>3, <2>1, <2>2, <2>3 DEF CacheInv, CacheTrue
<1> QED BY <1>1, <1>2, <1>3, <1>4, WorkerStep DEF SvcInv, SvcTypeOK

LEMMA FailAskStep ==
    ASSUME SvcInv, NEW c \in Clients, FailAsk(c), LeftTypeOK
    PROVE  SvcInv'
<1>1. Went(c, ask'[c]) /\ ask'[c] = Idle /\ ask[c] # Idle
  BY AnswerWent DEF SvcInv, FailAsk
<1>2. /\ UNCHANGED <<Cluster, Memory, image, tip, wanted>>
      /\ poisoned' = IF ask[c].pc = "build" THEN "yes" ELSE poisoned
      /\ drift' = IF ask[c].pc \in {"send", "insert"} THEN "yes" ELSE drift
  BY DEF FailAsk
<1>3. SvcTypeOK'
  BY <1>1, <1>2 DEF SvcInv, SvcTypeOK, Went, Turned, Cluster, Memory
<1>4. AskInv'
  BY <1>1, <1>2, AskKept, ServicesAssumption DEF SvcInv, SvcTypeOK, Cluster
<1>5. EditInv'
  BY <1>1, <1>2, EditKept DEF SvcInv, Cluster
<1>6. CacheInv'
  <2>1. CASE ask[c].pc \in {"send", "insert"}
    BY <1>2, <2>1, Adrift
  <2>2. CASE ask[c].pc \notin {"send", "insert"}
    BY <1>1, <1>2, <2>2, CacheKept DEF SvcInv, Cluster, Memory
  <2> QED BY <2>1, <2>2
<1>7. AloneInv'
  BY <1>1, AloneKept DEF SvcInv
<1>8. DerivedBuilt'
  BY <1>1, <1>2 DEF SvcInv, DerivedBuilt, Went, Turned, Asking, Memory
<1> QED BY <1>3, <1>4, <1>5, <1>6, <1>7, <1>8 DEF SvcInv

-----------------------------------------------------------------------------
(* Requests, the outside, a crash. *)

LEMMA BeginAskStep ==
    ASSUME SvcInv, NEW c \in Clients, NEW r \in Asks, BeginAsk(c, r), AskOK(r),
           r.pc \notin {"put", "insert", "build", "unsvc", "newsvc", "wait"}
    PROVE  SvcInv'
<1> DEFINE others == {d \in Clients \ {c} : ask[d] # Idle}
           mine == [r EXCEPT !.alone = IF others = {} THEN "yes" ELSE "no"]
           met(d) == [ask[d] EXCEPT !.alone = "no"]
<1>1. /\ ask[c] = Idle /\ UNCHANGED <<Cluster, Memory, image, tip, wanted, poisoned>>
      /\ ask' = [d \in Clients |->
                   IF d = c THEN mine ELSE IF ask[d] = Idle THEN Idle ELSE met(d)]
      /\ drift' = IF r.op = "sync" /\ \E d \in others : ask[d].op = "sync" THEN "yes" ELSE drift
  BY DEF BeginAsk
<1>2. /\ mine \in Asks /\ mine.op = r.op /\ mine.pc = r.pc /\ mine.value = r.value
      /\ mine.base = r.base /\ (mine.alone = "yes" => others = {})
  <2>1. \A x \in {"yes", "no"} :
          LET s == [r EXCEPT !.alone = x]
          IN s \in Asks /\ s.op = r.op /\ s.pc = r.pc /\ s.value = r.value /\ s.base = r.base
             /\ s.alone = x
    BY DEF Asks
  <2>2. CASE others = {}
    BY <2>1, <2>2
  <2>3. CASE others # {}
    BY <2>1, <2>3
  <2> QED BY <2>2, <2>3
<1>3. \A d \in Clients : ask[d] # Idle =>
        /\ met(d) \in Asks /\ met(d).op = ask[d].op /\ met(d).pc = ask[d].pc
        /\ met(d).value = ask[d].value /\ met(d).base = ask[d].base /\ met(d).alone = "no"
  <2> SUFFICES ASSUME NEW d \in Clients, ask[d] # Idle
               PROVE  /\ met(d) \in Asks /\ met(d).op = ask[d].op /\ met(d).pc = ask[d].pc
                      /\ met(d).value = ask[d].value /\ met(d).base = ask[d].base
                      /\ met(d).alone = "no"
    OBVIOUS
  <2>1. ask[d] \in Asks
    BY DEF SvcInv, SvcTypeOK
  <2> QED BY <2>1 DEF Asks
<1>4. /\ ask'[c] = mine
      /\ \A d \in Clients \ {c} : ask'[d] = IF ask[d] = Idle THEN Idle ELSE met(d)
  BY <1>1
<1>5. \A d \in Clients \ {c} : ask'[d] # Idle => d \in others
  BY <1>4
<1>6. ask' \in [Clients -> Asks \cup {Idle}]
  BY <1>1, <1>2, <1>3
<1>7. \A d \in Clients \ {c} : ask'[d] # Idle => ask[d] # Idle /\ ask'[d] = met(d)
  BY <1>4
<1> HIDE DEF mine, met
<1>8. SvcTypeOK'
  BY <1>1, <1>6 DEF SvcInv, SvcTypeOK, Cluster, Memory
<1>9. AskInv'
  <2> SUFFICES ASSUME NEW d \in Clients, ask'[d] # Idle PROVE AskOK(ask[d])'
    BY DEF AskInv
  <2>1. CASE d = c
    BY <1>1, <1>2, <1>4, <2>1 DEF AskOK, Cluster
  <2>2. CASE d # c
    <3>1. AskOK(ask[d]) /\ ask'[d] = met(d) /\ ask[d] # Idle
      BY <1>7, <2>2 DEF SvcInv, AskInv
    <3> QED BY <1>1, <1>3, <3>1 DEF AskOK, Cluster
  <2> QED BY <2>1, <2>2
<1>10. \A d \in Clients : ask'[d] # Idle =>
         \/ d = c /\ ask'[d].pc = r.pc /\ ask'[d].op = r.op
         \/ /\ d \in others /\ ask[d] # Idle /\ ask'[d].pc = ask[d].pc /\ ask'[d].op = ask[d].op
            /\ ask'[d].value = ask[d].value /\ ask'[d].base = ask[d].base
            /\ ask'[d].alone = "no"
  BY <1>2, <1>3, <1>4, <1>5, <1>7
<1>11. EditInv'
  <2>1. \A d \in Clients : Asking(d, "put")' => Asking(d, "put") /\ ask'[d].base = ask[d].base
    BY <1>10 DEF Asking
  <2> QED BY <1>1, <2>1 DEF SvcInv, EditInv, Cluster
<1>12. CacheInv'
  <2> SUFFICES ASSUME drift' = "no" PROVE CacheInv'
    BY DEF CacheInv
  <2>1. drift = "no" /\ (r.op = "sync" => \A d \in others : ask[d].op # "sync")
    BY <1>1
  <2>2. \A d \in Clients : Syncing(d)' => (d = c /\ r.op = "sync") \/ (d \in others /\ Syncing(d))
    BY <1>10 DEF Syncing
  <2>3. \A d, e \in Clients : Syncing(d)' /\ Syncing(e)' => d = e
    BY <2>1, <2>2 DEF SvcInv, CacheInv, Syncing
  <2>4. \A d \in Clients : Asking(d, "insert")' => Asking(d, "insert") /\ ask'[d].value = ask[d].value
    BY <1>10 DEF Asking
  <2>5. \A d \in Clients : Asking(d, "insert") => Asking(d, "insert")'
    <3> SUFFICES ASSUME NEW d \in Clients, Asking(d, "insert") PROVE Asking(d, "insert")'
      OBVIOUS
    <3>1. d # c /\ ask[d] # Idle /\ ask[d].pc = "insert"
      BY <1>1 DEF Asking
    <3>2. ask'[d] = met(d)
      BY <1>4, <3>1
    <3>3. met(d) # Idle
      BY <1>3, <3>1, ServicesAssumption
    <3> QED BY <1>3, <3>1, <3>2, <3>3 DEF Asking
  <2> QED BY <1>1, <2>1, <2>3, <2>4, <2>5 DEF SvcInv, CacheInv, CacheTrue, Cluster, Memory
<1>13. AloneInv'
  <2> SUFFICES ASSUME NEW d \in Clients, ask'[d] # Idle, ask'[d].alone = "yes"
               PROVE  /\ \A e \in Clients \ {d} : ask'[e] = Idle
                      /\ ask'[d].pc \notin {"unsvc", "newsvc", "wait"}
    BY DEF AloneInv
  <2>1. d = c
    BY <1>10
  <2> QED BY <1>2, <1>4, <1>7, <2>1
<1>14. DerivedBuilt'
  <2>1. \A d \in Clients : Asking(d, "build") => Asking(d, "build")'
    <3> SUFFICES ASSUME NEW d \in Clients, Asking(d, "build") PROVE Asking(d, "build")'
      OBVIOUS
    <3>1. d # c /\ ask[d] # Idle /\ ask[d].pc = "build"
      BY <1>1 DEF Asking
    <3>2. ask'[d] = met(d)
      BY <1>4, <3>1
    <3>3. met(d) # Idle
      BY <1>3, <3>1, ServicesAssumption
    <3> QED BY <1>3, <3>1, <3>2, <3>3 DEF Asking
  <2> QED BY <1>1, <2>1 DEF SvcInv, DerivedBuilt, Memory
<1> QED BY <1>8, <1>9, <1>11, <1>12, <1>13, <1>14 DEF SvcInv

LEMMA SvcRequestStep ==
    ASSUME SvcInv, NEW c \in Clients, SvcRequest(c)
    PROVE  SvcInv'
<1> DEFINE Ready(r) == r \in Asks /\ AskOK(r) /\ r.pc \notin {"put", "insert", "build", "unsvc", "newsvc", "wait"}
<1>1. CASE Ensure(c)
  <2>1. PICK kind \in {"bare", "deployment"}, sandbox \in {"yes", "no"} :
          BeginAsk(c, [Request("ensure", IF sandbox = "yes" THEN "derive" ELSE "get")
                         EXCEPT !.kind = kind, !.sandbox = sandbox])
    BY <1>1 DEF Ensure
  <2>2. Ready([Request("ensure", IF sandbox = "yes" THEN "derive" ELSE "get")
                 EXCEPT !.kind = kind, !.sandbox = sandbox])
    BY DEF Request, Asks, Operations, Steps, AskOK
  <2> QED BY <2>1, <2>2, BeginAskStep
<1>2. CASE Delete(c)
  <2>1. Ready(Request("delete", "undep"))
    BY DEF Request, Asks, Operations, Steps, AskOK
  <2> QED BY <1>2, <2>1, BeginAskStep DEF Delete
<1>3. CASE Scale(c)
  <2>1. PICK n \in 0..MaxScale : BeginAsk(c, [Request("scale", "read") EXCEPT !.value = n])
    BY <1>3 DEF Scale
  <2>2. Ready([Request("scale", "read") EXCEPT !.value = n])
    BY ServicesAssumption DEF Request, Asks, Operations, Steps, AskOK
  <2> QED BY <2>1, <2>2, BeginAskStep
<1>4. CASE Restart(c)
  <2>1. Ready(Request("restart", "read"))
    BY DEF Request, Asks, Operations, Steps, AskOK
  <2> QED BY <1>4, <2>1, BeginAskStep DEF Restart
<1>5. CASE Rollback(c)
  <2>1. PICK t \in revisions : BeginAsk(c, [Request("rollback", "read") EXCEPT !.value = t])
    BY <1>5 DEF Rollback
  <2>2. t \in Vers
    BY DEF SvcInv, SvcTypeOK
  <2>3. Ready([Request("rollback", "read") EXCEPT !.value = t])
    BY <2>2 DEF Request, Asks, Operations, Steps, AskOK, Vers
  <2> QED BY <2>1, <2>3, BeginAskStep
<1>6. CASE Sync(c)
  <2>1. PICK force \in {"yes", "no"} :
          BeginAsk(c, [Request("sync", "check") EXCEPT !.value = tip, !.force = force])
    BY <1>6 DEF Sync
  <2>2. tip \in Shas /\ tip \in Nat
    BY ServicesAssumption DEF SvcInv, SvcTypeOK, Shas
  <2>3. Ready([Request("sync", "check") EXCEPT !.value = tip, !.force = force])
    BY <2>2 DEF Request, Asks, Operations, Steps, AskOK
  <2> QED BY <2>1, <2>3, BeginAskStep
<1> QED BY <1>1, <1>2, <1>3, <1>4, <1>5, <1>6 DEF SvcRequest

LEMMA OutsideStep ==
    ASSUME SvcInv, Outside, LeftTypeOK
    PROVE  SvcInv'
<1>1. UNCHANGED <<nextVer, Memory, image, ask, poisoned>>
  BY DEF Outside, BecomeReady, EndDying, RestartWorker, MoveTip, OutsideUnchanged
<1>2. ASSUME SvcTypeOK', EditInv', CacheInv', AloneInv' PROVE SvcInv'
  <2>1. AskInv'
    BY <1>1 DEF SvcInv, AskInv, AskOK
  <2>2. DerivedBuilt'
    BY <1>1 DEF SvcInv, DerivedBuilt, Asking, Memory
  <2> QED BY <1>2, <2>1, <2>2 DEF SvcInv
<1>3. ASSUME pod' = pod \/ (pod # None /\ pod' # None /\ pod'.data = pod.data /\ pod'.life = pod.life),
             UNCHANGED drift,
             \/ UNCHANGED <<deployment, wanted>>
             \/ /\ deployment # None /\ deployment' # None /\ UNCHANGED wanted
                /\ deployment'.ver = deployment.ver /\ deployment'.replicas = deployment.replicas
                /\ deployment'.tmpl = deployment.tmpl /\ deployment'.life = deployment.life,
             UNCHANGED svc, SvcTypeOK'
      PROVE  SvcInv'
  <2>1. EditInv'
    BY <1>1, <1>3 DEF SvcInv, EditInv, Asking
  <2>2. CacheInv'
    BY <1>1, <1>3 DEF SvcInv, CacheInv, CacheTrue, Asking, Syncing, Memory
  <2>3. AloneInv'
    BY <1>1, <1>3 DEF SvcInv, AloneInv, Object
  <2> QED BY <1>2, <1>3, <2>1, <2>2, <2>3
<1>4. CASE BecomeReady
  <2>1. CASE pod' = pod
    <3>1. CASE UNCHANGED deployment
      <4>1. SvcTypeOK'
        BY <1>1, <1>4, <2>1, <3>1 DEF BecomeReady, OutsideUnchanged, SvcInv, SvcTypeOK, Memory
      <4> QED BY <1>3, <1>4, <2>1, <3>1, <4>1 DEF BecomeReady
    <3>2. CASE deployment # None /\ deployment' = [deployment EXCEPT !.ready = "yes"]
      <4>1. /\ deployment' \in Deployments
            /\ deployment'.ver = deployment.ver /\ deployment'.replicas = deployment.replicas
            /\ deployment'.tmpl = deployment.tmpl /\ deployment'.life = deployment.life
        BY <3>2 DEF SvcInv, SvcTypeOK, Deployments
      <4>2. SvcTypeOK'
        BY <1>1, <1>4, <2>1, <4>1 DEF BecomeReady, OutsideUnchanged, SvcInv, SvcTypeOK, Memory
      <4>3. deployment' # None
        BY <4>1, ServicesAssumption
      <4> QED BY <1>3, <1>4, <2>1, <3>2, <4>1, <4>2, <4>3 DEF BecomeReady
    <3> QED BY <1>4, <3>1, <3>2 DEF BecomeReady
  <2>2. CASE pod # None /\ pod' = [pod EXCEPT !.ready = "yes"] /\ UNCHANGED deployment
    <3>1. pod' \in Pods /\ pod'.data = pod.data /\ pod'.life = pod.life
      BY <2>2 DEF SvcInv, SvcTypeOK, Pods
    <3>2. SvcTypeOK'
      BY <1>1, <1>4, <2>2, <3>1 DEF BecomeReady, OutsideUnchanged, SvcInv, SvcTypeOK, Memory
    <3>3. pod' # None
      BY <3>1, ServicesAssumption
    <3> QED BY <1>3, <1>4, <2>2, <3>1, <3>2, <3>3 DEF BecomeReady
  <2> QED BY <1>4, <2>1, <2>2 DEF BecomeReady
<1>5. CASE EndDying
  <2>1. UNCHANGED <<svc, nextVer, Memory, image, tip, ask, poisoned>>
    BY <1>5 DEF EndDying
  <2>2. CASE /\ pod # None /\ pod.life = "dying" /\ pod' = None /\ drift' = "yes"
             /\ UNCHANGED <<deployment, wanted, revisions>>
    <3>1. SvcTypeOK'
      BY <2>1, <2>2 DEF SvcInv, SvcTypeOK, Memory
    <3>2. EditInv'
      BY <2>1, <2>2 DEF SvcInv, EditInv, Asking
    <3>3. AloneInv'
      BY <2>1, <2>2 DEF SvcInv, AloneInv, Object
    <3> QED BY <1>2, <2>2, <3>1, <3>2, <3>3, Adrift
  <2>3. CASE /\ deployment # None /\ deployment.life = "dying" /\ deployment' = None
             /\ wanted' = None /\ revisions' = {} /\ UNCHANGED <<pod, drift>>
    <3>1. SvcTypeOK'
      BY <2>1, <2>3 DEF SvcInv, SvcTypeOK, Memory
    <3>2. EditInv'
      BY <2>3 DEF EditInv
    <3>3. AloneInv'
      BY <2>1, <2>3 DEF SvcInv, AloneInv, Object
    <3>4. CacheInv'
      BY <2>1, <2>3 DEF SvcInv, CacheInv, CacheTrue, Asking, Syncing, Memory
    <3> QED BY <1>2, <3>1, <3>2, <3>3, <3>4
  <2> QED BY <1>5, <2>2, <2>3 DEF EndDying
<1>6. CASE RestartWorker
  <2>1. /\ pod # None /\ pod' = [pod EXCEPT !.data = None, !.ready = "no"] /\ drift' = "yes"
        /\ UNCHANGED <<deployment, svc, tip, wanted, revisions>>
    BY <1>6 DEF RestartWorker, OutsideUnchanged
  <2>2. pod' \in Pods /\ pod'.life = pod.life
    BY <2>1 DEF SvcInv, SvcTypeOK, Pods
  <2>3. SvcTypeOK'
    BY <1>1, <2>1, <2>2 DEF SvcInv, SvcTypeOK, Memory
  <2>4. EditInv'
    BY <1>1, <2>1 DEF SvcInv, EditInv, Asking
  <2>5. pod' # None
    BY <2>2, ServicesAssumption
  <2>6. AloneInv'
    BY <1>1, <2>1, <2>2, <2>5 DEF SvcInv, AloneInv, Object
  <2> QED BY <1>2, <2>1, <2>3, <2>4, <2>6, Adrift
<1>7. CASE MoveTip
  <2>1. UNCHANGED <<deployment, pod, svc, wanted, drift, revisions>> /\ tip' \in Shas
    BY <1>7 DEF MoveTip, OutsideUnchanged
  <2>2. SvcTypeOK'
    BY <1>1, <2>1 DEF SvcInv, SvcTypeOK, Memory
  <2> QED BY <1>3, <2>1, <2>2
<1> QED BY <1>4, <1>5, <1>6, <1>7 DEF Outside

LEMMA SvcNextHolds ==
    ASSUME SvcInv, LeftTypeOK, SvcNext
    PROVE  SvcInv'
<1>1. CASE Outside
  BY <1>1, OutsideStep
<1>2. ASSUME NEW c \in Clients, SvcRequest(c) PROVE SvcInv'
  BY <1>2, SvcRequestStep
<1>3. ASSUME NEW c \in Clients, SvcStep(c) PROVE SvcInv'
  BY <1>3, QuietSteps, DeriveStep, BuildStep, ServiceSteps, DeleteObjectStep, CreatePodStep,
     CreateDeploymentStep, ReadStep, ReplaceStep, SendStep, SendFailsStep, InsertStep, FailAskStep
     DEF SvcStep
<1> QED BY <1>1, <1>2, <1>3 DEF SvcNext

LEMMA SvcCrashHolds ==
    ASSUME SvcInv, SvcCrash
    PROVE  SvcInv'
<1>1. UNCHANGED <<Cluster, image, tip, Seen>> /\ derived' = "none" /\ cache' = None
      /\ ask' = [c \in Clients |-> Idle]
  BY DEF SvcCrash
<1>2. \A c \in Clients : ask'[c] = Idle
  BY <1>1
<1>3. SvcTypeOK'
  BY <1>1 DEF SvcInv, SvcTypeOK, Cluster, Seen
<1>4. AskInv' /\ AloneInv' /\ DerivedBuilt'
  BY <1>1, <1>2 DEF AskInv, AloneInv, DerivedBuilt
<1>5. EditInv'
  BY <1>1, <1>2 DEF SvcInv, EditInv, Asking, Cluster, Seen
<1>6. CacheInv'
  BY <1>1, <1>2 DEF CacheInv, CacheTrue, Asking, Syncing
<1> QED BY <1>3, <1>4, <1>5, <1>6 DEF SvcInv

LEMMA SvcStutter ==
    ASSUME SvcInv, UNCHANGED svcVars
    PROVE  SvcInv'
BY DEF svcVars, SvcInv, SvcTypeOK, AskInv, AskOK, EditInv, CacheInv, CacheTrue, AloneInv,
       DerivedBuilt, Asking, Syncing, Object

LEMMA SvcInitHolds == SvcInit => SvcInv
<1> SUFFICES ASSUME SvcInit PROVE SvcInv
  OBVIOUS
<1>1. \A c \in Clients : ask[c] = Idle
  BY DEF SvcInit
<1>2. SvcTypeOK
  BY ServicesAssumption DEF SvcInit, SvcTypeOK, Shas, Vers
<1> QED BY <1>1, <1>2 DEF SvcInit, SvcInv, AskInv, EditInv, CacheInv, CacheTrue, AloneInv,
       DerivedBuilt, Asking, Syncing

LEMMA LeftStays ==
    ASSUME LeftTypeOK, left' = left \/ \E kind \in Kinds : Spend(kind)
    PROVE  LeftTypeOK'
BY DEF LeftTypeOK, Spend

LEMMA SvcLeft ==
    ASSUME LeftTypeOK, SvcNext
    PROVE  LeftTypeOK'
<1> USE DEF Kinds
<1>1. ASSUME NEW c \in Clients, SvcRequest(c) PROVE LeftTypeOK'
  BY <1>1, LeftStays DEF SvcRequest, Ensure, Delete, Scale, Restart, Rollback, Sync, BeginAsk
<1>2. ASSUME NEW c \in Clients, SvcStep(c) PROVE LeftTypeOK'
  BY <1>2, LeftStays DEF SvcStep, Derive, Build, BuildFails, GetObject, AwaitGone, CreatePod,
     CreateDeployment, DeleteService, CreateService, AwaitReady, DeleteObject, ReadDeployment,
     ReplaceDeployment, CheckCache, CheckStatus, Send, SendFails, InsertCache, FailAsk,
     EnsureUnchanged
<1>3. CASE Outside
  BY <1>3, LeftStays DEF Outside, BecomeReady, EndDying, RestartWorker, MoveTip
<1> QED BY <1>1, <1>2, <1>3 DEF SvcNext

-----------------------------------------------------------------------------
(* The theorems. *)

(* The types, and what each part of the state says of the others, for any  *)
(* number of clients, requests, faults, events and crashes.                *)
THEOREM ServicesInvariance == SvcSpec => [](SvcInv /\ LeftTypeOK)
<1>1. SvcInit /\ LeftTypeOK => SvcInv /\ LeftTypeOK
  BY SvcInitHolds
<1>2. SvcInv /\ LeftTypeOK /\ [SvcNext \/ (Spend("crashes") /\ SvcCrash)]_<<svcVars, left>>
        => (SvcInv /\ LeftTypeOK)'
  <2> SUFFICES ASSUME SvcInv, LeftTypeOK,
                      [SvcNext \/ (Spend("crashes") /\ SvcCrash)]_<<svcVars, left>>
               PROVE  SvcInv' /\ LeftTypeOK'
    OBVIOUS
  <2>1. CASE SvcNext
    BY <2>1, SvcNextHolds, SvcLeft
  <2>2. CASE Spend("crashes") /\ SvcCrash
    BY <2>2, SvcCrashHolds, LeftStays DEF Kinds
  <2>3. CASE UNCHANGED <<svcVars, left>>
    BY <2>3, SvcStutter DEF LeftTypeOK
  <2> QED BY <2>1, <2>2, <2>3
<1> QED BY <1>1, <1>2, PTL DEF SvcSpec

LEMMA SvcInvServes == SvcInv => EnsuredServes /\ NoLostUpdate /\ CacheTrue /\ DerivedBuilt
<1>1. SvcInv => EnsuredServes
  BY DEF SvcInv, AloneInv, EnsuredServes, Asking
<1>2. SvcInv => NoLostUpdate
  BY DEF SvcInv, EditInv, NoLostUpdate
<1>3. SvcInv => CacheTrue
  BY DEF SvcInv, CacheInv, CacheTrue
<1> QED BY <1>1, <1>2, <1>3 DEF SvcInv

(* An ensure that met no other request waits for an object that is there   *)
(* and not being deleted, behind a Service.                                *)
THEOREM EnsuredIsThere == SvcSpec => []EnsuredServes
BY SvcInvServes, ServicesInvariance, PTL

(* No edit of a deployment undoes another, however their reads and writes  *)
(* overlap.                                                                *)
THEOREM EditsAreKept == SvcSpec => []NoLostUpdate
BY SvcInvServes, ServicesInvariance, PTL

(* Without a restarted worker, a failed or an overlapping synchronization, *)
(* the cache names the commit that the worker holds.                       *)
THEOREM CacheIsTrue == SvcSpec => []CacheTrue
BY SvcInvServes, ServicesInvariance, PTL

(* A derived image that is listed exists, or is being built, unless a      *)
(* build was abandoned.                                                    *)
THEOREM DerivedIsBuilt == SvcSpec => []DerivedBuilt
BY SvcInvServes, ServicesInvariance, PTL
===============================================================================
