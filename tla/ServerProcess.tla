---------------------------- MODULE ServerProcess ----------------------------
(***************************************************************************)
(* The process: the lifecycle of the repositories, the services and the    *)
(* tasks share its memory, and die together.                               *)
(***************************************************************************)
EXTENDS RepoLifecycle, Services, Tasks

serverVars == <<lifeVars, svcVars, taskVars, left>>

ServerTypeOK == LifeTypeOK /\ SvcTypeOK /\ TaskTypeOK

ServerInit == LifeInit /\ SvcInit /\ TaskInit /\ LeftTypeOK

\* What outlives the process: files, rows, the cluster.
Crash == Spend("crashes") /\ LifeCrash /\ SvcCrash /\ TaskCrash

ServerNext ==
    \/ LifeNext /\ UNCHANGED <<svcVars, taskVars>>
    \/ SvcNext /\ UNCHANGED <<lifeVars, taskVars>>
    \/ TaskNext /\ UNCHANGED <<lifeVars, svcVars>>
    \/ Crash

ServerSpec == ServerInit /\ [][ServerNext]_serverVars
===============================================================================
