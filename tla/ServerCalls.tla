----------------------------- MODULE ServerCalls -----------------------------
(***************************************************************************)
(* What the parts of the server process share: the clients, and the        *)
(* bounds of an instance.                                                  *)
(***************************************************************************)
EXTENDS Naturals, FiniteSets

CONSTANTS Clients, Idle

\* Requests on repositories, on services and on tasks, events outside of the
\* server, errors and lost clients, crashes: how many are still to come.
VARIABLE left

Kinds == {"calls", "ops", "streams", "events", "faults", "crashes"}

LeftTypeOK == left \in [Kinds -> Nat]

Spend(kind) == left[kind] > 0 /\ left' = [left EXCEPT ![kind] = @ - 1]
===============================================================================
