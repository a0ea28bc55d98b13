---------------------------- MODULE MCCiScheduler ----------------------------
(* Instances of CiScheduler for TLC: small numbers of runs, jobs, faults.  *)
EXTENDS CiScheduler

CONSTANT MaxFaults   \* bound: faults of all sorts together

FaultBudget == crashes + lost + api + Cardinality(panicked) <= MaxFaults
===============================================================================
