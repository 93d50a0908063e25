------------------------------ MODULE MCEngine ------------------------------
(***************************************************************************)
(* Engine for TLC.  The full product of two works, two attempts, three     *)
(* processes and a store fault is out of reach, so a behaviour stays       *)
(* within one of three scopes, each of which takes another of the bounds   *)
(* to its limit.                                                           *)
(***************************************************************************)
EXTENDS Engine, FiniteSets, TLC

VARIABLE scope

Scopes ==
    {[works |-> 1, attempts |-> 2, processes |-> 2, faults |-> 0],
     [works |-> 1, attempts |-> 1, processes |-> 3, faults |-> 1],
     [works |-> 2, attempts |-> 1, processes |-> 2, faults |-> 0]}

Within ==
    /\ \A w \in Works : w > scope.works => work[w] = Absent
    /\ \A w \in Works, k \in Attempts :
           k > scope.attempts => model[w][k] = NoModelRow /\ tool[w][k] = NoToolRow
    /\ Cardinality({r \in Runtimes : runtime[r] # "absent"}) <= scope.processes
    /\ faults <= scope.faults

ScopedInit == EngineInit /\ scope \in Scopes

ScopedNext == EngineNext /\ UNCHANGED scope /\ Within'

ScopedSpec == ScopedInit /\ [][ScopedNext]_<<engineVars, scope>>

ASSUME FaultsOK == MaxFaultsOK

RuntimeSymmetry == Permutations(Runtimes)
=============================================================================
