---------------------------- MODULE MCCredentials ---------------------------
(***************************************************************************)
(* Credentials for TLC.  Processes are interchangeable, and so are paths.  *)
(***************************************************************************)
EXTENDS Credentials, FiniteSets, TLC

Symmetry == Permutations(Procs) \cup Permutations(Paths)

\* Commands overlap in behaviours with one event and four credentials, over
\* four snapshots; those with more events and credentials run the commands one
\* after the other, over three.
Scope ==
    \/ events <= 1 /\ drawn <= 4
    \/ Cardinality({p \in Procs : proc[p] # Idle}) <= 1 /\ issued <= 3
=============================================================================
