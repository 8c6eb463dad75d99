-------------------------- MODULE SnapshotRegister --------------------------
(***************************************************************************)
(* What the store promises, without its files, locks and steps: one        *)
(* register that holds a snapshot, changed by compare-and-swap.            *)
(*                                                                         *)
(* A save swaps in, in one step, a child of the snapshot its process had   *)
(* read, and only while the register still holds that snapshot; a create   *)
(* only fills an empty register.  After a crash the register holds a value *)
(* it had since it was last confirmed on the disk.                         *)
(***************************************************************************)
EXTENDS Naturals

CONSTANTS Procs, MaxSnap

Ids == 1..MaxSnap
Alien == MaxSnap + 1     \* something of the user's that is no snapshot

VARIABLES
    parent, issued,      \* the snapshots made so far, and what each one changes
    cur,                 \* the value of the register, 0 when empty
    may,                 \* the values a crash may leave
    client               \* what each process wants, and the snapshot it has read

vars == <<parent, issued, cur, may, client>>

NoClient == [want |-> "none", of |-> 0]

Init ==
    /\ parent = [i \in Ids |-> 0]
    /\ issued = 0
    /\ cur = 0
    /\ may = {0}
    /\ client = [p \in Procs |-> NoClient]

\* A process reads the register to change it, or comes to create or to restore.
Begin(p) ==
    /\ client[p] = NoClient
    /\ \/ cur \in Ids /\ client' = [client EXCEPT ![p] = [want |-> "save", of |-> cur]]
       \/ client' = [client EXCEPT ![p] = [want |-> "create", of |-> 0]]
       \/ \E s \in 1..issued :
            client' = [client EXCEPT ![p] = [want |-> "restore", of |-> s]]
    /\ UNCHANGED <<parent, issued, cur, may>>

End(p) ==
    /\ client' = [client EXCEPT ![p] = NoClient]
    /\ UNCHANGED <<parent, issued, cur, may>>

\* A new snapshot, derived from what the process read (0: a new vault).
Make(p) ==
    /\ client[p].want \in {"save", "create"}
    /\ issued < MaxSnap
    /\ issued' = issued + 1
    /\ parent' = [parent EXCEPT ![issued + 1] = client[p].of]
    /\ UNCHANGED <<cur, may, client>>

Set(s) ==
    /\ cur' = s
    /\ may' = may \cup {s}
    /\ UNCHANGED <<parent, issued, client>>

Save(p) ==
    /\ client[p] = [want |-> "save", of |-> cur]
    /\ \E s \in 1..issued : parent[s] = cur /\ Set(s)

Create(p) ==
    /\ client[p].want = "create"
    /\ cur = 0
    /\ \E s \in 1..issued : parent[s] = 0 /\ Set(s)

Restore(p) == client[p].want = "restore" /\ Set(client[p].of)

\* The user moves the vault away, or puts a file where it is missing.
User == Set(0) \/ (cur = 0 /\ Set(Alien))

Confirm == may' = {cur} /\ UNCHANGED <<parent, issued, cur, client>>

Crash ==
    /\ \E s \in may : cur' = s /\ may' = {s}
    /\ client' = [p \in Procs |-> NoClient]
    /\ UNCHANGED <<parent, issued>>

Next ==
    \/ \E p \in Procs :
        Begin(p) \/ End(p) \/ Make(p) \/ Save(p) \/ Create(p) \/ Restore(p)
    \/ User \/ Confirm \/ Crash

Spec == Init /\ [][Next]_vars
=============================================================================
