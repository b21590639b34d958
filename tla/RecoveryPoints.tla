--------------------------- MODULE RecoveryPoints ---------------------------
(***************************************************************************)
(* What bootrecov promises of recovery points, without the files, the      *)
(* processes and the failures: a snapshot is saved, mirrored where the     *)
(* boot loader can read it, and offered in the boot menu, and comes down   *)
(* in the opposite order, one snapshot and one step at a time.  Recovery   *)
(* implements it (PointsKept in RecoveryProperties).                       *)
(***************************************************************************)
CONSTANT Names

VARIABLES
    saved,      \* snapshots a user can choose
    mirrored,   \* snapshots with a complete mirror
    offered     \* snapshots the boot menu has an entry for

vars == <<saved, mirrored, offered>>

Init ==
    /\ saved = {}
    /\ mirrored = {}
    /\ offered = {}

Save(s) ==
    /\ s \notin saved \cup mirrored \cup offered
    /\ saved' = saved \cup {s}
    /\ UNCHANGED <<mirrored, offered>>

Mirror(s) ==
    /\ s \in saved
    /\ mirrored' = mirrored \cup {s}
    /\ UNCHANGED <<saved, offered>>

\* Only what can be read at boot is offered.
Offer(s) ==
    /\ s \in saved \cap mirrored
    /\ offered' = offered \cup {s}
    /\ UNCHANGED <<saved, mirrored>>

Withdraw(s) ==
    /\ offered' = offered \ {s}
    /\ UNCHANGED <<saved, mirrored>>

\* A mirror goes after its entry, a snapshot after its mirror.
Unmirror(s) ==
    /\ s \notin offered
    /\ mirrored' = mirrored \ {s}
    /\ UNCHANGED <<saved, offered>>

Discard(s) ==
    /\ s \notin offered \cup mirrored
    /\ saved' = saved \ {s}
    /\ UNCHANGED <<mirrored, offered>>

Next ==
    \E s \in Names :
        \/ Save(s)
        \/ Mirror(s)
        \/ Offer(s)
        \/ Withdraw(s)
        \/ Unmirror(s)
        \/ Discard(s)

Spec == Init /\ [][Next]_vars

=============================================================================
