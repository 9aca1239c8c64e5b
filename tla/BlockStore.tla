----------------------------- MODULE BlockStore -----------------------------
(***************************************************************************)
(* What the file system relies on when it borrows blocks through           *)
(* IBlockStore: every borrower of a block sees the last contents any       *)
(* borrower gave it, whether or not they have reached the disk, and the    *)
(* disk only ever receives contents that a borrower gave.  There is no     *)
(* cache in sight.                                                         *)
(***************************************************************************)
CONSTANTS Blocks, Values, Refs, NoBlock

VARIABLES view,   \* the contents of each block, as every borrower sees them
          disk,   \* the contents on the device
          held    \* the block each reference has borrowed, or NoBlock

\* Some blocks reach the disk, with the contents they have after the step.
WritesBack ==
    \E S \in SUBSET Blocks :
        disk' = [b \in Blocks |-> IF b \in S THEN view'[b] ELSE disk[b]]

Init ==
    /\ disk \in [Blocks -> Values]
    /\ view = disk
    /\ held = [r \in Refs |-> NoBlock]

Acquire(r, b) ==
    /\ held[r] = NoBlock
    /\ held' = [held EXCEPT ![r] = b]
    /\ UNCHANGED view
    /\ WritesBack

Update(r, v) ==
    /\ held[r] \in Blocks
    /\ view' = [view EXCEPT ![held[r]] = v]
    /\ UNCHANGED held
    /\ WritesBack

Release(r) ==
    /\ held' = [held EXCEPT ![r] = NoBlock]
    /\ UNCHANGED <<view, disk>>

Sync ==
    /\ UNCHANGED <<view, held>>
    /\ WritesBack

Next ==
    \/ \E r \in Refs, b \in Blocks : Acquire(r, b)
    \/ \E r \in Refs, v \in Values : Update(r, v)
    \/ \E r \in Refs : Release(r)
    \/ Sync

Spec == Init /\ [][Next]_<<view, disk, held>>
=============================================================================
