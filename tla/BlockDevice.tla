---------------------------- MODULE BlockDevice ----------------------------
(***************************************************************************)
(* What read_block() and write_block() of a block driver promise to the    *)
(* buffer cache (BufferCache::BlockDevice): a call works on its sector     *)
(* once, at some moment between the call and the return, and says          *)
(* truthfully whether it did.  A write that fails may have changed its     *)
(* sector or not.                                                          *)
(***************************************************************************)
CONSTANTS Sectors, Values, NoCall, NoOutcome

VARIABLES disk,      \* the contents of the sectors
          call,      \* the running call, or NoCall
          outcome,   \* what it will return, or NoOutcome
          result     \* what the last call returned

Failed  == [ok |-> FALSE, data |-> NoOutcome]
Written == [ok |-> TRUE,  data |-> NoOutcome]
Calls   == [type : {"BLK_T_IN"}, sector : Sectors, data : {NoOutcome}]
           \cup [type : {"BLK_T_OUT"}, sector : Sectors, data : Values]

Init ==
    /\ disk \in [Sectors -> Values]
    /\ call = NoCall /\ outcome = NoOutcome /\ result = NoOutcome

Call(c) ==
    /\ call = NoCall
    /\ call' = c
    /\ UNCHANGED <<disk, outcome, result>>

Read ==
    /\ call # NoCall /\ outcome = NoOutcome /\ call.type = "BLK_T_IN"
    /\ outcome' = [ok |-> TRUE, data |-> disk[call.sector]]
    /\ UNCHANGED <<disk, call, result>>

Write(ok) ==
    /\ call # NoCall /\ outcome = NoOutcome /\ call.type = "BLK_T_OUT"
    /\ disk' = [disk EXCEPT ![call.sector] = call.data]
    /\ outcome' = IF ok THEN Written ELSE Failed
    /\ UNCHANGED <<call, result>>

Fail ==
    /\ call # NoCall /\ outcome = NoOutcome
    /\ outcome' = Failed
    /\ UNCHANGED <<disk, call, result>>

Return ==
    /\ outcome # NoOutcome
    /\ result' = outcome
    /\ call' = NoCall /\ outcome' = NoOutcome
    /\ UNCHANGED disk

\* A call before the device is ready.
Refuse ==
    /\ call = NoCall
    /\ result' = Failed
    /\ UNCHANGED <<disk, call, outcome>>

Next ==
    \/ \E c \in Calls : Call(c)
    \/ Read \/ (\E ok \in BOOLEAN : Write(ok)) \/ Fail \/ Return \/ Refuse

Spec == Init /\ [][Next]_<<disk, call, outcome, result>>
=============================================================================
