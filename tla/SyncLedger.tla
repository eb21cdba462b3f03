----------------------------- MODULE SyncLedger -----------------------------
(***************************************************************************)
(* What a catalogue synchronisation promises of one job, whoever runs it   *)
(* and however often it is interrupted: the items are taken in the order   *)
(* of discovery, at most BatchSize at a time; an item that was imported or *)
(* skipped is not touched again, one that failed may be; the job is closed *)
(* once, when nothing is left to do.                                       *)
(***************************************************************************)
EXTENDS Naturals, FiniteSets

CONSTANTS N, BatchSize

VARIABLES verdict, closed

Pos == 0 .. N-1
Settled == {"done", "skipped"}

Init ==
    /\ verdict = [p \in Pos |-> "pending"]
    /\ closed = FALSE

Batch(B) ==
    /\ ~ closed
    /\ B # {} /\ Cardinality(B) <= BatchSize
    /\ \A p \in B : verdict[p] \notin Settled
    /\ \A p \in Pos \ B, q \in B :
         verdict[p] = "pending" /\ verdict[q] = "pending" => q < p
    /\ \E v \in [B -> Settled \cup {"failed"}] :
         verdict' = [p \in Pos |-> IF p \in B THEN v[p] ELSE verdict[p]]
    /\ UNCHANGED closed

Close ==
    /\ ~ closed
    /\ \A p \in Pos : verdict[p] \in Settled
    /\ closed' = TRUE
    /\ UNCHANGED verdict

Next == Close \/ \E B \in SUBSET Pos : Batch(B)

Spec == Init /\ [][Next]_<<verdict, closed>>
============================================================================
