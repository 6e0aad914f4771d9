--------------------------- MODULE AtomicTransfer ---------------------------
(***************************************************************************)
(* What a FaultWeave transfer promises, with no services, messages, locks  *)
(* or failures: every instruction moves its funds at most once and all at  *)
(* once, is posted to the ledger only after the funds moved, is paid only  *)
(* after it was posted, and completes only after it was paid.  Nothing is  *)
(* ever taken back.  TransferWorkflow implements this specification.       *)
(***************************************************************************)
EXTENDS TransferData

VARIABLES
    balance,  \* balance[a]: the committed balance of account a
    stage     \* stage[k]: pending, moved, posted, paid or completed

-----------------------------------------------------------------------------
Advance(k, from, to) ==
    /\ stage[k] = from
    /\ stage' = [stage EXCEPT ![k] = to]

Move(k) ==
    /\ Advance(k, "pending", "moved")
    /\ balance[Source[k]] >= Amount[k]
    /\ balance' = Transferred(balance, k)

Post(k)     == Advance(k, "moved", "posted")   /\ UNCHANGED balance
Pay(k)      == Advance(k, "posted", "paid")    /\ UNCHANGED balance
Complete(k) == Advance(k, "paid", "completed") /\ UNCHANGED balance

Init ==
    /\ balance = InitialBalance
    /\ stage = [k \in Keys |-> "pending"]

Next == \E k \in Keys : Move(k) \/ Post(k) \/ Pay(k) \/ Complete(k)

Spec == Init /\ [][Next]_<<balance, stage>>
=============================================================================
