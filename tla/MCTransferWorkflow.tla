------------------------- MODULE MCTransferWorkflow -------------------------
(* TransferWorkflow with one transfer: the values of its constants.        *)
EXTENDS TransferWorkflow, TLC

CONSTANTS k1, A, B

OneKey == {k1}
TwoAccounts == {A, B}

\* k1 moves 1 from A to B.
OneSource == k1 :> A
OneDestination == k1 :> B
OneAmount == k1 :> 1
OneBalance == A :> 2 @@ B :> 0
=============================================================================
