---------------------------- MODULE TransferData ----------------------------
(***************************************************************************)
(* The instructions and accounts that the abstract transfer and the        *)
(* workflow are about.                                                     *)
(***************************************************************************)
EXTENDS Integers

CONSTANTS
    Keys,           \* transfer instructions, one per (user, idempotency key)
    Accounts,       \* account numbers
    Source,         \* Source[k]: the account instruction k debits
    Destination,    \* Destination[k]: the account it credits
    Amount,         \* Amount[k]: its amount_minor
    InitialBalance  \* InitialBalance[a]: balance of account a at the start

ASSUME RouteAssumption ==
    /\ Source \in [Keys -> Accounts]
    /\ Destination \in [Keys -> Accounts]
    /\ \A k \in Keys : Source[k] # Destination[k]

ASSUME MoneyAssumption ==
    /\ Amount \in [Keys -> Nat \ {0}]
    /\ InitialBalance \in [Accounts -> Nat]

\* The balances after instruction k moved its funds: one debit, one credit.
Transferred(balance, k) ==
    [balance EXCEPT ![Source[k]] = @ - Amount[k], ![Destination[k]] = @ + Amount[k]]
=============================================================================
