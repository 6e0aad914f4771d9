-------------------------- MODULE MCCaseAssistant --------------------------
(* TransferWorkflow and CaseAssistant on small instances: either two       *)
(* transfers, each of which funds the other, which nobody asks about, or   *)
(* one, under tighter bounds, and the requests to explain it.              *)
EXTENDS CaseAssistant, TLC

CONSTANTS k1, k2, A, B, e1, e2, normal

OneKey      == {k1}
TwoKeys     == {k1, k2}
TwoAccounts == {A, B}

\* k1 debits A; k2 debits B, which is empty until k1 credits it.
OneSource      == k1 :> A
OneDestination == k1 :> B
OneAmount      == k1 :> 1
TwoSource      == k1 :> A @@ k2 :> B
TwoDestination == k1 :> B @@ k2 :> A
TwoAmount      == k1 :> 1 @@ k2 :> 1
OneBalance     == A :> 1 @@ B :> 0

TwoExplainers == {e1, e2}
OneAssessment == {normal}

\* Requests differ in their names only.
ExplainerSymmetry == Permutations(TwoExplainers)

\* Where nobody asks, the requests are "off".
CampaignInit ==
    /\ Init
    /\ \E where \in {"idle", "off"} : at = [e \in Explainers |-> where]
    /\ context = [e \in Explainers |-> NoEvidence]
    /\ answer = [e \in Explainers |-> Unanswered]
    /\ cache = {}

\* Bounds of the campaign with requests: one transfer, one review, one fault.
CampaignNext ==
    /\ CaseNext
    /\ at[e1] # "off" => txn'[k2].state = "ABSENT" /\ txn'[k1].reviews <= 1 /\ faults' <= 1

CampaignSpec == CampaignInit /\ [][CampaignNext]_allVars
=============================================================================
