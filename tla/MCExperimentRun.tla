-------------------------- MODULE MCExperimentRun --------------------------
(* RunLocalization on a small instance: the values of its constants.       *)
EXTENDS RunLocalization

CONSTANTS x1, x2, u, v, w

TwoRuns == {x1, x2}

\* x1 plans u and w; x2 is a second start of the run, of which v is the
\* request with u's identifier, and may draw other scenarios.
AllRequests == {u, v, w}
Ids == u :> 1 @@ v :> 1 @@ w :> 2
RunOfRequest == u :> x1 @@ w :> x1 @@ v :> x2
ThreePlans == {u :> "valid" @@ v :> "valid" @@ w :> "invalid_amount",
               u :> "invalid_account" @@ v :> "valid" @@ w :> "invalid_amount",
               u :> "invalid_account" @@ v :> "invalid_login" @@ w :> "invalid_login"}

\* Where some of a stream waited, its latency shows it in full.
AllSlow == [x \in Streams |-> 1000]
=============================================================================
