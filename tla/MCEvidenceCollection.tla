------------------------ MODULE MCEvidenceCollection ------------------------
(* EvidencePipeline with three controllers, two of them for the same        *)
(* attempt, a pilot run by hand, jobs of three programs each, pairs that    *)
(* meet at the isolated gateway, and every program's evidence.              *)
EXTENDS EvidencePipeline, TLC

CONSTANTS k1, k2, k3, p1, p2, p3, p4, a1, a2, v1, v2, c1, c2, c3, n1, n2, q1, q2, w1

SomeControllers == {k1, k2, k3}
SomePilots == {p1, p2, p3, p4}
SomeAttempts == k1 :> a1 @@ k2 :> a1 @@ k3 :> a2
OwnChild == k1 :> p1 @@ k2 :> p2 @@ k3 :> p3
MixedKinds ==
    { p1 :> "fault" @@ p2 :> "healthy" @@ p3 :> "outage" @@ p4 :> "outage",
      p1 :> "outage" @@ p2 :> "outage" @@ p3 :> "fault" @@ p4 :> "fault" }
TwoRuns == <<"first", "second">>

\* Up to three programs at a time, and the slot of each that has one.
Job(programs, slots, strangers) ==
    [ program |-> c1 :> programs[1] @@ c2 :> programs[2] @@ c3 :> programs[3],
      slot    |-> c1 :> slots[1] @@ c2 :> slots[2] @@ c3 :> n1,
      visits  |-> strangers, trained |-> programs[2] = "acceptance" ]
Pair(first, second) == Job(<<first, second, "none">>, <<n1, n1>>, 0)
SomeJobs ==
    { Job(<<"normal", "downstream", "unknown">>, <<n1, n2>>, 1),
      Job(<<"downstream", "downstream", "none">>, <<n1, n1>>, 1),
      Job(<<"timeout", "auth", "none">>, <<n1, n2>>, 1),
      Job(<<"resource", "outage", "none">>, <<n1, n2>>, 1),
      Job(<<"unknown", "acceptance", "none">>, <<n1, n1>>, 1),
      Pair("calibration", "highLoad"), Pair("errorPilot", "outagePilot"),
      Pair("resourcePilot", "timeoutPilot"), Pair("authPilot", "servicePilot"),
      Job(<<"healthyPilot", "rateCalibration", "highLoadPilot">>, <<n1, n1>>, 0) }

\* Who meets whom at the isolated gateway.
SomeCasts ==
    { {q1, q2}, {q1, w1}, {q1, "bridge"}, {w1, "feeder"}, {"feeder", "bridge"} }

SomePrograms ==
    { "healthy", "calibration", "payment", "timeout", "auth", "latency", "rejection",
      "pool", "lock", "outage", "load", "trainedTimeout", "trainedLatency",
      "trainedPool", "burst" }
=============================================================================
