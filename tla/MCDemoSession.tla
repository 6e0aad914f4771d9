--------------------------- MODULE MCDemoSession ---------------------------
(* BlindChallenge on a small instance: which sessions there are, and how   *)
(* long the phases of the workload take.                                   *)
EXTENDS BlindChallenge, TLC

CONSTANTS b, g, n, h1, h2, h3

\* A blind and a guided session with a fault each, and a blind one without.
ThreeSessions == {b, g, n}
BlindSessions == {b, n}
FaultSessions == {b, g}
ThreeHandlers == {h1, h2, h3}

\* Long enough for a window inside the challenge, and, under the older policy,
\* for a window of all phases.
ShortPhases ==
    [challenge_only |-> [baseline |-> 2, challenge |-> 5, recovery |-> 1],
     rolling |-> [baseline |-> 2, challenge |-> 1, recovery |-> 1]]

\* Handlers differ in their names only.
HandlerSymmetry == Permutations(ThreeHandlers)
=============================================================================
