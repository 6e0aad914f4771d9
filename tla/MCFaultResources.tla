-------------------------- MODULE MCFaultResources --------------------------
(* FaultResources with three programs, one of each kind.  Either the sealed *)
(* run or the demo session takes part; the resources of the service are     *)
(* followed beside the session, which is what replaces and clears a live    *)
(* lease (no sealed fault holds any).                                       *)
EXTENDS FaultResources

CONSTANTS g1, p1, s1, d1

OneGated  == {g1}
OnePlain  == {p1}
OneSealed == {s1}
OneDemo   == {d1}

\* The program that does not take part is "dead" from the start.
CastInit ==
    /\ file = 0 /\ content = 0 /\ issued = 0 /\ expired = {}
    /\ \E out \in {s1, d1} : pc = [c \in Clients |-> IF c = out THEN "dead" ELSE "idle"]
    /\ mine = [c \in Clients |-> 0]
    /\ seen = [c \in Clients |-> 0]
    /\ stopped = {} /\ met = {} /\ held = 0

CastNext == ResNext /\ (pc[d1] = "dead" => UNCHANGED <<met, held>>)

CastSpec == CastInit /\ [][CastNext]_resVars /\ ResFairness
=============================================================================
