------------------------------ MODULE PilotRun ------------------------------
(***************************************************************************)
(* The diagnostic pilots of phase 19: each is a process that checks that   *)
(* the stack is clean, sends its traffic (a fault pilot under the fault    *)
(* lease, an outage pilot with PostgreSQL stopped as well), undoes what it *)
(* did, proves the recovery, and writes a directory of its own, the        *)
(* manifest last.  A pilot may be killed between any two steps.            *)
(*                                                                         *)
(* The calls on the lease file are single steps here; FaultLease has the   *)
(* steps between them.                                                     *)
(***************************************************************************)
EXTENDS Naturals

CONSTANTS
    Pilots,       \* processes that run a pilot
    NoPilot,      \* the lease file is absent
    Assignments   \* assignments of kinds to the pilots, chosen at the start

Kinds == {"healthy", "fault", "outage"}

ASSUME PilotAssumption ==
    /\ NoPilot \notin Pilots
    /\ Assignments \subseteq [Pilots -> Kinds]

VARIABLES
    kind,      \* kind[p]: what pilot p is to observe; it names its output root
    pc,        \* pc[p]: what pilot p does next
    lease,     \* the pilot that active_fault.json belongs to, or NoPilot
    lapsed,    \* pilots whose lease is past its expiry
    postgres,  \* PostgreSQL is "up" or "down"
    raised,    \* raised[p]: what the exception on its way out of p is about
    output     \* output[p]: the directory of pilot p

pilotVars == <<kind, pc, lease, lapsed, postgres, raised, output>>

PilotSteps == {"new", "start", "ready", "stop", "traffic", "restore", "release",
               "clear", "recover", "check", "create", "write",
               "done", "failed", "dead"}
Outputs == {"none", "partial", "whole", "rejected"}

Troubles == {"nothing", "traffic", "docker"}

Exited  == {"done", "failed", "dead"}
Runs(p) == pc[p] \notin Exited \cup {"new"}

Go(p, step) == pc' = [pc EXCEPT ![p] = step]

PilotInit ==
    /\ kind \in Assignments
    /\ pc = [p \in Pilots |-> "new"]
    /\ lease = NoPilot /\ lapsed = {} /\ postgres = "up"
    /\ raised = [p \in Pilots |-> "nothing"]
    /\ output = [p \in Pilots |-> "none"]

\* require_clean_local_stack, where it finds nothing wrong.
Clean == lease = NoPilot /\ postgres = "up"

-----------------------------------------------------------------------------
(* Before and during the observation *)

Launch(p) ==
    /\ pc[p] = "new"
    /\ Go(p, "start")
    /\ UNCHANGED <<kind, lease, lapsed, postgres, raised, output>>

\* An unhealthy container fails the check, too.
Preflight(p) ==
    /\ pc[p] = "start"
    /\ \/ Clean /\ Go(p, IF kind[p] = "healthy" THEN "traffic" ELSE "ready")
       \/ Go(p, "failed")
    /\ UNCHANGED <<kind, lease, lapsed, postgres, raised, output>>

\* The lease of another pilot is taken over when it has expired.
Acquire(p) ==
    /\ pc[p] = "ready"
    /\ IF lease = NoPilot \/ lease \in lapsed
       THEN /\ lease' = p
            /\ Go(p, IF kind[p] = "outage" THEN "stop" ELSE "traffic")
       ELSE Go(p, "failed") /\ UNCHANGED lease
    /\ UNCHANGED <<kind, lapsed, postgres, raised, output>>

\* Whether or not Docker did it, and whether or not it can be verified.
StopPostgres(p) ==
    /\ pc[p] = "stop"
    /\ postgres' \in {"down", postgres}
    /\ \/ postgres' = "down" /\ Go(p, "traffic") /\ UNCHANGED raised
       \/ Go(p, "restore") /\ raised' = [raised EXCEPT ![p] = "traffic"]
    /\ UNCHANGED <<kind, lease, lapsed, output>>

\* The finally clause that follows the traffic.
AfterTraffic(p) ==
    CASE kind[p] = "healthy" -> "clear"
      [] kind[p] = "fault"   -> "release"
      [] kind[p] = "outage"  -> "restore"

\* The traffic raises, or it ends after the lease did, or it is good.  A
\* healthy pilot has nothing to undo.
SendTraffic(p) ==
    /\ pc[p] = "traffic"
    /\ \/ p \notin lapsed /\ UNCHANGED raised /\ Go(p, AfterTraffic(p))
       \/ kind[p] = "healthy" /\ UNCHANGED raised /\ Go(p, "failed")
       \/ /\ kind[p] # "healthy"
          /\ raised' = [raised EXCEPT ![p] = "traffic"]
          /\ Go(p, AfterTraffic(p))
    /\ UNCHANGED <<kind, lease, lapsed, postgres, output>>

Expire(p) ==
    /\ lease = p
    /\ lapsed' = lapsed \cup {p}
    /\ UNCHANGED <<kind, pc, lease, postgres, raised, output>>

-----------------------------------------------------------------------------
(* Cleaning up *)

\* docker compose up raises, or PostgreSQL is up: in both cases the lease is
\* released next.
RestorePostgres(p) ==
    /\ pc[p] = "restore"
    /\ \/ postgres' = "up" /\ UNCHANGED raised
       \/ raised' = [raised EXCEPT ![p] = "docker"] /\ UNCHANGED postgres
    /\ Go(p, "release")
    /\ UNCHANGED <<kind, lease, lapsed, output>>

\* A lease that someone else has by now is not released.
Release(p) ==
    /\ pc[p] = "release"
    /\ lease' = IF lease = p THEN NoPilot ELSE lease
    /\ Go(p, IF raised[p] # "nothing" \/ lease \notin {p, NoPilot} THEN "failed" ELSE "clear")
    /\ UNCHANGED <<kind, lapsed, postgres, raised, output>>

\* The stack has to be clean again, at once or within 35 polls.
AwaitClean(p) ==
    /\ pc[p] = "clear"
    /\ \/ /\ Clean /\ raised[p] = "nothing"
          /\ Go(p, IF kind[p] = "healthy" THEN "create" ELSE "recover")
       \/ Go(p, "failed")
    /\ UNCHANGED <<kind, lease, lapsed, postgres, raised, output>>

-----------------------------------------------------------------------------
(* The evidence *)

\* Eight requests have to succeed on a stack that is clean before and after.
Recover(p) ==
    /\ pc[p] = "recover"
    /\ \/ Clean /\ Go(p, "check")
       \/ Go(p, "failed")
    /\ UNCHANGED <<kind, lease, lapsed, postgres, raised, output>>

\* A pilot whose evidence does not show the effect keeps it in a root of its
\* own, or nothing.
CheckEvidence(p) ==
    /\ pc[p] = "check"
    /\ \/ Go(p, "create") /\ UNCHANGED output
       \/ /\ Go(p, "failed")
          /\ \E o \in {"none", "rejected"} : output' = [output EXCEPT ![p] = o]
    /\ UNCHANGED <<kind, lease, lapsed, postgres, raised>>

\* mkdir(exist_ok=False); the identifier of the run is new.
CreateOutput(p) ==
    /\ pc[p] = "create"
    /\ output' = [output EXCEPT ![p] = "partial"]
    /\ Go(p, "write")
    /\ UNCHANGED <<kind, lease, lapsed, postgres, raised>>

\* Exclusive writes, the manifest last; an error leaves what is there.
WriteOutput(p) ==
    /\ pc[p] = "write"
    /\ \/ Go(p, "done") /\ output' = [output EXCEPT ![p] = "whole"]
       \/ Go(p, "failed") /\ UNCHANGED output
    /\ UNCHANGED <<kind, lease, lapsed, postgres, raised>>

Kill(p) ==
    /\ Runs(p)
    /\ Go(p, "dead")
    /\ UNCHANGED <<kind, lease, lapsed, postgres, raised, output>>

PilotStep(p) ==
    \/ Preflight(p) \/ Acquire(p) \/ StopPostgres(p) \/ SendTraffic(p) \/ Expire(p)
    \/ RestorePostgres(p) \/ Release(p) \/ AwaitClean(p) \/ Recover(p)
    \/ CheckEvidence(p) \/ CreateOutput(p) \/ WriteOutput(p) \/ Kill(p)
=============================================================================
