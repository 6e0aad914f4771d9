--------------------------- MODULE FaultResources ---------------------------
(***************************************************************************)
(* The database resources that a pool-exhaustion or lock-contention fault  *)
(* holds in a service: the first request that meets the fault reserves     *)
(* them, and a background task gives them back when the lease that         *)
(* justified them ends.  The lease itself is FaultLease.                   *)
(***************************************************************************)
EXTENDS FaultLease

VARIABLES
    met,   \* activations that a request met and is about to hold resources for
    held   \* activation the resources of the service are held for, 0 for none

resVars == <<vars, met, held>>

-----------------------------------------------------------------------------
\* active_fault in a request of the run: the lease is live and complete, and
\* no sealed fault is of the kinds that hold resources.
Meet ==
    /\ ~NoActivation /\ ~HasExpired /\ ~IsSealed
    /\ met' = met \cup {content}
    /\ UNCHANGED <<vars, held>>

\* The request has the startup lock: it reserves the resources and registers
\* them, unless the service holds some already or the database refuses.
Hold(i) ==
    /\ i \in met
    /\ met' = met \ {i}
    /\ \/ held = 0 /\ held' = i
       \/ UNCHANGED held
    /\ UNCHANGED vars

\* The lease of activation i is over: expired, cleared or replaced.
\* Mutant: expired.
ExpiredOnly(i) == i \in expired
Over(i) == i \in expired \/ content # i

\* The holder task polls the control file, closes the connections and removes
\* its own registration.
GiveBack ==
    /\ held # 0
    /\ Over(held)
    /\ held' = 0
    /\ UNCHANGED <<vars, met>>

\* The service restarts: its connections close.
Restart ==
    /\ met' = {} /\ held' = 0
    /\ UNCHANGED vars

ResInit == Init /\ met = {} /\ held = 0

ResNext ==
    \/ Next /\ UNCHANGED <<met, held>>
    \/ Meet
    \/ \E i \in 1..MaxActivations : Hold(i)
    \/ GiveBack
    \/ Restart

\* The programs and leases of FaultLease are fair, and the service runs on.
ResFairness ==
    /\ Fairness
    /\ WF_resVars(GiveBack)
    /\ \A i \in 1..MaxActivations : WF_resVars(Hold(i))

ResSpec == ResInit /\ [][ResNext]_resVars /\ ResFairness

-----------------------------------------------------------------------------
\* The resources of a service are given back once their lease was cleared,
\* replaced or expired, and a request that met the fault in the last moment
\* does not keep them for a lease that is over.
ResourcesAreGivenBack ==
    \A i \in 1..MaxActivations :
      (held = i \/ i \in met) /\ content # i ~> held # i /\ i \notin met
=============================================================================
