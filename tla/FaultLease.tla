----------------------------- MODULE FaultLease -----------------------------
(***************************************************************************)
(* The lease on fault injection: the file active_fault.json, which every   *)
(* program that injects a fault creates, reads, replaces and unlinks with  *)
(* file-system calls of its own, and the Compose services a fault stops.   *)
(* Each call is one step.                                                  *)
(*                                                                         *)
(* A client is one program after another, run by the same operator: it     *)
(* takes the lease, works, and cleans up.  An activation is a number; the  *)
(* activation of a client is the last one it created.                      *)
(***************************************************************************)
EXTENDS Naturals

CONSTANTS
    Gated,          \* known-fault runs under a FaultLease (probe)
    Plain,          \* known-fault runs that release on their own (executors)
    Sealed,         \* sealed-unknown runs under a SealedUnknownLease
    Demo,           \* demo sessions of the gateway
    MaxActivations  \* bound: activations created

Known   == Gated \cup Plain
Stores  == Known \cup Sealed
Clients == Stores \cup Demo

ASSUME KindAssumption ==
    /\ Gated \cap Plain = {} /\ Known \cap Sealed = {} /\ Stores \cap Demo = {}

ASSUME BoundAssumption == MaxActivations \in Nat

VARIABLES
    file,     \* activation that created active_fault.json, 0 if it is absent
    content,  \* activation the file tells of, 0 while it is absent or empty
    issued,   \* activations created so far
    expired,  \* activations whose expires_at has passed
    pc,       \* pc[c]: what client c does next
    mine,     \* mine[c]: activation of client c, 0 before its first
    seen,     \* seen[c]: expired activation client c is about to reclaim, or 0
    stopped   \* activations whose Compose service is stopped

vars == <<file, content, issued, expired, pc, mine, seen, stopped>>

Steps == {"idle", "open", "inspect", "reclaim", "remove", "write", "activate",
          "work", "verify", "release", "unlink", "rerelease",
          "purge", "check", "replace", "drop", "dead"}

-----------------------------------------------------------------------------
Goto(c, step) == pc' = [pc EXCEPT ![c] = step]

Absent     == file = 0
Owned(c)   == file # 0 /\ file = mine[c]
IsSealed   == \E c \in Sealed : content = mine[c]
HasExpired == content \in expired

\* unlink(missing_ok=True): whatever file is there goes.
RemoveFile == file' = 0 /\ content' = 0

\* The client's new activation.
Create(c) ==
    /\ issued < MaxActivations
    /\ issued' = issued + 1
    /\ mine' = [mine EXCEPT ![c] = issued + 1]
    /\ file' = issued + 1

-----------------------------------------------------------------------------
(* acquire *)

\* os.open(..., O_CREAT | O_EXCL) creates the file empty.
\* Mutant: without O_EXCL.
MayCreateAnyway == TRUE
MayCreate == Absent

Open(c) ==
    /\ pc[c] \in {"idle", "open"}
    /\ MayCreate
    /\ Create(c)
    /\ content' = 0
    /\ Goto(c, "write")
    /\ UNCHANGED <<expired, seen, stopped>>

\* FileExistsError: a sealed run gives up, a known one looks at the file.
OpenFails(c) ==
    /\ pc[c] \in {"idle", "open"}
    /\ ~Absent
    /\ Goto(c, IF c \in Sealed THEN "idle" ELSE "inspect")
    /\ UNCHANGED <<file, content, issued, expired, mine, seen, stopped>>

\* What active() finds: nothing any more, an expired known activation, or a
\* reason to raise (an empty file, a sealed run, a live activation).
\* Mutant: an expired activation is a reason to raise, too.
NeverReclaimable == FALSE
Reclaimable == content # 0 /\ ~IsSealed /\ HasExpired

Inspect(c) ==
    /\ pc[c] = "inspect"
    /\ \/ Absent /\ Goto(c, "open") /\ UNCHANGED seen
       \/ /\ ~Absent /\ Reclaimable
          /\ seen' = [seen EXCEPT ![c] = content]
          /\ Goto(c, "reclaim")
       \/ /\ ~Absent /\ ~Reclaimable
          /\ Goto(c, "idle")
          /\ UNCHANGED seen
    /\ UNCHANGED <<file, content, issued, expired, mine, stopped>>

\* release(seen) reads the file a second time: gone, still the expired
\* activation, or another one (it raises).
Reclaim(c) ==
    /\ pc[c] = "reclaim"
    /\ Goto(c, IF Absent THEN "open"
               ELSE IF content = seen[c] THEN "remove" ELSE "idle")
    /\ seen' = [seen EXCEPT ![c] = 0]
    /\ UNCHANGED <<file, content, issued, expired, mine, stopped>>

\* ... and unlinks by name, then acquire starts again.
Remove(c) ==
    /\ pc[c] = "remove"
    /\ RemoveFile
    /\ Goto(c, "open")
    /\ UNCHANGED <<issued, expired, mine, seen, stopped>>

\* The content goes to the file the client created, which may have lost its
\* name meanwhile.  Mutant: it goes to whatever has the name.
AnyFile(c) == TRUE
StillNamed(c) == Owned(c)

Write(c) ==
    /\ pc[c] = "write"
    /\ content' = IF StillNamed(c) THEN mine[c] ELSE content
    /\ Goto(c, IF c \in Sealed THEN "work" ELSE "activate")
    /\ UNCHANGED <<file, issued, expired, mine, seen, stopped>>

-----------------------------------------------------------------------------
(* The run under the lease *)

\* activate_infrastructure_fault: an unavailability fault stops a service,
\* another one does nothing.  When it raises, FaultLease.__enter__ releases;
\* a plain run goes through its finally clause.
Activate(c) ==
    /\ pc[c] = "activate"
    /\ \E s \in SUBSET {mine[c]} : stopped' = stopped \cup s
    /\ \/ Goto(c, "work")
       \/ c \in Gated /\ Goto(c, "release")
    /\ UNCHANGED <<file, content, issued, expired, mine, seen>>

\* Only FaultLease verifies the recovery before it releases.
VerifiesFirst(c) == c \in Gated

\* The known run is over, with or without an error: deactivate starts the
\* service again.
Deactivate(c) ==
    /\ c \in Known
    /\ pc[c] = "work"
    /\ stopped' = stopped \ {mine[c]}
    /\ Goto(c, IF VerifiesFirst(c) THEN "verify" ELSE "release")
    /\ UNCHANGED <<file, content, issued, expired, mine, seen>>

\* docker compose fails: FaultLease skips the verification and releases, a
\* plain run ends in its finally clause.
AfterFailure(c) == IF c \in Gated THEN "release" ELSE "idle"

DeactivateFails(c) ==
    /\ c \in Known
    /\ pc[c] = "work"
    /\ Goto(c, AfterFailure(c))
    /\ UNCHANGED <<file, content, issued, expired, mine, seen, stopped>>

EndSealed(c) ==
    /\ c \in Sealed
    /\ pc[c] = "work"
    /\ Goto(c, "release")
    /\ UNCHANGED <<file, content, issued, expired, mine, seen, stopped>>

\* verify_stack_recovery starts every service of the stack, or fails.
Verify(c) ==
    /\ pc[c] = "verify"
    /\ stopped' \in {{}, stopped}
    /\ Goto(c, IF VerifiesFirst(c) THEN "release"
               ELSE IF c \in Sealed THEN "rerelease" ELSE "idle")
    /\ UNCHANGED <<file, content, issued, expired, mine, seen>>

-----------------------------------------------------------------------------
(* release *)

\* Where the run goes on when release returned.
Returned(c) == IF VerifiesFirst(c) THEN "idle" ELSE "verify"

\* release reads the file: it is the client's own, absent, or another's or
\* empty, and then release raises.
Release(c) ==
    /\ pc[c] = "release"
    /\ Goto(c, IF Absent THEN Returned(c)
               ELSE IF content = mine[c] THEN "unlink"
               ELSE IF c \in Sealed THEN "rerelease" ELSE "idle")
    /\ UNCHANGED <<file, content, issued, expired, mine, seen, stopped>>

Unlink(c) ==
    /\ pc[c] = "unlink"
    /\ RemoveFile
    /\ Goto(c, Returned(c))
    /\ UNCHANGED <<issued, expired, mine, seen, stopped>>

\* SealedUnknownLease.__exit__ releases again in its finally clause; by now
\* the client's own file is gone, so it returns or raises.
Rerelease(c) ==
    /\ pc[c] = "rerelease"
    /\ Goto(c, "idle")
    /\ UNCHANGED <<file, content, issued, expired, mine, seen, stopped>>

-----------------------------------------------------------------------------
(* DemoFaultControl: the gateway runs one of these calls at a time, in its *)
(* event loop, but other programs use the file meanwhile.                  *)

GatewayFree == \A c \in Demo : pc[c] \in {"idle", "dead"}

\* read() finds no file, or one without content.
NoActivation == content = 0

\* arm: nobody's activation, an expired one to purge, the session's own to
\* replace, or (it raises, and nothing changes) another's.
Arm(c) ==
    /\ GatewayFree /\ pc[c] = "idle"
    /\ \/ NoActivation /\ Goto(c, "check")
       \/ ~NoActivation /\ HasExpired /\ Goto(c, "purge")
       \/ ~NoActivation /\ ~HasExpired /\ content = mine[c] /\ Goto(c, "replace")
    /\ UNCHANGED <<file, content, issued, expired, mine, seen, stopped>>

Purge(c) ==
    /\ pc[c] = "purge"
    /\ RemoveFile
    /\ Goto(c, "check")
    /\ UNCHANGED <<issued, expired, mine, seen, stopped>>

\* path.exists(): a file by now makes arm raise.
Check(c) ==
    /\ pc[c] = "check"
    /\ Goto(c, IF Absent THEN "replace" ELSE "idle")
    /\ UNCHANGED <<file, content, issued, expired, mine, seen, stopped>>

\* os.replace puts a complete file in place of whatever is there.
Replace(c) ==
    /\ pc[c] = "replace"
    /\ Create(c)
    /\ content' = file'
    /\ Goto(c, "idle")
    /\ UNCHANGED <<expired, seen, stopped>>

\* clear finds the session's own activation, or it or require_owned finds an
\* expired one: the file is unlinked next.  Anything else they only read.
Drop(c) ==
    /\ GatewayFree /\ pc[c] = "idle"
    /\ ~NoActivation
    /\ HasExpired \/ content = mine[c]
    /\ Goto(c, "drop")
    /\ UNCHANGED <<file, content, issued, expired, mine, seen, stopped>>

Dropped(c) ==
    /\ pc[c] = "drop"
    /\ RemoveFile
    /\ Goto(c, "idle")
    /\ UNCHANGED <<issued, expired, mine, seen, stopped>>

-----------------------------------------------------------------------------
(* Time and crashes *)

\* The expiry of an activation that nobody can read any more is not followed.
Expire(i) ==
    /\ i = file \/ \E c \in Clients : i = mine[c]
    /\ i \notin expired
    /\ expired' = expired \cup {i}
    /\ UNCHANGED <<file, content, issued, pc, mine, seen, stopped>>

\* A program is killed: no finally clause runs, the file stays as it is.
Die(c) ==
    /\ c \in Stores
    /\ pc[c] \notin {"idle", "dead"}
    /\ Goto(c, "dead")
    /\ seen' = [seen EXCEPT ![c] = 0]
    /\ UNCHANGED <<file, content, issued, expired, mine, stopped>>

-----------------------------------------------------------------------------
Init ==
    /\ file = 0
    /\ content = 0
    /\ issued = 0
    /\ expired = {}
    /\ pc = [c \in Clients |-> "idle"]
    /\ mine = [c \in Clients |-> 0]
    /\ seen = [c \in Clients |-> 0]
    /\ stopped = {}

Acquire(c) ==
    /\ c \in Stores
    /\ Open(c) \/ OpenFails(c) \/ Inspect(c) \/ Reclaim(c) \/ Remove(c) \/ Write(c)

Run(c) == Activate(c) \/ Deactivate(c) \/ DeactivateFails(c) \/ EndSealed(c) \/ Verify(c)

Cleanup(c) == Release(c) \/ Unlink(c) \/ Rerelease(c)

Session(c) ==
    /\ c \in Demo
    /\ Arm(c) \/ Purge(c) \/ Check(c) \/ Replace(c) \/ Drop(c) \/ Dropped(c)

Step(c) == Acquire(c) \/ Run(c) \/ Cleanup(c) \/ Session(c)

Next ==
    \/ \E c \in Clients : Step(c) \/ Die(c)
    \/ \E i \in 1..MaxActivations : Expire(i)

Spec == Init /\ [][Next]_vars

\* Programs run on, operators start them again, and every lease expires.
Fairness ==
    /\ \A c \in Stores : WF_vars(Step(c))
    /\ \A i \in 1..MaxActivations : WF_vars(Expire(i))

FairSpec == Spec /\ Fairness

-----------------------------------------------------------------------------
(* Properties *)

TypeOK ==
    /\ issued \in Nat
    /\ file \in Nat /\ file <= issued
    /\ mine \in [Clients -> Nat] /\ \A c \in Clients : mine[c] <= issued
    /\ seen \in [Clients -> Nat]
    /\ expired \subseteq Nat /\ stopped \subseteq Nat
    /\ pc \in [Clients -> Steps]
    /\ content \in {0, file}

\* The client believes that its fault is the one that is active: from the
\* creation of the file until its own release removes it.
InForce(c) ==
    \/ pc[c] \in {"write", "activate", "work", "release", "unlink"}
    \/ c \in Gated /\ pc[c] = "verify"

\* No lease expired, and no demo session put a file of its own in place of
\* what was there.
Undisturbed == expired = {} /\ \A c \in Demo : mine[c] = 0

\* As long as no lease expired and no demo session armed, at most one run of
\* the stores has a fault in force, and the control file names it.
ExclusiveUntilExpiry ==
    Undisturbed =>
      \A c \in Stores : InForce(c) =>
        /\ Owned(c)
        /\ \A d \in Stores : InForce(d) => d = c

\* A run under either lease that ended, however it failed, left no file of its
\* own behind: whatever raised, the file was unlinked or had already gone.
EndedLeavesNoFile ==
    \A c \in Gated \cup Sealed : pc[c] \in {"idle", "open", "inspect"} => ~Owned(c)

\* The program was killed, or it ended and skipped its release.
Left(c) == Owned(c) /\ ~InForce(c)

\* A complete known lease whose program was killed, or failed so that nothing
\* released it, does not stay in the way: it expires, and another known run,
\* started again and again, removes it.
LeftLeaseIsReclaimed ==
    \A c, d \in Known :
      c # d /\ [](pc[d] # "dead") => (Left(c) /\ content = file ~> ~Left(c))

-----------------------------------------------------------------------------
(* Claims of the repository that the code does not keep *)

\* lifecycle.py: "Exclusive, process-safe lease for one controlled fault at a
\* time."  Two leases, neither expired, are in force.
LiveLeasesExclude ==
    \A c, d \in Stores :
      InForce(c) /\ InForce(d) /\ {mine[c], mine[d]} \cap expired = {} => c = d

\* docs/phase-4.md: "Recovery verification runs before the activation lease is
\* released."  So the check, which starts every service, finds none that the
\* fault of another run keeps stopped, whose lease is live.
RecoveryMeetsNoOtherFault ==
    Undisturbed =>
      \A c, d \in Stores :
        ~(pc[d] = "verify" /\ pc[c] = "work" /\ mine[c] \in stopped)
=============================================================================
