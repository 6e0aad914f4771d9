------------------------ MODULE CollectionController ------------------------
(***************************************************************************)
(* The collection controller of phase 19C.2K: it runs one pilot as a child *)
(* process under an exclusive lock, keeps a journal of its attempt, and    *)
(* names the pilot in the journal once it has audited it.  Whatever goes   *)
(* wrong leaves lock and journal as they are.  Operators start several     *)
(* controllers, also with the same attempt identifier, kill them, and run  *)
(* pilots by hand.                                                         *)
(***************************************************************************)
EXTENDS PilotRun

CONSTANTS
    Controllers,  \* controller processes
    Attempts,     \* attempt identifiers
    AttemptOf,    \* AttemptOf[c]: the identifier controller c is given
    ChildOf       \* ChildOf[c]: the pilot that controller c runs

Children == {ChildOf[c] : c \in Controllers}

ASSUME ControllerAssumption ==
    /\ AttemptOf \in [Controllers -> Attempts]
    /\ ChildOf \in [Controllers -> Pilots]
    /\ \A c, d \in Controllers : ChildOf[c] = ChildOf[d] => c = d
    /\ NoPilot \notin Controllers

VARIABLES
    at,        \* at[c]: what controller c does next
    lock,      \* controller that made the lock directory, or NoPilot
    journal,   \* attempts that have a directory
    result,    \* result[a]: the pilot result.json names, or NoPilot
    before     \* before[c]: the pilots of its family c saw before it began

controllerVars == <<at, lock, journal, result, before>>

ControllerSteps == {"new", "list", "reserve", "journal", "run", "wait", "record",
                    "unlock", "done", "failed", "dead"}

ControllerInit ==
    /\ at = [c \in Controllers |-> "new"]
    /\ lock = NoPilot /\ journal = {}
    /\ result = [a \in Attempts |-> NoPilot]
    /\ before = [c \in Controllers |-> {}]

Turn(c, step) == at' = [at EXCEPT ![c] = step]

\* existing_pilots: the directories in the output root of c's family.
Listed(c) == {p \in Pilots : kind[p] = kind[ChildOf[c]] /\ output[p] \in {"partial", "whole"}}

-----------------------------------------------------------------------------
(* run_diagnostic *)

\* Three checks before anything is reserved; a controller that is refused
\* has left nothing behind.
CheckAttempt(c) ==
    /\ at[c] = "new"
    /\ \/ /\ AttemptOf[c] \notin journal /\ lock = NoPilot /\ Clean
          /\ Turn(c, "list")
       \/ Turn(c, "failed")
    /\ UNCHANGED <<lock, journal, result, before>>

ListPilots(c) ==
    /\ at[c] = "list"
    /\ before' = [before EXCEPT ![c] = Listed(c)]
    /\ Turn(c, "reserve")
    /\ UNCHANGED <<lock, journal, result>>

\* mkdir(exist_ok=False)
Reserve(c) ==
    /\ at[c] = "reserve"
    /\ IF lock = NoPilot
       THEN lock' = c /\ Turn(c, "journal")
       ELSE Turn(c, "failed") /\ UNCHANGED lock
    /\ UNCHANGED <<journal, result, before>>

\* owner.json, the attempt's directory, which another controller may have
\* made since the check, and intent.json.
WriteIntent(c) ==
    /\ at[c] = "journal"
    /\ IF AttemptOf[c] \in journal
       THEN Turn(c, "failed") /\ UNCHANGED journal
       ELSE /\ journal' = journal \cup {AttemptOf[c]}
            /\ \E step \in {"run", "failed"} : Turn(c, step)
    /\ UNCHANGED <<lock, result, before>>

RunChild(c) ==
    /\ at[c] = "run"
    /\ Launch(ChildOf[c])
    /\ Turn(c, "wait")
    /\ UNCHANGED <<lock, journal, result, before>>

\* Exactly one new directory, and none that vanished.
OneNew(c, p) == Listed(c) \ before[c] = {p} /\ before[c] \subseteq Listed(c)

\* Exit code, stack, listing and audit; the audit accepts a whole pilot only,
\* and not every one.
Audit(c) ==
    /\ at[c] = "wait"
    /\ \/ /\ pc[ChildOf[c]] = "done" /\ Clean
          /\ \E p \in Listed(c) :
               /\ OneNew(c, p) /\ output[p] = "whole"
               /\ result' = [result EXCEPT ![AttemptOf[c]] = p]
          /\ Turn(c, "unlock")
       \/ pc[ChildOf[c]] \in Exited /\ Turn(c, "failed") /\ UNCHANGED result
    /\ UNCHANGED <<lock, journal, before>>

\* owner.json is unlinked, then the lock's directory is removed.
Unlock(c) ==
    /\ at[c] = "unlock"
    /\ lock' = NoPilot
    /\ Turn(c, "done")
    /\ UNCHANGED <<journal, result, before>>

\* The controller process is gone; its child goes on.  Mutant: whatever
\* ends a controller takes its lock along.
LosesLock(c) == lock = c
KeepsLock(c) == FALSE

KillController(c) ==
    /\ at[c] \notin Exited
    /\ Turn(c, "dead")
    /\ lock' = IF KeepsLock(c) THEN NoPilot ELSE lock
    /\ UNCHANGED <<journal, result, before>>

ControllerStep(c) ==
    \/ RunChild(c)
    \/ /\ \/ CheckAttempt(c) \/ ListPilots(c) \/ Reserve(c) \/ WriteIntent(c)
          \/ Audit(c) \/ Unlock(c) \/ KillController(c)
       /\ UNCHANGED pilotVars
=============================================================================
