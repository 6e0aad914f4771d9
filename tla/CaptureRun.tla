------------------------------ MODULE CaptureRun ------------------------------
(***************************************************************************)
(* The programs that gather version 2's evidence: pilots, captures of      *)
(* training runs into numbered slots, captures of sealed unknowns and the  *)
(* acceptance run, on the primary stack or on the isolated one.            *)
(*                                                                         *)
(* A program is a sequence of steps, an operation on shared state or a     *)
(* look at it each.  A step that raises jumps to the finally clauses it    *)
(* is inside of ("restore", "release", "close") and out.  What was         *)
(* captured is audited, assembled, trained on and scored by processes of   *)
(* their own.                                                              *)
(*                                                                         *)
(* The calls on a lease file are single steps here, as in PilotRun.        *)
(***************************************************************************)
EXTENDS Naturals, Sequences

CONSTANTS
    Captures,   \* processes that run one program each
    Nobody,     \* a file or directory is absent
    Stranger,   \* whoever else uses the stacks: demos, runs, supervisors
    Slots,      \* directories of training captures
    Jobs        \* who runs what, chosen at the start

Stacks == {"primary", "isolated"}

VARIABLES
    job,        \* the job of this behaviour
    at,         \* at[c]: the step c takes next
    fate,       \* fate[c]: "running" or how c ended
    raised,     \* raised[c]: what the exception on its way out of c is about
    output,     \* output[c]: what c has written of its evidence
    holder,     \* holder[s]: whom active_fault.json of stack s belongs to
    lapsed,     \* those whose lease is past its expiry
    spoiled,    \* captures whose lease was taken over while they observed
    postgres,   \* postgres[s] is "up" or "down"
    reserved,   \* who made v2-training-active
    supervised, \* a diagnostic supervisor holds its lock
    begun,      \* begun[n]: the capture that made the directory of slot n
    watching,   \* who made the observer's active.lock
    visits,     \* what strangers may still do
    admission,  \* admission[c]: the files of the audit of c
    product     \* the assembled data set, the model, its receipt and score

processVars == <<job, at, fate, raised, output>>
stackVars   == <<holder, lapsed, spoiled, postgres>>
lockVars    == <<reserved, supervised, begun, watching>>
vars == <<processVars, stackVars, lockVars, visits, admission, product>>

-----------------------------------------------------------------------------
(* Programs: diagnostic pilots *)

HealthyPilot    == <<"clean", "traffic", "check", "clean", "create", "write">>
RateCalibration == <<"clean", "traffic", "check", "clean", "create", "write">>

ErrorPilot == <<"clean", "acquire", "own", "traffic", "release",
                "clean", "recover", "check", "create", "write">>
TimeoutPilot == ErrorPilot
AuthPilot    == ErrorPilot
ServicePilot == ErrorPilot

\* Mutant: recovery traffic is sent without waiting for the stack.
HastyPilot    == <<"clean", "acquire", "traffic", "release",
                   "recover", "judge", "create", "write">>
ResourcePilot == <<"clean", "acquire", "traffic", "release",
                   "settle", "recover", "judge", "create", "write">>

HighLoadPilot == ResourcePilot
OutagePilot == <<"clean", "acquire", "stop", "traffic", "restore", "release",
                 "settle", "recover", "judge", "create", "write">>

-----------------------------------------------------------------------------
(* Programs: captures *)

NormalCapture == <<"free", "unlocked", "clean", "lock", "slot",
                   "clean", "traffic", "clean", "check", "write", "unlock">>
DownstreamCapture == <<"free", "unlocked", "clean", "lock", "slot",
                       "clean", "acquire", "own", "traffic", "release",
                       "clean", "recover", "check", "write", "unlock">>

\* Mutant: the reservation is given up before the evidence is written.
EarlyUnlock == <<"unlocked", "clean", "vacant", "lock", "slot", "clean", "acquire",
                 "own", "traffic", "release", "settle", "recover", "check",
                 "unlock", "write">>
TimeoutCapture == <<"unlocked", "clean", "vacant", "lock", "slot", "clean", "acquire",
                    "own", "traffic", "release", "settle", "recover", "check",
                    "write", "unlock">>
ResourceCapture == <<"unlocked", "clean", "vacant", "lock", "slot", "clean", "acquire",
                     "traffic", "release", "settle", "recover", "check",
                     "write", "unlock">>
AuthCapture == <<"unlocked", "clean", "vacant", "lock", "slot", "clean", "acquire",
                 "own", "traffic", "release", "clean", "recover", "check",
                 "write", "unlock">>

HighLoadCapture == ResourceCapture
OutageCapture == <<"unlocked", "clean", "inspect", "vacant", "lock", "slot", "inspect",
                   "acquire", "stop", "traffic", "restore", "release",
                   "settle", "recover", "check", "write", "unlock">>
HighLoadCalibration == <<"unlocked", "clean", "acquire", "traffic", "release",
                         "settle", "recover", "check">>

UnknownCapture == <<"idle", "intent", "baseline", "acquire", "traffic", "release",
                    "inspect", "recover", "check", "write">>
AcceptanceRun == <<"idle", "observe", "acquire", "traffic", "release", "await",
                   "quiet", "write", "close">>

Programs ==
    [ none |-> <<>>, healthyPilot |-> HealthyPilot, rateCalibration |-> RateCalibration,
      errorPilot |-> ErrorPilot, timeoutPilot |-> TimeoutPilot,
      authPilot |-> AuthPilot, servicePilot |-> ServicePilot,
      resourcePilot |-> ResourcePilot, highLoadPilot |-> HighLoadPilot,
      outagePilot |-> OutagePilot,
      normal |-> NormalCapture, downstream |-> DownstreamCapture,
      timeout |-> TimeoutCapture, resource |-> ResourceCapture,
      auth |-> AuthCapture, highLoad |-> HighLoadCapture,
      outage |-> OutageCapture, calibration |-> HighLoadCalibration,
      unknown |-> UnknownCapture, acceptance |-> AcceptanceRun ]

Program(c) == job.program[c]
Steps(c)   == Programs[Program(c)]
Step(c)    == Steps(c)[at[c]]
At(c, step) == fate[c] = "running" /\ Step(c) = step

StackOf(c) == IF Program(c) \in {"outage", "unknown", "acceptance"} THEN "isolated" ELSE "primary"
Sealed(c)  == c \in Captures /\ Program(c) = "unknown"
IsSlotted(c) == \E i \in DOMAIN Steps(c) : Steps(c)[i] = "slot"

Init ==
    /\ job \in Jobs
    /\ at = [c \in Captures |-> 1]
    /\ fate = [c \in Captures |-> IF Steps(c) = <<>> THEN "done" ELSE "running"]
    /\ raised = [c \in Captures |-> "nothing"]
    /\ output = [c \in Captures |-> "none"]
    /\ holder = [s \in Stacks |-> Nobody] /\ lapsed = {} /\ spoiled = {}
    /\ postgres = [s \in Stacks |-> "up"]
    /\ reserved = Nobody /\ supervised = FALSE /\ watching = Nobody
    /\ begun = [n \in Slots |-> Nobody]
    /\ visits = job.visits
    /\ admission = [c \in Captures |-> "none"]
    /\ product = LET made == IF job.trained THEN "whole" ELSE "none"
                 IN [data |-> made, model |-> made, receipt |-> "none", score |-> "none"]

-----------------------------------------------------------------------------
(* How a step ends *)

\* Mutant: PostgreSQL is not restored in a finally clause.
ReleaseOnly == {<<"acquire", "release">>, <<"observe", "close">>}
Undoes == {<<"stop", "restore">>, <<"acquire", "release">>, <<"observe", "close">>}

\* The next finally clause that c is inside of at its step; a "stop" that
\* raises is inside of the one that restores.
Pending(c) ==
    {i \in at[c] + 1 .. Len(Steps(c)) :
       \E k \in 1 .. at[c] : /\ <<Steps(c)[k], Steps(c)[i]>> \in Undoes
                             /\ k < at[c] \/ Step(c) = "stop"}
First(I) == CHOOSE i \in I : \A j \in I : i <= j

Ends(c, how) == fate' = [fate EXCEPT ![c] = how] /\ UNCHANGED at

Unwinds(c) ==
    IF Pending(c) = {}
    THEN Ends(c, "failed")
    ELSE at' = [at EXCEPT ![c] = First(Pending(c))] /\ UNCHANGED fate

Breaks(c, about) ==
    /\ Unwinds(c)
    /\ raised' = IF Pending(c) = {} THEN raised ELSE [raised EXCEPT ![c] = about]

Passes(c) ==
    /\ UNCHANGED raised
    /\ IF raised[c] # "nothing"     THEN Unwinds(c)
       ELSE IF at[c] = Len(Steps(c)) THEN Ends(c, "done")
       ELSE at' = [at EXCEPT ![c] = @ + 1] /\ UNCHANGED fate

-----------------------------------------------------------------------------
(* Looks at shared state *)

SlotFree(c) == begun[job.slot[c]] = Nobody
Unlocked    == reserved = Nobody /\ ~supervised
Clean       == holder["primary"] = Nobody /\ postgres["primary"] = "up"
Healthy     == \A s \in Stacks : postgres[s] = "up"
Idle        == Healthy /\ (\A s \in Stacks : holder[s] = Nobody) /\ product.model = "whole"

\* The lease is another's, or one's own and expired: it is not active.
Owns(c) == holder[StackOf(c)] = c /\ c \notin lapsed
Quiet   == Healthy /\ (holder["isolated"] = Nobody \/ holder["isolated"] \in lapsed)

\* Polled until it holds, 35 or 60 times.
Settled(c)   == IF StackOf(c) = "primary" THEN Clean ELSE postgres["isolated"] = "up"
\* Eight requests succeeded, and the stack is as it should be after them.
Recovered(c) == IF StackOf(c) = "primary" THEN Clean ELSE Healthy

Finds(c, step) ==
    CASE step = "free" -> SlotFree(c)
      [] step = "unlocked"  -> Unlocked
      [] step = "vacant"    -> Unlocked /\ SlotFree(c)
      [] step = "clean"     -> Clean
      [] step = "inspect"   -> Healthy
      [] step = "idle"      -> Idle
      [] step = "own"       -> Owns(c)
      [] step = "settle"    -> Settled(c)
      [] step = "recover"   -> Recovered(c)
      [] step = "quiet"     -> Quiet
      [] OTHER              -> TRUE
Looks == {"free", "unlocked", "vacant", "clean", "inspect", "idle", "own", "settle",
          "recover", "quiet", "baseline", "check", "await"}

\* A container may be unhealthy, a request fail or evidence not suffice
\* whatever this model knows of.
Look(c) ==
    /\ fate[c] = "running" /\ Step(c) \in Looks
    /\ \/ Finds(c, Step(c)) /\ Passes(c)
       \/ Breaks(c, "traffic")
    /\ UNCHANGED <<job, output, stackVars, lockVars, visits, admission, product>>

-----------------------------------------------------------------------------
(* Reservation and slot *)

\* LOCK.mkdir(exist_ok=False) and owner.json
Reserve(c) ==
    /\ At(c, "lock")
    /\ IF reserved = Nobody
       THEN reserved' = c /\ (Passes(c) \/ Breaks(c, "traffic"))
       ELSE Breaks(c, "traffic") /\ UNCHANGED reserved
    /\ UNCHANGED <<job, output, stackVars, supervised, begun, watching, visits, admission, product>>

\* The directory and intent.json; another capture may have made it since
\* c looked, and the reservation stays all the same.
OpenSlot(c) ==
    /\ At(c, "slot")
    /\ IF SlotFree(c)
       THEN /\ begun' = [begun EXCEPT ![job.slot[c]] = c]
            /\ output' = [output EXCEPT ![c] = "partial"]
            /\ Passes(c) \/ Breaks(c, "traffic")
       ELSE Breaks(c, "traffic") /\ UNCHANGED <<begun, output>>
    /\ UNCHANGED <<job, stackVars, reserved, supervised, watching, visits, admission, product>>

Unlock(c) ==
    /\ At(c, "unlock")
    /\ reserved = c
    /\ reserved' = Nobody
    /\ Passes(c)
    /\ UNCHANGED <<job, output, stackVars, supervised, begun, watching, visits, admission, product>>

-----------------------------------------------------------------------------
(* The observation *)

\* A capture that has the lease and whose traffic has not ended.
Observing(c) ==
    /\ c \in Captures /\ fate[c] = "running"
    /\ \E i \in at[c] .. Len(Steps(c)) : Steps(c)[i] = "traffic"

\* An expired lease is taken over, but not a sealed one, and the sealed
\* store takes over none.
Obtainable(s, taker) ==
    \/ holder[s] = Nobody
    \/ holder[s] \in lapsed /\ ~Sealed(holder[s]) /\ ~Sealed(taker)
Obtains(s, taker) ==
    /\ holder' = [holder EXCEPT ![s] = taker]
    /\ spoiled' = IF Observing(holder[s]) THEN spoiled \cup {holder[s]} ELSE spoiled

Acquire(c) ==
    /\ At(c, "acquire")
    /\ IF Obtainable(StackOf(c), c)
       THEN Obtains(StackOf(c), c) /\ Passes(c)
       ELSE Breaks(c, "traffic") /\ UNCHANGED <<holder, spoiled>>
    /\ UNCHANGED <<job, output, lapsed, postgres, lockVars, visits, admission, product>>

\* Whether or not Docker did it, and whether or not it can be verified.
StopPostgres(c) ==
    /\ At(c, "stop")
    /\ LET s == StackOf(c)
       IN \/ postgres' = [postgres EXCEPT ![s] = "down"] /\ (Passes(c) \/ Breaks(c, "traffic"))
          \/ UNCHANGED postgres /\ Breaks(c, "traffic")
    /\ UNCHANGED <<job, output, holder, lapsed, spoiled, lockVars, visits, admission, product>>

\* Mutant: when the traffic ended is not compared with the lease's expiry.
AnyTime(c) == TRUE
InTime(c) == c \notin lapsed

\* Only the acceptance run does not look at its lease afterwards.
SendTraffic(c) ==
    /\ At(c, "traffic")
    /\ \/ InTime(c) /\ Passes(c)
       \/ Program(c) = "acceptance" /\ Passes(c)
       \/ Breaks(c, "traffic")
    /\ UNCHANGED <<job, output, stackVars, lockVars, visits, admission, product>>

RestorePostgres(c) ==
    /\ At(c, "restore")
    /\ \/ postgres' = [postgres EXCEPT ![StackOf(c)] = "up"] /\ Passes(c)
       \/ UNCHANGED postgres /\ Breaks(c, "docker")
    /\ UNCHANGED <<job, output, holder, lapsed, spoiled, lockVars, visits, admission, product>>

\* A lease that someone else has by now is not released.
Release(c) ==
    /\ At(c, "release")
    /\ LET s == StackOf(c)
       IN /\ holder' = [holder EXCEPT ![s] = IF @ = c THEN Nobody ELSE @]
          /\ IF holder[s] \in {c, Nobody} THEN Passes(c) ELSE Breaks(c, "traffic")
    /\ UNCHANGED <<job, output, lapsed, spoiled, postgres, lockVars, visits, admission, product>>

\* The observer's lock is made create-only, and removed only if everything
\* observed was posted.
Observe(c) ==
    /\ At(c, "observe")
    /\ IF watching = Nobody
       THEN watching' = c /\ Passes(c)
       ELSE Breaks(c, "traffic") /\ UNCHANGED watching
    /\ UNCHANGED <<job, output, stackVars, reserved, supervised, begun, visits, admission, product>>

Close(c) ==
    /\ At(c, "close")
    /\ watching' \in {Nobody, watching}
    /\ Passes(c)
    /\ UNCHANGED <<job, output, stackVars, reserved, supervised, begun, visits, admission, product>>

-----------------------------------------------------------------------------
(* The evidence *)

\* A pilot whose evidence does not show the effect keeps it in a root of its
\* own, or nothing.
Judge(c) ==
    /\ At(c, "judge")
    /\ \/ Passes(c) /\ UNCHANGED output
       \/ /\ Breaks(c, "traffic")
          /\ \E o \in {"none", "rejected"} : output' = [output EXCEPT ![c] = o]
    /\ UNCHANGED <<job, stackVars, lockVars, visits, admission, product>>

\* A directory of its own under a new identifier, or an intent file.
Create(c) ==
    /\ At(c, "create") \/ At(c, "intent")
    /\ output' = [output EXCEPT ![c] = "partial"]
    /\ Passes(c)
    /\ UNCHANGED <<job, stackVars, lockVars, visits, admission, product>>

\* Create-only files, the manifest last; an error leaves what is there.
Write(c) ==
    /\ At(c, "write")
    /\ \/ output' = [output EXCEPT ![c] = "whole"] /\ Passes(c)
       \/ UNCHANGED output /\ Breaks(c, "traffic")
    /\ UNCHANGED <<job, stackVars, lockVars, visits, admission, product>>

Kill(c) ==
    /\ fate[c] = "running" /\ at[c] > 1
    /\ Ends(c, "dead")
    /\ UNCHANGED <<job, raised, output, stackVars, lockVars, visits, admission, product>>

CaptureStep(c) ==
    \/ Look(c) \/ Reserve(c) \/ OpenSlot(c) \/ Unlock(c) \/ Acquire(c) \/ StopPostgres(c)
    \/ SendTraffic(c) \/ RestorePostgres(c) \/ Release(c) \/ Observe(c) \/ Close(c)
    \/ Judge(c) \/ Create(c) \/ Write(c) \/ Kill(c)

-----------------------------------------------------------------------------
(* Everyone else *)

Expire(s) ==
    /\ holder[s] \notin lapsed \cup {Nobody}
    /\ lapsed' = lapsed \cup {holder[s]}
    /\ UNCHANGED <<processVars, holder, spoiled, postgres, lockVars, visits, admission, product>>

\* A demo session, a run of version 1 or a supervisor's pilot.
TakeLease(s) ==
    /\ visits > 0 /\ visits' = visits - 1
    /\ Obtainable(s, Stranger)
    /\ Obtains(s, Stranger)
    /\ lapsed' = lapsed \ {Stranger}
    /\ UNCHANGED <<processVars, postgres, lockVars, admission, product>>

GiveBack(s) ==
    /\ holder[s] = Stranger
    /\ holder' = [holder EXCEPT ![s] = Nobody]
    /\ UNCHANGED <<processVars, lapsed, spoiled, postgres, lockVars, visits, admission, product>>

\* The supervisor of the pilots does not look at v2-training-active.
Supervise ==
    /\ IF supervised THEN UNCHANGED visits ELSE visits > 0 /\ visits' = visits - 1
    /\ supervised' = ~supervised
    /\ UNCHANGED <<processVars, stackVars, reserved, begun, watching, admission, product>>

StrangerStep ==
    \/ \E s \in Stacks : Expire(s) \/ TakeLease(s) \/ GiveBack(s)
    \/ Supervise

-----------------------------------------------------------------------------
(* What becomes of a capture *)

\* The audit recomputes window, gates and features from the artifacts the
\* manifest names; it may refuse.  It writes independent_audit.json and then
\* admission_receipt.json, both create-only: an audit that was cut off
\* between the two cannot be repeated.
Audit(c) ==
    /\ IsSlotted(c) /\ output[c] = "whole" /\ admission[c] = "none"
    /\ admission' = [admission EXCEPT ![c] = "audited"]
    /\ UNCHANGED <<processVars, stackVars, lockVars, visits, product>>

Admit(c) ==
    /\ admission[c] = "audited"
    /\ admission' = [admission EXCEPT ![c] = "admitted"]
    /\ UNCHANGED <<processVars, stackVars, lockVars, visits, product>>

\* Mutant: a capture that was audited counts, receipt or not.
HasAudit(n)   == begun[n] # Nobody /\ admission[begun[n]] \in {"audited", "admitted"}
HasReceipt(n) == begun[n] # Nobody /\ admission[begun[n]] = "admitted"

\* A directory of its own, and what goes into it; nothing is ever replaced.
Makes(what, next) == product' = [product EXCEPT ![what] = next]
Starts(what)   == product[what] = "none" /\ Makes(what, "partial")
Finishes(what) == product[what] = "partial" /\ Makes(what, "whole")

\* All slots have to be admitted.
Assemble ==
    /\ \A n \in Slots : HasReceipt(n)
    /\ Starts("data")

\* Candidate 04, from the assembled data set.
Train == product.data = "whole" /\ Starts("model")

\* The prediction for a sealed unknown, by the frozen model, from what the
\* capture's manifest names.
Predict(c) ==
    /\ Program(c) = "unknown" /\ output[c] = "whole"
    /\ product.model = "whole"
    /\ Starts("receipt")

\* The truth is read once the prediction is on file.
Reveal == product.receipt = "whole" /\ Starts("score")

Produce ==
    /\ \/ Assemble \/ Train \/ Reveal
       \/ \E c \in Captures : Predict(c)
       \/ \E what \in {"data", "model", "receipt", "score"} : Finishes(what)
    /\ UNCHANGED <<processVars, stackVars, lockVars, visits, admission>>

Next ==
    \/ \E c \in Captures : CaptureStep(c) \/ Audit(c) \/ Admit(c)
    \/ StrangerStep
    \/ Produce

Spec == Init /\ [][Next]_vars

-----------------------------------------------------------------------------
(* Properties *)

\* An attempt at a slot that did not end with whole evidence blocks every
\* further capture until someone has looked at it: the reservation is still
\* the one of that attempt, whether it failed, was killed or is going on.
HalfDoneBlocks ==
    \A n \in Slots :
       begun[n] # Nobody /\ output[begun[n]] # "whole" => reserved = begun[n]

\* What is admitted, or scored, was observed from beginning to end under the
\* fault it is labelled with: nobody had taken the lease over by then.
ObservedUnderOwnFault ==
    \A c \in Captures :
       admission[c] # "none" \/ (Program(c) = "unknown" /\ output[c] = "whole") =>
         c \notin spoiled

\* A capture or pilot that was not killed leaves nothing of its fault behind,
\* on any path: it has given up the lease, and PostgreSQL is down only while
\* the program has still to restore it, or was killed, or Docker could not.
CapturesCleanUp ==
    /\ \A c \in Captures, s \in Stacks : fate[c] \in {"done", "failed"} => holder[s] # c
    /\ \A s \in Stacks : postgres[s] = "down" =>
         \E c \in Captures :
            /\ StackOf(c) = s
            /\ \E i \in DOMAIN Steps(c) : Steps(c)[i] = "restore"
            /\ \/ fate[c] = "running" /\ \E i \in at[c] .. Len(Steps(c)) : Steps(c)[i] = "restore"
               \/ fate[c] = "dead" \/ raised[c] = "docker"

\* A score rests on a prediction that was on file before, this on a whole
\* capture and the frozen model, and the model on a data set for which every
\* slot's evidence was whole and had its receipt.
ScoreRestsOnReceipts ==
    /\ product.score # "none" => product.receipt = "whole"
    /\ product.receipt # "none" =>
         /\ product.model = "whole"
         /\ \E c \in Captures : Program(c) = "unknown" /\ output[c] = "whole"
    /\ product.data # "none" /\ ~job.trained =>
         \A n \in Slots : /\ begun[n] # Nobody
                          /\ output[begun[n]] = "whole" /\ admission[begun[n]] = "admitted"

-----------------------------------------------------------------------------
(* Every pilot is a PilotRun *)

PilotPrograms == {"none", "healthyPilot", "rateCalibration", "errorPilot", "timeoutPilot", "authPilot",
           "servicePilot", "resourcePilot", "highLoadPilot", "outagePilot"}
OnlyPilots == /\ \A c \in Captures : Program(c) \in PilotPrograms
              /\ job.visits = 0

KindOf(c) == CASE Program(c) \in {"healthyPilot", "rateCalibration"} -> "healthy"
               [] Program(c) = "outagePilot" -> "outage"
               [] OTHER -> "fault"

\* Where PilotRun has a pilot of this kind, after its first look.  Looking at
\* the evidence comes before the last look at the stack in a healthy pilot,
\* and after it in the others.
Phase(pilot, step) ==
    CASE step = "acquire" -> "ready"
      [] step = "own"     -> "traffic"
      [] step \in {"clean", "settle"} -> "clear"
      [] step \in {"check", "judge"}  -> IF pilot = "healthy" THEN "clear" ELSE "check"
      [] OTHER -> step
Abstractly(c) ==
    IF fate[c] # "running" THEN fate[c]
    ELSE IF at[c] = 1      THEN "start"
    ELSE Phase(KindOf(c), Step(c))

Abstract == INSTANCE PilotRun WITH
    Pilots <- Captures, NoPilot <- Nobody,
    Assignments <- [Captures -> {"healthy", "fault", "outage"}],
    kind <- [c \in Captures |-> KindOf(c)],
    pc <- [c \in Captures |-> Abstractly(c)],
    lease <- holder["primary"],
    postgres <- postgres["primary"]

PilotRunStep ==
    OnlyPilots => \/ \E c \in Captures : Abstract!PilotStep(c)
                  \/ UNCHANGED Abstract!pilotVars

\* The nine programs differ in what they look at and in which order; whatever
\* any of them does, next to others, is a step of the one PilotRun that the
\* collection controller is modelled with, or invisible to it.
PilotsImplement == [][PilotRunStep]_vars
=============================================================================
