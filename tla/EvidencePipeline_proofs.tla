----------------------- MODULE EvidencePipeline_proofs -----------------------
(***************************************************************************)
(* What EvidencePipeline promises of captures, of the live observation, of *)
(* a program's evidence and of the plan's correction, for any number of    *)
(* processes, slots, jobs and requests.  The campaigns share no variable,  *)
(* so that each has an inductive invariant of its own.                     *)
(***************************************************************************)
EXTENDS EvidencePipeline, TLAPS, WellFoundedInduction, FiniteSetTheorems

-----------------------------------------------------------------------------
(* The programs *)

\* Steps that undo an earlier one, in finally clauses.
Undoing == {"restore", "release", "close"}

\* The reservation comes right before the slot and goes last, after the
\* evidence.
FilesInOrder(s) ==
    \A i \in 1 .. Len(s) :
       /\ s[i] = "slot" => i > 1 /\ s[i - 1] = "lock"
       /\ s[i] = "unlock" => i > 1 /\ s[i - 1] = "write"
       /\ s[i] \in {"unlock", "close"} => i = Len(s)
       /\ s[i] = "write" => i = Len(s) \/ s[i + 1] \in {"unlock", "close"}

\* The traffic is sent once, and what is taken is given back later.
TakesOnce(s) ==
    \A i \in 1 .. Len(s) :
       /\ s[i] \in {"traffic", "acquire"} => \A j \in i + 1 .. Len(s) : s[j] # s[i]
       /\ s[i] = "acquire" => \E j \in i + 1 .. Len(s) : s[j] = "release"
       /\ s[i] = "stop" => \E j \in i + 1 .. Len(s) : s[j] = "restore"

\* PostgreSQL is restored inside of the lease, and the release comes last.
RestoresInside(s) ==
    \A i \in 1 .. Len(s) :
       /\ s[i] = "restore" =>
            /\ \E k \in 1 .. i - 1 : s[k] = "acquire"
            /\ \E j \in i + 1 .. Len(s) : s[j] = "release"
            /\ \A j \in i + 1 .. Len(s) : s[j] \in Undoing => s[j] = "release"
       /\ s[i] = "release" => \A j \in i + 1 .. Len(s) : s[j] # "release"

\* What the programs have in common.
Disciplined(s) ==
    /\ Len(s) \in Nat /\ DOMAIN s = 1 .. Len(s)
    /\ FilesInOrder(s) /\ TakesOnce(s) /\ RestoresInside(s)

\* No program has more than 17 steps.
LEMMA Positions ==
  \A i \in 1 .. 17 :
     \/ i = 1 \/ i = 2 \/ i = 3 \/ i = 4 \/ i = 5 \/ i = 6 \/ i = 7 \/ i = 8 \/ i = 9
     \/ i = 10 \/ i = 11 \/ i = 12 \/ i = 13 \/ i = 14 \/ i = 15 \/ i = 16 \/ i = 17
OBVIOUS

\* The steps of HealthyPilot.
LEMMA HealthyPilotIsDisciplined == Disciplined(Capture!HealthyPilot)
<1> DEFINE s == Capture!HealthyPilot
<1>1. /\ Len(s) = 6 /\ DOMAIN s = 1 .. 6 /\ s[1] = "clean" /\ s[2] = "traffic"
      /\ s[3] = "check" /\ s[4] = "clean" /\ s[5] = "create" /\ s[6] = "write"
  BY DEF Capture!HealthyPilot
<1> HIDE DEF s
<1>2. FilesInOrder(s) BY <1>1, Positions DEF FilesInOrder
<1>3. TakesOnce(s) BY <1>1, Positions DEF TakesOnce
<1>4. RestoresInside(s) BY <1>1, Positions DEF RestoresInside, Undoing
<1> QED BY <1>1, <1>2, <1>3, <1>4 DEF Disciplined, s

\* The steps of RateCalibration.
LEMMA RateCalibrationIsDisciplined == Disciplined(Capture!RateCalibration)
<1> DEFINE s == Capture!RateCalibration
<1>1. /\ Len(s) = 6 /\ DOMAIN s = 1 .. 6 /\ s[1] = "clean" /\ s[2] = "traffic"
      /\ s[3] = "check" /\ s[4] = "clean" /\ s[5] = "create" /\ s[6] = "write"
  BY DEF Capture!RateCalibration
<1> HIDE DEF s
<1>2. FilesInOrder(s) BY <1>1, Positions DEF FilesInOrder
<1>3. TakesOnce(s) BY <1>1, Positions DEF TakesOnce
<1>4. RestoresInside(s) BY <1>1, Positions DEF RestoresInside, Undoing
<1> QED BY <1>1, <1>2, <1>3, <1>4 DEF Disciplined, s

\* The steps of ErrorPilot.
LEMMA ErrorPilotIsDisciplined == Disciplined(Capture!ErrorPilot)
<1> DEFINE s == Capture!ErrorPilot
<1>1. /\ Len(s) = 10 /\ DOMAIN s = 1 .. 10 /\ s[1] = "clean" /\ s[2] = "acquire"
      /\ s[3] = "own" /\ s[4] = "traffic" /\ s[5] = "release" /\ s[6] = "clean"
      /\ s[7] = "recover" /\ s[8] = "check" /\ s[9] = "create" /\ s[10] = "write"
  BY DEF Capture!ErrorPilot
<1> HIDE DEF s
<1>2. FilesInOrder(s) BY <1>1, Positions DEF FilesInOrder
<1>3. TakesOnce(s) BY <1>1, Positions DEF TakesOnce
<1>4. RestoresInside(s) BY <1>1, Positions DEF RestoresInside, Undoing
<1> QED BY <1>1, <1>2, <1>3, <1>4 DEF Disciplined, s

\* The steps of ResourcePilot.
LEMMA ResourcePilotIsDisciplined == Disciplined(Capture!ResourcePilot)
<1> DEFINE s == Capture!ResourcePilot
<1>1. /\ Len(s) = 9 /\ DOMAIN s = 1 .. 9 /\ s[1] = "clean" /\ s[2] = "acquire"
      /\ s[3] = "traffic" /\ s[4] = "release" /\ s[5] = "settle" /\ s[6] = "recover"
      /\ s[7] = "judge" /\ s[8] = "create" /\ s[9] = "write"
  BY DEF Capture!ResourcePilot
<1> HIDE DEF s
<1>2. FilesInOrder(s) BY <1>1, Positions DEF FilesInOrder
<1>3. TakesOnce(s) BY <1>1, Positions DEF TakesOnce
<1>4. RestoresInside(s) BY <1>1, Positions DEF RestoresInside, Undoing
<1> QED BY <1>1, <1>2, <1>3, <1>4 DEF Disciplined, s

\* The steps of OutagePilot.
LEMMA OutagePilotIsDisciplined == Disciplined(Capture!OutagePilot)
<1> DEFINE s == Capture!OutagePilot
<1>1. /\ Len(s) = 11 /\ DOMAIN s = 1 .. 11 /\ s[1] = "clean" /\ s[2] = "acquire"
      /\ s[3] = "stop" /\ s[4] = "traffic" /\ s[5] = "restore" /\ s[6] = "release"
      /\ s[7] = "settle" /\ s[8] = "recover" /\ s[9] = "judge" /\ s[10] = "create"
      /\ s[11] = "write"
  BY DEF Capture!OutagePilot
<1> HIDE DEF s
<1>2. FilesInOrder(s) BY <1>1, Positions DEF FilesInOrder
<1>3. TakesOnce(s) BY <1>1, Positions DEF TakesOnce
<1>4. RestoresInside(s) BY <1>1, Positions DEF RestoresInside, Undoing
<1> QED BY <1>1, <1>2, <1>3, <1>4 DEF Disciplined, s

\* The steps of NormalCapture.
LEMMA NormalCaptureIsDisciplined == Disciplined(Capture!NormalCapture)
<1> DEFINE s == Capture!NormalCapture
<1>1. /\ Len(s) = 11 /\ DOMAIN s = 1 .. 11 /\ s[1] = "free" /\ s[2] = "unlocked"
      /\ s[3] = "clean" /\ s[4] = "lock" /\ s[5] = "slot" /\ s[6] = "clean"
      /\ s[7] = "traffic" /\ s[8] = "clean" /\ s[9] = "check" /\ s[10] = "write"
      /\ s[11] = "unlock"
  BY DEF Capture!NormalCapture
<1> HIDE DEF s
<1>2. FilesInOrder(s) BY <1>1, Positions DEF FilesInOrder
<1>3. TakesOnce(s) BY <1>1, Positions DEF TakesOnce
<1>4. RestoresInside(s) BY <1>1, Positions DEF RestoresInside, Undoing
<1> QED BY <1>1, <1>2, <1>3, <1>4 DEF Disciplined, s

\* The steps of DownstreamCapture.
LEMMA DownstreamCaptureIsDisciplined == Disciplined(Capture!DownstreamCapture)
<1> DEFINE s == Capture!DownstreamCapture
<1>1. /\ Len(s) = 15 /\ DOMAIN s = 1 .. 15 /\ s[1] = "free" /\ s[2] = "unlocked"
      /\ s[3] = "clean" /\ s[4] = "lock" /\ s[5] = "slot" /\ s[6] = "clean"
      /\ s[7] = "acquire" /\ s[8] = "own" /\ s[9] = "traffic" /\ s[10] = "release"
      /\ s[11] = "clean" /\ s[12] = "recover" /\ s[13] = "check" /\ s[14] = "write"
      /\ s[15] = "unlock"
  BY DEF Capture!DownstreamCapture
<1> HIDE DEF s
<1>2. FilesInOrder(s) BY <1>1, Positions DEF FilesInOrder
<1>3. TakesOnce(s) BY <1>1, Positions DEF TakesOnce
<1>4. RestoresInside(s) BY <1>1, Positions DEF RestoresInside, Undoing
<1> QED BY <1>1, <1>2, <1>3, <1>4 DEF Disciplined, s

\* The steps of TimeoutCapture.
LEMMA TimeoutCaptureIsDisciplined == Disciplined(Capture!TimeoutCapture)
<1> DEFINE s == Capture!TimeoutCapture
<1>1. /\ Len(s) = 15 /\ DOMAIN s = 1 .. 15 /\ s[1] = "unlocked" /\ s[2] = "clean"
      /\ s[3] = "vacant" /\ s[4] = "lock" /\ s[5] = "slot" /\ s[6] = "clean"
      /\ s[7] = "acquire" /\ s[8] = "own" /\ s[9] = "traffic" /\ s[10] = "release"
      /\ s[11] = "settle" /\ s[12] = "recover" /\ s[13] = "check" /\ s[14] = "write"
      /\ s[15] = "unlock"
  BY DEF Capture!TimeoutCapture
<1> HIDE DEF s
<1>2. FilesInOrder(s) BY <1>1, Positions DEF FilesInOrder
<1>3. TakesOnce(s) BY <1>1, Positions DEF TakesOnce
<1>4. RestoresInside(s) BY <1>1, Positions DEF RestoresInside, Undoing
<1> QED BY <1>1, <1>2, <1>3, <1>4 DEF Disciplined, s

\* The steps of ResourceCapture.
LEMMA ResourceCaptureIsDisciplined == Disciplined(Capture!ResourceCapture)
<1> DEFINE s == Capture!ResourceCapture
<1>1. /\ Len(s) = 14 /\ DOMAIN s = 1 .. 14 /\ s[1] = "unlocked" /\ s[2] = "clean"
      /\ s[3] = "vacant" /\ s[4] = "lock" /\ s[5] = "slot" /\ s[6] = "clean"
      /\ s[7] = "acquire" /\ s[8] = "traffic" /\ s[9] = "release" /\ s[10] = "settle"
      /\ s[11] = "recover" /\ s[12] = "check" /\ s[13] = "write" /\ s[14] = "unlock"
  BY DEF Capture!ResourceCapture
<1> HIDE DEF s
<1>2. FilesInOrder(s) BY <1>1, Positions DEF FilesInOrder
<1>3. TakesOnce(s) BY <1>1, Positions DEF TakesOnce
<1>4. RestoresInside(s) BY <1>1, Positions DEF RestoresInside, Undoing
<1> QED BY <1>1, <1>2, <1>3, <1>4 DEF Disciplined, s

\* The steps of AuthCapture.
LEMMA AuthCaptureIsDisciplined == Disciplined(Capture!AuthCapture)
<1> DEFINE s == Capture!AuthCapture
<1>1. /\ Len(s) = 15 /\ DOMAIN s = 1 .. 15 /\ s[1] = "unlocked" /\ s[2] = "clean"
      /\ s[3] = "vacant" /\ s[4] = "lock" /\ s[5] = "slot" /\ s[6] = "clean"
      /\ s[7] = "acquire" /\ s[8] = "own" /\ s[9] = "traffic" /\ s[10] = "release"
      /\ s[11] = "clean" /\ s[12] = "recover" /\ s[13] = "check" /\ s[14] = "write"
      /\ s[15] = "unlock"
  BY DEF Capture!AuthCapture
<1> HIDE DEF s
<1>2. FilesInOrder(s) BY <1>1, Positions DEF FilesInOrder
<1>3. TakesOnce(s) BY <1>1, Positions DEF TakesOnce
<1>4. RestoresInside(s) BY <1>1, Positions DEF RestoresInside, Undoing
<1> QED BY <1>1, <1>2, <1>3, <1>4 DEF Disciplined, s

\* The steps of OutageCapture.
LEMMA OutageCaptureIsDisciplined == Disciplined(Capture!OutageCapture)
<1> DEFINE s == Capture!OutageCapture
<1>1. /\ Len(s) = 17 /\ DOMAIN s = 1 .. 17 /\ s[1] = "unlocked" /\ s[2] = "clean"
      /\ s[3] = "inspect" /\ s[4] = "vacant" /\ s[5] = "lock" /\ s[6] = "slot"
      /\ s[7] = "inspect" /\ s[8] = "acquire" /\ s[9] = "stop" /\ s[10] = "traffic"
      /\ s[11] = "restore" /\ s[12] = "release" /\ s[13] = "settle" /\ s[14] = "recover"
      /\ s[15] = "check" /\ s[16] = "write" /\ s[17] = "unlock"
  BY DEF Capture!OutageCapture
<1> HIDE DEF s
<1>2. FilesInOrder(s) BY <1>1, Positions DEF FilesInOrder
<1>3. TakesOnce(s) BY <1>1, Positions DEF TakesOnce
<1>4. RestoresInside(s) BY <1>1, Positions DEF RestoresInside, Undoing
<1> QED BY <1>1, <1>2, <1>3, <1>4 DEF Disciplined, s

\* The steps of HighLoadCalibration.
LEMMA HighLoadCalibrationIsDisciplined == Disciplined(Capture!HighLoadCalibration)
<1> DEFINE s == Capture!HighLoadCalibration
<1>1. /\ Len(s) = 8 /\ DOMAIN s = 1 .. 8 /\ s[1] = "unlocked" /\ s[2] = "clean"
      /\ s[3] = "acquire" /\ s[4] = "traffic" /\ s[5] = "release" /\ s[6] = "settle"
      /\ s[7] = "recover" /\ s[8] = "check"
  BY DEF Capture!HighLoadCalibration
<1> HIDE DEF s
<1>2. FilesInOrder(s) BY <1>1, Positions DEF FilesInOrder
<1>3. TakesOnce(s) BY <1>1, Positions DEF TakesOnce
<1>4. RestoresInside(s) BY <1>1, Positions DEF RestoresInside, Undoing
<1> QED BY <1>1, <1>2, <1>3, <1>4 DEF Disciplined, s

\* The steps of UnknownCapture.
LEMMA UnknownCaptureIsDisciplined == Disciplined(Capture!UnknownCapture)
<1> DEFINE s == Capture!UnknownCapture
<1>1. /\ Len(s) = 10 /\ DOMAIN s = 1 .. 10 /\ s[1] = "idle" /\ s[2] = "intent"
      /\ s[3] = "baseline" /\ s[4] = "acquire" /\ s[5] = "traffic" /\ s[6] = "release"
      /\ s[7] = "inspect" /\ s[8] = "recover" /\ s[9] = "check" /\ s[10] = "write"
  BY DEF Capture!UnknownCapture
<1> HIDE DEF s
<1>2. FilesInOrder(s) BY <1>1, Positions DEF FilesInOrder
<1>3. TakesOnce(s) BY <1>1, Positions DEF TakesOnce
<1>4. RestoresInside(s) BY <1>1, Positions DEF RestoresInside, Undoing
<1> QED BY <1>1, <1>2, <1>3, <1>4 DEF Disciplined, s

\* The steps of AcceptanceRun.
LEMMA AcceptanceRunIsDisciplined == Disciplined(Capture!AcceptanceRun)
<1> DEFINE s == Capture!AcceptanceRun
<1>1. /\ Len(s) = 9 /\ DOMAIN s = 1 .. 9 /\ s[1] = "idle" /\ s[2] = "observe"
      /\ s[3] = "acquire" /\ s[4] = "traffic" /\ s[5] = "release" /\ s[6] = "await"
      /\ s[7] = "quiet" /\ s[8] = "write" /\ s[9] = "close"
  BY DEF Capture!AcceptanceRun
<1> HIDE DEF s
<1>2. FilesInOrder(s) BY <1>1, Positions DEF FilesInOrder
<1>3. TakesOnce(s) BY <1>1, Positions DEF TakesOnce
<1>4. RestoresInside(s) BY <1>1, Positions DEF RestoresInside, Undoing
<1> QED BY <1>1, <1>2, <1>3, <1>4 DEF Disciplined, s

\* Only the program of nobody has no step.
LEMMA NoneIsEmpty ==
  \A name \in DOMAIN Capture!Programs :
     Capture!Programs[name] # <<>> => Len(Capture!Programs[name]) > 0
BY
 DEF Capture!Programs, Capture!HealthyPilot, Capture!RateCalibration, Capture!ErrorPilot,
     Capture!TimeoutPilot,
   Capture!AuthPilot, Capture!ServicePilot, Capture!ResourcePilot, Capture!HighLoadPilot, Capture!OutagePilot,
   Capture!NormalCapture, Capture!DownstreamCapture, Capture!TimeoutCapture, Capture!ResourceCapture,
   Capture!AuthCapture, Capture!HighLoadCapture, Capture!OutageCapture, Capture!HighLoadCalibration,
   Capture!UnknownCapture, Capture!AcceptanceRun

\* Every program is disciplined.
LEMMA ProgramsAreDisciplined ==
  \A name \in DOMAIN Capture!Programs : Disciplined(Capture!Programs[name])
<1>1. Disciplined(<<>>)
  BY DEF Disciplined, FilesInOrder, TakesOnce, RestoresInside
<1> QED
  BY <1>1, HealthyPilotIsDisciplined, RateCalibrationIsDisciplined,
     ErrorPilotIsDisciplined, ResourcePilotIsDisciplined,
     OutagePilotIsDisciplined, NormalCaptureIsDisciplined,
     DownstreamCaptureIsDisciplined, TimeoutCaptureIsDisciplined,
     ResourceCaptureIsDisciplined, AuthCaptureIsDisciplined,
     OutageCaptureIsDisciplined, HighLoadCalibrationIsDisciplined,
     UnknownCaptureIsDisciplined, AcceptanceRunIsDisciplined
  DEF Capture!Programs, Capture!TimeoutPilot, Capture!AuthPilot, Capture!ServicePilot, Capture!HighLoadPilot, Capture!HighLoadCapture

-----------------------------------------------------------------------------
(* Where a capture is in its program *)

\* A finite clause is found by counting up.
LEMMA FirstIs ==
  ASSUME NEW I \in SUBSET Nat, I # {}
  PROVE  Capture!First(I) \in I /\ \A j \in I : Capture!First(I) <= j
<1> DEFINE Below == {pair \in Nat \X Nat : pair[1] < pair[2]}
<1>1. IsWellFoundedOn(Below, Nat)
  BY NatLessThanWellFounded DEF OpToRel
<1>2. PICK i \in I : \A j \in I : ~(<<j, i>> \in Below)
  BY <1>1, WFMin
<1>3. ASSUME NEW j \in I PROVE i <= j
  <2>1. i \in Nat /\ j \in Nat /\ <<j, i>>[1] = j /\ <<j, i>>[2] = i
    OBVIOUS
  <2>2. ~(j < i)
    BY <1>2, <2>1
  <2> QED
    BY <2>1, <2>2
<1> QED
  BY <1>3 DEF Capture!First

\* A capture at work, and which steps of its program it is before, and past.
Alive(c) == fate[c] = "running"
Ahead(c, what) == \E i \in stage[c] .. Len(Capture!Steps(c)) : Capture!Steps(c)[i] = what
Passed(c, what) == \E k \in 1 .. stage[c] - 1 : Capture!Steps(c)[k] = what
HasStep(c, what) == \E k \in 1 .. Len(Capture!Steps(c)) : Capture!Steps(c)[k] = what

\* The values of fate and product.
Fates == {"running", "done", "failed", "dead"}
Products == {"data", "model", "receipt", "score"}

\* The types of the variables of CaptureRun.
CaptureType ==
    /\ job \in Jobs
    /\ stage \in [Captures -> Nat]
    /\ fate \in [Captures -> Fates]
    /\ trouble \in [Captures -> {"nothing", "traffic", "docker"}]
    /\ evidence \in [Captures -> {"none", "partial", "whole", "rejected"}]
    /\ holder \in [Capture!Stacks -> Captures \cup {Nobody, Stranger}]
    /\ database \in [Capture!Stacks -> {"up", "down"}]
    /\ begun \in [Slots -> Captures \cup {Nobody}]
    /\ admission \in [Captures -> {"none", "audited", "admitted"}]
    /\ product \in [Products -> {"none", "partial", "whole"}]

\* A process is at a step of its program, and with an exception in a finally
\* clause; Docker's is raised when PostgreSQL is restored.
Placed(c) ==
    Alive(c) =>
      /\ stage[c] \in 1 .. Len(Capture!Steps(c))
      /\ trouble[c] # "nothing" => Capture!Step(c) \in Undoing
      /\ trouble[c] = "docker" => Capture!Step(c) = "release" /\ HasStep(c, "restore")

\* The program that a capture runs is disciplined.
LEMMA StepsAreDisciplined ==
  ASSUME CaptureType, NEW c \in Captures
  PROVE  Disciplined(Capture!Steps(c))
BY ProgramsAreDisciplined, JobsAssumption DEF CaptureType, Capture!Steps, Capture!Program

\* A step ends: the next one, a finally clause, or the end.
Advances(c) ==
    /\ trouble[c] = "nothing" /\ stage[c] < Len(Capture!Steps(c))
    /\ stage' = [stage EXCEPT ![c] = stage[c] + 1]
    /\ UNCHANGED <<fate, trouble>>
Completes(c) ==
    /\ trouble[c] = "nothing" /\ stage[c] = Len(Capture!Steps(c))
    /\ fate' = [fate EXCEPT ![c] = "done"]
    /\ UNCHANGED <<stage, trouble>>
Fails(c) ==
    /\ Capture!Pending(c) = {}
    /\ fate' = [fate EXCEPT ![c] = "failed"]
    /\ UNCHANGED <<stage, trouble>>
Jumps(c, about) ==
    /\ \E j \in Capture!Pending(c) :
          /\ \A i \in Capture!Pending(c) : j <= i
          /\ stage' = [stage EXCEPT ![c] = j]
    /\ trouble' = [trouble EXCEPT ![c] = about]
    /\ UNCHANGED fate

\* What passes goes on, or on with its exception.
LEMMA PassingMoves ==
  ASSUME CaptureType, NEW c \in Captures, Alive(c), Placed(c), Capture!Passes(c)
  PROVE  \/ Advances(c) \/ Completes(c)
         \/ trouble[c] # "nothing" /\ (Fails(c) \/ Jumps(c, trouble[c]))
<1>1. stage[c] \in 1 .. Len(Capture!Steps(c)) /\ stage[c] \in Nat /\ Len(Capture!Steps(c)) \in Nat
  BY StepsAreDisciplined DEF Placed, CaptureType, Disciplined
<1>2. CASE trouble[c] = "nothing"
  BY <1>1, <1>2 DEF Capture!Passes, Capture!Ends, Advances, Completes, CaptureType
<1>3. CASE trouble[c] # "nothing"
  <2>1. Capture!Unwinds(c) /\ UNCHANGED trouble
    BY <1>3 DEF Capture!Passes
  <2>2. CASE Capture!Pending(c) = {}
    BY <1>3, <2>1, <2>2 DEF Capture!Unwinds, Capture!Ends, Fails
  <2>3. CASE Capture!Pending(c) # {}
    <3>1. Capture!Pending(c) \in SUBSET Nat
      BY <1>1 DEF Capture!Pending
    <3>2. DEFINE j == Capture!First(Capture!Pending(c))
    <3>3. j \in Capture!Pending(c) /\ \A i \in Capture!Pending(c) : j <= i
      BY <2>3, <3>1, FirstIs
    <3>4. trouble = [trouble EXCEPT ![c] = trouble[c]]
      BY DEF CaptureType
    <3> QED
      BY <1>3, <2>1, <2>3, <3>3, <3>4 DEF Capture!Unwinds, Jumps
  <2> QED
    BY <2>2, <2>3
<1> QED
  BY <1>2, <1>3

\* What breaks fails, or goes on in a finally clause with its exception.
LEMMA BreakingMoves ==
  ASSUME CaptureType, NEW c \in Captures, Alive(c), Placed(c),
         NEW about, Capture!Breaks(c, about)
  PROVE  Fails(c) \/ Jumps(c, about)
<1>1. stage[c] \in Nat /\ Len(Capture!Steps(c)) \in Nat
  BY StepsAreDisciplined DEF CaptureType, Disciplined
<1>2. Capture!Unwinds(c)
  BY DEF Capture!Breaks
<1>3. CASE Capture!Pending(c) = {}
  BY <1>2, <1>3 DEF Capture!Breaks, Capture!Unwinds, Capture!Ends, Fails
<1>4. CASE Capture!Pending(c) # {}
  <2>1. Capture!Pending(c) \in SUBSET Nat
    BY <1>1 DEF Capture!Pending
  <2>2. DEFINE j == Capture!First(Capture!Pending(c))
  <2>3. j \in Capture!Pending(c) /\ \A i \in Capture!Pending(c) : j <= i
    BY <1>4, <2>1, FirstIs
  <2> QED
    BY <1>2, <1>4, <2>3 DEF Capture!Unwinds, Capture!Breaks, Jumps
<1> QED
  BY <1>3, <1>4

\* How a step of c ends; Docker's exception is that of restoring PostgreSQL.
Moves(c) ==
    \/ Capture!Passes(c)
    \/ Capture!Breaks(c, "traffic")
    \/ Capture!Step(c) = "restore" /\ Capture!Breaks(c, "docker")
Moved(c) ==
    \/ Advances(c) \/ Completes(c) \/ Fails(c)
    \/ \E about \in {"traffic", "docker"} :
          /\ Jumps(c, about)
          /\ about = "docker" => trouble[c] = "docker" \/ Capture!Step(c) = "restore"

\* There is no other way.
LEMMA MovesAreMoved ==
  ASSUME CaptureType, NEW c \in Captures, Alive(c), Placed(c), Moves(c)
  PROVE  Moved(c)
<1>1. trouble[c] \in {"nothing", "traffic", "docker"}
  BY DEF CaptureType
<1>2. CASE Capture!Passes(c)
  BY <1>1, <1>2, PassingMoves DEF Moved
<1>3. CASE Capture!Breaks(c, "traffic")
  BY <1>3, BreakingMoves DEF Moved
<1>4. CASE Capture!Step(c) = "restore" /\ Capture!Breaks(c, "docker")
  BY <1>4, BreakingMoves DEF Moved
<1> QED
  BY <1>2, <1>3, <1>4 DEF Moves

\* A step of c changes nothing of another process.
LEMMA MovedLeavesOthers ==
  ASSUME CaptureType, NEW c \in Captures, Moved(c), NEW d \in Captures, d # c
  PROVE  fate'[d] = fate[d] /\ stage'[d] = stage[d] /\ trouble'[d] = trouble[d]
BY DEF Moved, Advances, Completes, Fails, Jumps, CaptureType

\* A pending clause is one, and ahead.
LEMMA PendingIsAhead ==
  ASSUME CaptureType, NEW c \in Captures, NEW j \in Capture!Pending(c)
  PROVE  /\ stage[c] \in Nat /\ j \in Nat /\ j > stage[c] /\ j \in 1 .. Len(Capture!Steps(c))
         /\ Capture!Steps(c)[j] \in Undoing
<1>1. stage[c] \in Nat /\ Len(Capture!Steps(c)) \in Nat
  BY StepsAreDisciplined DEF CaptureType, Disciplined
<1> QED
  BY <1>1 DEF Capture!Pending, Capture!Undoes, Undoing

\* What a move leaves c at is well typed.
LEMMA MovedType ==
  ASSUME CaptureType, NEW c \in Captures, Moved(c)
  PROVE  /\ stage' \in [Captures -> Nat] /\ fate' \in [Captures -> Fates]
         /\ trouble' \in [Captures -> {"nothing", "traffic", "docker"}]
<1>1. CASE Advances(c)
  <2>1. stage[c] + 1 \in Nat
    BY DEF CaptureType
  <2> QED
    BY <1>1, <2>1 DEF Advances, CaptureType
<1>2. CASE Completes(c) \/ Fails(c)
  BY <1>2 DEF Completes, Fails, CaptureType, Fates
<1>3. ASSUME NEW about \in {"traffic", "docker"}, Jumps(c, about)
      PROVE  /\ stage' \in [Captures -> Nat] /\ fate' \in [Captures -> Fates]
             /\ trouble' \in [Captures -> {"nothing", "traffic", "docker"}]
  <2>1. PICK j \in Capture!Pending(c) : stage' = [stage EXCEPT ![c] = j]
    BY <1>3 DEF Jumps
  <2>2. j \in Nat
    BY PendingIsAhead
  <2> QED
    BY <1>3, <2>1, <2>2 DEF Jumps, CaptureType
<1> QED
  BY <1>1, <1>2, <1>3 DEF Moved

\* Nothing is pending at the release of a program that restores PostgreSQL.
LEMMA ReleaseIsLast ==
  ASSUME CaptureType, NEW c \in Captures, Alive(c), Placed(c),
         Capture!Step(c) = "release", HasStep(c, "restore")
  PROVE  Capture!Pending(c) = {}
<1> DEFINE s == Capture!Steps(c)
           i == stage[c]
<1>1. i \in 1 .. Len(s) /\ s[i] = "release" /\ Len(s) \in Nat
  BY StepsAreDisciplined DEF Placed, Capture!Step, Disciplined
<1>2. PICK k \in 1 .. Len(s) : s[k] = "restore"
  BY DEF HasStep
<1>3. PICK m \in k + 1 .. Len(s) : s[m] = "release"
  BY <1>2, StepsAreDisciplined DEF Disciplined, RestoresInside
<1>4. m = i
  BY <1>1, <1>3, StepsAreDisciplined DEF Disciplined, RestoresInside
<1>5. ASSUME NEW j \in Capture!Pending(c) PROVE FALSE
  <2>1. j \in i + 1 .. Len(s) /\ s[j] \in Undoing
    BY <1>1, <1>5, PendingIsAhead
  <2>2. s[j] = "release"
    BY <1>1, <1>2, <1>3, <1>4, <2>1, StepsAreDisciplined DEF Disciplined, RestoresInside
  <2> QED
    BY <1>1, <2>1, <2>2, StepsAreDisciplined DEF Disciplined, RestoresInside
<1> QED
  BY <1>5

\* A process stays where its program has it.
LEMMA PlacedKept ==
  ASSUME CaptureType, NEW c \in Captures, Alive(c), Placed(c), Moved(c), job' = job
  PROVE  Placed(c)'
<1> DEFINE s == Capture!Steps(c)
           i == stage[c]
<1>1. i \in 1 .. Len(s) /\ Len(s) \in Nat
  BY StepsAreDisciplined DEF Placed, Disciplined
<1>2. Capture!Steps(c)' = s
  BY DEF Capture!Steps, Capture!Program
<1>3. CASE Advances(c)
  <2>1. stage'[c] = i + 1 /\ trouble'[c] = "nothing" /\ i < Len(s)
    BY <1>3 DEF Advances, CaptureType
  <2> QED
    BY <1>1, <1>2, <2>1 DEF Placed
<1>4. CASE Completes(c) \/ Fails(c)
  BY <1>4 DEF Completes, Fails, Placed, Alive, CaptureType
<1>5. ASSUME NEW about \in {"traffic", "docker"}, Jumps(c, about),
             about = "docker" => trouble[c] = "docker" \/ Capture!Step(c) = "restore"
      PROVE  Placed(c)'
  <2>1. PICK j \in Capture!Pending(c) : stage' = [stage EXCEPT ![c] = j]
    BY <1>5 DEF Jumps
  <2>2. stage'[c] = j /\ trouble'[c] = about
    BY <1>5, <2>1 DEF Jumps, CaptureType
  <2>3. j \in i + 1 .. Len(s) /\ j \in 1 .. Len(s) /\ s[j] \in Undoing
    BY <1>1, <2>1, PendingIsAhead
  <2>4. Capture!Step(c)' = s[j]
    BY <1>2, <2>2 DEF Capture!Step
  <2>5. ASSUME about = "docker" PROVE s[j] = "release" /\ HasStep(c, "restore")
    <3>1. trouble[c] # "docker"
      BY ReleaseIsLast, <2>1 DEF Placed
    <3>2. s[i] = "restore"
      BY <1>5, <2>5, <3>1 DEF Capture!Step
    <3>3. s[j] = "release"
      BY <1>1, <2>3, <3>2, StepsAreDisciplined DEF Disciplined, RestoresInside
    <3> QED
      BY <1>1, <3>2, <3>3 DEF HasStep
  <2>6. HasStep(c, "restore")' <=> HasStep(c, "restore")
    BY <1>2 DEF HasStep
  <2> QED
    BY <1>2, <2>2, <2>3, <2>4, <2>5, <2>6 DEF Placed
<1> QED
  BY <1>3, <1>4, <1>5 DEF Moved

\* A finally clause that c is inside of is reached, whatever happens.
LEMMA AheadKept ==
  ASSUME CaptureType, NEW c \in Captures, Alive(c), Placed(c), Moved(c), job' = job,
         NEW what, Ahead(c, what), Capture!Step(c) # what,
         \/ what = "release" /\ Passed(c, "acquire")
         \/ what = "restore" /\ (Passed(c, "stop") \/ Capture!Step(c) = "stop")
  PROVE  Alive(c)' /\ Ahead(c, what)'
<1> DEFINE s == Capture!Steps(c)
           i == stage[c]
<1>1. i \in 1 .. Len(s) /\ Len(s) \in Nat
  BY StepsAreDisciplined DEF Placed, Disciplined
<1>2. Capture!Steps(c)' = s
  BY DEF Capture!Steps, Capture!Program
<1>3. PICK a \in i + 1 .. Len(s) : s[a] = what
  BY <1>1 DEF Ahead, Capture!Step
<1>4. a \in Capture!Pending(c)
  <2>1. CASE what = "release" /\ Passed(c, "acquire")
    <3>1. PICK k \in 1 .. i - 1 : s[k] = "acquire"
      BY <2>1 DEF Passed
    <3>2. k \in 1 .. i /\ k < i /\ <<s[k], s[a]>> \in Capture!Undoes
      BY <1>1, <1>3, <2>1, <3>1 DEF Capture!Undoes
    <3> QED
      BY <1>3, <3>2 DEF Capture!Pending
  <2>2. CASE what = "restore" /\ Passed(c, "stop")
    <3>1. PICK k \in 1 .. i - 1 : s[k] = "stop"
      BY <2>2 DEF Passed
    <3>2. k \in 1 .. i /\ k < i /\ <<s[k], s[a]>> \in Capture!Undoes
      BY <1>1, <1>3, <2>2, <3>1 DEF Capture!Undoes
    <3> QED
      BY <1>3, <3>2 DEF Capture!Pending
  <2>3. CASE what = "restore" /\ Capture!Step(c) = "stop"
    <3>1. i \in 1 .. i /\ <<s[i], s[a]>> \in Capture!Undoes
      BY <1>1, <1>3, <2>3 DEF Capture!Undoes, Capture!Step
    <3> QED
      BY <1>3, <2>3, <3>1 DEF Capture!Pending
  <2> QED
    BY <2>1, <2>2, <2>3
<1>5. CASE Advances(c)
  <2>1. stage'[c] = i + 1 /\ fate'[c] = fate[c]
    BY <1>5 DEF Advances, CaptureType
  <2> QED
    BY <1>1, <1>2, <1>3, <2>1 DEF Ahead, Alive
<1>6. CASE Completes(c)
  BY <1>1, <1>3, <1>6 DEF Completes
<1>7. CASE Fails(c)
  BY <1>4, <1>7 DEF Fails
<1>8. ASSUME NEW about \in {"traffic", "docker"}, Jumps(c, about)
      PROVE  Alive(c)' /\ Ahead(c, what)'
  <2>1. PICK j \in Capture!Pending(c) : /\ \A m \in Capture!Pending(c) : j <= m
                                       /\ stage' = [stage EXCEPT ![c] = j]
    BY <1>8 DEF Jumps
  <2>2. stage'[c] = j /\ fate'[c] = fate[c] /\ j <= a /\ j \in Nat
    BY <1>4, <1>8, <2>1, PendingIsAhead DEF Jumps, CaptureType
  <2>3. a \in j .. Len(s)
    BY <1>1, <1>3, <2>2
  <2> QED
    BY <1>2, <1>3, <2>2, <2>3 DEF Ahead, Alive
<1> QED
  BY <1>5, <1>6, <1>7, <1>8 DEF Moved

\* What a process has passed it does not come back to.
LEMMA PassedKept ==
  ASSUME CaptureType, NEW c \in Captures, Alive(c), Placed(c), Moved(c), job' = job, Alive(c)',
         NEW what, Passed(c, what) \/ Capture!Step(c) = what
  PROVE  Passed(c, what)'
<1> DEFINE s == Capture!Steps(c)
           i == stage[c]
<1>1. i \in 1 .. Len(s) /\ Len(s) \in Nat
  BY StepsAreDisciplined DEF Placed, Disciplined
<1>2. Capture!Steps(c)' = s
  BY DEF Capture!Steps, Capture!Program
<1>3. PICK k \in 1 .. i : s[k] = what
  BY <1>1 DEF Passed, Capture!Step
<1>4. stage'[c] \in Nat /\ stage'[c] > i
  <2>1. CASE Advances(c)
    BY <1>1, <2>1 DEF Advances, CaptureType
  <2>2. CASE Completes(c) \/ Fails(c)
    BY <2>2 DEF Completes, Fails, Alive, CaptureType
  <2>3. ASSUME NEW about \in {"traffic", "docker"}, Jumps(c, about)
        PROVE  stage'[c] \in Nat /\ stage'[c] > i
    <3>1. PICK j \in Capture!Pending(c) : stage' = [stage EXCEPT ![c] = j]
      BY <2>3 DEF Jumps
    <3> QED
      BY <3>1, PendingIsAhead DEF CaptureType
  <2> QED
    BY <2>1, <2>2, <2>3 DEF Moved
<1>5. k \in 1 .. stage'[c] - 1
  BY <1>1, <1>4
<1> QED
  BY <1>2, <1>3, <1>5 DEF Passed

-----------------------------------------------------------------------------
(* The invariant of a capture *)

\* Evidence is whole when the reservation is given up, and after that nothing
\* is left to do.
FiledLast(c) ==
    Alive(c) => /\ Capture!Step(c) = "unlock" => evidence[c] = "whole"
                /\ evidence[c] = "whole" => Capture!Step(c) \in {"unlock", "close"}

\* All but the acceptance run compare the end of their traffic with the lease.
LooksAtLease(c) == Capture!Program(c) # "acceptance"

\* Who lost the lease to another had let it expire, and has the end of the
\* traffic, where that is noticed, before it.
SpoiledIsLate(c) ==
    c \in spoiled /\ LooksAtLease(c) =>
                     /\ c \in overdue /\ evidence[c] # "whole"
                     /\ Alive(c) /\ trouble[c] = "nothing" => Ahead(c, "traffic")

\* Only whole evidence is audited, and only that of slots.
AuditedIsWhole(c) == admission[c] # "none" => evidence[c] = "whole" /\ LooksAtLease(c)

\* A lease is held between acquiring and releasing it.
HeldInside(c) ==
    \A s \in Capture!Stacks : holder[s] = c =>
       /\ s = Capture!StackOf(c)
       /\ \/ fate[c] = "dead"
          \/ Alive(c) /\ Passed(c, "acquire") /\ Ahead(c, "release")

\* A slot is opened under the reservation.
ReservesSlot(c) == Alive(c) /\ Capture!Step(c) = "slot" => reserved = c

\* While what c began is not whole, the reservation is c's.
BeginsReserved(c) ==
    \A n \in Slots : begun[n] = c /\ evidence[c] # "whole" => reserved = c

\* All that a capture keeps true of itself.
OwnInv(c) ==
    /\ Placed(c) /\ FiledLast(c) /\ SpoiledIsLate(c) /\ AuditedIsWhole(c)
    /\ HeldInside(c) /\ ReservesSlot(c) /\ BeginsReserved(c)

\* What another's step may do to c: take an expired lease over.
Undisturbed(c) ==
    /\ job' = job
    /\ stage'[c] = stage[c] /\ fate'[c] = fate[c] /\ trouble'[c] = trouble[c]
    /\ evidence'[c] = evidence[c]
    /\ admission'[c] # "none" => admission[c] # "none" \/ (evidence[c] = "whole" /\ LooksAtLease(c))
    /\ c \in overdue => c \in overdue'
    /\ c \in spoiled' => c \in spoiled \/ (c \in overdue /\ Capture!Observing(c))
    /\ \A s \in Capture!Stacks : holder'[s] = c => holder[s] = c
    /\ reserved = c => reserved' = c
    /\ \A n \in Slots : begun'[n] = c => begun[n] = c

\* Nothing follows whole evidence but giving up the reservation.
LEMMA ObservingIsNotWhole ==
  ASSUME CaptureType, NEW c \in Captures, OwnInv(c), Capture!Observing(c)
  PROVE  evidence[c] # "whole" /\ Ahead(c, "traffic")
<1> DEFINE s == Capture!Steps(c)
           i == stage[c]
<1>1. Alive(c) /\ i \in 1 .. Len(s) /\ Len(s) \in Nat
  BY StepsAreDisciplined DEF OwnInv, Placed, Disciplined, Capture!Observing, Alive
<1>2. PICK k \in i .. Len(s) : s[k] = "traffic"
  BY DEF Capture!Observing
<1>3. ASSUME evidence[c] = "whole" PROVE FALSE
  <2>1. s[i] \in {"unlock", "close"}
    BY <1>1, <1>3 DEF OwnInv, FiledLast, Capture!Step
  <2>2. i = Len(s)
    BY <1>1, <2>1, StepsAreDisciplined DEF Disciplined, FilesInOrder
  <2> QED
    BY <1>1, <1>2, <2>1, <2>2
<1> QED
  BY <1>2, <1>3 DEF Ahead

\* The acceptance run has no slot.
LEMMA AcceptanceHasNoSlot ==
  \A i \in DOMAIN Capture!Programs["acceptance"] : Capture!Programs["acceptance"][i] # "slot"
BY DEF Capture!Programs, Capture!AcceptanceRun

\* The invariant of c is c's own matter.
LEMMA UndisturbedKeeps ==
  ASSUME CaptureType, NEW c \in Captures, OwnInv(c), Undisturbed(c)
  PROVE  OwnInv(c)'
<1>1. /\ Capture!Steps(c)' = Capture!Steps(c) /\ Capture!StackOf(c)' = Capture!StackOf(c)
      /\ stage'[c] = stage[c] /\ fate'[c] = fate[c] /\ trouble'[c] = trouble[c]
      /\ evidence'[c] = evidence[c] /\ (LooksAtLease(c)' <=> LooksAtLease(c))
  BY DEF Undisturbed, Capture!Steps, Capture!Program, Capture!StackOf, LooksAtLease
<1>2. /\ Capture!Step(c)' = Capture!Step(c) /\ (Alive(c)' <=> Alive(c))
      /\ \A what : (Ahead(c, what)' <=> Ahead(c, what)) /\ (Passed(c, what)' <=> Passed(c, what))
      /\ \A what : HasStep(c, what)' <=> HasStep(c, what)
  BY <1>1 DEF Capture!Step, Alive, Ahead, Passed, HasStep
<1>3. Placed(c)' /\ FiledLast(c)' /\ AuditedIsWhole(c)'
  BY <1>1, <1>2 DEF OwnInv, Placed, FiledLast, AuditedIsWhole, Undisturbed
<1>4. SpoiledIsLate(c)'
  BY <1>1, <1>2, ObservingIsNotWhole DEF OwnInv, SpoiledIsLate, Undisturbed
<1>5. HeldInside(c)'
  BY <1>1, <1>2 DEF OwnInv, HeldInside, Undisturbed
<1>6. ReservesSlot(c)' /\ BeginsReserved(c)'
  BY <1>1, <1>2 DEF OwnInv, ReservesSlot, BeginsReserved, Undisturbed
<1> QED
  BY <1>3, <1>4, <1>5, <1>6 DEF OwnInv

\* What a step of c itself does, whichever it is.
Filing == {"slot", "judge", "create", "intent"}

OwnStep(c) ==
    /\ Alive(c) /\ Moves(c)
    /\ job' = job /\ admission' = admission /\ overdue' = overdue
    /\ \/ evidence'[c] = evidence[c] /\ (Capture!Step(c) = "write" => Capture!Breaks(c, "traffic"))
       \/ evidence'[c] = "whole" /\ Capture!Step(c) = "write" /\ Capture!Passes(c)
       \/ evidence'[c] # "whole" /\ Capture!Step(c) \in Filing
    /\ c \in spoiled' =>
         c \in spoiled \/ (Capture!Step(c) = "acquire" /\ \E s \in Capture!Stacks : holder[s] = c)
    /\ Capture!Step(c) = "traffic" /\ LooksAtLease(c) => c \notin overdue \/ Capture!Breaks(c, "traffic")
    /\ \A s \in Capture!Stacks : holder'[s] = c =>
          \/ holder[s] = c /\ (Capture!Step(c) = "release" => s # Capture!StackOf(c))
          \/ s = Capture!StackOf(c) /\ Capture!Step(c) = "acquire" /\ Capture!Passes(c)
    /\ Capture!Step(c) = "lock" => reserved' = c \/ Capture!Breaks(c, "traffic")
    /\ reserved = c => reserved' = c \/ Capture!Step(c) = "unlock"
    /\ \A n \in Slots : begun'[n] = c => begun[n] = c \/ (Capture!Step(c) = "slot" /\ reserved' = reserved)

\* Where a step leaves c: at the next step of its program without an
\* exception, in a finally clause with one, or at the end.
LEMMA MovedWhere ==
  ASSUME CaptureType, NEW c \in Captures, Alive(c), Placed(c), Moved(c), job' = job, Alive(c)'
  PROVE  LET s == Capture!Steps(c)
             i == stage[c]
         IN  \/ /\ i \in 1 .. Len(s) /\ i + 1 \in 1 .. Len(s)
                /\ trouble[c] = "nothing" /\ Advances(c)
                /\ stage'[c] = i + 1 /\ Capture!Step(c)' = s[i + 1] /\ trouble'[c] = "nothing"
             \/ /\ i \in 1 .. Len(s) /\ Len(s) > i
                /\ Capture!Step(c)' \in Undoing /\ trouble'[c] # "nothing"
<1> DEFINE s == Capture!Steps(c)
           i == stage[c]
<1>1. i \in 1 .. Len(s) /\ Len(s) \in Nat
  BY StepsAreDisciplined DEF Placed, Disciplined
<1>2. Capture!Steps(c)' = s
  BY DEF Capture!Steps, Capture!Program
<1>3. CASE Advances(c)
  <2>1. stage'[c] = i + 1 /\ trouble'[c] = "nothing" /\ trouble[c] = "nothing" /\ i < Len(s)
    BY <1>3 DEF Advances, CaptureType
  <2> QED
    BY <1>1, <1>2, <1>3, <2>1 DEF Capture!Step
<1>4. CASE Completes(c) \/ Fails(c)
  BY <1>4 DEF Completes, Fails, Alive, CaptureType
<1>5. ASSUME NEW about \in {"traffic", "docker"}, Jumps(c, about)
      PROVE  Len(s) > i /\ Capture!Step(c)' \in Undoing /\ trouble'[c] # "nothing"
  <2>1. PICK j \in Capture!Pending(c) : stage' = [stage EXCEPT ![c] = j]
    BY <1>5 DEF Jumps
  <2>2. stage'[c] = j /\ trouble'[c] = about
    BY <1>5, <2>1 DEF Jumps, CaptureType
  <2>3. j > i /\ j \in 1 .. Len(s) /\ s[j] \in Undoing
    BY PendingIsAhead
  <2> QED
    BY <1>1, <1>2, <2>2, <2>3 DEF Capture!Step
<1> QED
  BY <1>1, <1>3, <1>4, <1>5 DEF Moved

\* A step without an exception ends in the next step's place, or there is none.
LEMMA LastStays ==
  ASSUME CaptureType, NEW c \in Captures, Alive(c), Placed(c), Moved(c), job' = job,
         Capture!Step(c) \in {"unlock", "close"}
  PROVE  ~Alive(c)'
<1>1. stage[c] \in 1 .. Len(Capture!Steps(c)) /\ Len(Capture!Steps(c)) \in Nat
  BY StepsAreDisciplined DEF Placed, Disciplined
<1>2. stage[c] = Len(Capture!Steps(c))
  BY <1>1, StepsAreDisciplined DEF Disciplined, FilesInOrder, Capture!Step
<1> QED
  BY <1>1, <1>2, MovedWhere

\* Whole evidence stays what it is.
LEMMA WholeStays ==
  ASSUME CaptureType, NEW c \in Captures, OwnInv(c), OwnStep(c), evidence[c] = "whole"
  PROVE  evidence'[c] = "whole"
BY DEF OwnInv, FiledLast, OwnStep, Filing

\* Evidence becomes whole only in a step that passes without an exception.
LEMMA OwnStepFiles ==
  ASSUME CaptureType, NEW c \in Captures, OwnInv(c), OwnStep(c), Moved(c)
  PROVE  FiledLast(c)'
<1> DEFINE s == Capture!Steps(c)
           i == stage[c]
<1> SUFFICES ASSUME Alive(c)'
             PROVE  /\ Capture!Step(c)' = "unlock" => evidence'[c] = "whole"
                    /\ evidence'[c] = "whole" => Capture!Step(c)' \in {"unlock", "close"}
  BY DEF FiledLast
<1>0. Alive(c) /\ Placed(c) /\ job' = job
  BY DEF OwnInv, OwnStep
<1>1. CASE Capture!Step(c) = "write"
  <2>1. trouble[c] = "nothing" /\ s[i] = "write"
    BY <1>0, <1>1 DEF Placed, Undoing, Capture!Step
  <2>2. CASE i \in 1 .. Len(s) /\ i + 1 \in 1 .. Len(s) /\ Capture!Step(c)' = s[i + 1] /\ Advances(c)
    <3>1. Capture!Step(c)' \in {"unlock", "close"}
      BY <2>1, <2>2, StepsAreDisciplined DEF Disciplined, FilesInOrder
    <3>2. evidence'[c] = "whole"
      <4>1. ~Capture!Breaks(c, "traffic")
        <5>1. stage'[c] = i + 1 /\ i \in Nat
          BY <2>2 DEF Advances, CaptureType
        <5>2. ASSUME Fails(c) \/ Jumps(c, "traffic") PROVE FALSE
          <6>1. Alive(c) /\ trouble'[c] = "nothing"
            BY <1>0, <2>1, <2>2 DEF Advances
          <6> QED
            BY <2>2, <5>2, <6>1 DEF Fails, Jumps, CaptureType, Advances, Alive
        <5> QED
          BY <1>0, <5>2, BreakingMoves
      <4> QED
        BY <1>1, <4>1 DEF OwnStep, Filing
    <3> QED
      BY <3>1, <3>2
  <2>3. CASE Capture!Step(c)' \in Undoing /\ trouble'[c] # "nothing"
    <3>1. ~Capture!Passes(c)
      BY <2>1, <2>3 DEF Capture!Passes
    <3>2. evidence'[c] # "whole"
      BY <1>0, <1>1, <3>1 DEF OwnStep, OwnInv, FiledLast, Filing
    <3> QED
      BY <2>3, <3>2 DEF Undoing
  <2> QED
    BY <1>0, <2>2, <2>3, MovedWhere
<1>2. CASE Capture!Step(c) # "write"
  <2>1. evidence'[c] # "whole"
    <3>1. evidence[c] = "whole" => FALSE
      BY <1>0, LastStays DEF OwnInv, FiledLast
    <3> QED
      BY <1>2, <3>1 DEF OwnStep
  <2>2. ASSUME Capture!Step(c)' = "unlock" PROVE FALSE
    <3>1. i \in 1 .. Len(s) /\ i + 1 \in 1 .. Len(s) /\ s[i + 1] = "unlock"
      BY <1>0, <2>2, MovedWhere DEF Undoing
    <3>2. s[i] = "write"
      BY <3>1, StepsAreDisciplined DEF Disciplined, FilesInOrder
    <3> QED
      BY <1>2, <3>2 DEF Capture!Step
  <2> QED
    BY <2>1, <2>2
<1> QED
  BY <1>1, <1>2

\* Who acquires the lease does not have it.
LEMMA AcquiresAnew ==
  ASSUME CaptureType, NEW c \in Captures, OwnInv(c), Alive(c), Capture!Step(c) = "acquire",
         NEW s \in Capture!Stacks
  PROVE  holder[s] # c
<1> DEFINE p == Capture!Steps(c)
           i == stage[c]
<1>1. i \in 1 .. Len(p) /\ Len(p) \in Nat /\ p[i] = "acquire"
  BY StepsAreDisciplined DEF OwnInv, Placed, Disciplined, Capture!Step
<1>2. SUFFICES ASSUME holder[s] = c PROVE FALSE
  OBVIOUS
<1>3. PICK k \in 1 .. i - 1 : p[k] = "acquire"
  BY <1>2 DEF OwnInv, HeldInside, Passed, Alive
<1>4. k \in 1 .. Len(p) /\ i \in k + 1 .. Len(p)
  BY <1>1, <1>3
<1> QED
  BY <1>1, <1>3, <1>4, StepsAreDisciplined DEF Disciplined, TakesOnce

\* Without the lease in time, the traffic does not end well.
LEMMA OwnStepSpoils ==
  ASSUME CaptureType, NEW c \in Captures, OwnInv(c), OwnStep(c), Moved(c)
  PROVE  SpoiledIsLate(c)'
<1> DEFINE p == Capture!Steps(c)
           i == stage[c]
<1> SUFFICES ASSUME c \in spoiled', LooksAtLease(c)'
             PROVE  /\ c \in overdue' /\ evidence'[c] # "whole"
                    /\ Alive(c)' /\ trouble'[c] = "nothing" => Ahead(c, "traffic")'
  BY DEF SpoiledIsLate
<1>0. Alive(c) /\ Placed(c) /\ job' = job /\ LooksAtLease(c)
  BY DEF OwnInv, OwnStep, LooksAtLease, Capture!Program
<1>1. c \in spoiled
  BY <1>0, AcquiresAnew DEF OwnStep
<1>2. c \in overdue /\ evidence[c] # "whole" /\ c \in overdue'
      /\ (trouble[c] = "nothing" => Ahead(c, "traffic"))
  BY <1>0, <1>1 DEF OwnInv, OwnStep, SpoiledIsLate
<1>3. i \in 1 .. Len(p) /\ Len(p) \in Nat
  BY <1>0, StepsAreDisciplined DEF Placed, Disciplined
<1>4. evidence'[c] # "whole"
  <2>1. Capture!Step(c) = "write" => trouble[c] = "nothing"
    BY <1>0 DEF Placed, Undoing
  <2>2. ~(Capture!Step(c) = "write" /\ Capture!Passes(c))
    <3>1. SUFFICES ASSUME Capture!Step(c) = "write" PROVE FALSE
      OBVIOUS
    <3>2. PICK k \in i .. Len(p) : p[k] = "traffic"
      BY <1>2, <2>1, <3>1 DEF Ahead
    <3>3. p[i] = "write"
      BY <3>1 DEF Capture!Step
    <3>4. i = Len(p) \/ p[i + 1] \in {"unlock", "close"}
      BY <1>3, <3>3, StepsAreDisciplined DEF Disciplined, FilesInOrder
    <3>5. i + 1 \in 1 .. Len(p) /\ p[i + 1] \in {"unlock", "close"}
      BY <1>3, <3>2, <3>3, <3>4
    <3>6. i + 1 = Len(p)
      BY <3>5, StepsAreDisciplined DEF Disciplined, FilesInOrder
    <3> QED
      BY <1>3, <3>2, <3>3, <3>5, <3>6
  <2> QED
    BY <1>2, <2>2 DEF OwnStep
<1>5. ASSUME Alive(c)', trouble'[c] = "nothing" PROVE Ahead(c, "traffic")'
  <2>1. /\ i + 1 \in 1 .. Len(p) /\ trouble[c] = "nothing" /\ Advances(c) /\ stage'[c] = i + 1
    BY <1>0, <1>5, MovedWhere
  <2>2. PICK k \in i .. Len(p) : p[k] = "traffic"
    BY <1>2, <2>1 DEF Ahead
  <2>3. k # i
    <3>1. SUFFICES ASSUME Capture!Step(c) = "traffic" PROVE FALSE
      BY <2>2 DEF Capture!Step
    <3>2. Capture!Breaks(c, "traffic")
      BY <1>0, <1>2, <3>1 DEF OwnStep
    <3>3. Fails(c) \/ Jumps(c, "traffic")
      BY <1>0, <3>2, BreakingMoves
    <3> QED
      BY <1>3, <1>5, <2>1, <3>3 DEF Fails, Jumps, CaptureType
  <2>4. k \in stage'[c] .. Len(p)
    BY <1>3, <2>1, <2>2, <2>3
  <2>5. Capture!Steps(c)' = p
    BY <1>0 DEF Capture!Steps, Capture!Program
  <2> QED
    BY <2>2, <2>4, <2>5 DEF Ahead
<1> QED
  BY <1>2, <1>4, <1>5

\* The lease is given up on every way out.
LEMMA OwnStepHolds ==
  ASSUME CaptureType, NEW c \in Captures, OwnInv(c), OwnStep(c), Moved(c)
  PROVE  HeldInside(c)'
<1> DEFINE p == Capture!Steps(c)
           i == stage[c]
<1>0. Alive(c) /\ Placed(c) /\ job' = job /\ Capture!StackOf(c)' = Capture!StackOf(c)
  BY DEF OwnInv, OwnStep, Capture!StackOf, Capture!Program
<1>1. SUFFICES ASSUME NEW s \in Capture!Stacks, holder'[s] = c
               PROVE  /\ s = Capture!StackOf(c)
                      /\ Alive(c)' /\ Passed(c, "acquire")' /\ Ahead(c, "release")'
  BY <1>0 DEF HeldInside, Capture!Stacks
<1>2. CASE holder[s] = c /\ (Capture!Step(c) = "release" => s # Capture!StackOf(c))
  <2>1. s = Capture!StackOf(c) /\ Passed(c, "acquire") /\ Ahead(c, "release")
    BY <1>0, <1>2 DEF OwnInv, HeldInside, Alive
  <2>2. Alive(c)' /\ Ahead(c, "release")'
    BY <1>0, <1>2, <2>1, AheadKept
  <2>3. Passed(c, "acquire")'
    BY <1>0, <2>1, <2>2, PassedKept
  <2> QED
    BY <2>1, <2>2, <2>3
<1>3. CASE s = Capture!StackOf(c) /\ Capture!Step(c) = "acquire" /\ Capture!Passes(c)
  <2>1. trouble[c] = "nothing" /\ p[i] = "acquire"
    BY <1>0, <1>3 DEF Placed, Undoing, Capture!Step
  <2>2. i \in 1 .. Len(p) /\ Len(p) \in Nat
    BY <1>0, StepsAreDisciplined DEF Placed, Disciplined
  <2>3. PICK j \in i + 1 .. Len(p) : p[j] = "release"
    BY <2>1, <2>2, StepsAreDisciplined DEF Disciplined, TakesOnce
  <2>4. Advances(c)
    <3>1. Advances(c) \/ Completes(c)
      BY <1>0, <1>3, <2>1, PassingMoves
    <3> QED
      BY <2>2, <2>3, <3>1 DEF Completes
  <2>5. Alive(c)' /\ stage'[c] = i + 1 /\ Capture!Steps(c)' = p
    BY <1>0, <2>4 DEF Advances, Alive, CaptureType, Capture!Steps, Capture!Program
  <2>6. Ahead(c, "release")'
    BY <2>3, <2>5 DEF Ahead
  <2>7. Passed(c, "acquire")'
    BY <1>0, <1>3, <2>5, PassedKept
  <2> QED
    BY <1>3, <2>5, <2>6, <2>7
<1> QED
  BY <1>1, <1>2, <1>3 DEF OwnStep

\* The slot is opened under the reservation, and this stays until the evidence
\* is whole.
LEMMA OwnStepReserves ==
  ASSUME CaptureType, NEW c \in Captures, OwnInv(c), OwnStep(c), Moved(c)
  PROVE  ReservesSlot(c)' /\ BeginsReserved(c)'
<1> DEFINE p == Capture!Steps(c)
           i == stage[c]
<1>0. Alive(c) /\ Placed(c) /\ job' = job
  BY DEF OwnInv, OwnStep
<1>1. ASSUME Alive(c)', Capture!Step(c)' = "slot" PROVE reserved' = c
  <2>1. /\ i \in 1 .. Len(p) /\ i + 1 \in 1 .. Len(p) /\ trouble[c] = "nothing" /\ Advances(c)
        /\ stage'[c] = i + 1 /\ p[i + 1] = "slot" /\ trouble'[c] = "nothing"
    BY <1>0, <1>1, MovedWhere DEF Undoing
  <2>2. Capture!Step(c) = "lock"
    BY <2>1, StepsAreDisciplined DEF Disciplined, FilesInOrder, Capture!Step
  <2>3. ASSUME Capture!Breaks(c, "traffic") PROVE FALSE
    BY <1>0, <1>1, <2>1, <2>3, BreakingMoves DEF Fails, Jumps, CaptureType
  <2> QED
    BY <2>2, <2>3 DEF OwnStep
<1>2. ASSUME NEW n \in Slots, begun'[n] = c, evidence'[c] # "whole" PROVE reserved' = c
  <2>1. evidence[c] # "whole"
    BY <1>2, WholeStays
  <2>2. Capture!Step(c) # "unlock"
    BY <1>0, <2>1 DEF OwnInv, FiledLast
  <2>3. CASE begun[n] = c
    BY <2>1, <2>2, <2>3 DEF OwnInv, BeginsReserved, OwnStep
  <2>4. CASE Capture!Step(c) = "slot" /\ reserved' = reserved
    BY <1>0, <2>4 DEF OwnInv, ReservesSlot
  <2> QED
    BY <1>2, <2>3, <2>4 DEF OwnStep
<1> QED
  BY <1>1, <1>2 DEF ReservesSlot, BeginsReserved

\* A step of c keeps what c's invariant says.
LEMMA OwnStepKeeps ==
  ASSUME CaptureType, NEW c \in Captures, OwnInv(c), OwnStep(c)
  PROVE  OwnInv(c)'
<1>1. Alive(c) /\ Placed(c) /\ Moves(c) /\ job' = job
  BY DEF OwnInv, OwnStep
<1>2. Moved(c)
  BY <1>1, MovesAreMoved
<1>3. Placed(c)'
  BY <1>1, <1>2, PlacedKept
<1>4. AuditedIsWhole(c)'
  BY WholeStays DEF OwnInv, OwnStep, AuditedIsWhole, LooksAtLease, Capture!Program
<1> QED
  BY <1>2, <1>3, <1>4, OwnStepFiles, OwnStepSpoils, OwnStepHolds, OwnStepReserves DEF OwnInv

\* Nor does c's death do it any harm.
LEMMA KillKeeps ==
  ASSUME CaptureType, NEW c \in Captures, OwnInv(c), Capture!Kill(c)
  PROVE  OwnInv(c)'
<1>1. fate'[c] = "dead"
  BY DEF Capture!Kill, Capture!Ends, CaptureType
<1>2. UNCHANGED <<job, stage, trouble, evidence, holder, overdue, spoiled, reserved, begun, admission>>
  BY DEF Capture!Kill, Capture!Ends, Capture!stackVars, Capture!lockVars
<1>3. Placed(c)' /\ FiledLast(c)' /\ AuditedIsWhole(c)' /\ ReservesSlot(c)' /\ BeginsReserved(c)'
  BY <1>1, <1>2 DEF OwnInv, Placed, FiledLast, AuditedIsWhole, ReservesSlot, BeginsReserved, Alive,
     LooksAtLease, Capture!Program
<1>4. SpoiledIsLate(c)'
  BY <1>1, <1>2 DEF OwnInv, SpoiledIsLate, Alive, LooksAtLease, Capture!Program
<1>5. HeldInside(c)'
  BY <1>1, <1>2 DEF OwnInv, HeldInside, Capture!StackOf, Capture!Program, Capture!Stacks
<1> QED
  BY <1>3, <1>4, <1>5 DEF OwnInv

-----------------------------------------------------------------------------
(* The actions *)

\* A stack is one of the two.
LEMMA StackIs ==
  ASSUME NEW c \in Captures
  PROVE  Capture!StackOf(c) \in Capture!Stacks
BY DEF Capture!StackOf, Capture!Stacks

\* Every step of a capture but its death is a step of its own.
LEMMA StepsAreOwn ==
  ASSUME CaptureType, NEW c \in Captures, Capture!CaptureStep(c), ~Capture!Kill(c)
  PROVE  OwnStep(c)
<1>1. CASE Capture!Look(c)
  BY <1>1, JobsAssumption, StackIs DEF Capture!Look, OwnStep, Moves, Filing, Alive, CaptureType,
     Capture!At, Capture!stackVars, Capture!lockVars, Capture!Looks
<1>2. CASE Capture!Reserve(c)
  BY <1>2, JobsAssumption, StackIs DEF Capture!Reserve, OwnStep, Moves, Filing, Alive, CaptureType,
     Capture!At, Capture!stackVars, Capture!lockVars
<1>3. CASE Capture!OpenSlot(c)
  BY <1>3, JobsAssumption, StackIs DEF Capture!OpenSlot, OwnStep, Moves, Filing, Alive, CaptureType,
     Capture!At, Capture!stackVars, Capture!lockVars, Capture!SlotFree
<1>4. CASE Capture!Unlock(c)
  BY <1>4, JobsAssumption, StackIs DEF Capture!Unlock, OwnStep, Moves, Filing, Alive, CaptureType,
     Capture!At, Capture!stackVars, Capture!lockVars
<1>5. CASE Capture!Acquire(c)
  BY <1>5, JobsAssumption, StackIs DEF Capture!Acquire, OwnStep, Moves, Filing, Alive, CaptureType,
     Capture!At, Capture!stackVars, Capture!lockVars, Capture!Obtains, Capture!Obtainable
<1>6. CASE Capture!StopPostgres(c)
  BY <1>6, JobsAssumption, StackIs
   DEF Capture!StopPostgres, OwnStep, Moves, Filing, Alive, CaptureType,
     Capture!At, Capture!stackVars, Capture!lockVars
<1>7. CASE Capture!SendTraffic(c)
  BY <1>7, JobsAssumption, StackIs
   DEF Capture!SendTraffic, OwnStep, Moves, Filing, Alive, CaptureType,
     Capture!At, Capture!stackVars, Capture!lockVars, Capture!InTime, LooksAtLease
<1>8. CASE Capture!RestorePostgres(c)
  BY <1>8, JobsAssumption, StackIs
   DEF Capture!RestorePostgres, OwnStep, Moves, Filing, Alive, CaptureType,
     Capture!At, Capture!stackVars, Capture!lockVars
<1>9. CASE Capture!Release(c)
  BY <1>9, JobsAssumption, StackIs DEF Capture!Release, OwnStep, Moves, Filing, Alive, CaptureType,
     Capture!At, Capture!stackVars, Capture!lockVars
<1>10. CASE Capture!Observe(c)
  BY <1>10, JobsAssumption, StackIs DEF Capture!Observe, OwnStep, Moves, Filing, Alive, CaptureType,
     Capture!At, Capture!stackVars, Capture!lockVars
<1>11. CASE Capture!Close(c)
  BY <1>11, JobsAssumption, StackIs DEF Capture!Close, OwnStep, Moves, Filing, Alive, CaptureType,
     Capture!At, Capture!stackVars, Capture!lockVars
<1>12. CASE Capture!Judge(c)
  BY <1>12, JobsAssumption, StackIs DEF Capture!Judge, OwnStep, Moves, Filing, Alive, CaptureType,
     Capture!At, Capture!stackVars, Capture!lockVars
<1>13. CASE Capture!Create(c)
  BY <1>13, JobsAssumption, StackIs DEF Capture!Create, OwnStep, Moves, Filing, Alive, CaptureType,
     Capture!At, Capture!stackVars, Capture!lockVars
<1>14. CASE Capture!Write(c)
  BY <1>14, JobsAssumption, StackIs DEF Capture!Write, OwnStep, Moves, Filing, Alive, CaptureType,
     Capture!At, Capture!stackVars, Capture!lockVars
<1> QED
  BY <1>1, <1>2, <1>3, <1>4, <1>5, <1>6, <1>7, <1>8, <1>9, <1>10, <1>11, <1>12, <1>13, <1>14
   DEF Capture!CaptureStep

\* And leaves the others in peace, or takes an expired lease over.
LEMMA StepsDisturbNobody ==
  ASSUME CaptureType, NEW c \in Captures, Moved(c), OwnStep(c), Capture!CaptureStep(c),
         ~Capture!Kill(c), NEW d \in Captures, d # c
  PROVE  Undisturbed(d)
<1>0. fate'[d] = fate[d] /\ stage'[d] = stage[d] /\ trouble'[d] = trouble[d]
  BY MovedLeavesOthers
<1>1. CASE Capture!Look(c)
  BY <1>0, <1>1, JobsAssumption, StackIs
   DEF Capture!Look, Undisturbed, CaptureType, Capture!stackVars, Capture!lockVars, Capture!Looks
<1>2. CASE Capture!Reserve(c)
  BY <1>0, <1>2, JobsAssumption, StackIs
   DEF Capture!Reserve, Undisturbed, CaptureType, Capture!stackVars, Capture!lockVars
<1>3. CASE Capture!OpenSlot(c)
  BY <1>0, <1>3, JobsAssumption, StackIs
   DEF Capture!OpenSlot, Undisturbed, CaptureType, Capture!stackVars, Capture!lockVars,
       Capture!SlotFree
<1>4. CASE Capture!Unlock(c)
  BY <1>0, <1>4, JobsAssumption, StackIs
   DEF Capture!Unlock, Undisturbed, CaptureType, Capture!stackVars, Capture!lockVars
<1>5. CASE Capture!Acquire(c)
  BY <1>0, <1>5, JobsAssumption, StackIs
   DEF Capture!Acquire, Undisturbed, CaptureType, Capture!stackVars, Capture!lockVars,
       Capture!Obtains, Capture!Obtainable
<1>6. CASE Capture!StopPostgres(c)
  BY <1>0, <1>6, JobsAssumption, StackIs
   DEF Capture!StopPostgres, Undisturbed, CaptureType, Capture!stackVars, Capture!lockVars
<1>7. CASE Capture!SendTraffic(c)
  BY <1>0, <1>7, JobsAssumption, StackIs
   DEF Capture!SendTraffic, Undisturbed, CaptureType, Capture!stackVars, Capture!lockVars,
       Capture!InTime
<1>8. CASE Capture!RestorePostgres(c)
  BY <1>0, <1>8, JobsAssumption, StackIs
   DEF Capture!RestorePostgres, Undisturbed, CaptureType, Capture!stackVars, Capture!lockVars
<1>9. CASE Capture!Release(c)
  BY <1>0, <1>9, JobsAssumption, StackIs
   DEF Capture!Release, Undisturbed, CaptureType, Capture!stackVars, Capture!lockVars
<1>10. CASE Capture!Observe(c)
  BY <1>0, <1>10, JobsAssumption, StackIs
   DEF Capture!Observe, Undisturbed, CaptureType, Capture!stackVars, Capture!lockVars
<1>11. CASE Capture!Close(c)
  BY <1>0, <1>11, JobsAssumption, StackIs
   DEF Capture!Close, Undisturbed, CaptureType, Capture!stackVars, Capture!lockVars
<1>12. CASE Capture!Judge(c)
  BY <1>0, <1>12, JobsAssumption, StackIs
   DEF Capture!Judge, Undisturbed, CaptureType, Capture!stackVars, Capture!lockVars
<1>13. CASE Capture!Create(c)
  BY <1>0, <1>13, JobsAssumption, StackIs
   DEF Capture!Create, Undisturbed, CaptureType, Capture!stackVars, Capture!lockVars
<1>14. CASE Capture!Write(c)
  BY <1>0, <1>14, JobsAssumption, StackIs
   DEF Capture!Write, Undisturbed, CaptureType, Capture!stackVars, Capture!lockVars
<1> QED
  BY <1>1, <1>2, <1>3, <1>4, <1>5, <1>6, <1>7, <1>8, <1>9, <1>10, <1>11, <1>12, <1>13, <1>14
   DEF Capture!CaptureStep

\* What is written is well typed.
LEMMA StepsType ==
  ASSUME CaptureType, NEW c \in Captures, Moved(c), Capture!CaptureStep(c), ~Capture!Kill(c)
  PROVE  CaptureType'
<1>0. /\ stage' \in [Captures -> Nat] /\ fate' \in [Captures -> Fates]
      /\ trouble' \in [Captures -> {"nothing", "traffic", "docker"}]
  BY MovedType
<1>1. CASE Capture!Look(c)
  BY <1>0, <1>1, JobsAssumption, StackIs
   DEF Capture!Look, CaptureType, Capture!stackVars, Capture!lockVars, Capture!Looks
<1>2. CASE Capture!Reserve(c)
  BY <1>0, <1>2, JobsAssumption, StackIs
   DEF Capture!Reserve, CaptureType, Capture!stackVars, Capture!lockVars
<1>3. CASE Capture!OpenSlot(c)
  BY <1>0, <1>3, JobsAssumption, StackIs
   DEF Capture!OpenSlot, CaptureType, Capture!stackVars, Capture!lockVars, Capture!SlotFree
<1>4. CASE Capture!Unlock(c)
  BY <1>0, <1>4, JobsAssumption, StackIs
   DEF Capture!Unlock, CaptureType, Capture!stackVars, Capture!lockVars
<1>5. CASE Capture!Acquire(c)
  BY <1>0, <1>5, JobsAssumption, StackIs
   DEF Capture!Acquire, CaptureType, Capture!stackVars, Capture!lockVars, Capture!Obtains,
       Capture!Obtainable
<1>6. CASE Capture!StopPostgres(c)
  BY <1>0, <1>6, JobsAssumption, StackIs
   DEF Capture!StopPostgres, CaptureType, Capture!stackVars, Capture!lockVars
<1>7. CASE Capture!SendTraffic(c)
  BY <1>0, <1>7, JobsAssumption, StackIs
   DEF Capture!SendTraffic, CaptureType, Capture!stackVars, Capture!lockVars, Capture!InTime
<1>8. CASE Capture!RestorePostgres(c)
  BY <1>0, <1>8, JobsAssumption, StackIs
   DEF Capture!RestorePostgres, CaptureType, Capture!stackVars, Capture!lockVars
<1>9. CASE Capture!Release(c)
  BY <1>0, <1>9, JobsAssumption, StackIs
   DEF Capture!Release, CaptureType, Capture!stackVars, Capture!lockVars
<1>10. CASE Capture!Observe(c)
  BY <1>0, <1>10, JobsAssumption, StackIs
   DEF Capture!Observe, CaptureType, Capture!stackVars, Capture!lockVars
<1>11. CASE Capture!Close(c)
  BY <1>0, <1>11, JobsAssumption, StackIs
   DEF Capture!Close, CaptureType, Capture!stackVars, Capture!lockVars
<1>12. CASE Capture!Judge(c)
  BY <1>0, <1>12, JobsAssumption, StackIs
   DEF Capture!Judge, CaptureType, Capture!stackVars, Capture!lockVars
<1>13. CASE Capture!Create(c)
  BY <1>0, <1>13, JobsAssumption, StackIs
   DEF Capture!Create, CaptureType, Capture!stackVars, Capture!lockVars
<1>14. CASE Capture!Write(c)
  BY <1>0, <1>14, JobsAssumption, StackIs
   DEF Capture!Write, CaptureType, Capture!stackVars, Capture!lockVars
<1> QED
  BY <1>1, <1>2, <1>3, <1>4, <1>5, <1>6, <1>7, <1>8, <1>9, <1>10, <1>11, <1>12, <1>13, <1>14
   DEF Capture!CaptureStep

\* Strangers take expired leases over, and nothing else of a capture's; what
\* becomes of its evidence is audited first.
LEMMA OthersDisturbNobody ==
  ASSUME CaptureType, NEW d \in Captures, OwnInv(d),
         \/ Capture!StrangerStep \/ Capture!Produce
         \/ \E c \in Captures : Capture!Audit(c) \/ Capture!Admit(c)
  PROVE  Undisturbed(d)
<1>1. ASSUME NEW s \in Capture!Stacks, Capture!Expire(s) PROVE Undisturbed(d)
  BY <1>1 DEF Capture!Expire, Undisturbed, CaptureType, Capture!processVars, Capture!lockVars
<1>2. ASSUME NEW s \in Capture!Stacks, Capture!TakeLease(s) PROVE Undisturbed(d)
  BY <1>2, JobsAssumption DEF Capture!TakeLease, Undisturbed, CaptureType, Capture!processVars,
     Capture!lockVars, Capture!Obtains, Capture!Obtainable
<1>3. ASSUME NEW s \in Capture!Stacks, Capture!GiveBack(s) PROVE Undisturbed(d)
  BY <1>3, JobsAssumption DEF Capture!GiveBack, Undisturbed, CaptureType, Capture!processVars,
     Capture!lockVars
<1>4. CASE Capture!Supervise
  BY <1>4 DEF Capture!Supervise, Undisturbed, Capture!processVars, Capture!stackVars
<1>5. CASE Capture!Produce
  BY <1>5 DEF Capture!Produce, Undisturbed, Capture!processVars, Capture!stackVars, Capture!lockVars
<1>6. ASSUME NEW c \in Captures, Capture!Audit(c) \/ Capture!Admit(c) PROVE Undisturbed(d)
  <2>1. Capture!Audit(c) => LooksAtLease(c)
    BY AcceptanceHasNoSlot DEF Capture!Audit, Capture!IsSlotted, LooksAtLease, Capture!Steps
  <2> QED
    BY <1>6, <2>1 DEF Capture!Audit, Capture!Admit, Undisturbed, Capture!processVars, Capture!stackVars,
       Capture!lockVars, CaptureType
<1> QED
  BY <1>1, <1>2, <1>3, <1>4, <1>5, <1>6 DEF Capture!StrangerStep

\* What they write is well typed.
LEMMA OthersType ==
  ASSUME CaptureType,
         \/ Capture!StrangerStep \/ Capture!Produce
         \/ \E c \in Captures : Capture!Audit(c) \/ Capture!Admit(c) \/ Capture!Kill(c)
  PROVE  CaptureType'
<1>1. ASSUME NEW s \in Capture!Stacks,
             Capture!Expire(s) \/ Capture!TakeLease(s) \/ Capture!GiveBack(s)
      PROVE  CaptureType'
  BY <1>1 DEF Capture!Expire, Capture!TakeLease, Capture!GiveBack, CaptureType,
     Capture!processVars, Capture!lockVars, Capture!Obtains
<1>2. CASE Capture!Supervise
  BY <1>2 DEF Capture!Supervise, CaptureType, Capture!processVars, Capture!stackVars
<1>3. CASE Capture!Produce
  <2>1. UNCHANGED <<job, stage, fate, trouble, evidence, holder, database, begun, admission>>
    BY <1>3 DEF Capture!Produce, Capture!processVars, Capture!stackVars, Capture!lockVars
  <2>2. \E what \in Products, next \in {"partial", "whole"} : Capture!Makes(what, next)
    BY <1>3 DEF Capture!Produce, Capture!Assemble, Capture!Train, Capture!Reveal, Capture!Predict,
       Capture!Starts, Capture!Finishes, Products
  <2>3. product' \in [Products -> {"none", "partial", "whole"}]
    BY <2>2 DEF Capture!Makes, CaptureType
  <2> QED
    BY <2>1, <2>3 DEF CaptureType
<1>4. ASSUME NEW c \in Captures, Capture!Audit(c) \/ Capture!Admit(c) PROVE CaptureType'
  BY <1>4 DEF Capture!Audit, Capture!Admit, CaptureType, Capture!processVars, Capture!stackVars,
     Capture!lockVars
<1>5. ASSUME NEW c \in Captures, Capture!Kill(c) PROVE CaptureType'
  BY <1>5 DEF Capture!Kill, Capture!Ends, CaptureType, Fates, Capture!stackVars, Capture!lockVars
<1> QED
  BY <1>1, <1>2, <1>3, <1>4, <1>5 DEF Capture!StrangerStep

\* A killed capture disturbs nobody.
LEMMA KillDisturbsNobody ==
  ASSUME CaptureType, NEW c \in Captures, Capture!Kill(c), NEW d \in Captures, d # c
  PROVE  Undisturbed(d)
BY DEF Capture!Kill, Capture!Ends, Undisturbed, CaptureType, Capture!stackVars, Capture!lockVars

\* The invariants of all captures are kept.
LEMMA OwnInvKept ==
  ASSUME CaptureType, \A c \in Captures : OwnInv(c), Capture!Next
  PROVE  CaptureType' /\ \A c \in Captures : OwnInv(c)'
<1>1. ASSUME NEW c \in Captures, Capture!CaptureStep(c), ~Capture!Kill(c)
      PROVE  CaptureType' /\ \A d \in Captures : OwnInv(d)'
  <2>1. OwnStep(c)
    BY <1>1, StepsAreOwn
  <2>2. Moved(c)
    BY <2>1, MovesAreMoved DEF OwnStep, OwnInv
  <2>3. CaptureType'
    BY <1>1, <2>2, StepsType
  <2>4. ASSUME NEW d \in Captures, d # c PROVE OwnInv(d)'
    BY <1>1, <2>1, <2>2, <2>4, StepsDisturbNobody, UndisturbedKeeps
  <2> QED
    BY <2>1, <2>3, <2>4, OwnStepKeeps
<1>2. ASSUME NEW c \in Captures, Capture!Kill(c)
      PROVE  CaptureType' /\ \A d \in Captures : OwnInv(d)'
  <2>1. ASSUME NEW d \in Captures, d # c PROVE OwnInv(d)'
    BY <1>2, <2>1, KillDisturbsNobody, UndisturbedKeeps
  <2> QED
    BY <1>2, <2>1, KillKeeps, OthersType
<1>3. CASE \/ Capture!StrangerStep \/ Capture!Produce
           \/ \E c \in Captures : Capture!Audit(c) \/ Capture!Admit(c)
  BY <1>3, OthersDisturbNobody, UndisturbedKeeps, OthersType
<1> QED
  BY <1>1, <1>2, <1>3 DEF Capture!Next

\* PostgreSQL is stopped by the step that does it, and stays so when Docker
\* does not restore it.
LEMMA StepsStop ==
  ASSUME CaptureType, NEW c \in Captures, Capture!CaptureStep(c), ~Capture!Kill(c),
         NEW s \in Capture!Stacks, database'[s] = "down"
  PROVE  \/ /\ database[s] = "down"
            /\ Capture!Step(c) = "restore" /\ s = Capture!StackOf(c) => Capture!Breaks(c, "docker")
         \/ Capture!Step(c) = "stop" /\ s = Capture!StackOf(c)
<1>1. CASE Capture!Look(c)
  BY <1>1, StackIs DEF Capture!Look, Capture!At, CaptureType, Capture!stackVars, Capture!Looks
<1>2. CASE Capture!Reserve(c)
  BY <1>2, StackIs DEF Capture!Reserve, Capture!At, CaptureType, Capture!stackVars
<1>3. CASE Capture!OpenSlot(c)
  BY <1>3, StackIs DEF Capture!OpenSlot, Capture!At, CaptureType, Capture!stackVars
<1>4. CASE Capture!Unlock(c)
  BY <1>4, StackIs DEF Capture!Unlock, Capture!At, CaptureType, Capture!stackVars
<1>5. CASE Capture!Acquire(c)
  BY <1>5, StackIs DEF Capture!Acquire, Capture!At, CaptureType, Capture!stackVars
<1>6. CASE Capture!StopPostgres(c)
  BY <1>6, StackIs DEF Capture!StopPostgres, Capture!At, CaptureType, Capture!stackVars
<1>7. CASE Capture!SendTraffic(c)
  BY <1>7, StackIs DEF Capture!SendTraffic, Capture!At, CaptureType, Capture!stackVars
<1>8. CASE Capture!RestorePostgres(c)
  BY <1>8, StackIs DEF Capture!RestorePostgres, Capture!At, CaptureType, Capture!stackVars
<1>9. CASE Capture!Release(c)
  BY <1>9, StackIs DEF Capture!Release, Capture!At, CaptureType, Capture!stackVars
<1>10. CASE Capture!Observe(c)
  BY <1>10, StackIs DEF Capture!Observe, Capture!At, CaptureType, Capture!stackVars
<1>11. CASE Capture!Close(c)
  BY <1>11, StackIs DEF Capture!Close, Capture!At, CaptureType, Capture!stackVars
<1>12. CASE Capture!Judge(c)
  BY <1>12, StackIs DEF Capture!Judge, Capture!At, CaptureType, Capture!stackVars
<1>13. CASE Capture!Create(c)
  BY <1>13, StackIs DEF Capture!Create, Capture!At, CaptureType, Capture!stackVars
<1>14. CASE Capture!Write(c)
  BY <1>14, StackIs DEF Capture!Write, Capture!At, CaptureType, Capture!stackVars
<1> QED
  BY <1>1, <1>2, <1>3, <1>4, <1>5, <1>6, <1>7, <1>8, <1>9, <1>10, <1>11, <1>12, <1>13, <1>14
   DEF Capture!CaptureStep

\* What c does for PostgreSQL to be down: it has still to restore it, or was
\* killed, or Docker could not.
DownBecause(c, s) ==
    /\ Capture!StackOf(c) = s /\ HasStep(c, "restore")
    /\ \/ /\ Alive(c) /\ Ahead(c, "restore")
          /\ Passed(c, "stop") \/ Capture!Step(c) = "stop"
       \/ fate[c] = "dead"
       \/ trouble[c] = "docker"
\* A PostgreSQL that is down has such a cause.
DownHasCause ==
    \A s \in Capture!Stacks : database[s] = "down" => \E c \in Captures : DownBecause(c, s)

\* A cause is not removed by another's step.
LEMMA CauseUndisturbed ==
  ASSUME NEW c \in Captures, NEW s, DownBecause(c, s), Undisturbed(c)
  PROVE  DownBecause(c, s)'
<1>1. /\ Capture!Steps(c)' = Capture!Steps(c) /\ Capture!StackOf(c)' = Capture!StackOf(c)
      /\ stage'[c] = stage[c] /\ fate'[c] = fate[c] /\ trouble'[c] = trouble[c]
  BY DEF Undisturbed, Capture!Steps, Capture!Program, Capture!StackOf
<1> QED
  BY <1>1 DEF DownBecause, HasStep, Ahead, Passed, Alive, Capture!Step

\* Nor by c's own, unless PostgreSQL is up after it.
LEMMA CauseStays ==
  ASSUME CaptureType, NEW c \in Captures, OwnInv(c), Capture!CaptureStep(c), ~Capture!Kill(c),
         OwnStep(c), NEW s \in Capture!Stacks, database[s] = "down", database'[s] = "down",
         DownBecause(c, s)
  PROVE  DownBecause(c, s)'
<1>0. Alive(c) /\ Placed(c) /\ job' = job /\ Moves(c) /\ Moved(c)
  BY MovesAreMoved DEF OwnInv, OwnStep
<1>1. /\ Capture!Steps(c)' = Capture!Steps(c) /\ Capture!StackOf(c)' = Capture!StackOf(c)
      /\ HasStep(c, "restore")' /\ Capture!StackOf(c) = s
  BY <1>0 DEF DownBecause, HasStep, Capture!Steps, Capture!Program, Capture!StackOf
<1>2. CASE trouble[c] = "docker"
  <2>1. Capture!Pending(c) = {} /\ trouble[c] # "nothing"
    BY <1>0, <1>2, ReleaseIsLast DEF Placed
  <2>2. trouble' = trouble
    BY <1>0, <2>1 DEF Moves, Capture!Passes, Capture!Breaks
  <2> QED
    BY <1>1, <1>2, <2>2 DEF DownBecause
<1>3. CASE trouble[c] # "docker"
  <2>1. Ahead(c, "restore") /\ (Passed(c, "stop") \/ Capture!Step(c) = "stop")
    BY <1>0, <1>3 DEF DownBecause, Alive
  <2>2. CASE Capture!Step(c) # "restore"
    <3>1. Alive(c)' /\ Ahead(c, "restore")'
      BY <1>0, <2>1, <2>2, AheadKept
    <3>2. Passed(c, "stop")'
      BY <1>0, <2>1, <3>1, PassedKept
    <3> QED
      BY <1>1, <3>1, <3>2 DEF DownBecause
  <2>3. CASE Capture!Step(c) = "restore"
    <3>1. Capture!Breaks(c, "docker")
      BY <1>1, <2>3, StepsStop
    <3>2. Capture!Pending(c) # {}
      <4> DEFINE p == Capture!Steps(c)
                 i == stage[c]
      <4>1. i \in 1 .. Len(p) /\ Len(p) \in Nat /\ p[i] = "restore"
        BY <1>0, <2>3, StepsAreDisciplined DEF Placed, Disciplined, Capture!Step
      <4>2. PICK k \in 1 .. i - 1 : p[k] = "acquire"
        BY <4>1, StepsAreDisciplined DEF Disciplined, RestoresInside
      <4>3. PICK j \in i + 1 .. Len(p) : p[j] = "release"
        BY <4>1, StepsAreDisciplined DEF Disciplined, RestoresInside
      <4>4. k \in 1 .. i /\ k < i /\ <<p[k], p[j]>> \in Capture!Undoes
        BY <4>1, <4>2, <4>3 DEF Capture!Undoes
      <4> QED
        BY <4>3, <4>4 DEF Capture!Pending
    <3>3. trouble'[c] = "docker"
      BY <3>1, <3>2 DEF Capture!Breaks, CaptureType
    <3> QED
      BY <1>1, <3>3 DEF DownBecause
  <2> QED
    BY <2>2, <2>3
<1> QED
  BY <1>2, <1>3

\* Who stops PostgreSQL has still to restore it.
LEMMA CauseBegins ==
  ASSUME CaptureType, NEW c \in Captures, OwnInv(c), OwnStep(c), Capture!Step(c) = "stop"
  PROVE  DownBecause(c, Capture!StackOf(c))'
<1> DEFINE p == Capture!Steps(c)
           i == stage[c]
<1>0. Alive(c) /\ Placed(c) /\ job' = job /\ Moved(c)
  BY MovesAreMoved DEF OwnInv, OwnStep
<1>1. i \in 1 .. Len(p) /\ Len(p) \in Nat /\ p[i] = "stop"
  BY <1>0, StepsAreDisciplined DEF Placed, Disciplined, Capture!Step
<1>2. PICK j \in i + 1 .. Len(p) : p[j] = "restore"
  BY <1>1, StepsAreDisciplined DEF Disciplined, TakesOnce
<1>3. Ahead(c, "restore") /\ HasStep(c, "restore")
  BY <1>1, <1>2 DEF Ahead, HasStep
<1>4. Alive(c)' /\ Ahead(c, "restore")'
  BY <1>0, <1>3, AheadKept
<1>5. Passed(c, "stop")'
  BY <1>0, <1>4, PassedKept
<1>6. HasStep(c, "restore")'
  BY <1>0, <1>3 DEF HasStep, Capture!Steps, Capture!Program
<1> QED
  BY <1>4, <1>5, <1>6 DEF DownBecause

\* PostgreSQL is never down without a cause.
LEMMA CausesKept ==
  ASSUME CaptureType, \A c \in Captures : OwnInv(c), DownHasCause, Capture!Next
  PROVE  DownHasCause'
<1> SUFFICES ASSUME NEW s \in Capture!Stacks, database'[s] = "down"
             PROVE  \E c \in Captures : DownBecause(c, s)'
  BY DEF DownHasCause, Capture!Stacks
<1>1. ASSUME NEW c \in Captures, Capture!CaptureStep(c), ~Capture!Kill(c)
      PROVE  \E d \in Captures : DownBecause(d, s)'
  <2>1. OwnStep(c) /\ Moved(c)
    BY <1>1, StepsAreOwn, MovesAreMoved DEF OwnStep, OwnInv
  <2>2. CASE database[s] = "down"
    <3>1. PICK d \in Captures : DownBecause(d, s)
      BY <2>2 DEF DownHasCause
    <3>2. CASE d = c
      BY <1>1, <2>1, <2>2, <3>1, <3>2, CauseStays
    <3>3. CASE d # c
      BY <1>1, <2>1, <3>1, <3>3, StepsDisturbNobody, CauseUndisturbed
    <3> QED
      BY <3>2, <3>3
  <2>3. CASE database[s] # "down"
    <3>1. Capture!Step(c) = "stop" /\ s = Capture!StackOf(c)
      BY <1>1, <2>3, StepsStop
    <3>2. Capture!StackOf(c)' = Capture!StackOf(c)
      BY <2>1 DEF OwnStep, Capture!StackOf, Capture!Program
    <3> QED
      BY <2>1, <3>1, <3>2, CauseBegins DEF DownBecause
  <2> QED
    BY <2>2, <2>3
<1>2. ASSUME NEW c \in Captures, Capture!Kill(c)
      PROVE  \E d \in Captures : DownBecause(d, s)'
  <2>1. database' = database
    BY <1>2 DEF Capture!Kill, Capture!stackVars
  <2>2. PICK d \in Captures : DownBecause(d, s)
    BY <2>1 DEF DownHasCause
  <2>3. CASE d = c
    <3>1. fate'[c] = "dead" /\ job' = job
      BY <1>2 DEF Capture!Kill, Capture!Ends, CaptureType
    <3> QED
      BY <2>2, <2>3, <3>1 DEF DownBecause, HasStep, Capture!Steps, Capture!Program, Capture!StackOf
  <2>4. CASE d # c
    BY <1>2, <2>2, <2>4, KillDisturbsNobody, CauseUndisturbed
  <2> QED
    BY <2>3, <2>4
<1>3. CASE \/ Capture!StrangerStep \/ Capture!Produce
           \/ \E c \in Captures : Capture!Audit(c) \/ Capture!Admit(c)
  <2>1. database' = database
    BY <1>3 DEF Capture!StrangerStep, Capture!Produce, Capture!Audit, Capture!Admit, Capture!Expire,
       Capture!TakeLease, Capture!GiveBack, Capture!Supervise, Capture!stackVars
  <2>2. PICK d \in Captures : DownBecause(d, s)
    BY <2>1 DEF DownHasCause
  <2> QED
    BY <1>3, <2>2, OthersDisturbNobody, CauseUndisturbed
<1> QED
  BY <1>1, <1>2, <1>3 DEF Capture!Next

\* What is on file stays: whole evidence, the directory of a slot, a receipt;
\* and the product is made by its own steps only.
Lasting ==
    /\ job' = job
    /\ \A c \in Captures :
          /\ evidence[c] = "whole" => evidence'[c] = "whole"
          /\ admission[c] = "admitted" => admission'[c] = "admitted"
    /\ \A n \in Slots : begun[n] # Nobody => begun'[n] = begun[n]

\* Nothing on file is ever replaced.
LEMMA FilesLast ==
  ASSUME CaptureType, \A c \in Captures : OwnInv(c), Capture!Next
  PROVE  Lasting /\ (Capture!Produce \/ product' = product)
<1>1. ASSUME NEW c \in Captures, Capture!CaptureStep(c), ~Capture!Kill(c)
      PROVE  Lasting /\ product' = product
  <2>1. OwnStep(c) /\ Moved(c)
    BY <1>1, StepsAreOwn, MovesAreMoved DEF OwnStep, OwnInv
  <2>2. ASSUME NEW d \in Captures, d # c PROVE evidence'[d] = evidence[d]
    BY <1>1, <2>1, <2>2, StepsDisturbNobody DEF Undisturbed
  <2>3. \A d \in Captures : evidence[d] = "whole" => evidence'[d] = "whole"
    BY <2>1, <2>2, WholeStays
  <2>4. job' = job /\ admission' = admission
    BY <2>1 DEF OwnStep
  <2>5. \A n \in Slots : begun[n] # Nobody => begun'[n] = begun[n]
    BY <1>1, JobsAssumption
     DEF Capture!CaptureStep, Capture!Look, Capture!Reserve, Capture!OpenSlot,
       Capture!Unlock, Capture!Acquire, Capture!StopPostgres, Capture!SendTraffic,
       Capture!RestorePostgres, Capture!Release, Capture!Observe, Capture!Close, Capture!Judge,
       Capture!Create, Capture!Write, Capture!lockVars, Capture!SlotFree, CaptureType
  <2>6. product' = product
    BY <1>1 DEF Capture!CaptureStep, Capture!Look, Capture!Reserve, Capture!OpenSlot,
       Capture!Unlock, Capture!Acquire, Capture!StopPostgres, Capture!SendTraffic,
       Capture!RestorePostgres, Capture!Release, Capture!Observe, Capture!Close, Capture!Judge,
       Capture!Create, Capture!Write
  <2> QED
    BY <2>3, <2>4, <2>5, <2>6 DEF Lasting
<1>2. ASSUME NEW c \in Captures, Capture!Kill(c) PROVE Lasting /\ product' = product
  BY <1>2 DEF Capture!Kill, Lasting, Capture!lockVars
<1>3. CASE Capture!StrangerStep
  BY <1>3 DEF Capture!StrangerStep, Capture!Expire, Capture!TakeLease, Capture!GiveBack,
     Capture!Supervise, Capture!processVars, Capture!lockVars, Lasting
<1>4. CASE Capture!Produce
  BY <1>4 DEF Capture!Produce, Capture!processVars, Capture!lockVars, Lasting
<1>5. ASSUME NEW c \in Captures, Capture!Audit(c) \/ Capture!Admit(c)
      PROVE  Lasting /\ product' = product
  BY <1>5
   DEF Capture!Audit, Capture!Admit, Capture!processVars, Capture!lockVars, Lasting, CaptureType
<1> QED
  BY <1>1, <1>2, <1>3, <1>4, <1>5 DEF Capture!Next

\* The product rests on what was there before.
LEMMA ScoreKept ==
  ASSUME CaptureType, \A c \in Captures : OwnInv(c), Capture!ScoreRestsOnReceipts, Capture!Next
  PROVE  Capture!ScoreRestsOnReceipts'
<1>1. Lasting /\ (Capture!Produce \/ product' = product)
  BY FilesLast
<1>2. \A c \in Captures : Capture!Program(c)' = Capture!Program(c)
  BY <1>1 DEF Lasting, Capture!Program
<1> DEFINE Unknown == \E c \in Captures : Capture!Program(c) = "unknown" /\ evidence[c] = "whole"
           Receipted == \A n \in Slots :
                           /\ begun[n] # Nobody
                           /\ evidence[begun[n]] = "whole" /\ admission[begun[n]] = "admitted"
<1>3. Unknown => Unknown'
  BY <1>1, <1>2 DEF Lasting
<1>4. Receipted => Receipted'
  BY <1>1 DEF Lasting, CaptureType
<1>5. /\ product.score # "none" => product.receipt = "whole"
      /\ product.receipt # "none" => product.model = "whole" /\ Unknown
      /\ product.data # "none" /\ ~job.trained => Receipted
  BY DEF Capture!ScoreRestsOnReceipts
<1>6. CASE product' = product
  BY <1>1, <1>3, <1>4, <1>5, <1>6 DEF Capture!ScoreRestsOnReceipts, Lasting
<1>7. CASE Capture!Produce
  <2>1. CASE Capture!Assemble
    <3>1. Receipted
      BY <2>1, JobsAssumption
       DEF Capture!Assemble, Capture!HasReceipt, OwnInv, AuditedIsWhole, CaptureType
    <3>2. /\ product'.score = product.score /\ product'.receipt = product.receipt
          /\ product'.model = product.model
      BY <2>1 DEF Capture!Assemble, Capture!Starts, Capture!Makes, CaptureType, Products
    <3> QED
      BY <1>1, <1>3, <1>4, <1>5, <3>1, <3>2 DEF Capture!ScoreRestsOnReceipts, Lasting
  <2>2. CASE Capture!Train
    <3>1. /\ product'.score = product.score /\ product'.receipt = product.receipt
          /\ product'.data = product.data /\ product.model = "none"
      BY <2>2 DEF Capture!Train, Capture!Starts, Capture!Makes, CaptureType, Products
    <3> QED
      BY <1>1, <1>3, <1>4, <1>5, <3>1 DEF Capture!ScoreRestsOnReceipts, Lasting
  <2>3. CASE Capture!Reveal
    <3>1. /\ product'.receipt = product.receipt /\ product.receipt = "whole"
          /\ product'.data = product.data /\ product'.model = product.model
      BY <2>3 DEF Capture!Reveal, Capture!Starts, Capture!Makes, CaptureType, Products
    <3> QED
      BY <1>1, <1>3, <1>4, <1>5, <3>1 DEF Capture!ScoreRestsOnReceipts, Lasting
  <2>4. ASSUME NEW c \in Captures, Capture!Predict(c) PROVE Capture!ScoreRestsOnReceipts'
    <3>1. /\ product'.score = product.score /\ product.receipt = "none" /\ product.model = "whole"
          /\ product'.data = product.data /\ product'.model = product.model /\ Unknown
      BY <2>4 DEF Capture!Predict, Capture!Starts, Capture!Makes, CaptureType, Products
    <3> QED
      BY <1>1, <1>3, <1>4, <1>5, <3>1 DEF Capture!ScoreRestsOnReceipts, Lasting
  <2>5. ASSUME NEW what \in Products, Capture!Finishes(what)
        PROVE  Capture!ScoreRestsOnReceipts'
    <3>1. /\ product[what] = "partial" /\ product'[what] = "whole"
          /\ \A other \in Products : other # what => product'[other] = product[other]
      BY <2>5 DEF Capture!Finishes, Capture!Makes, CaptureType
    <3>2. /\ product'.score # "none" => product.score # "none"
          /\ product'.receipt # "none" => product.receipt # "none"
          /\ product'.data # "none" => product.data # "none"
          /\ product.receipt = "whole" => product'.receipt = "whole"
          /\ product.model = "whole" => product'.model = "whole"
      BY <3>1 DEF Products
    <3> QED
      BY <1>1, <1>3, <1>4, <1>5, <3>2 DEF Capture!ScoreRestsOnReceipts, Lasting
  <2> QED
    BY <1>7, <2>1, <2>2, <2>3, <2>4, <2>5 DEF Capture!Produce, Products
<1> QED
  BY <1>1, <1>6, <1>7

-----------------------------------------------------------------------------
(* What EvidencePipeline promises of captures *)

\* The invariant of the captures.
CaptureInv ==
    /\ CaptureType /\ (\A c \in Captures : OwnInv(c))
    /\ DownHasCause /\ Capture!ScoreRestsOnReceipts

\* The invariant holds at first.
LEMMA CaptureInit == AllInit => CaptureInv
<1> SUFFICES ASSUME AllInit PROVE CaptureInv
  OBVIOUS
<1>1. Capture!Init
  BY DEF AllInit
<1>2. CaptureType
  <2>1. product \in [Products -> {"none", "partial", "whole"}]
    BY <1>1 DEF Capture!Init, Products
  <2> QED
    BY <1>1, <2>1 DEF Capture!Init, CaptureType, Fates
<1>3. ASSUME NEW c \in Captures PROVE OwnInv(c)
  <2>1. Disciplined(Capture!Steps(c)) /\ c # Nobody
    BY <1>2, StepsAreDisciplined, JobsAssumption
  <2>2. /\ stage[c] = 1 /\ trouble[c] = "nothing" /\ evidence[c] = "none" /\ admission[c] = "none"
        /\ spoiled = {} /\ (\A s \in Capture!Stacks : holder[s] # c) /\ (\A n \in Slots : begun[n] # c)
        /\ Alive(c) => Capture!Steps(c) # <<>>
    BY <1>1, <2>1 DEF Capture!Init, Alive
  <2>3. ASSUME Alive(c) PROVE 1 \in 1 .. Len(Capture!Steps(c))
    <3>1. Capture!Steps(c) \in {Capture!Programs[name] : name \in DOMAIN Capture!Programs}
      BY <1>2, JobsAssumption DEF CaptureType, Capture!Steps, Capture!Program
    <3> QED
      BY <2>1, <2>2, <2>3, <3>1, NoneIsEmpty
  <2>4. Placed(c)
    BY <2>2, <2>3 DEF Placed
  <2>5. Capture!Step(c) \notin {"slot", "unlock"} \/ ~Alive(c)
    <3>1. ASSUME Alive(c) PROVE Capture!Steps(c)[1] \notin {"slot", "unlock"}
      <4>1. FilesInOrder(Capture!Steps(c)) /\ 1 \in 1 .. Len(Capture!Steps(c)) /\ ~(1 > 1)
        BY <2>1, <2>3, <3>1 DEF Disciplined
      <4> QED
        BY <4>1 DEF FilesInOrder
    <3> QED
      BY <2>2, <3>1 DEF Capture!Step
  <2> QED
    BY <2>2, <2>4, <2>5 DEF OwnInv, FiledLast, SpoiledIsLate, AuditedIsWhole, HeldInside,
       ReservesSlot, BeginsReserved
<1>4. DownHasCause
  BY <1>1 DEF Capture!Init, DownHasCause
<1>5. Capture!ScoreRestsOnReceipts
  BY <1>1, JobsAssumption DEF Capture!Init, Capture!ScoreRestsOnReceipts
<1> QED
  BY <1>2, <1>3, <1>4, <1>5 DEF CaptureInv

\* And always: the other campaigns leave what captures share alone.
LEMMA CaptureInvariant == AllSpec => []CaptureInv
<1>1. CaptureInv /\ [AllNext]_allVars => CaptureInv'
  <2> SUFFICES ASSUME CaptureInv, [AllNext]_allVars PROVE CaptureInv'
    OBVIOUS
  <2>1. Capture!Next \/ UNCHANGED captureVars
    BY DEF AllNext, allVars
  <2>2. CASE Capture!Next
    BY <2>2, OwnInvKept, CausesKept, ScoreKept DEF CaptureInv
  <2>3. CASE UNCHANGED captureVars
    <3>1. CaptureType'
      BY <2>3 DEF CaptureInv, CaptureType, captureVars
    <3>2. ASSUME NEW c \in Captures PROVE Undisturbed(c)
      BY <2>3 DEF Undisturbed, captureVars
    <3>3. \A c \in Captures : OwnInv(c)'
      BY <3>2, UndisturbedKeeps DEF CaptureInv
    <3>4. DownHasCause'
      BY <2>3, <3>2, CauseUndisturbed DEF CaptureInv, DownHasCause, captureVars
    <3>5. Capture!ScoreRestsOnReceipts'
      BY <2>3 DEF CaptureInv, captureVars, Capture!ScoreRestsOnReceipts, Capture!Program
    <3> QED
      BY <3>1, <3>3, <3>4, <3>5 DEF CaptureInv
  <2> QED
    BY <2>1, <2>2, <2>3
<1> QED
  BY <1>1, CaptureInit, PTL DEF AllSpec

\* An attempt at a slot that did not end with whole evidence still has the
\* reservation, for any number of captures and slots (HalfDoneBlocks).
THEOREM HalfDoneStaysReserved == AllSpec => []HalfDoneBlocks
<1>1. CaptureInv => HalfDoneBlocks
  BY DEF CaptureInv, CaptureType, OwnInv, BeginsReserved, HalfDoneBlocks, Capture!HalfDoneBlocks
<1> QED
  BY <1>1, CaptureInvariant, PTL

\* What is admitted, or is a whole unknown, was observed under its own lease
\* to the end (ObservedUnderOwnFault).
THEOREM EvidenceIsOwn == AllSpec => []ObservedUnderOwnFault
<1>1. CaptureInv => ObservedUnderOwnFault
  BY DEF CaptureInv, OwnInv, SpoiledIsLate, AuditedIsWhole, ObservedUnderOwnFault,
     Capture!ObservedUnderOwnFault, LooksAtLease
<1> QED
  BY <1>1, CaptureInvariant, PTL

\* Who was not killed has given the lease up, and PostgreSQL is down only
\* with a cause (CapturesCleanUp).
THEOREM CapturesLeaveNothing == AllSpec => []CapturesCleanUp
<1>1. CaptureInv => CapturesCleanUp
  <2> SUFFICES ASSUME CaptureInv PROVE Capture!CapturesCleanUp
    BY DEF CapturesCleanUp
  <2>1. \A c \in Captures, s \in Capture!Stacks : fate[c] \in {"done", "failed"} => holder[s] # c
    BY DEF CaptureInv, OwnInv, HeldInside, Alive
  <2>2. ASSUME NEW s \in Capture!Stacks, NEW c \in Captures, DownBecause(c, s)
        PROVE  /\ Capture!StackOf(c) = s
               /\ \E i \in DOMAIN Capture!Steps(c) : Capture!Steps(c)[i] = "restore"
               /\ \/ fate[c] = "running" /\ \E i \in stage[c] .. Len(Capture!Steps(c)) :
                                               Capture!Steps(c)[i] = "restore"
                  \/ fate[c] = "dead" \/ trouble[c] = "docker"
    BY <2>2, StepsAreDisciplined DEF CaptureInv, Disciplined, DownBecause, HasStep, Ahead, Alive
  <2> QED
    BY <2>1, <2>2 DEF CaptureInv, DownHasCause, Capture!CapturesCleanUp
<1> QED
  BY <1>1, CaptureInvariant, PTL

\* A score rests on a prediction on file, this on a whole unknown and the
\* frozen model, and the assembled data on a receipt for every slot, for any
\* number of slots (ScoreRestsOnReceipts).
THEOREM ScoresAreFounded == AllSpec => []ScoreRestsOnReceipts
<1>1. CaptureInv => ScoreRestsOnReceipts
  BY DEF CaptureInv, ScoreRestsOnReceipts
<1> QED
  BY <1>1, CaptureInvariant, PTL

-----------------------------------------------------------------------------
(* Every pilot is a PilotRun *)

\* Where PilotRun has a pilot of kind k at step i of its program p, where a
\* step that passes takes it, and where one that raises does.
PhaseAt(p, k, i) == IF i = 1 THEN "start" ELSE Capture!Phase(k, p[i])

PassTo(k, i, what) ==
    IF i = 1 THEN IF k = "healthy" THEN "traffic" ELSE "ready"
    ELSE IF what = "acquire" THEN IF k = "outage" THEN "stop" ELSE "traffic"
    ELSE IF what \in {"own", "stop"} THEN "traffic"
    ELSE IF what = "traffic" THEN IF k = "healthy" THEN "clear"
                                  ELSE IF k = "fault" THEN "release" ELSE "restore"
    ELSE IF what = "restore" THEN "release"
    ELSE IF what = "release" THEN "clear"
    ELSE IF what \in {"clean", "settle"} THEN IF k = "healthy" THEN "create" ELSE "recover"
    ELSE IF what = "recover" THEN "check"
    ELSE IF what \in {"check", "judge"} THEN IF k = "healthy" THEN "clear" ELSE "create"
    ELSE IF what = "create" THEN "write" ELSE "done"

BreakTo(k, what) ==
    IF k = "fault" /\ what \in {"own", "traffic"} THEN "release"
    ELSE IF k = "outage" /\ what \in {"stop", "traffic"} THEN "restore"
    ELSE IF k = "outage" /\ what = "restore" THEN "release"
    ELSE "failed"

\* The finally clauses that are pending at step i of p.
PendingAt(p, i) ==
    {j \in i + 1 .. Len(p) :
       \E k \in 1 .. i : <<p[k], p[j]>> \in Capture!Undoes /\ (k < i \/ p[i] = "stop")}

PilotNames == {"clean", "acquire", "own", "stop", "traffic", "restore", "release",
               "settle", "recover", "check", "judge", "create", "write"}

\* Which steps a pilot of kind k takes.
Kinded(p, k) ==
    \A i \in 1 .. Len(p) :
       /\ p[i] \in PilotNames
       /\ i = 1 => p[i] = "clean"
       /\ k = "healthy" => p[i] \in {"clean", "traffic", "check", "create", "write"}
       /\ p[i] = "own" => k = "fault"
       /\ p[i] \in {"stop", "restore"} => k = "outage"
       /\ p[i] = "write" <=> i = Len(p)

\* How a pilot goes on, and how it unwinds.
PassesOn(p, k) ==
    \A i \in 1 .. Len(p) - 1 : PhaseAt(p, k, i + 1) = PassTo(k, i, p[i])
UnwindsTo(p, k) ==
    \A i \in 1 .. Len(p) :
       \/ BreakTo(k, p[i]) = "failed" /\ PendingAt(p, i) = {}
       \/ /\ BreakTo(k, p[i]) # "failed"
          /\ \E j \in PendingAt(p, i) : /\ \A m \in PendingAt(p, i) : j <= m
                                       /\ PhaseAt(p, k, j) = BreakTo(k, p[i])

\* The evidence is looked at before there is a directory for it.
CreatesLate(p) ==
    \A i \in 1 .. Len(p) : p[i] \in {"check", "judge"} => \A j \in 1 .. i : p[j] # "create"

\* A program in which PilotRun has a pilot of kind k.
Shaped(p, k) == Kinded(p, k) /\ PassesOn(p, k) /\ UnwindsTo(p, k) /\ CreatesLate(p)

\* The shape of HealthyPilot.
LEMMA HealthyPilotIsShaped == Shaped(Capture!HealthyPilot, "healthy")
<1> DEFINE p == Capture!HealthyPilot
<1>1. /\ Len(p) = 6 /\ p[1] = "clean" /\ p[2] = "traffic" /\ p[3] = "check"
      /\ p[4] = "clean" /\ p[5] = "create" /\ p[6] = "write"
  BY DEF Capture!HealthyPilot
<1> HIDE DEF p
<1>2. Kinded(p, "healthy")
  BY <1>1, Positions DEF Kinded, PilotNames
<1>3. PassesOn(p, "healthy")
  BY <1>1, Positions DEF PassesOn, PhaseAt, PassTo, Capture!Phase
<1>4. \A i \in 1 .. 6 : PendingAt(p, i) = {}
  BY <1>1, Positions DEF PendingAt, Capture!Undoes
<1>5. UnwindsTo(p, "healthy")
  BY <1>1, <1>4 DEF UnwindsTo, BreakTo
<1>6. CreatesLate(p)
  BY <1>1, Positions DEF CreatesLate
<1> QED
  BY <1>2, <1>3, <1>5, <1>6 DEF Shaped, p

\* The shape of RateCalibration.
LEMMA RateCalibrationIsShaped == Shaped(Capture!RateCalibration, "healthy")
<1> DEFINE p == Capture!RateCalibration
<1>1. /\ Len(p) = 6 /\ p[1] = "clean" /\ p[2] = "traffic" /\ p[3] = "check"
      /\ p[4] = "clean" /\ p[5] = "create" /\ p[6] = "write"
  BY DEF Capture!RateCalibration
<1> HIDE DEF p
<1>2. Kinded(p, "healthy")
  BY <1>1, Positions DEF Kinded, PilotNames
<1>3. PassesOn(p, "healthy")
  BY <1>1, Positions DEF PassesOn, PhaseAt, PassTo, Capture!Phase
<1>4. \A i \in 1 .. 6 : PendingAt(p, i) = {}
  BY <1>1, Positions DEF PendingAt, Capture!Undoes
<1>5. UnwindsTo(p, "healthy")
  BY <1>1, <1>4 DEF UnwindsTo, BreakTo
<1>6. CreatesLate(p)
  BY <1>1, Positions DEF CreatesLate
<1> QED
  BY <1>2, <1>3, <1>5, <1>6 DEF Shaped, p

\* The shape of ErrorPilot.
LEMMA ErrorPilotIsShaped == Shaped(Capture!ErrorPilot, "fault")
<1> DEFINE p == Capture!ErrorPilot
<1>1. /\ Len(p) = 10 /\ p[1] = "clean" /\ p[2] = "acquire" /\ p[3] = "own"
      /\ p[4] = "traffic" /\ p[5] = "release" /\ p[6] = "clean" /\ p[7] = "recover"
      /\ p[8] = "check" /\ p[9] = "create" /\ p[10] = "write"
  BY DEF Capture!ErrorPilot
<1> HIDE DEF p
<1>2. Kinded(p, "fault")
  BY <1>1, Positions DEF Kinded, PilotNames
<1>3. PassesOn(p, "fault")
  BY <1>1, Positions DEF PassesOn, PhaseAt, PassTo, Capture!Phase
<1>4. ASSUME NEW i \in 1 .. 10, NEW j
      PROVE  j \in PendingAt(p, i) <=> (i = 3 /\ j = 5) \/ (i = 4 /\ j = 5)
  BY <1>1, Positions DEF PendingAt, Capture!Undoes
<1>5. UnwindsTo(p, "fault")
  <2> SUFFICES ASSUME NEW i \in 1 .. 10
               PROVE  \/ BreakTo("fault", p[i]) = "failed" /\ PendingAt(p, i) = {}
                      \/ /\ BreakTo("fault", p[i]) # "failed"
                         /\ \E j \in PendingAt(p, i) : /\ \A m \in PendingAt(p, i) : j <= m
                                  /\ PhaseAt(p, "fault", j) = BreakTo("fault", p[i])
    BY <1>1 DEF UnwindsTo
  <2>1. CASE i = 3
    <3>1. 5 \in PendingAt(p, i) /\ \A m \in PendingAt(p, i) : 5 <= m
      BY <1>4, <2>1
    <3>2. BreakTo("fault", p[i]) # "failed" /\ PhaseAt(p, "fault", 5) = BreakTo("fault", p[i])
      BY <1>1, <2>1 DEF BreakTo, PhaseAt, Capture!Phase
    <3> QED
      BY <3>1, <3>2
  <2>2. CASE i = 4
    <3>1. 5 \in PendingAt(p, i) /\ \A m \in PendingAt(p, i) : 5 <= m
      BY <1>4, <2>2
    <3>2. BreakTo("fault", p[i]) # "failed" /\ PhaseAt(p, "fault", 5) = BreakTo("fault", p[i])
      BY <1>1, <2>2 DEF BreakTo, PhaseAt, Capture!Phase
    <3> QED
      BY <3>1, <3>2
  <2>3. CASE i \notin {3, 4}
    <3>1. PendingAt(p, i) = {}
      BY <1>4, <2>3
    <3>2. BreakTo("fault", p[i]) = "failed"
      BY <1>1, <2>3, Positions DEF BreakTo
    <3> QED
      BY <3>1, <3>2
  <2> QED
    BY <2>1, <2>2, <2>3
<1>6. CreatesLate(p)
  BY <1>1, Positions DEF CreatesLate
<1> QED
  BY <1>2, <1>3, <1>5, <1>6 DEF Shaped, p

\* The shape of ResourcePilot.
LEMMA ResourcePilotIsShaped == Shaped(Capture!ResourcePilot, "fault")
<1> DEFINE p == Capture!ResourcePilot
<1>1. /\ Len(p) = 9 /\ p[1] = "clean" /\ p[2] = "acquire" /\ p[3] = "traffic"
      /\ p[4] = "release" /\ p[5] = "settle" /\ p[6] = "recover" /\ p[7] = "judge"
      /\ p[8] = "create" /\ p[9] = "write"
  BY DEF Capture!ResourcePilot
<1> HIDE DEF p
<1>2. Kinded(p, "fault")
  BY <1>1, Positions DEF Kinded, PilotNames
<1>3. PassesOn(p, "fault")
  BY <1>1, Positions DEF PassesOn, PhaseAt, PassTo, Capture!Phase
<1>4. ASSUME NEW i \in 1 .. 9, NEW j
      PROVE  j \in PendingAt(p, i) <=> (i = 3 /\ j = 4)
  BY <1>1, Positions DEF PendingAt, Capture!Undoes
<1>5. UnwindsTo(p, "fault")
  <2> SUFFICES ASSUME NEW i \in 1 .. 9
               PROVE  \/ BreakTo("fault", p[i]) = "failed" /\ PendingAt(p, i) = {}
                      \/ /\ BreakTo("fault", p[i]) # "failed"
                         /\ \E j \in PendingAt(p, i) : /\ \A m \in PendingAt(p, i) : j <= m
                                  /\ PhaseAt(p, "fault", j) = BreakTo("fault", p[i])
    BY <1>1 DEF UnwindsTo
  <2>1. CASE i = 3
    <3>1. 4 \in PendingAt(p, i) /\ \A m \in PendingAt(p, i) : 4 <= m
      BY <1>4, <2>1
    <3>2. BreakTo("fault", p[i]) # "failed" /\ PhaseAt(p, "fault", 4) = BreakTo("fault", p[i])
      BY <1>1, <2>1 DEF BreakTo, PhaseAt, Capture!Phase
    <3> QED
      BY <3>1, <3>2
  <2>2. CASE i \notin {3}
    <3>1. PendingAt(p, i) = {}
      BY <1>4, <2>2
    <3>2. BreakTo("fault", p[i]) = "failed"
      BY <1>1, <2>2, Positions DEF BreakTo
    <3> QED
      BY <3>1, <3>2
  <2> QED
    BY <2>1, <2>2
<1>6. CreatesLate(p)
  BY <1>1, Positions DEF CreatesLate
<1> QED
  BY <1>2, <1>3, <1>5, <1>6 DEF Shaped, p

\* The shape of OutagePilot.
LEMMA OutagePilotIsShaped == Shaped(Capture!OutagePilot, "outage")
<1> DEFINE p == Capture!OutagePilot
<1>1. /\ Len(p) = 11 /\ p[1] = "clean" /\ p[2] = "acquire" /\ p[3] = "stop"
      /\ p[4] = "traffic" /\ p[5] = "restore" /\ p[6] = "release" /\ p[7] = "settle"
      /\ p[8] = "recover" /\ p[9] = "judge" /\ p[10] = "create" /\ p[11] = "write"
  BY DEF Capture!OutagePilot
<1> HIDE DEF p
<1>2. Kinded(p, "outage")
  BY <1>1, Positions DEF Kinded, PilotNames
<1>3. PassesOn(p, "outage")
  BY <1>1, Positions DEF PassesOn, PhaseAt, PassTo, Capture!Phase
<1>4. ASSUME NEW i \in 1 .. 11, NEW j
      PROVE  j \in PendingAt(p, i) <=> (i = 3 /\ j = 5) \/ (i = 3 /\ j = 6) \/ (i = 4 /\ j = 5) \/ (i = 4 /\ j = 6) \/ (i = 5 /\ j = 6)
  BY <1>1, Positions DEF PendingAt, Capture!Undoes
<1>5. UnwindsTo(p, "outage")
  <2> SUFFICES ASSUME NEW i \in 1 .. 11
               PROVE  \/ BreakTo("outage", p[i]) = "failed" /\ PendingAt(p, i) = {}
                      \/ /\ BreakTo("outage", p[i]) # "failed"
                         /\ \E j \in PendingAt(p, i) : /\ \A m \in PendingAt(p, i) : j <= m
                                  /\ PhaseAt(p, "outage", j) = BreakTo("outage", p[i])
    BY <1>1 DEF UnwindsTo
  <2>1. CASE i = 3
    <3>1. 5 \in PendingAt(p, i) /\ \A m \in PendingAt(p, i) : 5 <= m
      BY <1>4, <2>1
    <3>2. BreakTo("outage", p[i]) # "failed" /\ PhaseAt(p, "outage", 5) = BreakTo("outage", p[i])
      BY <1>1, <2>1 DEF BreakTo, PhaseAt, Capture!Phase
    <3> QED
      BY <3>1, <3>2
  <2>2. CASE i = 4
    <3>1. 5 \in PendingAt(p, i) /\ \A m \in PendingAt(p, i) : 5 <= m
      BY <1>4, <2>2
    <3>2. BreakTo("outage", p[i]) # "failed" /\ PhaseAt(p, "outage", 5) = BreakTo("outage", p[i])
      BY <1>1, <2>2 DEF BreakTo, PhaseAt, Capture!Phase
    <3> QED
      BY <3>1, <3>2
  <2>3. CASE i = 5
    <3>1. 6 \in PendingAt(p, i) /\ \A m \in PendingAt(p, i) : 6 <= m
      BY <1>4, <2>3
    <3>2. BreakTo("outage", p[i]) # "failed" /\ PhaseAt(p, "outage", 6) = BreakTo("outage", p[i])
      BY <1>1, <2>3 DEF BreakTo, PhaseAt, Capture!Phase
    <3> QED
      BY <3>1, <3>2
  <2>4. CASE i \notin {3, 4, 5}
    <3>1. PendingAt(p, i) = {}
      BY <1>4, <2>4
    <3>2. BreakTo("outage", p[i]) = "failed"
      BY <1>1, <2>4, Positions DEF BreakTo
    <3> QED
      BY <3>1, <3>2
  <2> QED
    BY <2>1, <2>2, <2>3, <2>4
<1>6. CreatesLate(p)
  BY <1>1, Positions DEF CreatesLate
<1> QED
  BY <1>2, <1>3, <1>5, <1>6 DEF Shaped, p

\* The program of a pilot at work has its shape, and runs on the primary stack.
LEMMA PilotsAreShaped ==
  ASSUME CaptureType, Capture!OnlyPilots, NEW c \in Captures, Alive(c), Placed(c)
  PROVE  /\ Shaped(Capture!Steps(c), Capture!KindOf(c)) /\ Capture!StackOf(c) = "primary"
         /\ Capture!KindOf(c) \in {"healthy", "fault", "outage"} /\ ~Capture!Sealed(c)
<1> DEFINE name == Capture!Program(c)
<1>1. Capture!Steps(c) = Capture!Programs[name] /\ name \in Capture!PilotPrograms
  BY DEF Capture!Steps, Capture!OnlyPilots
<1>2. name # "none"
  <2>1. SUFFICES ASSUME name = "none" PROVE FALSE
    OBVIOUS
  <2>2. Capture!Steps(c) = <<>>
    BY <1>1, <2>1 DEF Capture!Programs
  <2> QED
    BY <2>2 DEF Placed
<1>3. Capture!StackOf(c) = "primary" /\ ~Capture!Sealed(c)
  BY <1>1 DEF Capture!PilotPrograms, Capture!StackOf, Capture!Sealed
<1>4. CASE name \in {"healthyPilot", "rateCalibration"}
  BY <1>1, <1>3, <1>4, HealthyPilotIsShaped, RateCalibrationIsShaped
  DEF Capture!KindOf, Capture!Programs
<1>5. CASE name = "outagePilot"
  BY <1>1, <1>3, <1>5, OutagePilotIsShaped DEF Capture!KindOf, Capture!Programs
<1>6. CASE name \in {"errorPilot", "timeoutPilot", "authPilot", "servicePilot"}
  BY <1>1, <1>3, <1>6, ErrorPilotIsShaped
  DEF Capture!KindOf, Capture!Programs, Capture!TimeoutPilot, Capture!AuthPilot, Capture!ServicePilot
<1>7. CASE name \in {"resourcePilot", "highLoadPilot"}
  BY <1>1, <1>3, <1>7, ResourcePilotIsShaped
  DEF Capture!KindOf, Capture!Programs, Capture!HighLoadPilot
<1> QED
  BY <1>1, <1>2, <1>4, <1>5, <1>6, <1>7 DEF Capture!PilotPrograms

\* Where a pilot's program has it, and what follows for the step it is at.
LEMMA PilotIsAt ==
  ASSUME CaptureType, Capture!OnlyPilots, NEW c \in Captures, Alive(c), Placed(c)
  PROVE  LET p == Capture!Steps(c)
             k == Capture!KindOf(c)
             i == stage[c]
         IN  /\ i \in 1 .. Len(p) /\ Len(p) \in Nat /\ Capture!Step(c) = p[i]
             /\ Capture!Abstractly(c) = PhaseAt(p, k, i)
             /\ Capture!Pending(c) = PendingAt(p, i)
<1>1. stage[c] \in 1 .. Len(Capture!Steps(c)) /\ Len(Capture!Steps(c)) \in Nat
  BY StepsAreDisciplined DEF Placed, Disciplined
<1>2. Capture!Abstractly(c) = PhaseAt(Capture!Steps(c), Capture!KindOf(c), stage[c])
  BY DEF Capture!Abstractly, PhaseAt, Capture!Step, Alive
<1>3. Capture!Pending(c) = PendingAt(Capture!Steps(c), stage[c])
  BY DEF Capture!Pending, PendingAt, Capture!Step
<1> QED
  BY <1>1, <1>2, <1>3 DEF Capture!Step

\* What passes without an exception goes on where PilotRun does.
LEMMA PilotPasses ==
  ASSUME CaptureType, Capture!OnlyPilots, NEW c \in Captures, Alive(c), Placed(c), job' = job,
         trouble[c] = "nothing", Capture!Passes(c)
  PROVE  Capture!Abstractly(c)' = PassTo(Capture!KindOf(c), stage[c], Capture!Step(c))
<1> DEFINE p == Capture!Steps(c)
           k == Capture!KindOf(c)
           i == stage[c]
<1>1. i \in 1 .. Len(p) /\ Len(p) \in Nat /\ Capture!Step(c) = p[i]
  BY PilotIsAt
<1>2. Shaped(p, k)
  BY PilotsAreShaped
<1>3. Capture!Steps(c)' = p /\ Capture!KindOf(c)' = k
  BY DEF Capture!Steps, Capture!Program, Capture!KindOf
<1>4. CASE Advances(c)
  <2>1. stage'[c] = i + 1 /\ fate'[c] = "running" /\ i \in 1 .. Len(p) - 1 /\ i + 1 # 1
    BY <1>1, <1>4 DEF Advances, CaptureType, Alive
  <2>2. Capture!Abstractly(c)' = PhaseAt(p, k, i + 1)
    BY <1>3, <2>1 DEF Capture!Abstractly, PhaseAt, Capture!Step
  <2> QED
    BY <1>1, <1>2, <2>1, <2>2 DEF Shaped, PassesOn
<1>5. CASE Completes(c)
  <2>1. fate'[c] = "done" /\ i = Len(p)
    BY <1>5 DEF Completes, CaptureType
  <2>2. p[i] = "write" /\ i # 1
    BY <1>1, <1>2, <2>1 DEF Shaped, Kinded
  <2> QED
    BY <1>1, <2>1, <2>2 DEF Capture!Abstractly, PassTo
<1> QED
  BY <1>4, <1>5, PassingMoves

\* What raises goes on where PilotRun does.
LEMMA PilotUnwinds ==
  ASSUME CaptureType, Capture!OnlyPilots, NEW c \in Captures, Alive(c), Placed(c), job' = job,
         NEW about, Fails(c) \/ Jumps(c, about)
  PROVE  /\ Capture!Abstractly(c)' = BreakTo(Capture!KindOf(c), Capture!Step(c))
         /\ BreakTo(Capture!KindOf(c), Capture!Step(c)) = "failed" <=> Capture!Pending(c) = {}
<1> DEFINE p == Capture!Steps(c)
           k == Capture!KindOf(c)
           i == stage[c]
<1>1. /\ i \in 1 .. Len(p) /\ Len(p) \in Nat /\ Capture!Step(c) = p[i]
      /\ Capture!Pending(c) = PendingAt(p, i)
  BY PilotIsAt
<1>2. Shaped(p, k)
  BY PilotsAreShaped
<1>3. Capture!Steps(c)' = p /\ Capture!KindOf(c)' = k
  BY DEF Capture!Steps, Capture!Program, Capture!KindOf
<1>4. CASE PendingAt(p, i) = {}
  <2>1. fate'[c] = "failed"
    BY <1>1, <1>4 DEF Fails, Jumps, CaptureType
  <2>2. BreakTo(k, p[i]) = "failed"
    BY <1>1, <1>2, <1>4 DEF Shaped, UnwindsTo
  <2> QED
    BY <1>1, <1>4, <2>1, <2>2 DEF Capture!Abstractly
<1>5. CASE PendingAt(p, i) # {}
  <2>1. PICK j \in PendingAt(p, i) : /\ BreakTo(k, p[i]) # "failed"
                                    /\ \A m \in PendingAt(p, i) : j <= m
                                    /\ PhaseAt(p, k, j) = BreakTo(k, p[i])
    BY <1>1, <1>2, <1>5 DEF Shaped, UnwindsTo
  <2>2. PICK m \in PendingAt(p, i) : /\ \A n \in PendingAt(p, i) : m <= n
                                    /\ stage' = [stage EXCEPT ![c] = m]
                                    /\ UNCHANGED fate
    BY <1>1, <1>5 DEF Fails, Jumps
  <2>3. m = j /\ m # 1
    BY <1>1, <2>1, <2>2 DEF PendingAt
  <2>4. Capture!Abstractly(c)' = PhaseAt(p, k, m)
    BY <1>3, <2>2, <2>3 DEF Capture!Abstractly, PhaseAt, Capture!Step, CaptureType, Alive
  <2> QED
    BY <1>1, <1>5, <2>1, <2>3, <2>4
<1> QED
  BY <1>4, <1>5

\* The control of PilotRun follows when only c moves.
LEMMA GoIs ==
  ASSUME NEW c \in Captures, NEW x, Capture!Abstractly(c)' = x,
         \A d \in Captures \ {c} : Capture!Abstractly(d)' = Capture!Abstractly(d)
  PROVE  Capture!Abstract!Go(c, x)
BY DEF Capture!Abstract!Go

\* When none moves, it stays.
LEMMA StaysIs ==
  ASSUME \A d \in Captures : Capture!Abstractly(d)' = Capture!Abstractly(d)
  PROVE  [d \in Captures |-> Capture!Abstractly(d)]' = [d \in Captures |-> Capture!Abstractly(d)]
OBVIOUS

\* Where only pilots run, nobody else has a lease or a lock, and a pilot at
\* work has nothing in its directory before it creates it.
Made(c) == Alive(c) /\ evidence[c] # "none" => Passed(c, "create")
Alone ==
    Capture!OnlyPilots =>
      /\ visits = 0 /\ ~supervised
      /\ \A s \in Capture!Stacks : holder[s] # Stranger
      /\ \A c \in Captures : Made(c)

\* What a step of a pilot does to what PilotRun does not have.
LEMMA PilotsStayAlone ==
  ASSUME CaptureInv, Alone, Capture!OnlyPilots, NEW c \in Captures, Capture!CaptureStep(c),
         ~Capture!Kill(c)
  PROVE  /\ visits' = 0 /\ ~supervised'
         /\ \A s \in Capture!Stacks : holder'[s] # Stranger
         /\ Made(c)'
<1>0. /\ CaptureType /\ OwnInv(c) /\ OwnStep(c) /\ Alive(c) /\ Placed(c) /\ job' = job
      /\ Moved(c) /\ visits = 0 /\ ~supervised /\ Made(c)
  BY StepsAreOwn, MovesAreMoved DEF CaptureInv, OwnInv, OwnStep, Alone
<1>1. Capture!Step(c) \in PilotNames
  BY <1>0, PilotsAreShaped, PilotIsAt DEF Shaped, Kinded
<1>2. visits' = 0 /\ ~supervised' /\ \A s \in Capture!Stacks : holder'[s] # Stranger
  <2>0. /\ \A s \in Capture!Stacks : holder[s] # Stranger
        /\ Nobody # Stranger /\ c # Stranger /\ Capture!StackOf(c) \in Capture!Stacks
    BY StackIs, JobsAssumption DEF Alone
  <2>1. CASE Capture!Acquire(c)
    BY <1>0, <2>0, <2>1 DEF Capture!Acquire, Capture!Obtains, Capture!lockVars, CaptureType
  <2>2. CASE Capture!Release(c)
    BY <1>0, <2>0, <2>2 DEF Capture!Release, Capture!lockVars, CaptureType
  <2>3. CASE UNCHANGED holder /\ supervised' = supervised /\ visits' = visits
    BY <1>0, <2>0, <2>3
  <2> QED
    BY <2>1, <2>2, <2>3 DEF Capture!CaptureStep, Capture!Look, Capture!Reserve, Capture!OpenSlot,
       Capture!Unlock, Capture!StopPostgres, Capture!SendTraffic, Capture!RestorePostgres,
       Capture!Observe, Capture!Close, Capture!Judge, Capture!Create, Capture!Write,
       Capture!stackVars, Capture!lockVars
<1>3. Made(c)'
  <2> SUFFICES ASSUME Alive(c)', evidence'[c] # "none" PROVE Passed(c, "create")'
    BY DEF Made
  <2>1. CASE evidence'[c] = evidence[c]
    BY <1>0, <2>1, PassedKept DEF Made
  <2>2. CASE Capture!Step(c) = "create"
    BY <1>0, <2>2, PassedKept
  <2>3. CASE Capture!Step(c) = "write" /\ Capture!Passes(c)
    <3>1. trouble[c] = "nothing"
      BY <1>0, <2>3 DEF Placed, Undoing
    <3>2. Capture!Abstractly(c)' = "done"
      <4>1. stage[c] # 1
        BY <1>0, <2>3, PilotsAreShaped, PilotIsAt DEF Shaped, Kinded
      <4> QED
        BY <1>0, <2>3, <3>1, <4>1, PilotPasses DEF PassTo
    <3>3. stage[c] = Len(Capture!Steps(c))
      BY <1>0, <2>3, PilotsAreShaped, PilotIsAt DEF Shaped, Kinded
    <3>4. Completes(c)
      BY <1>0, <2>3, <3>1, <3>3, PassingMoves DEF Advances
    <3> QED
      BY <3>4 DEF Completes, Alive, CaptureInv, CaptureType
  <2>4. CASE Capture!Step(c) = "judge"
    <3>1. Capture!Judge(c)
      BY <1>0, <2>4
       DEF Capture!CaptureStep, Capture!Look, Capture!Looks, Capture!Reserve, Capture!At,
         Capture!OpenSlot, Capture!Unlock, Capture!Acquire, Capture!StopPostgres, Capture!SendTraffic,
         Capture!RestorePostgres, Capture!Release, Capture!Observe, Capture!Close, Capture!Create,
         Capture!Write
    <3>2. CASE UNCHANGED evidence
      BY <2>1, <3>2
    <3>3. CASE Capture!Breaks(c, "traffic")
      <4>1. BreakTo(Capture!KindOf(c), Capture!Step(c)) = "failed"
        BY <2>4 DEF BreakTo
      <4>2. Fails(c)
        BY <1>0, <3>3, <4>1, BreakingMoves, PilotUnwinds DEF Jumps
      <4> QED
        BY <4>2 DEF Fails, Alive, CaptureInv, CaptureType
    <3> QED
      BY <3>1, <3>2, <3>3 DEF Capture!Judge
  <2> QED
    BY <1>0, <1>1, <2>1, <2>2, <2>3, <2>4 DEF OwnStep, Filing, PilotNames
<1> QED
  BY <1>2, <1>3

\* Nobody else comes.
LEMMA AloneKept == CaptureInv /\ Alone /\ Capture!Next => Alone'
<1> SUFFICES ASSUME CaptureInv, Alone, Capture!Next, Capture!OnlyPilots'
             PROVE  /\ visits' = 0 /\ ~supervised'
                    /\ \A s \in Capture!Stacks : holder'[s] # Stranger
                    /\ \A c \in Captures : Made(c)'
  BY DEF Alone, Capture!Stacks
<1>0. CaptureType /\ \A c \in Captures : OwnInv(c)
  BY DEF CaptureInv
<1>1. ASSUME NEW d \in Captures, Undisturbed(d), Made(d), evidence'[d] = evidence[d] PROVE Made(d)'
  BY <1>1 DEF Undisturbed, Made, Alive, Passed, Capture!Steps, Capture!Program
<1>2. ASSUME NEW c \in Captures, Capture!CaptureStep(c), ~Capture!Kill(c)
      PROVE  /\ visits' = 0 /\ ~supervised'
             /\ \A s \in Capture!Stacks : holder'[s] # Stranger
             /\ \A d \in Captures : Made(d)'
  <2>1. OwnStep(c) /\ Moved(c) /\ Capture!OnlyPilots
    <3>1. OwnStep(c)
      BY <1>0, <1>2, StepsAreOwn
    <3>2. Moved(c)
      BY <1>0, <3>1, MovesAreMoved DEF OwnStep, OwnInv
    <3> QED
      BY <3>1, <3>2 DEF OwnStep, Capture!OnlyPilots, Capture!Program
  <2>2. ASSUME NEW d \in Captures, d # c PROVE Made(d)'
    <3>1. Undisturbed(d)
      BY <1>0, <1>2, <2>1, <2>2, StepsDisturbNobody
    <3> QED
      BY <1>1, <2>1, <3>1 DEF Alone, Undisturbed
  <2> QED
    BY <1>2, <2>1, <2>2, PilotsStayAlone
<1>3. ASSUME NEW c \in Captures, Capture!Kill(c)
      PROVE  /\ visits' = 0 /\ ~supervised'
             /\ \A s \in Capture!Stacks : holder'[s] # Stranger
             /\ \A d \in Captures : Made(d)'
  BY <1>0, <1>3 DEF Capture!Kill, Capture!Ends, Alone, Made, Alive, Passed, Capture!OnlyPilots,
     Capture!Program, Capture!Steps, Capture!stackVars, Capture!lockVars, CaptureType
<1>4. CASE \/ Capture!StrangerStep \/ Capture!Produce
           \/ \E c \in Captures : Capture!Audit(c) \/ Capture!Admit(c)
  <2>1. \A d \in Captures : Undisturbed(d)
    BY <1>0, <1>4, OthersDisturbNobody
  <2>2. job' = job
    BY <1>4 DEF Capture!StrangerStep, Capture!Expire, Capture!TakeLease, Capture!GiveBack,
       Capture!Supervise, Capture!Produce, Capture!Audit, Capture!Admit, Capture!processVars
  <2>3. Capture!OnlyPilots
    BY <2>2 DEF Capture!OnlyPilots, Capture!Program
  <2>4. visits = 0 /\ ~supervised /\ ~Capture!Supervise
        /\ \A s \in Capture!Stacks : holder[s] # Stranger /\ ~Capture!TakeLease(s)
    BY <2>3 DEF Alone, Capture!Supervise, Capture!TakeLease
  <2>5. /\ visits' = visits /\ supervised' = supervised
        /\ \A s \in Capture!Stacks : holder'[s] # Stranger
    BY <1>4, <2>4 DEF Capture!StrangerStep, Capture!Expire, Capture!GiveBack, Capture!Produce,
       Capture!Audit, Capture!Admit, Capture!stackVars, Capture!lockVars
  <2>6. \A d \in Captures : Made(d)'
    BY <1>1, <2>1, <2>3 DEF Alone, Undisturbed
  <2> QED
    BY <2>4, <2>5, <2>6
<1> QED
  BY <1>2, <1>3, <1>4 DEF Capture!Next

\* A step of a pilot is a step of PilotRun's, or PilotRun does not see it.
LEMMA PilotsSimulate ==
  ASSUME CaptureInv, Alone, Capture!OnlyPilots, NEW c \in Captures, Capture!CaptureStep(c),
         ~Capture!Kill(c)
  PROVE  Capture!Abstract!PilotStep(c) \/ UNCHANGED Capture!Abstract!pilotVars
<1> DEFINE k == Capture!KindOf(c)
           i == stage[c]
           s == Capture!Step(c)
           where == [d \in Captures |-> Capture!Abstractly(d)]
           kinds == [d \in Captures |-> Capture!KindOf(d)]
<1>0. /\ CaptureType /\ OwnInv(c) /\ OwnStep(c) /\ Alive(c) /\ Placed(c) /\ job' = job
      /\ Moved(c) /\ overdue' = overdue
  BY StepsAreOwn, MovesAreMoved DEF CaptureInv, OwnInv, OwnStep
<1>1. /\ s \in PilotNames /\ k \in {"healthy", "fault", "outage"} /\ Capture!StackOf(c) = "primary"
      /\ (i = 1 => s = "clean") /\ (s = "own" => k = "fault")
      /\ (k = "healthy" => s \in {"clean", "traffic", "check", "create", "write"})
      /\ (s \in {"stop", "restore"} => k = "outage")
      /\ Capture!Abstractly(c) = IF i = 1 THEN "start" ELSE Capture!Phase(k, s)
      /\ ~Capture!Sealed(c)
  BY <1>0, PilotsAreShaped, PilotIsAt DEF Shaped, Kinded, PhaseAt
<1>2. /\ \A d \in Captures \ {c} : Capture!Abstractly(d)' = Capture!Abstractly(d)
      /\ kinds' = kinds
  <2>1. \A d \in Captures : Capture!KindOf(d)' = Capture!KindOf(d)
    BY <1>0 DEF Capture!KindOf, Capture!Program
  <2>2. ASSUME NEW d \in Captures, d # c PROVE Capture!Abstractly(d)' = Capture!Abstractly(d)
    <3>1. fate'[d] = fate[d] /\ stage'[d] = stage[d]
      BY <1>0, <2>2, MovedLeavesOthers
    <3>2. Capture!Step(d)' = Capture!Step(d)
      BY <1>0, <3>1 DEF Capture!Step, Capture!Steps, Capture!Program
    <3> QED
      BY <2>1, <3>1, <3>2 DEF Capture!Abstractly
  <2> QED
    BY <2>1, <2>2
<1>3. s \notin Undoing => trouble[c] = "nothing"
  BY <1>0 DEF Placed
<1>4. ASSUME Capture!Passes(c), trouble[c] = "nothing"
      PROVE  Capture!Abstract!Go(c, PassTo(k, i, s)) /\ Capture!Abstractly(c)' = PassTo(k, i, s)
  BY <1>0, <1>2, <1>4, PilotPasses, GoIs
<1>5. ASSUME Capture!Passes(c), trouble[c] # "nothing"
      PROVE  Capture!Abstract!Go(c, BreakTo(k, s))
  <2>1. Fails(c) \/ Jumps(c, trouble[c])
    BY <1>0, <1>5, PassingMoves DEF Advances, Completes
  <2> QED
    BY <1>0, <1>2, <2>1, PilotUnwinds, GoIs
<1>6. ASSUME NEW about, Capture!Breaks(c, about)
      PROVE  /\ Capture!Abstract!Go(c, BreakTo(k, s))
             /\ trouble' = IF BreakTo(k, s) = "failed" THEN trouble
                           ELSE [trouble EXCEPT ![c] = about]
  <2>1. Fails(c) \/ Jumps(c, about)
    BY <1>0, <1>6, BreakingMoves
  <2>2. /\ Capture!Abstractly(c)' = BreakTo(k, s)
        /\ BreakTo(k, s) = "failed" <=> Capture!Pending(c) = {}
    BY <1>0, <2>1, PilotUnwinds
  <2> QED
    BY <1>2, <1>6, <2>2, GoIs DEF Capture!Breaks
<1>7. Capture!Passes(c) => trouble' = trouble
  BY DEF Capture!Passes
<1>8. where[c] = Capture!Abstractly(c) /\ kinds[c] = k
  OBVIOUS
<1>9. ASSUME UNCHANGED <<holder, database, evidence, trouble>>,
             Capture!Abstractly(c)' = Capture!Abstractly(c)
      PROVE  UNCHANGED Capture!Abstract!pilotVars
  BY <1>0, <1>2, <1>9, StaysIs DEF Capture!Abstract!pilotVars
<1> HIDE DEF where, kinds, k, i, s
<1>11. CASE Capture!Look(c)
  <2>0. /\ UNCHANGED <<holder, database, evidence>> /\ s \in Capture!Looks /\ trouble[c] = "nothing"
        /\ \/ Capture!Finds(c, s) /\ Capture!Passes(c)
           \/ Capture!Breaks(c, "traffic")
    BY <1>3, <1>11 DEF Capture!Look, Capture!stackVars, Capture!Looks, Undoing, s
  <2>1. CASE i = 1
    <3>1. Capture!Abstract!Preflight(c)
      BY <1>0, <1>1, <1>2, <1>4, <1>6, <1>7, <1>8, <2>0, <2>1
      DEF Capture!Abstract!Preflight, Capture!Abstract!Clean, Capture!Finds, Capture!Clean,
          PassTo, BreakTo, kinds, where
    <3> QED
      BY <3>1 DEF Capture!Abstract!PilotStep
  <2>2. CASE i # 1 /\ s = "own" /\ Capture!Passes(c)
    <3>1. Capture!Abstractly(c)' = Capture!Abstractly(c)
      BY <1>1, <1>4, <2>0, <2>2 DEF PassTo, Capture!Phase
    <3> QED
      BY <1>7, <1>9, <2>0, <2>2, <3>1
  <2>3. CASE i # 1 /\ s = "own" /\ ~Capture!Passes(c)
    <3>1. Capture!Abstract!SendTraffic(c)
      BY <1>0, <1>1, <1>2, <1>6, <1>8, <2>0, <2>3
      DEF Capture!Abstract!SendTraffic, Capture!Abstract!AfterTraffic, BreakTo, kinds, where,
          Capture!Phase
    <3> QED
      BY <3>1 DEF Capture!Abstract!PilotStep
  <2>4. CASE i # 1 /\ s \in {"clean", "settle"}
    <3>1. Capture!Abstract!AwaitClean(c)
      BY <1>0, <1>1, <1>2, <1>4, <1>6, <1>7, <1>8, <2>0, <2>4
      DEF Capture!Abstract!AwaitClean, Capture!Abstract!Clean, Capture!Finds, Capture!Clean,
          Capture!Settled, PassTo, BreakTo, kinds, where, Capture!Phase
    <3> QED
      BY <3>1 DEF Capture!Abstract!PilotStep
  <2>5. CASE i # 1 /\ s = "recover"
    <3>1. Capture!Abstract!Recover(c)
      BY <1>0, <1>1, <1>2, <1>4, <1>6, <1>7, <1>8, <2>0, <2>5
      DEF Capture!Abstract!Recover, Capture!Abstract!Clean, Capture!Finds, Capture!Clean,
          Capture!Recovered, PassTo, BreakTo, kinds, where, Capture!Phase
    <3> QED
      BY <3>1 DEF Capture!Abstract!PilotStep
  <2>6. CASE i # 1 /\ s = "check" /\ k = "healthy" /\ Capture!Passes(c)
    <3>1. Capture!Abstractly(c)' = Capture!Abstractly(c)
      BY <1>1, <1>4, <2>0, <2>6 DEF PassTo, Capture!Phase
    <3> QED
      BY <1>7, <1>9, <2>0, <2>6, <3>1
  <2>7. CASE i # 1 /\ s = "check" /\ k = "healthy" /\ ~Capture!Passes(c)
    <3>1. Capture!Abstract!AwaitClean(c)
      BY <1>0, <1>1, <1>2, <1>6, <1>8, <2>0, <2>7
      DEF Capture!Abstract!AwaitClean, BreakTo, kinds, where, Capture!Phase
    <3> QED
      BY <3>1 DEF Capture!Abstract!PilotStep
  <2>8. CASE i # 1 /\ s = "check" /\ k # "healthy"
    <3>1. evidence[c] = "none"
      <4>1. ~Passed(c, "create")
        BY <1>0, <2>8, PilotsAreShaped, PilotIsAt DEF Shaped, CreatesLate, Passed, s
      <4> QED
        BY <1>0, <4>1 DEF Alone, Made
    <3>2. evidence' = [evidence EXCEPT ![c] = "none"]
      BY <1>0, <2>0, <3>1 DEF CaptureType
    <3>3. CASE Capture!Passes(c)
      BY <1>0, <1>1, <1>2, <1>4, <1>7, <1>8, <2>0, <2>8, <3>3
      DEF Capture!Abstract!CheckEvidence, Capture!Abstract!PilotStep, PassTo, kinds, where,
          Capture!Phase
    <3>4. CASE Capture!Breaks(c, "traffic")
      <4>1. Capture!Abstract!Go(c, "failed") /\ trouble' = trouble
        BY <1>6, <2>8, <3>4 DEF BreakTo
      <4>2. Capture!Abstract!CheckEvidence(c)
        BY <1>0, <1>1, <1>2, <1>8, <2>0, <2>8, <3>2, <4>1
        DEF Capture!Abstract!CheckEvidence, kinds, where, Capture!Phase
      <4> QED
        BY <4>2 DEF Capture!Abstract!PilotStep
    <3> QED
      BY <2>0, <3>3, <3>4
  <2> QED
    BY <1>1, <2>0, <2>1, <2>2, <2>3, <2>4, <2>5, <2>6, <2>7, <2>8 DEF Capture!Looks, PilotNames
<1>12. CASE Capture!Acquire(c)
  <2>1. s = "acquire" /\ i # 1 /\ trouble[c] = "nothing"
    BY <1>1, <1>3, <1>12 DEF Capture!Acquire, Capture!At, Undoing, s
  <2>2. Capture!Obtainable("primary", c) <=> holder["primary"] = Nobody \/ holder["primary"] \in overdue
    <3>1. ~Capture!Sealed(holder["primary"])
      BY JobsAssumption DEF Capture!Sealed, Capture!OnlyPilots, Capture!PilotPrograms
    <3> QED
      BY <1>1, <3>1 DEF Capture!Obtainable
  <2>3. Capture!Abstract!Acquire(c)
    <3>1. CASE Capture!Obtainable("primary", c)
      <4>1. Capture!Passes(c) /\ holder' = [holder EXCEPT !["primary"] = c]
            /\ UNCHANGED <<database, evidence>>
        BY <1>1, <1>12, <3>1 DEF Capture!Acquire, Capture!Obtains
      <4>2. holder'["primary"] = c
        BY <1>0, <4>1 DEF CaptureType, Capture!Stacks
      <4> QED
        BY <1>0, <1>1, <1>2, <1>4, <1>7, <1>8, <2>1, <2>2, <3>1, <4>1, <4>2
        DEF Capture!Abstract!Acquire, PassTo, kinds, where, Capture!Phase
    <3>2. CASE ~Capture!Obtainable("primary", c)
      <4>1. Capture!Breaks(c, "traffic") /\ UNCHANGED <<holder, database, evidence>>
        BY <1>1, <1>12, <3>2 DEF Capture!Acquire
      <4>2. Capture!Abstract!Go(c, "failed") /\ trouble' = trouble
        BY <1>6, <2>1, <4>1 DEF BreakTo
      <4> QED
        BY <1>0, <1>1, <1>2, <1>8, <2>1, <2>2, <3>2, <4>1, <4>2
        DEF Capture!Abstract!Acquire, kinds, where, Capture!Phase
    <3> QED
      BY <3>1, <3>2
  <2> QED
    BY <2>3 DEF Capture!Abstract!PilotStep
<1>13. CASE Capture!StopPostgres(c)
  <2>1. s = "stop" /\ i # 1 /\ trouble[c] = "nothing" /\ k = "outage"
    BY <1>1, <1>3, <1>13 DEF Capture!StopPostgres, Capture!At, Undoing, s
  <2>2. /\ UNCHANGED <<holder, evidence>>
        /\ \/ database'["primary"] = "down" /\ Capture!Passes(c)
           \/ database'["primary"] \in {"down", database["primary"]} /\ Capture!Breaks(c, "traffic")
    BY <1>0, <1>1, <1>13 DEF Capture!StopPostgres, CaptureType, Capture!Stacks
  <2>3. Capture!Abstract!StopPostgres(c)
    <3>1. CASE database'["primary"] = "down" /\ Capture!Passes(c)
      BY <1>0, <1>1, <1>2, <1>4, <1>7, <1>8, <2>1, <2>2, <3>1
      DEF Capture!Abstract!StopPostgres, PassTo, kinds, where, Capture!Phase
    <3>2. CASE database'["primary"] \in {"down", database["primary"]} /\ Capture!Breaks(c, "traffic")
      <4>1. Capture!Abstract!Go(c, "restore") /\ trouble' = [trouble EXCEPT ![c] = "traffic"]
        BY <1>6, <2>1, <3>2 DEF BreakTo
      <4> QED
        BY <1>0, <1>1, <1>2, <1>8, <2>1, <2>2, <3>2, <4>1
        DEF Capture!Abstract!StopPostgres, kinds, where, Capture!Phase
    <3> QED
      BY <2>2, <3>1, <3>2
  <2> QED
    BY <2>3 DEF Capture!Abstract!PilotStep
<1>14. CASE Capture!SendTraffic(c)
  <2>1. s = "traffic" /\ i # 1 /\ trouble[c] = "nothing"
    BY <1>1, <1>3, <1>14 DEF Capture!SendTraffic, Capture!At, Undoing, s
  <2>2. /\ UNCHANGED <<holder, database, evidence>>
        /\ \/ c \notin overdue /\ Capture!Passes(c)
           \/ Capture!Breaks(c, "traffic")
    BY <1>14, <1>1 DEF Capture!SendTraffic, Capture!InTime, Capture!stackVars,
       Capture!OnlyPilots, Capture!PilotPrograms
  <2>3. Capture!Abstract!AfterTraffic(c) = IF k = "healthy" THEN "clear"
                                           ELSE IF k = "fault" THEN "release" ELSE "restore"
    BY <1>1, <1>8 DEF Capture!Abstract!AfterTraffic, kinds
  <2>4. Capture!Abstract!SendTraffic(c)
    <3>1. CASE c \notin overdue /\ Capture!Passes(c)
      <4>1. Capture!Abstract!Go(c, Capture!Abstract!AfterTraffic(c))
        BY <1>4, <2>1, <2>3, <3>1 DEF PassTo
      <4> QED
        BY <1>0, <1>1, <1>2, <1>7, <1>8, <2>1, <2>2, <3>1, <4>1
        DEF Capture!Abstract!SendTraffic, kinds, where, Capture!Phase
    <3>2. CASE Capture!Breaks(c, "traffic") /\ k = "healthy"
      <4>1. Capture!Abstract!Go(c, "failed") /\ trouble' = trouble
        BY <1>6, <2>1, <3>2 DEF BreakTo
      <4> QED
        BY <1>0, <1>1, <1>2, <1>8, <2>1, <2>2, <3>2, <4>1
        DEF Capture!Abstract!SendTraffic, kinds, where, Capture!Phase
    <3>3. CASE Capture!Breaks(c, "traffic") /\ k # "healthy"
      <4>1. /\ Capture!Abstract!Go(c, Capture!Abstract!AfterTraffic(c))
            /\ trouble' = [trouble EXCEPT ![c] = "traffic"]
        BY <1>1, <1>6, <2>1, <2>3, <3>3 DEF BreakTo
      <4> QED
        BY <1>0, <1>1, <1>2, <1>8, <2>1, <2>2, <3>3, <4>1
        DEF Capture!Abstract!SendTraffic, kinds, where, Capture!Phase
    <3> QED
      BY <2>2, <3>1, <3>2, <3>3
  <2> QED
    BY <2>4 DEF Capture!Abstract!PilotStep
<1>15. CASE Capture!RestorePostgres(c)
  <2>1. s = "restore" /\ i # 1 /\ k = "outage"
    BY <1>1, <1>15 DEF Capture!RestorePostgres, Capture!At, s
  <2>2. /\ UNCHANGED <<holder, evidence>>
        /\ \/ database'["primary"] = "up" /\ Capture!Passes(c)
           \/ UNCHANGED database /\ Capture!Breaks(c, "docker")
    BY <1>0, <1>1, <1>15 DEF Capture!RestorePostgres, CaptureType, Capture!Stacks
  <2>3. /\ Capture!Abstract!Go(c, "release")
        /\ \/ database'["primary"] = "up" /\ trouble' = trouble
           \/ UNCHANGED database /\ trouble' = [trouble EXCEPT ![c] = "docker"]
    BY <1>4, <1>5, <1>6, <1>7, <2>1, <2>2 DEF PassTo, BreakTo
  <2>4. Capture!Abstract!RestorePostgres(c)
    BY <1>0, <1>1, <1>2, <1>8, <2>1, <2>2, <2>3
    DEF Capture!Abstract!RestorePostgres, kinds, where, Capture!Phase
  <2> QED
    BY <2>4 DEF Capture!Abstract!PilotStep
<1>16. CASE Capture!Release(c)
  <2>1. s = "release" /\ i # 1
    BY <1>1, <1>16 DEF Capture!Release, Capture!At, s
  <2>2. /\ UNCHANGED <<database, evidence>>
        /\ holder'["primary"] = IF holder["primary"] = c THEN Nobody ELSE holder["primary"]
        /\ IF holder["primary"] \in {c, Nobody} THEN Capture!Passes(c)
           ELSE Capture!Breaks(c, "traffic")
    BY <1>0, <1>1, <1>16 DEF Capture!Release, CaptureType, Capture!Stacks
  <2>3. /\ Capture!Abstract!Go(c, IF trouble[c] # "nothing" \/ holder["primary"] \notin {c, Nobody}
                                   THEN "failed" ELSE "clear")
        /\ trouble' = trouble
    BY <1>4, <1>5, <1>6, <1>7, <2>1, <2>2 DEF PassTo, BreakTo
  <2>4. Capture!Abstract!Release(c)
    BY <1>0, <1>1, <1>2, <1>8, <2>1, <2>2, <2>3
    DEF Capture!Abstract!Release, kinds, where, Capture!Phase
  <2> QED
    BY <2>4 DEF Capture!Abstract!PilotStep
<1>17. CASE Capture!Judge(c)
  <2>1. s = "judge" /\ i # 1 /\ trouble[c] = "nothing" /\ k # "healthy"
    BY <1>1, <1>3, <1>17 DEF Capture!Judge, Capture!At, Undoing, s
  <2>2. /\ UNCHANGED <<holder, database>>
        /\ \/ Capture!Passes(c) /\ UNCHANGED evidence
           \/ /\ Capture!Breaks(c, "traffic")
              /\ \E o \in {"none", "rejected"} : evidence' = [evidence EXCEPT ![c] = o]
    BY <1>17 DEF Capture!Judge, Capture!stackVars
  <2>3. /\ trouble' = trouble
        /\ \/ Capture!Abstract!Go(c, "create") /\ UNCHANGED evidence
           \/ /\ Capture!Abstract!Go(c, "failed")
              /\ \E o \in {"none", "rejected"} : evidence' = [evidence EXCEPT ![c] = o]
    BY <1>4, <1>6, <1>7, <2>1, <2>2 DEF PassTo, BreakTo
  <2>4. Capture!Abstract!CheckEvidence(c)
    BY <1>0, <1>1, <1>2, <1>8, <2>1, <2>2, <2>3
    DEF Capture!Abstract!CheckEvidence, kinds, where, Capture!Phase
  <2> QED
    BY <2>4 DEF Capture!Abstract!PilotStep
<1>18. CASE Capture!Create(c)
  <2>1. s = "create" /\ i # 1 /\ trouble[c] = "nothing"
    BY <1>1, <1>3, <1>18 DEF Capture!Create, Capture!At, Undoing, s, PilotNames
  <2>2. /\ UNCHANGED <<holder, database>> /\ Capture!Passes(c)
        /\ evidence' = [evidence EXCEPT ![c] = "partial"]
    BY <1>18 DEF Capture!Create, Capture!stackVars
  <2>3. Capture!Abstract!Go(c, "write") /\ trouble' = trouble
    BY <1>4, <1>7, <2>1, <2>2 DEF PassTo
  <2>4. Capture!Abstract!CreateOutput(c)
    BY <1>0, <1>1, <1>2, <1>8, <2>1, <2>2, <2>3
    DEF Capture!Abstract!CreateOutput, kinds, where, Capture!Phase
  <2> QED
    BY <2>4 DEF Capture!Abstract!PilotStep
<1>19. CASE Capture!Write(c)
  <2>1. s = "write" /\ i # 1 /\ trouble[c] = "nothing"
    BY <1>1, <1>3, <1>19 DEF Capture!Write, Capture!At, Undoing, s
  <2>2. /\ UNCHANGED <<holder, database>>
        /\ \/ evidence' = [evidence EXCEPT ![c] = "whole"] /\ Capture!Passes(c)
           \/ UNCHANGED evidence /\ Capture!Breaks(c, "traffic")
    BY <1>19 DEF Capture!Write, Capture!stackVars
  <2>3. /\ trouble' = trouble
        /\ \/ Capture!Abstract!Go(c, "done") /\ evidence' = [evidence EXCEPT ![c] = "whole"]
           \/ Capture!Abstract!Go(c, "failed") /\ UNCHANGED evidence
    BY <1>4, <1>6, <1>7, <2>1, <2>2 DEF PassTo, BreakTo
  <2>4. Capture!Abstract!WriteOutput(c)
    BY <1>0, <1>1, <1>2, <1>8, <2>1, <2>2, <2>3
    DEF Capture!Abstract!WriteOutput, kinds, where, Capture!Phase
  <2> QED
    BY <2>4 DEF Capture!Abstract!PilotStep
<1>20. s \notin {"lock", "slot", "unlock", "observe", "close"}
  BY <1>1 DEF PilotNames
<1> QED
  BY <1>11, <1>12, <1>13, <1>14, <1>15, <1>16, <1>17, <1>18, <1>19, <1>20
  DEF Capture!CaptureStep, Capture!Reserve, Capture!OpenSlot, Capture!Unlock, Capture!Observe,
      Capture!Close, Capture!At, s

\* Nor does it see another's step, unless a lease runs out.
LEMMA OthersSimulate ==
  ASSUME CaptureInv, Alone, Capture!OnlyPilots,
         \/ Capture!StrangerStep \/ Capture!Produce
         \/ \E c \in Captures : Capture!Audit(c) \/ Capture!Admit(c) \/ Capture!Kill(c)
  PROVE  Capture!PilotRunStep
<1>0. /\ CaptureType /\ visits = 0 /\ ~supervised /\ Stranger # Nobody
      /\ (\A c \in Captures : OwnInv(c)) /\ (\A s \in Capture!Stacks : holder[s] # Stranger)
  BY JobsAssumption DEF CaptureInv, Alone
<1>1. ASSUME UNCHANGED <<job, stage, fate>>
      PROVE  /\ [d \in Captures |-> Capture!Abstractly(d)]' = [d \in Captures |-> Capture!Abstractly(d)]
             /\ [d \in Captures |-> Capture!KindOf(d)]' = [d \in Captures |-> Capture!KindOf(d)]
  <2>1. \A d \in Captures : /\ Capture!KindOf(d)' = Capture!KindOf(d)
                            /\ Capture!Step(d)' = Capture!Step(d)
    BY <1>1 DEF Capture!KindOf, Capture!Program, Capture!Step, Capture!Steps
  <2>2. \A d \in Captures : Capture!Abstractly(d)' = Capture!Abstractly(d)
    BY <1>1, <2>1 DEF Capture!Abstractly
  <2> QED
    BY <2>1, <2>2
<1>2. ASSUME UNCHANGED <<job, stage, fate, trouble, evidence, holder, overdue, database>>
      PROVE  Capture!PilotRunStep
  BY <1>1, <1>2 DEF Capture!PilotRunStep, Capture!Abstract!pilotVars
<1>3. ASSUME NEW s \in Capture!Stacks, Capture!Expire(s) PROVE Capture!PilotRunStep
  <2>1. holder[s] \in Captures
    BY <1>0, <1>3 DEF Capture!Expire, CaptureType
  <2>2. Capture!StackOf(holder[s]) = "primary"
    BY <2>1 DEF Capture!OnlyPilots, Capture!PilotPrograms, Capture!StackOf
  <2>3. s = "primary"
    BY <1>0, <2>1, <2>2 DEF OwnInv, HeldInside
  <2>4. /\ UNCHANGED <<job, stage, fate, trouble, evidence, holder, database>>
        /\ overdue' = overdue \cup {holder["primary"]}
    BY <1>3, <2>3 DEF Capture!Expire, Capture!processVars
  <2>5. Capture!Abstract!Expire(holder["primary"])
    BY <1>1, <2>4 DEF Capture!Abstract!Expire
  <2> QED
    BY <2>1, <2>3, <2>5 DEF Capture!Abstract!PilotStep, Capture!PilotRunStep
<1>4. CASE Capture!StrangerStep
  BY <1>0, <1>3, <1>4
   DEF Capture!StrangerStep, Capture!TakeLease, Capture!GiveBack, Capture!Supervise
<1>5. CASE Capture!Produce
  BY <1>2, <1>5 DEF Capture!Produce, Capture!processVars, Capture!stackVars
<1>6. ASSUME NEW c \in Captures, Capture!Audit(c) \/ Capture!Admit(c) PROVE Capture!PilotRunStep
  BY <1>2, <1>6 DEF Capture!Audit, Capture!Admit, Capture!processVars, Capture!stackVars
<1>7. ASSUME NEW c \in Captures, Capture!Kill(c) PROVE Capture!PilotRunStep
  <2>1. /\ Alive(c) /\ stage[c] > 1 /\ fate' = [fate EXCEPT ![c] = "dead"]
        /\ UNCHANGED <<job, stage, trouble, evidence, holder, overdue, database>>
    BY <1>7 DEF Capture!Kill, Capture!Ends, Alive, Capture!stackVars
  <2>2. Capture!Step(c) \in PilotNames /\ Placed(c)
    BY <1>0, <2>1, PilotsAreShaped, PilotIsAt DEF OwnInv, Shaped, Kinded
  <2>3. stage[c] \in Nat /\ stage[c] # 1
    BY <1>0, <2>1 DEF CaptureType
  <2>4. Capture!Abstractly(c) = Capture!Phase(Capture!KindOf(c), Capture!Step(c))
    BY <2>1, <2>3 DEF Capture!Abstractly, Alive
  <2>5. Capture!Abstractly(c) \notin {"done", "failed", "dead", "new"}
    BY <2>2, <2>4 DEF Capture!Phase, PilotNames
  <2>6. Capture!Abstractly(c)' = "dead"
    BY <1>0, <2>1 DEF Capture!Abstractly, CaptureType
  <2>7. \A d \in Captures : /\ Capture!KindOf(d)' = Capture!KindOf(d)
                            /\ d # c => Capture!Abstractly(d)' = Capture!Abstractly(d)
    <3>1. \A d \in Captures : /\ Capture!KindOf(d)' = Capture!KindOf(d)
                              /\ Capture!Step(d)' = Capture!Step(d)
      BY <2>1 DEF Capture!KindOf, Capture!Program, Capture!Step, Capture!Steps
    <3>2. \A d \in Captures : d # c => fate'[d] = fate[d] /\ stage'[d] = stage[d]
      BY <1>0, <2>1 DEF CaptureType
    <3> QED
      BY <3>1, <3>2 DEF Capture!Abstractly
  <2>8. Capture!Abstract!Go(c, "dead")
    BY <2>6, <2>7, GoIs
  <2>9. Capture!Abstract!Kill(c)
    BY <2>1, <2>5, <2>7, <2>8
    DEF Capture!Abstract!Kill, Capture!Abstract!Runs, Capture!Abstract!Exited
  <2> QED
    BY <2>9 DEF Capture!Abstract!PilotStep, Capture!PilotRunStep
<1> QED
  BY <1>4, <1>5, <1>6, <1>7

\* Each of the nine pilot programs implements the one PilotRun the collection
\* controller is modelled with, for any number of them side by side
\* (PilotsImplement).
THEOREM PilotsArePilotRuns == AllSpec => PilotsImplement
<1>1. AllInit => Alone
  BY JobsAssumption DEF AllInit, Capture!Init, Capture!OnlyPilots, Alone, Made, Capture!Stacks
<1>2. CaptureInv /\ Alone /\ [AllNext]_allVars => Alone'
  <2> SUFFICES ASSUME CaptureInv, Alone, [AllNext]_allVars PROVE Alone'
    OBVIOUS
  <2>1. Capture!Next \/ UNCHANGED captureVars
    BY DEF AllNext, allVars
  <2>2. CASE UNCHANGED captureVars
    BY <2>2 DEF captureVars, Alone, Made, Alive, Passed, Capture!OnlyPilots, Capture!Program,
       Capture!Steps, Capture!Stacks
  <2> QED
    BY <2>1, <2>2, AloneKept
<1>3. CaptureInv /\ Alone /\ [AllNext]_allVars
        => [campaign = "captures" => Capture!PilotRunStep]_captureVars
  <2> SUFFICES ASSUME CaptureInv, Alone, Capture!Next, Capture!OnlyPilots
               PROVE  Capture!PilotRunStep
    BY DEF AllNext, allVars, Capture!PilotRunStep
  <2>1. ASSUME NEW c \in Captures, Capture!CaptureStep(c), ~Capture!Kill(c)
        PROVE  Capture!PilotRunStep
    BY <2>1, PilotsSimulate DEF Capture!PilotRunStep
  <2> QED
    BY <2>1, OthersSimulate DEF Capture!Next
<1> QED
  BY <1>1, <1>2, <1>3, CaptureInvariant, PTL DEF AllSpec, PilotsImplement

-----------------------------------------------------------------------------
(* The live observation *)

\* What is posted and kept, and what an observer is doing.
Items == [of : Requests \cup Watch!Collectors, kind : {"event", "request"}, at : Nat]
Duties == {"off", "serve", "post", "commit", "poll", "close", "compare",
           "failed", "stopped"}

\* The types of the variables of LiveObserver.
WatchType ==
    /\ clock \in Nat
    /\ started \in [Requests -> Nat] /\ logged \in [Requests -> Nat]
    /\ answered \in SUBSET Requests /\ observed \in SUBSET Requests
    /\ sent \in SUBSET Items /\ batch \in SUBSET Items
    /\ buffer \in SUBSET Items /\ repeated \in SUBSET Items
    /\ duty \in Duties /\ closing \in BOOLEAN /\ guarded \in BOOLEAN
    /\ poll \in [Watch!Pollers -> [end : Nat, content : SUBSET Items]]
    /\ phase \in [Watch!Pollers -> {"idle", "read", "check", "persist", "failed"}]
    /\ receipts \in SUBSET [end : Nat, content : SUBSET Items, by : Watch!Pollers]
    /\ feeding \in [Watch!Collectors -> {"off", "recheck", "post", "compare", "done", "failed"}]
    /\ \A r \in Requests : started[r] <= clock /\ logged[r] <= clock
    /\ \A x \in buffer \cup batch : x.at <= clock

\* The event of a request, or the request itself, as it was.
Genuine(x) ==
    /\ x.at > 0
    /\ x.kind = "event" => x.at = logged[x.of]
    /\ x.kind = "request" => x.at = started[x.of] /\ x.of \in answered

\* Older than all the observer collects.
Gone(x) ==
    /\ x.at < clock - Retention
    /\ x.kind = "request" => x.of \in answered /\ x.of \notin observed

\* Of some items, those of the observed clients and services.
Asked(items) == {x \in items : x.of \in Requests}

\* What was answered is in the store until it is too old.
Served ==
    /\ observed \subseteq answered
    /\ \A r \in answered : started[r] > 0 /\ (r \in observed \/ started[r] < clock - Retention)

\* The observer polls, or does something else.
OneDuty == phase["observer"] \in {"read", "check", "persist"} => duty = "poll"

\* Whatever was posted is true, and what is on record was posted.
Posted ==
    /\ \A x \in sent : x.of \in Requests /\ Genuine(x)
    /\ \A x \in batch : x.of \in Requests /\ Genuine(x)
    /\ \A x \in Asked(buffer) : Genuine(x)
    /\ sent \subseteq buffer
    /\ duty = "commit" => batch \subseteq buffer

\* Without an interruption whatever was posted is on record or too old, and
\* nothing is posted twice.
Anew ==
    ~closing =>
      /\ duty = "post" => batch \cap buffer = {}
      /\ duty # "failed" =>
           \A x \in Asked(buffer) : x \in sent \/ (duty = "commit" /\ x \in batch) \/ Gone(x)
      /\ Asked(repeated) = {}

\* With one, what is posted twice the gateway has forgotten.
Outdated == duty # "failed" => \A x \in Asked(repeated) : x.at < clock - Kept

\* A poller that is about to file has filed nothing near its window.
Judged ==
    /\ Watch!JudgedOnce
    /\ \A p \in Watch!Pollers : phase[p] = "persist" =>
          \A x \in receipts : x.by = p => poll[p].end - x.end >= Width

\* The invariant of the live observation.
WatchInv == WatchType /\ Served /\ OneDuty /\ Posted /\ Anew /\ Outdated /\ Judged

\* A bounded set of times has a latest.
LEMMA LatestIs ==
  ASSUME NEW n \in Nat, NEW S \in SUBSET (0 .. n), S # {}
  PROVE  Watch!Max(S) \in S /\ \A t \in S : t <= Watch!Max(S)
<1> DEFINE I == {i \in Nat : n - i \in S}
<1>1. PICK t \in S : TRUE
  OBVIOUS
<1>2. n - t \in I
  <2>1. n - t \in Nat /\ n - (n - t) = t
    BY <1>1
  <2> QED
    BY <1>1, <2>1
<1>3. Capture!First(I) \in I /\ \A j \in I : Capture!First(I) <= j
  BY <1>2, FirstIs
<1> DEFINE last == n - Capture!First(I)
<1>4. last \in S
  BY <1>3
<1>5. ASSUME NEW u \in S PROVE last >= u
  <2>1. n - u \in Nat /\ n - (n - u) = u
    OBVIOUS
  <2>2. n - u \in I
    BY <2>1
  <2> QED
    BY <1>3, <2>2
<1>6. \E m \in S : \A u \in S : m >= u
  BY <1>4, <1>5
<1>7. Watch!Max(S) \in S /\ \A u \in S : Watch!Max(S) >= u
  BY <1>6 DEF Watch!Max
<1> QED
  BY <1>7

\* Telemetry is not from the future.
LEMMA WatermarkIs ==
  ASSUME WatchType
  PROVE  Watch!Watermark \in Nat /\ Watch!Watermark <= clock
<1> DEFINE S == {0} \cup {x.at : x \in Watch!Events}
<1>1. S \in SUBSET (0 .. clock) /\ S # {} /\ clock \in Nat
  BY DEF WatchType, Watch!Events, Items
<1>2. Watch!Max(S) \in S
  BY <1>1, LatestIs
<1> QED
  BY <1>1, <1>2 DEF Watch!Watermark

\* What is written is well typed, and not from the future.
LEMMA WatchTypeKept == WatchType /\ Watch!Next => WatchType'
<1> SUFFICES ASSUME WatchType, Watch!Next PROVE WatchType'
  OBVIOUS
<1> USE DEF WatchType
<1>1. CASE Watch!Tick
  BY <1>1 DEF Watch!Tick, Items, Watch!requestVars, Watch!observerVars, Watch!pollVars,
     Watch!collectorVars
<1>2. ASSUME NEW r \in Requests, Watch!Receive(r) \/ Watch!Log(r) \/ Watch!Answer(r) PROVE WatchType'
  BY <1>2 DEF Watch!Receive, Watch!Log, Watch!Answer, Watch!observerVars, Watch!pollVars,
     Watch!collectorVars
<1>3. CASE Watch!Serve
  BY <1>3 DEF Watch!Serve, Duties, Watch!requestVars, Watch!pollVars, Watch!collectorVars
<1>4. CASE Watch!Collect
  <2>1. /\ Watch!Project(clock) \in SUBSET Items
        /\ \A x \in Watch!Project(clock) : x.at <= clock
    BY DEF Watch!Project, Watch!Logs, Watch!Event, Watch!Request, Items
  <2>2. batch' \in SUBSET Items /\ (\A x \in batch' : x.at <= clock) /\ duty' \in Duties
    BY <1>4, <2>1 DEF Watch!Collect, Duties
  <2> QED
    BY <1>4, <2>2 DEF Watch!Collect, Watch!requestVars, Watch!pollVars, Watch!collectorVars
<1>5. CASE Watch!Post
  <2>1. /\ buffer' \in SUBSET Items /\ repeated' \in SUBSET Items /\ duty' \in Duties
        /\ buffer' \subseteq buffer \cup batch
    BY <1>5 DEF Watch!Post, Watch!Take, Watch!TakePart, Duties
  <2> QED
    BY <1>5, <2>1 DEF Watch!Post, Watch!requestVars, Watch!pollVars, Watch!collectorVars
<1>6. CASE Watch!Commit
  BY <1>6 DEF Watch!Commit, Duties, Watch!Pollers, Watch!requestVars, Watch!collectorVars
<1>7. CASE Watch!Interrupt
  <2>1. Watch!Nothing \in [end : Nat, content : SUBSET Items]
    BY DEF Watch!Nothing
  <2> QED
    BY <1>7, <2>1 DEF Watch!Interrupt, Duties, Watch!Pollers, Watch!requestVars, Watch!collectorVars
<1>8. CASE Watch!Snapshot \/ Watch!Unlock
  <2>1. \A r \in observed : Watch!Request(r) \in Items /\ Watch!Request(r).at <= clock
    BY DEF Watch!Request, Items
  <2>2. /\ batch' \in SUBSET Items /\ duty' \in Duties /\ guarded' \in BOOLEAN
        /\ \A x \in batch' : x.at <= clock
    BY <1>8, <2>1 DEF Watch!Snapshot, Watch!Unlock, Watch!AllSent, Duties
  <2> QED
    BY <1>8, <2>2 DEF Watch!Snapshot, Watch!Unlock, Watch!requestVars, Watch!pollVars,
       Watch!collectorVars
<1>9. ASSUME NEW w \in Watchers, Watch!StartPoll(w) PROVE WatchType'
  BY <1>9
   DEF Watch!StartPoll, Watch!Pollers, Watch!requestVars, Watch!observerVars, Watch!collectorVars
<1>10. ASSUME NEW p \in Watch!Pollers, NEW next \in {"idle", "check", "persist", "failed"},
              Watch!Returns(p, next)
       PROVE  /\ phase' \in [Watch!Pollers -> {"idle", "read", "check", "persist", "failed"}]
              /\ duty' \in Duties
  BY <1>10 DEF Watch!Returns, Duties
<1>11. ASSUME NEW p \in Watch!Pollers, Watch!ReadWindow(p) PROVE WatchType'
  <2>1. \E next \in {"idle", "check", "persist", "failed"} : Watch!Returns(p, next)
    BY <1>11 DEF Watch!ReadWindow
  <2>2. poll' \in [Watch!Pollers -> [end : Nat, content : SUBSET Items]]
    <3>1. Watch!Watermark \in Nat /\ Watch!InWindow \in SUBSET Items
      BY WatermarkIs DEF Watch!InWindow
    <3>2. [end |-> Watch!Watermark, content |-> Watch!InWindow] \in [end : Nat, content : SUBSET Items]
      BY <3>1
    <3> QED
      BY <1>11, <3>2 DEF Watch!ReadWindow
  <2> QED
    BY <1>10, <1>11, <2>1, <2>2 DEF Watch!ReadWindow, Watch!requestVars, Watch!collectorVars
<1>12. ASSUME NEW p \in Watch!Pollers, Watch!CheckReceipts(p) PROVE WatchType'
  <2>1. \E next \in {"idle", "check", "persist", "failed"} : Watch!Returns(p, next)
    BY <1>12 DEF Watch!CheckReceipts
  <2> QED
    BY <1>10, <1>12, <2>1 DEF Watch!CheckReceipts, Watch!requestVars, Watch!collectorVars
<1>13. ASSUME NEW p \in Watch!Pollers, Watch!Persist(p) PROVE WatchType'
  <2>1. \E next \in {"idle", "check", "persist", "failed"} : Watch!Returns(p, next)
    BY <1>13 DEF Watch!Persist
  <2>2. receipts' \in SUBSET [end : Nat, content : SUBSET Items, by : Watch!Pollers]
    <3>1. [end |-> poll[p].end, content |-> poll[p].content, by |-> p]
            \in [end : Nat, content : SUBSET Items, by : Watch!Pollers]
      OBVIOUS
    <3> QED
      BY <1>13, <3>1 DEF Watch!Persist
  <2> QED
    BY <1>10, <1>13, <2>1, <2>2 DEF Watch!Persist, Watch!requestVars, Watch!collectorVars
<1>14. ASSUME NEW c \in Watch!Collectors, Watch!Begin(c) \/ Watch!Recheck(c) \/ Watch!Compare(c)
       PROVE  WatchType'
  BY <1>14 DEF Watch!Begin, Watch!Recheck, Watch!Compare, Watch!requestVars, Watch!observerVars,
     Watch!pollVars
<1>15. ASSUME NEW c \in Watch!Collectors, Watch!PostOwn(c) PROVE WatchType'
  <2>1. /\ Watch!Own(c) \in SUBSET Items /\ \A x \in Watch!Own(c) : x.at <= clock
    BY DEF Watch!Own, Items
  <2>2. /\ buffer' \in SUBSET Items /\ repeated' \in SUBSET Items
        /\ buffer' \subseteq buffer \cup Watch!Own(c)
        /\ \E next \in {"post", "compare", "failed"} : feeding' = [feeding EXCEPT ![c] = next]
    BY <1>15, <2>1 DEF Watch!PostOwn, Watch!Take
  <2> QED
    BY <1>15, <2>1, <2>2 DEF Watch!PostOwn, Watch!requestVars, Watch!observerVars, Watch!pollVars
<1> QED
  BY <1>1, <1>2, <1>3, <1>4, <1>5, <1>6, <1>7, <1>8, <1>9, <1>11, <1>12, <1>13, <1>14, <1>15
  DEF Watch!Next, Watch!ObserverStep, Watch!PollStep, Watch!CollectorStep

\* What does not touch the observer's record of what it posted keeps what it
\* says of it.
Aside ==
    /\ UNCHANGED <<started, logged, answered, observed, sent, closing, batch, buffer, repeated>>
    /\ clock' >= clock
    /\ duty' = duty \/ (duty \notin {"commit", "failed"} /\ duty' \notin {"commit", "post"})

\* So the observer's promises are kept.
LEMMA AsideKeeps ==
  ASSUME WatchType, WatchType', Served, Posted, Anew, Outdated, Aside
  PROVE  Served' /\ Posted' /\ Anew' /\ Outdated'
<1>1. clock' \in Nat /\ clock \in Nat /\ clock' >= clock /\ Retention \in Nat /\ Kept \in Nat
  BY TimesAssumption DEF WatchType, Aside
<1>2. Served'
  BY <1>1 DEF Served, Aside, WatchType
<1>3. Posted'
  BY DEF Posted, Aside, Asked, Genuine
<1>4. Anew'
  <2> SUFFICES ASSUME ~closing'
               PROVE  /\ duty' = "post" => batch' \cap buffer' = {}
                      /\ duty' # "failed" =>
                           \A x \in Asked(buffer)' : \/ x \in sent' \/ Gone(x)'
                                                     \/ duty' = "commit" /\ x \in batch'
                      /\ Asked(repeated)' = {}
    BY DEF Anew
  <2>1. ASSUME NEW x \in buffer, Gone(x) PROVE Gone(x)'
    BY <1>1, <2>1 DEF Gone, Aside, WatchType, Items
  <2> QED
    BY <2>1 DEF Anew, Aside, Asked
<1>5. Outdated'
  BY <1>1 DEF Outdated, Aside, Asked, WatchType, Items
<1> QED
  BY <1>2, <1>3, <1>4, <1>5

\* Who is about to file, and what is on file, stays.
LEMMA JudgedStays ==
  ASSUME Judged, UNCHANGED receipts,
         \A p \in Watch!Pollers : phase'[p] = "persist" => phase[p] = "persist" /\ poll'[p] = poll[p]
  PROVE  Judged'
BY DEF Judged, Watch!JudgedOnce

\* The observer's record is kept by every step.
LEMMA RecordKept ==
  ASSUME WatchInv, WatchType', Watch!Next
  PROVE  Served' /\ Posted' /\ Anew' /\ Outdated'
<1>0. /\ WatchType /\ Served /\ OneDuty /\ Posted /\ Anew /\ Outdated
      /\ {MaxAge, Width, Kept, Apart, Reach, Retention, MaxClock} \subseteq Nat
      /\ Apart <= Reach /\ Reach < Retention
      /\ Requests \cap Watch!Collectors = {} /\ "observer" \notin Watchers
  BY TimesAssumption, WatchersAssumption DEF WatchInv, Watch!Collectors
<1>01. clock \in Nat /\ clock >= clock /\ clock + 1 >= clock
  BY <1>0 DEF WatchType
<1>1. CASE Aside
  BY <1>0, <1>1, AsideKeeps
<1>2. ASSUME NEW p \in Watch!Pollers, NEW next, Watch!Returns(p, next), phase[p] \in {"read", "check", "persist"}
      PROVE  duty' = duty \/ (duty \notin {"commit", "failed"} /\ duty' \notin {"commit", "post"})
  BY <1>0, <1>2 DEF Watch!Returns, OneDuty
<1>3. ASSUME NEW p \in Watch!Pollers, Watch!PollStep(p) PROVE Aside
  BY <1>0, <1>2, <1>3
   DEF Watch!PollStep, Watch!ReadWindow, Watch!CheckReceipts, Watch!Persist, Aside,
     Watch!requestVars, WatchType
<1>4. CASE Watch!Tick
  <2>1. /\ UNCHANGED <<started, logged, answered, observed, sent, closing, batch, buffer, repeated>>
        /\ clock' >= clock /\ duty' = duty
    BY <1>01, <1>4 DEF Watch!Tick, Watch!requestVars, Watch!observerVars
  <2> QED
    BY <1>1, <2>1 DEF Aside
<1>5. CASE Watch!Serve \/ Watch!Unlock
  <2>1. /\ UNCHANGED <<started, logged, answered, observed, sent, closing, batch, buffer, repeated>>
        /\ clock' >= clock
    BY <1>01, <1>5 DEF Watch!Serve, Watch!Unlock, Watch!requestVars
  <2>2. duty \notin {"commit", "failed"} /\ duty' \notin {"commit", "post"}
    BY <1>5 DEF Watch!Serve, Watch!Unlock
  <2> QED
    BY <1>1, <2>1, <2>2 DEF Aside
<1>6. ASSUME NEW w \in Watchers, Watch!StartPoll(w) PROVE Aside
  BY <1>01, <1>6 DEF Watch!StartPoll, Aside, Watch!requestVars, Watch!observerVars
<1>7. ASSUME NEW c \in Watch!Collectors, Watch!Begin(c) \/ Watch!Recheck(c) \/ Watch!Compare(c)
      PROVE  Aside
  BY <1>01, <1>7 DEF Watch!Begin, Watch!Recheck, Watch!Compare, Aside, Watch!requestVars,
     Watch!observerVars
<1>8. ASSUME NEW r \in Requests, Watch!Receive(r) PROVE Served' /\ Posted' /\ Anew' /\ Outdated'
  <2>1. /\ started' = [started EXCEPT ![r] = clock] /\ r \notin answered
        /\ UNCHANGED <<clock, logged, answered, observed, sent, duty, closing, batch, buffer, repeated>>
    BY <1>0, <1>8 DEF Watch!Receive, Watch!observerVars, Served
  <2>2. \A x \in Items : x.of \in Requests /\ Genuine(x) => Genuine(x)'
    BY <1>0, <2>1 DEF Genuine, WatchType
  <2>3. Served'
    BY <1>0, <2>1 DEF Served, WatchType
  <2>4. Posted'
    BY <1>0, <2>1, <2>2 DEF Posted, Asked, WatchType
  <2>5. Anew' /\ Outdated'
    BY <1>0, <2>1 DEF Anew, Outdated, Asked, Gone
  <2> QED
    BY <2>3, <2>4, <2>5
<1>9. ASSUME NEW r \in Requests, Watch!Log(r) PROVE Served' /\ Posted' /\ Anew' /\ Outdated'
  <2>1. /\ logged' = [logged EXCEPT ![r] = clock] /\ logged[r] = 0
        /\ UNCHANGED <<clock, started, answered, observed, sent, duty, closing, batch, buffer, repeated>>
    BY <1>9 DEF Watch!Log, Watch!observerVars
  <2>2. \A x \in Items : x.of \in Requests /\ Genuine(x) => Genuine(x)'
    BY <1>0, <2>1 DEF Genuine, WatchType
  <2>3. Served'
    BY <1>0, <2>1 DEF Served, WatchType
  <2>4. Posted'
    BY <1>0, <2>1, <2>2 DEF Posted, Asked, WatchType
  <2>5. Anew' /\ Outdated'
    BY <1>0, <2>1 DEF Anew, Outdated, Asked, Gone
  <2> QED
    BY <2>3, <2>4, <2>5
<1>10. ASSUME NEW r \in Requests, Watch!Answer(r) PROVE Served' /\ Posted' /\ Anew' /\ Outdated'
  <2>1. /\ answered' = answered \cup {r} /\ observed' = observed \cup {r} /\ r \notin answered
        /\ started[r] > 0
        /\ UNCHANGED <<clock, started, logged, sent, duty, closing, batch, buffer, repeated>>
    BY <1>10 DEF Watch!Answer
  <2>2. \A x : Genuine(x) => Genuine(x)'
    BY <2>1 DEF Genuine
  <2>3. \A x : Gone(x) => Gone(x)'
    BY <2>1 DEF Gone
  <2>4. Served'
    BY <1>0, <2>1 DEF Served
  <2>5. Posted'
    BY <1>0, <2>1, <2>2 DEF Posted, Asked
  <2>6. Anew' /\ Outdated'
    BY <1>0, <2>1, <2>3 DEF Anew, Outdated, Asked
  <2> QED
    BY <2>4, <2>5, <2>6
<1>11. CASE Watch!Collect
  <2>1. CASE UNCHANGED batch /\ observed = {}
    <3>1. Aside
      BY <1>0, <1>11, <2>1 DEF Watch!Collect, Aside, Watch!requestVars, WatchType
    <3> QED
      BY <1>1, <3>1
  <2>2. CASE duty' = "post" /\ batch' = Watch!Project(clock) \ sent
    <3>0. /\ UNCHANGED <<clock, started, logged, answered, observed, sent, closing, buffer, repeated>>
          /\ duty = "serve"
      BY <1>11 DEF Watch!Collect, Watch!requestVars
    <3>1. ASSUME NEW x \in batch'
          PROVE  x.of \in Requests /\ Genuine(x) /\ ~Gone(x) /\ x \notin sent
      <4>1. x \notin sent /\ x \in Watch!Project(clock)
        BY <2>2, <3>1
      <4>2. CASE \E r \in Watch!Logs(clock) : x = Watch!Event(r)
        BY <1>0, <4>1, <4>2 DEF Watch!Logs, Watch!Event, Genuine, Gone, WatchType
      <4>3. CASE \E r \in Watch!Logs(clock) \cap observed : x = Watch!Request(r)
        BY <1>0, <4>1, <4>3 DEF Watch!Logs, Watch!Request, Genuine, Gone, WatchType, Served
      <4> QED
        BY <4>1, <4>2, <4>3 DEF Watch!Project
    <3>2. Served'
      BY <1>0, <3>0 DEF Served
    <3>3. \A x : Genuine(x)' <=> Genuine(x)
      BY <3>0 DEF Genuine
    <3>4. Posted'
      BY <1>0, <2>2, <3>0, <3>1, <3>3 DEF Posted, Asked
    <3>5. ~closing => batch' \cap buffer = {}
      BY <1>0, <3>0, <3>1 DEF Anew, Asked
    <3>6. Anew' /\ Outdated'
      BY <1>0, <2>2, <3>0, <3>5 DEF Anew, Outdated, Asked, Gone
    <3> QED
      BY <3>2, <3>4, <3>6
  <2> QED
    BY <1>11, <2>1, <2>2 DEF Watch!Collect
<1>12. CASE Watch!Post
  <2>0. /\ UNCHANGED <<clock, started, logged, answered, observed, sent, closing, batch>>
        /\ duty = "post"
    BY <1>12 DEF Watch!Post, Watch!requestVars
  <2>1. \A x : (Genuine(x)' <=> Genuine(x)) /\ (Gone(x)' <=> Gone(x))
    BY <2>0 DEF Genuine, Gone
  <2>2. Served'
    BY <1>0, <2>0 DEF Served
  <2>3. CASE Watch!Known(batch) = {} /\ Watch!Take(batch) /\ duty' = "commit"
    <3>1. buffer' = buffer \cup batch /\ repeated' = repeated \cup (batch \cap buffer)
      BY <2>3 DEF Watch!Take
    <3>2. Posted'
      BY <1>0, <2>0, <2>1, <2>3, <3>1 DEF Posted, Asked
    <3>3. Anew'
      BY <1>0, <2>0, <2>1, <2>3, <3>1 DEF Anew, Asked
    <3>4. ASSUME NEW x \in batch \cap buffer PROVE x.at < clock - Kept
      <4>1. ~(x.at >= Watch!Watermark - Kept)
        BY <2>3, <3>4 DEF Watch!Known
      <4>2. x.at \in Nat
        BY <1>0, <3>4 DEF WatchType, Items
      <4> QED
        BY <1>0, <4>1, <4>2, WatermarkIs DEF WatchType
    <3>5. Outdated'
      BY <1>0, <2>0, <3>1, <3>4 DEF Outdated, Asked
    <3> QED
      BY <2>2, <3>2, <3>3, <3>5
  <2>4. CASE Watch!TakePart(batch) /\ duty' = "failed"
    <3>1. PICK items \in SUBSET batch : /\ buffer' = buffer \cup items
                                       /\ repeated' = repeated \cup (items \cap buffer)
      BY <2>4 DEF Watch!TakePart, Watch!Take
    <3>2. Posted'
      BY <1>0, <2>0, <2>1, <2>4, <3>1 DEF Posted, Asked
    <3>3. Anew' /\ Outdated'
      BY <1>0, <2>0, <2>4, <3>1 DEF Anew, Outdated, Asked
    <3> QED
      BY <2>2, <3>2, <3>3
  <2> QED
    BY <1>12, <2>3, <2>4 DEF Watch!Post
<1>13. CASE Watch!Commit
  <2>0. /\ UNCHANGED <<clock, started, logged, answered, closing, buffer, repeated>>
        /\ duty = "commit" /\ duty' = "poll" /\ batch' = {}
        /\ sent' = {x \in sent \cup batch : Watch!Retained(x, clock)}
        /\ observed' = {r \in observed : started[r] >= clock - Retention}
    BY <1>13 DEF Watch!Commit, Watch!requestVars
  <2>1. \A x : Genuine(x)' <=> Genuine(x)
    BY <2>0 DEF Genuine
  <2>2. Served'
    BY <1>0, <2>0 DEF Served, WatchType
  <2>3. Posted'
    BY <1>0, <2>0, <2>1 DEF Posted, Asked
  <2>4. ASSUME NEW x \in Asked(buffer), x \in sent \cup batch \/ Gone(x)
        PROVE  x \in sent' \/ Gone(x)'
    <3>1. CASE Gone(x)
      BY <2>0, <3>1 DEF Gone
    <3>2. CASE x \in sent \cup batch
      <4>1. Genuine(x) /\ x.at \in Nat /\ x.kind \in {"event", "request"}
        BY <1>0, <3>2 DEF Posted, WatchType, Items
      <4>2. CASE x.at >= clock - Retention
        BY <2>0, <3>2, <4>2 DEF Watch!Retained
      <4>3. CASE x.at < clock - Retention
        BY <1>0, <2>0, <4>1, <4>3 DEF Genuine, Gone, WatchType
      <4> QED
        BY <1>0, <4>1, <4>2, <4>3 DEF WatchType
    <3> QED
      BY <2>4, <3>1, <3>2
  <2>5. Anew' /\ Outdated'
    BY <1>0, <2>0, <2>4 DEF Anew, Outdated, Asked
  <2> QED
    BY <2>2, <2>3, <2>5
<1>14. CASE Watch!Interrupt
  <2>0. /\ UNCHANGED <<clock, started, logged, answered, observed, sent, buffer, repeated>>
        /\ duty # "failed" /\ duty' = "serve" /\ closing' = TRUE /\ batch' = {}
    BY <1>14 DEF Watch!Interrupt, Watch!Running, Watch!requestVars
  <2>1. Served' /\ Anew' /\ Outdated'
    BY <1>0, <2>0 DEF Served, Anew, Outdated, Asked
  <2>2. Posted'
    BY <1>0, <2>0 DEF Posted, Asked, Genuine
  <2> QED
    BY <2>1, <2>2
<1>15. ASSUME NEW c \in Watch!Collectors, Watch!PostOwn(c)
       PROVE  Served' /\ Posted' /\ Anew' /\ Outdated'
  <2>0. /\ UNCHANGED <<clock, started, logged, answered, observed, sent, duty, closing, batch>>
        /\ buffer \subseteq buffer'
        /\ \A x \in buffer' : x \in buffer \/ x.of = c
        /\ \A x \in repeated' : x \in repeated \/ x.of = c
    BY <1>15 DEF Watch!PostOwn, Watch!Take, Watch!Own, Watch!requestVars, Watch!observerVars
  <2>1. c \notin Requests
    BY <1>0, <1>15
  <2>2. Asked(buffer)' = Asked(buffer) /\ Asked(repeated)' \subseteq Asked(repeated)
    BY <2>0, <2>1 DEF Asked
  <2>3. \A x : (Genuine(x)' <=> Genuine(x)) /\ (Gone(x)' <=> Gone(x))
    BY <2>0 DEF Genuine, Gone
  <2>4. Served'
    BY <1>0, <2>0 DEF Served
  <2>5. Posted'
    BY <1>0, <2>0, <2>2, <2>3 DEF Posted
  <2>6. batch \cap buffer' = batch \cap buffer
    BY <1>0, <2>0, <2>1 DEF Posted
  <2>7. Anew' /\ Outdated'
    BY <1>0, <2>0, <2>2, <2>3, <2>6 DEF Anew, Outdated
  <2> QED
    BY <2>4, <2>5, <2>7
<1>16. CASE Watch!Snapshot
  <2>0. /\ UNCHANGED <<clock, started, logged, answered, observed, sent, closing, buffer, repeated>>
        /\ duty = "close" /\ duty' = "compare"
        /\ batch' = {Watch!Request(r) : r \in observed}
    BY <1>16 DEF Watch!Snapshot, Watch!requestVars
  <2>1. \A x \in batch' : x.of \in Requests /\ Genuine(x)
    BY <1>0, <2>0 DEF Watch!Request, Genuine, WatchType, Served
  <2>2. \A x : Genuine(x)' <=> Genuine(x)
    BY <2>0 DEF Genuine
  <2>3. Served' /\ Posted'
    BY <1>0, <2>0, <2>1, <2>2 DEF Served, Posted, Asked
  <2>4. Anew' /\ Outdated'
    BY <1>0, <2>0 DEF Anew, Outdated, Asked, Gone
  <2> QED
    BY <2>3, <2>4
<1> QED
  BY <1>1, <1>3, <1>4, <1>5, <1>6, <1>7, <1>8, <1>9, <1>10, <1>11, <1>12, <1>13, <1>14, <1>15,
     <1>16
  DEF Watch!Next, Watch!ObserverStep, Watch!CollectorStep

\* The observer's duty while it polls, and what is on file, are kept.
LEMMA PollingKept ==
  ASSUME WatchInv, Watch!Next
  PROVE  OneDuty' /\ Judged'
<1>0. /\ WatchType /\ OneDuty /\ Judged /\ "observer" \notin Watchers
      /\ "observer" \in Watch!Pollers /\ Watchers \subseteq Watch!Pollers
  BY WatchersAssumption DEF WatchInv, Watch!Pollers
<1>1. ASSUME UNCHANGED <<phase, poll, receipts>>, duty = "poll" => duty' = "poll"
      PROVE  OneDuty' /\ Judged'
  BY <1>0, <1>1, JudgedStays DEF OneDuty
<1>2. CASE \/ Watch!Tick \/ (\E r \in Requests : Watch!Receive(r) \/ Watch!Log(r) \/ Watch!Answer(r))
           \/ \E c \in Watch!Collectors : Watch!CollectorStep(c)
  BY <1>1, <1>2 DEF Watch!Tick, Watch!Receive, Watch!Log, Watch!Answer, Watch!CollectorStep,
     Watch!Begin, Watch!Recheck, Watch!PostOwn, Watch!Compare, Watch!observerVars, Watch!pollVars
<1>3. CASE Watch!Serve \/ Watch!Collect \/ Watch!Post \/ Watch!Snapshot \/ Watch!Unlock
  <2>1. UNCHANGED <<phase, poll, receipts>> /\ duty # "poll"
    BY <1>3 DEF Watch!Serve, Watch!Collect, Watch!Post, Watch!Snapshot, Watch!Unlock,
       Watch!pollVars
  <2> QED
    BY <1>1, <2>1
<1>4. CASE Watch!Commit
  <2>1. /\ phase' = [phase EXCEPT !["observer"] = "read"] /\ duty' = "poll"
        /\ UNCHANGED <<poll, receipts>>
    BY <1>4 DEF Watch!Commit
  <2>2. \A p \in Watch!Pollers : phase'[p] = "persist" => phase[p] = "persist"
    BY <1>0, <2>1 DEF WatchType
  <2> QED
    BY <1>0, <2>1, <2>2, JudgedStays DEF OneDuty
<1>5. CASE Watch!Interrupt
  <2>1. /\ phase' = [phase EXCEPT !["observer"] = "idle"] /\ UNCHANGED receipts
        /\ poll' = [poll EXCEPT !["observer"] = Watch!Nothing]
    BY <1>5 DEF Watch!Interrupt
  <2>2. /\ phase'["observer"] = "idle"
        /\ \A p \in Watch!Pollers : phase'[p] = "persist" => phase[p] = "persist" /\ poll'[p] = poll[p]
    BY <1>0, <2>1 DEF WatchType
  <2> QED
    BY <1>0, <2>1, <2>2, JudgedStays DEF OneDuty
<1>6. ASSUME NEW w \in Watchers, Watch!StartPoll(w) PROVE OneDuty' /\ Judged'
  <2>1. phase' = [phase EXCEPT ![w] = "read"] /\ UNCHANGED <<poll, receipts, duty>>
    BY <1>6 DEF Watch!StartPoll, Watch!observerVars
  <2>2. /\ phase'["observer"] = phase["observer"]
        /\ \A p \in Watch!Pollers : phase'[p] = "persist" => phase[p] = "persist"
    BY <1>0, <1>6, <2>1 DEF WatchType
  <2> QED
    BY <1>0, <2>1, <2>2, JudgedStays DEF OneDuty
<1>7. ASSUME NEW p \in Watch!Pollers, phase[p] \in {"read", "check", "persist"},
             NEW next \in {"idle", "check", "persist", "failed"}, Watch!Returns(p, next)
      PROVE  /\ OneDuty'
             /\ phase'[p] = next /\ \A q \in Watch!Pollers \ {p} : phase'[q] = phase[q]
  <2>1. phase'[p] = next /\ \A q \in Watch!Pollers \ {p} : phase'[q] = phase[q]
    BY <1>0, <1>7 DEF Watch!Returns, WatchType
  <2>2. CASE p = "observer"
    BY <1>0, <1>7, <2>1, <2>2 DEF Watch!Returns, OneDuty
  <2>3. CASE p # "observer"
    BY <1>0, <1>7, <2>1, <2>3 DEF Watch!Returns, OneDuty
  <2> QED
    BY <2>1, <2>2, <2>3
<1>8. ASSUME NEW p \in Watch!Pollers, Watch!ReadWindow(p) PROVE OneDuty' /\ Judged'
  <2>1. /\ phase[p] = "read" /\ UNCHANGED receipts
        /\ \E next \in {"idle", "check", "failed"} : Watch!Returns(p, next)
        /\ \A q \in Watch!Pollers \ {p} : poll'[q] = poll[q]
    BY <1>0, <1>8 DEF Watch!ReadWindow, WatchType
  <2>2. OneDuty' /\ \A q \in Watch!Pollers : phase'[q] = "persist" => phase[q] = "persist" /\ poll'[q] = poll[q]
    BY <1>7, <2>1
  <2> QED
    BY <1>0, <2>1, <2>2, JudgedStays
<1>9. ASSUME NEW p \in Watch!Pollers, Watch!CheckReceipts(p) PROVE OneDuty' /\ Judged'
  <2>1. PICK next \in {"idle", "persist", "failed"} :
          /\ Watch!Returns(p, next)
          /\ next = "persist" => /\ Watch!SameWindow(p) = {} /\ Watch!Newer(p) = {}
                                 /\ ~(\E x \in receipts : Watch!Overlaps(x, p))
    BY <1>9 DEF Watch!CheckReceipts
  <2>2. phase[p] = "check" /\ UNCHANGED <<poll, receipts>>
    BY <1>9 DEF Watch!CheckReceipts
  <2>3. /\ OneDuty' /\ phase'[p] = next
        /\ \A q \in Watch!Pollers \ {p} : phase'[q] = phase[q]
    BY <1>7, <2>1, <2>2
  <2>4. ASSUME next = "persist", NEW x \in receipts PROVE poll[p].end - x.end >= Width
    <3>1. ~(poll[p].end - x.end < Width)
      BY <2>1, <2>4 DEF Watch!Overlaps
    <3>2. poll[p].end \in Nat /\ x.end \in Nat /\ Width \in Nat
      BY <1>0, TimesAssumption DEF WatchType
    <3> QED
      BY <3>1, <3>2
  <2>5. Judged'
    BY <1>0, <2>2, <2>3, <2>4 DEF Judged, Watch!JudgedOnce
  <2> QED
    BY <2>3, <2>5
<1>10. ASSUME NEW p \in Watch!Pollers, Watch!Persist(p) PROVE OneDuty' /\ Judged'
  <2>1. /\ phase[p] = "persist" /\ UNCHANGED poll
        /\ \E next \in {"idle", "failed"} : Watch!Returns(p, next)
    BY <1>10 DEF Watch!Persist
  <2>2. /\ OneDuty' /\ phase'[p] # "persist"
        /\ \A q \in Watch!Pollers \ {p} : phase'[q] = phase[q]
    BY <1>7, <2>1
  <2>3. CASE UNCHANGED receipts
    BY <1>0, <2>1, <2>2, <2>3, JudgedStays
  <2>4. CASE /\ Watch!SameWindow(p) = {}
             /\ receipts' = receipts \cup {[end |-> poll[p].end, content |-> poll[p].content, by |-> p]}
    <3> DEFINE new == [end |-> poll[p].end, content |-> poll[p].content, by |-> p]
    <3>1. new.end = poll[p].end /\ new.by = p /\ receipts' = receipts \cup {new}
      BY <2>4
    <3> HIDE DEF new
    <3>2. \A x \in receipts : x.end # new.end /\ (x.by = new.by => new.end - x.end >= Width)
      BY <1>0, <2>1, <2>4, <3>1 DEF Judged, Watch!SameWindow
    <3>3. Watch!JudgedOnce'
      BY <1>0, <3>1, <3>2 DEF Judged, Watch!JudgedOnce
    <3>4. \A q \in Watch!Pollers : phase'[q] = "persist" =>
             \A x \in receipts' : x.by = q => poll'[q].end - x.end >= Width
      BY <1>0, <2>1, <2>2, <3>1 DEF Judged
    <3> QED
      BY <2>2, <3>3, <3>4 DEF Judged
  <2> QED
    BY <1>10, <2>2, <2>3, <2>4 DEF Watch!Persist
<1> QED
  BY <1>2, <1>3, <1>4, <1>5, <1>6, <1>8, <1>9, <1>10
   DEF Watch!Next, Watch!ObserverStep, Watch!PollStep

\* At the start nothing was asked, posted or filed.
LEMMA WatchInit == AllInit => WatchInv
<1> SUFFICES ASSUME Watch!Init PROVE WatchInv
  BY DEF AllInit
<1>1. "observer" \in Watch!Pollers /\ Watch!Nothing \in [end : Nat, content : SUBSET Items]
  BY DEF Watch!Pollers, Watch!Nothing
<1>2. poll \in [Watch!Pollers -> [end : Nat, content : SUBSET Items]]
  BY <1>1 DEF Watch!Init
<1>3. phase \in [Watch!Pollers -> {"idle", "read", "check", "persist", "failed"}]
  BY DEF Watch!Init
<1>4. feeding \in [Watch!Collectors -> {"off", "recheck", "post", "compare", "done", "failed"}]
  BY DEF Watch!Init
<1>5. /\ clock \in Nat
      /\ started \in [Requests -> Nat] /\ logged \in [Requests -> Nat]
      /\ \A r \in Requests : started[r] <= clock /\ logged[r] <= clock
  BY DEF Watch!Init
<1>6. duty \in Duties /\ closing \in BOOLEAN /\ guarded \in BOOLEAN
  BY DEF Watch!Init, Duties
<1>7. /\ answered = {} /\ observed = {} /\ sent = {} /\ batch = {} /\ buffer = {}
      /\ repeated = {} /\ receipts = {}
  BY DEF Watch!Init
<1>8. WatchType
  BY <1>2, <1>3, <1>4, <1>5, <1>6, <1>7 DEF WatchType
<1> QED
  BY <1>1, <1>8 DEF Watch!Init, WatchInv, Served, OneDuty, Posted, Anew, Outdated, Judged,
     Watch!JudgedOnce, Asked

\* And always.
LEMMA WatchInvariant == AllSpec => []WatchInv
<1>1. WatchInv /\ [AllNext]_allVars => WatchInv'
  <2> SUFFICES ASSUME WatchInv, [AllNext]_allVars PROVE WatchInv'
    OBVIOUS
  <2>1. Watch!Next \/ UNCHANGED watchVars
    BY DEF AllNext, allVars
  <2>2. CASE Watch!Next
    <3>1. WatchType'
      BY <2>2, WatchTypeKept DEF WatchInv
    <3> QED
      BY <2>2, <3>1, RecordKept, PollingKept DEF WatchInv
  <2>3. CASE UNCHANGED watchVars
    <3>1. WatchType' /\ OneDuty'
      BY <2>3 DEF watchVars, WatchInv, WatchType, OneDuty
    <3>2. Served' /\ Posted' /\ Anew' /\ Outdated'
      BY <2>3 DEF watchVars, WatchInv, Served, Posted, Anew, Outdated, Asked, Genuine, Gone
    <3>3. Judged'
      BY <2>3, JudgedStays DEF watchVars, WatchInv
    <3> QED
      BY <3>1, <3>2, <3>3 DEF WatchInv
  <2> QED
    BY <2>1, <2>2, <2>3
<1> QED
  BY <1>1, WatchInit, PTL DEF AllSpec

\* No process predicts overlapping windows and no window has two predictions,
\* whoever polls beside whom and however often (JudgedOnce).
THEOREM WindowsAreJudgedOnce == AllSpec => []JudgedOnce
<1>1. WatchInv => JudgedOnce
  BY DEF WatchInv, Judged, JudgedOnce
<1> QED
  BY <1>1, WatchInvariant, PTL

\* The observer that nobody interrupts posts nothing twice, for any number of
\* requests (PostsOnce).
THEOREM ObserverPostsOnce == AllSpec => []PostsOnce
<1>1. WatchInv => PostsOnce
  BY DEF WatchInv, Anew, Asked, PostsOnce, Watch!PostsOnce
<1> QED
  BY <1>1, WatchInvariant, PTL

\* An observer that removes its lock has handed over what it had observed when
\* it last looked at its store, and nothing twice that the gateway remembers
\* (UnlockedIsExact).
THEOREM UnlockingIsExact == AllSpec => UnlockedIsExact
<1>1. WatchInv /\ [AllNext]_allVars => [campaign = "observation" => Watch!UnlockStep]_watchVars
  <2> SUFFICES ASSUME WatchInv, Watch!Next, guarded, ~guarded'
               PROVE  /\ \A r \in answered : \/ Watch!Request(r) \in buffer
                                             \/ started[r] < clock - Retention
                                             \/ Watch!CameTooLate(r)
                      /\ \A x \in repeated : x.of \notin Requests \/ x.at < clock - Kept
    BY DEF AllNext, allVars, Watch!UnlockStep
  <2>1. Watch!Unlock
    <3>1. CASE Watch!ObserverStep
      BY <3>1
       DEF Watch!ObserverStep, Watch!Serve, Watch!Collect, Watch!Post, Watch!Commit,
           Watch!Interrupt, Watch!Snapshot
    <3>2. CASE ~Watch!ObserverStep
      BY <3>2 DEF Watch!Next, Watch!Tick, Watch!Receive, Watch!Log, Watch!Answer, Watch!StartPoll,
         Watch!PollStep, Watch!ReadWindow, Watch!CheckReceipts, Watch!Persist, Watch!CollectorStep,
         Watch!Begin, Watch!Recheck, Watch!PostOwn, Watch!Compare, Watch!observerVars
    <3> QED
      BY <3>1, <3>2
  <2>2. Watch!AllSent /\ duty = "compare"
    BY <2>1 DEF Watch!Unlock
  <2>3. \A r \in answered : \/ Watch!Request(r) \in buffer
                             \/ started[r] < clock - Retention \/ Watch!CameTooLate(r)
    BY <2>2 DEF WatchInv, Served, Posted, Watch!AllSent, Watch!CameTooLate
  <2>4. \A x \in repeated : x.of \notin Requests \/ x.at < clock - Kept
    BY <2>2 DEF WatchInv, Outdated, Asked
  <2> QED
    BY <2>3, <2>4
<1> QED
  BY <1>1, WatchInvariant, PTL DEF AllSpec, UnlockedIsExact

-----------------------------------------------------------------------------
(* The evidence of one program *)

\* The values in rows and log, and the steps after which a program is over.
Outcomes == {"ok", "error", "slow", "refused"}
EventKinds == {"ok", "effect", "failure"}
Ended == {"judging", "saving", "rejecting", "cut"}

\* The types of the variables of DiagnosticEvidence.
SeenType ==
    /\ now \in Nat /\ cleared \in Nat /\ odd \in Nat /\ written \in Nat
    /\ term \in [from : Nat, expires : Nat] /\ span \in [begin : Nat, end : Nat]
    /\ rows \in SUBSET [id : Nat, at : Nat, outcome : Outcomes]
    /\ back \in SUBSET [id : Nat, at : Nat, outcome : Outcomes]
    /\ log \in SUBSET [of : Nat, at : Nat, kind : EventKinds]
    /\ force \in SUBSET Nat /\ hits \in SUBSET Nat
    /\ IsFiniteSet(rows) /\ IsFiniteSet(back)
    /\ \A e \in log : e.at <= now + 1

\* What is yet to be sent has no record.
Numbered ==
    /\ \A r \in rows \cup back : r.id < Seen!NextId
    /\ \A e \in log : e.of < Seen!NextId
    /\ \A h \in hits : h < Seen!NextId

\* The target logs an effect for nothing but a request that met the fault, and
\* logs it once.
EffectsMet ==
    /\ \A e \in log : e.kind = "effect" => e.of \in hits
    /\ \A e, f \in log : e.kind = "effect" /\ f.kind = "effect" /\ e.of = f.of => e = f

\* Requests that failed of something else.
Unrelated == {r \in rows : r.outcome = "error" /\ r.id \notin hits}

\* A slow answer is the fault, and errors that are not are the odd ones.
OutcomesMet ==
    /\ \A r \in rows : r.outcome = "slow" => r.id \in hits
    /\ Cardinality(Unrelated) <= odd /\ odd <= MaxOdd

\* The ticks of the traffic so far at which the lease had not ended.
Traffic(last) == {t \in (span.begin + 1)..last : t < term.expires}

\* A fault is in force while its traffic is sent, and released after it.
InTime ==
    program \notin Seen!Healthy =>
      /\ step \in {"idle", "armed"} => force = {}
      /\ step = "working" => span.begin <= now /\ force = Traffic(now)
      /\ step \in {"leaving", "recovering"} \cup Ended =>
           span.begin <= span.end /\ span.end <= now /\ force = Traffic(span.end)
      /\ step \in {"recovering"} \cup Ended =>
           span.end < term.expires /\ span.end <= cleared

\* The requests of a window that met the fault.
Met(w) == {r \in Seen!Within(w, rows) : r.id \in hits}

\* A window that shows the fault of its program: in force at every tick of
\* it, met often enough, and every request after it is answered.
Shown(w) ==
    /\ (w.start + 1)..w.end \subseteq force
    /\ Met(w) # {}
    /\ program \in {"payment", "timeout", "trainedTimeout"} => Cardinality(Met(w)) >= MinEvents
    /\ program \in {"latency", "rejection", "trainedLatency"} => 2 * Cardinality(Met(w)) >= Minute
    /\ \A r \in back : r.outcome = "ok" /\ \A t \in force : r.at > t

\* What is saved convinces, and will again.
Filed ==
    step = "saving" =>
      /\ Seen!Convincing(Seen!Again)
      /\ window = [start |-> Seen!Again.start, end |-> Seen!Again.end]
      /\ program \notin Seen!Healthy => Shown(window)

\* An audit refuses only what was cut short, and finds whole files valid.
Audited ==
    /\ verdict = "refused" => step = "cut"
    /\ verdict = "valid" => step = "saving" /\ written = Len(Seen!Files)

\* The invariant of the evidence of one program.
SeenInv ==
    SeenType /\ Numbered /\ EffectsMet /\ OutcomesMet /\ InTime /\ Filed /\ Audited

\* The thresholds are natural numbers.
LEMMA ThresholdsAreNatural ==
  /\ Guard \in Nat /\ Minute \in Nat /\ Edge \in Nat /\ Lifetime \in Nat
  /\ MinRequests \in Nat /\ MinAffected \in Nat /\ MinEvents \in Nat
  /\ Recoveries \in Nat /\ MaxOdd \in Nat /\ MaxNow \in Nat
  /\ 0 < MinEvents /\ MinEvents <= MinAffected /\ MinAffected <= MinRequests
  /\ Minute <= MinRequests /\ MaxOdd < MinAffected
BY ThresholdsAssumption, MinuteAssumption

\* A set of times that has a least element: Least is it.
LEMMA LeastIs ==
  ASSUME NEW S \in SUBSET Int, NEW m \in S, \A t \in S : m <= t
  PROVE  Seen!Least(S) \in S /\ \A t \in S : Seen!Least(S) <= t
BY DEF Seen!Least

\* The earlier of two times, and the earliest of three.
LEMMA LeastOf ==
  /\ \A a, b \in Int : /\ Seen!Least({a, b}) \in {a, b}
                       /\ Seen!Least({a, b}) <= a /\ Seen!Least({a, b}) <= b
  /\ \A a, b, c \in Int : /\ Seen!Least({a, b, c}) \in {a, b, c}
                          /\ Seen!Least({a, b, c}) <= a /\ Seen!Least({a, b, c}) <= b
                          /\ Seen!Least({a, b, c}) <= c
<1>1. ASSUME NEW a \in Int, NEW b \in Int
      PROVE  /\ Seen!Least({a, b}) \in {a, b}
             /\ Seen!Least({a, b}) <= a /\ Seen!Least({a, b}) <= b
  <2>1. \E m \in {a, b} : \A t \in {a, b} : m <= t
    OBVIOUS
  <2> QED
    BY <2>1, LeastIs
<1>2. ASSUME NEW a \in Int, NEW b \in Int, NEW c \in Int
      PROVE  /\ Seen!Least({a, b, c}) \in {a, b, c}
             /\ Seen!Least({a, b, c}) <= a /\ Seen!Least({a, b, c}) <= b
             /\ Seen!Least({a, b, c}) <= c
  <2>1. \E m \in {a, b, c} : \A t \in {a, b, c} : m <= t
    OBVIOUS
  <2> QED
    BY <2>1, LeastIs
<1> QED
  BY <1>1, <1>2

\* The watermark is the time of the latest event.
LEMMA WatermarkSeen ==
  ASSUME SeenType, log # {}
  PROVE  Seen!Watermark \in Nat
<1> DEFINE S == {e.at : e \in log}
<1>1. S \in SUBSET (0 .. now + 1) /\ S # {} /\ now + 1 \in Nat
  BY DEF SeenType
<1> HIDE DEF S
<1>2. Watch!Max(S) \in S /\ \A t \in S : t <= Watch!Max(S)
  BY <1>1, LatestIs
<1>3. \E m \in S : \A t \in S : m >= t
  BY <1>1, <1>2
<1>4. Seen!Greatest(S) \in S
  BY <1>3 DEF Seen!Greatest
<1> QED
  BY <1>1, <1>4 DEF S, Seen!Watermark

\* A window lies a guard inside of the traffic, and of the lease.
LEMMA WindowIs ==
  ASSUME SeenType, log # {}
  PROVE  LET w == Seen!Again
         IN  /\ w.start \in Int /\ w.end \in Int /\ w.start = w.end - Minute
             /\ w.end <= Seen!Watermark /\ w.end <= span.end - Guard
             /\ w.exists => w.start >= span.begin + Guard
<1> DEFINE faulty == program \notin Seen!Healthy
           first == IF faulty /\ term.from > span.begin THEN term.from ELSE span.begin
           last == IF faulty THEN Seen!Least({span.end, term.expires, cleared})
                   ELSE span.end
           end == Seen!Least({last - Guard, Seen!Watermark})
<1>1. /\ Seen!Watermark \in Int /\ span.begin \in Int /\ span.end \in Int
      /\ term.from \in Int /\ term.expires \in Int /\ cleared \in Int
  BY WatermarkSeen DEF SeenType
<1>2. last \in Int /\ last <= span.end
  <2>1. /\ Seen!Least({span.end, term.expires, cleared})
                \in {span.end, term.expires, cleared}
        /\ Seen!Least({span.end, term.expires, cleared}) <= span.end
    BY <1>1, LeastOf
  <2>2. /\ Seen!Least({span.end, term.expires, cleared}) \in Int
        /\ Seen!Least({span.end, term.expires, cleared}) <= span.end
    BY <1>1, <2>1
  <2> QED
    BY <1>1, <2>2
<1>3. first \in Int /\ first >= span.begin
  BY <1>1
<1>4. /\ Seen!Again.start = end - Minute /\ Seen!Again.end = end
      /\ Seen!Again.exists => end - Minute >= first + Guard
  BY DEF Seen!Again, Seen!SelectWindow
<1> HIDE DEF last, first
<1>5. last - Guard \in Int
  BY <1>2, ThresholdsAreNatural
<1>6. end \in Int /\ end <= last - Guard /\ end <= Seen!Watermark
  BY <1>1, <1>5, LeastOf
<1> HIDE DEF end
<1> QED
  BY <1>1, <1>2, <1>3, <1>4, <1>6, ThresholdsAreNatural

\* The programs count as we do.
LEMMA SameCount == \A S : Seen!Cardinality(S) = Cardinality(S)
BY DEF Seen!Cardinality, Cardinality, Seen!IsFiniteSet, IsFiniteSet

\* Who agrees with a program: of its evidence the auditor finds what it found.
LEMMA AuditorAgrees ==
  ASSUME SeenType, Seen!Convincing(Seen!Again),
         window = [start |-> Seen!Again.start, end |-> Seen!Again.end]
  PROVE  Seen!AuditPilot
<1>1. /\ Seen!Correlated /\ Seen!Again.exists /\ Seen!Observable(Seen!Again)
      /\ Seen!Proof(Seen!Again) /\ (program \notin Seen!Healthy => Seen!RecoveryProof)
  BY DEF Seen!Convincing
<1>2. window.start = Seen!Again.start /\ window.end = Seen!Again.end
  OBVIOUS
<1>3. Seen!Repeats
  BY <1>1, <1>2 DEF Seen!Repeats
<1>4. ASSUME program \in Seen!Healthy PROVE Seen!AuditPilot
  <2>1. Seen!HealthyProof(Seen!Again)
    BY <1>1, <1>4 DEF Seen!Proof, Seen!Healthy, Seen!Physical
  <2>2. Seen!HealthyProof(window)
    BY <2>1 DEF Seen!HealthyProof
  <2>3. Seen!Observable(window)
    BY <1>1, <1>2 DEF Seen!Observable, Seen!Within
  <2>4. log # {}
    BY <1>1 DEF Seen!Correlated
  <2>5. /\ window.start >= span.begin + Guard /\ window.end <= span.end - Guard
        /\ window.end <= Seen!Watermark
    BY <1>1, <1>2, <2>4, WindowIs
  <2>6. Seen!HealthyAudit /\ Seen!CalibrationAudit
    BY <1>1, <1>3, <2>1, <2>2, <2>3, <2>5 DEF Seen!HealthyAudit, Seen!CalibrationAudit
  <2> QED
    BY <1>4, <2>6 DEF Seen!AuditPilot, Seen!Healthy
<1>5. ASSUME program \notin Seen!Healthy PROVE Seen!AuditPilot
  <2>1. Seen!Repeats /\ Seen!RecoveryProof /\ Seen!Proof(Seen!Again)
    BY <1>1, <1>3, <1>5
  <2> QED
    BY <1>5, <2>1 DEF Seen!Proof, Seen!Physical, Seen!AuditPilot, Seen!PaymentAudit,
       Seen!TimeoutAudit, Seen!AuthAudit, Seen!ServiceAudit, Seen!ResourceAudit,
       Seen!LastTwoAudit, Seen!VerifiedAudit, Seen!BurstAudit
<1> QED
  BY <1>4, <1>5

\* Clients whose failure the target logged as the effect of its fault met it.
LEMMA EffectIsMet ==
  ASSUME EffectsMet, NEW w, NEW r \in Seen!Within(w, rows), Seen!Logged(r, {"effect"}, w)
  PROVE  r \in Met(w)
BY DEF EffectsMet, Met, Seen!Logged, Seen!Within

\* Sets of requests are finite, and smaller ones count less.
LEMMA CountIs ==
  ASSUME SeenType, NEW S, NEW T, S \subseteq T, T \subseteq rows
  PROVE  /\ IsFiniteSet(T) /\ Cardinality(S) \in Nat /\ Cardinality(T) \in Nat
         /\ Cardinality(S) <= Cardinality(T)
         /\ Cardinality(S) > 0 => S # {}
<1>1. IsFiniteSet(rows)
  BY DEF SeenType
<1>2. IsFiniteSet(T)
  BY <1>1, FS_Subset
<1>3. IsFiniteSet(S) /\ Cardinality(S) <= Cardinality(T)
  BY <1>2, FS_Subset
<1> QED
  BY <1>2, <1>3, FS_CardinalityType, FS_EmptySet

\* Requests that fail of something else are too few to pass for an effect.
LEMMA FailuresAreMet ==
  ASSUME SeenType, OutcomesMet, NEW w, NEW S, S \subseteq Seen!Clients(w, {"error"}),
         Cardinality(S) >= MinAffected
  PROVE  Met(w) # {}
<1> SUFFICES ASSUME Met(w) = {} PROVE FALSE
  OBVIOUS
<1>1. S \subseteq Unrelated /\ Unrelated \subseteq rows
  BY DEF Met, Unrelated, Seen!Clients, Seen!Within
<1>2. /\ Cardinality(S) \in Nat /\ Cardinality(Unrelated) \in Nat
      /\ Cardinality(S) <= Cardinality(Unrelated)
  BY <1>1, CountIs
<1> QED
  BY <1>2, ThresholdsAreNatural DEF SeenType, OutcomesMet

\* Every effect in the window is of another request that met the fault.
LEMMA EffectsAreCounted ==
  ASSUME SeenType, EffectsMet, NEW w
  PROVE  LET n == Cardinality({e \in Seen!Within(w, log) :
                    e.kind = "effect" /\ \E r \in Seen!Within(w, rows) : r.id = e.of})
         IN  n \in Nat /\ n <= Cardinality(Met(w))
<1> DEFINE E == {e \in Seen!Within(w, log) :
                   e.kind = "effect" /\ \E r \in Seen!Within(w, rows) : r.id = e.of}
           of == [e \in E |-> CHOOSE r \in Met(w) : r.id = e.of]
<1>1. ASSUME NEW e \in E PROVE of[e] \in Met(w) /\ of[e].id = e.of
  <2>1. e \in log /\ e.kind = "effect" /\ e.of \in hits
    BY DEF EffectsMet, Seen!Within
  <2>2. \E r \in Met(w) : r.id = e.of
    BY <2>1 DEF Met
  <2> QED
    BY <2>2
<1>2. of \in [E -> Met(w)]
  BY <1>1
<1>3. ASSUME NEW e \in E, NEW f \in E, of[e] = of[f] PROVE e = f
  <2>1. e.of = f.of
    BY <1>1, <1>3
  <2>2. e \in log /\ f \in log /\ e.kind = "effect" /\ f.kind = "effect"
    BY DEF Seen!Within
  <2> QED
    BY <2>1, <2>2 DEF EffectsMet
<1>4. of \in Injection(E, Met(w))
  BY <1>2, <1>3 DEF Injection, IsInjective
<1>5. IsFiniteSet(Met(w))
  <2>1. Met(w) \subseteq rows
    BY DEF Met, Seen!Within
  <2> QED
    BY <2>1, CountIs
<1> HIDE DEF E, of
<1>6. IsFiniteSet(E) /\ Cardinality(E) <= Cardinality(Met(w))
  BY <1>4, <1>5, FS_Injection
<1>7. Cardinality(E) \in Nat
  BY <1>6, FS_CardinalityType
<1> QED
  BY <1>6, <1>7 DEF E

\* What each gate finds in a window is its own fault: requests that met it are
\* there, as many as the effect counts.
LEMMA ProofIsMet ==
  ASSUME SeenType, EffectsMet, OutcomesMet, program \notin Seen!Healthy,
         NEW w, Seen!Proof(w)
  PROVE  /\ Met(w) # {}
         /\ program \in {"payment", "timeout", "trainedTimeout"}
              => Cardinality(Met(w)) >= MinEvents
         /\ program \in {"latency", "rejection", "trainedLatency"}
              => 2 * Cardinality(Met(w)) >= Minute
<1> DEFINE Known(S) == {r \in S : Seen!Logged(r, {"effect"}, w)}
<1>1. \A S : S \subseteq Seen!Within(w, rows) =>
        /\ Known(S) \subseteq Met(w) /\ S \subseteq rows
  BY EffectIsMet DEF Seen!Within
<1>2. Met(w) \subseteq rows
  BY DEF Met, Seen!Within
<1>3. \A S : S \subseteq Seen!Within(w, rows) =>
        /\ Cardinality(Known(S)) \in Nat /\ Cardinality(Known(S)) <= Cardinality(Met(w))
        /\ Cardinality(S) \in Nat
  BY <1>1, <1>2, CountIs
<1>4. /\ IsFiniteSet(Met(w)) /\ Cardinality(Met(w)) \in Nat
      /\ Cardinality(Met(w)) > 0 => Met(w) # {}
  BY <1>2, CountIs
<1>5. \A outcomes : Seen!Clients(w, outcomes) \subseteq Seen!Within(w, rows)
  BY DEF Seen!Clients
<1>6. Cardinality(Seen!Within(w, rows)) \in Nat
  BY <1>3
<1>7. CASE program = "payment"
  <2>1. Seen!PaymentProof(w)
    BY <1>7, SameCount DEF Seen!Proof, Seen!Healthy, Seen!Physical
  <2>2. Cardinality(Met(w)) >= MinEvents
    <3> DEFINE n == Cardinality({e \in Seen!Within(w, log) :
                      e.kind = "effect" /\ \E r \in Seen!Within(w, rows) : r.id = e.of})
    <3>1. n >= MinEvents
      BY <2>1, SameCount DEF Seen!PaymentProof
    <3>2. n \in Nat /\ n <= Cardinality(Met(w))
      BY EffectsAreCounted
    <3> HIDE DEF n
    <3> QED
      BY <1>4, <3>1, <3>2, ThresholdsAreNatural
  <2> QED
    BY <1>4, <1>7, <2>2, ThresholdsAreNatural
<1>8. CASE program \in {"timeout", "trainedTimeout"}
  <2> DEFINE S == Seen!Clients(w, {"error"})
  <2>1. Cardinality(Known(S)) >= MinEvents
    BY <1>8, SameCount DEF Seen!Proof, Seen!Healthy, Seen!Physical, Seen!TimeoutImpact
  <2>2. Cardinality(Met(w)) >= MinEvents
    BY <1>3, <1>4, <1>5, <2>1, ThresholdsAreNatural
  <2> QED
    BY <1>4, <1>8, <2>2, ThresholdsAreNatural
<1>9. CASE program \in {"auth", "burst"}
  <2> DEFINE S == Seen!Clients(w, {"refused"})
  <2>1. Cardinality(Known(S)) \in Nat /\ Cardinality(S) \in Nat
    BY <1>3, <1>5
  <2>2. Cardinality(Known(S)) > 0
    <3>1. CASE program = "auth"
      <4>1. Cardinality(Known(S)) >= MinEvents
        BY <3>1, SameCount DEF Seen!Proof, Seen!Healthy, Seen!Physical, Seen!AuthImpact
      <4> QED
        BY <2>1, <4>1, ThresholdsAreNatural
    <3>2. CASE program = "burst"
      <4>1. /\ Cardinality(Seen!Within(w, rows)) >= MinRequests
            /\ 10 * Cardinality(S) >= 9 * Cardinality(Seen!Within(w, rows))
            /\ 4 * Cardinality(Known(S)) >= 3 * Cardinality(S)
        BY <3>2, SameCount DEF Seen!Proof, Seen!Healthy, Seen!Physical, Seen!BurstImpact
      <4> QED
        BY <1>6, <2>1, <4>1, ThresholdsAreNatural
    <3> QED
      BY <1>9, <3>1, <3>2
  <2>3. Cardinality(Met(w)) > 0
    BY <1>3, <1>4, <1>5, <2>1, <2>2
  <2> QED
    BY <1>4, <1>9, <2>3
<1>10. CASE program \in {"latency", "rejection", "trainedLatency"}
  <2> DEFINE S == Seen!Clients(w, {IF program \in Seen!Delaying THEN "slow" ELSE "error"})
  <2>1. /\ Cardinality(Seen!Within(w, rows)) >= MinRequests
        /\ 2 * Cardinality(Known(S)) >= Cardinality(Seen!Within(w, rows))
    BY <1>10, SameCount DEF Seen!Proof, Seen!Healthy, Seen!Physical, Seen!ServiceImpact
  <2>2. /\ Cardinality(Known(S)) \in Nat
        /\ Cardinality(Known(S)) <= Cardinality(Met(w))
    BY <1>3, <1>5
  <2> HIDE DEF S, Known
  <2>3. 2 * Cardinality(Met(w)) >= MinRequests
    BY <1>4, <1>6, <2>1, <2>2, ThresholdsAreNatural
  <2>4. 2 * Cardinality(Met(w)) >= Minute /\ Cardinality(Met(w)) > 0
    BY <1>4, <2>3, ThresholdsAreNatural
  <2> QED
    BY <1>4, <1>10, <2>4
<1>11. CASE program \in Seen!Physical
  <2>1. Seen!ResourceProof(w)
    BY <1>11, SameCount DEF Seen!Proof, Seen!Healthy, Seen!Physical
  <2>2. PICK s \in Seen!Within(w, Seen!Samples) : s.at \in Seen!Pressed
    BY <2>1, SameCount DEF Seen!ResourceProof
  <2>3. PICK r \in rows : r.id \in hits /\ s.at = r.at
    BY <2>2 DEF Seen!Pressed
  <2>4. r \in Met(w)
    BY <2>2, <2>3 DEF Met, Seen!Within
  <2> QED
    BY <1>11, <2>4 DEF Seen!Physical
<1>12. CASE program = "outage"
  <2>1. Cardinality(Seen!Clients(w, {"error"})) >= MinAffected
    BY <1>12, SameCount DEF Seen!Proof, Seen!Healthy, Seen!Physical, Seen!OutageProof
  <2>2. Met(w) # {}
    BY <2>1, FailuresAreMet
  <2> QED
    BY <1>12, <2>2
<1>13. CASE program = "load"
  <2> DEFINE n == Cardinality(Seen!Within(w, rows))
             rank == (95 * n) \div 100 + 1
             failed == {r \in Seen!Clients(w, {"error"}) : Seen!Logged(r, {"failure"}, w)}
             slow == Seen!Clients(w, {"slow"})
  <2>1. \/ Cardinality(failed) >= MinAffected
        \/ Cardinality(slow) >= n + 1 - (IF rank < n THEN rank ELSE n)
    BY <1>13, SameCount DEF Seen!Proof, Seen!Healthy, Seen!Physical, Seen!OverloadProof
  <2>2. ASSUME Cardinality(failed) >= MinAffected PROVE Met(w) # {}
    <3>1. failed \subseteq Seen!Clients(w, {"error"})
      OBVIOUS
    <3> QED
      BY <2>2, <3>1, FailuresAreMet
  <2>3. ASSUME Cardinality(slow) >= n + 1 - (IF rank < n THEN rank ELSE n)
        PROVE  Met(w) # {}
    <3>1. slow \subseteq Met(w)
      BY DEF Met, OutcomesMet, Seen!Clients, Seen!Within
    <3>2. Cardinality(slow) \in Nat
      BY <1>3, <1>5
    <3>3. n \in Nat /\ rank \in Int
      BY <1>6
    <3> HIDE DEF slow, n, rank
    <3>4. Cardinality(slow) > 0
      BY <2>3, <3>2, <3>3
    <3>5. slow # {}
      BY <1>2, <3>1, <3>4, CountIs
    <3> QED
      BY <3>1, <3>5
  <2>4. Met(w) # {}
    BY <2>1, <2>2, <2>3
  <2> QED
    BY <1>13, <2>4
<1> QED
  BY <1>7, <1>8, <1>9, <1>10, <1>11, <1>12, <1>13 DEF Seen!Proof

\* Evidence that convinces shows its fault.
LEMMA ConvincingIsShown ==
  ASSUME SeenType, EffectsMet, OutcomesMet, InTime, step = "judging",
         program \notin Seen!Healthy, Seen!Convincing(Seen!Again),
         NEW w, w = [start |-> Seen!Again.start, end |-> Seen!Again.end]
  PROVE  Shown(w)
<1>1. /\ Seen!Correlated /\ Seen!RecoveryProof
      /\ Seen!Again.exists /\ Seen!Proof(Seen!Again)
  BY DEF Seen!Convincing
<1>2. w.start = Seen!Again.start /\ w.end = Seen!Again.end
  OBVIOUS
<1>3. log # {}
  BY <1>1 DEF Seen!Correlated
<1>4. /\ w.start \in Int /\ w.end \in Int
      /\ w.end <= span.end - Guard /\ w.start >= span.begin + Guard
  BY <1>1, <1>2, <1>3, WindowIs
<1>5. /\ span.end < term.expires /\ span.end <= cleared
      /\ force = Traffic(span.end)
      /\ span.begin \in Nat /\ span.end \in Nat /\ term.expires \in Nat /\ cleared \in Nat
  BY DEF InTime, Ended, SeenType
<1>6. (w.start + 1)..w.end \subseteq force
  BY <1>4, <1>5, ThresholdsAreNatural DEF Traffic
<1>7. Met(w) = Met(Seen!Again)
  BY <1>2 DEF Met, Seen!Within
<1>8. \A r \in back : r.outcome = "ok" /\ r.at > cleared /\ r.at \in Nat
  BY <1>1 DEF Seen!RecoveryProof, SeenType
<1>9. \A t \in force : t \in Nat /\ t <= cleared
  BY <1>5 DEF Traffic
<1>10. \A r \in back : r.outcome = "ok" /\ \A t \in force : r.at > t
  BY <1>5, <1>8, <1>9
<1> QED
  BY <1>1, <1>6, <1>7, <1>10, ProofIsMet DEF Shown

\* A request more: its number is new, and the next is one higher.
LEMMA OneMoreRow ==
  ASSUME SeenType, Numbered, NEW outcome \in Outcomes, back' = back, NEW t \in Nat,
         rows' = rows \cup {[id |-> Seen!NextId, at |-> t, outcome |-> outcome]}
  PROVE  /\ Seen!NextId \in Nat /\ Seen!NextId' = Seen!NextId + 1
         /\ IsFiniteSet(rows')
         /\ rows' \in SUBSET [id : Nat, at : Nat, outcome : Outcomes]
         /\ \A r \in rows' \cup back' : r.id < Seen!NextId'
<1> DEFINE new == [id |-> Seen!NextId, at |-> t, outcome |-> outcome]
<1>1. /\ Cardinality(rows) \in Nat /\ Cardinality(back) \in Nat
      /\ Seen!NextId = Cardinality(rows) + Cardinality(back) + 1
  BY SameCount, FS_CardinalityType DEF SeenType, Seen!NextId
<1>2. Seen!NextId \in Nat /\ new \notin rows
  BY <1>1 DEF Numbered
<1>3. rows' = rows \cup {new}
  OBVIOUS
<1>4. IsFiniteSet(rows') /\ Cardinality(rows') = Cardinality(rows) + 1
  BY <1>2, <1>3, FS_AddElement DEF SeenType
<1>5. Seen!NextId' = Cardinality(rows') + Cardinality(back') + 1
  BY SameCount DEF Seen!NextId
<1>6. Seen!NextId' = Seen!NextId + 1
  BY <1>1, <1>4, <1>5
<1>7. rows' \in SUBSET [id : Nat, at : Nat, outcome : Outcomes]
  BY <1>2 DEF SeenType
<1>8. \A r \in rows \cup back : r.id \in Nat /\ r.id < Seen!NextId
  BY DEF SeenType, Numbered
<1>9. \A r \in rows' \cup back' : r.id < Seen!NextId'
  BY <1>2, <1>3, <1>6, <1>8
<1> QED
  BY <1>2, <1>4, <1>6, <1>7, <1>9

\* The same of a request after the fault.
LEMMA OneMoreBack ==
  ASSUME SeenType, Numbered, NEW outcome \in Outcomes, rows' = rows, NEW t \in Nat,
         back' = back \cup {[id |-> Seen!NextId, at |-> t, outcome |-> outcome]}
  PROVE  /\ Seen!NextId \in Nat /\ Seen!NextId' = Seen!NextId + 1
         /\ IsFiniteSet(back')
         /\ back' \in SUBSET [id : Nat, at : Nat, outcome : Outcomes]
         /\ \A r \in rows' \cup back' : r.id < Seen!NextId'
<1> DEFINE new == [id |-> Seen!NextId, at |-> t, outcome |-> outcome]
<1>1. /\ Cardinality(rows) \in Nat /\ Cardinality(back) \in Nat
      /\ Seen!NextId = Cardinality(rows) + Cardinality(back) + 1
  BY SameCount, FS_CardinalityType DEF SeenType, Seen!NextId
<1>2. Seen!NextId \in Nat /\ new \notin back
  BY <1>1 DEF Numbered
<1>3. back' = back \cup {new}
  OBVIOUS
<1>4. IsFiniteSet(back') /\ Cardinality(back') = Cardinality(back) + 1
  BY <1>2, <1>3, FS_AddElement DEF SeenType
<1>5. Seen!NextId' = Cardinality(rows') + Cardinality(back') + 1
  BY SameCount DEF Seen!NextId
<1>6. Seen!NextId' = Seen!NextId + 1
  BY <1>1, <1>4, <1>5
<1>7. back' \in SUBSET [id : Nat, at : Nat, outcome : Outcomes]
  BY <1>2 DEF SeenType
<1>8. \A r \in rows \cup back : r.id \in Nat /\ r.id < Seen!NextId
  BY DEF SeenType, Numbered
<1>9. \A r \in rows' \cup back' : r.id < Seen!NextId'
  BY <1>2, <1>3, <1>6, <1>8
<1> QED
  BY <1>2, <1>4, <1>6, <1>7, <1>9

\* All that is recorded of requests.
Records == <<rows, back, log, odd, hits>>

\* A request of the traffic and what is logged of it keep the records in order.
LEMMA SentKeeps ==
  ASSUME SeenType, Numbered, NEW outcome \in Outcomes,
         NEW mark \in EventKinds \cup {"none"}, NEW lag \in {0, 1},
         Seen!Sent(outcome, mark, lag), now' = now + 1, UNCHANGED back,
         hits' \in {hits, hits \cup {Seen!NextId}}
  PROVE  /\ rows' \in SUBSET [id : Nat, at : Nat, outcome : Outcomes]
         /\ log' \in SUBSET [of : Nat, at : Nat, kind : EventKinds]
         /\ hits' \in SUBSET Nat /\ IsFiniteSet(rows')
         /\ \A e \in log' : e.at <= now' + 1
         /\ Numbered'
<1> DEFINE event == [of |-> Seen!NextId, at |-> now + 1 + lag, kind |-> mark]
<1>1. now + 1 \in Nat /\ now + 1 + lag \in Nat /\ now + 1 + lag <= now' + 1
  BY DEF SeenType
<1>2. rows' = rows \cup {[id |-> Seen!NextId, at |-> now + 1, outcome |-> outcome]}
  BY DEF Seen!Sent
<1>3. /\ Seen!NextId \in Nat /\ Seen!NextId' = Seen!NextId + 1
      /\ IsFiniteSet(rows')
      /\ rows' \in SUBSET [id : Nat, at : Nat, outcome : Outcomes]
      /\ \A r \in rows' \cup back' : r.id < Seen!NextId'
  BY <1>1, <1>2, OneMoreRow
<1>4. log' = log \/ (mark # "none" /\ log' = log \cup {event})
  BY DEF Seen!Sent
<1>5. event \in [of : Nat, at : Nat, kind : EventKinds \cup {"none"}]
  BY <1>1, <1>3
<1>6. \A e \in log : e.of \in Nat /\ e.of < Seen!NextId /\ e.at \in Nat /\ e.at <= now' + 1
  BY DEF SeenType, Numbered
<1>7. \A e \in log' : e.of < Seen!NextId' /\ e.at <= now' + 1
  BY <1>1, <1>3, <1>4, <1>6
<1>8. log' \in SUBSET [of : Nat, at : Nat, kind : EventKinds]
  BY <1>4, <1>5 DEF SeenType
<1>9. \A h \in hits : h \in Nat /\ h < Seen!NextId
  BY DEF SeenType, Numbered
<1>10. hits' \in SUBSET Nat /\ \A h \in hits' : h < Seen!NextId'
  BY <1>3, <1>9
<1> QED
  BY <1>3, <1>7, <1>8, <1>10 DEF Numbered

\* An action that changes no record.
LEMMA RecordsStay ==
  ASSUME SeenType, Numbered, EffectsMet, OutcomesMet, UNCHANGED Records
  PROVE  Numbered' /\ EffectsMet' /\ OutcomesMet'
<1>1. UNCHANGED <<rows, back, log, odd, hits>>
  BY DEF Records
<1>2. Seen!NextId' = Seen!NextId
  BY <1>1, SameCount DEF Seen!NextId
<1>3. Unrelated' = Unrelated
  BY <1>1 DEF Unrelated
<1> QED
  BY <1>1, <1>2, <1>3 DEF Numbered, EffectsMet, OutcomesMet

\* The outcomes that programs have.
LEMMA HitOutcomeIs == Seen!HitOutcome \in Outcomes
BY DEF Seen!HitOutcome, Outcomes

\* Work leaves a request that met its fault, one that did not, one that failed
\* of something else, or none.
LEMMA WorkKeeps ==
  ASSUME SeenType, Numbered, EffectsMet, OutcomesMet, Seen!Work
  PROVE  SeenType' /\ Numbered' /\ EffectsMet' /\ OutcomesMet'
<1>1. /\ now' = now + 1 /\ now + 1 \in Nat
      /\ UNCHANGED <<program, step, term, span, cleared, back, window, written, verdict>>
      /\ force' = IF Seen!InForce(now + 1) THEN force \cup {now + 1} ELSE force
  BY DEF Seen!Work, SeenType
<1>2. force' \in SUBSET Nat
  BY <1>1 DEF SeenType
<1> DEFINE InOrder ==
      /\ rows' \in SUBSET [id : Nat, at : Nat, outcome : Outcomes]
      /\ log' \in SUBSET [of : Nat, at : Nat, kind : EventKinds]
      /\ hits' \in SUBSET Nat /\ IsFiniteSet(rows')
      /\ \A e \in log' : e.at <= now' + 1
      /\ Numbered'
<1>3. ASSUME InOrder, odd' \in Nat PROVE SeenType'
  BY <1>1, <1>2, <1>3 DEF SeenType
<1> DEFINE Row(outcome) == [id |-> Seen!NextId, at |-> now + 1, outcome |-> outcome]
<1>4. CASE Seen!Meets
  <2>1. PICK lag \in {0, 1} :
          Seen!Sent(Seen!HitOutcome, "effect", lag) /\ odd + lag <= MaxOdd /\ odd' = odd + lag
    BY <1>4 DEF Seen!Meets
  <2>2. hits' = hits \cup {Seen!NextId}
    BY <1>4 DEF Seen!Meets
  <2>3. InOrder
    BY <1>1, <2>1, <2>2, HitOutcomeIs, SentKeeps DEF EventKinds
  <2>4. /\ rows' = rows \cup {Row(Seen!HitOutcome)}
        /\ log' = log \cup {[of |-> Seen!NextId, at |-> now + 1 + lag, kind |-> "effect"]}
    BY <2>1 DEF Seen!Sent
  <2>5. \A e \in log : e.of # Seen!NextId
    BY DEF Numbered, SeenType
  <2>6. EffectsMet'
    BY <2>2, <2>4, <2>5 DEF EffectsMet
  <2>7. odd' \in Nat /\ odd <= odd' /\ odd' <= MaxOdd
    BY <2>1 DEF SeenType
  <2>8. \A r \in rows' : r.outcome = "slow" => r.id \in hits'
    BY <2>2, <2>4 DEF OutcomesMet
  <2>9. Unrelated' \subseteq Unrelated /\ Unrelated \subseteq rows
    BY <2>2, <2>4 DEF Unrelated
  <2>10. /\ Cardinality(Unrelated') \in Nat /\ Cardinality(Unrelated) \in Nat
         /\ Cardinality(Unrelated') <= Cardinality(Unrelated)
    BY <2>9, CountIs
  <2>11. OutcomesMet'
    BY <2>7, <2>8, <2>10 DEF OutcomesMet, SeenType
  <2> QED
    BY <1>3, <2>3, <2>6, <2>7, <2>11
<1>5. CASE Seen!Passes
  <2>1. Seen!Sent("ok", "ok", 0) /\ UNCHANGED <<odd, hits>>
    BY <1>5 DEF Seen!Passes
  <2>2. InOrder
    BY <1>1, <2>1, SentKeeps DEF EventKinds, Outcomes
  <2>3. /\ rows' = rows \cup {Row("ok")}
        /\ log' = log \cup {[of |-> Seen!NextId, at |-> now + 1 + 0, kind |-> "ok"]}
    BY <2>1 DEF Seen!Sent
  <2>4. EffectsMet'
    BY <2>1, <2>3 DEF EffectsMet
  <2>5. Unrelated' = Unrelated
    BY <2>1, <2>3 DEF Unrelated
  <2>6. OutcomesMet'
    BY <2>1, <2>3, <2>5 DEF OutcomesMet
  <2> QED
    BY <1>3, <2>1, <2>2, <2>4, <2>6 DEF SeenType
<1>6. CASE Seen!Misfires
  <2>1. odd < MaxOdd /\ odd' = odd + 1 /\ hits' = hits /\ odd' \in Nat
    BY <1>6 DEF Seen!Misfires, SeenType
  <2>2. ASSUME NEW outcome \in {"ok", "error"}, NEW mark \in {"failure", "none"},
               Seen!Sent(outcome, mark, 0)
        PROVE  InOrder /\ EffectsMet' /\ OutcomesMet'
    <3>1. InOrder
      BY <1>1, <2>1, <2>2, SentKeeps DEF EventKinds, Outcomes
    <3>2. /\ rows' = rows \cup {Row(outcome)}
          /\ \/ log' = log
             \/ log' = log \cup {[of |-> Seen!NextId, at |-> now + 1 + 0, kind |-> "failure"]}
      BY <2>2 DEF Seen!Sent
    <3>3. EffectsMet'
      BY <2>1, <3>2 DEF EffectsMet
    <3>4. \A r \in rows' : r.outcome = "slow" => r.id \in hits'
      BY <2>1, <3>2 DEF OutcomesMet
    <3>5. Unrelated' \subseteq Unrelated \cup {Row(outcome)} /\ Unrelated \subseteq rows
      BY <2>1, <3>2 DEF Unrelated
    <3>6. /\ IsFiniteSet(Unrelated) /\ Cardinality(Unrelated) \in Nat
      BY <3>5, CountIs
    <3>7. /\ IsFiniteSet(Unrelated \cup {Row(outcome)})
          /\ Cardinality(Unrelated \cup {Row(outcome)}) \in Nat
          /\ Cardinality(Unrelated \cup {Row(outcome)}) <= Cardinality(Unrelated) + 1
      BY <3>6, FS_AddElement
    <3>8. /\ Cardinality(Unrelated') \in Nat
          /\ Cardinality(Unrelated') <= Cardinality(Unrelated) + 1
      <4>1. /\ IsFiniteSet(Unrelated')
            /\ Cardinality(Unrelated') <= Cardinality(Unrelated \cup {Row(outcome)})
        BY <3>5, <3>7, FS_Subset
      <4>2. Cardinality(Unrelated') \in Nat
        BY <4>1, FS_CardinalityType
      <4> QED
        BY <3>6, <3>7, <4>1, <4>2
    <3>9. OutcomesMet'
      BY <2>1, <3>4, <3>6, <3>8, ThresholdsAreNatural DEF OutcomesMet, SeenType
    <3> QED
      BY <3>1, <3>3, <3>9
  <2>3. CASE UNCHANGED <<rows, log>>
    <3>1. UNCHANGED <<rows, back, log, hits>>
      BY <1>1, <2>1, <2>3
    <3>2. Seen!NextId' = Seen!NextId
      BY <3>1, SameCount DEF Seen!NextId
    <3>3. Numbered' /\ EffectsMet'
      BY <3>1, <3>2 DEF Numbered, EffectsMet
    <3>4. Unrelated' = Unrelated /\ Unrelated \subseteq rows
      BY <3>1 DEF Unrelated
    <3>5. Cardinality(Unrelated) \in Nat
      BY <3>4, CountIs
    <3>6. OutcomesMet'
      BY <2>1, <3>1, <3>4, <3>5, ThresholdsAreNatural DEF OutcomesMet, SeenType
    <3>7. InOrder
      BY <1>1, <3>1, <3>3 DEF SeenType
    <3> QED
      BY <1>3, <2>1, <3>3, <3>6, <3>7
  <2>4. \/ Seen!Sent("error", "failure", 0) \/ Seen!Sent("ok", "none", 0)
        \/ UNCHANGED <<rows, log>>
    BY <1>6 DEF Seen!Misfires
  <2> QED
    BY <1>3, <2>1, <2>2, <2>3, <2>4
<1> QED
  BY <1>4, <1>5, <1>6 DEF Seen!Work

\* After the traffic requests find out whether the system works again.
LEMMA RecoverKeeps ==
  ASSUME SeenType, Numbered, EffectsMet, OutcomesMet, Seen!Recover
  PROVE  SeenType' /\ Numbered' /\ EffectsMet' /\ OutcomesMet'
<1>1. UNCHANGED <<program, now, term, span, cleared, rows, odd, force, hits, window,
                  written, verdict>>
  BY DEF Seen!Recover
<1>2. PICK outcome \in {"ok", "error"} :
        /\ back' = back \cup {[id |-> Seen!NextId, at |-> now, outcome |-> outcome]}
        /\ log' = log \cup {[of |-> Seen!NextId, at |-> now,
                             kind |-> IF outcome = "ok" THEN "ok" ELSE "failure"]}
  BY DEF Seen!Recover
<1>3. now \in Nat /\ outcome \in Outcomes
  BY DEF SeenType, Outcomes
<1>4. /\ Seen!NextId \in Nat /\ Seen!NextId' = Seen!NextId + 1
      /\ IsFiniteSet(back')
      /\ back' \in SUBSET [id : Nat, at : Nat, outcome : Outcomes]
      /\ \A r \in rows' \cup back' : r.id < Seen!NextId'
  BY <1>1, <1>2, <1>3, OneMoreBack
<1>5. /\ log' \in SUBSET [of : Nat, at : Nat, kind : EventKinds]
      /\ \A e \in log' : e.at <= now' + 1
  BY <1>1, <1>2, <1>3, <1>4 DEF SeenType, EventKinds
<1>6. SeenType'
  BY <1>1, <1>4, <1>5 DEF SeenType
<1>7. \A e \in log : e.of \in Nat /\ e.of < Seen!NextId
  BY DEF SeenType, Numbered
<1>8. \A h \in hits : h \in Nat /\ h < Seen!NextId
  BY DEF SeenType, Numbered
<1>9. Numbered'
  BY <1>1, <1>2, <1>4, <1>7, <1>8 DEF Numbered
<1>10. EffectsMet'
  BY <1>1, <1>2, <1>7 DEF EffectsMet
<1>11. Unrelated' = Unrelated
  BY <1>1 DEF Unrelated
<1>12. OutcomesMet'
  BY <1>1, <1>11 DEF OutcomesMet
<1> QED
  BY <1>6, <1>9, <1>10, <1>12

\* The other actions leave the records alone.
LEMMA SeenKept ==
  ASSUME SeenType, Numbered, EffectsMet, OutcomesMet, Seen!Next
  PROVE  SeenType' /\ Numbered' /\ EffectsMet' /\ OutcomesMet'
<1>1. ASSUME UNCHANGED Records, SeenType'
      PROVE  SeenType' /\ Numbered' /\ EffectsMet' /\ OutcomesMet'
  BY <1>1, RecordsStay
<1>2. CASE Seen!Tick
  BY <1>1, <1>2 DEF Seen!Tick, Records, SeenType
<1>3. CASE Seen!Activate
  <2>1. now + Lifetime \in Nat
    BY ThresholdsAreNatural DEF SeenType
  <2> QED
    BY <1>1, <1>3, <2>1 DEF Seen!Activate, Records, SeenType
<1>4. CASE Seen!Begin
  BY <1>1, <1>4 DEF Seen!Begin, Records, SeenType
<1>5. CASE Seen!Work
  BY <1>5, WorkKeeps
<1>6. CASE Seen!Finish
  BY <1>1, <1>6 DEF Seen!Finish, Records, SeenType
<1>7. CASE Seen!Leave
  BY <1>1, <1>7 DEF Seen!Leave, Records, SeenType
<1>8. CASE Seen!Recover
  BY <1>8, RecoverKeeps
<1>9. CASE Seen!Judge
  <2>1. UNCHANGED <<now, cleared, odd, written, term, span, rows, back, log, force, hits>>
    BY <1>9 DEF Seen!Judge
  <2> QED
    BY <1>1, <2>1 DEF Records, SeenType
<1>10. CASE Seen!Write
  BY <1>1, <1>10 DEF Seen!Write, Records, SeenType
<1>11. CASE Seen!CutOff
  BY <1>1, <1>11 DEF Seen!CutOff, Records, SeenType
<1>12. CASE Seen!Audit
  BY <1>1, <1>12 DEF Seen!Audit, Records, SeenType
<1>13. CASE Seen!Replay
  BY <1>1, <1>13 DEF Seen!Replay, Records, SeenType
<1> QED
  BY <1>2, <1>3, <1>4, <1>5, <1>6, <1>7, <1>8, <1>9, <1>10, <1>11, <1>12, <1>13
     DEF Seen!Next

\* The fault stays where its traffic was.
LEMMA InTimeKept ==
  ASSUME SeenType, InTime, Seen!Next
  PROVE  InTime'
<1> SUFFICES ASSUME program' \notin Seen!Healthy PROVE InTime'
  BY DEF InTime, Seen!Healthy
<1>1. program \notin Seen!Healthy
  <2>1. program' = program
    BY DEF Seen!Next, Seen!Tick, Seen!Activate, Seen!Begin, Seen!Work, Seen!Finish,
       Seen!Leave, Seen!Recover, Seen!Judge, Seen!Write, Seen!CutOff, Seen!Audit,
       Seen!Replay
  <2> QED
    BY <2>1 DEF Seen!Healthy
<1>2. /\ now \in Nat /\ cleared \in Nat /\ span.begin \in Nat /\ span.end \in Nat
      /\ term.expires \in Nat /\ span \in [begin : Nat, end : Nat]
  BY DEF SeenType
<1>3. CASE Seen!Tick
  <2>1. /\ step \in {"armed", "leaving", "recovering"} /\ now' = now + 1
        /\ UNCHANGED <<step, term, span, cleared, force>>
    BY <1>3 DEF Seen!Tick
  <2> QED
    BY <1>1, <1>2, <2>1 DEF InTime, Traffic, Ended
<1>4. CASE Seen!Activate
  BY <1>1, <1>4 DEF Seen!Activate, InTime, Ended
<1>5. CASE Seen!Begin
  <2>1. /\ force = {} /\ force' = {} /\ now' = now /\ step' = "working"
        /\ span'.begin = now /\ term' = term
    BY <1>1, <1>2, <1>5 DEF Seen!Begin, InTime
  <2>2. (now + 1)..now = {}
    BY <1>2
  <2> QED
    BY <1>2, <2>1, <2>2 DEF InTime, Traffic, Ended
<1>6. CASE Seen!Work
  <2>1. /\ step = "working" /\ now' = now + 1 /\ UNCHANGED <<step, term, span>>
        /\ span.begin <= now /\ force = Traffic(now)
        /\ force' = IF now + 1 < term.expires THEN force \cup {now + 1} ELSE force
    BY <1>1, <1>6 DEF Seen!Work, Seen!InForce, InTime
  <2>2. force' = {t \in (span.begin + 1)..(now + 1) : t < term.expires}
    BY <1>2, <2>1 DEF Traffic
  <2>3. force' = {t \in (span'.begin + 1)..now' : t < term'.expires}
    BY <2>1, <2>2
  <2> QED
    BY <1>2, <2>1, <2>3 DEF InTime, Traffic, Ended
<1>7. CASE Seen!Finish
  <2>1. /\ span.begin <= now /\ force = Traffic(now) /\ step' = "leaving"
        /\ span' = [span EXCEPT !.end = now] /\ UNCHANGED <<now, term, force>>
    BY <1>1, <1>7 DEF Seen!Finish, InTime
  <2>2. span'.end = now /\ span'.begin = span.begin
    BY <1>2, <2>1
  <2> QED
    BY <1>2, <2>1, <2>2 DEF InTime, Traffic, Ended
<1>8. CASE Seen!Leave
  <2>1. /\ span.begin <= span.end /\ span.end <= now /\ force = Traffic(span.end)
        /\ cleared' = now /\ UNCHANGED <<now, term, span, force>>
        /\ \/ span.end < term.expires /\ step' = "recovering"
           \/ step' = "stopped"
    BY <1>1, <1>2, <1>8 DEF Seen!Leave, InTime
  <2> QED
    BY <2>1 DEF InTime, Traffic, Ended
<1>9. CASE Seen!Recover
  <2>1. /\ step = "recovering" /\ step' \in {"judging", "recovering"}
        /\ UNCHANGED <<now, term, span, cleared, force>>
    BY <1>9 DEF Seen!Recover
  <2> QED
    BY <1>1, <2>1 DEF InTime, Traffic, Ended
<1>10. ASSUME step \in Ended, step' \in Ended \cup {"stopped"},
              UNCHANGED <<now, term, span, cleared, force>>
       PROVE  InTime'
  BY <1>1, <1>10 DEF InTime, Traffic, Ended
<1>11. CASE Seen!Judge
  BY <1>10, <1>11 DEF Seen!Judge, Ended
<1>12. CASE Seen!Write
  BY <1>10, <1>12 DEF Seen!Write, Ended
<1>13. CASE Seen!CutOff
  BY <1>10, <1>13 DEF Seen!CutOff, Ended
<1>14. CASE Seen!Audit
  BY <1>10, <1>14 DEF Seen!Audit, Ended
<1>15. CASE Seen!Replay
  BY <1>10, <1>15 DEF Seen!Replay, Ended
<1> QED
  BY <1>3, <1>4, <1>5, <1>6, <1>7, <1>8, <1>9, <1>11, <1>12, <1>13, <1>14, <1>15
     DEF Seen!Next

\* What evidence is judged by.
Matter == <<program, term, span, cleared, rows, back, log, force, hits>>

\* It is judged alike as long as it is the same.
LEMMA JudgedAlike ==
  ASSUME UNCHANGED Matter
  PROVE  /\ Seen!Again' = Seen!Again
         /\ Seen!Convincing(Seen!Again)' = Seen!Convincing(Seen!Again)
         /\ window' = window => Shown(window)' = Shown(window)
<1>1. /\ program' = program /\ term' = term /\ span' = span /\ cleared' = cleared
      /\ rows' = rows /\ back' = back /\ log' = log /\ force' = force /\ hits' = hits
  BY DEF Matter
<1>2. Seen!Watermark' = Seen!Watermark
  BY <1>1 DEF Seen!Watermark
<1>3. Seen!Again' = Seen!Again
  BY <1>1, <1>2 DEF Seen!Again, Seen!SelectWindow
<1>4. Seen!Convincing(Seen!Again)' = Seen!Convincing(Seen!Again)
  <2>1. Seen!Correlated' = Seen!Correlated /\ Seen!RecoveryProof' = Seen!RecoveryProof
    BY <1>1 DEF Seen!Correlated, Seen!RecoveryProof
  <2>2. Seen!Observable(Seen!Again)' = Seen!Observable(Seen!Again)
    BY <1>1, <1>3 DEF Seen!Observable, Seen!Within
  <2>3. Seen!Proof(Seen!Again)' = Seen!Proof(Seen!Again)
    BY <1>1, <1>3 DEF Seen!Proof, Seen!Within, Seen!Clients, Seen!Logged,
       Seen!HealthyProof, Seen!PaymentProof, Seen!TimeoutImpact, Seen!AuthImpact,
       Seen!BurstImpact, Seen!ServiceImpact, Seen!ResourceProof, Seen!OutageProof,
       Seen!OverloadProof, Seen!Samples, Seen!Pressed
  <2> QED
    BY <1>1, <1>3, <2>1, <2>2, <2>3 DEF Seen!Convincing
<1>5. ASSUME window' = window PROVE Shown(window)' = Shown(window)
  <2>1. Met(window)' = Met(window)
    BY <1>1, <1>5 DEF Met, Seen!Within
  <2> QED
    BY <1>1, <1>5, <2>1 DEF Shown, Met, Seen!Within
<1> QED
  BY <1>3, <1>4, <1>5

\* Nothing but evidence that convinced is saved.
LEMMA FiledKept ==
  ASSUME SeenType, EffectsMet, OutcomesMet, InTime, Filed, Seen!Next
  PROVE  Filed'
<1> SUFFICES ASSUME step' = "saving" PROVE Filed'
  BY DEF Filed
<1>1. CASE Seen!Judge
  <2>1. UNCHANGED Matter
    BY <1>1 DEF Seen!Judge, Matter
  <2>2. step = "judging" /\ Seen!Correlated /\ Seen!Convincing(Seen!Again)
    BY <1>1 DEF Seen!Judge, Seen!Again
  <2>3. window' = [start |-> Seen!Again.start, end |-> Seen!Again.end]
    BY <1>1, <2>2 DEF Seen!Judge, Seen!Again
  <2>4. Seen!Again' = Seen!Again /\ Seen!Convincing(Seen!Again)'
    BY <2>1, <2>2, JudgedAlike
  <2>5. ASSUME program' \notin Seen!Healthy PROVE Shown(window)'
    <3> DEFINE w == [start |-> Seen!Again.start, end |-> Seen!Again.end]
    <3>1. program' = program
      BY <2>1 DEF Matter
    <3>2. program \notin Seen!Healthy
      BY <2>5, <3>1
    <3>3. Shown(w)
      BY <2>2, <3>2, ConvincingIsShown
    <3>4. window' = w
      BY <2>3
    <3>5. rows' = rows /\ back' = back /\ force' = force /\ hits' = hits
      BY <2>1 DEF Matter
    <3> HIDE DEF w
    <3> QED
      BY <3>1, <3>3, <3>4, <3>5 DEF Shown, Met, Seen!Within
  <2> QED
    BY <2>3, <2>4, <2>5 DEF Filed, Seen!Healthy
<1>2. ASSUME UNCHANGED Matter, step = "saving", window' = window
      PROVE  Filed'
  <2>1. program' = program
    BY <1>2 DEF Matter
  <2>2. /\ Seen!Again' = Seen!Again
        /\ Seen!Convincing(Seen!Again)' = Seen!Convincing(Seen!Again)
        /\ Shown(window)' = Shown(window)
    BY <1>2, JudgedAlike
  <2> QED
    BY <1>2, <2>1, <2>2 DEF Filed, Seen!Healthy
<1>3. CASE Seen!Write
  BY <1>2, <1>3 DEF Seen!Write, Matter
<1>4. CASE Seen!Audit
  BY <1>2, <1>4 DEF Seen!Audit, Matter
<1>5. step \notin {"idle", "armed", "working", "leaving", "recovering"} \/ step' # "saving"
      \/ Seen!Judge
  BY DEF Seen!Next, Seen!Tick, Seen!Activate, Seen!Begin, Seen!Work, Seen!Finish,
     Seen!Leave, Seen!Recover, Seen!Write, Seen!CutOff, Seen!Audit, Seen!Replay
<1> QED
  BY <1>1, <1>3, <1>4 DEF Seen!Next, Seen!Tick, Seen!Activate, Seen!Begin, Seen!Work,
     Seen!Finish, Seen!Leave, Seen!Recover, Seen!CutOff, Seen!Replay

\* The auditor has the last word, and it is the program's.
LEMMA AuditedKept ==
  ASSUME SeenType, Filed, Audited, Seen!Next
  PROVE  Audited'
<1> USE DEF Audited
<1>1. ASSUME UNCHANGED <<program, step>> PROVE Seen!Files' = Seen!Files
  BY <1>1 DEF Seen!Files
<1>2. written \in Nat
  BY DEF SeenType
<1>3. ASSUME step # "saving", step # "cut", UNCHANGED verdict PROVE Audited'
  BY <1>3
<1>4. CASE Seen!Judge
  BY <1>3, <1>4 DEF Seen!Judge
<1>5. CASE Seen!Write
  <2>1. UNCHANGED <<program, step, verdict>> /\ written < Len(Seen!Files)
    BY <1>5 DEF Seen!Write
  <2> QED
    BY <1>2, <2>1
<1>6. CASE Seen!CutOff
  <2>1. UNCHANGED verdict /\ written < Len(Seen!Files) /\ step' = "cut"
    BY <1>6 DEF Seen!CutOff
  <2> QED
    BY <1>2, <2>1
<1>7. CASE Seen!Audit
  <2>1. /\ step = "cut" \/ (step = "saving" /\ written = Len(Seen!Files))
        /\ verdict' = IF step = "saving" /\ Seen!AuditPilot THEN "valid" ELSE "refused"
        /\ UNCHANGED <<program, step, written>>
    BY <1>7 DEF Seen!Audit
  <2>2. step = "saving" => Seen!AuditPilot
    BY AuditorAgrees DEF Filed
  <2>3. Seen!Files' = Seen!Files
    BY <1>1, <2>1
  <2> QED
    BY <2>1, <2>2, <2>3
<1>8. CASE Seen!Replay
  BY <1>8 DEF Seen!Replay
<1>9. CASE Seen!Tick
  BY <1>3, <1>9 DEF Seen!Tick
<1>10. CASE Seen!Activate \/ Seen!Begin \/ Seen!Work
  BY <1>3, <1>10 DEF Seen!Activate, Seen!Begin, Seen!Work
<1>11. CASE Seen!Finish \/ Seen!Leave \/ Seen!Recover
  BY <1>3, <1>11 DEF Seen!Finish, Seen!Leave, Seen!Recover
<1> QED
  BY <1>4, <1>5, <1>6, <1>7, <1>8, <1>9, <1>10, <1>11 DEF Seen!Next

\* At the start nothing was sent.
LEMMA SeenInit == AllInit => SeenInv
<1> SUFFICES ASSUME Seen!Init PROVE SeenInv
  BY DEF AllInit
<1>1. IsFiniteSet({}) /\ Cardinality({}) = 0
  BY FS_EmptySet
<1>2. SeenType
  BY <1>1 DEF Seen!Init, SeenType
<1>3. Unrelated = {} /\ MaxOdd \in Nat
  BY ThresholdsAreNatural DEF Seen!Init, Unrelated
<1>4. OutcomesMet
  BY <1>1, <1>3 DEF Seen!Init, OutcomesMet
<1> QED
  BY <1>2, <1>4 DEF Seen!Init, SeenInv, Numbered, EffectsMet, InTime, Ended, Filed, Audited

\* And always.
LEMMA SeenInvariant == AllSpec => []SeenInv
<1>1. SeenInv /\ [AllNext]_allVars => SeenInv'
  <2> SUFFICES ASSUME SeenInv, [AllNext]_allVars PROVE SeenInv'
    OBVIOUS
  <2>1. Seen!Next \/ UNCHANGED seenVars
    BY DEF AllNext, allVars
  <2>2. CASE Seen!Next
    <3>1. SeenType' /\ Numbered' /\ EffectsMet' /\ OutcomesMet'
      BY <2>2, SeenKept DEF SeenInv
    <3>2. InTime' /\ Filed' /\ Audited'
      BY <2>2, InTimeKept, FiledKept, AuditedKept DEF SeenInv
    <3> QED
      BY <3>1, <3>2 DEF SeenInv
  <2>3. CASE UNCHANGED seenVars
    <3>1. /\ UNCHANGED <<program, now, step, term, span, cleared, rows, back, log, odd,
                         force, hits, window, written, verdict>>
      BY <2>3 DEF seenVars
    <3>2. SeenType'
      BY <3>1 DEF SeenInv, SeenType
    <3>3. Numbered' /\ EffectsMet' /\ OutcomesMet'
      BY <3>1, RecordsStay DEF SeenInv, Records
    <3>4. InTime'
      BY <3>1 DEF SeenInv, InTime, Traffic, Seen!Healthy
    <3>5. /\ Seen!Again' = Seen!Again
          /\ Seen!Convincing(Seen!Again)' = Seen!Convincing(Seen!Again)
          /\ Shown(window)' = Shown(window)
      BY <3>1, JudgedAlike DEF Matter
    <3>6. Filed'
      BY <3>1, <3>5 DEF SeenInv, Filed, Seen!Healthy
    <3>7. Seen!Files' = Seen!Files
      BY <3>1 DEF Seen!Files
    <3>8. Audited'
      BY <3>1, <3>7 DEF SeenInv, Audited
    <3> QED
      BY <3>2, <3>3, <3>4, <3>6, <3>8 DEF SeenInv
  <2> QED
    BY <2>1, <2>2, <2>3
<1> QED
  BY <1>1, SeenInit, PTL DEF AllSpec

\* For any program, any thresholds in the order the code has them, and any
\* length of its traffic, evidence that an auditor calls valid shows its own
\* fault (ValidShowsTheFault).  That fewer requests fail by themselves than a
\* gate asks for is needed of the gates of the outage and of the load alone.
THEOREM ValidEvidenceIsOfItsFault == AllSpec => []ValidShowsTheFault
<1>1. SeenInv => ValidShowsTheFault
  <2>1. SeenInv /\ verdict = "valid" /\ program \notin Seen!Healthy => Shown(window)
    BY DEF SeenInv, Audited, Filed
  <2>2. Shown(window) => LET met == {r \in Seen!Within(window, rows) : r.id \in hits}
          IN  /\ (window.start + 1)..window.end \subseteq force
              /\ met # {}
              /\ program \in {"payment", "timeout", "trainedTimeout"}
                    => Cardinality(met) >= MinEvents
              /\ program \in {"latency", "rejection", "trainedLatency"}
                    => 2 * Cardinality(met) >= Minute
              /\ \A r \in back : r.outcome = "ok" /\ \A t \in force : r.at > t
    BY DEF Shown, Met
  <2> QED
    BY <2>1, <2>2, SameCount DEF ValidShowsTheFault, Seen!ValidShowsTheFault
<1> QED
  BY <1>1, SeenInvariant, PTL

\* An auditor that repeats what a program did, each in its own way, refuses no
\* evidence but what was cut off (AuditAgrees).
THEOREM AuditorsAgree == AllSpec => []AuditAgrees
<1>1. SeenInv => AuditAgrees
  BY DEF SeenInv, Audited, AuditAgrees, Seen!AuditAgrees
<1> QED
  BY <1>1, SeenInvariant, PTL

-----------------------------------------------------------------------------
(* The plan of the second data set *)

ToPayment == "transaction->payment"
ToLedger == "payment->ledger"

\* The rows whose draft has an edge that no transfer takes.
Evens == {2, 4, 6, 8, 10, 12, 14, 16, 18, 20}

\* The draft, in numbers.
LEMMA RotationIs ==
  \A rep \in 1..20 :
    Matrix!Turn(rep, 4) = IF rep \in {1, 9, 11, 13} THEN 1
                          ELSE IF rep \in {2, 4, 12, 14, 16} THEN 2
                          ELSE IF rep \in {3, 5, 7, 15, 17, 19} THEN 3 ELSE 4
<1>1. \A rep \in 1..20 : rep \in {1,2,3,4,5,6,7,8,9,10,11,12,13,14,15,16,17,18,19,20}
  OBVIOUS
<1>2. /\ Matrix!Turn(1, 4) = 1 /\ Matrix!Turn(2, 4) = 2 /\ Matrix!Turn(3, 4) = 3
      /\ Matrix!Turn(4, 4) = 2 /\ Matrix!Turn(5, 4) = 3 /\ Matrix!Turn(6, 4) = 4
      /\ Matrix!Turn(7, 4) = 3 /\ Matrix!Turn(8, 4) = 4 /\ Matrix!Turn(9, 4) = 1
      /\ Matrix!Turn(10, 4) = 4
  BY DEF Matrix!Turn
<1>3. /\ Matrix!Turn(11, 4) = 1 /\ Matrix!Turn(12, 4) = 2 /\ Matrix!Turn(13, 4) = 1
      /\ Matrix!Turn(14, 4) = 2 /\ Matrix!Turn(15, 4) = 3 /\ Matrix!Turn(16, 4) = 2
      /\ Matrix!Turn(17, 4) = 3 /\ Matrix!Turn(18, 4) = 4 /\ Matrix!Turn(19, 4) = 3
      /\ Matrix!Turn(20, 4) = 4
  BY DEF Matrix!Turn
<1> QED
  BY <1>1, <1>2, <1>3

\* So the odd rows of the draft have an edge that can be taken, the even ones not.
LEMMA DraftIs ==
  /\ DOMAIN Matrix!Drafted = 1..20
  /\ \A rep \in {1, 9, 11, 13} : Matrix!Drafted[rep] = ToPayment
  /\ \A rep \in {3, 5, 7, 15, 17, 19} : Matrix!Drafted[rep] = ToLedger
  /\ \A rep \in Evens : Matrix!Drafted[rep] \in Matrix!Unreachable
  /\ ToPayment \notin Matrix!Unreachable /\ ToLedger \notin Matrix!Unreachable
<1>1. /\ Len(Matrix!Edges) = 4
      /\ Matrix!Edges[1] = ToPayment /\ Matrix!Edges[3] = ToLedger
      /\ Matrix!Edges[2] \in Matrix!Unreachable /\ Matrix!Edges[4] \in Matrix!Unreachable
      /\ ToPayment \notin Matrix!Unreachable /\ ToLedger \notin Matrix!Unreachable
  BY DEF Matrix!Edges, Matrix!Unreachable, ToPayment, ToLedger
<1>2. Matrix!AllowedTargets["DOWNSTREAM_TIMEOUT"] = Matrix!Edges
  BY DEF Matrix!AllowedTargets
<1>3. \A rep \in 1..20 : Matrix!Drafted[rep] = Matrix!Edges[Matrix!Turn(rep, 4)]
  BY <1>1, <1>2 DEF Matrix!Drafted, Matrix!DraftTarget, Matrix!Replicates
<1> QED
  BY <1>1, <1>3, RotationIs DEF Matrix!Drafted, Matrix!Replicates, Evens

\* TargetMatrix counts as everybody does.
LEMMA CountsAlike == \A S : Matrix!Cardinality(S) = Cardinality(S)
BY DEF Matrix!Cardinality, Cardinality, Matrix!IsFiniteSet, IsFiniteSet

\* One thing more is counted as one more.
LEMMA OneMore ==
  ASSUME NEW S, NEW n \in Nat, IsFiniteSet(S), Cardinality(S) = n, NEW x, x \notin S,
         NEW T, T = S \cup {x}
  PROVE  IsFiniteSet(T) /\ Cardinality(T) = n + 1
BY FS_AddElement

\* The rows that end up with each of the two edges.
Pays == {1, 2, 6, 9, 10, 11, 13, 14, 18, 20}
Posts == {3, 4, 5, 7, 8, 12, 15, 16, 17, 19}

\* The targets when the rows of C are corrected, and when all are.
Settled(rep) == IF rep \in Pays THEN ToPayment ELSE ToLedger
After(C) == [rep \in 1..20 |-> IF rep \in Evens \ C THEN Matrix!Drafted[rep] ELSE Settled(rep)]

\* How many rows of a split have an edge, from one correction to the next.
LEMMA Sizes ==
  /\ Cardinality({}) = 0 /\ IsFiniteSet({})
  /\ Cardinality({1, 9, 11}) = 3 /\ Cardinality({1, 2, 9, 11}) = 4
  /\ Cardinality({1, 2, 6, 9, 11}) = 5 /\ Cardinality({1, 2, 6, 9, 10, 11}) = 6
  /\ Cardinality({3, 5, 7}) = 3 /\ Cardinality({3, 4, 5, 7}) = 4
  /\ Cardinality({3, 4, 5, 7, 8}) = 5 /\ Cardinality({3, 4, 5, 7, 8, 12}) = 6
  /\ Cardinality({13}) = 1 /\ Cardinality({13, 14}) = 2
  /\ Cardinality({15}) = 1 /\ Cardinality({15, 16}) = 2
  /\ Cardinality({18}) = 1 /\ Cardinality({18, 20}) = 2 /\ Cardinality({17, 19}) = 2
  /\ Cardinality(Pays) = 10 /\ Cardinality(Posts) = 10 /\ Cardinality(Evens) = 10
  /\ IsFiniteSet(Evens)
<1>0. Cardinality({}) = 0 /\ IsFiniteSet({}) /\ Cardinality({13}) = 1 /\ Cardinality({15}) = 1
      /\ Cardinality({18}) = 1
  BY FS_EmptySet, FS_Singleton
<1>1. IsFiniteSet({1, 9}) /\ Cardinality({1, 9}) = 2
  <2>1. IsFiniteSet({1}) /\ Cardinality({1}) = 1
    BY FS_Singleton
  <2>2. PICK s : s = {1} /\ IsFiniteSet(s) /\ Cardinality(s) = 1
    BY <2>1
  <2>3. 9 \notin s /\ {1, 9} = s \cup {9}
    BY <2>2
  <2> QED
    BY <2>2, <2>3, OneMore
<1>2. IsFiniteSet({1, 9, 11}) /\ Cardinality({1, 9, 11}) = 3
  <2>1. 11 \notin {1, 9} /\ {1, 9, 11} = {1, 9} \cup {11}
    OBVIOUS
  <2> QED
    BY <1>1, <2>1, OneMore
<1>3. IsFiniteSet({1, 2, 9, 11}) /\ Cardinality({1, 2, 9, 11}) = 4
  <2>1. 2 \notin {1, 9, 11} /\ {1, 2, 9, 11} = {1, 9, 11} \cup {2}
    OBVIOUS
  <2> QED
    BY <1>2, <2>1, OneMore
<1>4. IsFiniteSet({1, 2, 6, 9, 11}) /\ Cardinality({1, 2, 6, 9, 11}) = 5
  <2>1. 6 \notin {1, 2, 9, 11} /\ {1, 2, 6, 9, 11} = {1, 2, 9, 11} \cup {6}
    OBVIOUS
  <2> QED
    BY <1>3, <2>1, OneMore
<1>5. IsFiniteSet({1, 2, 6, 9, 10, 11}) /\ Cardinality({1, 2, 6, 9, 10, 11}) = 6
  <2>1. 10 \notin {1, 2, 6, 9, 11} /\ {1, 2, 6, 9, 10, 11} = {1, 2, 6, 9, 11} \cup {10}
    OBVIOUS
  <2> QED
    BY <1>4, <2>1, OneMore
<1>6. IsFiniteSet({1, 2, 6, 9, 10, 11, 13}) /\ Cardinality({1, 2, 6, 9, 10, 11, 13}) = 7
  <2>1. /\ 13 \notin {1, 2, 6, 9, 10, 11}
        /\ {1, 2, 6, 9, 10, 11, 13} = {1, 2, 6, 9, 10, 11} \cup {13}
    OBVIOUS
  <2> QED
    BY <1>5, <2>1, OneMore
<1>7. /\ IsFiniteSet({1, 2, 6, 9, 10, 11, 13, 14})
      /\ Cardinality({1, 2, 6, 9, 10, 11, 13, 14}) = 8
  <2>1. /\ 14 \notin {1, 2, 6, 9, 10, 11, 13}
        /\ {1, 2, 6, 9, 10, 11, 13, 14} = {1, 2, 6, 9, 10, 11, 13} \cup {14}
    OBVIOUS
  <2> QED
    BY <1>6, <2>1, OneMore
<1>8. /\ IsFiniteSet({1, 2, 6, 9, 10, 11, 13, 14, 18})
      /\ Cardinality({1, 2, 6, 9, 10, 11, 13, 14, 18}) = 9
  <2>1. /\ 18 \notin {1, 2, 6, 9, 10, 11, 13, 14}
        /\ {1, 2, 6, 9, 10, 11, 13, 14, 18} = {1, 2, 6, 9, 10, 11, 13, 14} \cup {18}
    OBVIOUS
  <2> QED
    BY <1>7, <2>1, OneMore
<1>9. /\ IsFiniteSet({1, 2, 6, 9, 10, 11, 13, 14, 18, 20})
      /\ Cardinality({1, 2, 6, 9, 10, 11, 13, 14, 18, 20}) = 10
  <2>1. /\ 20 \notin {1, 2, 6, 9, 10, 11, 13, 14, 18}
        /\ {1, 2, 6, 9, 10, 11, 13, 14, 18, 20} = {1, 2, 6, 9, 10, 11, 13, 14, 18} \cup {20}
    OBVIOUS
  <2> QED
    BY <1>8, <2>1, OneMore
<1>10. IsFiniteSet({3, 5}) /\ Cardinality({3, 5}) = 2
  <2>1. IsFiniteSet({3}) /\ Cardinality({3}) = 1
    BY FS_Singleton
  <2>2. PICK s : s = {3} /\ IsFiniteSet(s) /\ Cardinality(s) = 1
    BY <2>1
  <2>3. 5 \notin s /\ {3, 5} = s \cup {5}
    BY <2>2
  <2> QED
    BY <2>2, <2>3, OneMore
<1>11. IsFiniteSet({3, 5, 7}) /\ Cardinality({3, 5, 7}) = 3
  <2>1. 7 \notin {3, 5} /\ {3, 5, 7} = {3, 5} \cup {7}
    OBVIOUS
  <2> QED
    BY <1>10, <2>1, OneMore
<1>12. IsFiniteSet({3, 4, 5, 7}) /\ Cardinality({3, 4, 5, 7}) = 4
  <2>1. 4 \notin {3, 5, 7} /\ {3, 4, 5, 7} = {3, 5, 7} \cup {4}
    OBVIOUS
  <2> QED
    BY <1>11, <2>1, OneMore
<1>13. IsFiniteSet({3, 4, 5, 7, 8}) /\ Cardinality({3, 4, 5, 7, 8}) = 5
  <2>1. 8 \notin {3, 4, 5, 7} /\ {3, 4, 5, 7, 8} = {3, 4, 5, 7} \cup {8}
    OBVIOUS
  <2> QED
    BY <1>12, <2>1, OneMore
<1>14. IsFiniteSet({3, 4, 5, 7, 8, 12}) /\ Cardinality({3, 4, 5, 7, 8, 12}) = 6
  <2>1. 12 \notin {3, 4, 5, 7, 8} /\ {3, 4, 5, 7, 8, 12} = {3, 4, 5, 7, 8} \cup {12}
    OBVIOUS
  <2> QED
    BY <1>13, <2>1, OneMore
<1>15. IsFiniteSet({3, 4, 5, 7, 8, 12, 15}) /\ Cardinality({3, 4, 5, 7, 8, 12, 15}) = 7
  <2>1. /\ 15 \notin {3, 4, 5, 7, 8, 12}
        /\ {3, 4, 5, 7, 8, 12, 15} = {3, 4, 5, 7, 8, 12} \cup {15}
    OBVIOUS
  <2> QED
    BY <1>14, <2>1, OneMore
<1>16. /\ IsFiniteSet({3, 4, 5, 7, 8, 12, 15, 16})
       /\ Cardinality({3, 4, 5, 7, 8, 12, 15, 16}) = 8
  <2>1. /\ 16 \notin {3, 4, 5, 7, 8, 12, 15}
        /\ {3, 4, 5, 7, 8, 12, 15, 16} = {3, 4, 5, 7, 8, 12, 15} \cup {16}
    OBVIOUS
  <2> QED
    BY <1>15, <2>1, OneMore
<1>17. /\ IsFiniteSet({3, 4, 5, 7, 8, 12, 15, 16, 17})
       /\ Cardinality({3, 4, 5, 7, 8, 12, 15, 16, 17}) = 9
  <2>1. /\ 17 \notin {3, 4, 5, 7, 8, 12, 15, 16}
        /\ {3, 4, 5, 7, 8, 12, 15, 16, 17} = {3, 4, 5, 7, 8, 12, 15, 16} \cup {17}
    OBVIOUS
  <2> QED
    BY <1>16, <2>1, OneMore
<1>18. /\ IsFiniteSet({3, 4, 5, 7, 8, 12, 15, 16, 17, 19})
       /\ Cardinality({3, 4, 5, 7, 8, 12, 15, 16, 17, 19}) = 10
  <2>1. /\ 19 \notin {3, 4, 5, 7, 8, 12, 15, 16, 17}
        /\ {3, 4, 5, 7, 8, 12, 15, 16, 17, 19} = {3, 4, 5, 7, 8, 12, 15, 16, 17} \cup {19}
    OBVIOUS
  <2> QED
    BY <1>17, <2>1, OneMore
<1>19. IsFiniteSet({2, 4}) /\ Cardinality({2, 4}) = 2
  <2>1. IsFiniteSet({2}) /\ Cardinality({2}) = 1
    BY FS_Singleton
  <2>2. PICK s : s = {2} /\ IsFiniteSet(s) /\ Cardinality(s) = 1
    BY <2>1
  <2>3. 4 \notin s /\ {2, 4} = s \cup {4}
    BY <2>2
  <2> QED
    BY <2>2, <2>3, OneMore
<1>20. IsFiniteSet({2, 4, 6}) /\ Cardinality({2, 4, 6}) = 3
  <2>1. 6 \notin {2, 4} /\ {2, 4, 6} = {2, 4} \cup {6}
    OBVIOUS
  <2> QED
    BY <1>19, <2>1, OneMore
<1>21. IsFiniteSet({2, 4, 6, 8}) /\ Cardinality({2, 4, 6, 8}) = 4
  <2>1. 8 \notin {2, 4, 6} /\ {2, 4, 6, 8} = {2, 4, 6} \cup {8}
    OBVIOUS
  <2> QED
    BY <1>20, <2>1, OneMore
<1>22. IsFiniteSet({2, 4, 6, 8, 10}) /\ Cardinality({2, 4, 6, 8, 10}) = 5
  <2>1. 10 \notin {2, 4, 6, 8} /\ {2, 4, 6, 8, 10} = {2, 4, 6, 8} \cup {10}
    OBVIOUS
  <2> QED
    BY <1>21, <2>1, OneMore
<1>23. IsFiniteSet({2, 4, 6, 8, 10, 12}) /\ Cardinality({2, 4, 6, 8, 10, 12}) = 6
  <2>1. 12 \notin {2, 4, 6, 8, 10} /\ {2, 4, 6, 8, 10, 12} = {2, 4, 6, 8, 10} \cup {12}
    OBVIOUS
  <2> QED
    BY <1>22, <2>1, OneMore
<1>24. IsFiniteSet({2, 4, 6, 8, 10, 12, 14}) /\ Cardinality({2, 4, 6, 8, 10, 12, 14}) = 7
  <2>1. /\ 14 \notin {2, 4, 6, 8, 10, 12}
        /\ {2, 4, 6, 8, 10, 12, 14} = {2, 4, 6, 8, 10, 12} \cup {14}
    OBVIOUS
  <2> QED
    BY <1>23, <2>1, OneMore
<1>25. /\ IsFiniteSet({2, 4, 6, 8, 10, 12, 14, 16})
       /\ Cardinality({2, 4, 6, 8, 10, 12, 14, 16}) = 8
  <2>1. /\ 16 \notin {2, 4, 6, 8, 10, 12, 14}
        /\ {2, 4, 6, 8, 10, 12, 14, 16} = {2, 4, 6, 8, 10, 12, 14} \cup {16}
    OBVIOUS
  <2> QED
    BY <1>24, <2>1, OneMore
<1>26. /\ IsFiniteSet({2, 4, 6, 8, 10, 12, 14, 16, 18})
       /\ Cardinality({2, 4, 6, 8, 10, 12, 14, 16, 18}) = 9
  <2>1. /\ 18 \notin {2, 4, 6, 8, 10, 12, 14, 16}
        /\ {2, 4, 6, 8, 10, 12, 14, 16, 18} = {2, 4, 6, 8, 10, 12, 14, 16} \cup {18}
    OBVIOUS
  <2> QED
    BY <1>25, <2>1, OneMore
<1>27. /\ IsFiniteSet({2, 4, 6, 8, 10, 12, 14, 16, 18, 20})
       /\ Cardinality({2, 4, 6, 8, 10, 12, 14, 16, 18, 20}) = 10
  <2>1. /\ 20 \notin {2, 4, 6, 8, 10, 12, 14, 16, 18}
        /\ {2, 4, 6, 8, 10, 12, 14, 16, 18, 20} = {2, 4, 6, 8, 10, 12, 14, 16, 18} \cup {20}
    OBVIOUS
  <2> QED
    BY <1>26, <2>1, OneMore
<1>28. IsFiniteSet({13, 14}) /\ Cardinality({13, 14}) = 2
  <2>1. IsFiniteSet({13}) /\ Cardinality({13}) = 1
    BY FS_Singleton
  <2>2. PICK s : s = {13} /\ IsFiniteSet(s) /\ Cardinality(s) = 1
    BY <2>1
  <2>3. 14 \notin s /\ {13, 14} = s \cup {14}
    BY <2>2
  <2> QED
    BY <2>2, <2>3, OneMore
<1>29. IsFiniteSet({15, 16}) /\ Cardinality({15, 16}) = 2
  <2>1. IsFiniteSet({15}) /\ Cardinality({15}) = 1
    BY FS_Singleton
  <2>2. PICK s : s = {15} /\ IsFiniteSet(s) /\ Cardinality(s) = 1
    BY <2>1
  <2>3. 16 \notin s /\ {15, 16} = s \cup {16}
    BY <2>2
  <2> QED
    BY <2>2, <2>3, OneMore
<1>30. IsFiniteSet({18, 20}) /\ Cardinality({18, 20}) = 2
  <2>1. IsFiniteSet({18}) /\ Cardinality({18}) = 1
    BY FS_Singleton
  <2>2. PICK s : s = {18} /\ IsFiniteSet(s) /\ Cardinality(s) = 1
    BY <2>1
  <2>3. 20 \notin s /\ {18, 20} = s \cup {20}
    BY <2>2
  <2> QED
    BY <2>2, <2>3, OneMore
<1>31. IsFiniteSet({17, 19}) /\ Cardinality({17, 19}) = 2
  <2>1. IsFiniteSet({17}) /\ Cardinality({17}) = 1
    BY FS_Singleton
  <2>2. PICK s : s = {17} /\ IsFiniteSet(s) /\ Cardinality(s) = 1
    BY <2>1
  <2>3. 19 \notin s /\ {17, 19} = s \cup {19}
    BY <2>2
  <2> QED
    BY <2>2, <2>3, OneMore
<1> QED
  BY <1>0, <1>2, <1>3, <1>4, <1>5, <1>11, <1>12, <1>13, <1>14, <1>28, <1>29,
     <1>30, <1>31, <1>9, <1>18, <1>27
  DEF Pays, Posts, Evens

\* Which rows are of which split.
LEMMA SplitsAre ==
  ASSUME NEW rep \in 1..20
  PROVE  /\ Matrix!SplitOf(rep) = "train" <=> rep <= 12
         /\ Matrix!SplitOf(rep) = "validation" <=> 12 < rep /\ rep <= 16
         /\ Matrix!SplitOf(rep) = "test" <=> 16 < rep
BY DEF Matrix!SplitOf

\* The rows that count for an edge when those of corrected are corrected.
LEMMA TimesAre ==
  ASSUME corrected \subseteq Evens, proposal = After(corrected), NEW split
  PROVE  /\ Matrix!Times(ToPayment, split) =
              Cardinality({r \in Pays \ (Evens \ corrected) : Matrix!SplitOf(r) = split})
         /\ Matrix!Times(ToLedger, split) =
              Cardinality({r \in Posts \ (Evens \ corrected) : Matrix!SplitOf(r) = split})
<1>1. ASSUME NEW r \in 1..20
      PROVE  /\ (proposal[r] = ToPayment /\ (Matrix!Drafted[r] = ToPayment \/ r \in corrected))
                  <=> r \in Pays \ (Evens \ corrected)
             /\ (proposal[r] = ToLedger /\ (Matrix!Drafted[r] = ToLedger \/ r \in corrected))
                  <=> r \in Posts \ (Evens \ corrected)
  <2>1. ToPayment # ToLedger
    BY DEF ToPayment, ToLedger
  <2>2. proposal[r] = IF r \in Evens \ corrected THEN Matrix!Drafted[r] ELSE Settled(r)
    BY DEF After
  <2>3. CASE r \in Evens \ corrected
    BY <2>2, <2>3, DraftIs
  <2>4. CASE r \in corrected
    BY <2>1, <2>2, <2>4 DEF Settled, Pays, Posts, Evens
  <2>5. CASE r \notin Evens
    BY <2>1, <2>2, <2>5, DraftIs DEF Settled, Pays, Posts, Evens
  <2> QED
    BY <2>3, <2>4, <2>5
<1>2. Pays \subseteq 1..20 /\ Posts \subseteq 1..20
  BY DEF Pays, Posts
<1>3. /\ {r \in 1..20 : /\ Matrix!SplitOf(r) = split /\ proposal[r] = ToPayment
                        /\ Matrix!Drafted[r] = ToPayment \/ r \in corrected}
           = {r \in Pays \ (Evens \ corrected) : Matrix!SplitOf(r) = split}
      /\ {r \in 1..20 : /\ Matrix!SplitOf(r) = split /\ proposal[r] = ToLedger
                        /\ Matrix!Drafted[r] = ToLedger \/ r \in corrected}
           = {r \in Posts \ (Evens \ corrected) : Matrix!SplitOf(r) = split}
  BY <1>1, <1>2
<1> QED
  BY <1>3, CountsAlike DEF Matrix!Times, Matrix!Replicates

\* When rep has its turn, the row that the code gives it to an edge is this one.
LEMMA Chosen ==
  ASSUME NEW rep \in Evens, corrected = {r \in Evens : r < rep}, proposal = After(corrected)
  PROVE  Matrix!Times(ToLedger, Matrix!SplitOf(rep))
             < Matrix!Times(ToPayment, Matrix!SplitOf(rep)) <=> rep \in Posts
<1> DEFINE split == Matrix!SplitOf(rep)
           P == {r \in Pays \ (Evens \ corrected) : Matrix!SplitOf(r) = split}
           L == {r \in Posts \ (Evens \ corrected) : Matrix!SplitOf(r) = split}
<1>1. /\ Matrix!Times(ToPayment, split) = Cardinality(P)
      /\ Matrix!Times(ToLedger, split) = Cardinality(L)
  <2>1. corrected \subseteq Evens
    OBVIOUS
  <2> QED
    BY <2>1, TimesAre
<1>2. rep \in 1..20 /\ Pays \subseteq 1..20 /\ Posts \subseteq 1..20
  BY DEF Pays, Posts, Evens
<1>3. CASE rep = 2
  <2>1. \A r \in 1..20 : Matrix!SplitOf(r) = split <=> r <= 12
    BY <1>3, <1>2, SplitsAre
  <2>2. P = {1, 9, 11} /\ L = {3, 5, 7}
    BY <1>3, <1>2, <2>1 DEF Pays, Posts, Evens
  <2>3. Cardinality(P) = 3 /\ Cardinality(L) = 3
    BY <2>2, Sizes
  <2>4. rep \notin Posts
    BY <1>3 DEF Posts
  <2> HIDE DEF P, L
  <2> QED
    BY <1>1, <2>3, <2>4
<1>4. CASE rep = 4
  <2>1. \A r \in 1..20 : Matrix!SplitOf(r) = split <=> r <= 12
    BY <1>4, <1>2, SplitsAre
  <2>2. P = {1, 2, 9, 11} /\ L = {3, 5, 7}
    BY <1>4, <1>2, <2>1 DEF Pays, Posts, Evens
  <2>3. Cardinality(P) = 4 /\ Cardinality(L) = 3
    BY <2>2, Sizes
  <2>4. rep \in Posts
    BY <1>4 DEF Posts
  <2> HIDE DEF P, L
  <2> QED
    BY <1>1, <2>3, <2>4
<1>5. CASE rep = 6
  <2>1. \A r \in 1..20 : Matrix!SplitOf(r) = split <=> r <= 12
    BY <1>5, <1>2, SplitsAre
  <2>2. P = {1, 2, 9, 11} /\ L = {3, 4, 5, 7}
    BY <1>5, <1>2, <2>1 DEF Pays, Posts, Evens
  <2>3. Cardinality(P) = 4 /\ Cardinality(L) = 4
    BY <2>2, Sizes
  <2>4. rep \notin Posts
    BY <1>5 DEF Posts
  <2> HIDE DEF P, L
  <2> QED
    BY <1>1, <2>3, <2>4
<1>6. CASE rep = 8
  <2>1. \A r \in 1..20 : Matrix!SplitOf(r) = split <=> r <= 12
    BY <1>6, <1>2, SplitsAre
  <2>2. P = {1, 2, 6, 9, 11} /\ L = {3, 4, 5, 7}
    BY <1>6, <1>2, <2>1 DEF Pays, Posts, Evens
  <2>3. Cardinality(P) = 5 /\ Cardinality(L) = 4
    BY <2>2, Sizes
  <2>4. rep \in Posts
    BY <1>6 DEF Posts
  <2> HIDE DEF P, L
  <2> QED
    BY <1>1, <2>3, <2>4
<1>7. CASE rep = 10
  <2>1. \A r \in 1..20 : Matrix!SplitOf(r) = split <=> r <= 12
    BY <1>7, <1>2, SplitsAre
  <2>2. P = {1, 2, 6, 9, 11} /\ L = {3, 4, 5, 7, 8}
    BY <1>7, <1>2, <2>1 DEF Pays, Posts, Evens
  <2>3. Cardinality(P) = 5 /\ Cardinality(L) = 5
    BY <2>2, Sizes
  <2>4. rep \notin Posts
    BY <1>7 DEF Posts
  <2> HIDE DEF P, L
  <2> QED
    BY <1>1, <2>3, <2>4
<1>8. CASE rep = 12
  <2>1. \A r \in 1..20 : Matrix!SplitOf(r) = split <=> r <= 12
    BY <1>8, <1>2, SplitsAre
  <2>2. P = {1, 2, 6, 9, 10, 11} /\ L = {3, 4, 5, 7, 8}
    BY <1>8, <1>2, <2>1 DEF Pays, Posts, Evens
  <2>3. Cardinality(P) = 6 /\ Cardinality(L) = 5
    BY <2>2, Sizes
  <2>4. rep \in Posts
    BY <1>8 DEF Posts
  <2> HIDE DEF P, L
  <2> QED
    BY <1>1, <2>3, <2>4
<1>9. CASE rep = 14
  <2>1. \A r \in 1..20 : Matrix!SplitOf(r) = split <=> 12 < r /\ r <= 16
    BY <1>9, <1>2, SplitsAre
  <2>2. P = {13} /\ L = {15}
    BY <1>9, <1>2, <2>1 DEF Pays, Posts, Evens
  <2>3. Cardinality(P) = 1 /\ Cardinality(L) = 1
    BY <2>2, Sizes
  <2>4. rep \notin Posts
    BY <1>9 DEF Posts
  <2> HIDE DEF P, L
  <2> QED
    BY <1>1, <2>3, <2>4
<1>10. CASE rep = 16
  <2>1. \A r \in 1..20 : Matrix!SplitOf(r) = split <=> 12 < r /\ r <= 16
    BY <1>10, <1>2, SplitsAre
  <2>2. P = {13, 14} /\ L = {15}
    BY <1>10, <1>2, <2>1 DEF Pays, Posts, Evens
  <2>3. Cardinality(P) = 2 /\ Cardinality(L) = 1
    BY <2>2, Sizes
  <2>4. rep \in Posts
    BY <1>10 DEF Posts
  <2> HIDE DEF P, L
  <2> QED
    BY <1>1, <2>3, <2>4
<1>11. CASE rep = 18
  <2>1. \A r \in 1..20 : Matrix!SplitOf(r) = split <=> 16 < r
    BY <1>11, <1>2, SplitsAre
  <2>2. P = {} /\ L = {17, 19}
    BY <1>11, <1>2, <2>1 DEF Pays, Posts, Evens
  <2>3. Cardinality(P) = 0 /\ Cardinality(L) = 2
    BY <2>2, Sizes
  <2>4. rep \notin Posts
    BY <1>11 DEF Posts
  <2> HIDE DEF P, L
  <2> QED
    BY <1>1, <2>3, <2>4
<1>12. CASE rep = 20
  <2>1. \A r \in 1..20 : Matrix!SplitOf(r) = split <=> 16 < r
    BY <1>12, <1>2, SplitsAre
  <2>2. P = {18} /\ L = {17, 19}
    BY <1>12, <1>2, <2>1 DEF Pays, Posts, Evens
  <2>3. Cardinality(P) = 1 /\ Cardinality(L) = 2
    BY <2>2, Sizes
  <2>4. rep \notin Posts
    BY <1>12 DEF Posts
  <2> HIDE DEF P, L
  <2> QED
    BY <1>1, <2>3, <2>4
<1> QED
  BY <1>3, <1>4, <1>5, <1>6, <1>7, <1>8, <1>9, <1>10, <1>11, <1>12 DEF Evens

\* What is true of the plan at each stage: a correction takes the rows in order,
\* and has the draft and what the pilot showed behind it.
Correcting ==
  /\ Matrix!ValidDraft(Matrix!Drafted) /\ Matrix!Repairable
  /\ corrected \subseteq Evens /\ proposal = After(corrected)
  /\ \A r \in corrected, s \in Evens : s < r => s \in corrected

PlanInv ==
  /\ progress \in {"drafted", "observed", "refused", "correcting", "saved", "blocked",
                  "stopped"}
  /\ atEdge \in [{ToPayment, ToLedger} \cup Matrix!Unreachable -> Nat]
  /\ progress \in {"drafted", "observed"} => corrected = {} /\ proposal = Matrix!Drafted
  /\ progress \in {"correcting", "saved", "blocked"} => Correcting
  /\ progress \in {"saved", "blocked"} => corrected = Evens

\* The code asks for ten rows that it may repair, and there are ten: it begins
\* to correct only when all of them are unsupported.
LEMMA BadIs ==
  ASSUME Matrix!Repairable
  PROVE  Matrix!Bad = Evens
<1> DEFINE issues == Matrix!Issues(Matrix!Drafted)
           ten == {"DOWNSTREAM_TIMEOUT"} \X Evens
<1>1. \A row \in issues :
         /\ row \in Matrix!Families \X (1..20)
         /\ row[1] = "DOWNSTREAM_TIMEOUT" /\ Matrix!Drafted[row[2]] \in Matrix!Unreachable
  BY DEF Matrix!Repairable, Matrix!Issues, Matrix!Replicates
<1>2. \A r \in 1..20 : Matrix!Drafted[r] \in Matrix!Unreachable => r \in Evens
  BY DraftIs DEF Evens
<1>3. issues \subseteq ten
  <2> SUFFICES ASSUME NEW row \in issues PROVE row \in ten
    OBVIOUS
  <2>1. row = <<row[1], row[2]>> /\ row[2] \in 1..20
    BY <1>1
  <2>2. row[1] = "DOWNSTREAM_TIMEOUT" /\ row[2] \in Evens
    BY <1>1, <1>2, <2>1
  <2> QED
    BY <2>1, <2>2
<1>4. IsFiniteSet(ten) /\ Cardinality(ten) = 10
  <2>1. /\ IsFiniteSet({"DOWNSTREAM_TIMEOUT"}) /\ Cardinality({"DOWNSTREAM_TIMEOUT"}) = 1
        /\ IsFiniteSet(Evens) /\ Cardinality(Evens) = 10
    BY Sizes, FS_Singleton
  <2> QED
    BY <2>1, FS_Product
<1>5. Cardinality(issues) = 10
  BY CountsAlike DEF Matrix!Repairable
<1>6. issues = ten
  <2> HIDE DEF issues, ten
  <2> QED
    BY <1>3, <1>4, <1>5, FS_Subset
<1>7. \A row \in ten : row[2] \in Evens
  OBVIOUS
<1>8. \A r \in Evens : \E row \in ten : row[2] = r
  <2> SUFFICES ASSUME NEW r \in Evens PROVE \E row \in ten : row[2] = r
    OBVIOUS
  <2> WITNESS <<"DOWNSTREAM_TIMEOUT", r>> \in ten
  <2> QED
    OBVIOUS
<1>9. Matrix!Bad = {row[2] : row \in ten}
  BY <1>6 DEF Matrix!Bad
<1> HIDE DEF ten
<1> QED
  BY <1>7, <1>8, <1>9

\* With all rows corrected a row has an edge that was reached.
LEMMA SettledIs ==
  /\ \A rep \in 1..20 : After(Evens)[rep] = Settled(rep)
  /\ \A rep \in 1..20 \ Evens : Matrix!Drafted[rep] = Settled(rep)
  /\ \A rep : Settled(rep) \in {ToPayment, ToLedger}
  /\ \A rep \in 1..20 : Settled(rep) = ToPayment <=> rep \in Pays
  /\ \A rep \in 1..20 : Settled(rep) = ToLedger <=> rep \in Posts
  /\ Matrix!Eligible[1] = ToPayment /\ Matrix!Eligible[2] = ToLedger
  /\ DOMAIN Matrix!Eligible = {1, 2}
<1>1. ToPayment # ToLedger
  BY DEF ToPayment, ToLedger
<1>2. \A rep \in 1..20 : After(Evens)[rep] = Settled(rep)
  BY DEF After
<1>3. \A rep \in 1..20 : rep \in Posts <=> rep \notin Pays
  BY DEF Pays, Posts
<1>4. \A rep \in 1..20 \ Evens : Matrix!Drafted[rep] = Settled(rep)
  <2>1. \A rep \in 1..20 \ Evens :
           (rep \in {1, 9, 11, 13} /\ rep \in Pays)
             \/ (rep \in {3, 5, 7, 15, 17, 19} /\ rep \notin Pays)
    BY DEF Evens, Pays
  <2> QED
    BY <2>1, DraftIs DEF Settled
<1>5. /\ Matrix!Eligible[1] = ToPayment /\ Matrix!Eligible[2] = ToLedger
      /\ DOMAIN Matrix!Eligible = {1, 2}
  BY DEF Matrix!Eligible, ToPayment, ToLedger
<1> QED
  BY <1>1, <1>2, <1>3, <1>4, <1>5 DEF Settled

\* Every row has then a target that its family allows.
LEMMA SettledIsValid ==
  ASSUME Matrix!ValidDraft(Matrix!Drafted)
  PROVE  Matrix!ValidDraft(After(Evens))
<1>1. ASSUME NEW rep \in 1..20
      PROVE  \E i \in DOMAIN Matrix!AllowedTargets["DOWNSTREAM_TIMEOUT"] :
                After(Evens)[rep] = Matrix!AllowedTargets["DOWNSTREAM_TIMEOUT"][i]
  <2>1. After(Evens)[rep] \in {ToPayment, ToLedger}
    BY SettledIs
  <2>2. Matrix!AllowedTargets["DOWNSTREAM_TIMEOUT"] = Matrix!Edges
    BY DEF Matrix!AllowedTargets
  <2>3. /\ {1, 3} \subseteq DOMAIN Matrix!Edges
        /\ Matrix!Edges[1] = ToPayment /\ Matrix!Edges[3] = ToLedger
    BY DEF Matrix!Edges, ToPayment, ToLedger
  <2> QED
    BY <2>1, <2>2, <2>3
<1> QED
  BY <1>1 DEF Matrix!ValidDraft, Matrix!Replicates

\* None of them has an edge or a service that was hardly reached.
LEMMA SettledHasNoIssues ==
  ASSUME Matrix!Repairable, atEdge \in [{ToPayment, ToLedger} \cup Matrix!Unreachable -> Nat]
  PROVE  Matrix!NoIssues(After(Evens))
<1>1. \A e \in {ToPayment, ToLedger} : ~ (atEdge[e] < MinObserved)
  <2>1. \A e \in {ToPayment, ToLedger} : atEdge[e] >= MinObserved /\ atEdge[e] \in Nat
    BY SettledIs DEF Matrix!Repairable
  <2> QED
    BY <2>1, ThresholdsAssumption
<1>2. ASSUME NEW row \in Matrix!Issues(After(Evens)) PROVE FALSE
  <2>1. row \in Matrix!Families \X (1..20)
    BY DEF Matrix!Issues, Matrix!Replicates
  <2>2. CASE row[1] = "DOWNSTREAM_TIMEOUT"
    <3>1. atEdge[After(Evens)[row[2]]] < MinObserved
      BY <2>2 DEF Matrix!Issues, Matrix!Unsupported
    <3> QED
      BY <1>1, <2>1, <3>1, SettledIs
  <2>3. CASE row[1] # "DOWNSTREAM_TIMEOUT"
    <3>1. row \in Matrix!Issues(Matrix!Drafted)
      BY <2>1, <2>3 DEF Matrix!Issues
    <3> QED
      BY <2>3, <3>1 DEF Matrix!Repairable
  <2> QED
    BY <2>2, <2>3
<1> QED
  BY <1>2 DEF Matrix!NoIssues, Matrix!Repairable

\* And the splits have as many rows of one edge as of the other.
LEMMA SettledIsBalanced == Matrix!Balanced(After(Evens))
<1> DEFINE On(split, edge) == {rep \in 1..20 : Matrix!SplitOf(rep) = split
                                                 /\ After(Evens)[rep] = edge}
<1>1. \A rep \in 1..20 : /\ After(Evens)[rep] = ToPayment <=> rep \in Pays
                         /\ After(Evens)[rep] = ToLedger <=> rep \in Posts
  BY SettledIs
<1>2. /\ On("train", ToPayment) = {1, 2, 6, 9, 10, 11}
      /\ On("validation", ToPayment) = {13, 14}
      /\ On("test", ToPayment) = {18, 20}
  BY <1>1, SplitsAre DEF Pays
<1>3. /\ On("train", ToLedger) = {3, 4, 5, 7, 8, 12}
      /\ On("validation", ToLedger) = {15, 16}
      /\ On("test", ToLedger) = {17, 19}
  BY <1>1, SplitsAre DEF Posts
<1>4. /\ Cardinality(On("train", ToPayment)) = 6
      /\ Cardinality(On("validation", ToPayment)) = 2
      /\ Cardinality(On("test", ToPayment)) = 2
  BY <1>2, Sizes
<1>5. /\ Cardinality(On("train", ToLedger)) = 6
      /\ Cardinality(On("validation", ToLedger)) = 2
      /\ Cardinality(On("test", ToLedger)) = 2
  BY <1>3, Sizes
<1> QED
  BY <1>4, <1>5, SettledIs, CountsAlike DEF Matrix!Balanced, Matrix!Replicates

\* So that the check of a finished correction cannot fail.
LEMMA CorrectedIsVerified ==
  ASSUME Correcting, corrected = Evens,
         atEdge \in [{ToPayment, ToLedger} \cup Matrix!Unreachable -> Nat]
  PROVE  Matrix!Verified(proposal)
<1>1. proposal = After(Evens)
  BY DEF Correcting
<1>2. /\ Matrix!ValidDraft(proposal) /\ Matrix!NoIssues(proposal) /\ Matrix!Balanced(proposal)
  BY <1>1, SettledIsValid, SettledHasNoIssues, SettledIsBalanced DEF Correcting
<1>3. ASSUME NEW rep \in 1..20
      PROVE  IF rep \in Matrix!Bad
             THEN /\ Matrix!Drafted[rep] \in Matrix!Unreachable
                  /\ proposal[rep] \in {Matrix!Eligible[i] : i \in DOMAIN Matrix!Eligible}
             ELSE proposal[rep] = Matrix!Drafted[rep]
  <2>1. Matrix!Bad = Evens
    BY BadIs DEF Correcting
  <2>2. rep \in Evens => Matrix!Drafted[rep] \in Matrix!Unreachable
    BY DraftIs
  <2>3. proposal[rep] \in {Matrix!Eligible[i] : i \in DOMAIN Matrix!Eligible}
    BY <1>1, SettledIs
  <2>4. rep \notin Evens => proposal[rep] = Matrix!Drafted[rep]
    BY <1>1, SettledIs
  <2> QED
    BY <2>1, <2>2, <2>3, <2>4
<1>4. Matrix!Verified(proposal)
  BY <1>2, <1>3 DEF Matrix!Verified, Matrix!Replicates
<1> QED
  BY <1>4

\* A row that is corrected gets the edge it is meant to have.
LEMMA CorrectKept ==
  ASSUME PlanInv, Matrix!Correct
  PROVE  Correcting'
<1>1. Correcting /\ Matrix!Bad = Evens /\ UNCHANGED <<atEdge, atService>>
  BY BadIs DEF PlanInv, Correcting, Matrix!Correct
<1>2. PICK rep \in Evens \ corrected :
         /\ \A other \in Evens \ corrected : rep <= other
         /\ corrected' = corrected \cup {rep}
         /\ proposal' = [proposal EXCEPT ![rep] =
               Matrix!Eligible[IF Matrix!Times(Matrix!Eligible[2], Matrix!SplitOf(rep))
                                    < Matrix!Times(Matrix!Eligible[1], Matrix!SplitOf(rep))
                               THEN 2 ELSE 1]]
  BY <1>1 DEF Matrix!Correct
<1>3. Evens \subseteq 1..20
  BY DEF Evens
<1>4. corrected = {r \in Evens : r < rep}
  <2>1. ASSUME NEW r \in Evens, r < rep PROVE r \in corrected
    BY <1>2, <1>3, <2>1
  <2>2. ASSUME NEW r \in corrected PROVE r \in Evens /\ r < rep
    <3>1. r \in Evens /\ r # rep /\ ~ (rep < r)
      BY <1>1, <1>2 DEF Correcting
    <3> QED
      BY <1>2, <1>3, <3>1
  <2> QED
    BY <2>1, <2>2
<1>5. proposal' = [proposal EXCEPT ![rep] = Settled(rep)]
  <2>1. Matrix!Times(ToLedger, Matrix!SplitOf(rep))
          < Matrix!Times(ToPayment, Matrix!SplitOf(rep)) <=> rep \in Posts
    BY <1>1, <1>2, <1>4, Chosen DEF Correcting
  <2>2. rep \in Posts <=> rep \notin Pays
    BY <1>2 DEF Pays, Posts, Evens
  <2>3. Matrix!Eligible[1] = ToPayment /\ Matrix!Eligible[2] = ToLedger
    BY SettledIs
  <2> QED
    BY <1>2, <2>1, <2>2, <2>3 DEF Settled
<1>6. proposal' = After(corrected')
  <2>1. proposal = After(corrected)
    BY <1>1 DEF Correcting
  <2>2. \A r \in 1..20 : r \in Evens \ corrected' <=> r \in Evens \ corrected /\ r # rep
    BY <1>2
  <2> QED
    BY <1>2, <1>3, <1>5, <2>1, <2>2 DEF After
<1>7. /\ corrected' \subseteq Evens
      /\ \A r \in corrected', s \in Evens : s < r => s \in corrected'
  BY <1>1, <1>2, <1>4 DEF Correcting
<1>8. Matrix!Repairable'
  BY <1>1 DEF Correcting, Matrix!Repairable, Matrix!Issues, Matrix!Unsupported
<1>9. Matrix!ValidDraft(Matrix!Drafted)'
  BY <1>1 DEF Correcting
<1> QED
  BY <1>6, <1>7, <1>8, <1>9 DEF Correcting

\* Every step of the correction keeps the invariant: its own checks pass.
LEMMA PlanKept == PlanInv /\ Matrix!Next => PlanInv'
<1> SUFFICES ASSUME PlanInv, Matrix!Next PROVE PlanInv'
  OBVIOUS
<1>1. Correcting /\ UNCHANGED <<atEdge, atService, corrected, proposal>> => Correcting'
  BY DEF Correcting, Matrix!Repairable, Matrix!Issues, Matrix!Unsupported
<1>2. CASE Matrix!ExtractCoverage
  <2>1. /\ progress = "drafted" /\ progress' = "observed"
        /\ UNCHANGED <<corrected, proposal>>
        /\ atEdge' \in [DOMAIN atEdge -> {0, MinObserved - 1, MaxObserved}]
    BY <1>2 DEF Matrix!ExtractCoverage
  <2>2. {0, MinObserved - 1, MaxObserved} \subseteq Nat
    BY ThresholdsAssumption
  <2>3. atEdge' \in [{ToPayment, ToLedger} \cup Matrix!Unreachable -> Nat]
    BY <2>1, <2>2 DEF PlanInv
  <2> QED
    BY <2>1, <2>3 DEF PlanInv
<1>3. CASE Matrix!Prepare
  <2>1. /\ progress = "observed" /\ UNCHANGED <<atEdge, atService, corrected, proposal>>
        /\ progress' = IF Matrix!ValidDraft(Matrix!Drafted) /\ Matrix!Repairable
                       THEN "correcting" ELSE "refused"
    BY <1>3 DEF Matrix!Prepare
  <2>2. corrected = {} /\ proposal = Matrix!Drafted
    BY <2>1 DEF PlanInv
  <2>3. Matrix!Drafted = After({})
    <3>1. /\ DOMAIN Matrix!Drafted = 1..20
          /\ \A r \in 1..20 \ Evens : Matrix!Drafted[r] = Settled(r)
      BY DraftIs, SettledIs
    <3>2. Matrix!Drafted = [r \in 1..20 |-> Matrix!Drafted[r]]
      BY DEF Matrix!Drafted, Matrix!Replicates
    <3> QED
      BY <3>1, <3>2 DEF After
  <2>4. Matrix!ValidDraft(Matrix!Drafted) /\ Matrix!Repairable => Correcting
    BY <2>2, <2>3 DEF Correcting
  <2> QED
    BY <1>1, <2>1, <2>4 DEF PlanInv
<1>4. CASE Matrix!Correct
  <2>1. Correcting' /\ UNCHANGED <<atEdge, progress>> /\ progress = "correcting"
    BY <1>4, CorrectKept DEF Matrix!Correct
  <2> QED
    BY <2>1 DEF PlanInv
<1>5. CASE Matrix!Verify
  <2>1. /\ progress = "correcting" /\ Matrix!Bad \subseteq corrected
        /\ progress' = IF Matrix!Verified(proposal) THEN "saved" ELSE "broken"
        /\ UNCHANGED <<atEdge, atService, corrected, proposal>>
    BY <1>5 DEF Matrix!Verify
  <2>2. Correcting /\ corrected = Evens
    BY <2>1, BadIs DEF PlanInv, Correcting
  <2>3. Matrix!Verified(proposal)
    BY <2>2, CorrectedIsVerified DEF PlanInv
  <2> QED
    BY <1>1, <2>1, <2>2, <2>3 DEF PlanInv
<1>6. CASE Matrix!Readiness
  <2>1. /\ progress = "saved"
        /\ progress' \in {"blocked", "stopped"}
        /\ UNCHANGED <<atEdge, atService, corrected, proposal>>
    BY <1>6 DEF Matrix!Readiness
  <2>2. Correcting /\ corrected = Evens
    BY <2>1 DEF PlanInv
  <2> QED
    BY <1>1, <2>1, <2>2 DEF PlanInv
<1> QED
  BY <1>2, <1>3, <1>4, <1>5, <1>6 DEF Matrix!Next

\* At the start nobody has looked.
LEMMA PlanInit == AllInit => PlanInv
<1> SUFFICES ASSUME Matrix!Init PROVE PlanInv
  BY DEF AllInit
<1>1. {Matrix!Edges[i] : i \in 1..4} = {ToPayment, ToLedger} \cup Matrix!Unreachable
  BY DEF Matrix!Edges, Matrix!Unreachable, ToPayment, ToLedger
<1> QED
  BY <1>1 DEF Matrix!Init, PlanInv

\* And always.
LEMMA PlanInvariant == AllSpec => []PlanInv
<1>1. PlanInv /\ [AllNext]_allVars => PlanInv'
  <2> SUFFICES ASSUME PlanInv, [AllNext]_allVars PROVE PlanInv'
    OBVIOUS
  <2>1. Matrix!Next \/ UNCHANGED matrixVars
    BY DEF AllNext, allVars
  <2>2. CASE UNCHANGED matrixVars
    <3>1. UNCHANGED <<atEdge, atService, progress, corrected, proposal>>
      BY <2>2 DEF matrixVars
    <3>2. Correcting' = Correcting
      BY <3>1 DEF Correcting, Matrix!Repairable, Matrix!Issues, Matrix!Unsupported
    <3> QED
      BY <3>1, <3>2 DEF PlanInv
  <2> QED
    BY <2>1, <2>2, PlanKept
<1> QED
  BY <1>1, PlanInit, PTL DEF AllSpec

\* Whatever numbers of requests the pilot was seen to take, a correction that is
\* begun passes its own verification, and once the audit has passed no row has
\* an edge that was not reached (CorrectionHolds).
THEOREM CorrectionPassesItsVerification == AllSpec => []CorrectionHolds
<1>1. PlanInv => CorrectionHolds
  <2> SUFFICES ASSUME PlanInv PROVE Matrix!CorrectionHolds
    BY DEF CorrectionHolds
  <2>1. progress # "broken"
    BY DEF PlanInv
  <2>2. ASSUME progress = "blocked" PROVE Matrix!NoIssues(proposal)
    <3>1. Correcting /\ corrected = Evens
      BY <2>2 DEF PlanInv
    <3> QED
      BY <3>1, SettledHasNoIssues DEF PlanInv, Correcting
  <2> QED
    BY <2>1, <2>2 DEF Matrix!CorrectionHolds
<1> QED
  BY <1>1, PlanInvariant, PTL
=============================================================================
