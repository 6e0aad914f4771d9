-------------------------- MODULE FaultLease_proofs --------------------------
(* Theorems about FaultLease and FaultResources, for every set of programs, *)
(* and their proofs.                                                       *)
EXTENDS FaultResources, TLAPS

-----------------------------------------------------------------------------
(* Types *)

\* Init, and every step, keeps the variables in their types.
LEMMA InitType == Init => TypeOK
BY DEF Init, TypeOK, Steps

\* Going to another step leaves every client at some step.
LEMMA GotoType ==
    ASSUME pc \in [Clients -> Steps], NEW c \in Clients, NEW s \in Steps, Goto(c, s)
    PROVE  /\ pc' \in [Clients -> Steps]
           /\ pc'[c] = s
           /\ \A d \in Clients : d # c => pc'[d] = pc[d]
BY DEF Goto

\* A new activation has a number that no client has had.
LEMMA CreateType ==
    ASSUME TypeOK, NEW c \in Clients, Create(c)
    PROVE  /\ issued' \in Nat /\ issued' = issued + 1
           /\ file' = issued' /\ mine'[c] = issued'
           /\ mine' \in [Clients -> Nat]
           /\ \A d \in Clients : d # c => mine'[d] = mine[d]
           /\ \A d \in Clients : mine'[d] <= issued'
BY DEF TypeOK, Create

\* acquire keeps the types, the calls of the reclaiming path included.
LEMMA AcquireType ==
    ASSUME TypeOK, NEW c \in Clients, Acquire(c) PROVE TypeOK'
<1>1. CASE Open(c)
  <2>1. "write" \in Steps
    BY DEF Steps
  <2>2. /\ issued' \in Nat /\ file' = issued' /\ issued' # 0
        /\ mine' \in [Clients -> Nat] /\ \A d \in Clients : mine'[d] <= issued'
    BY <1>1, CreateType DEF Open, TypeOK
  <2>3. pc' \in [Clients -> Steps]
    BY <1>1, <2>1, GotoType DEF Open, TypeOK
  <2>4. QED
    BY <1>1, <2>2, <2>3 DEF Open, TypeOK
<1>2. CASE OpenFails(c) \/ Inspect(c) \/ Reclaim(c) \/ Remove(c) \/ Write(c)
  <2>1. pc' \in [Clients -> Steps]
    BY <1>2 DEF OpenFails, Inspect, Reclaim, Remove, Write, Goto, TypeOK, Steps
  <2>2. /\ UNCHANGED <<issued, expired, mine, stopped>>
        /\ file' \in {file, 0}
        /\ content' \in {0, file'}
    BY <1>2 DEF OpenFails, Inspect, Reclaim, Remove, Write, RemoveFile, StillNamed, Owned,
                TypeOK
  <2>3. seen' \in [Clients -> Nat]
    BY <1>2 DEF OpenFails, Inspect, Reclaim, Remove, Write, TypeOK
  <2>4. QED
    BY <2>1, <2>2, <2>3 DEF TypeOK
<1>3. QED
  BY <1>1, <1>2 DEF Acquire

\* The run under the lease and its cleanup keep the types.
LEMMA RunType ==
    ASSUME TypeOK, NEW c \in Clients, Run(c) \/ Cleanup(c) PROVE TypeOK'
<1>1. pc' \in [Clients -> Steps]
  BY DEF Run, Cleanup, Activate, Deactivate, DeactivateFails, EndSealed, Verify, Release,
         Unlink, Rerelease, Returned, AfterFailure, Goto, TypeOK, Steps
<1>2. /\ UNCHANGED <<issued, expired, mine, seen>>
      /\ (UNCHANGED <<file, content>>) \/ RemoveFile
  BY DEF Run, Cleanup, Activate, Deactivate, DeactivateFails, EndSealed, Verify, Release,
         Unlink, Rerelease
<1>3. stopped' \subseteq stopped \cup {mine[c]}
  BY DEF Run, Cleanup, Activate, Deactivate, DeactivateFails, EndSealed, Verify, Release,
         Unlink, Rerelease
<1>4. QED
  BY <1>1, <1>2, <1>3 DEF TypeOK, RemoveFile

\* The demo control's calls keep the types.
LEMMA SessionType ==
    ASSUME TypeOK, NEW c \in Clients, Session(c) \/ Die(c) PROVE TypeOK'
<1>1. pc' \in [Clients -> Steps]
  BY DEF Session, Arm, Purge, Check, Replace, Drop, Dropped, Die, Goto, TypeOK, Steps
<1>2. CASE Replace(c)
  <2>1. /\ issued' \in Nat /\ file' = issued' /\ issued' # 0
        /\ mine' \in [Clients -> Nat] /\ \A d \in Clients : mine'[d] <= issued'
    BY <1>2, CreateType DEF Replace, TypeOK
  <2>2. QED
    BY <1>1, <1>2, <2>1 DEF Replace, TypeOK
<1>3. CASE Arm(c) \/ Purge(c) \/ Check(c) \/ Drop(c) \/ Dropped(c) \/ Die(c)
  <2>1. /\ UNCHANGED <<issued, expired, mine, stopped>>
        /\ (UNCHANGED <<file, content>>) \/ RemoveFile
    BY <1>3 DEF Arm, Purge, Check, Drop, Dropped, Die
  <2>2. seen' \in [Clients -> Nat]
    BY <1>3 DEF Arm, Purge, Check, Drop, Dropped, Die, TypeOK
  <2>3. QED
    BY <1>1, <2>1, <2>2 DEF TypeOK, RemoveFile
<1>4. QED
  BY <1>2, <1>3 DEF Session

\* Every step keeps the types, time and kills included.
LEMMA NextType == TypeOK /\ [Next]_vars => TypeOK'
<1> SUFFICES ASSUME TypeOK, [Next]_vars PROVE TypeOK'
  OBVIOUS
<1>1. ASSUME NEW c \in Clients, Step(c) \/ Die(c) PROVE TypeOK'
  BY <1>1, AcquireType, RunType, SessionType DEF Step
<1>2. ASSUME NEW i \in 1..MaxActivations, Expire(i) PROVE TypeOK'
  BY <1>2 DEF Expire, TypeOK
<1>3. CASE UNCHANGED vars
  BY <1>3 DEF vars, TypeOK
<1>4. QED
  BY <1>1, <1>2, <1>3 DEF Next

\* The variables keep their types, and an absent file has no content.
THEOREM LeaseTypeCorrect == Spec => []TypeOK
BY InitType, NextType, PTL DEF Spec

-----------------------------------------------------------------------------
(* A run under either lease that ended left no file of its own.            *)

\* What makes it inductive: activations have one client each, and a run that
\* is past the writing of its file has written it.
Distinct ==
    \A c, d \in Clients : c # d /\ mine[c] # 0 => mine[c] # mine[d]

Tidy(c) ==
    /\ pc[c] \in {"idle", "open", "inspect", "reclaim", "remove", "rerelease"} => ~Owned(c)
    /\ c \in Sealed /\ pc[c] = "verify" => ~Owned(c)
    /\ Owned(c) /\ pc[c] \notin {"write", "dead"} => content = file

EndInv == TypeOK /\ Distinct /\ \A c \in Gated \cup Sealed : Tidy(c)

\* Only the creation of a file gives anybody an activation, and a new one.
LEMMA DistinctKept == TypeOK /\ Distinct /\ [Next]_vars => Distinct'
<1> SUFFICES ASSUME TypeOK, Distinct, [Next]_vars PROVE Distinct'
  OBVIOUS
<1>1. ASSUME NEW c \in Clients, Create(c) PROVE Distinct'
  <2>1. /\ mine'[c] = issued + 1
        /\ \A d \in Clients : d # c => mine'[d] = mine[d]
        /\ \A d \in Clients : mine[d] \in 0..issued
        /\ issued \in Nat
    BY <1>1, CreateType DEF TypeOK
  <2>2. QED
    BY <2>1 DEF Distinct
<1>2. CASE UNCHANGED mine
  BY <1>2 DEF Distinct
<1>3. ASSUME NEW c \in Clients, Step(c) \/ Die(c)
      PROVE  Create(c) \/ UNCHANGED mine
  BY <1>3 DEF Step, Acquire, Open, OpenFails, Inspect, Reclaim, Remove, Write,
              Run, Activate, Deactivate, DeactivateFails, EndSealed, Verify,
              Cleanup, Release, Unlink, Rerelease,
              Session, Arm, Purge, Check, Replace, Drop, Dropped, Die
<1>4. QED
  BY <1>1, <1>2, <1>3 DEF Next, Expire, vars

\* A client keeps its mark, or finds the file gone, in a step of another one.
LEMMA OthersKeepTidy ==
    ASSUME TypeOK, Distinct, NEW c \in Gated \cup Sealed, Tidy(c),
           NEW d \in Clients, d # c, Step(d) \/ Die(d)
    PROVE  Tidy(c)'
<1>1. c \in Clients
  BY DEF Clients, Stores, Known
<1>2. pc'[c] = pc[c] /\ mine'[c] = mine[c]
  BY <1>1, CreateType DEF Step, Acquire, Open, OpenFails, Inspect, Reclaim, Remove, Write,
         Run, Activate, Deactivate, DeactivateFails, EndSealed, Verify, Cleanup, Release,
         Unlink, Rerelease, Session, Arm, Purge, Check, Replace, Drop, Dropped, Die, Goto,
         TypeOK
<1>3. CASE Create(d)
  <2>1. file' = issued + 1 /\ mine[c] <= issued /\ issued \in Nat /\ mine[c] \in Nat
    BY <1>1, <1>3, CreateType DEF TypeOK
  <2>2. ~Owned(c)'
    BY <1>2, <2>1 DEF Owned
  <2>3. QED
    BY <2>2 DEF Tidy
<1>4. CASE RemoveFile
  BY <1>4 DEF RemoveFile, Tidy, Owned
<1>5. CASE UNCHANGED <<file, content>>
  BY <1>2, <1>5 DEF Tidy, Owned
<1>6. CASE file' = file /\ content' = file
  BY <1>2, <1>6 DEF Tidy, Owned
<1>7. Create(d) \/ RemoveFile \/ UNCHANGED <<file, content>> \/ (file' = file /\ content' = file)
  BY DEF Step, Acquire, Open, OpenFails, Inspect, Reclaim, Remove, Write, StillNamed, Owned,
         Run, Activate, Deactivate, DeactivateFails, EndSealed, Verify, Cleanup, Release,
         Unlink, Rerelease, Session, Arm, Purge, Check, Replace, Drop, Dropped, Die
<1>8. QED
  BY <1>3, <1>4, <1>5, <1>6, <1>7

\* A run's own steps: it drops its mark before it ends.
LEMMA OwnTidy ==
    ASSUME TypeOK, NEW c \in Gated \cup Sealed, Tidy(c), Step(c) \/ Die(c)
    PROVE  Tidy(c)'
<1>1. c \in Clients /\ c \notin Demo /\ c \notin Plain /\ (c \in Sealed => c \notin Gated)
  BY KindAssumption DEF Clients, Stores, Known
<1>2. pc \in [Clients -> Steps] /\ file \in Nat /\ content \in {0, file} /\ mine[c] \in Nat
  BY <1>1 DEF TypeOK
<1>3. CASE Open(c)
  BY <1>1, <1>2, <1>3 DEF Open, Goto, Tidy
<1>4. CASE OpenFails(c)
  BY <1>1, <1>2, <1>4 DEF OpenFails, Goto, Tidy, Owned
<1>5. CASE Inspect(c) \/ Reclaim(c)
  BY <1>1, <1>2, <1>5 DEF Inspect, Reclaim, Goto, Tidy, Owned
<1>6. CASE Remove(c) \/ Unlink(c)
  BY <1>6 DEF Remove, Unlink, RemoveFile, Tidy, Owned
<1>7. CASE Write(c)
  BY <1>1, <1>2, <1>7 DEF Write, StillNamed, Goto, Tidy, Owned
<1>8. CASE Activate(c) \/ Deactivate(c) \/ DeactivateFails(c) \/ EndSealed(c)
  BY <1>1, <1>2, <1>8 DEF Activate, Deactivate, DeactivateFails, EndSealed, VerifiesFirst,
     AfterFailure, Known, Goto, Tidy, Owned
<1>9. CASE Verify(c)
  BY <1>1, <1>2, <1>9 DEF Verify, VerifiesFirst, Goto, Tidy, Owned
<1>10. CASE Release(c)
  BY <1>1, <1>2, <1>10 DEF Release, Returned, VerifiesFirst, Absent, Goto, Tidy, Owned
<1>11. CASE Rerelease(c) \/ Die(c)
  BY <1>1, <1>2, <1>11 DEF Rerelease, Die, Goto, Tidy, Owned
<1>12. ~Session(c)
  BY <1>1 DEF Session
<1>13. QED
  BY <1>3, <1>4, <1>5, <1>6, <1>7, <1>8, <1>9, <1>10, <1>11, <1>12
     DEF Step, Acquire, Run, Cleanup

\* Every step keeps the invariant of the runs' ends.
LEMMA NextEndInv == EndInv /\ [Next]_vars => EndInv'
<1> SUFFICES ASSUME EndInv, [Next]_vars PROVE EndInv'
  OBVIOUS
<1>1. TypeOK' /\ Distinct'
  BY NextType, DistinctKept DEF EndInv
<1>2. ASSUME NEW c \in Gated \cup Sealed PROVE Tidy(c)'
  <2>1. ASSUME NEW d \in Clients, Step(d) \/ Die(d) PROVE Tidy(c)'
    <3>1. CASE d = c
      BY <2>1, <3>1, OwnTidy DEF EndInv
    <3>2. CASE d # c
      BY <2>1, <3>2, OthersKeepTidy DEF EndInv
    <3>3. QED
      BY <3>1, <3>2
  <2>2. CASE UNCHANGED <<file, content, pc, mine>>
    BY <2>2 DEF EndInv, Tidy, Owned
  <2>3. QED
    BY <2>1, <2>2 DEF Next, Expire, vars
<1>3. QED
  BY <1>1, <1>2 DEF EndInv

\* The invariant of the runs' ends holds before anything started.
LEMMA InitEndInv == Init => EndInv
BY InitType DEF Init, EndInv, Distinct, Tidy, Owned

\* However a run under FaultLease or SealedUnknownLease fails, and whatever
\* other programs, demo sessions, races and expired leases do to its file
\* meanwhile, it has no file of its own when it ended.
THEOREM EndedRunsLeaveNoFile == Spec => []EndedLeavesNoFile
<1>1. EndInv => EndedLeavesNoFile
  BY DEF EndInv, Tidy, EndedLeavesNoFile
<1>2. QED
  BY <1>1, InitEndInv, NextEndInv, PTL DEF Spec

-----------------------------------------------------------------------------
(* Runs exclude each other until a lease expires or a demo session arms.   *)

Exclusive(c) ==
    /\ InForce(c) => Owned(c)
    /\ pc[c] \notin {"reclaim", "remove"}

\* A demo session has nothing to replace or to remove, yet.
Waiting(c) == pc[c] \in {"idle", "check", "replace"}

ExclInv ==
    /\ TypeOK
    /\ Distinct
    /\ Undisturbed => /\ \A c \in Stores : Exclusive(c)
                     /\ \A c \in Demo : Waiting(c)

\* A run in force keeps its file in a step of another program: nobody creates
\* a file while one is there, or removes a file that is not its own.
LEMMA OthersKeepExclusive ==
    ASSUME TypeOK, Distinct, expired = {}, NEW c \in Stores, Exclusive(c),
           NEW d \in Stores, d # c, Exclusive(d), Step(d) \/ Die(d)
    PROVE  Exclusive(c)'
<1>1. c \in Clients /\ d \in Clients /\ d \notin Demo
  BY KindAssumption DEF Clients
<1>2. pc'[c] = pc[c] /\ mine'[c] = mine[c]
  BY <1>1, CreateType DEF Step, Acquire, Open, OpenFails, Inspect, Reclaim, Remove, Write,
         Run, Activate, Deactivate, DeactivateFails, EndSealed, Verify, Cleanup, Release,
         Unlink, Rerelease, Session, Die, Goto, TypeOK
<1>3. CASE Open(d)
  BY <1>2, <1>3 DEF Open, MayCreate, Absent, Exclusive, InForce, Owned
<1>4. CASE Unlink(d)
  <2>1. Owned(d)
    BY <1>4 DEF Unlink, Exclusive, InForce
  <2>2. ~Owned(c)
    BY <1>1, <2>1 DEF Owned, Distinct
  <2>3. QED
    BY <1>2, <2>2 DEF Exclusive, InForce
<1>5. CASE file' = file
  BY <1>2, <1>5 DEF Exclusive, InForce, Owned
<1>6. file' = file \/ Open(d) \/ Unlink(d)
  BY <1>1 DEF Step, Acquire, OpenFails, Inspect, Reclaim, Remove, Write, Exclusive,
         Run, Activate, Deactivate, DeactivateFails, EndSealed, Verify, Cleanup, Release,
         Rerelease, Session, Die
<1>7. QED
  BY <1>3, <1>4, <1>5, <1>6

\* A run is in force only from the creation of its file to its release.
LEMMA OwnExclusive ==
    ASSUME TypeOK, expired = {}, NEW c \in Stores, Exclusive(c), Step(c) \/ Die(c)
    PROVE  Exclusive(c)'
<1>1. c \in Clients /\ c \notin Demo
  BY KindAssumption DEF Clients
<1>2. pc \in [Clients -> Steps] /\ mine \in [Clients -> Nat] /\ issued \in Nat
  BY DEF TypeOK
<1>3. CASE Open(c)
  BY <1>1, <1>2, <1>3, CreateType DEF Open, Goto, Exclusive, Owned
<1>4. CASE OpenFails(c) \/ Inspect(c) \/ Reclaim(c) \/ Remove(c)
  BY <1>1, <1>2, <1>4 DEF OpenFails, Inspect, Reclaim, Remove, Reclaimable, HasExpired, Goto,
     Exclusive, InForce, Owned
<1>5. CASE Write(c) \/ Activate(c) \/ Deactivate(c) \/ DeactivateFails(c) \/ EndSealed(c)
  BY <1>1, <1>2, <1>5 DEF Write, Activate, Deactivate, DeactivateFails, EndSealed,
     VerifiesFirst, AfterFailure, Goto, Exclusive, InForce, Owned
<1>6. CASE Verify(c) \/ Release(c) \/ Unlink(c) \/ Rerelease(c) \/ Die(c)
  BY <1>1, <1>2, <1>6 DEF Verify, Release, Unlink, Rerelease, Die, Returned, VerifiesFirst,
     Goto, Exclusive, InForce, Owned
<1>7. QED
  BY <1>1, <1>3, <1>4, <1>5, <1>6 DEF Step, Acquire, Run, Cleanup, Session

\* The invariant of exclusion holds before anything started.
LEMMA InitExclInv == Init => ExclInv
BY InitType DEF Init, ExclInv, Distinct, Exclusive, Waiting, InForce, Stores, Clients

\* Leases only expire and activations are only created, so a step that leaves
\* the runs undisturbed found them undisturbed.
LEMMA DisturbedForGood ==
    ASSUME TypeOK, Undisturbed', NEW d \in Clients, Step(d) \/ Die(d) PROVE Undisturbed
<1>1. expired = {}
  BY DEF Undisturbed, Step, Acquire, Open, OpenFails, Inspect, Reclaim, Remove, Write, Run,
     Activate, Deactivate, DeactivateFails, EndSealed, Verify, Cleanup, Release, Unlink,
     Rerelease, Session, Arm, Purge, Check, Replace, Drop, Dropped, Die
<1>2. Demo \subseteq Clients
  BY DEF Clients
<1>3. CASE mine' = mine
  BY <1>1, <1>3 DEF Undisturbed
<1>4. CASE Create(d)
  <2>1. mine'[d] # 0
    BY <1>4, CreateType DEF TypeOK
  <2>2. \A c \in Demo : mine'[c] = 0
    BY DEF Undisturbed
  <2>3. \A c \in Demo : mine[c] = mine'[c]
    BY <1>2, <1>4, <2>1, <2>2, CreateType
  <2>4. QED
    BY <1>1, <2>2, <2>3 DEF Undisturbed
<1>5. mine' = mine \/ Create(d)
  BY DEF Step, Acquire, Open, OpenFails, Inspect, Reclaim, Remove, Write, Run,
     Activate, Deactivate, DeactivateFails, EndSealed, Verify, Cleanup, Release, Unlink,
     Rerelease, Session, Arm, Purge, Check, Replace, Drop, Dropped, Die
<1>6. QED
  BY <1>3, <1>4, <1>5

\* A demo session that stays unarmed touches neither the file nor a run.
LEMMA UnarmedSession ==
    ASSUME TypeOK, Undisturbed, Undisturbed', NEW d \in Demo, Waiting(d), Session(d)
    PROVE  /\ UNCHANGED <<file, content, mine>> /\ Waiting(d)'
           /\ \A c \in Clients : c # d => pc'[c] = pc[c]
<1>1. d \in Clients /\ pc \in [Clients -> Steps] /\ mine[d] = 0 /\ expired = {}
  BY DEF Clients, TypeOK, Undisturbed
<1>2. ~Replace(d)
  <2>1. Replace(d) => mine'[d] # 0
    BY <1>1, CreateType DEF Replace, TypeOK
  <2>2. QED
    BY <2>1 DEF Undisturbed
<1>3. ~Purge(d) /\ ~Drop(d) /\ ~Dropped(d)
  BY <1>1 DEF Purge, Drop, Dropped, Waiting, NoActivation, HasExpired
<1>4. CASE Arm(d)
  BY <1>1, <1>4 DEF Arm, Waiting, Goto, NoActivation, HasExpired
<1>5. CASE Check(d)
  BY <1>1, <1>5 DEF Check, Waiting, Goto
<1>6. QED
  BY <1>2, <1>3, <1>4, <1>5 DEF Session

\* Every step keeps the invariant of exclusion.
LEMMA NextExclInv == ExclInv /\ [Next]_vars => ExclInv'
<1> SUFFICES ASSUME ExclInv, [Next]_vars PROVE ExclInv'
  OBVIOUS
<1>1. TypeOK' /\ Distinct'
  BY NextType, DistinctKept DEF ExclInv
<1>2. ASSUME Undisturbed'
      PROVE  (\A c \in Stores : Exclusive(c)') /\ (\A c \in Demo : Waiting(c)')
  <2>1. CASE \E d \in Clients : Step(d) \/ Die(d)
    <3> PICK d \in Clients : Step(d) \/ Die(d)
      BY <2>1
    <3>1. /\ Undisturbed /\ expired = {}
          /\ \A c \in Stores : Exclusive(c)
          /\ \A c \in Demo : Waiting(c)
      BY <1>2, DisturbedForGood DEF ExclInv, Undisturbed
    <3>2. CASE d \in Stores
      <4>1. \A c \in Stores : c # d => Exclusive(c)'
        BY <3>1, <3>2, OthersKeepExclusive DEF ExclInv
      <4>2. Exclusive(d)'
        BY <3>1, <3>2, OwnExclusive DEF ExclInv
      <4>3. \A c \in Demo : pc'[c] = pc[c]
        <5>1. \A c \in Demo : c \in Clients /\ c # d
          BY <3>2, KindAssumption DEF Clients
        <5>2. d \notin Demo
          BY <5>1
        <5>3. QED
          BY <5>1, <5>2 DEF Step, Acquire, Open, OpenFails, Inspect, Reclaim, Remove, Write,
             Run, Activate, Deactivate, DeactivateFails, EndSealed, Verify, Cleanup, Release,
             Unlink, Rerelease, Session, Die, Goto, ExclInv, TypeOK
      <4>4. QED
        BY <3>1, <4>1, <4>2, <4>3 DEF Waiting
    <3>3. CASE d \in Demo
      <4>1. Session(d)
        <5>1. d \notin Stores /\ d \notin Known /\ d \notin Gated /\ d \notin Sealed
          BY <3>3, KindAssumption DEF Stores, Known
        <5>2. pc[d] \in {"idle", "check", "replace"}
          BY <3>1, <3>3 DEF Waiting
        <5>3. QED
          BY <5>1, <5>2 DEF Step, Acquire, Die, Run, Activate, Deactivate, DeactivateFails,
             EndSealed, Verify, Cleanup, Release, Unlink, Rerelease
      <4>2. /\ UNCHANGED <<file, content, mine>> /\ Waiting(d)'
            /\ \A c \in Clients : c # d => pc'[c] = pc[c]
        BY <1>2, <3>1, <3>3, <4>1, UnarmedSession DEF ExclInv
      <4>3. \A c \in Stores : c \in Clients /\ c # d
        BY <3>3, KindAssumption DEF Clients
      <4>4. \A c \in Demo : c \in Clients
        BY DEF Clients
      <4>5. QED
        BY <3>1, <4>2, <4>3, <4>4 DEF Exclusive, InForce, Owned, Waiting
    <3>4. QED
      BY <3>2, <3>3 DEF Clients
  <2>2. CASE UNCHANGED vars
    BY <1>2, <2>2 DEF vars, ExclInv, Undisturbed, Exclusive, Waiting, InForce, Owned
  <2>3. ~\E i \in 1..MaxActivations : Expire(i)
    BY <1>2 DEF Expire, Undisturbed
  <2>4. QED
    BY <2>1, <2>2, <2>3 DEF Next
<1>3. QED
  BY <1>1, <1>2 DEF ExclInv

\* Any number of known and sealed runs have at most one fault in force between
\* them as long as no lease expired and no demo session armed, and the control
\* file is the one of that fault.
THEOREM RunsExclude == Spec => []ExclusiveUntilExpiry
<1>1. ExclInv => ExclusiveUntilExpiry
  <2> SUFFICES ASSUME ExclInv, Undisturbed, NEW c \in Stores, InForce(c)
               PROVE  Owned(c) /\ \A d \in Stores : InForce(d) => d = c
    BY DEF ExclusiveUntilExpiry
  <2>1. \A d \in Stores : InForce(d) => Owned(d)
    BY DEF ExclInv, Exclusive
  <2>2. \A d \in Stores : Owned(c) /\ Owned(d) => d = c
    BY DEF Owned, ExclInv, Distinct, Clients
  <2>3. QED
    BY <2>1, <2>2
<1>2. QED
  BY <1>1, InitExclInv, NextExclInv, PTL DEF Spec

-----------------------------------------------------------------------------
(* One fault at a time, without the file: FaultLease implements OneFault   *)

\* A program has a fault in force; its file is there, and it has none in
\* force any more; some lease has expired.
Holder   == {c \in Stores : InForce(c)}
LeftOver == {c \in Stores : Owned(c) /\ ~InForce(c)}
Late     == expired # {}

One == INSTANCE OneFault
         WITH Programs <- Stores, holder <- Holder, left <- LeftOver, late <- Late

oneVars == <<Holder, LeftOver, Late>>

\* Who has a fault in force has the file; who removes an expired one removes
\* what it left itself.
Rightful(c) ==
    /\ InForce(c) => Owned(c)
    /\ pc[c] = "remove" => Owned(c) /\ Late

\* A file is the file of one program.
LEMMA OneOwner ==
    ASSUME Distinct, NEW c \in Stores, NEW d \in Stores, Owned(c), Owned(d)
    PROVE  c = d
BY DEF Owned, Distinct, Clients

\* The program with the file is the only one that has a fault in force or has
\* left one.
LEMMA OwnerAlone ==
    ASSUME Distinct, \A c \in Stores : InForce(c) => Owned(c), NEW d \in Stores, Owned(d)
    PROVE  /\ InForce(d) => Holder = {d} /\ LeftOver = {}
           /\ ~InForce(d) => Holder = {} /\ LeftOver = {d}
<1>1. \A c \in Stores : Owned(c) => c = d
  BY OneOwner
<1>2. QED
  BY <1>1 DEF Holder, LeftOver

\* Without a file nobody has a fault in force, and nothing is left.
LEMMA NobodyOwns ==
    ASSUME \A c \in Stores : InForce(c) => Owned(c), Absent
    PROVE  Holder = {} /\ LeftOver = {}
BY DEF Holder, LeftOver, Absent, Owned

\* Creating the file is taking the lease.
LEMMA OpenTakes ==
    ASSUME TypeOK, Distinct, Distinct', NEW d \in Stores, Open(d),
           \A c \in Stores : InForce(c) => Owned(c),
           (\A c \in Stores : InForce(c) => Owned(c))'
    PROVE  One!Take(d)
<1>1. d \in Clients
  BY DEF Clients
<1>2. Holder = {} /\ LeftOver = {}
  BY NobodyOwns DEF Open, MayCreate
<1>3. Owned(d)' /\ InForce(d)'
  BY <1>1, CreateType DEF Open, Goto, Owned, InForce, TypeOK
<1>4. \A c \in Stores : Owned(c)' => c = d
  BY <1>3 DEF Owned, Distinct, Clients
<1>5. Holder' = {d} /\ LeftOver' = {}
  BY <1>3, <1>4 DEF Holder, LeftOver
<1>6. Late' = Late
  BY DEF Open, Late
<1>7. QED
  BY <1>2, <1>5, <1>6 DEF One!Take

\* Unlinking one's own file is giving the lease back, or reclaiming what one
\* left.
LEMMA RemovalEnds ==
    ASSUME Distinct, NEW d \in Stores, Unlink(d) \/ Remove(d), Rightful(d),
           \A c \in Stores : InForce(c) => Owned(c),
           (\A c \in Stores : InForce(c) => Owned(c))'
    PROVE  One!End(d) \/ One!Reclaim(d)
<1>1. Owned(d)
  BY DEF Unlink, Remove, Rightful, InForce
<1>2. Absent'
  BY DEF Unlink, Remove, RemoveFile, Absent
<1>3. Holder' = {} /\ LeftOver' = {}
  BY <1>2 DEF Holder, LeftOver, Absent, Owned
<1>4. Late' = Late
  BY DEF Unlink, Remove, Late
<1>5. CASE InForce(d)
  BY <1>1, <1>3, <1>4, <1>5, OwnerAlone DEF One!End
<1>6. CASE ~InForce(d)
  <2>1. Late
    BY <1>6 DEF Unlink, Remove, Rightful, InForce
  <2>2. Holder = {} /\ LeftOver = {d}
    BY <1>1, <1>6, OwnerAlone
  <2>3. QED
    BY <1>3, <1>4, <2>1, <2>2 DEF One!Reclaim
<1>7. QED
  BY <1>5, <1>6

\* A program that stays with its file goes on, or ends and leaves it.
LEMMA OthersGoOn ==
    ASSUME Distinct, NEW d \in Stores, UNCHANGED <<file, mine, expired>>,
           \A c \in Stores : c # d => pc'[c] = pc[c],
           InForce(d)' => InForce(d),
           \A c \in Stores : InForce(c) => Owned(c)
    PROVE  One!Abandon(d) \/ UNCHANGED oneVars
<1>1. \A c \in Stores : Owned(c)' = Owned(c)
  BY DEF Owned
<1>2. \A c \in Stores : c # d => InForce(c)' = InForce(c)
  BY DEF InForce
<1>3. Late' = Late
  BY DEF Late
<1>4. CASE InForce(d)' = InForce(d)
  BY <1>1, <1>2, <1>3, <1>4 DEF Holder, LeftOver, oneVars
<1>5. CASE InForce(d) /\ ~InForce(d)'
  <2>1. Owned(d) /\ Holder = {d} /\ LeftOver = {}
    BY <1>5, OwnerAlone
  <2>2. \A c \in Stores : Owned(c) => c = d
    BY <2>1, OneOwner
  <2>3. \A c \in Stores : ~InForce(c)'
    BY <1>2, <1>5, <2>2
  <2>4. Holder' = {} /\ LeftOver' = {d}
    BY <1>1, <2>1, <2>2, <2>3 DEF Holder, LeftOver
  <2>5. QED
    BY <1>3, <2>1, <2>4 DEF One!Abandon
<1>6. QED
  BY <1>4, <1>5 DEF InForce

\* Each step of a program is a step of OneFault, or none.
LEMMA ProgramSteps ==
    ASSUME TypeOK, Distinct, Distinct', NEW d \in Stores, Step(d) \/ Die(d), Rightful(d),
           \A c \in Stores : InForce(c) => Owned(c),
           (\A c \in Stores : InForce(c) => Owned(c))'
    PROVE  One!Next \/ UNCHANGED oneVars
<1>1. d \in Clients /\ d \notin Demo /\ Stores \subseteq Clients
  BY KindAssumption DEF Clients
<1>2. CASE Open(d)
  BY <1>2, OpenTakes DEF One!Next
<1>3. CASE Unlink(d) \/ Remove(d)
  BY <1>3, RemovalEnds DEF One!Next
<1>4. CASE OpenFails(d) \/ Inspect(d) \/ Reclaim(d) \/ Write(d)
  <2>1. UNCHANGED <<file, mine, expired>> /\ \A c \in Stores : c # d => pc'[c] = pc[c]
    BY <1>1, <1>4 DEF OpenFails, Inspect, Reclaim, Write, Goto, TypeOK
  <2>2. InForce(d)' => InForce(d)
    BY <1>1, <1>4 DEF OpenFails, Inspect, Reclaim, Write, Goto, TypeOK, InForce
  <2>3. QED
    BY <2>1, <2>2, OthersGoOn DEF One!Next
<1>5. CASE Run(d) \/ Release(d) \/ Rerelease(d) \/ Die(d)
  <2>1. UNCHANGED <<file, mine, expired>> /\ \A c \in Stores : c # d => pc'[c] = pc[c]
    BY <1>1, <1>5 DEF Run, Activate, Deactivate, DeactivateFails, EndSealed, Verify, Release,
       Rerelease, Die, Goto, TypeOK
  <2>2. InForce(d)' => InForce(d)
    BY <1>1, <1>5 DEF Run, Activate, Deactivate, DeactivateFails, EndSealed, Verify, Release,
       Rerelease, Die, Goto, TypeOK, InForce, VerifiesFirst, AfterFailure, Returned
  <2>3. QED
    BY <2>1, <2>2, OthersGoOn DEF One!Next
<1>6. QED
  BY <1>1, <1>2, <1>3, <1>4, <1>5 DEF Step, Acquire, Cleanup, Session

\* At first nobody has a fault in force, and nothing is left.
LEMMA InitOne == Init => One!Init
BY DEF Init, One!Init, Holder, LeftOver, Late, InForce, Owned, Stores, Clients

\* A step that neither a program of the stores nor time takes is none of
\* OneFault, unless it disturbs the runs.
LEMMA UndisturbedSteps ==
    ASSUME ExclInv, ExclInv', Undisturbed', [Next]_vars
    PROVE  One!Next \/ UNCHANGED oneVars
<1>1. ASSUME NEW d \in Clients, Step(d) \/ Die(d) PROVE One!Next \/ UNCHANGED oneVars
  <2>1. /\ Undisturbed
        /\ \A c \in Stores : Exclusive(c)
        /\ \A c \in Demo : Waiting(c)
    BY <1>1, DisturbedForGood DEF ExclInv
  <2>2. /\ \A c \in Stores : InForce(c) => Owned(c)
        /\ (\A c \in Stores : InForce(c) => Owned(c))'
    BY <2>1 DEF ExclInv, Exclusive
  <2>3. CASE d \in Stores
    <3>1. Rightful(d)
      BY <2>1, <2>3 DEF Exclusive, Rightful
    <3>2. QED
      BY <1>1, <2>2, <2>3, <3>1, ProgramSteps DEF ExclInv
  <2>4. CASE d \in Demo
    <3>1. d \notin Stores
      BY <2>4, KindAssumption
    <3>2. Session(d)
      <4>1. d \notin Known /\ d \notin Gated /\ d \notin Sealed
        BY <3>1 DEF Stores, Known
      <4>2. pc[d] \in {"idle", "check", "replace"}
        BY <2>1, <2>4 DEF Waiting
      <4>3. QED
        BY <1>1, <3>1, <4>1, <4>2 DEF Step, Acquire, Die, Run, Activate, Deactivate,
           DeactivateFails, EndSealed, Verify, Cleanup, Release, Unlink, Rerelease
    <3>3. UNCHANGED <<file, mine>> /\ \A c \in Clients : c # d => pc'[c] = pc[c]
      BY <2>1, <2>4, <3>2, UnarmedSession DEF ExclInv
    <3>4. \A c \in Stores : c # d /\ c \in Clients
      BY <3>1 DEF Clients
    <3>5. expired' = expired
      BY <2>1 DEF Undisturbed
    <3>6. QED
      BY <3>3, <3>4, <3>5 DEF oneVars, Holder, LeftOver, Late, InForce, Owned
  <2>5. QED
    BY <2>3, <2>4 DEF Clients
<1>2. CASE UNCHANGED vars
  BY <1>2 DEF vars, oneVars, Holder, LeftOver, Late, InForce, Owned
<1>3. ~\E i \in 1..MaxActivations : Expire(i)
  BY DEF Expire, Undisturbed
<1>4. QED
  BY <1>1, <1>2, <1>3 DEF Next

\* As long as no lease expires and no demo session arms, what any programs do
\* with the control file, whoever races, fails or is killed, is what OneFault
\* allows: a fault is taken only when none is in force or left, and nobody
\* takes away what another one left.
THEOREM LeaseImplementsOneFault ==
    Spec => /\ One!Init
            /\ [][Undisturbed' => [One!Next]_oneVars]_vars
<1>1. ExclInv /\ ExclInv' /\ [Next]_vars => [Undisturbed' => [One!Next]_oneVars]_vars
  BY UndisturbedSteps
<1>2. QED
  BY <1>1, InitOne, InitExclInv, NextExclInv, PTL DEF Spec
-----------------------------------------------------------------------------
(* The races need two operators of known faults, or a demo session         *)

\* One operator at most runs known faults, beside any number of sealed runs.
OneKnown ==
    /\ Demo = {}
    /\ \A c, d \in Known : c = d

\* The operator that is about to reclaim a file left it itself.
Solo(c) ==
    /\ InForce(c) => Owned(c)
    /\ pc[c] \in {"inspect", "reclaim", "remove"} => c \in Known
    /\ pc[c] \in {"reclaim", "remove"} => Owned(c) /\ Late

SoloInv ==
    /\ TypeOK
    /\ Distinct
    /\ ~Absent => \E c \in Stores : Owned(c)
    /\ \A c \in Stores : Solo(c)

\* The invariant of one operator holds before anything started.
LEMMA InitSoloInv == Init => SoloInv
BY InitType DEF Init, SoloInv, Distinct, Solo, InForce, Stores, Clients, Absent

\* A file that may be reclaimed is the only operator's own.
LEMMA ReclaimsOwn ==
    ASSUME OneKnown, SoloInv, NEW c \in Known, ~Absent, Reclaimable PROVE Owned(c) /\ Late
<1>1. PICK d \in Stores : Owned(d)
  BY DEF SoloInv
<1>2. content = file
  BY DEF SoloInv, TypeOK, Reclaimable
<1>3. d \notin Sealed
  BY <1>1, <1>2 DEF Reclaimable, IsSealed, Owned
<1>4. d = c
  BY <1>3 DEF Stores, OneKnown
<1>5. QED
  BY <1>1, <1>4 DEF Reclaimable, HasExpired, Late

\* A program keeps its mark in a step of another one, which removes only its
\* own file.
LEMMA OthersKeepSolo ==
    ASSUME OneKnown, SoloInv, NEW c \in Stores, NEW d \in Stores, d # c, Step(d) \/ Die(d)
    PROVE  Solo(c)'
<1>1. c \in Clients /\ d \in Clients /\ d \notin Demo
  BY KindAssumption DEF Clients
<1>2. pc'[c] = pc[c] /\ mine'[c] = mine[c] /\ expired' = expired
  BY <1>1, CreateType DEF Step, Acquire, Open, OpenFails, Inspect, Reclaim, Remove, Write,
         Run, Activate, Deactivate, DeactivateFails, EndSealed, Verify, Cleanup, Release,
         Unlink, Rerelease, Session, Die, Goto, SoloInv, TypeOK
<1>3. Late' = Late
  BY <1>2 DEF Late
<1>4. CASE Owned(c)' = Owned(c)
  BY <1>2, <1>3, <1>4 DEF SoloInv, Solo, InForce
<1>5. CASE ~Owned(c)
  BY <1>2, <1>3, <1>5 DEF SoloInv, Solo, InForce
<1>6. CASE Owned(c)
  <2>1. ~Owned(d)
    BY <1>6, OneOwner DEF SoloInv
  <2>2. ~Open(d)
    BY <1>6 DEF Open, MayCreate, Absent, Owned
  <2>3. ~Unlink(d) /\ ~Remove(d)
    BY <2>1 DEF Unlink, Remove, SoloInv, Solo, InForce
  <2>4. file' = file
    BY <1>1, <2>2, <2>3 DEF Step, Acquire, OpenFails, Inspect, Reclaim, Write,
         Run, Activate, Deactivate, DeactivateFails, EndSealed, Verify, Cleanup, Release,
         Rerelease, Session, Die
  <2>5. Owned(c)' = Owned(c)
    BY <1>2, <2>4 DEF Owned
  <2>6. QED
    BY <1>4, <2>5
<1>7. QED
  BY <1>5, <1>6

\* A program's own steps: it is on its way to reclaim only what it left.
LEMMA OwnSolo ==
    ASSUME OneKnown, SoloInv, NEW c \in Stores, Step(c) \/ Die(c) PROVE Solo(c)'
<1>1. c \in Clients /\ c \notin Demo /\ (c \in Known \/ c \in Sealed) /\ Solo(c)
  BY KindAssumption DEF Clients, Stores, SoloInv
<1>2. /\ pc \in [Clients -> Steps] /\ mine \in [Clients -> Nat] /\ issued \in Nat
      /\ TypeOK
  BY DEF SoloInv, TypeOK
<1>3. CASE Open(c)
  <2>1. Owned(c)' /\ pc'[c] = "write"
    BY <1>1, <1>2, <1>3, CreateType DEF Open, Goto, Owned
  <2>2. QED
    BY <2>1 DEF Solo
<1>4. CASE OpenFails(c)
  BY <1>1, <1>2, <1>4 DEF OpenFails, Goto, Solo, InForce
<1>5. CASE Inspect(c)
  <2>1. c \in Known /\ UNCHANGED <<file, mine, expired>>
    BY <1>1, <1>5 DEF Inspect, Solo
  <2>2. pc'[c] \in {"open", "idle", "reclaim"}
    BY <1>1, <1>2, <1>5 DEF Inspect, Goto
  <2>3. pc'[c] = "reclaim" => ~Absent /\ Reclaimable
    BY <1>1, <1>2, <1>5 DEF Inspect, Goto
  <2>4. pc'[c] = "reclaim" => Owned(c)' /\ Late'
    BY <2>1, <2>3, ReclaimsOwn DEF Owned, Late
  <2>5. QED
    BY <2>1, <2>2, <2>4 DEF Solo, InForce
<1>6. CASE Reclaim(c) \/ Remove(c)
  BY <1>1, <1>2, <1>6 DEF Reclaim, Remove, Goto, Solo, InForce, Owned, Late
<1>7. CASE Write(c) \/ Run(c)
  BY <1>1, <1>2, <1>7 DEF Write, Run, Activate, Deactivate, DeactivateFails, EndSealed,
     Verify, VerifiesFirst, AfterFailure, Goto, Solo, InForce, Owned
<1>8. CASE Release(c) \/ Unlink(c) \/ Rerelease(c) \/ Die(c)
  BY <1>1, <1>2, <1>8 DEF Release, Unlink, Rerelease, Die, Returned, VerifiesFirst,
     Goto, Solo, InForce, Owned
<1>9. QED
  BY <1>1, <1>3, <1>4, <1>5, <1>6, <1>7, <1>8 DEF Step, Acquire, Cleanup, Session

\* A file has a program it belongs to.
LEMMA FileHasOwner ==
    ASSUME OneKnown, SoloInv, NEW d \in Stores, Step(d) \/ Die(d), ~Absent'
    PROVE  \E c \in Stores : Owned(c)'
<1>1. d \in Clients /\ d \notin Demo
  BY KindAssumption DEF Clients
<1>2. CASE Open(d)
  BY <1>1, <1>2, CreateType DEF Open, Owned, Absent, SoloInv
<1>3. CASE UNCHANGED <<file, mine>>
  BY <1>3 DEF SoloInv, Absent, Owned
<1>4. Open(d) \/ UNCHANGED <<file, mine>>
  BY <1>1 DEF Step, Acquire, OpenFails, Inspect, Reclaim, Remove, RemoveFile, Write, Absent,
         Run, Activate, Deactivate, DeactivateFails, EndSealed, Verify, Cleanup, Release,
         Unlink, Rerelease, Session, Die
<1>5. QED
  BY <1>2, <1>3, <1>4

\* Every step keeps the invariant of one operator.
LEMMA NextSoloInv == ASSUME OneKnown, SoloInv, [Next]_vars PROVE SoloInv'
<1>1. TypeOK' /\ Distinct'
  BY NextType, DistinctKept DEF SoloInv
<1>2. ASSUME NEW d \in Stores, Step(d) \/ Die(d) PROVE SoloInv'
  <2>1. \A c \in Stores : Solo(c)'
    BY <1>2, OthersKeepSolo, OwnSolo
  <2>2. QED
    BY <1>1, <1>2, <2>1, FileHasOwner DEF SoloInv
<1>3. ASSUME NEW i \in 1..MaxActivations, Expire(i) PROVE SoloInv'
  <2>1. UNCHANGED <<file, mine, pc>> /\ (Late => Late')
    BY <1>3 DEF Expire, Late
  <2>2. QED
    BY <1>1, <2>1 DEF SoloInv, Solo, InForce, Owned, Absent
<1>4. CASE UNCHANGED vars
  BY <1>1, <1>4 DEF vars, SoloInv, Solo, InForce, Owned, Absent, Late
<1>5. Clients = Stores
  BY DEF OneKnown, Clients
<1>6. QED
  BY <1>2, <1>3, <1>4, <1>5 DEF Next

\* With one operator every step is one of OneFault, or none: also when leases
\* expire, at any time.
LEMMA SoloSteps ==
    ASSUME OneKnown, SoloInv, SoloInv', [Next]_vars PROVE [One!Next]_(One!vars)
<1>1. SUFFICES One!Next \/ UNCHANGED oneVars
  BY DEF One!vars, oneVars
<1>2. ASSUME NEW d \in Stores, Step(d) \/ Die(d) PROVE One!Next \/ UNCHANGED oneVars
  <2>1. /\ \A c \in Stores : InForce(c) => Owned(c)
        /\ (\A c \in Stores : InForce(c) => Owned(c))'
        /\ Rightful(d)
    BY DEF SoloInv, Solo, Rightful
  <2>2. QED
    BY <1>2, <2>1, ProgramSteps DEF SoloInv
<1>3. ASSUME NEW i \in 1..MaxActivations, Expire(i) PROVE One!Next
  <2>1. Late' = TRUE /\ Holder' = Holder /\ LeftOver' = LeftOver
    BY <1>3 DEF Expire, Late, Holder, LeftOver, InForce, Owned
  <2>2. QED
    BY <2>1 DEF One!Next, One!Expire
<1>4. CASE UNCHANGED vars
  BY <1>4 DEF vars, oneVars, Holder, LeftOver, Late, InForce, Owned
<1>5. Clients = Stores
  BY DEF OneKnown, Clients
<1>6. QED
  BY <1>2, <1>3, <1>4, <1>5 DEF Next

\* With one operator of known faults and any number of sealed runs, the
\* control file is OneFault without any condition: an expired lease is taken
\* away by the program that left it, and by no other.
THEOREM SoloImplementsOneFault == ASSUME OneKnown PROVE Spec => One!Spec
<1>1. SoloInv /\ [Next]_vars => SoloInv'
  BY NextSoloInv
<1>2. SoloInv /\ SoloInv' /\ [Next]_vars => [One!Next]_(One!vars)
  BY SoloSteps
<1>3. QED
  BY <1>1, <1>2, InitOne, InitSoloInv, PTL DEF Spec, One!Spec

\* Then "one controlled fault at a time" holds as the code says it, whichever
\* leases expire: the races that break it need a second operator of known
\* faults, or a demo session.
THEOREM SoloLeasesExclude == ASSUME OneKnown PROVE Spec => []LiveLeasesExclude
<1>1. SoloInv => LiveLeasesExclude
  <2> SUFFICES ASSUME SoloInv, NEW c \in Stores, NEW d \in Stores, InForce(c), InForce(d)
               PROVE  c = d
    BY DEF LiveLeasesExclude
  <2>1. Owned(c) /\ Owned(d)
    BY DEF SoloInv, Solo
  <2>2. QED
    BY <2>1, OneOwner DEF SoloInv
<1>2. SoloInv /\ [Next]_vars => SoloInv'
  BY NextSoloInv
<1>3. QED
  BY <1>1, <1>2, InitSoloInv, PTL DEF Spec

\* What OneFault promises follows from its steps alone: two programs never
\* have a fault in force together, nor one beside the lease another left.
THEOREM OneFaultAtATime == One!Spec => []One!OneAtATime
<1>1. One!Init => One!AloneInv
  BY DEF One!Init, One!AloneInv
<1>2. One!AloneInv /\ [One!Next]_(One!vars) => One!AloneInv'
  <2> SUFFICES ASSUME One!AloneInv, [One!Next]_(One!vars) PROVE One!AloneInv'
    OBVIOUS
  <2>1. ASSUME NEW c \in Stores, One!Take(c) \/ One!Abandon(c)
        PROVE  {Holder, LeftOver}' = {{c}, {}}
    BY <2>1 DEF One!Take, One!Abandon
  <2>2. ASSUME NEW c \in Stores, One!End(c)
        PROVE  Holder' = {} /\ LeftOver' = {}
    BY <2>2 DEF One!End, One!AloneInv
  <2>3. ASSUME NEW c \in Stores, One!Reclaim(c)
        PROVE  Holder' = {} /\ LeftOver' = {}
    BY <2>3 DEF One!Reclaim
  <2>4. CASE Holder' = Holder /\ LeftOver' = LeftOver
    BY <2>4 DEF One!AloneInv
  <2>5. QED
    BY <2>1, <2>2, <2>3, <2>4 DEF One!Next, One!Expire, One!vars, One!AloneInv
<1>3. One!AloneInv => One!OneAtATime
  <2> SUFFICES ASSUME One!AloneInv PROVE One!OneAtATime
    OBVIOUS
  <2>1. CASE Holder = {}
    BY <2>1 DEF One!OneAtATime
  <2>2. CASE \E c \in Stores : Holder = {c} /\ LeftOver = {}
    BY <2>2 DEF One!OneAtATime
  <2>3. QED
    BY <2>1, <2>2 DEF One!AloneInv
<1>4. QED
  BY <1>1, <1>2, <1>3, PTL DEF One!Spec

-----------------------------------------------------------------------------
(* The resources a fault holds in a service                                *)

\* Requests and their resources belong to activations that were created.
ResType == met \subseteq 1..issued /\ held \in 0..issued

ResInv == TypeOK /\ ResType

\* Steps of the programs create activations that nothing was held for.
LEMMA ProgramsKeepRes ==
    ASSUME ResInv, Next, UNCHANGED <<met, held>> PROVE ResType'
<1>1. CASE UNCHANGED <<issued, mine>>
  BY <1>1 DEF ResInv, ResType
<1>2. ASSUME NEW c \in Clients, Create(c) PROVE ResType'
  <2>1. issued \in Nat /\ issued' = issued + 1
    BY <1>2, CreateType DEF ResInv, TypeOK
  <2>2. QED
    BY <2>1 DEF ResInv, ResType
<1>3. ASSUME NEW c \in Clients, Step(c) \/ Die(c)
      PROVE  Create(c) \/ UNCHANGED <<issued, mine>>
  BY <1>3 DEF Step, Acquire, Open, OpenFails, Inspect, Reclaim, Remove, Write,
              Run, Activate, Deactivate, DeactivateFails, EndSealed, Verify,
              Cleanup, Release, Unlink, Rerelease,
              Session, Arm, Purge, Check, Replace, Drop, Dropped, Die
<1>4. QED
  BY <1>1, <1>2, <1>3 DEF Next, Expire

\* Every step of the programs and of the service keeps the invariant.
LEMMA NextResInv == ResInv /\ [ResNext]_resVars => ResInv'
<1> SUFFICES ASSUME ResInv, [ResNext]_resVars PROVE ResInv'
  OBVIOUS
<1>1. CASE Next /\ UNCHANGED <<met, held>>
  BY <1>1, NextType, ProgramsKeepRes DEF ResInv
<1>2. CASE Meet
  <2>1. UNCHANGED vars /\ held' = held /\ met' = met \cup {content}
    BY <1>2 DEF Meet
  <2>2. content \in 1..issued
    BY <1>2 DEF Meet, NoActivation, ResInv, TypeOK
  <2>3. TypeOK'
    BY <2>1, NextType DEF ResInv
  <2>4. QED
    BY <2>1, <2>2, <2>3 DEF ResInv, ResType, vars
<1>3. CASE UNCHANGED vars /\ met' \subseteq met /\ held' \in {0, held} \cup met
  <2>1. TypeOK'
    BY <1>3, NextType DEF ResInv
  <2>2. UNCHANGED <<issued, mine>> /\ issued \in Nat
    BY <1>3 DEF vars, ResInv, TypeOK
  <2>3. ResType'
    BY <1>3, <2>2 DEF ResInv, ResType
  <2>4. QED
    BY <2>1, <2>3 DEF ResInv
<1>4. [ResNext]_resVars =>
        \/ Next /\ UNCHANGED <<met, held>>
        \/ Meet
        \/ UNCHANGED vars /\ met' \subseteq met /\ held' \in {0, held} \cup met
  BY DEF ResNext, Hold, GiveBack, Restart, resVars
<1>5. QED
  BY <1>1, <1>2, <1>3, <1>4

\* The service only reads the control file: beside it the programs behave as
\* they do without it, and every theorem about them holds.
THEOREM ServiceOnlyReadsLease == ResSpec => Spec
<1>1. ResInit => Init
  BY DEF ResInit
<1>2. [ResNext]_resVars => [Next]_vars
  BY DEF ResNext, Meet, Hold, GiveBack, Restart, resVars
<1>3. QED
  BY <1>1, <1>2, PTL DEF ResSpec, Spec

\* A lease that is over is over for good, for every activation a request met or
\* the service holds resources for: the holder task that polls the control
\* file cannot miss the end of the lease between two looks.
OverForGood ==
    [][\A i \in (met \cup {held}) \ {0} : Over(i) => Over(i)']_resVars

\* What makes it inductive: what a program is about to write tells of an
\* activation that nobody can have read.
Unread ==
    \A c \in Clients : pc[c] = "write" => mine[c] \notin met \cup {0, held, content}

OverInv == ResInv /\ Distinct /\ Unread

\* Every step of the programs keeps what is about to be written unread.
LEMMA ProgramsKeepUnread ==
    ASSUME OverInv, NEW d \in Clients, Step(d) \/ Die(d), UNCHANGED <<met, held>>
    PROVE  Unread'
<1>1. /\ TypeOK /\ ResType /\ issued \in Nat /\ pc \in [Clients -> Steps]
      /\ \A c \in Clients : mine[c] \in 0..issued
  BY DEF OverInv, ResInv, TypeOK
<1>2. CASE Create(d)
  <2>1. /\ mine'[d] = issued + 1
        /\ \A c \in Clients : c # d => mine'[c] = mine[c]
    BY <1>1, <1>2, CreateType
  <2>2. Open(d) \/ Replace(d)
    <3>1. issued' # issued
      BY <1>1, <1>2 DEF Create
    <3>2. QED
      BY <3>1 DEF Step, Acquire, OpenFails, Inspect, Reclaim, Remove,
         Write, Run, Activate, Deactivate, DeactivateFails, EndSealed, Verify, Cleanup,
         Release, Unlink, Rerelease, Session, Arm, Purge, Check, Drop, Dropped, Die
  <2>3. /\ content' \in {0, issued + 1}
        /\ Open(d) => content' = 0
        /\ Replace(d) => pc'[d] = "idle"
        /\ \A c \in Clients : c # d => pc'[c] = pc[c]
    BY <1>1, <2>2 DEF Open, Replace, Create, Goto
  <2>4. \A c \in Clients : c # d /\ pc'[c] = "write" => mine'[c] \notin met' \cup {0, held', content'}
    BY <1>1, <2>1, <2>3 DEF OverInv, Unread
  <2>5. pc'[d] = "write" => mine'[d] \notin met' \cup {0, held', content'}
    BY <1>1, <2>1, <2>2, <2>3 DEF ResType
  <2>6. QED
    BY <2>4, <2>5 DEF Unread
<1>3. CASE UNCHANGED mine /\ ~Create(d)
  <2>1. /\ \A c \in Clients : c # d => pc'[c] = pc[c]
        /\ pc'[d] # "write"
    BY <1>1, <1>3 DEF Step, Acquire, Open, OpenFails, Inspect, Reclaim, Remove, Write, Run,
       Activate, Deactivate, DeactivateFails, EndSealed, Verify, Cleanup, Release, Unlink,
       Rerelease, Session, Arm, Purge, Check, Replace, Drop, Dropped, Die, Goto,
       AfterFailure, Returned
  <2>2. content' \in {0, content, mine[d]}
    BY <1>3 DEF Step, Acquire, Open, OpenFails, Inspect, Reclaim, Remove, Write, Run,
       Activate, Deactivate, DeactivateFails, EndSealed, Verify, Cleanup, Release, Unlink,
       Rerelease, Session, Arm, Purge, Check, Replace, Drop, Dropped, Die, RemoveFile
  <2>3. \A c \in Clients : c # d /\ pc[c] = "write" => mine[c] # 0 /\ mine[c] # mine[d]
    BY DEF OverInv, Distinct, Unread
  <2>4. QED
    BY <1>3, <2>1, <2>2, <2>3 DEF OverInv, Unread
<1>4. Create(d) \/ UNCHANGED mine
  BY DEF Step, Acquire, Open, OpenFails, Inspect, Reclaim, Remove, Write,
         Run, Activate, Deactivate, DeactivateFails, EndSealed, Verify,
         Cleanup, Release, Unlink, Rerelease,
         Session, Arm, Purge, Check, Replace, Drop, Dropped, Die
<1>5. QED
  BY <1>2, <1>3, <1>4

\* Every step keeps what is about to be written unread.
LEMMA NextOverInv == OverInv /\ [ResNext]_resVars => OverInv'
<1> SUFFICES ASSUME OverInv, [ResNext]_resVars PROVE OverInv'
  OBVIOUS
<1>1. ResInv'
  BY NextResInv DEF OverInv
<1>2. [Next]_vars
  BY DEF ResNext, Meet, Hold, GiveBack, Restart, resVars
<1>3. Distinct'
  BY <1>2, DistinctKept DEF OverInv, ResInv
<1>4. ASSUME Next, UNCHANGED <<met, held>> PROVE Unread'
  <2>1. ASSUME NEW i \in 1..MaxActivations, Expire(i) PROVE Unread'
    BY <1>4, <2>1 DEF Expire, OverInv, Unread
  <2>2. QED
    BY <1>4, <2>1, ProgramsKeepUnread DEF Next
<1>5. ASSUME UNCHANGED vars, met' \subseteq met \cup {content}, held' \in met \cup {0, held}
      PROVE  Unread'
  <2>1. UNCHANGED <<pc, mine, content>>
    BY <1>5 DEF vars
  <2>2. ASSUME NEW c \in Clients, pc[c] = "write" PROVE mine[c] \notin met \cup {0, held, content}
    BY <2>2 DEF OverInv, Unread
  <2>3. QED
    BY <1>5, <2>1, <2>2 DEF Unread
<1>6. \/ Next /\ UNCHANGED <<met, held>>
      \/ UNCHANGED vars /\ met' \subseteq met \cup {content} /\ held' \in met \cup {0, held}
  BY DEF ResNext, Meet, Hold, GiveBack, Restart, resVars
<1>7. QED
  BY <1>1, <1>3, <1>4, <1>5, <1>6 DEF OverInv

\* No step of a program writes an activation that a request has met or that
\* the service holds resources for.
LEMMA WritesUnread ==
    ASSUME OverInv, NEW d \in Clients, Step(d) \/ Die(d),
           NEW i \in (met \cup {held}) \ {0}, content' = i
    PROVE  content = i
<1>1. i \in 1..issued /\ issued \in Nat
  BY DEF OverInv, ResInv, ResType, TypeOK
<1>2. CASE Write(d)
  BY <1>2 DEF Write, OverInv, Unread
<1>3. CASE Replace(d)
  BY <1>1, <1>3 DEF Replace, Create
<1>4. content' \in {0, content} \/ Write(d) \/ Replace(d)
  BY DEF Step, Acquire, Open, OpenFails, Inspect, Reclaim, Remove, Run,
     Activate, Deactivate, DeactivateFails, EndSealed, Verify, Cleanup, Release, Unlink,
     Rerelease, Session, Arm, Purge, Check, Drop, Dropped, Die, RemoveFile
<1>5. QED
  BY <1>2, <1>3, <1>4

\* No race of programs, demo sessions and requests revives a lease that a
\* request has met: what makes it safe to give resources back by polling.
THEOREM LeasesEndForGood == ResSpec => OverForGood
<1>1. ResInit => OverInv
  BY InitType DEF ResInit, Init, OverInv, ResInv, ResType, Distinct,
     Unread, Clients, Stores
<1>2. OverInv /\ [ResNext]_resVars =>
        [\A i \in (met \cup {held}) \ {0} : Over(i) => Over(i)']_resVars
  <2> SUFFICES ASSUME OverInv, ResNext, NEW i \in (met \cup {held}) \ {0}, Over(i)
               PROVE  Over(i)'
    BY DEF resVars, vars, Over
  <2>1. CASE UNCHANGED vars
    BY <2>1 DEF vars, Over
  <2>2. ASSUME NEW j \in 1..MaxActivations, Expire(j) PROVE Over(i)'
    BY <2>2 DEF Expire, Over
  <2>3. ASSUME NEW d \in Clients, Step(d) \/ Die(d) PROVE Over(i)'
    <3>1. expired' = expired
      BY <2>3 DEF Step, Acquire, Open, OpenFails, Inspect, Reclaim, Remove, Write, Run,
         Activate, Deactivate, DeactivateFails, EndSealed, Verify, Cleanup, Release, Unlink,
         Rerelease, Session, Arm, Purge, Check, Replace, Drop, Dropped, Die
    <3>2. QED
      BY <2>3, <3>1, WritesUnread DEF Over
  <2>4. QED
    BY <2>1, <2>2, <2>3 DEF ResNext, Next, Meet, Hold, GiveBack, Restart
<1>3. QED
  BY <1>1, <1>2, NextOverInv, PTL DEF ResSpec, OverForGood
=============================================================================
