----------------------- MODULE LiveIntelligence_proofs -----------------------
(***************************************************************************)
(* Proofs about LiveIntelligence, for any items, windows, batches and      *)
(* subscribers.                                                            *)
(***************************************************************************)
EXTENDS LiveIntelligence, TLAPS

-----------------------------------------------------------------------------
(* The times of items, newest and oldest                                   *)

\* A set of numbers with a greatest member has that member as its Max.
LEMMA MaxIs ==
  ASSUME NEW S \in SUBSET Int, NEW x \in S, \A y \in S : x >= y
  PROVE  Max(S) = x
<1>1. Max(S) \in S /\ \A y \in S : Max(S) >= y
  BY Zenon DEF Max
<1>2. Max(S) >= x /\ x >= Max(S) /\ Max(S) \in Int /\ x \in Int
  BY <1>1
<1>3. QED
  BY <1>2

\* The same for the least member and Min.
LEMMA MinIs ==
  ASSUME NEW S \in SUBSET Int, NEW x \in S, \A y \in S : x <= y
  PROVE  Min(S) = x
<1>1. Min(S) \in S /\ \A y \in S : Min(S) <= y
  BY Zenon DEF Min
<1>2. Min(S) <= x /\ x <= Min(S) /\ Min(S) \in Int /\ x \in Int
  BY <1>1
<1>3. QED
  BY <1>2

\* Newest is the greatest of the time it starts from and the times it sees.
LEMMA NewestIs ==
  ASSUME NEW time \in Nat, NEW S \in SUBSET Items
  PROVE  /\ Newest(time, S) \in Nat
         /\ Newest(time, S) >= time
         /\ \A i \in S : Newest(time, S) >= At[i]
<1> DEFINE T == {time} \cup {At[i] : i \in S}
<1>0. \A i \in S : At[i] \in Nat
  BY TimeAssumption
<1>1. \E x \in T : \A y \in T : x >= y
  <2>1. CASE S = {}
    BY <2>1
  <2>2. CASE S # {}
    <3>1. PICK j \in S : \A k \in S : At[k] <= At[j]
      BY <2>2, OrderAssumption
    <3>2. CASE At[j] >= time
      BY <1>0, <3>1, <3>2
    <3>3. CASE ~(At[j] >= time)
      <4>1. \A k \in S : At[k] <= time
        BY <1>0, <3>1, <3>3
      <4>2. QED
        BY <4>1
    <3>4. QED
      BY <3>2, <3>3
  <2>3. QED
    BY <2>1, <2>2
<1>2. T \in SUBSET Int
  BY <1>0
<1>3. PICK x \in T : \A y \in T : x >= y
  BY <1>1
<1>4. Max(T) = x
  BY <1>2, <1>3, MaxIs
<1>5. x \in Nat
  BY <1>0
<1>6. QED
  BY <1>3, <1>4, <1>5 DEF Newest

\* Oldest of a set with a member is the time of one.
LEMMA OldestIs ==
  ASSUME NEW S \in SUBSET Items
  PROVE  /\ Oldest(S) \in Nat
         /\ Oldest(S) # None => \E i \in S : Oldest(S) = At[i]
<1>1. CASE S = {}
  BY <1>1 DEF Oldest, None
<1>2. CASE S # {}
  <2>1. PICK i \in S : \A k \in S : At[i] <= At[k]
    BY <1>2, OrderAssumption
  <2>2. At[i] \in Nat /\ {At[k] : k \in S} \in SUBSET Int
    BY TimeAssumption
  <2>3. Min({At[k] : k \in S}) = At[i]
    BY <2>1, <2>2, MinIs
  <2>4. QED
    BY <1>2, <2>2, <2>3 DEF Oldest
<1>3. QED
  BY <1>1, <1>2

-----------------------------------------------------------------------------
(* The buffer                                                              *)

\* The types of the variables of LiveTelemetry.
BufferTypeOK ==
    /\ held \in [Items -> Nat] /\ seen \subseteq Items /\ accepted \subseteq Items
    /\ explicit \in BOOLEAN /\ watermark \in Nat /\ oldest \in Nat

\* BufferIsExact is inductive only with what the deduplication relies on: an
\* item in the buffer has its fingerprint.  That the oldest event is one that
\* is held is what a complete window rests on.
BufferInv ==
    /\ BufferTypeOK
    /\ BufferIsExact
    /\ \A i \in Items : held[i] > 0 => i \in seen
    /\ oldest # None => \E i \in Events : held[i] > 0 /\ At[i] = oldest

\* A POST keeps the invariant, and the newest event is never lost.
LEMMA IngestInv ==
  ASSUME BufferInv, NEW batch \in SUBSET Items, Ingest(batch)
  PROVE  BufferInv' /\ watermark' >= watermark
<1> DEFINE new == Fresh(batch)
<1> USE DEF BufferInv, BufferTypeOK
<1>0. new \subseteq Items /\ (\A i \in new : i \notin seen) /\ new \cap Events \in SUBSET Items
  BY DEF Fresh
<1>1. watermark' \in Nat /\ watermark' >= watermark
  BY <1>0, NewestIs DEF Ingest
<1>2. held' = [i \in Items |-> IF TooOld(i, watermark') THEN 0
                               ELSE IF i \in new THEN held[i] + 1 ELSE held[i]]
  BY DEF Ingest
<1>3. held' \in [Items -> Nat]
  BY <1>2
<1>4. seen' \subseteq Items
  BY <1>0 DEF Ingest, Fingerprints, HeldIn, Items
<1>5. accepted' = accepted \cup new
  BY DEF Ingest
<1>6. \A i \in Items : held'[i] > 0 => i \in seen'
  <2> SUFFICES ASSUME NEW i \in Items, held'[i] > 0 PROVE i \in seen'
    OBVIOUS
  <2>1. i \in seen \cup new
    BY <1>2
  <2>2. ASSUME NEW S \in SUBSET Items, i \in S PROVE i \in Fingerprints(S, new)
    BY <2>1, <2>2 DEF Fingerprints, HeldIn
  <2>3. i \in Events => i \in Fingerprints(Events, new)
    BY <2>2 DEF Items
  <2>4. i \in Requests => i \in Fingerprints(Requests, new)
    BY <2>2 DEF Items
  <2>5. QED
    BY <2>3, <2>4 DEF Ingest, Items
<1>7. BufferIsExact'
  <2> SUFFICES ASSUME NEW i \in Items
               PROVE  held'[i] = IF i \in accepted' /\ ~TooOld(i, watermark') THEN 1 ELSE 0
    BY DEF BufferIsExact, TooOld
  <2>1. At[i] \in Nat /\ MaxAge \in Nat
    BY TimeAssumption
  <2>2. TooOld(i, watermark) => TooOld(i, watermark')
    BY <1>1, <2>1 DEF TooOld, None
  <2>3. held[i] = IF i \in accepted /\ ~TooOld(i, watermark) THEN 1 ELSE 0
    BY DEF BufferIsExact, TooOld
  <2>4. CASE TooOld(i, watermark')
    BY <1>2, <2>4
  <2>5. CASE ~TooOld(i, watermark') /\ i \in new
    <3>1. held[i] = 0
      BY <1>0, <2>3, <2>5
    <3>2. QED
      BY <1>2, <1>5, <2>5, <3>1
  <2>6. CASE ~TooOld(i, watermark') /\ i \notin new
    BY <1>2, <1>5, <2>2, <2>3, <2>6
  <2>7. QED
    BY <2>4, <2>5, <2>6
<1>8. oldest' \in Nat /\ (oldest' # None => \E i \in Events : held'[i] > 0 /\ At[i] = oldest')
  <2>1. HeldIn(held', Events) \in SUBSET Items
    BY DEF HeldIn, Items
  <2>2. oldest' = Oldest(HeldIn(held', Events))
    BY DEF Ingest
  <2>3. QED
    BY <2>1, <2>2, OldestIs DEF HeldIn
<1>9. explicit' \in BOOLEAN
  BY DEF Ingest
<1>10. QED
  BY <1>0, <1>1, <1>3, <1>4, <1>5, <1>6, <1>7, <1>8, <1>9

\* The other steps leave the buffer alone.
LEMMA NextBuffer ==
  BufferInv /\ [Next]_vars => BufferInv' /\ watermark' >= watermark
<1> SUFFICES ASSUME BufferInv, [Next]_vars PROVE BufferInv' /\ watermark' >= watermark
  OBVIOUS
<1>1. CASE UNCHANGED bufferVars
  BY <1>1 DEF bufferVars, BufferInv, BufferTypeOK, BufferIsExact
<1>2. CASE PostTelemetry
  BY <1>2, BatchAssumption, IngestInv DEF PostTelemetry
<1>3. QED
  BY <1>1, <1>2 DEF Next, vars, EvaluateIncident, RefreshIncident, FailEvaluation, JudgeBucket,
     OpenStream, ReadStream

\* The first buffer is empty.
LEMMA InitBuffer == Init => BufferInv
<1> SUFFICES ASSUME Init PROVE BufferInv
  OBVIOUS
<1>1. /\ held = [i \in Items |-> 0] /\ seen = {} /\ explicit = FALSE
      /\ watermark = 0 /\ oldest = 0 /\ accepted = {}
  BY DEF Init, BufferInit, None
<1>2. BufferTypeOK
  BY <1>1 DEF BufferTypeOK
<1>3. QED
  BY <1>1, <1>2 DEF BufferInv, BufferIsExact, None

\* The buffer invariant holds in every reachable state.
LEMMA BufferInvariant == Spec => []BufferInv
BY InitBuffer, NextBuffer, PTL DEF Spec

\* Whatever is posted, posted again or late, the buffer is the accepted items
\* of the last MaxAge ticks, each once.
THEOREM BufferHolds == Spec => []BufferIsExact
BY BufferInvariant, PTL DEF BufferInv

\* A READY command center has a complete recent window with a client request.
THEOREM ReadyIsObserved == Spec => []ReadyMeansObserved
<1>1. BufferInv => ReadyMeansObserved
  <2> SUFFICES ASSUME BufferInv, NEW now \in Int, TelemetryStatus(now) = "READY"
               PROVE  /\ \A i \in accepted :
                           watermark - Main < At[i] /\ At[i] <= watermark => held[i] = 1
                      /\ \E i \in accepted \cap Events : At[i] <= watermark - Main
                      /\ \E i \in accepted \cap Requests :
                           watermark - Main < At[i] /\ At[i] <= watermark
                      /\ now - watermark <= MaxStale
    BY TimeAssumption DEF ReadyMeansObserved, BufferInv, BufferTypeOK
  <2> USE TimeAssumption DEF BufferInv, BufferTypeOK
  <2>0. \A i \in Items : /\ At[i] \in Nat /\ held[i] \in Nat
                         /\ held[i] > 0 => i \in accepted
    BY DEF BufferIsExact
  <2>1. watermark # None /\ ~(now - watermark > MaxStale) /\ Ready(Main)
        /\ RequestsIn(watermark - Main, watermark)
    BY DEF TelemetryStatus
  <2>2. now - watermark <= MaxStale
    BY <2>1
  <2>3. ASSUME NEW i \in accepted, watermark - Main < At[i] PROVE held[i] = 1
    BY <2>0, <2>3 DEF BufferIsExact
  <2>4. \E i \in accepted \cap Events : At[i] <= watermark - Main
    <3>1. oldest # None /\ oldest - (watermark - Main) <= 0
      BY <2>1 DEF Ready, Covers
    <3>2. PICK i \in Events : held[i] > 0 /\ At[i] = oldest
      BY <3>1
    <3>3. QED
      BY <2>0, <3>1, <3>2 DEF Items
  <2>5. \E i \in accepted \cap Requests : watermark - Main < At[i] /\ At[i] <= watermark
    BY <2>0, <2>1 DEF RequestsIn, Window, HeldIn, Items
  <2>6. QED
    BY <2>2, <2>3, <2>4, <2>5
<1>2. QED
  BY <1>1, BufferInvariant, PTL

-----------------------------------------------------------------------------
(* Bounded queues                                                          *)

\* r is q with x behind it, shifted by one place if the oldest had to go.
IsAppended(r, q, x, size) ==
    /\ Len(r) = IF Len(q) < size THEN Len(q) + 1 ELSE size
    /\ r[Len(r)] = x
    /\ \A i \in 1..Len(r) - 1 : r[i] = q[IF Len(q) < size THEN i ELSE i + 1]

\* A bounded append does that.
LEMMA AppendBoundedIs ==
  ASSUME NEW S, NEW q \in Seq(S), NEW x \in S, NEW size \in Nat \ {0}, Len(q) <= size
  PROVE  /\ AppendBounded(q, x, size) \in Seq(S)
         /\ IsAppended(AppendBounded(q, x, size), q, x, size)
<1> USE DEF IsAppended
<1> DEFINE long == Append(q, x)
           r == AppendBounded(q, x, size)
<1>1. /\ long \in Seq(S) /\ Len(long) = Len(q) + 1 /\ long[Len(q) + 1] = x
      /\ \A i \in 1..Len(q) : long[i] = q[i]
  OBVIOUS
<1>2. CASE Len(q) < size
  BY <1>1, <1>2 DEF AppendBounded
<1>3. CASE ~(Len(q) < size)
  <2>1. r = Tail(long) /\ Len(q) = size
    BY <1>1, <1>3 DEF AppendBounded
  <2>2. /\ Tail(long) \in Seq(S) /\ Len(Tail(long)) = size
        /\ \A i \in 1..size : Tail(long)[i] = long[i + 1]
    BY <1>1, <2>1
  <2>3. QED
    BY <1>1, <1>3, <2>1, <2>2
<1>4. QED
  BY <1>2, <1>3

\* m is the newest message of the queue q.
IsLast(m, q) == q # <<>> /\ q[Len(q)] = m

\* A message that is put into a queue is its last one.
LEMMA PutIs ==
  ASSUME NEW S, NEW q \in Seq(S), NEW m \in S
  PROVE  Put(q, m) \in Seq(S) /\ IsLast(m, Put(q, m))
<1> USE DEF IsLast
<1>1. ASSUME NEW r \in Seq(S)
      PROVE  Append(r, m) \in Seq(S) /\ Append(r, m) # <<>> /\ Append(r, m)[Len(Append(r, m))] = m
  OBVIOUS
<1>2. CASE Len(q) >= QueueSize
  <2>1. q # <<>>
    BY <1>2, StreamAssumption
  <2>2. Tail(q) \in Seq(S)
    BY <2>1
  <2>3. QED
    BY <1>1, <1>2, <2>2 DEF Put
<1>3. CASE ~(Len(q) >= QueueSize)
  BY <1>1, <1>3 DEF Put
<1>4. QED
  BY <1>2, <1>3

-----------------------------------------------------------------------------
(* The incident                                                            *)

\* The types of the variables of LiveIncident.
ManagerTypeOK ==
    /\ active \in Incident /\ history \in Seq(Incident) /\ Len(history) <= MaxHistory
    /\ Len(active.flags) <= Persistence
    /\ counter \in Nat /\ lastBucket \in Nat \cup {NoBucket} /\ lastEvaluated \in Nat

\* The long window's answer changes neither the identity of an incident nor
\* what was counted.
LEMMA WithMainIs ==
  ASSUME NEW i \in Incident, NEW main
  PROVE  /\ WithMain(i, main) \in Incident /\ WithMain(i, main).id = i.id
         /\ WithMain(i, main).flags = i.flags /\ WithMain(i, main).normals = i.normals
BY DEF WithMain, Incident

\* Nor does the localization.
LEMMA LocateIs ==
  ASSUME NEW i \in Incident
  PROVE  /\ Locate(i) \in Incident /\ Locate(i).id = i.id
         /\ Locate(i).flags = i.flags /\ Locate(i).normals = i.normals
BY DEF Locate, Incident

\* A new incident has the next number and counts nothing yet.
LEMMA OpenedIs ==
  ASSUME counter \in Nat, NEW signal \in Int
  PROVE  /\ Opened(signal) \in Incident /\ Opened(signal).id = counter + 1
         /\ Opened(signal).flags = <<>> /\ Opened(signal).normals = 0
<1> DEFINE based == Covers(signal - Baseline, signal, Tolerance)
<1>1. based \in BOOLEAN
  BY DEF Covers
<1>2. Opened(signal) = [NoIncident EXCEPT !.id = counter + 1, !.signal = signal, !.based = based]
  BY DEF Opened
<1>3. NoIncident \in Incident /\ NoIncident.flags = <<>> /\ NoIncident.normals = 0
  <2>1. <<>> \in Seq(BOOLEAN)
    OBVIOUS
  <2>2. QED
    BY <2>1 DEF NoIncident, Incident
<1>4. counter + 1 \in Nat
  OBVIOUS
<1> HIDE DEF based
<1>5. PICK n \in Nat, b \in BOOLEAN :
        n = counter + 1 /\ Opened(signal) = [NoIncident EXCEPT !.id = n, !.signal = signal, !.based = b]
  BY <1>1, <1>2, <1>4, Zenon
<1>6. ASSUME NEW i \in Incident, Opened(signal) = [i EXCEPT !.id = n, !.signal = signal, !.based = b]
      PROVE  /\ Opened(signal) \in Incident /\ Opened(signal).id = n
             /\ Opened(signal).flags = i.flags /\ Opened(signal).normals = i.normals
  BY <1>6 DEF Incident
<1>7. QED
  BY <1>3, <1>5, <1>6

\* The incident that a bucket is added to.
LEMMA SubjectIs ==
  ASSUME ManagerTypeOK, watermark \in Nat, NEW temporal, NEW main
  PROVE  /\ Subject(temporal, main) \in Incident
         /\ Len(Subject(temporal, main).flags) <= Persistence
         /\ active # NoIncident => Subject(temporal, main) = active
         /\ active = NoIncident => /\ Subject(temporal, main).id = counter + 1
                                   /\ Subject(temporal, main).normals = 0
<1> DEFINE signal == watermark - (IF temporal = "ABNORMAL" THEN Temporal ELSE Main)
<1>1. signal \in Int
  BY TimeAssumption
<1>2. /\ Opened(signal) \in Incident /\ Opened(signal).id = counter + 1
      /\ Opened(signal).flags = <<>> /\ Opened(signal).normals = 0
  BY <1>1, OpenedIs DEF ManagerTypeOK
<1>3. Persistence \in Nat /\ Len(<<>>) = 0
  BY ManagerAssumption
<1>4. CASE active = NoIncident
  <2>1. Subject(temporal, main) = Opened(signal)
    BY <1>4 DEF Subject
  <2>2. QED
    BY <1>2, <1>3, <1>4, <2>1
<1>5. CASE active # NoIncident
  BY <1>5 DEF Subject, ManagerTypeOK
<1>6. QED
  BY <1>4, <1>5

\* The incident with a bucket added: the same number, one more normal bucket
\* or none.
LEMMA ExtendedIs ==
  ASSUME ManagerTypeOK, watermark \in Nat, NEW temporal \in Verdicts, NEW main
  PROVE  /\ Extended(temporal, main) \in Incident
         /\ Len(Extended(temporal, main).flags) <= Persistence
         /\ Extended(temporal, main).id = Subject(temporal, main).id
         /\ Extended(temporal, main).normals
              = IF Healthy(temporal, main) THEN Subject(temporal, main).normals + 1 ELSE 0
<1> DEFINE subject == Subject(temporal, main)
           flags == AppendBounded(subject.flags, temporal = "ABNORMAL", Persistence)
           flagged == [subject EXCEPT !.flags = flags]
           incident == Locate(WithMain(flagged, main))
<1>0. subject \in Incident /\ Len(subject.flags) <= Persistence
  BY SubjectIs
<1>1. flags \in Seq(BOOLEAN) /\ Len(flags) <= Persistence
  <2> DEFINE abnormal == temporal = "ABNORMAL"
             old == subject.flags
  <2>1. old \in Seq(BOOLEAN) /\ Len(old) <= Persistence /\ abnormal \in BOOLEAN
    BY <1>0 DEF Incident
  <2>2. Persistence \in Nat \ {0}
    BY ManagerAssumption
  <2>3. flags = AppendBounded(old, abnormal, Persistence)
    OBVIOUS
  <2> HIDE DEF old, abnormal, flags
  <2>4. /\ flags \in Seq(BOOLEAN)
        /\ Len(flags) = IF Len(old) < Persistence THEN Len(old) + 1 ELSE Persistence
    BY <2>1, <2>2, <2>3, AppendBoundedIs DEF IsAppended
  <2>5. QED
    BY <2>1, <2>2, <2>4
<1>2. /\ flagged \in Incident /\ flagged.id = subject.id
      /\ flagged.flags = flags /\ flagged.normals = subject.normals
  <2> HIDE DEF subject, flags
  <2>1. QED
    BY <1>0, <1>1 DEF Incident
<1>3. /\ incident \in Incident /\ incident.id = subject.id
      /\ incident.flags = flags /\ incident.normals = subject.normals
  <2> HIDE DEF flagged, subject, flags
  <2>1. QED
    BY <1>2, WithMainIs, LocateIs
<1>4. Extended(temporal, main) = [incident EXCEPT !.normals = Normals(incident, temporal, main)]
  BY DEF Extended
<1>5. Normals(incident, temporal, main)
        = IF Healthy(temporal, main) THEN subject.normals + 1 ELSE 0
  <2> HIDE DEF incident, subject
  <2>1. QED
    BY <1>3 DEF Normals
<1>6. subject.normals \in Nat
  <2> HIDE DEF subject
  <2>1. QED
    BY <1>0 DEF Incident
<1>7. QED
  <2> DEFINE n == IF Healthy(temporal, main) THEN subject.normals + 1 ELSE 0
  <2>1. n \in Nat
    BY <1>6
  <2>2. Extended(temporal, main) = [incident EXCEPT !.normals = n]
    BY <1>4, <1>5
  <2>3. subject.id = Subject(temporal, main).id /\ n = IF Healthy(temporal, main) THEN Subject(temporal, main).normals + 1 ELSE 0
    OBVIOUS
  <2> HIDE DEF incident, subject, flags, n
  <2>4. /\ Extended(temporal, main) \in Incident /\ Extended(temporal, main).id = incident.id
        /\ Extended(temporal, main).flags = incident.flags /\ Extended(temporal, main).normals = n
    BY <1>3, <2>1, <2>2 DEF Incident
  <2>5. QED
    BY <1>1, <1>3, <2>3, <2>4

-----------------------------------------------------------------------------
(* ResolvedIsConfirmed                                                     *)

\* What is remembered of an evaluation.
Judgement == [bucket : Nat, main : Verdicts \cup {"NOT_READY"}, healthy : BOOLEAN, id : Nat]

\* The normal windows that an incident counts, up to Confirmation of them,
\* are the last judgements, and they were judgements of this incident.
Confirms(incident, judgements) ==
    \A d \in 0..Confirmation - 1 :
      d < incident.normals =>
        /\ d < Len(judgements)
        /\ judgements[Len(judgements) - d].healthy
        /\ judgements[Len(judgements) - d].id = incident.id

\* The judgements are of increasing buckets, of which none is ahead of the
\* watermark, and the active incident is the last one numbered.
JudgedInv ==
    /\ judged \in Seq(Judgement) /\ Len(judged) <= Confirmation
    /\ \A i \in 2..Len(judged) : judged[i].bucket > judged[i - 1].bucket
    /\ Len(judged) > 0 => judged[Len(judged)].bucket <= lastBucket
    /\ lastBucket <= Bucket(watermark)
    /\ active # NoIncident =>
         active.id = counter /\ active.id > 0 /\ Confirms(active, judged)

\* The invariant of the buffer and the manager.
IntelligenceInv == BufferInv /\ ManagerTypeOK /\ JudgedInv

\* A later time is in the same bucket or a later one.
LEMMA BucketGrows ==
  ASSUME NEW s \in Nat, NEW t \in Nat, s <= t
  PROVE  Bucket(s) \in Nat /\ Bucket(t) \in Nat /\ Bucket(s) <= Bucket(t)
BY ManagerAssumption DEF Bucket

\* What judging one more bucket does to the judgements.
LEMMA JudgedGrows ==
  ASSUME JudgedInv, NEW x \in Judgement, judged' = AppendBounded(judged, x, Confirmation),
         x.bucket > lastBucket, lastBucket \in Nat \cup {NoBucket}
  PROVE  /\ judged' \in Seq(Judgement)
         /\ Len(judged') = IF Len(judged) < Confirmation THEN Len(judged) + 1 ELSE Confirmation
         /\ judged'[Len(judged')] = x
         /\ \A i \in 1..Len(judged') - 1 :
              judged'[i] = judged[IF Len(judged) < Confirmation THEN i ELSE i + 1]
         /\ \A i \in 2..Len(judged') : judged'[i].bucket > judged'[i - 1].bucket
<1>0. Confirmation \in Nat \ {0} /\ judged \in Seq(Judgement) /\ Len(judged) \in Nat
      /\ Len(judged) <= Confirmation
  BY ManagerAssumption DEF JudgedInv
<1>q. PICK q \in Seq(Judgement) : q = judged
  BY <1>0
<1>1. PICK r : /\ q = judged /\ Len(q) <= Confirmation
               /\ r = judged' /\ r = AppendBounded(q, x, Confirmation)
  BY <1>0, <1>q
<1>2. /\ r \in Seq(Judgement)
      /\ Len(r) = IF Len(q) < Confirmation THEN Len(q) + 1 ELSE Confirmation
      /\ r[Len(r)] = x
      /\ \A i \in 1..Len(r) - 1 : r[i] = q[IF Len(q) < Confirmation THEN i ELSE i + 1]
  <2>1. Confirmation \in Nat \ {0} /\ r = AppendBounded(q, x, Confirmation) /\ Len(q) <= Confirmation
    BY <1>0, <1>1
  <2>2. r \in Seq(Judgement) /\ IsAppended(r, q, x, Confirmation)
    BY <2>1, AppendBoundedIs
  <2>3. QED
    BY <2>2 DEF IsAppended
<1>3. /\ \A i \in 2..Len(q) : q[i].bucket > q[i - 1].bucket
      /\ Len(q) > 0 => x.bucket > q[Len(q)].bucket
  <2>1. Len(q) > 0 => q[Len(q)] \in Judgement /\ q[Len(q)].bucket <= lastBucket
    BY <1>1 DEF JudgedInv
  <2>2. x.bucket \in Nat
    BY DEF Judgement
  <2>3. QED
    BY <1>1, <2>1, <2>2 DEF JudgedInv, NoBucket, Judgement
<1>4. ASSUME NEW i \in 2..Len(r) PROVE r[i].bucket > r[i - 1].bucket
  <2>0. Len(q) \in Nat /\ Len(q) <= Confirmation /\ i \in Nat /\ i - 1 \in 1..Len(r) - 1
    BY <1>0, <1>1, <1>2
  <2>1. CASE Len(q) < Confirmation
    <3>1. Len(r) = Len(q) + 1 /\ r[i - 1] = q[i - 1]
      BY <1>2, <2>0, <2>1
    <3>2. CASE i = Len(r)
      BY <1>2, <1>3, <2>0, <3>1, <3>2
    <3>3. CASE i # Len(r)
      BY <1>2, <1>3, <2>0, <2>1, <3>1, <3>3
    <3>4. QED
      BY <3>2, <3>3
  <2>2. CASE ~(Len(q) < Confirmation)
    <3>1. Len(r) = Len(q) /\ r[i - 1] = q[i]
      BY <1>0, <1>2, <2>0, <2>2
    <3>2. CASE i = Len(r)
      BY <1>2, <1>3, <2>0, <3>1, <3>2
    <3>3. CASE i # Len(r)
      <4>1. r[i] = q[i + 1] /\ i + 1 \in 2..Len(q) /\ (i + 1) - 1 = i
        BY <1>2, <2>0, <2>2, <3>1, <3>3
      <4>2. QED
        BY <1>3, <3>1, <4>1
    <3>4. QED
      BY <3>2, <3>3
  <2>3. QED
    BY <2>1, <2>2
<1>5. QED
  BY <1>1, <1>2, <1>4

\* A bucket that is added to an incident extends its run of healthy
\* judgements, or ends it.
LEMMA TrackConfirms ==
  ASSUME IntelligenceInv, NEW temporal \in Verdicts,
         NEW x \in Judgement, judged' = AppendBounded(judged, x, Confirmation),
         NEW main, Track(temporal, main),
         x.bucket > lastBucket, x.healthy <=> Healthy(temporal, main), x.id = counter'
  PROVE  /\ Extended(temporal, main) \in Incident
         /\ Len(Extended(temporal, main).flags) <= Persistence
         /\ Extended(temporal, main).id = counter' /\ counter' > 0 /\ counter' \in Nat
         /\ Confirms(Extended(temporal, main), judged')
<1> DEFINE incident == Extended(temporal, main)
           subject == Subject(temporal, main)
<1> USE DEF IntelligenceInv
<1>0. watermark \in Nat /\ counter \in Nat /\ Confirmation \in Nat \ {0}
      /\ lastBucket \in Nat \cup {NoBucket} /\ judged \in Seq(Judgement) /\ Len(judged) \in Nat
  BY ManagerAssumption DEF BufferInv, BufferTypeOK, ManagerTypeOK, JudgedInv
<1>1. /\ incident \in Incident /\ Len(incident.flags) <= Persistence
      /\ incident.id = subject.id
      /\ incident.normals = IF Healthy(temporal, main) THEN subject.normals + 1 ELSE 0
  BY <1>0, ExtendedIs
<1>2. /\ subject \in Incident
      /\ active # NoIncident => subject = active
      /\ active = NoIncident => subject.id = counter + 1 /\ subject.normals = 0
  BY <1>0, SubjectIs
<1>3. counter' = IF active = NoIncident THEN counter + 1 ELSE counter
  BY DEF Track
<1>4. active = NoIncident => ~Healthy(temporal, main)
  BY DEF Track
<1>5. active # NoIncident => active.id = counter /\ active.id > 0 /\ Confirms(active, judged)
  BY DEF JudgedInv
<1>6. subject.id = counter' /\ counter' > 0 /\ counter' \in Nat
  BY <1>0, <1>2, <1>3, <1>5
<1>7. ASSUME NEW d \in 0..Confirmation - 1, d < incident.normals
      PROVE  /\ d < Len(judged')
             /\ judged'[Len(judged') - d].healthy
             /\ judged'[Len(judged') - d].id = incident.id
  <2>0. Healthy(temporal, main) /\ incident.normals = active.normals + 1
        /\ active # NoIncident /\ subject = active
    BY <1>1, <1>2, <1>4, <1>7
  <2>1. active.normals \in Nat /\ active.id = counter' /\ Confirms(active, judged)
    BY <1>2, <1>5, <1>6, <2>0 DEF Incident
  <2>2. /\ Len(judged') = IF Len(judged) < Confirmation THEN Len(judged) + 1 ELSE Confirmation
        /\ judged'[Len(judged')] = x
        /\ \A i \in 1..Len(judged') - 1 :
             judged'[i] = judged[IF Len(judged) < Confirmation THEN i ELSE i + 1]
    BY <1>0, JudgedGrows
  <2>3. CASE d = 0
    <3>1. judged'[Len(judged') - d] = x /\ d < Len(judged')
      BY <1>0, <2>2, <2>3
    <3>2. QED
      BY <1>1, <1>6, <2>0, <3>1
  <2>4. CASE d # 0
    <3>1. d - 1 \in 0..Confirmation - 1 /\ d - 1 < active.normals
      BY <1>0, <1>7, <2>0, <2>1, <2>4
    <3>2. /\ d - 1 < Len(judged)
          /\ judged[Len(judged) - (d - 1)].healthy
          /\ judged[Len(judged) - (d - 1)].id = active.id
      BY <2>1, <3>1 DEF Confirms
    <3>3. /\ d < Len(judged') /\ Len(judged') - d \in 1..Len(judged') - 1
          /\ Len(judged) - (d - 1) = IF Len(judged) < Confirmation THEN Len(judged') - d
                                                                 ELSE (Len(judged') - d) + 1
      BY <1>0, <2>2, <2>4, <3>1, <3>2 DEF JudgedInv
    <3>4. judged'[Len(judged') - d] = judged[Len(judged) - (d - 1)]
      BY <2>2, <3>3
    <3>5. QED
      BY <1>1, <2>0, <3>2, <3>3, <3>4
  <2>5. QED
    BY <2>3, <2>4
<1>8. Confirms(incident, judged')
  <2> HIDE DEF incident
  <2>1. QED
    BY <1>7 DEF Confirms
<1>9. QED
  BY <1>1, <1>6, <1>8
\* A refresh of the active incident changes nothing that is counted.
LEMMA RefreshStep ==
  ASSUME IntelligenceInv, NEW main, Refresh(main), UNCHANGED <<bufferVars, judged>>
  PROVE  ManagerTypeOK' /\ JudgedInv' /\ (active # NoIncident => active' # NoIncident)
<1> USE DEF IntelligenceInv, ManagerTypeOK, bufferVars
<1>1. /\ active' \in Incident /\ active'.id = active.id /\ active'.flags = active.flags
      /\ active'.normals = active.normals
      /\ active = NoIncident => active' = NoIncident
  <2>1. active' = active \/ active' = Locate(WithMain(active, main))
    BY DEF Refresh
  <2>2. active = NoIncident => active' = NoIncident
    BY DEF Refresh
  <2>3. QED
    BY <2>1, <2>2, WithMainIs, LocateIs
<1>2. UNCHANGED <<history, counter, lastBucket, watermark, judged>> /\ lastEvaluated' \in Nat
  BY DEF Refresh, BufferInv, BufferTypeOK
<1>3. ManagerTypeOK'
  BY <1>1, <1>2
<1>4. JudgedInv'
  BY <1>1, <1>2 DEF JudgedInv, Confirms, Bucket
<1>5. active # NoIncident => active' # NoIncident
  BY <1>1 DEF JudgedInv, NoIncident
<1>6. QED
  BY <1>3, <1>4, <1>5

\* An evaluation that raises leaves at most the bucket and the number behind.
LEMMA FailStep ==
  ASSUME IntelligenceInv, NEW temporal, NEW main, EvaluationRaises(temporal, main),
         UNCHANGED <<bufferVars, judged>>
  PROVE  ManagerTypeOK' /\ JudgedInv' /\ active' = active
<1> USE DEF IntelligenceInv, ManagerTypeOK, bufferVars
<1>1. /\ UNCHANGED <<active, history, watermark, judged>> /\ lastBucket' = Bucket(watermark)
      /\ lastEvaluated' = watermark /\ watermark \in Nat
      /\ counter' = counter \/ (active = NoIncident /\ counter' = counter + 1)
  BY DEF EvaluationRaises, BufferInv, BufferTypeOK
<1>2. Bucket(watermark) \in Nat
  BY <1>1, BucketGrows
<1>3. ManagerTypeOK'
  BY <1>1, <1>2
<1>4. JudgedInv'
  <2>1. Len(judged) > 0 => judged[Len(judged)].bucket \in Nat
    <3>1. Len(judged) > 0 => judged[Len(judged)] \in Judgement
      BY DEF JudgedInv
    <3>2. QED
      BY <3>1 DEF Judgement
  <2>2. Bucket(watermark)' = Bucket(watermark)
    BY <1>1 DEF Bucket
  <2>3. QED
    BY <1>1, <1>2, <2>1, <2>2 DEF JudgedInv, NoBucket
<1>5. QED
  BY <1>1, <1>3, <1>4

\* What is judged of a new bucket.
LEMMA JudgementIs ==
  ASSUME IntelligenceInv, NEW temporal \in Verdicts, NEW main, main \in MainAnswers \ {"RAISED"},
         counter' \in Nat, NewBucket, NEW x,
         x = [bucket |-> Bucket(watermark), main |-> main,
              healthy |-> Healthy(temporal, main), id |-> counter']
  PROVE  /\ x \in Judgement /\ x.bucket = Bucket(watermark) /\ x.bucket > lastBucket
         /\ x.healthy <=> Healthy(temporal, main)
         /\ x.id = counter'
<1>1. Bucket(watermark) \in Nat /\ lastBucket \in Nat \cup {NoBucket} /\ lastBucket <= Bucket(watermark)
  BY BucketGrows DEF IntelligenceInv, BufferInv, BufferTypeOK, ManagerTypeOK, JudgedInv
<1>2. main \in Verdicts \cup {"NOT_READY"}
  BY DEF MainAnswers
<1>3. Healthy(temporal, main) \in BOOLEAN
  BY DEF Healthy
<1>4. Bucket(watermark) > lastBucket
  BY <1>1 DEF NewBucket, NoBucket
<1>5. PICK b \in BOOLEAN : b = Healthy(temporal, main)
  BY <1>3
<1>6. x = [bucket |-> Bucket(watermark), main |-> main, healthy |-> b, id |-> counter']
  BY <1>5
<1>7. /\ x \in Judgement /\ x.bucket = Bucket(watermark) /\ x.healthy = b /\ x.id = counter'
  BY <1>1, <1>2, <1>6 DEF Judgement
<1>8. QED
  BY <1>4, <1>5, <1>7

\* The new judgement keeps what is known of all of them.
LEMMA JudgeKeeps ==
  ASSUME IntelligenceInv, NEW x \in Judgement, judged' = AppendBounded(judged, x, Confirmation),
         x.bucket = Bucket(watermark), x.bucket > lastBucket, lastBucket' = Bucket(watermark),
         UNCHANGED watermark
  PROVE  /\ judged' \in Seq(Judgement) /\ Len(judged') <= Confirmation
         /\ \A i \in 2..Len(judged') : judged'[i].bucket > judged'[i - 1].bucket
         /\ Len(judged') > 0 => judged'[Len(judged')].bucket <= lastBucket'
         /\ lastBucket' <= Bucket(watermark)'
<1>1. Confirmation \in Nat /\ Len(judged) \in Nat /\ Bucket(watermark) \in Nat
      /\ lastBucket \in Nat \cup {NoBucket} /\ JudgedInv
  BY ManagerAssumption, BucketGrows
     DEF IntelligenceInv, BufferInv, BufferTypeOK, ManagerTypeOK, JudgedInv
<1>2. Bucket(watermark)' = Bucket(watermark)
  BY DEF Bucket
<1>3. QED
  BY <1>1, <1>2, JudgedGrows

\* A bucket that finds nothing abnormal and no incident.
LEMMA NormalStep ==
  ASSUME IntelligenceInv, NEW temporal \in Verdicts, NEW main, StaysNormal(temporal, main),
         JudgeBucket(temporal, main)
  PROVE  ManagerTypeOK' /\ JudgedInv' /\ active = NoIncident
<1> DEFINE x == [bucket |-> Bucket(watermark), main |-> main,
                 healthy |-> Healthy(temporal, main), id |-> counter']
<1> USE DEF IntelligenceInv
<1>1. /\ NewBucket /\ main \in MainAnswers \ {"RAISED"} /\ active = NoIncident
      /\ UNCHANGED <<active, history, counter>> /\ lastBucket' = Bucket(watermark)
      /\ lastEvaluated' = watermark
  BY DEF StaysNormal
<1>2. judged' = AppendBounded(judged, x, Confirmation) /\ UNCHANGED watermark
  BY DEF JudgeBucket, bufferVars
<1>3. watermark \in Nat /\ Bucket(watermark) \in Nat /\ counter' \in Nat
  BY <1>1, BucketGrows DEF BufferInv, BufferTypeOK, ManagerTypeOK
<1> HIDE DEF x
<1>4. x \in Judgement /\ x.bucket = Bucket(watermark) /\ x.bucket > lastBucket
  BY <1>1, <1>3, JudgementIs DEF x
<1>5. ManagerTypeOK'
  BY <1>1, <1>3 DEF ManagerTypeOK
<1>6. JudgedInv'
  BY <1>1, <1>2, <1>4, JudgeKeeps DEF JudgedInv
<1>7. QED
  BY <1>1, <1>5, <1>6

\* A bucket that opens, extends or resolves the incident: it is resolved only
\* with Confirmation healthy judgements behind it.
LEMMA TrackStep ==
  ASSUME IntelligenceInv, NEW temporal \in Verdicts, NEW main, Track(temporal, main),
         JudgeBucket(temporal, main)
  PROVE  /\ ManagerTypeOK' /\ JudgedInv'
         /\ active # NoIncident /\ active' = NoIncident =>
              /\ Len(judged') = Confirmation
              /\ \A i \in 1..Confirmation :
                   /\ judged'[i].healthy /\ judged'[i].id = active.id
                   /\ i > 1 => judged'[i].bucket > judged'[i - 1].bucket
<1> DEFINE x == [bucket |-> Bucket(watermark), main |-> main,
                 healthy |-> Healthy(temporal, main), id |-> counter']
           incident == Extended(temporal, main)
<1> USE DEF IntelligenceInv
<1>1. /\ NewBucket /\ main \in MainAnswers \ {"RAISED"}
      /\ counter' = IF active = NoIncident THEN counter + 1 ELSE counter
      /\ lastBucket' = Bucket(watermark) /\ lastEvaluated' = watermark
  BY DEF Track
<1>2. judged' = AppendBounded(judged, x, Confirmation) /\ UNCHANGED watermark
  BY DEF JudgeBucket, bufferVars
<1>3. watermark \in Nat /\ Bucket(watermark) \in Nat /\ counter' \in Nat
  BY <1>1, BucketGrows DEF BufferInv, BufferTypeOK, ManagerTypeOK
<1>4. \/ /\ Recovered(incident) /\ active' = NoIncident
         /\ history' = AppendBounded(history, incident, MaxHistory)
      \/ ~Recovered(incident) /\ active' = incident /\ history' = history
  BY DEF Track
<1> HIDE DEF x, incident
<1>5. /\ x \in Judgement /\ x.bucket = Bucket(watermark) /\ x.bucket > lastBucket
      /\ x.healthy <=> Healthy(temporal, main)
      /\ x.id = counter'
  BY <1>1, <1>3, JudgementIs DEF x
<1>6. /\ incident \in Incident /\ Len(incident.flags) <= Persistence
      /\ incident.id = counter' /\ counter' > 0
      /\ Confirms(incident, judged')
  BY <1>2, <1>5, TrackConfirms DEF incident
<1>7. /\ judged' \in Seq(Judgement) /\ Len(judged') <= Confirmation
      /\ \A i \in 2..Len(judged') : judged'[i].bucket > judged'[i - 1].bucket
      /\ Len(judged') > 0 => judged'[Len(judged')].bucket <= lastBucket'
      /\ lastBucket' <= Bucket(watermark)'
  BY <1>1, <1>2, <1>5, JudgeKeeps
<1>8. ManagerTypeOK'
  <2>1. history' \in Seq(Incident) /\ Len(history') <= MaxHistory
    <3>1. MaxHistory \in Nat \ {0} /\ history \in Seq(Incident) /\ Len(history) <= MaxHistory
      BY ManagerAssumption DEF ManagerTypeOK
    <3>2. AppendBounded(history, incident, MaxHistory) \in Seq(Incident)
          /\ IsAppended(AppendBounded(history, incident, MaxHistory), history, incident, MaxHistory)
      BY <1>6, <3>1, AppendBoundedIs
    <3>3. Len(AppendBounded(history, incident, MaxHistory)) <= MaxHistory
      BY <3>1, <3>2 DEF IsAppended
    <3>4. QED
      BY <1>4, <3>1, <3>2, <3>3
  <2>2. active' \in Incident /\ Len(active'.flags) <= Persistence
    <3>1. NoIncident \in Incident /\ NoIncident.flags = <<>> /\ Len(<<>>) = 0
      <4>1. <<>> \in Seq(BOOLEAN) /\ Len(<<>>) = 0
        OBVIOUS
      <4>2. QED
        BY <4>1 DEF NoIncident, Incident
    <3>2. QED
      BY <1>4, <1>6, <3>1, ManagerAssumption
  <2>3. QED
    BY <1>1, <1>3, <2>1, <2>2 DEF ManagerTypeOK
<1>9. JudgedInv'
  BY <1>4, <1>6, <1>7 DEF JudgedInv
<1>10. ASSUME active # NoIncident, active' = NoIncident
       PROVE  /\ Len(judged') = Confirmation
              /\ \A i \in 1..Confirmation :
                   /\ judged'[i].healthy /\ judged'[i].id = active.id
                   /\ i > 1 => judged'[i].bucket > judged'[i - 1].bucket
  <2>1. incident # NoIncident
    BY <1>3, <1>6 DEF NoIncident
  <2>2. incident.normals >= Confirmation /\ incident.normals \in Nat /\ Confirmation \in Nat \ {0}
    BY <1>4, <1>6, <1>10, <2>1, ManagerAssumption DEF Recovered, Incident
  <2>3. incident.id = active.id
    BY <1>1, <1>6, <1>10 DEF JudgedInv
  <2>4. \A d \in 0..Confirmation - 1 : /\ d < Len(judged')
                                       /\ judged'[Len(judged') - d].healthy
                                       /\ judged'[Len(judged') - d].id = active.id
    BY <1>6, <2>2, <2>3 DEF Confirms
  <2>5. Len(judged') = Confirmation
    <3>1. Confirmation - 1 \in 0..Confirmation - 1 /\ Len(judged') \in Nat
      BY <1>7, <2>2
    <3>2. Confirmation - 1 < Len(judged')
      BY <2>4, <3>1
    <3>3. QED
      BY <1>7, <2>2, <3>1, <3>2
  <2>6. ASSUME NEW i \in 1..Confirmation PROVE judged'[i].healthy /\ judged'[i].id = active.id
    <3>1. Confirmation - i \in 0..Confirmation - 1 /\ Confirmation - (Confirmation - i) = i
      BY <2>2
    <3>2. QED
      BY <2>4, <2>5, <3>1
  <2>7. QED
    BY <1>7, <2>2, <2>5, <2>6
<1>11. QED
  BY <1>8, <1>9, <1>10
\* The action of ResolvedIsConfirmed.
Resolution ==
    active # NoIncident /\ active' = NoIncident =>
      /\ Len(judged') = Confirmation
      /\ \A i \in 1..Confirmation :
           /\ judged'[i].healthy /\ judged'[i].id = active.id
           /\ i > 1 => judged'[i].bucket > judged'[i - 1].bucket

\* Every step keeps the invariant, and a resolution is confirmed.
LEMMA NextIntelligence ==
  IntelligenceInv /\ [Next]_vars => IntelligenceInv' /\ [Resolution]_vars
<1> SUFFICES ASSUME IntelligenceInv, [Next]_vars
             PROVE  ManagerTypeOK' /\ JudgedInv' /\ [Resolution]_vars
  BY NextBuffer DEF IntelligenceInv
<1>1. CASE UNCHANGED <<managerVars, judged>> /\ BufferInv' /\ watermark' >= watermark
  <2>1. Bucket(watermark) <= Bucket(watermark)' /\ Bucket(watermark) \in Nat /\ Bucket(watermark)' \in Nat
    BY <1>1, BucketGrows DEF IntelligenceInv, BufferInv, BufferTypeOK, Bucket
  <2>2. lastBucket \in Nat \cup {NoBucket}
    BY DEF IntelligenceInv, ManagerTypeOK
  <2>3. ManagerTypeOK'
    BY <1>1 DEF IntelligenceInv, ManagerTypeOK, managerVars
  <2>4. JudgedInv'
    BY <1>1, <2>1, <2>2 DEF IntelligenceInv, JudgedInv, managerVars, NoBucket, Confirms
  <2>5. QED
    BY <1>1, <2>3, <2>4 DEF Resolution, managerVars
<1>2. CASE UNCHANGED vars
  BY <1>1, <1>2, NextBuffer DEF vars, IntelligenceInv
<1>3. CASE PostTelemetry
  BY <1>1, <1>3, NextBuffer DEF PostTelemetry, IntelligenceInv
<1>4. ASSUME NEW main, RefreshIncident(main)
      PROVE  ManagerTypeOK' /\ JudgedInv' /\ [Resolution]_vars
  BY <1>4, RefreshStep DEF RefreshIncident, Resolution
<1>5. ASSUME NEW temporal, NEW main, FailEvaluation(temporal, main)
      PROVE  ManagerTypeOK' /\ JudgedInv' /\ [Resolution]_vars
  BY <1>5, FailStep DEF FailEvaluation, Resolution
<1>6. ASSUME NEW temporal \in Verdicts, NEW main, JudgeBucket(temporal, main)
      PROVE  ManagerTypeOK' /\ JudgedInv' /\ [Resolution]_vars
  <2>1. CASE StaysNormal(temporal, main)
    BY <1>6, <2>1, NormalStep DEF Resolution
  <2>2. CASE Track(temporal, main)
    BY <1>6, <2>2, TrackStep DEF Resolution
  <2>3. QED
    BY <1>6, <2>1, <2>2 DEF JudgeBucket
<1>7. ASSUME NEW s \in Subscribers, OpenStream(s) \/ ReadStream(s)
      PROVE  ManagerTypeOK' /\ JudgedInv' /\ [Resolution]_vars
  BY <1>1, <1>7, NextBuffer DEF OpenStream, ReadStream, IntelligenceInv
<1>8. QED
  BY <1>2, <1>3, <1>4, <1>5, <1>6, <1>7 DEF Next, EvaluateIncident

\* Nothing is active or judged at first.
LEMMA InitIntelligence == Init => IntelligenceInv
<1> SUFFICES ASSUME Init PROVE ManagerTypeOK /\ JudgedInv
  BY InitBuffer DEF IntelligenceInv
<1>1. /\ active = NoIncident /\ history = <<>> /\ counter = 0 /\ lastBucket = NoBucket
      /\ lastEvaluated = 0 /\ judged = <<>> /\ watermark = 0
  BY DEF Init, ManagerInit, BufferInit, None
<1>2. NoIncident \in Incident /\ NoIncident.flags = <<>> /\ Len(<<>>) = 0
  <2>1. <<>> \in Seq(BOOLEAN) /\ Len(<<>>) = 0
    OBVIOUS
  <2>2. QED
    BY <2>1 DEF NoIncident, Incident
<1>3. ManagerTypeOK
  BY <1>1, <1>2, ManagerAssumption DEF ManagerTypeOK
<1>4. Bucket(watermark) \in Nat
  BY <1>1, BucketGrows
<1>5. JudgedInv
  BY <1>1, <1>4, ManagerAssumption DEF JudgedInv, NoBucket
<1>6. QED
  BY <1>3, <1>5

\* The invariant of the incident holds in every reachable state.
LEMMA IntelligenceInvariant == Spec => []IntelligenceInv
BY InitIntelligence, NextIntelligence, PTL DEF Spec

\* However long it ran, whatever was refreshed, raised or skipped in between:
\* an incident is resolved only by Confirmation healthy judgements of it.
THEOREM ResolutionIsConfirmed == Spec => ResolvedIsConfirmed
BY IntelligenceInvariant, NextIntelligence, PTL DEF Spec, ResolvedIsConfirmed, Resolution

-----------------------------------------------------------------------------
(* The stream                                                              *)

\* What a message shows.
Shown == [id : Nat, incident : Incident]

\* The types of the variables of IntelligenceStream.
StreamTypeOK ==
    /\ sequence \in Nat /\ subscribed \subseteq Subscribers
    /\ queue \in [Subscribers -> Seq(Shown)] /\ view \in [Subscribers -> Shown \cup {Nothing}]

\* DrainedViewIsCurrent alone is not inductive: the last message that waits
\* must show the active incident, too.
LastShows(s) ==
    IF queue[s] = <<>> THEN view[s].incident = active
                       ELSE queue[s][Len(queue[s])].incident = active

\* Every subscriber will end up with the active incident.
StreamInv ==
    /\ StreamTypeOK
    /\ \A s \in subscribed : LastShows(s)

\* Publishing an incident makes it the last message of every subscriber.
LEMMA PublishShows ==
  ASSUME StreamInv, NEW i \in Incident, Publish(i), active' = i
  PROVE  StreamInv'
<1> USE DEF StreamInv, StreamTypeOK
<1>1. Message(sequence + 1, i) \in Shown /\ Message(sequence + 1, i).incident = i
  BY DEF Message, Shown
<1>2. \A s \in Subscribers :
        /\ Put(queue[s], Message(sequence + 1, i)) \in Seq(Shown)
        /\ IsLast(Message(sequence + 1, i), Put(queue[s], Message(sequence + 1, i)))
  BY <1>1, PutIs
<1>3. queue' = [s \in Subscribers |-> IF s \in subscribed
                                      THEN Put(queue[s], Message(sequence + 1, i)) ELSE queue[s]]
  BY DEF Publish
<1>4. StreamTypeOK'
  BY <1>2, <1>3 DEF Publish
<1>5. \A s \in subscribed : LastShows(s)'
  BY <1>1, <1>2, <1>3 DEF LastShows, IsLast
<1>6. QED
  BY <1>4, <1>5 DEF Publish

\* A step that leaves the stream and the incident alone keeps the invariant.
LEMMA StreamLeft ==
  ASSUME StreamInv, UNCHANGED <<streamVars, active>>
  PROVE  StreamInv'
BY DEF StreamInv, StreamTypeOK, LastShows, streamVars

\* Every step keeps it: an incident changes only together with a message.
LEMMA NextStream == IntelligenceInv /\ ManagerTypeOK' /\ StreamInv /\ [Next]_vars => StreamInv'
<1> SUFFICES ASSUME IntelligenceInv, ManagerTypeOK', StreamInv, [Next]_vars PROVE StreamInv'
  OBVIOUS
<1>0. active \in Incident /\ active' \in Incident
  BY DEF IntelligenceInv, ManagerTypeOK
<1>1. CASE UNCHANGED vars
  BY <1>1, StreamLeft DEF vars, managerVars
<1>2. CASE PostTelemetry
  BY <1>2, StreamLeft DEF PostTelemetry, managerVars
<1>3. ASSUME NEW main, RefreshIncident(main) PROVE StreamInv'
  <2>1. CASE active # NoIncident /\ main # "RAISED"
    BY <1>0, <1>3, <2>1, PublishShows DEF RefreshIncident
  <2>2. CASE ~(active # NoIncident /\ main # "RAISED")
    BY <1>3, <2>2, StreamLeft DEF RefreshIncident, Refresh
  <2>3. QED
    BY <2>1, <2>2
<1>4. ASSUME NEW temporal, NEW main, FailEvaluation(temporal, main) PROVE StreamInv'
  BY <1>4, StreamLeft DEF FailEvaluation, EvaluationRaises
<1>5. ASSUME NEW temporal, NEW main, JudgeBucket(temporal, main) PROVE StreamInv'
  BY <1>0, <1>5, PublishShows DEF JudgeBucket
<1>6. ASSUME NEW s \in Subscribers, OpenStream(s) PROVE StreamInv'
  <2>1. Snapshot(active) \in Shown /\ Snapshot(active).incident = active
    BY <1>0 DEF Snapshot, Message, Shown, StreamInv, StreamTypeOK
  <2>2. /\ view' = [view EXCEPT ![s] = Snapshot(active)] /\ queue' = [queue EXCEPT ![s] = <<>>]
        /\ subscribed' = subscribed \cup {s} /\ UNCHANGED <<sequence, active>>
    BY <1>6 DEF OpenStream, Subscribe, managerVars
  <2>3. QED
    BY <2>1, <2>2 DEF StreamInv, StreamTypeOK, LastShows
<1>7. ASSUME NEW s \in Subscribers, ReadStream(s), Deliver(s) PROVE StreamInv'
  <2>1. /\ s \in subscribed /\ queue[s] # <<>> /\ queue[s] \in Seq(Shown)
        /\ view' = [view EXCEPT ![s] = Head(queue[s])]
        /\ queue' = [queue EXCEPT ![s] = Tail(queue[s])]
        /\ UNCHANGED <<sequence, subscribed, active>>
    BY <1>7 DEF Deliver, ReadStream, managerVars, StreamInv, StreamTypeOK
  <2>2. Tail(queue[s]) \in Seq(Shown) /\ Head(queue[s]) \in Shown
    BY <2>1
  <2>3. CASE Tail(queue[s]) = <<>>
    <3>1. Len(queue[s]) = 1 /\ Head(queue[s]) = queue[s][Len(queue[s])]
      <4>1. Len(queue[s]) = Len(Tail(queue[s])) + 1 /\ Head(queue[s]) = queue[s][1]
        BY <2>1
      <4>2. Len(Tail(queue[s])) = 0
        <5>1. Len(<<>>) = 0
          OBVIOUS
        <5>2. QED
          BY <2>3, <5>1
      <4>3. QED
        BY <4>1, <4>2
    <3>2. QED
      BY <2>1, <2>2, <2>3, <3>1 DEF StreamInv, StreamTypeOK, LastShows
  <2>4. CASE Tail(queue[s]) # <<>>
    <3>1. Tail(queue[s])[Len(Tail(queue[s]))] = queue[s][Len(queue[s])]
      BY <2>1, <2>2, <2>4
    <3>2. QED
      BY <2>1, <2>2, <2>4, <3>1 DEF StreamInv, StreamTypeOK, LastShows
  <2>5. QED
    BY <2>3, <2>4
<1>8. ASSUME NEW s \in Subscribers, ReadStream(s), Disconnect(s) PROVE StreamInv'
  BY <1>8 DEF Disconnect, ReadStream, managerVars, StreamInv, StreamTypeOK, LastShows
<1>9. QED
  BY <1>1, <1>2, <1>3, <1>4, <1>5, <1>6, <1>7, <1>8 DEF Next, EvaluateIncident, ReadStream

\* Nobody is subscribed at first.
LEMMA InitStream == Init => StreamInv
BY DEF Init, StreamInit, StreamInv, StreamTypeOK

\* The stream invariant holds in every reachable state.
LEMMA StreamInvariant == Spec => []StreamInv
<1>1. IntelligenceInv /\ [Next]_vars => ManagerTypeOK'
  BY NextIntelligence DEF IntelligenceInv
<1>2. QED
  BY <1>1, InitStream, NextStream, IntelligenceInvariant, PTL DEF Spec

\* Who has read everything sees the incident that is active now, however many
\* messages the bounded queues dropped.
THEOREM ViewsAreCurrent == Spec => []DrainedViewIsCurrent
<1>1. StreamInv => DrainedViewIsCurrent
  BY DEF StreamInv, LastShows, DrainedViewIsCurrent
<1>2. QED
  BY <1>1, StreamInvariant, PTL

\* Every variable keeps its type; the history and the flags of an incident
\* stay within their bounds.
THEOREM TypeCorrect == Spec => []TypeOK
<1>1. IntelligenceInv /\ StreamInv => TypeOK
  BY DEF IntelligenceInv, BufferInv, BufferTypeOK, ManagerTypeOK, StreamInv, StreamTypeOK, TypeOK
<1>2. QED
  BY <1>1, IntelligenceInvariant, StreamInvariant, PTL
=============================================================================
