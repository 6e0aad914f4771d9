---------------------------- MODULE LiveTelemetry ----------------------------
(***************************************************************************)
(* The gateway's rolling buffer of live telemetry: structured service      *)
(* events and client request observations, deduplicated by fingerprint,    *)
(* pruned by age, and read as event-time windows.                          *)
(*                                                                         *)
(* An item stands for one fingerprint and carries its timestamp; the same  *)
(* item may be posted again and again.  The gateway runs every call in its *)
(* event loop without awaiting, so each is one step.  Time is in ticks;    *)
(* None is the absent timestamp.                                           *)
(***************************************************************************)
EXTENDS Integers, FiniteSets, FiniteSetsExt

CONSTANTS
    Events,     \* eligible service events (the others are ignored on arrival)
    Requests,   \* client request observations
    At,         \* At[i]: the timestamp of an item
    Infinite,   \* events whose features are not finite numbers
    MaxAge,     \* MAX_BUFFER_SECONDS
    Temporal,   \* the short window of WINDOW_SECONDS
    Main,       \* the long one
    MaxStale,   \* MAX_AGE_SECONDS of the command center
    MaxSkew     \* how far an event may be ahead of its clock

Items == Events \cup Requests
None == 0

ASSUME TimeAssumption ==
    /\ At \in [Items -> Nat \ {None}]
    /\ Events \cap Requests = {}
    /\ Infinite \subseteq Events
    /\ MaxAge \in Nat /\ Temporal \in Nat \ {0} /\ Main \in Nat \ {0}
    /\ Temporal <= Main /\ Main <= MaxAge
    /\ MaxStale \in Nat /\ MaxSkew \in Nat

\* Items are finitely many, so a set of them has a newest and an oldest one.
ASSUME OrderAssumption ==
    \A S \in SUBSET Items : S # {} =>
      \E i, j \in S : \A k \in S : At[i] <= At[k] /\ At[k] <= At[j]

VARIABLES
    held,       \* held[i]: how often item i is in the two deques
    seen,       \* fingerprints in _seen and _seen_requests
    explicit,   \* _explicit_request_mode
    watermark,  \* _watermark, the newest event time accepted
    oldest,     \* _first_observed
    accepted    \* history: items that ingest ever accepted

bufferVars == <<held, seen, explicit, watermark, oldest, accepted>>

-----------------------------------------------------------------------------
(* ingest *)

HeldIn(bag, S) == {i \in S : bag[i] > 0}

\* The newest of a time (or None) and the times of some events.
Newest(time, S) == Max({time} \cup {At[i] : i \in S})

\* The oldest of the times of some events, None if there are none.
Oldest(S) == IF S = {} THEN None ELSE Min({At[i] : i \in S})

\* _prune_locked drops an item older than the buffer.
TooOld(i, mark) == mark # None /\ At[i] < mark - MaxAge

\* The items of a batch that ingest accepts.  Mutant: it does not look.
AcceptsAll(batch) == batch
Fresh(batch) == batch \ seen

\* The fingerprints of the items S of one kind: rebuilt from what is held if
\* pruning took one of them.
Fingerprints(S, new) ==
    IF \E i \in S : TooOld(i, watermark') /\ (held[i] > 0 \/ i \in new)
    THEN HeldIn(held', S) ELSE S \cap (seen \cup new)

\* One POST of telemetry: accept what is not a duplicate, prune, and find the
\* oldest event again.  Without a watermark nothing is pruned.
Ingest(batch) ==
    LET new == Fresh(batch)
    IN  /\ watermark' = Newest(watermark, new \cap Events)
        /\ held' = [i \in Items |-> IF TooOld(i, watermark') THEN 0
                                    ELSE IF i \in new THEN held[i] + 1 ELSE held[i]]
        /\ seen' = Fingerprints(Events, new) \cup Fingerprints(Requests, new)
        /\ explicit' = (explicit \/ new \cap Requests # {})
        /\ oldest' = Oldest(HeldIn(held', Events))
        /\ accepted' = accepted \cup new

BufferInit ==
    /\ held = [i \in Items |-> 0]
    /\ seen = {}
    /\ explicit = FALSE
    /\ watermark = None
    /\ oldest = None
    /\ accepted = {}

-----------------------------------------------------------------------------
(* Windows *)

\* _window_events_locked answers for (from, to] instead of raising
\* LiveWindowNotReady.  Mutant: it trusts the watermark.
TrustsWatermark(from, to, tolerance) == watermark # None /\ to <= watermark
Covers(from, to, tolerance) ==
    /\ watermark # None /\ oldest # None
    /\ to <= watermark
    /\ oldest - from <= tolerance

\* The items of a window.
Window(S, from, to) == {i \in HeldIn(held, S) : from < At[i] /\ At[i] <= to}

\* The features of a window are finite numbers; otherwise its snapshot raises
\* RuntimeError.
FiniteIn(from, to) == Window(Infinite, from, to) = {}

\* snapshot(size, require_client_requests=True) does not raise
\* LiveWindowNotReady.
Ready(size) == explicit /\ Covers(watermark - size, watermark, 0)
FiniteNow(size) == FiniteIn(watermark - size, watermark)

-----------------------------------------------------------------------------
(* command_center_snapshot, asked at gateway time now *)

\* A client request started inside the window.
RequestsIn(from, to) == Window(Requests, from, to) # {}

\* A window with an infinite feature is an error instead of a status.
TelemetryStatus(now) ==
    IF watermark = None THEN "UNOBSERVED"
    ELSE IF now - watermark < -MaxSkew THEN "CLOCK_SKEW"
    ELSE IF now - watermark > MaxStale THEN "STALE"
    ELSE IF ~Ready(Main) THEN "INSUFFICIENT"
    ELSE IF ~FiniteNow(Main) THEN "ERROR"
    ELSE IF RequestsIn(watermark - Main, watermark) THEN "READY"
    ELSE "INSUFFICIENT"

-----------------------------------------------------------------------------
(* Properties *)

\* The buffer is exactly the accepted items of the last MaxAge ticks before
\* the newest event, each of them once, although the set of fingerprints is
\* rebuilt when something is pruned, items are posted again and arrive late:
\* an old duplicate that is accepted again is gone at the end of its call.
BufferIsExact ==
    \A i \in Items :
      held[i] = IF i \in accepted /\ ~(watermark # None /\ At[i] < watermark - MaxAge)
                THEN 1 ELSE 0

\* A READY command center shows a complete window: every event accepted of it
\* is in the buffer, one of them or an older one bounds it from below, a
\* client request falls inside it, and its end is recent.
ReadyMeansObserved ==
    \A now \in watermark - MaxSkew - 1..watermark + MaxStale + 1 :
      TelemetryStatus(now) = "READY" =>
        /\ \A i \in accepted :
             watermark - Main < At[i] /\ At[i] <= watermark => held[i] = 1
        /\ \E i \in accepted \cap Events : At[i] <= watermark - Main
        /\ \E i \in accepted \cap Requests :
             watermark - Main < At[i] /\ At[i] <= watermark
        /\ now - watermark <= MaxStale
=============================================================================
