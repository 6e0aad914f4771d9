----------------------------- MODULE LiveObserver -----------------------------
(***************************************************************************)
(* Watching the isolated gateway with the frozen model: the observer       *)
(* passes client requests on, posts what it saw of them together with      *)
(* their logged events, and polls for predictions; watchers poll beside    *)
(* it; the rolling feeder and the telemetry bridge post runs of their own  *)
(* to the same buffer.                                                     *)
(*                                                                         *)
(* A request has one logged event here.  Time is in units in which the     *)
(* code's 20, 60, 180, 200, 600 and 900 seconds keep their order.  Checks  *)
(* that this model has no state for (health, leases, the model's hash) may *)
(* fail at any time.                                                       *)
(***************************************************************************)
EXTENDS Integers, FiniteSets, FiniteSetsExt

CONSTANTS
    Requests,   \* client requests sent through the observer
    Watchers,   \* processes that watch for predictions beside the observer
    Casts,      \* sets of requests, watchers and collectors, one chosen at the start
    MaxAge,     \* a window older than this is stale
    Width,      \* length of a window
    Kept,       \* the gateway forgets telemetry older than this
    Apart,      \* age from which an earlier run's telemetry does not matter
    Reach,      \* logs are read back to this age
    Retention,  \* the observer forgets what is older than this
    MaxClock    \* bound: time

Collectors == {"feeder", "bridge"}
Pollers == Watchers \cup {"observer"}

VARIABLES
    cast,       \* who takes part in this behaviour
    clock,
    started,    \* started[r]: when the observer got request r, 0: it did not
    logged,     \* logged[r]: when a service logged the event of r, 0: none did
    answered,   \* requests whose answer was observed
    observed,   \* those that are still in the observer's store
    sent,       \* events and requests the store knows to be posted
    duty,       \* what the observer does next
    closing,    \* the observer was interrupted
    guarded,    \* the observer's active.lock is there
    batch,      \* what the observer is about to post; at its end, what its store held
    buffer,     \* telemetry the gateway has been given
    repeated,   \* telemetry it has been given twice
    poll,       \* poll[p]: what p has read: its window, or Nothing
    phase,      \* phase[p]: what p does next
    receipts,   \* predictions on file
    feeding,    \* feeding[c]: what collector c does next
    feederLock, \* the feeder's active.lock is there
    validated   \* windows that a collector has declared its own

requestVars   == <<started, logged, answered>>
observerVars  == <<observed, sent, duty, closing, guarded, batch>>
pollVars      == <<poll, phase, receipts>>
collectorVars == <<feeding, feederLock, validated>>
vars == <<cast, clock, requestVars, observerVars, buffer, repeated, pollVars, collectorVars>>

Event(r)   == [of |-> r, kind |-> "event", at |-> logged[r]]
Request(r) == [of |-> r, kind |-> "request", at |-> started[r]]

Nothing == [end |-> 0, content |-> {}]

Init ==
    /\ cast \in Casts
    /\ clock = 1
    /\ started = [r \in Requests |-> 0] /\ logged = [r \in Requests |-> 0]
    /\ answered = {} /\ observed = {} /\ sent = {}
    /\ duty = "off" /\ closing = FALSE /\ guarded = FALSE /\ batch = {}
    /\ buffer = {} /\ repeated = {}
    /\ poll = [p \in Pollers |-> Nothing] /\ phase = [p \in Pollers |-> "idle"]
    /\ receipts = {}
    /\ feeding = [c \in Collectors |-> "off"] /\ feederLock = FALSE /\ validated = {}

Tick ==
    /\ clock < MaxClock
    /\ clock' = clock + 1
    /\ UNCHANGED <<cast, requestVars, observerVars, buffer, repeated, pollVars, collectorVars>>

-----------------------------------------------------------------------------
(* The gateway's buffer; LiveTelemetry has it in full *)

Events == {x \in buffer : x.kind = "event"}
Watermark == Max({0} \cup {x.at : x \in Events})
Covered == \E x \in Events : x.at <= Watermark - Width
InWindow == {x \in buffer : Watermark - Width < x.at /\ x.at <= Watermark}

\* No run is mixed with another's telemetry.
Idle == Events = {} \/ clock - Watermark >= Apart

\* Batches go in the order of time, and any of them may fail; the gateway
\* recognizes what it has had before.
Known(items) == {x \in items \cap buffer : x.at >= Watermark - Kept}
Take(items) ==
    /\ buffer' = buffer \cup items
    /\ repeated' = repeated \cup (items \cap buffer)
TakePart(items) ==
    \E last \in 0..clock : Take({x \in items : x.at <= last})

-----------------------------------------------------------------------------
(* Requests through the observer *)

Running == duty \notin {"off", "failed", "stopped"}

\* Threads handle the requests, and nobody waits for one of them to end.
Receive(r) ==
    /\ r \in cast /\ Running /\ started[r] = 0
    /\ started' = [started EXCEPT ![r] = clock]
    /\ UNCHANGED <<cast, clock, logged, answered, observerVars, buffer, repeated, pollVars, collectorVars>>

\* Whether or not the answer arrives.
Log(r) ==
    /\ started[r] > 0 /\ logged[r] = 0
    /\ logged' = [logged EXCEPT ![r] = clock]
    /\ UNCHANGED <<cast, clock, started, answered, observerVars, buffer, repeated, pollVars, collectorVars>>

\* A request that gets no good answer is not observed at all.
Answer(r) ==
    /\ Running /\ started[r] > 0 /\ r \notin answered
    /\ answered' = answered \cup {r} /\ observed' = observed \cup {r}
    /\ UNCHANGED <<cast, clock, started, logged, sent, duty, closing, guarded, batch,
                   buffer, repeated, pollVars, collectorVars>>

-----------------------------------------------------------------------------
(* The observer *)

Serve ==
    /\ duty = "off" /\ ~guarded /\ ~feederLock /\ Idle
    /\ duty' = "serve" /\ guarded' = TRUE
    /\ UNCHANGED <<cast, clock, requestVars, observed, sent, closing, batch, buffer, repeated,
                   pollVars, collectorVars>>

\* Events may precede their requests; a request goes with its events, or after.
Logs(now) == {r \in Requests : logged[r] > 0 /\ logged[r] >= now - Reach}
Project(now) == {Event(r) : r \in Logs(now)} \cup {Request(r) : r \in Logs(now) \cap observed}

Collect ==
    /\ duty = "serve"
    /\ IF observed = {}
       THEN duty' = (IF closing THEN "close" ELSE "serve") /\ UNCHANGED batch
       ELSE duty' = "post" /\ batch' = Project(clock) \ sent
    /\ UNCHANGED <<cast, clock, requestVars, observed, sent, closing, guarded, buffer, repeated,
                   pollVars, collectorVars>>

\* Nothing is posted again by itself: a post that was not wholly accepted, or
\* whose answer is lost, stops the observer.
Post ==
    /\ duty = "post"
    /\ \/ Known(batch) = {} /\ Take(batch) /\ duty' = "commit"
       \/ TakePart(batch) /\ duty' = "failed"
    /\ UNCHANGED <<cast, clock, requestVars, observed, sent, closing, guarded, batch,
                   pollVars, collectorVars>>

\* Mutant: posted identities are forgotten once they are out of the window.
ForgetsSoon(x, now) == x.at > now - Width
Retained(x, now) == x.at >= now - Retention

Commit ==
    /\ duty = "commit"
    /\ duty' = "poll" /\ batch' = {}
    /\ sent' = {x \in sent \cup batch : Retained(x, clock)}
    /\ observed' = {r \in observed : started[r] >= clock - Retention}
    /\ phase' = [phase EXCEPT !["observer"] = "read"]
    /\ UNCHANGED <<cast, clock, requestVars, closing, guarded, buffer, repeated, poll, receipts,
                   collectorVars>>

\* KeyboardInterrupt, wherever the observer is; what it was doing is not
\* finished.  It collects once more; requests that were accepted go on.
Interrupt ==
    /\ Running /\ ~closing
    /\ closing' = TRUE /\ duty' = "serve" /\ batch' = {}
    /\ phase' = [phase EXCEPT !["observer"] = "idle"]
    /\ poll' = [poll EXCEPT !["observer"] = Nothing]
    /\ UNCHANGED <<cast, clock, requestVars, observed, sent, guarded, buffer, repeated, receipts,
                   collectorVars>>

\* The last look at the store ...
Snapshot ==
    /\ duty = "close"
    /\ batch' = {Request(r) : r \in observed}
    /\ duty' = "compare"
    /\ UNCHANGED <<cast, clock, requestVars, observed, sent, closing, guarded, buffer, repeated,
                   pollVars, collectorVars>>

\* Mutant: the lock goes whatever is left to post.
AnyStore == TRUE
AllSent == batch \subseteq sent

\* ... and what becomes of the lock.
Unlock ==
    /\ duty = "compare"
    /\ guarded' = ~AllSent
    /\ duty' = "stopped"
    /\ UNCHANGED <<cast, clock, requestVars, observed, sent, closing, batch, buffer, repeated,
                   pollVars, collectorVars>>

ObserverStep ==
    Serve \/ Collect \/ Post \/ Commit \/ Interrupt \/ Snapshot \/ Unlock

-----------------------------------------------------------------------------
(* Polling for a prediction *)

\* A watcher polls when it likes, the observer after each commit.  A poll that
\* raises ends its process.
StartPoll(w) ==
    /\ w \in cast /\ phase[w] = "idle"
    /\ phase' = [phase EXCEPT ![w] = "read"]
    /\ UNCHANGED <<cast, clock, requestVars, observerVars, buffer, repeated, poll, receipts, collectorVars>>

Returns(p, step) ==
    /\ phase' = [phase EXCEPT ![p] = step]
    /\ duty' = IF p # "observer" THEN duty
               ELSE IF step = "failed" THEN "failed"
               ELSE IF step = "idle" THEN IF closing THEN "close" ELSE "serve"
               ELSE duty

\* The window is unavailable or stale; or it has too little evidence.
ReadWindow(p) ==
    /\ phase[p] = "read"
    /\ \/ /\ Covered /\ clock - Watermark <= MaxAge
          /\ poll' = [poll EXCEPT ![p] = [end |-> Watermark, content |-> InWindow]]
          /\ Returns(p, "check")
       \/ /\ ~Covered \/ clock - Watermark > MaxAge
          /\ Returns(p, "idle") /\ UNCHANGED poll
       \/ Returns(p, "failed") /\ UNCHANGED poll
    /\ UNCHANGED <<cast, clock, requestVars, observed, sent, closing, guarded, batch, buffer, repeated,
                   receipts, collectorVars>>

SameWindow(p) == {x \in receipts : x.end = poll[p].end}
Newer(p) == {x \in receipts : x.end > poll[p].end}

\* Mutant: only windows that are exactly adjacent count as overlapping.
OnlyNear(x, p) == poll[p].end - x.end < 1
Overlaps(x, p) == poll[p].end - x.end < Width

\* A window that was judged before, with other features, is an error; so is a
\* receipt that is newer than the window.
CheckReceipts(p) ==
    /\ phase[p] = "check"
    /\ Returns(p, IF SameWindow(p) # {}
                  THEN IF \E x \in SameWindow(p) : x.content = poll[p].content THEN "idle" ELSE "failed"
                  ELSE IF Newer(p) # {} THEN "failed"
                  ELSE IF \E x \in receipts : Overlaps(x, p) THEN "idle"
                  ELSE "persist")
    /\ UNCHANGED <<cast, clock, requestVars, observed, sent, closing, guarded, batch, buffer, repeated,
                   poll, receipts, collectorVars>>

\* The frozen model answers, or not; the receipt is created only once.
Persist(p) ==
    /\ phase[p] = "persist"
    /\ \/ /\ SameWindow(p) = {}
          /\ receipts' = receipts \cup {[end |-> poll[p].end, content |-> poll[p].content, by |-> p]}
          /\ Returns(p, "idle")
       \/ /\ \E x \in SameWindow(p) : x.content = poll[p].content
          /\ Returns(p, "idle") /\ UNCHANGED receipts
       \/ Returns(p, "failed") /\ UNCHANGED receipts
    /\ UNCHANGED <<cast, clock, requestVars, observed, sent, closing, guarded, batch, buffer, repeated,
                   poll, collectorVars>>

PollStep(p) == ReadWindow(p) \/ CheckReceipts(p) \/ Persist(p)

-----------------------------------------------------------------------------
(* The rolling feeder and the bridge *)

\* The feeder takes its own lock; the bridge wants an empty buffer.
Begin(c) ==
    /\ c \in cast /\ feeding[c] = "off"
    /\ IF c = "feeder" THEN ~feederLock /\ Idle /\ feederLock' = TRUE
                       ELSE Events = {} /\ UNCHANGED feederLock
    /\ feeding' = [feeding EXCEPT ![c] = "recheck"]
    /\ UNCHANGED <<cast, clock, requestVars, observerVars, buffer, repeated, pollVars, validated>>

\* The feeder looks again before its traffic, the bridge after it.
Recheck(c) ==
    /\ feeding[c] = "recheck"
    /\ feeding' = [feeding EXCEPT ![c] =
                     IF (IF c = "feeder" THEN Idle ELSE Events = {}) THEN "post" ELSE "failed"]
    /\ UNCHANGED <<cast, clock, requestVars, observerVars, buffer, repeated, pollVars, feederLock, validated>>

\* The feeder posts every few seconds, the bridge once.
Own(c) == {[of |-> c, kind |-> k, at |-> clock] : k \in {"event", "request"}}
PostOwn(c) ==
    /\ feeding[c] = "post"
    /\ \/ /\ Known(Own(c)) = {} /\ Take(Own(c))
          /\ \E next \in {"post", "compare"} :
                /\ c = "bridge" => next = "compare"
                /\ feeding' = [feeding EXCEPT ![c] = next]
       \/ feeding' = [feeding EXCEPT ![c] = "failed"] /\ UNCHANGED <<buffer, repeated>>
    /\ UNCHANGED <<cast, clock, requestVars, observerVars, pollVars, feederLock, validated>>

\* The gateway's features have to be those of the collector's own rows.  The
\* feeder's lock stays when it fails.  The bridge then has the frozen model
\* predict once and reports that with the window: no receipt, and no watcher
\* looks at it.
Compare(c) ==
    /\ feeding[c] = "compare"
    /\ \/ /\ \A x \in InWindow : x.of = c
          /\ feeding' = [feeding EXCEPT ![c] = "done"]
          /\ validated' = validated \cup {[by |-> c, end |-> Watermark, content |-> InWindow]}
          /\ feederLock' = IF c = "feeder" THEN FALSE ELSE feederLock
       \/ /\ feeding' = [feeding EXCEPT ![c] = "failed"]
          /\ UNCHANGED <<validated, feederLock>>
    /\ UNCHANGED <<cast, clock, requestVars, observerVars, buffer, repeated, pollVars>>

CollectorStep(c) == Begin(c) \/ Recheck(c) \/ PostOwn(c) \/ Compare(c)

Next ==
    \/ Tick
    \/ \E r \in Requests : Receive(r) \/ Log(r) \/ Answer(r)
    \/ ObserverStep
    \/ \E w \in Watchers : StartPoll(w)
    \/ \E p \in Pollers : PollStep(p)
    \/ \E c \in Collectors : CollectorStep(c)

Spec == Init /\ [][Next]_vars

-----------------------------------------------------------------------------
(* Properties *)

\* An answer that a handler stored after the observer's last look at the store:
\* the lock may go although nobody ever posts it.
CameTooLate(r) == r \in observed /\ Request(r) \notin batch

\* An observer that removes its lock has given the gateway every answer it had
\* observed by its last look exactly once, save what its store, or the gateway,
\* had dropped for its age: an interruption or a failure at any other point
\* leaves the lock.
UnlockStep ==
    guarded /\ ~guarded' =>
      /\ \A r \in answered :
            Request(r) \in buffer \/ started[r] < clock - Retention \/ CameTooLate(r)
      /\ \A x \in repeated : x.of \notin Requests \/ x.at < clock - Kept
UnlockedIsExact == [][UnlockStep]_vars

\* While nobody interrupts it, the observer posts nothing twice, though it
\* forgets and reads the same logs over and over.
PostsOnce == ~closing => \A x \in repeated : x.of \notin Requests

\* A process never predicts overlapping windows, and a window has one
\* prediction, whoever polls beside it.
JudgedOnce ==
    \A x, y \in receipts : x # y =>
       /\ x.end # y.end
       /\ x.by = y.by => x.end - y.end >= Width \/ y.end - x.end >= Width
=============================================================================
