--------------------------- MODULE BlindEvidence ---------------------------
(***************************************************************************)
(* The evidence of a blind challenge: the traffic of its three phases, the *)
(* service events that a bridge posts some time later, the window that the *)
(* frozen model judges, and what an acceptance says of it in the end.      *)
(*                                                                         *)
(* One session runs; others send requests, fail for reasons of their own,  *)
(* and may have a lease.  Time is in ticks: a phase sends a request a tick *)
(* and ends when all are answered.  A request of this session is slow, or  *)
(* fails, only under its own fault.  The buffer holds what was posted      *)
(* (LiveTelemetry shows that it does) and forgets nothing during a run.    *)
(***************************************************************************)
EXTENDS Integers, FiniteSets, FiniteSetsExt

CONSTANTS
    Durations,  \* Durations[policy][phase]: ticks of a phase of the workload
    Window,     \* MODEL_WINDOW_SECONDS
    Short,      \* the window of the preflight
    Margin,     \* END_MARGIN_SECONDS
    Patience,   \* bridge_wait_seconds
    Slow,       \* the client's timeout: a request is answered within it
    Slowest,    \* bound: ticks that a slow execution of the transfer takes
    Term,       \* duration of the fault's lease
    MaxOthers   \* bound: what others do, lines that come late, and faults that miss

Phases == {"baseline", "challenge", "recovery"}
Policies == {"challenge_only", "rolling"}
Scenarios == {"normal", "reachable", "unreachable"}

\* The last conjunct: challenge_seconds >= 70.
ASSUME WorkloadAssumption ==
    /\ Durations \in [Policies -> [Phases -> Nat \ {0}]]
    /\ {Window, Short, Margin, Patience, Term} \subseteq Nat \ {0}
    /\ {Slow, Slowest, MaxOthers} \subseteq Nat
    /\ \A p \in Policies : Durations[p].baseline + Durations[p].challenge
                             + Durations[p].recovery > Window
    /\ Durations["challenge_only"].challenge > Window + Margin

VARIABLES
    policy,     \* model_window_policy
    scenario,   \* none, a fault on the workload's path, or a fault beside it
    step,       \* what the run, and later the acceptance, is at
    clock,
    began,      \* when that step began
    baseline,   \* baseline_started_at
    sent,       \* requests that the phase has sent
    open,       \* those not answered: when sent, and whether they met the fault
    challenge,  \* started_at and ended_at of the challenge phase
    lease,      \* the control file: whose fault, and until when
    armed,      \* the activation in the session
    lines,      \* events that services have logged
    posted,     \* those that the bridge has posted
    observed,   \* client observations in the buffer
    others,     \* how much of that has happened
    window,     \* the window of the decision, or NoSpan
    judged,     \* history: the observations in it
    effect,     \* the observability evidence: its count of effects
    decision,   \* whether the model found the class
    verdict     \* status of the acceptance

evidenceVars == <<policy, scenario, step, clock, began, baseline, sent, open,
                  challenge, lease, armed, lines, posted, observed, others,
                  window, judged, effect, decision, verdict>>

NoSpan == [from |-> 0, to |-> 0]
NoLease == [run |-> "none", until |-> 0]

EvidenceInit ==
    /\ policy \in Policies /\ scenario \in Scenarios
    /\ step = "prepared" /\ clock = 1 /\ began = 1 /\ baseline = 0
    /\ sent = 0 /\ open = {} /\ challenge = NoSpan
    /\ lease = NoLease /\ armed = NoSpan
    /\ lines = {} /\ posted = {} /\ observed = {} /\ others = 0
    /\ window = NoSpan /\ judged = {} /\ effect = 0
    /\ decision = "none" /\ verdict = "none"

-----------------------------------------------------------------------------
(* The buffer, as the run reads it *)

Watermark == Max({0} \cup {e.at : e \in posted})
EventsIn(span) == {e \in posted : span.from < e.at /\ e.at <= span.to}
ObservedIn(span) == {r \in observed : span.from < r.sent /\ r.sent <= span.to}

\* A window of this size and end does not raise LiveWindowNotReady.
Span(size, end) == [from |-> end - size, to |-> end]
Complete(span) ==
    /\ observed # {} /\ span.to <= Watermark
    /\ \E e \in posted : e.at <= span.from
Telling(span) == EventsIn(span) # {} /\ ObservedIn(span) # {}

-----------------------------------------------------------------------------
(* Traffic *)

InForce == lease.run = "own" /\ clock < lease.until
Goes(next) == step' = next /\ began' = clock

Sending == step \in Phases /\ sent < Durations[policy][step] /\ clock = began + sent

\* The services look for a fault of the request's own run.
Send ==
    /\ Sending
    /\ open' = open \cup {[sent |-> clock, met |-> InForce /\ scenario = "reachable"]}
    /\ sent' = sent + 1
    /\ UNCHANGED <<policy, scenario, step, clock, began, baseline, challenge, lease,
                   armed, lines, posted, observed, others, window, judged, effect,
                   decision, verdict>>

Logged(run, of, at, hit) == [run |-> run, of |-> of, sent |-> at, at |-> clock, hit |-> hit]

\* The answer, or its lack, is observed at once; the service's line is posted
\* by the bridge.  A fault need not show on every request.
Answer ==
    \E r \in open : \E hit \in {FALSE, r.met} :
      /\ others' = others + (IF hit = r.met THEN 0 ELSE 1) /\ others' <= MaxOthers
      /\ open' = open \ {r}
      /\ observed' = observed \cup {[run |-> "own", sent |-> r.sent]}
      /\ lines' = lines \cup {Logged("own", "request", r.sent, hit)}
      /\ UNCHANGED <<policy, scenario, step, clock, began, baseline, sent, challenge,
                     lease, armed, posted, window, judged, effect, decision, verdict>>

\* asyncio.gather returns.  Mutant: the phase ends with its last request sent.
AllSent == sent = Durations[policy][step]
Gathered == sent = Durations[policy][step] /\ open = {}

After == [phase \in Phases |->
            IF phase = "baseline" THEN "preflight"
            ELSE IF phase = "recovery" THEN "settle"
            ELSE IF policy = "challenge_only" THEN "select" ELSE "clear"]

PhaseEnds ==
    /\ step \in Phases /\ Gathered
    /\ Goes(After[step])
    /\ challenge' = IF step = "challenge" THEN [from |-> began, to |-> clock] ELSE challenge
    /\ UNCHANGED <<policy, scenario, clock, baseline, sent, open, lease, armed, lines,
                   posted, observed, others, window, judged, effect, decision, verdict>>

\* What a step of the run itself leaves alone.
Quiet == UNCHANGED <<policy, scenario, clock, baseline, open, challenge, lines, posted,
                     observed, others, verdict>>
NoDecision == UNCHANGED <<window, judged, effect, decision>>

-----------------------------------------------------------------------------
(* The run of a blind session *)

Prepare ==
    /\ step = "prepared"
    /\ Goes("baseline") /\ sent' = 0 /\ baseline' = clock
    /\ UNCHANGED <<policy, scenario, clock, open, challenge, lease, armed, lines, posted,
                   observed, others, window, judged, effect, decision, verdict>>

TimeIsUp == clock = began + Patience

\* require_recent_events: a short window ends after the baseline began.
Fed ==
    /\ Complete(Span(Short, Watermark))
    /\ Watermark >= baseline
    /\ EventsIn(Span(Short, Watermark)) # {}

Preflight ==
    /\ step = "preflight"
    /\ \/ Fed /\ Goes("arm")
       \/ TimeIsUp /\ Goes("blocked")
    /\ Quiet /\ NoDecision /\ UNCHANGED <<sent, lease, armed>>

Free == lease.run = "none" \/ lease.until <= clock

\* A healthy scenario has nothing to arm; another's lease refuses the fault.
ArmChallenge ==
    /\ step = "arm"
    /\ \/ /\ scenario = "normal"
          /\ Goes("execute") /\ UNCHANGED <<lease, armed>>
       \/ /\ scenario # "normal" /\ (Free \/ lease.run = "own")
          /\ lease' = [run |-> "own", until |-> clock + Term]
          /\ armed' = Span(Term, clock + Term)
          /\ Goes("execute")
       \/ /\ scenario # "normal" /\ ~Free
          /\ Goes("over") /\ UNCHANGED <<lease, armed>>
    /\ Quiet /\ NoDecision /\ UNCHANGED sent

\* The visible transfer runs under the session's run identifier as well, and
\* shows its fault whichever path it is on.
Transfer ==
    /\ step = "execute"
    /\ \E time \in {0, Slowest} : clock' = clock + time
    /\ lines' = lines \cup {[Logged("own", "transfer", clock, InForce) EXCEPT !.at = clock']}
    /\ step' = "challenge" /\ began' = clock' /\ sent' = 0
    /\ NoDecision
    /\ UNCHANGED <<policy, scenario, baseline, open, challenge, lease, armed, posted,
                   observed, others, verdict>>

\* control.clear raises if the file is another session's by now.
Cleared == lease' = IF lease.run = "own" \/ Free THEN NoLease ELSE lease

TransferFails ==
    /\ step = "execute"
    /\ IF scenario = "normal" THEN UNCHANGED lease ELSE Cleared
    /\ Goes("over")
    /\ Quiet /\ NoDecision /\ UNCHANGED <<sent, armed>>

-----------------------------------------------------------------------------
(* The window that the model judges *)

\* The end that challenge_only_snapshot selects, and the one of the window it
\* replaced, the latest there is: the mutant.
LatestEnd == Watermark
SelectedEnd == Min({challenge.to - Margin, Watermark})

Selectable(end) ==
    /\ Complete(Span(Short, Watermark))
    /\ end > challenge.from + Window
    /\ Complete(Span(Window, end)) /\ Telling(Span(Window, end))

\* Events of this run, as collect_observable_evidence counts them.  Mutant:
\* all events of the window.
OfAnyRun(span) == EventsIn(span)
Correlated(span) == {e \in EventsIn(span) : e.run = "own"}

\* The model may say anything.
Judge(span) ==
    /\ window' = span /\ judged' = ObservedIn(span)
    /\ effect' = Cardinality({e \in Correlated(span) : e.hit})
    /\ decision' \in {"wrong", "exact"}

\* The inference may raise, and the wait for the bridge end; the run goes on.
Select ==
    /\ step = "select"
    /\ \/ Selectable(SelectedEnd) /\ Judge(Span(Window, SelectedEnd))
       \/ (TimeIsUp \/ Selectable(SelectedEnd)) /\ NoDecision
    /\ Goes("clear")
    /\ Quiet /\ UNCHANGED <<sent, lease, armed>>

ClearChallenge ==
    /\ step = "clear"
    /\ IF scenario = "normal" THEN UNCHANGED lease ELSE Cleared
    /\ Goes(IF scenario # "normal" /\ lease.run = "other" /\ ~Free
            THEN "over" ELSE "recovery")
    /\ sent' = 0
    /\ Quiet /\ NoDecision /\ UNCHANGED armed

Latest == Span(Window, Watermark)

\* The decision is there, or require_model_window finds a window.
Settle ==
    /\ step = "settle"
    /\ \/ /\ IF policy = "challenge_only" THEN decision # "none"
             ELSE Complete(Latest) /\ Telling(Latest)
          /\ Goes("ready")
       \/ /\ IF policy = "challenge_only" THEN decision = "none" ELSE TimeIsUp
          /\ Goes("not_ready")
    /\ Quiet /\ NoDecision /\ UNCHANGED <<sent, lease, armed>>

\* The latest window overlaps the transfer's timeline.
Overlaps(span) ==
    \E e \in lines : e.of = "transfer" /\ span.from <= e.at /\ e.at <= span.to

\* Without a decision of the challenge the latest window is judged now, but
\* not under the challenge-only policy.
AnalyzeRun ==
    /\ step \in {"ready", "not_ready"}
    /\ \/ policy = "challenge_only" /\ decision # "none" /\ NoDecision
       \/ policy = "rolling" /\ Complete(Latest) /\ Overlaps(Latest) /\ Judge(Latest)
    /\ Goes("analyzed")
    /\ Quiet /\ UNCHANGED <<sent, lease, armed>>

-----------------------------------------------------------------------------
(* Acceptance, after the reveal *)

\* assess_acceptance
Assessment ==
    IF \/ scenario = "unreachable"
       \/ policy # "challenge_only"
       \/ Correlated(window) = {} \/ judged = {}
       \/ scenario = "reachable" /\ effect = 0
    THEN "INVALID"
    ELSE IF decision = "exact" THEN "ACCEPTED" ELSE "MODEL_MISMATCH"

\* verify_phase19b takes no other window than one inside the challenge.
Accept ==
    /\ step = "analyzed"
    /\ Goes("over")
    /\ verdict' = IF policy = "challenge_only" /\ challenge.from <= window.from
                       /\ window.to <= challenge.to
                  THEN Assessment ELSE "none"
    /\ NoDecision
    /\ UNCHANGED <<policy, scenario, clock, baseline, sent, open, challenge, lease, armed,
                   lines, posted, observed, others>>

-----------------------------------------------------------------------------
(* Everybody else, while the session is under way *)

NotOurs == UNCHANGED <<policy, scenario, step, began, baseline, sent, open, challenge,
                       armed, window, judged, effect, decision, verdict>>

\* The bridge follows the logs, and may be behind, or stop.  Nobody looks at
\* the buffer during a phase: what is posted then may as well be posted later.
Read ==
    \/ step \in {"preflight", "select"}
    \/ policy = "rolling" /\ step \in {"settle", "ready", "not_ready"}
Until(time) == posted \cup {e \in lines : e.at <= time}

Post ==
    /\ Read
    /\ \E time \in 1..clock : posted' = Until(time)
    /\ posted' # posted
    /\ NotOurs /\ UNCHANGED <<clock, lease, lines, observed, others>>

\* A line of one service comes after later ones of another.
PostButOne ==
    /\ Read /\ others < MaxOthers
    /\ others' = others + 1
    /\ \E time \in 1..clock : \E late \in Until(time) \ posted :
         posted' = Until(time) \ {late}
    /\ NotOurs /\ UNCHANGED <<clock, lease, lines, observed>>

\* A request of another run is answered, well or badly.
OtherRequest ==
    /\ step \in {"baseline", "challenge", "select"} /\ others < MaxOthers
    /\ others' = others + 1
    /\ observed' = observed \cup {[run |-> "other", sent |-> clock]}
    /\ \E hit \in BOOLEAN : lines' = lines \cup {Logged("other", "request", clock, hit)}
    /\ NotOurs /\ UNCHANGED <<clock, lease, posted>>

OtherLease ==
    /\ step \in {"arm", "challenge", "clear"} /\ others < MaxOthers
    /\ others' = others + 1
    /\ Free
    /\ lease' = [run |-> "other", until |-> clock + Term]
    /\ NotOurs /\ UNCHANGED <<clock, lines, posted, observed>>

\* No step may wait longer than it does; those not named take no time.
Tick ==
    /\ ~Sending /\ \A r \in open : r.met /\ clock < r.sent + Slow
    /\ \/ step \in Phases /\ ~Gathered
       \/ step \in {"preflight", "select"} /\ ~TimeIsUp
       \/ policy = "rolling" /\ step = "settle" /\ ~TimeIsUp
    /\ clock' = clock + 1
    /\ NotOurs /\ UNCHANGED <<lease, lines, posted, observed, others>>

EvidenceStep ==
    \/ Send \/ Answer \/ PhaseEnds \/ Prepare \/ Preflight \/ ArmChallenge
    \/ Transfer \/ TransferFails \/ Select \/ ClearChallenge \/ Settle
    \/ AnalyzeRun \/ Accept \/ Post \/ PostButOne \/ OtherRequest \/ OtherLease \/ Tick

-----------------------------------------------------------------------------
(* Properties *)

\* A decision of the challenge-only policy rests on the challenge: its window
\* lies inside the phase, whatever the bridge was behind or ahead by; of this
\* session's requests it counts every one of that time and no other, although
\* they were observed in another order than they were sent; and all of them
\* were sent under the fault, unless its lease ran out during the phase.
DecisionRestsOnChallenge ==
    decision # "none" /\ policy = "challenge_only" =>
      LET own == {r.sent : r \in {q \in judged : q.run = "own"}}
          last == challenge.from + Durations[policy].challenge - 1
      IN  /\ challenge.from <= window.from /\ window.to < challenge.to
          /\ own = (window.from + 1..window.to) \cap (challenge.from..last)
          /\ scenario # "normal" /\ armed.to > challenge.to =>
               \A t \in own : armed.from <= t /\ t < armed.to

\* An acceptance calls the model right or wrong about a fault only if that
\* fault was seen at work: a request of the challenge was sent under it, and
\* its failure is in the very window that was judged.  Failures of others,
\* and of the visible transfer, do not count.
VerdictIsEarned ==
    verdict \in {"ACCEPTED", "MODEL_MISMATCH"} =>
      /\ scenario # "unreachable"
      /\ scenario = "reachable" =>
           \E e \in EventsIn(window) :
             /\ e.run = "own" /\ e.of = "request" /\ e.hit
             /\ challenge.from <= e.sent /\ e.sent <= challenge.to
             /\ armed.from <= e.sent /\ e.sent < armed.to
      /\ verdict = "ACCEPTED" => decision = "exact"
=============================================================================
