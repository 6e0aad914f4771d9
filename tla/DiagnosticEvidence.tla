------------------------- MODULE DiagnosticEvidence -------------------------
(***************************************************************************)
(* What a pilot has seen, and what is made of it.  A program sends its     *)
(* requests while its fault is in force, removes the fault, sends a few    *)
(* more, cuts an exact window out of the time, asks whether the effect of  *)
(* the fault shows in it, and files everything, for an auditor to come to  *)
(* the same conclusion from the files alone.                               *)
(*                                                                         *)
(* PilotRun and CaptureRun have the programs' locks, leases and failures;  *)
(* here a program runs alone and what matters is when what was observed.   *)
(* Requests go out one a tick.  One that meets the fault fails the way its *)
(* family does, and the service it was aimed at logs that at once or a     *)
(* tick later; others fail for a reason of their own, go unlogged, or are  *)
(* not sent.  Trace identifiers, which every record of a request carries,  *)
(* are not told apart from the request's own, and the 65 features, a       *)
(* function of what lies in the window, not from their records.            *)
(***************************************************************************)
EXTENDS Integers, FiniteSets, Sequences

CONSTANTS
    ProgramsSeen,  \* the programs a behaviour is one of
    Guard,         \* 2 seconds, at either end of the phase
    Minute,        \* 60 seconds, the window
    Edge,          \* 5 seconds: how far from an end of the window records begin
    Lifetime,      \* of a lease
    MinRequests,   \* 60 of a window
    MinAffected,   \* 10 clients, or physical samples
    MinEvents,     \* 5 of them in the log of the target
    Recoveries,    \* 8 requests after the fault
    MaxOdd,        \* bound: requests that something else happens to
    MaxNow         \* bound on time

VARIABLES
    program,  \* which one runs
    now,
    step,     \* what it does next
    term,     \* when its fault begins and would expire
    span,     \* when its traffic began and ended
    cleared,  \* when the fault was released
    rows,     \* requests of the traffic: id, time, outcome
    back,     \* requests after the fault
    log,      \* events: the request they are of, time, kind
    odd,      \* requests so far that something else happened to
    force,    \* history: ticks at which the fault was in force
    hits,     \* history: requests that met the fault
    window,   \* the window its evidence is of
    written,  \* files written so far
    verdict   \* what the auditor says

seenVars == <<program, now, step, term, span, cleared, rows, back, log, odd,
              force, hits, window, written, verdict>>

-----------------------------------------------------------------------------
(* The programs *)

Healthy == {"healthy", "calibration"}
Physical == {"pool", "lock", "trainedPool"}
Trained == {"trainedTimeout", "trainedLatency", "trainedPool", "burst"}
RefusedLogins == {"auth", "burst"}
Delaying == {"latency", "trainedLatency", "load"}

\* How a client sees the fault.
HitOutcome ==
    IF program \in RefusedLogins THEN "refused"
    ELSE IF program \in Delaying THEN "slow" ELSE "error"

Init ==
    /\ program \in ProgramsSeen
    /\ now = 0 /\ step = "idle"
    /\ term = [from |-> 0, expires |-> 0]
    /\ span = [begin |-> 0, end |-> 0] /\ cleared = 0
    /\ rows = {} /\ back = {} /\ log = {} /\ odd = 0
    /\ force = {} /\ hits = {} /\ window = [start |-> 0, end |-> 0] /\ written = 0 /\ verdict = "none"

NextId == Cardinality(rows) + Cardinality(back) + 1

\* Time also passes between the steps of a program.
Tick ==
    /\ step \in {"armed", "leaving", "recovering"} /\ now < MaxNow
    /\ now' = now + 1
    /\ UNCHANGED <<program, step, term, span, cleared, rows, back, log, odd,
                   force, hits, window, written, verdict>>

Activate ==
    /\ step = "idle" /\ program \notin Healthy
    /\ term' = [from |-> now, expires |-> now + Lifetime]
    /\ step' = "armed"
    /\ UNCHANGED <<program, now, span, cleared, rows, back, log, odd, force, hits,
                   window, written, verdict>>

Begin ==
    /\ step = IF program \in Healthy THEN "idle" ELSE "armed"
    /\ span' = [span EXCEPT !.begin = now]
    /\ step' = "working"
    /\ UNCHANGED <<program, now, term, cleared, rows, back, log, odd, force, hits,
                   window, written, verdict>>

\* The lease ends by itself too, whatever the program does.
InForce(t) == program \notin Healthy /\ t < term.expires

\* One request of the traffic, and what was logged of it.
Sent(outcome, kind, lag) ==
    /\ rows' = rows \cup {[id |-> NextId, at |-> now + 1, outcome |-> outcome]}
    /\ log' = IF kind = "none" THEN log
              ELSE log \cup {[of |-> NextId, at |-> now + 1 + lag, kind |-> kind]}

Meets ==
    /\ InForce(now + 1)
    /\ \E lag \in {0, 1} :
          Sent(HitOutcome, "effect", lag) /\ odd + lag <= MaxOdd /\ odd' = odd + lag
    /\ hits' = hits \cup {NextId}

Passes == Sent("ok", "ok", 0) /\ UNCHANGED <<odd, hits>>

Misfires ==
    /\ odd < MaxOdd /\ odd' = odd + 1 /\ UNCHANGED hits
    /\ \/ Sent("error", "failure", 0)      \* for a reason of its own
       \/ Sent("ok", "none", 0)            \* its records are lost
       \/ UNCHANGED <<rows, log>>          \* the workload falls behind

Work ==
    /\ step = "working" /\ now < MaxNow
    /\ Meets \/ Passes \/ Misfires
    /\ now' = now + 1
    /\ force' = IF InForce(now + 1) THEN force \cup {now + 1} ELSE force
    /\ UNCHANGED <<program, step, term, span, cleared, back, window, written, verdict>>

\* The workload returns when it has every answer.
Finish ==
    /\ step = "working" /\ \A e \in log : e.at <= now
    /\ span' = [span EXCEPT !.end = now]
    /\ step' = IF program \in Healthy THEN "judging" ELSE "leaving"
    /\ UNCHANGED <<program, now, term, cleared, rows, back, log, odd, force, hits,
                   window, written, verdict>>

\* The lease is given back, and a workload it did not outlive is no evidence.
Leave ==
    /\ step = "leaving"
    /\ cleared' = now
    /\ step' = IF span.end >= term.expires THEN "stopped" ELSE "recovering"
    /\ UNCHANGED <<program, now, term, span, rows, back, log, odd, force, hits,
                   window, written, verdict>>

Recover ==
    /\ step = "recovering" /\ Cardinality(back) < Recoveries
    /\ \E outcome \in {"ok", "error"} :
          /\ back' = back \cup {[id |-> NextId, at |-> now, outcome |-> outcome]}
          /\ log' = log \cup {[of |-> NextId, at |-> now,
                               kind |-> IF outcome = "ok" THEN "ok" ELSE "failure"]}
    /\ step' = IF Cardinality(back) + 1 = Recoveries THEN "judging" ELSE "recovering"
    /\ UNCHANGED <<program, now, term, span, cleared, rows, odd, force, hits,
                   window, written, verdict>>

-----------------------------------------------------------------------------
(* The window *)

Within(w, S) == {x \in S : w.start < x.at /\ x.at <= w.end}

Least(S) == CHOOSE x \in S : \A y \in S : x <= y
Greatest(S) == CHOOSE x \in S : \A y \in S : x >= y

\* The last Minute before the guard; it has to begin a guard after everything
\* began.
SelectWindow(watermark) ==
    LET faulty == program \notin Healthy
        first == IF faulty /\ term.from > span.begin THEN term.from ELSE span.begin
        last == IF faulty THEN Least({span.end, term.expires, cleared}) ELSE span.end
        end == Least({last - Guard, watermark})
    IN  [start |-> end - Minute, end |-> end,
         exists |-> end - Minute >= first + Guard
                    /\ (faulty => term.from < Least({term.expires, cleared}))]

\* Both kinds of records begin and end near the ends of the window.
Observable(w) ==
    \A S \in {Within(w, rows), Within(w, log)} :
        /\ S # {}
        /\ Least({x.at : x \in S}) <= w.start + Edge
        /\ Greatest({x.at : x \in S}) >= w.end - Edge

Watermark == Greatest({e.at : e \in log})

-----------------------------------------------------------------------------
(* What the programs ask of their observations *)

Logged(r, kinds, w) == \E e \in Within(w, log) : e.of = r.id /\ e.kind \in kinds

Clients(w, outcomes) == {r \in Within(w, rows) : r.outcome \in outcomes}

\* Every request has left something in the log.
Correlated == rows # {} /\ \A r \in rows \cup back : \E e \in log : e.of = r.id

\* Everything answered, in a log of nothing else.
HealthyProof(w) == \A r \in rows : r.outcome = "ok"

PaymentProof(w) ==
    /\ Cardinality(Within(w, rows)) >= MinRequests
    /\ Cardinality(Clients(w, {"error"})) >= MinAffected
    /\ Cardinality({e \in Within(w, log) :
           e.kind = "effect" /\ \E r \in Within(w, rows) : r.id = e.of}) >= MinEvents

\* A timeout counts with the client that failed of it.
TimeoutImpact(w) ==
    LET affected == Clients(w, {"error"})
    IN  /\ Cardinality(Within(w, rows)) >= MinRequests
        /\ Cardinality(affected) >= MinAffected
        /\ Cardinality({r \in affected : Logged(r, {"effect"}, w)}) >= MinEvents

\* Nine tenths are refused, and three quarters of those by the log too.
AuthImpact(w) ==
    LET refused == Clients(w, {"refused"})
        known == Cardinality({r \in refused : Logged(r, {"effect"}, w)})
    IN  /\ Cardinality(Within(w, rows)) >= MinRequests
        /\ 10 * Cardinality(refused) >= 9 * Cardinality(Within(w, rows))
        /\ known >= MinEvents /\ known >= (3 * Cardinality(refused)) \div 4

BurstImpact(w) ==
    LET refused == Clients(w, {"refused"})
    IN  /\ Cardinality(Within(w, rows)) >= MinRequests
        /\ 10 * Cardinality(refused) >= 9 * Cardinality(Within(w, rows))
        /\ 4 * Cardinality({r \in refused : Logged(r, {"effect"}, w)})
               >= 3 * Cardinality(refused)

\* Mutant of ServiceImpact: the log of the target is not asked.
ClientsAlone(w) ==
    LET affected == Clients(w, {"slow", "error"})
    IN  /\ Cardinality(Within(w, rows)) >= MinRequests
        /\ 2 * Cardinality(affected) >= Cardinality(Within(w, rows))

\* Half of the clients are slow, or fail, with the target.
ServiceImpact(w) ==
    LET outcome == IF program \in Delaying THEN "slow" ELSE "error"
        joint == {r \in Clients(w, {outcome}) : Logged(r, {"effect"}, w)}
    IN  /\ Cardinality(Within(w, rows)) >= MinRequests
        /\ Cardinality(joint) >= MinAffected
        /\ 2 * Cardinality(joint) >= Cardinality(Within(w, rows))

\* A sample a tick; only the fault takes the database above its baseline.
Samples == [at : force]
Pressed == {r.at : r \in {x \in rows : x.id \in hits}}

ResourceProof(w) ==
    LET failed == Clients(w, {"error"})
    IN  /\ Cardinality(Within(w, rows)) >= MinRequests
        /\ Cardinality(Within(w, Samples)) >= MinAffected
        /\ Cardinality({r \in failed : Logged(r, {"effect", "failure"}, w)})
               >= MinAffected
        /\ \E s \in Within(w, Samples) : s.at \in Pressed

OutageProof(w) ==
    LET failed == Clients(w, {"error"})
    IN  /\ Cardinality(Within(w, rows)) >= MinRequests
        /\ Cardinality(failed) >= MinAffected
        /\ Cardinality(failed) >= Cardinality(Within(w, rows)) \div 2
        /\ Cardinality({r \in failed : Logged(r, {"effect", "failure"}, w)})
               >= MinAffected

\* A load is an overload only if clients fail of it or the 95th percentile of
\* their latency is far from the healthy one.
OverloadProof(w) ==
    LET n == Cardinality(Within(w, rows))
        rank == (95 * n) \div 100 + 1
    IN  /\ n >= MinRequests
        /\ Cardinality({r \in Within(w, rows) :
               Logged(r, {"ok", "effect", "failure"}, w)}) >= MinAffected
        /\ \/ Cardinality({r \in Clients(w, {"error"}) : Logged(r, {"failure"}, w)})
                  >= MinAffected
           \/ Cardinality(Clients(w, {"slow"})) >= n + 1 - (IF rank < n THEN rank ELSE n)

Proof(w) ==
    \/ program \in Healthy /\ HealthyProof(w)
    \/ program = "payment" /\ PaymentProof(w)
    \/ program \in {"timeout", "trainedTimeout"} /\ TimeoutImpact(w)
    \/ program = "auth" /\ AuthImpact(w)
    \/ program = "burst" /\ BurstImpact(w)
    \/ program \in {"latency", "rejection", "trainedLatency"} /\ ServiceImpact(w)
    \/ program \in Physical /\ ResourceProof(w)
    \/ program = "outage" /\ OutageProof(w)
    \/ program = "load" /\ OverloadProof(w)

RecoveryProof ==
    /\ Cardinality(back) = Recoveries
    /\ \A r \in back : r.at > cleared /\ r.outcome = "ok"

\* All of it: what is asked of the requests, of the window and of the effect.
Convincing(w) ==
    /\ Correlated /\ (program \notin Healthy => RecoveryProof)
    /\ w.exists /\ Observable(w) /\ Proof(w)

-----------------------------------------------------------------------------
(* Filing: create-only directories whose last file is the manifest *)

HealthyFiles == <<"requests", "events", "candidate", "manifest">>
CalibrationFiles == <<"requests", "events", "candidate", "manifest">>
PilotFiles ==
    <<"requests", "recovery", "events", "candidate", "truth", "manifest">>
AuthFiles == <<"requests", "recovery", "events", "candidate", "truth", "manifest">>
EffectFiles == <<"requests", "recovery", "events", "candidate", "truth", "manifest">>
ResourceFiles ==
    <<"requests", "recovery", "events", "samples", "candidate", "truth", "manifest">>
LastTwoFiles ==
    <<"requests", "recovery", "events", "candidate", "truth", "manifest">>
RejectedResourceFiles == <<"requests", "recovery", "events", "samples", "manifest">>
RejectedLastTwoFiles == <<"requests", "recovery", "events", "rejected">>

Files ==
    CASE step = "rejecting" /\ program \in Physical -> RejectedResourceFiles
      [] step = "rejecting" /\ program \notin Physical -> RejectedLastTwoFiles
      [] step # "rejecting" /\ program = "healthy" -> HealthyFiles
      [] step # "rejecting" /\ program = "calibration" -> CalibrationFiles
      [] step # "rejecting" /\ program \in {"payment", "timeout"} -> PilotFiles
      [] step # "rejecting" /\ program = "auth" -> AuthFiles
      [] step # "rejecting" /\ program \in {"latency", "rejection"} -> EffectFiles
      [] step # "rejecting" /\ program \in {"outage", "load"} -> LastTwoFiles
      [] step # "rejecting" /\ program \in Physical -> ResourceFiles
      [] OTHER -> PilotFiles

\* Evidence that does not convince is kept apart by the programs that keep it.
Judge ==
    /\ step = "judging"
    /\ LET w == SelectWindow(Watermark)
           usable == Correlated /\ RecoveryProof /\ w.exists /\ Observable(w)
       IN  /\ window' = IF Correlated THEN [start |-> w.start, end |-> w.end] ELSE window
           /\ step' = IF Correlated /\ Convincing(w) THEN "saving"
                      ELSE IF \/ program \in {"outage", "load"}
                              \/ program \in {"pool", "lock"} /\ usable
                      THEN "rejecting" ELSE "stopped"
    /\ UNCHANGED <<program, now, term, span, cleared, rows, back, log, odd, force,
                   hits, written, verdict>>

Write ==
    /\ step \in {"saving", "rejecting"} /\ written < Len(Files)
    /\ written' = written + 1
    /\ UNCHANGED <<program, now, step, term, span, cleared, rows, back, log, odd,
                   force, hits, window, verdict>>

\* What was written stays when the program is killed, or a file fails.
CutOff ==
    /\ step = "saving" /\ written < Len(Files)
    /\ step' = "cut"
    /\ UNCHANGED <<program, now, term, span, cleared, rows, back, log, odd, force,
                   hits, window, written, verdict>>

-----------------------------------------------------------------------------
(* The auditors, each with its own idea of what to repeat *)

Again == SelectWindow(Watermark)

\* The window comes out as it is on file, and observations and recovery hold.
Repeats ==
    /\ Correlated /\ Again.exists
    /\ Again.start = window.start /\ Again.end = window.end
    /\ Observable(Again)

HealthyAudit == Repeats /\ HealthyProof(Again)

\* Mutant of CalibrationAudit: a window that just fits is refused.
CalibrationAuditInside ==
    /\ Correlated /\ HealthyProof(window)
    /\ window.start > span.begin + Guard
    /\ window.end < span.end - Guard /\ window.end <= Watermark
    /\ Observable(window)

\* This one takes the window that is on file, if it lies in the phase.
CalibrationAudit ==
    /\ Correlated /\ HealthyProof(window)
    /\ window.start >= span.begin + Guard
    /\ window.end <= span.end - Guard /\ window.end <= Watermark
    /\ Observable(window)

PaymentAudit == Repeats /\ PaymentProof(Again) /\ RecoveryProof
TimeoutAudit == Repeats /\ TimeoutImpact(Again) /\ RecoveryProof
AuthAudit == Repeats /\ AuthImpact(Again) /\ RecoveryProof
ServiceAudit == Repeats /\ ServiceImpact(Again) /\ RecoveryProof
ResourceAudit == Repeats /\ ResourceProof(Again) /\ RecoveryProof

LastTwoAudit ==
    /\ Repeats /\ RecoveryProof
    /\ \/ program = "outage" /\ OutageProof(Again)
       \/ program = "load" /\ OverloadProof(Again)

VerifiedAudit ==
    /\ Repeats /\ RecoveryProof
    /\ \/ program = "trainedTimeout" /\ TimeoutImpact(Again)
       \/ program = "trainedLatency" /\ ServiceImpact(Again)
       \/ program = "trainedPool" /\ ResourceProof(Again)

BurstAudit == Repeats /\ RecoveryProof /\ BurstImpact(Again)

\* Which of them the program's evidence goes to.
AuditPilot ==
    \/ program = "healthy" /\ HealthyAudit
    \/ program = "calibration" /\ CalibrationAudit
    \/ program = "payment" /\ PaymentAudit
    \/ program = "timeout" /\ TimeoutAudit
    \/ program = "auth" /\ AuthAudit
    \/ program \in {"latency", "rejection"} /\ ServiceAudit
    \/ program \in {"pool", "lock"} /\ ResourceAudit
    \/ program \in {"outage", "load"} /\ LastTwoAudit
    \/ program \in {"trainedTimeout", "trainedLatency", "trainedPool"} /\ VerifiedAudit
    \/ program = "burst" /\ BurstAudit

\* Without its manifest nothing is looked at.
Audit ==
    /\ step = "cut" \/ (step = "saving" /\ written = Len(Files))
    /\ verdict = "none"
    /\ verdict' = IF step = "saving" /\ AuditPilot THEN "valid" ELSE "refused"
    /\ UNCHANGED <<program, now, step, term, span, cleared, rows, back, log, odd,
                   force, hits, window, written>>

\* Rejected evidence can be looked at again, and stays rejected.
Replay ==
    /\ step = "rejecting" /\ written = Len(Files) /\ program \in {"pool", "lock"}
    /\ verdict = "none" /\ window.end - window.start = Minute
    /\ verdict' = "rejected"
    /\ UNCHANGED <<program, now, step, term, span, cleared, rows, back, log, odd,
                   force, hits, window, written>>

Next ==
    \/ Tick \/ Activate \/ Begin \/ Work \/ Finish \/ Leave \/ Recover
    \/ Judge \/ Write \/ CutOff \/ Audit \/ Replay

-----------------------------------------------------------------------------
(* Properties *)

\* Evidence an auditor calls valid shows its own fault and nothing else: the
\* window lies where the fault was in force, clients that the gate counts met
\* the fault inside it, and what was sent afterwards went through after it.
ValidShowsTheFault ==
    verdict = "valid" /\ program \notin Healthy =>
        LET met == {r \in Within(window, rows) : r.id \in hits}
        IN  /\ (window.start + 1)..window.end \subseteq force
            /\ met # {}
            /\ program \in {"payment", "timeout", "trainedTimeout"}
                  => Cardinality(met) >= MinEvents
            /\ program \in {"latency", "rejection", "trainedLatency"}
                  => 2 * Cardinality(met) >= Minute
            /\ \A r \in back : r.outcome = "ok" /\ \A t \in force : r.at > t

\* An auditor never disagrees with the program about whole evidence.
AuditAgrees == verdict = "refused" => step = "cut"
=============================================================================
