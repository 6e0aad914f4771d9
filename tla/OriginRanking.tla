--------------------------- MODULE OriginRanking ---------------------------
(***************************************************************************)
(* Where an incident comes from.  The events of a healthy stretch and of   *)
(* the stretch under suspicion are compared: how often each service and    *)
(* each dependency failed, how slow it was and in which words, gives every *)
(* service, dependency and the database a score; then rules about how      *)
(* failures spread raise one or two of them, and the highest leads.  The   *)
(* code has the algorithm two times in the same words, for the live        *)
(* gateway and for the offline report on recorded runs.                    *)
(*                                                                         *)
(* The events are those of the research path: the gateway logs in, looks   *)
(* the account up, and has the transaction service validate, pay and post. *)
(* An event is kept only as far as the ranking can tell it from another.   *)
(* A rate is in thousandths and a score in millionths, both rounded down;  *)
(* of latencies, only whether a 95th percentile is as usual, far above it  *)
(* because all waited for a timeout, or anywhere between because some did. *)
(***************************************************************************)
EXTENDS Integers, FiniteSets, SequencesExt

CONSTANTS
    MaxBefore,   \* bound: requests of the healthy stretch
    MaxCurrent,  \* bound: requests of the other
    MaxRefused,  \* bound: of them, those that ask for an unknown account
    Mixed        \* the latency of a stream in which some waited and others did not

\* There are healthy requests.
ASSUME RankAssumption ==
    /\ {MaxBefore, MaxCurrent, MaxRefused} \subseteq Nat
    /\ MaxRefused < MaxBefore

VARIABLES
    fault,     \* the trouble there is, the only one
    before,    \* before[o]: requests of the healthy stretch that went as o
    current,   \* current[o]: of the stretch under suspicion
    first,     \* the first of these that did not go well
    evidence,  \* what they show of every candidate, or NoEvidence
    scores,    \* the score of every candidate, before the rules
    ranking    \* the likeliest three, or nothing yet

rankVars == <<fault, before, current, first, evidence, scores, ranking>>

Names == {"gateway", "authentication", "account", "transaction", "payment", "ledger"}

\* The calls of a request in the order they are made, with the calls each is
\* made within.
Calls == <<
    [from |-> "gateway", to |-> "authentication", within |-> {}],
    [from |-> "gateway", to |-> "account", within |-> {}],
    [from |-> "gateway", to |-> "transaction", within |-> {}],
    [from |-> "transaction", to |-> "account", within |-> {3}],
    [from |-> "transaction", to |-> "payment", within |-> {3}],
    [from |-> "payment", to |-> "ledger", within |-> {3, 5}],
    [from |-> "transaction", to |-> "ledger", within |-> {3}] >>

\* The dependency each is made along, by its name.
EdgeOf == <<
    "gateway->authentication", "gateway->account", "gateway->transaction",
    "transaction->account", "transaction->payment", "payment->ledger",
    "transaction->ledger" >>
EdgeNames == {EdgeOf[c] : c \in DOMAIN Calls}
CallOf == [e \in EdgeNames |-> CHOOSE c \in DOMAIN Calls : EdgeOf[c] = e]

\* By name, the order of equal scores.
Candidates == <<
    "account", "authentication", "gateway", "gateway->account",
    "gateway->authentication", "gateway->transaction", "ledger", "payment",
    "payment->ledger", "postgresql", "transaction", "transaction->account",
    "transaction->ledger", "transaction->payment" >>

Place(c) == CHOOSE i \in DOMAIN Candidates : Candidates[i] = c
Highest(S) == IF S = {} THEN 0 ELSE Max(S)
NoEvidence == [service |-> <<>>, edge |-> <<>>, database |-> <<>>]

\* What may happen to a call: its caller waits in vain, finds nobody, or is
\* told 500, 503 or no; or the callee fails, of the database, a lock or for no
\* stated reason, when the caller has long given up.
Troubles == {"timeout", "connect", "error", "unavailable", "database", "locked", "late"}

Fine == <<0, "none">>
Refused == <<2, "refused">>
Outcomes == {Fine, Refused} \cup ((DOMAIN Calls) \X Troubles)

-----------------------------------------------------------------------------
(* The events a request leaves *)

Made(o) == {c \in DOMAIN Calls : o = Fine \/ c <= o[1]}
Broken(o) == IF o = Fine THEN {} ELSE {o[1]} \cup Calls[o[1]].within

\* Callers of callers run into their own timeouts, all of the same length.
Slow(o) == o[2] \in {"timeout", "locked", "late"}

Event(of, to, failed, word, slow) ==
    [of |-> of, to |-> to, failed |-> failed, word |-> word, slow |-> slow]

\* In a set, equal events need numbers.
Row(n, event) == [n |-> n, event |-> event]

\* What the caller writes of a broken call, and what of one that encloses it.
Word(o, c) ==
    IF Slow(o) THEN "timeout"
    ELSE IF o[2] = "connect" /\ c = o[1] THEN "connect"
    ELSE IF o[2] = "unavailable" /\ c = o[1] THEN "503"
    ELSE IF o[2] = "connect" /\ c = 3 /\ o[1] \in {4, 5, 7} THEN "503"
    ELSE "none"

CallEvents(o) ==
    {LET failed == c \in Broken(o)
     IN  Row(10 * c, Event(Calls[c].from, Calls[c].to, failed,
                           IF failed THEN Word(o, c) ELSE "none", failed /\ Slow(o))) :
     c \in Made(o)}

\* What a callee writes: that it did what it was asked, and that it answered.
OwnEvents(o, c) ==
    LET s == Calls[c].to
        ok == Event(s, "none", FALSE, "none", FALSE)
        ko(word, slow) == Event(s, "none", TRUE, word, slow)
    IN  IF c \notin Broken(o)
          THEN IF s = "transaction" THEN <<ok, ok, ok>> ELSE <<ok, ok>>
        ELSE IF c # o[1] /\ s = "transaction"
          THEN <<ok, ko("none", FALSE), ko("none", Slow(o))>>
        ELSE IF c # o[1] THEN <<ko("none", Slow(o))>>
        ELSE IF o[2] \in {"timeout", "connect"} THEN <<>>
        ELSE IF o = Refused THEN <<ko("none", FALSE), ko("none", FALSE)>>
        ELSE <<ko(o[2], Slow(o))>>

Own(o, c) == {Row(10 * c + k, OwnEvents(o, c)[k]) : k \in DOMAIN OwnEvents(o, c)}

OfGateway(o) ==
    LET e(failed, slow) == Event("gateway", "none", failed, "none", slow)
    IN  {Row(1, e(FALSE, FALSE)), Row(2, e(o # Fine, FALSE)), Row(3, e(o # Fine, Slow(o)))}

EventsOf ==
    [o \in Outcomes |-> OfGateway(o) \cup CallEvents(o) \cup UNION {Own(o, c) : c \in Made(o)}]

-----------------------------------------------------------------------------
(* Evidence *)

\* The streams of events that are looked at.
Streams == {<<"emitted", s>> : s \in Names} \cup {<<"inbound", s>> : s \in Names}
           \cup {<<"edge", e>> : e \in EdgeNames} \cup {<<"all", "events">>}

In(event, stream) ==
    \/ stream[1] = "emitted" /\ event.of = stream[2]
    \/ stream[1] = "inbound" /\ event.to = stream[2]
    \/ stream[1] = "edge"
          /\ \E c \in DOMAIN Calls : /\ EdgeOf[c] = stream[2]
                                     /\ Calls[c].from = event.of /\ Calls[c].to = event.to
    \/ stream[1] = "all"

\* The 95th percentile may pass over those that waited, or lie between.
ASSUME MixedAssumption == \A x \in Streams : Mixed[x] \in 231..1000

Marks == {"any", "failed", "slow", "timeout", "connect", "503", "database", "locked"}

Marked(event, mark) ==
    \/ mark = "any"
    \/ mark = "failed" /\ event.failed
    \/ mark = "slow" /\ event.slow
    \/ mark = event.word

Tally ==
    [o \in Outcomes |-> [x \in Streams |-> [m \in Marks |->
        Cardinality({r \in EventsOf[o] : In(r.event, x) /\ Marked(r.event, m)})]]]

Count(bag, x, m) ==
    MapThenSumSet(LAMBDA o : bag[o] * Tally[o][x][m], {o \in Outcomes : bag[o] > 0})

Rate(bag, x, m) ==
    LET n == Count(bag, x, "any")
    IN  IF n = 0 THEN 0 ELSE (1000 * Count(bag, x, m)) \div n

Increase(x, m) ==
    LET more == Rate(current, x, m) - Rate(before, x, m)
    IN  IF more > 0 THEN more ELSE 0

\* ln 2 / 3 when nothing has changed.
Latency(x) ==
    LET n == Count(current, x, "any")
        waited == Count(current, x, "slow")
    IN  IF n = 0 THEN 0
        ELSE IF waited = 0 THEN 231
        ELSE IF waited = n THEN 1000 ELSE Mixed[x]

ServiceEvidence ==
    [s \in Names |->
        [emitted |-> Increase(<<"emitted", s>>, "failed"),
         inbound |-> Increase(<<"inbound", s>>, "failed"),
         latency |-> Latency(<<"emitted", s>>),
         locked |-> Rate(current, <<"emitted", s>>, "locked")]]

EdgeEvidence ==
    [e \in EdgeNames |->
        LET x == <<"edge", e>>
        IN  [failure |-> Increase(x, "failed"),
             latency |-> Latency(x),
             timeout |-> Rate(current, x, "timeout"),
             connection |-> Rate(current, x, "connect"),
             status503 |-> Rate(current, x, "503")]]

DatabaseEvidence ==
    [errors |-> Increase(<<"all", "events">>, "database"),
     affected |-> Cardinality({s \in Names :
                      Count(current, <<"emitted", s>>, "failed") > 0})]

\* What an edge shows of the transport.
Transport(ev) == Max({ev.timeout, ev.connection, ev.status503})
Unreached(ev) == Max({ev.connection, ev.status503})

ServiceScore(ev) == 450 * ev.emitted + 350 * ev.inbound + 200 * ev.latency

EdgeScore(ev) ==
    LET all == 650 * ev.failure + 250 * ev.latency + 100 * Transport(ev)
    IN  IF Transport(ev) > 0 THEN all ELSE (72 * all) \div 100

DatabaseScore(ev) == 750 * ev.errors + 250 * Min({1000, (1000 * ev.affected) \div 3})

\* A candidate that failed in the first request that failed gets a bonus, one
\* that failed later another that has decayed for five seconds.
Bonus(x) ==
    IF first = Fine \/ Count(current, x, "failed") = 0 THEN 0
    ELSE IF Tally[first][x]["failed"] > 0 THEN 50000 ELSE 18393

\* A service fails in what it emits or in what others say of it.
BonusOf(s) == Highest({Bonus(<<"emitted", s>>), Bonus(<<"inbound", s>>)})

-----------------------------------------------------------------------------
(* The rules *)

\* The longest way from a root.
Depth == [gateway |-> 0, authentication |-> 1, transaction |-> 1, account |-> 2,
          payment |-> 2, ledger |-> 3]

\* Of keys, compared like tuples in Python, the greatest.
Leading(keys) ==
    CHOOSE k \in keys : \A l \in keys :
        \E i \in 1..Len(k) :
            /\ \A j \in 1..(i - 1) : k[j] = l[j]
            /\ k[i] > l[i] \/ (i = Len(k) /\ k[i] = l[i])

Service(s) == evidence.service[s]
Edge(e) == evidence.edge[e]
Caller(e) == Calls[CallOf[e]].from
Callee(e) == Calls[CallOf[e]].to
Into(s) == {e \in EdgeNames : Callee(e) = s}

\* Errors of the database, or logins that all wait in vain though nobody else
\* fails.
DatabaseFails ==
    \/ evidence.database.errors >= 100
    \/ LET auth == Service("authentication")
           login == Edge("gateway->authentication")
       IN  /\ auth.emitted >= 980 /\ auth.inbound >= 980 /\ auth.latency >= 950
           /\ login.failure >= 980 /\ login.timeout >= 750 /\ login.connection <= 100
           /\ evidence.database.affected <= 2

\* Everything is slow and next to nothing fails.
BroadLoad ==
    /\ Cardinality({s \in Names : Service(s).latency > 500}) >= 5
    /\ Cardinality({e \in EdgeNames : Edge(e).latency > 500}) >= Cardinality(EdgeNames) - 1
    /\ Cardinality({e \in EdgeNames : Edge(e).failure > 100}) <= 1
    /\ Service("gateway").emitted < 520

Strength(s) == Highest({Unreached(Edge(e)) : e \in Into(s)})

\* Callees that calls do not reach and that say nothing.
Unavailable ==
    {s \in Names : /\ Service(s).inbound >= 900 /\ Service(s).emitted <= 50
                   /\ Service(s).latency <= 150 /\ Strength(s) >= 500}

\* Dependencies that time out while the callee has nothing to report.
TimedOut ==
    {e \in EdgeNames : /\ Edge(e).failure >= 500 /\ Edge(e).timeout >= 250
                       /\ Unreached(Edge(e)) < 250 /\ Service(Callee(e)).emitted <= 50}

\* Callees that are slow and fail in both directions.
Exhausted ==
    {s \in Names : /\ Service(s).inbound >= 800 /\ Service(s).emitted >= 200
                   /\ Service(s).latency >= 800
                   /\ Highest({Edge(e).failure : e \in Into(s)}) >= 800
                   /\ Highest({Edge(e).connection : e \in Into(s)}) < 250}

\* Dependencies that fail though the transport is sound.
Erring ==
    {e \in EdgeNames : /\ Edge(e).failure >= 150 /\ Transport(Edge(e)) <= 50
                       /\ Service(Callee(e)).inbound >= 100}

\* Of each kind, the deepest in the graph.
MostUnavailable ==
    Candidates[Leading({<<Depth[s], Strength(s), Place(s)>> : s \in Unavailable})[3]]

DeepestTimedOut ==
    Candidates[Leading({<<Depth[Caller(e)], Depth[Callee(e)], Edge(e).timeout, Place(e)>> :
                        e \in TimedOut})[4]]

DeepestExhausted ==
    Candidates[Leading({<<Depth[s], Service(s).locked,
                          Service(s).inbound * Service(s).emitted, Place(s)>> :
                        s \in Exhausted})[4]]

\* Mutant: the shallowest.
ShallowestErring ==
    Candidates[Leading({<<-Depth[Caller(e)], Edge(e).failure, Depth[Callee(e)],
                          Place(Callee(e))>> : e \in Erring})[4]]
DeepestErring ==
    Candidates[Leading({<<Depth[Caller(e)], Edge(e).failure, Depth[Callee(e)],
                          Place(Callee(e))>> : e \in Erring})[4]]

\* The first rule that applies decides; the last two may both apply.
ResourceBoost ==
    IF Exhausted = {} THEN {}
    ELSE {<<DeepestExhausted,
            IF Service(DeepestExhausted).locked >= 50 THEN 1750000 ELSE 1350000>>}
ErrorBoost == IF Erring = {} THEN {} ELSE {<<DeepestErring, 900000>>}

Boosts ==
    IF DatabaseFails THEN {<<"postgresql", 3000000>>}
    ELSE IF BroadLoad THEN {<<"gateway", 3000000>>}
    ELSE IF Unavailable # {} THEN {<<MostUnavailable, 2000000>>}
    ELSE IF TimedOut # {} THEN {<<DeepestTimedOut, 1300000>>}
    ELSE ResourceBoost \cup ErrorBoost

-----------------------------------------------------------------------------
(* What happens *)

Nobody == [o \in Outcomes |-> 0]
InAll(bag) == MapThenSumSet(LAMBDA o : bag[o], Outcomes)

\* One fault at a time, as its lease has it; the healthy stretch has none.
RankInit ==
    /\ fault \in (DOMAIN Calls) \X Troubles
    /\ \E n \in 0..MaxRefused :
         before = [Nobody EXCEPT ![Fine] = MaxBefore - n, ![Refused] = n]
    /\ current = Nobody /\ first = Fine
    /\ evidence = NoEvidence /\ scores = <<>> /\ ranking = <<>>

\* A request of the stretch ends: the fault hits it, or not.
Happen(o) ==
    /\ evidence = NoEvidence /\ InAll(current) < MaxCurrent
    /\ o = Refused => current[o] < MaxRefused
    /\ current' = [current EXCEPT ![o] = @ + 1]
    /\ first' = IF first = Fine THEN o ELSE first
    /\ UNCHANGED <<fault, before, evidence, scores, ranking>>

\* rank_origins: the events of both stretches give every candidate its evidence
\* and its first score.
Measure ==
    /\ evidence = NoEvidence /\ InAll(current) = MaxCurrent
    /\ evidence' = [service |-> ServiceEvidence, edge |-> EdgeEvidence,
                    database |-> DatabaseEvidence]
    /\ scores' = [i \in DOMAIN Candidates |->
         LET c == Candidates[i]
         IN  IF c \in Names THEN ServiceScore(evidence'.service[c]) + BonusOf(c)
             ELSE IF c \in EdgeNames THEN EdgeScore(evidence'.edge[c]) + Bonus(<<"edge", c>>)
             ELSE DatabaseScore(evidence'.database) + Bonus(<<"all", "events">>)]
    /\ UNCHANGED <<fault, before, current, first, ranking>>

\* _causal_rerank: the rules raise scores, and the three highest are reported.
Rank ==
    /\ evidence # NoEvidence /\ ranking = <<>>
    /\ LET boosts == Boosts
           total == [i \in DOMAIN Candidates |->
                       scores[i] + Highest({b[2] : b \in {x \in boosts :
                                                          x[1] = Candidates[i]}})]
           above(i) == {j \in DOMAIN Candidates :
                          total[j] > total[i] \/ (total[j] = total[i] /\ j < i)}
       IN  ranking' = [n \in 1..3 |->
                         Candidates[CHOOSE i \in DOMAIN Candidates :
                                        Cardinality(above(i)) = n - 1]]
    /\ UNCHANGED <<fault, before, current, first, evidence, scores>>

RankStep ==
    \/ \E o \in {Fine, Refused, fault} : Happen(o)
    \/ Measure \/ Rank

-----------------------------------------------------------------------------
(* Properties *)

\* Where a trouble comes from: the dependency, if the caller waits in vain; the
\* database, also if it keeps every login waiting; otherwise the callee.
Origin(o) ==
    IF o[2] = "timeout" THEN EdgeOf[o[1]]
    ELSE IF o[2] = "database" \/ o = <<1, "late">> THEN "postgresql"
    ELSE Calls[o[1]].to

\* The first call of a request to a callee; if that is the one in trouble, later
\* ones are not made.
FirstCall(c) == \A d \in 1..(c - 1) : Calls[d].to # Calls[c].to

\* A fault that shows clearly: dependencies that time out more often than not,
\* errors with a status of 500 in a fifth of the requests (of which the callee
\* answers two calls each, and a tenth has to fail), a database that fails at the
\* first service, and a service that its first caller never reaches, or never in
\* time.
Clear ==
    LET c == fault[1]
        hits == current[fault]
    IN  /\ hits > 0 /\ before[Refused] = 0 /\ current[Refused] = 0
        /\ \/ fault[2] = "timeout" /\ 2 * hits > MaxCurrent
           \/ fault[2] = "error" /\ 5 * hits >= MaxCurrent
           \/ fault[2] = "database" /\ hits = MaxCurrent /\ c \in {1, 2}
           \/ fault[2] \in {"connect", "late"} /\ hits = MaxCurrent /\ FirstCall(c)
           \/ fault[2] = "locked" /\ hits = MaxCurrent /\ FirstCall(c) /\ c # 1
           \/ fault[2] = "unavailable" /\ hits = MaxCurrent /\ c \in {1, 2, 3}

\* A fault that shows clearly is located: its origin is ranked first, not a
\* caller that only passes the failure on, nor the dependency in between.  Not
\* so for a payment or ledger service that answers 503: it reports its own
\* failures, so that it does not count as unavailable, and its caller leads.
OriginLeads ==
    ranking # <<>> /\ Clear => ranking[1] = Origin(fault)

\* Where one of the first four rules applies, nothing else that the candidates
\* show, however bad it looks, puts another one first.
RulesDecide ==
    ranking # <<>> /\ (DatabaseFails \/ BroadLoad \/ Unavailable # {} \/ TimedOut # {})
      => ranking[1] =
           IF DatabaseFails THEN "postgresql"
           ELSE IF BroadLoad THEN "gateway"
           ELSE IF Unavailable # {} THEN MostUnavailable
           ELSE DeepestTimedOut
=============================================================================
