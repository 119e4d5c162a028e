------------------------------ MODULE Overview ------------------------------
(***************************************************************************)
(* The overview page (app/page.tsx): two pollers that do not wait for      *)
(* their own last call, one of which falls back to two other endpoints     *)
(* when the statistics are unavailable.                                    *)
(*                                                                         *)
(* What an endpoint answers is the version of the server's list of runs it *)
(* was read from; the numbers shown are derived from the versions kept.    *)
(***************************************************************************)
EXTENDS OverviewMetrics

CONSTANTS
  History,     \* the server's list of runs, version by version
  Outages,     \* the sets of endpoints that can be unavailable at once
  RecentLimit, \* runs fetchRuns asks for (10 in the code; the fallback asks for SampleLimit)
  MaxStatsCalls, \* bound on the overlapping calls of fetchStats
  MaxRunsCalls,  \* and of fetchRuns
  MaxChanges   \* bound on the changes of what is unavailable

Endpoints == {"stats", "queue", "runs"}
Versions == 1..Len(History)

ASSUME OverviewAssumption ==
  /\ RecentLimit \in Nat \ {0}
  /\ MaxStatsCalls \in Nat \ {0} /\ MaxRunsCalls \in Nat \ {0} /\ MaxChanges \in Nat
  /\ Outages \subseteq SUBSET Endpoints
  /\ History \in Seq(Seq(Runs)) /\ History # <<>>

Null == 0       \* a state that is null; in an answer, a failed request
Answers == Versions \cup {Null}
StatsSlots == 1..MaxStatsCalls
RunsSlots == 1..MaxRunsCalls

VARIABLES
  version, down, changes,              \* the server
  statsCall, runsCall,                 \* calls under way, by slot
  stats, statsLoading, statsError, statsTimed,
  runs, runsLoading, runsError,
  queueFallback,  \* not null: the queue's depth is not one of the metrics
  fallbackRuns, fallbackActive,
  reload                               \* Retry was pressed, the effect not yet rerun

serverVars == <<version, down, changes>>
callVars == <<statsCall, runsCall>>
fallbackVars == <<queueFallback, fallbackRuns, fallbackActive>>
statsVars == <<stats, statsLoading, statsError, statsTimed, fallbackVars>>
runsVars == <<runs, runsLoading, runsError>>
vars == <<serverVars, callVars, statsVars, runsVars, reload>>

\* asked: the request under way; got: its answer has been read.  has: the
\* call's hasFallbackData.
Idle == [asked |-> "none", got |-> FALSE, answer |-> Null, has |-> FALSE]
Request(endpoint, has) == [Idle EXCEPT !.asked = endpoint, !.has = has]
CallState ==
  {call \in [asked : Endpoints \cup {"none"}, got : BOOLEAN, answer : Answers, has : BOOLEAN] :
     ~call.got => call.answer = Null}

-----------------------------------------------------------------------------
(* The server.                                                             *)

NewRuns ==
  /\ version < Len(History)
  /\ version' = version + 1
  /\ UNCHANGED <<down, changes, callVars, statsVars, runsVars, reload>>

OutageChanges ==
  /\ changes < MaxChanges
  /\ changes' = changes + 1
  /\ down' \in Outages \ {down}
  /\ UNCHANGED <<version, callVars, statsVars, runsVars, reload>>

Answered(call) ==
  [call EXCEPT !.got = TRUE, !.answer = IF call.asked \in down THEN Null ELSE version]

ServeStatsCall(c) ==
  /\ statsCall[c].asked # "none" /\ ~statsCall[c].got
  /\ statsCall' = [statsCall EXCEPT ![c] = Answered(@)]
  /\ UNCHANGED <<serverVars, runsCall, statsVars, runsVars, reload>>

ServeRunsCall(c) ==
  /\ runsCall[c].asked # "none" /\ ~runsCall[c].got
  /\ runsCall' = [runsCall EXCEPT ![c] = Answered(@)]
  /\ UNCHANGED <<serverVars, statsCall, statsVars, runsVars, reload>>

-----------------------------------------------------------------------------
(* fetchStats, from one await to the next.                                 *)

Got(call, endpoint) == call.asked = endpoint /\ call.got

\* Seeded fault: a success leaves the error of the call before.
StatsArriveKeepingError(c) ==
  /\ Got(statsCall[c], "stats") /\ statsCall[c].answer # Null
  /\ stats' = statsCall[c].answer
  /\ queueFallback' = FALSE /\ fallbackRuns' = Null
  /\ fallbackActive' = FALSE /\ statsTimed' = TRUE /\ statsLoading' = FALSE
  /\ statsCall' = [statsCall EXCEPT ![c] = Idle]
  /\ UNCHANGED <<serverVars, runsCall, statsError, runsVars, reload>>

StatsArrive(c) ==
  /\ Got(statsCall[c], "stats") /\ statsCall[c].answer # Null
  /\ stats' = statsCall[c].answer /\ statsError' = FALSE
  /\ queueFallback' = FALSE /\ fallbackRuns' = Null
  /\ fallbackActive' = FALSE /\ statsTimed' = TRUE /\ statsLoading' = FALSE
  /\ statsCall' = [statsCall EXCEPT ![c] = Idle]
  /\ UNCHANGED <<serverVars, runsCall, runsVars, reload>>

StatsFail(c) ==
  /\ Got(statsCall[c], "stats") /\ statsCall[c].answer = Null
  /\ statsError' = TRUE
  /\ statsCall' = [statsCall EXCEPT ![c] = Request("queue", FALSE)]
  /\ UNCHANGED <<serverVars, runsCall, stats, statsLoading, statsTimed, fallbackVars,
                 runsVars, reload>>

\* Seeded fault: the queue's answer is still there when the runs are asked for.
QueueFallbackEndsReusing(c) ==
  /\ Got(statsCall[c], "queue")
  /\ LET answer == statsCall[c].answer
     IN /\ queueFallback' = (queueFallback \/ answer # Null)
        /\ statsCall' = [statsCall EXCEPT ![c].asked = "runs", ![c].got = FALSE,
                                          ![c].has = answer # Null]
  /\ UNCHANGED <<serverVars, runsCall, stats, statsLoading, statsError, statsTimed,
                 fallbackRuns, fallbackActive, runsVars, reload>>

QueueFallbackEnds(c) ==
  /\ Got(statsCall[c], "queue")
  /\ LET answer == statsCall[c].answer
     IN /\ queueFallback' = (queueFallback \/ answer # Null)
        /\ statsCall' = [statsCall EXCEPT ![c] = Request("runs", answer # Null)]
  /\ UNCHANGED <<serverVars, runsCall, stats, statsLoading, statsError, statsTimed,
                 fallbackRuns, fallbackActive, runsVars, reload>>

RunsFallbackEnds(c) ==
  /\ Got(statsCall[c], "runs")
  /\ LET answer == statsCall[c].answer
         hasFallbackData == statsCall[c].has \/ answer # Null
     IN /\ fallbackRuns' = IF answer # Null THEN answer ELSE fallbackRuns
        /\ fallbackActive' = hasFallbackData
        /\ statsTimed' = (statsTimed \/ hasFallbackData)
  /\ statsLoading' = FALSE
  /\ statsCall' = [statsCall EXCEPT ![c] = Idle]
  /\ UNCHANGED <<serverVars, runsCall, stats, statsError, queueFallback, runsVars, reload>>

-----------------------------------------------------------------------------
(* fetchRuns.                                                              *)

RunsArrive(c) ==
  /\ Got(runsCall[c], "runs")
  /\ LET answer == runsCall[c].answer
     IN /\ runs' = IF answer # Null THEN answer ELSE runs
        /\ runsError' = (answer = Null)
  /\ runsLoading' = FALSE
  /\ runsCall' = [runsCall EXCEPT ![c] = Idle]
  /\ UNCHANGED <<serverVars, statsCall, statsVars, reload>>

-----------------------------------------------------------------------------
(* The effect with its two intervals, and the Retry button.                *)

FirstFree(calls, c) == calls[c].asked = "none" /\ \A d \in 1..(c - 1) : calls[d].asked # "none"

StatsInterval ==
  /\ \E c \in StatsSlots : /\ FirstFree(statsCall, c)
                           /\ statsCall' = [statsCall EXCEPT ![c] = Request("stats", FALSE)]
  /\ UNCHANGED <<serverVars, runsCall, statsVars, runsVars, reload>>

RunsInterval ==
  /\ \E c \in RunsSlots : /\ FirstFree(runsCall, c)
                          /\ runsCall' = [runsCall EXCEPT ![c] = Request("runs", FALSE)]
  /\ UNCHANGED <<serverVars, statsCall, statsVars, runsVars, reload>>

Calls(slots, endpoint) == [c \in slots |-> IF c = 1 THEN Request(endpoint, FALSE) ELSE Idle]

\* The cleanup cancels the calls under way: none of them sets anything more.
EffectRuns ==
  /\ reload
  /\ reload' = FALSE
  /\ statsCall' = Calls(StatsSlots, "stats") /\ runsCall' = Calls(RunsSlots, "runs")
  /\ UNCHANGED <<serverVars, statsVars, runsVars>>

IsInitialLoading ==
  statsLoading /\ stats = Null /\ ~queueFallback /\ runsLoading /\ runs = Null

Flags == [initialLoading |-> IsInitialLoading, statsError |-> statsError,
          runsError |-> runsError, fallbackActive |-> fallbackActive,
          hasQueue |-> queueFallback, hasFallbackRuns |-> fallbackRuns # Null]

RefreshStatus == ResolveRefreshStatus(Flags)
ErrorBanner   == ResolveErrorBanner(Flags)

Retry ==
  /\ ErrorBanner # "none" /\ ~reload
  /\ reload' = TRUE /\ statsLoading' = TRUE /\ runsLoading' = TRUE
  /\ UNCHANGED <<serverVars, callVars, stats, statsError, statsTimed, fallbackVars,
                 runs, runsError>>

-----------------------------------------------------------------------------
(* What the page shows.                                                    *)

Batch(v, limit) == IF v = Null THEN <<>> ELSE AtMost(History[v], limit)
FallbackBatch == Batch(fallbackRuns, SampleLimit)

FallbackMetrics ==
  CalculateRecentMetrics(IF FallbackBatch # <<>> THEN FallbackBatch
                         ELSE Batch(runs, RecentLimit), SampleLimit)

ShownMetrics ==
  IF stats # Null THEN GetRunStats(History[stats], SampleLimit) ELSE FallbackMetrics

-----------------------------------------------------------------------------
Init ==
  /\ version = 1 /\ down \in Outages /\ changes = 0
  /\ statsCall = Calls(StatsSlots, "stats") /\ runsCall = Calls(RunsSlots, "runs")
  /\ stats = Null /\ statsLoading = TRUE /\ statsError = FALSE /\ statsTimed = FALSE
  /\ runs = Null /\ runsLoading = TRUE /\ runsError = FALSE
  /\ queueFallback = FALSE /\ fallbackRuns = Null /\ fallbackActive = FALSE
  /\ reload = FALSE

StatsStep(c) ==
  \/ ServeStatsCall(c) \/ StatsArrive(c) \/ StatsFail(c)
  \/ QueueFallbackEnds(c) \/ RunsFallbackEnds(c)

RunsStep(c) == ServeRunsCall(c) \/ RunsArrive(c)

Next ==
  \/ NewRuns \/ OutageChanges
  \/ StatsInterval \/ RunsInterval \/ EffectRuns \/ Retry
  \/ \E c \in StatsSlots : StatsStep(c)
  \/ \E c \in RunsSlots : RunsStep(c)

Spec == Init /\ [][Next]_vars

\* Requests end, one way or the other, intervals go off and React runs its
\* effects; nothing is assumed of the server's state or of the button.
Fairness ==
  /\ WF_vars(StatsInterval) /\ WF_vars(RunsInterval) /\ WF_vars(EffectRuns)
  /\ \A c \in StatsSlots : WF_vars(StatsStep(c))
  /\ \A c \in RunsSlots : WF_vars(RunsStep(c))

FairSpec == Spec /\ Fairness

-----------------------------------------------------------------------------
(* Properties.                                                             *)

TypeOK ==
  /\ version \in Versions /\ down \in Outages /\ changes \in 0..MaxChanges
  /\ statsCall \in [StatsSlots -> CallState] /\ runsCall \in [RunsSlots -> CallState]
  /\ stats \in Answers /\ runs \in Answers
  /\ fallbackRuns \in Answers
  /\ statsLoading \in BOOLEAN /\ statsError \in BOOLEAN /\ statsTimed \in BOOLEAN
  /\ runsLoading \in BOOLEAN /\ runsError \in BOOLEAN /\ reload \in BOOLEAN
  /\ queueFallback \in BOOLEAN /\ fallbackActive \in BOOLEAN

\* Numbers computed in the browser are those the daemon would have given for
\* the same runs: as soon as the batch holds as large a sample they are equal,
\* and the failures listed are those of the daemon's list that the batch
\* reaches (overview-metrics.ts:26-121 against store.go, GetRunStats).
FallbackAgreesWithDaemon ==
  stats = Null /\ fallbackRuns # Null /\ FallbackBatch # <<>> =>
    LET shown == ShownMetrics
        daemon == GetRunStats(History[fallbackRuns], SampleLimit)
    IN /\ shown.completed <= daemon.completed
       /\ shown.completed = daemon.completed =>
            /\ shown.passRate = daemon.passRate
            /\ shown.timed = daemon.timed /\ shown.mean = daemon.mean
       /\ shown.active <= daemon.active
       /\ shown.failures = daemon.failures \cap (DOMAIN FallbackBatch)

\* Whatever calls overlapped before, the page comes to say what is the case:
\* an outage of everything is reported, in header and banner, and so is one
\* that leaves the queue as the only fallback; an outage of the statistics
\* alone becomes the declared fallback without a banner; and once all answer,
\* the newest data is shown and called healthy, unless Retry is pressed for ever
\* (page.tsx:141-224, overview-metrics.ts:149-275).
PageConverges ==
  <>[][~Retry]_vars =>
    /\ (<>[](down = Endpoints)) => <>[](RefreshStatus = "error" /\ ErrorBanner # "none")
    /\ (<>[](down = {"stats", "runs"})) => <>[](RefreshStatus = "error" /\ ErrorBanner = "runs")
    /\ (<>[](down = {"stats"})) => <>[](RefreshStatus = "fallback" /\ ErrorBanner = "none")
    /\ (<>[](down = {})) => <>[](/\ RefreshStatus = "healthy" /\ ErrorBanner = "none"
                                  /\ stats = version /\ runs = version)

\* While the header says that the fallback is active, the numbers shown are
\* the fallback's (page.tsx:232, overview-metrics.ts:251).  False once the
\* statistics have been read: they are never cleared and always preferred.
FallbackIsShown ==
  fallbackActive /\ RefreshStatus = "fallback" => stats = Null
=============================================================================
