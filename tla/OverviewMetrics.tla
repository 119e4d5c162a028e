-------------------------- MODULE OverviewMetrics --------------------------
(***************************************************************************)
(* The pure part of the overview page (lib/overview-metrics.ts), and what  *)
(* the daemon's statistics say of the same runs (GetRunStats).             *)
(*                                                                         *)
(* A list of runs is newest first.  A run is its status and its duration   *)
(* in seconds, NoDuration when its timestamps do not give one.  What a     *)
(* filter keeps of a list is a set of positions in it.                     *)
(***************************************************************************)
EXTENDS Integers, Sequences, FiniteSets, Functions

CONSTANTS
  SampleLimit,  \* finished runs the metrics are taken from (25 in the code)
  FailureLimit  \* failures listed (5 in the code)

ASSUME MetricsAssumption == SampleLimit \in Nat \ {0} /\ FailureLimit \in Nat \ {0}

NoDuration == -1
Nothing == -1   \* a metric that is null

Runs == [status : {"pending", "running", "success", "failed", "cancelled"},
         duration : Nat \cup {NoDuration}]

AtMost(runs, limit) == SubSeq(runs, 1, IF Len(runs) < limit THEN Len(runs) ELSE limit)

With(runs, statuses) == {i \in DOMAIN runs : runs[i].status \in statuses}
Finished(runs) == With(runs, {"success", "failed", "cancelled"})
Active(runs)   == With(runs, {"running", "pending"})
Failed(runs)   == With(runs, {"failed"})

\* The first so many of a set of positions.
Newest(positions, limit) ==
  {i \in positions : Cardinality({k \in positions : k <= i}) <= limit}

\* n divided by d, rounded half up.
Rounded(n, d) == (2 * n + d) \div (2 * d)

MetricsOf(runs, sample, failures) ==
  LET timed == {i \in sample : runs[i].duration # NoDuration}
      succeeded == {i \in sample : runs[i].status = "success"}
  IN [completed |-> Cardinality(sample), succeeded |-> Cardinality(succeeded),
      passRate |-> IF sample = {} THEN Nothing
                   ELSE Rounded(100 * Cardinality(succeeded), Cardinality(sample)),
      timed |-> Cardinality(timed),
      mean |-> IF timed = {} THEN Nothing
               ELSE Rounded(SumFunction([i \in timed |-> runs[i].duration]), Cardinality(timed)),
      failures |-> failures, active |-> Cardinality(Active(runs))]

\* Seeded fault: the sample is the newest runs, finished or not.
RecentSampleOfAll(runs, limit) == Newest(DOMAIN runs, limit)

RecentSample(runs, limit) == Newest(Finished(runs), limit)

CalculateRecentMetrics(runs, limit) ==
  MetricsOf(runs, RecentSample(runs, limit), Newest(Failed(runs), FailureLimit))

\* The daemon samples the finished runs of its whole table.
GetRunStats(runs, limit) ==
  MetricsOf(runs, Newest(Finished(runs), limit), Newest(Failed(runs), FailureLimit))

-----------------------------------------------------------------------------
(* What the header and the banner say; p holds the page's flags.           *)

ResolveRefreshStatus(p) ==
  IF p.initialLoading THEN "loading"
  ELSE IF p.statsError /\ p.runsError THEN "error"
  ELSE IF p.runsError THEN "partial"
  ELSE IF p.statsError /\ (p.fallbackActive \/ p.hasQueue \/ p.hasFallbackRuns) THEN "fallback"
  ELSE IF p.statsError THEN "error"
  ELSE "healthy"

\* Seeded fault: a fallback hides the failure of the runs as well.
ResolveErrorBannerMuted(p) ==
  IF p.fallbackActive THEN "none"
  ELSE IF p.statsError /\ p.runsError THEN "both"
  ELSE IF p.statsError THEN "stats"
  ELSE IF p.runsError THEN "runs" ELSE "none"

ResolveErrorBanner(p) ==
  LET statsError == p.statsError /\ ~p.fallbackActive
  IN IF statsError /\ p.runsError THEN "both"
     ELSE IF statsError THEN "stats"
     ELSE IF p.runsError THEN "runs" ELSE "none"
=============================================================================
