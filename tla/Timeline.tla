------------------------------ MODULE Timeline ------------------------------
(***************************************************************************)
(* The layout of a run's Gantt chart: calculateJobTimeline and             *)
(* calculateRunTimelineSummary of the dashboard's lib/timeline.ts.         *)
(*                                                                         *)
(* A timestamp is a natural number, and 0 the zero timestamp of a row that *)
(* has none.  A percentage of the window is left as its numerator: the     *)
(* window's length stands for 100%, so nothing is rounded here.            *)
(***************************************************************************)
EXTENDS Integers, FiniteSetsExt

Unset == 0

IsValidTimestamp(ts) == ts # Unset

\* A value the code leaves null.
NoTime == -1

AtLeastZero(n) == IF n < 0 THEN 0 ELSE n
Least(m, n) == IF m < n THEN m ELSE n

-----------------------------------------------------------------------------
(* One job on the track.                                                   *)

JobEnd(job, now) ==
  IF IsValidTimestamp(job.finished) THEN job.finished
  ELSE IF job.status = "running" THEN now ELSE job.started

NotOnTrack == [isStarted |-> FALSE, start |-> NoTime, end |-> NoTime,
               duration |-> 0, offset |-> 0, width |-> 0]

\* Seeded fault: the width is the job's share of the window, not clamped.
CalculateJobTimelineUnclamped(job, runStart, total, now) ==
  IF ~IsValidTimestamp(job.started) THEN NotOnTrack
  ELSE LET duration == AtLeastZero(JobEnd(job, now) - job.started)
           inWindow == runStart # NoTime /\ total > 0
       IN [isStarted |-> TRUE, start |-> job.started, end |-> JobEnd(job, now),
           duration |-> duration,
           offset |-> IF inWindow THEN AtLeastZero(job.started - runStart) ELSE 0,
           width |-> IF inWindow THEN duration ELSE 0]

CalculateJobTimeline(job, runStart, total, now) ==
  IF ~IsValidTimestamp(job.started) THEN NotOnTrack
  ELSE LET duration == AtLeastZero(JobEnd(job, now) - job.started)
           inWindow == runStart # NoTime /\ total > 0
           offset == IF inWindow THEN Least(total, AtLeastZero(job.started - runStart)) ELSE 0
       IN [isStarted |-> TRUE, start |-> job.started, end |-> JobEnd(job, now),
           duration |-> duration, offset |-> offset,
           width |-> IF inWindow THEN Least(total - offset, duration) ELSE 0]

-----------------------------------------------------------------------------
(* The window of the run, stretched over the jobs that lie outside it.     *)

IsActive(status) == status \in {"pending", "running"}

RunStart(run) == IF IsValidTimestamp(run.started) THEN run.started ELSE NoTime

RunEnd(run, now) ==
  IF IsValidTimestamp(run.finished) THEN run.finished
  ELSE IF IsValidTimestamp(run.started) /\ IsActive(run.status) THEN now
  ELSE RunStart(run)

\* Seeded fault: the window is the run's own, whatever its jobs' rows say.
EffectiveStartOwn(run, jobs) == RunStart(run)

EffectiveStart(run, jobs) ==
  LET starts == {jobs[j].started : j \in DOMAIN jobs} \cup {RunStart(run)}
  IN IF starts \subseteq {Unset, NoTime} THEN NoTime ELSE Min(starts \ {Unset, NoTime})

EffectiveEnd(run, jobs, now) ==
  LET ends == {jobs[j].finished : j \in DOMAIN jobs} \ {Unset}
  IN Max({RunEnd(run, now)} \cup ends)

TotalRunDuration(run, jobs, now) ==
  LET own == IF RunStart(run) = NoTime THEN 0
             ELSE AtLeastZero(RunEnd(run, now) - RunStart(run))
      start == EffectiveStart(run, jobs)
      end == EffectiveEnd(run, jobs, now)
  IN IF start # NoTime /\ end # NoTime THEN Max({own, end - start}) ELSE own

-----------------------------------------------------------------------------
(* Peak parallelism: the code sorts the starts and ends of all bars by     *)
(* time, ends first, and counts along; ends never count below zero.        *)

Count(metrics, P(_)) == Cardinality({j \in DOMAIN metrics : metrics[j].isStarted /\ P(metrics[j])})

\* Seeded fault: starts come before ends of the same moment.
PassMomentStartsFirst(metrics, acc, t) ==
  LET up == acc.active + Count(metrics, LAMBDA m : m.start = t)
  IN [active |-> AtLeastZero(up - Count(metrics, LAMBDA m : m.end = t)),
      peak |-> Max({acc.peak, up})]

PassMoment(metrics, acc, t) ==
  LET ended == AtLeastZero(acc.active - Count(metrics, LAMBDA m : m.end = t))
      active == ended + Count(metrics, LAMBDA m : m.start = t)
  IN [active |-> active, peak |-> Max({acc.peak, active})]

\* The moments at which a bar starts or ends.
Turns(metrics) == ({metrics[j].start : j \in DOMAIN metrics} \cup
                   {metrics[j].end : j \in DOMAIN metrics}) \ {NoTime}

\* The last moment is passed last.
MaxParallelJobs(metrics) ==
  MapThenFoldSet(LAMBDA t, acc : PassMoment(metrics, acc, t), [active |-> 0, peak |-> 0],
                 LAMBDA t : t, Max, Turns(metrics)).peak

CalculateRunTimelineSummary(run, jobs, now) ==
  LET start == EffectiveStart(run, jobs)
      total == TotalRunDuration(run, jobs, now)
      metrics == [j \in DOMAIN jobs |-> CalculateJobTimeline(jobs[j], start, total, now)]
  IN [start |-> start, end |-> EffectiveEnd(run, jobs, now), total |-> total,
      hasValidTimeWindow |-> start # NoTime /\ total > 0,
      metrics |-> metrics, maxParallelJobs |-> MaxParallelJobs(metrics)]
=============================================================================
