------------------------------ MODULE RunPage ------------------------------
(***************************************************************************)
(* The page of one run (app/runs/[runId]/page.tsx): an effect that polls   *)
(* two endpoints, one after the other, while the run is active; its fetches*)
(* overlap when the answers are slow.  Below it the job timeline, drawn    *)
(* from the two answers and from the browser's own, ticking, clock.        *)
(*                                                                         *)
(* The server's side is a history chosen in Init: when the run and each of *)
(* its jobs start and end.  What a request reads is that history at the    *)
(* moment the server answers it, which may be long before the page gets it.*)
(***************************************************************************)
EXTENDS Timeline

CONSTANTS
  Jobs,        \* the run's jobs
  Plans,       \* the histories of the run on the server
  Horizon,     \* bound on the server's clock
  MaxSkew,     \* how far the browser's clock may be off, either way
  MaxInFlight, \* bound on the overlapping fetches
  MaxFaults    \* bound on the requests that fail

\* 0 is the zero timestamp; the browser's clock may be one behind.
FirstMoment == 2
Moments == FirstMoment..Horizon

Skews == {-MaxSkew, MaxSkew}
Fetches == 1..MaxInFlight

\* When a row says running and when it says over, if the write that says so is
\* not lost.  The end of a run is written by the scheduler and once more by its
\* worker, which replaces the time.
JobSpan == {s \in [from : Moments \cup {Unset}, to : Moments \cup {Unset}] :
              s.to # Unset => s.from <= s.to}
RunSpan == {s \in [from : Moments \cup {Unset}, to : Moments, again : Moments \cup {Unset}] :
              s.from <= s.to /\ (s.again # Unset => s.to <= s.again)}
NeverRuns == [from |-> Unset, to |-> Unset]

\* No job starts before its run or after its end (Scheduler's Verdict-
\* IsQuiescent and WriteRun).  But a row that still says pending or running
\* then, because nothing was written or a write was lost, is failed by the next
\* recovery of the daemon, however late (Daemon's ResetJobs).
PossiblePlans ==
  {p \in [run : RunSpan, job : [Jobs -> JobSpan]] :
     \A j \in Jobs :
       /\ p.job[j].from # Unset =>
            p.run.from # Unset /\ p.run.from <= p.job[j].from /\ p.job[j].from <= p.run.to
       /\ p.job[j].to # Unset => p.run.from <= p.job[j].to}

ASSUME RunPageAssumption ==
  /\ IsFiniteSet(Jobs) /\ Horizon \in Nat /\ MaxSkew \in 0..(FirstMoment - 1)
  /\ MaxInFlight \in Nat \ {0} /\ MaxFaults \in Nat
  /\ Plans \subseteq PossiblePlans

VARIABLES
  plan,      \* the server's history: when the run and its jobs start and end
  skew,      \* the browser's clock minus the server's
  clock,     \* the server's clock
  faults,    \* requests that failed so far
  fetch,     \* per call of fetchData not cancelled by its effect: where it is
  run,       \* the page's run, or NoRun
  jobs,      \* the page's jobs
  error,     \* the page's error is set
  seen,      \* the status the current effect was run with
  reload,    \* Try Again was pressed: reloadKey differs from the effect's
  now        \* JobTimeline's now

vars == <<plan, skew, clock, faults, fetch, run, jobs, error, seen, reload, now>>
serverVars == <<plan, skew, clock>>
shownVars  == <<run, jobs, error, now>>
effectVars == <<seen, reload>>

-----------------------------------------------------------------------------
(* The server.                                                             *)

\* A job whose workspace cannot be made is failed without having started.
RowAt(span, t) ==
  IF span.to # Unset /\ span.to <= t
  THEN [status |-> "over", started |-> span.from, finished |-> span.to]
  ELSE IF span.from # Unset /\ span.from <= t
  THEN [status |-> "running", started |-> span.from, finished |-> Unset]
  ELSE [status |-> "pending", started |-> Unset, finished |-> Unset]

RunAt(t) ==
  LET row == RowAt(plan.run, t)
  IN IF plan.run.again # Unset /\ plan.run.again <= t
     THEN [row EXCEPT !.finished = plan.run.again] ELSE row

JobsAt(t) == [j \in Jobs |-> RowAt(plan.job[j], t)]

Rows == [status : {"pending", "running", "over"},
         started : Moments \cup {Unset}, finished : Moments \cup {Unset}]

\* Before the first answer: no run, and no jobs.
NoRun  == [status |-> "undefined", started |-> Unset, finished |-> Unset]
NoJobs == <<>>
JobRows == [Jobs -> Rows] \cup {NoJobs}

ClockTicks ==
  /\ clock < Horizon
  /\ clock' = clock + 1
  /\ UNCHANGED <<plan, skew, faults, fetch, shownVars, effectVars>>

-----------------------------------------------------------------------------
(* fetchData: getRun, then getRunJobs, then the state is set.              *)

Idle  == [at |-> "idle", run |-> NoRun, jobs |-> NoJobs]
Asked == [Idle EXCEPT !.at = "run"]

FetchState == [at : {"idle", "run", "jobs", "answered", "failed"},
               run : Rows \cup {NoRun}, jobs : JobRows]

\* Seeded fault: both requests are sent at once, and the jobs may be read
\* before the run is.
ReadRunEagerly(f) ==
  /\ fetch[f].at = "run"
  /\ \/ fetch' = [fetch EXCEPT ![f].at = "jobs", ![f].run = RunAt(clock)]
     \/ /\ fetch[f].jobs = NoJobs
        /\ fetch' = [fetch EXCEPT ![f].jobs = JobsAt(clock)]
     \/ /\ fetch[f].jobs # NoJobs
        /\ fetch' = [fetch EXCEPT ![f].at = "answered", ![f].run = RunAt(clock)]
  /\ UNCHANGED <<serverVars, faults, shownVars, effectVars>>

ReadRun(f) ==
  /\ fetch[f].at = "run"
  /\ fetch' = [fetch EXCEPT ![f].at = "jobs", ![f].run = RunAt(clock)]
  /\ UNCHANGED <<serverVars, faults, shownVars, effectVars>>

ReadJobs(f) ==
  /\ fetch[f].at = "jobs"
  /\ fetch' = [fetch EXCEPT ![f].at = "answered", ![f].jobs = JobsAt(clock)]
  /\ UNCHANGED <<serverVars, faults, shownVars, effectVars>>

RequestFails(f) ==
  /\ fetch[f].at \in {"run", "jobs"} /\ faults < MaxFaults
  /\ faults' = faults + 1
  /\ fetch' = [fetch EXCEPT ![f] = [Idle EXCEPT !.at = "failed"]]
  /\ UNCHANGED <<serverVars, shownVars, effectVars>>

BrowserNow == clock + skew

\* The first answer also mounts the timeline, with the time it then is.
Apply(f) ==
  /\ fetch[f].at = "answered"
  /\ run' = fetch[f].run /\ jobs' = fetch[f].jobs /\ error' = FALSE
  /\ now' = IF run = NoRun THEN BrowserNow ELSE now
  /\ fetch' = [fetch EXCEPT ![f] = Idle]
  /\ UNCHANGED <<serverVars, faults, effectVars>>

ApplyError(f) ==
  /\ fetch[f].at = "failed"
  /\ error' = TRUE
  /\ fetch' = [fetch EXCEPT ![f] = Idle]
  /\ UNCHANGED <<serverVars, faults, run, jobs, now, effectVars>>

-----------------------------------------------------------------------------
(* The effect, the button and the timeline's clock.                        *)

\* Seeded fault: a page that has no run yet does not poll.
PollsWhileShown(status) == IsActive(status)

PollsWhile(status) == status = "undefined" \/ IsActive(status)

\* React runs the effect again some time after its dependencies changed; the
\* cleanup cancels the fetches under way, whose answers then change nothing.
EffectRuns ==
  /\ seen # run.status \/ reload
  /\ seen' = run.status /\ reload' = FALSE
  /\ fetch' = [f \in Fetches |-> IF f = 1 THEN Asked ELSE Idle]
  /\ UNCHANGED <<serverVars, faults, shownVars>>

\* The interval calls fetchData whether or not the last call has returned.
IntervalTick ==
  /\ seen # "unmounted" /\ PollsWhile(seen)
  /\ \E f \in Fetches :
       /\ fetch[f].at = "idle" /\ \A g \in 1..(f - 1) : fetch[g].at # "idle"
       /\ fetch' = [fetch EXCEPT ![f] = Asked]
  /\ UNCHANGED <<serverVars, faults, shownVars, effectVars>>

TryAgain ==
  /\ error /\ run = NoRun /\ ~reload
  /\ reload' = TRUE
  /\ UNCHANGED <<serverVars, faults, fetch, shownVars, seen>>

\* Seeded fault: the timeline counts its own ticks.
TimelineTicksCounted ==
  /\ IsActive(run.status)
  /\ now' = now + 1
  /\ UNCHANGED <<serverVars, faults, fetch, run, jobs, error, effectVars>>

TimelineTicks ==
  /\ IsActive(run.status) /\ now # BrowserNow
  /\ now' = BrowserNow
  /\ UNCHANGED <<serverVars, faults, fetch, run, jobs, error, effectVars>>

-----------------------------------------------------------------------------
Init ==
  /\ plan \in Plans /\ skew \in Skews /\ clock = FirstMoment /\ faults = 0
  /\ fetch = [f \in Fetches |-> Idle]
  /\ run = NoRun /\ jobs = NoJobs /\ error = FALSE /\ now = Unset
  /\ seen = "unmounted" /\ reload = FALSE

FetchStep(f) == ReadRun(f) \/ ReadJobs(f) \/ RequestFails(f) \/ Apply(f) \/ ApplyError(f)

\* Everything is read and shown, and nobody asks any more.
Rest ==
  /\ clock = Horizon /\ seen = run.status /\ ~PollsWhile(seen)
  /\ \A f \in Fetches : fetch[f].at = "idle"
  /\ UNCHANGED vars

Next ==
  \/ ClockTicks \/ EffectRuns \/ IntervalTick \/ TryAgain \/ TimelineTicks
  \/ \E f \in Fetches : FetchStep(f)
  \/ Rest

Spec == Init /\ [][Next]_vars

\* Requests are answered, React runs its effects, intervals go off and time
\* passes; nobody has to press the button.
Fairness ==
  /\ WF_vars(ClockTicks) /\ WF_vars(EffectRuns) /\ WF_vars(IntervalTick)
  /\ \A f \in Fetches : WF_vars(FetchStep(f))

FairSpec == Spec /\ Fairness

-----------------------------------------------------------------------------
(* Properties.                                                             *)

TypeOK ==
  /\ plan \in Plans /\ skew \in Skews /\ clock \in Moments /\ faults \in 0..MaxFaults
  /\ fetch \in [Fetches -> FetchState]
  /\ run \in Rows \cup {NoRun} /\ jobs \in JobRows /\ error \in BOOLEAN
  /\ seen \in {"unmounted", "undefined", "pending", "running", "over"}
  /\ reload \in BOOLEAN
  /\ now \in {Unset} \cup {t + s : t \in Moments, s \in Skews}

\* What is shown was read after the run's end, the run before its jobs.
ShowsEnd ==
  \E t \in plan.run.to..clock : \E u \in t..clock : run = RunAt(t) /\ jobs = JobsAt(u)

\* The job's row does not change any more once the run has ended.
EndsWithRun(j) == plan.job[j].to = Unset \/ plan.job[j].to <= plan.run.to

\* A run shown as ended comes with its jobs as they ended, never with jobs
\* still pending or running that moved on with the run, although the two are
\* read by two requests and answers overtake each other; only a row left behind
\* by the run may yet be failed by a recovery (page.tsx:64-69).
EndedRunShowsEndedJobs ==
  run.status = "over" =>
    /\ ShowsEnd
    /\ \A j \in Jobs : EndsWithRun(j) => jobs[j] = JobsAt(Horizon)[j]

Summary == CalculateRunTimelineSummary(run, jobs, now)

\* Jobs whose bars cover a moment.
Overlap(metrics, t) == Count(metrics, LAMBDA m : m.start <= t /\ t < m.end)

\* Every bar lies inside the track, and a finished job's bar has its true place
\* and length.
BarsInPlace(summary) ==
  \A j \in Jobs :
    LET bar == summary.metrics[j]
    IN /\ bar.offset + bar.width <= summary.total
       /\ jobs[j].finished # Unset /\ bar.duration > 0 =>
            /\ summary.hasValidTimeWindow /\ bar.width = bar.duration
            /\ bar.offset = jobs[j].started - summary.start

\* The peak is the largest number of bars over one moment; but a bar without
\* length may raise it by one, and a bar that ends before it starts, as a
\* running job's may when the browser's clock is late, may lower it by one.
PeakIsTrue(summary) ==
  LET metrics == summary.metrics
      overlap == Max({Overlap(metrics, t) : t \in Moments} \cup {0})
  IN /\ overlap <= summary.maxParallelJobs + Count(metrics, LAMBDA m : m.end < m.start)
     /\ summary.maxParallelJobs <= overlap + Count(metrics, LAMBDA m : m.end <= m.start)

\* The chart is right whatever two answers it is drawn from and however far
\* off the browser's clock is (timeline.ts:69-241).
ChartIsExact == run # NoRun => BarsInPlace(Summary) /\ PeakIsTrue(Summary)

\* Jobs that run strictly one after the other are not called parallel
\* (test/timeline.test.ts:100).  False: timestamps have whole seconds, the end
\* of a bar without length is counted before its start, and so its start is
\* never taken back.
SequentialIsNotParallel ==
  run # NoRun =>
    LET m == Summary.metrics
    IN (\A j, k \in Jobs : j # k /\ m[j].isStarted /\ m[k].isStarted =>
          m[j].end < m[k].start \/ m[k].end < m[j].start) =>
       Summary.maxParallelJobs <= 1

\* Once the run has ended, the page comes to show it as ended, with what was
\* read after its end, and then changes no more, whatever failed on the way and
\* whichever answer arrives last, unless Try Again is pressed for ever, which
\* cancels every answer.  The time shown may be the first of the two the end was
\* written with: nobody asks again (page.tsx:59-91).
PageSettles ==
  <>[][~TryAgain]_vars =>
    /\ clock = Horizon ~> [](run.status = "over" /\ ShowsEnd)
    /\ <>[][UNCHANGED <<run, jobs>>]_vars
=============================================================================
