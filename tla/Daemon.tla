------------------------------- MODULE Daemon -------------------------------
(***************************************************************************)
(* The life of drevd: start-up recovery, the handlers that create runs     *)
(* (POST /api/v1/trigger and POST /webhooks/github), the bounded in-memory *)
(* queue, the pool of workers, graceful shutdown and crashes.  The rows of *)
(* the store survive the process; everything else is lost with it.         *)
(*                                                                         *)
(* What RunPipeline does between taking a run and returning is abstracted  *)
(* to the stages its jobs go through and the writes of their rows, which   *)
(* may be lost: the jobs move in any order, not only in the dependency     *)
(* order that module Scheduler establishes.                                *)
(***************************************************************************)
EXTENDS Naturals, Sequences, FiniteSets, RunStatus

CONSTANTS
  Runs,         \* the run ids requests will be given; one request each
  Jobs,         \* the jobs of every run's pipeline
  Workers,      \* the pool's goroutines
  QueueSize,    \* capacity of the queue's channel (--queue-size)
  WorkerLimit,  \* the organisation's limit on queued runs
  MaxFaults,    \* bound on failing store calls of workers and of recovery
  MaxDowns,     \* bound on how often the daemon goes down
  NoRun         \* an idle worker's run

Absent == "absent"   \* no such row

ASSUME SetsAssumption == /\ IsFiniteSet(Runs) /\ IsFiniteSet(Jobs) /\ Jobs # {}
                         /\ Workers # {} /\ NoRun \notin Runs
ASSUME BoundsAssumption == /\ QueueSize \in Nat \ {0} /\ WorkerLimit \in Nat \ {0}
                           /\ MaxFaults \in Nat /\ MaxDowns \in Nat

VARIABLES
  runRow,   \* runs.status, or Absent
  jobRow,   \* run_jobs.status of each run's jobs, or Absent
  faults,   \* store calls that have failed
  downs,    \* times the daemon has gone down
  proc,     \* where the process is
  old,      \* runs whose row an earlier process left behind
  ctxDone,  \* the workers' context is cancelled
  queue,    \* the runs in the queue's channel
  handler,  \* where the handler of each run's request is
  reply,    \* the status code its client got, or "none"
  at,       \* where each worker is
  holds,    \* the run each worker is processing
  failed,   \* whether RunPipeline returned an error to the worker
  stage     \* how far each job of the worker's run has really come

store == <<runRow, jobRow>>
volatile == <<ctxDone, queue, handler, at, holds, failed, stage>>
vars == <<store, faults, downs, proc, old, volatile, reply>>

ProcStates == {"down", "select", "resetRuns", "resetJobs", "serving",
               "draining", "stopping"}

\* The process is past recovery: workers and HTTP server have been started.
Up == proc \in {"serving", "draining", "stopping"}

Stages == {"waiting", "running", "succeeded", "failed"}

NotStarted == [j \in Jobs |-> "waiting"]

HandlerStates == {"idle", "row", "jobs", "enqueue", "done"}

InFlight(r) == handler[r] \in {"row", "jobs", "enqueue"}

Queued(r) == \E i \in 1..Len(queue) : queue[i] = r

Held(r) == \E w \in Workers : holds[w] = r

Fault == faults < MaxFaults /\ faults' = faults + 1

\* UpdateRunStatus with the workers' context or with context.Background().
Refused(cancelled) ==
  \/ cancelled /\ UNCHANGED faults
  \/ ~cancelled /\ Fault

WriteRun(r, s, cancelled) ==
  \/ ~cancelled /\ runRow' = [runRow EXCEPT ![r] = s] /\ UNCHANGED faults
  \/ Refused(cancelled) /\ UNCHANGED runRow

\* UpdateRunJobStatus with context.Background(): its callers drop the error.
WriteJob(r, j, s) ==
  \/ jobRow' = [jobRow EXCEPT ![r][j] = s] /\ UNCHANGED faults
  \/ Fault /\ UNCHANGED jobRow

-----------------------------------------------------------------------------
(* Start-up: ResetGhostRuns, then pool and server.                         *)

\* Seeded fault (StartsOnce): the queue is kept across restarts.
Start_KeepsQueue ==
  /\ proc = "down"
  /\ proc' = "select"
  /\ old' = {r \in Runs : runRow[r] # Absent}
  /\ ctxDone' = FALSE /\ UNCHANGED queue
  /\ handler' = [r \in Runs |-> IF InFlight(r) THEN "done" ELSE handler[r]]
  /\ at' = [w \in Workers |-> "idle"]
  /\ holds' = [w \in Workers |-> NoRun]
  /\ failed' = [w \in Workers |-> FALSE]
  /\ stage' = [w \in Workers |-> NotStarted]
  /\ UNCHANGED <<store, faults, downs, reply>>

Start ==
  /\ proc = "down"
  /\ proc' = "select"
  /\ old' = {r \in Runs : runRow[r] # Absent}
  /\ ctxDone' = FALSE /\ queue' = <<>>
  /\ handler' = [r \in Runs |-> IF InFlight(r) THEN "done" ELSE handler[r]]
  /\ at' = [w \in Workers |-> "idle"]
  /\ holds' = [w \in Workers |-> NoRun]
  /\ failed' = [w \in Workers |-> FALSE]
  /\ stage' = [w \in Workers |-> NotStarted]
  /\ UNCHANGED <<store, faults, downs, reply>>

\* Seeded fault (RecoveredRunsSettled): only running runs count as interrupted.
SelectGhosts_RunningOnly ==
  /\ proc = "select"
  /\ proc' = IF \E r \in Runs : runRow[r] = Running THEN "resetRuns" ELSE "serving"
  /\ UNCHANGED <<store, faults, downs, old, volatile, reply>>

\* No interrupted run found, or the query fails: a warning, and on it goes.
SelectGhosts ==
  /\ proc = "select"
  /\ \/ /\ proc' = IF \E r \in Runs : runRow[r] \in Active
                   THEN "resetRuns" ELSE "serving"
        /\ UNCHANGED faults
     \/ Fault /\ proc' = "serving"
  /\ UNCHANGED <<store, downs, old, volatile, reply>>

\* Seeded fault (TerminalIsForever): WHERE status <> 'failed'.
ResetRuns_AllButFailed ==
  /\ proc = "resetRuns"
  /\ runRow' = [r \in Runs |-> IF runRow[r] # Absent THEN Failed ELSE Absent]
  /\ proc' = "resetJobs"
  /\ UNCHANGED <<jobRow, faults, downs, old, volatile, reply>>

\* Seeded fault (AcceptedRunsSettle): WHERE status = 'running'.
ResetRuns_RunningOnly ==
  /\ proc = "resetRuns"
  /\ runRow' = [r \in Runs |-> IF runRow[r] = Running THEN Failed ELSE runRow[r]]
  /\ proc' = "resetJobs"
  /\ UNCHANGED <<jobRow, faults, downs, old, volatile, reply>>

ResetRuns ==
  /\ proc = "resetRuns"
  /\ \/ /\ runRow' = [r \in Runs |-> IF runRow[r] \in Active THEN Failed ELSE runRow[r]]
        /\ proc' = "resetJobs"
        /\ UNCHANGED faults
     \/ Fault /\ proc' = "serving" /\ UNCHANGED runRow
  /\ UNCHANGED <<jobRow, downs, old, volatile, reply>>

\* Seeded fault (SuccessKeepsItsJobs): the statement lost its WHERE clause.
ResetJobs_Everywhere ==
  /\ proc = "resetJobs"
  /\ jobRow' = [r \in Runs |-> [j \in Jobs |->
                  IF jobRow[r][j] = Absent THEN Absent ELSE Failed]]
  /\ proc' = "serving"
  /\ UNCHANGED <<runRow, faults, downs, old, volatile, reply>>

\* A second statement, not in one transaction with the first.
ResetJobs ==
  /\ proc = "resetJobs"
  /\ \/ /\ jobRow' = [r \in Runs |-> [j \in Jobs |->
                        IF jobRow[r][j] \in Active THEN Failed ELSE jobRow[r][j]]]
        /\ UNCHANGED faults
     \/ Fault /\ UNCHANGED jobRow
  /\ proc' = "serving"
  /\ UNCHANGED <<runRow, downs, old, volatile, reply>>

-----------------------------------------------------------------------------
(* The handlers.  A request's context ends when its client goes away, so   *)
(* each store call of a handler may fail at any time.                      *)

Answer(r, code) == /\ reply' = [reply EXCEPT ![r] = code]
                   /\ handler' = [handler EXCEPT ![r] = "done"]

\* A trigger with an organisation is refused while the queue is as long as
\* its limit; other triggers and webhooks are not.
Receive(r) ==
  /\ proc = "serving"
  /\ handler[r] = "idle"
  /\ \/ handler' = [handler EXCEPT ![r] = "row"] /\ UNCHANGED reply
     \/ Len(queue) >= WorkerLimit /\ Answer(r, "429")
  /\ UNCHANGED <<store, faults, downs, proc, old, ctxDone, queue, at, holds, failed, stage>>

CreateRun(r) ==
  /\ Up
  /\ handler[r] = "row"
  /\ \/ /\ runRow' = [runRow EXCEPT ![r] = Pending]
        /\ handler' = [handler EXCEPT ![r] = "jobs"]
        /\ UNCHANGED reply
     \/ Answer(r, "500") /\ UNCHANGED runRow
  /\ UNCHANGED <<jobRow, faults, downs, proc, old, ctxDone, queue, at, holds, failed, stage>>

\* One row per job; a failure leaves the rows made so far.
CreateRunJob(r) ==
  /\ Up
  /\ handler[r] = "jobs"
  /\ \/ \E j \in Jobs :
          /\ jobRow[r][j] = Absent
          /\ jobRow' = [jobRow EXCEPT ![r][j] = Pending]
          /\ handler' = [handler EXCEPT ![r] =
                           IF \A k \in Jobs \ {j} : jobRow[r][k] # Absent
                           THEN "enqueue" ELSE "jobs"]
          /\ UNCHANGED reply
     \/ Answer(r, "500") /\ UNCHANGED jobRow
  /\ UNCHANGED <<runRow, faults, downs, proc, old, ctxDone, queue, at, holds, failed, stage>>

\* Seeded fault (TypeOK): the capacity is checked off by one.
Enqueue_OneTooMany(r) ==
  /\ Up
  /\ handler[r] = "enqueue"
  /\ \/ Len(queue) <= QueueSize /\ queue' = Append(queue, r) /\ Answer(r, "202")
     \/ Len(queue) > QueueSize /\ Answer(r, "503") /\ UNCHANGED queue
  /\ UNCHANGED <<store, faults, downs, proc, old, ctxDone, at, holds, failed, stage>>

\* Seeded fault (OneOwner): the depth is looked at after the send.
Enqueue_SendThenCheck(r) ==
  /\ Up
  /\ handler[r] = "enqueue"
  /\ Len(queue) < QueueSize
  /\ queue' = Append(queue, r)
  /\ Answer(r, IF Len(queue') = QueueSize THEN "503" ELSE "202")
  /\ UNCHANGED <<store, faults, downs, proc, old, ctxDone, at, holds, failed, stage>>

\* Opening the log file may fail; the channel send never blocks.  A refused
\* run keeps its rows, which nothing touches before the next start-up.
Enqueue(r) ==
  /\ Up
  /\ handler[r] = "enqueue"
  /\ \/ Len(queue) < QueueSize /\ queue' = Append(queue, r) /\ Answer(r, "202")
     \/ Len(queue) >= QueueSize /\ Answer(r, "503") /\ UNCHANGED queue
     \/ Answer(r, "500") /\ UNCHANGED queue
  /\ UNCHANGED <<store, faults, downs, proc, old, ctxDone, at, holds, failed, stage>>

-----------------------------------------------------------------------------
(* The workers.                                                            *)

WorkerGoes(w, place) == at' = [at EXCEPT ![w] = place]

\* select between the queue and ctx.Done: either, when both are ready.
Dequeue(w) ==
  /\ Up
  /\ at[w] = "idle"
  /\ queue # <<>>
  /\ holds' = [holds EXCEPT ![w] = Head(queue)]
  /\ queue' = Tail(queue)
  /\ WorkerGoes(w, "begin")
  /\ UNCHANGED <<store, faults, downs, proc, old, ctxDone, handler, reply, failed,
                 stage>>

WorkerExits(w) ==
  /\ Up
  /\ at[w] = "idle"
  /\ ctxDone
  /\ WorkerGoes(w, "exited")
  /\ UNCHANGED <<store, faults, downs, proc, old, ctxDone, queue, handler,
                 reply, holds, failed, stage>>

\* Seeded fault (RunningJobsUnderRunningRun): the error is ignored.
BeginRun_Unchecked(w) ==
  /\ Up
  /\ at[w] = "begin"
  /\ WriteRun(holds[w], Running, ctxDone)
  /\ WorkerGoes(w, "jobs")
  /\ UNCHANGED <<jobRow, downs, proc, old, ctxDone, queue, handler, reply, holds,
                 failed, stage>>

\* RunPipeline marks the run as running; its refusal is an error.
BeginRun(w) ==
  /\ Up
  /\ at[w] = "begin"
  /\ \/ /\ ~ctxDone
        /\ runRow' = [runRow EXCEPT ![holds[w]] = Running]
        /\ WorkerGoes(w, "jobs")
        /\ UNCHANGED <<faults, failed>>
     \/ /\ Refused(ctxDone)
        /\ failed' = [failed EXCEPT ![w] = TRUE]
        /\ WorkerGoes(w, "verdict")
        /\ UNCHANGED runRow
  /\ UNCHANGED <<jobRow, downs, proc, old, ctxDone, queue, handler, reply, holds, stage>>

\* Reading the rows fails: RunPipeline returns without writing the run's row.
LoadFails(w) ==
  /\ Up
  /\ at[w] = "jobs"
  /\ stage[w] = NotStarted
  /\ Refused(ctxDone)
  /\ failed' = [failed EXCEPT ![w] = TRUE]
  /\ WorkerGoes(w, "verdict")
  /\ UNCHANGED <<store, downs, proc, old, ctxDone, queue, handler, reply, holds, stage>>

JobGoes(w, j, place) == stage' = [stage EXCEPT ![w][j] = place]

\* The errgroup's context: the worker's, or a job has returned an error.
EgDone(w) == ctxDone \/ \E j \in Jobs : stage[w][j] = "failed"

\* A job starts; the row that says so may be lost.
JobStarts(w, j) ==
  /\ Up
  /\ at[w] = "jobs"
  /\ stage[w][j] = "waiting"
  /\ ~EgDone(w)
  /\ WriteJob(holds[w], j, Running)
  /\ JobGoes(w, j, "running")
  /\ UNCHANGED <<runRow, downs, proc, old, ctxDone, queue, handler, reply, at, holds, failed>>

\* Its workspace cannot be made, or its container is refused at once because
\* the context has ended before the row could be marked as running.
JobFailsUnstarted(w, j) ==
  /\ Up
  /\ at[w] = "jobs"
  /\ stage[w][j] = "waiting"
  /\ WriteJob(holds[w], j, Failed)
  /\ JobGoes(w, j, "failed")
  /\ UNCHANGED <<runRow, downs, proc, old, ctxDone, queue, handler, reply, at, holds, failed>>

\* A job's container ends; the row of its end may be lost.
JobEnds(w, j) ==
  /\ Up
  /\ at[w] = "jobs"
  /\ stage[w][j] = "running"
  /\ \/ WriteJob(holds[w], j, Success) /\ JobGoes(w, j, "succeeded")
     \/ WriteJob(holds[w], j, Failed) /\ JobGoes(w, j, "failed")
  /\ UNCHANGED <<runRow, downs, proc, old, ctxDone, queue, handler, reply, at, holds, failed>>

AllSucceeded(w) == \A j \in Jobs : stage[w][j] = "succeeded"

\* With no job under way RunPipeline reports: success if every job succeeded;
\* failure if one failed, if the context has ended, or if the workspace or the
\* clone failed before any job.
EndRun(w) ==
  /\ Up
  /\ at[w] = "jobs"
  /\ \A j \in Jobs : stage[w][j] # "running"
  /\ AllSucceeded(w) \/ EgDone(w) \/ stage[w] = NotStarted
  /\ failed' = [failed EXCEPT ![w] = ~AllSucceeded(w)]
  /\ WriteRun(holds[w], IF AllSucceeded(w) THEN Success ELSE Failed, FALSE)
  /\ WorkerGoes(w, "verdict")
  /\ UNCHANGED <<jobRow, downs, proc, old, ctxDone, queue, handler, reply, holds, stage>>

\* Seeded fault (ActiveRunsOwned): an error is left to RunPipeline to record.
RecordVerdict_OnlySuccess(w) ==
  /\ Up
  /\ at[w] = "verdict"
  /\ IF failed[w] THEN UNCHANGED <<runRow, faults>>
                  ELSE WriteRun(holds[w], Success, ctxDone)
  /\ WorkerGoes(w, "idle")
  /\ holds' = [holds EXCEPT ![w] = NoRun]
  /\ failed' = [failed EXCEPT ![w] = FALSE]
  /\ stage' = [stage EXCEPT ![w] = NotStarted]
  /\ UNCHANGED <<jobRow, downs, proc, old, ctxDone, queue, handler, reply>>

\* The worker's own write of the outcome, with its context.
RecordVerdict(w) ==
  /\ Up
  /\ at[w] = "verdict"
  /\ WriteRun(holds[w], IF failed[w] THEN Failed ELSE Success, ctxDone)
  /\ WorkerGoes(w, "idle")
  /\ holds' = [holds EXCEPT ![w] = NoRun]
  /\ failed' = [failed EXCEPT ![w] = FALSE]
  /\ stage' = [stage EXCEPT ![w] = NotStarted]
  /\ UNCHANGED <<jobRow, downs, proc, old, ctxDone, queue, handler, reply>>

-----------------------------------------------------------------------------
(* Shutdown and crash.                                                     *)

\* SIGTERM: server.Shutdown closes the listeners first.
Terminate ==
  /\ proc = "serving"
  /\ downs < MaxDowns
  /\ proc' = "draining"
  /\ UNCHANGED <<store, faults, downs, old, volatile, reply>>

\* Seeded fault (ShutdownCompletes): the workers' context is not cancelled.
StopPool_NoCancel ==
  /\ proc = "draining"
  /\ proc' = "stopping"
  /\ UNCHANGED <<store, faults, downs, old, volatile, reply>>

\* Shutdown returns when no request is in flight, or after ten seconds with
\* some still running; then the workers' context is cancelled.
StopPool ==
  /\ proc = "draining"
  /\ proc' = "stopping"
  /\ ctxDone' = TRUE
  /\ UNCHANGED <<store, faults, downs, old, queue, handler, reply, at, holds, failed, stage>>

\* pool.Stop has returned; main returns and the process ends.
Exit ==
  /\ proc = "stopping"
  /\ \A w \in Workers : at[w] = "exited"
  /\ proc' = "down"
  /\ downs' = downs + 1
  /\ UNCHANGED <<store, faults, old, volatile, reply>>

Crash ==
  /\ proc # "down"
  /\ downs < MaxDowns
  /\ proc' = "down"
  /\ downs' = downs + 1
  /\ UNCHANGED <<store, faults, old, volatile, reply>>

-----------------------------------------------------------------------------
Init ==
  /\ runRow = [r \in Runs |-> Absent]
  /\ jobRow = [r \in Runs |-> [j \in Jobs |-> Absent]]
  /\ faults = 0 /\ downs = 0
  /\ proc = "down"
  /\ old = {}
  /\ ctxDone = FALSE
  /\ queue = <<>>
  /\ handler = [r \in Runs |-> "idle"]
  /\ reply = [r \in Runs |-> "none"]
  /\ at = [w \in Workers |-> "idle"]
  /\ holds = [w \in Workers |-> NoRun]
  /\ failed = [w \in Workers |-> FALSE]
  /\ stage = [w \in Workers |-> NotStarted]

Recover == SelectGhosts \/ ResetRuns \/ ResetJobs

HandlerStep(r) == CreateRun(r) \/ CreateRunJob(r) \/ Enqueue(r)

JobStep(w, j) == JobStarts(w, j) \/ JobFailsUnstarted(w, j) \/ JobEnds(w, j)

WorkerStep(w) == Dequeue(w) \/ WorkerExits(w) \/ BeginRun(w) \/ LoadFails(w)
                 \/ (\E j \in Jobs : JobStep(w, j)) \/ EndRun(w) \/ RecordVerdict(w)

Next ==
  \/ Start \/ Recover \/ Terminate \/ StopPool \/ Exit \/ Crash
  \/ \E r \in Runs : Receive(r) \/ HandlerStep(r)
  \/ \E w \in Workers : WorkerStep(w)

Spec == Init /\ [][Next]_vars

\* The process runs while it is up and its supervisor starts it again; nobody
\* has to send a request or a signal.
Fairness ==
  /\ WF_vars(Start) /\ WF_vars(Recover) /\ WF_vars(StopPool) /\ WF_vars(Exit)
  /\ \A r \in Runs : WF_vars(HandlerStep(r))
  /\ \A w \in Workers : WF_vars(WorkerStep(w))

FairSpec == Spec /\ Fairness
-----------------------------------------------------------------------------
(* Properties.                                                             *)

\* The variables hold what the code can put in them; the queue never holds
\* more than its capacity and a busy worker holds a run.
TypeOK ==
  /\ runRow \in [Runs -> Status \cup {Absent}]
  /\ jobRow \in [Runs -> [Jobs -> Status \cup {Absent}]]
  /\ faults \in 0..MaxFaults
  /\ downs \in Nat
  /\ proc \in ProcStates
  /\ old \subseteq Runs
  /\ ctxDone \in BOOLEAN
  /\ queue \in Seq(Runs) /\ Len(queue) <= QueueSize
  /\ handler \in [Runs -> HandlerStates]
  /\ reply \in [Runs -> {"none", "202", "429", "500", "503"}]
  /\ at \in [Workers -> {"idle", "begin", "jobs", "verdict", "exited"}]
  /\ holds \in [Workers -> Runs \cup {NoRun}]
  /\ \A w \in Workers : holds[w] \in Runs <=> at[w] \in {"begin", "jobs", "verdict"}
  /\ failed \in [Workers -> BOOLEAN]
  /\ stage \in [Workers -> [Jobs -> Stages]]

\* A terminal run row never changes again: not by the second write of the
\* worker, not by recovery after a crash or a shutdown (store.go:260-267 has no
\* guard on the status it overwrites; the callers' order is what protects it).
TerminalIsForever ==
  [][\A r \in Runs : runRow[r] \in Terminal => runRow'[r] = runRow[r]]_runRow

\* A run is started at most once in its life, by the process that created it:
\* no restart runs it again (the queue is not persisted) and no second worker
\* gets it.
StartsOnce ==
  [][\A r \in Runs : runRow'[r] = Running /\ runRow[r] # Running
                       => runRow[r] = Pending /\ r \notin old]_runRow

\* A run is in one place: once in the queue, or in the hands of one worker, and
\* only if its request was accepted.  A refused one is never executed.
OneOwner ==
  \A r \in Runs :
    /\ Up /\ Queued(r) => ~Held(r) /\ reply[r] = "202"
    /\ Up /\ Held(r)   => reply[r] = "202"
    /\ \A i, k \in 1..Len(queue) : queue[i] = r /\ queue[k] = r => i = k
    /\ \A v, w \in Workers : holds[v] = r /\ holds[w] = r => v = w
    /\ reply[r] \in {"429", "500", "503"} => runRow[r] \notin {Running, Success}

\* While the daemon serves, no accepted run is lost: every row that is pending
\* or running belongs to a request in progress, a queued run or a busy worker,
\* or to a request that was refused after its row had been made.  Those last
\* rows stay pending until the next start-up.
ActiveRunsOwned ==
  proc \in {"serving", "draining"} /\ faults < 2 =>
    \A r \in Runs : runRow[r] \in Active /\ (r \in old => faults = 0) =>
      InFlight(r) \/ Queued(r) \/ Held(r) \/ reply[r] \in {"500", "503"}

\* Start-up marks every run an earlier process left pending or running as
\* failed, however that process ended (docs/self-hosted.md:515).
RecoveredRunsSettled ==
  Up /\ faults = 0 => \A r \in old : runRow[r] \in Terminal

\* A run reported as successful has successful job rows and keeps them, through
\* crashes and recoveries, but for the jobs whose own write was lost: there are
\* never more of those than failed store calls (scheduler.go:180 drops the error;
\* the next start-up may turn such a row from running to failed, store.go:537).
SuccessKeepsItsJobs ==
  Cardinality({rj \in Runs \X Jobs : /\ runRow[rj[1]] = Success
                                     /\ jobRow[rj[1]][rj[2]] # Success}) <= faults

\* A job of this process is reported as running only under a run reported as
\* running: marking the run comes first, a refusal ends the run, and the run ends
\* after its jobs.  Each exception is a job whose last write was lost.
RunningJobsUnderRunningRun ==
  Cardinality({rj \in (Runs \ old) \X Jobs : /\ jobRow[rj[1]][rj[2]] = Running
                                             /\ runRow[rj[1]] # Running}) <= faults

\* Every accepted run reaches a terminal status: its worker, or the recovery
\* after the shutdown or crash that took its worker away, writes it.
AcceptedRunsSettle ==
  \A r \in Runs : reply[r] = "202" ~> runRow[r] \in Terminal \/ faults > 0

\* A shutdown comes to an end: cancelling the context lets every worker exit,
\* busy or idle, whatever is left in the queue (pool.go:44-49, 56-58).
ShutdownCompletes == proc = "draining" ~> proc = "down"

\* What ResetGhostRuns is tested to do: no job of an interrupted run is left
\* reported as running ("Verify jobs were also updated", store_test.go:378).
InterruptedJobsFailed ==
  Up => \A r \in old, j \in Jobs : jobRow[r][j] # Running

\* After the HTTP server has been shut down "no new incoming requests or
\* webhook jobs can be enqueued" (main.go:252).
NothingEnqueuedAfterShutdown ==
  [][proc = "stopping" /\ proc' = "stopping" => Len(queue') <= Len(queue)]_<<proc, queue>>
=============================================================================
