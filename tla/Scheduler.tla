------------------------------ MODULE Scheduler ------------------------------
(***************************************************************************)
(* One pipeline run from the moment a pool worker takes it off the queue:  *)
(* pool.processJob calling scheduler.RunPipeline, which runs one goroutine *)
(* per job under an errgroup, each waiting for its dependencies' done      *)
(* channels, copying a workspace, running a container and writing its row. *)
(*                                                                         *)
(* The worker's context may be cancelled at any moment (shutdown), every   *)
(* store or Docker call that can fail may fail (at most MaxFaults times),  *)
(* and a container does what it likes until it exits.                      *)
(***************************************************************************)
EXTENDS Naturals, Sequences, FiniteSets, RunStatus

CONSTANTS
  Jobs,       \* the jobs of the pipeline
  Pipelines,  \* the shapes to run: each gives every job its depends_on list
  Dir,        \* the directory a job's name is cleaned to (sanitizeJobName)
  MaxFaults   \* bound on failing store, Docker and file-removal calls

\* What the central checkout puts in a directory; a directory that does not
\* exist holds nothing.
Checkout == "checkout"

ASSUME JobsAssumption == Jobs # {} /\ IsFiniteSet(Jobs) /\ Checkout \notin Jobs
ASSUME PipelinesAssumption == Pipelines \subseteq [Jobs -> Seq(Jobs)]
ASSUME DirAssumption == DOMAIN Dir = Jobs
ASSUME FaultsAssumption == MaxFaults \in Nat

Dirs == {Dir[j] : j \in Jobs}

VARIABLES
  dependsOn,  \* the pipeline being run: a job's depends_on, in file order
  ctxDone,    \* the worker's context has been cancelled
  faults,     \* calls that have failed so far
  run,        \* runs.status of this run
  row,        \* run_jobs.status of each job
  main,       \* where processJob / RunPipeline is
  result,     \* what RunPipeline returns: "none" yet, "ok" or "err"
  notice,     \* the status handed to the notifier, or "none"
  tree,       \* the run's temporary directory
  files,      \* per job directory, who wrote into what it holds
  pc,         \* where each job's goroutine is
  waited,     \* how many of its dependencies a goroutine has waited for
  doneChan,   \* the job's done channel is closed
  jobStatus,  \* the in-memory jobStatuses map ("none": no entry)
  container,  \* the job's container
  egFailed    \* a goroutine has returned an error: the errgroup is cancelled

vars == <<dependsOn, ctxDone, faults, run, row, main, result, notice, tree,
          files, pc, waited, doneChan, jobStatus, container, egFailed>>

\* What the goroutines of the jobs own; what RunPipeline itself owns.
jobVars  == <<row, files, pc, waited, doneChan, jobStatus, container, egFailed>>
mainVars == <<run, main, result, notice, tree>>

Phases == {"begin", "sort", "load", "create", "clone", "wait", "cleanup",
           "returned", "recorded", "finished"}

JobPhases == {"await", "copying", "marking", "starting", "running", "saving",
              "closing", "raising", "ended"}

Deps(j) == {dependsOn[j][i] : i \in 1..Len(dependsOn[j])}

\* Exactly one entry in depends_on: the job inherits that parent's workspace.
Inherits(j) == Len(dependsOn[j]) = 1
Parent(j)   == dependsOn[j][1]

\* Kahn's algorithm lists every job iff no set of jobs waits on itself.
Sortable == \A S \in SUBSET Jobs :
              S # {} => \E j \in S : Deps(j) \cap S = {}

\* egCtx: cancelled with the worker's context or by the first error.
EgDone == ctxDone \/ egFailed

-----------------------------------------------------------------------------
(* Store calls: the row is written, or the context is cancelled and the    *)
(* call refuses at once, or the call fails.                                *)

Fault == faults < MaxFaults /\ faults' = faults + 1

Refused(cancelled) ==
  \/ cancelled /\ UNCHANGED faults
  \/ ~cancelled /\ Fault

\* Seeded fault (TypeOK): a refused write marks the run cancelled.
WriteRun_Cancelled(s, cancelled) ==
  \/ ~cancelled /\ run' = s /\ UNCHANGED faults
  \/ Refused(cancelled) /\ run' = "cancelled"

WriteRun(s, cancelled) ==
  \/ ~cancelled /\ run' = s /\ UNCHANGED faults
  \/ Refused(cancelled) /\ UNCHANGED run

WriteRow(j, s, cancelled) ==
  \/ ~cancelled /\ row' = [row EXCEPT ![j] = s] /\ UNCHANGED faults
  \/ Refused(cancelled) /\ UNCHANGED row

-----------------------------------------------------------------------------
(* RunPipeline, on the worker's goroutine.                                 *)

Return(r) == result' = r /\ main' = "returned"

MarkRunRunning ==
  /\ main = "begin"
  /\ \/ ~ctxDone /\ run' = Running /\ main' = "sort" /\ UNCHANGED <<faults, result>>
     \/ Refused(ctxDone) /\ Return("err") /\ UNCHANGED run
  /\ UNCHANGED <<dependsOn, ctxDone, notice, tree, jobVars>>

TopoSort ==
  /\ main = "sort"
  /\ IF Sortable
     THEN main' = "load" /\ UNCHANGED <<faults, run, result>>
     ELSE WriteRun(Failed, FALSE) /\ Return("err")
  /\ UNCHANGED <<dependsOn, ctxDone, notice, tree, jobVars>>

\* GetRun and GetRunJobs: an error returns without writing the row.
LoadRows ==
  /\ main = "load"
  /\ \/ ~ctxDone /\ main' = "create" /\ UNCHANGED <<faults, result>>
     \/ Refused(ctxDone) /\ Return("err")
  /\ UNCHANGED <<dependsOn, ctxDone, run, notice, tree, jobVars>>

CreateTree ==
  /\ main = "create"
  /\ \/ tree' = "present" /\ main' = "clone" /\ UNCHANGED <<faults, run, result>>
     \/ WriteRun(Failed, FALSE) /\ Return("err") /\ UNCHANGED tree
  /\ UNCHANGED <<dependsOn, ctxDone, notice, jobVars>>

\* A cancelled context fails a git clone, not the copy of a local source.
CloneSource ==
  /\ main = "clone"
  /\ \/ main' = "wait" /\ UNCHANGED <<faults, run, result>>
     \/ WriteRun(Failed, FALSE) /\ result' = "err" /\ main' = "cleanup"
  /\ UNCHANGED <<dependsOn, ctxDone, notice, tree, jobVars>>

\* Seeded fault (VerdictIsQuiescent): the first error is reported at once.
WaitForJobs_FirstError ==
  /\ main = "wait"
  /\ egFailed \/ \A j \in Jobs : pc[j] = "ended"
  /\ IF egFailed THEN WriteRun(Failed, FALSE) /\ result' = "err"
                 ELSE WriteRun(Success, FALSE) /\ result' = "ok"
  /\ main' = "cleanup"
  /\ UNCHANGED <<dependsOn, ctxDone, notice, tree, jobVars>>

WaitForJobs ==
  /\ main = "wait"
  /\ \A j \in Jobs : pc[j] = "ended"
  /\ IF egFailed THEN WriteRun(Failed, FALSE) /\ result' = "err"
                 ELSE WriteRun(Success, FALSE) /\ result' = "ok"
  /\ main' = "cleanup"
  /\ UNCHANGED <<dependsOn, ctxDone, notice, tree, jobVars>>

\* Seeded fault (TreeOutlivesJobs): cancelling removes the tree at once.
CleanupTree_OnCancel ==
  /\ main = "cleanup" \/ (main = "wait" /\ ctxDone)
  /\ tree' = "removed" /\ files' = [d \in Dirs |-> {}] /\ UNCHANGED faults
  /\ main' = IF main = "cleanup" THEN "returned" ELSE main
  /\ UNCHANGED <<dependsOn, ctxDone, run, result, notice, row, pc, waited,
                 doneChan, jobStatus, container, egFailed>>

\* The deferred RemoveAll, whose error nobody looks at.
CleanupTree ==
  /\ main = "cleanup"
  /\ \/ tree' = "removed" /\ files' = [d \in Dirs |-> {}] /\ UNCHANGED faults
     \/ Fault /\ tree' = "leaked" /\ UNCHANGED files
  /\ main' = "returned"
  /\ UNCHANGED <<dependsOn, ctxDone, run, result, notice, row, pc, waited,
                 doneChan, jobStatus, container, egFailed>>

-----------------------------------------------------------------------------
(* processJob, after RunPipeline has returned.                             *)

Verdict == IF result = "ok" THEN Success ELSE Failed

\* Seeded fault (ReportedIsFinal): shutdown marks the run in hand as failed.
RecordVerdict_FailOnCancel ==
  /\ main = "returned"
  /\ WriteRun(IF ctxDone THEN Failed ELSE Verdict, FALSE)
  /\ main' = "recorded"
  /\ UNCHANGED <<dependsOn, ctxDone, result, notice, tree, jobVars>>

\* Seeded fault (VerdictRecorded): an error is left to RunPipeline to record.
RecordVerdict_OnlySuccess ==
  /\ main = "returned"
  /\ IF result = "ok" THEN WriteRun(Success, ctxDone) ELSE UNCHANGED <<run, faults>>
  /\ main' = "recorded"
  /\ UNCHANGED <<dependsOn, ctxDone, result, notice, tree, jobVars>>

RecordVerdict ==
  /\ main = "returned"
  /\ WriteRun(Verdict, ctxDone)
  /\ main' = "recorded"
  /\ UNCHANGED <<dependsOn, ctxDone, result, notice, tree, jobVars>>

\* Seeded fault (NoticeAgreesWithStore): notify whether or not the run is read.
Notify_Unread ==
  /\ main = "recorded"
  /\ notice' = Verdict
  /\ main' = "finished"
  /\ UNCHANGED <<dependsOn, ctxDone, faults, run, result, tree, jobVars>>

\* The run is read again and its status replaced by the verdict; if the read
\* fails there is no notification.
Notify ==
  /\ main = "recorded"
  /\ \/ ~ctxDone /\ notice' = Verdict /\ UNCHANGED faults
     \/ Refused(ctxDone) /\ UNCHANGED notice
  /\ main' = "finished"
  /\ UNCHANGED <<dependsOn, ctxDone, run, result, tree, jobVars>>

-----------------------------------------------------------------------------
(* The goroutine of job j.                                                 *)

Goto(j, phase) == pc' = [pc EXCEPT ![j] = phase]
At(j, phase)   == main = "wait" /\ pc[j] = phase

Raise(j) == Goto(j, "ended") /\ egFailed' = TRUE

\* Seeded fault (FailFast): waits for the channel only.
AwaitDependency_ChannelOnly(j) ==
  /\ At(j, "await")
  /\ waited[j] < Len(dependsOn[j])
  /\ doneChan[dependsOn[j][waited[j] + 1]]
  /\ waited' = [waited EXCEPT ![j] = @ + 1]
  /\ UNCHANGED <<dependsOn, ctxDone, faults, mainVars, row, files, pc, doneChan,
                 jobStatus, container, egFailed>>

\* select between the dependency's channel and egCtx, in depends_on order;
\* with both ready Go picks either.
AwaitDependency(j) ==
  /\ At(j, "await")
  /\ waited[j] < Len(dependsOn[j])
  /\ LET dep == dependsOn[j][waited[j] + 1] IN
     \/ /\ doneChan[dep]
        /\ IF jobStatus[dep] = Success
           THEN waited' = [waited EXCEPT ![j] = @ + 1] /\ UNCHANGED <<pc, egFailed>>
           ELSE Raise(j) /\ UNCHANGED waited
     \/ EgDone /\ Raise(j) /\ UNCHANGED waited
  /\ UNCHANGED <<dependsOn, ctxDone, faults, mainVars, row, files, doneChan,
                 jobStatus, container>>

\* Seeded fault (KeepsPromise): the job starts when one dependency is done.
BeginCopy_AnyDependency(j) ==
  /\ At(j, "await")
  /\ Len(dependsOn[j]) > 0 => waited[j] > 0
  /\ Goto(j, "copying")
  /\ UNCHANGED <<dependsOn, ctxDone, faults, mainVars, row, files, waited,
                 doneChan, jobStatus, container, egFailed>>

\* Reading the directory to copy starts here and ends in CopyWorkspace.  The
\* error for a job without a row is left out: the handler creates one for every
\* job of the pipeline before the run is queued.
BeginCopy(j) ==
  /\ At(j, "await")
  /\ waited[j] = Len(dependsOn[j])
  /\ Goto(j, "copying")
  /\ UNCHANGED <<dependsOn, ctxDone, faults, mainVars, row, files, waited,
                 doneChan, jobStatus, container, egFailed>>

\* Seeded fault (SnapshotExact): a fan-in job inherits its first dependency.
CopyWorkspace_FirstParent(j) ==
  /\ At(j, "copying")
  /\ LET source == IF dependsOn[j] # <<>> THEN files[Dir[Parent(j)]] ELSE {Checkout}
     IN  files' = [files EXCEPT ![Dir[j]] = @ \cup source]
  /\ Goto(j, "marking")
  /\ UNCHANGED <<dependsOn, ctxDone, faults, mainVars, row, waited, doneChan,
                 jobStatus, container, egFailed>>

\* A missing parent directory is an error; what the target holds already stays.
CopyWorkspace(j) ==
  /\ At(j, "copying")
  /\ Inherits(j) => files[Dir[Parent(j)]] # {}
  /\ LET source == IF Inherits(j) THEN files[Dir[Parent(j)]] ELSE {Checkout}
     IN  files' = [files EXCEPT ![Dir[j]] = @ \cup source]
  /\ Goto(j, "marking")
  /\ UNCHANGED <<dependsOn, ctxDone, faults, mainVars, row, waited, doneChan,
                 jobStatus, container, egFailed>>

\* CopyDir removes its target when it fails.
CopyFails(j) ==
  /\ At(j, "copying")
  /\ files' = [files EXCEPT ![Dir[j]] = {}]
  /\ WriteRow(j, Failed, FALSE)
  /\ Goto(j, "raising")
  /\ UNCHANGED <<dependsOn, ctxDone, mainVars, waited, doneChan, jobStatus,
                 container, egFailed>>

\* Written with egCtx, the error ignored.
MarkJobRunning(j) ==
  /\ At(j, "marking")
  /\ WriteRow(j, Running, EgDone)
  /\ Goto(j, "starting")
  /\ UNCHANGED <<dependsOn, ctxDone, mainVars, files, waited, doneChan,
                 jobStatus, container, egFailed>>

\* Every Docker call carries egCtx, so nothing starts once it is cancelled.
StartContainer(j) ==
  /\ At(j, "starting")
  /\ ~EgDone
  /\ container' = [container EXCEPT ![j] = "running"]
  /\ Goto(j, "running")
  /\ UNCHANGED <<dependsOn, ctxDone, faults, mainVars, row, files, waited,
                 doneChan, jobStatus, egFailed>>

\* RunJob returns an error before the container runs: image, create, start.
StartFails(j) ==
  /\ At(j, "starting")
  /\ jobStatus' = [jobStatus EXCEPT ![j] = Failed]
  /\ Goto(j, "saving")
  /\ UNCHANGED <<dependsOn, ctxDone, faults, mainVars, row, files, waited,
                 doneChan, container, egFailed>>

JobWrites(j) ==
  /\ container[j] = "running"
  /\ j \notin files[Dir[j]]
  /\ files' = [files EXCEPT ![Dir[j]] = @ \cup {j}]
  /\ UNCHANGED <<dependsOn, ctxDone, faults, mainVars, row, pc, waited,
                 doneChan, jobStatus, container, egFailed>>

\* RunJob's deferred forced removal, whose error nobody looks at.
RemoveContainer(j) ==
  \/ container' = [container EXCEPT ![j] = "removed"] /\ UNCHANGED faults
  \/ Fault /\ container' = [container EXCEPT ![j] = "orphaned"]

\* Seeded fault (StartsAfterParents): the channel is closed under the mutex,
\* before the row is written.
RunJobReturns_CloseFirst(j, s) ==
  /\ At(j, "running")
  /\ RemoveContainer(j)
  /\ jobStatus' = [jobStatus EXCEPT ![j] = s]
  /\ doneChan' = [doneChan EXCEPT ![j] = (s = Success)]
  /\ Goto(j, "saving")
  /\ UNCHANGED <<dependsOn, ctxDone, mainVars, row, files, waited, egFailed>>

RunJobReturns(j, s) ==
  /\ At(j, "running")
  /\ RemoveContainer(j)
  /\ jobStatus' = [jobStatus EXCEPT ![j] = s]
  /\ Goto(j, "saving")
  /\ UNCHANGED <<dependsOn, ctxDone, mainVars, row, files, waited, doneChan, egFailed>>

\* The container exits, and RunJob sees its exit code even if egCtx is done.
JobExits(j) == \E s \in Terminal : RunJobReturns(j, s)

\* egCtx is done: reading logs or waiting for the container returns an error.
JobAborts(j) == EgDone /\ RunJobReturns(j, Failed)

SaveJobRow(j) ==
  /\ At(j, "saving")
  /\ WriteRow(j, jobStatus[j], FALSE)
  /\ Goto(j, IF jobStatus[j] = Success THEN "closing" ELSE "raising")
  /\ UNCHANGED <<dependsOn, ctxDone, mainVars, files, waited, doneChan,
                 jobStatus, container, egFailed>>

\* Seeded fault (EventuallyFinishes): the goroutine ends without closing.
CloseDone_Never(j) ==
  /\ At(j, "closing")
  /\ Goto(j, "ended")
  /\ UNCHANGED <<dependsOn, ctxDone, faults, mainVars, row, files, waited,
                 doneChan, jobStatus, container, egFailed>>

CloseDone(j) ==
  /\ At(j, "closing")
  /\ doneChan' = [doneChan EXCEPT ![j] = TRUE]
  /\ Goto(j, "ended")
  /\ UNCHANGED <<dependsOn, ctxDone, faults, mainVars, row, files, waited,
                 jobStatus, container, egFailed>>

\* Seeded fault (SuccessMeansAllSucceeded): the goroutine returns nil.
RaiseError_Swallowed(j) ==
  /\ At(j, "raising")
  /\ Goto(j, "ended")
  /\ UNCHANGED <<dependsOn, ctxDone, faults, mainVars, row, files, waited,
                 doneChan, jobStatus, container, egFailed>>

RaiseError(j) ==
  /\ At(j, "raising")
  /\ Raise(j)
  /\ UNCHANGED <<dependsOn, ctxDone, faults, mainVars, row, files, waited,
                 doneChan, jobStatus, container>>

-----------------------------------------------------------------------------
\* Shutdown cancels the worker's context.
Cancel ==
  /\ ~ctxDone
  /\ main # "finished"
  /\ ctxDone' = TRUE
  /\ UNCHANGED <<dependsOn, faults, mainVars, jobVars>>

\* The run is over; the worker goes back to the queue.
Finished == main = "finished" /\ UNCHANGED vars

Init ==
  /\ dependsOn \in Pipelines
  /\ ctxDone = FALSE
  /\ faults = 0
  /\ run = Pending
  /\ row = [j \in Jobs |-> Pending]
  /\ main = "begin"
  /\ result = "none"
  /\ notice = "none"
  /\ tree = "absent"
  /\ files = [d \in Dirs |-> {}]
  /\ pc = [j \in Jobs |-> "await"]
  /\ waited = [j \in Jobs |-> 0]
  /\ doneChan = [j \in Jobs |-> FALSE]
  /\ jobStatus = [j \in Jobs |-> "none"]
  /\ container = [j \in Jobs |-> "none"]
  /\ egFailed = FALSE

MainStep == MarkRunRunning \/ TopoSort \/ LoadRows \/ CreateTree \/ CloneSource
            \/ WaitForJobs \/ CleanupTree \/ RecordVerdict \/ Notify

\* What the goroutine of j does by itself, whatever its container does.
JobStep(j) == AwaitDependency(j) \/ BeginCopy(j) \/ CopyWorkspace(j)
              \/ CopyFails(j) \/ MarkJobRunning(j) \/ StartContainer(j)
              \/ StartFails(j) \/ JobAborts(j) \/ SaveJobRow(j)
              \/ CloseDone(j) \/ RaiseError(j)

Next == MainStep \/ Cancel \/ Finished
        \/ \E j \in Jobs : JobStep(j) \/ JobWrites(j) \/ JobExits(j)

Spec == Init /\ [][Next]_vars

\* Goroutines are scheduled; nothing is assumed of the containers' commands.
Fairness == WF_vars(MainStep) /\ \A j \in Jobs : WF_vars(JobStep(j))

FairSpec == Spec /\ Fairness

-----------------------------------------------------------------------------
(* Properties.                                                             *)

\* The variables hold what the code can put in them; in particular no row
\* ever holds the declared but unused status "cancelled".
TypeOK ==
  /\ dependsOn \in Pipelines
  /\ ctxDone \in BOOLEAN /\ egFailed \in BOOLEAN
  /\ faults \in 0..MaxFaults
  /\ run \in Status
  /\ row \in [Jobs -> Status]
  /\ main \in Phases
  /\ result \in {"none", "ok", "err"}
  /\ notice \in {"none"} \cup Terminal
  /\ tree \in {"absent", "present", "removed", "leaked"}
  /\ files \in [Dirs -> SUBSET (Jobs \cup {Checkout})]
  /\ pc \in [Jobs -> JobPhases]
  /\ waited \in [Jobs -> Nat]
  /\ doneChan \in [Jobs -> BOOLEAN]
  /\ jobStatus \in [Jobs -> {"none"} \cup Terminal]
  /\ container \in [Jobs -> {"none", "running", "removed", "orphaned"}]

\* From the moment a job begins to copy its workspace, each of its
\* dependencies has succeeded, its container is gone, and (unless a store call
\* failed) its row says so: nobody can see a job under way before its parents,
\* and nobody writes the directory being copied (Contract Rule 6;
\* scheduler.go:131-145, 177-181).
StartsAfterParents ==
  \A j \in Jobs : pc[j] \notin {"await", "ended"} =>
    \A d \in Deps(j) : /\ jobStatus[d] = Success
                       /\ container[d] # "running"
                       /\ faults = 0 => row[d] = Success

\* A run reported as successful has only jobs that succeeded, whose rows say
\* so unless a store call failed (scheduler.go:186-191).
SuccessMeansAllSucceeded ==
  run = Success => \A j \in Jobs : /\ jobStatus[j] = Success
                                   /\ faults = 0 => row[j] = Success

\* When the run's row turns terminal, no goroutine is under way, so no
\* container runs that is still looked after and (unless a store call failed)
\* no row says running: eg.Wait waits for every job, not for the first error.
VerdictIsQuiescent ==
  run \in Terminal => \A j \in Jobs :
    /\ pc[j] \in {"await", "ended"}
    /\ container[j] # "running"
    /\ faults = 0 => row[j] # Running

\* Once a client has seen a terminal status, the rows of the run and of its
\* jobs never change again, although the run's row is written twice
\* (scheduler.go:187, 191 and pool.go:73, 77).
ReportedIsFinal == [][run \notin Terminal]_<<run, row>>

\* When the worker is done with a run, its row holds the verdict unless the
\* context was cancelled or two calls failed: the worker's second write makes
\* up for any single failed call (pool.go:73, 77).
VerdictRecorded ==
  main \in {"recorded", "finished"} =>
    ctxDone \/ faults >= 2 \/ (result # "none" /\ run = Verdict)

\* While a job's container runs, its directory holds exactly what the contract
\* gives it beside its own writes: the final workspace of its parent if it has
\* one dependency, the clean checkout otherwise (Contract Rules 3, 4, 5;
\* scheduler.go:152-160).
SnapshotExact ==
  \A j \in Jobs : container[j] = "running" =>
    files[Dir[j]] \ {j} =
      IF Len(dependsOn[j]) = 1 THEN files[Dir[dependsOn[j][1]]] ELSE {Checkout}

\* Jobs that run at the same time do not write into each other's workspace:
\* "creates an isolated workspace for a job" (workspace.go:58).
WorkspacesIsolated ==
  \A j, k \in Jobs : j # k /\ container[j] = "running" /\ container[k] = "running"
                       => k \notin files[Dir[j]]

\* The run's directory is there as long as any job is under way, and not after
\* RunPipeline has returned, unless removing it failed (Contract Rule 8).
TreeOutlivesJobs ==
  /\ tree # "present" => \A j \in Jobs : /\ pc[j] \in {"await", "ended"}
                                         /\ container[j] # "running"
  /\ result # "none" /\ tree = "present" => main = "cleanup"

\* A notification reports the status the store holds (unless two calls failed):
\* none is sent for a run whose row was left active by a cancelled context.
NoticeAgreesWithStore == notice # "none" /\ faults < 2 => run = notice

\* What the abstract specification sees of a job.
Stage(j) == IF container[j] = "running" THEN "running"
            ELSE IF jobStatus[j] = Success THEN "succeeded"
            ELSE IF jobStatus[j] = Failed THEN "failed"
            ELSE "waiting"

Promise == INSTANCE DagRun WITH stage <- [j \in Jobs |-> Stage(j)],
                                verdict <- result

\* RunPipeline keeps the promise of DagRun: dependency order, one verdict, nil
\* exactly when all jobs succeeded, nothing running afterwards.
KeepsPromise == Promise!Spec

\* A cancelled context or a failed job ends the run even if the containers
\* under way would never exit by themselves (the select on egCtx at
\* scheduler.go:134 and runner.go:260).
FailFast == (ctxDone \/ egFailed) ~> main = "finished"

\* Provided containers exit, every run comes to an end: no goroutine waits
\* forever for a channel nobody closes, whatever fails.
EventuallyFinishes ==
  (\A j \in Jobs : WF_vars(JobExits(j))) => <>(main = "finished")
=============================================================================
