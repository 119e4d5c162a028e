--------------------------- MODULE SchedulerProofs ---------------------------
(***************************************************************************)
(* Theorems about module Scheduler, for every set of jobs, every set of    *)
(* pipeline shapes, every directory mapping and every number of failing    *)
(* calls.  The inductive invariant is IInv: the type invariant, one part   *)
(* per goroutine (JobInv) and one for the worker (MainInv).  What a job    *)
(* finds in its workspace needs SnapInv as well, and names of its own; the *)
(* absence of deadlock needs that the pipeline has been sorted.            *)
(***************************************************************************)
EXTENDS Scheduler, TLAPS

-----------------------------------------------------------------------------
(* The inductive invariant.                                                *)

\* A container runs exactly while RunJob waits for it, and the in-memory
\* status appears when RunJob returns.
Lifecycle(j) ==
  /\ container[j] = "running" <=> pc[j] = "running"
  /\ pc[j] = "saving" => jobStatus[j] \in Terminal
  /\ pc[j] = "closing" \/ doneChan[j] => jobStatus[j] = Success
  /\ doneChan[j] => pc[j] = "ended"
  /\ pc[j] = "ended" => doneChan[j] \/ egFailed

\* As long as no store call has failed, the row follows the goroutine.
RowFollows(j) ==
  faults = 0 =>
    /\ pc[j] = "closing" \/ doneChan[j] => row[j] = Success
    /\ row[j] = Running => pc[j] \in {"starting", "running", "saving"}

\* A goroutine has waited for a prefix of its dependencies, all of them closed,
\* and for the whole list once it has left the wait.
WaitedFor(j) ==
  /\ waited[j] <= Len(dependsOn[j])
  /\ \A i \in 1..waited[j] : doneChan[dependsOn[j][i]]
  /\ pc[j] \notin {"await", "ended"} => waited[j] = Len(dependsOn[j])

JobInv(j) == Lifecycle(j) /\ RowFollows(j) /\ WaitedFor(j)

Before == {"begin", "sort", "load", "create", "clone"}

\* The worker's side: goroutines only move while it waits for them, the run's
\* row is not terminal until they have ended, and what it returns and reports
\* agrees with what it has written.
MainInv ==
  /\ main # "wait" => \A j \in Jobs : pc[j] \in {"await", "ended"}
  /\ main \in Before \cup {"wait"} => run \in Active /\ result = "none"
  /\ main \notin Before \cup {"wait"} => result # "none"
  /\ run \in Terminal => run = Verdict
  /\ result = "ok" => \A j \in Jobs : doneChan[j]
  /\ main \in {"begin", "sort", "load", "create"} => tree = "absent"
  /\ main \in {"clone", "wait", "cleanup"} => tree = "present"
  /\ main \in {"returned", "recorded", "finished"} => tree # "present"
  /\ main \in {"cleanup", "returned"} => ctxDone \/ faults >= 1 \/ run = Verdict
  /\ VerdictRecorded
  /\ notice # "none" => main = "finished" /\ notice = Verdict
  /\ NoticeAgreesWithStore

IInv == TypeOK /\ (\A j \in Jobs : JobInv(j)) /\ MainInv
-----------------------------------------------------------------------------
(* Helpers.                                                                *)

USE JobsAssumption, PipelinesAssumption, DirAssumption, FaultsAssumption

\* A dependency is a job, and every job has a directory.
LEMMA DepsAreJobs ==
  ASSUME TypeOK, NEW j \in Jobs
  PROVE  /\ dependsOn[j] \in Seq(Jobs)
         /\ Len(dependsOn[j]) \in Nat
         /\ \A i \in 1..Len(dependsOn[j]) : dependsOn[j][i] \in Jobs
         /\ Deps(j) \subseteq Jobs
         /\ Dir[j] \in Dirs
  BY DEF TypeOK, Deps, Dirs

\* A refused store call leaves the counter of faults within its bound, and
\* either the context was cancelled or the counter has gone up.
LEMMA RefusedCounts ==
  ASSUME TypeOK, NEW cancelled \in BOOLEAN, Refused(cancelled)
  PROVE  /\ faults' \in 0..MaxFaults
         /\ faults' = faults \/ faults' = faults + 1
         /\ cancelled \/ faults' = faults + 1
  BY DEF TypeOK, Refused, Fault

\* What writing the run's row does.
LEMMA WriteRunDoes ==
  ASSUME TypeOK, NEW s \in Status, NEW cancelled \in BOOLEAN, WriteRun(s, cancelled)
  PROVE  /\ run' \in Status
         /\ faults' \in 0..MaxFaults
         /\ faults' = faults \/ faults' = faults + 1
         /\ run' = s \/ (run' = run /\ (cancelled \/ faults' = faults + 1))
  BY RefusedCounts DEF TypeOK, WriteRun

\* What writing a job's row does.
LEMMA WriteRowDoes ==
  ASSUME TypeOK, NEW j \in Jobs, NEW s \in Status, NEW cancelled \in BOOLEAN,
         WriteRow(j, s, cancelled)
  PROVE  /\ row' \in [Jobs -> Status]
         /\ faults' \in 0..MaxFaults
         /\ faults' = faults \/ faults' = faults + 1
         /\ \A k \in Jobs \ {j} : row'[k] = row[k]
         /\ row'[j] \in {s, row[j]}
         /\ ~cancelled /\ faults' = 0 => row'[j] = s
<1>1. CASE ~cancelled /\ row' = [row EXCEPT ![j] = s] /\ UNCHANGED faults
  BY <1>1 DEF TypeOK
<1>2. CASE Refused(cancelled) /\ UNCHANGED row
  BY <1>2, RefusedCounts DEF TypeOK
<1> QED
  BY <1>1, <1>2 DEF WriteRow

-----------------------------------------------------------------------------
(* Type correctness.                                                       *)

\* Every step of RunPipeline and processJob preserves the types.
LEMMA MainStepType ==
  ASSUME TypeOK, MainStep
  PROVE  TypeOK'
<1> USE DEF Status, Terminal, Pending, Running, Success, Failed, Phases
<1>1. CASE MarkRunRunning
  BY <1>1, RefusedCounts DEF TypeOK, MarkRunRunning, Return, jobVars
<1>2. CASE TopoSort
  BY <1>2, WriteRunDoes DEF TypeOK, TopoSort, Return, jobVars
<1>3. CASE LoadRows
  BY <1>3, RefusedCounts DEF TypeOK, LoadRows, Return, jobVars
<1>4. CASE CreateTree
  BY <1>4, WriteRunDoes DEF TypeOK, CreateTree, Return, jobVars
<1>5. CASE CloneSource
  BY <1>5, WriteRunDoes DEF TypeOK, CloneSource, jobVars
<1>6. CASE WaitForJobs
  BY <1>6, WriteRunDoes DEF TypeOK, WaitForJobs, jobVars
<1>7. CASE CleanupTree
  <2>1. faults' \in 0..MaxFaults
    BY <1>7 DEF CleanupTree, Fault, TypeOK
  <2>2. files' \in [Dirs -> SUBSET (Jobs \cup {Checkout})]
    BY <1>7 DEF CleanupTree, TypeOK
  <2> QED
    BY <1>7, <2>1, <2>2 DEF TypeOK, CleanupTree
<1>8. CASE RecordVerdict
  <2>1. Verdict \in Status
    BY DEF Verdict
  <2> QED
    BY <1>8, <2>1, WriteRunDoes DEF TypeOK, RecordVerdict, jobVars
<1>9. CASE Notify
  BY <1>9, RefusedCounts DEF TypeOK, Notify, Verdict, jobVars
<1> QED
  BY <1>1, <1>2, <1>3, <1>4, <1>5, <1>6, <1>7, <1>8, <1>9 DEF MainStep

\* Every step of a job's goroutine and of its container preserves the types.
\* That the row saved is a status needs JobInv: RunJob has returned by then.
LEMMA JobStepType ==
  ASSUME TypeOK, NEW j \in Jobs, JobInv(j), JobStep(j) \/ JobWrites(j) \/ JobExits(j)
  PROVE  TypeOK'
<1> USE DepsAreJobs
    DEF Status, Terminal, Pending, Running, Success, Failed, JobPhases, mainVars
<1>1. CASE AwaitDependency(j)
  <2>1. CASE waited' = [waited EXCEPT ![j] = @ + 1] /\ UNCHANGED <<pc, egFailed>>
    <3>1. waited' \in [Jobs -> Nat]
      BY <2>1 DEF TypeOK
    <3> QED
      BY <1>1, <2>1, <3>1 DEF TypeOK, AwaitDependency
  <2>2. CASE Raise(j) /\ UNCHANGED waited
    BY <1>1, <2>2 DEF TypeOK, AwaitDependency, Raise, Goto
  <2> QED
    BY <1>1, <2>1, <2>2 DEF AwaitDependency
<1>2. CASE BeginCopy(j)
  BY <1>2 DEF TypeOK, BeginCopy, Goto
<1>3. CASE CopyWorkspace(j)
  <2>1. Inherits(j) => Parent(j) \in Jobs
    BY DEF Inherits, Parent
  <2>2. files' \in [Dirs -> SUBSET (Jobs \cup {Checkout})]
    BY <1>3, <2>1 DEF TypeOK, CopyWorkspace, Dirs
  <2> QED
    BY <1>3, <2>2 DEF TypeOK, CopyWorkspace, Goto
<1>4. CASE CopyFails(j)
  <2>1. row' \in [Jobs -> Status] /\ faults' \in 0..MaxFaults
    BY <1>4, WriteRowDoes DEF CopyFails
  <2>2. files' \in [Dirs -> SUBSET (Jobs \cup {Checkout})]
    BY <1>4 DEF TypeOK, CopyFails
  <2> QED
    BY <1>4, <2>1, <2>2 DEF TypeOK, CopyFails, Goto
<1>5. CASE MarkJobRunning(j)
  <2>1. EgDone \in BOOLEAN
    BY DEF EgDone, TypeOK
  <2>2. row' \in [Jobs -> Status] /\ faults' \in 0..MaxFaults
    BY <1>5, <2>1, WriteRowDoes DEF MarkJobRunning
  <2> QED
    BY <1>5, <2>2 DEF TypeOK, MarkJobRunning, Goto
<1>6. CASE StartContainer(j)
  BY <1>6 DEF TypeOK, StartContainer, Goto
<1>7. CASE StartFails(j)
  BY <1>7 DEF TypeOK, StartFails, Goto
<1>8. ASSUME NEW s \in Terminal, RunJobReturns(j, s)
      PROVE  TypeOK'
  <2>1. /\ container' \in [Jobs -> {"none", "running", "removed", "orphaned"}]
        /\ faults' \in 0..MaxFaults
    <3>1. RemoveContainer(j)
      BY <1>8 DEF RunJobReturns
    <3>2. container' \in [Jobs -> {"none", "running", "removed", "orphaned"}]
      BY <3>1 DEF TypeOK, RemoveContainer
    <3>3. faults' \in 0..MaxFaults
      BY <3>1 DEF TypeOK, RemoveContainer, Fault
    <3> QED
      BY <3>2, <3>3
  <2>2. /\ jobStatus' \in [Jobs -> {"none"} \cup Terminal]
        /\ pc' \in [Jobs -> JobPhases]
    BY <1>8 DEF TypeOK, RunJobReturns, Goto
  <2> QED
    BY <1>8, <2>1, <2>2 DEF TypeOK, RunJobReturns
<1>9. CASE SaveJobRow(j)
  <2>1. jobStatus[j] \in Terminal
    BY <1>9 DEF SaveJobRow, At, JobInv, Lifecycle
  <2>2. row' \in [Jobs -> Status] /\ faults' \in 0..MaxFaults
    BY <1>9, <2>1, WriteRowDoes DEF SaveJobRow
  <2> QED
    BY <1>9, <2>2 DEF TypeOK, SaveJobRow, Goto
<1>10. CASE CloseDone(j)
  BY <1>10 DEF TypeOK, CloseDone, Goto
<1>11. CASE RaiseError(j)
  BY <1>11 DEF TypeOK, RaiseError, Raise, Goto
<1>12. CASE JobWrites(j)
  BY <1>12 DEF TypeOK, JobWrites
<1> QED
  BY <1>1, <1>2, <1>3, <1>4, <1>5, <1>6, <1>7, <1>8, <1>9, <1>10, <1>11, <1>12
  DEF JobStep, JobExits, JobAborts
-----------------------------------------------------------------------------
(* A step of one goroutine.                                                *)

\* What a step of job j leaves to the others: their entries are untouched, a
\* closed channel stays closed, an error stays raised, faults only add up.
Frame(j) ==
  /\ \A k \in Jobs \ {j} : /\ pc'[k] = pc[k]
                            /\ row'[k] = row[k]
                            /\ waited'[k] = waited[k]
                            /\ doneChan'[k] = doneChan[k]
                            /\ jobStatus'[k] = jobStatus[k]
                            /\ container'[k] = container[k]
  /\ doneChan[j] => doneChan'[j]
  /\ egFailed => egFailed'
  /\ faults' \in {faults, faults + 1}
  /\ dependsOn' = dependsOn
  /\ UNCHANGED mainVars
  /\ UNCHANGED ctxDone

\* What holds of a job survives the steps of the others.
LEMMA OthersKeep ==
  ASSUME TypeOK, TypeOK', NEW j \in Jobs, Frame(j), NEW k \in Jobs \ {j}, JobInv(k)
  PROVE  JobInv(k)'
<1>1. Lifecycle(k)'
  BY DEF JobInv, Lifecycle, Frame
<1>2. RowFollows(k)'
  <2>1. faults' = 0 => faults = 0
    BY DEF TypeOK, Frame
  <2> QED
    BY <2>1 DEF JobInv, RowFollows, Frame
<1>3. WaitedFor(k)'
  <2>1. \A d \in Jobs : doneChan[d] => doneChan'[d]
    BY DEF Frame
  <2>2. /\ waited'[k] = waited[k]
        /\ pc'[k] = pc[k]
        /\ dependsOn' = dependsOn
    BY DEF Frame
  <2>3. \A i \in 1..waited[k] : dependsOn[k][i] \in Jobs
    BY DepsAreJobs DEF JobInv, WaitedFor, TypeOK
  <2> QED
    BY <2>1, <2>2, <2>3 DEF JobInv, WaitedFor
<1> QED
  BY <1>1, <1>2, <1>3 DEF JobInv

\* Every step of job j preserves its part of the invariant and frames the rest.
LEMMA JobStepOwn ==
  ASSUME TypeOK, TypeOK', NEW j \in Jobs, JobInv(j), JobStep(j) \/ JobExits(j)
  PROVE  JobInv(j)' /\ Frame(j)
<1> USE DepsAreJobs DEF Terminal, Pending, Running, Success, Failed, mainVars
<1>1. CASE AwaitDependency(j)
  <2> DEFINE dep == dependsOn[j][waited[j] + 1]
  <2>1. dep \in Jobs /\ waited[j] \in Nat
    BY <1>1 DEF AwaitDependency, TypeOK
  <2>2. CASE /\ doneChan[dep]
             /\ waited' = [waited EXCEPT ![j] = @ + 1]
             /\ UNCHANGED <<pc, egFailed>>
    <3>1. UNCHANGED <<dependsOn, ctxDone, faults, mainVars, row, doneChan, jobStatus, container>>
      BY <1>1 DEF AwaitDependency
    <3>2. waited'[j] = waited[j] + 1 /\ \A k \in Jobs \ {j} : waited'[k] = waited[k]
      BY <2>2 DEF TypeOK
    <3>3. Frame(j) /\ Lifecycle(j)' /\ RowFollows(j)'
      BY <2>2, <3>1, <3>2 DEF Frame, JobInv, Lifecycle, RowFollows
    <3>4. WaitedFor(j)'
      <4>1. pc[j] = "await" /\ waited[j] < Len(dependsOn[j])
        BY <1>1 DEF AwaitDependency, At
      <4>2. \A i \in 1..(waited[j] + 1) : doneChan[dependsOn[j][i]]
        BY <2>1, <2>2 DEF JobInv, WaitedFor
      <4> QED
        BY <2>1, <2>2, <3>1, <3>2, <4>1, <4>2 DEF WaitedFor
    <3> QED
      BY <3>3, <3>4 DEF JobInv
  <2>3. CASE Raise(j) /\ UNCHANGED waited
    BY <1>1, <2>3 DEF TypeOK, AwaitDependency, At, Raise, Goto, Frame, JobInv,
                      Lifecycle, RowFollows, WaitedFor
  <2> QED
    BY <1>1, <2>2, <2>3 DEF AwaitDependency
<1>2. CASE BeginCopy(j)
  BY <1>2 DEF TypeOK, BeginCopy, At, Goto, Frame, JobInv, Lifecycle, RowFollows, WaitedFor
<1>3. CASE CopyWorkspace(j)
  BY <1>3 DEF TypeOK, CopyWorkspace, At, Goto, Frame, JobInv, Lifecycle, RowFollows, WaitedFor
<1>4. CASE CopyFails(j)
  <2>1. /\ faults' = faults \/ faults' = faults + 1
        /\ \A k \in Jobs \ {j} : row'[k] = row[k]
        /\ row'[j] \in {Failed, row[j]}
    BY <1>4, WriteRowDoes DEF CopyFails, Status
  <2> QED
    BY <1>4, <2>1 DEF TypeOK, CopyFails, At, Goto, Frame, JobInv, Lifecycle, RowFollows, WaitedFor
<1>5. CASE MarkJobRunning(j)
  <2>1. /\ faults' = faults \/ faults' = faults + 1
        /\ \A k \in Jobs \ {j} : row'[k] = row[k]
    BY <1>5, WriteRowDoes DEF MarkJobRunning, Status, EgDone, TypeOK
  <2> QED
    BY <1>5, <2>1 DEF TypeOK, MarkJobRunning, At, Goto, Frame, JobInv, Lifecycle, RowFollows, WaitedFor
<1>6. CASE StartContainer(j)
  BY <1>6 DEF TypeOK, StartContainer, At, Goto, Frame, JobInv, Lifecycle, RowFollows, WaitedFor
<1>7. CASE StartFails(j)
  BY <1>7 DEF TypeOK, StartFails, At, Goto, Frame, JobInv, Lifecycle, RowFollows, WaitedFor
<1>8. ASSUME NEW s \in Terminal, RunJobReturns(j, s)
      PROVE  JobInv(j)' /\ Frame(j)
  <2>1. /\ faults' = faults \/ faults' = faults + 1
        /\ container'[j] # "running"
        /\ \A k \in Jobs \ {j} : container'[k] = container[k]
    BY <1>8 DEF TypeOK, RunJobReturns, RemoveContainer, Fault
  <2>2. /\ pc[j] = "running" /\ pc'[j] = "saving" /\ jobStatus'[j] = s
        /\ \A k \in Jobs \ {j} : pc'[k] = pc[k] /\ jobStatus'[k] = jobStatus[k]
        /\ UNCHANGED <<dependsOn, ctxDone, mainVars, row, waited, doneChan, egFailed>>
    BY <1>8 DEF TypeOK, RunJobReturns, At, Goto
  <2> QED
    BY <2>1, <2>2 DEF TypeOK, Frame, JobInv, Lifecycle, RowFollows, WaitedFor
<1>9. CASE SaveJobRow(j)
  <2>1. jobStatus[j] \in Terminal /\ pc[j] = "saving"
    BY <1>9 DEF SaveJobRow, At, JobInv, Lifecycle
  <2>2. /\ faults' = faults \/ faults' = faults + 1
        /\ \A k \in Jobs \ {j} : row'[k] = row[k]
        /\ faults' = 0 => row'[j] = jobStatus[j]
    BY <1>9, <2>1, WriteRowDoes DEF SaveJobRow, Status
  <2>3. /\ pc'[j] = IF jobStatus[j] = Success THEN "closing" ELSE "raising"
        /\ \A k \in Jobs \ {j} : pc'[k] = pc[k]
        /\ UNCHANGED <<dependsOn, ctxDone, mainVars, waited, doneChan, jobStatus, container, egFailed>>
    BY <1>9 DEF TypeOK, SaveJobRow, Goto
  <2> QED
    BY <2>1, <2>2, <2>3 DEF TypeOK, Frame, JobInv, Lifecycle, RowFollows, WaitedFor
<1>10. CASE CloseDone(j)
  <2>1. /\ pc[j] = "closing" /\ pc'[j] = "ended" /\ doneChan'[j]
        /\ \A k \in Jobs \ {j} : pc'[k] = pc[k] /\ doneChan'[k] = doneChan[k]
        /\ UNCHANGED <<dependsOn, ctxDone, faults, mainVars, row, waited, jobStatus, container, egFailed>>
    BY <1>10 DEF TypeOK, CloseDone, At, Goto
  <2>2. \A d \in Jobs : doneChan[d] => doneChan'[d]
    BY <2>1
  <2> QED
    BY <2>1, <2>2 DEF TypeOK, Frame, JobInv, Lifecycle, RowFollows, WaitedFor
<1>11. CASE RaiseError(j)
  BY <1>11 DEF TypeOK, RaiseError, At, Raise, Goto, Frame, JobInv, Lifecycle, RowFollows, WaitedFor
<1> QED
  BY <1>1, <1>2, <1>3, <1>4, <1>5, <1>6, <1>7, <1>8, <1>9, <1>10, <1>11
  DEF JobStep, JobExits, JobAborts
-----------------------------------------------------------------------------
(* A step of the worker.                                                   *)

\* The worker moves no goroutine: their part of the invariant stays.
LEMMA MainStepJobs ==
  ASSUME TypeOK, TypeOK', NEW j \in Jobs, JobInv(j), dependsOn' = dependsOn,
         faults' \in {faults, faults + 1},
         UNCHANGED <<row, pc, waited, doneChan, jobStatus, container, egFailed>>
  PROVE  JobInv(j)'
  BY DEF TypeOK, JobInv, Lifecycle, RowFollows, WaitedFor

\* What every step of the worker leaves alone.
LEMMA MainStepFrame ==
  ASSUME TypeOK, MainStep
  PROVE  /\ dependsOn' = dependsOn /\ ctxDone' = ctxDone
         /\ faults' \in {faults, faults + 1}
         /\ UNCHANGED <<row, pc, waited, doneChan, jobStatus, container, egFailed>>
<1> USE RefusedCounts, WriteRunDoes DEF Status, jobVars
<1>1. CASE MarkRunRunning
  BY <1>1 DEF TypeOK, MarkRunRunning
<1>2. CASE TopoSort
  BY <1>2 DEF TypeOK, TopoSort
<1>3. CASE LoadRows
  BY <1>3 DEF TypeOK, LoadRows
<1>4. CASE CreateTree
  BY <1>4 DEF TypeOK, CreateTree
<1>5. CASE CloneSource
  BY <1>5 DEF TypeOK, CloneSource
<1>6. CASE WaitForJobs
  BY <1>6 DEF TypeOK, WaitForJobs
<1>7. CASE CleanupTree
  BY <1>7 DEF TypeOK, CleanupTree, Fault
<1>8. CASE RecordVerdict
  <2>1. Verdict \in Status
    BY DEF Verdict
  <2> QED
    BY <1>8, <2>1 DEF TypeOK, RecordVerdict
<1>9. CASE Notify
  BY <1>9 DEF TypeOK, Notify
<1> QED
  BY <1>1, <1>2, <1>3, <1>4, <1>5, <1>6, <1>7, <1>8, <1>9 DEF MainStep

\* Every step of the worker preserves its own part of the invariant.
LEMMA MainStepOwn ==
  ASSUME TypeOK, TypeOK', \A j \in Jobs : JobInv(j), MainInv, MainStep
  PROVE  MainInv'
<1>0. /\ UNCHANGED <<row, pc, waited, doneChan, jobStatus, container, egFailed>>
      /\ ctxDone' = ctxDone
      /\ faults \in Nat /\ faults' \in {faults, faults + 1}
      /\ ctxDone \in BOOLEAN
  <2>1. faults \in Nat /\ ctxDone \in BOOLEAN
    BY DEF TypeOK
  <2> QED
    BY <2>1, MainStepFrame
<1> USE <1>0 DEF Status, Terminal, Active, Pending, Running, Success, Failed, Before,
                 MainInv, Verdict, VerdictRecorded, NoticeAgreesWithStore
<1>1. CASE MarkRunRunning
  BY <1>1, RefusedCounts DEF MarkRunRunning, Return
<1>2. CASE TopoSort
  <2>1. CASE Sortable
    BY <1>2, <2>1 DEF TopoSort
  <2>2. CASE ~Sortable
    <3>1. WriteRun(Failed, FALSE) /\ main' = "returned" /\ result' = "err"
          /\ UNCHANGED <<notice, tree>> /\ main = "sort"
      BY <1>2, <2>2 DEF TopoSort, Return
    <3>2. run' = Failed \/ (run' = run /\ faults' = faults + 1)
      BY <3>1, WriteRunDoes
    <3> QED
      BY <3>1, <3>2
  <2> QED
    BY <2>1, <2>2
<1>3. CASE LoadRows
  BY <1>3, RefusedCounts DEF LoadRows, Return
<1>4. CASE CreateTree
  <2>1. CASE tree' = "present" /\ main' = "clone" /\ UNCHANGED <<faults, run, result>>
    BY <1>4, <2>1 DEF CreateTree
  <2>2. CASE WriteRun(Failed, FALSE) /\ Return("err") /\ UNCHANGED tree
    <3>1. run' = Failed \/ (run' = run /\ faults' = faults + 1)
      BY <2>2, WriteRunDoes
    <3> QED
      BY <1>4, <2>2, <3>1 DEF CreateTree, Return
  <2> QED
    BY <1>4, <2>1, <2>2 DEF CreateTree
<1>5. CASE CloneSource
  <2>1. CASE main' = "wait" /\ UNCHANGED <<faults, run, result>>
    BY <1>5, <2>1 DEF CloneSource
  <2>2. CASE WriteRun(Failed, FALSE) /\ result' = "err" /\ main' = "cleanup"
    <3>1. run' = Failed \/ (run' = run /\ faults' = faults + 1)
      BY <2>2, WriteRunDoes
    <3> QED
      BY <1>5, <2>2, <3>1 DEF CloneSource
  <2> QED
    BY <1>5, <2>1, <2>2 DEF CloneSource
<1>6. CASE WaitForJobs
  <2>1. ~egFailed => \A j \in Jobs : doneChan[j]
    BY <1>6 DEF WaitForJobs, JobInv, Lifecycle
  <2>2. CASE egFailed
    <3>1. WriteRun(Failed, FALSE) /\ result' = "err"
      BY <1>6, <2>2 DEF WaitForJobs
    <3>2. run' = Failed \/ (run' = run /\ faults' = faults + 1)
      BY <3>1, WriteRunDoes
    <3> QED
      BY <1>6, <3>1, <3>2 DEF WaitForJobs
  <2>3. CASE ~egFailed
    <3>1. WriteRun(Success, FALSE) /\ result' = "ok"
      BY <1>6, <2>3 DEF WaitForJobs
    <3>2. run' = Success \/ (run' = run /\ faults' = faults + 1)
      BY <3>1, WriteRunDoes
    <3> QED
      BY <1>6, <2>1, <2>3, <3>1, <3>2 DEF WaitForJobs
  <2> QED
    BY <2>2, <2>3
<1>7. CASE CleanupTree
  BY <1>7 DEF CleanupTree, Fault
<1>8. CASE RecordVerdict
  BY <1>8, WriteRunDoes DEF RecordVerdict
<1>9. CASE Notify
  BY <1>9, RefusedCounts DEF Notify
<1> QED
  BY <1>1, <1>2, <1>3, <1>4, <1>5, <1>6, <1>7, <1>8, <1>9 DEF MainStep

\* A step of a goroutine happens while the worker waits, and leaves what the
\* worker knows as it is.
LEMMA JobStepMain ==
  ASSUME TypeOK, TypeOK', MainInv, NEW j \in Jobs, JobStep(j) \/ JobExits(j), Frame(j)
  PROVE  MainInv'
<1>1. main = "wait"
  BY DEF JobStep, JobExits, JobAborts, RunJobReturns, At, AwaitDependency, BeginCopy,
         CopyWorkspace, CopyFails, MarkJobRunning, StartContainer, StartFails,
         SaveJobRow, CloseDone, RaiseError
<1>2. UNCHANGED <<run, main, result, notice, tree>> /\ ctxDone' = ctxDone
  BY DEF Frame, mainVars
<1> QED
  BY <1>1, <1>2 DEF MainInv, Before, Verdict, VerdictRecorded, NoticeAgreesWithStore
-----------------------------------------------------------------------------
(* The theorems.                                                           *)

\* The invariant holds when a worker takes the run off the queue.
LEMMA InitIInv ==
  Init => IInv
<1> SUFFICES ASSUME Init PROVE IInv
  OBVIOUS
<1> USE DEF Status, Active, Terminal, Pending, Running, Success, Failed
<1>1. TypeOK
  <2>1. faults \in 0..MaxFaults
    BY DEF Init
  <2>2. /\ files \in [Dirs -> SUBSET (Jobs \cup {Checkout})]
        /\ waited \in [Jobs -> Nat]
    BY DEF Init
  <2>3. /\ row \in [Jobs -> Status]
        /\ pc \in [Jobs -> JobPhases]
        /\ doneChan \in [Jobs -> BOOLEAN]
        /\ jobStatus \in [Jobs -> {"none"} \cup Terminal]
        /\ container \in [Jobs -> {"none", "running", "removed", "orphaned"}]
    BY DEF Init, JobPhases
  <2> QED
    BY <2>1, <2>2, <2>3 DEF Init, TypeOK, Phases
<1>2. \A j \in Jobs : JobInv(j)
  <2> SUFFICES ASSUME NEW j \in Jobs PROVE JobInv(j)
    OBVIOUS
  <2> QED
    BY <1>1, DepsAreJobs DEF Init, JobInv, Lifecycle, RowFollows, WaitedFor
<1>3. MainInv
  BY DEF Init, MainInv, Before, VerdictRecorded, NoticeAgreesWithStore
<1> QED
  BY <1>1, <1>2, <1>3 DEF IInv

\* Every step preserves the invariant.
LEMMA NextIInv ==
  IInv /\ [Next]_vars => IInv'
<1> SUFFICES ASSUME IInv, [Next]_vars PROVE IInv'
  OBVIOUS
<1>0. TypeOK /\ (\A j \in Jobs : JobInv(j)) /\ MainInv
  BY DEF IInv
<1>1. CASE MainStep
  <2>1. TypeOK'
    BY <1>0, <1>1, MainStepType
  <2>2. \A j \in Jobs : JobInv(j)'
    BY <1>0, <1>1, <2>1, MainStepFrame, MainStepJobs
  <2>3. MainInv'
    BY <1>0, <1>1, <2>1, MainStepOwn
  <2> QED
    BY <2>1, <2>2, <2>3 DEF IInv
<1>2. ASSUME NEW j \in Jobs, JobStep(j) \/ JobExits(j)
      PROVE  IInv'
  <2>1. TypeOK'
    BY <1>0, <1>2, JobStepType
  <2>2. JobInv(j)' /\ Frame(j)
    BY <1>0, <1>2, <2>1, JobStepOwn
  <2>3. \A k \in Jobs : JobInv(k)'
    BY <1>0, <2>1, <2>2, OthersKeep
  <2>4. MainInv'
    BY <1>0, <1>2, <2>1, <2>2, JobStepMain
  <2> QED
    BY <2>1, <2>3, <2>4 DEF IInv
<1>3. ASSUME NEW j \in Jobs, JobWrites(j)
      PROVE  IInv'
  <2>1. TypeOK'
    BY <1>0, <1>3, JobStepType
  <2> QED
    BY <1>0, <1>3, <2>1 DEF JobWrites, mainVars, IInv, JobInv, Lifecycle, RowFollows, WaitedFor,
       MainInv, Verdict, VerdictRecorded, NoticeAgreesWithStore
<1>4. CASE Cancel
  <2>1. TypeOK'
    BY <1>0, <1>4 DEF TypeOK, Cancel, mainVars, jobVars
  <2>2. \A k \in Jobs : JobInv(k)'
    BY <1>0, <1>4 DEF Cancel, jobVars, JobInv, Lifecycle, RowFollows, WaitedFor
  <2>3. MainInv'
    BY <1>0, <1>4 DEF Cancel, mainVars, jobVars, MainInv, Verdict, VerdictRecorded,
                      NoticeAgreesWithStore
  <2> QED
    BY <2>1, <2>2, <2>3 DEF IInv
<1>5. CASE UNCHANGED vars
  <2>1. TypeOK'
    BY <1>0, <1>5 DEF TypeOK, vars
  <2>2. \A k \in Jobs : JobInv(k)'
    BY <1>0, <1>5 DEF vars, JobInv, Lifecycle, RowFollows, WaitedFor
  <2>3. MainInv'
    BY <1>0, <1>5 DEF vars, MainInv, Verdict, VerdictRecorded, NoticeAgreesWithStore
  <2> QED
    BY <2>1, <2>2, <2>3 DEF IInv
<1> QED
  BY <1>1, <1>2, <1>3, <1>4, <1>5 DEF Next, Finished
\* IInv holds in every reachable state.
THEOREM Invariance == Spec => []IInv
  BY InitIInv, NextIInv, PTL DEF Spec

\* The variables only hold what the code can put in them; no row is ever
\* "cancelled", whatever is refused or fails.
THEOREM TypeCorrect == Spec => []TypeOK
<1>1. IInv => TypeOK
  BY DEF IInv
<1> QED
  BY <1>1, Invariance, PTL

\* A job does not start to copy its workspace before every dependency has
\* succeeded, released its container and said so in the store.
THEOREM DependencyOrder == Spec => []StartsAfterParents
<1>1. IInv => StartsAfterParents
  <2> SUFFICES ASSUME IInv, NEW j \in Jobs, pc[j] \notin {"await", "ended"}, NEW d \in Deps(j)
               PROVE  /\ jobStatus[d] = Success
                      /\ container[d] # "running"
                      /\ faults = 0 => row[d] = Success
    BY DEF StartsAfterParents
  <2>1. d \in Jobs /\ JobInv(j) /\ JobInv(d)
    BY DepsAreJobs DEF IInv
  <2>2. PICK i \in 1..Len(dependsOn[j]) : d = dependsOn[j][i]
    BY DEF Deps
  <2>3. doneChan[d]
    BY <2>1, <2>2 DEF JobInv, WaitedFor
  <2> QED
    BY <2>1, <2>3 DEF JobInv, Lifecycle, RowFollows
<1> QED
  BY <1>1, Invariance, PTL

\* A run is only reported successful when every one of its jobs succeeded.
THEOREM SuccessIsComplete == Spec => []SuccessMeansAllSucceeded
<1>1. IInv => SuccessMeansAllSucceeded
  <2> SUFFICES ASSUME IInv, run = Success, NEW j \in Jobs
               PROVE  jobStatus[j] = Success /\ (faults = 0 => row[j] = Success)
    BY DEF SuccessMeansAllSucceeded
  <2>1. Verdict = Success
    BY DEF IInv, MainInv, Terminal
  <2>2. result = "ok"
    BY <2>1 DEF Verdict, Success, Failed
  <2>3. doneChan[j]
    BY <2>2 DEF IInv, MainInv
  <2> QED
    BY <2>3 DEF IInv, JobInv, Lifecycle, RowFollows
<1> QED
  BY <1>1, Invariance, PTL

\* A terminal run has no goroutine under way and no container looked after.
THEOREM TerminalIsQuiescent == Spec => []VerdictIsQuiescent
<1>1. IInv => VerdictIsQuiescent
  <2> SUFFICES ASSUME IInv, run \in Terminal, NEW j \in Jobs
               PROVE  /\ pc[j] \in {"await", "ended"}
                      /\ container[j] # "running"
                      /\ faults = 0 => row[j] # Running
    BY DEF VerdictIsQuiescent
  <2>1. main # "wait"
    BY DEF IInv, MainInv, Terminal, Active, Pending, Running, Success, Failed
  <2>2. pc[j] \in {"await", "ended"}
    BY <2>1 DEF IInv, MainInv
  <2> QED
    BY <2>2 DEF IInv, JobInv, Lifecycle, RowFollows
<1> QED
  BY <1>1, Invariance, PTL

\* The worker's second write makes up for any one failed call.
THEOREM VerdictIsRecorded == Spec => []VerdictRecorded
<1>1. IInv => VerdictRecorded
  BY DEF IInv, MainInv
<1> QED
  BY <1>1, Invariance, PTL

\* The run's directory is there for as long as a job is under way.
THEOREM TreeIsThere == Spec => []TreeOutlivesJobs
<1>1. IInv => TreeOutlivesJobs
  <2> SUFFICES ASSUME IInv PROVE TreeOutlivesJobs
    OBVIOUS
  <2>1. tree # "present" => main # "wait"
    BY DEF IInv, MainInv
  <2>2. ASSUME tree # "present", NEW j \in Jobs
        PROVE  pc[j] \in {"await", "ended"} /\ container[j] # "running"
    BY <2>1, <2>2 DEF IInv, MainInv, JobInv, Lifecycle
  <2>3. result # "none" /\ tree = "present" => main = "cleanup"
    BY DEF IInv, TypeOK, MainInv, Before, Phases
  <2> QED
    BY <2>2, <2>3 DEF TreeOutlivesJobs
<1> QED
  BY <1>1, Invariance, PTL

\* A notification says what the store says.
THEOREM NoticeIsTrue == Spec => []NoticeAgreesWithStore
<1>1. IInv => NoticeAgreesWithStore
  BY DEF IInv, MainInv
<1> QED
  BY <1>1, Invariance, PTL

\* Once the run's row is terminal, neither it nor a job's row changes again:
\* jobs move only while the worker waits, and the worker's second write repeats
\* the first.
THEOREM ReportsAreFinal == Spec => ReportedIsFinal
<1>1. IInv /\ [Next]_vars => [run \notin Terminal]_<<run, row>>
  <2> SUFFICES ASSUME IInv, [Next]_vars, run \in Terminal
               PROVE  run' = run /\ row' = row
    OBVIOUS
  <2>0. /\ TypeOK /\ run = Verdict
        /\ main \notin Before \cup {"wait"}
    BY DEF IInv, MainInv, Terminal, Active, Pending, Running, Success, Failed
  <2>1. CASE MainStep
    <3>1. row' = row
      BY <2>0, <2>1, MainStepFrame
    <3>2. run' = run
      <4>1. Verdict \in Status
        BY DEF Verdict, Status
      <4> QED
        BY <2>0, <2>1, <4>1, WriteRunDoes
           DEF MainStep, MarkRunRunning, TopoSort, LoadRows, CreateTree, CloneSource,
               WaitForJobs, CleanupTree, RecordVerdict, Notify, Before, TypeOK
    <3> QED
      BY <3>1, <3>2
  <2>2. ASSUME NEW j \in Jobs, JobStep(j) \/ JobExits(j)
        PROVE  FALSE
    BY <2>0, <2>2
       DEF JobStep, JobExits, JobAborts, RunJobReturns, At, AwaitDependency, BeginCopy,
           CopyWorkspace, CopyFails, MarkJobRunning, StartContainer, StartFails,
           SaveJobRow, CloseDone, RaiseError
  <2>3. CASE \E j \in Jobs : JobWrites(j)
    BY <2>3 DEF JobWrites, mainVars
  <2>4. CASE Cancel \/ UNCHANGED vars
    BY <2>4 DEF Cancel, mainVars, jobVars, vars
  <2> QED
    BY <2>1, <2>2, <2>3, <2>4 DEF Next, Finished
<1> QED
  BY <1>1, Invariance, PTL DEF Spec, ReportedIsFinal
-----------------------------------------------------------------------------
(* What a job finds in its workspace, provided no two job names are cleaned
   to the same directory: run scheduler_aliased shows what happens when they
   are (scheduler.go:152-160).                                              *)

\* No two jobs share a directory.
OwnDirs == \A j, k \in Jobs : Dir[j] = Dir[k] => j = k

\* What the contract says j starts from.
Source(j) == IF Len(dependsOn[j]) = 1 THEN files[Dir[dependsOn[j][1]]] ELSE {Checkout}

\* A directory is empty until its job has copied into it, and from then until
\* the container is gone it holds the job's source and its own writes.
DirInv(j) ==
  /\ pc[j] \in {"await", "copying"} => files[Dir[j]] = {}
  /\ pc[j] \in {"marking", "starting", "running"} => files[Dir[j]] \ {j} = Source(j)

\* Nobody has written what a job that has not started will write, so what a
\* job inherits is never taken for its own writes.
NoEarlyWrites ==
  \A j, k \in Jobs : k \in files[Dir[j]] => pc[k] \notin {"await", "copying"}

SnapInv == (\A j \in Jobs : DirInv(j)) /\ NoEarlyWrites

-----------------------------------------------------------------------------

\* A goroutine that has left its wait has seen its parent end.
LEMMA ParentEnded ==
  ASSUME IInv, NEW j \in Jobs, Len(dependsOn[j]) = 1, pc[j] \notin {"await", "ended"}
  PROVE  /\ dependsOn[j][1] \in Jobs \ {j}
         /\ pc[dependsOn[j][1]] = "ended"
<1>0. waited[j] = Len(dependsOn[j])
  BY DEF IInv, JobInv, WaitedFor
<1>1. 1 \in 1..Len(dependsOn[j]) /\ 1 \in 1..waited[j]
  BY <1>0
<1>2. dependsOn[j][1] \in Jobs
  BY <1>1, DepsAreJobs DEF IInv
<1>3. pc[dependsOn[j][1]] = "ended"
  BY <1>1, <1>2 DEF IInv, JobInv, WaitedFor, Lifecycle
<1> QED
  BY <1>2, <1>3

\* A step of j that moves its goroutine forward and writes in its own
\* directory at most leaves the other jobs' parts alone.
LEMMA OtherDirs ==
  ASSUME OwnDirs, IInv, SnapInv, NEW j \in Jobs, UNCHANGED dependsOn, pc[j] # "ended",
         \A k \in Jobs \ {j} : pc'[k] = pc[k] /\ files'[Dir[k]] = files[Dir[k]]
  PROVE  \A k \in Jobs \ {j} : DirInv(k)'
<1> SUFFICES ASSUME NEW k \in Jobs \ {j} PROVE DirInv(k)'
  OBVIOUS
<1>1. DirInv(k)
  BY DEF SnapInv
<1>2. CASE Len(dependsOn[k]) = 1 /\ pc[k] \notin {"await", "ended"}
  <2>1. dependsOn[k][1] \in Jobs \ {j}
    BY <1>2, ParentEnded
  <2>2. Source(k)' = Source(k)
    BY <2>1 DEF Source
  <2> QED
    BY <1>1, <2>2 DEF DirInv
<1>3. CASE Len(dependsOn[k]) # 1
  BY <1>1, <1>3 DEF DirInv, Source
<1>4. CASE pc[k] \in {"await", "ended"}
  BY <1>1, <1>4 DEF DirInv
<1> QED
  BY <1>2, <1>3, <1>4

\* A step of j that writes nothing and does not go back to the start.
LEMMA QuietStep ==
  ASSUME OwnDirs, IInv, SnapInv, NEW j \in Jobs, pc[j] # "ended", UNCHANGED <<dependsOn, files>>,
         NEW p, pc' = [pc EXCEPT ![j] = p],
         \/ pc[j] = "await" /\ p \in {"copying", "ended"}
         \/ pc[j] \in {"marking", "starting"} /\ p \in {"starting", "running"}
         \/ p \in {"saving", "closing", "raising", "ended"}
  PROVE  SnapInv'
<1>1. pc \in [Jobs -> JobPhases]
  BY DEF IInv, TypeOK
<1>2. \A k \in Jobs \ {j} : pc'[k] = pc[k] /\ files'[Dir[k]] = files[Dir[k]]
  BY <1>1
<1>3. pc'[j] = p
  BY <1>1
<1>4. DirInv(j) /\ DirInv(j)'
  BY <1>3 DEF SnapInv, DirInv, Source
<1>5. NoEarlyWrites'
  BY <1>2, <1>3 DEF SnapInv, NoEarlyWrites, DirInv
<1> QED
  BY <1>2, <1>4, <1>5, OtherDirs DEF SnapInv

LEMMA InitSnap == Init => SnapInv
BY DepsAreJobs, DirAssumption DEF Init, SnapInv, DirInv, NoEarlyWrites, Dirs

\* Steps of the worker: only the removal of the tree touches a directory, and
\* then no goroutine is under way.
LEMMA MainSnap ==
  ASSUME IInv, SnapInv, MainStep
  PROVE  SnapInv'
<1>1. UNCHANGED <<dependsOn, pc>>
  BY DEF MainStep, MarkRunRunning, TopoSort, LoadRows, CreateTree, CloneSource, WaitForJobs,
         CleanupTree, RecordVerdict, Notify, jobVars
<1>2. CASE files' = files
  BY <1>1, <1>2 DEF SnapInv, DirInv, NoEarlyWrites, Source
<1>3. CASE files' # files
  <2>1. main = "cleanup" /\ files' = [d \in Dirs |-> {}]
    BY <1>3 DEF MainStep, MarkRunRunning, TopoSort, LoadRows, CreateTree, CloneSource,
                WaitForJobs, CleanupTree, RecordVerdict, Notify, jobVars
  <2>2. \A j \in Jobs : pc[j] \in {"await", "ended"} /\ files'[Dir[j]] = {}
    BY <2>1 DEF IInv, MainInv, Dirs
  <2> QED
    BY <1>1, <2>2 DEF SnapInv, DirInv, NoEarlyWrites
<1> QED
  BY <1>2, <1>3

LEMMA JobSnap ==
  ASSUME OwnDirs, IInv, SnapInv, NEW j \in Jobs, JobStep(j) \/ JobWrites(j) \/ JobExits(j)
  PROVE  SnapInv'
<1>0. /\ TypeOK /\ DirInv(j) /\ JobInv(j)
      /\ pc \in [Jobs -> JobPhases]
      /\ files \in [Dirs -> SUBSET (Jobs \cup {Checkout})]
      /\ \A k \in Jobs : Dir[k] \in Dirs
  BY DepsAreJobs DEF IInv, SnapInv, TypeOK
<1>1. CASE JobWrites(j)
  <2>1. /\ pc[j] = "running"
        /\ UNCHANGED <<dependsOn, pc>>
        /\ files' = [files EXCEPT ![Dir[j]] = @ \cup {j}]
    BY <1>0, <1>1 DEF JobWrites, JobInv, Lifecycle
  <2>2. /\ files'[Dir[j]] = files[Dir[j]] \cup {j}
        /\ \A k \in Jobs \ {j} : files'[Dir[k]] = files[Dir[k]]
    BY <1>0, <2>1 DEF OwnDirs
  <2>3. Source(j)' = Source(j)
    <3>1. CASE Len(dependsOn[j]) = 1
      BY <2>1, <2>2, <3>1, ParentEnded DEF Source
    <3>2. CASE Len(dependsOn[j]) # 1
      BY <2>1, <3>2 DEF Source
    <3> QED
      BY <3>1, <3>2
  <2>4. DirInv(j)'
    BY <1>0, <2>1, <2>2, <2>3 DEF DirInv
  <2>5. NoEarlyWrites'
    BY <2>1, <2>2 DEF SnapInv, NoEarlyWrites
  <2> QED
    BY <2>1, <2>2, <2>4, <2>5, OtherDirs DEF SnapInv
<1>2. CASE CopyWorkspace(j)
  <2>1. /\ pc[j] = "copying"
        /\ UNCHANGED dependsOn
        /\ files' = [files EXCEPT ![Dir[j]] = @ \cup Source(j)]
        /\ pc' = [pc EXCEPT ![j] = "marking"]
    BY <1>2 DEF CopyWorkspace, At, Goto, Source, Inherits, Parent
  <2>2. /\ files'[Dir[j]] = Source(j)
        /\ \A k \in Jobs \ {j} : files'[Dir[k]] = files[Dir[k]]
    BY <1>0, <2>1 DEF OwnDirs, DirInv
  <2>3. pc'[j] = "marking" /\ \A k \in Jobs \ {j} : pc'[k] = pc[k]
    BY <1>0, <2>1
  <2>4. /\ Source(j)' = Source(j)
        /\ \A k \in Jobs : k \in Source(j) => pc[k] \notin {"await", "copying"}
    <3>1. CASE Len(dependsOn[j]) = 1
      BY <2>1, <2>2, <3>1, ParentEnded DEF Source, SnapInv, NoEarlyWrites
    <3>2. CASE Len(dependsOn[j]) # 1
      BY <2>1, <3>2, JobsAssumption DEF Source
    <3> QED
      BY <3>1, <3>2
  <2>5. j \notin Source(j)
    BY <2>1, <2>4
  <2>6. DirInv(j)'
    BY <2>2, <2>3, <2>4, <2>5 DEF DirInv
  <2>7. NoEarlyWrites'
    BY <2>2, <2>3, <2>4 DEF SnapInv, NoEarlyWrites
  <2> QED
    BY <2>1, <2>2, <2>3, <2>6, <2>7, OtherDirs DEF SnapInv
<1>3. CASE CopyFails(j)
  <2>1. /\ pc[j] = "copying"
        /\ UNCHANGED dependsOn
        /\ files' = [files EXCEPT ![Dir[j]] = {}]
        /\ pc' = [pc EXCEPT ![j] = "raising"]
    BY <1>3 DEF CopyFails, At, Goto
  <2>2. /\ files'[Dir[j]] = {} /\ pc'[j] = "raising"
        /\ \A k \in Jobs \ {j} : files'[Dir[k]] = files[Dir[k]] /\ pc'[k] = pc[k]
    BY <1>0, <2>1 DEF OwnDirs
  <2>3. DirInv(j)'
    BY <2>2 DEF DirInv
  <2>4. NoEarlyWrites'
    BY <2>2 DEF SnapInv, NoEarlyWrites
  <2> QED
    BY <2>1, <2>2, <2>3, <2>4, OtherDirs DEF SnapInv
<1>4. CASE AwaitDependency(j) \/ BeginCopy(j)
  <2>1. /\ pc[j] = "await" /\ UNCHANGED <<dependsOn, files>>
        /\ \/ pc' = pc
           \/ pc' = [pc EXCEPT ![j] = "copying"]
           \/ pc' = [pc EXCEPT ![j] = "ended"]
    BY <1>4 DEF AwaitDependency, BeginCopy, At, Goto, Raise
  <2>2. CASE pc' = pc
    BY <2>1, <2>2 DEF SnapInv, DirInv, NoEarlyWrites, Source
  <2> QED
    BY <2>1, <2>2, QuietStep
<1>5. CASE MarkJobRunning(j) \/ StartContainer(j)
  <2>1. /\ pc[j] \in {"marking", "starting"} /\ UNCHANGED <<dependsOn, files>>
        /\ \/ pc' = [pc EXCEPT ![j] = "starting"]
           \/ pc' = [pc EXCEPT ![j] = "running"]
    BY <1>5 DEF MarkJobRunning, StartContainer, At, Goto
  <2> QED
    BY <2>1, QuietStep
<1>6. CASE StartFails(j) \/ JobAborts(j) \/ JobExits(j) \/ SaveJobRow(j) \/ CloseDone(j) \/ RaiseError(j)
  <2>1. /\ pc[j] # "ended" /\ UNCHANGED <<dependsOn, files>>
        /\ \E p \in {"saving", "closing", "raising", "ended"} : pc' = [pc EXCEPT ![j] = p]
    BY <1>6 DEF StartFails, JobAborts, JobExits, RunJobReturns, SaveJobRow, CloseDone,
                RaiseError, At, Goto, Raise
  <2> QED
    BY <2>1, QuietStep
<1> QED
  BY <1>1, <1>2, <1>3, <1>4, <1>5, <1>6 DEF JobStep

-----------------------------------------------------------------------------

\* While a job's container runs, its directory holds exactly its source and its
\* own writes, whatever the other jobs do and whatever fails, provided no two
\* job names are cleaned to the same directory (Contract Rules 3, 4, 5;
\* scheduler.go:152-160).
THEOREM Snapshots ==
  ASSUME OwnDirs
  PROVE  Spec => []SnapshotExact
<1>1. Init => SnapInv
  BY InitSnap
<1>2. IInv /\ SnapInv /\ [Next]_vars => SnapInv'
  <2> SUFFICES ASSUME IInv, SnapInv, [Next]_vars PROVE SnapInv'
    OBVIOUS
  <2>1. CASE MainStep
    BY <2>1, MainSnap
  <2>2. ASSUME NEW j \in Jobs, JobStep(j) \/ JobWrites(j) \/ JobExits(j)
        PROVE  SnapInv'
    BY <2>2, JobSnap
  <2>3. CASE Cancel \/ UNCHANGED vars
    <3>1. UNCHANGED <<dependsOn, files, pc>>
      BY <2>3 DEF Cancel, jobVars, vars
    <3> QED
      BY <3>1 DEF SnapInv, DirInv, NoEarlyWrites, Source
  <2> QED
    BY <2>1, <2>2, <2>3 DEF Next, Finished
<1>3. IInv /\ SnapInv => SnapshotExact
  BY DEF IInv, SnapInv, SnapshotExact, JobInv, Lifecycle, DirInv, Source
<1> QED
  BY <1>1, <1>2, <1>3, Invariance, PTL DEF Spec
-----------------------------------------------------------------------------
(* The goroutines never all wait for one another: what EventuallyFinishes
   needs besides fairness, for every pipeline that has been sorted.         *)

\* The goroutine of j sits in its select with neither case ready
\* (scheduler.go:132-145).
Blocked(j) ==
  /\ pc[j] = "await"
  /\ waited[j] < Len(dependsOn[j])
  /\ ~doneChan[dependsOn[j][waited[j] + 1]]
  /\ ~EgDone

\* Goroutines are only started for a pipeline without a cycle.
SortedInv == main \in {"load", "create", "clone", "wait"} => Sortable

\* While the worker waits for goroutines that have not ended, one of them is
\* not blocked.
SomeoneMoves ==
  main = "wait" /\ (\E j \in Jobs : pc[j] # "ended") =>
    \E j \in Jobs : pc[j] # "ended" /\ ~Blocked(j)

\* The pipeline is fixed when the run starts, and only the topological sort
\* lets RunPipeline go on.
LEMMA SortedInvariance == Spec => []SortedInv
<1>1. Init => SortedInv
  BY DEF Init, SortedInv
<1>2. SortedInv /\ [Next]_vars => SortedInv'
  <2> SUFFICES ASSUME SortedInv, [Next]_vars PROVE SortedInv'
    OBVIOUS
  <2>1. dependsOn' = dependsOn
    BY DEF Next, Finished, Cancel, vars, jobVars, mainVars, MainStep, MarkRunRunning, TopoSort,
           LoadRows, CreateTree, CloneSource, WaitForJobs, CleanupTree, RecordVerdict,
           Notify, JobStep, JobWrites, JobExits, JobAborts, RunJobReturns, AwaitDependency,
           BeginCopy, CopyWorkspace, CopyFails, MarkJobRunning, StartContainer, StartFails,
           SaveJobRow, CloseDone, RaiseError
  <2>2. Sortable' = Sortable
    BY <2>1 DEF Sortable, Deps
  <2>3. \/ main' \notin {"load", "create", "clone", "wait"}
        \/ main \in {"load", "create", "clone", "wait"}
        \/ Sortable
    BY DEF Next, Finished, Cancel, vars, jobVars, mainVars, MainStep, MarkRunRunning, TopoSort,
           LoadRows, CreateTree, CloneSource, WaitForJobs, CleanupTree, RecordVerdict,
           Notify, JobStep, JobWrites, JobExits, JobAborts, RunJobReturns, AwaitDependency,
           BeginCopy, CopyWorkspace, CopyFails, MarkJobRunning, StartContainer, StartFails,
           SaveJobRow, CloseDone, RaiseError, Return
  <2> QED
    BY <2>2, <2>3 DEF SortedInv
<1> QED
  BY <1>1, <1>2, PTL DEF Spec

\* No deadlock among the goroutines, whatever fails: of those that have not
\* ended, one has only ended dependencies, and an ended goroutine has closed its
\* channel or cancelled the errgroup (scheduler.go:131-145, 177-183).
THEOREM NoDeadlock == Spec => []SomeoneMoves
<1>1. IInv /\ SortedInv => SomeoneMoves
  <2> SUFFICES ASSUME IInv, SortedInv, main = "wait", \E j \in Jobs : pc[j] # "ended"
               PROVE  \E j \in Jobs : pc[j] # "ended" /\ ~Blocked(j)
    BY DEF SomeoneMoves
  <2> DEFINE S == {j \in Jobs : pc[j] # "ended"}
  <2>1. PICK j \in S : Deps(j) \cap S = {}
    <3>1. Sortable
      BY DEF SortedInv
    <3>2. S \in SUBSET Jobs /\ S # {}
      OBVIOUS
    <3> HIDE DEF S
    <3> QED
      BY <3>1, <3>2 DEF Sortable
  <2>2. ~Blocked(j)
    <3> SUFFICES ASSUME Blocked(j) PROVE FALSE
      OBVIOUS
    <3> DEFINE next == waited[j] + 1
    <3>1. next \in 1..Len(dependsOn[j])
      BY DepsAreJobs DEF IInv, TypeOK, Blocked
    <3>2. dependsOn[j][next] \in Jobs /\ dependsOn[j][next] \in Deps(j)
      BY <3>1, DepsAreJobs DEF IInv, Deps
    <3>3. pc[dependsOn[j][next]] = "ended"
      BY <2>1, <3>2
    <3>4. doneChan[dependsOn[j][next]] \/ egFailed
      BY <3>2, <3>3 DEF IInv, JobInv, Lifecycle
    <3> QED
      BY <3>4 DEF Blocked, EgDone
  <2> QED
    BY <2>1, <2>2
<1> QED
  BY <1>1, Invariance, SortedInvariance, PTL
=============================================================================
