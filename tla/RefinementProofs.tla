--------------------------- MODULE RefinementProofs ---------------------------
(***************************************************************************)
(* Scheduler implements DagRun: every step of a worker, of a goroutine or  *)
(* of a container is a step of the abstract run or leaves it alone.  The   *)
(* invariant of SchedulerProofs does not say when the in-memory status of  *)
(* a job appears, nor who raised the error; Refines adds both.             *)
(***************************************************************************)
EXTENDS SchedulerProofs

\* RunJob has not returned yet.
Unreported == {"await", "copying", "marking", "starting", "running"}

\* The in-memory status appears when RunJob returns, and a goroutine about to
\* raise an error has not succeeded.
Reported(j) ==
  /\ pc[j] \in Unreported => jobStatus[j] = "none"
  /\ pc[j] = "raising" => jobStatus[j] # Success

\* The errgroup's error is some job's failure.
Blamed == egFailed => \E j \in Jobs : pc[j] = "ended" /\ jobStatus[j] # Success

\* Before the goroutines are started they have not moved.
Unstarted == main \in Before => \A j \in Jobs : pc[j] = "await"

Refines == (\A j \in Jobs : Reported(j)) /\ Blamed /\ Unstarted

-----------------------------------------------------------------------------
(* Steps of RunPipeline and processJob.                                    *)

LEMMA MainRefines ==
  ASSUME IInv, Refines, MainStep
  PROVE  Refines' /\ [Promise!Next]_Promise!vars
<1> USE DEF Success, Failed
<1>0. /\ UNCHANGED <<dependsOn, pc, jobStatus, container, egFailed>>
      /\ \A j \in Jobs : Stage(j)' = Stage(j)
  BY DEF MainStep, MarkRunRunning, TopoSort, LoadRows, CreateTree, CloneSource, WaitForJobs,
         CleanupTree, RecordVerdict, Notify, jobVars, Stage
<1>1. Refines'
  <2>1. main' \in Before => main \in Before
    BY DEF MainStep, MarkRunRunning, TopoSort, LoadRows, CreateTree, CloneSource, WaitForJobs,
           CleanupTree, RecordVerdict, Notify, Return, Before
  <2> QED
    BY <1>0, <2>1 DEF Refines, Reported, Blamed, Unstarted
<1>2. CASE result' = result
  <2>1. [j \in Jobs |-> Stage(j)]' = [j \in Jobs |-> Stage(j)]
    BY <1>0
  <2> QED
    BY <1>0, <1>1, <1>2, <2>1 DEF Promise!vars
<1>3. CASE result' # result
  <2>1. /\ result = "none"
        /\ \A j \in Jobs : Stage(j) # "running"
    <3>1. main \in Before \cup {"wait"}
      BY <1>3 DEF MainStep, MarkRunRunning, TopoSort, LoadRows, CreateTree, CloneSource,
                  WaitForJobs, CleanupTree, RecordVerdict, Notify, Return, Before
    <3>2. \A j \in Jobs : pc[j] # "running"
      BY <1>3, <3>1 DEF Refines, Unstarted, Before, MainStep, MarkRunRunning, TopoSort, LoadRows,
                  CreateTree, CloneSource, WaitForJobs, CleanupTree, RecordVerdict, Notify
    <3> QED
      BY <3>1, <3>2 DEF IInv, MainInv, JobInv, Lifecycle, Stage
  <2>2. result' = IF \A j \in Jobs : Stage(j) = "succeeded" THEN "ok" ELSE "err"
    <3>1. CASE main \in Before
      <4>1. PICK j \in Jobs : TRUE
        BY JobsAssumption
      <4>2. Stage(j) # "succeeded"
        BY <3>1 DEF Refines, Unstarted, Reported, Unreported, Stage
      <4>3. result' = "err"
        BY <1>3, <3>1 DEF MainStep, MarkRunRunning, TopoSort, LoadRows, CreateTree, CloneSource,
                    WaitForJobs, CleanupTree, RecordVerdict, Notify, Return, Before
      <4> QED
        BY <4>1, <4>2, <4>3
    <3>2. CASE main = "wait"
      <4>1. /\ \A j \in Jobs : pc[j] = "ended"
            /\ result' = IF egFailed THEN "err" ELSE "ok"
        BY <3>2 DEF MainStep, MarkRunRunning, TopoSort, LoadRows, CreateTree, CloneSource,
                    WaitForJobs, CleanupTree, RecordVerdict, Notify
      <4>2. CASE egFailed
        BY <4>1, <4>2 DEF Refines, Blamed, Stage
      <4>3. CASE ~egFailed
        BY <2>1, <4>1, <4>3 DEF IInv, JobInv, Lifecycle, Stage
      <4> QED
        BY <4>1, <4>2, <4>3
    <3> QED
      BY <1>3, <3>1, <3>2
         DEF MainStep, MarkRunRunning, TopoSort, LoadRows, CreateTree, CloneSource, WaitForJobs,
             CleanupTree, RecordVerdict, Notify, Before
  <2>3. Promise!Conclude
    BY <1>0, <2>1, <2>2 DEF Promise!Conclude, Promise!AllSucceeded
  <2> QED
    BY <1>1, <2>3 DEF Promise!Next
<1> QED
  BY <1>1, <1>2, <1>3

-----------------------------------------------------------------------------
(* Steps of the goroutines and the containers.                             *)

\* A step of j that does not touch its status or its container, and keeps what
\* the pc says of them, is invisible.
LEMMA InvisibleStep ==
  ASSUME IInv, Refines, NEW j \in Jobs, main = "wait",
         UNCHANGED <<dependsOn, main, result, jobStatus, container>>,
         \A k \in Jobs \ {j} : pc'[k] = pc[k],
         Reported(j)', pc[j] # "ended",
         egFailed' => egFailed \/ (pc'[j] = "ended" /\ jobStatus[j] # Success)
  PROVE  Refines' /\ [Promise!Next]_Promise!vars
<1>1. \A k \in Jobs : Stage(k)' = Stage(k)
  BY DEF Stage
<1>2. \A k \in Jobs : Reported(k)'
  BY DEF Refines, Reported
<1>3. Blamed'
  BY DEF Refines, Blamed
<1>4. Unstarted'
  BY DEF Unstarted, Before
<1> QED
  BY <1>1, <1>2, <1>3, <1>4 DEF Refines, Promise!vars

\* A step that changes the stage of j alone.
LEMMA VisibleStep ==
  ASSUME IInv, Refines, NEW j \in Jobs, main = "wait",
         UNCHANGED <<dependsOn, main, result, egFailed>>,
         \A k \in Jobs \ {j} : /\ pc'[k] = pc[k] /\ jobStatus'[k] = jobStatus[k]
                               /\ container'[k] = container[k],
         Reported(j)', pc[j] # "ended"
  PROVE  /\ Refines'
         /\ \A k \in Jobs \ {j} : Stage(k)' = Stage(k)
         /\ [k \in Jobs |-> Stage(k)]' = [[k \in Jobs |-> Stage(k)] EXCEPT ![j] = Stage(j)']
<1>1. \A k \in Jobs \ {j} : Stage(k)' = Stage(k)
  BY DEF Stage
<1>2. \A k \in Jobs : Reported(k)'
  BY DEF Refines, Reported
<1>3. Blamed'
  BY DEF Refines, Blamed
<1>4. Unstarted'
  BY DEF Unstarted, Before
<1> QED
  BY <1>1, <1>2, <1>3, <1>4 DEF Refines

\* A goroutine past its wait has the right to start.
LEMMA MayStart ==
  ASSUME IInv, Refines, NEW j \in Jobs, pc[j] = "starting", main = "wait"
  PROVE  Promise!Ready(j)
<1>1. result = "none"
  BY DEF IInv, MainInv
<1>2. Stage(j) = "waiting"
  BY DEF IInv, JobInv, Lifecycle, Refines, Reported, Unreported, Stage, Success, Failed
<1>3. ASSUME NEW i \in 1..Len(dependsOn[j])
      PROVE  dependsOn[j][i] \in Jobs /\ Stage(dependsOn[j][i]) = "succeeded"
  <2>1. dependsOn[j][i] \in Jobs
    BY DepsAreJobs DEF IInv
  <2>2. doneChan[dependsOn[j][i]]
    BY DEF IInv, JobInv, WaitedFor
  <2> QED
    BY <2>1, <2>2 DEF IInv, JobInv, Lifecycle, Stage
<1> QED
  BY <1>1, <1>2, <1>3 DEF Promise!Ready, Promise!DepsOf

LEMMA JobRefines ==
  ASSUME IInv, Refines, NEW j \in Jobs, JobStep(j) \/ JobWrites(j) \/ JobExits(j)
  PROVE  Refines' /\ [Promise!Next]_Promise!vars
<1> USE DEF Success, Failed, Unreported, mainVars
<1>0. TypeOK /\ Reported(j) /\ JobInv(j)
  BY DEF IInv, Refines
<1>1. CASE JobWrites(j)
  <2>1. UNCHANGED <<dependsOn, main, result, pc, jobStatus, container, egFailed>>
    BY <1>1 DEF JobWrites
  <2> QED
    BY <2>1 DEF Refines, Reported, Blamed, Unstarted, Stage, Promise!vars
<1>2. CASE StartContainer(j)
  <2>1. /\ pc[j] = "starting" /\ main = "wait"
        /\ UNCHANGED <<dependsOn, main, result, egFailed, jobStatus>>
        /\ container'[j] = "running" /\ pc'[j] = "running"
        /\ \A k \in Jobs \ {j} : container'[k] = container[k] /\ pc'[k] = pc[k]
    BY <1>0, <1>2 DEF StartContainer, At, Goto, TypeOK
  <2>2. Reported(j)'
    BY <1>0, <2>1 DEF Reported
  <2>3. Stage(j)' = "running"
    BY <2>1 DEF Stage
  <2>4. Promise!Begin(j)
    BY <2>1, <2>2, <2>3, MayStart, VisibleStep DEF Promise!Begin
  <2> QED
    BY <2>1, <2>2, <2>4, VisibleStep DEF Promise!Next
<1>3. CASE StartFails(j)
  <2>1. /\ pc[j] = "starting" /\ main = "wait"
        /\ UNCHANGED <<dependsOn, main, result, egFailed, container>>
        /\ jobStatus'[j] = Failed /\ pc'[j] = "saving"
        /\ \A k \in Jobs \ {j} : jobStatus'[k] = jobStatus[k] /\ pc'[k] = pc[k]
    BY <1>0, <1>3 DEF StartFails, At, Goto, TypeOK
  <2>2. Reported(j)'
    BY <2>1 DEF Reported
  <2>3. Stage(j)' = "failed"
    BY <1>0, <2>1 DEF Stage, JobInv, Lifecycle
  <2>4. Promise!Refuse(j)
    BY <2>1, <2>2, <2>3, MayStart, VisibleStep DEF Promise!Refuse
  <2> QED
    BY <2>1, <2>2, <2>4, VisibleStep DEF Promise!Next
<1>4. ASSUME NEW s \in Terminal, RunJobReturns(j, s)
      PROVE  Refines' /\ [Promise!Next]_Promise!vars
  <2>1. /\ pc[j] = "running" /\ main = "wait"
        /\ UNCHANGED <<dependsOn, main, result, egFailed>>
        /\ jobStatus'[j] = s /\ pc'[j] = "saving"
        /\ \A k \in Jobs \ {j} : jobStatus'[k] = jobStatus[k] /\ pc'[k] = pc[k]
    BY <1>0, <1>4 DEF RunJobReturns, At, Goto, TypeOK
  <2>2. /\ container'[j] # "running"
        /\ \A k \in Jobs \ {j} : container'[k] = container[k]
    BY <1>0, <1>4 DEF RunJobReturns, RemoveContainer, TypeOK
  <2>3. Reported(j)'
    BY <2>1 DEF Reported
  <2>4. Stage(j) = "running" /\ Stage(j)' \in {"succeeded", "failed"}
    BY <1>0, <2>1, <2>2 DEF Stage, JobInv, Lifecycle, Terminal
  <2>5. Promise!End(j)
    BY <2>1, <2>2, <2>3, <2>4, VisibleStep DEF Promise!End
  <2> QED
    BY <2>1, <2>2, <2>3, <2>5, VisibleStep DEF Promise!Next
<1>5. CASE AwaitDependency(j)
  <2>1. /\ pc[j] = "await" /\ main = "wait"
        /\ UNCHANGED <<dependsOn, main, result, jobStatus, container>>
        /\ \/ UNCHANGED <<pc, egFailed>>
           \/ pc' = [pc EXCEPT ![j] = "ended"]
    BY <1>5 DEF AwaitDependency, At, Raise, Goto
  <2> QED
    BY <1>0, <2>1, InvisibleStep DEF Reported, TypeOK
<1>6. CASE RaiseError(j)
  <2>1. /\ pc[j] = "raising" /\ main = "wait"
        /\ UNCHANGED <<dependsOn, main, result, jobStatus, container>>
        /\ pc' = [pc EXCEPT ![j] = "ended"]
    BY <1>6 DEF RaiseError, At, Raise, Goto
  <2> QED
    BY <1>0, <2>1, InvisibleStep DEF Reported, TypeOK
<1>7. CASE SaveJobRow(j)
  <2>1. /\ pc[j] = "saving" /\ main = "wait"
        /\ UNCHANGED <<dependsOn, main, result, jobStatus, container, egFailed>>
        /\ pc' = [pc EXCEPT ![j] = IF jobStatus[j] = Success THEN "closing" ELSE "raising"]
    BY <1>7 DEF SaveJobRow, At, Goto
  <2> QED
    BY <1>0, <2>1, InvisibleStep DEF Reported, TypeOK
<1>8. CASE BeginCopy(j) \/ CopyWorkspace(j) \/ CopyFails(j) \/ MarkJobRunning(j) \/ CloseDone(j)
  <2>1. /\ main = "wait"
        /\ UNCHANGED <<dependsOn, main, result, jobStatus, container, egFailed>>
        /\ \/ /\ pc[j] \in {"await", "copying", "marking"}
              /\ \E p \in {"copying", "marking", "starting", "raising"} : pc' = [pc EXCEPT ![j] = p]
           \/ pc[j] = "closing" /\ pc' = [pc EXCEPT ![j] = "ended"]
    BY <1>8 DEF BeginCopy, CopyWorkspace, CopyFails, MarkJobRunning, CloseDone, At, Goto
  <2> QED
    BY <1>0, <2>1, InvisibleStep DEF Reported, TypeOK
<1> QED
  BY <1>1, <1>2, <1>3, <1>4, <1>5, <1>6, <1>7, <1>8 DEF JobStep, JobExits, JobAborts, Terminal

-----------------------------------------------------------------------------
(* The theorem.                                                            *)

LEMMA InitRefines == Init => Refines /\ Promise!Init
BY DEF Init, Refines, Reported, Blamed, Unstarted, Promise!Init, Stage, Success, Failed

LEMMA NextRefines ==
  ASSUME IInv, Refines, [Next]_vars
  PROVE  Refines' /\ [Promise!Next]_Promise!vars
<1>1. CASE MainStep
  BY <1>1, MainRefines
<1>2. ASSUME NEW j \in Jobs, JobStep(j) \/ JobWrites(j) \/ JobExits(j)
      PROVE  Refines' /\ [Promise!Next]_Promise!vars
  BY <1>2, JobRefines
<1>3. CASE Cancel \/ UNCHANGED vars
  <2>1. UNCHANGED <<dependsOn, main, result, pc, jobStatus, container, egFailed>>
    BY <1>3 DEF Cancel, vars, mainVars, jobVars
  <2> QED
    BY <2>1 DEF Refines, Reported, Blamed, Unstarted, Stage, Promise!vars
<1> QED
  BY <1>1, <1>2, <1>3 DEF Next, Finished

\* RunPipeline keeps its promise: whatever the goroutines, the contexts, the
\* failing calls and the containers do, its caller sees jobs that run in
\* dependency order and one verdict, which is true and comes when no job is
\* left running (scheduler.go:33-196).
THEOREM Implementation == Spec => KeepsPromise
<1>1. Init => Promise!Init /\ Refines
  BY InitRefines
<1>2. IInv /\ Refines /\ [Next]_vars => Refines' /\ [Promise!Next]_Promise!vars
  BY NextRefines
<1> QED
  BY <1>1, <1>2, Invariance, PTL DEF Spec, KeepsPromise, Promise!Spec
===============================================================================
