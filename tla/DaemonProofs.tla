----------------------------- MODULE DaemonProofs -----------------------------
(***************************************************************************)
(* The safety of the daemon, for any set of runs, jobs and workers and any *)
(* bounds: ownership of accepted runs, the finality of terminal rows, and  *)
(* what recovery and the handlers may leave behind.                        *)
(*                                                                         *)
(* IInv says of each run where its request, its rows and its worker stand  *)
(* together.  It holds in every state, also while the process is down and  *)
(* queue, handlers and workers are the remains of the last one.            *)
(***************************************************************************)
EXTENDS Daemon, SequenceTheorems, FiniteSetTheorems, TLAPS

Busy == {"begin", "jobs", "verdict"}

\* Recovery is under way: nothing has been started yet.
Booting == proc \in {"select", "resetRuns", "resetJobs"}

\* The request of a run this process has accepted.
Accepted(r) == reply[r] = "202" /\ r \notin old

AllJobs(r, s) == \A j \in Jobs : jobRow[r][j] = s

\* Where a request stands, its rows stand too.
Requested(r) ==
  /\ handler[r] # "done" => reply[r] = "none" /\ r \notin old
  /\ handler[r] \in {"idle", "row"} => runRow[r] = Absent
  /\ handler[r] \in {"jobs", "enqueue"} => runRow[r] = Pending
  /\ handler[r] = "jobs" => \A j \in Jobs : jobRow[r][j] \in {Absent, Pending}
  /\ handler[r] = "enqueue" => AllJobs(r, Pending)
  /\ reply[r] \in {"429", "500", "503"} => runRow[r] \notin {Running, Success}
  /\ reply[r] = "429" => runRow[r] = Absent
  /\ handler[r] = "done" /\ reply[r] = "none" /\ r \notin old => runRow[r] = Absent
  /\ runRow[r] = Absent => AllJobs(r, Absent) /\ r \notin old

\* A queued run is accepted, untouched, and nobody else's.
Waiting(r) ==
  Queued(r) => ~Held(r) /\ Accepted(r) /\ runRow[r] = Pending /\ AllJobs(r, Pending)

\* A worker's run has the rows of the worker's place, and so has a job that has
\* not started; the verdict the worker carries agrees with what is in the store,
\* or a write has failed.
Working(w) ==
  /\ at[w] \notin {"jobs", "verdict"} => stage[w] = NotStarted
  /\ at[w] \in Busy =>
       /\ Accepted(holds[w])
       /\ at[w] = "begin" => runRow[holds[w]] = Pending /\ AllJobs(holds[w], Pending)
       /\ at[w] = "jobs" =>
            /\ runRow[holds[w]] = Running
            /\ \A j \in Jobs : stage[w][j] = "waiting" => jobRow[holds[w]][j] = Pending
       /\ at[w] = "verdict" =>
            /\ runRow[holds[w]] # Absent
            /\ failed[w] => runRow[holds[w]] # Success
            /\ ~failed[w] => runRow[holds[w]] # Failed /\ AllSucceeded(w)
            /\ runRow[holds[w]] \in Active /\ ~ctxDone => faults >= 1

QueueDistinct ==
  \A i, k \in 1..Len(queue) : queue[i] = queue[k] => i = k

HoldsDistinct ==
  \A v, w \in Workers : holds[v] = holds[w] /\ holds[v] \in Runs => v = w

\* An accepted run that nobody has any more is settled, unless both writes of
\* its verdict failed.
Settled(r) ==
  Accepted(r) /\ runRow[r] \in Active /\ ~Queued(r) /\ ~Held(r) /\ ~ctxDone => faults >= 2

\* Nothing is left of the last process when recovery starts.
CleanBoot ==
  Booting =>
    /\ queue = <<>> /\ \A w \in Workers : holds[w] = NoRun
    /\ \A r \in Runs : ~InFlight(r) /\ (r \notin old => runRow[r] = Absent)

\* Recovery without a fault leaves no active run.
Recovered ==
  (Up \/ proc = "resetJobs") /\ faults = 0 => \A r \in old : runRow[r] \in Terminal

\* Only the end of the shutdown cancels the workers.
Uncancelled == Booting \/ proc \in {"serving", "draining"} => ~ctxDone

RunPart(r) ==
  Requested(r) /\ Waiting(r) /\ Settled(r)

IInv ==
  /\ TypeOK
  /\ \A r \in Runs : RunPart(r)
  /\ \A w \in Workers : Working(w)
  /\ QueueDistinct /\ HoldsDistinct
  /\ CleanBoot /\ Recovered /\ Uncancelled

-----------------------------------------------------------------------------
(* What a step leaves alone keeps its part of the invariant.               *)

\* Nothing of run r changes, and nobody else's step can hurt it.
Untouched(r) ==
  /\ runRow'[r] = runRow[r] /\ jobRow'[r] = jobRow[r]
  /\ handler'[r] = handler[r] /\ reply'[r] = reply[r]
  /\ Queued(r)' <=> Queued(r)
  /\ Held(r)' <=> Held(r)
  /\ \A w \in Workers : holds[w] = r => holds'[w] = r /\ at'[w] = at[w]

\* The process goes on, and faults are only ever added.
GoesOn ==
  /\ old' = old
  /\ ctxDone => ctxDone'
  /\ faults \in Nat /\ faults' \in Nat /\ faults <= faults'

LEMMA RunFrame ==
  ASSUME NEW r \in Runs, RunPart(r), Untouched(r), GoesOn
  PROVE  RunPart(r)'
<1>1. Requested(r)'
  BY DEF RunPart, Untouched, GoesOn, Requested, AllJobs
<1>2. Waiting(r)'
  BY DEF RunPart, Untouched, GoesOn, Waiting, Accepted, AllJobs
<1>3. Settled(r)'
  BY DEF RunPart, Untouched, GoesOn, Settled, Accepted
<1> QED
  BY <1>1, <1>2, <1>3 DEF RunPart

LEMMA WorkerFrame ==
  ASSUME NEW w \in Workers, Working(w), GoesOn,
         at'[w] = at[w], holds'[w] = holds[w], failed'[w] = failed[w],
         stage'[w] = stage[w],
         at[w] \in Busy => /\ runRow'[holds[w]] = runRow[holds[w]]
                           /\ jobRow'[holds[w]] = jobRow[holds[w]]
                           /\ reply'[holds[w]] = reply[holds[w]]
  PROVE  Working(w)'
BY DEF GoesOn, Working, Accepted, AllJobs, AllSucceeded, Busy, Active, Pending, Running

-----------------------------------------------------------------------------
(* The queue.                                                              *)

LEMMA Sending ==
  ASSUME NEW r \in Runs, queue \in Seq(Runs), QueueDistinct, ~Queued(r),
         queue' = Append(queue, r)
  PROVE  /\ QueueDistinct'
         /\ \A s : Queued(s)' <=> (Queued(s) \/ s = r)
<1>1. /\ Len(queue') = Len(queue) + 1 /\ Len(queue) \in Nat
      /\ queue'[Len(queue) + 1] = r
      /\ \A i \in 1..Len(queue) : queue'[i] = queue[i]
  OBVIOUS
<1>2. QueueDistinct'
  BY <1>1 DEF QueueDistinct, Queued
<1>3. ASSUME NEW s PROVE Queued(s)' <=> (Queued(s) \/ s = r)
  BY <1>1 DEF Queued
<1> QED
  BY <1>2, <1>3

LEMMA Receiving ==
  ASSUME queue \in Seq(Runs), QueueDistinct, queue # <<>>, queue' = Tail(queue)
  PROVE  /\ QueueDistinct'
         /\ Queued(Head(queue)) /\ Head(queue) \in Runs
         /\ \A s : Queued(s)' <=> (Queued(s) /\ s # Head(queue))
<1>1. /\ Len(queue') = Len(queue) - 1 /\ Len(queue) \in Nat \ {0}
      /\ \A i \in 1..Len(queue') : queue'[i] = queue[i + 1]
      /\ Head(queue) = queue[1] /\ Head(queue) \in Runs
  OBVIOUS
<1>2. QueueDistinct'
  BY <1>1 DEF QueueDistinct
<1>3. ASSUME NEW s, Queued(s)' PROVE Queued(s) /\ s # Head(queue)
  <2>1. PICK i \in 1..Len(queue') : queue'[i] = s
    BY <1>3 DEF Queued
  <2>2. i + 1 \in 1..Len(queue) /\ queue[i + 1] = s /\ i + 1 # 1
    BY <1>1, <2>1
  <2> QED
    BY <1>1, <2>2 DEF Queued, QueueDistinct
<1>4. ASSUME NEW s, Queued(s), s # Head(queue) PROVE Queued(s)'
  <2>1. PICK i \in 1..Len(queue) : queue[i] = s
    BY <1>4 DEF Queued
  <2>2. i - 1 \in 1..Len(queue') /\ queue'[i - 1] = s
    BY <1>1, <1>4, <2>1
  <2> QED
    BY <2>2 DEF Queued
<1> QED
  BY <1>1, <1>2, <1>3, <1>4 DEF Queued

-----------------------------------------------------------------------------
(* Types.                                                                  *)

LEMMA TypeStep ==
  ASSUME TypeOK, [Next]_vars
  PROVE  TypeOK'
<1> USE BoundsAssumption
<1>0. NoRun \notin Runs
  BY SetsAssumption
<1> USE DEF TypeOK, Status, Pending, Running, Success, Failed, Absent, ProcStates, HandlerStates
<1>1. CASE Start
  <2>1. handler' \in [Runs -> HandlerStates]
    BY <1>1 DEF Start
  <2>2. /\ queue' \in Seq(Runs) /\ Len(queue') <= QueueSize
        /\ old' \subseteq Runs
    BY <1>1 DEF Start
  <2>3. /\ at' = [w \in Workers |-> "idle"] /\ holds' = [w \in Workers |-> NoRun]
        /\ failed' = [w \in Workers |-> FALSE] /\ stage' = [w \in Workers |-> NotStarted]
    BY <1>1 DEF Start
  <2>4. NotStarted \in [Jobs -> Stages]
    BY DEF NotStarted, Stages
  <2>5. stage' \in [Workers -> [Jobs -> Stages]]
    BY <2>3, <2>4
  <2>6. UNCHANGED <<runRow, jobRow, faults, downs, reply>> /\ proc' = "select" /\ ctxDone' = FALSE
    BY <1>1 DEF Start, store
  <2> QED
    BY <1>0, <2>1, <2>2, <2>3, <2>5, <2>6
<1>2. CASE Recover
  <2>1. CASE SelectGhosts
    BY <2>1 DEF SelectGhosts, Fault, store, volatile
  <2>2. CASE ResetRuns
    BY <2>2 DEF ResetRuns, Fault, volatile
  <2>3. CASE ResetJobs
    BY <2>3 DEF ResetJobs, Fault, volatile
  <2> QED
    BY <1>2, <2>1, <2>2, <2>3 DEF Recover
<1>3. CASE Terminate \/ StopPool
  BY <1>3 DEF Terminate, StopPool, store, volatile
<1>4. CASE Exit \/ Crash
  BY <1>4 DEF Exit, Crash, store, volatile
<1>5. ASSUME NEW r \in Runs, Receive(r) \/ HandlerStep(r)
      PROVE  TypeOK'
  <2>1. CASE Receive(r)
    <3>1. handler' \in [Runs -> HandlerStates]
      BY <2>1 DEF Receive, Answer
    <3>2. reply' \in [Runs -> {"none", "202", "429", "500", "503"}]
      BY <2>1 DEF Receive, Answer
    <3> QED
      BY <2>1, <3>1, <3>2 DEF Receive, store
  <2>2. CASE CreateRun(r)
    <3>1. handler' \in [Runs -> HandlerStates]
      BY <2>2 DEF CreateRun, Answer
    <3>2. reply' \in [Runs -> {"none", "202", "429", "500", "503"}]
      BY <2>2 DEF CreateRun, Answer
    <3>3. runRow' \in [Runs -> Status \cup {Absent}]
      BY <2>2 DEF CreateRun
    <3> QED
      BY <2>2, <3>1, <3>2, <3>3 DEF CreateRun
  <2>3. CASE CreateRunJob(r)
    <3>1. handler' \in [Runs -> HandlerStates]
      BY <2>3 DEF CreateRunJob, Answer
    <3>2. reply' \in [Runs -> {"none", "202", "429", "500", "503"}]
      BY <2>3 DEF CreateRunJob, Answer
    <3>3. jobRow' \in [Runs -> [Jobs -> Status \cup {Absent}]]
      <4>1. CASE UNCHANGED jobRow
        BY <4>1
      <4>2. CASE \E j \in Jobs : jobRow' = [jobRow EXCEPT ![r][j] = Pending]
        BY <4>2
      <4> QED
        BY <2>3, <4>1, <4>2 DEF CreateRunJob
    <3> QED
      BY <2>3, <3>1, <3>2, <3>3 DEF CreateRunJob
  <2>4. CASE Enqueue(r)
    <3>1. handler' \in [Runs -> HandlerStates]
      BY <2>4 DEF Enqueue, Answer
    <3>2. reply' \in [Runs -> {"none", "202", "429", "500", "503"}]
      BY <2>4 DEF Enqueue, Answer
    <3>3. \/ queue' = queue
          \/ queue' = Append(queue, r) /\ Len(queue) < QueueSize
      BY <2>4 DEF Enqueue
    <3>4. queue \in Seq(Runs) /\ Len(queue) <= QueueSize /\ QueueSize \in Nat
      OBVIOUS
    <3>5. queue' \in Seq(Runs) /\ Len(queue') <= QueueSize
      <4> HIDE DEF TypeOK
      <4> QED
        BY <3>3, <3>4, AppendProperties, LenProperties
    <3> QED
      BY <2>4, <3>1, <3>2, <3>5 DEF Enqueue, store
  <2> QED
    BY <1>5, <2>1, <2>2, <2>3, <2>4 DEF HandlerStep
<1>6. ASSUME NEW w \in Workers, WorkerStep(w)
      PROVE  TypeOK'
  <2>1. CASE Dequeue(w)
    <3>1. /\ queue' \in Seq(Runs) /\ Len(queue') <= QueueSize
          /\ Head(queue) \in Runs
      BY <2>1 DEF Dequeue
    <3> QED
      BY <2>1, <3>1 DEF Dequeue, WorkerGoes, store
  <2>2. CASE WorkerExits(w)
    BY <2>2 DEF WorkerExits, WorkerGoes, store
  <2>3. CASE BeginRun(w)
    <3>1. holds[w] \in Runs
      BY <2>3 DEF BeginRun
    <3>2. runRow' \in [Runs -> Status \cup {Absent}] /\ faults' \in 0..MaxFaults
      BY <2>3, <3>1 DEF BeginRun, Refused, Fault
    <3>3. failed' \in [Workers -> BOOLEAN]
      BY <2>3 DEF BeginRun
    <3> QED
      <4>1. /\ holds' = holds /\ at[w] = "begin"
            /\ \E place \in {"jobs", "verdict"} : at' = [at EXCEPT ![w] = place]
        BY <2>3 DEF BeginRun, WorkerGoes
      <4>2. at' \in [Workers -> {"idle", "begin", "jobs", "verdict", "exited"}]
        BY <4>1
      <4>3. ASSUME NEW v \in Workers
            PROVE  holds'[v] \in Runs <=> at'[v] \in {"begin", "jobs", "verdict"}
        <5>1. CASE v = w
          BY <3>1, <4>1, <5>1
        <5>2. CASE v # w
          <6>1. holds'[v] = holds[v] /\ at'[v] = at[v]
            BY <4>1, <5>2
          <6> QED
            BY <6>1
        <5> QED
          BY <5>1, <5>2
      <4> QED
        BY <2>3, <3>2, <3>3, <4>2, <4>3 DEF BeginRun
  <2>4. CASE LoadFails(w)
    BY <2>4 DEF LoadFails, WorkerGoes, Refused, Fault, store
  <2>5. ASSUME NEW j \in Jobs, JobStep(w, j)
        PROVE  TypeOK'
    <3>1. PICK s \in Status, place \in Stages :
            /\ jobRow' = [jobRow EXCEPT ![holds[w]][j] = s] \/ UNCHANGED jobRow
            /\ stage' = [stage EXCEPT ![w][j] = place]
      BY <2>5 DEF JobStep, JobStarts, JobFailsUnstarted, JobEnds, WriteJob, JobGoes, Stages
    <3>2. faults' \in 0..MaxFaults
      BY <2>5 DEF JobStep, JobStarts, JobFailsUnstarted, JobEnds, WriteJob, Fault
    <3>3. /\ jobRow' \in [Runs -> [Jobs -> Status \cup {Absent}]]
          /\ stage' \in [Workers -> [Jobs -> Stages]]
      <4>1. /\ jobRow \in [Runs -> [Jobs -> Status \cup {Absent}]]
            /\ stage \in [Workers -> [Jobs -> Stages]]
        OBVIOUS
      <4> HIDE DEF TypeOK, Status, Stages
      <4> QED
        BY <3>1, <4>1
    <3> QED
      BY <2>5, <3>2, <3>3 DEF JobStep, JobStarts, JobFailsUnstarted, JobEnds
  <2>6. CASE EndRun(w)
    <3>1. failed' \in [Workers -> BOOLEAN]
      BY <2>6 DEF EndRun, AllSucceeded
    <3>2. runRow' \in [Runs -> Status \cup {Absent}] /\ faults' \in 0..MaxFaults
      BY <2>6 DEF EndRun, WriteRun, Refused, Fault
    <3> QED
      BY <2>6, <3>1, <3>2 DEF EndRun, WorkerGoes
  <2>7. CASE RecordVerdict(w)
    <3>1. holds[w] \in Runs
      BY <2>7 DEF RecordVerdict
    <3>2. runRow' \in [Runs -> Status \cup {Absent}] /\ faults' \in 0..MaxFaults
      BY <2>7, <3>1 DEF RecordVerdict, WorkerGoes, WriteRun, Refused, Fault
    <3>3. failed' \in [Workers -> BOOLEAN]
      BY <2>7 DEF RecordVerdict
    <3> QED
      <4>1. NotStarted \in [Jobs -> Stages]
        BY DEF NotStarted, Stages
      <4> QED
        BY <1>0, <2>7, <3>1, <3>2, <3>3, <4>1 DEF RecordVerdict, WorkerGoes
  <2> QED
    BY <1>6, <2>1, <2>2, <2>3, <2>4, <2>5, <2>6, <2>7 DEF WorkerStep
<1>7. CASE UNCHANGED vars
  BY <1>7 DEF vars, store, volatile
<1> QED
  BY <1>1, <1>2, <1>3, <1>4, <1>5, <1>6, <1>7 DEF Next

-----------------------------------------------------------------------------
(* The handlers.                                                           *)

LEMMA HandlerFrame ==
  ASSUME IInv, TypeOK', NEW r \in Runs, handler[r] # "done", Up, RunPart(r)',
         UNCHANGED <<faults, downs, proc, old, ctxDone, at, holds, failed, stage>>,
         QueueDistinct',
         \A s \in Runs \ {r} : /\ runRow'[s] = runRow[s] /\ jobRow'[s] = jobRow[s]
                               /\ handler'[s] = handler[s] /\ reply'[s] = reply[s]
                               /\ Queued(s)' <=> Queued(s)
  PROVE  IInv'
<1>1. GoesOn
  BY DEF GoesOn, IInv, TypeOK
<1>2. reply[r] = "none" /\ r \notin old
  BY DEF IInv, RunPart, Requested
<1>3. ASSUME NEW s \in Runs PROVE RunPart(s)'
  <2>1. CASE s = r
    BY <2>1
  <2>2. CASE s # r
    <3>1. Untouched(s)
      BY <2>2 DEF Untouched, Held
    <3> QED
      BY <1>1, <3>1, RunFrame DEF IInv
  <2> QED
    BY <2>1, <2>2
<1>4. ASSUME NEW w \in Workers PROVE Working(w)'
  <2>1. at[w] \in Busy => holds[w] \in Runs /\ holds[w] # r
    BY <1>2 DEF IInv, Working, Accepted, TypeOK, Busy
  <2> QED
    BY <1>1, <2>1, WorkerFrame DEF IInv
<1>5. HoldsDistinct' /\ Uncancelled'
  BY DEF IInv, HoldsDistinct, Uncancelled, Booting
<1>6. CleanBoot'
  BY DEF CleanBoot, Booting, Up
<1>7. Recovered'
  BY <1>2 DEF IInv, Recovered, Up, TypeOK
<1> QED
  BY <1>3, <1>4, <1>5, <1>6, <1>7 DEF IInv

LEMMA HandlerKeeps ==
  ASSUME IInv, TypeOK', NEW r \in Runs, Receive(r) \/ HandlerStep(r)
  PROVE  IInv'
<1> USE DEF Pending, Running, Success, Failed, Absent
<1>0. TypeOK /\ RunPart(r) /\ QueueDistinct
  BY DEF IInv
<1>1. handler[r] # "done" /\ Up
  BY DEF Receive, HandlerStep, CreateRun, CreateRunJob, Enqueue, Up
<1>2. reply[r] = "none" /\ r \notin old /\ ~Queued(r) /\ ~Held(r)
  <2>1. reply[r] = "none" /\ r \notin old
    BY <1>0, <1>1 DEF RunPart, Requested
  <2>2. ~Queued(r)
    BY <1>0, <2>1 DEF RunPart, Waiting, Accepted
  <2>3. ~Held(r)
    BY <2>1 DEF Held, IInv, Working, Accepted, TypeOK, Busy
  <2> QED
    BY <2>1, <2>2, <2>3
<1>3. CASE Receive(r)
  <2>1. /\ UNCHANGED <<store, faults, downs, proc, old, ctxDone, queue, at, holds, failed, stage>>
        /\ handler[r] = "idle"
        /\ \/ handler' = [handler EXCEPT ![r] = "row"] /\ UNCHANGED reply
           \/ /\ reply' = [reply EXCEPT ![r] = "429"]
              /\ handler' = [handler EXCEPT ![r] = "done"]
    BY <1>3 DEF Receive, Answer
  <2>2. RunPart(r)'
    BY <1>0, <1>2, <2>1 DEF RunPart, Requested, Waiting, Settled,
                       AllJobs, Accepted, Queued, Held, Active, TypeOK, store
  <2> QED
    BY <1>0, <1>1, <2>1, <2>2, HandlerFrame DEF Queued, QueueDistinct, store, TypeOK
<1>4. CASE CreateRun(r)
  <2>1. /\ UNCHANGED <<jobRow, faults, downs, proc, old, ctxDone, queue, at, holds, failed, stage>>
        /\ handler[r] = "row"
        /\ \/ /\ runRow' = [runRow EXCEPT ![r] = Pending]
              /\ handler' = [handler EXCEPT ![r] = "jobs"]
              /\ UNCHANGED reply
           \/ /\ reply' = [reply EXCEPT ![r] = "500"]
              /\ handler' = [handler EXCEPT ![r] = "done"]
              /\ UNCHANGED runRow
    BY <1>4 DEF CreateRun, Answer
  <2>2. RunPart(r)'
    BY <1>0, <1>2, <2>1 DEF RunPart, Requested, Waiting, Settled,
                       AllJobs, Accepted, Queued, Held, Active, TypeOK
  <2> QED
    BY <1>0, <1>1, <2>1, <2>2, HandlerFrame DEF Queued, QueueDistinct, TypeOK
<1>5. CASE CreateRunJob(r)
  <2>1. /\ UNCHANGED <<runRow, faults, downs, proc, old, ctxDone, queue, at, holds, failed, stage>>
        /\ handler[r] = "jobs"
    BY <1>5 DEF CreateRunJob
  <2>2. RunPart(r)'
    <3>1. ASSUME NEW j \in Jobs, jobRow' = [jobRow EXCEPT ![r][j] = Pending], UNCHANGED reply,
                 handler' = [handler EXCEPT ![r] =
                               IF \A k \in Jobs \ {j} : jobRow[r][k] # Absent
                               THEN "enqueue" ELSE "jobs"]
          PROVE  RunPart(r)'
      <4>1. \A k \in Jobs : jobRow'[r][k] = IF k = j THEN Pending ELSE jobRow[r][k]
        BY <3>1, <1>0 DEF TypeOK
      <4>2. handler'[r] \in {"jobs", "enqueue"}
            /\ (handler'[r] = "enqueue" => AllJobs(r, Pending)')
            /\ \A k \in Jobs : jobRow'[r][k] \in {Absent, Pending}
        BY <1>0, <2>1, <3>1, <4>1 DEF TypeOK, RunPart, Requested, AllJobs
      <4> QED
        BY <1>0, <1>2, <2>1, <3>1, <4>1, <4>2
           DEF RunPart, Requested, Waiting, Settled,
               Accepted, Queued, Held, Active, TypeOK
    <3>2. CASE Answer(r, "500") /\ UNCHANGED jobRow
      BY <1>0, <1>2, <2>1, <3>2 DEF Answer, RunPart, Requested, Waiting, Settled,
                       AllJobs, Accepted, Queued, Held, Active, TypeOK
    <3> QED
      BY <1>5, <3>1, <3>2 DEF CreateRunJob
  <2>3. \A s \in Runs \ {r} : /\ jobRow'[s] = jobRow[s]
                              /\ handler'[s] = handler[s] /\ reply'[s] = reply[s]
    BY <1>0, <1>5 DEF CreateRunJob, Answer, TypeOK
  <2> QED
    BY <1>0, <1>1, <2>1, <2>2, <2>3, HandlerFrame DEF Queued, QueueDistinct
<1>6. CASE Enqueue(r)
  <2>1. /\ UNCHANGED <<store, faults, downs, proc, old, ctxDone, at, holds, failed, stage>>
        /\ handler[r] = "enqueue"
        /\ handler' = [handler EXCEPT ![r] = "done"]
        /\ \/ queue' = Append(queue, r) /\ reply' = [reply EXCEPT ![r] = "202"]
           \/ /\ UNCHANGED queue
              /\ \E code \in {"500", "503"} : reply' = [reply EXCEPT ![r] = code]
    BY <1>6 DEF Enqueue, Answer
  <2>2. /\ QueueDistinct'
        /\ \A s \in Runs : Queued(s)' <=> (Queued(s) \/ (s = r /\ reply'[r] = "202"))
    <3>1. CASE queue' = Append(queue, r) /\ reply' = [reply EXCEPT ![r] = "202"]
      BY <1>0, <1>2, <3>1, Sending DEF TypeOK
    <3>2. CASE UNCHANGED queue /\ reply'[r] # "202"
      BY <1>0, <1>2, <3>2 DEF QueueDistinct, Queued
    <3> QED
      BY <1>0, <2>1, <3>1, <3>2 DEF TypeOK
  <2>3. RunPart(r)'
    BY <1>0, <1>2, <2>1, <2>2 DEF RunPart, Requested, Waiting, Settled, AllJobs, Accepted, Held, Active, TypeOK, store
  <2> QED
    BY <1>0, <1>1, <2>1, <2>2, <2>3, HandlerFrame DEF store, TypeOK
<1> QED
  BY <1>3, <1>4, <1>5, <1>6 DEF HandlerStep

-----------------------------------------------------------------------------
(* The workers.                                                            *)

LEMMA WorkerRunFrame ==
  ASSUME IInv, TypeOK', NEW w \in Workers, NEW r \in Runs,
         at[w] \in Busy, holds[w] = r, Up,
         UNCHANGED <<proc, old, ctxDone, queue, handler, reply>>, faults <= faults',
         \A v \in Workers \ {w} : /\ at'[v] = at[v] /\ holds'[v] = holds[v]
                                  /\ failed'[v] = failed[v] /\ stage'[v] = stage[v],
         holds'[w] \in {r, NoRun},
         \A s \in Runs \ {r} : runRow'[s] = runRow[s] /\ jobRow'[s] = jobRow[s],
         RunPart(r)', Working(w)'
  PROVE  IInv'
<1>0. NoRun \notin Runs /\ TypeOK
  BY SetsAssumption DEF IInv, TypeOK, Busy
<1>1. GoesOn
  BY <1>0 DEF GoesOn, TypeOK
<1>2. \A v \in Workers \ {w} : at[v] \in Busy => holds[v] \in Runs /\ holds[v] # r
  BY <1>0 DEF IInv, HoldsDistinct, TypeOK, Busy
<1>3. ASSUME NEW s \in Runs PROVE RunPart(s)'
  <2>1. CASE s = r
    BY <2>1
  <2>2. CASE s # r
    <3>1. Untouched(s)
      BY <1>0, <2>2 DEF Untouched, Held, Queued
    <3> QED
      BY <1>1, <3>1, RunFrame DEF IInv
  <2> QED
    BY <2>1, <2>2
<1>4. ASSUME NEW v \in Workers PROVE Working(v)'
  <2>1. CASE v = w
    BY <2>1
  <2>2. CASE v # w
    BY <1>1, <1>2, <2>2, WorkerFrame DEF IInv
  <2> QED
    BY <2>1, <2>2
<1>5. QueueDistinct' /\ HoldsDistinct' /\ Uncancelled'
  <2>1. HoldsDistinct'
    BY <1>0 DEF IInv, HoldsDistinct
  <2> QED
    BY <2>1 DEF IInv, QueueDistinct, Uncancelled, Booting
<1>6. CleanBoot'
  BY DEF CleanBoot, Booting, Up
<1>7. Recovered'
  <2>1. r \notin old
    BY DEF IInv, Working, Accepted
  <2>2. faults' = 0 => faults = 0
    BY <1>1 DEF GoesOn
  <2> QED
    BY <1>0, <2>1, <2>2 DEF IInv, Recovered, Up, TypeOK
<1> QED
  BY <1>3, <1>4, <1>5, <1>6, <1>7 DEF IInv

LEMMA DequeueKeeps ==
  ASSUME IInv, TypeOK', NEW w \in Workers, Dequeue(w)
  PROVE  IInv'
<1>0. TypeOK /\ NoRun \notin Runs
  BY SetsAssumption DEF IInv
<1>1. /\ UNCHANGED <<store, faults, downs, proc, old, ctxDone, handler, reply, failed, stage>>
      /\ Up /\ at[w] = "idle"
      /\ queue \in Seq(Runs) /\ queue # <<>> /\ queue' = Tail(queue)
      /\ holds' = [holds EXCEPT ![w] = Head(queue)] /\ at' = [at EXCEPT ![w] = "begin"]
  BY <1>0 DEF Dequeue, WorkerGoes, TypeOK
<1>2. PICK r \in Runs :
        /\ r = Head(queue) /\ holds' = [holds EXCEPT ![w] = r]
        /\ QueueDistinct' /\ Queued(r)
        /\ \A s : Queued(s)' <=> (Queued(s) /\ s # r)
  BY <1>1, Receiving DEF IInv
<1>3. ~Held(r) /\ Accepted(r) /\ runRow[r] = Pending /\ AllJobs(r, Pending)
  BY <1>2 DEF IInv, RunPart, Waiting
<1>4. holds[w] \notin Runs
  BY <1>0, <1>1 DEF TypeOK
<1>5. GoesOn
  BY <1>0, <1>1 DEF GoesOn, TypeOK
<1>6. ASSUME NEW s \in Runs PROVE RunPart(s)'
  <2>1. CASE s = r
    <3>1. Held(r)'
      BY <1>0, <1>2 DEF Held, TypeOK
    <3> QED
      BY <1>1, <1>2, <1>3, <2>1, <3>1
         DEF IInv, RunPart, Requested, Waiting, Settled,
             AllJobs, Accepted, store, Pending, Running, Success
  <2>2. CASE s # r
    <3>1. Untouched(s)
      BY <1>0, <1>1, <1>2, <1>4, <2>2 DEF Untouched, Held, store, TypeOK
    <3> QED
      BY <1>5, <3>1, RunFrame DEF IInv
  <2> QED
    BY <2>1, <2>2
<1>7. ASSUME NEW v \in Workers PROVE Working(v)'
  <2>1. CASE v = w
    <3>1. stage'[w] = NotStarted /\ at'[w] = "begin" /\ holds'[w] = r
      <4>1. Working(w)
        BY DEF IInv
      <4> QED
        BY <1>0, <1>1, <1>2, <4>1 DEF Working, TypeOK
    <3>2. Accepted(r)' /\ runRow'[r] = Pending /\ AllJobs(r, Pending)'
      BY <1>1, <1>3 DEF Accepted, AllJobs, store
    <3> QED
      BY <2>1, <3>1, <3>2 DEF Working
  <2>2. CASE v # w
    BY <1>0, <1>1, <1>5, <2>2, WorkerFrame DEF IInv, store, TypeOK
  <2> QED
    BY <2>1, <2>2
<1>8. HoldsDistinct'
  BY <1>0, <1>2, <1>3 DEF IInv, HoldsDistinct, Held, TypeOK
<1>9. CleanBoot' /\ Recovered' /\ Uncancelled'
  BY <1>1 DEF IInv, CleanBoot, Booting, Up, Recovered, Uncancelled, store
<1> QED
  BY <1>2, <1>6, <1>7, <1>8, <1>9 DEF IInv

LEMMA WorkerKeeps ==
  ASSUME IInv, TypeOK', NEW w \in Workers, WorkerStep(w)
  PROVE  IInv'
<1> USE DEF Pending, Running, Success, Failed, Absent, Active, Terminal
<1>0. TypeOK /\ Working(w) /\ Up /\ NoRun \notin Runs
  BY SetsAssumption
     DEF IInv, WorkerStep, Dequeue, WorkerExits, BeginRun, LoadFails, JobStep,
         JobStarts, JobFailsUnstarted, JobEnds, EndRun, RecordVerdict
<1>1. ASSUME at[w] \in Busy
      PROVE  \E r \in Runs : /\ holds[w] = r /\ RunPart(r) /\ Accepted(r) /\ Held(r) /\ ~Queued(r)
                             /\ handler[r] = "done"
  BY <1>0, <1>1 DEF IInv, TypeOK, Busy, Working, Held, RunPart, Waiting, Requested, Accepted
<1>2. CASE Dequeue(w)
  BY <1>2, DequeueKeeps
<1>3. CASE WorkerExits(w)
  <2>1. /\ UNCHANGED <<store, faults, downs, proc, old, ctxDone, queue, handler, reply, holds, failed, stage>>
        /\ at[w] = "idle" /\ at' = [at EXCEPT ![w] = "exited"]
    BY <1>3 DEF WorkerExits, WorkerGoes
  <2>2. GoesOn
    BY <1>0, <2>1 DEF GoesOn, TypeOK
  <2>3. ASSUME NEW r \in Runs PROVE RunPart(r)'
    <3>1. Untouched(r)
      BY <1>0, <2>1 DEF Untouched, Held, Queued, store, TypeOK
    <3> QED
      BY <2>2, <3>1, RunFrame DEF IInv
  <2>4. ASSUME NEW v \in Workers PROVE Working(v)'
    <3>1. CASE v = w
      BY <1>0, <2>1, <3>1 DEF Working, Busy, TypeOK
    <3>2. CASE v # w
      BY <1>0, <2>1, <2>2, <3>2, WorkerFrame DEF IInv, store, TypeOK
    <3> QED
      BY <3>1, <3>2
  <2>5. QueueDistinct' /\ HoldsDistinct' /\ CleanBoot' /\ Recovered' /\ Uncancelled'
    BY <1>0, <2>1 DEF IInv, QueueDistinct, HoldsDistinct, CleanBoot, Booting, Up, Recovered,
                      Uncancelled, store
  <2> QED
    BY <2>3, <2>4, <2>5 DEF IInv
<1>4. CASE BeginRun(w)
  <2>1. PICK r \in Runs : /\ holds[w] = r /\ RunPart(r) /\ Accepted(r) /\ Held(r) /\ ~Queued(r)
                          /\ handler[r] = "done"
    BY <1>1, <1>4 DEF BeginRun, Busy
  <2>2. /\ UNCHANGED <<jobRow, downs, proc, old, ctxDone, queue, handler, reply, holds, stage>>
        /\ at[w] = "begin"
        /\ \/ /\ ~ctxDone
              /\ runRow' = [runRow EXCEPT ![r] = Running]
              /\ at' = [at EXCEPT ![w] = "jobs"]
              /\ UNCHANGED <<faults, failed>>
           \/ /\ ctxDone \/ faults' = faults + 1
              /\ faults' \in {faults, faults + 1}
              /\ failed' = [failed EXCEPT ![w] = TRUE]
              /\ at' = [at EXCEPT ![w] = "verdict"]
              /\ UNCHANGED runRow
    BY <1>4, <2>1 DEF BeginRun, WorkerGoes, Refused, Fault
  <2>3. runRow[r] = Pending /\ AllJobs(r, Pending) /\ Held(r)'
    BY <1>0, <2>1, <2>2 DEF Working, Busy, Held
  <2>4. RunPart(r)'
    BY <1>0, <2>1, <2>2, <2>3
       DEF RunPart, Requested, Waiting, Settled, AllJobs, Accepted,
           Queued, TypeOK
  <2>5. Working(w)'
    BY <1>0, <2>1, <2>2, <2>3 DEF Working, AllJobs, Accepted, Busy, TypeOK
  <2> QED
    <3>1. /\ at[w] \in Busy /\ faults <= faults' /\ holds'[w] = r
          /\ \A v \in Workers \ {w} : /\ at'[v] = at[v] /\ holds'[v] = holds[v]
                                      /\ failed'[v] = failed[v] /\ stage'[v] = stage[v]
          /\ \A s \in Runs \ {r} : runRow'[s] = runRow[s] /\ jobRow'[s] = jobRow[s]
      BY <1>0, <2>1, <2>2 DEF TypeOK, Busy
    <3> QED
      BY <1>0, <2>1, <2>2, <2>4, <2>5, <3>1, WorkerRunFrame
<1>5. CASE LoadFails(w)
  <2>1. PICK r \in Runs : /\ holds[w] = r /\ RunPart(r) /\ Accepted(r) /\ Held(r) /\ ~Queued(r)
                          /\ handler[r] = "done"
    BY <1>1, <1>5 DEF LoadFails, Busy
  <2>2. /\ UNCHANGED <<store, downs, proc, old, ctxDone, queue, handler, reply, holds, stage>>
        /\ at[w] = "jobs"
        /\ ctxDone \/ faults' = faults + 1
        /\ faults' \in {faults, faults + 1}
        /\ failed' = [failed EXCEPT ![w] = TRUE]
        /\ at' = [at EXCEPT ![w] = "verdict"]
    BY <1>5, <2>1 DEF LoadFails, WorkerGoes, Refused, Fault, AllJobs
  <2>3. runRow[r] = Running /\ Held(r)'
    BY <1>0, <2>1, <2>2 DEF Working, Busy, Held
  <2>4. RunPart(r)'
    BY <1>0, <2>1, <2>2, <2>3
       DEF RunPart, Requested, Waiting, Settled, AllJobs, Accepted,
           Queued, TypeOK, store
  <2>5. Working(w)'
    BY <1>0, <2>1, <2>2, <2>3 DEF Working, AllJobs, Accepted, Busy, TypeOK, store
  <2> QED
    <3>1. /\ at[w] \in Busy /\ faults <= faults' /\ holds'[w] = r
          /\ \A v \in Workers \ {w} : /\ at'[v] = at[v] /\ holds'[v] = holds[v]
                                      /\ failed'[v] = failed[v] /\ stage'[v] = stage[v]
          /\ \A s \in Runs \ {r} : runRow'[s] = runRow[s] /\ jobRow'[s] = jobRow[s]
      BY <1>0, <2>1, <2>2 DEF TypeOK, Busy, store
    <3> QED
      BY <1>0, <2>1, <2>2, <2>4, <2>5, <3>1, WorkerRunFrame
<1>6. ASSUME NEW j \in Jobs, JobStep(w, j)
      PROVE  IInv'
  <2>0. at[w] = "jobs"
    BY <1>6 DEF JobStep, JobStarts, JobFailsUnstarted, JobEnds
  <2>1. PICK r \in Runs : /\ holds[w] = r /\ RunPart(r) /\ Accepted(r) /\ Held(r) /\ ~Queued(r)
                          /\ handler[r] = "done"
    BY <1>1, <2>0 DEF Busy
  <2>2. /\ UNCHANGED <<runRow, downs, proc, old, ctxDone, queue, handler, reply, at, holds, failed>>
        /\ faults' \in {faults, faults + 1}
        /\ \E s \in Status : jobRow' = [jobRow EXCEPT ![r][j] = s] \/ UNCHANGED jobRow
        /\ \E place \in Stages \ {"waiting"} : stage' = [stage EXCEPT ![w][j] = place]
    BY <1>6, <2>1 DEF JobStep, JobStarts, JobFailsUnstarted, JobEnds, WriteJob, JobGoes, Fault,
                      Status, Stages
  <2>3. runRow[r] = Running /\ Held(r)'
    BY <1>0, <2>0, <2>1, <2>2 DEF Working, Busy, Held
  <2>4. /\ \A s \in Runs \ {r} : jobRow'[s] = jobRow[s]
        /\ \A k \in Jobs \ {j} : jobRow'[r][k] = jobRow[r][k] /\ stage'[w][k] = stage[w][k]
        /\ stage'[w][j] # "waiting"
        /\ \A v \in Workers \ {w} : stage'[v] = stage[v]
    BY <1>0, <2>2 DEF TypeOK
  <2>5. RunPart(r)'
    BY <1>0, <2>1, <2>2, <2>3
       DEF RunPart, Requested, Waiting, Settled, AllJobs, Accepted, Queued, TypeOK
  <2>6. Working(w)'
    BY <1>0, <2>0, <2>1, <2>2, <2>3, <2>4 DEF Working, Accepted, Busy
  <2> QED
    <3>1. at[w] \in Busy /\ faults <= faults'
      BY <1>0, <2>0, <2>2 DEF TypeOK, Busy
    <3> QED
      BY <1>0, <2>1, <2>2, <2>4, <2>5, <2>6, <3>1, WorkerRunFrame
<1>7. CASE EndRun(w)
  <2>1. PICK r \in Runs : /\ holds[w] = r /\ RunPart(r) /\ Accepted(r) /\ Held(r) /\ ~Queued(r)
                          /\ handler[r] = "done"
    BY <1>1, <1>7 DEF EndRun, Busy
  <2>2. /\ UNCHANGED <<jobRow, downs, proc, old, ctxDone, queue, handler, reply, holds, stage>>
        /\ at[w] = "jobs"
        /\ failed' = [failed EXCEPT ![w] = ~AllSucceeded(w)]
        /\ at' = [at EXCEPT ![w] = "verdict"]
        /\ \/ /\ runRow' = [runRow EXCEPT ![r] = IF AllSucceeded(w) THEN Success ELSE Failed]
              /\ UNCHANGED faults
           \/ faults' = faults + 1 /\ UNCHANGED runRow
    BY <1>7, <2>1 DEF EndRun, WorkerGoes, WriteRun, Refused, Fault, AllJobs
  <2>3. runRow[r] = Running /\ Held(r)'
    BY <1>0, <2>1, <2>2 DEF Working, Busy, Held
  <2>4. RunPart(r)'
    BY <1>0, <2>1, <2>2, <2>3
       DEF RunPart, Requested, Waiting, Settled, AllJobs, Accepted,
           Queued, TypeOK
  <2>5. Working(w)'
    <3>0. /\ at'[w] = "verdict" /\ holds'[w] = r
          /\ failed'[w] <=> ~AllSucceeded(w)
          /\ runRow'[r] \in {Running, IF AllSucceeded(w) THEN Success ELSE Failed}
          /\ runRow'[r] = Running => faults' >= 1
      <4>1. at'[w] = "verdict" /\ holds'[w] = r
        BY <1>0, <2>1, <2>2 DEF TypeOK
      <4>2. failed'[w] = ~AllSucceeded(w)
        BY <1>0, <2>2 DEF TypeOK
      <4>3. /\ runRow'[r] \in {Running, IF AllSucceeded(w) THEN Success ELSE Failed}
            /\ runRow'[r] = Running => faults' >= 1
        BY <1>0, <2>2, <2>3 DEF TypeOK
      <4> QED
        BY <4>1, <4>2, <4>3
    <3>1. CASE AllSucceeded(w)
      BY <1>0, <2>1, <2>2, <2>3, <3>0, <3>1 DEF Working, AllSucceeded, Accepted, Busy, TypeOK
    <3>2. CASE ~AllSucceeded(w)
      BY <1>0, <2>1, <2>2, <2>3, <3>0, <3>2 DEF Working, Accepted, Busy, TypeOK
    <3> QED
      BY <3>1, <3>2
  <2> QED
    <3>1. /\ at[w] \in Busy /\ faults <= faults' /\ holds'[w] = r
          /\ \A v \in Workers \ {w} : /\ at'[v] = at[v] /\ holds'[v] = holds[v]
                                      /\ failed'[v] = failed[v] /\ stage'[v] = stage[v]
          /\ \A s \in Runs \ {r} : runRow'[s] = runRow[s] /\ jobRow'[s] = jobRow[s]
      BY <1>0, <2>1, <2>2 DEF TypeOK, Busy
    <3> QED
      BY <1>0, <2>1, <2>2, <2>4, <2>5, <3>1, WorkerRunFrame
<1>8. CASE RecordVerdict(w)
  <2>1. PICK r \in Runs : /\ holds[w] = r /\ RunPart(r) /\ Accepted(r) /\ Held(r) /\ ~Queued(r)
                          /\ handler[r] = "done"
    BY <1>1, <1>8 DEF RecordVerdict, Busy
  <2>2. /\ UNCHANGED <<jobRow, downs, proc, old, ctxDone, queue, handler, reply>>
        /\ at[w] = "verdict" /\ at' = [at EXCEPT ![w] = "idle"]
        /\ holds' = [holds EXCEPT ![w] = NoRun]
        /\ failed' = [failed EXCEPT ![w] = FALSE] /\ stage' = [stage EXCEPT ![w] = NotStarted]
        /\ \/ /\ runRow' = [runRow EXCEPT ![r] = IF failed[w] THEN Failed ELSE Success]
              /\ UNCHANGED faults
           \/ /\ ctxDone \/ faults' = faults + 1
              /\ faults' \in {faults, faults + 1}
              /\ UNCHANGED runRow
    BY <1>8, <2>1 DEF RecordVerdict, WorkerGoes, WriteRun, Refused, Fault
  <2>3. /\ runRow[r] # Absent
        /\ failed[w] => runRow[r] # Success
        /\ ~failed[w] => runRow[r] # Failed
        /\ runRow[r] \in Active /\ ~ctxDone => faults >= 1
    BY <1>0, <2>1, <2>2 DEF Working, Busy
  <2>4. RunPart(r)'
    BY <1>0, <2>1, <2>2, <2>3
       DEF RunPart, Requested, Waiting, Settled, AllJobs, Accepted,
           Queued, TypeOK
  <2>5. Working(w)'
    BY <1>0, <2>2 DEF Working, Busy, TypeOK
  <2> QED
    <3>1. /\ at[w] \in Busy /\ faults <= faults' /\ holds'[w] \in {r, NoRun}
          /\ \A v \in Workers \ {w} : /\ at'[v] = at[v] /\ holds'[v] = holds[v]
                                      /\ failed'[v] = failed[v] /\ stage'[v] = stage[v]
          /\ \A s \in Runs \ {r} : runRow'[s] = runRow[s] /\ jobRow'[s] = jobRow[s]
      BY <1>0, <2>2 DEF TypeOK, Busy
    <3> QED
      BY <1>0, <2>1, <2>2, <2>4, <2>5, <3>1, WorkerRunFrame
<1> QED
  BY <1>2, <1>3, <1>4, <1>5, <1>6, <1>7, <1>8 DEF WorkerStep

-----------------------------------------------------------------------------
(* The process.                                                            *)

LEMMA ProcFrame ==
  ASSUME IInv, TypeOK',
         UNCHANGED <<store, old, queue, handler, at, holds, failed, stage, reply>>,
         ctxDone => ctxDone', faults <= faults', CleanBoot', Recovered', Uncancelled'
  PROVE  IInv'
<1>0. TypeOK
  BY DEF IInv
<1>1. GoesOn
  BY <1>0 DEF GoesOn, TypeOK
<1>2. ASSUME NEW r \in Runs PROVE RunPart(r)'
  <2>1. Untouched(r)
    BY DEF Untouched, Queued, Held, store
  <2> QED
    BY <1>1, <2>1, RunFrame DEF IInv
<1>3. ASSUME NEW w \in Workers PROVE Working(w)'
  BY <1>1, WorkerFrame DEF IInv, store
<1>4. QueueDistinct' /\ HoldsDistinct'
  BY DEF IInv, QueueDistinct, HoldsDistinct
<1> QED
  BY <1>2, <1>3, <1>4 DEF IInv

LEMMA StartKeeps ==
  ASSUME IInv, TypeOK', Start
  PROVE  IInv'
<1> USE DEF Pending, Running, Success, Failed, Absent, Active
<1>0. TypeOK /\ NoRun \notin Runs
  BY SetsAssumption DEF IInv
<1>1. /\ proc' = "select" /\ queue' = <<>> /\ ~ctxDone' /\ UNCHANGED <<store, faults, downs, reply>>
      /\ \A w \in Workers : holds'[w] = NoRun /\ at'[w] = "idle" /\ stage'[w] = NotStarted
      /\ \A r \in Runs : ~Queued(r)' /\ ~Held(r)' /\ (r \in old' <=> runRow[r] # Absent)
  BY <1>0 DEF Start, Queued, Held
<1>2. \A r \in Runs : handler'[r] = IF InFlight(r) THEN "done" ELSE handler[r]
  BY DEF Start
<1>3. ASSUME NEW r \in Runs PROVE RunPart(r)'
  <2>1. Requested(r)
    BY DEF IInv, RunPart
  <2>2. Requested(r)'
    BY <1>0, <1>1, <1>2, <2>1 DEF Requested, AllJobs, InFlight, store, TypeOK, HandlerStates
  <2>3. Waiting(r)' /\ Settled(r)'
    BY <1>1 DEF Waiting, Settled, Accepted, store
  <2> QED
    BY <2>2, <2>3 DEF RunPart
<1>4. \A w \in Workers : Working(w)'
  BY <1>1 DEF Working, Busy
<1>5. QueueDistinct' /\ HoldsDistinct'
  BY <1>0, <1>1 DEF QueueDistinct, HoldsDistinct
<1>6. CleanBoot'
  BY <1>0, <1>1, <1>2 DEF CleanBoot, InFlight, store
<1>7. Recovered' /\ Uncancelled'
  BY <1>1 DEF Recovered, Up, Uncancelled, Booting
<1> QED
  BY <1>3, <1>4, <1>5, <1>6, <1>7 DEF IInv

LEMMA RecoverKeeps ==
  ASSUME IInv, TypeOK', Recover
  PROVE  IInv'
<1> USE DEF Pending, Running, Success, Failed, Absent, Active, Terminal
<1>0. TypeOK /\ NoRun \notin Runs /\ CleanBoot
  BY SetsAssumption DEF IInv
<1>1. Booting /\ faults <= faults' /\ faults \in Nat /\ faults' \in Nat
  BY <1>0 DEF Recover, SelectGhosts, ResetRuns, ResetJobs, Booting, Fault, TypeOK
<1>2. /\ queue = <<>> /\ \A w \in Workers : holds[w] = NoRun /\ at[w] \notin Busy
      /\ \A r \in Runs : /\ ~InFlight(r) /\ (r \notin old => runRow[r] = Absent)
                         /\ ~Queued(r) /\ ~Held(r)
  BY <1>0, <1>1 DEF CleanBoot, Queued, Held, TypeOK, Busy
<1>3. UNCHANGED <<downs, old, volatile, reply>>
  BY DEF Recover, SelectGhosts, ResetRuns, ResetJobs, volatile
<1>4. proc' \in {"resetRuns", "resetJobs", "serving"}
  BY DEF Recover, SelectGhosts, ResetRuns, ResetJobs
<1>5. \A r \in Runs : /\ ~Queued(r)' /\ ~Held(r)'
                      /\ \A s \in {runRow'[r]} : s = runRow[r] \/ (runRow[r] \in Active /\ s = Failed)
                      /\ \A j \in Jobs : \/ jobRow'[r][j] = jobRow[r][j]
                                         \/ jobRow[r][j] \in Active /\ jobRow'[r][j] = Failed
  BY <1>0, <1>2, <1>3 DEF Recover, SelectGhosts, ResetRuns, ResetJobs, store, volatile, Queued,
                          Held, TypeOK
<1>6. ASSUME NEW r \in Runs PROVE RunPart(r)'
  <2>1. Requested(r)
    BY DEF IInv, RunPart
  <2>2. Requested(r)'
    <3>1. /\ handler'[r] = handler[r] /\ reply'[r] = reply[r] /\ old' = old
          /\ handler[r] \in {"idle", "done"}
      BY <1>0, <1>2, <1>3 DEF InFlight, volatile, TypeOK, HandlerStates
    <3>2. /\ runRow'[r] = runRow[r] \/ (runRow[r] \in Active /\ runRow'[r] = Failed)
          /\ \A j \in Jobs : jobRow[r][j] = Absent => jobRow'[r][j] = Absent
      BY <1>5
    <3> QED
      BY <2>1, <3>1, <3>2 DEF Requested, AllJobs
  <2>3. Waiting(r)' /\ Settled(r)'
    BY <1>2, <1>3, <1>5 DEF Waiting, Settled, Accepted
  <2> QED
    BY <2>2, <2>3 DEF RunPart
<1>7. \A w \in Workers : Working(w)'
  <2>1. \A w \in Workers : Working(w)
    BY DEF IInv
  <2> QED
    BY <1>2, <1>3, <2>1 DEF Working, Busy, volatile
<1>8. QueueDistinct' /\ HoldsDistinct' /\ Uncancelled'
  <2>1. QueueDistinct' /\ HoldsDistinct'
    BY <1>3 DEF IInv, QueueDistinct, HoldsDistinct, volatile
  <2>2. ~ctxDone
    BY <1>1 DEF IInv, Uncancelled
  <2> QED
    BY <1>3, <2>1, <2>2 DEF Uncancelled, volatile
<1>9. CleanBoot'
  BY <1>2, <1>3, <1>5 DEF CleanBoot, InFlight, volatile
<1>10. Recovered'
  <2>1. CASE SelectGhosts
    BY <1>0, <1>3, <2>1 DEF SelectGhosts, Fault, Recovered, Up, store, IInv, RunPart, Requested, TypeOK, Status
  <2>2. CASE ResetRuns
    BY <1>0, <1>3, <2>2 DEF ResetRuns, Fault, Recovered, Up, IInv, RunPart, Requested, TypeOK, Status
  <2>3. CASE ResetJobs
    BY <1>0, <1>3, <2>3 DEF ResetJobs, Fault, Recovered, Up, IInv, TypeOK
  <2> QED
    BY <2>1, <2>2, <2>3 DEF Recover
<1> QED
  BY <1>6, <1>7, <1>8, <1>9, <1>10 DEF IInv

LEMMA ProcessKeeps ==
  ASSUME IInv, TypeOK', Terminate \/ StopPool \/ Exit \/ Crash
  PROVE  IInv'
<1>0. TypeOK
  BY DEF IInv
<1>1. CASE Terminate
  <2>1. CleanBoot' /\ Recovered' /\ Uncancelled'
    BY <1>1 DEF Terminate, IInv, CleanBoot, Booting, Recovered, Up, Uncancelled, store, volatile
  <2> QED
    BY <1>0, <1>1, <2>1, ProcFrame DEF Terminate, volatile, TypeOK
<1>2. CASE StopPool
  <2>1. CleanBoot' /\ Recovered' /\ Uncancelled'
    BY <1>2 DEF StopPool, IInv, CleanBoot, Booting, Recovered, Up, Uncancelled, store
  <2> QED
    BY <1>0, <1>2, <2>1, ProcFrame DEF StopPool, TypeOK
<1>3. CASE Exit \/ Crash
  <2>1. proc' = "down" /\ UNCHANGED <<store, faults, old, volatile, reply>>
    BY <1>3 DEF Exit, Crash
  <2>2. CleanBoot' /\ Recovered' /\ Uncancelled'
    BY <2>1 DEF CleanBoot, Booting, Recovered, Up, Uncancelled
  <2> QED
    BY <1>0, <2>1, <2>2, ProcFrame DEF volatile, TypeOK
<1> QED
  BY <1>1, <1>2, <1>3

LEMMA InitialState == Init => IInv
<1> SUFFICES ASSUME Init PROVE IInv
  OBVIOUS
<1> USE DEF Pending, Running, Success, Failed, Absent
<1>0. NoRun \notin Runs
  BY SetsAssumption
<1>1. TypeOK
  <2>1. /\ queue \in Seq(Runs) /\ Len(queue) <= QueueSize
        /\ faults \in 0..MaxFaults /\ downs \in Nat
    BY BoundsAssumption DEF Init
  <2>2. \A w \in Workers : holds[w] = NoRun /\ at[w] = "idle"
    BY DEF Init
  <2> QED
    BY <1>0, <2>1, <2>2 DEF Init, TypeOK, Stages, NotStarted, Status, ProcStates, HandlerStates
<1>2. ASSUME NEW r \in Runs PROVE RunPart(r)
  <2>1. ~Queued(r) /\ ~Held(r)
    BY <1>0 DEF Init, Queued, Held
  <2> QED
    BY <2>1 DEF Init, RunPart, Requested, Waiting, Settled,
                AllJobs, Accepted
<1>3. \A w \in Workers : Working(w)
  BY DEF Init, Working, Busy
<1>4. QueueDistinct /\ HoldsDistinct
  BY <1>0 DEF Init, QueueDistinct, HoldsDistinct
<1>5. CleanBoot /\ Recovered /\ Uncancelled
  BY DEF Init, CleanBoot, Booting, Recovered, Up, Uncancelled
<1> QED
  BY <1>1, <1>2, <1>3, <1>4, <1>5 DEF IInv

LEMMA Step ==
  ASSUME IInv, [Next]_vars
  PROVE  IInv'
<1>1. TypeOK'
  BY TypeStep DEF IInv
<1>2. CASE UNCHANGED vars
  <2>1. CleanBoot' /\ Recovered' /\ Uncancelled'
    BY <1>2 DEF IInv, CleanBoot, Booting, InFlight, Recovered, Up, Uncancelled, vars, store, volatile
  <2> QED
    BY <1>1, <1>2, <2>1, ProcFrame DEF IInv, TypeOK, vars, volatile
<1>3. CASE Next
  BY <1>1, <1>3, StartKeeps, RecoverKeeps, ProcessKeeps, HandlerKeeps, WorkerKeeps DEF Next
<1> QED
  BY <1>2, <1>3

LEMMA Inductive == Spec => []IInv
<1>1. IInv /\ [Next]_vars => IInv'
  BY Step
<1> QED
  BY <1>1, InitialState, PTL DEF Spec

-----------------------------------------------------------------------------
(* The theorems.                                                           *)

\* The variables keep their types: in particular the queue never exceeds its
\* capacity and a worker holds a run exactly while it is busy (pool.go:40-91).
THEOREM TypeCorrect == Spec => []TypeOK
<1>1. IInv => TypeOK
  BY DEF IInv
<1> QED
  BY <1>1, Inductive, PTL

\* An accepted run is in exactly one place, in the queue or with one worker,
\* and a refused run is never executed (handler.go:178-234, pool.go:40-91).
THEOREM OwnedOnce == Spec => []OneOwner
<1>1. ASSUME IInv PROVE OneOwner
  <2>0. TypeOK /\ QueueDistinct /\ HoldsDistinct
    BY <1>1 DEF IInv
  <2>1. ASSUME NEW r \in Runs, Held(r) PROVE reply[r] = "202"
    BY <1>1, <2>0, <2>1 DEF IInv, Held, Working, Accepted, TypeOK, Busy
  <2>2. ASSUME NEW r \in Runs
        PROVE  /\ Queued(r) => ~Held(r) /\ reply[r] = "202"
               /\ reply[r] \in {"429", "500", "503"} => runRow[r] \notin {Running, Success}
    BY <1>1 DEF IInv, RunPart, Waiting, Accepted, Requested
  <2> QED
    BY <2>0, <2>1, <2>2 DEF OneOwner, QueueDistinct, HoldsDistinct
<1> QED
  BY <1>1, Inductive, PTL

\* No accepted run is lost while the daemon serves: with fewer than two failed
\* writes every active run has somebody who will end it, or was refused
\* (handler.go:203-234, pool.go:66-91).
THEOREM NoRunIsLost == Spec => []ActiveRunsOwned
<1>1. ASSUME IInv PROVE ActiveRunsOwned
  <2> SUFFICES ASSUME proc \in {"serving", "draining"}, faults < 2, NEW r \in Runs,
                      runRow[r] \in Active, r \in old => faults = 0
               PROVE  InFlight(r) \/ Queued(r) \/ Held(r) \/ reply[r] \in {"500", "503"}
    BY DEF ActiveRunsOwned
  <2>0. /\ TypeOK /\ ~ctxDone /\ Requested(r) /\ Settled(r)
        /\ r \notin old
    <3>1. r \in old => runRow[r] \in Terminal
      BY <1>1 DEF IInv, Recovered, Up
    <3> QED
      BY <1>1, <3>1
         DEF IInv, Uncancelled, RunPart, Active, Terminal, Pending, Running, Success, Failed
  <2>1. runRow[r] # Absent
    BY DEF Active, Pending, Running, Absent
  <2>2. CASE handler[r] # "done"
    BY <2>0, <2>1, <2>2 DEF Requested, InFlight, TypeOK, HandlerStates
  <2>3. CASE reply[r] = "202"
    BY <2>0, <2>3 DEF Settled, Accepted, TypeOK
  <2>4. CASE handler[r] = "done" /\ reply[r] = "429"
    BY <2>0, <2>1, <2>4 DEF Requested
  <2> QED
    BY <2>0, <2>1, <2>2, <2>3, <2>4 DEF Requested, TypeOK
<1> QED
  BY <1>1, Inductive, PTL

\* Recovery settles every run an earlier process left behind, however that
\* process ended (store.go:520-548).
THEOREM RecoverySettles == Spec => []RecoveredRunsSettled
<1>1. IInv => RecoveredRunsSettled
  BY DEF IInv, Recovered, RecoveredRunsSettled
<1> QED
  BY <1>1, Inductive, PTL

LEMMA RowsMoveForward ==
  ASSUME IInv, [Next]_vars, NEW r \in Runs, runRow'[r] # runRow[r]
  PROVE  /\ runRow[r] \notin Terminal
         /\ runRow'[r] = Running => runRow[r] = Pending /\ r \notin old
<1> USE DEF Pending, Running, Success, Failed, Absent, Active, Terminal
<1>0. TypeOK /\ Requested(r)
  BY DEF IInv, RunPart
<1>1. CASE Recover
  BY <1>0, <1>1 DEF Recover, SelectGhosts, ResetRuns, ResetJobs, store, TypeOK
<1>2. ASSUME NEW s \in Runs, Receive(s) \/ HandlerStep(s)
      PROVE  s = r /\ runRow[r] = Absent /\ runRow'[r] = Pending
  BY <1>0, <1>2 DEF Receive, HandlerStep, CreateRun, CreateRunJob, Enqueue, Requested, store, TypeOK
<1>3. ASSUME NEW w \in Workers, WorkerStep(w)
      PROVE  /\ runRow[r] \notin Terminal
             /\ runRow'[r] = Running => runRow[r] = Pending /\ r \notin old
  <2>0. Working(w)
    BY DEF IInv
  <2>1. CASE BeginRun(w)
    BY <1>0, <2>0, <2>1 DEF BeginRun, Working, Accepted, Busy, TypeOK
  <2>2. CASE EndRun(w)
    BY <1>0, <2>0, <2>2 DEF EndRun, WriteRun, Working, Busy, TypeOK
  <2>3. CASE RecordVerdict(w)
    BY <1>0, <2>0, <2>3 DEF RecordVerdict, WriteRun, Working, Busy, TypeOK, Status
  <2>4. ~(Dequeue(w) \/ WorkerExits(w) \/ LoadFails(w) \/ \E j \in Jobs : JobStep(w, j))
    BY DEF Dequeue, WorkerExits, LoadFails, JobStep, JobStarts, JobFailsUnstarted, JobEnds, store
  <2> QED
    BY <1>3, <2>1, <2>2, <2>3, <2>4 DEF WorkerStep
<1>4. ~(Start \/ Terminate \/ StopPool \/ Exit \/ Crash \/ UNCHANGED vars)
  BY DEF Start, Terminate, StopPool, Exit, Crash, vars, store
<1> QED
  BY <1>1, <1>2, <1>3, <1>4 DEF Next

\* A run reported as ended stays as it was reported, through the worker's
\* second write, shutdowns, crashes and recoveries (store.go:260-267).
THEOREM TerminalStays == Spec => TerminalIsForever
<1>1. IInv /\ [Next]_vars => [\A r \in Runs : runRow[r] \in Terminal => runRow'[r] = runRow[r]]_runRow
  BY RowsMoveForward
<1> QED
  BY <1>1, Inductive, PTL DEF Spec, TerminalIsForever

\* A run is started at most once, and only by the process that accepted it
\* (queue.go:28-44, pool.go:66-72).
THEOREM StartedOnce == Spec => StartsOnce
<1>1. IInv /\ [Next]_vars => [\A r \in Runs : runRow'[r] = Running /\ runRow[r] # Running
                                => runRow[r] = Pending /\ r \notin old]_runRow
  BY RowsMoveForward
<1> QED
  BY <1>1, Inductive, PTL DEF Spec, StartsOnce
-----------------------------------------------------------------------------
(* Lost writes of job rows.                                                *)
(*                                                                         *)
(* A job row is wrong when its run, or the worker that has it, takes the   *)
(* job for a success and the row does not say so; it is stray when it says *)
(* running and no worker runs the job.  A step adds at most one such row,  *)
(* and only by a store call that fails.                                    *)

WrongRow(r, j) ==
  /\ jobRow[r][j] # Success
  /\ \/ runRow[r] = Success
     \/ \E w \in Workers : holds[w] = r /\ stage[w][j] = "succeeded"

StrayRow(r, j) ==
  /\ r \notin old /\ jobRow[r][j] = Running
  /\ ~\E w \in Workers : holds[w] = r /\ at[w] = "jobs" /\ stage[w][j] = "running"

WrongRows == {rj \in Runs \X Jobs : WrongRow(rj[1], rj[2])}
StrayRows == {rj \in Runs \X Jobs : StrayRow(rj[1], rj[2])}

Counted == Cardinality(WrongRows) <= faults /\ Cardinality(StrayRows) <= faults

\* No row becomes wrong or stray.
NoneAdded ==
  \A r \in Runs, j \in Jobs : /\ WrongRow(r, j)' => WrongRow(r, j)
                              /\ StrayRow(r, j)' => StrayRow(r, j)

LEMMA Pairs == IsFiniteSet(Runs \X Jobs)
<1>1. IsFiniteSet(Runs) /\ IsFiniteSet(Jobs)
  BY SetsAssumption
<1> QED
  BY <1>1, FS_Product

LEMMA Grows ==
  ASSUME NEW S \in SUBSET (Runs \X Jobs), NEW T \in SUBSET (Runs \X Jobs),
         NEW m \in Nat, NEW n \in Nat, Cardinality(S) <= m,
         \/ T \subseteq S /\ m <= n
         \/ n = m + 1 /\ \E x : T \subseteq S \cup {x}
  PROVE  Cardinality(T) <= n
<1>1. IsFiniteSet(S) /\ IsFiniteSet(T) /\ Cardinality(S) \in Nat /\ Cardinality(T) \in Nat
  <2>1. IsFiniteSet(S) /\ IsFiniteSet(T)
    BY Pairs, FS_Subset
  <2> QED
    BY <2>1, FS_CardinalityType
<1>2. CASE T \subseteq S /\ m <= n
  <2>1. Cardinality(T) <= Cardinality(S)
    BY <1>1, <1>2, FS_Subset
  <2> QED
    BY <1>1, <1>2, <2>1
<1>3. CASE n = m + 1 /\ \E x : T \subseteq S \cup {x}
  <2>1. PICK x : T \subseteq S \cup {x}
    BY <1>3
  <2>2. IsFiniteSet(S \cup {x}) /\ Cardinality(S \cup {x}) <= Cardinality(S) + 1
    BY <1>1, FS_AddElement
  <2>3. Cardinality(S \cup {x}) \in Nat
    BY <2>2, FS_CardinalityType
  <2>4. Cardinality(T) <= Cardinality(S \cup {x})
    BY <2>1, <2>2, FS_Subset
  <2> QED
    BY <1>1, <1>3, <2>2, <2>3, <2>4
<1> QED
  BY <1>2, <1>3

\* What a step that moves no job does to the rows of jobs.
LEMMA OthersAddNone ==
  ASSUME IInv, TypeOK', [Next]_vars, \A w \in Workers, j \in Jobs : ~JobStep(w, j)
  PROVE  NoneAdded
<1> USE DEF Pending, Running, Success, Failed, Absent, Active, Terminal
<1>0. TypeOK /\ NoRun \notin Runs
  BY SetsAssumption DEF IInv
<1>1. CASE UNCHANGED vars \/ Terminate \/ StopPool \/ Exit \/ Crash
  BY <1>1 DEF vars, Terminate, StopPool, Exit, Crash, store, volatile, NoneAdded, WrongRow, StrayRow
<1>2. CASE Start
  <2>1. /\ \A w \in Workers : holds'[w] = NoRun
        /\ \A r \in Runs : r \notin old' => runRow[r] = Absent
        /\ UNCHANGED store
    BY <1>2 DEF Start
  <2>2. \A r \in Runs : runRow[r] = Absent => \A j \in Jobs : jobRow[r][j] = Absent
    BY DEF IInv, RunPart, Requested, AllJobs
  <2> QED
    BY <1>0, <2>1, <2>2 DEF NoneAdded, WrongRow, StrayRow, store
<1>3. CASE Recover
  <2>1. UNCHANGED <<old, at, holds, stage>>
    BY <1>3 DEF Recover, SelectGhosts, ResetRuns, ResetJobs, volatile
  <2>2. \A r \in Runs : runRow'[r] = Success => runRow[r] = Success
    BY <1>0, <1>3 DEF Recover, SelectGhosts, ResetRuns, ResetJobs, store, TypeOK
  <2>3. \A r \in Runs, j \in Jobs : /\ jobRow'[r][j] # Success => jobRow[r][j] # Success
                                    /\ jobRow'[r][j] = Running => jobRow[r][j] = Running
    BY <1>0, <1>3 DEF Recover, SelectGhosts, ResetRuns, ResetJobs, store, TypeOK
  <2>4. ASSUME NEW r \in Runs, NEW j \in Jobs
        PROVE  (WrongRow(r, j)' => WrongRow(r, j)) /\ (StrayRow(r, j)' => StrayRow(r, j))
    <3>1. /\ runRow'[r] = Success => runRow[r] = Success
          /\ jobRow'[r][j] # Success => jobRow[r][j] # Success
          /\ jobRow'[r][j] = Running => jobRow[r][j] = Running
      BY ONLY <2>2, <2>3, r \in Runs, j \in Jobs
    <3> QED
      BY ONLY <2>1, <3>1 DEF WrongRow, StrayRow
  <2> QED
    BY <2>4 DEF NoneAdded
<1>4. ASSUME NEW s \in Runs, Receive(s) \/ HandlerStep(s)
      PROVE  NoneAdded
  <2>1. UNCHANGED <<old, at, holds, stage>>
    BY <1>4 DEF Receive, HandlerStep, CreateRun, CreateRunJob, Enqueue
  <2>2. \A r \in Runs : runRow'[r] = Success => runRow[r] = Success
    BY <1>0, <1>4 DEF Receive, HandlerStep, CreateRun, CreateRunJob, Enqueue, store, TypeOK
  <2>3. \A r \in Runs, j \in Jobs : /\ jobRow'[r][j] # Success => jobRow[r][j] # Success
                                    /\ jobRow'[r][j] = Running => jobRow[r][j] = Running
    <3>1. CASE UNCHANGED jobRow
      BY <3>1
    <3>2. ASSUME NEW k \in Jobs, jobRow[s][k] = Absent,
                 jobRow' = [jobRow EXCEPT ![s][k] = Pending]
          PROVE  \A r \in Runs, j \in Jobs :
                   /\ jobRow'[r][j] # Success => jobRow[r][j] # Success
                   /\ jobRow'[r][j] = Running => jobRow[r][j] = Running
      BY <1>0, <3>2 DEF TypeOK
    <3> QED
      BY <1>4, <3>1, <3>2 DEF Receive, HandlerStep, CreateRun, CreateRunJob, Enqueue, store
  <2>4. ASSUME NEW r \in Runs, NEW j \in Jobs
        PROVE  (WrongRow(r, j)' => WrongRow(r, j)) /\ (StrayRow(r, j)' => StrayRow(r, j))
    <3>1. /\ runRow'[r] = Success => runRow[r] = Success
          /\ jobRow'[r][j] # Success => jobRow[r][j] # Success
          /\ jobRow'[r][j] = Running => jobRow[r][j] = Running
      BY ONLY <2>2, <2>3, r \in Runs, j \in Jobs
    <3> QED
      BY ONLY <2>1, <3>1 DEF WrongRow, StrayRow
  <2> QED
    BY <2>4 DEF NoneAdded
<1>5. ASSUME NEW w \in Workers, WorkerStep(w)
      PROVE  NoneAdded
  <2>0. Working(w) /\ HoldsDistinct
    BY DEF IInv
  <2>1. UNCHANGED <<old, jobRow>>
    BY <1>5 DEF WorkerStep, Dequeue, WorkerExits, BeginRun, LoadFails, EndRun, RecordVerdict, store
  <2>2. CASE Dequeue(w)
    <3>1. /\ UNCHANGED <<runRow, stage>> /\ holds[w] \notin Runs
          /\ stage[w] = NotStarted /\ at[w] # "jobs"
          /\ \A v \in Workers \ {w} : holds'[v] = holds[v] /\ at'[v] = at[v]
      BY <1>0, <2>0, <2>2 DEF Dequeue, WorkerGoes, Working, store, TypeOK
    <3>2. \A j \in Jobs : stage[w][j] = "waiting"
      BY <3>1 DEF NotStarted
    <3> QED
      BY <2>1, <3>1, <3>2 DEF NoneAdded, WrongRow, StrayRow
  <2>3. CASE WorkerExits(w)
    BY <1>0, <2>1, <2>3 DEF WorkerExits, WorkerGoes, NoneAdded, WrongRow, StrayRow, store, TypeOK
  <2>4. CASE BeginRun(w)
    <3>1. /\ UNCHANGED <<holds, stage>> /\ at[w] # "jobs"
          /\ \A v \in Workers \ {w} : at'[v] = at[v]
          /\ \A r \in Runs : runRow'[r] = Success => runRow[r] = Success
      BY <1>0, <2>4 DEF BeginRun, WorkerGoes, TypeOK
    <3> QED
      BY <2>1, <3>1 DEF NoneAdded, WrongRow, StrayRow
  <2>5. CASE LoadFails(w)
    <3>1. /\ UNCHANGED <<runRow, holds, stage>>
          /\ \A v \in Workers \ {w} : at'[v] = at[v]
          /\ \A j \in Jobs : stage[w][j] = "waiting"
      BY <1>0, <2>5 DEF LoadFails, WorkerGoes, NotStarted, store, TypeOK
    <3> QED
      BY <2>1, <3>1 DEF NoneAdded, WrongRow, StrayRow
  <2>6. CASE EndRun(w)
    <3>1. /\ UNCHANGED <<holds, stage>>
          /\ \A v \in Workers \ {w} : at'[v] = at[v]
          /\ \A j \in Jobs : stage[w][j] # "running"
      BY <1>0, <2>6 DEF EndRun, WorkerGoes, TypeOK
    <3>2. \A r \in Runs : runRow'[r] = Success /\ runRow[r] # Success
                           => holds[w] = r /\ \A j \in Jobs : stage[w][j] = "succeeded"
      BY <1>0, <2>6 DEF EndRun, WriteRun, AllSucceeded, TypeOK
    <3> QED
      BY <2>1, <3>1, <3>2 DEF NoneAdded, WrongRow, StrayRow
  <2>7. CASE RecordVerdict(w)
    <3>1. /\ at[w] = "verdict"
          /\ \A v \in Workers \ {w} : /\ at'[v] = at[v] /\ holds'[v] = holds[v]
                                      /\ stage'[v] = stage[v]
          /\ holds'[w] = NoRun
      BY <1>0, <2>7 DEF RecordVerdict, WorkerGoes, TypeOK
    <3>2. \A r \in Runs : runRow'[r] = Success /\ runRow[r] # Success
                           => holds[w] = r /\ \A j \in Jobs : stage[w][j] = "succeeded"
      BY <1>0, <2>0, <2>7 DEF RecordVerdict, WriteRun, AllSucceeded, Working, Busy, TypeOK
    <3> QED
      BY <1>0, <2>1, <3>1, <3>2 DEF NoneAdded, WrongRow, StrayRow
  <2> QED
    BY <1>5, <2>2, <2>3, <2>4, <2>5, <2>6, <2>7 DEF WorkerStep
<1> QED
  BY <1>1, <1>2, <1>3, <1>4, <1>5 DEF Next

\* A step of a job makes no row wrong or stray but its own, and its own only
\* when the write fails.
LEMMA JobAddsItsOwn ==
  ASSUME IInv, TypeOK', NEW w \in Workers, NEW j \in Jobs, JobStep(w, j)
  PROVE  \E r \in Runs :
           /\ \A s \in Runs, k \in Jobs : <<s, k>> # <<r, j>> =>
                (WrongRow(s, k)' => WrongRow(s, k)) /\ (StrayRow(s, k)' => StrayRow(s, k))
           /\ \/ faults' = faults + 1
              \/ faults' = faults /\ ~WrongRow(r, j)' /\ ~StrayRow(r, j)'
<1> USE DEF Pending, Running, Success, Failed, Absent, Active, Terminal
<1>0. TypeOK /\ Working(w) /\ HoldsDistinct
  BY DEF IInv
<1>1. /\ at[w] = "jobs" /\ UNCHANGED <<runRow, old, at, holds>> /\ stage[w][j] \in {"waiting", "running"}
  BY DEF JobStep, JobStarts, JobFailsUnstarted, JobEnds
<1>2. PICK r \in Runs : holds[w] = r
  BY <1>0, <1>1 DEF TypeOK
<1>3. runRow[r] = Running
  BY <1>0, <1>1, <1>2 DEF Working, Busy
<1>4. /\ \A v \in Workers \ {w} : stage'[v] = stage[v] /\ holds[v] # r
      /\ \A k \in Jobs \ {j} : stage'[w][k] = stage[w][k]
      /\ \A s \in Runs \ {r} : jobRow'[s] = jobRow[s]
      /\ \A k \in Jobs \ {j} : jobRow'[r][k] = jobRow[r][k]
  <2>1. \A v \in Workers \ {w} : holds[v] # r
    BY <1>0, <1>2 DEF HoldsDistinct
  <2>2. /\ \E place \in Stages : stage' = [stage EXCEPT ![w][j] = place]
        /\ \E s \in Status : jobRow' = [jobRow EXCEPT ![r][j] = s] \/ UNCHANGED jobRow
    BY <1>2 DEF JobStep, JobStarts, JobFailsUnstarted, JobEnds, WriteJob, JobGoes, Status, Stages
  <2> QED
    BY <1>0, <2>1, <2>2 DEF TypeOK
<1>5. ASSUME NEW s \in Runs, NEW k \in Jobs, <<s, k>> # <<r, j>>
      PROVE  (WrongRow(s, k)' => WrongRow(s, k)) /\ (StrayRow(s, k)' => StrayRow(s, k))
  <2>1. jobRow'[s][k] = jobRow[s][k]
    BY <1>4, <1>5
  <2>2. \A v \in Workers : holds[v] = s => stage'[v][k] = stage[v][k]
    BY <1>2, <1>4, <1>5
  <2> QED
    BY <1>1, <2>1, <2>2 DEF WrongRow, StrayRow
<1>6. \/ faults' = faults + 1
      \/ faults' = faults /\ ~WrongRow(r, j)' /\ ~StrayRow(r, j)'
  <2>1. CASE faults' = faults + 1
    BY <2>1
  <2>2. ASSUME NEW s \in Status, faults' = faults, jobRow' = [jobRow EXCEPT ![r][j] = s],
               s = Success <=> stage'[w][j] = "succeeded",
               s = Running <=> stage'[w][j] = "running"
        PROVE  ~WrongRow(r, j)' /\ ~StrayRow(r, j)'
    <3>1. jobRow'[r][j] = s
      BY <1>0, <2>2 DEF TypeOK
    <3>2. \A v \in Workers : holds'[v] = r => v = w
      BY <1>1, <1>4
    <3> QED
      BY <1>1, <1>2, <1>3, <2>2, <3>1, <3>2 DEF WrongRow, StrayRow
  <2>3. CASE JobStarts(w, j)
    BY <1>0, <1>2, <2>1, <2>2, <2>3 DEF JobStarts, WriteJob, Fault, JobGoes, Status, TypeOK
  <2>4. CASE JobFailsUnstarted(w, j)
    BY <1>0, <1>2, <2>1, <2>2, <2>4 DEF JobFailsUnstarted, WriteJob, Fault, JobGoes, Status, TypeOK
  <2>5. CASE JobEnds(w, j)
    BY <1>0, <1>2, <2>1, <2>2, <2>5 DEF JobEnds, WriteJob, Fault, JobGoes, Status, TypeOK
  <2> QED
    BY <2>3, <2>4, <2>5 DEF JobStep
<1> QED
  BY ONLY <1>5, <1>6, r \in Runs

LEMMA CountStep ==
  ASSUME IInv, Counted, [Next]_vars
  PROVE  Counted'
<1>0. TypeOK' /\ faults \in Nat /\ faults' \in Nat
  BY Step, BoundsAssumption DEF IInv, TypeOK
<1>1. /\ WrongRows \in SUBSET (Runs \X Jobs) /\ WrongRows' \in SUBSET (Runs \X Jobs)
      /\ StrayRows \in SUBSET (Runs \X Jobs) /\ StrayRows' \in SUBSET (Runs \X Jobs)
  BY DEF WrongRows, StrayRows
<1>2. CASE \A w \in Workers, j \in Jobs : ~JobStep(w, j)
  <2>0. NoneAdded
    BY <1>0, <1>2, OthersAddNone
  <2>1. WrongRows' \subseteq WrongRows /\ StrayRows' \subseteq StrayRows
    BY ONLY <2>0 DEF NoneAdded, WrongRows, StrayRows, WrongRow, StrayRow
  <2>2. faults <= faults'
    BY <1>0, <1>2 DEF Next, vars, Start, Recover, SelectGhosts, ResetRuns, ResetJobs, Terminate,
          StopPool, Exit, Crash, Receive, HandlerStep, CreateRun, CreateRunJob, Enqueue, WorkerStep,
          Dequeue, WorkerExits, BeginRun, LoadFails, EndRun, RecordVerdict, WriteRun, Refused, Fault
  <2> QED
    BY <1>0, <1>1, <2>1, <2>2, Grows DEF Counted
<1>3. ASSUME NEW w \in Workers, NEW j \in Jobs, JobStep(w, j)
      PROVE  Counted'
  <2>0. PICK r \in Runs :
          /\ \A s \in Runs, k \in Jobs : <<s, k>> # <<r, j>> =>
               (WrongRow(s, k)' => WrongRow(s, k)) /\ (StrayRow(s, k)' => StrayRow(s, k))
          /\ \/ faults' = faults + 1
             \/ faults' = faults /\ ~WrongRow(r, j)' /\ ~StrayRow(r, j)'
    BY <1>0, <1>3, JobAddsItsOwn
  <2> DEFINE x == <<r, j>>
  <2>1. WrongRows' \subseteq WrongRows \cup {x} /\ StrayRows' \subseteq StrayRows \cup {x}
    BY ONLY <2>0 DEF WrongRows, StrayRows, WrongRow, StrayRow
  <2>2. CASE faults' = faults + 1
    BY <1>0, <1>1, <2>1, <2>2, Grows DEF Counted
  <2>3. CASE faults' = faults /\ ~WrongRow(r, j)' /\ ~StrayRow(r, j)'
    <3>0. x[1] = r /\ x[2] = j
      OBVIOUS
    <3>1. x \notin WrongRows' /\ x \notin StrayRows'
      <4> HIDE DEF x
      <4> QED
        BY ONLY <2>3, <3>0 DEF WrongRows, StrayRows, WrongRow, StrayRow
    <3>2. WrongRows' \subseteq WrongRows /\ StrayRows' \subseteq StrayRows
      BY ONLY <2>1, <3>1
    <3> QED
      BY <1>0, <1>1, <2>3, <3>2, Grows DEF Counted
  <2> QED
    BY <2>0, <2>2, <2>3
<1> QED
  BY <1>2, <1>3

LEMMA AlwaysCounted == Spec => [](IInv /\ Counted)
<1>1. Init => Counted
  <2> SUFFICES ASSUME Init PROVE Counted
    OBVIOUS
  <2>1. WrongRows = {} /\ StrayRows = {}
    BY SetsAssumption DEF Init, WrongRows, WrongRow, StrayRows, StrayRow, Absent, Success, Running
  <2> QED
    BY <2>1, FS_EmptySet DEF Init, Counted
<1>2. IInv /\ Counted /\ [Next]_vars => (IInv /\ Counted)'
  BY Step, CountStep
<1> QED
  BY <1>1, <1>2, InitialState, PTL DEF Spec

\* A run reported as successful keeps successful job rows through crashes,
\* recoveries and late writes, but for as many as store calls have failed
\* (store.go:537-548, scheduler.go:180-196).
THEOREM SuccessIsKept == Spec => []SuccessKeepsItsJobs
<1>1. ASSUME IInv, Counted PROVE SuccessKeepsItsJobs
  <2> DEFINE W == {rj \in Runs \X Jobs : /\ runRow[rj[1]] = Success
                                         /\ jobRow[rj[1]][rj[2]] # Success}
  <2>0. faults \in Nat /\ W \in SUBSET (Runs \X Jobs) /\ WrongRows \in SUBSET (Runs \X Jobs)
    BY <1>1, BoundsAssumption DEF IInv, TypeOK, WrongRows
  <2>1. W \subseteq WrongRows
    BY DEF WrongRows, WrongRow
  <2>2. Cardinality(W) <= faults
    <3> HIDE DEF W
    <3> QED
      BY <1>1, <2>0, <2>1, Grows DEF Counted
  <2> QED
    BY <2>2 DEF SuccessKeepsItsJobs
<1> QED
  BY <1>1, AlwaysCounted, PTL

\* A job this process accepted is shown as running only under a running run, but
\* for as many rows as store calls have failed (scheduler.go:33-41, 170-181).
THEOREM RunningUnderRunning == Spec => []RunningJobsUnderRunningRun
<1>1. ASSUME IInv, Counted PROVE RunningJobsUnderRunningRun
  <2> DEFINE R == {rj \in (Runs \ old) \X Jobs : /\ jobRow[rj[1]][rj[2]] = Running
                                                 /\ runRow[rj[1]] # Running}
  <2>0. faults \in Nat /\ R \in SUBSET (Runs \X Jobs) /\ StrayRows \in SUBSET (Runs \X Jobs)
    BY <1>1, BoundsAssumption DEF IInv, TypeOK, StrayRows
  <2>1. \A w \in Workers : at[w] = "jobs" => runRow[holds[w]] = Running
    BY <1>1 DEF IInv, Working, Busy
  <2>2. R \subseteq StrayRows
    BY <2>1 DEF StrayRows, StrayRow
  <2>3. Cardinality(R) <= faults
    <3> HIDE DEF R
    <3> QED
      BY <1>1, <2>0, <2>2, Grows DEF Counted
  <2> QED
    BY <2>3 DEF RunningJobsUnderRunningRun
<1> QED
  BY <1>1, AlwaysCounted, PTL
===============================================================================
