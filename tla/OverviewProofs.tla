---------------------------- MODULE OverviewProofs ----------------------------
(***************************************************************************)
(* Theorems about the overview page, for every history of the server's     *)
(* list, every set of outages and every number of overlapping calls.       *)
(***************************************************************************)
EXTENDS Overview, FiniteSetTheorems, SequenceTheorems, TLAPS

USE MetricsAssumption, OverviewAssumption

-----------------------------------------------------------------------------
(* Types.                                                                  *)

\* Bound to what the daemon answers: a version of its list.
LEMMA NullIsNoVersion == Null \notin Versions /\ Null \in Answers /\ Versions \subseteq Answers
BY DEF Null, Versions, Answers

LEMMA CallsTyped ==
  /\ Idle \in CallState
  /\ \A endpoint \in Endpoints, has \in BOOLEAN : Request(endpoint, has) \in CallState
BY NullIsNoVersion DEF Idle, Request, CallState, Endpoints

\* An answer is read once, and is a version or nothing.
LEMMA AnsweredTyped ==
  ASSUME TypeOK, NEW call \in CallState
  PROVE  Answered(call) \in CallState
<1>1. (IF call.asked \in down THEN Null ELSE version) \in Answers
  BY NullIsNoVersion DEF TypeOK
<1> QED
  BY <1>1 DEF Answered, CallState

\* The parts of the type invariant: the server, the calls, what is shown and
\* the flags.
ServerOK == version \in Versions /\ down \in Outages /\ changes \in 0..MaxChanges
CallsOK  == statsCall \in [StatsSlots -> CallState] /\ runsCall \in [RunsSlots -> CallState]
ShownOK  == stats \in Answers /\ runs \in Answers /\ fallbackRuns \in Answers
FlagsOK  ==
  /\ statsLoading \in BOOLEAN /\ statsError \in BOOLEAN /\ statsTimed \in BOOLEAN
  /\ runsLoading \in BOOLEAN /\ runsError \in BOOLEAN /\ reload \in BOOLEAN
  /\ queueFallback \in BOOLEAN /\ fallbackActive \in BOOLEAN

LEMMA TypeOKParts == TypeOK <=> ServerOK /\ CallsOK /\ ShownOK /\ FlagsOK
BY DEF TypeOK, ServerOK, CallsOK, ShownOK, FlagsOK

LEMMA ServerTyped == TypeOK /\ [Next]_vars => ServerOK'
<1> SUFFICES ASSUME TypeOK, [Next]_vars PROVE ServerOK'
  OBVIOUS
<1>1. CASE NewRuns
  <2>1. Len(History) \in Nat
    OBVIOUS
  <2> QED
    BY <1>1, <2>1 DEF NewRuns, TypeOK, ServerOK, Versions
<1>2. CASE OutageChanges
  BY <1>2 DEF OutageChanges, TypeOK, ServerOK
<1>3. CASE UNCHANGED serverVars
  BY <1>3 DEF serverVars, TypeOK, ServerOK
<1> QED
  BY <1>1, <1>2, <1>3 DEF Next, vars, serverVars, StatsInterval, RunsInterval, EffectRuns, Retry,
     StatsStep, RunsStep, ServeStatsCall, StatsArrive, StatsFail, QueueFallbackEnds,
     RunsFallbackEnds, ServeRunsCall, RunsArrive

LEMMA CallsOKNext == TypeOK /\ [Next]_vars => CallsOK'
<1> SUFFICES ASSUME TypeOK, [Next]_vars PROVE CallsOK'
  OBVIOUS
<1> USE CallsTyped DEF CallsOK, TypeOK
<1>0. {"stats", "queue", "runs"} = Endpoints
  BY DEF Endpoints
<1>1. CASE StatsInterval
  BY <1>1, <1>0 DEF StatsInterval
<1>2. CASE RunsInterval
  BY <1>2, <1>0 DEF RunsInterval
<1>3. CASE EffectRuns
  BY <1>3, <1>0 DEF EffectRuns, Calls
<1>4. CASE \E c \in StatsSlots : ServeStatsCall(c)
  <2>1. PICK c \in StatsSlots : ServeStatsCall(c)
    BY <1>4
  <2>2. Answered(statsCall[c]) \in CallState
    BY AnsweredTyped
  <2> QED
    BY <2>1, <2>2 DEF ServeStatsCall
<1>5. CASE \E c \in RunsSlots : ServeRunsCall(c)
  <2>1. PICK c \in RunsSlots : ServeRunsCall(c)
    BY <1>5
  <2>2. Answered(runsCall[c]) \in CallState
    BY AnsweredTyped
  <2> QED
    BY <2>1, <2>2 DEF ServeRunsCall
<1>6. CASE \E c \in StatsSlots : StatsArrive(c) \/ RunsFallbackEnds(c)
  BY <1>6 DEF StatsArrive, RunsFallbackEnds
<1>7. CASE \E c \in StatsSlots : StatsFail(c)
  BY <1>7, <1>0 DEF StatsFail
<1>8. CASE \E c \in StatsSlots : QueueFallbackEnds(c)
  BY <1>8, <1>0 DEF QueueFallbackEnds
<1>9. CASE \E c \in RunsSlots : RunsArrive(c)
  BY <1>9 DEF RunsArrive
<1>10. CASE UNCHANGED callVars
  BY <1>10 DEF callVars
<1> QED
  BY <1>1, <1>2, <1>3, <1>4, <1>5, <1>6, <1>7, <1>8, <1>9, <1>10 DEF Next, vars, callVars,
     NewRuns, OutageChanges, Retry, StatsStep, RunsStep

LEMMA ShownTyped == TypeOK /\ [Next]_vars => ShownOK'
<1> SUFFICES ASSUME TypeOK, [Next]_vars PROVE ShownOK'
  OBVIOUS
<1> USE DEF ShownOK, TypeOK
<1>1. CASE \E c \in StatsSlots : StatsArrive(c)
  <2>1. PICK c \in StatsSlots : StatsArrive(c)
    BY <1>1
  <2>2. statsCall[c].answer \in Answers
    BY DEF CallState
  <2> QED
    BY <2>1, <2>2, NullIsNoVersion DEF StatsArrive, runsVars
<1>2. CASE \E c \in StatsSlots : RunsFallbackEnds(c)
  <2>1. PICK c \in StatsSlots : RunsFallbackEnds(c)
    BY <1>2
  <2>2. statsCall[c].answer \in Answers
    BY DEF CallState
  <2> QED
    BY <2>1, <2>2 DEF RunsFallbackEnds, runsVars
<1>3. CASE \E c \in RunsSlots : RunsArrive(c)
  <2>1. PICK c \in RunsSlots : RunsArrive(c)
    BY <1>3
  <2>2. runsCall[c].answer \in Answers
    BY DEF CallState
  <2> QED
    BY <2>1, <2>2 DEF RunsArrive, statsVars, fallbackVars
<1>4. CASE UNCHANGED <<stats, runs, fallbackRuns>>
  BY <1>4
<1> QED
  BY <1>1, <1>2, <1>3, <1>4 DEF Next, vars, statsVars, runsVars, fallbackVars, NewRuns, OutageChanges,
     StatsInterval, RunsInterval, EffectRuns, Retry, StatsStep, RunsStep, ServeStatsCall, StatsFail,
     QueueFallbackEnds, ServeRunsCall

LEMMA FlagsTyped == TypeOK /\ [Next]_vars => FlagsOK'
<1> SUFFICES ASSUME TypeOK, [Next]_vars PROVE FlagsOK'
  OBVIOUS
<1> USE DEF FlagsOK, TypeOK
<1>1. CASE \E c \in StatsSlots : StatsStep(c)
  <2>1. PICK c \in StatsSlots : StatsStep(c)
    BY <1>1
  <2>2. statsCall[c].has \in BOOLEAN
    BY DEF CallState
  <2>3. CASE RunsFallbackEnds(c)
    <3>1. fallbackActive' \in BOOLEAN
      BY <2>3, <2>2 DEF RunsFallbackEnds
    <3>2. statsTimed' \in BOOLEAN
      BY <2>3, <2>2 DEF RunsFallbackEnds
    <3> QED
      BY <2>3, <3>1, <3>2 DEF RunsFallbackEnds, runsVars
  <2>4. CASE QueueFallbackEnds(c)
    BY <2>4 DEF QueueFallbackEnds, runsVars
  <2>5. CASE ServeStatsCall(c) \/ StatsArrive(c) \/ StatsFail(c)
    BY <2>5 DEF ServeStatsCall, StatsArrive, StatsFail, statsVars, runsVars, fallbackVars
  <2> QED
    BY <2>1, <2>3, <2>4, <2>5 DEF StatsStep
<1>2. CASE \E c \in RunsSlots : RunsStep(c)
  BY <1>2 DEF RunsStep, ServeRunsCall, RunsArrive, statsVars, runsVars, fallbackVars
<1>3. CASE EffectRuns \/ Retry
  BY <1>3 DEF EffectRuns, Retry, statsVars, runsVars, fallbackVars
<1>4. CASE UNCHANGED <<statsVars, runsVars, reload>>
  BY <1>4 DEF statsVars, runsVars, fallbackVars
<1> QED
  BY <1>1, <1>2, <1>3, <1>4 DEF Next, vars, NewRuns, OutageChanges, StatsInterval, RunsInterval

LEMMA InitTyped == Init => TypeOK
<1> SUFFICES ASSUME Init PROVE TypeOK
  OBVIOUS
<1>1. 1 \in Versions
  BY DEF Versions
<1>2. ServerOK
  BY <1>1 DEF Init, ServerOK
<1>3. CallsOK
  BY CallsTyped DEF Init, CallsOK, Calls, Endpoints
<1>4. ShownOK /\ FlagsOK
  BY NullIsNoVersion DEF Init, ShownOK, FlagsOK
<1> QED
  BY <1>2, <1>3, <1>4, TypeOKParts

\* The page keeps versions that exist, calls it understands and flags that
\* are flags, whatever calls overlap (page.tsx:123-224).
THEOREM TypeCorrect == Spec => []TypeOK
<1>1. TypeOK /\ [Next]_vars => TypeOK'
  BY ServerTyped, CallsOKNext, ShownTyped, FlagsTyped, TypeOKParts
  DEF TypeOK, ServerOK, CallsOK, ShownOK, FlagsOK
<1> QED
  BY <1>1, InitTyped, PTL DEF Spec

-----------------------------------------------------------------------------
(* The two computations of the metrics.                                    *)

\* What a filter keeps is a finite set of positions.
LEMMA PositionsAreFinite ==
  ASSUME NEW list \in Seq(Runs), NEW statuses
  PROVE  /\ With(list, statuses) \subseteq 1..Len(list)
         /\ IsFiniteSet(With(list, statuses))
<1>1. With(list, statuses) \subseteq 1..Len(list)
  BY DEF With
<1>2. IsFiniteSet(1..Len(list))
  BY FS_Interval
<1> QED
  BY <1>1, <1>2, FS_Subset

\* A batch is the beginning of its list, and no longer than the limit.
LEMMA BatchBegins ==
  ASSUME NEW list \in Seq(Runs)
  PROVE  LET batch == AtMost(list, SampleLimit)
         IN /\ batch \in Seq(Runs)
            /\ Len(batch) <= Len(list) /\ Len(batch) <= SampleLimit
            /\ \A i \in DOMAIN batch : batch[i] = list[i]
<1> DEFINE n == IF Len(list) < SampleLimit THEN Len(list) ELSE SampleLimit
<1>1. n \in 0..Len(list) /\ n <= SampleLimit
  OBVIOUS
<1>2. SubSeq(list, 1, n) \in Seq(Runs) /\ Len(SubSeq(list, 1, n)) = n
  BY <1>1, SubSeqProperties
<1>3. \A i \in 1..n : SubSeq(list, 1, n)[i] = list[i]
  BY <1>1, SubSeqProperties
<1> QED
  BY <1>1, <1>2, <1>3 DEF AtMost

\* A filter keeps of a batch what it keeps of the list, as far as the batch
\* reaches.
LEMMA FilterOfBatch ==
  ASSUME NEW list \in Seq(Runs), NEW statuses
  PROVE  LET batch == AtMost(list, SampleLimit)
         IN With(batch, statuses) = With(list, statuses) \cap DOMAIN batch
<1> DEFINE batch == AtMost(list, SampleLimit)
<1>1. DOMAIN batch \subseteq DOMAIN list /\ \A i \in DOMAIN batch : batch[i] = list[i]
  BY BatchBegins
<1> HIDE DEF batch
<1>2. With(batch, statuses) = With(list, statuses) \cap DOMAIN batch
  BY <1>1 DEF With
<1> QED
  BY <1>2 DEF batch

\* The newest of the positions that a batch reaches are the newest positions,
\* as far as the batch reaches: what counts is what comes before a position.
LEMMA NewestOfBatch ==
  ASSUME NEW S \in SUBSET (Nat \ {0}), NEW n \in Nat, NEW limit
  PROVE  Newest(S \cap (1..n), limit) = Newest(S, limit) \cap (1..n)
<1>1. ASSUME NEW i \in S \cap (1..n)
      PROVE  {k \in S \cap (1..n) : k <= i} = {k \in S : k <= i}
  <2>1. ASSUME NEW k \in S, k <= i PROVE k \in 1..n
    <3>1. k \in Nat /\ k # 0 /\ i \in Nat /\ i <= n
      BY <1>1
    <3> QED
      BY <2>1, <3>1
  <2> QED
    BY <2>1
<1> QED
  BY <1>1 DEF Newest

\* Of positions within the limit all are among the newest.
LEMMA AllWithinLimit ==
  ASSUME NEW limit \in Nat, NEW S \in SUBSET (1..limit)
  PROVE  Newest(S, limit) = S
<1> SUFFICES ASSUME NEW i \in S PROVE Cardinality({k \in S : k <= i}) <= limit
  BY DEF Newest
<1>1. IsFiniteSet(1..limit) /\ Cardinality(1..limit) <= limit
  <2>1. Cardinality(1..limit) = IF 1 > limit THEN 0 ELSE limit - 1 + 1
    BY FS_Interval, 1 \in Int, limit \in Int
  <2> QED
    BY <2>1, FS_Interval, 1 \in Int, limit \in Int
<1>2. {k \in S : k <= i} \in SUBSET (1..limit)
  OBVIOUS
<1> QED
  BY <1>1, <1>2, FS_Subset, FS_CardinalityType

\* What the page computes of its batch and what the daemon computes of the list
\* the batch was taken from, for every list: the sample in the browser is the
\* part of the daemon's sample that the batch reaches, so it is the same sample
\* as soon as it is as large.
LEMMA MetricsAgree ==
  ASSUME NEW list \in Seq(Runs)
  PROVE  LET batch == AtMost(list, SampleLimit)
             shown == CalculateRecentMetrics(batch, SampleLimit)
             daemon == GetRunStats(list, SampleLimit)
         IN /\ shown.completed <= daemon.completed
            /\ shown.completed = daemon.completed =>
                 /\ shown.passRate = daemon.passRate
                 /\ shown.timed = daemon.timed /\ shown.mean = daemon.mean
            /\ shown.active <= daemon.active
            /\ shown.failures = daemon.failures \cap (DOMAIN batch)
<1> DEFINE batch == AtMost(list, SampleLimit)
           n == Len(batch)
           shown == CalculateRecentMetrics(batch, SampleLimit)
           daemon == GetRunStats(list, SampleLimit)
           Sb == RecentSample(batch, SampleLimit)
           Sl == Newest(Finished(list), SampleLimit)
<1>1. batch \in Seq(Runs) /\ n \in Nat /\ n <= SampleLimit /\ DOMAIN batch = 1..n
      /\ \A i \in 1..n : batch[i] = list[i]
  BY BatchBegins
<1>2. \A statuses : With(batch, statuses) = With(list, statuses) \cap (1..n)
  BY FilterOfBatch, <1>1
<1>3. \A statuses : With(list, statuses) \in SUBSET (Nat \ {0})
  BY PositionsAreFinite
<1>4. \A statuses : IsFiniteSet(With(list, statuses))
  BY PositionsAreFinite
<1> HIDE DEF batch, n
<1>5. Sb = Sl \cap (1..n) /\ Sb = Finished(batch)
  <2>1. Sb = Sl \cap (1..n)
    BY <1>1, <1>2, <1>3, NewestOfBatch DEF RecentSample, Finished
  <2>2. Finished(batch) \in SUBSET (1..SampleLimit)
    BY <1>1, <1>2 DEF Finished
  <2> QED
    BY <2>1, <2>2, AllWithinLimit DEF RecentSample
<1>6. IsFiniteSet(Sl)
  <2>1. Sl \in SUBSET Finished(list)
    BY DEF Newest
  <2> QED
    BY <1>4, <2>1, FS_Subset DEF Finished
<1>7. /\ shown.completed = Cardinality(Sb) /\ daemon.completed = Cardinality(Sl)
      /\ shown.active = Cardinality(Active(batch)) /\ daemon.active = Cardinality(Active(list))
      /\ shown.failures = Newest(Failed(batch), FailureLimit)
      /\ daemon.failures = Newest(Failed(list), FailureLimit)
  BY DEF CalculateRecentMetrics, GetRunStats, MetricsOf
<1>8. Sb \in SUBSET Sl
  BY <1>5
<1>9. shown.completed <= daemon.completed
  BY <1>6, <1>7, <1>8, FS_Subset
<1>10. ASSUME shown.completed = daemon.completed
       PROVE  /\ shown.passRate = daemon.passRate
              /\ shown.timed = daemon.timed /\ shown.mean = daemon.mean
  <2>1. Sb = Sl
    BY <1>6, <1>7, <1>8, <1>10, FS_Subset
  <2>2. \A i \in Sl : batch[i] = list[i]
    BY <2>1, <1>1, <1>5
  <2>3. {i \in Sl : batch[i].status = "success"} = {i \in Sl : list[i].status = "success"}
    BY <2>2
  <2>4. {i \in Sl : batch[i].duration # NoDuration} = {i \in Sl : list[i].duration # NoDuration}
    BY <2>2
  <2> DEFINE timed == {i \in Sl : list[i].duration # NoDuration}
  <2>5. [i \in timed |-> batch[i].duration] = [i \in timed |-> list[i].duration]
    BY <2>2
  <2> HIDE DEF Sb, Sl
  <2>6. shown.passRate = daemon.passRate
    BY <2>1, <2>3 DEF CalculateRecentMetrics, GetRunStats, MetricsOf, Sb, Sl
  <2>7. shown.timed = daemon.timed
    BY <2>1, <2>4 DEF CalculateRecentMetrics, GetRunStats, MetricsOf, Sb, Sl
  <2>8. shown.mean = daemon.mean
    BY <2>1, <2>4, <2>5 DEF CalculateRecentMetrics, GetRunStats, MetricsOf, Sb, Sl
  <2> QED
    BY <2>6, <2>7, <2>8
<1>11. shown.active <= daemon.active
  <2>1. Active(batch) \in SUBSET Active(list)
    BY <1>2 DEF Active
  <2> QED
    BY <1>4, <1>7, <2>1, FS_Subset DEF Active
<1>12. shown.failures = daemon.failures \cap (DOMAIN batch)
  BY <1>1, <1>2, <1>3, <1>7, NewestOfBatch DEF Failed
<1> QED
  BY <1>9, <1>10, <1>11, <1>12 DEF batch

\* The numbers the page shows while the statistics are unavailable are those
\* the daemon would give for the same runs (overview-metrics.ts:26-121,
\* page.tsx:226-244, store.go:543-654).
THEOREM FallbackIsFaithful == Spec => []FallbackAgreesWithDaemon
<1>1. TypeOK => FallbackAgreesWithDaemon
  <2> SUFFICES ASSUME TypeOK, stats = Null, fallbackRuns # Null, FallbackBatch # <<>>
               PROVE  LET shown == ShownMetrics
                          daemon == GetRunStats(History[fallbackRuns], SampleLimit)
                      IN /\ shown.completed <= daemon.completed
                         /\ shown.completed = daemon.completed =>
                              /\ shown.passRate = daemon.passRate
                              /\ shown.timed = daemon.timed /\ shown.mean = daemon.mean
                         /\ shown.active <= daemon.active
                         /\ shown.failures = daemon.failures \cap (DOMAIN FallbackBatch)
    BY DEF FallbackAgreesWithDaemon
  <2>1. fallbackRuns \in Versions
    BY DEF TypeOK, Answers
  <2>2. History[fallbackRuns] \in Seq(Runs)
    BY <2>1 DEF Versions
  <2>3. FallbackBatch = AtMost(History[fallbackRuns], SampleLimit)
    BY DEF FallbackBatch, Batch
  <2>4. ShownMetrics = CalculateRecentMetrics(AtMost(History[fallbackRuns], SampleLimit), SampleLimit)
    BY <2>3 DEF ShownMetrics, FallbackMetrics
  <2> QED
    BY <2>2, <2>3, <2>4, MetricsAgree
<1> QED
  BY <1>1, TypeCorrect, PTL
=============================================================================
