--------------------------- MODULE LogStreamProofs ---------------------------
(***************************************************************************)
(* Theorems about module LogStream, for every length of the log, every     *)
(* number of retries, of failures and of older answers: the viewer shows   *)
(* the log in its order and without a gap, once more at most for each older*)
(* answer, and a torn-down subscription is dead.                           *)
(***************************************************************************)
EXTENDS LogStream, SequenceTheorems, FiniteSetTheorems, TLAPS

USE BoundsAssumption

-----------------------------------------------------------------------------
(* The inductive invariant.                                                *)

\* The states streamLogs' closure goes through: at most one of a connection,
\* a status request that still counts and a timer, and none once torn down.
Phase(s) ==
  /\ sub[s].es \in {"none", "connecting"} => sub[s].sent = 0 /\ sub[s].got = 0
  /\ sub[s].es # "none" => sub[s].check = "none" /\ ~sub[s].timer
  /\ sub[s].check # "none" => ~sub[s].timer /\ sub[s].retry < MaxRetries
  /\ sub[s].torn => sub[s].es = "none" /\ ~sub[s].timer
  /\ ~sub[s].torn => s = cur /\ mounted

\* The last line shown is the one the connection has handled last, and no
\* message is handled before it is sent, nor sent before it is written.
Synced(s) ==
  /\ sub[s].got <= sub[s].sent /\ sub[s].sent <= written
  /\ sub[s].es = "open" \/ sub[s].got < sub[s].sent =>
       /\ ~sub[s].first
       /\ sub[s].got # 0 => lines # <<>> /\ lines[Len(lines)] = sub[s].got

Fetched == lines # <<>> => hasFetched

\* A subscription is left for every turn of isLive still to come.
SubsLeft == cur <= 2 * late + (IF shown THEN 1 ELSE 2)

\* The subscription's next line begins the log anew below the lines shown.
Beginning(c) ==
  ~c.torn /\ (c.first \/ (c.got = 0 /\ (c.es = "open" \/ c.got < c.sent)))

ReplaysLeft ==
  lines # <<>> /\ Beginning(sub[cur]) => Cardinality(Begins) <= late

IInv ==
  /\ TypeOK /\ (\A s \in Subs : Phase(s) /\ Synced(s)) /\ SubsLeft
  /\ ViewFollowsLog /\ ReplaysLeft /\ Fetched

-----------------------------------------------------------------------------
(* Helpers.                                                                *)

LEMMA NoSubTyped == NoSub \in SubState
BY DEF NoSub, SubState

LEMMA NewSubTyped ==
  ASSUME NEW isLive \in BOOLEAN, written \in 0..MaxLines
  PROVE  Subscribed(isLive) \in SubState
<1>1. [NoSub EXCEPT !.es = "connecting"] \in SubState
  BY NoSubTyped DEF SubState
<1>2. [NoSub EXCEPT !.es = "connecting", !.base = written] \in SubState
  BY <1>1 DEF SubState
<1> QED
  BY <1>2 DEF Subscribed, SubState

LEMMA CheckTyped ==
  ASSUME NEW c \in SubState, NEW a \in {"none", "asked", "active", "over"}
  PROVE  [c EXCEPT !.check = a] \in SubState
BY DEF SubState

LEMMA ClosedTyped ==
  ASSUME NEW c \in SubState
  PROVE  Closed(c) \in SubState
<1>1. 0 \in 0..MaxLines
  OBVIOUS
<1>2. [c EXCEPT !.es = "none", !.sent = 0] \in SubState
  BY <1>1 DEF SubState
<1> QED
  BY <1>1, <1>2 DEF Closed, SubState

LEMMA TornDownTyped ==
  ASSUME NEW c \in SubState
  PROVE  TornDown(c) \in SubState
BY NoSubTyped, CheckTyped DEF TornDown, SubState

LEMMA BeginsFinite ==
  ASSUME TypeOK
  PROVE  IsFiniteSet(Begins) /\ Cardinality(Begins) \in Nat
<1>1. Len(lines) \in Nat
  BY DEF TypeOK
<1>2. IsFiniteSet(1..Len(lines)) /\ Begins \subseteq 1..Len(lines)
  BY <1>1, FS_Interval DEF Begins
<1> QED
  BY <1>2, FS_Subset, FS_CardinalityType

LEMMA InitIInv == Init => IInv
<1> SUFFICES ASSUME Init PROVE IInv
  OBVIOUS
<1>1. 1 \in Subs
  BY DEF Subs
<1>2. Subscribed(shown) \in SubState
  BY NewSubTyped DEF Init
<1>3. sub \in [Subs -> SubState]
  BY <1>2, NoSubTyped DEF Init
<1>4. /\ written \in 0..MaxLines /\ outages \in 0..MaxOutages /\ cur \in Subs
      /\ late \in 0..MaxLate
  BY <1>1 DEF Init
<1>5. lines \in Seq(1..MaxLines)
  BY EmptySeq DEF Init
<1>6. TypeOK
  BY <1>3, <1>4, <1>5 DEF Init, TypeOK
<1>7. \A s \in Subs : Phase(s) /\ Synced(s)
  BY <1>4 DEF Init, Phase, Synced, Subscribed, NoSub
<1>8. Begins = {}
  BY DEF Init, Begins
<1>9. ViewFollowsLog
  BY <1>4, <1>8, FS_EmptySet DEF Init, ViewFollowsLog
<1> QED
  BY <1>6, <1>7, <1>9 DEF Init, IInv, SubsLeft, ReplaysLeft, Fetched

\* The other subscription is torn down while s has a connection or a timer.
LEMMA OneAlive ==
  ASSUME IInv, NEW s \in Subs, ~sub[s].torn, NEW t \in Subs \ {s}
  PROVE  sub[t].torn /\ sub[t].es = "none" /\ sub[t].sent = 0 /\ sub[t].got = 0
  BY DEF IInv, Phase

\* A line appended to the log changes nothing in how the lines before follow
\* each other, and so nothing in what the viewer shows of them.
LEMMA ViewKept ==
  ASSUME TypeOK, ViewFollowsLog, UNCHANGED <<lines, late>>, written' \in Nat,
         written <= written', blank \subseteq blank', blank' \cap 1..written \subseteq blank
  PROVE  ViewFollowsLog' /\ Begins' = Begins
<1>1. /\ written \in Nat /\ Len(lines) \in Nat
      /\ \A i \in 1..Len(lines) : lines[i] \in 1..written
  BY DEF TypeOK, ViewFollowsLog
<1>2. \A m \in Nat, n \in 1..written :
        /\ m < n /\ n \notin blank' /\ (m + 1)..(n - 1) \subseteq blank' <=> 
             m < n /\ n \notin blank /\ (m + 1)..(n - 1) \subseteq blank
  <2> SUFFICES ASSUME NEW m \in Nat, NEW n \in 1..written
               PROVE  /\ n \in blank' <=> n \in blank
                      /\ (m + 1)..(n - 1) \subseteq blank' <=> (m + 1)..(n - 1) \subseteq blank
    OBVIOUS
  <2>1. (m + 1)..(n - 1) \subseteq 1..written
    BY <1>1
  <2> QED
    BY <2>1
<1>3. Begins' = Begins
  <2>1. \A i \in 1..Len(lines) : i = 1 \/ (lines[i - 1] \in Nat /\ lines[i] \in 1..written)
    BY <1>1
  <2>2. \A i \in 1..Len(lines) : i # 1 =>
          (Follows(lines[i - 1], lines[i])' <=> Follows(lines[i - 1], lines[i]))
    BY <1>2, <2>1 DEF Follows
  <2>3. UNCHANGED lines
    OBVIOUS
  <2> QED
    BY <2>2, <2>3 DEF Begins
<1>4. Begins \subseteq 1..Len(lines)
  BY DEF Begins
<1> QED
  BY <1>1, <1>2, <1>3, <1>4 DEF ViewFollowsLog, Follows

\* A step of the world: it changes no subscription but may lengthen the log.
LEMMA WorldStep ==
  ASSUME IInv, UNCHANGED <<mounted, shown, late, cur, sub, lines, connected, hasFetched>>,
         status' \in {"running", "success"}, net' \in {"up", "down"},
         outages' \in 0..MaxOutages, written' \in written..MaxLines,
         blank' \subseteq 1..written', blank \subseteq blank',
         blank' \cap 1..written \subseteq blank
  PROVE  IInv'
<1>1. written \in 0..MaxLines /\ written' \in 0..MaxLines /\ written' >= written
  BY DEF IInv, TypeOK
<1>2. TypeOK'
  BY <1>1 DEF IInv, TypeOK
<1>3. \A s \in Subs : sub[s] \in SubState
  BY DEF IInv, TypeOK
<1>4. \A s \in Subs : Phase(s)' /\ Synced(s)'
  BY <1>1, <1>3 DEF IInv, Phase, Synced, SubState
<1>5. ViewFollowsLog' /\ Begins' = Begins
  BY <1>1, ViewKept DEF IInv
<1> QED
  BY <1>2, <1>4, <1>5 DEF IInv, SubsLeft, ReplaysLeft, Beginning, Fetched

\* A step of subscription s that leaves the viewer's lines as they are.
LEMMA SubMoves ==
  ASSUME IInv, NEW s \in Subs, UNCHANGED <<logVars, net, pageVars, lines>>,
         outages' \in 0..MaxOutages,
         NEW c \in SubState, sub' = [sub EXCEPT ![s] = c],
         connected' \in BOOLEAN, hasFetched' \in BOOLEAN, hasFetched => hasFetched',
         Phase(s)', Synced(s)', Beginning(c) => Beginning(sub[s])
  PROVE  IInv'
<1> USE DEF logVars, pageVars
<1>1. sub' \in [Subs -> SubState] /\ cur \in Subs
  BY DEF IInv, TypeOK
<1>2. TypeOK'
  BY <1>1 DEF IInv, TypeOK
<1>3. \A t \in Subs \ {s} : sub'[t] = sub[t]
  BY DEF IInv, TypeOK
<1>4. \A t \in Subs \ {s} : Phase(t)' /\ Synced(t)'
  BY <1>3 DEF IInv, Phase, Synced
<1>5. Begins' = Begins
  BY DEF Begins, Follows
<1>6. ViewFollowsLog' /\ Fetched' /\ SubsLeft'
  BY <1>5 DEF IInv, ViewFollowsLog, Fetched, SubsLeft, Follows
<1>7. ReplaysLeft'
  <2>1. Beginning(sub'[cur]) => Beginning(sub[cur])
    BY <1>1, <1>3 DEF IInv, TypeOK
  <2>2. Beginning(sub[cur])' => Beginning(sub[cur])
    BY <2>1 DEF Beginning
  <2> QED
    BY <1>5, <2>2 DEF IInv, ReplaysLeft
<1> QED
  BY <1>2, <1>4, <1>6, <1>7 DEF IInv

-----------------------------------------------------------------------------
(* The daemon and streamLogs.                                              *)

LEMMA MessagePreserves ==
  ASSUME IInv, NEW s \in Subs, OnMessage(s)
  PROVE  IInv'
<1> USE DEF worldVars, logVars, pageVars
<1> DEFINE c == sub[s]
           l == Len(lines)
<1>0. /\ c \in SubState /\ sub \in [Subs -> SubState] /\ Phase(s) /\ Synced(s)
      /\ written \in 0..MaxLines /\ late \in Nat /\ lines \in Seq(1..MaxLines)
      /\ l \in Nat /\ c.got \in Nat /\ c.sent \in Nat
  BY DEF IInv, TypeOK, SubState
<1>1. PICK n \in (c.got + 1)..c.sent :
        /\ Follows(c.got, n) /\ lines' = Append(lines, n)
        /\ sub' = [sub EXCEPT ![s] = [c EXCEPT !.got = n]]
  BY <1>0 DEF OnMessage
<1> DEFINE d == [c EXCEPT !.got = n]
<1>2. /\ n \in 1..MaxLines /\ n \in 0..MaxLines /\ n \in Nat /\ n # 0
      /\ c.got < c.sent /\ n <= written /\ n <= c.sent
  BY <1>0, <1>1 DEF Synced
<1>3. /\ d \in SubState /\ sub'[s] = d /\ sub' \in [Subs -> SubState]
      /\ d.got = n /\ d.es = c.es /\ d.sent = c.sent /\ d.check = c.check
      /\ d.timer = c.timer /\ d.retry = c.retry /\ d.torn = c.torn /\ d.first = c.first
  BY <1>0, <1>1, <1>2 DEF SubState
<1>4. /\ lines' \in Seq(1..MaxLines) /\ Len(lines') = l + 1
      /\ \A i \in 1..l : lines'[i] = lines[i]
      /\ lines'[l + 1] = n
  BY <1>0, <1>1, <1>2, AppendProperties
<1>5. ~c.first /\ ~c.torn /\ s = cur /\ cur' = cur /\ c.es # "none"
  BY <1>0, <1>2 DEF OnMessage, Phase, Synced
<1>6. ASSUME NEW t \in Subs
      PROVE  Phase(t)' /\ Synced(t)'
  <2>1. CASE t = s
    <3>1. Phase(t)'
      BY <1>0, <1>3, <1>5, <2>1 DEF OnMessage, Phase
    <3>2. lines' # <<>> /\ lines'[Len(lines')] = n
      BY <1>0, <1>4
    <3>3. Synced(t)'
      BY <1>0, <1>2, <1>3, <1>5, <2>1, <3>2 DEF OnMessage, Synced
    <3> QED
      BY <3>1, <3>3
  <2>2. CASE t # s
    <3>1. /\ sub'[t] = sub[t] /\ sub[t].torn /\ sub[t].es = "none"
          /\ sub[t].sent = 0 /\ sub[t].got = 0
      BY <1>0, <1>1, <1>5, <2>2, OneAlive DEF Phase
    <3> QED
      BY <3>1 DEF OnMessage, IInv, Phase, Synced
  <2> QED
    BY <2>1, <2>2
<1>7. TypeOK'
  BY <1>3, <1>4 DEF OnMessage, IInv, TypeOK
<1>8. \A i \in 1..l : i \in Begins' <=> i \in Begins
  <2>1. \A i \in 1..l : lines'[i] = lines[i] /\ (i = 1 \/ lines'[i - 1] = lines[i - 1])
    <3> SUFFICES ASSUME NEW i \in 1..l, i # 1
                 PROVE  lines'[i - 1] = lines[i - 1]
      BY <1>4
    <3>1. i - 1 \in 1..l
      BY <1>0
    <3> QED
      BY <1>4, <3>1
  <2>2. blank' = blank /\ \A i \in 1..l : i \in 1..(l + 1)
    BY <1>0 DEF OnMessage
  <2> QED
    BY <1>4, <2>1, <2>2 DEF Begins, Follows
<1>9. Begins' \subseteq Begins \cup {l + 1}
  <2>1. Begins' \subseteq 1..(l + 1)
    BY <1>4 DEF Begins
  <2> QED
    BY <1>0, <1>8, <2>1
<1>10. l + 1 \in Begins' => c.got = 0
  <2> SUFFICES ASSUME c.got # 0
               PROVE  l + 1 \notin Begins'
    OBVIOUS
  <2>1. lines # <<>> /\ lines[l] = c.got
    BY <1>0, <1>2 DEF Synced
  <2>2. l # 0 /\ lines'[(l + 1) - 1] = c.got
    BY <1>0, <1>4, <2>1
  <2>3. blank' = blank
    BY DEF OnMessage
  <2> QED
    BY <1>0, <1>1, <1>4, <2>2, <2>3 DEF Begins, Follows
<1>11. Cardinality(Begins') <= late + 1
  <2>0. IsFiniteSet(Begins) /\ Cardinality(Begins) \in Nat
    BY BeginsFinite DEF IInv
  <2>1. IsFiniteSet(Begins) /\ Cardinality(Begins) \in Nat /\ IsFiniteSet(Begins')
    BY <1>9, <2>0, FS_AddElement, FS_Subset
  <2>2. Cardinality(Begins) <= late + 1
    BY DEF IInv, ViewFollowsLog
  <2>3. CASE l + 1 \notin Begins'
    <3>1. Begins' \subseteq Begins
      BY <1>9, <2>3
    <3>2. Cardinality(Begins') <= Cardinality(Begins) /\ Cardinality(Begins') \in Nat
      BY <2>1, <3>1, FS_Subset, FS_CardinalityType
    <3> QED
      BY <1>0, <2>1, <2>2, <3>2
  <2>4. CASE l + 1 \in Begins'
    <3>1. Cardinality(Begins) <= late
      <4>1. CASE lines = <<>>
        <5>1. Begins = {}
          BY <4>1 DEF Begins
        <5> QED
          BY <1>0, <5>1, FS_EmptySet
      <4>2. CASE lines # <<>>
        <5>1. Beginning(sub[cur])
          BY <1>2, <1>5, <1>10, <2>4 DEF Beginning
        <5> QED
          BY <4>2, <5>1 DEF IInv, ReplaysLeft
      <4> QED
        BY <4>1, <4>2
    <3>2. /\ IsFiniteSet(Begins \cup {l + 1})
          /\ Cardinality(Begins \cup {l + 1}) <= Cardinality(Begins) + 1
      <4>1. Cardinality(Begins \cup {l + 1}) =
              IF l + 1 \in Begins THEN Cardinality(Begins) ELSE Cardinality(Begins) + 1
        BY <2>1, FS_AddElement
      <4>2. IsFiniteSet(Begins \cup {l + 1})
        BY <2>1, FS_AddElement
      <4> QED
        BY <2>1, <4>1, <4>2
    <3>3. Cardinality(Begins') <= Cardinality(Begins \cup {l + 1})
      BY <1>9, <3>2, FS_Subset
    <3>4. Cardinality(Begins') \in Nat /\ Cardinality(Begins \cup {l + 1}) \in Nat
      BY <2>1, <3>2, FS_CardinalityType
    <3> QED
      BY <1>0, <2>1, <3>1, <3>2, <3>3, <3>4
  <2> QED
    BY <2>3, <2>4
<1>12. ViewFollowsLog'
  <2>1. late' = late /\ written' = written /\ blank' = blank
    BY DEF OnMessage
  <2>2. \A i \in 1..Len(lines') : lines'[i] <= written'
    <3>1. \A i \in 1..l : lines[i] <= written
      BY DEF IInv, ViewFollowsLog
    <3>2. \A i \in 1..(l + 1) : i \in 1..l \/ i = l + 1
      BY <1>0
    <3> QED
      BY <1>2, <1>4, <2>1, <3>1, <3>2
  <2>3. \A i \in Begins : i \in 1..l /\ lines'[i] = lines[i] /\ Follows(0, lines[i])
    BY <1>4 DEF Begins, IInv, ViewFollowsLog
  <2>4. l + 1 \in Begins' => Follows(0, lines'[l + 1])
    BY <1>1, <1>4, <1>10
  <2>5. \A i \in Begins' : Follows(0, lines'[i])
    BY <1>9, <2>3, <2>4
  <2> QED
    BY <1>11, <2>1, <2>2, <2>5 DEF ViewFollowsLog, Follows
<1>13. ReplaysLeft'
  <2>1. sub'[cur'] = d /\ ~Beginning(d)
    BY <1>2, <1>3, <1>5 DEF Beginning
  <2> QED
    BY <2>1 DEF ReplaysLeft, Beginning
<1> QED
  BY <1>6, <1>7, <1>12, <1>13 DEF OnMessage, IInv, Fetched, SubsLeft

LEMMA SubPreserves ==
  ASSUME IInv, NEW s \in Subs, SubStep(s)
  PROVE  IInv'
<1> USE DEF worldVars, logVars, pageVars, viewVars
<1> DEFINE c == sub[s]
<1>0. /\ c \in SubState /\ sub \in [Subs -> SubState] /\ outages \in 0..MaxOutages
      /\ written \in 0..MaxLines /\ connected \in BOOLEAN /\ hasFetched \in BOOLEAN
      /\ Phase(s) /\ Synced(s)
  BY DEF IInv, TypeOK
<1>1. CASE TailSends(s)
  <2> DEFINE d == [c EXCEPT !.sent = c.sent + 1]
  <2>1. d \in SubState /\ sub' = [sub EXCEPT ![s] = d] /\ sub'[s] = d
    BY <1>0, <1>1 DEF TailSends, SubState
  <2>2. Phase(s)' /\ Synced(s)'
    BY <1>0, <1>1, <2>1 DEF TailSends, Phase, Synced, SubState
  <2>3. Beginning(d) => Beginning(c)
    BY <1>0, <1>1 DEF TailSends, Phase, Synced, SubState, Beginning
  <2> QED
    BY <1>0, <1>1, <2>1, <2>2, <2>3, SubMoves DEF TailSends
<1>2. CASE TailCancelled(s)
  <2> DEFINE d == [c EXCEPT !.es = "failed"]
  <2>1. d \in SubState /\ sub' = [sub EXCEPT ![s] = d] /\ sub'[s] = d
    BY <1>0, <1>2 DEF TailCancelled, SubState
  <2>2. Phase(s)' /\ Synced(s)'
    BY <1>0, <1>2, <2>1 DEF TailCancelled, Phase, Synced, SubState
  <2>3. Beginning(d) => Beginning(c)
    BY <1>0, <1>2 DEF TailCancelled, Phase, Synced, SubState, Beginning
  <2> QED
    BY <1>0, <1>2, <2>1, <2>2, <2>3, SubMoves DEF TailCancelled
<1>3. CASE ConnectFails(s)
  <2> DEFINE d == [c EXCEPT !.es = "failed"]
  <2>1. d \in SubState /\ sub' = [sub EXCEPT ![s] = d] /\ sub'[s] = d
    BY <1>0, <1>3 DEF ConnectFails, SubState
  <2>2. Phase(s)' /\ Synced(s)'
    BY <1>0, <1>3, <2>1 DEF ConnectFails, Phase, Synced, SubState
  <2>3. Beginning(d) => Beginning(c)
    BY <1>0, <1>3 DEF ConnectFails, Phase, Synced, SubState, Beginning
  <2> QED
    BY <1>0, <1>3, <2>1, <2>2, <2>3, SubMoves DEF ConnectFails
<1>4. CASE OnOpen(s)
  <2> DEFINE d == [c EXCEPT !.es = "open", !.first = FALSE]
  <2>1. d \in SubState /\ sub' = [sub EXCEPT ![s] = d] /\ sub'[s] = d
    BY <1>0, <1>4 DEF OnOpen, SubState
  <2>2. CASE c.first
    <3>1. lines' = lines
      BY <1>4, <2>2 DEF OnOpen
    <3>2. Phase(s)' /\ Synced(s)'
      BY <1>0, <1>4, <2>1, <3>1 DEF OnOpen, Phase, Synced, SubState
    <3>3. Beginning(d) => Beginning(c)
      BY <1>0, <1>4, <2>2 DEF OnOpen, Phase, SubState, Beginning
    <3> QED
      BY <1>0, <1>4, <2>1, <3>1, <3>2, <3>3, SubMoves DEF OnOpen
  <2>3. CASE ~c.first
    <3>1. lines' = <<>>
      BY <1>4, <2>3 DEF OnOpen
    <3>2. Phase(s)' /\ Synced(s)'
      BY <1>0, <1>4, <2>1, <2>3, <3>1 DEF OnOpen, Phase, Synced, SubState
    <3>3. ASSUME NEW t \in Subs \ {s}
          PROVE  Phase(t)' /\ Synced(t)'
      <4>1. /\ sub'[t] = sub[t] /\ sub[t].es = "none" /\ sub[t].torn
            /\ sub[t].sent = 0 /\ sub[t].got = 0
        BY <1>0, <1>4, <2>1, OneAlive DEF OnOpen, Phase
      <4> QED
        BY <1>4, <4>1 DEF OnOpen, IInv, Phase, Synced
    <3>4. TypeOK'
      <4>1. lines' \in Seq(1..MaxLines)
        BY <3>1, EmptySeq
      <4> QED
        BY <1>0, <1>4, <2>1, <4>1 DEF OnOpen, IInv, TypeOK
    <3>5. Begins' = {} /\ late' \in Nat
      BY <1>4, <3>1 DEF OnOpen, Begins, IInv, TypeOK
    <3>6. ViewFollowsLog'
      BY <3>1, <3>5, FS_EmptySet DEF ViewFollowsLog
    <3> QED
      BY <1>0, <1>4, <3>1, <3>2, <3>3, <3>4, <3>6
      DEF OnOpen, IInv, Fetched, SubsLeft, ReplaysLeft
  <2> QED
    BY <2>2, <2>3
<1>5. CASE OnMessage(s)
  BY <1>5, MessagePreserves
<1>6. CASE OnError(s)
  <2> DEFINE d == [c EXCEPT !.es = "none", !.sent = 0, !.got = 0, !.base = 0]
             e == [d EXCEPT !.check = "asked"]
  <2>0. d \in SubState
    BY <1>0, ClosedTyped DEF Closed
  <2>1. d \in SubState /\ e \in SubState
    BY <2>0, CheckTyped
  <2>2. CASE sub' = [sub EXCEPT ![s] = d] /\ OnDone
    <3>1. sub'[s] = d
      BY <1>0, <2>2
    <3>2. Phase(s)' /\ Synced(s)'
      BY <1>0, <1>6, <2>2, <3>1 DEF OnError, OnDone, Phase, Synced, SubState
    <3>3. Beginning(d) => Beginning(c)
      BY <1>0 DEF SubState, Beginning
    <3> QED
      BY <1>0, <1>6, <2>1, <2>2, <3>2, <3>3, SubMoves DEF OnError, OnDone
  <2>3. CASE sub' = [sub EXCEPT ![s] = e] /\ UNCHANGED viewVars /\ c.retry < MaxRetries
    <3>1. sub'[s] = e
      BY <1>0, <2>3
    <3>2. Phase(s)' /\ Synced(s)'
      BY <1>0, <1>6, <2>3, <3>1 DEF OnError, Phase, Synced, SubState
    <3>3. Beginning(e) => Beginning(c)
      BY <1>0 DEF SubState, Beginning
    <3> QED
      BY <1>0, <1>6, <2>1, <2>3, <3>2, <3>3, SubMoves DEF OnError
  <2> QED
    BY <1>6, <2>2, <2>3 DEF OnError, Closed
<1>7. CASE StatusRead(s)
  <2>1. PICK a \in {"active", "over"} : sub' = [sub EXCEPT ![s] = [c EXCEPT !.check = a]]
    BY <1>7 DEF StatusRead
  <2> DEFINE d == [c EXCEPT !.check = a]
  <2>2. d \in SubState /\ sub'[s] = d
    BY <1>0, <2>1 DEF SubState
  <2>3. Phase(s)' /\ Synced(s)'
    BY <1>0, <1>7, <2>2 DEF StatusRead, Phase, Synced, SubState
  <2>4. Beginning(d) => Beginning(c)
    BY <1>0 DEF SubState, Beginning
  <2> QED
    BY <1>0, <1>7, <2>1, <2>2, <2>3, <2>4, SubMoves DEF StatusRead
<1>8. CASE StatusAnswered(s)
  <2> DEFINE d == [c EXCEPT !.check = "none"]
             e == [c EXCEPT !.check = "none", !.retry = c.retry + 1, !.timer = TRUE]
  <2>0. c.retry + 1 \in 0..MaxRetries
    BY <1>0, <1>8 DEF StatusAnswered, Phase, SubState
  <2>1. d \in SubState /\ e \in SubState
    BY <1>0, <2>0 DEF SubState
  <2>2. CASE sub' = [sub EXCEPT ![s] = d] /\ (UNCHANGED viewVars \/ OnDone)
    <3>1. sub'[s] = d
      BY <1>0, <2>2
    <3>2. Phase(s)' /\ Synced(s)'
      BY <1>0, <1>8, <2>2, <3>1 DEF StatusAnswered, OnDone, Phase, Synced, SubState
    <3>3. /\ lines' = lines /\ connected' \in BOOLEAN /\ hasFetched' \in BOOLEAN
          /\ hasFetched => hasFetched'
      BY <1>0, <2>2 DEF OnDone
    <3>4. Beginning(d) => Beginning(c)
      BY <1>0 DEF SubState, Beginning
    <3> QED
      BY <1>0, <1>8, <2>1, <2>2, <3>2, <3>3, <3>4, SubMoves DEF StatusAnswered
  <2>3. CASE sub' = [sub EXCEPT ![s] = e] /\ UNCHANGED viewVars /\ ~c.torn
    <3>1. sub'[s] = e
      BY <1>0, <2>3
    <3>2. Phase(s)' /\ Synced(s)'
      BY <1>0, <1>8, <2>3, <3>1 DEF StatusAnswered, Phase, Synced, SubState
    <3>3. Beginning(e) => Beginning(c)
      BY <1>0 DEF SubState, Beginning
    <3> QED
      BY <1>0, <1>8, <2>1, <2>3, <3>2, <3>3, SubMoves DEF StatusAnswered
  <2> QED
    BY <1>8, <2>2, <2>3 DEF StatusAnswered
<1>9. CASE TimerFires(s)
  <2> DEFINE d == [c EXCEPT !.timer = FALSE, !.es = "connecting", !.base = written]
  <2>1. d \in SubState /\ sub' = [sub EXCEPT ![s] = d] /\ sub'[s] = d
    BY <1>0, <1>9 DEF TimerFires, SubState
  <2>2. Phase(s)' /\ Synced(s)'
    BY <1>0, <1>9, <2>1 DEF TimerFires, Phase, Synced, SubState
  <2>3. Beginning(d) => Beginning(c)
    BY <1>0, <1>9 DEF TimerFires, Phase, Synced, SubState, Beginning
  <2> QED
    BY <1>0, <1>9, <2>1, <2>2, <2>3, SubMoves DEF TimerFires
<1> QED
  BY <1>1, <1>2, <1>3, <1>4, <1>5, <1>6, <1>7, <1>8, <1>9 DEF SubStep

LEMMA TailFailsPreserves ==
  ASSUME IInv, NEW s \in Subs, TailFails(s)
  PROVE  IInv'
<1> DEFINE d == [sub[s] EXCEPT !.es = "failed"]
<1>0. /\ sub[s] \in SubState /\ sub \in [Subs -> SubState] /\ outages \in 0..MaxOutages
      /\ written \in 0..MaxLines /\ Phase(s) /\ Synced(s)
  BY DEF IInv, TypeOK
<1>1. d \in SubState /\ sub' = [sub EXCEPT ![s] = d] /\ sub'[s] = d
  BY <1>0 DEF TailFails, SubState
<1>2. Phase(s)' /\ Synced(s)'
  BY <1>0, <1>1 DEF TailFails, logVars, pageVars, viewVars, Phase, Synced, SubState
<1>3. Beginning(d) => Beginning(sub[s])
  BY <1>0 DEF TailFails, SubState, Beginning
<1>4. outages' \in 0..MaxOutages
  BY <1>0 DEF TailFails
<1>5. connected' \in BOOLEAN /\ hasFetched' \in BOOLEAN /\ UNCHANGED <<lines, hasFetched>>
  BY DEF TailFails, viewVars, IInv, TypeOK
<1> QED
  BY <1>1, <1>2, <1>3, <1>4, <1>5, SubMoves DEF TailFails

-----------------------------------------------------------------------------
(* The network and the component.                                          *)

LEMMA NetFailsPreserves ==
  ASSUME IInv, NetFails
  PROVE  IInv'
<1> USE DEF logVars, pageVars, viewVars
<1>1. PICK kept \in [Subs -> 0..MaxLines] :
         /\ \A s \in Subs : sub[s].es = "open" => kept[s] \in sub[s].got..sub[s].sent
         /\ sub' = [s \in Subs |-> IF sub[s].es = "open"
                                   THEN [sub[s] EXCEPT !.es = "failed", !.sent = kept[s]]
                                   ELSE sub[s]]
  BY DEF NetFails
<1>2. ASSUME NEW s \in Subs
      PROVE  sub'[s] \in SubState /\ Phase(s)' /\ Synced(s)'
  <2>1. sub[s] \in SubState /\ Phase(s) /\ Synced(s) /\ kept[s] \in 0..MaxLines
    BY DEF IInv, TypeOK
  <2>2. CASE sub[s].es = "open"
    <3>1. sub'[s] = [sub[s] EXCEPT !.es = "failed", !.sent = kept[s]]
      BY <1>1, <2>2
    <3>2. sub'[s] \in SubState
      BY <2>1, <3>1 DEF SubState
    <3>3. /\ sub'[s].es = "failed" /\ sub'[s].sent = kept[s] /\ sub'[s].got = sub[s].got
          /\ sub'[s].check = sub[s].check /\ sub'[s].timer = sub[s].timer
          /\ sub'[s].torn = sub[s].torn /\ sub'[s].first = sub[s].first
          /\ sub[s].got \in Nat /\ sub[s].sent \in Nat /\ written \in Nat
      BY <2>1, <3>1 DEF SubState, IInv, TypeOK
    <3>4. /\ sub[s].got <= kept[s] /\ kept[s] <= sub[s].sent /\ sub[s].sent <= written
          /\ kept[s] <= written
      <4>1. kept[s] \in sub[s].got..sub[s].sent
        BY <1>1, <2>2
      <4>2. sub[s].sent <= written
        BY <2>1 DEF Synced
      <4> QED
        BY <2>1, <3>3, <4>1, <4>2
    <3>5. Synced(s)'
      <4>1. ~sub[s].first /\ (sub[s].got # 0 => lines # <<>> /\ lines[Len(lines)] = sub[s].got)
        BY <2>1, <2>2 DEF Synced
      <4>2. written' = written /\ lines' = lines
        BY DEF NetFails
      <4> QED
        BY <3>3, <3>4, <4>1, <4>2 DEF Synced
    <3>6. Phase(s)'
      BY <2>1, <2>2, <3>3 DEF NetFails, Phase, Synced
    <3> QED
      BY <3>2, <3>5, <3>6
  <2>3. CASE sub[s].es # "open"
    <3>1. sub'[s] = sub[s]
      BY <1>1, <2>3
    <3> QED
      BY <2>1, <3>1 DEF NetFails, Phase, Synced
  <2> QED
    BY <2>2, <2>3
<1>3. sub' \in [Subs -> SubState]
  BY <1>1, <1>2
<1>6. outages' \in 0..MaxOutages
  <2>1. outages < MaxOutages /\ outages' = outages + 1
    BY DEF NetFails
  <2> QED
    BY <2>1 DEF IInv, TypeOK
<1>4. TypeOK'
  BY <1>3, <1>6 DEF NetFails, IInv, TypeOK
<1>5. Begins' = Begins
  BY DEF NetFails, Begins, Follows
<1>7. ViewFollowsLog' /\ Fetched' /\ SubsLeft'
  BY <1>5 DEF NetFails, IInv, ViewFollowsLog, Fetched, SubsLeft, Follows
<1>8. Beginning(sub[cur])' => Beginning(sub[cur])
  <2>1. cur \in Subs /\ cur' = cur /\ sub[cur] \in SubState
    BY DEF NetFails, IInv, TypeOK
  <2>2. CASE sub[cur].es = "open"
    <3>1. sub'[cur] = [sub[cur] EXCEPT !.es = "failed", !.sent = kept[cur]]
      BY <1>1, <2>1, <2>2
    <3>2. /\ sub'[cur].torn = sub[cur].torn /\ sub'[cur].first = sub[cur].first
          /\ sub'[cur].got = sub[cur].got
      BY <2>1, <3>1 DEF SubState
    <3> QED
      BY <2>1, <2>2, <3>2 DEF Beginning
  <2>3. CASE sub[cur].es # "open"
    <3>1. sub'[cur] = sub[cur]
      BY <1>1, <2>1, <2>3
    <3> QED
      BY <2>1, <3>1 DEF Beginning
  <2> QED
    BY <2>2, <2>3
<1>9. ReplaysLeft'
  BY <1>5, <1>8 DEF NetFails, IInv, ReplaysLeft
<1> QED
  BY <1>2, <1>4, <1>7, <1>9 DEF IInv

LEMMA TornDownIs ==
  ASSUME NEW c \in SubState
  PROVE  /\ TornDown(c) \in SubState
         /\ TornDown(c).es = "none" /\ TornDown(c).sent = 0 /\ TornDown(c).got = 0
         /\ TornDown(c).torn /\ ~TornDown(c).timer /\ TornDown(c).retry = 0
         /\ TornDown(c).check = c.check
BY TornDownTyped DEF TornDown, NoSub

\* What the viewer shows does not change with the page.
LEMMA ViewStays ==
  ASSUME IInv, UNCHANGED <<worldVars, viewVars>>, late' \in Nat, late <= late'
  PROVE  ViewFollowsLog' /\ Fetched' /\ Begins' = Begins
<1> USE DEF worldVars, logVars, viewVars
<1>1. Begins' = Begins
  BY DEF Begins, Follows
<1>2. Cardinality(Begins) \in Nat /\ late \in Nat
  BY BeginsFinite DEF IInv, TypeOK
<1> QED
  BY <1>1, <1>2 DEF IInv, ViewFollowsLog, Fetched, Follows

\* The current subscription is torn down and no other one made.
LEMMA TearDownPreserves ==
  ASSUME IInv, UNCHANGED <<worldVars, viewVars, cur, late>>,
         sub' = [sub EXCEPT ![cur] = TornDown(@)],
         shown' \in BOOLEAN, mounted' \in BOOLEAN, shown' => shown
  PROVE  IInv'
<1> USE DEF worldVars, logVars, viewVars
<1> DEFINE d == TornDown(sub[cur])
<1>0. /\ sub \in [Subs -> SubState] /\ cur \in Subs /\ sub[cur] \in SubState
      /\ written \in 0..MaxLines /\ late \in Nat /\ cur \in Nat
  BY DEF IInv, TypeOK, Subs
<1>1. sub' \in [Subs -> SubState] /\ sub'[cur] = d /\ d \in SubState
  BY <1>0, TornDownIs
<1>2. TypeOK'
  BY <1>1 DEF IInv, TypeOK
<1>3. Phase(cur)' /\ Synced(cur)'
  <2>1. /\ d.es = "none" /\ d.sent = 0 /\ d.got = 0 /\ d.torn /\ ~d.timer
        /\ d.retry = 0 /\ d.check = sub[cur].check
    BY <1>0, TornDownIs
  <2>2. d.check # "none" => 0 < MaxRetries
    BY <1>0, <2>1 DEF IInv, Phase, SubState
  <2> HIDE DEF d
  <2> QED
    BY <1>0, <1>1, <2>1, <2>2 DEF Phase, Synced
<1>4. ASSUME NEW t \in Subs \ {cur}
      PROVE  Phase(t)' /\ Synced(t)'
  <2>1. sub'[t] = sub[t] /\ sub[t].torn
    BY <1>0 DEF IInv, Phase
  <2> QED
    BY <2>1 DEF IInv, Phase, Synced
<1>5. ViewFollowsLog' /\ Fetched'
  BY <1>0, ViewStays
<1>6. SubsLeft'
  BY <1>0 DEF IInv, SubsLeft, TypeOK
<1>7. ReplaysLeft'
  <2>1. sub'[cur'].torn
    BY <1>0, <1>1, TornDownIs
  <2> QED
    BY <2>1 DEF ReplaysLeft, Beginning
<1> QED
  BY <1>2, <1>3, <1>4, <1>5, <1>6, <1>7 DEF IInv

\* The viewer subscribes anew: live after an older answer, or not live with
\* nothing shown yet.
LEMMA SubscribePreserves ==
  ASSUME IInv, mounted, UNCHANGED <<worldVars, viewVars, mounted>>, NEW isLive \in BOOLEAN,
         shown' = isLive, shown = ~isLive, cur' = cur + 1,
         sub' = [sub EXCEPT ![cur] = TornDown(@), ![cur + 1] = Subscribed(isLive)],
         \/ isLive /\ late < MaxLate /\ late' = late + 1
         \/ ~isLive /\ ~hasFetched /\ late' = late
  PROVE  IInv'
<1> USE DEF worldVars, logVars, viewVars
<1> DEFINE d == TornDown(sub[cur])
           n == Subscribed(isLive)
<1>0. /\ sub \in [Subs -> SubState] /\ cur \in Subs /\ sub[cur] \in SubState
      /\ written \in 0..MaxLines /\ late \in 0..MaxLate /\ cur \in Nat
  BY DEF IInv, TypeOK, Subs
<1>1. late' \in 0..MaxLate /\ late <= late'
  BY <1>0
<1>2. cur + 1 \in Subs /\ cur + 1 # cur /\ SubsLeft'
  <2>1. cur <= 2 * late + (IF shown THEN 1 ELSE 2)
    BY DEF IInv, SubsLeft
  <2>2. CASE isLive
    <3>1. cur <= 2 * late + 2 /\ late < MaxLate /\ late' = late + 1
      BY <2>1, <2>2
    <3>2. cur + 1 <= 2 * late' + 1 /\ cur + 1 <= 2 * MaxLate + 2
      BY <1>0, <3>1
    <3> QED
      BY <1>0, <2>2, <3>2 DEF SubsLeft, Subs
  <2>3. CASE ~isLive
    <3>1. cur <= 2 * late + 1 /\ late' = late
      BY <2>1, <2>3
    <3>2. cur + 1 <= 2 * late' + 2 /\ cur + 1 <= 2 * MaxLate + 2
      BY <1>0, <3>1
    <3> QED
      BY <1>0, <2>3, <3>2 DEF SubsLeft, Subs
  <2> QED
    BY <2>2, <2>3
<1>3. n \in SubState /\ d \in SubState
  BY <1>0, NewSubTyped, TornDownIs
<1>4. sub' \in [Subs -> SubState] /\ sub'[cur + 1] = n /\ sub'[cur] = d
  BY <1>0, <1>2, <1>3
<1>5. TypeOK'
  BY <1>1, <1>2, <1>4 DEF IInv, TypeOK
<1>6. ASSUME NEW t \in Subs, t = cur + 1
      PROVE  Phase(t)' /\ Synced(t)'
  <2>1. /\ n.es = "connecting" /\ n.sent = 0 /\ n.got = 0 /\ n.check = "none"
        /\ ~n.timer /\ ~n.torn
    BY DEF Subscribed, NoSub
  <2> HIDE DEF n
  <2> QED
    BY <1>0, <1>4, <1>6, <2>1 DEF Phase, Synced
<1>7. ASSUME NEW t \in Subs, t = cur
      PROVE  Phase(t)' /\ Synced(t)'
  <2>1. /\ d.es = "none" /\ d.sent = 0 /\ d.got = 0 /\ d.torn /\ ~d.timer
        /\ d.retry = 0 /\ d.check = sub[cur].check
    BY <1>0, TornDownIs
  <2>2. d.check # "none" => 0 < MaxRetries
    BY <1>0, <2>1 DEF IInv, Phase, SubState
  <2> HIDE DEF d
  <2> QED
    BY <1>0, <1>4, <1>7, <2>1, <2>2 DEF Phase, Synced
<1>8. ASSUME NEW t \in Subs \ {cur, cur + 1}
      PROVE  Phase(t)' /\ Synced(t)'
  <2>1. sub'[t] = sub[t] /\ sub[t].torn
    BY <1>0 DEF IInv, Phase
  <2> QED
    BY <2>1 DEF IInv, Phase, Synced
<1>9. ViewFollowsLog' /\ Fetched' /\ Begins' = Begins
  BY <1>0, <1>1, ViewStays
<1>10. ReplaysLeft'
  <2>1. CASE isLive
    BY <1>9, <2>1 DEF IInv, ViewFollowsLog, ReplaysLeft
  <2>2. CASE ~isLive
    BY <2>2 DEF IInv, Fetched, ReplaysLeft
  <2> QED
    BY <2>1, <2>2
<1>11. \A t \in Subs : Phase(t)' /\ Synced(t)'
  BY <1>6, <1>7, <1>8
<1> QED
  BY <1>2, <1>5, <1>9, <1>10, <1>11 DEF IInv

LEMMA PagePreserves ==
  ASSUME IInv, PollSeesEnd \/ OlderAnswer \/ Unmount
  PROVE  IInv'
<1>1. CASE PollSeesEnd
  <2>1. CASE hasFetched
    BY <1>1, <2>1, TearDownPreserves DEF PollSeesEnd, Rerenders, IInv, TypeOK
  <2>2. CASE ~hasFetched
    BY <1>1, <2>2, SubscribePreserves DEF PollSeesEnd, Rerenders
  <2> QED
    BY <2>1, <2>2
<1>2. CASE OlderAnswer
  <2>1. /\ mounted /\ shown = FALSE /\ shown' = TRUE /\ late < MaxLate /\ late' = late + 1
        /\ UNCHANGED <<worldVars, viewVars, mounted>> /\ cur' = cur + 1
        /\ sub' = [sub EXCEPT ![cur] = TornDown(@), ![cur + 1] = Subscribed(TRUE)]
    BY <1>2 DEF OlderAnswer, Rerenders, IInv, TypeOK
  <2> QED
    BY <2>1, SubscribePreserves
<1>3. CASE Unmount
  BY <1>3, TearDownPreserves DEF Unmount, IInv, TypeOK
<1> QED
  BY <1>1, <1>2, <1>3

-----------------------------------------------------------------------------
(* The theorems.                                                           *)

LEMMA NextIInv ==
  ASSUME IInv, [Next]_vars
  PROVE  IInv'
<1>1. CASE WriteLine \/ RunEnds \/ NetRecovers
  <2>1. /\ UNCHANGED <<mounted, shown, late, cur, sub, lines, connected, hasFetched>>
        /\ status' \in {"running", "success"} /\ net' \in {"up", "down"}
        /\ outages' \in 0..MaxOutages
    BY <1>1 DEF WriteLine, RunEnds, NetRecovers, logVars, pageVars, viewVars, IInv, TypeOK
  <2>2. written \in 0..MaxLines /\ blank \subseteq 1..written
    BY DEF IInv, TypeOK
  <2>3. /\ written' \in written..MaxLines
        /\ blank' = blank \/ (written' = written + 1 /\ blank' = blank \cup {written + 1})
    BY <1>1, <2>2 DEF WriteLine, RunEnds, NetRecovers, logVars
  <2>4. /\ blank' \subseteq 1..written' /\ blank \subseteq blank'
        /\ blank' \cap 1..written \subseteq blank
    <3>1. 1..written \subseteq 1..written'
      BY <2>2, <2>3
    <3>2. CASE blank' = blank
      BY <2>2, <3>1, <3>2
    <3>3. CASE written' = written + 1 /\ blank' = blank \cup {written + 1}
      <4>1. written + 1 \in 1..written' /\ written + 1 \notin 1..written
        BY <2>2, <3>3
      <4> QED
        BY <2>2, <3>1, <3>3, <4>1
    <3> QED
      BY <2>3, <3>2, <3>3
  <2> QED
    BY <2>1, <2>3, <2>4, WorldStep
<1>2. CASE NetFails
  BY <1>2, NetFailsPreserves
<1>3. ASSUME NEW s \in Subs, SubStep(s)
      PROVE  IInv'
  BY <1>3, SubPreserves
<1>4. CASE PollSeesEnd \/ OlderAnswer \/ Unmount
  BY <1>4, PagePreserves
<1>5. CASE UNCHANGED vars
  BY <1>5 DEF vars, IInv, TypeOK, Phase, Synced, SubsLeft, ViewFollowsLog, Begins, Follows,
     ReplaysLeft, Beginning, Fetched
<1>6. ASSUME NEW s \in Subs, TailFails(s)
      PROVE  IInv'
  BY <1>6, TailFailsPreserves
<1> QED
  BY <1>1, <1>2, <1>3, <1>4, <1>5, <1>6 DEF Next, Rest

THEOREM Invariance == Spec => []IInv
BY InitIInv, NextIInv, PTL DEF Spec

\* The variables only hold what the code can put in them; in particular
\* streamLogs never counts beyond its limit of retries (api.ts:191).
THEOREM TypeCorrect == Spec => []TypeOK
<1>1. IInv => TypeOK
  BY DEF IInv
<1> QED
  BY <1>1, Invariance, PTL

\* Whatever the network, the daemon, the run, the page and the reconnects do,
\* the viewer shows the log from its beginning, in order and without a gap but
\* for the empty lines, and at most once more for every older answer that shows
\* the ended run as running (LogViewer.tsx:70-109 over api.ts:159-233).
THEOREM NoLineTwiceOrMissing == Spec => []ViewFollowsLog
<1>1. IInv => ViewFollowsLog
  BY DEF IInv
<1> QED
  BY <1>1, Invariance, PTL

\* A torn-down subscription opens no connection, arms no timer, and after the
\* viewer has left the screen changes nothing (api.ts:214, 237-244).
THEOREM TeardownIsFinal == Spec => NothingAfterTeardown
<1>1. IInv /\ IInv' /\ [Next]_vars =>
        [/\ \A s \in Subs : sub[s].torn /\ sub'[s].torn =>
              sub'[s].es = "none" /\ ~sub'[s].timer
         /\ ~mounted => UNCHANGED viewVars]_vars
  <2> SUFFICES ASSUME IInv, IInv', [Next]_vars
               PROVE  /\ \A s \in Subs : sub'[s].torn => sub'[s].es = "none" /\ ~sub'[s].timer
                      /\ ~mounted => UNCHANGED viewVars
    OBVIOUS
  <2>1. \A s \in Subs : sub'[s].torn => sub'[s].es = "none" /\ ~sub'[s].timer
    BY DEF IInv, Phase
  <2>2. ~mounted => \A s \in Subs : sub[s].torn /\ sub[s].es = "none"
    BY DEF IInv, Phase
  <2>3. ~mounted => UNCHANGED viewVars
    BY <2>2 DEF Next, WriteLine, RunEnds, NetFails, NetRecovers, SubStep, TailSends,
       TailCancelled, ConnectFails, OnOpen, OnMessage, OnError, StatusRead, StatusAnswered,
       TimerFires, TailFails, PollSeesEnd, OlderAnswer, Rerenders, Unmount, Rest, vars, viewVars
  <2> QED
    BY <2>1, <2>3
<1> QED
  BY <1>1, Invariance, PTL DEF Spec, NothingAfterTeardown
===============================================================================
