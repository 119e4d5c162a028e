------------------------------ MODULE LogStream ------------------------------
(***************************************************************************)
(* The log of one run from the file to the screen: the daemon's Tail and   *)
(* its SSE handler, the dashboard's streamLogs with its reconnects, and    *)
(* the LogViewer component that subscribes to it.                          *)
(*                                                                         *)
(* Every event of the browser (an event of the connection, a timer, the    *)
(* answer of a status request, a re-render) is a step of its own, so that  *)
(* they interleave with the run, with the network and with each other.     *)
(***************************************************************************)
EXTENDS Naturals, Sequences, FiniteSets

CONSTANTS
  MaxLines,   \* bound on the lines the run writes
  MaxRetries, \* reconnects streamLogs allows itself (3 in the code)
  MaxOutages, \* bound on the failures of the network and of the daemon's Tail
  MaxLate     \* bound on the older answers that turn isLive back to true

ASSUME BoundsAssumption ==
  MaxLines \in Nat /\ MaxRetries \in Nat /\ MaxOutages \in Nat /\ MaxLate \in Nat

\* The effect runs when the component is mounted and whenever its isLive
\* property turns, and subscribes at most once each time.
Subs == 1..(2 * MaxLate + 2)

VARIABLES
  status,    \* runs.status: "running" stands for pending and running alike
  written,   \* lines in the log file; its n-th line is the number n
  blank,     \* those of them that are empty
  net,       \* whether the browser reaches the dashboard and the daemon
  outages,   \* failures of the network and of Tail so far
  mounted,   \* the viewer is on the screen
  shown,     \* the viewer's isLive property, from the status the page last read
  late,      \* how often an older answer has turned it back to true
  cur,       \* the subscription made last
  sub,       \* per subscription, the closure of its streamLogs call
  lines,     \* the viewer's lines
  connected, \* isConnected
  hasFetched \* hasFetchedRef.current

vars == <<status, written, blank, net, outages, mounted, shown, late, cur, sub,
          lines, connected, hasFetched>>

logVars   == <<status, written, blank>>
worldVars == <<logVars, net, outages>>
viewVars  == <<lines, connected, hasFetched>>
pageVars  == <<mounted, shown, late, cur>>

\* es: the EventSource; "failed" is an error event that is queued behind the
\* messages still unhandled.  sent, got: how far Tail has written the file and
\* the page has handled it.  base: the lines the file had when the connection
\* was asked for.  check: the awaited status request and its answer.
SubState == [es : {"none", "connecting", "open", "failed"},
             sent : 0..MaxLines, got : 0..MaxLines, base : 0..MaxLines,
             retry : 0..MaxRetries, check : {"none", "asked", "active", "over"},
             timer : BOOLEAN, first : BOOLEAN, torn : BOOLEAN, live : BOOLEAN]

\* Before the first call of streamLogs, and after connect().
NoSub == [es |-> "none", sent |-> 0, got |-> 0, base |-> 0, retry |-> 0,
          check |-> "none", timer |-> FALSE, first |-> TRUE, torn |-> TRUE,
          live |-> FALSE]

Subscribed(isLive) ==
  [NoSub EXCEPT !.es = "connecting", !.base = written, !.torn = FALSE, !.live = isLive]

\* cleanupCurrentEs: the handlers are unhooked and the EventSource closed.
Closed(c) == [c EXCEPT !.es = "none", !.sent = 0, !.got = 0, !.base = 0]

\* The function streamLogs returns.  A status request in flight goes on; nothing
\* looks at the rest of the closure any more.
TornDown(c) == [NoSub EXCEPT !.check = c.check]

TypeOK ==
  /\ status \in {"running", "success"}
  /\ written \in 0..MaxLines /\ blank \subseteq 1..written
  /\ net \in {"up", "down"} /\ outages \in 0..MaxOutages
  /\ mounted \in BOOLEAN /\ shown \in BOOLEAN
  /\ late \in 0..MaxLate /\ cur \in Subs
  /\ sub \in [Subs -> SubState]
  /\ lines \in Seq(1..MaxLines)
  /\ connected \in BOOLEAN /\ hasFetched \in BOOLEAN

\* The page renders the viewer once it has read the run, live or finished.
Init ==
  /\ written \in 0..MaxLines /\ blank \in SUBSET (1..written)
  /\ shown \in BOOLEAN /\ late = 0
  /\ status = IF shown THEN "running" ELSE "success"
  /\ net = "up" /\ outages = 0 /\ mounted = TRUE /\ cur = 1
  /\ sub = [s \in Subs |-> IF s = 1 THEN Subscribed(shown) ELSE NoSub]
  /\ lines = <<>> /\ connected = FALSE /\ hasFetched = FALSE

-----------------------------------------------------------------------------
(* The run and the network.                                                *)

WriteLine ==
  /\ status = "running" /\ written < MaxLines
  /\ written' = written + 1
  /\ blank' \in {blank, blank \cup {written + 1}}
  /\ UNCHANGED <<status, net, outages, pageVars, sub, viewVars>>

RunEnds ==
  /\ status = "running"
  /\ status' = "success"
  /\ UNCHANGED <<written, blank, net, outages, pageVars, sub, viewVars>>

\* Open connections break; what the browser had not received yet is lost.
NetFails ==
  /\ net = "up" /\ outages < MaxOutages
  /\ net' = "down" /\ outages' = outages + 1
  /\ \E kept \in [Subs -> 0..MaxLines] :
       /\ \A s \in Subs : IF sub[s].es = "open" THEN kept[s] \in sub[s].got..sub[s].sent
                                                ELSE kept[s] = 0
       /\ sub' = [s \in Subs |-> IF sub[s].es = "open"
                                 THEN [sub[s] EXCEPT !.es = "failed", !.sent = kept[s]]
                                 ELSE sub[s]]
  /\ UNCHANGED <<logVars, pageVars, viewVars>>

NetRecovers ==
  /\ net = "down"
  /\ net' = "up"
  /\ UNCHANGED <<logVars, outages, pageVars, sub, viewVars>>

-----------------------------------------------------------------------------
(* The daemon: Tail reads the file from its first byte and writes every    *)
(* line it finds, of which the SSE writer sends all but the empty ones; a  *)
(* ticker of the handler cancels it once the run is over.                  *)

\* n is the next line after m that is sent as an event.
Follows(m, n) == m < n /\ n \notin blank /\ (m + 1)..(n - 1) \subseteq blank

TailSends(s) ==
  /\ sub[s].es = "open" /\ sub[s].sent < written
  /\ sub' = [sub EXCEPT ![s].sent = @ + 1]
  /\ UNCHANGED <<worldVars, pageVars, viewVars>>

\* Tail reads to the end of the file before it first looks at its context, but
\* lines written after its last read are never sent.
TailHasRead(s) == sub[s].sent >= sub[s].base

TailCancelled(s) ==
  /\ sub[s].es = "open" /\ status # "running" /\ TailHasRead(s)
  /\ sub' = [sub EXCEPT ![s].es = "failed"]
  /\ UNCHANGED <<worldVars, pageVars, viewVars>>

\* The file cannot be opened, as before the run's first line, or read; or the
\* ticker cannot read the run.
TailFails(s) ==
  /\ sub[s].es = "open"
  /\ \/ written = 0 /\ UNCHANGED outages
     \/ outages < MaxOutages /\ outages' = outages + 1
  /\ sub' = [sub EXCEPT ![s].es = "failed"]
  /\ UNCHANGED <<logVars, net, pageVars, viewVars>>

-----------------------------------------------------------------------------
(* streamLogs, with the callbacks LogViewer gives it.                      *)

ConnectFails(s) ==
  /\ sub[s].es = "connecting" /\ net = "down"
  /\ sub' = [sub EXCEPT ![s].es = "failed"]
  /\ UNCHANGED <<worldVars, pageVars, viewVars>>

\* Seeded fault: the lines of the connection before stay.
OnOpenKeepsLines(s) ==
  /\ sub[s].es = "connecting" /\ net = "up"
  /\ connected' = TRUE
  /\ sub' = [sub EXCEPT ![s].es = "open", ![s].first = FALSE]
  /\ UNCHANGED <<worldVars, pageVars, lines, hasFetched>>

\* The daemon replays the log from its beginning on every connection, so the
\* viewer drops its lines on every connection of a subscription but the first.
OnOpen(s) ==
  /\ sub[s].es = "connecting" /\ net = "up"
  /\ connected' = TRUE
  /\ lines' = IF sub[s].first THEN lines ELSE <<>>
  /\ sub' = [sub EXCEPT ![s].es = "open", ![s].first = FALSE]
  /\ UNCHANGED <<worldVars, pageVars, hasFetched>>

OnMessage(s) ==
  /\ sub[s].es \in {"open", "failed"}
  /\ \E n \in (sub[s].got + 1)..sub[s].sent :
       /\ Follows(sub[s].got, n)
       /\ lines' = Append(lines, n)
       /\ sub' = [sub EXCEPT ![s].got = n]
  /\ hasFetched' = TRUE
  /\ UNCHANGED <<worldVars, pageVars, connected>>

\* No message is left to handle.
AllHandled(s) == (sub[s].got + 1)..sub[s].sent \subseteq blank

OnDone == hasFetched' = TRUE /\ connected' = FALSE /\ UNCHANGED lines

\* Seeded fault: the limit on the retries is off by one.
OnErrorOnceMore(s) ==
  /\ sub[s].es = "failed" /\ AllHandled(s)
  /\ \/ /\ ~sub[s].live \/ sub[s].retry > MaxRetries
        /\ sub' = [sub EXCEPT ![s] = Closed(@)]
        /\ OnDone
     \/ /\ sub[s].live /\ sub[s].retry <= MaxRetries
        /\ sub' = [sub EXCEPT ![s] = [Closed(@) EXCEPT !.check = "asked"]]
        /\ UNCHANGED viewVars
  /\ UNCHANGED <<worldVars, pageVars>>

\* onerror up to its await: the caller knows the run is over, the retries are
\* used up, or the backend is asked.
OnError(s) ==
  /\ sub[s].es = "failed" /\ AllHandled(s)
  /\ \/ /\ ~sub[s].live \/ sub[s].retry >= MaxRetries
        /\ sub' = [sub EXCEPT ![s] = Closed(@)]
        /\ OnDone
     \/ /\ sub[s].live /\ sub[s].retry < MaxRetries
        /\ sub' = [sub EXCEPT ![s] = [Closed(@) EXCEPT !.check = "asked"]]
        /\ UNCHANGED viewVars
  /\ UNCHANGED <<worldVars, pageVars>>

\* The answer is what the store says now; a request that fails counts as an
\* active run.
StatusRead(s) ==
  /\ sub[s].check = "asked"
  /\ sub' = [sub EXCEPT ![s].check =
               IF net = "down" \/ status = "running" THEN "active" ELSE "over"]
  /\ UNCHANGED <<worldVars, pageVars, viewVars>>

\* Seeded fault: nobody looks at isTeardown after the await.
StatusAnsweredUnguarded(s) ==
  /\ sub[s].check \in {"active", "over"}
  /\ \/ /\ sub[s].check = "over"
        /\ sub' = [sub EXCEPT ![s].check = "none"]
        /\ OnDone
     \/ /\ sub[s].check = "active" /\ sub[s].retry < MaxRetries
        /\ sub' = [sub EXCEPT ![s].check = "none", ![s].retry = @ + 1,
                              ![s].timer = TRUE]
        /\ UNCHANGED viewVars
  /\ UNCHANGED <<worldVars, pageVars>>

\* Seeded fault: a reconnect is not counted as a retry.
StatusAnsweredUncounted(s) ==
  /\ sub[s].check \in {"active", "over"}
  /\ sub' = [sub EXCEPT ![s].check = "none",
                        ![s].timer = sub[s].check = "active" /\ ~sub[s].torn]
  /\ IF sub[s].check = "over" /\ ~sub[s].torn THEN OnDone ELSE UNCHANGED viewVars
  /\ UNCHANGED <<worldVars, pageVars>>

\* onerror after its await, which may be long after the answer was true.
StatusAnswered(s) ==
  /\ sub[s].check \in {"active", "over"}
  /\ \/ /\ sub[s].torn
        /\ sub' = [sub EXCEPT ![s].check = "none"]
        /\ UNCHANGED viewVars
     \/ /\ ~sub[s].torn /\ sub[s].check = "over"
        /\ sub' = [sub EXCEPT ![s].check = "none"]
        /\ OnDone
     \/ /\ ~sub[s].torn /\ sub[s].check = "active"
        /\ sub' = [sub EXCEPT ![s].check = "none", ![s].retry = @ + 1,
                              ![s].timer = TRUE]
        /\ UNCHANGED viewVars
  /\ UNCHANGED <<worldVars, pageVars>>

TimerFires(s) ==
  /\ sub[s].timer
  /\ sub' = [sub EXCEPT ![s].timer = FALSE, ![s].es = "connecting", ![s].base = written]
  /\ UNCHANGED <<worldVars, pageVars, viewVars>>

-----------------------------------------------------------------------------
(* The component.                                                          *)

\* isLive turns: the effect is torn down and, unless the run is over and
\* something was fetched already, run again with a new subscription.
Rerenders(isLive) ==
  /\ shown' = isLive
  /\ IF ~isLive /\ hasFetched
     THEN /\ sub' = [sub EXCEPT ![cur] = TornDown(@)]
          /\ UNCHANGED cur
     ELSE /\ sub' = [sub EXCEPT ![cur] = TornDown(@), ![cur + 1] = Subscribed(isLive)]
          /\ cur' = cur + 1
  /\ UNCHANGED <<worldVars, mounted, viewVars>>

\* The page has read that the run is over.
PollSeesEnd ==
  /\ mounted /\ shown /\ status # "running" /\ net = "up"
  /\ Rerenders(FALSE) /\ UNCHANGED late

\* The page gets an answer older than that, of a fetch the change of status has
\* not cancelled yet: the run is shown as running once more.
OlderAnswer ==
  /\ mounted /\ ~shown /\ late < MaxLate
  /\ Rerenders(TRUE) /\ late' = late + 1

Unmount ==
  /\ mounted
  /\ mounted' = FALSE
  /\ sub' = [sub EXCEPT ![cur] = TornDown(@)]
  /\ UNCHANGED <<worldVars, shown, late, cur, viewVars>>

\* The browser's own steps and the daemon's: all of them go on by themselves.
SubStep(s) ==
  \/ TailSends(s) \/ TailCancelled(s) \/ ConnectFails(s) \/ OnOpen(s)
  \/ OnMessage(s) \/ OnError(s) \/ StatusRead(s) \/ StatusAnswered(s) \/ TimerFires(s)

Quiet == \A s \in Subs : sub[s].es = "none" /\ sub[s].check = "none" /\ ~sub[s].timer

\* The viewer has nothing left to do once the run is over and shown as such.
Rest ==
  /\ Quiet /\ status # "running" /\ (shown => ~mounted \/ net = "down")
  /\ UNCHANGED vars

Next ==
  \/ WriteLine \/ RunEnds \/ NetFails \/ NetRecovers
  \/ \E s \in Subs : SubStep(s) \/ TailFails(s)
  \/ PollSeesEnd \/ OlderAnswer \/ Unmount \/ Rest

Spec == Init /\ [][Next]_vars

\* A network failure need not end, a run need not either, and no user has to
\* leave the page; connections, timers and requests do come to something.
Fairness == \A s \in Subs : WF_vars(SubStep(s))

FairSpec == Spec /\ Fairness

-----------------------------------------------------------------------------
(* Properties.                                                             *)

\* The viewer's lines that do not go on with what is above them.
Begins == {i \in 1..Len(lines) : i = 1 \/ ~Follows(lines[i - 1], lines[i])}

\* What the viewer shows is the log from its beginning without the empty lines:
\* no line twice, none out of order and none missing in between, through every
\* reconnect, replay and second subscription.  But each time an older answer
\* shows an ended run as running, the log may be shown once more, from its
\* first line, below what is there (LogViewer.tsx:70-109 over api.ts:159-233).
ViewFollowsLog ==
  /\ \A i \in 1..Len(lines) : lines[i] <= written
  /\ \A i \in Begins : Follows(0, lines[i])
  /\ Cardinality(Begins) <= late + 1

\* A torn-down subscription does nothing any more, whatever was pending when
\* it was torn down (a status request, a timer, queued events): it opens no
\* connection, arms no timer, and after the viewer has left the screen
\* nothing in it changes (api.ts:214, 237-244).
NothingAfterTeardown ==
  [][/\ \A s \in Subs : sub[s].torn /\ sub'[s].torn =>
          sub'[s].es = "none" /\ ~sub'[s].timer
     /\ ~mounted => UNCHANGED viewVars]_vars

\* The lines of the log that are sent.
FullLog == SelectSeq([n \in 1..written |-> n], LAMBDA n : n \notin blank)

\* Once the run is over the client comes to rest: it neither reconnects for
\* ever nor waits for ever, even when the network never returns; and a log
\* opened after the run's end is on the screen in full but for its empty lines,
\* unless the network or the daemon failed, the viewer was closed or the run
\* was shown as running again (api.ts:191-230, streamer.go:57-87).
StreamSettles ==
  (status = "success") ~>
    /\ Quiet
    /\ ~sub[1].live /\ ~sub[1].torn /\ outages = 0 => lines = FullLog
=============================================================================
