------------------------------- MODULE RunsPage -------------------------------
(***************************************************************************)
(* The runs page (src/dashboard/app/runs/page.tsx): the rows it polls, its *)
(* search and filter controls, and the query string they are kept in.      *)
(*                                                                         *)
(* The controls are written to the URL by an effect that waits 250 ms and  *)
(* starts again whenever a control changes.  The router hears of the write *)
(* later, and hands the page search parameters that overwrite the controls.*)
(***************************************************************************)
EXTENDS RunsFilter, Sequences, FiniteSets, Functions

CONSTANTS Typed,            \* what the operator types into the search box
          TriedStatuses, TriedSorts,    \* bounds: the options the operator tries
          Links,            \* the query strings of links and history entries
          RowsAt,           \* the rows the daemon lists, state by state
          MaxVersion,       \* bound: the daemon's rows change this often
          Requests,         \* bound: so many calls of the list are under way
          MaxEdits,         \* bound: steps of the operator on the controls
          MaxRetries        \* bound: presses of Retry

VARIABLES controls,         \* search, status, branch, pipeline and sort
          armed,            \* the effect's timer is running
          url,              \* window.location.search
          seen,             \* searchParams, as the router last handed them over
          version,          \* the state of the daemon's rows
          request,          \* the calls of getRuns that are under way
          runs, error, loading,
          edits, retries

controlVars == <<controls, armed, url, seen, edits>>
fetchVars == <<request, runs, error, loading, retries>>
vars == <<controlVars, version, fetchVars>>

Urls == [q : Texts, status : Statuses \cup {Empty, "bogus"}, branch : Texts,
         pipeline : Texts, sort : Sorts \cup {Empty, "bogus"}, other : {Empty, "kept"}]

ASSUME PageAssumption ==
    /\ Typed \subseteq Texts /\ Links \subseteq Urls
    /\ TriedStatuses \subseteq Statuses \cup {"all"} /\ TriedSorts \subseteq Sorts
    /\ MaxVersion \in Nat \ {0} /\ MaxEdits \in Nat /\ MaxRetries \in Nat
    /\ RowsAt \in [1 .. MaxVersion -> SUBSET RunRows]
    /\ \A n \in 1 .. MaxVersion :
         /\ IsFiniteSet(RowsAt[n])
         /\ \A r, s \in RowsAt[n] : r.id = s.id => r = s

-----------------------------------------------------------------------------
(* What the page computes when it renders.                                 *)

(* extractUniqueBranches                                                   *)
UniqueBranches(rows) == {Trim[r.branch] : r \in rows} \ {Empty}

(* sortRuns: a row's place is the number of rows put before it.            *)
SortedBy(rows, sort) ==
    LET Place(r) == Cardinality({s \in rows : Before(s, r, sort)})
    IN [i \in 1 .. Cardinality(rows) |-> CHOOSE r \in rows : Place(r) = i - 1]

(* filterAndSortRuns                                                       *)
FilterAndSort(rows, s) == SortedBy({r \in rows : Keeps(s, r)}, s.sort)

NoValue == -1

Rounded(n, d) == (2 * n + d) \div (2 * d)

(* calculateRunsPageMetrics; the average is rounded like the rate.         *)
Metrics(rows) ==
    LET completed == {r \in rows : r.status \in {"success", "failed", "cancelled"}}
        With(status) == Cardinality({r \in rows : r.status = status})
        timed == {r \in completed : r.started > 0 /\ r.finished > 0 /\ r.finished >= r.started}
        Sum == SumFunction([r \in timed |-> r.finished - r.started])
    IN [total     |-> Cardinality(rows),
        completed |-> Cardinality(completed),
        succeeded |-> With("success"),
        failed    |-> With("failed"),
        active    |-> With("running") + With("pending"),
        passRate  |-> IF completed = {} THEN NoValue
                      ELSE Rounded(100 * With("success"), Cardinality(completed)),
        average   |-> IF timed = {} THEN NoValue ELSE Rounded(Sum, Cardinality(timed))]

-----------------------------------------------------------------------------
Idle == [at |-> "idle", got |-> 0]
Asked == [at |-> "asked", got |-> 0]

TypeOK ==
    /\ controls \in FilterStates /\ armed \in BOOLEAN
    /\ url \in Urls /\ seen \in Urls
    /\ version \in 1 .. MaxVersion
    /\ request \in [Requests -> [at : {"idle", "asked", "answered", "failed"}, got : 0 .. MaxVersion]]
    /\ runs \in 0 .. MaxVersion
    /\ error \in BOOLEAN /\ loading \in BOOLEAN
    /\ edits \in 0 .. MaxEdits /\ retries \in 0 .. MaxRetries

(* runs is the state whose rows are shown; before the first answer, 0.     *)
Rows == IF runs = 0 THEN {} ELSE RowsAt[runs]

(* Mounting reads the URL, starts the timer and asks for the rows.         *)
Init ==
    /\ url \in Links /\ seen = url /\ controls = Parse(url) /\ armed = TRUE
    /\ version = 1
    /\ request = [n \in Requests |-> IF n = 1 THEN Asked ELSE Idle]
    /\ runs = 0 /\ error = FALSE /\ loading = TRUE
    /\ edits = 0 /\ retries = 0

-----------------------------------------------------------------------------
(* The controls and the URL.                                               *)

(* Seeded fault: the effect does not depend on the sort order.             *)
ShowIgnoringSort(s) ==
    /\ controls' = s
    /\ armed' = (armed \/ [s EXCEPT !.sort = controls.sort] # controls)

(* Setting the controls starts the timer anew when one of them changed;
   it will write the controls as they are then.                            *)
Show(s) ==
    /\ controls' = s
    /\ armed' = (armed \/ s # controls)

OperatorStep == edits < MaxEdits /\ edits' = edits + 1

NewControls ==
    {[controls EXCEPT !.search = x] : x \in Typed \cup {Empty}}
    \cup {[controls EXCEPT !.status = x] : x \in TriedStatuses}
    \cup {[controls EXCEPT !.branch = x] : x \in {AllText} \cup UniqueBranches(Rows)}
    \cup {[controls EXCEPT !.sort = x] : x \in TriedSorts}
    \cup {[controls EXCEPT !.pipeline = Empty]}

(* The operator types, picks an option or clears one.                      *)
Choose ==
    /\ OperatorStep
    /\ \E s \in NewControls \ {controls} : Show(s)
    /\ UNCHANGED <<url, seen, version, fetchVars>>

(* resetFilters writes the URL at once.                                    *)
Reset ==
    /\ OperatorStep
    /\ Show(Defaults)
    /\ url' = Serialize(Defaults, url)
    /\ UNCHANGED <<seen, version, fetchVars>>

(* A link within the dashboard: the router, which has handled what came
   before, changes the URL and the search parameters together; the page
   adopts the ones that are new to it.                                     *)
FollowLink ==
    /\ OperatorStep
    /\ seen = url
    /\ \E u \in Links :
         /\ url' = u /\ seen' = u
         /\ IF u # seen THEN Show(Parse(u)) ELSE UNCHANGED <<controls, armed>>
    /\ UNCHANGED <<version, fetchVars>>

(* Back or forward: the page reads the URL before the router tells it.     *)
PopState ==
    /\ OperatorStep
    /\ \E u \in Links : url' = u /\ Show(Parse(u))
    /\ UNCHANGED <<seen, version, fetchVars>>

(* The timer goes off: updateUrl.                                          *)
TimerFires ==
    /\ armed
    /\ armed' = FALSE
    /\ url' = Serialize(controls, url)
    /\ UNCHANGED <<controls, seen, edits, version, fetchVars>>

(* The router hands over the URL it has caught up with.                    *)
RouterCatchesUp ==
    /\ seen # url
    /\ seen' = url
    /\ Show(Parse(url))
    /\ UNCHANGED <<url, edits, version, fetchVars>>

-----------------------------------------------------------------------------
(* The rows.                                                               *)

RowsChange ==
    /\ version < MaxVersion
    /\ version' = version + 1
    /\ UNCHANGED <<controlVars, fetchVars>>

(* Every 5 seconds, whether or not the last call has returned.             *)
Poll ==
    /\ \E n \in Requests :
         /\ request[n] = Idle /\ \A m \in Requests : m < n => request[m] # Idle
         /\ request' = [request EXCEPT ![n] = Asked]
    /\ UNCHANGED <<controlVars, version, runs, error, loading, retries>>

Serve(n) ==
    /\ request[n] = Asked
    /\ request' = [request EXCEPT ![n] = [at |-> "answered", got |-> version]]
    /\ UNCHANGED <<controlVars, version, runs, error, loading, retries>>

Fail(n) ==
    /\ request[n] = Asked
    /\ request' = [request EXCEPT ![n] = [at |-> "failed", got |-> 0]]
    /\ UNCHANGED <<controlVars, version, runs, error, loading, retries>>

(* fetchRuns after its await: an error leaves the rows that are shown.     *)
Apply(n) ==
    /\ \/ /\ request[n].at = "answered"
          /\ runs' = request[n].got /\ error' = FALSE
       \/ /\ request[n].at = "failed"
          /\ runs' = runs /\ error' = TRUE
    /\ loading' = FALSE
    /\ request' = [request EXCEPT ![n] = Idle]
    /\ UNCHANGED <<controlVars, version, retries>>

(* Retry: the effect starts over; the calls under way are cancelled, and
   their answers change nothing.                                           *)
Retry ==
    /\ error /\ retries < MaxRetries
    /\ retries' = retries + 1
    /\ loading' = TRUE
    /\ request' = [n \in Requests |-> IF n = 1 THEN Asked ELSE Idle]
    /\ UNCHANGED <<controlVars, version, runs, error>>

Next ==
    \/ Choose \/ Reset \/ FollowLink \/ PopState
    \/ TimerFires \/ RouterCatchesUp
    \/ RowsChange \/ Poll \/ Retry
    \/ \E n \in Requests : Serve(n) \/ Fail(n) \/ Apply(n)

(* The timer and the interval go off, the router catches up, answers are
   handled, and the daemon does not fail for ever.                         *)
Fairness ==
    /\ WF_vars(TimerFires) /\ WF_vars(RouterCatchesUp)
    /\ WF_vars(Poll)
    /\ \A n \in Requests : SF_vars(Serve(n)) /\ WF_vars(Apply(n))

Spec == Init /\ [][Next]_vars /\ Fairness

-----------------------------------------------------------------------------
(* When the timer is off and the router has caught up, the URL is a link to
   what is on the screen: opened elsewhere it gives the same controls up to
   blanks, and the same list in the same order (page.tsx:98-142,
   runs-filter.ts:215-296).                                                *)
LinkRestoresList ==
    ~armed /\ seen = url => FilterAndSort(Rows, Parse(url)) = FilterAndSort(Rows, controls)

(* The cards and the list are computed apart and agree: each card counts
   the rows its status filter shows, and the average lies between the
   fastest and the slowest run of the sorted lists (runs-filter.ts:312-365
   against 42-56 and 94-210).                                              *)
CardsAgreeWithList ==
    LET m == Metrics(Rows)
        Count(status) == Len(FilterAndSort(Rows, [Defaults EXCEPT !.status = status]))
        First(sort) == FilterAndSort(Rows, [Defaults EXCEPT !.sort = sort])[1]
    IN /\ m.total = Count("all") /\ m.completed = m.total - m.active
       /\ m.succeeded = Count("success") /\ m.failed = Count("failed")
       /\ m.active = Count("running") + Count("pending")
       /\ m.completed > 0 => m.passRate \in 0 .. 100
       /\ \/ m.average = NoValue
             /\ \A r \in Rows : CompletedDuration(r) = NoDuration
          \/ /\ m.average >= CompletedDuration(First("duration-asc"))
             /\ m.average <= CompletedDuration(First("duration-desc"))

ScreenAgrees == LinkRestoresList /\ CardsAgreeWithList

(* Left alone, the page comes to rest: the URL means what the controls say,
   nothing is about to overwrite either, and the rows are the daemon's
   latest, although the timer, the router, history and overlapping polls
   overwrite each other (page.tsx:98-189).                                 *)
PageSettles ==
    <>[](/\ Serialize(Parse(url), url) = Serialize(controls, url)
         /\ seen = url /\ ~armed
         /\ runs = version)
=============================================================================
