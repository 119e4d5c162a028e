------------------------------ MODULE RunsFilter ------------------------------
(***************************************************************************)
(* Sorting, filtering and the query string of the runs page                *)
(* (src/dashboard/lib/runs-filter.ts).                                     *)
(*                                                                         *)
(* Times are positive integers; Missing is an absent timestamp and         *)
(* Unusable one that is there but is the zero time or does not parse.      *)
(* Run identifiers are integers, ordered as localeCompare orders them.     *)
(* Texts are opaque: Trim and Lower say what trim() and toLowerCase() make *)
(* of each, and a run carries the set of lower-case texts its fields       *)
(* contain.                                                                *)
(***************************************************************************)
EXTENDS Integers

CONSTANTS Texts, Empty, AllText,    \* AllText is "all"
          Trim, Lower

ASSUME TextAssumption ==
    /\ {Empty, AllText} \subseteq Texts /\ Empty # AllText
    /\ Trim \in [Texts -> Texts] /\ Lower \in [Texts -> Texts]
    /\ \A x \in Texts : Trim[Trim[x]] = Trim[x]
    /\ \A x \in {Empty, AllText} : Trim[x] = x /\ Lower[x] = x

Statuses == {"pending", "running", "success", "failed", "cancelled"}
Sorts == {"newest", "oldest", "duration-desc", "duration-asc", "failed-first"}

ASSUME EmptyAssumption == Empty \notin Statuses \cup Sorts

Missing == 0
Unusable == -1
NoDuration == -1

Stamps == {Unusable} \cup Nat
RunRows == [id : Nat, status : Statuses, created : Stamps, started : Stamps, finished : Stamps,
            branch : Texts, pipelineId : Texts, pipelineName : Texts, contains : SUBSET Texts]

-----------------------------------------------------------------------------
(* getRunStartTimeMs: 0 when there is no usable time.                      *)
StartTime(r) ==
    LET ts == IF r.started # Missing THEN r.started ELSE r.created
    IN IF ts > 0 THEN ts ELSE 0

(* getRunCompletedDurationMs                                               *)
CompletedDuration(r) ==
    IF \/ r.status \in {"running", "pending"}
       \/ r.started <= 0 \/ r.finished <= 0
       \/ r.finished < r.started
    THEN NoDuration ELSE r.finished - r.started

-----------------------------------------------------------------------------
(* The comparators of sortRuns: a is put before b.                         *)

NewestFirst(a, b) ==
    IF StartTime(a) # StartTime(b) THEN StartTime(a) > StartTime(b) ELSE a.id > b.id

OldestFirst(a, b) ==
    IF StartTime(a) > 0 /\ StartTime(b) > 0 /\ StartTime(a) # StartTime(b)
    THEN StartTime(a) < StartTime(b)
    ELSE IF StartTime(a) > 0 <=> StartTime(b) = 0 THEN StartTime(a) > 0
    ELSE a.id < b.id

SlowestFirst(a, b) ==
    LET x == CompletedDuration(a)
        y == CompletedDuration(b)
    IN IF x # NoDuration <=> y = NoDuration THEN x # NoDuration
       ELSE IF x # y THEN x > y
       ELSE IF x # NoDuration THEN a.id > b.id
       ELSE NewestFirst(a, b)

FastestFirst(a, b) ==
    LET x == CompletedDuration(a)
        y == CompletedDuration(b)
    IN IF x # NoDuration <=> y = NoDuration THEN x # NoDuration
       ELSE IF x # y THEN x < y
       ELSE IF x = NoDuration /\ StartTime(a) # StartTime(b) THEN StartTime(a) > StartTime(b)
       ELSE a.id < b.id

FailedFirst(a, b) ==
    IF a.status = "failed" <=> b.status # "failed" THEN a.status = "failed"
    ELSE NewestFirst(a, b)

Before(a, b, sort) ==
    \/ sort = "newest"        /\ NewestFirst(a, b)
    \/ sort = "oldest"        /\ OldestFirst(a, b)
    \/ sort = "duration-desc" /\ SlowestFirst(a, b)
    \/ sort = "duration-asc"  /\ FastestFirst(a, b)
    \/ sort = "failed-first"  /\ FailedFirst(a, b)

-----------------------------------------------------------------------------
(* The controls, and the query string: a parameter that is absent is Empty.
   "other" stands for the parameters the page knows nothing about.         *)
FilterStates == [search : Texts, status : Statuses \cup {"all"}, branch : Texts,
                 pipeline : Texts, sort : Sorts]

Defaults == [search |-> Empty, status |-> "all", branch |-> AllText,
             pipeline |-> Empty, sort |-> "newest"]

(* matchRunSearch                                                          *)
MatchesSearch(r, query) == Trim[query] = Empty \/ Lower[Trim[query]] \in r.contains

(* A pipeline filter that is blank or "all", in any case, filters nothing. *)
NoPipeline(p) == Trim[p] = Empty \/ Lower[Trim[p]] = AllText

MatchesPipeline(r, p) ==
    \E name \in {r.pipelineId, r.pipelineName} : name # Empty /\ Lower[name] = Lower[Trim[p]]

(* The predicate of filterAndSortRuns.                                     *)
Keeps(s, r) ==
    /\ NoPipeline(s.pipeline) \/ MatchesPipeline(r, s.pipeline)
    /\ s.status = "all" \/ r.status = s.status
    /\ s.branch = AllText \/ Lower[Trim[r.branch]] = Lower[Trim[s.branch]]
    /\ MatchesSearch(r, s.search)

(* Seeded fault: the parser takes the status as it comes.                  *)
ParseUnchecked(u) ==
    [search   |-> u.q,
     status   |-> IF u.status = Empty THEN "all" ELSE u.status,
     branch   |-> IF u.branch = Empty THEN AllText ELSE u.branch,
     pipeline |-> IF Lower[Trim[u.pipeline]] = AllText THEN Empty ELSE Trim[u.pipeline],
     sort     |-> IF u.sort \in Sorts THEN u.sort ELSE "newest"]

(* parseRunsUrlParams                                                      *)
Parse(u) ==
    [search   |-> u.q,
     status   |-> IF u.status \in Statuses THEN u.status ELSE "all",
     branch   |-> IF u.branch = Empty THEN AllText ELSE u.branch,
     pipeline |-> IF Lower[Trim[u.pipeline]] = AllText THEN Empty ELSE Trim[u.pipeline],
     sort     |-> IF u.sort \in Sorts THEN u.sort ELSE "newest"]

(* Seeded fault: the serializer keeps the old search when it is cleared.   *)
SerializeKeepingSearch(s, u) ==
    [u EXCEPT !.q        = IF Trim[s.search] = Empty THEN @ ELSE Trim[s.search],
              !.status   = IF s.status = "all" THEN Empty ELSE s.status,
              !.branch   = IF s.branch \in {Empty, AllText} THEN Empty ELSE Trim[s.branch],
              !.pipeline = IF NoPipeline(s.pipeline) THEN Empty ELSE Trim[s.pipeline],
              !.sort     = IF s.sort = "newest" THEN Empty ELSE s.sort]

(* serializeRunsUrlParams: defaults are left out, the rest of u stays.     *)
Serialize(s, u) ==
    [u EXCEPT !.q        = Trim[s.search],
              !.status   = IF s.status = "all" THEN Empty ELSE s.status,
              !.branch   = IF s.branch \in {Empty, AllText} THEN Empty ELSE Trim[s.branch],
              !.pipeline = IF NoPipeline(s.pipeline) THEN Empty ELSE Trim[s.pipeline],
              !.sort     = IF s.sort = "newest" THEN Empty ELSE s.sort]
=============================================================================
