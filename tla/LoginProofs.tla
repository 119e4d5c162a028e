----------------------------- MODULE LoginProofs -----------------------------
(***************************************************************************)
(* Theorems about module Login, for every finite set of tabs, every set of *)
(* request headers, every configuration and all limits: the type invariant *)
(* and the bound on the failures the limiter records.                      *)
(***************************************************************************)
EXTENDS Login, FiniteSetTheorems, TLAPS

USE RateLimitAssumption, LoginAssumption

-----------------------------------------------------------------------------
(* The limiter's operators stay within Entries.                            *)

LEMMA EntryFields ==
    ASSUME NEW e \in Entries
    PROVE  /\ e # NoEntry
           /\ e.failures \in Nat /\ e.age \in 0 .. Window + 1 /\ e.block \in NotBlocked .. Window
  BY DEF Entries, NotBlocked

LEMMA CheckedType ==
    ASSUME NEW e \in Entries \cup {NoEntry}
    PROVE  Checked(e) \in Entries \cup {NoEntry}
  BY EntryFields DEF Checked, Entries, NotBlocked, BlockInForce, WindowOver

LEMMA FailedType ==
    ASSUME NEW e \in Entries \cup {NoEntry}
    PROVE  Failed(e) \in Entries
  BY EntryFields DEF Failed, Entries, NotBlocked, WindowOver

LEMMA AgedType ==
    ASSUME NEW e \in Entries \cup {NoEntry}
    PROVE  Aged(e) \in Entries \cup {NoEntry}
  BY EntryFields DEF Aged, Entries, NotBlocked

(* An attempt that is let through leaves an entry below the limit.         *)
LEMMA AllowedBelowLimit ==
    ASSUME NEW e \in Entries \cup {NoEntry}, Allowed(e), Checked(e) # NoEntry
    PROVE  Checked(e).failures < MaxFailures
  BY EntryFields DEF Allowed, Checked, BlockInForce, WindowOver

(* A check and a tick do not count failures.                               *)
LEMMA CheckedFailures ==
    ASSUME NEW e \in Entries \cup {NoEntry}, Checked(e) # NoEntry
    PROVE  e # NoEntry /\ Checked(e).failures = e.failures
  BY EntryFields DEF Checked, Entries

LEMMA AgedFailures ==
    ASSUME NEW e \in Entries \cup {NoEntry}, Aged(e) # NoEntry
    PROVE  e # NoEntry /\ Aged(e).failures = e.failures
  BY EntryFields DEF Aged, Entries

(* A failure starts a new count or adds one to the old.                    *)
LEMMA FailedCounts ==
    ASSUME NEW e \in Entries \cup {NoEntry}
    PROVE  \/ Failed(e).failures = 1
           \/ e # NoEntry /\ Failed(e).failures = e.failures + 1
  BY EntryFields DEF Failed, Entries

-----------------------------------------------------------------------------
(* Addresses and requests stay within their sets.                          *)

LEMMA UrlTypes ==
    /\ \A f \in Pages \cup {None} : LoginPage(f) \in Urls /\ SafeDestination(f) \in Urls
    /\ \A u \in Urls : u.from \in Pages \cup {None} /\ (u.page # "/login" => u.page \in Pages)
    /\ \A u \in Urls : Routed(u) \in Urls
  <1>1. \A f \in Pages \cup {None} : LoginPage(f) \in Urls /\ SafeDestination(f) \in Urls
    BY DEF Urls, LoginPage, SafeDestination, PageUrl
  <1>2. \A u \in Urls : u.from \in Pages \cup {None} /\ (u.page # "/login" => u.page \in Pages)
    BY DEF Urls, LoginPage, PageUrl
  <1>3. \A u \in Urls : Routed(u) \in Urls
    BY <1>1, <1>2 DEF Routed
  <1>. QED BY <1>1, <1>2, <1>3

LEMMA RequestTypes ==
    /\ {Idle, Logout, Sent, Refused} \subseteq Requests
    /\ \A u \in Urls : Navigate(u) \in Requests
    /\ \A c \in Clients : Body(c) \in Requests
    /\ \A c \in Clients, code \in Codes : Verify(c, code) \in Requests
    /\ \A s \in LongSecrets, n \in 0 .. SessionAge : Granted(s, n) \in Requests
  BY DEF Requests, Navigate, Body, Verify, Granted

LEMMA RequestFields ==
    ASSUME NEW r \in Requests
    PROVE  /\ r.op = "nav" => r.url \in Urls
           /\ r.op \in {"body", "verify"} => r.client \in Clients
           /\ r.op = "verify" => r.code \in Codes
           /\ r.op = "granted" => /\ r.secret \in LongSecrets /\ r.left \in 0 .. SessionAge
                                  /\ r = Granted(r.secret, r.left)
  BY DEF Requests, Idle, Logout, Sent, Refused, Granted

LEMMA WaitsType ==
    ASSUME TypeOK, NEW t \in Tabs, NEW r \in Requests, Waits(t, r)
    PROVE  tab' \in [Tabs -> TabStates]
  BY DEF TypeOK, Waits, TabStates

LEMMA ResolvedType ==
    ASSUME TypeOK
    PROVE  /\ Resolved \in [Settings -> Values]
           /\ ConfigOk(Resolved) => Resolved["secret"] \in LongSecrets
  BY DEF TypeOK, Resolved, Values, ConfigOk

LEMMA PrunedType ==
    ASSUME TypeOK
    PROVE  /\ Pruned \in [Clients -> Entries \cup {NoEntry}]
           /\ \A c \in Clients : Pruned[c] \in {store[c], NoEntry}
  BY DEF TypeOK, Pruned

-----------------------------------------------------------------------------
(* Type correctness.                                                       *)

LEMMA TypeInit == Init => TypeOK
  <1>. SUFFICES ASSUME Init PROVE TypeOK
    OBVIOUS
  <1>1. env \in [Settings -> Values]
    BY DEF Init, Values
  <1>2. tab \in [Tabs -> TabStates]
    BY UrlTypes, RequestTypes DEF Init, TabStates
  <1>. QED BY <1>1, <1>2 DEF Init, TypeOK

LEMMA TypeTabStep ==
    ASSUME TypeOK, NEW t \in Tabs, TabStep(t)
    PROVE  TypeOK'
  <1>. USE DEF TypeOK
  <1>t. tab[t] \in TabStates
    OBVIOUS
  <1>f. /\ tab[t].url \in Urls /\ tab[t].req \in Requests
        /\ tab[t].loading \in BOOLEAN /\ tab[t].late401 \in BOOLEAN
        /\ tab[t].polls \in BOOLEAN
    BY <1>t DEF TabStates
  <1>1. CASE \E url \in Urls : Open(t, url)
    <2>1. PICK url \in Urls : Open(t, url) BY <1>1
    <2>2. tab' \in [Tabs -> TabStates]
      BY <2>1, RequestTypes, WaitsType DEF Open
    <2>. QED BY <2>1, <2>2 DEF Open
  <1>2. CASE Follow(t)
    <2>. DEFINE url == tab[t].req.url
    <2>1. url \in Urls BY <1>2, <1>f, RequestFields DEF Follow
    <2>2. tab' \in [Tabs -> TabStates]
      <3>1. CASE Routed(url) # url
        BY <3>1, <2>1, <1>2, UrlTypes, RequestTypes, WaitsType DEF Follow
      <3>2. CASE Routed(url) = url
        <4>1. PICK kept \in BOOLEAN :
                tab' = [tab EXCEPT ![t].url = url, ![t].req = Idle,
                                   ![t].polls = url.page # "/login",
                                   ![t].loading = kept /\ @]
          BY <3>2, <1>2 DEF Follow
        <4>. DEFINE polls == url.page # "/login"
                    loading == kept /\ tab[t].loading
        <4>2. /\ polls \in BOOLEAN /\ loading \in BOOLEAN
              /\ tab' = [tab EXCEPT ![t].url = url, ![t].req = Idle,
                                    ![t].polls = polls, ![t].loading = loading]
          BY <4>1
        <4>. HIDE DEF polls, loading, url
        <4>3. [tab[t] EXCEPT !.url = url, !.req = Idle, !.polls = polls,
                             !.loading = loading] \in TabStates
          BY <4>2, <2>1, <1>t, RequestTypes DEF TabStates
        <4>4. tab' = [tab EXCEPT ![t] = [tab[t] EXCEPT !.url = url, !.req = Idle,
                                          !.polls = polls, !.loading = loading]]
          BY <4>2
        <4>. QED BY <4>3, <4>4
      <3>. QED BY <3>1, <3>2
    <2>3. env' \in [Settings -> Values]
      BY <1>2, ResolvedType DEF Follow
    <2>. QED BY <1>2, <2>2, <2>3 DEF Follow
  <1>3. CASE Submit(t)
    BY <1>3, RequestTypes DEF Submit, TabStates
  <1>4. CASE \E h \in Headers : Admit(t, h)
    <2>1. PICK h \in Headers : Admit(t, h) BY <1>4
    <2>. DEFINE c == ClientIdentifier(h)
    <2>2. c \in Clients BY DEF Clients
    <2>3. store' \in [Clients -> Entries \cup {NoEntry}]
      BY <2>1, <2>2, CheckedType DEF Admit
    <2>4. tab' \in [Tabs -> TabStates]
      BY <2>1, <2>2, RequestTypes, WaitsType DEF Admit
    <2>. QED BY <2>1, <2>3, <2>4 DEF Admit
  <1>5. CASE ReadBody(t)
    <2>. DEFINE c == tab[t].req.client
    <2>1. c \in Clients BY <1>5, <1>f, RequestFields DEF ReadBody
    <2>2. store' \in [Clients -> Entries \cup {NoEntry}]
      BY <1>5, <2>1, PrunedType, FailedType DEF ReadBody, RecordFailure
    <2>3. env' \in [Settings -> Values]
      BY <1>5, ResolvedType DEF ReadBody
    <2>4. tab' \in [Tabs -> TabStates]
      BY <1>5, <2>1, RequestTypes, WaitsType DEF ReadBody, Codes
    <2>. QED BY <1>5, <2>2, <2>3, <2>4 DEF ReadBody
  <1>6. CASE Conclude(t)
    <2>. DEFINE c == tab[t].req.client
    <2>1. c \in Clients BY <1>6, <1>f, RequestFields DEF Conclude
    <2>2. store' \in [Clients -> Entries \cup {NoEntry}]
      BY <1>6, <2>1, PrunedType, FailedType DEF Conclude, RecordFailure
    <2>3. env' \in [Settings -> Values]
      BY <1>6, ResolvedType DEF Conclude
    <2>4. SessionAge \in 0 .. SessionAge
      OBVIOUS
    <2>5. tab' \in [Tabs -> TabStates]
      BY <1>6, <2>4, ResolvedType, RequestTypes, WaitsType DEF Conclude
    <2>. QED BY <1>6, <2>2, <2>3, <2>5 DEF Conclude
  <1>7. CASE Receive(t)
    <2>1. CASE tab[t].req = Refused
      BY <1>7, <2>1, RequestTypes DEF Receive, TabStates, Refused
    <2>2. CASE tab[t].req.op = "granted"
      <3>1. jar' \in [secret : LongSecrets, left : 1 .. SessionAge] \cup {None}
        BY <1>7, <2>2, <1>f, RequestFields DEF Receive, Refused
      <3>2. Waits(t, Navigate(SafeDestination(tab[t].url.from)))
        BY <1>7, <2>2 DEF Receive, Refused
      <3>3. tab' \in [Tabs -> TabStates]
        BY <3>2, <1>f, UrlTypes, RequestTypes, WaitsType
      <3>. QED BY <1>7, <3>1, <3>3 DEF Receive
    <2>. QED BY <1>7, <2>1, <2>2 DEF Receive
  <1>8. CASE LoseLogin(t)
    BY <1>8, RequestTypes DEF LoseLogin, TabStates
  <1>9. CASE AskLogout(t)
    <2>1. tab' \in [Tabs -> TabStates]
      BY <1>9, RequestTypes, WaitsType DEF AskLogout
    <2>. QED BY <1>9, <2>1 DEF AskLogout
  <1>10. CASE \E h \in Headers : LoggedOut(t, h)
    <2>1. PICK h \in Headers : LoggedOut(t, h) BY <1>10
    <2>2. tab' \in [Tabs -> TabStates]
      BY <2>1, UrlTypes, RequestTypes, WaitsType DEF LoggedOut
    <2>. QED BY <2>1, <2>2 DEF LoggedOut
  <1>11. CASE CallApi(t)
    <2>1. PICK status \in ApiStatuses :
            tab' = [tab EXCEPT ![t].late401 = @ \/ status = 401]
      BY <1>11 DEF CallApi
    <2>. DEFINE late == tab[t].late401 \/ status = 401
    <2>2. late \in BOOLEAN /\ tab' = [tab EXCEPT ![t].late401 = late]
      BY <2>1
    <2>. HIDE DEF late
    <2>3. tab' \in [Tabs -> TabStates]
      <3>1. [tab[t] EXCEPT !.late401 = late] \in TabStates
        BY <2>2, <1>t DEF TabStates
      <3>2. tab' = [tab EXCEPT ![t] = [tab[t] EXCEPT !.late401 = late]]
        BY <2>2
      <3>. QED BY <3>1, <3>2
    <2>4. env' \in [Settings -> Values]
      BY <1>11, ResolvedType DEF CallApi
    <2>. QED BY <1>11, <2>3, <2>4 DEF CallApi
  <1>12. CASE Hear401(t)
    <2>. DEFINE next == IF AtLogin(t) THEN tab[t].req ELSE Navigate(LoginPage(tab[t].url.page))
    <2>1. next \in Requests
      BY <1>f, UrlTypes, RequestTypes DEF AtLogin
    <2>2. tab' = [tab EXCEPT ![t].late401 = FALSE, ![t].req = next]
      BY <1>12 DEF Hear401
    <2>3. tab' \in [Tabs -> TabStates]
      <3>. HIDE DEF next
      <3>1. [tab[t] EXCEPT !.late401 = FALSE, !.req = next] \in TabStates
        BY <2>1, <1>t DEF TabStates
      <3>2. tab' = [tab EXCEPT ![t] = [tab[t] EXCEPT !.late401 = FALSE, !.req = next]]
        BY <2>2
      <3>. QED BY <3>1, <3>2
    <2>. QED BY <1>12, <2>3 DEF Hear401
  <1>13. CASE PollingEnds(t)
    BY <1>13 DEF PollingEnds, TabStates
  <1>. QED BY <1>1, <1>2, <1>3, <1>4, <1>5, <1>6, <1>7, <1>8, <1>9, <1>10, <1>11, <1>12,
              <1>13 DEF TabStep

LEMMA TypeNext == TypeOK /\ [Next]_vars => TypeOK'
  <1>. SUFFICES ASSUME TypeOK, [Next]_vars PROVE TypeOK'
    OBVIOUS
  <1>1. CASE \E t \in Tabs : TabStep(t)
    BY <1>1, TypeTabStep
  <1>2. CASE Tick
    <2>1. store' \in [Clients -> Entries \cup {NoEntry}]
      BY <1>2, AgedType DEF TypeOK, Tick
    <2>2. jar' \in [secret : LongSecrets, left : 1 .. SessionAge] \cup {None}
      BY <1>2 DEF TypeOK, Tick
    <2>3. tab' \in [Tabs -> TabStates]
      <3>1. SUFFICES ASSUME NEW t \in Tabs, tab[t].req.op = "granted", tab[t].req.left > 0
                     PROVE  [tab[t] EXCEPT !.req.left = @ - 1] \in TabStates
        BY <1>2 DEF TypeOK, Tick
      <3>2. /\ tab[t] \in TabStates /\ tab[t].req \in Requests
        BY DEF TypeOK, TabStates
      <3>3. [tab[t].req EXCEPT !.left = @ - 1] \in Requests
        <4>1. [tab[t].req EXCEPT !.left = @ - 1]
                = Granted(tab[t].req.secret, tab[t].req.left - 1)
          BY <3>1, <3>2, RequestFields DEF Granted
        <4>2. tab[t].req.left - 1 \in 0 .. SessionAge
          BY <3>1, <3>2, RequestFields
        <4>. QED BY <3>1, <3>2, <4>1, <4>2, RequestFields, RequestTypes
      <3>. QED BY <3>2, <3>3 DEF TabStates
    <2>. QED BY <1>2, <2>1, <2>2, <2>3 DEF TypeOK, Tick
  <1>3. CASE Edit
    BY <1>3 DEF TypeOK, Edit
  <1>4. CASE Restart
    <2>1. env' \in [Settings -> Values]
      BY <1>4 DEF Restart, Values
    <2>2. tab' \in [Tabs -> TabStates]
      BY <1>4, RequestTypes DEF TypeOK, Restart, TabStates
    <2>. QED BY <1>4, <2>1, <2>2 DEF TypeOK, Restart
  <1>5. CASE UNCHANGED vars
    BY <1>5 DEF TypeOK, vars
  <1>. QED BY <1>1, <1>2, <1>3, <1>4, <1>5 DEF Next

(* The state keeps its types.                                              *)
THEOREM TypeCorrect == Spec => []TypeOK
  BY TypeInit, TypeNext, PTL DEF Spec

-----------------------------------------------------------------------------
(* The bound on recorded failures.  What an attempt may do to a client's
   entry is one of four things: leave it without an entry or below the
   limit; leave its count alone, with no new attempt let through; or count
   one failure for an attempt that is then over.                           *)
Counts(c) ==
    \/ store'[c] = NoEntry
    \/ store'[c].failures < MaxFailures
    \/ /\ store[c] # NoEntry /\ store'[c].failures = store[c].failures
       /\ Admitted(c)' \subseteq Admitted(c)
    \/ \E t \in Admitted(c) :
          /\ Admitted(c)' \subseteq Admitted(c) \ {t}
          /\ \/ store'[c].failures = 1
             \/ store[c] # NoEntry /\ store'[c].failures = store[c].failures + 1

LEMMA AdmittedFinite ==
    ASSUME NEW c
    PROVE  /\ IsFiniteSet(Admitted(c)) /\ Cardinality(Admitted(c)) \in Nat
           /\ Cardinality(Admitted(c)) <= Cardinality(Tabs)
           /\ Cardinality(Tabs) \in Nat
  <1>1. Admitted(c) \in SUBSET Tabs BY DEF Admitted
  <1>. QED BY <1>1, FS_Subset, FS_CardinalityType

LEMMA CountsKeepsBound ==
    ASSUME TypeOK, TypeOK', FailuresBounded, \A c \in Clients : Counts(c)
    PROVE  FailuresBounded'
  <1>. SUFFICES ASSUME NEW c \in Clients, store'[c] # NoEntry, store'[c].failures >= MaxFailures
                PROVE  store'[c].failures + Cardinality(Admitted(c)') < MaxFailures + Cardinality(Tabs)
    BY DEF FailuresBounded
  <1>1. store'[c].failures \in Nat /\ (store[c] # NoEntry => store[c].failures \in Nat)
    BY EntryFields DEF TypeOK
  <1>2. CASE /\ store[c] # NoEntry /\ store'[c].failures = store[c].failures
             /\ Admitted(c)' \subseteq Admitted(c)
    <2>1. Cardinality(Admitted(c)') <= Cardinality(Admitted(c)) /\ Cardinality(Admitted(c)') \in Nat
      BY <1>2, AdmittedFinite, FS_Subset, FS_CardinalityType
    <2>. QED BY <1>1, <1>2, <2>1, AdmittedFinite DEF FailuresBounded
  <1>3. CASE \E t \in Admitted(c) :
               /\ Admitted(c)' \subseteq Admitted(c) \ {t}
               /\ \/ store'[c].failures = 1
                  \/ store[c] # NoEntry /\ store'[c].failures = store[c].failures + 1
    <2>1. PICK t \in Admitted(c) :
               /\ Admitted(c)' \subseteq Admitted(c) \ {t}
               /\ \/ store'[c].failures = 1
                  \/ store[c] # NoEntry /\ store'[c].failures = store[c].failures + 1
      BY <1>3
    <2>2. /\ IsFiniteSet(Admitted(c) \ {t})
          /\ Cardinality(Admitted(c) \ {t}) = Cardinality(Admitted(c)) - 1
      BY AdmittedFinite, FS_RemoveElement
    <2>3. Cardinality(Admitted(c)') <= Cardinality(Admitted(c)) - 1 /\ Cardinality(Admitted(c)') \in Nat
      BY <2>1, <2>2, FS_Subset, FS_CardinalityType
    <2>. QED BY <1>1, <2>1, <2>3, AdmittedFinite DEF FailuresBounded
  <1>. QED BY <1>1, <1>2, <1>3 DEF Counts

(* A step of a tab that leaves the limiter alone lets nothing through.     *)
LEMMA QuietStep ==
    ASSUME TypeOK, TypeOK', UNCHANGED store,
           \A c \in Clients : Admitted(c)' \subseteq Admitted(c)
    PROVE  \A c \in Clients : Counts(c)
  BY EntryFields DEF Counts, TypeOK

LEMMA CountsTabStep ==
    ASSUME TypeOK, TypeOK', NEW t \in Tabs, TabStep(t)
    PROVE  \A c \in Clients : Counts(c)
  <1>. USE DEF TypeOK
  <1>f. tab[t].req \in Requests
    BY DEF TabStates
  <1>q. ASSUME UNCHANGED store,
               \A u \in Tabs \ {t} : tab'[u] = tab[u],
               \/ tab'[t].req.op \notin {"body", "verify"}
               \/ /\ tab[t].req.op \in {"body", "verify"}
                  /\ tab'[t].req.client = tab[t].req.client
        PROVE  \A c \in Clients : Counts(c)
    BY <1>q, QuietStep DEF Admitted
  <1>r. ASSUME tab[t].req.op \in {"body", "verify"}, RecordFailure(tab[t].req.client),
               Waits(t, Refused)
        PROVE  \A c \in Clients : Counts(c)
    <2>. TAKE d \in Clients
    <2>. DEFINE c == tab[t].req.client
    <2>1. c \in Clients BY <1>r, <1>f, RequestFields
    <2>2. Admitted(d)' \subseteq Admitted(d) /\ t \notin Admitted(d)'
      BY <1>r DEF Waits, Refused, Admitted
    <2>3. CASE d = c
      <3>1. t \in Admitted(d) BY <1>r, <2>3 DEF Admitted
      <3>2. store'[d] = Failed(Pruned[d]) /\ Pruned[d] \in {store[d], NoEntry}
        BY <1>r, <2>1, <2>3, PrunedType DEF RecordFailure
      <3>3. \/ store'[d].failures = 1
            \/ store[d] # NoEntry /\ store'[d].failures = store[d].failures + 1
        BY <3>2, FailedCounts
      <3>. QED BY <2>2, <3>1, <3>3 DEF Counts
    <2>4. CASE d # c
      <3>1. store'[d] \in {store[d], NoEntry}
        BY <1>r, <2>1, <2>4, PrunedType DEF RecordFailure
      <3>. QED BY <2>2, <3>1 DEF Counts
    <2>. QED BY <2>3, <2>4
  <1>1. CASE \E url \in Urls : Open(t, url)
    BY <1>1, <1>q DEF Open, Waits, Navigate, TabStates
  <1>2. CASE Follow(t)
    BY <1>2, <1>q DEF Follow, Waits, Navigate, Idle, TabStates
  <1>3. CASE Submit(t)
    BY <1>3, <1>q DEF Submit, Sent, TabStates
  <1>4. CASE \E h \in Headers : Admit(t, h)
    <2>1. PICK h \in Headers : Admit(t, h) BY <1>4
    <2>. DEFINE c == ClientIdentifier(h)
    <2>2. c \in Clients BY DEF Clients
    <2>3. CASE ~OriginAllowed(h)
      BY <2>1, <2>3, <1>q DEF Admit, Waits, Refused, TabStates
    <2>4. CASE OriginAllowed(h)
      <3>. TAKE d \in Clients
      <3>1. store' = [store EXCEPT ![c] = Checked(@)] /\ Waits(t, IF Allowed(store[c]) THEN Body(c) ELSE Refused)
        BY <2>1, <2>4 DEF Admit
      <3>2. CASE d # c
        <4>1. store'[d] = store[d] BY <3>1, <3>2, <2>2
        <4>2. Admitted(d)' \subseteq Admitted(d)
          BY <3>1, <3>2 DEF Waits, Body, Refused, Admitted
        <4>. QED BY <4>1, <4>2 DEF Counts
      <3>3. CASE d = c /\ Allowed(store[c])
        BY <3>1, <3>3, <2>2, AllowedBelowLimit DEF Counts
      <3>4. CASE d = c /\ ~Allowed(store[c])
        <4>1. Admitted(d)' \subseteq Admitted(d)
          BY <3>1, <3>4 DEF Waits, Refused, Admitted
        <4>. QED BY <3>1, <3>4, <4>1, <2>2, CheckedFailures DEF Counts
      <3>. QED BY <3>2, <3>3, <3>4
    <2>. QED BY <2>3, <2>4
  <1>5. CASE ReadBody(t)
    <2>1. CASE RecordFailure(tab[t].req.client) /\ Waits(t, Refused)
      BY <1>5, <2>1, <1>r DEF ReadBody
    <2>2. CASE UNCHANGED store /\ \E code \in Codes : Waits(t, Verify(tab[t].req.client, code))
      BY <1>5, <2>2, <1>q DEF ReadBody, Waits, Verify, TabStates
    <2>. QED BY <1>5, <2>1, <2>2 DEF ReadBody, Codes
  <1>6. CASE Conclude(t)
    <2>1. CASE tab[t].req.code = "CONFIG_ERROR"
      BY <1>6, <2>1, <1>q DEF Conclude, Waits, Refused, TabStates
    <2>2. CASE tab[t].req.code = "INVALID_CREDENTIALS"
      BY <1>6, <2>2, <1>r DEF Conclude
    <2>3. CASE tab[t].req.code = "OK"
      <3>. TAKE d \in Clients
      <3>. DEFINE c == tab[t].req.client
      <3>1. c \in Clients BY <1>6, <1>f, RequestFields DEF Conclude
      <3>2. store' = [store EXCEPT ![c] = NoEntry] BY <1>6, <2>3 DEF Conclude
      <3>3. Admitted(d)' \subseteq Admitted(d)
        <4>1. \E r : Waits(t, r) /\ r.op \in {"granted", "refused"}
          BY <1>6, <2>3 DEF Conclude, Refused, Granted
        <4>2. /\ \A u \in Tabs \ {t} : tab'[u] = tab[u]
              /\ tab'[t].req.op \notin {"body", "verify"}
          BY <4>1 DEF Waits, TabStates
        <4>. QED BY <4>2 DEF Admitted
      <3>. QED BY <3>1, <3>2, <3>3 DEF Counts
    <2>. QED BY <1>6, <2>1, <2>2, <2>3 DEF Conclude
  <1>7. CASE Receive(t)
    BY <1>7, <1>q DEF Receive, Waits, Navigate, Idle, TabStates
  <1>8. CASE LoseLogin(t)
    BY <1>8, <1>q DEF LoseLogin, Idle, TabStates
  <1>9. CASE AskLogout(t)
    BY <1>9, <1>q DEF AskLogout, Waits, Logout, TabStates
  <1>10. CASE \E h \in Headers : LoggedOut(t, h)
    BY <1>10, <1>q DEF LoggedOut, Waits, Navigate, TabStates
  <1>11. CASE CallApi(t)
    <2>1. PICK status \in ApiStatuses :
            tab' = [tab EXCEPT ![t].late401 = @ \/ status = 401]
      BY <1>11 DEF CallApi
    <2>2. \A u \in Tabs : tab'[u].req = tab[u].req
      BY <2>1 DEF TabStates
    <2>. QED BY <1>11, <2>2, QuietStep DEF CallApi, Admitted
  <1>12. CASE Hear401(t)
    BY <1>12, <1>q DEF Hear401, Navigate, TabStates
  <1>13. CASE PollingEnds(t)
    <2>1. \A u \in Tabs : tab'[u].req = tab[u].req
      BY <1>13 DEF PollingEnds, TabStates
    <2>. QED BY <1>13, <2>1, QuietStep DEF PollingEnds, Admitted
  <1>. QED BY <1>1, <1>2, <1>3, <1>4, <1>5, <1>6, <1>7, <1>8, <1>9, <1>10, <1>11, <1>12,
              <1>13 DEF TabStep

LEMMA BoundNext == TypeOK /\ TypeOK' /\ FailuresBounded /\ [Next]_vars => FailuresBounded'
  <1>. SUFFICES ASSUME TypeOK, TypeOK', FailuresBounded, [Next]_vars PROVE FailuresBounded'
    OBVIOUS
  <1>1. CASE \E t \in Tabs : TabStep(t)
    BY <1>1, CountsTabStep, CountsKeepsBound
  <1>2. CASE Tick
    <2>1. \A u \in Tabs : /\ tab'[u].req.op = tab[u].req.op
                          /\ tab[u].req.op # "granted" => tab'[u].req = tab[u].req
      BY <1>2 DEF Tick, TypeOK, TabStates, Requests
    <2>2. \A c \in Clients : Admitted(c)' \subseteq Admitted(c)
      BY <2>1 DEF Admitted
    <2>3. \A c \in Clients : Counts(c)
      BY <1>2, <2>2, AgedFailures DEF Tick, TypeOK, Counts
    <2>. QED BY <2>3, CountsKeepsBound
  <1>3. CASE Edit
    BY <1>3, QuietStep, CountsKeepsBound DEF Edit, Admitted
  <1>4. CASE Restart
    BY <1>4 DEF Restart, FailuresBounded
  <1>5. CASE UNCHANGED vars
    BY <1>5, QuietStep, CountsKeepsBound DEF vars, Admitted
  <1>. QED BY <1>1, <1>2, <1>3, <1>4, <1>5 DEF Next

(* However many attempts are under way together, a client's entry never
   counts more failures than the limit and the tabs allow.                 *)
THEOREM FailuresStayBounded == Spec => []FailuresBounded
  <1>1. Init => FailuresBounded
    BY DEF Init, FailuresBounded
  <1>. QED BY <1>1, TypeCorrect, BoundNext, PTL DEF Spec
=============================================================================
