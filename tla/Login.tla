-------------------------------- MODULE Login --------------------------------
(***************************************************************************)
(* Signing in to the dashboard: the tabs of one browser, which share a     *)
(* cookie jar; the proxy that guards every page (proxy.ts); the login and  *)
(* logout routes with their rate limiter (lib/auth-server.ts); the API     *)
(* route in front of the daemon; the configuration the server reads from   *)
(* its environment and its .env files (lib/server-config.ts); and time.    *)
(*                                                                         *)
(* A login attempt is cut where its handler awaits: the limiter is         *)
(* consulted, then the body is read, then the password is compared, then   *)
(* the result is recorded, and other attempts run in between.              *)
(***************************************************************************)
EXTENDS RateLimit, FiniteSets

CONSTANTS Tabs,             \* at most this many attempts are under way at once
          Pages, Home,      \* the protected pages, and "/runs"
          Headers,          \* the request headers the routes look at
          TrustProxy,       \* DASHBOARD_TRUST_PROXY
          DirectOperator,   \* the bucket of every request that is not told apart
          MaxEntries,       \* MAX_STORE_ENTRIES
          SessionAge,       \* SESSION_MAX_AGE_SECONDS, in ticks
          Files,            \* the contents the .env file may have
          LongSecrets,      \* the values of at least MIN_SECRET_LENGTH
          DaemonAccepts,    \* the daemon accepts the token it is sent
          None              \* no value, no header, no page

ASSUME LoginAssumption ==
    /\ IsFiniteSet(Tabs)
    /\ Home \in Pages /\ None \notin Pages /\ "/login" \notin Pages
    /\ TrustProxy \in BOOLEAN /\ DaemonAccepts \in BOOLEAN
    /\ MaxEntries \in Nat \ {0}
    /\ SessionAge \in Nat \ {0}

VARIABLES store,            \* rateLimitStore
          file, env,        \* the .env file; process.env
          jar,              \* the session cookie
          tab               \* what each tab shows and waits for


vars == <<store, file, env, jar, tab>>

-----------------------------------------------------------------------------
(* Configuration.                                                          *)

Settings == {"password", "secret", "token"}

Values == {None} \cup UNION {{f[k] : k \in Settings} : f \in Files}

(* resolveEnvKey, for each setting: process.env first, then the file, whose
   value is remembered in process.env.                                     *)
Resolved == [k \in Settings |-> IF env[k] # None THEN env[k] ELSE file[k]]

(* Seeded fault: the configuration check forgets the session secret.       *)
ConfigOkAnySecret(c) == c["password"] # None /\ c["token"] # c["password"]

(* getAuthConfigStatus of the resolved settings.  One daemon token stands
   for the comma-separated list, whose members are tested alike.           *)
ConfigOk(c) ==
    /\ c["password"] # None
    /\ c["secret"] # None /\ c["secret"] \in LongSecrets
    /\ c["password"] # c["secret"]
    /\ c["token"] # None => c["token"] \notin {c["password"], c["secret"]}

(* isRequestAuthenticated: the cookie is there, was signed with the secret
   in use and has time left.                                               *)
Authenticated ==
    /\ jar # None
    /\ ConfigOk(Resolved)
    /\ jar.secret = Resolved["secret"]
    /\ jar.left > 0

-----------------------------------------------------------------------------
(* Requests.                                                               *)

(* validateStateChangingOrigin of a POST.  A header that is malformed, or
   names another host, is a value that differs from the request's host.    *)
OriginAllowed(h) ==
    /\ h.site # "cross-site"
    /\ h.host # None
    /\ IF h.origin # None THEN h.origin = h.host
       ELSE h.referer # None => h.referer = h.host

(* getClientIdentifier; forwarded is the rightmost hop.                    *)
ClientIdentifier(h) ==
    IF TrustProxy /\ h.realIp # None THEN h.realIp
    ELSE IF TrustProxy /\ h.forwarded # None THEN h.forwarded
    ELSE DirectOperator

Clients == {ClientIdentifier(h) : h \in Headers}

(* Where a tab may be: a protected page, or the login page with a "from"
   parameter.  None stands for a "from" that is absent and for one that
   isSafeRedirect refuses: another site, an escape, or /login itself.      *)
LoginPage(from) == [page |-> "/login", from |-> from]
PageUrl(p) == [page |-> p, from |-> None]
Urls == {LoginPage(f) : f \in Pages \cup {None}} \cup {PageUrl(p) : p \in Pages}

(* isSafeRedirect in the proxy, getSafeDestination in the form.            *)
SafeDestination(from) == PageUrl(IF from = None THEN Home ELSE from)

AtLogin(t) == tab[t].url.page = "/login"

(* What a tab waits for.                                                   *)
Idle == [op |-> "idle"]
Navigate(url) == [op |-> "nav", url |-> url]
Logout == [op |-> "logout"]
Sent == [op |-> "sent"]
Body(c) == [op |-> "body", client |-> c]
Verify(c, code) == [op |-> "verify", client |-> c, code |-> code]
Refused == [op |-> "refused"]
Granted(s, left) == [op |-> "granted", secret |-> s, left |-> left]

Codes == {"OK", "INVALID_CREDENTIALS", "CONFIG_ERROR"}
Requests ==
    {Idle, Logout, Sent, Refused}
    \cup [op : {"nav"}, url : Urls]
    \cup [op : {"body"}, client : Clients]
    \cup [op : {"verify"}, client : Clients, code : Codes]
    \cup [op : {"granted"}, secret : LongSecrets, left : 0 .. SessionAge]

(* polls: the page shown calls the API again and again.                    *)
TabStates == [url : Urls, polls : BOOLEAN, req : Requests, loading : BOOLEAN,
              late401 : BOOLEAN]

(* The attempts the limiter has let through and not heard the end of.      *)
Admitted(c) == {t \in Tabs : tab[t].req.op \in {"body", "verify"} /\ tab[t].req.client = c}

TypeOK ==
    /\ store \in [Clients -> Entries \cup {NoEntry}]
    /\ file \in Files
    /\ env \in [Settings -> Values]
    /\ jar \in [secret : LongSecrets, left : 1 .. SessionAge] \cup {None}
    /\ tab \in [Tabs -> TabStates]

-----------------------------------------------------------------------------
(* Any page opened without a session ends on the login page.               *)
Init ==
    /\ store = [c \in Clients |-> NoEntry]
    /\ file \in Files
    /\ env = [k \in Settings |-> None]
    /\ jar = None
    /\ tab = [t \in Tabs |-> [url |-> LoginPage(None), polls |-> FALSE, req |-> Idle,
                              loading |-> FALSE, late401 |-> FALSE]]

Waits(t, req) == tab' = [tab EXCEPT ![t].req = req]

-----------------------------------------------------------------------------
(* The proxy.                                                              *)

(* The operator opens a page, follows a link or reloads.                   *)
Open(t, url) ==
    /\ tab[t].req = Idle
    /\ Waits(t, Navigate(url))
    /\ UNCHANGED <<store, file, env, jar>>

(* Seeded fault: the login page redirects whether there is a session or not. *)
RoutedWithoutSessionTest(url) ==
    IF url.page = "/login" THEN SafeDestination(url.from)
    ELSE IF ~Authenticated THEN LoginPage(url.page)
    ELSE url

(* Where the proxy sends a request for url; url itself when it is served.  *)
Routed(url) ==
    IF url.page = "/login" /\ Authenticated THEN SafeDestination(url.from)
    ELSE IF url.page # "/login" /\ ~Authenticated THEN LoginPage(url.page)
    ELSE url

(* A redirect is followed; a page that is served is shown.  When one login
   page replaces another the router may keep the form, and its loading
   state with it.                                                          *)
Follow(t) ==
    /\ tab[t].req.op = "nav"
    /\ LET url == tab[t].req.url IN
       IF Routed(url) # url THEN Waits(t, Navigate(Routed(url)))
       ELSE \E kept \in BOOLEAN :
              /\ kept => AtLogin(t) /\ url.page = "/login"
              /\ tab' = [tab EXCEPT ![t].url = url, ![t].req = Idle,
                                    ![t].polls = url.page # "/login",
                                    ![t].loading = kept /\ @]
    /\ env' = IF jar = None THEN env ELSE Resolved
    /\ UNCHANGED <<store, file, jar>>

-----------------------------------------------------------------------------
(* The login route.                                                        *)

(* handleSubmit: the form is not sent twice.                               *)
Submit(t) ==
    /\ AtLogin(t) /\ tab[t].req = Idle
    /\ ~tab[t].loading
    /\ tab' = [tab EXCEPT ![t].req = Sent, ![t].loading = TRUE]
    /\ UNCHANGED <<store, file, env, jar>>

(* Up to the first await: the origin (403), then the limiter (429).        *)
Admit(t, h) ==
    /\ tab[t].req = Sent
    /\ LET c == ClientIdentifier(h) IN
       \/ /\ ~OriginAllowed(h)
          /\ Waits(t, Refused)
          /\ UNCHANGED store
       \/ /\ OriginAllowed(h)
          /\ store' = [store EXCEPT ![c] = Checked(@)]
          /\ Waits(t, IF Allowed(store[c]) THEN Body(c) ELSE Refused)
    /\ UNCHANGED <<file, env, jar>>

(* recordFailedAttempt: at its limit the map is pruned first.              *)
Pruned == IF Cardinality({c \in Clients : store[c] # NoEntry}) >= MaxEntries
          THEN [c \in Clients |-> IF Expired(store[c]) THEN NoEntry ELSE store[c]]
          ELSE store

RecordFailure(c) == store' = [Pruned EXCEPT ![c] = Failed(@)]

(* The body arrives, and verifyPassword reads the configuration and starts
   to hash; or the body cannot be read, which counts as a failure (400).   *)
ReadBody(t) ==
    /\ tab[t].req.op = "body"
    /\ LET c == tab[t].req.client IN
       \/ /\ RecordFailure(c)
          /\ Waits(t, Refused)
          /\ UNCHANGED env
       \/ /\ env' = Resolved
          /\ \E code \in IF ConfigOk(Resolved) THEN {"OK", "INVALID_CREDENTIALS"}
                                               ELSE {"CONFIG_ERROR"} :
                Waits(t, Verify(c, code))
          /\ UNCHANGED store
    /\ UNCHANGED <<file, jar>>

(* The comparison is done.  A wrong password is recorded (401), a broken
   configuration is not (500); the right one resets the limiter, and a
   session token is signed, whose lifetime runs from here.                 *)
Conclude(t) ==
    /\ tab[t].req.op = "verify"
    /\ LET c == tab[t].req.client IN
       \/ /\ tab[t].req.code = "CONFIG_ERROR"
          /\ Waits(t, Refused)
          /\ UNCHANGED <<store, env>>
       \/ /\ tab[t].req.code = "INVALID_CREDENTIALS"
          /\ RecordFailure(c)
          /\ Waits(t, Refused)
          /\ UNCHANGED env
       \/ /\ tab[t].req.code = "OK"
          /\ store' = [store EXCEPT ![c] = NoEntry]
          /\ env' = Resolved
          /\ Waits(t, IF ConfigOk(Resolved) THEN Granted(Resolved["secret"], SessionAge)
                      ELSE Refused)
    /\ UNCHANGED <<file, jar>>

(* The form hears the answer: an error ends loading; a success stores the
   cookie and leaves for the page the operator came from, still loading.   *)
Receive(t) ==
    /\ \/ /\ tab[t].req = Refused
          /\ tab' = [tab EXCEPT ![t].req = Idle, ![t].loading = FALSE]
          /\ UNCHANGED jar
       \/ /\ tab[t].req.op = "granted"
          /\ jar' = IF tab[t].req.left = 0 THEN None
                    ELSE [secret |-> tab[t].req.secret, left |-> tab[t].req.left]
          /\ Waits(t, Navigate(SafeDestination(tab[t].url.from)))
    /\ UNCHANGED <<store, file, env>>

(* The request or its answer is lost: the form's catch.                    *)
LoseLogin(t) ==
    /\ tab[t].req.op \in {"sent", "refused", "granted"}
    /\ tab' = [tab EXCEPT ![t].req = Idle, ![t].loading = FALSE]
    /\ UNCHANGED <<store, file, env, jar>>

-----------------------------------------------------------------------------
(* Signed in.                                                              *)

(* handleLogout of the navigation bar.                                     *)
AskLogout(t) ==
    /\ ~AtLogin(t) /\ tab[t].req = Idle
    /\ Waits(t, Logout)
    /\ UNCHANGED <<store, file, env, jar>>

(* The route clears the cookie unless it refuses the origin or the call is
   lost; the tab leaves for the login page in every case.                  *)
LoggedOut(t, h) ==
    /\ tab[t].req = Logout
    /\ \/ OriginAllowed(h) /\ jar' = None
       \/ UNCHANGED jar
    /\ Waits(t, Navigate(LoginPage(None)))
    /\ UNCHANGED <<store, file, env>>

(* What a page's call of the API may answer: the session, then the daemon's
   token, then the daemon, whose status is passed through.                 *)
ApiStatuses ==
    IF ~Authenticated THEN {401}
    ELSE IF Resolved["token"] = None THEN {500}
    ELSE {IF DaemonAccepts THEN 200 ELSE 401, 502}

(* A protected page calls the API when it is opened or used, and polls.
   Only a 401 has an effect on the tab, and it may be heard late, when the
   tab has moved on.                                                       *)
CallApi(t) ==
    /\ ~AtLogin(t)
    /\ \E status \in ApiStatuses :
          tab' = [tab EXCEPT ![t].late401 = @ \/ status = 401]
    /\ env' = IF jar = None THEN env ELSE Resolved
    /\ UNCHANGED <<store, file, jar>>

(* The page of a run stops its interval once it has seen the run end.      *)
PollingEnds(t) ==
    /\ tab[t].polls
    /\ tab' = [tab EXCEPT ![t].polls = FALSE]
    /\ UNCHANGED <<store, file, env, jar>>

(* handleApiResponse: a full navigation to the login page, from wherever
   the tab is by then, unless that is the login page.                      *)
Hear401(t) ==
    /\ tab[t].late401
    /\ tab[t].req.op \in {"idle", "nav"}
    /\ tab' = [tab EXCEPT ![t].late401 = FALSE,
                          ![t].req = IF AtLogin(t) THEN @
                                     ELSE Navigate(LoginPage(tab[t].url.page))]
    /\ UNCHANGED <<store, file, env, jar>>

-----------------------------------------------------------------------------
(* Time passes for the limiter and for every session.                      *)
Tick ==
    /\ store' = [c \in Clients |-> Aged(store[c])]
    /\ jar' = IF jar = None \/ jar.left = 1 THEN None ELSE [jar EXCEPT !.left = @ - 1]
    /\ tab' = [t \in Tabs |->
                 IF tab[t].req.op = "granted" /\ tab[t].req.left > 0
                 THEN [tab[t] EXCEPT !.req.left = @ - 1] ELSE tab[t]]
    /\ UNCHANGED <<file, env>>

(* The operator edits the .env file.                                       *)
Edit ==
    /\ file' \in Files \ {file}
    /\ UNCHANGED <<store, env, jar, tab>>

(* The server restarts: the limiter and process.env are forgotten, and the
   attempts it was working on fail.                                        *)
Restart ==
    /\ store' = [c \in Clients |-> NoEntry]
    /\ env' = [k \in Settings |-> None]
    /\ tab' = [t \in Tabs |->
                 IF tab[t].req.op \in {"body", "verify"}
                 THEN [tab[t] EXCEPT !.req = Idle, !.loading = FALSE] ELSE tab[t]]
    /\ UNCHANGED <<file, jar>>

-----------------------------------------------------------------------------
TabStep(t) ==
    \/ \E url \in Urls : Open(t, url)
    \/ Follow(t)
    \/ Submit(t)
    \/ \E h \in Headers : Admit(t, h)
    \/ ReadBody(t)
    \/ Conclude(t)
    \/ Receive(t)
    \/ LoseLogin(t)
    \/ AskLogout(t)
    \/ \E h \in Headers : LoggedOut(t, h)
    \/ CallApi(t)
    \/ PollingEnds(t)
    \/ Hear401(t)

Next ==
    \/ \E t \in Tabs : TabStep(t)
    \/ Tick
    \/ Edit
    \/ Restart

(* Requests are answered, navigations followed and answers handled; a page
   that polls goes on polling.  Operators need not do anything, and a session
   may outlast whatever they do.                                           *)
Fairness ==
    /\ \A t \in Tabs :
         /\ WF_vars(Follow(t))
         /\ WF_vars(\E h \in Headers : Admit(t, h))
         /\ WF_vars(ReadBody(t))
         /\ WF_vars(Conclude(t))
         /\ WF_vars(Receive(t))
         /\ WF_vars(\E h \in Headers : LoggedOut(t, h))
         /\ WF_vars(tab[t].polls /\ CallApi(t))
         /\ WF_vars(Hear401(t))

Spec == Init /\ [][Next]_vars /\ Fairness

-----------------------------------------------------------------------------
(* Attempts that were admitted together may all fail after the limit is
   reached, but each is counted against the room that is left: an entry
   never holds more than MaxFailures - 1 failures beyond those of the
   attempts the tabs can have under way (auth-server.ts:405, login
   route.ts:25-70).                                                        *)
FailuresBounded ==
    \A c \in Clients :
        (store[c] # NoEntry /\ store[c].failures >= MaxFailures) =>
            store[c].failures + Cardinality(Admitted(c)) < MaxFailures + Cardinality(Tabs)

(* A client that is locked out is let in again some time later, whatever
   the tabs go on doing, if time passes: neither refused attempts nor
   attempts that were already under way prolong a block for ever
   (auth-server.ts:395-427).                                               *)
LockoutEnds ==
    WF_vars(Tick) => \A c \in Clients : ~Allowed(store[c]) ~> Allowed(store[c])

(* Redirects lead somewhere: once there is a session for good, or none,
   every navigation of a tab comes to an end, and without a session it ends
   on the login page, unless the page shown has stopped to ask.  The proxy's
   redirects, the destinations of the form and the pages' 401 handling make
   no endless chain (proxy.ts:42-56, api.ts:60-71, login page.tsx:46-62).  *)
AtRest(t) ==
    /\ tab[t].req.op # "nav"
    /\ ~Authenticated => AtLogin(t) \/ ~tab[t].polls
NavigationSettles ==
    (<>[]Authenticated \/ <>[]~Authenticated) => \A t \in Tabs : []<>AtRest(t)
=============================================================================
