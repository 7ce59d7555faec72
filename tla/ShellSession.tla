---------------------------- MODULE ShellSession ----------------------------
(***************************************************************************)
(* The session of the browser shell: the requests of one page, the         *)
(* interceptors that replay them after a token refresh or a secondary      *)
(* verification (api/request.ts), sign-in (Login.tsx), sign-out            *)
(* (AppLayout.tsx) and the session service they talk to.                   *)
(*                                                                         *)
(* A sign-in creates a session and its first token pair; a refresh         *)
(* consumes the pair's refresh token and issues the next pair, with a CSRF *)
(* token of its own.  The browser holds one pair in its cookies and sends  *)
(* it with every request.  Every request of the model is a write, so it    *)
(* must carry the CSRF token of the pair it is sent with.                  *)
(***************************************************************************)
EXTENDS Naturals

CONSTANTS Plain,        \* requests that need a session only
          Guarded,      \* requests that need a secondary verification too
          MaxSessions,  \* bound on the sign-ins of a behaviour
          MaxPairs,     \* bound on the token pairs issued
          MaxFaults,    \* bound on the events of the environment, lost refreshes apart
          Events        \* what the environment may do

Business == Plain \cup Guarded
\* The shell's own requests: the verification modal's POST and the sign-out's.
Reqs == Business \cup {"check", "logout"}
Pairs == 1..MaxPairs
Sessions == 1..MaxSessions
None == 0

ASSUME SessionAssumption ==
  /\ MaxSessions \in Nat \ {0} /\ MaxPairs \in Nat \ {0} /\ MaxFaults \in Nat
  /\ {"check", "logout", "none"} \cap Business = {}
  /\ Events \subseteq {"expire", "idle", "revoke", "verifyExpires", "network", "reload"}

VARIABLES
  sessionOf,   \* server: the session a pair belongs to, None while not issued
  access,      \* server: what the pair's access token is good for
  refreshable, \* server: the pairs whose refresh token is not consumed
  revoked,     \* server: the sessions that ended
  runs,        \* server: how often a request was executed
  cookie,      \* browser: the pair in the cookies
  hint,        \* browser: localStorage has the session hint and the cookie's CSRF token
  opToken,     \* browser: the session of the stored operation token
  page,        \* "login" or "shell"
  unloading,   \* location.href was assigned, the page is not yet replaced
  req,         \* the page's requests
  refresh,     \* the single flight of doRefreshToken
  lost,        \* the pairs whose rotation never reached the page
  waiter,      \* the request whose resolver the verification controller holds
  modal,       \* the verification modal is shown
  leaving,     \* the progress of performLogout
  grace,       \* the timer that ends the logout transition is pending
  transition,  \* logoutTransition
  faults       \* the events of the environment so far

server == <<sessionOf, access, refreshable, revoked, runs>>
browser == <<cookie, hint, opToken>>
shell == <<page, unloading, leaving, grace, transition>>
verify == <<waiter, modal>>
vars == <<server, browser, shell, verify, req, refresh, lost, faults>>

NoReq == "none"
Answers == {"none", "ok", "unauthorized", "idleTimeout", "verification", "refused", "network"}
Settled == {"resolved", "rejected", "gone"}

FreshReq == [at |-> "idle", pair |-> None, op |-> None, csrf |-> None,
             retried |-> FALSE, opRetried |-> FALSE, answer |-> "none"]
NoRefresh == [at |-> "none", pair |-> None, issued |-> None]

Request == [at : {"idle", "sent", "answered", "refreshing", "verifying"} \cup Settled,
            pair : 0..MaxPairs, op : 0..MaxSessions, csrf : 0..MaxPairs,
            retried : BOOLEAN, opRetried : BOOLEAN, answer : Answers]
Refresh == [at : {"none", "sent", "answered"}, pair : 0..MaxPairs, issued : 0..MaxPairs]

ServerTyped ==
  /\ sessionOf \in [Pairs -> 0..MaxSessions]
  /\ access \in [Pairs -> {"ok", "idle", "gone"}]
  /\ refreshable \subseteq Pairs
  /\ revoked \subseteq Sessions
  /\ runs \in [Business -> Nat]

BrowserTyped == cookie \in 0..MaxPairs /\ hint \in BOOLEAN /\ opToken \in 0..MaxSessions

ShellTyped ==
  /\ page \in {"login", "shell"}
  /\ leaving \in {"no", "revoking", "settings"}
  /\ {unloading, grace, transition, modal} \subseteq BOOLEAN
  /\ waiter \in Business \cup {NoReq}
  /\ faults \in 0..MaxFaults

CallsTyped ==
  /\ req \in [Reqs -> Request]
  /\ refresh \in Refresh
  /\ lost \subseteq Pairs

TypeOK == ServerTyped /\ BrowserTyped /\ ShellTyped /\ CallsTyped

Init ==
  /\ sessionOf = [p \in Pairs |-> None]
  /\ access = [p \in Pairs |-> "gone"]
  /\ refreshable = {}
  /\ revoked = {}
  /\ runs = [r \in Business |-> 0]
  /\ cookie = None /\ hint = FALSE
  /\ opToken = None
  /\ page = "login" /\ unloading = FALSE
  /\ req = [r \in Reqs |-> FreshReq]
  /\ refresh = NoRefresh /\ lost = {}
  /\ waiter = NoReq /\ modal = FALSE
  /\ leaving = "no" /\ grace = FALSE /\ transition = FALSE
  /\ faults = 0

-----------------------------------------------------------------------------
(* The session service. *)

\* The environment does at most MaxFaults of the things it may do.
Fault == faults < MaxFaults /\ faults' = faults + 1

NextPair == {p \in Pairs : sessionOf[p] = None /\ \A q \in 1..(p - 1) : sessionOf[q] # None}
PairsOf(s) == {p \in Pairs : sessionOf[p] = s}

\* A sign-in or a rotation issues pair p to session s, consuming the tokens in used.
Issue(p, s, used) ==
  /\ sessionOf' = [sessionOf EXCEPT ![p] = s]
  /\ access' = [access EXCEPT ![p] = "ok"]
  /\ refreshable' = (refreshable \ used) \cup {p}

\* Ends a session: its access tokens are refused and its refresh token deleted.
Revoke(s) ==
  /\ revoked' = revoked \cup {s}
  /\ access' = [p \in Pairs |-> IF p \in PairsOf(s) THEN "gone" ELSE access[p]]
  /\ refreshable' = refreshable \ PairsOf(s)

\* The middleware chain: CSRF pair, access token, idle timeout, operation token.
Verdict(r) ==
  LET q == req[r] IN
  IF q.pair = None \/ q.csrf # q.pair THEN "refused"
  ELSE IF access[q.pair] = "gone" THEN "unauthorized"
  ELSE IF access[q.pair] = "idle" THEN "idleTimeout"
  ELSE IF r \in Guarded /\ q.op # sessionOf[q.pair] THEN "verification"
  ELSE "ok"

\* The handler of the password check answers a wrong password as a 401 too.
Outcomes(r) ==
  IF r = "check" /\ Verdict(r) = "ok" THEN {"ok", "unauthorized"} ELSE {Verdict(r)}

ServerAnswers(r) ==
  /\ req[r].at = "sent"
  /\ \E answer \in Outcomes(r) :
       req' = [req EXCEPT ![r].at = "answered", ![r].answer = answer,
                          ![r].pair = IF r = "check" THEN @ ELSE None]
  /\ runs' = [b \in Business |-> IF b = r /\ Verdict(r) = "ok" THEN runs[b] + 1 ELSE runs[b]]
  /\ IF r = "logout" /\ Verdict(r) = "ok"
     THEN Revoke(sessionOf[req[r].pair])
     ELSE /\ access' = IF Verdict(r) = "idleTimeout"
                       THEN [access EXCEPT ![req[r].pair] = "gone"] ELSE access
          /\ UNCHANGED <<refreshable, revoked>>
  /\ UNCHANGED <<sessionOf, browser, shell, verify, refresh, lost, faults>>

\* The request or its answer is lost, or ten seconds pass: axios rejects.
NetworkLoses(r) ==
  /\ "network" \in Events /\ Fault
  /\ req[r].at \in {"sent", "answered"} /\ req[r].answer # "network"
  /\ req' = [req EXCEPT ![r].at = "answered", ![r].answer = "network", ![r].pair = None]
  /\ UNCHANGED <<server, browser, shell, verify, refresh, lost>>

\* Consuming the refresh token precedes the rotation; at the bound MaxPairs
\* the session is taken to have reached its end.
ServerRefreshes ==
  /\ refresh.at = "sent"
  /\ IF refresh.pair \in refreshable /\ NextPair # {}
     THEN \E p \in NextPair :
            /\ Issue(p, sessionOf[refresh.pair], {refresh.pair})
            /\ refresh' = [refresh EXCEPT !.at = "answered", !.issued = p]
            /\ UNCHANGED revoked
     ELSE /\ refresh' = [refresh EXCEPT !.at = "answered"]
          /\ IF refresh.pair \in refreshable THEN Revoke(sessionOf[refresh.pair])
             ELSE UNCHANGED <<revoked, access, refreshable>>
          /\ UNCHANGED sessionOf
  /\ UNCHANGED <<runs, browser, shell, verify, req, lost, faults>>

\* The page will not receive the rotation of a pair whose token it consumed.
WithLost == IF refresh.issued = None THEN lost ELSE lost \cup (Pairs \cap {refresh.pair})

\* Any refresh may be lost, before or after the server has done it.
NetworkLosesRefresh ==
  /\ "network" \in Events
  /\ refresh.at = "sent" \/ refresh.issued # None
  /\ refresh' = [refresh EXCEPT !.at = "answered", !.issued = None]
  /\ lost' = WithLost
  /\ UNCHANGED <<server, browser, shell, verify, req, faults>>

\* The access token reaches its end of life, or the user stays idle too long.
TokenEnds(p) ==
  /\ access[p] = "ok" /\ Fault
  /\ \E fate \in {"gone", "idle"} :
       /\ IF fate = "gone" THEN "expire" \in Events ELSE "idle" \in Events
       /\ access' = [access EXCEPT ![p] = fate]
  /\ UNCHANGED <<sessionOf, refreshable, revoked, runs, browser, shell, verify, req, refresh, lost>>

\* An expired operation token is worth no more than none.
VerificationExpires ==
  /\ "verifyExpires" \in Events /\ Fault
  /\ opToken # None
  /\ opToken' = None
  /\ req' = [r \in Reqs |-> [req[r] EXCEPT !.op = None]]
  /\ UNCHANGED <<server, cookie, hint, shell, verify, refresh, lost>>

\* An administrator or the user, from another device, ends the session.
RevokedElsewhere(s) ==
  /\ "revoke" \in Events /\ Fault
  /\ PairsOf(s) # {} /\ s \notin revoked
  /\ Revoke(s)
  /\ UNCHANGED <<sessionOf, runs, browser, shell, verify, req, refresh, lost>>

-----------------------------------------------------------------------------
(* The page: interceptors, refresh and verification. *)

\* request(config): the request interceptor attaches the cookies' pair, the
\* CSRF header and the operation token; a header set earlier stays.
Sent(q) == [q EXCEPT !.at = "sent", !.pair = cookie', !.answer = "none",
                     !.csrf = IF hint' THEN cookie' ELSE q.csrf,
                     !.op = IF opToken' # None THEN opToken' ELSE q.op]

\* The request waits to be sent again: its pair and its answer are of no use.
Waits(r, what) == [req[r] EXCEPT !.at = what, !.pair = None, !.answer = "none"]

\* Mutant: an outcome that no caller knows.
DoneUnknown(r, how) == [FreshReq EXCEPT !.at = "done"]

\* The caller's promise settles; the modal can post again.
Done(r, how) == IF r = "check" THEN FreshReq ELSE [FreshReq EXCEPT !.at = how]

\* The POST of /auth/logout it starts leaves when the CSRF token is already
\* cleared, so the server refuses it and the session lives on.
ClearClientSession ==
  /\ opToken' = None /\ hint' = FALSE

RedirectToLogin ==
  /\ ClearClientSession
  /\ unloading' = (unloading \/ page = "shell")

IssueRequest(r) ==
  /\ page = "shell" /\ req[r].at = "idle"
  /\ UNCHANGED browser
  /\ req' = [req EXCEPT ![r] = Sent(FreshReq)]
  /\ UNCHANGED <<server, shell, verify, refresh, lost, faults>>

\* The answers the interceptor hands to the caller.
ReceiveResult(r) ==
  /\ req[r].at = "answered"
  /\ \/ /\ r \in Business /\ req[r].answer = "ok"
        /\ req' = [req EXCEPT ![r] = Done(r, "resolved")]
        /\ UNCHANGED browser
     \/ /\ r = "logout" /\ req[r].answer = "ok"
        /\ req' = [req EXCEPT ![r] = Done(r, "resolved")]
        /\ cookie' = None /\ hint' = FALSE
        /\ UNCHANGED opToken
     \/ /\ \/ req[r].answer \in {"refused", "network"}
           \/ req[r].answer = "verification" /\ req[r].opRetried
        /\ req' = [req EXCEPT ![r] = Done(r, "rejected")]
        /\ UNCHANGED browser
  /\ UNCHANGED <<server, shell, verify, refresh, lost, faults>>

\* retryWithOperationVerify: one controller, whose resolver is overwritten.
ReceiveVerification(r) ==
  /\ req[r].at = "answered" /\ req[r].answer = "verification" /\ ~req[r].opRetried
  /\ opToken' = None
  /\ waiter' = r /\ modal' = TRUE
  /\ req' = [req EXCEPT ![r] = Waits(r, "verifying")]
  /\ UNCHANGED <<server, cookie, hint, shell, refresh, lost, faults>>

\* What counts as a 401; a mutant counts a lost answer too.
UnauthorizedOrLost == {"unauthorized", "idleTimeout", "network"}
Unauthorized == {"unauthorized", "idleTimeout"}

\* refreshPromise ??= ...; a mutant starts a refresh for every 401.
FlightAnew == [NoRefresh EXCEPT !.at = "sent", !.pair = cookie]
Flight == IF refresh = NoRefresh THEN [NoRefresh EXCEPT !.at = "sent", !.pair = cookie]
          ELSE refresh

ShouldRefresh(r) == ~req[r].retried /\ ~transition

\* An idle timeout clears the session first; both kinds of 401 then refresh.
ReceiveUnauthorized(r) ==
  /\ req[r].at = "answered" /\ req[r].answer \in Unauthorized
  /\ IF req[r].answer = "idleTimeout"
     THEN RedirectToLogin
     ELSE UNCHANGED <<opToken, hint, unloading>>
  /\ IF ShouldRefresh(r)
     THEN /\ req' = [req EXCEPT ![r] = Waits(r, "refreshing")]
          /\ refresh' = Flight
     ELSE /\ req' = [req EXCEPT ![r] = Done(r, "rejected")]
          /\ UNCHANGED refresh
  /\ UNCHANGED <<server, cookie, page, leaving, grace, transition, verify, lost, faults>>

Refreshing == {r \in Reqs : req[r].at = "refreshing"}

\* The requests that waited are sent again, once, with the new pair.
RefreshSucceeds ==
  /\ refresh.at = "answered" /\ refresh.issued # None
  /\ cookie' = refresh.issued /\ hint' = TRUE
  /\ UNCHANGED opToken
  /\ req' = [r \in Reqs |-> IF r \in Refreshing
                            THEN [Sent(req[r]) EXCEPT !.retried = TRUE] ELSE req[r]]
  /\ refresh' = NoRefresh
  /\ UNCHANGED <<server, shell, verify, lost, faults>>

\* Mutant: the failed refresh leaves its waiters behind.
RefreshFailsSilently ==
  /\ refresh.at = "answered" /\ refresh.issued = None
  /\ RedirectToLogin
  /\ refresh' = NoRefresh
  /\ UNCHANGED <<server, cookie, page, leaving, grace, transition, verify, req, lost, faults>>

RefreshFails ==
  /\ refresh.at = "answered" /\ refresh.issued = None
  /\ RedirectToLogin
  /\ req' = [r \in Reqs |-> IF r \in Refreshing THEN Done(r, "rejected") ELSE req[r]]
  /\ refresh' = NoRefresh
  /\ UNCHANGED <<server, cookie, page, leaving, grace, transition, verify, lost, faults>>

VerifySubmit ==
  /\ modal /\ req["check"].at = "idle"
  /\ UNCHANGED browser
  /\ req' = [req EXCEPT !["check"] = Sent(FreshReq)]
  /\ UNCHANGED <<server, shell, verify, refresh, lost, faults>>

\* The token goes to the resolver the controller holds now, if any.
VerifySucceeds ==
  /\ req["check"].at = "answered" /\ req["check"].answer = "ok"
  /\ modal' = FALSE /\ waiter' = NoReq
  /\ opToken' = IF waiter = NoReq THEN opToken ELSE sessionOf[req["check"].pair]
  /\ UNCHANGED <<cookie, hint>>
  /\ req' = [r \in Reqs |->
               IF r = "check" THEN FreshReq
               ELSE IF r = waiter THEN [Sent(req[r]) EXCEPT !.opRetried = TRUE]
               ELSE req[r]]
  /\ UNCHANGED <<server, shell, refresh, lost, faults>>

VerifyCancel ==
  /\ modal
  /\ modal' = FALSE /\ waiter' = NoReq
  /\ req' = IF waiter = NoReq THEN req ELSE [req EXCEPT ![waiter] = Done(waiter, "rejected")]
  /\ UNCHANGED <<server, browser, shell, refresh, lost, faults>>

-----------------------------------------------------------------------------
(* Sign-in, sign-out and the page itself. *)

\* completeLogin, on the answer of /auth/login.
Login ==
  /\ page = "login" /\ ~unloading
  /\ \E p \in NextPair, s \in Sessions :
       /\ PairsOf(s) = {} /\ \A t \in 1..(s - 1) : PairsOf(t) # {}
       /\ Issue(p, s, {})
       /\ cookie' = p
  /\ hint' = TRUE
  /\ transition' = FALSE
  /\ page' = "shell"
  /\ UNCHANGED <<revoked, runs, opToken, unloading, leaving, grace, verify, req, refresh, lost, faults>>

\* performLogout, by the user or by the idle timer, up to its first await.
LogoutBegins ==
  /\ page = "shell" /\ leaving = "no"
  /\ leaving' = "revoking" /\ transition' = TRUE
  /\ UNCHANGED browser
  /\ req' = [req EXCEPT !["logout"] = Sent(FreshReq)]
  /\ UNCHANGED <<server, page, unloading, grace, verify, refresh, lost, faults>>

\* Mutant: performLogout goes on only when the revocation succeeded.
LogoutRevokedOnly ==
  /\ leaving = "revoking" /\ req["logout"].at = "resolved"
  /\ leaving' = "settings"
  /\ req' = [req EXCEPT !["logout"] = FreshReq]
  /\ UNCHANGED <<server, browser, page, unloading, grace, transition, verify, refresh, lost, faults>>

\* resolveSilently: whatever came of the revocation.
LogoutRevoked ==
  /\ leaving = "revoking" /\ req["logout"].at \in {"resolved", "rejected"}
  /\ leaving' = "settings"
  /\ req' = [req EXCEPT !["logout"] = FreshReq]
  /\ UNCHANGED <<server, browser, page, unloading, grace, transition, verify, refresh, lost, faults>>

LogoutClears ==
  /\ leaving = "settings"
  /\ hint' = FALSE /\ opToken' = None
  /\ page' = "login"
  /\ leaving' = "no" /\ grace' = TRUE
  /\ UNCHANGED <<server, cookie, unloading, transition, verify, req, refresh, lost, faults>>

LogoutGraceEnds ==
  /\ grace
  /\ grace' = FALSE /\ transition' = FALSE
  /\ UNCHANGED <<server, browser, page, unloading, leaving, verify, req, refresh, lost, faults>>

\* The page is replaced: its promises, timers and module state are gone.
Replaced(next) ==
  /\ page' = next
  /\ unloading' = FALSE /\ leaving' = "no" /\ grace' = FALSE /\ transition' = FALSE
  /\ waiter' = NoReq /\ modal' = FALSE
  /\ req' = [r \in Reqs |-> IF r \notin Business THEN FreshReq
                            ELSE IF req[r].at \in {"idle"} \cup Settled THEN req[r]
                            ELSE Done(r, "gone")]
  /\ refresh' = NoRefresh
  /\ lost' = WithLost
  /\ UNCHANGED <<server, browser>>

Unload == unloading /\ Replaced("login") /\ UNCHANGED faults

\* The user opens the shell's address: the hint alone lets the page in.
Reload ==
  /\ "reload" \in Events /\ Fault
  /\ ~unloading
  /\ Replaced(IF hint THEN "shell" ELSE "login")

ServerStep ==
  \/ \E r \in Reqs : ServerAnswers(r)
  \/ ServerRefreshes

Environment ==
  \/ \E r \in Reqs : NetworkLoses(r)
  \/ NetworkLosesRefresh
  \/ \E p \in Pairs : TokenEnds(p)
  \/ VerificationExpires
  \/ \E s \in Sessions : RevokedElsewhere(s)
  \/ Reload

\* The response interceptor and what its caller does with the outcome.
Receive(r) ==
  \/ ReceiveResult(r) \/ ReceiveVerification(r) \/ ReceiveUnauthorized(r)
  \/ r = "check" /\ VerifySucceeds

ReceiveRefresh == RefreshSucceeds \/ RefreshFails

PageStep ==
  \/ \E r \in Reqs : Receive(r)
  \/ ReceiveRefresh
  \/ LogoutRevoked \/ LogoutClears \/ LogoutGraceEnds
  \/ Unload

User ==
  \/ \E r \in Business : IssueRequest(r)
  \/ VerifySubmit \/ VerifyCancel
  \/ Login \/ LogoutBegins

Next == ServerStep \/ Environment \/ PageStep \/ User
Spec == Init /\ [][Next]_vars

\* A request is answered or given up after ten seconds, and JavaScript runs its
\* callbacks.  Nothing is assumed of the user, nor of the refresh, which bare
\* axios sends without a timeout.
FairSpec ==
  /\ Spec
  /\ \A r \in Reqs : WF_vars(ServerAnswers(r) \/ Receive(r))
  /\ WF_vars(ReceiveRefresh)
  /\ WF_vars(LogoutRevoked \/ LogoutClears)
  /\ WF_vars(Unload)

-----------------------------------------------------------------------------
(* Properties *)

\* Whatever the interceptors replay, after a refresh, a verification, a lost
\* answer or both, the server executes a request at most once (request.ts
\* _retry and _opRetry): a write the user submitted once is not applied twice.
AtMostOnce == \A r \in Business : runs[r] <= 1

\* The page never spends a refresh token twice: while a refresh is under way
\* its token is still good, unless the session ended or an earlier answer was
\* lost.  A second, parallel refresh would be refused and sign the user out.
RefreshIsFresh ==
  refresh.at = "sent" /\ refresh.pair # None =>
    refresh.pair \in refreshable \cup lost \/ sessionOf[refresh.pair] \in revoked

\* No refresh stays unanswered for ever.
RefreshesEnd == []<>(refresh.at # "sent")

\* Where every refresh is answered, or its connection breaks, every request
\* settles, or its user is being asked for a password, also when the password
\* was wrong and the check itself was refreshed.  The condition is needed: the
\* refresh has no timeout, and while it hangs so does every request that met a
\* 401 (request.ts doRefreshToken).  Two guarded requests at a time would break
\* it: the second takes the resolver of the first (secondaryVerifyController.ts),
\* whose promise then never settles.
RequestsSettle ==
  \A r \in Business :
    RefreshesEnd =>
      ((req[r].at \notin {"idle"} \cup Settled) ~>
         (req[r].at \in Settled \/ (req[r].at = "verifying" /\ waiter = r /\ modal)))

\* A sign-out reaches the login page, whatever becomes of the revocation,
\* unless the user reloads the page meanwhile.
LogoutEnds ==
  RefreshesEnd => (leaving = "revoking" ~> (page = "login" \/ leaving = "no"))
=============================================================================
