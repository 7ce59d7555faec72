----------------------------- MODULE ShellCaches -----------------------------
(***************************************************************************)
(* What the browser shell remembers of the signed-in subject: the menu     *)
(* tree, the tenant context, the profile, the warmed route data and the    *)
(* pinned tenant viewpoint.  The stores are module state of a page that    *)
(* signs out by navigation only, so an answer that was asked for under one *)
(* subject may arrive under the next; each store has its own defence.      *)
(*                                                                         *)
(* A subject is the number of its sign-in.  An answer carries the subject  *)
(* whose cookie went out with the request, None when it failed.            *)
(***************************************************************************)
EXTENDS Naturals, FiniteSets

CONSTANTS MaxSubjects,  \* bound on the sign-ins of a behaviour
          MaxCalls,     \* bound on the requests in flight at once
          MaxSeq        \* bound on menuFetchSeq

None == 0
Subjects == 1..MaxSubjects
Ids == 1..MaxCalls
Kinds == {"menu", "tenant", "profile", "warm"}

ASSUME CachesAssumption ==
  /\ MaxSubjects \in Nat \ {0} /\ MaxCalls \in Nat \ {0} /\ MaxSeq \in Nat

VARIABLES
  subjects,    \* the sign-ins so far
  cookie,      \* the subject the server takes the browser for
  hint,        \* localStorage: session hint and CSRF token
  token,       \* auth store: the subject of the last sign-in the page believes in
  userInfo,    \* auth store: the subject whose profile is shown
  viewpoint,   \* sessionStorage: the subject that pinned a tenant
  page,        \* "login" or "shell"
  leaving,     \* performLogout is awaiting
  calls,       \* the requests in flight: Ids -> [kind, seq, for] or NoCall
  menu,        \* [tree, loading, seq, promise]
  tenant,      \* [context, loading, loaded, promise]
  profile,     \* the call of pendingProfilePromise
  warm,        \* the warm entry of the one cached path: [promise, for]
  warmup       \* a warm-up is scheduled on the idle callback

auth == <<subjects, cookie, hint, token, userInfo, viewpoint, page, leaving>>
stores == <<menu, tenant, profile, warm, warmup>>
vars == <<auth, calls, stores>>

NoCall == [kind |-> "none", seq |-> 0, for |-> None]
NoMenu(n) == [tree |-> None, loading |-> FALSE, seq |-> n, promise |-> None]
NoTenant == [context |-> None, loading |-> FALSE, loaded |-> FALSE, promise |-> None]
NoWarm == [promise |-> None, for |-> None]

CachesTypeOK ==
  /\ {subjects, cookie, token, userInfo, viewpoint} \subseteq 0..MaxSubjects
  /\ {hint, leaving, warmup} \subseteq BOOLEAN
  /\ page \in {"login", "shell"}
  /\ calls \in [Ids -> [kind : Kinds \cup {"none"}, seq : 0..MaxSeq, for : 0..MaxSubjects]]
  /\ menu \in [tree : 0..MaxSubjects, loading : BOOLEAN, seq : 0..MaxSeq, promise : 0..MaxCalls]
  /\ tenant \in [context : 0..MaxSubjects, loading : BOOLEAN, loaded : BOOLEAN,
                 promise : 0..MaxCalls]
  /\ profile \in 0..MaxCalls
  /\ warm \in [promise : 0..MaxCalls, for : 0..MaxSubjects]

Init ==
  /\ subjects = 0 /\ cookie = None /\ hint = FALSE /\ token = None
  /\ userInfo = None /\ viewpoint = None /\ page = "login" /\ leaving = FALSE
  /\ calls = [i \in Ids |-> NoCall]
  /\ menu = NoMenu(0) /\ tenant = NoTenant /\ profile = None
  /\ warm = NoWarm /\ warmup = FALSE

-----------------------------------------------------------------------------
(* Requests. *)

Free == {i \in Ids : calls[i] = NoCall}

\* Mutant: the call is numbered as the fetch after it.
CallAhead(i, kind, seq, who) ==
  /\ i \in Free
  /\ calls' = [calls EXCEPT ![i] = [kind |-> kind, seq |-> seq + 1, for |-> who]]

\* The request leaves with the cookie of the moment, that of subject who.
Call(i, kind, seq, who) ==
  /\ i \in Free
  /\ calls' = [calls EXCEPT ![i] = [kind |-> kind, seq |-> seq, for |-> who]]

\* The call settles: with the data of its subject, or with a failure.
Settles(i, kind, data) ==
  /\ calls[i].kind = kind
  /\ data \in {calls[i].for, None}
  /\ calls' = [calls EXCEPT ![i] = NoCall]

-----------------------------------------------------------------------------
(* useMenuStore *)

Fetching(m, i) == [m EXCEPT !.loading = TRUE, !.seq = @ + 1, !.promise = i]

\* fetchMenuTree that does not return from the cache or join a pending promise.
\* App asks for the menu whenever there is a token, on the sign-in page too.
FetchMenu(i, force) ==
  /\ page = "shell" \/ (token # None /\ ~force)
  /\ menu.seq < MaxSeq
  /\ force \/ (menu.tree = None /\ menu.promise = None)
  /\ Call(i, "menu", menu.seq + 1, cookie)
  /\ menu' = Fetching(menu, i)
  /\ UNCHANGED <<auth, tenant, profile, warm, warmup>>

\* Mutant: a failed fetch keeps the spinner.
MenuFailsBusy(i, data) ==
  /\ Settles(i, "menu", data)
  /\ menu' = IF calls[i].seq # menu.seq \/ data = None THEN [menu EXCEPT !.promise = None]
             ELSE [menu EXCEPT !.tree = data, !.loading = FALSE, !.promise = None]
  /\ UNCHANGED <<auth, tenant, profile, warm, warmup>>

\* Mutant: the answer that comes last is shown.
MenuLastWins(i, data) ==
  /\ Settles(i, "menu", data)
  /\ menu' = IF data = None THEN [menu EXCEPT !.loading = FALSE, !.promise = None]
             ELSE [menu EXCEPT !.tree = data, !.loading = FALSE, !.promise = None]
  /\ UNCHANGED <<auth, tenant, profile, warm, warmup>>

\* Only the newest fetch writes; every fetch clears the shared promise.
MenuSettles(i, data) ==
  /\ Settles(i, "menu", data)
  /\ menu' = IF calls[i].seq # menu.seq THEN [menu EXCEPT !.promise = None]
             ELSE IF data = None THEN [menu EXCEPT !.loading = FALSE, !.promise = None]
             ELSE [menu EXCEPT !.tree = data, !.loading = FALSE, !.promise = None]
  /\ UNCHANGED <<auth, tenant, profile, warm, warmup>>

ResetMenuTree == NoMenu(menu.seq + 1)

(* useTenantSessionStore *)

FetchTenantSession(i, force) ==
  /\ page = "shell"
  /\ force \/ (~tenant.loaded /\ tenant.promise = None)
  /\ Call(i, "tenant", 0, cookie)
  /\ tenant' = [tenant EXCEPT !.loading = TRUE, !.promise = i]
  /\ UNCHANGED <<auth, menu, profile, warm, warmup>>

\* The answer is written whoever is signed in by now.
TenantSettles(i, data) ==
  /\ Settles(i, "tenant", data)
  /\ tenant' = [context |-> data, loading |-> FALSE, loaded |-> TRUE, promise |-> None]
  /\ UNCHANGED <<auth, menu, profile, warm, warmup>>

ResetTenantSession == tenant' = NoTenant

(* ensureAuthUserInfo *)

EnsureAuthUserInfo(i) ==
  /\ hint /\ userInfo = None /\ profile = None
  /\ Call(i, "profile", 0, cookie)
  /\ profile' = i
  /\ UNCHANGED <<auth, menu, tenant, warm, warmup>>

\* Mutant: a failed profile stays the pending one.
ProfileStaysPending(i, data) ==
  /\ Settles(i, "profile", data)
  /\ IF data = None THEN UNCHANGED <<token, userInfo, profile>>
     ELSE token' = data /\ userInfo' = data /\ profile' = None
  /\ UNCHANGED <<subjects, cookie, hint, viewpoint, page, leaving, menu, tenant, warm, warmup>>

\* setTokens and setUserInfo, whoever is signed in by now.
ProfileSettles(i, data) ==
  /\ Settles(i, "profile", data)
  /\ profile' = None
  /\ IF data = None THEN UNCHANGED <<token, userInfo>>
     ELSE token' = data /\ userInfo' = data
  /\ UNCHANGED <<subjects, cookie, hint, viewpoint, page, leaving, menu, tenant, warm, warmup>>

(* core/router/prefetch.ts *)

\* App: a token schedules a warm-up, run when the browser is idle.
ScheduleWarmup ==
  /\ token # None /\ ~warmup
  /\ warmup' = TRUE
  /\ UNCHANGED <<auth, calls, menu, tenant, profile, warm>>

\* cacheWarmData: a page or the warm-up; an entry of the path is not read again.
LoadWarmData(i) ==
  /\ page = "shell" \/ warmup
  /\ warm = NoWarm
  /\ Call(i, "warm", 0, cookie)
  /\ warm' = [promise |-> i, for |-> cookie]
  /\ warmup' = FALSE
  /\ UNCHANGED <<auth, menu, tenant, profile>>

\* A failure removes the entry of its key, its own or a newer one.
WarmSettles(i, data) ==
  /\ Settles(i, "warm", data)
  /\ warm' = IF data = None THEN NoWarm
             ELSE IF warm.promise = i THEN [warm EXCEPT !.promise = None] ELSE warm
  /\ UNCHANGED <<auth, menu, tenant, profile, warmup>>

\* The thirty seconds of an entry are over, or a page invalidates it.
WarmExpires ==
  /\ warm # NoWarm
  /\ warm' = NoWarm
  /\ UNCHANGED <<auth, calls, menu, tenant, profile, warmup>>

\* Mutant: the boundary leaves the warmed data alone.
KeepWarmData == UNCHANGED warm

InvalidateAllRouteWarmData == warm' = NoWarm

-----------------------------------------------------------------------------
(* The boundary between two subjects. *)

\* completeLogin: both sides of the boundary reset the stores; then the menu of
\* the new subject is fetched.
SignsIn(i) ==
  /\ page = "login" /\ subjects < MaxSubjects /\ menu.seq + 2 <= MaxSeq
  /\ subjects' = subjects + 1
  /\ cookie' = subjects' /\ hint' = TRUE /\ token' = subjects' /\ userInfo' = subjects'
  /\ page' = "shell"
  /\ menu' = Fetching(ResetMenuTree, i)
  /\ Call(i, "menu", ResetMenuTree.seq + 1, subjects + 1)
  /\ ResetTenantSession /\ InvalidateAllRouteWarmData
  /\ UNCHANGED <<leaving, profile, warmup>>

\* Mutant: the sign-in does not clear the viewpoint.
LoginKeepsViewpoint(i) == SignsIn(i) /\ UNCHANGED viewpoint

Login(i) == SignsIn(i) /\ viewpoint' = None

\* performLogout up to the answer of the revocation, which may fail.
LogoutBegins ==
  /\ page = "shell" /\ ~leaving
  /\ leaving' = TRUE
  /\ cookie' \in {cookie, None}
  /\ UNCHANGED <<subjects, hint, token, userInfo, viewpoint, page, calls, stores>>

\* The rest of performLogout; the viewpoint is left to the next sign-in.
LogoutClears ==
  /\ leaving /\ menu.seq < MaxSeq
  /\ leaving' = FALSE
  /\ hint' = FALSE /\ token' = None /\ userInfo' = None /\ page' = "login"
  /\ menu' = ResetMenuTree
  /\ ResetTenantSession /\ InvalidateAllRouteWarmData
  /\ UNCHANGED <<subjects, cookie, viewpoint, calls, profile, warmup>>

\* The page is replaced: module state and pending promises are gone.
Replaced ==
  /\ calls' = [i \in Ids |-> NoCall]
  /\ menu' = NoMenu(0) /\ tenant' = NoTenant /\ profile' = None
  /\ warm' = NoWarm /\ warmup' = FALSE /\ leaving' = FALSE

\* redirectToLogin: clearClientSession and a new document.
RedirectToLogin ==
  /\ page = "shell"
  /\ Replaced
  /\ hint' = FALSE /\ token' = None /\ userInfo' = None /\ viewpoint' = None
  /\ page' = "login"
  /\ UNCHANGED <<subjects, cookie>>

\* AuthGuard admits a token or a session hint, as a late profile leaves them.
EnterShell ==
  /\ page = "login" /\ (token # None \/ hint)
  /\ page' = "shell"
  /\ UNCHANGED <<subjects, cookie, hint, token, userInfo, viewpoint, leaving, calls, stores>>

\* A new document of the same subject: a refresh, or a platform subject pins
\* a tenant or unpins it.  The profile is read from localStorage, which may
\* have refused to keep it (persistAuthUser, readStoredAuthUser).
Reload ==
  /\ page = "shell" /\ hint
  /\ viewpoint' \in {viewpoint, subjects, None}
  /\ userInfo' \in {userInfo, None} /\ token' = subjects
  /\ Replaced
  /\ UNCHANGED <<subjects, cookie, hint, page>>

Load ==
  \E i \in Ids :
    \/ \E force \in BOOLEAN : FetchMenu(i, force) \/ FetchTenantSession(i, force)
    \/ EnsureAuthUserInfo(i)
    \/ LoadWarmData(i)

Answer(i) ==
  \E data \in 0..MaxSubjects :
    MenuSettles(i, data) \/ TenantSettles(i, data) \/ ProfileSettles(i, data) \/ WarmSettles(i, data)

Boundary ==
  \/ \E i \in Ids : Login(i)
  \/ LogoutBegins \/ LogoutClears \/ RedirectToLogin \/ EnterShell \/ Reload

Next ==
  \/ Load
  \/ \E i \in Ids : Answer(i)
  \/ ScheduleWarmup \/ WarmExpires
  \/ Boundary

Spec == Init /\ [][Next]_vars

\* A request is answered or times out after ten seconds.
FairSpec == Spec /\ \A i \in Ids : WF_vars(Answer(i))

-----------------------------------------------------------------------------
(* Properties *)

\* The shell never shows the menu of an earlier subject, however late the
\* answers of that subject's fetches arrive (useMenuStore: menuFetchSeq).
MenuOfSubject == page = "shell" => menu.tree \in {None, subjects}

\* A page that reads the warmed data of its path gets what was loaded for the
\* signed-in subject (prefetch.ts: both sides of the boundary clear the cache).
WarmOfSubject == page = "shell" /\ warm # NoWarm => warm.for \in {subjects, None}

\* In the shell a pinned tenant viewpoint is the pin of the signed-in subject
\* (Login.tsx: "A viewpoint never crosses a login boundary"), although the
\* sign-out by navigation leaves it in sessionStorage.
ViewpointOfSubject == page = "shell" => viewpoint \in {None, subjects}

\* A shared promise that callers join is still in flight: nobody is handed a
\* promise of the past, and no store waits for a call that is over.
PromisesPending ==
  /\ menu.promise # None => calls[menu.promise].kind = "menu"
  /\ tenant.promise # None => calls[tenant.promise].kind = "tenant"
  /\ profile # None => calls[profile].kind = "profile"
  /\ warm.promise # None => calls[warm.promise].kind = "warm"

\* The spinner of the side menu stops, whichever fetches are superseded.
MenuStopsLoading == menu.loading ~> ~menu.loading

\* Login.tsx: "a re-login in the same tab must not inherit the previous
\* subject's plan": the tenant context of the shell is its subject's.
TenantOfSubject == page = "shell" => tenant.context \in {None, subjects}
=============================================================================
