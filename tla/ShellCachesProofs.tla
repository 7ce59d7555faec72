-------------------------- MODULE ShellCachesProofs ---------------------------
(***************************************************************************)
(* The stores of the shell for any number of sign-ins, requests in flight  *)
(* and menu fetches: their types, whose menu, warmed data and viewpoint    *)
(* the shell shows, and which promises its callers may join.               *)
(***************************************************************************)
EXTENDS ShellCaches, TLAPS

Ones == 0..MaxSubjects
CallSet == [kind : Kinds \cup {"none"}, seq : 0..MaxSeq, for : Ones]
MenuSet == [tree : Ones, loading : BOOLEAN, seq : 0..MaxSeq, promise : 0..MaxCalls]
TenantSet == [context : Ones, loading : BOOLEAN, loaded : BOOLEAN, promise : 0..MaxCalls]
WarmSet == [promise : 0..MaxCalls, for : Ones]

AuthTyped ==
  /\ subjects \in Ones /\ cookie \in Ones /\ token \in Ones
  /\ userInfo \in Ones /\ viewpoint \in Ones
  /\ hint \in BOOLEAN /\ leaving \in BOOLEAN /\ page \in {"login", "shell"}

StoresTyped ==
  /\ calls \in [Ids -> CallSet]
  /\ menu \in MenuSet /\ tenant \in TenantSet /\ warm \in WarmSet
  /\ profile \in 0..MaxCalls /\ warmup \in BOOLEAN

Typed == AuthTyped /\ StoresTyped

LEMMA TypedIsType == Typed <=> CachesTypeOK
BY DEF Typed, AuthTyped, StoresTyped, CachesTypeOK, Ones, CallSet, MenuSet, TenantSet, WarmSet
-----------------------------------------------------------------------------
(* Types.                                                                  *)
LEMMA Constants ==
  /\ MaxSubjects \in Nat /\ MaxCalls \in Nat /\ MaxSeq \in Nat
  /\ None \in Ones /\ None \in 0..MaxCalls /\ None \notin Ids /\ Ids \subseteq 0..MaxCalls
  /\ 0 \in 0..MaxSeq /\ "none" \notin Kinds
  /\ "menu" \in Kinds /\ "tenant" \in Kinds /\ "profile" \in Kinds /\ "warm" \in Kinds
BY CachesAssumption DEF Ones, Ids, None, Kinds

LEMMA EmptyTyped ==
  /\ NoCall \in CallSet /\ NoTenant \in TenantSet /\ NoWarm \in WarmSet
  /\ \A n \in 0..MaxSeq : NoMenu(n) \in MenuSet
<1>1. 0 \in 0..MaxSeq
  BY Constants
<1> QED BY <1>1, Constants DEF NoCall, NoTenant, NoWarm, NoMenu, CallSet, TenantSet, WarmSet, MenuSet

LEMMA CallTyped ==
  ASSUME Typed, NEW i, NEW kind \in Kinds, NEW seq \in 0..MaxSeq, NEW who \in Ones,
         Call(i, kind, seq, who)
  PROVE  calls' \in [Ids -> CallSet] /\ i \in 0..MaxCalls
<1>1. [kind |-> kind, seq |-> seq, for |-> who] \in CallSet
  BY DEF CallSet
<1> QED BY <1>1, Constants DEF Typed, StoresTyped, Call, Free

LEMMA SettlesTyped ==
  ASSUME Typed, NEW i \in Ids, NEW kind, NEW data, Settles(i, kind, data)
  PROVE  calls' \in [Ids -> CallSet] /\ data \in Ones
BY EmptyTyped, Constants DEF Typed, StoresTyped, Settles, CallSet

LEMMA LoadTyped ==
  ASSUME Typed, Load
  PROVE  Typed'
<1>1. ASSUME NEW i \in Ids, NEW force \in BOOLEAN, FetchMenu(i, force) PROVE Typed'
  <2>1. menu.seq + 1 \in 0..MaxSeq
    BY <1>1, Constants DEF FetchMenu, Typed, StoresTyped, MenuSet
  <2>2. calls' \in [Ids -> CallSet] /\ i \in 0..MaxCalls
    <3>1. Call(i, "menu", menu.seq + 1, cookie) /\ cookie \in Ones
      BY <1>1 DEF FetchMenu, Typed, AuthTyped
    <3> QED BY <2>1, <3>1, CallTyped, Constants
  <2>3. menu' \in MenuSet
    BY <1>1, <2>1, <2>2 DEF FetchMenu, Fetching, Typed, StoresTyped, MenuSet
  <2> QED BY <1>1, <2>2, <2>3 DEF FetchMenu, Typed, AuthTyped, StoresTyped, auth
<1>2. ASSUME NEW i \in Ids, NEW force \in BOOLEAN, FetchTenantSession(i, force) PROVE Typed'
  <2>1. calls' \in [Ids -> CallSet] /\ i \in 0..MaxCalls
    <3>1. Call(i, "tenant", 0, cookie) /\ cookie \in Ones
      BY <1>2 DEF FetchTenantSession, Typed, AuthTyped
    <3> QED BY <3>1, CallTyped, Constants
  <2>2. tenant' \in TenantSet
    BY <1>2, <2>1 DEF FetchTenantSession, Typed, StoresTyped, TenantSet
  <2> QED BY <1>2, <2>1, <2>2 DEF FetchTenantSession, Typed, AuthTyped, StoresTyped, auth
<1>3. ASSUME NEW i \in Ids, EnsureAuthUserInfo(i) PROVE Typed'
  <2>1. calls' \in [Ids -> CallSet] /\ i \in 0..MaxCalls
    <3>1. Call(i, "profile", 0, cookie) /\ cookie \in Ones
      BY <1>3 DEF EnsureAuthUserInfo, Typed, AuthTyped
    <3> QED BY <3>1, CallTyped, Constants
  <2> QED BY <1>3, <2>1 DEF EnsureAuthUserInfo, Typed, AuthTyped, StoresTyped, auth
<1>4. ASSUME NEW i \in Ids, LoadWarmData(i) PROVE Typed'
  <2>1. calls' \in [Ids -> CallSet] /\ i \in 0..MaxCalls
    <3>1. Call(i, "warm", 0, cookie) /\ cookie \in Ones
      BY <1>4 DEF LoadWarmData, Typed, AuthTyped
    <3> QED BY <3>1, CallTyped, Constants
  <2>2. warm' \in WarmSet
    BY <1>4, <2>1 DEF LoadWarmData, Typed, AuthTyped, WarmSet
  <2> QED BY <1>4, <2>1, <2>2 DEF LoadWarmData, Typed, AuthTyped, StoresTyped, auth
<1> QED BY <1>1, <1>2, <1>3, <1>4 DEF Load

LEMMA AnswerTyped ==
  ASSUME Typed, NEW i \in Ids, Answer(i)
  PROVE  Typed'
<1>1. PICK data \in Ones : \/ MenuSettles(i, data) \/ TenantSettles(i, data)
                           \/ ProfileSettles(i, data) \/ WarmSettles(i, data)
  BY DEF Answer, Ones
<1>2. PICK kind : Settles(i, kind, data)
  BY <1>1 DEF MenuSettles, TenantSettles, ProfileSettles, WarmSettles
<1>3. calls' \in [Ids -> CallSet]
  BY <1>2, SettlesTyped
<1>4. CASE MenuSettles(i, data)
  <2>1. menu' \in MenuSet
    BY <1>4, Constants DEF MenuSettles, Typed, StoresTyped, MenuSet
  <2> QED BY <1>3, <1>4, <2>1 DEF MenuSettles, Typed, AuthTyped, StoresTyped, auth
<1>5. CASE TenantSettles(i, data)
  <2>1. tenant' \in TenantSet
    BY <1>5, Constants DEF TenantSettles, TenantSet
  <2> QED BY <1>3, <1>5, <2>1 DEF TenantSettles, Typed, AuthTyped, StoresTyped, auth
<1>6. CASE ProfileSettles(i, data)
  BY <1>3, <1>6, Constants DEF ProfileSettles, Typed, AuthTyped, StoresTyped
<1>7. CASE WarmSettles(i, data)
  <2>1. warm' \in WarmSet
    BY <1>7, Constants, EmptyTyped DEF WarmSettles, Typed, StoresTyped, WarmSet
  <2> QED BY <1>3, <1>7, <2>1 DEF WarmSettles, Typed, AuthTyped, StoresTyped, auth
<1> QED BY <1>1, <1>4, <1>5, <1>6, <1>7

\* Both sides of the boundary reset the stores.
LEMMA ResetTyped ==
  ASSUME Typed, menu.seq < MaxSeq, ResetTenantSession, InvalidateAllRouteWarmData
  PROVE  ResetMenuTree \in MenuSet /\ tenant' \in TenantSet /\ warm' \in WarmSet
<1>1. menu.seq + 1 \in 0..MaxSeq
  BY Constants DEF Typed, StoresTyped, MenuSet
<1> QED BY <1>1, EmptyTyped DEF ResetMenuTree, ResetTenantSession, InvalidateAllRouteWarmData

\* A sign-in fetches the menu under the number after the reset's.
LEMMA SignInFetches ==
  ASSUME Typed, NEW i \in Ids, SignsIn(i)
  PROVE  /\ menu.seq \in Nat /\ menu.seq + 2 \in 0..MaxSeq /\ subjects + 1 \in Ones
         /\ ResetMenuTree.seq + 1 = menu.seq + 2
         /\ Call(i, "menu", menu.seq + 2, subjects + 1)
         /\ menu' = [tree |-> None, loading |-> TRUE, seq |-> menu.seq + 2, promise |-> i]
<1>1. menu.seq \in Nat /\ subjects \in Nat
  BY Constants DEF Typed, StoresTyped, AuthTyped, MenuSet, Ones
<1>2. ResetMenuTree = [tree |-> None, loading |-> FALSE, seq |-> menu.seq + 1, promise |-> None]
  BY DEF ResetMenuTree, NoMenu
<1>3. ResetMenuTree.seq + 1 = menu.seq + 2
  BY <1>1, <1>2
<1>4. menu' = [tree |-> None, loading |-> TRUE, seq |-> menu.seq + 2, promise |-> i]
  <2>1. menu' = [ResetMenuTree EXCEPT !.loading = TRUE, !.seq = ResetMenuTree.seq + 1, !.promise = i]
    BY DEF SignsIn, Fetching
  <2> QED BY <1>2, <1>3, <2>1
<1> QED BY <1>1, <1>3, <1>4, Constants DEF SignsIn, Ones

LEMMA BoundaryTyped ==
  ASSUME Typed, Boundary
  PROVE  Typed'
<1>1. ASSUME NEW i \in Ids, Login(i) PROVE Typed'
  <2>1. SignsIn(i) /\ viewpoint' = None
    BY <1>1 DEF Login
  <2>2. menu' \in MenuSet
    <3>1. menu' = [tree |-> None, loading |-> TRUE, seq |-> menu.seq + 2, promise |-> i]
      BY <2>1, SignInFetches
    <3>2. None \in Ones /\ menu.seq + 2 \in 0..MaxSeq /\ i \in 0..MaxCalls
      BY <2>1, SignInFetches, Constants
    <3> QED BY <3>1, <3>2 DEF MenuSet
  <2>3. calls' \in [Ids -> CallSet]
    BY <2>1, SignInFetches, CallTyped, Constants
  <2>4. tenant' \in TenantSet /\ warm' \in WarmSet
    BY <2>1, EmptyTyped DEF SignsIn, ResetTenantSession, InvalidateAllRouteWarmData
  <2>5. AuthTyped'
    BY <2>1, SignInFetches, Constants DEF SignsIn, Typed, AuthTyped
  <2> QED BY <2>1, <2>2, <2>3, <2>4, <2>5 DEF SignsIn, Typed, StoresTyped
<1>2. CASE LogoutBegins
  BY <1>2, Constants DEF LogoutBegins, Typed, AuthTyped, StoresTyped, stores
<1>3. CASE LogoutClears
  <2>1. menu' \in MenuSet /\ tenant' \in TenantSet /\ warm' \in WarmSet
    BY <1>3, ResetTyped DEF LogoutClears
  <2>2. AuthTyped'
    BY <1>3, Constants DEF LogoutClears, Typed, AuthTyped
  <2> QED BY <1>3, <2>1, <2>2 DEF LogoutClears, Typed, StoresTyped
<1>4. Replaced => StoresTyped' /\ leaving' = FALSE
  <2>1. 0 \in 0..MaxSeq
    BY Constants
  <2> QED BY <2>1, EmptyTyped, Constants DEF Replaced, StoresTyped
<1>5. CASE RedirectToLogin
  BY <1>4, <1>5, Constants DEF RedirectToLogin, Typed, AuthTyped
<1>6. CASE Reload
  BY <1>4, <1>6, Constants DEF Reload, Typed, AuthTyped
<1>7. CASE EnterShell
  BY <1>7 DEF EnterShell, Typed, AuthTyped, StoresTyped, stores
<1> QED BY <1>1, <1>2, <1>3, <1>5, <1>6, <1>7 DEF Boundary

(* The stores of the shell stay within their types under every order of      *)
(* loads, answers, sign-ins and sign-outs.                                   *)
THEOREM CachesTypes == Spec => []CachesTypeOK
<1>1. Init => Typed
  <2> SUFFICES ASSUME Init PROVE Typed
    OBVIOUS
  <2>1. 0 \in 0..MaxSeq
    BY Constants
  <2>2. AuthTyped
    BY Constants DEF Init, AuthTyped, Ones, None
  <2>3. StoresTyped
    BY <2>1, EmptyTyped, Constants DEF Init, StoresTyped
  <2> QED BY <2>2, <2>3 DEF Typed
<1>2. Typed /\ [Next]_vars => Typed'
  <2> SUFFICES ASSUME Typed, [Next]_vars PROVE Typed'
    OBVIOUS
  <2>1. CASE ScheduleWarmup \/ WarmExpires
    BY <2>1, EmptyTyped DEF ScheduleWarmup, WarmExpires, Typed, AuthTyped, StoresTyped, auth
  <2>2. CASE UNCHANGED vars
    BY <2>2 DEF vars, auth, stores, Typed, AuthTyped, StoresTyped
  <2> QED BY <2>1, <2>2, LoadTyped, AnswerTyped, BoundaryTyped DEF Next
<1>3. Spec => []Typed
  BY <1>1, <1>2, PTL DEF Spec
<1> QED BY <1>3, TypedIsType, PTL

LEMMA TypedHolds == Spec => []Typed
BY CachesTypes, TypedIsType, PTL
-----------------------------------------------------------------------------
(* Whose data the shell shows.  A menu fetch that could still write was    *)
(* started after the last boundary, by the subject of the cookie.          *)

Owners == {None, subjects}

MenuOwned ==
  /\ menu.tree \in Owners
  /\ \A i \in Ids : calls[i].kind = "menu" =>
       /\ calls[i].seq <= menu.seq
       /\ calls[i].seq = menu.seq => calls[i].for \in Owners

Owned ==
  /\ cookie \in Owners
  /\ MenuOwned
  /\ warm.for \in Owners
  /\ viewpoint \in Owners

LEMMA NewCall ==
  ASSUME Typed, NEW i, NEW kind, NEW seq, NEW who, Call(i, kind, seq, who)
  PROVE  /\ i \in Ids
         /\ \A j \in Ids : calls'[j] = IF j = i THEN [kind |-> kind, seq |-> seq, for |-> who]
                                      ELSE calls[j]
         /\ calls'[i].kind = kind /\ calls[i].kind = "none"
         /\ \A j \in Ids \ {i} : calls'[j] = calls[j]
<1>1. i \in Ids /\ calls[i] = NoCall
  BY DEF Call, Free
<1>2. \A j \in Ids : calls'[j] = IF j = i THEN [kind |-> kind, seq |-> seq, for |-> who]
                                  ELSE calls[j]
  BY <1>1 DEF Typed, StoresTyped, Call
<1> QED BY <1>1, <1>2 DEF NoCall

LEMMA SettledCall ==
  ASSUME Typed, NEW i \in Ids, NEW kind, NEW data, Settles(i, kind, data)
  PROVE  /\ calls[i].kind = kind /\ data \in {calls[i].for, None}
         /\ \A j \in Ids : calls'[j] = IF j = i THEN NoCall ELSE calls[j]
         /\ NoCall.kind = "none" /\ calls'[i].kind = "none"
BY DEF Typed, StoresTyped, Settles, NoCall

\* A call of another store starts or settles.
LEMMA MenuLeft ==
  ASSUME MenuOwned, UNCHANGED <<menu, subjects>>,
         \A j \in Ids : calls'[j] = calls[j] \/ calls'[j].kind # "menu"
  PROVE  MenuOwned'
BY DEF MenuOwned, Owners

LEMMA LoadOwned ==
  ASSUME Typed, Owned, Load
  PROVE  Owned'
<1> USE DEF Owned, MenuOwned, Owners
<1>1. ASSUME NEW i \in Ids, NEW force \in BOOLEAN, FetchMenu(i, force) PROVE Owned'
  <2>1. menu'.tree = menu.tree /\ menu'.seq = menu.seq + 1 /\ menu.seq \in Nat
    BY <1>1, Constants DEF FetchMenu, Fetching, Typed, StoresTyped, MenuSet
  <2>2. \A j \in Ids : calls'[j] = IF j = i THEN [kind |-> "menu", seq |-> menu.seq + 1, for |-> cookie]
                                    ELSE calls[j]
    BY <1>1, NewCall DEF FetchMenu
  <2>3. \A j \in Ids : calls[j].seq \in Nat
    BY Constants DEF Typed, StoresTyped, CallSet
  <2>4. MenuOwned'
    BY <1>1, <2>1, <2>2, <2>3 DEF FetchMenu, auth
  <2> QED BY <1>1, <2>4 DEF FetchMenu, auth
<1>2. ASSUME NEW i \in Ids, NEW force \in BOOLEAN, FetchTenantSession(i, force) PROVE Owned'
  <2>1. \A j \in Ids : calls'[j] = calls[j] \/ calls'[j].kind # "menu"
    <3>1. Call(i, "tenant", 0, cookie)
      BY <1>2 DEF FetchTenantSession
    <3>2. calls'[i].kind = "tenant" /\ \A j \in Ids \ {i} : calls'[j] = calls[j]
      BY <3>1, NewCall
    <3> QED BY <3>2
  <2>2. MenuOwned'
    BY <1>2, <2>1, MenuLeft DEF FetchTenantSession, auth
  <2> QED BY <1>2, <2>2 DEF FetchTenantSession, auth
<1>3. ASSUME NEW i \in Ids, EnsureAuthUserInfo(i) PROVE Owned'
  <2>1. \A j \in Ids : calls'[j] = calls[j] \/ calls'[j].kind # "menu"
    <3>1. Call(i, "profile", 0, cookie)
      BY <1>3 DEF EnsureAuthUserInfo
    <3>2. calls'[i].kind = "profile" /\ \A j \in Ids \ {i} : calls'[j] = calls[j]
      BY <3>1, NewCall
    <3> QED BY <3>2
  <2>2. MenuOwned'
    BY <1>3, <2>1, MenuLeft DEF EnsureAuthUserInfo, auth
  <2> QED BY <1>3, <2>2 DEF EnsureAuthUserInfo, auth
<1>4. ASSUME NEW i \in Ids, LoadWarmData(i) PROVE Owned'
  <2>1. \A j \in Ids : calls'[j] = calls[j] \/ calls'[j].kind # "menu"
    <3>1. Call(i, "warm", 0, cookie)
      BY <1>4 DEF LoadWarmData
    <3>2. calls'[i].kind = "warm" /\ \A j \in Ids \ {i} : calls'[j] = calls[j]
      BY <3>1, NewCall
    <3> QED BY <3>2
  <2>2. MenuOwned'
    BY <1>4, <2>1, MenuLeft DEF LoadWarmData, auth
  <2> QED BY <1>4, <2>2 DEF LoadWarmData, auth
<1> QED BY <1>1, <1>2, <1>3, <1>4 DEF Load

LEMMA AnswerOwned ==
  ASSUME Typed, Owned, NEW i \in Ids, Answer(i)
  PROVE  Owned'
<1> USE DEF Owned, MenuOwned, Owners
<1>1. ASSUME NEW data, MenuSettles(i, data) PROVE Owned'
  <2>1. menu'.tree \in {menu.tree, data} /\ menu'.seq = menu.seq
        /\ (menu'.tree # menu.tree => data # None /\ calls[i].seq = menu.seq)
    BY <1>1 DEF MenuSettles, Typed, StoresTyped, MenuSet
  <2> QED BY <1>1, <2>1, SettledCall DEF MenuSettles, auth
<1>2. ASSUME NEW data, TenantSettles(i, data) PROVE Owned'
  BY <1>2, SettledCall DEF TenantSettles, auth
<1>3. ASSUME NEW data, ProfileSettles(i, data) PROVE Owned'
  BY <1>3, SettledCall DEF ProfileSettles
<1>4. ASSUME NEW data, WarmSettles(i, data) PROVE Owned'
  <2>1. warm'.for \in {warm.for, None}
    BY <1>4 DEF WarmSettles, NoWarm, Typed, StoresTyped, WarmSet
  <2> QED BY <1>4, <2>1, SettledCall DEF WarmSettles, auth
<1> QED BY <1>1, <1>2, <1>3, <1>4 DEF Answer

LEMMA BoundaryOwned ==
  ASSUME Typed, Owned, Boundary
  PROVE  Owned'
<1> USE DEF Owned, MenuOwned, Owners
<1>1. ASSUME menu' = ResetMenuTree, UNCHANGED calls PROVE MenuOwned'
  <2>1. menu'.tree = None /\ menu'.seq = menu.seq + 1 /\ menu.seq \in Nat
    BY <1>1, Constants DEF ResetMenuTree, NoMenu, Typed, StoresTyped, MenuSet
  <2>2. \A j \in Ids : calls[j].seq \in Nat
    BY Constants DEF Typed, StoresTyped, CallSet
  <2> QED BY <1>1, <2>1, <2>2
<1>2. InvalidateAllRouteWarmData => warm'.for = None
  BY DEF InvalidateAllRouteWarmData, NoWarm
<1>3. ASSUME Replaced PROVE MenuOwned' /\ warm'.for = None
  BY <1>3 DEF Replaced, NoMenu, NoCall, NoWarm
<1>4. ASSUME NEW i \in Ids, Login(i) PROVE Owned'
  <2>1. SignsIn(i) /\ viewpoint' = None
    BY <1>4 DEF Login
  <2>2. \A j \in Ids : calls'[j] = IF j = i
                        THEN [kind |-> "menu", seq |-> menu.seq + 2, for |-> subjects + 1]
                        ELSE calls[j]
    BY <2>1, SignInFetches, NewCall
  <2>3. /\ menu'.tree = None /\ menu'.seq = menu.seq + 2 /\ menu.seq \in Nat
        /\ \A j \in Ids : calls[j].seq \in Nat
    BY <2>1, SignInFetches, Constants DEF Typed, StoresTyped, CallSet
  <2>4. MenuOwned'
    BY <2>1, <2>2, <2>3 DEF SignsIn
  <2> QED BY <1>2, <2>1, <2>4 DEF SignsIn
<1>5. CASE LogoutBegins
  BY <1>5 DEF LogoutBegins, stores
<1>6. CASE LogoutClears
  BY <1>1, <1>2, <1>6 DEF LogoutClears
<1>7. CASE RedirectToLogin
  BY <1>3, <1>7 DEF RedirectToLogin
<1>8. CASE Reload
  BY <1>3, <1>8 DEF Reload
<1>9. CASE EnterShell
  BY <1>9 DEF EnterShell, stores
<1> QED BY <1>4, <1>5, <1>6, <1>7, <1>8, <1>9 DEF Boundary

LEMMA OwnedHolds == Spec => []Owned
<1>1. Init => Owned
  BY DEF Init, Owned, MenuOwned, Owners, NoMenu, NoWarm, NoCall
<1>2. Typed /\ Owned /\ [Next]_vars => Owned'
  <2> SUFFICES ASSUME Typed, Owned, [Next]_vars PROVE Owned'
    OBVIOUS
  <2>1. CASE ScheduleWarmup \/ WarmExpires
    BY <2>1 DEF ScheduleWarmup, WarmExpires, NoWarm, auth, Owned, MenuOwned, Owners
  <2>2. CASE UNCHANGED vars
    BY <2>2 DEF vars, auth, stores, Owned, MenuOwned, Owners
  <2> QED BY <2>1, <2>2, LoadOwned, AnswerOwned, BoundaryOwned DEF Next
<1> QED BY <1>1, <1>2, TypedHolds, PTL DEF Spec

(* useMenuStore: however late the answers of an earlier subject's fetches,   *)
(* forced ones included, the shell shows the menu of the one signed in.      *)
THEOREM MenuOfSubjectHolds == Spec => []MenuOfSubject
<1>1. Owned => MenuOfSubject
  BY DEF Owned, MenuOwned, Owners, MenuOfSubject
<1> QED BY <1>1, OwnedHolds, PTL

(* prefetch.ts: no page is served rows warmed for an earlier subject.        *)
THEOREM WarmOfSubjectHolds == Spec => []WarmOfSubject
<1>1. Owned => WarmOfSubject
  BY DEF Owned, Owners, WarmOfSubject
<1> QED BY <1>1, OwnedHolds, PTL

(* Login.tsx: no session of the shell inherits the tenant viewpoint that an  *)
(* earlier subject of the tab pinned.                                        *)
THEOREM ViewpointOfSubjectHolds == Spec => []ViewpointOfSubject
<1>1. Owned => ViewpointOfSubject
  BY DEF Owned, Owners, ViewpointOfSubject
<1> QED BY <1>1, OwnedHolds, PTL
-----------------------------------------------------------------------------
(* The promises that callers may join.                                     *)

LEMMA PendingKept ==
  ASSUME Typed, PromisesPending, [Next]_vars
  PROVE  PromisesPending'
<1> USE DEF PromisesPending
<1>1. /\ menu.promise # None => menu.promise \in Ids
      /\ tenant.promise # None => tenant.promise \in Ids
      /\ profile # None => profile \in Ids
      /\ warm.promise # None => warm.promise \in Ids
  BY Constants DEF Typed, StoresTyped, MenuSet, TenantSet, WarmSet, Ids, None
<1>2. ASSUME NEW i, NEW kind, NEW seq, NEW who, Call(i, kind, seq, who)
      PROVE  /\ i \in Ids /\ calls'[i].kind = kind
             /\ \A j \in Ids : calls[j].kind \in {"menu", "tenant", "profile", "warm"} =>
                              calls'[j] = calls[j]
  BY <1>2, NewCall
<1>3. ASSUME NEW i \in Ids, NEW force \in BOOLEAN, FetchMenu(i, force) PROVE PromisesPending'
  <2>1. menu'.promise = i
    BY <1>3 DEF FetchMenu, Fetching, Typed, StoresTyped, MenuSet
  <2>2. Call(i, "menu", menu.seq + 1, cookie)
    BY <1>3 DEF FetchMenu
  <2> QED BY <1>1, <1>2, <1>3, <2>1, <2>2 DEF FetchMenu
<1>4. ASSUME NEW i \in Ids, NEW force \in BOOLEAN, FetchTenantSession(i, force) PROVE PromisesPending'
  <2>1. tenant'.promise = i
    BY <1>4 DEF FetchTenantSession, Typed, StoresTyped, TenantSet
  <2>2. Call(i, "tenant", 0, cookie)
    BY <1>4 DEF FetchTenantSession
  <2> QED BY <1>1, <1>2, <1>4, <2>1, <2>2 DEF FetchTenantSession
<1>5. ASSUME NEW i \in Ids, EnsureAuthUserInfo(i) PROVE PromisesPending'
  <2>1. profile' = i
    BY <1>5 DEF EnsureAuthUserInfo
  <2>2. Call(i, "profile", 0, cookie)
    BY <1>5 DEF EnsureAuthUserInfo
  <2> QED BY <1>1, <1>2, <1>5, <2>1, <2>2 DEF EnsureAuthUserInfo
<1>6. ASSUME NEW i \in Ids, LoadWarmData(i) PROVE PromisesPending'
  <2>1. warm'.promise = i
    BY <1>6 DEF LoadWarmData
  <2>2. Call(i, "warm", 0, cookie)
    BY <1>6 DEF LoadWarmData
  <2> QED BY <1>1, <1>2, <1>6, <2>1, <2>2 DEF LoadWarmData
<1>7. ASSUME NEW i \in Ids, NEW data, MenuSettles(i, data) PROVE PromisesPending'
  <2>1. menu'.promise = None
    BY <1>7 DEF MenuSettles, Typed, StoresTyped, MenuSet
  <2>2. \A j \in Ids : calls[j].kind # "menu" => calls'[j] = calls[j]
    BY <1>7, SettledCall DEF MenuSettles
  <2> QED BY <1>1, <1>7, <2>1, <2>2 DEF MenuSettles
<1>8. ASSUME NEW i \in Ids, NEW data, TenantSettles(i, data) PROVE PromisesPending'
  <2>1. tenant'.promise = None
    BY <1>8 DEF TenantSettles
  <2>2. \A j \in Ids : calls[j].kind # "tenant" => calls'[j] = calls[j]
    BY <1>8, SettledCall DEF TenantSettles
  <2> QED BY <1>1, <1>8, <2>1, <2>2 DEF TenantSettles
<1>9. ASSUME NEW i \in Ids, NEW data, ProfileSettles(i, data) PROVE PromisesPending'
  <2>1. \A j \in Ids : calls[j].kind # "profile" => calls'[j] = calls[j]
    BY <1>9, SettledCall DEF ProfileSettles
  <2> QED BY <1>1, <1>9, <2>1 DEF ProfileSettles
<1>10. ASSUME NEW i \in Ids, NEW data, WarmSettles(i, data) PROVE PromisesPending'
  <2>1. warm'.promise = None \/ (warm'.promise = warm.promise /\ warm.promise # i)
    BY <1>10 DEF WarmSettles, NoWarm, Typed, StoresTyped, WarmSet
  <2>2. \A j \in Ids : calls[j].kind # "warm" \/ j # i => calls'[j] = calls[j]
    BY <1>10, SettledCall DEF WarmSettles
  <2> QED BY <1>1, <1>10, <2>1, <2>2 DEF WarmSettles
<1>11. CASE LogoutBegins \/ LogoutClears \/ EnterShell
  BY <1>11 DEF LogoutBegins, LogoutClears, EnterShell, ResetMenuTree, ResetTenantSession,
               InvalidateAllRouteWarmData, NoMenu, NoTenant, NoWarm, stores
<1>14. ASSUME NEW i \in Ids, Login(i) PROVE PromisesPending'
  <2>1. SignsIn(i)
    BY <1>14 DEF Login
  <2>2. Call(i, "menu", menu.seq + 2, subjects + 1) /\ menu'.promise = i
    BY <2>1, SignInFetches
  <2> QED BY <1>1, <1>2, <2>1, <2>2 DEF SignsIn, ResetTenantSession, InvalidateAllRouteWarmData,
                                       NoTenant, NoWarm
<1>12. CASE RedirectToLogin \/ Reload
  BY <1>12 DEF RedirectToLogin, Reload, Replaced, NoMenu, NoTenant, NoWarm
<1>13. CASE ScheduleWarmup \/ WarmExpires \/ UNCHANGED vars
  BY <1>13 DEF ScheduleWarmup, WarmExpires, NoWarm, vars, stores
<1> QED BY <1>3, <1>4, <1>5, <1>6, <1>7, <1>8, <1>9, <1>10, <1>11, <1>12, <1>13, <1>14
        DEF Next, Load, Answer, Boundary

(* The stores: a caller that joins a pending promise joins one that will     *)
(* still be settled, across superseded fetches, resets and sign-outs.        *)
THEOREM PromisesPendingHolds == Spec => []PromisesPending
<1>1. Init => PromisesPending
  BY DEF Init, PromisesPending, NoMenu, NoTenant, NoWarm
<1>2. Typed /\ PromisesPending /\ [Next]_vars => PromisesPending'
  BY PendingKept
<1> QED BY <1>1, <1>2, TypedHolds, PTL DEF Spec
=============================================================================
