-------------------------- MODULE ShellSessionProofs --------------------------
(***************************************************************************)
(* What holds of the shell's session for any number of requests, sign-ins, *)
(* token pairs and faults: its types, that no request is executed twice    *)
(* and that a refresh never spends a token twice.                          *)
(***************************************************************************)
EXTENDS ShellSession, TLAPS

\* A pair that is good for anything has been issued.
Issued == \A p \in Pairs : access[p] # "gone" \/ p \in refreshable => sessionOf[p] # None

\* The answer the verification modal waits for was given to a signed-in
\* browser, and a verification is asked of guarded requests only.
Fit(r, q) ==
  /\ q.answer = "ok" /\ r = "check" => q.pair # None
  /\ q.answer = "verification" => r \in Guarded

Answered == \A r \in Reqs : Fit(r, req[r])

TypeInv == TypeOK /\ Issued /\ Answered

\* A request without an answer of the server.
Blank(q) == q \in Request /\ q.answer \in {"none", "network"}
-----------------------------------------------------------------------------
(* The helpers keep the types.                                             *)
LEMMA SentTyped ==
  ASSUME NEW q \in Request, BrowserTyped'
  PROVE  Blank(Sent(q)) /\ Sent(q).at = "sent"
BY DEF Sent, BrowserTyped, Request, Answers, Blank

LEMMA WaitsTyped ==
  ASSUME CallsTyped, NEW r \in Reqs, NEW what \in {"refreshing", "verifying"}
  PROVE  Blank(Waits(r, what)) /\ Waits(r, what).at = what
<1>1. req[r] \in Request
  BY DEF CallsTyped
<1>2. 0 \in 0..MaxPairs
  BY SessionAssumption
<1> QED BY <1>1, <1>2 DEF Waits, Request, Answers, None, Blank

LEMMA FreshTyped ==
  /\ Blank(FreshReq) /\ FreshReq.at = "idle"
  /\ NoRefresh \in Refresh /\ NoRefresh.at = "none" /\ NoRefresh.issued = None
BY SessionAssumption DEF FreshReq, NoRefresh, Request, Refresh, Answers, None, Blank

LEMMA DoneTyped ==
  ASSUME NEW r \in Reqs, NEW how \in Settled
  PROVE  Blank(Done(r, how)) /\ (r # "check" => Done(r, how).at = how)
<1>1. Blank([FreshReq EXCEPT !.at = how]) /\ [FreshReq EXCEPT !.at = how].at = how
  BY FreshTyped DEF Request, Blank
<1> QED BY <1>1, FreshTyped DEF Done

LEMMA AnsweredTyped ==
  ASSUME refresh \in Refresh, NEW p \in 0..MaxPairs
  PROVE  [refresh EXCEPT !.at = "answered", !.issued = p] \in Refresh
BY DEF Refresh

LEMMA IssueTyped ==
  ASSUME TypeInv, NEW p \in Pairs, NEW s \in Sessions, NEW used, Issue(p, s, used),
         UNCHANGED <<revoked, runs>>
  PROVE  /\ ServerTyped'
         /\ \A q \in Pairs : access'[q] # "gone" \/ q \in refreshable' => sessionOf'[q] # None
BY SessionAssumption DEF TypeInv, TypeOK, ServerTyped, Issued, Issue, Sessions, None

LEMMA RevokeTyped ==
  ASSUME TypeInv, NEW s \in Sessions, Revoke(s), UNCHANGED sessionOf
  PROVE  /\ access' \in [Pairs -> {"ok", "idle", "gone"}]
         /\ refreshable' \subseteq Pairs /\ revoked' \subseteq Sessions
         /\ \A q \in Pairs : access'[q] # "gone" \/ q \in refreshable' => sessionOf'[q] # None
BY DEF TypeInv, TypeOK, ServerTyped, Issued, Revoke, PairsOf
-----------------------------------------------------------------------------
(* One lemma per action that changes what TypeInv is about.                *)
LEMMA Frames ==
  /\ ServerTyped /\ UNCHANGED server => ServerTyped'
  /\ BrowserTyped /\ UNCHANGED browser => BrowserTyped'
  /\ ShellTyped /\ UNCHANGED <<shell, verify, faults>> => ShellTyped'
  /\ CallsTyped /\ UNCHANGED <<req, refresh, lost>> => CallsTyped'
  /\ Issued /\ UNCHANGED server => Issued'
  /\ Answered /\ UNCHANGED req => Answered'
BY DEF ServerTyped, BrowserTyped, ShellTyped, CallsTyped, Issued, Answered, Fit,
       server, browser, shell, verify

\* A step of the page that blanks the requests it touches.
LEMMA CallsKept ==
  ASSUME TypeInv, DOMAIN req' = Reqs, req' = [r \in Reqs |-> req'[r]],
         \A r \in Reqs : req'[r] = req[r] \/ Blank(req'[r])
  PROVE  req' \in [Reqs -> Request] /\ Answered'
BY DEF TypeInv, TypeOK, CallsTyped, Answered, Fit, Blank

\* What a step does with one request.
LEMMA OneRequest ==
  ASSUME TypeInv, NEW r \in Reqs, NEW q, Blank(q), req' = [req EXCEPT ![r] = q]
  PROVE  req' \in [Reqs -> Request] /\ Answered'
BY DEF TypeInv, TypeOK, CallsTyped, Answered, Fit, Blank

LEMMA Cleared ==
  ASSUME BrowserTyped, ClearClientSession, UNCHANGED cookie
  PROVE  BrowserTyped'
<1>1. None \in 0..MaxSessions
  BY SessionAssumption DEF None
<1> QED BY <1>1 DEF BrowserTyped, ClearClientSession

LEMMA ServerAnswersTyped ==
  ASSUME TypeInv, NEW r \in Reqs, ServerAnswers(r)
  PROVE  TypeInv'
<1>0. PICK answer \in Outcomes(r) :
        req' = [req EXCEPT ![r].at = "answered", ![r].answer = answer,
                           ![r].pair = IF r = "check" THEN @ ELSE None]
  BY DEF ServerAnswers
<1> DEFINE q == req[r]
           pair == IF r = "check" THEN q.pair ELSE None
           a == [q EXCEPT !.at = "answered", !.answer = answer, !.pair = pair]
<1>1. q \in Request /\ q.at = "sent" /\ q.pair \in 0..MaxPairs
  BY DEF TypeInv, TypeOK, CallsTyped, Request, ServerAnswers
<1>2. answer \in Answers /\ (answer # Verdict(r) => answer = "unauthorized")
  BY DEF Outcomes, Verdict, Answers
<1>3. Verdict(r) \in {"ok", "idleTimeout"} => q.pair \in Pairs /\ access[q.pair] # "gone"
  BY <1>1 DEF Verdict, Pairs, None
<1>4. a \in Request /\ Fit(r, a)
  <2>1. pair \in 0..MaxPairs /\ (r = "check" /\ answer = "ok" => pair # None)
    BY <1>1, <1>2, <1>3, SessionAssumption DEF None, Pairs
  <2>2. answer = "verification" => r \in Guarded
    BY <1>2 DEF Verdict
  <2> HIDE DEF pair
  <2> QED BY <1>1, <1>2, <2>1, <2>2 DEF Request, Fit
<1>5. req' = [req EXCEPT ![r] = a]
  BY <1>0
<1> HIDE DEF a
<1>6. CallsTyped'
  BY <1>4, <1>5 DEF TypeInv, TypeOK, CallsTyped, ServerAnswers
<1>7. Answered'
  BY <1>4, <1>5 DEF TypeInv, TypeOK, CallsTyped, Answered
<1>8. runs' \in [Business -> Nat]
  BY DEF TypeInv, TypeOK, ServerTyped, ServerAnswers
<1>9. /\ access' \in [Pairs -> {"ok", "idle", "gone"}]
      /\ refreshable' \subseteq Pairs /\ revoked' \subseteq Sessions
      /\ \A p \in Pairs : access'[p] # "gone" \/ p \in refreshable' => sessionOf'[p] # None
  <2>1. CASE r = "logout" /\ Verdict(r) = "ok"
    <3>1. sessionOf[q.pair] \in Sessions
      BY <1>3, <2>1 DEF TypeInv, TypeOK, ServerTyped, Issued, Sessions, None
    <3>2. Revoke(sessionOf[q.pair]) /\ UNCHANGED sessionOf
      BY <2>1 DEF ServerAnswers
    <3> QED BY <3>1, <3>2, RevokeTyped
  <2>2. CASE ~(r = "logout" /\ Verdict(r) = "ok")
    <3>1. UNCHANGED <<sessionOf, refreshable, revoked>>
      BY <2>2 DEF ServerAnswers
    <3>2. access' = IF Verdict(r) = "idleTimeout" THEN [access EXCEPT ![q.pair] = "gone"] ELSE access
      BY <2>2 DEF ServerAnswers
    <3> QED BY <3>1, <3>2 DEF TypeInv, TypeOK, ServerTyped, Issued
  <2> QED BY <2>1, <2>2
<1>10. ServerTyped' /\ Issued'
  BY <1>8, <1>9 DEF TypeInv, TypeOK, ServerTyped, Issued, ServerAnswers
<1> QED BY <1>6, <1>7, <1>10, Frames DEF TypeInv, TypeOK, ServerAnswers

LEMMA ServerRefreshesTyped ==
  ASSUME TypeInv, ServerRefreshes
  PROVE  TypeInv'
<1>1. CASE refresh.pair \in refreshable /\ NextPair # {}
  <2>1. PICK p \in NextPair :
          /\ Issue(p, sessionOf[refresh.pair], {refresh.pair})
          /\ refresh' = [refresh EXCEPT !.at = "answered", !.issued = p]
          /\ UNCHANGED revoked
    BY <1>1 DEF ServerRefreshes
  <2>2. p \in Pairs /\ sessionOf[refresh.pair] \in Sessions
    BY <1>1 DEF NextPair, TypeInv, TypeOK, ServerTyped, Issued, Sessions, None
  <2>3. /\ ServerTyped'
        /\ \A q \in Pairs : access'[q] # "gone" \/ q \in refreshable' => sessionOf'[q] # None
    BY <2>1, <2>2, IssueTyped DEF ServerRefreshes
  <2>4. CallsTyped'
    <3>1. p \in 0..MaxPairs
      BY <2>2, SessionAssumption DEF Pairs
    <3>2. UNCHANGED <<req, lost>>
      BY DEF ServerRefreshes
    <3> QED BY <2>1, <3>1, <3>2, AnsweredTyped DEF TypeInv, TypeOK, CallsTyped
  <2> QED BY <2>3, <2>4, Frames DEF TypeInv, TypeOK, ServerRefreshes, Issued
<1>2. CASE ~(refresh.pair \in refreshable /\ NextPair # {})
  <2>1. CallsTyped'
    <3>1. refresh' = [refresh EXCEPT !.at = "answered"] /\ UNCHANGED <<req, lost>>
      BY <1>2 DEF ServerRefreshes
    <3> QED BY <3>1 DEF TypeInv, TypeOK, CallsTyped, Refresh
  <2>2. UNCHANGED <<sessionOf, runs, req>>
    BY <1>2 DEF ServerRefreshes
  <2>3. ServerTyped' /\ Issued'
    <3>1. CASE refresh.pair \in refreshable
      <4>1. sessionOf[refresh.pair] \in Sessions
        BY <3>1 DEF TypeInv, TypeOK, ServerTyped, Issued, Sessions, None
      <4>2. Revoke(sessionOf[refresh.pair])
        BY <1>2, <3>1 DEF ServerRefreshes
      <4> QED BY <2>2, <4>1, <4>2, RevokeTyped DEF TypeInv, TypeOK, ServerTyped, Issued
    <3>2. CASE refresh.pair \notin refreshable
      BY <1>2, <2>2, <3>2, Frames DEF ServerRefreshes, TypeInv, TypeOK, ServerTyped, Issued
    <3> QED BY <3>1, <3>2
  <2> QED BY <2>1, <2>3, Frames DEF TypeInv, TypeOK, ServerRefreshes
<1> QED BY <1>1, <1>2

LEMMA FaultTyped ==
  ASSUME ShellTyped, Fault, UNCHANGED <<shell, verify>>
  PROVE  ShellTyped'
BY SessionAssumption DEF ShellTyped, Fault, shell, verify

LEMMA EnvironmentTyped ==
  ASSUME TypeInv, Environment, ~Reload
  PROVE  TypeInv'
<1>1. ASSUME NEW r \in Reqs, NetworkLoses(r) PROVE TypeInv'
  <2> DEFINE a == [req[r] EXCEPT !.at = "answered", !.answer = "network", !.pair = None]
  <2>1. Blank(a)
    <3>1. req[r] \in Request /\ 0 \in 0..MaxPairs
      BY SessionAssumption DEF TypeInv, TypeOK, CallsTyped
    <3> QED BY <3>1 DEF Request, Answers, None, Blank
  <2>2. req' = [req EXCEPT ![r] = a]
    BY <1>1 DEF NetworkLoses
  <2> HIDE DEF a
  <2>3. req' \in [Reqs -> Request] /\ Answered'
    BY <2>1, <2>2, OneRequest
  <2>4. CallsTyped'
    BY <1>1, <2>3 DEF NetworkLoses, TypeInv, TypeOK, CallsTyped
  <2> QED BY <1>1, <2>3, <2>4, Frames, FaultTyped DEF TypeInv, TypeOK, NetworkLoses
<1>2. CASE NetworkLosesRefresh
  <2>1. refresh' \in Refresh
    <3>1. refresh \in Refresh /\ None \in 0..MaxPairs
      BY SessionAssumption DEF TypeInv, TypeOK, CallsTyped, None
    <3>2. refresh' = [refresh EXCEPT !.at = "answered", !.issued = None]
      BY <1>2 DEF NetworkLosesRefresh
    <3> QED BY <3>1, <3>2, AnsweredTyped
  <2>2. CallsTyped'
    BY <1>2, <2>1 DEF TypeInv, TypeOK, CallsTyped, NetworkLosesRefresh, WithLost
  <2> QED BY <1>2, <2>2, Frames DEF TypeInv, TypeOK, NetworkLosesRefresh
<1>3. ASSUME NEW p \in Pairs, TokenEnds(p) PROVE TypeInv'
  <2>1. ServerTyped' /\ Issued'
    BY <1>3 DEF TypeInv, TypeOK, ServerTyped, Issued, TokenEnds
  <2> QED BY <1>3, <2>1, Frames, FaultTyped DEF TypeInv, TypeOK, TokenEnds
<1>4. ASSUME NEW s \in Sessions, RevokedElsewhere(s) PROVE TypeInv'
  <2>1. ServerTyped' /\ Issued'
    BY <1>4, RevokeTyped DEF TypeInv, TypeOK, ServerTyped, Issued, RevokedElsewhere
  <2> QED BY <1>4, <2>1, Frames, FaultTyped DEF TypeInv, TypeOK, RevokedElsewhere
<1>5. CASE VerificationExpires
  <2>1. None \in 0..MaxSessions
    BY SessionAssumption DEF None
  <2>2. ASSUME NEW r \in Reqs
        PROVE  /\ req'[r] \in Request
               /\ req'[r].answer = req[r].answer /\ req'[r].pair = req[r].pair
    <3>1. req[r] \in Request /\ req'[r] = [req[r] EXCEPT !.op = None]
      BY <1>5 DEF VerificationExpires, TypeInv, TypeOK, CallsTyped
    <3> QED BY <2>1, <3>1 DEF Request
  <2>3. CallsTyped' /\ Answered'
    BY <1>5, <2>2 DEF VerificationExpires, TypeInv, TypeOK, CallsTyped, Answered, Fit
  <2>4. BrowserTyped'
    BY <1>5, <2>1 DEF VerificationExpires, TypeInv, TypeOK, BrowserTyped
  <2> QED BY <1>5, <2>3, <2>4, Frames, FaultTyped DEF TypeInv, TypeOK, VerificationExpires
<1> QED BY <1>1, <1>2, <1>3, <1>4, <1>5 DEF Environment

LEMMA ReplacedTyped ==
  ASSUME TypeInv, NEW next \in {"login", "shell"}, Replaced(next), faults' \in 0..MaxFaults
  PROVE  TypeInv'
<1>1. ASSUME NEW r \in Reqs
      PROVE  req'[r] = req[r] \/ Blank(req'[r])
  <2>1. "gone" \in Settled
    BY DEF Settled
  <2> QED BY <2>1, FreshTyped, DoneTyped DEF Replaced
<1>2. CallsTyped' /\ Answered'
  <2>1. req' \in [Reqs -> Request] /\ Answered'
    BY <1>1, CallsKept DEF Replaced
  <2>2. lost' \subseteq Pairs /\ refresh' \in Refresh
    BY FreshTyped DEF TypeInv, TypeOK, CallsTyped, Replaced, WithLost
  <2> QED BY <2>1, <2>2 DEF CallsTyped
<1>3. ShellTyped'
  BY DEF TypeInv, TypeOK, ShellTyped, Replaced
<1> QED BY <1>2, <1>3, Frames DEF TypeInv, TypeOK, Replaced

LEMMA ReceiveResultTyped ==
  ASSUME TypeInv, NEW r \in Reqs, ReceiveResult(r)
  PROVE  TypeInv'
<1>1. PICK how \in {"resolved", "rejected"} : req' = [req EXCEPT ![r] = Done(r, how)]
  BY DEF ReceiveResult
<1>2. Blank(Done(r, how))
  BY <1>1, DoneTyped DEF Settled
<1>3. CallsTyped' /\ Answered'
  BY <1>1, <1>2, OneRequest DEF ReceiveResult, TypeInv, TypeOK, CallsTyped
<1>4. BrowserTyped'
  <2>1. UNCHANGED browser \/ (cookie' = None /\ hint' = FALSE /\ UNCHANGED opToken)
    BY DEF ReceiveResult
  <2>2. None \in 0..MaxPairs
    BY SessionAssumption DEF None
  <2> QED BY <2>1, <2>2, Frames DEF TypeInv, TypeOK, BrowserTyped
<1> QED BY <1>3, <1>4, Frames DEF TypeInv, TypeOK, ReceiveResult

LEMMA ReceiveVerificationTyped ==
  ASSUME TypeInv, NEW r \in Reqs, ReceiveVerification(r)
  PROVE  TypeInv'
<1>1. Blank(Waits(r, "verifying"))
  BY WaitsTyped DEF TypeInv, TypeOK
<1>2. CallsTyped' /\ Answered'
  BY <1>1, OneRequest DEF ReceiveVerification, TypeInv, TypeOK, CallsTyped
<1>3. BrowserTyped'
  BY SessionAssumption DEF TypeInv, TypeOK, BrowserTyped, ReceiveVerification, None
<1>4. ShellTyped'
  <2>1. r \in Business
    BY DEF ReceiveVerification, TypeInv, Answered, Fit, Business
  <2> QED BY <2>1 DEF TypeInv, TypeOK, ShellTyped, ReceiveVerification, shell
<1> QED BY <1>2, <1>3, <1>4, Frames DEF TypeInv, TypeOK, ReceiveVerification

LEMMA ReceiveUnauthorizedTyped ==
  ASSUME TypeInv, NEW r \in Reqs, ReceiveUnauthorized(r)
  PROVE  TypeInv'
<1>1. PICK q \in {Waits(r, "refreshing"), Done(r, "rejected")} : req' = [req EXCEPT ![r] = q]
  BY DEF ReceiveUnauthorized
<1>2. Blank(q)
  BY WaitsTyped, DoneTyped DEF TypeInv, TypeOK, Settled
<1>3. refresh' \in Refresh
  <2>1. [NoRefresh EXCEPT !.at = "sent", !.pair = cookie] \in Refresh
    BY FreshTyped DEF Refresh, TypeInv, TypeOK, BrowserTyped
  <2> QED BY <2>1 DEF TypeInv, TypeOK, CallsTyped, ReceiveUnauthorized, Flight
<1>4. CallsTyped' /\ Answered'
  BY <1>1, <1>2, <1>3, OneRequest DEF ReceiveUnauthorized, TypeInv, TypeOK, CallsTyped
<1>5. BrowserTyped'
  <2>1. UNCHANGED cookie /\ (ClearClientSession \/ UNCHANGED <<opToken, hint>>)
    BY DEF ReceiveUnauthorized, RedirectToLogin
  <2> QED BY <2>1, Cleared DEF TypeInv, TypeOK, BrowserTyped
<1>6. ShellTyped'
  <2>1. unloading' \in BOOLEAN
    BY DEF ReceiveUnauthorized, RedirectToLogin, TypeInv, TypeOK, ShellTyped
  <2> QED BY <2>1 DEF TypeInv, TypeOK, ShellTyped, ReceiveUnauthorized, verify
<1> QED BY <1>4, <1>5, <1>6, Frames DEF TypeInv, TypeOK, ReceiveUnauthorized

LEMMA ReceiveRefreshTyped ==
  ASSUME TypeInv, ReceiveRefresh
  PROVE  TypeInv'
<1>1. CASE RefreshSucceeds
  <2>1. BrowserTyped'
    BY <1>1 DEF TypeInv, TypeOK, BrowserTyped, CallsTyped, Refresh, RefreshSucceeds
  <2>2. ASSUME NEW r \in Reqs
        PROVE  req'[r] = req[r] \/ Blank(req'[r])
    <3>1. Blank(Sent(req[r]))
      BY <2>1, SentTyped DEF TypeInv, TypeOK, CallsTyped
    <3>2. Blank([Sent(req[r]) EXCEPT !.retried = TRUE])
      BY <3>1 DEF Request, Blank
    <3> QED BY <1>1, <3>2 DEF RefreshSucceeds
  <2>3. req' \in [Reqs -> Request] /\ Answered'
    BY <1>1, <2>2, CallsKept DEF RefreshSucceeds
  <2>4. CallsTyped'
    BY <1>1, <2>3, FreshTyped DEF RefreshSucceeds, TypeInv, TypeOK, CallsTyped
  <2> QED BY <1>1, <2>1, <2>3, <2>4, Frames DEF RefreshSucceeds, TypeInv, TypeOK
<1>2. CASE RefreshFails
  <2>1. BrowserTyped'
    BY <1>2, Cleared DEF TypeInv, TypeOK, RefreshFails, RedirectToLogin
  <2>2. ASSUME NEW r \in Reqs
        PROVE  req'[r] = req[r] \/ Blank(req'[r])
    BY <1>2, DoneTyped DEF RefreshFails, Settled
  <2>3. req' \in [Reqs -> Request] /\ Answered'
    BY <1>2, <2>2, CallsKept DEF RefreshFails
  <2>4. CallsTyped'
    BY <1>2, <2>3, FreshTyped DEF RefreshFails, TypeInv, TypeOK, CallsTyped
  <2>5. ShellTyped'
    BY <1>2 DEF RefreshFails, RedirectToLogin, TypeInv, TypeOK, ShellTyped, verify
  <2> QED BY <1>2, <2>1, <2>3, <2>4, <2>5, Frames DEF RefreshFails, TypeInv, TypeOK
<1> QED BY <1>1, <1>2 DEF ReceiveRefresh
\* A request leaves: r becomes Sent(q) under the browser's cookies.
LEMMA SendTyped ==
  ASSUME TypeInv, NEW r \in Reqs, UNCHANGED <<browser, refresh, lost>>,
         req' = [req EXCEPT ![r] = Sent(FreshReq)]
  PROVE  BrowserTyped' /\ CallsTyped' /\ Answered'
<1>1. BrowserTyped'
  BY Frames DEF TypeInv, TypeOK
<1>2. Blank(Sent(FreshReq))
  BY <1>1, SentTyped, FreshTyped DEF Blank
<1> QED BY <1>1, <1>2, OneRequest DEF TypeInv, TypeOK, CallsTyped

LEMMA VerifyTyped ==
  ASSUME TypeInv, VerifySucceeds \/ VerifyCancel
  PROVE  TypeInv'
<1>1. CASE VerifySucceeds
  <2>1. BrowserTyped'
    <3>1. sessionOf[req["check"].pair] \in 0..MaxSessions
      <4>1. req["check"] \in Request /\ req["check"].pair # None
        BY <1>1 DEF TypeInv, TypeOK, CallsTyped, Answered, Fit, VerifySucceeds, Reqs
      <4> QED BY <4>1 DEF TypeInv, TypeOK, ServerTyped, Request, Pairs, None
    <3>2. opToken' \in {opToken, sessionOf[req["check"].pair]} /\ UNCHANGED <<cookie, hint>>
      BY <1>1 DEF VerifySucceeds
    <3> QED BY <3>1, <3>2 DEF TypeInv, TypeOK, BrowserTyped
  <2>2. ASSUME NEW r \in Reqs
        PROVE  req'[r] = req[r] \/ Blank(req'[r])
    <3>1. Blank(Sent(req[r]))
      BY <2>1, SentTyped DEF TypeInv, TypeOK, CallsTyped
    <3>2. Blank([Sent(req[r]) EXCEPT !.opRetried = TRUE])
      BY <3>1 DEF Request, Blank
    <3> QED BY <1>1, <3>2, FreshTyped DEF VerifySucceeds
  <2>3. req' \in [Reqs -> Request] /\ Answered'
    BY <1>1, <2>2, CallsKept DEF VerifySucceeds
  <2>4. CallsTyped'
    BY <1>1, <2>3 DEF VerifySucceeds, TypeInv, TypeOK, CallsTyped
  <2>5. ShellTyped'
    BY <1>1 DEF VerifySucceeds, TypeInv, TypeOK, ShellTyped, shell
  <2> QED BY <1>1, <2>1, <2>3, <2>4, <2>5, Frames DEF VerifySucceeds, TypeInv, TypeOK
<1>2. CASE VerifyCancel
  <2>1. req' \in [Reqs -> Request] /\ Answered'
    <3>1. CASE waiter = NoReq
      BY <1>2, <3>1, Frames DEF VerifyCancel, TypeInv, TypeOK, CallsTyped
    <3>2. CASE waiter # NoReq
      <4>1. waiter \in Reqs
        BY <3>2 DEF TypeInv, TypeOK, ShellTyped, Reqs
      <4>2. Blank(Done(waiter, "rejected"))
        BY <4>1, DoneTyped DEF Settled
      <4> QED BY <1>2, <3>2, <4>1, <4>2, OneRequest DEF VerifyCancel
    <3> QED BY <3>1, <3>2
  <2>2. CallsTyped'
    BY <1>2, <2>1 DEF VerifyCancel, TypeInv, TypeOK, CallsTyped
  <2>3. ShellTyped'
    BY <1>2 DEF VerifyCancel, TypeInv, TypeOK, ShellTyped, shell
  <2> QED BY <1>2, <2>1, <2>2, <2>3, Frames DEF VerifyCancel, TypeInv, TypeOK
<1> QED BY <1>1, <1>2

LEMMA LoginTyped ==
  ASSUME TypeInv, Login
  PROVE  TypeInv'
<1>1. PICK p \in NextPair, s \in Sessions : Issue(p, s, {}) /\ cookie' = p
  BY DEF Login
<1>2. p \in Pairs /\ p \in 0..MaxPairs
  BY SessionAssumption DEF NextPair, Pairs
<1>3. ServerTyped' /\ Issued'
  BY <1>1, <1>2, IssueTyped DEF Login, Issued
<1>4. BrowserTyped'
  BY <1>1, <1>2 DEF Login, TypeInv, TypeOK, BrowserTyped
<1>5. ShellTyped'
  BY DEF Login, TypeInv, TypeOK, ShellTyped, verify
<1> QED BY <1>3, <1>4, <1>5, Frames DEF Login, TypeInv, TypeOK

LEMMA LogoutTyped ==
  ASSUME TypeInv, LogoutBegins \/ LogoutRevoked \/ LogoutClears \/ LogoutGraceEnds
  PROVE  TypeInv'
<1>1. ShellTyped'
  BY DEF LogoutBegins, LogoutRevoked, LogoutClears, LogoutGraceEnds, TypeInv, TypeOK,
         ShellTyped, verify
<1>2. CASE LogoutBegins
  <2>1. BrowserTyped' /\ CallsTyped' /\ Answered'
    BY <1>2, SendTyped DEF LogoutBegins, Reqs
  <2> QED BY <1>1, <1>2, <2>1, Frames DEF LogoutBegins, TypeInv, TypeOK
<1>3. CASE LogoutRevoked
  <2>1. CallsTyped' /\ Answered'
    BY <1>3, FreshTyped, OneRequest DEF LogoutRevoked, TypeInv, TypeOK, CallsTyped, Reqs
  <2> QED BY <1>1, <1>3, <2>1, Frames DEF LogoutRevoked, TypeInv, TypeOK
<1>4. CASE LogoutClears
  <2>1. BrowserTyped'
    BY <1>4, Cleared DEF LogoutClears, ClearClientSession, TypeInv, TypeOK
  <2> QED BY <1>1, <1>4, <2>1, Frames DEF LogoutClears, TypeInv, TypeOK
<1>5. CASE LogoutGraceEnds
  BY <1>1, <1>5, Frames DEF LogoutGraceEnds, TypeInv, TypeOK
<1> QED BY <1>2, <1>3, <1>4, <1>5

LEMMA TypeInvInitial == Init => TypeInv
<1> SUFFICES ASSUME Init PROVE TypeInv
  OBVIOUS
<1>1. ServerTyped /\ Issued
  BY SessionAssumption DEF Init, ServerTyped, Issued, None
<1>2. BrowserTyped /\ ShellTyped
  <2>1. None \in 0..MaxPairs /\ None \in 0..MaxSessions /\ 0 \in 0..MaxFaults
    BY SessionAssumption DEF None
  <2> QED BY <2>1 DEF Init, BrowserTyped, ShellTyped
<1>3. CallsTyped /\ Answered
  BY FreshTyped DEF Init, CallsTyped, Answered, Fit, Blank
<1> QED BY <1>1, <1>2, <1>3 DEF TypeInv, TypeOK

LEMMA TypeInvKept ==
  ASSUME TypeInv, [Next]_vars
  PROVE  TypeInv'
<1>1. CASE ServerStep
  BY <1>1, ServerAnswersTyped, ServerRefreshesTyped DEF ServerStep
<1>2. CASE Environment
  <2>1. CASE Reload
    <3>1. PICK next \in {"login", "shell"} : Replaced(next)
      BY <2>1 DEF Reload
    <3>2. faults' \in 0..MaxFaults
      BY <2>1, SessionAssumption DEF Reload, Fault, TypeInv, TypeOK, ShellTyped
    <3> QED BY <3>1, <3>2, ReplacedTyped
  <2> QED BY <1>2, <2>1, EnvironmentTyped
<1>3. CASE PageStep
  <2>1. ASSUME NEW r \in Reqs, Receive(r) PROVE TypeInv'
    BY <2>1, ReceiveResultTyped, ReceiveVerificationTyped, ReceiveUnauthorizedTyped, VerifyTyped
       DEF Receive
  <2>2. CASE Unload
    BY <2>2, ReplacedTyped DEF Unload, TypeInv, TypeOK, ShellTyped
  <2> QED BY <1>3, <2>1, <2>2, ReceiveRefreshTyped, LogoutTyped DEF PageStep
<1>4. CASE User
  <2>1. ASSUME NEW r \in Business, IssueRequest(r) PROVE TypeInv'
    <3>1. BrowserTyped' /\ CallsTyped' /\ Answered'
      BY <2>1, SendTyped DEF IssueRequest, Reqs
    <3> QED BY <2>1, <3>1, Frames DEF IssueRequest, TypeInv, TypeOK
  <2>2. CASE VerifySubmit
    <3>1. BrowserTyped' /\ CallsTyped' /\ Answered'
      BY <2>2, SendTyped DEF VerifySubmit, Reqs
    <3> QED BY <2>2, <3>1, Frames DEF VerifySubmit, TypeInv, TypeOK
  <2> QED BY <1>4, <2>1, <2>2, VerifyTyped, LoginTyped, LogoutTyped DEF User
<1>5. CASE UNCHANGED vars
  BY <1>5, Frames DEF vars, TypeInv, TypeOK, server, browser, shell, verify
<1> QED BY <1>1, <1>2, <1>3, <1>4, <1>5 DEF Next

LEMMA TypeInvHolds == Spec => []TypeInv
BY TypeInvInitial, TypeInvKept, PTL DEF Spec

(* The shell's session stays within its types: what every request, token     *)
(* pair and modal can be, in any order of answers, faults and clicks.        *)
THEOREM SessionTypes == Spec => []TypeOK
<1>1. TypeInv => TypeOK
  BY DEF TypeInv
<1> QED BY <1>1, TypeInvHolds, PTL
-----------------------------------------------------------------------------
(* A request is executed at most once.  What makes it so: every replay     *)
(* starts from an answer that says the server did not execute it, and the  *)
(* request whose resolver the verification controller holds still waits.   *)

Pending(q) ==
  \/ q.at \in {"idle", "sent", "refreshing", "verifying"}
  \/ q.at = "answered" /\ q.answer \notin {"ok", "network"}

WaiterWaits == waiter # NoReq => req[waiter].at = "verifying"

OnceInv ==
  /\ \A r \in Business : runs[r] <= 1 /\ (Pending(req[r]) => runs[r] = 0)
  /\ WaiterWaits

\* A step that executes nothing and makes no settled request pending again.
Gentle == UNCHANGED runs /\ \A r \in Business : Pending(req'[r]) => Pending(req[r])

LEMMA GentleOnce ==
  ASSUME OnceInv, Gentle, WaiterWaits'
  PROVE  OnceInv'
BY DEF OnceInv, Gentle

LEMMA ServerOnce ==
  ASSUME TypeInv, OnceInv, ServerStep
  PROVE  OnceInv'
<1>1. ASSUME NEW r \in Reqs, ServerAnswers(r) PROVE OnceInv'
  <2>1. /\ req[r].at = "sent" /\ req'[r].at = "answered"
        /\ r \in Business => req'[r].answer = Verdict(r)
        /\ \A b \in Reqs \ {r} : req'[b] = req[b]
    <3>1. r \in Business => Outcomes(r) = {Verdict(r)}
      BY SessionAssumption DEF Outcomes
    <3> QED BY <1>1, <3>1 DEF ServerAnswers, TypeInv, TypeOK, CallsTyped, Request
  <2>2. \A b \in Business :
          runs'[b] = IF b = r /\ Verdict(r) = "ok" THEN runs[b] + 1 ELSE runs[b]
    BY <1>1 DEF ServerAnswers
  <2>3. ASSUME NEW b \in Business
        PROVE  runs'[b] <= 1 /\ (Pending(req'[b]) => runs'[b] = 0)
    <3>1. runs[b] \in Nat /\ runs[b] <= 1 /\ (Pending(req[b]) => runs[b] = 0) /\ b \in Reqs
      BY DEF OnceInv, TypeInv, TypeOK, ServerTyped, Reqs
    <3> QED BY <2>1, <2>2, <3>1 DEF Pending
  <2>4. WaiterWaits'
    BY <1>1, <2>1 DEF ServerAnswers, OnceInv, WaiterWaits, verify, TypeInv, TypeOK, ShellTyped, Reqs
  <2> QED BY <2>3, <2>4 DEF OnceInv
<1>2. CASE ServerRefreshes
  BY <1>2 DEF ServerRefreshes, OnceInv, WaiterWaits, verify
<1> QED BY <1>1, <1>2 DEF ServerStep

\* One request changes and the controller keeps its resolver.
LEMMA OneGentle ==
  ASSUME TypeInv, OnceInv, NEW r \in Reqs, NEW q, req' = [req EXCEPT ![r] = q],
         r \in Business /\ Pending(q) => Pending(req[r]),
         req[r].at # "verifying" \/ r \notin Business, UNCHANGED <<runs, waiter>>
  PROVE  OnceInv'
<1>1. \A b \in Reqs : req'[b] = IF b = r THEN q ELSE req[b]
  BY DEF TypeInv, TypeOK, CallsTyped
<1>2. Gentle
  BY <1>1 DEF Gentle, Reqs
<1>3. WaiterWaits'
  BY <1>1 DEF OnceInv, WaiterWaits, TypeInv, TypeOK, ShellTyped, Reqs
<1> QED BY <1>2, <1>3, GentleOnce

\* Module state is gone, or untouched.
LEMMA ReplacedOnce ==
  ASSUME TypeInv, OnceInv, NEW next, Replaced(next)
  PROVE  OnceInv'
<1>1. ASSUME NEW r \in Business, Pending(req'[r]) PROVE Pending(req[r])
  <2>1. r \in Reqs /\ r # "check" /\ "gone" \in Settled
    BY SessionAssumption DEF Reqs, Settled
  <2>2. req'[r] = IF req[r].at \in {"idle"} \cup Settled THEN req[r] ELSE Done(r, "gone")
    BY <2>1 DEF Replaced
  <2>3. ~Pending(Done(r, "gone"))
    BY <2>1, DoneTyped DEF Pending
  <2> QED BY <1>1, <2>2, <2>3
<1>2. Gentle /\ WaiterWaits'
  BY <1>1 DEF Gentle, Replaced, WaiterWaits, server
<1> QED BY <1>2, GentleOnce

LEMMA EnvironmentOnce ==
  ASSUME TypeInv, OnceInv, Environment
  PROVE  OnceInv'
<1>1. ASSUME NEW r \in Reqs, NetworkLoses(r) PROVE OnceInv'
  <2> DEFINE q == [req[r] EXCEPT !.at = "answered", !.answer = "network", !.pair = None]
  <2>1. q.at = "answered" /\ q.answer = "network"
    BY DEF TypeInv, TypeOK, CallsTyped, Request
  <2>2. req' = [req EXCEPT ![r] = q] /\ UNCHANGED <<runs, waiter>>
        /\ req[r].at \in {"sent", "answered"}
    BY <1>1 DEF NetworkLoses, server, verify
  <2> HIDE DEF q
  <2> QED BY <2>1, <2>2, OneGentle DEF Pending
<1>2. CASE Reload
  BY <1>2, ReplacedOnce DEF Reload
<1>3. CASE VerificationExpires
  <2>1. ASSUME NEW r \in Reqs
        PROVE  req'[r].at = req[r].at /\ req'[r].answer = req[r].answer
    <3>1. req[r] \in Request /\ req'[r] = [req[r] EXCEPT !.op = None]
      BY <1>3 DEF VerificationExpires, TypeInv, TypeOK, CallsTyped
    <3> QED BY <3>1 DEF Request
  <2>2. Gentle /\ WaiterWaits'
    BY <1>3, <2>1 DEF VerificationExpires, Gentle, Pending, OnceInv, WaiterWaits, server, verify,
                      TypeInv, TypeOK, ShellTyped, Reqs
  <2> QED BY <2>2, GentleOnce
<1>4. UNCHANGED <<req, runs, waiter>> => OnceInv'
  BY DEF OnceInv, WaiterWaits
<1> QED BY <1>1, <1>2, <1>3, <1>4
        DEF Environment, NetworkLosesRefresh, TokenEnds, RevokedElsewhere, server, verify

LEMMA ReceiveOnce ==
  ASSUME TypeInv, OnceInv, NEW r \in Reqs,
         ReceiveResult(r) \/ ReceiveVerification(r) \/ ReceiveUnauthorized(r)
  PROVE  OnceInv'
<1>1. CASE ReceiveResult(r)
  <2>1. PICK how \in {"resolved", "rejected"} : req' = [req EXCEPT ![r] = Done(r, how)]
    BY <1>1 DEF ReceiveResult
  <2>2. r \in Business => ~Pending(Done(r, how))
    BY DoneTyped, SessionAssumption DEF Pending, Settled
  <2> QED BY <1>1, <2>1, <2>2, OneGentle DEF ReceiveResult, server, verify
<1>2. CASE ReceiveVerification(r)
  <2>1. \A b \in Reqs : req'[b] = IF b = r THEN Waits(r, "verifying") ELSE req[b]
    BY <1>2 DEF ReceiveVerification, TypeInv, TypeOK, CallsTyped
  <2>2. Pending(req[r]) /\ Waits(r, "verifying").at = "verifying"
    BY <1>2, WaitsTyped DEF ReceiveVerification, Pending, TypeInv, TypeOK
  <2>3. Gentle /\ WaiterWaits'
    BY <1>2, <2>1, <2>2 DEF ReceiveVerification, Gentle, WaiterWaits, server, Reqs
  <2> QED BY <2>3, GentleOnce
<1>3. CASE ReceiveUnauthorized(r)
  <2>1. PICK q \in {Waits(r, "refreshing"), Done(r, "rejected")} : req' = [req EXCEPT ![r] = q]
    BY <1>3 DEF ReceiveUnauthorized
  <2>2. Pending(req[r]) /\ req[r].at = "answered"
    BY <1>3 DEF ReceiveUnauthorized, Unauthorized, Pending
  <2> QED BY <1>3, <2>1, <2>2, OneGentle DEF ReceiveUnauthorized, server, verify
<1> QED BY <1>1, <1>2, <1>3

LEMMA ReceiveRefreshOnce ==
  ASSUME TypeInv, OnceInv, ReceiveRefresh
  PROVE  OnceInv'
<1>1. ASSUME NEW r \in Reqs
      PROVE  \/ req'[r] = req[r]
             \/ req[r].at = "refreshing"
  BY DEF ReceiveRefresh, RefreshSucceeds, RefreshFails, Refreshing
<1>2. Gentle
  BY <1>1 DEF Gentle, Pending, ReceiveRefresh, RefreshSucceeds, RefreshFails, server, Reqs
<1>3. WaiterWaits'
  BY <1>1 DEF OnceInv, WaiterWaits, ReceiveRefresh, RefreshSucceeds, RefreshFails, verify,
              TypeInv, TypeOK, ShellTyped, Reqs
<1> QED BY <1>2, <1>3, GentleOnce

LEMMA VerifyOnce ==
  ASSUME TypeInv, OnceInv, VerifySucceeds \/ VerifyCancel
  PROVE  OnceInv'
<1>1. WaiterWaits'
  BY DEF WaiterWaits, VerifySucceeds, VerifyCancel
<1>2. ASSUME NEW r \in Business
      PROVE  req'[r] = req[r] \/ r = waiter
  BY SessionAssumption DEF VerifySucceeds, VerifyCancel, Reqs, TypeInv, TypeOK, CallsTyped
<1>3. waiter \in Business => Pending(req[waiter])
  BY SessionAssumption DEF OnceInv, WaiterWaits, Pending, NoReq
<1>4. Gentle
  BY <1>2, <1>3 DEF Gentle, VerifySucceeds, VerifyCancel, server
<1> QED BY <1>1, <1>4, GentleOnce

LEMMA UserOnce ==
  ASSUME TypeInv, OnceInv, User \/ LogoutRevoked \/ LogoutClears \/ LogoutGraceEnds
  PROVE  OnceInv'
<1>1. ASSUME NEW r \in Business, IssueRequest(r) PROVE OnceInv'
  BY <1>1, OneGentle DEF IssueRequest, Pending, Reqs, server, verify
<1>2. "check" \in Reqs \ Business /\ "logout" \in Reqs \ Business
  BY SessionAssumption DEF Reqs
<1>3. CASE VerifySubmit
  BY <1>2, <1>3, OneGentle DEF VerifySubmit, server, verify
<1>4. CASE LogoutBegins
  BY <1>2, <1>4, OneGentle DEF LogoutBegins, server, verify
<1>5. CASE LogoutRevoked
  BY <1>2, <1>5, OneGentle DEF LogoutRevoked, server, verify
<1>6. UNCHANGED <<req, runs, waiter>> => OnceInv'
  BY DEF OnceInv, WaiterWaits
<1>7. CASE Login \/ LogoutClears \/ LogoutGraceEnds
  BY <1>6, <1>7 DEF Login, LogoutClears, LogoutGraceEnds, server, verify
<1> QED BY <1>1, <1>3, <1>4, <1>5, <1>7, VerifyOnce DEF User

(* request.ts: however refreshes, verifications, lost answers and sign-outs  *)
(* interleave, the server executes a request the user made at most once.     *)
THEOREM AtMostOnceHolds == Spec => []AtMostOnce
<1>1. Init => OnceInv
  BY DEF Init, OnceInv, WaiterWaits
<1>2. TypeInv /\ OnceInv /\ [Next]_vars => OnceInv'
  <2> SUFFICES ASSUME TypeInv, OnceInv, [Next]_vars PROVE OnceInv'
    OBVIOUS
  <2>1. CASE PageStep
    <3>1. ASSUME NEW r \in Reqs, Receive(r) PROVE OnceInv'
      BY <3>1, ReceiveOnce, VerifyOnce DEF Receive
    <3>2. CASE Unload
      BY <3>2, ReplacedOnce DEF Unload
    <3> QED BY <2>1, <3>1, <3>2, ReceiveRefreshOnce, UserOnce DEF PageStep
  <2>2. CASE UNCHANGED vars
    BY <2>2 DEF vars, OnceInv, WaiterWaits, server, verify
  <2> QED BY <2>1, <2>2, ServerOnce, EnvironmentOnce, UserOnce DEF Next
<1>3. OnceInv => AtMostOnce
  BY DEF OnceInv, AtMostOnce
<1> QED BY <1>1, <1>2, <1>3, TypeInvHolds, PTL DEF Spec
-----------------------------------------------------------------------------
(* A refresh token is spent once.  What makes it so: the pair in the       *)
(* cookies is good unless a rotation that consumed it is on its way back,  *)
(* and then the answer carries a good one.                                 *)

Fresh(p) == p \in refreshable \cup lost \/ sessionOf[p] \in revoked

Rotated == refresh.at = "answered" /\ refresh.issued # None

FreshInv ==
  /\ cookie # None => Fresh(cookie) \/ (Rotated /\ cookie = refresh.pair)
  /\ refresh.at = "sent" =>
       refresh.issued = None /\ (refresh.pair # None => Fresh(refresh.pair))
  /\ refresh.at = "none" => refresh.issued = None
  /\ Rotated => Fresh(refresh.issued)

\* Good pairs stay good: when the server is left alone, when a session ends,
\* and when another pair is issued.
LEMMA QuietFresh ==
  ASSUME UNCHANGED <<sessionOf, refreshable, revoked>>, lost \subseteq lost'
  PROVE  \A p : Fresh(p) => Fresh(p)'
BY DEF Fresh

LEMMA RevokeFresh ==
  ASSUME TypeInv, NEW s, Revoke(s), UNCHANGED <<sessionOf, lost>>
  PROVE  \A p \in Pairs : Fresh(p) => Fresh(p)'
BY DEF TypeInv, TypeOK, ServerTyped, CallsTyped, Fresh, Revoke, PairsOf

LEMMA IssueFresh ==
  ASSUME TypeInv, NEW p \in NextPair, NEW s, NEW used, Issue(p, s, used),
         UNCHANGED <<revoked, lost>>
  PROVE  /\ Fresh(p)'
         /\ \A q \in Pairs \ used : Fresh(q) => Fresh(q)'
<1>1. sessionOf[p] = None /\ p \in Pairs
  BY DEF NextPair
<1>2. None \notin revoked
  BY DEF TypeInv, TypeOK, ServerTyped, Sessions, None
<1> QED BY <1>1, <1>2 DEF TypeInv, TypeOK, ServerTyped, Fresh, Issue

\* A step that keeps good pairs good and neither moves the cookie nor the flight.
LEMMA FlightKept ==
  ASSUME TypeInv, FreshInv, UNCHANGED refresh, cookie' \in {cookie, None},
         \A p \in Pairs : Fresh(p) => Fresh(p)'
  PROVE  FreshInv'
<1>1. /\ cookie # None => cookie \in Pairs
      /\ refresh.pair # None => refresh.pair \in Pairs
      /\ refresh.issued # None => refresh.issued \in Pairs
  BY DEF TypeInv, TypeOK, BrowserTyped, CallsTyped, Refresh, Pairs, None
<1> QED BY <1>1 DEF FreshInv, Rotated

LEMMA ServerFresh ==
  ASSUME TypeInv, FreshInv, ServerStep
  PROVE  FreshInv'
<1>1. ASSUME NEW r \in Reqs, ServerAnswers(r) PROVE FreshInv'
  <2>1. \A p \in Pairs : Fresh(p) => Fresh(p)'
    <3>1. CASE r = "logout" /\ Verdict(r) = "ok"
      BY <1>1, <3>1, RevokeFresh DEF ServerAnswers
    <3>2. CASE ~(r = "logout" /\ Verdict(r) = "ok")
      BY <1>1, <3>2, QuietFresh DEF ServerAnswers
    <3> QED BY <3>1, <3>2
  <2> QED BY <1>1, <2>1, FlightKept DEF ServerAnswers, browser
<1>2. CASE ServerRefreshes
  <2>1. CASE refresh.pair \in refreshable /\ NextPair # {}
    <3>1. PICK p \in NextPair :
            /\ Issue(p, sessionOf[refresh.pair], {refresh.pair})
            /\ refresh' = [refresh EXCEPT !.at = "answered", !.issued = p]
            /\ UNCHANGED revoked
      BY <1>2, <2>1 DEF ServerRefreshes
    <3>2. UNCHANGED <<cookie, lost>>
      BY <1>2 DEF ServerRefreshes, browser
    <3>3. Fresh(p)' /\ \A q \in Pairs \ {refresh.pair} : Fresh(q) => Fresh(q)'
      BY <3>1, <3>2, IssueFresh
    <3>4. /\ refresh'.at = "answered" /\ refresh'.issued = p /\ refresh'.pair = refresh.pair
          /\ refresh.at = "sent"
      BY <1>2, <3>1 DEF ServerRefreshes, TypeInv, TypeOK, CallsTyped, Refresh
    <3>5. p # None /\ (cookie # None => cookie \in Pairs)
      BY DEF NextPair, Pairs, None, TypeInv, TypeOK, BrowserTyped
    <3> QED BY <3>2, <3>3, <3>4, <3>5 DEF FreshInv, Rotated
  <2>2. CASE ~(refresh.pair \in refreshable /\ NextPair # {})
    <3>1. refresh' = [refresh EXCEPT !.at = "answered"] /\ refresh.at = "sent"
      BY <1>2, <2>2 DEF ServerRefreshes
    <3>2. UNCHANGED <<cookie, lost, sessionOf>>
      BY <1>2, <2>2 DEF ServerRefreshes, browser
    <3>3. \A p \in Pairs : Fresh(p) => Fresh(p)'
      <4>1. CASE refresh.pair \in refreshable
        BY <1>2, <2>2, <3>2, <4>1, RevokeFresh DEF ServerRefreshes
      <4>2. CASE refresh.pair \notin refreshable
        BY <1>2, <2>2, <3>2, <4>2, QuietFresh DEF ServerRefreshes
      <4> QED BY <4>1, <4>2
    <3>4. refresh'.at = "answered" /\ refresh'.issued = None
      BY <3>1 DEF FreshInv, TypeInv, TypeOK, CallsTyped, Refresh
    <3>5. cookie # None => cookie \in Pairs
      BY DEF TypeInv, TypeOK, BrowserTyped, Pairs, None
    <3> QED BY <3>1, <3>2, <3>3, <3>4, <3>5 DEF FreshInv, Rotated
  <2> QED BY <2>1, <2>2
<1> QED BY <1>1, <1>2 DEF ServerStep

\* The page gives up its flight: what it may have consumed counts as lost.
LEMMA ReplacedFresh ==
  ASSUME TypeInv, FreshInv, NEW next, Replaced(next)
  PROVE  FreshInv'
<1>1. cookie # None => cookie \in Pairs
  BY DEF TypeInv, TypeOK, BrowserTyped, Pairs, None
<1>2. /\ UNCHANGED <<cookie, sessionOf, refreshable, revoked>> /\ refresh' = NoRefresh
      /\ lost' = WithLost
  BY DEF Replaced, server, browser
<1>3. \A p : Fresh(p) => Fresh(p)'
  BY <1>2, QuietFresh DEF WithLost
<1> QED BY <1>1, <1>2, <1>3, FreshTyped DEF FreshInv, Fresh, Rotated, WithLost

LEMMA EnvironmentFresh ==
  ASSUME TypeInv, FreshInv, Environment
  PROVE  FreshInv'
<1>1. ASSUME NEW r \in Reqs, NetworkLoses(r) PROVE FreshInv'
  BY <1>1, QuietFresh, FlightKept DEF NetworkLoses, server, browser
<1>2. CASE NetworkLosesRefresh
  <2>1. /\ UNCHANGED <<cookie, sessionOf, refreshable, revoked>>
        /\ refresh' = [refresh EXCEPT !.at = "answered", !.issued = None]
        /\ lost' = WithLost
    BY <1>2 DEF NetworkLosesRefresh, server, browser
  <2>2. refresh'.at = "answered" /\ refresh'.issued = None
    BY <2>1 DEF TypeInv, TypeOK, CallsTyped, Refresh
  <2>3. \A p : Fresh(p) => Fresh(p)'
    BY <2>1, QuietFresh DEF WithLost
  <2>4. cookie # None => cookie \in Pairs
    BY DEF TypeInv, TypeOK, BrowserTyped, Pairs, None
  <2>5. refresh.at = "sent" \/ Rotated
    BY <1>2 DEF NetworkLosesRefresh, Rotated, TypeInv, TypeOK, CallsTyped, Refresh, FreshInv, NoRefresh
  <2> QED BY <2>1, <2>2, <2>3, <2>4, <2>5 DEF FreshInv, Fresh, Rotated, WithLost
<1>3. ASSUME NEW p \in Pairs, TokenEnds(p) PROVE FreshInv'
  BY <1>3, QuietFresh, FlightKept DEF TokenEnds, browser
<1>4. ASSUME NEW s \in Sessions, RevokedElsewhere(s) PROVE FreshInv'
  BY <1>4, RevokeFresh, FlightKept DEF RevokedElsewhere, browser
<1>5. CASE Reload
  BY <1>5, ReplacedFresh DEF Reload
<1>6. CASE VerificationExpires
  BY <1>6, QuietFresh, FlightKept DEF VerificationExpires, server
<1> QED BY <1>1, <1>2, <1>3, <1>4, <1>5, <1>6 DEF Environment

LEMMA UnauthorizedFresh ==
  ASSUME TypeInv, FreshInv, NEW r \in Reqs, ReceiveUnauthorized(r)
  PROVE  FreshInv'
<1>1. UNCHANGED <<cookie, sessionOf, refreshable, revoked, lost>>
  BY DEF ReceiveUnauthorized, server
<1>2. \A p : Fresh(p) => Fresh(p)'
  BY <1>1, QuietFresh
<1>3. CASE UNCHANGED refresh
  BY <1>1, <1>2, <1>3, FlightKept
<1>4. CASE refresh = NoRefresh /\ refresh' = [NoRefresh EXCEPT !.at = "sent", !.pair = cookie]
  <2>1. refresh'.at = "sent" /\ refresh'.pair = cookie /\ refresh'.issued = None
    BY <1>4 DEF NoRefresh
  <2>2. refresh.at = "none"
    BY <1>4, FreshTyped
  <2> QED BY <1>1, <1>2, <2>1, <2>2 DEF FreshInv, Rotated
<1> QED BY <1>3, <1>4 DEF ReceiveUnauthorized, Flight

LEMMA RefreshReceivedFresh ==
  ASSUME TypeInv, FreshInv, ReceiveRefresh
  PROVE  FreshInv'
<1>1. UNCHANGED <<sessionOf, refreshable, revoked, lost>> /\ refresh' = NoRefresh
  BY DEF ReceiveRefresh, RefreshSucceeds, RefreshFails, server
<1>2. \A p : Fresh(p) => Fresh(p)'
  BY <1>1, QuietFresh
<1>3. CASE RefreshSucceeds
  BY <1>1, <1>2, <1>3, FreshTyped DEF FreshInv, Rotated, RefreshSucceeds
<1>4. CASE RefreshFails
  BY <1>1, <1>2, <1>4, FreshTyped DEF FreshInv, Rotated, RefreshFails
<1> QED BY <1>3, <1>4 DEF ReceiveRefresh

LEMMA LoginFresh ==
  ASSUME TypeInv, FreshInv, Login
  PROVE  FreshInv'
<1>1. PICK p \in NextPair, s \in Sessions : Issue(p, s, {}) /\ cookie' = p
  BY DEF Login
<1>2. UNCHANGED <<revoked, refresh, lost>>
  BY DEF Login
<1>3. Fresh(p)' /\ \A q \in Pairs : Fresh(q) => Fresh(q)'
  BY <1>1, <1>2, IssueFresh
<1>4. /\ refresh.pair # None => refresh.pair \in Pairs
      /\ refresh.issued # None => refresh.issued \in Pairs
  BY DEF TypeInv, TypeOK, CallsTyped, Refresh, Pairs, None
<1> QED BY <1>1, <1>2, <1>3, <1>4 DEF FreshInv, Rotated

\* Everything else the page does.
LEMMA PageFresh ==
  ASSUME TypeInv, FreshInv, UNCHANGED <<server, refresh, lost>>, cookie' \in {cookie, None}
  PROVE  FreshInv'
BY QuietFresh, FlightKept DEF server

(* request.ts doRefreshToken: while a refresh is under way its token has     *)
(* not been consumed by another one, for any number of requests in flight,   *)
(* unless the session ended or an earlier answer was lost.                   *)
THEOREM RefreshIsFreshHolds == Spec => []RefreshIsFresh
<1>1. Init => FreshInv
  BY FreshTyped DEF Init, FreshInv, Rotated
<1>2. TypeInv /\ FreshInv /\ [Next]_vars => FreshInv'
  <2> SUFFICES ASSUME TypeInv, FreshInv, [Next]_vars PROVE FreshInv'
    OBVIOUS
  <2>1. CASE PageStep
    <3>1. ASSUME NEW r \in Reqs, Receive(r) PROVE FreshInv'
      BY <3>1, UnauthorizedFresh, PageFresh
         DEF Receive, ReceiveResult, ReceiveVerification, VerifySucceeds, browser
    <3>2. CASE Unload
      BY <3>2, ReplacedFresh DEF Unload
    <3>3. CASE LogoutRevoked \/ LogoutClears \/ LogoutGraceEnds
      BY <3>3, PageFresh DEF LogoutRevoked, LogoutClears, LogoutGraceEnds, browser
    <3> QED BY <2>1, <3>1, <3>2, <3>3, RefreshReceivedFresh DEF PageStep
  <2>2. CASE User
    <3>1. CASE Login
      BY <3>1, LoginFresh
    <3>2. CASE User /\ ~Login
      BY <3>2, PageFresh DEF User, IssueRequest, VerifySubmit, VerifyCancel, LogoutBegins, browser
    <3> QED BY <2>2, <3>1, <3>2
  <2>3. CASE UNCHANGED vars
    BY <2>3, PageFresh DEF vars, browser
  <2> QED BY <2>1, <2>2, <2>3, ServerFresh, EnvironmentFresh DEF Next
<1>3. FreshInv => RefreshIsFresh
  BY DEF FreshInv, RefreshIsFresh, Fresh
<1> QED BY <1>1, <1>2, <1>3, TypeInvHolds, PTL DEF Spec
=============================================================================
