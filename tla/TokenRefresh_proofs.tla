------------------------ MODULE TokenRefresh_proofs ------------------------
(***************************************************************************)
(* What holds of the sign-in of a tab for any requests, sessions and       *)
(* expiries: requests that wait for a refresh have exactly one, and a user *)
(* is thrown out for a reason.                                             *)
(***************************************************************************)
EXTENDS TokenRefresh, TLAPS

(***************************************************************************)
(* The invariant.  A refresh is of a session that was opened, and one that *)
(* was denied is of a session that is over: sessions are opened once.      *)
(* After a forced sign-out nobody is signed in until the toast is gone.    *)
(***************************************************************************)
RefreshInv ==
    /\ refresh.at # "none" => refresh.s \in Session /\ session[refresh.s] # "unused"
    /\ refresh.at = "denied" => session[refresh.s] = "over"
    /\ refresh.tok.n <= issued
    /\ toast => store.refresh = None

IInv == TypeOK /\ WaitersHaveRefresher /\ RefreshInv

LEMMA Tokens == /\ NoToken \in Bearer /\ NoToken.n = 0
                /\ \A b \in Bearer : b.n \in Nat
                /\ \A s \in Session, n \in Nat : [s |-> s, n |-> n] \in Bearer
  BY DEF NoToken, Bearer, Token

Call == [at : {"idle"} \cup Pending \cup Settled, tok : Bearer, retried : BOOLEAN]

LEMMA CallMoves ==
    ASSUME TypeOK, NEW r \in Request, NEW l \in Pending \cup Settled,
           call' = [call EXCEPT ![r].at = l]
    PROVE  /\ call' \in [Request -> Call]
           /\ \A q \in Request : call'[q].tok = call[q].tok
  BY DEF TypeOK, Call

LEMMA InitInv == Init => IInv
  <1> SUFFICES ASSUME Init PROVE IInv
    OBVIOUS
  <1>1. TypeOK
    <2>1. store \in Signed /\ store.access.n <= issued /\ store.refresh = None
      BY Tokens DEF Init, Signed, SignedOut
    <2>2. NotMade \in Call /\ NotMade.tok.n = 0
      BY Tokens DEF NotMade, Call
    <2>3. refresh \in [at : {"none", "asked", "granted", "denied", "lost"},
                       s : Session \cup {None}, tok : Bearer]
      BY Tokens DEF Init, NoRefresh
    <2>4. call \in [Request -> Call] /\ \A r \in Request : call[r].tok.n <= issued
      BY <2>2 DEF Init
    <2>5. /\ isRefreshing \in BOOLEAN /\ toast \in BOOLEAN
          /\ session \in [Session -> {"unused", "open", "over"}]
      BY DEF Init
    <2>6. issued \in Nat /\ expired \in 0 .. MaxExpired
      BY TokenAssumption DEF Init
    <2> QED
      BY <2>1, <2>3, <2>4, <2>5, <2>6 DEF TypeOK, Call
  <1>2. WaitersHaveRefresher
    BY DEF Init, WaitersHaveRefresher, Refreshing, NotMade, NoRefresh
  <1>3. RefreshInv
    BY Tokens DEF Init, RefreshInv, NoRefresh, NotMade
  <1> QED
    BY <1>1, <1>2, <1>3 DEF IInv

(***************************************************************************)
(* One lemma per action.                                                   *)
(***************************************************************************)
LEMMA ServeInv == ASSUME IInv, NEW r \in Request, Serve(r) PROVE IInv'
  <1>1. TypeOK'
    <2>1. /\ call' \in [Request -> Call]
          /\ \A q \in Request : call'[q].tok = call[q].tok
      BY CallMoves DEF IInv, Serve, Pending
    <2>2. /\ session' \in [Session -> {"unused", "open", "over"}]
          /\ store.refresh # None => session'[store.refresh] # "unused"
      BY DEF IInv, TypeOK, Serve, Signed
    <2> QED
      BY <2>1, <2>2 DEF IInv, TypeOK, Serve, Call
  <1>2. WaitersHaveRefresher'
    BY DEF IInv, TypeOK, Serve, WaitersHaveRefresher, Refreshing, Pending
  <1>3. RefreshInv'
    BY DEF IInv, TypeOK, Serve, RefreshInv, Open
  <1> QED
    BY <1>1, <1>2, <1>3 DEF IInv

LEMMA ServeRefreshInv == ASSUME IInv, ServeRefresh PROVE IInv'
  <1>1. TypeOK'
    <2>1. CASE Open(refresh.s)
      <3>1. refresh.s \in Session
        BY <2>1 DEF IInv, TypeOK, Open
      <3>2. /\ refresh' \in [at : {"none", "asked", "granted", "denied", "lost"},
                              s : Session \cup {None}, tok : Bearer]
            /\ issued' = issued + 1
        BY <2>1, <3>1, Tokens DEF IInv, TypeOK, ServeRefresh
      <3>3. \A r \in Request : call[r].tok.n \in Nat
        BY Tokens DEF IInv, TypeOK
      <3>4. store.access.n \in Nat
        BY Tokens DEF IInv, TypeOK, Signed
      <3> QED
        BY <3>2, <3>3, <3>4 DEF IInv, TypeOK, ServeRefresh
    <2>2. CASE ~Open(refresh.s)
      BY <2>2 DEF IInv, TypeOK, ServeRefresh
    <2> QED
      BY <2>1, <2>2
  <1>2. WaitersHaveRefresher'
    BY DEF IInv, TypeOK, ServeRefresh, WaitersHaveRefresher, Refreshing
  <1>3. RefreshInv'
    <2>1. refresh.tok.n \in Nat /\ issued \in Nat
      BY Tokens DEF IInv, TypeOK
    <2>2. refresh.s \in Session /\ session[refresh.s] \in {"open", "over"}
      BY DEF IInv, TypeOK, ServeRefresh, RefreshInv
    <2>3. refresh'.s = refresh.s /\ refresh'.at # "none" /\ session' = session
      BY DEF IInv, TypeOK, ServeRefresh
    <2>4. refresh'.at = "denied" => session[refresh.s] = "over"
      BY <2>2, TokenAssumption DEF IInv, TypeOK, ServeRefresh, Open
    <2>5. refresh'.tok.n <= issued'
      BY <2>1 DEF IInv, TypeOK, ServeRefresh, RefreshInv
    <2> QED
      BY <2>2, <2>3, <2>4, <2>5 DEF IInv, ServeRefresh, RefreshInv
  <1> QED
    BY <1>1, <1>2, <1>3 DEF IInv

LEMMA LoseInv == ASSUME IInv, Lose PROVE IInv'
  <1>1. TypeOK'
    <2>1. CASE refresh' = refresh
      BY <2>1, CallMoves DEF IInv, TypeOK, Lose, Call, Pending
    <2>2. CASE UNCHANGED call
      BY <2>2 DEF IInv, TypeOK, Lose
    <2> QED
      BY <2>1, <2>2 DEF Lose
  <1>2. WaitersHaveRefresher'
    BY DEF IInv, TypeOK, Lose, WaitersHaveRefresher, Refreshing, Pending
  <1>3. RefreshInv'
    BY DEF IInv, TypeOK, Lose, RefreshInv
  <1> QED
    BY <1>1, <1>2, <1>3 DEF IInv

LEMMA ExpireInv == ASSUME IInv, Expire PROVE IInv'
  <1>1. TypeOK'
    BY TokenAssumption DEF IInv, TypeOK, Expire
  <1>2. WaitersHaveRefresher' /\ RefreshInv'
    BY DEF IInv, Expire, WaitersHaveRefresher, Refreshing, RefreshInv
  <1> QED
    BY <1>1, <1>2 DEF IInv

LEMMA EndSessionInv == ASSUME IInv, NEW s \in Session, EndSession(s) PROVE IInv'
  <1>1. TypeOK'
    BY DEF IInv, TypeOK, EndSession, Signed
  <1>2. WaitersHaveRefresher'
    BY DEF IInv, EndSession, WaitersHaveRefresher, Refreshing
  <1>3. RefreshInv'
    BY DEF IInv, TypeOK, EndSession, RefreshInv
  <1> QED
    BY <1>1, <1>2, <1>3 DEF IInv

LEMMA SignInInv == ASSUME IInv, NEW s \in Session, SignIn(s) PROVE IInv'
  <1>1. TypeOK'
    <2>1. store' \in Signed /\ store'.access.n = issued + 1 /\ store'.refresh = s
      BY Tokens DEF IInv, TypeOK, SignIn, Signed
    <2>2. \A r \in Request : call[r].tok.n \in Nat
      BY Tokens DEF IInv, TypeOK
    <2>3. /\ issued' \in Nat
          /\ \A r \in Request : call'[r].tok.n <= issued'
      BY <2>2 DEF IInv, TypeOK, SignIn
    <2>4. /\ session' \in [Session -> {"unused", "open", "over"}]
          /\ session'[s] = "open"
      BY DEF IInv, TypeOK, SignIn
    <2>5. store'.access.n <= issued'
      BY <2>1, <2>3 DEF SignIn
    <2> QED
      BY <2>1, <2>3, <2>4, <2>5 DEF IInv, TypeOK, SignIn
  <1>2. WaitersHaveRefresher'
    BY DEF IInv, SignIn, WaitersHaveRefresher, Refreshing
  <1>3. RefreshInv'
    BY DEF IInv, TypeOK, SignIn, RefreshInv, Bearer, Token
  <1> QED
    BY <1>1, <1>2, <1>3 DEF IInv

LEMMA SendInv == ASSUME IInv, NEW r \in Request, Send(r) PROVE IInv'
  <1>1. TypeOK'
    BY DEF IInv, TypeOK, Send, Signed, Pending
  <1>2. WaitersHaveRefresher'
    BY DEF IInv, TypeOK, Send, WaitersHaveRefresher, Refreshing
  <1>3. RefreshInv'
    BY DEF IInv, Send, RefreshInv
  <1> QED
    BY <1>1, <1>2, <1>3 DEF IInv

LEMMA SettleInv ==
    ASSUME IInv, NEW r \in Request, NEW l \in Settled, Settle(r, l),
           call[r].at \in {"ok", "lost", "refused"},
           UNCHANGED <<session, issued, expired>>
    PROVE  IInv'
  <1>1. TypeOK'
    BY Tokens DEF IInv, TypeOK, Settle, Clears, Signed, SignedOut
  <1>2. WaitersHaveRefresher'
    BY DEF IInv, TypeOK, Settle, WaitersHaveRefresher, Refreshing, Settled
  <1>3. RefreshInv'
    BY DEF IInv, Settle, Clears, RefreshInv, SignedOut
  <1> QED
    BY <1>1, <1>2, <1>3 DEF IInv

LEMMA LeaveInv ==
    ASSUME IInv, LeavePage, toast' \in BOOLEAN, UNCHANGED <<session, issued, expired>>
    PROVE  IInv'
  <1>1. TypeOK'
    <2>1. store' \in Signed /\ store'.access.n = 0 /\ store'.refresh = None
      BY Tokens DEF LeavePage, Signed, SignedOut
    <2>2. refresh' \in [at : {"none", "asked", "granted", "denied", "lost"},
                        s : Session \cup {None}, tok : Bearer]
      BY Tokens DEF LeavePage, NoRefresh
    <2>3. /\ call' \in [Request -> Call]
          /\ \A r \in Request : call'[r].tok = call[r].tok
      <3> DEFINE Left(k) == IF k.at \in Pending THEN [k EXCEPT !.at = "gone"] ELSE k
      <3>1. \A k \in Call : Left(k) \in Call /\ Left(k).tok = k.tok
        BY DEF Call, Settled
      <3>2. call' = [r \in Request |-> Left(call[r])]
        BY DEF LeavePage
      <3>3. call \in [Request -> Call]
        BY DEF IInv, TypeOK, Call
      <3> HIDE DEF Left
      <3> QED
        BY <3>1, <3>2, <3>3
    <2>4. \A r \in Request : call'[r].tok.n <= issued'
      BY <2>3 DEF IInv, TypeOK
    <2>5. store'.access.n <= issued'
      BY <2>1 DEF IInv, TypeOK
    <2> QED
      BY <2>1, <2>2, <2>3, <2>4, <2>5 DEF IInv, TypeOK, LeavePage, Call
  <1>2. WaitersHaveRefresher'
    BY DEF IInv, TypeOK, LeavePage, WaitersHaveRefresher, Refreshing, NoRefresh, Pending
  <1>3. RefreshInv'
    BY Tokens DEF IInv, TypeOK, LeavePage, RefreshInv, NoRefresh, SignedOut
  <1> QED
    BY <1>1, <1>2, <1>3 DEF IInv

LEMMA RefusedInv == ASSUME IInv, NEW r \in Request, Refused(r) PROVE IInv'
  <1>1. CASE Settle(r, "failed")
    BY <1>1, SettleInv DEF Refused, Settled
  <1>2. CASE Enqueue(r)
    <2>1. TypeOK'
      BY <1>2 DEF IInv, TypeOK, Refused, Enqueue, Pending
    <2>2. WaitersHaveRefresher'
      BY <1>2 DEF IInv, TypeOK, Refused, Enqueue, WaitersHaveRefresher, Refreshing
    <2>3. RefreshInv'
      BY <1>2 DEF IInv, Refused, Enqueue, RefreshInv
    <2> QED
      BY <2>1, <2>2, <2>3 DEF IInv
  <1>3. CASE StartRefresh(r) /\ store.refresh = None
    BY <1>3, LeaveInv DEF Refused, StartRefresh, forceLogout
  <1>4. CASE StartRefresh(r) /\ store.refresh # None
    <2>1. TypeOK'
      <3>1. refresh' \in [at : {"none", "asked", "granted", "denied", "lost"},
                          s : Session \cup {None}, tok : Bearer]
        BY <1>4, Tokens DEF IInv, TypeOK, StartRefresh, Signed
      <3>2. /\ call' \in [Request -> Call]
            /\ \A q \in Request : call'[q].tok = call[q].tok
        <4>1. \A k \in Call : Refreshes(k) \in Call /\ Refreshes(k).tok = k.tok
          BY DEF Call, Pending, Refreshes
        <4> QED
          BY <1>4, <4>1 DEF IInv, TypeOK, StartRefresh, Call
      <3> QED
        BY <1>4, <3>1, <3>2 DEF IInv, TypeOK, Refused, StartRefresh, Call
    <2>2. WaitersHaveRefresher'
      BY <1>4 DEF IInv, TypeOK, Refused, StartRefresh, WaitersHaveRefresher, Refreshing, Refreshes
    <2>3. RefreshInv'
      BY <1>4, Tokens DEF IInv, TypeOK, Refused, StartRefresh, RefreshInv, Signed
    <2> QED
      BY <2>1, <2>2, <2>3 DEF IInv
  <1> QED
    BY <1>1, <1>2, <1>3, <1>4 DEF Refused

LEMMA RefreshedInv == ASSUME IInv, Refreshed PROVE IInv'
  <1>1. TypeOK'
    BY Tokens DEF IInv, TypeOK, Refreshed, Signed, NoRefresh, Pending, RefreshInv
  <1>2. WaitersHaveRefresher'
    BY DEF IInv, TypeOK, Refreshed, WaitersHaveRefresher, Refreshing, NoRefresh
  <1>3. RefreshInv'
    BY Tokens DEF IInv, TypeOK, Refreshed, RefreshInv, NoRefresh, Signed
  <1> QED
    BY <1>1, <1>2, <1>3 DEF IInv

LEMMA NextInv == IInv /\ [Next]_vars => IInv'
  <1> SUFFICES ASSUME IInv, [Next]_vars PROVE IInv'
    OBVIOUS
  <1>1. ASSUME NEW r \in Request, Serve(r) \/ Send(r) \/ Refused(r) PROVE IInv'
    BY <1>1, ServeInv, SendInv, RefusedInv
  <1>2. ASSUME NEW r \in Request, Receive(r) PROVE IInv'
    BY <1>2, SettleInv DEF Receive, Settled
  <1>3. CASE ServeRefresh \/ Refreshed \/ Lose \/ Expire
    BY <1>3, ServeRefreshInv, RefreshedInv, LoseInv, ExpireInv
  <1>4. CASE NotRefreshed \/ SignedOutElsewhere
    BY <1>4, LeaveInv DEF NotRefreshed, SignedOutElsewhere, forceLogout
  <1>5. ASSUME NEW s \in Session, SignIn(s) \/ EndSession(s) PROVE IInv'
    BY <1>5, SignInInv, EndSessionInv
  <1>6. CASE UNCHANGED vars
    BY <1>6 DEF vars, IInv, TypeOK, WaitersHaveRefresher, Refreshing, RefreshInv
  <1> QED
    BY <1>1, <1>2, <1>3, <1>4, <1>5, <1>6 DEF Next

THEOREM Invariance == Spec => []IInv
  BY InitInv, NextInv, PTL DEF Spec

\* The store, the requests and the refresh keep their shape, and no request
\* carries an access token that was never issued.
THEOREM TabTypeCorrect == Spec => []TypeOK
  BY Invariance, PTL DEF IInv

\* Whatever requests are refused, lost or answered late, those that wait for a
\* new token have exactly one refresh to wait for.
THEOREM OneRefresh == Spec => []WaitersHaveRefresher
  BY Invariance, PTL DEF IInv

(***************************************************************************)
(* A user is thrown out by NotRefreshed only: a tab without a refresh      *)
(* token has no session to lose.                                           *)
(***************************************************************************)
LEMMA ThrownOut ==
    ASSUME IInv, [Next]_vars, NEW s \in Session,
           store.refresh = s, Open(s), toast'
    PROVE  refresh.at = "lost" \/ (refresh.at = "denied" /\ refresh.s # s)
  <1>1. s # None /\ ~toast
    BY TokenAssumption DEF IInv, RefreshInv
  <1>2. CASE NotRefreshed
    BY <1>2 DEF NotRefreshed, IInv, RefreshInv, Open
  <1>3. ASSUME NEW r \in Request, Refused(r) PROVE FALSE
    BY <1>1, <1>3 DEF Refused, Settle, Enqueue, StartRefresh
  <1>4. ASSUME ~NotRefreshed, \A r \in Request : ~Refused(r) PROVE FALSE
    BY <1>1, <1>4 DEF Next, vars, Serve, Send, Receive, Settle, ServeRefresh, Refreshed,
         Lose, Expire, SignedOutElsewhere, SignIn, EndSession
  <1> QED
    BY <1>2, <1>3, <1>4

\* A user whose session lives is never thrown out by a refusal meant for it,
\* nor by a second refusal of the same request.
THEOREM ThrownOutForCause == Spec => ForcedForCause
  <1>1. IInv /\ [Next]_vars =>
          [\A s \in Session :
              store.refresh = s /\ Open(s) /\ toast' =>
                 refresh.at = "lost" \/ (refresh.at = "denied" /\ refresh.s # s)]_vars
    BY ThrownOut
  <1> QED
    BY <1>1, Invariance, PTL DEF Spec, ForcedForCause
=============================================================================
