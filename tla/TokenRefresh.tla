---------------------------- MODULE TokenRefresh ----------------------------
(***************************************************************************)
(* The sign-in of one browser tab: the tokens it stores (auth.store.ts),   *)
(* the requests that carry them, and what the response interceptor of      *)
(* client.ts does with a 401: one request refreshes the access token, the  *)
(* others queue and are sent again with the new one.  The server is seen   *)
(* through auth.service.refreshToken and the guard on every request.       *)
(***************************************************************************)
EXTENDS Naturals, FiniteSets

CONSTANTS
    Request,     \* calls of apiClient, each made once
    SignOut,     \* the one among them that is authApi.logout
    Session,     \* sessions of the server, each opened once
    MaxExpired,  \* bound on the access tokens that expire
    None         \* no token

ASSUME TokenAssumption ==
    /\ SignOut \in Request /\ MaxExpired \in Nat
    /\ None \notin Session

VARIABLES
    store,       \* accessToken and refreshToken (which stands for its session)
    call,        \* where each request is, the token it carries, _retry
    isRefreshing,
    refresh,     \* the call of /auth/refresh-token: its session and answer
    toast,       \* the page says that the session has expired
    session,     \* what the server knows of each session
    issued,      \* access tokens issued so far, numbered in order
    expired      \* those with a number up to this one have expired

vars == <<store, call, isRefreshing, refresh, toast, session, issued, expired>>

Token == [s : Session, n : Nat]
Bearer == Token \cup {[s |-> None, n |-> 0]}
NoToken == [s |-> None, n |-> 0]
Signed == [access : Bearer, refresh : Session \cup {None}]
SignedOut == [access |-> NoToken, refresh |-> None]

\* gone: the page was left before the answer.
Pending == {"sent", "ok", "refused", "lost", "queued", "refreshing"}
Settled == {"done", "failed", "gone"}

NotMade == [at |-> "idle", tok |-> NoToken, retried |-> FALSE]
NoRefresh == [at |-> "none", s |-> None, tok |-> NoToken]

TypeOK ==
    /\ store \in Signed
    /\ call \in [Request -> [at : {"idle"} \cup Pending \cup Settled,
                             tok : Bearer, retried : BOOLEAN]]
    /\ isRefreshing \in BOOLEAN
    /\ refresh \in [at : {"none", "asked", "granted", "denied", "lost"},
                    s : Session \cup {None}, tok : Bearer]
    /\ toast \in BOOLEAN
    /\ session \in [Session -> {"unused", "open", "over"}]
    /\ issued \in Nat /\ expired \in 0 .. MaxExpired
    /\ \A r \in Request : call[r].tok.n <= issued
    /\ store.access.n <= issued
    /\ store.refresh # None => session[store.refresh] # "unused"

Init ==
    /\ store = SignedOut
    /\ call = [r \in Request |-> NotMade]
    /\ isRefreshing = FALSE
    /\ refresh = NoRefresh
    /\ toast = FALSE
    /\ session = [s \in Session |-> "unused"]
    /\ issued = 0 /\ expired = 0

Open(s) == s # None /\ session[s] = "open"

-----------------------------------------------------------------------------
\* The server

\* The guard of every request: the token is in time and its session is there.
\* Signing out deletes the session.
Serve(r) ==
    /\ call[r].at = "sent"
    /\ IF call[r].tok.n > expired /\ Open(call[r].tok.s)
         THEN /\ call' = [call EXCEPT ![r].at = "ok"]
              /\ session' = IF r = SignOut
                              THEN [session EXCEPT ![call[r].tok.s] = "over"]
                              ELSE session
         ELSE call' = [call EXCEPT ![r].at = "refused"] /\ UNCHANGED session
    /\ UNCHANGED <<store, toast, isRefreshing, refresh, issued, expired>>

\* A new access token for the session; the refresh token stays as it is.
ServeRefresh ==
    /\ refresh.at = "asked"
    /\ IF Open(refresh.s)
         THEN /\ issued' = issued + 1
              /\ refresh' = [at |-> "granted", s |-> refresh.s,
                             tok |-> [s |-> refresh.s, n |-> issued + 1]]
         ELSE refresh' = [refresh EXCEPT !.at = "denied"] /\ UNCHANGED issued
    /\ UNCHANGED <<store, toast, call, isRefreshing, session, expired>>

\* A call or its answer gets lost, or the answer is an error of the server.
Lose ==
    /\ \/ \E r \in Request :
             /\ call[r].at \in {"sent", "ok"}
             /\ call' = [call EXCEPT ![r].at = "lost"]
             /\ UNCHANGED refresh
       \/ /\ refresh.at = "asked"
          /\ refresh' = [refresh EXCEPT !.at = "lost"]
          /\ UNCHANGED call
    /\ UNCHANGED <<store, toast, isRefreshing, session, issued, expired>>

\* Access tokens live equally long: they expire in the order they were issued.
Expire ==
    /\ expired < issued /\ expired < MaxExpired
    /\ expired' = expired + 1
    /\ UNCHANGED <<store, toast, call, isRefreshing, refresh, session, issued>>

\* Revoked from another device, idle for too long, the user disabled.
EndSession(s) ==
    /\ session[s] = "open"
    /\ session' = [session EXCEPT ![s] = "over"]
    /\ UNCHANGED <<store, toast, call, isRefreshing, refresh, issued, expired>>

-----------------------------------------------------------------------------
\* The tab

\* The sign-in form is shown only while there is no access token.
SignIn(s) ==
    /\ store.access = NoToken /\ session[s] = "unused"
    /\ session' = [session EXCEPT ![s] = "open"]
    /\ issued' = issued + 1
    /\ store' = [access |-> [s |-> s, n |-> issued + 1], refresh |-> s]
    /\ toast' = FALSE
    /\ UNCHANGED <<call, isRefreshing, refresh, expired>>

\* The request interceptor attaches the stored access token.
Send(r) ==
    /\ call[r].at = "idle" /\ store.access # NoToken
    /\ call' = [call EXCEPT ![r] = [at |-> "sent", tok |-> store.access, retried |-> FALSE]]
    /\ UNCHANGED <<store, toast, isRefreshing, refresh, session, issued, expired>>

\* handleLogout clears the store whatever came of the call; so may the account
\* page when its query of the user fails (MyAccountPage).
Clears(r, l) ==
    \/ r = SignOut /\ store' = SignedOut
    \/ r # SignOut /\ UNCHANGED store
    \/ r # SignOut /\ l = "failed" /\ store' = SignedOut

Settle(r, l) ==
    /\ call' = [call EXCEPT ![r].at = l]
    /\ Clears(r, l)
    /\ UNCHANGED <<isRefreshing, refresh, toast>>

\* The page is left, with all the script kept in memory.
LeavePage ==
    /\ store' = SignedOut
    /\ call' = [r \in Request |->
                  IF call[r].at \in Pending THEN [call[r] EXCEPT !.at = "gone"] ELSE call[r]]
    /\ isRefreshing' = FALSE
    /\ refresh' = NoRefresh

forceLogout == LeavePage /\ toast' = TRUE

\* Mutant: an answer that got lost is not handled.
ReceiveOk(r) ==
    /\ call[r].at = "ok" /\ Settle(r, "done")
    /\ UNCHANGED <<session, issued, expired>>

Receive(r) ==
    /\ \/ call[r].at = "ok" /\ Settle(r, "done")
       \/ call[r].at = "lost" /\ Settle(r, "failed")
    /\ UNCHANGED <<session, issued, expired>>

Enqueue(r) ==
    /\ isRefreshing
    /\ call' = [call EXCEPT ![r].at = "queued"]
    /\ UNCHANGED <<store, isRefreshing, refresh, toast>>

Refreshes(k) == [at |-> "refreshing", tok |-> k.tok, retried |-> TRUE]

StartRefresh(r) ==
    /\ ~isRefreshing
    /\ IF store.refresh = None
         THEN forceLogout
         ELSE /\ call' = [call EXCEPT ![r] = Refreshes(call[r])]
              /\ isRefreshing' = TRUE
              /\ refresh' = [at |-> "asked", s |-> store.refresh, tok |-> NoToken]
              /\ UNCHANGED <<store, toast>>

\* Mutant: a refresh starts although one is under way.
RefusedRefreshes(r) ==
    /\ call[r].at = "refused"
    /\ \/ call[r].retried /\ Settle(r, "failed")
       \/ /\ ~call[r].retried /\ store.refresh # None
          /\ call' = [call EXCEPT ![r] = Refreshes(call[r])]
          /\ isRefreshing' = TRUE
          /\ refresh' = [at |-> "asked", s |-> store.refresh, tok |-> NoToken]
          /\ UNCHANGED <<store, toast>>
       \/ ~call[r].retried /\ store.refresh = None /\ forceLogout
    /\ UNCHANGED <<session, issued, expired>>

\* Mutant: a second 401 signs the user out.
RefusedTwice(r) ==
    /\ call[r].at = "refused"
    /\ \/ call[r].retried /\ forceLogout
       \/ ~call[r].retried /\ (Enqueue(r) \/ StartRefresh(r))
    /\ UNCHANGED <<session, issued, expired>>

\* A 401: at most one refresh at a time, at most one of its own per request.
Refused(r) ==
    /\ call[r].at = "refused"
    /\ \/ call[r].retried /\ Settle(r, "failed")
       \/ ~call[r].retried /\ (Enqueue(r) \/ StartRefresh(r))
    /\ UNCHANGED <<session, issued, expired>>

\* setAccessToken, then those that wait and the one that asked are sent again.
\* The store may have been cleared, or hold another sign-in, since.
Refreshed ==
    /\ refresh.at = "granted"
    /\ store' = [store EXCEPT !.access = refresh.tok]
    /\ call' = [r \in Request |->
                  IF call[r].at \in {"queued", "refreshing"}
                    THEN [at |-> "sent", tok |-> refresh.tok, retried |-> call[r].retried]
                    ELSE call[r]]
    /\ isRefreshing' = FALSE /\ refresh' = NoRefresh
    /\ UNCHANGED <<toast, session, issued, expired>>

NotRefreshed ==
    /\ refresh.at \in {"denied", "lost"}
    /\ forceLogout
    /\ UNCHANGED <<session, issued, expired>>

\* The storage event: another tab of the browser has signed out.
SignedOutElsewhere ==
    /\ LeavePage /\ toast' = FALSE
    /\ UNCHANGED <<session, issued, expired>>

Next ==
    \/ \E r \in Request : Serve(r) \/ Send(r) \/ Receive(r) \/ Refused(r)
    \/ ServeRefresh \/ Refreshed \/ NotRefreshed
    \/ Lose \/ Expire \/ SignedOutElsewhere
    \/ \E s \in Session : SignIn(s) \/ EndSession(s)

Spec == Init /\ [][Next]_vars

\* Every call is answered, and the page handles the answers.
FairSpec ==
    /\ Spec
    /\ \A r \in Request : WF_vars(Serve(r) \/ Receive(r) \/ Refused(r))
    /\ WF_vars(ServeRefresh \/ Refreshed \/ NotRefreshed)

-----------------------------------------------------------------------------
(***************************************************************************)
(* Properties                                                              *)
(***************************************************************************)

Refreshing == {r \in Request : call[r].at = "refreshing"}

\* While requests wait for a new token exactly one is fetching it, and the flag
\* that makes the next 401 wait is set exactly then: nobody waits for nobody,
\* and no two refreshes run.
WaitersHaveRefresher ==
    /\ isRefreshing <=> Refreshing # {}
    /\ isRefreshing <=> refresh.at # "none"
    /\ \A r, q \in Refreshing : r = q
    /\ (\E r \in Request : call[r].at = "queued") => isRefreshing

\* Every request comes to an end, those that wait for a refresh included,
\* though a queued one may be refused and wait again.
RequestsSettle ==
    \A r \in Request : call[r].at \in Pending ~> call[r].at \in Settled

\* A user whose session lives is told that it has expired only when the answer
\* to a refresh got lost, or by the refusal of one asked for an earlier sign-in.
ForcedForCause ==
    [][\A s \in Session :
          store.refresh = s /\ Open(s) /\ toast' =>
             refresh.at = "lost" \/ (refresh.at = "denied" /\ refresh.s # s)]_vars
=============================================================================
