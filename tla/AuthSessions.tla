---------------------------- MODULE AuthSessions ----------------------------
(***************************************************************************)
(* One account and its sessions: login with its lock-out, refresh, sign    *)
(* out, change and reset of the password, the invitation, and what an      *)
(* administrator does to the account.  A request is a handler of           *)
(* auth.service.ts between two awaits; its fields are the locals it reads  *)
(* before one await and uses after it.                                     *)
(***************************************************************************)
EXTENDS Naturals, FiniteSets

CONSTANTS
    Request,     \* handlers that may be under way
    Session,     \* rows of the sessions table, each used once
    NoSession,   \* no row
    MaxFailed,   \* MAX_FAILED_LOGIN_ATTEMPTS
    MaxGuesses,  \* bound on wrong passwords, beyond what GuessBudget allows
    MaxEpoch,    \* bound on revocations
    MaxToken     \* bound on reset tokens

ASSUME MaxFailedAssumption == MaxFailed \in Nat \ {0}
ASSUME BoundsAssumption == MaxGuesses \in Nat /\ MaxEpoch \in Nat /\ MaxToken \in Nat
ASSUME RequestAssumption == IsFiniteSet(Request)
ASSUME SessionAssumption == NoSession \notin Session

VARIABLES
    user,        \* the row in users
    session,     \* the rows in sessions
    req,         \* the handlers
    spent,       \* history: reset tokens a password was set with
    guesses,     \* history: wrong passwords tried since the counter was zero
    torn         \* history: what a dead handler or a late one left undone

vars == <<user, session, req, spent, guesses, torn>>

Status == {"INVITED", "ACTIVE", "INACTIVE", "GONE"}

\* A user row; epoch counts the changes that revoke sessions.
User == [status : Status, password : BOOLEAN, failed : Nat,
         token : 0 .. MaxToken, epoch : 0 .. MaxEpoch]

SessionRow == [state : {"unused", "open", "idle", "gone"},
               ready : BOOLEAN,          \* refresh_token_hash # '$invalid$'
               born : 0 .. MaxEpoch]     \* epoch it was created, or kept, in

At == {"idle", "verify", "lock", "sign", "finish", "touch", "expire",
       "change", "purgeOthers", "forgot", "reset", "purge", "accept"}

Local == [at : At, sid : Session \cup {NoSession}, token : 0 .. MaxToken,
          password : BOOLEAN]

Idle == [at |-> "idle", sid |-> NoSession, token |-> 0, password |-> FALSE]
Gone == [state |-> "gone", ready |-> FALSE, born |-> 0]

TypeOK ==
    /\ user \in User
    /\ session \in [Session -> SessionRow]
    /\ req \in [Request -> Local]
    /\ spent \subseteq 1 .. MaxToken
    /\ guesses \in Nat
    /\ torn \subseteq {"lock", "purge", "revived"}

Init ==
    /\ user = [status |-> "INVITED", password |-> FALSE, failed |-> 0,
               token |-> 0, epoch |-> 0]
    /\ session = [s \in Session |-> [state |-> "unused", ready |-> FALSE, born |-> 0]]
    /\ req = [r \in Request |-> Idle]
    /\ spent = {} /\ guesses = 0 /\ torn = {}

Row(status, password, failed, token, epoch) ==
    [status |-> status, password |-> password, failed |-> failed,
     token |-> token, epoch |-> epoch]

Exists  == user.status # "GONE"
Live(s) == session[s].state \in {"open", "idle"}
Begin(r, l, s, t) ==
    req' = [req EXCEPT ![r] = [at |-> l, sid |-> s, token |-> t, password |-> FALSE]]
Goto(r, l) == req' = [req EXCEPT ![r].at = l]
Settle(r)  == req' = [req EXCEPT ![r] = Idle]
Delete(rows) ==
    session' = [s \in Session |->
                  IF s \in rows /\ Live(s) THEN Gone ELSE session[s]]

\* A write that revokes sessions opens an epoch.
Revokes == user.epoch < MaxEpoch

\* Handlers throw when the row they update is gone.
Throws(r) ==
    /\ Settle(r)
    /\ UNCHANGED <<user, session, spent, guesses, torn>>

-----------------------------------------------------------------------------
\* login

LoginRead(r) ==
    /\ req[r].at = "idle"
    /\ user.status = "ACTIVE"
    /\ req' = [req EXCEPT ![r] = [at |-> "verify", sid |-> NoSession,
                                  token |-> 0, password |-> user.password]]
    /\ UNCHANGED <<user, session, spent, guesses, torn>>

GuessUpTo(r, limit) ==
    /\ req[r].at = "verify"
    /\ Exists /\ guesses < MaxGuesses
    /\ user' = [user EXCEPT !.failed = user.failed + 1]
    /\ guesses' = guesses + 1
    /\ IF user.failed + 1 >= limit THEN Goto(r, "lock") ELSE Settle(r)
    /\ UNCHANGED <<session, spent, torn>>

\* Mutant: `>` instead of `>=`.
GuessOnceMore(r) == GuessUpTo(r, MaxFailed + 1)

WrongPassword(r) == GuessUpTo(r, MaxFailed)

LockOut(r) ==
    /\ req[r].at = "lock"
    /\ Exists /\ Revokes
    /\ user' = Row("INACTIVE", user.password, user.failed, user.token, user.epoch + 1)
    /\ Delete(Session)
    /\ Settle(r)
    /\ UNCHANGED <<spent, guesses, torn>>

RightPassword(r) ==
    /\ req[r].at = "verify" /\ req[r].password
    /\ Exists
    /\ \E s \in Session :
          /\ session[s].state = "unused"
          /\ session' = [session EXCEPT ![s] = [state |-> "open", ready |-> FALSE,
                                                born |-> user.epoch]]
          /\ Begin(r, "sign", s, 0)
    /\ UNCHANGED <<user, spent, guesses, torn>>

SetHash(r) ==
    /\ req[r].at = "sign"
    /\ Live(req[r].sid)
    /\ session' = [session EXCEPT ![req[r].sid].ready = TRUE]
    /\ Goto(r, "finish")
    /\ UNCHANGED <<user, spent, guesses, torn>>

Finish(r) ==
    /\ req[r].at = "finish"
    /\ Exists
    /\ user' = [user EXCEPT !.failed = 0]
    /\ guesses' = 0
    /\ Settle(r)
    /\ UNCHANGED <<session, spent, torn>>

-----------------------------------------------------------------------------
\* refreshToken

RefreshRead(r, s) ==
    /\ req[r].at = "idle"
    /\ user.status = "ACTIVE"
    /\ Live(s)
    /\ session[s].state = "open" => session[s].ready
    /\ Begin(r, IF session[s].state = "idle" THEN "expire" ELSE "touch", s, 0)
    /\ UNCHANGED <<user, session, spent, guesses, torn>>

Touch(r) ==
    /\ req[r].at = "touch"
    /\ Live(req[r].sid)
    /\ session' = [session EXCEPT ![req[r].sid].state = "open"]
    /\ Settle(r)
    /\ UNCHANGED <<user, spent, guesses, torn>>

Expire(r) ==
    /\ req[r].at = "expire"
    /\ Live(req[r].sid)
    /\ Delete({req[r].sid})
    /\ Settle(r)
    /\ UNCHANGED <<user, spent, guesses, torn>>

GoesIdle(s) ==
    /\ session[s].state = "open"
    /\ session' = [session EXCEPT ![s].state = "idle"]
    /\ UNCHANGED <<user, req, spent, guesses, torn>>

-----------------------------------------------------------------------------
\* Requests with an access token: JwtStrategy.validate, then the handler

SignedIn(s) ==
    /\ session[s].state = "open" /\ session[s].ready
    /\ user.status = "ACTIVE"

\* logout, revokeSession, revokeAllOtherSessions and updateProfile with a new
\* address: one deletion of sessions.
SignOut(s) ==
    /\ SignedIn(s)
    /\ Delete({s}) \/ Delete(Session \ {s}) \/ \E o \in Session \ {s} : Delete({o})
    /\ UNCHANGED <<user, req, spent, guesses, torn>>

ChangeRead(r, s) ==
    /\ req[r].at = "idle"
    /\ SignedIn(s) /\ user.password
    /\ Begin(r, "change", s, 0)
    /\ UNCHANGED <<user, session, spent, guesses, torn>>

ChangeWrite(r) ==
    /\ req[r].at = "change"
    /\ Exists /\ Revokes
    /\ user' = Row(user.status, user.password, 0, user.token, user.epoch + 1)
    /\ session' = IF Live(req[r].sid)
                    THEN [session EXCEPT ![req[r].sid].born = user.epoch + 1]
                    ELSE session
    /\ guesses' = 0
    /\ Goto(r, "purgeOthers")
    /\ UNCHANGED <<spent, torn>>

PurgeOthers(r) ==
    /\ req[r].at = "purgeOthers"
    /\ Delete(Session \ {req[r].sid})
    /\ Settle(r)
    /\ UNCHANGED <<user, spent, guesses, torn>>

-----------------------------------------------------------------------------
\* forgotPassword, resetPassword, acceptInvitation

ForgotRead(r) ==
    /\ req[r].at = "idle"
    /\ user.status = "ACTIVE"
    /\ Goto(r, "forgot")
    /\ UNCHANGED <<user, session, spent, guesses, torn>>

ForgotWrite(r) ==
    /\ req[r].at = "forgot"
    /\ Exists
    /\ \E t \in 1 .. MaxToken :
          /\ t \notin spent \cup {user.token} \cup {req[q].token : q \in Request}
          /\ user' = [user EXCEPT !.token = t]
    /\ Settle(r)
    /\ UNCHANGED <<session, spent, guesses, torn>>

\* Expired tokens are refused: nothing happens.
ResetRead(r) ==
    /\ req[r].at = "idle"
    /\ user.status = "ACTIVE" /\ user.token # 0
    /\ Begin(r, "reset", NoSession, user.token)
    /\ UNCHANGED <<user, session, spent, guesses, torn>>

ResetTo(r, token) ==
    /\ req[r].at = "reset"
    /\ Exists /\ Revokes
    /\ user' = Row(user.status, TRUE, user.failed, token, user.epoch + 1)
    /\ spent' = spent \cup {req[r].token}
    /\ Goto(r, "purge")
    /\ UNCHANGED <<session, guesses, torn>>

\* Mutant: the token is left in the row.
ResetKeepingToken(r) == ResetTo(r, user.token)

\* Whatever token the row holds by now is cleared.
ResetWrite(r) == ResetTo(r, 0)

\* Mutant: the sessions of the old password stay.
PurgeIdle(r) ==
    /\ req[r].at = "purge"
    /\ Delete({s \in Session : session[s].state = "idle"})
    /\ Settle(r)
    /\ UNCHANGED <<user, spent, guesses, torn>>

Purge(r) ==
    /\ req[r].at = "purge"
    /\ Delete(Session)
    /\ Settle(r)
    /\ UNCHANGED <<user, spent, guesses, torn>>

AcceptRead(r) ==
    /\ req[r].at = "idle"
    /\ user.status = "INVITED"
    /\ Goto(r, "accept")
    /\ UNCHANGED <<user, session, spent, guesses, torn>>

\* The status is not read again: an account disabled or locked in between is
\* active afterwards.
AcceptWrite(r) ==
    /\ req[r].at = "accept"
    /\ Exists
    /\ user' = Row("ACTIVE", TRUE, user.failed, user.token, user.epoch)
    /\ torn' = IF user.status = "INACTIVE" THEN torn \cup {"revived"} ELSE torn
    /\ Settle(r)
    /\ UNCHANGED <<session, spent, guesses>>

-----------------------------------------------------------------------------
\* What disableUser, enableUser and removeUser write

Disable ==
    /\ Exists /\ Revokes
    /\ user' = Row("INACTIVE", user.password, user.failed, user.token, user.epoch + 1)
    /\ Delete(Session)
    /\ UNCHANGED <<req, spent, guesses, torn>>

Enable ==
    /\ Exists
    /\ user' = Row("ACTIVE", user.password, 0, user.token, user.epoch)
    /\ guesses' = 0
    /\ UNCHANGED <<session, req, spent, torn>>

Remove ==
    /\ Exists
    /\ user' = [user EXCEPT !.status = "GONE"]
    /\ Delete(Session)
    /\ UNCHANGED <<req, spent, guesses, torn>>

-----------------------------------------------------------------------------
\* An update finds its row gone; the process or the database fails

UpdateThrows(r) ==
    /\ \/ /\ req[r].at \in {"sign", "touch", "expire"}
          /\ ~Live(req[r].sid)
       \/ /\ req[r].at \in {"verify", "lock", "finish", "change", "forgot",
                            "reset", "accept"}
          /\ ~Exists
    /\ Throws(r)

Fail(r) ==
    /\ req[r].at # "idle"
    /\ torn' = torn \cup (IF req[r].at = "lock" THEN {"lock"}
                          ELSE IF req[r].at \in {"purge", "purgeOthers"}
                                 THEN {"purge"} ELSE {})
    /\ Settle(r)
    /\ UNCHANGED <<user, session, spent, guesses>>

Next ==
    \/ \E r \in Request :
          \/ LoginRead(r) \/ WrongPassword(r) \/ LockOut(r) \/ RightPassword(r)
          \/ SetHash(r) \/ Finish(r) \/ Touch(r) \/ Expire(r)
          \/ ChangeWrite(r) \/ PurgeOthers(r)
          \/ ForgotRead(r) \/ ForgotWrite(r) \/ ResetRead(r) \/ ResetWrite(r)
          \/ Purge(r) \/ AcceptRead(r) \/ AcceptWrite(r)
          \/ UpdateThrows(r) \/ Fail(r)
          \/ \E s \in Session : RefreshRead(r, s) \/ ChangeRead(r, s)
    \/ \E s \in Session : GoesIdle(s) \/ SignOut(s)
    \/ Disable \/ Enable \/ Remove

Spec == Init /\ [][Next]_vars

-----------------------------------------------------------------------------
(***************************************************************************)
(* Properties                                                              *)
(***************************************************************************)

\* A reset or change of the password, a lock-out and a disabling end every
\* session there was: what is open was created since, or kept by the request
\* that changed the password, or waits for a purge under way.  A login that
\* read the account before and creates its session after is the exception the
\* code leaves: that session counts as created since.  The sessions of a
\* removed account are gone for good.
RevocationHolds ==
    /\ \A s \in Session :
          Live(s) /\ session[s].born # user.epoch /\ "purge" \notin torn
             => \E r \in Request : req[r].at \in {"purge", "purgeOthers"}
    /\ ~Exists => \A s \in Session : ~Live(s)

\* Between two zeroings of the counter an account takes MaxFailed wrong
\* passwords and one more for every other login under way: increments are never
\* lost, however logins, lock-outs and zeroings interleave, and the request that
\* reaches the limit locks the account or dies trying.
GuessBudget ==
    torn \cap {"lock", "revived"} = {}
       => /\ guesses < MaxFailed + Cardinality(Request)
          /\ user.status = "ACTIVE" /\ guesses >= MaxFailed
                => \E r \in Request : req[r].at = "lock"

\* A reset token a password was set with is not accepted again, whatever
\* requests for a new one and other resets come in between.
SpentTokenGone == user.token \notin spent
=============================================================================
