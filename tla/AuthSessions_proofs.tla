------------------------ MODULE AuthSessions_proofs ------------------------
(***************************************************************************)
(* For any requests, sessions and bounds: revocations hold, the budget of  *)
(* wrong passwords holds, and a spent reset token is gone.                 *)
(***************************************************************************)
EXTENDS AuthSessions, FiniteSetTheorems, TLAPS

(***************************************************************************)
(* The invariant.  Typed: a handler past its read holds what it read.      *)
(* Revoked: a session of an earlier epoch is still there only if a purge   *)
(* under way will end it, and not as the one it keeps.                     *)
(***************************************************************************)
Holding == {"sign", "finish", "touch", "expire", "change", "purgeOthers"}

Typed ==
    /\ TypeOK
    /\ \A r \in Request : /\ req[r].at \in Holding => req[r].sid \in Session
                          /\ req[r].at = "reset" => req[r].token # 0

Purges(r, s) == \/ req[r].at = "purge"
                \/ req[r].at = "purgeOthers" /\ req[r].sid # s

Doomed(s) == \E r \in Request : Purges(r, s)

Revoked ==
    /\ \A s \in Session :
          Live(s) /\ session[s].born # user.epoch /\ "purge" \notin torn => Doomed(s)
    /\ ~Exists => \A s \in Session : ~Live(s)

(***************************************************************************)
(* Budget: the counter in the row is the number of guesses.  A login under *)
(* way may spend one more; while the account is active each guess from the *)
(* limit on has left a handler about to lock it, so that a new login finds *)
(* room.                                                                   *)
(***************************************************************************)
Verifying == {r \in Request : req[r].at = "verify"}
Locking   == {r \in Request : req[r].at = "lock"}

Budget ==
    /\ user.failed = guesses
    /\ user.status = "INVITED" =>
          guesses = 0 /\ \A r \in Request : req[r].at \in {"idle", "accept"}
    /\ "lock" \notin torn /\ "revived" \notin torn =>
          /\ guesses + Cardinality(Verifying) < MaxFailed + Cardinality(Request)
          /\ user.status = "ACTIVE" /\ guesses >= MaxFailed =>
                guesses - MaxFailed < Cardinality(Locking)

IInv == Typed /\ Revoked /\ Budget /\ SpentTokenGone

LEMMA InitInv == Init => IInv
  <1> SUFFICES ASSUME Init PROVE IInv
    OBVIOUS
  <1>1. user \in User /\ user.status = "INVITED" /\ user.failed = 0 /\ user.token = 0
        /\ user.epoch = 0
    BY BoundsAssumption DEF Init, User, Status
  <1>2. /\ session \in [Session -> SessionRow]
        /\ \A s \in Session : ~Live(s)
    BY BoundsAssumption DEF Init, SessionRow, Live
  <1>3. req \in [Request -> Local] /\ \A r \in Request : req[r].at = "idle"
    BY BoundsAssumption DEF Init, Local, Idle, At
  <1>4. Typed
    BY <1>1, <1>2, <1>3 DEF Init, Typed, TypeOK, Holding
  <1>5. Revoked /\ SpentTokenGone
    BY <1>1, <1>2 DEF Init, Revoked, Exists, SpentTokenGone
  <1>6. Budget
    <2>1. Verifying = {}
      BY <1>3 DEF Verifying
    <2>2. Cardinality(Verifying) = 0 /\ Cardinality(Request) \in Nat
      BY <2>1, FS_EmptySet, FS_CardinalityType, RequestAssumption
    <2>3. MaxFailed \in Nat /\ MaxFailed > 0
      BY MaxFailedAssumption
    <2> QED
      BY <1>1, <1>3, <2>2, <2>3 DEF Init, Budget
  <1> QED
    BY <1>4, <1>5, <1>6 DEF IInv

(***************************************************************************)
(* What the helpers of the module do to the handlers and the rows.         *)
(***************************************************************************)
Others(r) == \A q \in Request \ {r} : req'[q] = req[q]

LEMMA BeginFact ==
    ASSUME TypeOK, NEW r \in Request, NEW l \in At, NEW s \in Session \cup {NoSession},
           NEW t \in 0 .. MaxToken, Begin(r, l, s, t)
    PROVE  /\ req' \in [Request -> Local] /\ Others(r)
           /\ req'[r].at = l /\ req'[r].sid = s /\ req'[r].token = t
  BY DEF TypeOK, Begin, Local, Others

LEMMA GotoFact ==
    ASSUME TypeOK, NEW r \in Request, NEW l \in At, Goto(r, l)
    PROVE  /\ req' \in [Request -> Local] /\ Others(r)
           /\ req'[r].at = l /\ req'[r].sid = req[r].sid /\ req'[r].token = req[r].token
  <1> DEFINE k == [req[r] EXCEPT !.at = l]
  <1>1. \A x \in Local : LET y == [x EXCEPT !.at = l]
                         IN  y \in Local /\ y.at = l /\ y.sid = x.sid /\ y.token = x.token
    BY DEF Local
  <1>2. req' = [req EXCEPT ![r] = k]
    BY DEF Goto
  <1>3. k \in Local /\ k.at = l /\ k.sid = req[r].sid /\ k.token = req[r].token
    BY <1>1 DEF TypeOK
  <1> HIDE DEF k
  <1> QED
    BY <1>2, <1>3 DEF TypeOK, Others

LEMMA SettleFact ==
    ASSUME TypeOK, NEW r \in Request, Settle(r)
    PROVE  req' \in [Request -> Local] /\ Others(r) /\ req'[r].at = "idle"
  BY BoundsAssumption DEF TypeOK, Settle, Idle, Local, At, Others

LEMMA DeleteFact ==
    ASSUME TypeOK, NEW rows, Delete(rows)
    PROVE  /\ session' \in [Session -> SessionRow]
           /\ \A s \in Session : s \in rows => ~Live(s)'
           /\ \A s \in Session : Live(s)' => Live(s) /\ session'[s] = session[s]
  <1>1. Gone \in SessionRow /\ Gone.state = "gone"
    BY BoundsAssumption DEF Gone, SessionRow
  <1> QED
    BY <1>1 DEF TypeOK, Delete, Live

LEMMA UserFields ==
    ASSUME TypeOK
    PROVE  /\ user.status \in Status /\ user.password \in BOOLEAN /\ user.failed \in Nat
           /\ user.token \in 0 .. MaxToken /\ user.epoch \in 0 .. MaxEpoch
  BY DEF TypeOK, User

LEMMA RowFact ==
    ASSUME TypeOK, NEW st \in Status, NEW p \in BOOLEAN, NEW f \in Nat,
           NEW t \in 0 .. MaxToken, NEW e \in 0 .. MaxEpoch
    PROVE  LET u == Row(st, p, f, t, e)
           IN  /\ u \in User /\ u.status = st /\ u.failed = f /\ u.token = t /\ u.epoch = e
  BY DEF Row, User

LEMMA NextEpoch ==
    ASSUME TypeOK, Revokes PROVE user.epoch + 1 \in 0 .. MaxEpoch
  BY BoundsAssumption, UserFields DEF Revokes

(***************************************************************************)
(* What is left to show of a step of one handler for each part of the      *)
(* invariant.                                                              *)
(***************************************************************************)
LEMMA TypedStep ==
    ASSUME Typed, NEW r \in Request, req' \in [Request -> Local], Others(r),
           user' \in User, session' \in [Session -> SessionRow],
           spent' \subseteq 1 .. MaxToken, guesses' \in Nat,
           torn' \subseteq {"lock", "purge", "revived"},
           req'[r].at \in Holding => req'[r].sid \in Session,
           req'[r].at = "reset" => req'[r].token # 0
    PROVE  Typed'
  BY DEF Typed, TypeOK, Others

LEMMA RevokedStep ==
    ASSUME Revoked,
           Exists' \/ ~Exists \/ \A s \in Session : ~Live(s)',
           torn \subseteq torn',
           \A s \in Session : Live(s)' =>
              \/ Live(s) /\ session'[s].born = session[s].born /\ user'.epoch = user.epoch
              \/ Exists /\ session'[s].born = user'.epoch
              \/ Exists /\ Doomed(s)',
           \A s \in Session : Live(s)' /\ Doomed(s) => Doomed(s)' \/ "purge" \in torn'
    PROVE  Revoked'
  BY DEF Revoked

\* Purges under way stay while another handler goes on.
LEMMA StillDoomed ==
    ASSUME NEW r \in Request, Others(r), req[r].at \notin {"purge", "purgeOthers"},
           NEW s \in Session, Doomed(s)
    PROVE  Doomed(s)'
  BY DEF Doomed, Purges, Others

LEMMA Disjoint ==
    ASSUME NEW S, NEW T, S \subseteq Request, T \subseteq Request, S \cap T = {}
    PROVE  /\ IsFiniteSet(S) /\ IsFiniteSet(T)
           /\ Cardinality(S) \in Nat /\ Cardinality(T) \in Nat
           /\ Cardinality(Request) \in Nat
           /\ Cardinality(S) + Cardinality(T) <= Cardinality(Request)
  <1>1. IsFiniteSet(S) /\ IsFiniteSet(T)
    BY FS_Subset, RequestAssumption
  <1>2. /\ Cardinality(S) \in Nat /\ Cardinality(T) \in Nat
        /\ Cardinality(Request) \in Nat
    BY <1>1, FS_CardinalityType, RequestAssumption
  <1>3. Cardinality(S \cup T) = Cardinality(S) + Cardinality(T)
    BY <1>1, <1>2, FS_Union, FS_EmptySet
  <1>4. Cardinality(S \cup T) <= Cardinality(Request)
    BY FS_Subset, RequestAssumption
  <1> QED
    BY <1>1, <1>2, <1>3, <1>4

LEMMA Sizes ==
    /\ IsFiniteSet(Verifying) /\ IsFiniteSet(Locking)
    /\ Cardinality(Verifying) \in Nat /\ Cardinality(Locking) \in Nat
    /\ Cardinality(Request) \in Nat
    /\ Cardinality(Verifying) + Cardinality(Locking) <= Cardinality(Request)
    /\ MaxFailed \in Nat /\ MaxFailed > 0
  <1>1. /\ Verifying \subseteq Request /\ Locking \subseteq Request
        /\ Verifying \cap Locking = {}
    BY DEF Verifying, Locking
  <1> QED
    BY <1>1, Disjoint, MaxFailedAssumption

\* A handler that neither takes up nor gives up a login.
LEMMA SizesKept ==
    ASSUME NEW r \in Request, Others(r), req'[r].at # "verify"
    PROVE  /\ Cardinality(Verifying') <= Cardinality(Verifying)
           /\ req[r].at # "lock" => Cardinality(Locking) <= Cardinality(Locking')
           /\ Cardinality(Verifying') \in Nat /\ Cardinality(Locking') \in Nat
  <1>1. Verifying' \in SUBSET Verifying /\ Locking' \in SUBSET Request
    BY DEF Verifying, Locking, Others
  <1>2. Cardinality(Verifying') <= Cardinality(Verifying)
    BY <1>1, Sizes, FS_Subset
  <1>3. IsFiniteSet(Verifying') /\ IsFiniteSet(Locking')
    BY <1>1, Sizes, FS_Subset, RequestAssumption
  <1>4. req[r].at # "lock" => Locking \in SUBSET Locking'
    BY DEF Locking, Others
  <1>5. req[r].at # "lock" => Cardinality(Locking) <= Cardinality(Locking')
    BY <1>3, <1>4, FS_Subset
  <1> QED
    BY <1>2, <1>3, <1>5, FS_CardinalityType

LEMMA BudgetStep ==
    ASSUME Typed, Budget, NEW r \in Request, Others(r), req'[r].at # "verify",
           user'.failed = user.failed, guesses' = guesses, torn \subseteq torn',
           req[r].at = "lock" => user'.status # "ACTIVE" \/ "lock" \in torn',
           user'.status = "ACTIVE" => user.status \in {"ACTIVE", "INVITED"} \/ "revived" \in torn',
           user'.status = "INVITED" =>
              user.status = "INVITED" /\ req'[r].at \in {"idle", "accept"}
    PROVE  Budget'
  <1>1. guesses \in Nat
    BY DEF Typed, TypeOK
  <1>2. user'.failed = guesses'
    BY DEF Budget
  <1>3. user'.status = "INVITED" =>
          guesses' = 0 /\ \A q \in Request : req'[q].at \in {"idle", "accept"}
    BY DEF Budget, Others
  <1>4. ASSUME "lock" \notin torn', "revived" \notin torn'
        PROVE  /\ guesses' + Cardinality(Verifying') < MaxFailed + Cardinality(Request)
               /\ user'.status = "ACTIVE" /\ guesses' >= MaxFailed =>
                     guesses' - MaxFailed < Cardinality(Locking')
    <2>1. "lock" \notin torn /\ "revived" \notin torn
      BY <1>4
    <2>2. guesses' + Cardinality(Verifying') < MaxFailed + Cardinality(Request)
      BY <1>1, <2>1, Sizes, SizesKept DEF Budget
    <2>3. ASSUME user'.status = "ACTIVE", guesses' >= MaxFailed
          PROVE  guesses' - MaxFailed < Cardinality(Locking')
      <3>1. user.status = "ACTIVE" /\ req[r].at # "lock"
        BY <1>4, <2>3, Sizes DEF Budget
      <3> QED
        BY <1>1, <2>1, <2>3, <3>1, Sizes, SizesKept DEF Budget
    <2> QED
      BY <2>2, <2>3
  <1> QED
    BY <1>2, <1>3, <1>4 DEF Budget

LEMMA BudgetSame ==
    ASSUME Typed, Budget, UNCHANGED <<req, torn, guesses>>, user'.failed = user.failed,
           user'.status \in {user.status, "INACTIVE", "GONE"}
    PROVE  Budget'
  BY DEF Budget, Verifying, Locking

\* The counter goes back to zero: whatever is under way has room.
LEMMA BudgetZero ==
    ASSUME Typed, Budget, user'.failed = 0, guesses' = 0, user'.status # "INVITED"
    PROVE  Budget'
  <1>1. Cardinality(Verifying') \in Nat /\ Cardinality(Verifying') <= Cardinality(Request)
    <2>1. Verifying' \in SUBSET Request
      BY DEF Verifying
    <2> QED
      BY <2>1, FS_Subset, FS_CardinalityType, RequestAssumption
  <1> QED
    BY <1>1, Sizes DEF Budget

(***************************************************************************)
(* The actions.  First those that write no user row.                       *)
(***************************************************************************)
Quiet == UNCHANGED <<user, session, spent, guesses, torn>>

LEMMA ReadStep ==
    ASSUME IInv, NEW r \in Request, req[r].at = "idle", Quiet, req' \in [Request -> Local],
           Others(r), req'[r].at # "verify",
           req'[r].at \in Holding => req'[r].sid \in Session,
           req'[r].at = "reset" => req'[r].token # 0,
           user.status = "ACTIVE" \/ req'[r].at = "accept"
    PROVE  IInv'
  <1>1. Typed'
    BY TypedStep DEF IInv, Typed, TypeOK, Quiet
  <1>2. Revoked'
    BY RevokedStep, StillDoomed DEF IInv, Quiet, Exists, Live
  <1>3. Budget'
    BY BudgetStep, UserFields DEF IInv, Typed, Quiet, Status
  <1> QED
    BY <1>1, <1>2, <1>3 DEF IInv, SpentTokenGone, Quiet

LEMMA ReadsInv ==
    ASSUME IInv, NEW r \in Request,
           \/ ForgotRead(r) \/ ResetRead(r) \/ AcceptRead(r)
           \/ \E s \in Session : RefreshRead(r, s) \/ ChangeRead(r, s)
    PROVE  IInv'
  <1>0. TypeOK
    BY DEF IInv, Typed
  <1>1. CASE ForgotRead(r)
    BY <1>0, <1>1, GotoFact, ReadStep DEF ForgotRead, Quiet, At, Holding
  <1>2. CASE ResetRead(r)
    BY <1>0, <1>2, BeginFact, UserFields, ReadStep DEF ResetRead, Quiet, At, Holding
  <1>3. CASE AcceptRead(r)
    BY <1>0, <1>3, GotoFact, ReadStep DEF AcceptRead, Quiet, At, Holding
  <1>4. ASSUME NEW s \in Session, RefreshRead(r, s) PROVE IInv'
    <2>1. PICK l \in {"expire", "touch"} : Begin(r, l, s, 0)
      <3>1. (IF session[s].state = "idle" THEN "expire" ELSE "touch") \in {"expire", "touch"}
        OBVIOUS
      <3> QED
        BY <1>4, <3>1 DEF RefreshRead
    <2> QED
      BY <1>0, <1>4, <2>1, BeginFact, BoundsAssumption, ReadStep
         DEF RefreshRead, Quiet, At, Holding
  <1>5. ASSUME NEW s \in Session, ChangeRead(r, s) PROVE IInv'
    BY <1>0, <1>5, BeginFact, BoundsAssumption, ReadStep
       DEF ChangeRead, SignedIn, Quiet, At, Holding
  <1> QED
    BY <1>1, <1>2, <1>3, <1>4, <1>5

\* A login takes up a guess: there is room, for each guess from the limit on
\* stands a handler about to lock the account.
LEMMA LoginReadInv == ASSUME IInv, NEW r \in Request, LoginRead(r) PROVE IInv'
  <1>0. TypeOK
    BY DEF IInv, Typed
  <1>1. /\ req' \in [Request -> Local] /\ Others(r) /\ req'[r].at = "verify"
        /\ req[r].at = "idle" /\ user.status = "ACTIVE" /\ Quiet
    BY <1>0, BoundsAssumption, UserFields
       DEF LoginRead, TypeOK, Local, At, Others, Quiet
  <1>2. Typed'
    BY <1>1, TypedStep DEF IInv, Typed, TypeOK, Quiet, Holding
  <1>3. Revoked'
    BY <1>1, RevokedStep, StillDoomed DEF IInv, Quiet, Exists, Live
  <1>4. Budget'
    <2>1. Verifying' = Verifying \cup {r} /\ r \notin Verifying /\ Locking' = Locking
      BY <1>1 DEF Verifying, Locking, Others
    <2>2. Cardinality(Verifying') = Cardinality(Verifying) + 1
      BY <2>1, Sizes, FS_AddElement
    <2>3. Cardinality(Verifying') + Cardinality(Locking') <= Cardinality(Request)
      <3>1. /\ Verifying' \subseteq Request /\ Locking' \subseteq Request
            /\ Verifying' \cap Locking' = {}
        BY DEF Verifying, Locking
      <3> QED
        BY <3>1, Disjoint
    <2>4. guesses \in Nat
      BY <1>0 DEF TypeOK
    <2> QED
      BY <1>1, <2>1, <2>2, <2>3, <2>4, Sizes DEF IInv, Budget, Quiet
  <1> QED
    BY <1>1, <1>2, <1>3, <1>4 DEF IInv, SpentTokenGone, Quiet

\* Handlers that end, with their row gone or by a failure.
LEMMA EndsInv ==
    ASSUME IInv, NEW r \in Request, UpdateThrows(r) \/ Fail(r) PROVE IInv'
  <1>0. TypeOK
    BY DEF IInv, Typed
  <1>1. /\ req' \in [Request -> Local] /\ Others(r) /\ req'[r].at = "idle"
        /\ UNCHANGED <<user, session, spent, guesses>>
    BY <1>0, SettleFact DEF UpdateThrows, Throws, Fail
  <1>2. /\ torn \subseteq torn' /\ torn' \subseteq {"lock", "purge", "revived"}
        /\ req[r].at \in {"purge", "purgeOthers"} => "purge" \in torn'
        /\ req[r].at = "lock" => ~Exists \/ "lock" \in torn'
    BY <1>0 DEF TypeOK, UpdateThrows, Throws, Fail
  <1>3. Typed'
    BY <1>1, <1>2, TypedStep DEF IInv, Typed, TypeOK, Holding
  <1>4. Revoked'
    BY <1>1, <1>2, RevokedStep, StillDoomed DEF IInv, Exists, Live
  <1>5. Budget'
    BY <1>1, <1>2, BudgetStep DEF IInv, Exists
  <1> QED
    BY <1>1, <1>3, <1>4, <1>5 DEF IInv, SpentTokenGone

\* SetHash, Touch and RightPassword write the row of one live session.
LEMMA SessionWritesInv ==
    ASSUME IInv, NEW r \in Request, SetHash(r) \/ Touch(r) \/ RightPassword(r)
    PROVE  IInv'
  <1>0. TypeOK
    BY DEF IInv, Typed
  <1>1. UNCHANGED <<user, spent, guesses, torn>>
    BY DEF SetHash, Touch, RightPassword
  <1>2. /\ req' \in [Request -> Local] /\ Others(r) /\ req'[r].at \in {"idle", "sign", "finish"}
        /\ req'[r].at \in Holding => req'[r].sid \in Session
        /\ req[r].at \in {"sign", "touch", "verify"}
    <2>1. CASE SetHash(r)
      BY <1>0, <2>1, GotoFact DEF IInv, Typed, SetHash, At, Holding
    <2>2. CASE Touch(r)
      BY <1>0, <2>2, SettleFact DEF Touch, Holding
    <2>3. CASE RightPassword(r)
      BY <1>0, <2>3, BeginFact, BoundsAssumption DEF RightPassword, At
    <2> QED
      BY <2>1, <2>2, <2>3
  <1>3. /\ session' \in [Session -> SessionRow]
        /\ \A s \in Session : Live(s)' =>
              \/ Live(s) /\ session'[s].born = session[s].born
              \/ Exists /\ session'[s].born = user.epoch
    <2>1. CASE SetHash(r) \/ Touch(r)
      <3>1. PICK s \in Session : /\ Live(s)
                                 /\ \/ session' = [session EXCEPT ![s].ready = TRUE]
                                    \/ session' = [session EXCEPT ![s].state = "open"]
        BY <2>1 DEF IInv, Typed, SetHash, Touch, Holding
      <3>2. \A x \in SessionRow :
              /\ [x EXCEPT !.ready = TRUE] \in SessionRow
              /\ [x EXCEPT !.ready = TRUE].born = x.born
              /\ [x EXCEPT !.ready = TRUE].state = x.state
              /\ [x EXCEPT !.state = "open"] \in SessionRow
              /\ [x EXCEPT !.state = "open"].born = x.born
        BY DEF SessionRow
      <3>3. PICK k \in SessionRow : /\ session' = [session EXCEPT ![s] = k]
                                   /\ k.born = session[s].born
        BY <1>0, <3>1, <3>2 DEF TypeOK
      <3> QED
        BY <1>0, <3>1, <3>3 DEF TypeOK, Live
    <2>2. CASE RightPassword(r)
      <3>1. PICK s \in Session :
              session' = [session EXCEPT ![s] = [state |-> "open", ready |-> FALSE,
                                                 born |-> user.epoch]]
        BY <2>2 DEF RightPassword
      <3>2. [state |-> "open", ready |-> FALSE, born |-> user.epoch] \in SessionRow
        BY <1>0, UserFields DEF SessionRow
      <3> QED
        BY <1>0, <2>2, <3>1, <3>2 DEF TypeOK, Live, RightPassword
    <2> QED
      BY <2>1, <2>2
  <1>4. Typed'
    BY <1>1, <1>2, <1>3, TypedStep DEF IInv, Typed, TypeOK
  <1>5. Revoked'
    BY <1>1, <1>2, <1>3, RevokedStep, StillDoomed DEF IInv, Exists
  <1>6. Budget'
    BY <1>1, <1>2, BudgetStep DEF IInv, Budget
  <1> QED
    BY <1>1, <1>4, <1>5, <1>6 DEF IInv, SpentTokenGone

\* Expire, PurgeOthers and Purge delete sessions and end.  A purge leaves none
\* of those it was to end; what it keeps was not doomed by it.
LEMMA DeletionsInv ==
    ASSUME IInv, NEW r \in Request, Expire(r) \/ PurgeOthers(r) \/ Purge(r)
    PROVE  IInv'
  <1>0. TypeOK
    BY DEF IInv, Typed
  <1>1. /\ UNCHANGED <<user, spent, guesses, torn>> /\ req[r].at \notin {"lock", "idle", "verify"}
        /\ req' \in [Request -> Local] /\ Others(r) /\ req'[r].at = "idle"
    BY <1>0, SettleFact DEF Expire, PurgeOthers, Purge
  <1>2. /\ session' \in [Session -> SessionRow]
        /\ \A s \in Session : Live(s)' => Live(s) /\ session'[s] = session[s]
        /\ \A s \in Session : Purges(r, s) => ~Live(s)'
    BY <1>0, DeleteFact DEF Expire, PurgeOthers, Purge, Purges
  <1>3. \A s \in Session : Live(s)' /\ Doomed(s) => Doomed(s)'
    BY <1>1, <1>2 DEF Doomed, Purges, Others
  <1>4. Typed'
    BY <1>1, <1>2, TypedStep DEF IInv, Typed, TypeOK, Holding
  <1>5. Revoked'
    BY <1>1, <1>2, <1>3, RevokedStep DEF IInv, Exists
  <1>6. Budget'
    BY <1>1, BudgetStep DEF IInv
  <1> QED
    BY <1>1, <1>4, <1>5, <1>6 DEF IInv, SpentTokenGone

(***************************************************************************)
(* The actions that write the user's row.                                  *)
(***************************************************************************)
\* A guess from the limit on leaves its handler about to lock the account.
LEMMA WrongPasswordInv == ASSUME IInv, NEW r \in Request, WrongPassword(r) PROVE IInv'
  <1>0. TypeOK /\ guesses \in Nat /\ user.failed = guesses
    BY DEF IInv, Typed, TypeOK, Budget
  <1>1. /\ req[r].at = "verify" /\ Exists /\ guesses' = guesses + 1
        /\ UNCHANGED <<session, spent, torn>>
    BY DEF WrongPassword, GuessUpTo
  <1>2. /\ user' \in User /\ user'.failed = guesses + 1 /\ user'.status = user.status
        /\ user'.token = user.token /\ user'.epoch = user.epoch
    BY <1>0 DEF TypeOK, User, WrongPassword, GuessUpTo
  <1>3. /\ req' \in [Request -> Local] /\ Others(r)
        /\ req'[r].at = IF guesses + 1 >= MaxFailed THEN "lock" ELSE "idle"
    BY <1>0, GotoFact, SettleFact DEF WrongPassword, GuessUpTo, At
  <1>4. Typed'
    BY <1>0, <1>1, <1>2, <1>3, TypedStep DEF IInv, Typed, TypeOK, Holding
  <1>5. Revoked'
    BY <1>1, <1>2, <1>3, RevokedStep, StillDoomed DEF IInv, Exists, Live
  <1>6. Budget'
    <2>1. Verifying' = Verifying \ {r} /\ r \in Verifying
      BY <1>1, <1>3 DEF Verifying, Others
    <2>2. Cardinality(Verifying') = Cardinality(Verifying) - 1
      BY <2>1, Sizes, FS_RemoveElement
    <2>3. guesses + 1 >= MaxFailed => Cardinality(Locking') = Cardinality(Locking) + 1
      <3>1. guesses + 1 >= MaxFailed => Locking' = Locking \cup {r} /\ r \notin Locking
        BY <1>1, <1>3 DEF Locking, Others
      <3> QED
        BY <3>1, Sizes, FS_AddElement
    <2>4. user.status # "INVITED"
      BY <1>1 DEF IInv, Budget
    <2> QED
      BY <1>0, <1>1, <1>2, <2>2, <2>3, <2>4, Sizes DEF IInv, Budget
  <1> QED
    BY <1>1, <1>2, <1>4, <1>5, <1>6 DEF IInv, SpentTokenGone

LEMMA LockOutInv == ASSUME IInv, NEW r \in Request, LockOut(r) PROVE IInv'
  <1>0. TypeOK
    BY DEF IInv, Typed
  <1>1. /\ req' \in [Request -> Local] /\ Others(r) /\ req'[r].at = "idle"
        /\ req[r].at = "lock" /\ UNCHANGED <<spent, guesses, torn>>
    BY <1>0, SettleFact DEF LockOut
  <1>2. /\ user' \in User /\ user'.status = "INACTIVE"
        /\ user'.failed = user.failed /\ user'.token = user.token
    BY <1>0, UserFields, NextEpoch, RowFact DEF LockOut, Status
  <1>3. session' \in [Session -> SessionRow] /\ \A s \in Session : ~Live(s)'
    BY <1>0, DeleteFact DEF LockOut
  <1>4. Typed'
    BY <1>1, <1>2, <1>3, TypedStep DEF IInv, Typed, TypeOK, Holding
  <1>5. Revoked'
    BY <1>3 DEF Revoked
  <1>6. Budget'
    BY <1>1, <1>2, BudgetStep DEF IInv
  <1> QED
    BY <1>1, <1>2, <1>4, <1>5, <1>6 DEF IInv, SpentTokenGone

LEMMA FinishInv == ASSUME IInv, NEW r \in Request, Finish(r) PROVE IInv'
  <1>0. TypeOK
    BY DEF IInv, Typed
  <1>1. /\ req' \in [Request -> Local] /\ Others(r) /\ req'[r].at = "idle"
        /\ req[r].at = "finish" /\ guesses' = 0 /\ UNCHANGED <<session, spent, torn>>
    BY <1>0, SettleFact DEF Finish
  <1>2. /\ user' \in User /\ user'.failed = 0 /\ user'.status = user.status
        /\ user'.token = user.token /\ user'.epoch = user.epoch
    BY <1>0 DEF TypeOK, User, Finish
  <1>3. Typed'
    BY <1>1, <1>2, TypedStep DEF IInv, Typed, TypeOK, Holding
  <1>4. Revoked'
    BY <1>1, <1>2, RevokedStep, StillDoomed DEF IInv, Exists, Live
  <1>5. Budget'
    BY <1>1, <1>2, BudgetZero DEF IInv, Budget
  <1> QED
    BY <1>1, <1>2, <1>3, <1>4, <1>5 DEF IInv, SpentTokenGone

\* The new password: all sessions are doomed but the one that is kept, whose
\* row is taken to be of the new epoch.
LEMMA ChangeWriteInv == ASSUME IInv, NEW r \in Request, ChangeWrite(r) PROVE IInv'
  <1>0. TypeOK /\ req[r].sid \in Session
    BY DEF IInv, Typed, ChangeWrite, Holding
  <1> DEFINE kept == req[r].sid
             e == user.epoch + 1
  <1>1. /\ req' \in [Request -> Local] /\ Others(r) /\ req'[r].at = "purgeOthers"
        /\ req'[r].sid = kept /\ req[r].at = "change" /\ Exists
        /\ guesses' = 0 /\ UNCHANGED <<spent, torn>>
    BY <1>0, GotoFact DEF ChangeWrite, At
  <1>2. /\ user' \in User /\ user'.failed = 0 /\ user'.status = user.status
        /\ user'.token = user.token /\ user'.epoch = e /\ e \in 0 .. MaxEpoch
    BY <1>0, UserFields, NextEpoch, RowFact DEF ChangeWrite
  <1>3. /\ session' \in [Session -> SessionRow]
        /\ Live(kept) => session'[kept].born = e
        /\ \A s \in Session \ {kept} : session'[s] = session[s]
        /\ \A s \in Session : Live(s)' => Live(s)
    <2>1. \A x \in SessionRow : LET y == [x EXCEPT !.born = e]
                                IN  y \in SessionRow /\ y.born = e /\ y.state = x.state
      BY <1>2 DEF SessionRow
    <2>2. CASE Live(kept)
      <3>1. PICK k \in SessionRow : /\ session' = [session EXCEPT ![kept] = k]
                                   /\ k.born = e /\ k.state = session[kept].state
        BY <1>0, <2>1, <2>2 DEF TypeOK, ChangeWrite
      <3> QED
        BY <1>0, <3>1 DEF TypeOK, Live
    <2>3. CASE ~Live(kept)
      BY <1>0, <2>3 DEF TypeOK, ChangeWrite, Live
    <2> QED
      BY <2>2, <2>3
  <1>4. \A s \in Session : Live(s)' => session'[s].born = e \/ Doomed(s)'
    BY <1>1, <1>3 DEF Doomed, Purges
  <1>5. Typed'
    BY <1>0, <1>1, <1>2, <1>3, TypedStep DEF IInv, Typed, TypeOK
  <1>6. Revoked'
    BY <1>1, <1>2, <1>4, RevokedStep, StillDoomed DEF IInv, Exists
  <1>7. Budget'
    BY <1>1, <1>2, BudgetZero DEF IInv, Budget
  <1> QED
    BY <1>1, <1>2, <1>5, <1>6, <1>7 DEF IInv, SpentTokenGone

\* The new token: neither a spent one nor one a handler still holds.
LEMMA ForgotWriteInv == ASSUME IInv, NEW r \in Request, ForgotWrite(r) PROVE IInv'
  <1>0. TypeOK
    BY DEF IInv, Typed
  <1>1. /\ req' \in [Request -> Local] /\ Others(r) /\ req'[r].at = "idle"
        /\ req[r].at = "forgot" /\ UNCHANGED <<session, spent, guesses, torn>>
    BY <1>0, SettleFact DEF ForgotWrite
  <1>2. /\ user' \in User /\ user'.failed = user.failed /\ user'.status = user.status
        /\ user'.token \notin spent /\ user'.epoch = user.epoch
    <2>1. PICK t \in 1 .. MaxToken : t \notin spent /\ user' = [user EXCEPT !.token = t]
      BY DEF ForgotWrite
    <2>2. t \in 0 .. MaxToken
      BY BoundsAssumption
    <2> QED
      BY <1>0, <2>1, <2>2 DEF TypeOK, User
  <1>3. Typed'
    BY <1>1, <1>2, TypedStep DEF IInv, Typed, TypeOK, Holding
  <1>4. Revoked'
    BY <1>1, <1>2, RevokedStep, StillDoomed DEF IInv, Exists, Live
  <1>5. Budget'
    BY <1>1, <1>2, UserFields, <1>0, BudgetStep DEF IInv, Budget
  <1> QED
    BY <1>1, <1>2, <1>3, <1>4, <1>5 DEF IInv, SpentTokenGone

\* The token of the handler is spent, and the row is left with none.
LEMMA ResetWriteInv == ASSUME IInv, NEW r \in Request, ResetWrite(r) PROVE IInv'
  <1>0. TypeOK /\ req[r].token \in 1 .. MaxToken
    <2>1. req[r].token \in 0 .. MaxToken /\ req[r].token # 0
      BY DEF IInv, Typed, TypeOK, Local, ResetWrite, ResetTo
    <2> QED
      BY <2>1, BoundsAssumption DEF IInv, Typed
  <1>1. /\ req' \in [Request -> Local] /\ Others(r) /\ req'[r].at = "purge"
        /\ req[r].at = "reset" /\ Exists /\ spent' = spent \cup {req[r].token}
        /\ UNCHANGED <<session, guesses, torn>>
    BY <1>0, GotoFact DEF ResetWrite, ResetTo, At
  <1>2. /\ user' \in User /\ user'.failed = user.failed /\ user'.status = user.status
        /\ user'.token = 0
    <2>1. user' = Row(user.status, TRUE, user.failed, 0, user.epoch + 1) /\ Revokes
      BY DEF ResetWrite, ResetTo
    <2> QED
      BY <1>0, <2>1, UserFields, NextEpoch, BoundsAssumption DEF Row, User
  <1>3. Typed'
    BY <1>0, <1>1, <1>2, TypedStep DEF IInv, Typed, TypeOK, Holding
  <1>4. Revoked'
    <2>1. \A s \in Session : Doomed(s)'
      BY <1>1 DEF Doomed, Purges
    <2> QED
      BY <1>1, <1>2, <2>1 DEF Revoked, Exists
  <1>5. Budget'
    BY <1>1, <1>2, UserFields, <1>0, BudgetStep DEF IInv, Budget
  <1>6. SpentTokenGone'
    BY <1>0, <1>1, <1>2 DEF TypeOK, SpentTokenGone
  <1> QED
    BY <1>3, <1>4, <1>5, <1>6 DEF IInv

LEMMA AcceptWriteInv == ASSUME IInv, NEW r \in Request, AcceptWrite(r) PROVE IInv'
  <1>0. TypeOK
    BY DEF IInv, Typed
  <1>1. /\ req' \in [Request -> Local] /\ Others(r) /\ req'[r].at = "idle"
        /\ req[r].at = "accept" /\ Exists /\ UNCHANGED <<session, spent, guesses>>
    BY <1>0, SettleFact DEF AcceptWrite
  <1>2. /\ user' \in User /\ user'.failed = user.failed /\ user'.status = "ACTIVE"
        /\ user'.token = user.token /\ user'.epoch = user.epoch
    <2>1. user' = Row("ACTIVE", TRUE, user.failed, user.token, user.epoch)
      BY DEF AcceptWrite
    <2> QED
      BY <1>0, <2>1, UserFields DEF Row, User, Status
  <1>3. /\ torn \subseteq torn' /\ torn' \subseteq {"lock", "purge", "revived"}
        /\ user.status = "INACTIVE" => "revived" \in torn'
    BY <1>0 DEF TypeOK, AcceptWrite
  <1>4. user.status \in {"INVITED", "ACTIVE", "INACTIVE"}
    BY <1>0, <1>1, UserFields DEF Status, Exists
  <1>5. Typed'
    BY <1>1, <1>2, <1>3, TypedStep DEF IInv, Typed, TypeOK, Holding
  <1>6. Revoked'
    BY <1>1, <1>2, <1>3, RevokedStep, StillDoomed DEF IInv, Exists, Live
  <1>7. Budget'
    BY <1>1, <1>2, <1>3, <1>4, BudgetStep DEF IInv
  <1> QED
    BY <1>1, <1>2, <1>5, <1>6, <1>7 DEF IInv, SpentTokenGone

\* What happens beside the handlers: sessions idle or signed out, and what
\* administrators do.
LEMMA BesideInv ==
    ASSUME IInv, Disable \/ Enable \/ Remove \/ \E s \in Session : GoesIdle(s) \/ SignOut(s)
    PROVE  IInv'
  <1>0. TypeOK
    BY DEF IInv, Typed
  <1>1. UNCHANGED <<req, spent, torn>> /\ \A s \in Session : Doomed(s)' <=> Doomed(s)
    BY DEF Disable, Enable, Remove, GoesIdle, SignOut, Doomed, Purges
  <1>2. /\ session' \in [Session -> SessionRow]
        /\ \A s \in Session : Live(s)' => Live(s) /\ session'[s].born = session[s].born
        /\ Disable \/ Remove => \A s \in Session : ~Live(s)'
    <2>1. ASSUME NEW rows, Delete(rows)
          PROVE  /\ session' \in [Session -> SessionRow]
                 /\ \A s \in Session : Live(s)' => Live(s) /\ session'[s].born = session[s].born
                 /\ Session \subseteq rows => \A s \in Session : ~Live(s)'
      BY <1>0, <2>1, DeleteFact
    <2>2. CASE Disable \/ Remove
      BY <2>1, <2>2 DEF Disable, Remove
    <2>3. CASE Enable /\ ~Disable /\ ~Remove
      BY <1>0, <2>3 DEF TypeOK, Enable, Live
    <2>4. ASSUME NEW s \in Session, SignOut(s), ~Disable, ~Remove
          PROVE  /\ session' \in [Session -> SessionRow]
                 /\ \A o \in Session : Live(o)' => Live(o) /\ session'[o].born = session[o].born
      BY <2>1, <2>4 DEF SignOut
    <2>5. ASSUME NEW s \in Session, GoesIdle(s), ~Disable, ~Remove
          PROVE  /\ session' \in [Session -> SessionRow]
                 /\ \A o \in Session : Live(o)' => Live(o) /\ session'[o].born = session[o].born
      <3>1. \A x \in SessionRow : LET y == [x EXCEPT !.state = "idle"]
                                  IN  y \in SessionRow /\ y.born = x.born
        BY DEF SessionRow
      <3>2. PICK k \in SessionRow : session' = [session EXCEPT ![s] = k] /\ k.born = session[s].born
        BY <1>0, <2>5, <3>1 DEF TypeOK, GoesIdle
      <3> QED
        BY <1>0, <2>5, <3>2 DEF TypeOK, GoesIdle, Live
    <2> QED
      BY <2>2, <2>3, <2>4, <2>5
  <1>3. /\ user' \in User /\ user'.token = user.token
        /\ ~Disable => user'.epoch = user.epoch
        /\ Exists' \/ ~Exists \/ Remove
        /\ \/ guesses' = guesses /\ user'.failed = user.failed
              /\ user'.status \in {user.status, "INACTIVE", "GONE"}
           \/ guesses' = 0 /\ user'.failed = 0 /\ user'.status = "ACTIVE"
    <2>1. CASE Disable
      BY <1>0, <2>1, UserFields, NextEpoch, RowFact DEF Disable, Status, Exists
    <2>2. CASE Enable /\ ~Disable
      BY <1>0, <2>2, UserFields, RowFact DEF Enable, Status, Exists
    <2>3. CASE Remove /\ ~Disable
      BY <1>0, <2>3 DEF TypeOK, User, Status, Remove
    <2>4. CASE UNCHANGED <<user, guesses>>
      BY <1>0, <2>4, UserFields DEF TypeOK, Exists
    <2> QED
      BY <2>1, <2>2, <2>3, <2>4 DEF GoesIdle, SignOut
  <1>4. Typed'
    BY <1>0, <1>1, <1>2, <1>3 DEF IInv, Typed, TypeOK
  <1>5. Revoked'
    <2>1. CASE Disable \/ Remove
      BY <1>2, <2>1 DEF Revoked
    <2>2. CASE ~Disable /\ ~Remove
      BY <1>1, <1>2, <1>3, <2>2, RevokedStep DEF IInv
    <2> QED
      BY <2>1, <2>2
  <1>6. Budget'
    BY <1>1, <1>3, BudgetSame, BudgetZero DEF IInv
  <1> QED
    BY <1>1, <1>3, <1>4, <1>5, <1>6 DEF IInv, SpentTokenGone

LEMMA NextInv == IInv /\ [Next]_vars => IInv'
  <1> SUFFICES ASSUME IInv, [Next]_vars PROVE IInv'
    OBVIOUS
  <1>1. CASE UNCHANGED vars
    BY <1>1 DEF vars, IInv, Typed, TypeOK, Revoked, Budget, SpentTokenGone, Exists, Live,
                Doomed, Purges, Verifying, Locking
  <1>2. ASSUME NEW r \in Request,
               \/ LoginRead(r) \/ WrongPassword(r) \/ LockOut(r) \/ RightPassword(r)
               \/ SetHash(r) \/ Finish(r) \/ Touch(r) \/ Expire(r)
               \/ ChangeWrite(r) \/ PurgeOthers(r)
        PROVE  IInv'
    BY <1>2, LoginReadInv, WrongPasswordInv, LockOutInv, SessionWritesInv, FinishInv,
       DeletionsInv, ChangeWriteInv
  <1>3. ASSUME NEW r \in Request,
               \/ ForgotRead(r) \/ ForgotWrite(r) \/ ResetRead(r) \/ ResetWrite(r)
               \/ Purge(r) \/ AcceptRead(r) \/ AcceptWrite(r)
               \/ UpdateThrows(r) \/ Fail(r)
               \/ \E s \in Session : RefreshRead(r, s) \/ ChangeRead(r, s)
        PROVE  IInv'
    BY <1>3, ReadsInv, ForgotWriteInv, ResetWriteInv, DeletionsInv, AcceptWriteInv, EndsInv
  <1> QED
    BY <1>1, <1>2, <1>3, BesideInv DEF Next

THEOREM Invariance == Spec => []IInv
  BY InitInv, NextInv, PTL DEF Spec

\* Rows and handlers keep their shape, and a handler keeps what it read.
THEOREM SessionsTypeCorrect == Spec => []TypeOK
  <1>1. IInv => TypeOK
    BY DEF IInv, Typed
  <1> QED
    BY <1>1, Invariance, PTL

\* A revocation ends every session there was, or has a purge under way that
\* will, and the sessions of a removed account are gone.
THEOREM RevocationsHold == Spec => []RevocationHolds
  <1>1. IInv => RevocationHolds
    BY DEF IInv, Revoked, Doomed, Purges, RevocationHolds
  <1> QED
    BY <1>1, Invariance, PTL

\* A password reset token that set a password is not accepted again.
THEOREM TokensSpentOnce == Spec => []SpentTokenGone
  <1>1. IInv => SpentTokenGone
    BY DEF IInv
  <1> QED
    BY <1>1, Invariance, PTL

\* The wrong passwords an account takes are limited by MaxFailed and by the
\* logins that can be under way at once.
THEOREM GuessesLimited == Spec => []GuessBudget
  <1>1. ASSUME IInv, torn \cap {"lock", "revived"} = {}
        PROVE  /\ guesses < MaxFailed + Cardinality(Request)
               /\ user.status = "ACTIVE" /\ guesses >= MaxFailed
                     => \E r \in Request : req[r].at = "lock"
    <2>1. "lock" \notin torn /\ "revived" \notin torn /\ guesses \in Nat
      BY <1>1 DEF IInv, Typed, TypeOK
    <2>2. guesses < MaxFailed + Cardinality(Request)
      BY <1>1, <2>1, Sizes DEF IInv, Budget
    <2>3. ASSUME user.status = "ACTIVE", guesses >= MaxFailed
          PROVE  \E r \in Request : req[r].at = "lock"
      <3>1. Cardinality(Locking) > 0
        BY <1>1, <2>1, <2>3, Sizes DEF IInv, Budget
      <3>2. Locking # {}
        BY <3>1, FS_EmptySet
      <3> QED
        BY <3>2 DEF Locking
    <2> QED
      BY <2>2, <2>3
  <1>2. IInv => GuessBudget
    BY <1>1 DEF GuessBudget
  <1> QED
    BY <1>2, Invariance, PTL
=============================================================================
