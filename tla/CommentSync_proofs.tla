------------------------- MODULE CommentSync_proofs -------------------------
(***************************************************************************)
(* What the store of comments keeps for any comments, threads, dates and   *)
(* workers, whatever runs overlap or die.                                  *)
(***************************************************************************)
EXTENDS CommentSync, FiniteSetTheorems, TLAPS

\* What the label of a run says of its other fields.
LEMMA Shapes ==
    ASSUME NEW r \in Run
    PROVE  /\ r.at \in {"idle", "since", "fetch", "save", "write"}
           /\ r.at = "idle" <=> r = Idle
           /\ r.at = "fetch" => r.since \in Nat
           /\ r.at \in {"save", "write"} =>
                r.todo \subseteq Comment /\ r.saved \in [Comment -> Nat]
           /\ r.at = "write" =>
                r.comment \in Comment /\ r.found \in Nat /\ r.parent \in RowId
  BY DEF Run, Idle

\* A step of a worker leaves the others' runs alone.
Elsewhere(w) == \A v \in Worker \ {w} : run'[v] = run[v]

\* What Find does: it takes up a comment of the list, a row of that comment, or
\* none when there is none, and a row to hang it on.
LEMMA FindStep ==
    ASSUME TypeOK, NEW w \in Worker, Find(w)
    PROVE  /\ run[w].at = "save"
           /\ \E c \in NextSaved(run[w].todo), k \in Nat :
              \E parent \in ParentRows(run[w].saved, c) :
                /\ run'[w] = [at |-> "write", todo |-> run[w].todo,
                              saved |-> run[w].saved, comment |-> c,
                              found |-> k, parent |-> parent]
                /\ k <= Len(rows[c])
                /\ k = 0 => ~Stored(c)
           /\ Elsewhere(w)
           /\ UNCHANGED <<platform, rows, peak, lost>>
<1>a. PICK c \in NextSaved(run[w].todo) :
        \E k \in Found(c) : \E parent \in ParentRows(run[w].saved, c) :
            AwaitWrite(w, c, k, parent)
  BY DEF Find, FindAmong
<1>b. PICK k \in Found(c) :
        \E parent \in ParentRows(run[w].saved, c) : AwaitWrite(w, c, k, parent)
  BY <1>a
<1>1. PICK parent \in ParentRows(run[w].saved, c) : AwaitWrite(w, c, k, parent)
  BY <1>b
<1>2. run[w].at = "save" /\ UNCHANGED <<platform, rows, peak, lost>>
  BY DEF Find, FindAmong
<1>3. c \in Comment
  BY <1>2, Shapes DEF NextSaved, TypeOK
<1>4. k \in Nat /\ k <= Len(rows[c]) /\ (k = 0 => ~Stored(c))
  BY <1>3 DEF Found, Stored, TypeOK
<1>5. Elsewhere(w)
  BY <1>1 DEF AwaitWrite, Elsewhere, TypeOK
<1>6. run'[w] = [at |-> "write", todo |-> run[w].todo,
                 saved |-> run[w].saved, comment |-> c,
                 found |-> k, parent |-> parent]
  BY <1>1 DEF AwaitWrite, TypeOK
<1>7. QED
  BY <1>1, <1>2, <1>4, <1>5, <1>6

\* The row a reply is given exists, or is none.
LEMMA ParentRowsType ==
    ASSUME TypeOK, NEW w \in Worker, Saving(w), NEW c \in Comment,
           NEW row \in ParentRows(run[w].saved, c)
    PROVE  /\ row \in RowId
           /\ c \in TopLevel => row = NoRow
           /\ c \in Replies /\ run[w].saved[ParentOf[c]] # 0 => HangsOn(c, row)
<1>1. CASE c \in TopLevel
  BY <1>1 DEF ParentRows, RowId, Replies
<1>2. CASE c \notin TopLevel
  <2> DEFINE p == ParentOf[c]
  <2>1. p \in Comment
    BY <1>2, CommentAssumption DEF TopLevel
  <2>2. run[w].saved[p] \in Nat /\ run[w].saved[p] <= Len(rows[p])
    BY <2>1, Shapes DEF TypeOK, Saving
  <2>3. Len(rows[p]) \in Nat
    BY <2>1 DEF TypeOK
  <2>4. CASE run[w].saved[p] # 0
    <3>1. row = <<p, run[w].saved[p]>>
      BY <1>2, <2>4 DEF ParentRows
    <3>2. QED
      BY <1>2, <2>1, <2>2, <2>3, <2>4, <3>1 DEF RowId, HangsOn
  <2>5. CASE run[w].saved[p] = 0
    <3>1. PICK k \in Found(p) : row = IF k = 0 THEN NoRow ELSE <<p, k>>
      BY <1>2, <2>5 DEF ParentRows
    <3>2. k \in Nat
      BY <2>3 DEF Found
    <3>3. QED
      BY <1>2, <2>1, <2>5, <3>1, <3>2 DEF RowId
  <2>6. QED
    BY <2>4, <2>5
<1>3. QED
  BY <1>1, <1>2

\* What Update and Create do: the comment has the row afterwards that the run
\* notes, every row that was there still is, and the comment is off the list.
LEMMA WriteStep ==
    ASSUME TypeOK, NEW w \in Worker, Update(w) \/ Create(w)
    PROVE  LET r == run[w] IN
           /\ r.at = "write"
           /\ \E k \in Nat \ {0} :
                /\ k <= Len(rows'[r.comment])
                /\ run'[w] = [at |-> "save", todo |-> r.todo \ {r.comment},
                              saved |-> [r.saved EXCEPT ![r.comment] = k]]
           /\ rows' \in [Comment -> Seq(RowId)]
           /\ \A c \in Comment \ {r.comment} : rows'[c] = rows[c]
           /\ \A c \in Comment : Len(rows[c]) <= Len(rows'[c])
           /\ Len(rows'[r.comment]) =
                IF r.found = 0 THEN Len(rows[r.comment]) + 1
                ELSE Len(rows[r.comment])
           /\ \A k \in 1 .. Len(rows'[r.comment]) :
                \/ rows'[r.comment][k] = r.parent
                \/ /\ k \in 1 .. Len(rows[r.comment])
                   /\ rows'[r.comment][k] = rows[r.comment][k]
           /\ Elsewhere(w)
           /\ UNCHANGED <<platform, peak, lost>>
<1> DEFINE r == run[w]
           c == r.comment
<1>1. r.at = "write" /\ UNCHANGED <<platform, peak, lost>>
  BY DEF Update, Create
<1>2. /\ c \in Comment /\ r.found \in Nat /\ r.parent \in RowId
      /\ r.found <= Len(rows[c])
  BY <1>1, Shapes DEF TypeOK
<1>3. rows[c] \in Seq(RowId) /\ Len(rows[c]) \in Nat
  BY <1>2 DEF TypeOK
<1> DEFINE Written(s, k) ==
             /\ rows' = [rows EXCEPT ![c] = s]
             /\ run' = [run EXCEPT ![w] = [at |-> "save", todo |-> r.todo \ {c},
                                           saved |-> [r.saved EXCEPT ![c] = k]]]
             /\ k <= Len(s)
             /\ Len(s) = IF r.found = 0 THEN Len(rows[c]) + 1 ELSE Len(rows[c])
             /\ \A j \in 1 .. Len(s) :
                  \/ s[j] = r.parent
                  \/ j \in 1 .. Len(rows[c]) /\ s[j] = rows[c][j]
<1>4. ASSUME Update(w)
     PROVE  \E s \in Seq(RowId), k \in Nat \ {0} : Written(s, k)
  <2> DEFINE s == [rows[c] EXCEPT ![r.found] = r.parent]
  <2>1. /\ r.found # 0
        /\ rows' = [rows EXCEPT ![c] = s]
    BY <1>4 DEF Update
  <2>2. /\ s \in Seq(RowId)
        /\ Len(s) = Len(rows[c])
        /\ \A k \in 1 .. Len(rows[c]) :
             s[k] = IF k = r.found THEN r.parent ELSE rows[c][k]
    BY <1>2, <1>3, <2>1
  <2>3. run' = [run EXCEPT ![w] = [at |-> "save", todo |-> r.todo \ {c},
                                   saved |-> [r.saved EXCEPT ![c] = r.found]]]
    BY <1>4 DEF Update, AwaitNext
  <2> HIDE DEF s, c, r
  <2>4. \A j \in 1 .. Len(s) : s[j] = r.parent \/ s[j] = rows[c][j]
    BY <2>2
  <2>5. Written(s, r.found)
    BY <1>2, <1>3, <2>1, <2>2, <2>3, <2>4
  <2> HIDE DEF Written
  <2>6. QED
    BY <1>2, <2>1, <2>2, <2>5
<1>5. ASSUME Create(w)
     PROVE  \E s \in Seq(RowId), k \in Nat \ {0} : Written(s, k)
  <2> DEFINE s == Append(rows[c], r.parent)
  <2>1. r.found = 0 /\ rows' = [rows EXCEPT ![c] = s]
    BY <1>5 DEF Create
  <2>2. /\ s \in Seq(RowId)
        /\ Len(s) = Len(rows[c]) + 1
        /\ \A k \in 1 .. Len(rows[c]) + 1 :
             s[k] = IF k = Len(rows[c]) + 1 THEN r.parent ELSE rows[c][k]
    BY <1>2, <1>3
  <2>3. run' = [run EXCEPT ![w] =
                  [at |-> "save", todo |-> r.todo \ {c},
                   saved |-> [r.saved EXCEPT ![c] = Len(rows[c]) + 1]]]
    BY <1>5 DEF Create, AwaitNext
  <2> HIDE DEF s, c, r
  <2>4. \A j \in 1 .. Len(s) :
          s[j] = r.parent \/ (j \in 1 .. Len(rows[c]) /\ s[j] = rows[c][j])
    BY <1>3, <2>2
  <2>5. Written(s, Len(rows[c]) + 1)
    BY <1>3, <2>1, <2>2, <2>3, <2>4
  <2> HIDE DEF Written
  <2>6. QED
    BY <1>3, <2>2, <2>5
<1> HIDE DEF Written
<1>6. PICK s \in Seq(RowId), k \in Nat \ {0} : Written(s, k)
  BY <1>4, <1>5
<1>7. rows \in [Comment -> Seq(RowId)] /\ run \in [Worker -> Run]
  BY DEF TypeOK
<1>8. /\ rows' \in [Comment -> Seq(RowId)] /\ rows'[c] = s
      /\ \A d \in Comment \ {c} : rows'[d] = rows[d]
  BY <1>2, <1>6, <1>7 DEF Written
<1>9. /\ run'[w] = [at |-> "save", todo |-> r.todo \ {c},
                    saved |-> [r.saved EXCEPT ![c] = k]]
      /\ Elsewhere(w)
  BY <1>6, <1>7 DEF Elsewhere, Written
<1>10. \A d \in Comment : Len(rows[d]) \in Nat
  BY <1>7
<1>11. \A d \in Comment : Len(rows[d]) <= Len(rows'[d])
  BY <1>2, <1>6, <1>8, <1>10 DEF Written
<1>12. /\ k <= Len(rows'[c])
       /\ Len(rows'[c]) = IF r.found = 0 THEN Len(rows[c]) + 1
                          ELSE Len(rows[c])
       /\ \A j \in 1 .. Len(rows'[c]) :
            \/ rows'[c][j] = r.parent
            \/ j \in 1 .. Len(rows[c]) /\ rows'[c][j] = rows[c][j]
  BY <1>6, <1>8 DEF Written
<1>13. QED
  BY <1>1, <1>8, <1>9, <1>11, <1>12

-----------------------------------------------------------------------------
(* Types.                                                                  *)

LEMMA InitType == Init => TypeOK
<1> SUFFICES ASSUME Init PROVE TypeOK
  OBVIOUS
<1>1. now \in 1 .. MaxTime /\ published \in [Comment -> 0 .. MaxTime]
  BY CommentAssumption DEF Init
<1>2. rows \in [Comment -> Seq(RowId)]
  BY DEF Init
<1>3. run \in [Worker -> Run] /\ \A w \in Worker : run[w].at = "idle"
  BY DEF Init, Run, Idle
<1>4. QED
  BY <1>1, <1>2, <1>3 DEF Init, TypeOK, Saving

\* A step that leaves rows alone and moves one run keeps the types, if the
\* run's new record does.
LEMMA MoveType ==
    ASSUME TypeOK, NEW w \in Worker, Elsewhere(w), run' \in [Worker -> Run],
           UNCHANGED <<platform, rows>>, peak' \in Nat,
           lost' \subseteq Comment,
           Saving(w)' => \A c \in Comment : run'[w].saved[c] <= Len(rows[c]),
           run'[w].at = "write" =>
             /\ run'[w].comment \in run'[w].todo
             /\ run'[w].found <= Len(rows[run'[w].comment])
    PROVE  TypeOK'
  BY DEF TypeOK, Elsewhere, Saving, platform

LEMMA NextType == TypeOK /\ [Next]_vars => TypeOK'
<1> SUFFICES ASSUME TypeOK, [Next]_vars PROVE TypeOK'
  OBVIOUS
<1>1. CASE UNCHANGED vars
  BY <1>1 DEF vars, platform, TypeOK, Saving
<1>2. CASE Tick \/ \E c \in Comment : Publish(c)
  <2>1. now' \in 1 .. MaxTime
    BY <1>2, CommentAssumption DEF Tick, Publish, TypeOK
  <2>2. published' \in [Comment -> 0 .. MaxTime]
    <3>1. now \in 0 .. MaxTime /\ published \in [Comment -> 0 .. MaxTime]
      BY CommentAssumption DEF TypeOK
    <3>2. QED
      BY <1>2, <3>1 DEF Tick, Publish
  <2>3. UNCHANGED <<rows, run, peak, lost>>
    BY <1>2 DEF Tick, Publish
  <2>4. QED
    BY <2>1, <2>2, <2>3 DEF TypeOK, Saving
<1>3. ASSUME NEW w \in Worker, Start(w) PROVE TypeOK'
  <2>1. run' \in [Worker -> Run] /\ Elsewhere(w) /\ run'[w].at = "since"
    BY <1>3 DEF Start, TypeOK, Run, Elsewhere
  <2>2. peak' \in Nat
    <3>1. IsFiniteSet(AtWork)
      BY FS_Subset, CommentAssumption DEF AtWork
    <3>2. Cardinality(AtWork) \in Nat
      BY <3>1, FS_CardinalityType
    <3>3. QED
      BY <1>3, <3>2 DEF Start, TypeOK
  <2>3. QED
    BY <1>3, <2>1, <2>2, MoveType DEF Start, TypeOK, Saving
<1>4. ASSUME NEW w \in Worker, ReadNewest(w) PROVE TypeOK'
  <2>1. PICK s \in 0 .. MaxTime : AwaitFetch(w, s)
    BY <1>4 DEF ReadNewest
  <2>2. [at |-> "fetch", since |-> s] \in Run
    BY <2>1, CommentAssumption DEF Run
  <2>3. run' \in [Worker -> Run] /\ Elsewhere(w) /\ run'[w].at = "fetch"
    BY <2>1, <2>2 DEF AwaitFetch, TypeOK, Elsewhere
  <2>4. QED
    BY <1>4, <2>3, MoveType DEF ReadNewest, TypeOK, Saving
<1>5. ASSUME NEW w \in Worker, Fetch(w) PROVE TypeOK'
  <2> DEFINE r == [at |-> "save", todo |-> Returned(run[w].since),
                   saved |-> [c \in Comment |-> 0]]
  <2>1. Returned(run[w].since) \subseteq Comment
    BY DEF Returned, TopLevel, Replies
  <2>2. r \in Run
    BY <2>1 DEF Run
  <2>3. run' \in [Worker -> Run] /\ Elsewhere(w) /\ run'[w] = r
    BY <1>5, <2>2 DEF Fetch, TypeOK, Elsewhere
  <2>4. \A c \in Comment : run'[w].saved[c] <= Len(rows[c])
    BY <2>3 DEF TypeOK
  <2>5. QED
    BY <1>5, <2>3, <2>4, MoveType DEF Fetch, TypeOK
<1>6. ASSUME NEW w \in Worker, Find(w) PROVE TypeOK'
  <2>1. PICK c \in NextSaved(run[w].todo), k \in Nat :
          \E parent \in ParentRows(run[w].saved, c) :
            /\ run'[w] = [at |-> "write", todo |-> run[w].todo,
                          saved |-> run[w].saved, comment |-> c,
                          found |-> k, parent |-> parent]
            /\ k <= Len(rows[c])
    BY <1>6, FindStep
  <2>2. PICK parent \in ParentRows(run[w].saved, c) :
          run'[w] = [at |-> "write", todo |-> run[w].todo,
                     saved |-> run[w].saved, comment |-> c,
                     found |-> k, parent |-> parent]
    BY <2>1
  <2>3. Saving(w) /\ run[w] \in Run
    BY <1>6, FindStep DEF Saving, TypeOK
  <2>4. /\ run[w].todo \subseteq Comment /\ run[w].saved \in [Comment -> Nat]
        /\ c \in Comment /\ c \in run[w].todo
    BY <2>3, Shapes DEF NextSaved, Saving
  <2>5. parent \in RowId
    BY <2>3, <2>4, ParentRowsType
  <2>6. run'[w] \in Run
    BY <2>2, <2>4, <2>5 DEF Run
  <2>7. run' \in [Worker -> Run] /\ Elsewhere(w)
    BY <1>6, <2>6, FindStep DEF Find, FindAmong, AwaitWrite, TypeOK, Elsewhere
  <2>8. \A d \in Comment : run'[w].saved[d] <= Len(rows[d])
    BY <2>2, <2>3 DEF TypeOK
  <2>9. /\ run'[w].comment \in run'[w].todo
        /\ run'[w].found <= Len(rows[run'[w].comment])
    BY <2>1, <2>2, <2>4
  <2>10. QED
    BY <1>6, <2>7, <2>8, <2>9, FindStep, MoveType DEF TypeOK
<1>7. ASSUME NEW w \in Worker, Update(w) \/ Create(w) PROVE TypeOK'
  <2> DEFINE r == run[w]
  <2>1. PICK k \in Nat \ {0} :
          /\ k <= Len(rows'[r.comment])
          /\ run'[w] = [at |-> "save", todo |-> r.todo \ {r.comment},
                        saved |-> [r.saved EXCEPT ![r.comment] = k]]
    BY <1>7, WriteStep
  <2>2. /\ r.at = "write" /\ Elsewhere(w)
        /\ UNCHANGED <<platform, peak, lost>>
        /\ rows' \in [Comment -> Seq(RowId)]
        /\ \A c \in Comment : Len(rows[c]) <= Len(rows'[c])
    BY <1>7, WriteStep
  <2>3. /\ r.todo \subseteq Comment /\ r.saved \in [Comment -> Nat]
        /\ r.comment \in Comment
        /\ \A c \in Comment : r.saved[c] <= Len(rows[c])
    BY <2>2, Shapes DEF TypeOK, Saving
  <2>4. run'[w] \in Run
    BY <2>1, <2>3 DEF Run
  <2>5. run' \in [Worker -> Run]
    BY <1>7, <2>4 DEF Update, Create, AwaitNext, TypeOK
  <2>6. \A c \in Comment : Len(rows[c]) \in Nat /\ Len(rows'[c]) \in Nat
    BY <2>2 DEF TypeOK
  <2>7. /\ run'[w].at = "save"
        /\ \A c \in Comment : run'[w].saved[c] <= Len(rows'[c])
    <3>1. /\ run'[w].at = "save"
          /\ run'[w].saved = [r.saved EXCEPT ![r.comment] = k]
      BY <2>1
    <3>2. run'[w].saved[r.comment] <= Len(rows'[r.comment])
      BY <2>1, <2>3, <3>1
    <3>3. ASSUME NEW c \in Comment, c # r.comment
          PROVE  run'[w].saved[c] <= Len(rows'[c])
      <4>1. run'[w].saved[c] = r.saved[c] /\ r.saved[c] \in Nat
        BY <2>3, <3>1, <3>3
      <4>2. QED
        BY <2>2, <2>3, <2>6, <4>1
    <3>4. QED
      BY <3>1, <3>2, <3>3
  <2>8. ASSUME NEW v \in Worker
        PROVE  /\ Saving(v)' =>
                    \A c \in Comment : run'[v].saved[c] <= Len(rows'[c])
               /\ run'[v].at = "write" =>
                    /\ run'[v].comment \in run'[v].todo
                    /\ run'[v].found <= Len(rows'[run'[v].comment])
    <3>1. CASE v = w
      BY <2>7, <3>1
    <3>2. CASE v # w
      <4>1. run'[v] = run[v] /\ run[v] \in Run
        BY <2>2, <3>2 DEF Elsewhere, TypeOK
      <4>2. Saving(v) => run[v].saved \in [Comment -> Nat]
        BY <4>1, Shapes DEF Saving
      <4>3. run[v].at = "write" =>
              run[v].comment \in Comment /\ run[v].found \in Nat
        BY <4>1, Shapes
      <4>4. QED
        BY <2>2, <2>6, <4>1, <4>2, <4>3 DEF TypeOK, Saving
    <3>3. QED
      BY <3>1, <3>2
  <2>9. QED
    BY <2>2, <2>5, <2>8 DEF TypeOK, platform
<1>8. ASSUME NEW w \in Worker, Finish(w) \/ Abandon(w) PROVE TypeOK'
  <2>0. Idle \in Run /\ Idle.at = "idle"
    BY DEF Run, Idle
  <2>1. run' \in [Worker -> Run] /\ Elsewhere(w) /\ run'[w].at = "idle"
    BY <1>8, <2>0 DEF Finish, Abandon, TypeOK, Elsewhere
  <2>2. Saving(w) => run[w].todo \subseteq Comment
    BY Shapes DEF Saving, TypeOK
  <2>3. lost' \subseteq Comment /\ UNCHANGED <<platform, rows, peak>>
    BY <1>8, <2>2 DEF Finish, Abandon, TypeOK
  <2>4. QED
    BY <2>1, <2>3, MoveType DEF TypeOK, Saving
<1>9. QED
  BY <1>1, <1>2, <1>3, <1>4, <1>5, <1>6, <1>7, <1>8 DEF Next, Continues

\* The shapes hold whatever is published, fetched, stored and abandoned.
THEOREM CommentsTypeCorrect == Spec => []TypeOK
  BY InitType, NextType, PTL DEF Spec

-----------------------------------------------------------------------------
(* Threads.                                                                *)

\* A reply on a run's list comes after its parent: the parent is still on the
\* list, or the run has saved it.
ParentFirst(w) ==
    Saving(w) => \A c \in run[w].todo \cap Replies :
                    \/ ParentOf[c] \in run[w].todo
                    \/ run[w].saved[ParentOf[c]] # 0

\* The row a run is about to hang a comment on is the right one.
WritesRight(w) ==
    run[w].at = "write" => HangsOn(run[w].comment, run[w].parent)

ThreadInv ==
    /\ TypeOK
    /\ ThreadsIntact
    /\ \A w \in Worker : ParentFirst(w) /\ WritesRight(w)

\* Rows are only ever added.
LEMMA HangsKept ==
    ASSUME TypeOK, TypeOK', NEW c \in Comment, NEW row, HangsOn(c, row),
           \A d \in Comment : Len(rows[d]) <= Len(rows'[d])
    PROVE  HangsOn(c, row)'
<1>1. CASE c \in TopLevel
  BY <1>1 DEF HangsOn
<1>2. CASE c \notin TopLevel
  <2> DEFINE p == ParentOf[c]
  <2>1. p \in Comment
    BY <1>2, CommentAssumption DEF TopLevel
  <2>2. PICK n \in 1 .. Len(rows[p]) : row = <<p, n>>
    BY <1>2 DEF HangsOn
  <2>3. Len(rows[p]) \in Nat /\ Len(rows'[p]) \in Nat
    BY <2>1 DEF TypeOK
  <2>4. n \in 1 .. Len(rows'[p])
    BY <2>1, <2>2, <2>3
  <2>5. QED
    BY <1>2, <2>2, <2>4 DEF HangsOn
<1>3. QED
  BY <1>1, <1>2

LEMMA ThreadInit == Init => ThreadInv
<1> SUFFICES ASSUME Init PROVE ThreadInv
  OBVIOUS
<1>1. \A w \in Worker : run[w].at = "idle"
  BY DEF Init, Idle
<1>2. \A c \in Comment : Len(rows[c]) = 0
  BY DEF Init
<1>3. QED
  BY <1>1, <1>2, InitType
     DEF ThreadInv, ThreadsIntact, ParentFirst, WritesRight, Saving

\* A step that leaves the rows alone and moves one run.
LEMMA ThreadMove ==
    ASSUME ThreadInv, TypeOK', NEW w \in Worker, Elsewhere(w), UNCHANGED rows,
           ParentFirst(w)', WritesRight(w)'
    PROVE  ThreadInv'
  BY DEF ThreadInv, Elsewhere, ThreadsIntact, ParentFirst, WritesRight, Saving,
         HangsOn

LEMMA ThreadFind ==
    ASSUME ThreadInv, TypeOK', NEW w \in Worker, Find(w)
    PROVE  ThreadInv'
<1>1. PICK c \in NextSaved(run[w].todo), k \in Nat :
        \E parent \in ParentRows(run[w].saved, c) :
          run'[w] = [at |-> "write", todo |-> run[w].todo,
                     saved |-> run[w].saved, comment |-> c,
                     found |-> k, parent |-> parent]
  BY FindStep DEF ThreadInv
<1>2. PICK parent \in ParentRows(run[w].saved, c) :
        run'[w] = [at |-> "write", todo |-> run[w].todo,
                   saved |-> run[w].saved, comment |-> c,
                   found |-> k, parent |-> parent]
  BY <1>1
<1>3. /\ run[w].at = "save" /\ Saving(w) /\ Elsewhere(w) /\ UNCHANGED rows
      /\ run[w].todo \subseteq Comment
  BY FindStep, Shapes DEF ThreadInv, TypeOK, Saving
<1>4. c \in Comment /\ c \in run[w].todo
  BY <1>3 DEF NextSaved
<1>5. ParentFirst(w)'
  BY <1>2, <1>3 DEF ThreadInv, ParentFirst, Saving
<1>6. HangsOn(c, parent)
  <2>1. CASE c \in TopLevel
    BY <1>3, <1>4, <2>1, ParentRowsType DEF HangsOn, ThreadInv
  <2>2. CASE c \notin TopLevel
    <3>1. c \in Replies /\ ParentOf[c] \in TopLevel
      BY <1>4, <2>2, CommentAssumption DEF Replies, TopLevel
    <3>2. ParentOf[c] \notin run[w].todo
      BY <2>2, <3>1 DEF NextSaved
    <3>3. run[w].saved[ParentOf[c]] # 0
      BY <1>3, <1>4, <3>1, <3>2 DEF ThreadInv, ParentFirst
    <3>4. QED
      BY <1>3, <1>4, <3>1, <3>3, ParentRowsType DEF ThreadInv
  <2>3. QED
    BY <2>1, <2>2
<1>7. WritesRight(w)'
  BY <1>2, <1>3, <1>6 DEF WritesRight, HangsOn
<1>8. QED
  BY <1>3, <1>5, <1>7, ThreadMove

LEMMA ThreadWrite ==
    ASSUME ThreadInv, TypeOK', NEW w \in Worker, Update(w) \/ Create(w)
    PROVE  ThreadInv'
<1> DEFINE r == run[w]
<1>1. TypeOK
  BY DEF ThreadInv
<1>2. /\ r.at = "write" /\ Elsewhere(w)
      /\ \A c \in Comment \ {r.comment} : rows'[c] = rows[c]
      /\ \A c \in Comment : Len(rows[c]) <= Len(rows'[c])
      /\ \A k \in 1 .. Len(rows'[r.comment]) :
           \/ rows'[r.comment][k] = r.parent
           \/ /\ k \in 1 .. Len(rows[r.comment])
              /\ rows'[r.comment][k] = rows[r.comment][k]
  BY <1>1, WriteStep
<1>3. PICK k \in Nat \ {0} :
        run'[w] = [at |-> "save", todo |-> r.todo \ {r.comment},
                   saved |-> [r.saved EXCEPT ![r.comment] = k]]
  BY <1>1, WriteStep
<1>4. /\ r.todo \subseteq Comment /\ r.saved \in [Comment -> Nat]
      /\ r.comment \in Comment
  BY <1>1, <1>2, Shapes DEF TypeOK
<1>5. ASSUME NEW c \in Comment, NEW row, HangsOn(c, row)
      PROVE  HangsOn(c, row)'
  BY <1>1, <1>2, <1>5, HangsKept
<1>6. HangsOn(r.comment, r.parent)
  BY <1>2 DEF ThreadInv, WritesRight
<1>7. ThreadsIntact'
  <2>1. ASSUME NEW c \in Comment, NEW j \in 1 .. Len(rows'[c])
        PROVE  HangsOn(c, rows[c][j])'
    <3>1. PICK row : row = rows'[c][j]
      OBVIOUS
    <3>2. HangsOn(c, row)
      <4>1. CASE c = r.comment
        BY <1>2, <1>6, <3>1, <4>1 DEF ThreadInv, ThreadsIntact
      <4>2. CASE c # r.comment
        BY <1>2, <3>1, <4>2 DEF ThreadInv, ThreadsIntact
      <4>3. QED
        BY <4>1, <4>2
    <3>3. HangsOn(c, row)'
      BY <1>5, <3>2
    <3>4. QED
      BY <3>1, <3>3 DEF HangsOn
  <2>2. QED
    BY <2>1 DEF ThreadsIntact
<1>8. ASSUME NEW v \in Worker PROVE ParentFirst(v)' /\ WritesRight(v)'
  <2>1. CASE v = w
    <3>1. /\ run'[w].at = "save" /\ run'[w].todo = r.todo \ {r.comment}
          /\ run'[w].saved = [r.saved EXCEPT ![r.comment] = k]
      BY <1>3
    <3>2. \A c \in r.todo \cap Replies :
            ParentOf[c] \in Comment /\ (ParentOf[c] \in r.todo
                                          \/ r.saved[ParentOf[c]] # 0)
      BY <1>2, <1>4, CommentAssumption
         DEF ThreadInv, ParentFirst, Saving, Replies, TopLevel
    <3>3. QED
      BY <1>4, <2>1, <3>1, <3>2 DEF ParentFirst, WritesRight, Saving
  <2>2. CASE v # w
    <3>1. run'[v] = run[v] /\ run[v] \in Run
      BY <1>1, <1>2, <2>2 DEF Elsewhere, TypeOK
    <3>2. ParentFirst(v)'
      BY <3>1 DEF ThreadInv, ParentFirst, Saving
    <3>3. run[v].at = "write" => run[v].comment \in Comment
      BY <3>1, Shapes
    <3>4. WritesRight(v)'
      BY <1>5, <3>1, <3>3 DEF ThreadInv, WritesRight
    <3>5. QED
      BY <3>2, <3>4
  <2>3. QED
    BY <2>1, <2>2
<1>9. QED
  BY <1>7, <1>8 DEF ThreadInv

LEMMA ThreadNext == ThreadInv /\ [Next]_vars => ThreadInv'
<1> SUFFICES ASSUME ThreadInv, [Next]_vars PROVE ThreadInv'
  OBVIOUS
<1>1. TypeOK /\ TypeOK'
  BY NextType DEF ThreadInv
<1>2. CASE UNCHANGED vars \/ Tick \/ \E c \in Comment : Publish(c)
  <2>1. UNCHANGED <<rows, run>>
    BY <1>2 DEF vars, Tick, Publish
  <2>2. QED
    BY <1>1, <2>1 DEF ThreadInv, ThreadsIntact, ParentFirst, WritesRight,
                      Saving, HangsOn
<1>3. ASSUME NEW w \in Worker,
             Start(w) \/ ReadNewest(w) \/ Finish(w) \/ Abandon(w)
      PROVE  ThreadInv'
  <2>1. /\ Elsewhere(w) /\ UNCHANGED rows
        /\ run'[w].at \in {"since", "fetch", "idle"}
    BY <1>1, <1>3 DEF Start, ReadNewest, AwaitFetch, Finish, Abandon, Idle,
                      TypeOK, Elsewhere
  <2>2. QED
    BY <1>1, <2>1, ThreadMove DEF ParentFirst, WritesRight, Saving
<1>4. ASSUME NEW w \in Worker, Fetch(w) PROVE ThreadInv'
  <2>1. /\ Elsewhere(w) /\ UNCHANGED rows
        /\ run'[w].at = "save" /\ run'[w].todo = Returned(run[w].since)
    BY <1>1, <1>4 DEF Fetch, TypeOK, Elsewhere
  <2>2. \A c \in Returned(run[w].since) \cap Replies :
          ParentOf[c] \in Returned(run[w].since)
    BY DEF Returned, Replies
  <2>3. QED
    BY <1>1, <2>1, <2>2, ThreadMove DEF ParentFirst, WritesRight
<1>5. QED
  BY <1>1, <1>2, <1>3, <1>4, ThreadFind, ThreadWrite DEF Next, Continues

\* A stored reply hangs on a row of the comment it answers, whatever runs
\* overlap or die: persistComments saves top-level comments first.
THEOREM RepliesHang == Spec => []ThreadsIntact
<1>1. ThreadInv => ThreadsIntact
  BY DEF ThreadInv
<1>2. QED
  BY <1>1, ThreadInit, ThreadNext, PTL DEF Spec

-----------------------------------------------------------------------------
(* The rows of a comment.                                                  *)

\* The runs about to create a row for a comment.
Creating(c) == {w \in Worker : /\ run[w].at = "write" /\ run[w].found = 0
                               /\ run[w].comment = c}

\* What is stored of a comment and what is about to be created stay within peak:
\* a run creates only what it found missing, and then the rows about to be created
\* are all there are.
PeakInv ==
    /\ TypeOK
    /\ Cardinality(AtWork) <= peak
    /\ \A c \in Comment : Len(rows[c]) + Cardinality(Creating(c)) <= peak

LEMMA Smaller ==
    ASSUME NEW T \in SUBSET Worker, NEW S \in SUBSET T
    PROVE  /\ Cardinality(S) \in Nat /\ Cardinality(T) \in Nat
           /\ Cardinality(S) <= Cardinality(T)
<1>1. IsFiniteSet(T)
  BY FS_Subset, CommentAssumption
<1>2. IsFiniteSet(S) /\ Cardinality(S) <= Cardinality(T)
  BY <1>1, FS_Subset
<1>3. QED
  BY <1>1, <1>2, FS_CardinalityType

LEMMA Lengths == ASSUME TypeOK PROVE \A c \in Comment : Len(rows[c]) \in Nat
  BY DEF TypeOK

LEMMA PeakInit == Init => PeakInv
<1> SUFFICES ASSUME Init PROVE PeakInv
  OBVIOUS
<1>1. AtWork = {} /\ \A c \in Comment : Creating(c) = {} /\ Len(rows[c]) = 0
  BY DEF Init, AtWork, Creating, Idle
<1>2. QED
  BY <1>1, InitType, FS_EmptySet DEF PeakInv, Init

\* A step that adds no row and no run that will create one.
LEMMA PeakMove ==
    ASSUME PeakInv, TypeOK', UNCHANGED <<rows, peak>>,
           AtWork' \subseteq AtWork,
           \A c \in Comment : Creating(c)' \subseteq Creating(c)
    PROVE  PeakInv'
<1>1. Cardinality(AtWork)' <= peak'
  <2>1. Cardinality(AtWork') <= Cardinality(AtWork)
    BY Smaller DEF AtWork
  <2>2. Cardinality(AtWork') \in Nat /\ Cardinality(AtWork) \in Nat /\ peak \in Nat
    BY Smaller DEF AtWork, PeakInv, TypeOK
  <2>3. QED
    BY <2>1, <2>2 DEF PeakInv
<1>2. ASSUME NEW c \in Comment
      PROVE  Len(rows'[c]) + Cardinality(Creating(c)') <= peak'
  <2>1. /\ Cardinality(Creating(c)') <= Cardinality(Creating(c))
        /\ Cardinality(Creating(c)') \in Nat /\ Cardinality(Creating(c)) \in Nat
    BY Smaller DEF Creating
  <2>2. Len(rows[c]) \in Nat /\ peak \in Nat
    BY Lengths DEF PeakInv, TypeOK
  <2>3. Len(rows[c]) + Cardinality(Creating(c)) <= peak
    BY DEF PeakInv
  <2>4. QED
    BY <2>1, <2>2, <2>3
<1>3. QED
  BY <1>1, <1>2 DEF PeakInv

\* A run at work that goes on to anything but a creation.
LEMMA PeakRun ==
    ASSUME PeakInv, TypeOK', UNCHANGED <<rows, peak>>,
           NEW w \in Worker, Elsewhere(w), run[w] # Idle,
           run'[w].at = "write" => run'[w].found # 0
    PROVE  PeakInv'
<1>1. AtWork' \subseteq AtWork
  BY DEF AtWork, Elsewhere
<1>2. \A c \in Comment : Creating(c)' \subseteq Creating(c)
  BY DEF Creating, Elsewhere
<1>3. QED
  BY <1>1, <1>2, PeakMove

LEMMA PeakStart ==
    ASSUME PeakInv, TypeOK', NEW w \in Worker, Start(w) PROVE PeakInv'
<1> DEFINE n == Cardinality(AtWork)
<1>1. /\ Elsewhere(w) /\ UNCHANGED rows /\ run'[w].at = "since" /\ run[w] = Idle
      /\ peak' = IF peak > n THEN peak ELSE n + 1
  BY DEF Start, PeakInv, TypeOK, Elsewhere
<1>2. n \in Nat /\ peak \in Nat /\ n <= peak
  BY Smaller DEF AtWork, PeakInv, TypeOK
<1>3. peak' \in Nat /\ n + 1 <= peak' /\ peak <= peak'
  BY <1>1, <1>2
<1>4. Cardinality(AtWork') <= n + 1 /\ Cardinality(AtWork') \in Nat
  <2>1. AtWork' \subseteq AtWork \cup {w} /\ w \notin AtWork
    BY <1>1 DEF AtWork, Elsewhere
  <2>2. IsFiniteSet(AtWork)
    BY FS_Subset, CommentAssumption DEF AtWork
  <2>3. Cardinality(AtWork \cup {w}) = n + 1
    BY <2>1, <2>2, FS_AddElement
  <2>4. AtWork \cup {w} \in SUBSET Worker
    BY DEF AtWork
  <2>5. QED
    BY <2>1, <2>3, <2>4, Smaller
<1>5. ASSUME NEW c \in Comment
      PROVE  Len(rows'[c]) + Cardinality(Creating(c)') <= peak'
  <2>1. Creating(c)' \subseteq Creating(c)
    BY <1>1 DEF Creating, Elsewhere
  <2>2. /\ Cardinality(Creating(c)') <= Cardinality(Creating(c))
        /\ Cardinality(Creating(c)') \in Nat /\ Cardinality(Creating(c)) \in Nat
    BY <2>1, Smaller DEF Creating
  <2>3. /\ Len(rows[c]) \in Nat /\ rows' = rows
        /\ Len(rows[c]) + Cardinality(Creating(c)) <= peak
    BY <1>1, Lengths DEF PeakInv
  <2>4. QED
    BY <1>2, <1>3, <2>2, <2>3
<1>6. QED
  BY <1>2, <1>3, <1>4, <1>5 DEF PeakInv

LEMMA PeakFind ==
    ASSUME PeakInv, TypeOK', NEW w \in Worker, Find(w) PROVE PeakInv'
<1>1. TypeOK
  BY DEF PeakInv
<1>2. /\ run[w].at = "save" /\ run[w] # Idle /\ Elsewhere(w)
      /\ UNCHANGED <<rows, peak>>
  BY <1>1, FindStep DEF Idle
<1>3. PICK c \in NextSaved(run[w].todo), k \in Nat :
        /\ run'[w].at = "write" /\ run'[w].comment = c /\ run'[w].found = k
        /\ k = 0 => ~Stored(c)
  <2>1. PICK c \in NextSaved(run[w].todo), k \in Nat :
          \E parent \in ParentRows(run[w].saved, c) :
            /\ run'[w] = [at |-> "write", todo |-> run[w].todo,
                          saved |-> run[w].saved, comment |-> c,
                          found |-> k, parent |-> parent]
            /\ k = 0 => ~Stored(c)
    BY <1>1, FindStep
  <2>2. QED
    BY <2>1
<1>4. CASE k # 0
  BY <1>2, <1>3, <1>4, PeakRun
<1>5. CASE k = 0
  <2>1. AtWork' \subseteq AtWork
    BY <1>2 DEF AtWork, Elsewhere
  <2>2. Cardinality(AtWork)' <= peak'
    <3>1. Cardinality(AtWork') <= Cardinality(AtWork)
      BY <2>1, Smaller DEF AtWork
    <3>2. Cardinality(AtWork') \in Nat /\ Cardinality(AtWork) \in Nat /\ peak \in Nat
      BY <1>1, Smaller DEF AtWork, TypeOK
    <3>3. QED
      BY <1>2, <3>1, <3>2 DEF PeakInv
  <2>3. ASSUME NEW d \in Comment
        PROVE  Len(rows'[d]) + Cardinality(Creating(d)') <= peak'
    <3>1. Len(rows[d]) \in Nat /\ peak \in Nat /\ Len(rows[d]) + Cardinality(Creating(d)) <= peak
      BY <1>1, Lengths DEF PeakInv, TypeOK
    <3>2. CASE d = c
      <4>1. Len(rows[d]) = 0
        BY <1>3, <1>5, <3>1, <3>2 DEF Stored
      <4>2. Creating(d)' \subseteq AtWork'
        BY DEF Creating, AtWork, Idle
      <4>3. /\ Cardinality(Creating(d)') <= Cardinality(AtWork')
            /\ Cardinality(Creating(d)') \in Nat /\ Cardinality(AtWork') \in Nat
        BY <4>2, Smaller DEF AtWork
      <4>4. QED
        BY <1>2, <2>2, <3>1, <4>1, <4>3
    <3>3. CASE d # c
      <4>1. Creating(d)' \subseteq Creating(d)
        BY <1>2, <1>3, <3>3 DEF Creating, Elsewhere
      <4>2. /\ Cardinality(Creating(d)') <= Cardinality(Creating(d))
            /\ Cardinality(Creating(d)') \in Nat /\ Cardinality(Creating(d)) \in Nat
        BY <4>1, Smaller DEF Creating
      <4>3. QED
        BY <1>2, <3>1, <4>2
    <3>4. QED
      BY <3>2, <3>3
  <2>4. QED
    BY <2>2, <2>3 DEF PeakInv
<1>6. QED
  BY <1>4, <1>5

LEMMA PeakWrite ==
    ASSUME PeakInv, TypeOK', NEW w \in Worker, Update(w) \/ Create(w) PROVE PeakInv'
<1> DEFINE r == run[w]
<1>1. TypeOK
  BY DEF PeakInv
<1>2. /\ r.at = "write" /\ r # Idle /\ Elsewhere(w) /\ UNCHANGED peak
      /\ \A c \in Comment \ {r.comment} : rows'[c] = rows[c]
      /\ Len(rows'[r.comment]) =
           IF r.found = 0 THEN Len(rows[r.comment]) + 1
           ELSE Len(rows[r.comment])
  BY <1>1, WriteStep DEF Idle
<1>3. run'[w].at = "save"
  <2>1. PICK k \in Nat \ {0} :
          run'[w] = [at |-> "save", todo |-> r.todo \ {r.comment},
                     saved |-> [r.saved EXCEPT ![r.comment] = k]]
    BY <1>1, WriteStep
  <2>2. QED
    BY <2>1
<1>4. AtWork' \subseteq AtWork
  BY <1>2 DEF AtWork, Elsewhere
<1>5. Cardinality(AtWork)' <= peak'
  <2>1. Cardinality(AtWork') <= Cardinality(AtWork)
    BY <1>4, Smaller DEF AtWork
  <2>2. Cardinality(AtWork') \in Nat /\ Cardinality(AtWork) \in Nat /\ peak \in Nat
    BY <1>1, <1>4, Smaller DEF AtWork, TypeOK
  <2>3. QED
    BY <1>2, <2>1, <2>2 DEF PeakInv
<1>6. ASSUME NEW c \in Comment
      PROVE  Len(rows'[c]) + Cardinality(Creating(c)') <= peak'
  <2>1. Len(rows[c]) \in Nat /\ peak \in Nat /\ Len(rows[c]) + Cardinality(Creating(c)) <= peak
    BY <1>1, Lengths DEF PeakInv, TypeOK
  <2>2. Creating(c)' \subseteq Creating(c) \ {w}
    BY <1>2, <1>3 DEF Creating, Elsewhere
  <2>3. IsFiniteSet(Creating(c))
    BY FS_Subset, CommentAssumption DEF Creating
  <2>4. CASE c = r.comment /\ r.found = 0
    <3>1. w \in Creating(c)
      BY <1>2, <2>4 DEF Creating
    <3>2. Cardinality(Creating(c) \ {w}) = Cardinality(Creating(c)) - 1
      BY <2>3, <3>1, FS_RemoveElement
    <3>3. /\ Cardinality(Creating(c)') <= Cardinality(Creating(c) \ {w})
          /\ Cardinality(Creating(c)') \in Nat
          /\ Cardinality(Creating(c)) \in Nat
      BY <2>2, Smaller DEF Creating
    <3>4. Len(rows'[c]) = Len(rows[c]) + 1
      BY <1>2, <2>4
    <3> HIDE DEF r
    <3>5. QED
      BY <1>2, <2>1, <3>2, <3>3, <3>4
  <2>5. CASE ~(c = r.comment /\ r.found = 0)
    <3>1. /\ Cardinality(Creating(c)') <= Cardinality(Creating(c))
          /\ Cardinality(Creating(c)') \in Nat /\ Cardinality(Creating(c)) \in Nat
      BY <2>2, Smaller DEF Creating
    <3>2. Len(rows'[c]) = Len(rows[c])
      BY <1>2, <2>5
    <3> HIDE DEF r
    <3>3. QED
      BY <1>2, <2>1, <3>1, <3>2
  <2>6. QED
    BY <2>4, <2>5
<1>7. QED
  BY <1>5, <1>6 DEF PeakInv

LEMMA PeakNext == PeakInv /\ [Next]_vars => PeakInv'
<1> SUFFICES ASSUME PeakInv, [Next]_vars PROVE PeakInv'
  OBVIOUS
<1>1. TypeOK /\ TypeOK'
  BY NextType DEF PeakInv
<1>2. CASE UNCHANGED vars \/ Tick \/ \E c \in Comment : Publish(c)
  <2>1. UNCHANGED <<rows, run, peak>>
    BY <1>2 DEF vars, Tick, Publish
  <2>2. AtWork' = AtWork /\ \A c \in Comment : Creating(c)' = Creating(c)
    BY <2>1 DEF AtWork, Creating
  <2>3. QED
    BY <1>1, <2>1, <2>2, PeakMove
<1>3. ASSUME NEW w \in Worker,
             ReadNewest(w) \/ Fetch(w) \/ Finish(w) \/ Abandon(w)
      PROVE  PeakInv'
  <2>1. /\ Elsewhere(w) /\ UNCHANGED <<rows, peak>>
        /\ run[w] # Idle /\ run'[w].at # "write"
    BY <1>1, <1>3 DEF ReadNewest, AwaitFetch, Fetch, Finish, Abandon, Idle, TypeOK,
                      Elsewhere
  <2>2. QED
    BY <1>1, <2>1, PeakRun
<1>4. QED
  BY <1>1, <1>2, <1>3, PeakStart, PeakFind, PeakWrite DEF Next, Continues

\* A comment has no more rows than polls of its post were ever at work at once,
\* although saveComment looks first and creates later, and however many polls die
\* halfway and are repeated.
THEOREM RowsBounded == Spec => []RowsWithinPeak
<1>1. PeakInv => RowsWithinPeak
  <2> SUFFICES ASSUME PeakInv, NEW c \in Comment PROVE Len(rows[c]) <= peak
    BY DEF RowsWithinPeak
  <2>1. Cardinality(Creating(c)) \in Nat
    BY Smaller DEF Creating
  <2>2. Len(rows[c]) \in Nat /\ peak \in Nat
    BY Lengths DEF PeakInv, TypeOK
  <2>3. QED
    BY <2>1, <2>2 DEF PeakInv
<1>2. QED
  BY <1>1, PeakInit, PeakNext, PTL DEF Spec

-----------------------------------------------------------------------------
(* The cursor.                                                             *)

\* No comment older than t is passed over for good.
NoneBefore(t) ==
    \A c \in TopLevel \cap Dated :
        Visible(c) /\ published[c] < t => CaredFor(c) \/ Twin(c)

\* What is stored or on a list has been published, and not in the future.
OnlyPublished ==
    /\ \A c \in Comment : published[c] <= now /\ (Stored(c) => Visible(c))
    /\ \A w \in Worker : Saving(w) => \A c \in run[w].todo : Visible(c)

\* A cursor is the date of a stored comment.
CursorStored(w) ==
    run[w].at = "fetch" /\ run[w].since # 0 =>
        \E e \in Dated : Stored(e) /\ published[e] = run[w].since

\* No comment older than one on a run's list is passed over either.
ListSkipsNone(w) ==
    Saving(w) => \A d \in run[w].todo \cap Dated : NoneBefore(published[d])

CursorInv ==
    /\ TypeOK
    /\ CursorSkipsNone
    /\ OnlyPublished
    /\ \A w \in Worker : CursorStored(w) /\ ListSkipsNone(w)

LEMMA CursorInit == Init => CursorInv
<1> SUFFICES ASSUME Init PROVE CursorInv
  OBVIOUS
<1>1. \A w \in Worker : run[w].at = "idle"
  BY DEF Init, Idle
<1>2. \A c \in Comment : Len(rows[c]) = 0 /\ published[c] = 0 /\ now = 1
  BY DEF Init
<1>3. TypeOK
  BY InitType
<1>4. CursorSkipsNone /\ OnlyPublished
  BY <1>1, <1>2 DEF CursorSkipsNone, OnlyPublished, Stored, Dated, Visible,
                    TopLevel, Saving
<1>5. QED
  BY <1>1, <1>3, <1>4 DEF CursorInv, CursorStored, ListSkipsNone, Saving

\* Rows are only added and dates never change.
LEMMA Monotone ==
    ASSUME TypeOK, TypeOK', [Next]_vars
    PROVE  /\ \A c \in Comment : Stored(c) => Stored(c)'
           /\ \A c \in Comment : Visible(c) => published'[c] = published[c]
           /\ lost \subseteq lost'
<1>1. CASE UNCHANGED vars \/ Tick
  BY <1>1 DEF vars, platform, Tick, Stored
<1>2. ASSUME NEW d \in Comment, Publish(d)
      PROVE  /\ UNCHANGED <<rows, lost>>
             /\ \A c \in Comment : Visible(c) => published'[c] = published[c]
  BY <1>2 DEF Publish, TypeOK
<1>3. ASSUME NEW w \in Worker, Update(w) \/ Create(w)
      PROVE  /\ UNCHANGED <<platform, lost>>
             /\ \A c \in Comment : Stored(c) => Stored(c)'
  <2>1. /\ UNCHANGED <<platform, lost>>
        /\ \A c \in Comment : Len(rows[c]) <= Len(rows'[c])
    BY <1>3, WriteStep
  <2>2. \A c \in Comment : Len(rows[c]) \in Nat /\ Len(rows'[c]) \in Nat
    BY DEF TypeOK
  <2>3. QED
    BY <2>1, <2>2 DEF Stored
<1>4. ASSUME NEW w \in Worker, Start(w) \/ ReadNewest(w) \/ Fetch(w) \/ Find(w)
                               \/ Finish(w) \/ Abandon(w)
      PROVE  UNCHANGED <<platform, rows>> /\ lost \subseteq lost'
  BY <1>4 DEF Start, ReadNewest, Fetch, Find, FindAmong, Finish, Abandon
<1>5. QED
  BY <1>1, <1>2, <1>3, <1>4 DEF Next, Continues, platform, Stored

\* Once a comment is cared for, or has a twin, it stays so: what leaves a list
\* is stored then, or lost.
LEMMA CareKept ==
    ASSUME TypeOK, TypeOK', [Next]_vars, NEW c \in Comment, Visible(c),
           CaredFor(c) \/ Twin(c)
    PROVE  CaredFor(c)' \/ Twin(c)'
<1>1. CASE Twin(c)
  <2>1. PICK e \in Dated : Stored(e) /\ published[e] = published[c]
    BY <1>1 DEF Twin
  <2>2. e \in Comment /\ Visible(e)
    BY <2>1 DEF Dated, Visible
  <2>3. Stored(e)' /\ published'[e] = published'[c]
    BY <2>1, <2>2, Monotone
  <2>4. QED
    BY <2>3 DEF Twin
<1>2. CASE Stored(c) \/ c \in lost
  BY <1>2, Monotone DEF CaredFor
<1>3. ASSUME NEW w \in Worker, Saving(w), c \in run[w].todo
      PROVE  CaredFor(c)'
  <2>1. CASE run'[w] = run[w]
    BY <1>3, <2>1 DEF CaredFor, Saving
  <2>2. CASE Update(w) \/ Create(w)
    <3> DEFINE r == run[w]
    <3>1. PICK k \in Nat \ {0} :
            /\ k <= Len(rows'[r.comment])
            /\ run'[w] = [at |-> "save", todo |-> r.todo \ {r.comment},
                          saved |-> [r.saved EXCEPT ![r.comment] = k]]
      BY <2>2, WriteStep
    <3>2. CASE c = r.comment
      <4>1. Len(rows'[c]) \in Nat
        BY DEF TypeOK
      <4>2. Stored(c)'
        BY <3>1, <3>2, <4>1 DEF Stored
      <4>3. QED
        BY <4>2 DEF CaredFor
    <3>3. CASE c # r.comment
      <4>1. run'[w].at = "save" /\ c \in run'[w].todo
        BY <1>3, <3>1, <3>3
      <4>2. QED
        BY <4>1 DEF CaredFor, Saving
    <3>4. QED
      BY <3>2, <3>3
  <2>3. CASE Find(w)
    <3>1. run'[w].at = "write" /\ run'[w].todo = run[w].todo
      <4>1. PICK d \in NextSaved(run[w].todo), k \in Nat :
              \E parent \in ParentRows(run[w].saved, d) :
                run'[w] = [at |-> "write", todo |-> run[w].todo,
                           saved |-> run[w].saved, comment |-> d,
                           found |-> k, parent |-> parent]
        BY <2>3, FindStep
      <4>2. QED
        BY <4>1
    <3>2. QED
      BY <1>3, <3>1 DEF CaredFor, Saving
  <2>4. CASE Abandon(w)
    BY <1>3, <2>4 DEF Abandon, CaredFor
  <2>5. ~Start(w) /\ ~ReadNewest(w) /\ ~Fetch(w) /\ ~Finish(w)
    BY <1>3 DEF Start, ReadNewest, Fetch, Finish, Saving, Idle
  <2>6. ASSUME NEW v \in Worker, v # w, Start(v) \/ Continues(v) \/ Abandon(v)
        PROVE  run'[w] = run[w]
    BY <2>6, FindStep, WriteStep
       DEF Start, Continues, Abandon, ReadNewest, AwaitFetch, Fetch, Finish,
           TypeOK, Elsewhere
  <2>7. CASE UNCHANGED vars \/ Tick \/ \E d \in Comment : Publish(d)
    BY <2>1, <2>7 DEF vars, Tick, Publish
  <2>8. QED
    BY <2>1, <2>2, <2>3, <2>4, <2>5, <2>6, <2>7 DEF Next, Continues
<1>4. QED
  BY <1>1, <1>2, <1>3 DEF CaredFor

\* So is everybody older than t, if whoever is published now is not.
LEMMA NoneBeforeKept ==
    ASSUME TypeOK, TypeOK', [Next]_vars, OnlyPublished, NEW t \in Nat,
           t <= now, NoneBefore(t)
    PROVE  NoneBefore(t)'
<1> SUFFICES ASSUME NEW c \in TopLevel \cap Dated, Visible(c)',
                    published'[c] < t
             PROVE  CaredFor(c)' \/ Twin(c)'
  BY DEF NoneBefore
<1>1. c \in Comment
  BY DEF TopLevel
<1>2. CASE Visible(c)
  <2>1. published'[c] = published[c]
    BY <1>1, <1>2, Monotone
  <2>2. CaredFor(c) \/ Twin(c)
    BY <1>2, <2>1 DEF NoneBefore
  <2>3. QED
    BY <1>1, <1>2, <2>2, CareKept
<1>3. CASE ~Visible(c)
  <2>1. published'[c] # published[c]
    BY <1>3 DEF Visible
  <2>2. Publish(c)
    <3>1. CASE UNCHANGED vars \/ Tick
      BY <2>1, <3>1 DEF vars, platform, Tick
    <3>2. ASSUME NEW d \in Comment, Publish(d) PROVE d = c
      BY <1>1, <2>1, <3>2 DEF Publish, TypeOK
    <3>3. ASSUME NEW w \in Worker, Start(w) \/ Continues(w) \/ Abandon(w)
          PROVE  FALSE
      BY <2>1, <3>3 DEF Start, Continues, Abandon, ReadNewest, Fetch, Find,
                        FindAmong, Update, Create, Finish, platform
    <3>4. QED
      BY <3>1, <3>2, <3>3 DEF Next
  <2>3. published'[c] = now /\ now \in Nat
    BY <1>1, <2>2 DEF Publish, TypeOK
  <2>4. QED
    BY <2>3
<1>4. QED
  BY <1>2, <1>3

\* A list is what was fetched, or what is left of an earlier list.
LEMMA ListStep ==
    ASSUME TypeOK, TypeOK', [Next]_vars, NEW w \in Worker, Saving(w)'
    PROVE  Fetch(w) \/ (Saving(w) /\ run'[w].todo \subseteq run[w].todo)
<1>1. CASE run'[w] = run[w]
  BY <1>1 DEF Saving
<1>2. CASE Find(w)
  <2>1. PICK c \in NextSaved(run[w].todo), k \in Nat :
          \E parent \in ParentRows(run[w].saved, c) :
            run'[w] = [at |-> "write", todo |-> run[w].todo,
                       saved |-> run[w].saved, comment |-> c,
                       found |-> k, parent |-> parent]
    BY <1>2, FindStep
  <2>2. QED
    BY <1>2, <2>1, FindStep DEF Saving
<1>3. CASE Update(w) \/ Create(w)
  <2>1. PICK k \in Nat \ {0} :
          run'[w] = [at |-> "save", todo |-> run[w].todo \ {run[w].comment},
                     saved |-> [run[w].saved EXCEPT ![run[w].comment] = k]]
    BY <1>3, WriteStep
  <2>2. QED
    BY <1>3, <2>1, WriteStep DEF Saving
<1>4. CASE Start(w) \/ ReadNewest(w) \/ Finish(w) \/ Abandon(w)
  <2>1. run'[w].at \in {"since", "fetch", "idle"}
    BY <1>4 DEF Start, ReadNewest, AwaitFetch, Finish, Abandon, Idle, TypeOK
  <2>2. QED
    BY <2>1 DEF Saving
<1>5. ASSUME NEW v \in Worker, v # w, Start(v) \/ Continues(v) \/ Abandon(v)
      PROVE  run'[w] = run[w]
  BY <1>5, FindStep, WriteStep
     DEF Start, Continues, Abandon, ReadNewest, AwaitFetch, Fetch, Finish,
         TypeOK, Elsewhere
<1>6. CASE UNCHANGED vars \/ Tick \/ \E c \in Comment : Publish(c)
  BY <1>1, <1>6 DEF vars, Tick, Publish
<1>7. QED
  BY <1>1, <1>2, <1>3, <1>4, <1>5, <1>6 DEF Next, Continues

\* A comment is stored from a list.
LEMMA StoreStep ==
    ASSUME TypeOK, TypeOK', [Next]_vars, NEW c \in Comment, Stored(c)'
    PROVE  Stored(c) \/ \E w \in Worker : Saving(w) /\ c \in run[w].todo
<1>1. ASSUME NEW w \in Worker, Update(w) \/ Create(w), c # run[w].comment
      PROVE  Stored(c)
  BY <1>1, WriteStep DEF Stored
<1>2. ASSUME NEW w \in Worker, Update(w) \/ Create(w), c = run[w].comment
      PROVE  Saving(w) /\ c \in run[w].todo
  BY <1>2, WriteStep DEF TypeOK, Saving
<1>3. CASE \A w \in Worker : ~Update(w) /\ ~Create(w)
  <2>1. UNCHANGED rows
    BY <1>3 DEF Next, Continues, Tick, Publish, Start, ReadNewest, Fetch,
                Find, FindAmong, Finish, Abandon, vars
  <2>2. QED
    BY <2>1 DEF Stored
<1>4. QED
  BY <1>1, <1>2, <1>3

LEMMA PublishedNext == CursorInv /\ [Next]_vars => OnlyPublished'
<1> SUFFICES ASSUME CursorInv, [Next]_vars PROVE OnlyPublished'
  OBVIOUS
<1>1. TypeOK /\ TypeOK' /\ OnlyPublished
  BY NextType DEF CursorInv
<1>2. now \in Nat /\ now' \in Nat /\ \A c \in Comment : published[c] \in Nat
  BY <1>1 DEF TypeOK
<1>3. \A c \in Comment : Visible(c) => Visible(c)'
  BY <1>1, Monotone DEF Visible
<1>4. \A c \in Comment : published'[c] <= now'
  <2>1. now <= now' /\ \A c \in Comment : published'[c] \in {published[c], now}
    BY <1>1, <1>2, WriteStep, FindStep
       DEF Next, Continues, Tick, Publish, Start, ReadNewest, Fetch, Finish,
           Abandon, platform, vars, TypeOK
  <2>2. QED
    BY <1>1, <1>2, <2>1 DEF OnlyPublished
<1>5. ASSUME NEW c \in Comment, Stored(c)' PROVE Visible(c)'
  BY <1>1, <1>3, <1>5, StoreStep DEF OnlyPublished
<1>6. ASSUME NEW w \in Worker, Saving(w)', NEW c \in run'[w].todo
      PROVE  Visible(c)'
  <2>1. CASE Fetch(w)
    <3>1. c \in Returned(run[w].since)
      BY <1>1, <1>6, <2>1 DEF Fetch, TypeOK
    <3>2. c \in Comment /\ Visible(c)
      BY <3>1 DEF Returned, Fresh, TopLevel, Replies
    <3>3. QED
      BY <1>3, <3>2
  <2>2. CASE Saving(w) /\ run'[w].todo \subseteq run[w].todo
    <3>1. c \in Comment /\ Visible(c)
      BY <1>1, <1>6, <2>2, Shapes DEF OnlyPublished, Saving, TypeOK
    <3>2. QED
      BY <1>3, <3>1
  <2>3. QED
    BY <1>1, <1>6, <2>1, <2>2, ListStep
<1>7. QED
  BY <1>4, <1>5, <1>6 DEF OnlyPublished

\* A comment that is stored or on a list stays safe to take as a mark.
LEMMA MarkKept ==
    ASSUME CursorInv, [Next]_vars, NEW d \in Dated, Visible(d),
           NoneBefore(published[d])
    PROVE  NoneBefore(published[d])'
<1>1. TypeOK /\ TypeOK' /\ OnlyPublished /\ d \in Comment
  BY NextType DEF CursorInv, Dated
<1>2. PICK t \in Nat : t = published[d]
  BY <1>1 DEF TypeOK
<1>3. t <= now /\ NoneBefore(t)
  BY <1>1, <1>2 DEF OnlyPublished
<1>4. NoneBefore(t)'
  BY <1>1, <1>3, NoneBeforeKept
<1>5. t = published'[d]
  BY <1>1, <1>2, Monotone
<1>6. QED
  BY <1>4, <1>5 DEF NoneBefore

\* What a fetch lists is a safe mark: whoever is older was fetched with it, or
\* is older than the cursor, or as old.
LEMMA FetchMark ==
    ASSUME CursorInv, NEW w \in Worker, Fetch(w), NEW c \in TopLevel \cap Dated,
           NEW d \in run'[w].todo, Visible(c), published[c] < published[d]
    PROVE  CaredFor(c) \/ Twin(c) \/ c \in run'[w].todo
<1> DEFINE s == run[w].since
<1>1. TypeOK /\ c \in Comment
  BY DEF CursorInv, TopLevel
<1>2. run[w].at = "fetch" /\ run'[w].todo = Returned(s)
  BY <1>1 DEF Fetch, TypeOK
<1>3. s \in Nat /\ published[c] \in Nat /\ published[c] # 0
  BY <1>1, <1>2, Shapes DEF TypeOK, Visible
<1>4. CASE published[c] > s
  BY <1>2, <1>4 DEF Returned, Fresh
<1>5. CASE published[c] <= s
  <2>1. PICK e \in Dated : Stored(e) /\ published[e] = s
    BY <1>2, <1>3, <1>5 DEF CursorInv, CursorStored
  <2>2. CASE published[c] = s
    BY <2>1, <2>2 DEF Twin
  <2>3. CASE published[c] < s
    BY <2>1, <2>3 DEF CursorInv, CursorSkipsNone
  <2>4. QED
    BY <1>3, <1>5, <2>2, <2>3
<1>6. QED
  BY <1>3, <1>4, <1>5

LEMMA CursorNext == CursorInv /\ [Next]_vars => CursorInv'
<1> SUFFICES ASSUME CursorInv, [Next]_vars PROVE CursorInv'
  OBVIOUS
<1>1. TypeOK /\ TypeOK' /\ OnlyPublished /\ OnlyPublished'
  BY NextType, PublishedNext DEF CursorInv
<1>2. CursorSkipsNone'
  <2>1. ASSUME NEW d \in Dated, Stored(d)'
        PROVE  NoneBefore(published[d])'
    <3>1. Visible(d) /\ NoneBefore(published[d])
      <4>1. CASE Stored(d)
        BY <1>1, <4>1
           DEF OnlyPublished, CursorInv, CursorSkipsNone, NoneBefore, Dated
      <4>2. ASSUME NEW w \in Worker, Saving(w), d \in run[w].todo
            PROVE  Visible(d) /\ NoneBefore(published[d])
        BY <1>1, <4>2 DEF OnlyPublished, CursorInv, ListSkipsNone
      <4>3. QED
        BY <1>1, <2>1, <4>1, <4>2, StoreStep DEF Dated
    <3>2. QED
      BY <3>1, MarkKept
  <2>2. QED
    BY <2>1 DEF CursorSkipsNone, NoneBefore
<1>3. ASSUME NEW w \in Worker PROVE CursorStored(w)'
  <2>1. SUFFICES ASSUME run'[w].at = "fetch", run'[w].since # 0
                 PROVE  \E e \in Dated : Stored(e)' /\
                                         published'[e] = run'[w].since
    BY DEF CursorStored
  <2>2. PICK e \in Dated : Stored(e) /\ published[e] = run'[w].since
    <3>1. CASE run'[w] = run[w]
      BY <2>1, <3>1 DEF CursorInv, CursorStored
    <3>2. CASE ReadNewest(w)
      <4>1. PICK s \in 0 .. MaxTime : Newest(s) /\ AwaitFetch(w, s)
        BY <3>2 DEF ReadNewest
      <4>2. run'[w].since = s
        BY <1>1, <4>1 DEF AwaitFetch, TypeOK
      <4>3. QED
        BY <2>1, <4>1, <4>2 DEF Newest
    <3>3. ~Start(w) /\ ~Fetch(w) /\ ~Finish(w) /\ ~Abandon(w)
      BY <1>1, <2>1 DEF Start, Fetch, Finish, Abandon, Idle, TypeOK
    <3>4. ~Find(w) /\ ~Update(w) /\ ~Create(w)
      BY <1>1, <2>1 DEF Find, FindAmong, AwaitWrite, Update, Create, AwaitNext,
                        TypeOK
    <3>5. ASSUME NEW v \in Worker, v # w, Start(v) \/ Continues(v) \/ Abandon(v)
          PROVE  run'[w] = run[w]
      BY <1>1, <3>5, FindStep, WriteStep
         DEF Start, Continues, Abandon, ReadNewest, AwaitFetch, Fetch, Finish,
             TypeOK, Elsewhere
    <3>6. CASE UNCHANGED vars \/ Tick \/ \E c \in Comment : Publish(c)
      BY <3>1, <3>6 DEF vars, Tick, Publish
    <3>7. QED
      BY <3>1, <3>2, <3>3, <3>4, <3>5, <3>6 DEF Next, Continues
  <2>3. e \in Comment /\ Visible(e)
    BY <1>1, <2>2 DEF OnlyPublished, Dated
  <2>4. QED
    BY <1>1, <2>2, <2>3, Monotone
<1>4. ASSUME NEW w \in Worker PROVE ListSkipsNone(w)'
  <2>1. SUFFICES ASSUME Saving(w)', NEW d \in run'[w].todo \cap Dated
                 PROVE  NoneBefore(published[d])'
    BY DEF ListSkipsNone
  <2>2. CASE Saving(w) /\ run'[w].todo \subseteq run[w].todo
    <3>1. Visible(d) /\ NoneBefore(published[d])
      BY <1>1, <2>1, <2>2 DEF OnlyPublished, CursorInv, ListSkipsNone
    <3>2. QED
      BY <2>1, <3>1, MarkKept
  <2>3. CASE Fetch(w)
    <3>1. UNCHANGED platform
      BY <2>3 DEF Fetch
    <3>2. ASSUME NEW c \in TopLevel \cap Dated, Visible(c)',
                 published'[c] < published'[d]
          PROVE  CaredFor(c)' \/ Twin(c)'
      <4>1. Visible(c) /\ published[c] < published[d] /\ c \in Comment
        BY <3>1, <3>2 DEF platform, Visible, TopLevel
      <4>2. CASE c \in run'[w].todo
        BY <2>1, <4>2 DEF CaredFor, Saving
      <4>3. CASE CaredFor(c) \/ Twin(c)
        BY <1>1, <4>1, <4>3, CareKept
      <4>4. QED
        BY <2>1, <2>3, <4>1, <4>2, <4>3, FetchMark
    <3>3. QED
      BY <3>2 DEF NoneBefore
  <2>4. QED
    BY <1>1, <2>1, <2>2, <2>3, ListStep
<1>5. QED
  BY <1>1, <1>2, <1>3, <1>4 DEF CursorInv

\* The cursor passes over a comment only if a run died with it, or if it bears
\* the date of a stored one.
THEOREM CursorSafe == Spec => []CursorSkipsNone
<1>1. CursorInv => CursorSkipsNone
  BY DEF CursorInv
<1>2. QED
  BY <1>1, CursorInit, CursorNext, PTL DEF Spec
=============================================================================
