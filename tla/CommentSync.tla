---------------------------- MODULE CommentSync ----------------------------
(***************************************************************************)
(* The comments of one post: the platform publishes them, polls fetch what *)
(* is newer than the newest comment stored, and store it one comment at a  *)
(* time.                                                                   *)
(*                                                                         *)
(* A poll is a run of PollingRunner's comments branch, suspended at an     *)
(* await.  PollingWork lets two of them work side by side only after one   *)
(* lost its lock; a run may die at any await, and the next one starts from *)
(* what is stored by then.                                                 *)
(***************************************************************************)
EXTENDS Naturals, Sequences, FiniteSets

CONSTANTS
    Comment,     \* platform comment ids
    ParentOf,    \* the comment a reply answers
    NoComment,   \* the parent of a top-level comment
    Undated,     \* comments the platform returns without a date
    Worker,      \* slots of the scraper processor
    Nested,      \* whether the platform lists replies inside their parents
    MaxTime,     \* bound: the last instant at which comments are published
    MayFail      \* whether queries fail and processes die

ASSUME CommentAssumption ==
    /\ NoComment \notin Comment /\ IsFiniteSet(Worker)
    /\ ParentOf \in [Comment -> Comment \cup {NoComment}]
    /\ \A c \in Comment : ParentOf[c] # NoComment
                            => ParentOf[ParentOf[c]] = NoComment
    /\ Undated \subseteq Comment
    /\ Nested \in BOOLEAN
    /\ MaxTime \in Nat \ {0}
    /\ MayFail \in BOOLEAN

VARIABLES
    now,         \* the platform's clock
    published,   \* when each comment appeared on the platform, 0 for not yet
    rows,        \* the rows of each comment, by the row of the parent
    run,         \* what each worker is doing
    peak,        \* history: the most runs that were at work at once
    lost         \* history: comments a run had fetched and died without storing

platform == <<now, published>>
vars == <<now, published, rows, run, peak, lost>>

TopLevel == {c \in Comment : ParentOf[c] = NoComment}
Replies == Comment \ TopLevel
Dated == Comment \ Undated

\* A row is named by its comment and its number among that comment's rows.
NoRow == <<NoComment, 0>>
RowId == {NoRow} \cup (Comment \X (Nat \ {0}))

Idle == [at |-> "idle"]

Run ==
    {Idle}
    \cup [at : {"since"}]
    \cup [at : {"fetch"}, since : Nat]
    \cup [at : {"save"}, todo : SUBSET Comment, saved : [Comment -> Nat]]
    \cup [at : {"write"}, todo : SUBSET Comment, saved : [Comment -> Nat],
          comment : Comment, found : Nat, parent : RowId]

Saving(w) == run[w].at \in {"save", "write"}

\* Rows and runs keep their shape; the rows a run knows of exist, and what it
\* is writing is not off its list yet.
TypeOK ==
    /\ now \in 1 .. MaxTime
    /\ published \in [Comment -> 0 .. MaxTime]
    /\ rows \in [Comment -> Seq(RowId)]
    /\ run \in [Worker -> Run]
    /\ peak \in Nat
    /\ lost \subseteq Comment
    /\ \A w \in Worker :
        /\ Saving(w) => \A c \in Comment : run[w].saved[c] <= Len(rows[c])
        /\ run[w].at = "write" =>
            /\ run[w].comment \in run[w].todo
            /\ run[w].found <= Len(rows[run[w].comment])

Init ==
    /\ now = 1
    /\ published = [c \in Comment |-> 0]
    /\ rows = [c \in Comment |-> <<>>]
    /\ run = [w \in Worker |-> Idle]
    /\ peak = 0
    /\ lost = {}

-----------------------------------------------------------------------------
(* The platform.                                                           *)

Visible(c) == published[c] # 0
Stored(c) == Len(rows[c]) > 0

\* Platforms date comments to the second: two may carry the same date.
Publish(c) ==
    /\ ~Visible(c)
    /\ c \in Replies => Visible(ParentOf[c])
    /\ published' = [published EXCEPT ![c] = now]
    /\ UNCHANGED <<now, rows, run, peak, lost>>

Tick ==
    /\ now < MaxTime
    /\ now' = now + 1
    /\ UNCHANGED <<published, rows, run, peak, lost>>

-----------------------------------------------------------------------------
(* A poll of the comments.                                                 *)

AtWork == {w \in Worker : run[w] # Idle}

Start(w) ==
    /\ run[w] = Idle
    /\ run' = [run EXCEPT ![w] = [at |-> "since"]]
    /\ peak' = IF peak > Cardinality(AtWork) THEN peak ELSE Cardinality(AtWork) + 1
    /\ UNCHANGED <<platform, rows, lost>>

\* s is the newest date stored, 0 if there is none.
Newest(s) ==
    /\ s \in {0} \cup {published[c] : c \in {d \in Dated : Stored(d)}}
    /\ \A c \in Dated : Stored(c) => published[c] <= s

AwaitFetch(w, s) == run' = [run EXCEPT ![w] = [at |-> "fetch", since |-> s]]

\* Mutant: the time of the poll as the cursor.
ReadPollTime(w) ==
    /\ run[w].at = "since"
    /\ AwaitFetch(w, now)
    /\ UNCHANGED <<platform, rows, peak, lost>>

ReadNewest(w) ==
    /\ run[w].at = "since"
    /\ \E s \in 0 .. MaxTime : Newest(s) /\ AwaitFetch(w, s)
    /\ UNCHANGED <<platform, rows, peak, lost>>

\* Mutant: a comment without a date is never newer.
FreshIfDated(c, since) == c \in Dated /\ published[c] > since

Fresh(c, since) == Visible(c) /\ (c \in Undated \/ published[c] > since)

\* toRawComments drops what is not newer than the cursor, and replies with
\* their parents.
Returned(since) ==
    LET tops == {c \in TopLevel : Fresh(c, since)} IN
    tops \cup {c \in Replies : /\ ParentOf[c] \in tops
                               /\ Visible(c)
                               /\ Nested \/ Fresh(c, since)}

Fetch(w) ==
    /\ run[w].at = "fetch"
    /\ run' = [run EXCEPT ![w] = [at |-> "save",
                                  todo |-> Returned(run[w].since),
                                  saved |-> [c \in Comment |-> 0]]]
    /\ UNCHANGED <<platform, rows, peak, lost>>

\* Every top-level comment is saved before any reply.
NextSaved(todo) ==
    {c \in todo : c \in TopLevel \/ todo \cap TopLevel = {}}

\* findFirst, by the ids of the post and the comment: a row that matches, or 0.
Found(c) == IF Stored(c) THEN 1 .. Len(rows[c]) ELSE {0}

\* The row this run saved for the parent, or else one findCommentId finds.
ParentRows(saved, c) ==
    LET p == ParentOf[c] IN
    IF c \in TopLevel THEN {NoRow}
    ELSE IF saved[p] # 0 THEN {<<p, saved[p]>>}
    ELSE {IF k = 0 THEN NoRow ELSE <<p, k>> : k \in Found(p)}

\* Mutant: a comment leaves the list before it is written.
AwaitWriteTakenOff(w, c, k, parent) ==
    run' = [run EXCEPT ![w] = [at |-> "write", todo |-> run[w].todo \ {c},
                               saved |-> run[w].saved, comment |-> c,
                               found |-> k, parent |-> parent]]

AwaitWrite(w, c, k, parent) ==
    run' = [run EXCEPT ![w] = [at |-> "write", todo |-> run[w].todo,
                               saved |-> run[w].saved, comment |-> c,
                               found |-> k, parent |-> parent]]

FindAmong(w, candidates) ==
    /\ run[w].at = "save"
    /\ \E c \in candidates : \E k \in Found(c) :
        \E parent \in ParentRows(run[w].saved, c) : AwaitWrite(w, c, k, parent)
    /\ UNCHANGED <<platform, rows, peak, lost>>

\* Mutant: replies are saved as they come.
FindAnyOrder(w) == FindAmong(w, run[w].todo)

\* Mutant: create without a look at what is stored.
FindNothing(w) ==
    /\ run[w].at = "save"
    /\ \E c \in NextSaved(run[w].todo) :
        \E parent \in ParentRows(run[w].saved, c) : AwaitWrite(w, c, 0, parent)
    /\ UNCHANGED <<platform, rows, peak, lost>>

Find(w) == FindAmong(w, NextSaved(run[w].todo))

AwaitNext(w, todo, k) ==
    run' = [run EXCEPT ![w] = [at |-> "save", todo |-> todo,
                               saved |-> [run[w].saved EXCEPT
                                            ![run[w].comment] = k]]]

Update(w) ==
    LET r == run[w] IN
    /\ r.at = "write" /\ r.found # 0
    /\ rows' = [rows EXCEPT ![r.comment][r.found] = r.parent]
    /\ AwaitNext(w, r.todo \ {r.comment}, r.found)
    /\ UNCHANGED <<platform, peak, lost>>

\* No index keeps a second row out.
Create(w) ==
    LET r == run[w] IN
    /\ r.at = "write" /\ r.found = 0
    /\ rows' = [rows EXCEPT ![r.comment] = Append(rows[r.comment], r.parent)]
    /\ AwaitNext(w, r.todo \ {r.comment}, Len(rows[r.comment]) + 1)
    /\ UNCHANGED <<platform, peak, lost>>

\* The post's row is marked, with the number of comments stored.
Finish(w) ==
    /\ run[w].at = "save" /\ run[w].todo = {}
    /\ run' = [run EXCEPT ![w] = Idle]
    /\ UNCHANGED <<platform, rows, peak, lost>>

\* A failing query, a scraper that gives up, or the death of the process.
Abandon(w) ==
    /\ MayFail
    /\ run[w] # Idle
    /\ run' = [run EXCEPT ![w] = Idle]
    /\ lost' = lost \cup IF Saving(w) THEN run[w].todo ELSE {}
    /\ UNCHANGED <<platform, rows, peak>>

-----------------------------------------------------------------------------
Continues(w) ==
    ReadNewest(w) \/ Fetch(w) \/ Find(w) \/ Update(w) \/ Create(w) \/ Finish(w)

Next ==
    \/ Tick
    \/ \E c \in Comment : Publish(c)
    \/ \E w \in Worker : Start(w) \/ Continues(w) \/ Abandon(w)

Spec == Init /\ [][Next]_vars

\* A run that is not abandoned goes on.  Whether polls come, and how many are
\* abandoned, is left open.
FairSpec == Spec /\ \A w \in Worker : WF_vars(Continues(w))

-----------------------------------------------------------------------------
(* Properties.                                                             *)

HangsOn(c, row) ==
    IF c \in TopLevel THEN row = NoRow
    ELSE \E n \in 1 .. Len(rows[ParentOf[c]]) : row = <<ParentOf[c], n>>

\* A stored reply hangs on a row of the comment it answers, also when runs
\* overlapped and stored the parent twice, or died between the two.
ThreadsIntact ==
    \A c \in Comment : \A k \in 1 .. Len(rows[c]) : HangsOn(c, rows[c][k])

\* The find-then-create of a comment is no transaction, and no index keeps a
\* second row out.  A comment still has no more rows than runs were ever at work
\* at once, however many runs died halfway and were repeated or came later: one
\* row as long as the work queue runs one poll per id.
RowsWithinPeak == \A c \in Comment : Len(rows[c]) <= peak

CaredFor(c) ==
    \/ Stored(c)
    \/ c \in lost
    \/ \E w \in Worker : Saving(w) /\ c \in run[w].todo

Twin(c) == \E e \in Dated : Stored(e) /\ published[e] = published[c]

\* The cursor passes over a comment in two ways only: a run that had fetched it
\* died before storing it, or it carries the same date as a stored one.
\* Otherwise whoever has an older date than a stored comment is stored, or is
\* about to be.
CursorSkipsNone ==
    \A c \in TopLevel \cap Dated, d \in Dated :
        Visible(c) /\ Stored(d) /\ published[c] < published[d] =>
            CaredFor(c) \/ Twin(c)

\* As long as polls are carried through again and again, a top-level comment is
\* stored in the end, or was passed over in one of the two ways above; one
\* without a date always is.
CommentsArrive ==
    []<><<\E w \in Worker : Finish(w)>>_vars =>
        \A c \in TopLevel :
            Visible(c) ~>
                Stored(c) \/ (c \in Dated /\ (c \in lost \/ Twin(c)))
=============================================================================
