---------------------------- MODULE PollingDefs ----------------------------
(***************************************************************************)
(* What every module of the polling subsystem shares: the campaigns and    *)
(* their posts, the two polling dimensions, the life cycle of a campaign   *)
(* and the rule that turns the intervals configured on a campaign and on a *)
(* post into the cron pattern a recurring poll runs on.                    *)
(***************************************************************************)
EXTENDS CampaignStatus

CONSTANTS
    Campaign,    \* campaign ids
    Post,        \* post ids; an id is used once, a removed post never returns
    CampaignOf,  \* the campaign_id of each post, set on creation and kept
    Dimension,   \* what is polled: "metrics", "comments"
    Recurring,   \* the intervals INTERVAL_TO_CRON has a pattern for
    Default,     \* DEFAULT_{METRIC,COMMENT}_POLLING_INTERVAL_SECONDS
    Manual,      \* the interval 0: polled only on demand
    Unset,       \* a null interval or override column
    NoSchedule,  \* no job scheduler under this id
    NoCampaign   \* the campaign of an idle handler

ASSUME PollingAssumption ==
    /\ CampaignOf \in [Post -> Campaign]
    /\ NoCampaign \notin Campaign
    /\ Default \in Recurring
    /\ Manual \notin Recurring
    /\ Unset \notin Recurring \cup {Manual}
    /\ NoSchedule \notin Recurring

\* A polling_*_interval column of a campaign or a polling_*_override of a post.
Setting == Recurring \cup {Manual, Unset}
Settings == [Dimension -> Setting]

\* Three-tier precedence: the post's override, the campaign's interval, the
\* default.  Manual is a value like any other here: it does not fall through.
Effective(override, interval) ==
    IF override # Unset THEN override
    ELSE IF interval # Unset THEN interval
    ELSE Default

Pattern == Recurring \cup {NoSchedule}

\* Mutant: a campaign that is neither paused nor over is taken for active.
CanScheduleUnlessStopped(st) == st \notin {"PAUSED", "COMPLETED"}

CanSchedule(st) == st = "ACTIVE"

\* Mutant: the manual interval is not recognised.
PlanAnyInterval(st, override, interval) ==
    IF CanSchedule(st) THEN Effective(override, interval) ELSE NoSchedule

\* What applyDimension leaves under a scheduler id.
Plan(st, override, interval) ==
    IF CanSchedule(st) /\ Effective(override, interval) \in Recurring
    THEN Effective(override, interval)
    ELSE NoSchedule

PostsOf(c) == {p \in Post : CampaignOf[p] = c}
=============================================================================
