--------------------------- MODULE ProjectAccess ---------------------------
(***************************************************************************)
(* Who may do what in the project of Projects: the guards in front of the  *)
(* controllers and the filters of the listings, which spell out the same   *)
(* rule in eight places.  They read the rows and change nothing;           *)
(* administrators pass every guard and are left out.                       *)
(***************************************************************************)
EXTENDS Projects

-----------------------------------------------------------------------------
\* The guards.  roles: what the handler asks for, {} for any.  there: the post,
\* of campaign c, is not deleted.

Satisfies(role, roles) == role # None /\ (roles = {} \/ role \in roles)

\* A membership of the project comes before one of the campaign.
HeldRole(u, c) == IF member[u] # None THEN member[u] ELSE direct[c][u]

ProjectGuard(u, roles) == Satisfies(member[u], roles)

CampaignGuard(u, c, roles) == Exists(c) /\ Satisfies(HeldRole(u, c), roles)

\* Mutant: direct members of the campaign are forgotten.
PostGuardInherited(u, c, there, roles) ==
    there /\ Exists(c) /\ Satisfies(member[u], roles)

PostGuard(u, c, there, roles) ==
    there /\ Exists(c) /\ Satisfies(HeldRole(u, c), roles)

CommentGuard(u, c, there, roles) ==
    there /\ Exists(c) /\ Satisfies(HeldRole(u, c), roles)

-----------------------------------------------------------------------------
\* The listings, before search, order and pages

ProjectListed(u) == member[u] # None

CampaignListed(u, c) ==
    /\ Exists(c)
    /\ \/ active /\ member[u] # None
       \/ direct[c][u] # None /\ active

PostListed(u, c, there) ==
    there /\ Exists(c) /\ (member[u] # None \/ direct[c][u] # None)

\* Mutant: direct membership is looked up first.
MyRoleDirectFirst(u, c) ==
    IF ~Exists(c) THEN None ELSE IF direct[c][u] # None THEN direct[c][u] ELSE member[u]

\* campaigns/:id/me, by which the pages show or hide what a user may do.
MyRole(u, c) ==
    IF ~Exists(c) THEN None ELSE IF member[u] # None THEN member[u] ELSE direct[c][u]

-----------------------------------------------------------------------------
(***************************************************************************)
(* Properties                                                              *)
(***************************************************************************)

\* What a user is shown in a list he may open, and what he may open is in the
\* list (of campaigns: unless the project is archived), however memberships of
\* the project and of its campaigns come and go and campaigns are deleted.
ListedIsOpen ==
    \A u \in User :
        /\ ProjectListed(u) <=> ProjectGuard(u, {})
        /\ \A c \in Campaign :
              /\ CampaignListed(u, c) <=> active /\ CampaignGuard(u, c, {})
              /\ \A there \in BOOLEAN :
                    PostListed(u, c, there) <=> PostGuard(u, c, there, {})

\* The role a user is told he has in a campaign is the one that decides there,
\* for the campaign, its posts and their comments alike, for every set of roles
\* asked for: also when he was made a direct member and joined the project later.
RoleToldIsRoleHeld ==
    \A u \in User, c \in Campaign, roles \in SUBSET MemberRole :
        LET may == Satisfies(MyRole(u, c), roles)
        IN  /\ CampaignGuard(u, c, roles) <=> may
            /\ PostGuard(u, c, TRUE, roles) <=> may
            /\ CommentGuard(u, c, TRUE, roles) <=> may
=============================================================================
