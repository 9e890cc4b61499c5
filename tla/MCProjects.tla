----------------------------- MODULE MCProjects -----------------------------
(***************************************************************************)
(* Instances for TLC of what administrators manage: a project with its     *)
(* campaigns and members, its guards and listings, and the administrators  *)
(* themselves.  The two share no variable, so the instance has behaviours  *)
(* of the one and behaviours of the other and does not mix them; those of  *)
(* the project come with one set of administrators.                        *)
(***************************************************************************)
EXTENDS ProjectAccess, UserAdmin, TLC

AllAdmins ==
    UsersInit /\ \A u \in Account : standing[u] = "ACTIVE" /\ globalRole[u] = "ADMIN"

BothInit == Init /\ UsersInit

BothNext ==
    \/ Next /\ AllAdmins /\ UNCHANGED userVars
    \/ UsersNext /\ Init /\ UNCHANGED vars

BothSpec == BothInit /\ [][BothNext]_<<vars, userVars>>

Symmetry ==
    Permutations(Request) \cup Permutations(Campaign)
        \cup Permutations(Account) \cup Permutations(Handler)
=============================================================================
