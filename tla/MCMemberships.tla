---------------------------- MODULE MCMemberships ----------------------------
\* The instance of Memberships that TLC checks.
EXTENDS Memberships, TLC

AllOperations == Routes
InvitationOperations == {"create_organization", "invite_member"} \cup InvitationRoutes
RolesOfCalls == {"team_admin"}
ScopesOfCalls == Orgs \X (Teams \cup {None})

Symmetry == Permutations(Orgs) \cup Permutations(Teams) \cup Permutations(Invitations)
            \cup Permutations(Rows) \cup Permutations(Requests) \cup Permutations(Users \ {Root})
=============================================================================
