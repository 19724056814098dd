SPECIFICATION Spec
CONSTANTS
    Users = {root, u1}
    Root = root
    Orgs = {o1}
    Teams = {t1}
    Invitations = {i1}
    Rows = {a1, a2, a3, a4}
    Requests = {r1, r2}
    Members = {u1}
    Roles <- RolesOfCalls
    Scopes <- ScopesOfCalls
    Operations <- AllOperations
    None = None
SYMMETRY Symmetry
INVARIANTS TypeOK OneTeamAssignment InvitationJoinsOnce
PROPERTIES OwnerAdministers MembersLeaveByRemoval
