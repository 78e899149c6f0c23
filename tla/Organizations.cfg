SPECIFICATION Spec
CONSTANTS
    acme = acme
    beta = beta
    u1 = u1
    u2 = u2
    u3 = u3
    i1 = i1
    i2 = i2
    f1 = f1
    f2 = f2
    f3 = f3
    Org = {acme, beta}
    Founded = {acme}
    User = {u1, u2, u3}
    Role = {"OWNER", "ADMIN", "MEMBER"}
    Invitation = {i1, i2}
    None = None
    Flow = {f1, f2, f3}
    Races <- MCRaces
SYMMETRY Symmetries
INVARIANTS
    TypeOK
    HasAnOwner
    InvitationsAreBacked
    MembersHaveNoInvitation
 
CHECK_DEADLOCK FALSE
