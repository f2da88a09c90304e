SPECIFICATION Spec
CONSTANTS
    root = root
    ann = ann
    bob = bob
    r1 = r1
    r2 = r2
    p1 = p1
    NoUser = NoUser
    NoProject = NoProject
    Users = {root, ann, bob}
    Role <- Roles
    Projects = {p1}
    Requests = {r1, r2}
SYMMETRY AccessSymmetry
INVARIANTS OwnershipCoherent GrantsJustified
PROPERTIES RemovalSticks OnlyManagersChangeMembers
