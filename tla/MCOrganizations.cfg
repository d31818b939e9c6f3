SPECIFICATION Spec
CONSTANTS
    Orgs = {o1, o2, o3}
    Submissions = {s1}
    Persons = {p1}
    Installations = {n1}
    Products = {q1, q2}
    Calls = {c1, c2}
    None = None
SYMMETRY OrganizationSymmetry
CHECK_DEADLOCK FALSE
INVARIANTS
    MergesEndActive
    ReferencesAreActive
    ErasedHasNoRows
PROPERTIES
    StandingKept
