SPECIFICATION Spec
CONSTANTS
    ann = ann
    bob = bob
    s1 = s1
    s2 = s2
    User = {ann, bob}
    Subject = {s1, s2}
    Claim <- Asserted
    Calendar = {s1}
    Bootstrap = {ann}
    Browser = {b1}
    Request = {r1, r2}
    None = None
SYMMETRY Symmetry
INVARIANTS
    TypeOK
    IdentityMatchesMail
    PasswordGuardsIdentities
    IInv
PROPERTIES
    SignInMethodKept
    AdministratorRemains
    ColumnsAreTheirOwn
