SPECIFICATION Spec
CONSTANTS
    c1 = c1
    c2 = c2
    c3 = c3
    CaseIds = {c1, c2, c3}
    Users = {alice, bob, host, NoUser, UploadUser}
    Devices = {host, NoDevice}
    Addresses = {web, nat, doc}
    Stages = {"initial_access", "execution", "exfiltration", "persistence", "credential_access", "collection"}
    alice = alice
    bob = bob
    host = host
    web = web
    nat = nat
    doc = doc
    NoUser = NoUser
    UploadUser = UploadUser
    NoDevice = NoDevice
    NoCase = NoCase
    Private = {nat}
    Reserved = {nat, doc}
    Internal = {nat}
    Window = 24
    SprayUsers = 3
    EgressUsers = 3
    Runners = {"first", "second"}
    Scenarios <- Everything
    MaxRuns = 3
    MaxEdits = 1
    ForeignKeys = FALSE
INVARIANTS TypeOK LinksHaveCases ClustersSound IncidentsFollowLinks
PROPERTIES NewIncidentsAreOfNewUsers
CHECK_DEADLOCK FALSE
