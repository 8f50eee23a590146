SPECIFICATION AccountsSpec
CONSTANTS
    ada = ada
    ben = ben
    v1 = v1
    r1 = r1
    r2 = r2
    Person = {ada, ben}
    Founder = ada
    View = {v1}
    Request = {r1, r2}
    Browser = {"desk", "home"}
    Tab = {"t1", "t2", "t3"}
    Account = {"ada", "bob", "eve"}
    Verified = {"ada", "bob"}
    IdleTimeout = 2
    HardCap = 3
    PendingTtl = 1
    None = None
    BrowserOf <- MCBrowserOf
    Domain <- MCDomain
    AllowedDomains = {"lab"}
    Scenarios <- MCScenarios
    Login = {"l1"}
    RequestTtl = 2
    MinTtl = 1
    AskedTtl = 4
    CliTimeout = 1
SYMMETRY Alike
INVARIANTS
    WorkspaceIsSound
    SessionsAreSound
    ApprovalsMatchTokens
PROPERTIES
    SharedRightly
