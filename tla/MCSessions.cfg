SPECIFICATION AuthSpec
CONSTANTS
    None = None
    r1 = r1
    r2 = r2
    Request = {r1, r2}
    Operations = {"create_staff", "change_staff", "login", "refresh", "logout", "request_reset", "reset"}
    InitialAccounts <- MCStaff
    Session = {1, 2, 3}
    Reset = {1}
    MaxFailed = 1
    LockTime = 1
    ResendTime = 1
    CodeTime = 1
    ChallengeTime = 1
    TotpTime = 1
    TokenTime = 1
    ResetTime = 1
    ResetPause = 1
    HourTime = 1
    MaxSends = 1
SYMMETRY Slots
INVARIANTS
    SignedInSince
    SignedOutStaysOut
PROPERTIES
    ImplementsFamilies
