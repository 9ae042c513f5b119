SPECIFICATION AuthSpec
CONSTANTS
    None = None
    r1 = r1
    r2 = r2
    Request = {r1, r2}
    Operations = {"register", "change_staff", "login", "verify_email", "resend_email", "verify_login"}
    InitialAccounts <- MCUnverified
    Session = {1, 2, 3}
    Reset = {1}
    MaxFailed = 2
    LockTime = 2
    ResendTime = 1
    CodeTime = 2
    ChallengeTime = 2
    TotpTime = 1
    TokenTime = 1
    ResetTime = 1
    ResetPause = 1
    HourTime = 3
    MaxSends = 2
INVARIANTS
    AuthTypeOK
    OneOpenChallenge
    
PROPERTIES
    LockEnds
    AuthenticatorFirst
