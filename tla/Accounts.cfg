SPECIFICATION FairSpec
CONSTANTS
    Keys = {"max_login_attempts", "approval_ttl_hours"}
    Default <- MCDefault
    Patches <- MCPatches
    Puts = {p1, p2}
    Emails = {"ann"}
    SuperAdmin = "root"
    SuperLimit = 1
    MaxAttempts = "max_login_attempts"
    Logins = {l1, l2}
    Setups = {s1, s2}
    Factors = {f1}
    Callbacks = {c1}
    Secrets = {1, 2}
    NoSecret = 0
    Concurrent = 2
INVARIANTS OverrunBounded OneSetup
PROPERTIES UntouchedKeysKept PasswordAloneOnlyWithoutMfa LockoutEnds
CHECK_DEADLOCK FALSE
