SPECIFICATION FairSpec
CONSTANTS
    Pids = {1, 2}
    ClientOf <- MCClientOf
    LocalPostgres <- Local
    Users = {"bob", "eve"}
    IPs = {"app", "desk"}
    NoIP = "socket"
    Ops = {"select", "drop"}
    CliPolicy <- Enforce
    DefaultPolicy <- Enforce
    Policies <- MCPolicies
    Slots = {1, 2}
    Nil = Nil
    Threshold = 1
    MaxAttempts = 2
    MaxSessions = 2
    MaxEvents = 2
INVARIANTS BlockedTruthful DuplicatesOnlyAfterTimeout
CHECK_DEADLOCK FALSE
PROPERTIES AdoptsPolicy
