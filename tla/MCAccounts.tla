----------------------------- MODULE MCAccounts -----------------------------
EXTENDS Accounts, TLC

MCDefault == "max_login_attempts" :> 1 @@ "approval_ttl_hours" :> 0
MCPatches == {"max_login_attempts" :> 2, "approval_ttl_hours" :> 1}
=============================================================================
