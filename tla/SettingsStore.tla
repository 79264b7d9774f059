---------------------------- MODULE SettingsStore ----------------------------
(* The settings of the tenant (app/services/settings_service.py and           *)
(* app/api/settings.py): one row that holds only what differs from the        *)
(* defaults.  PUT /settings reads the row, merges the patch into what it read *)
(* and writes the whole back; POST /settings/reset empties it.  Several       *)
(* requests do so at once, each in a session of its own.                      *)
(* Sections and their keys are flattened to Keys; the audit records of a      *)
(* change and the redaction of secrets are left out.                          *)
EXTENDS Naturals, FiniteSets

CONSTANTS
    Keys,      \* settings
    Default,   \* DEFAULT_SETTINGS: key -> value
    Patches,   \* bodies of PUT: functions from some of the keys to values
    Puts       \* requests that change the settings at the same time

\* Functions from some of the keys to values.
IsOverrides(f) == DOMAIN f \subseteq Keys /\ f \in [DOMAIN f -> Nat]

ASSUME SettingsAssumption ==
    /\ Default \in [Keys -> Nat]
    /\ \A patch \in Patches : IsOverrides(patch)

VARIABLES
    config,  \* the overrides of the row
    hasRow,  \* is there a row?
    put      \* request -> [pc, patch, seen, found]
settingsVars == <<config, hasRow, put>>

NoOverrides == [k \in {} |-> 0]

\* Every key of the patch, and what the base has for the others.
DeepMerge(base, patch) ==
    [k \in DOMAIN base \cup DOMAIN patch |->
        IF k \in DOMAIN patch THEN patch[k] ELSE base[k]]

\* What every reader of the settings gets.
Setting(k) == DeepMerge(Default, config)[k]

NoPut == [pc |-> "idle", reset |-> FALSE, patch |-> NoOverrides,
          seen |-> NoOverrides, found |-> FALSE]

SettingsInit ==
    /\ config = NoOverrides
    /\ hasRow = FALSE
    /\ put = [p \in Puts |-> NoPut]

\* The row of the request's own session is loaded once, before the write.
ReadRow(p, reset, patch) ==
    /\ put[p].pc = "idle"
    /\ put' = [put EXCEPT ![p] = [pc |-> "read", reset |-> reset, patch |-> patch,
                                  seen |-> config, found |-> hasRow]]
    /\ UNCHANGED <<config, hasRow>>
PutRead(p) == \E patch \in Patches : ReadRow(p, FALSE, patch)
ResetRead(p) == ReadRow(p, TRUE, NoOverrides)

Finish(p) == put' = [put EXCEPT ![p] = NoPut]

\* The session writes the column only if its value differs from the one it
\* loaded; a second first row breaks the unique key on the tenant (500).
WrittenAsSent(p) == put[p].patch
Written(p) == IF put[p].reset THEN NoOverrides
              ELSE DeepMerge(put[p].seen, put[p].patch)
PutWrite(p) ==
    /\ put[p].pc = "read"
    /\ Finish(p)
    /\ IF put[p].found
       THEN /\ config' = IF Written(p) = put[p].seen THEN config ELSE Written(p)
            /\ UNCHANGED hasRow
       ELSE IF hasRow \/ put[p].reset THEN UNCHANGED <<config, hasRow>>
       ELSE /\ config' = Written(p)
            /\ hasRow' = TRUE

----------------------------------------------------------------------------
SettingsTypeOK ==
    /\ IsOverrides(config)
    /\ hasRow \in BOOLEAN
    /\ DOMAIN put = Puts
    /\ \A p \in Puts :
        /\ put[p].pc \in {"idle", "read"}
        /\ put[p].reset \in BOOLEAN /\ put[p].found \in BOOLEAN
        /\ IsOverrides(put[p].patch) /\ IsOverrides(put[p].seen)

\* PUT /settings leaves every key alone that its body does not name
\* (settings.py:113, "Only changed keys need to be provided"), unless another
\* request committed between the read and the write of this one.
UntouchedKeysKept ==
    [][\A p \in Puts : put[p].pc = "read" /\ put'[p].pc = "idle" /\ ~put[p].reset =>
        \A k \in Keys \ DOMAIN put[p].patch :
            \/ /\ k \in DOMAIN config' <=> k \in DOMAIN config
               /\ k \in DOMAIN config => config'[k] = config[k]
            \/ put[p].seen # config]_settingsVars
=============================================================================
