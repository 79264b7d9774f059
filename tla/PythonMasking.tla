--------------------------- MODULE PythonMasking ---------------------------
(***************************************************************************)
(* Masking in the backend (src/backend/app/services/masking.py), applied   *)
(* to the rows of a query that the backend runs itself.  A value is a      *)
(* sequence of characters.                                                 *)
(***************************************************************************)
EXTENDS MaskText

PartialEmail(v) ==
  IF Places(v, "at") = {} THEN Upto(v, 3) \o Text("***")
  ELSE LET at == Lowest(Places(v, "at"))
           local == Before(v, at)
       IN  Upto(local, 2) \o Stars(Len(local) - 2) \o Text("@") \o After(v, at)

PartialPhone(v) ==
  LET digits == Digits(v)
  IN  IF Len(digits) >= 7 THEN Upto(digits, 3) \o Text("-***-") \o Last4(digits)
      ELSE v

(* Mutant: the first four digits for the last four. *)
PartialSsnHead(v) ==
  IF Len(Digits(v)) >= 4 THEN Text("***-**-") \o Upto(Digits(v), 4) ELSE v
PartialSsn(v) ==
  IF Len(Digits(v)) >= 4 THEN Text("***-**-") \o Last4(Digits(v)) ELSE v

PartialCard(v) ==
  LET digits == Digits(v)
      n == Len(digits)
  IN  IF n >= 8
        THEN Text("****-****-") \o SubSeq(digits, n - 7, n - 4) \o Text("-")
             \o Last4(digits)
        ELSE Text("****-") \o Last4(v)

PartialName(v) ==
  LET parts == Initials(v)
  IN  CASE Len(parts) >= 2 -> Word(v, parts[1]) \o Text(" ") \o <<Last(parts)>>
                              \o Text("***")
        [] Len(parts) = 1 -> Word(v, parts[1])
        [] OTHER -> v

PartialGeneric(v) ==
  CASE Len(v) > 4 -> Upto(v, 2) \o Text("***") \o SubSeq(v, Len(v) - 1, Len(v))
    [] Len(v) \in 2..4 -> Upto(v, 1) \o Text("***")
    [] OTHER -> Text("***")

MaskEmail(v) ==
  IF Places(v, "at") = {} THEN Text("********")
  ELSE LET at == Lowest(Places(v, "at"))
       IN  Upto(Before(v, at), 1) \o Text("***@") \o After(v, at)

MaskPhone(v) ==
  LET digits == Digits(v)
      prefix == IF Len(v) > 4 THEN Starred(Upto(v, Len(v) - 4))
                ELSE Text("***-***-")
  IN  IF Len(digits) >= 4 THEN prefix \o Last4(digits)
      ELSE Text("***-***-") \o digits

MaskSsn(v) == Text("***-**-") \o Last4(Digits(v))
MaskCreditCard(v) == Text("****-****-****-") \o Last4(Digits(v))

MaskName(v) ==
  LET parts == Initials(v)
  IN  IF parts = <<>> THEN Text("********")
      ELSE Join([i \in DOMAIN parts |-> <<parts[i]>> \o Text("***")], Text(" "))

(* The leading digits are replaced first; a comma is looked for after that. *)
MaskAddress(v) ==
  LET digits == {i \in DOMAIN v : \A j \in 1..i : v[j].kind = "digit"}
      rest == IF digits = {} THEN v ELSE After(v, Highest(digits))
      masked == IF Places(rest, "comma") = {} THEN rest
                ELSE Before(rest, Highest(Places(rest, "comma"))) \o Text(", ***")
  IN  (IF digits = {} THEN <<>> ELSE Text("***")) \o masked

MaskIpAddress(v) ==
  LET dots == Places(v, "dot")
  IN  IF Cardinality(dots) = 3
        THEN Before(v, Lowest(dots \ {Lowest(dots)})) \o Text(".*.*")
        ELSE Upto(v, Len(v) \div 2) \o Text("***")

MaskAmount(v) == Text("***.**")
MaskAccount(v) == Text("***") \o Last4(v)
MaskGovtId(v) ==
  Text("***") \o (IF Len(Digits(v)) >= 4 THEN Last4(Digits(v)) ELSE Last4(v))
MaskSecret(v) == Text("********")

MaskDob(v) ==
  IF StartsWith(v, Ds(4) \o <<"dash">> \o Ds(2) \o <<"dash">> \o Ds(2))
    THEN Text("****-") \o SubSeq(v, 6, 7) \o Text("-**")
  ELSE LET months == {a \in 1..2 : \E b \in 1..2 :
             StartsWith(v, Ds(a) \o <<"slash">> \o Ds(b) \o <<"slash">> \o Ds(4))}
       IN  IF months # {} THEN Upto(v, Lowest(months)) \o Text("/**/****")
           ELSE Text("****/**, ****")

MaskLocation(v) == Text("****, ****")
MaskSensitive(v) == Text("********")
MaskGeneric(v) == Text("********")

(* _MASK_FN and _PARTIAL_MASK_FN. *)
Full(v, type) ==
  CASE type = "EMAIL" -> MaskEmail(v)           [] type = "PHONE" -> MaskPhone(v)
    [] type = "SSN" -> MaskSsn(v)               [] type = "NAME" -> MaskName(v)
    [] type = "CREDIT_CARD" -> MaskCreditCard(v)
    [] type = "ADDRESS" -> MaskAddress(v)
    [] type = "IP_ADDRESS" -> MaskIpAddress(v)  [] type = "AMOUNT" -> MaskAmount(v)
    [] type \in {"ACCOUNT", "TAX_ID"} -> MaskAccount(v)
    [] type = "GOVT_ID" -> MaskGovtId(v)        [] type = "SECRET" -> MaskSecret(v)
    [] type = "DOB" -> MaskDob(v)
    [] type = "LOCATION" -> MaskLocation(v)
    [] type = "SENSITIVE" -> MaskSensitive(v)
    [] OTHER -> MaskGeneric(v)

Partial(v, type) ==
  CASE type = "EMAIL" -> PartialEmail(v)        [] type = "PHONE" -> PartialPhone(v)
    [] type = "SSN" -> PartialSsn(v)            [] type = "NAME" -> PartialName(v)
    [] type = "CREDIT_CARD" -> PartialCard(v)
    [] type \in MaskTypes \ PartialTypes -> Full(v, type)
    [] OTHER -> PartialGeneric(v)

MaskValue(v, type, level) ==
  CASE level = "raw" \/ v = <<>> -> v
    [] level = "partial" /\ v # <<>> -> Partial(v, type)
    [] level \notin {"raw", "partial"} /\ v # <<>> -> Full(v, type)

(* masking_level_for_role: the built-in table, unless the settings have one. *)
LevelForRole(role, levels) ==
  LET table == IF levels # <<>> THEN levels
               ELSE [admin |-> "raw", manager |-> "partial", analyst |-> "full",
                     viewer |-> "full"]
  IN  IF role \in DOMAIN table THEN table[role] ELSE "full"
=============================================================================
