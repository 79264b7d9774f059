--------------------------- MODULE GatewayMasking ---------------------------
(***************************************************************************)
(* Masking in the gateway (src/backend/gateway/internal/masking), applied  *)
(* to the rows that it relays.  It is a port of the backend's, to be kept  *)
(* in step with it; a value is the sequence of bytes of its text.          *)
(***************************************************************************)
EXTENDS MaskText

(* strings.SplitN(v, "@", 2): there are two parts when v has an @. *)
HasAt(v) == Places(v, "at") # {}
Local(v) == Before(v, Lowest(Places(v, "at")))
Domain(v) == After(v, Lowest(Places(v, "at")))

partialEmail(v) ==
  IF HasAt(v)
    THEN (IF Len(Local(v)) >= 2 THEN Upto(Local(v), 2) ELSE Local(v))
         \o Stars(Len(Local(v)) - 2) \o Text("@") \o Domain(v)
    ELSE (IF Len(v) >= 3 THEN Upto(v, 3) ELSE v) \o Text("***")

partialPhone(v) ==
  IF Len(Digits(v)) >= 7
    THEN Upto(Digits(v), 3) \o Text("-***-") \o Last4(Digits(v))
    ELSE v

partialSSN(v) ==
  IF Len(Digits(v)) < 4 THEN v ELSE Text("***-**-") \o Last4(Digits(v))

partialCard(v) ==
  LET d == Digits(v)
  IN  CASE Len(d) >= 8 -> Text("****-****-") \o SubSeq(d, Len(d) - 7, Len(d) - 4)
                          \o Text("-") \o Last4(d)
        [] Len(d) < 8 /\ Len(v) >= 4 -> Text("****-") \o Last4(v)
        [] Len(v) < 4 -> Text("****-") \o v

partialName(v) ==
  LET fields == Initials(v)
  IN  CASE Len(fields) >= 2 -> Word(v, fields[1]) \o Text(" ")
                               \o <<fields[Len(fields)]>> \o Text("***")
        [] Len(fields) = 1 -> Word(v, fields[1])
        [] Len(fields) = 0 -> v

partialGeneric(v) ==
  CASE Len(v) > 4 -> Upto(v, 2) \o Text("***") \o SubSeq(v, Len(v) - 1, Len(v))
    [] Len(v) \in 2..4 -> Upto(v, 1) \o Text("***")
    [] Len(v) = 1 -> Text("***")
    [] v = <<>> -> v

maskEmail(v) ==
  CASE ~HasAt(v) -> Text("********")
    [] HasAt(v) /\ Local(v) = <<>> -> Text("***@") \o Domain(v)
    [] HasAt(v) /\ Local(v) # <<>> -> Upto(v, 1) \o Text("***@") \o Domain(v)

maskPhone(v) ==
  CASE Len(Digits(v)) < 4 -> Text("***-***-") \o Digits(v)
    [] Len(Digits(v)) >= 4 /\ Len(v) = 4 -> Text("***-***-") \o Last4(Digits(v))
    [] Len(Digits(v)) >= 4 /\ Len(v) > 4 -> Starred(Upto(v, Len(v) - 4))
                                            \o Last4(Digits(v))

maskSSN(v) == Text("***-**-") \o Last4(Digits(v))
maskCreditCard(v) == Text("****-****-****-") \o Last4(Digits(v))

maskName(v) ==
  LET fields == Initials(v)
      out == [i \in DOMAIN fields |-> <<fields[i]>> \o Text("***")]
  IN  IF fields = <<>> THEN Text("********")
      ELSE Join(out, Text(" "))

maskAddress(v) ==
  LET others == {i \in DOMAIN v : v[i].kind # "digit"}
      rest == IF others = {} THEN <<>> ELSE SubSeq(v, Lowest(others), Len(v))
      masked == (IF rest = v THEN <<>> ELSE Text("***")) \o rest
      commas == {i \in DOMAIN masked : IsUnit(masked[i]) /\ masked[i].kind = "comma"}
  IN  IF commas = {} THEN masked
      ELSE Before(masked, Highest(commas)) \o Text(", ***")

maskIPAddress(v) ==
  LET dots == Places(v, "dot")
  IN  CASE Cardinality(dots) = 3 ->
             Before(v, Lowest(dots \ {Lowest(dots)})) \o Text(".*.*")
        [] Cardinality(dots) # 3 /\ Len(v) > 1 -> Upto(v, Len(v) \div 2) \o Text("***")
        [] Len(v) = 1 -> v \o Text("***")

maskAmount(v) == Text("***.**")
maskAccount(v) == Text("***") \o Last4(v)
(* Mutant: without the fall back to the last characters. *)
maskGovtIDOfDigits(v) == Text("***") \o Last4(Digits(v))
maskGovtID(v) ==
  IF Len(Digits(v)) >= 4 THEN Text("***") \o Last4(Digits(v)) ELSE maskAccount(v)
maskSecret(v) == Text("********")
maskLocation(v) == Text("****, ****")
maskSensitive(v) == Text("********")
maskGeneric(v) == Text("********")

(* yyyymmdd and mmddyyyy. *)
IsoDate(v) == StartsWith(v, Ds(4) \o <<"dash">> \o Ds(2) \o <<"dash">> \o Ds(2))
UsDates(v) ==
  {m \in 1..2 : \E d \in 1..2 :
     StartsWith(v, Ds(m) \o <<"slash">> \o Ds(d) \o <<"slash">> \o Ds(4))}
maskDOB(v) ==
  CASE IsoDate(v) -> Text("****-") \o SubSeq(v, 6, 7) \o Text("-**")
    [] ~IsoDate(v) /\ UsDates(v) # {} -> Upto(v, Lowest(UsDates(v)))
                                         \o Text("/**/****")
    [] ~IsoDate(v) /\ UsDates(v) = {} -> Text("****/**, ****")

maskFn(v, type) ==
  CASE type = "EMAIL" -> maskEmail(v)           [] type = "PHONE" -> maskPhone(v)
    [] type = "SSN" -> maskSSN(v)               [] type = "NAME" -> maskName(v)
    [] type = "CREDIT_CARD" -> maskCreditCard(v)
    [] type = "ADDRESS" -> maskAddress(v)       [] type = "AMOUNT" -> maskAmount(v)
    [] type = "IP_ADDRESS" -> maskIPAddress(v)  [] type = "SECRET" -> maskSecret(v)
    [] type \in {"ACCOUNT", "TAX_ID"} -> maskAccount(v)
    [] type = "GOVT_ID" -> maskGovtID(v)        [] type = "DOB" -> maskDOB(v)
    [] type = "LOCATION" -> maskLocation(v)
    [] type = "SENSITIVE" -> maskSensitive(v)
    [] type \notin MaskTypes -> maskGeneric(v)

partialMaskFn(v, type) ==
  CASE type = "EMAIL" -> partialEmail(v)        [] type = "PHONE" -> partialPhone(v)
    [] type = "SSN" -> partialSSN(v)            [] type = "NAME" -> partialName(v)
    [] type = "CREDIT_CARD" -> partialCard(v)

(* MaskValue, under a name that is not the backend's. *)
maskValue(v, type, level) ==
  CASE level = "raw" \/ v = <<>> -> v
    [] level = "partial" /\ v # <<>> /\ type \in PartialTypes ->
         partialMaskFn(v, type)
    [] level = "partial" /\ v # <<>> /\ type \in MaskTypes \ PartialTypes ->
         maskFn(v, type)
    [] level = "partial" /\ v # <<>> /\ type \notin MaskTypes -> partialGeneric(v)
    [] level \notin {"raw", "partial"} /\ v # <<>> -> maskFn(v, type)
=============================================================================
