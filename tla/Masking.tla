------------------------------- MODULE Masking -------------------------------
(***************************************************************************)
(* The two implementations of masking side by side.  A result set passes   *)
(* through one or the other, depending on who runs the query, and a row    *)
(* should read the same either way.  The values are built up piece by      *)
(* piece; each of them is masked as every type and at every level.         *)
(***************************************************************************)
EXTENDS PythonMasking, GatewayMasking

CONSTANTS Pieces,     \* sequences of kinds that a value is built from
          MaxPieces   \* bound: pieces in a value

ASSUME PiecesAssumption == Pieces \subseteq Seq(Kinds) /\ MaxPieces \in Nat

VARIABLES value,      \* the kinds of the characters of the value
          pieces      \* how many pieces it was built from
maskingVars == <<value, pieces>>

Types == MaskTypes \cup {"none"}
Level(role) == LevelForRole(role, <<>>)
Levels == {Level(role) : role \in {"admin", "manager", "analyst", "other"}}

MaskingInit == value = <<>> /\ pieces = 0
Extend == \E p \in Pieces : /\ pieces < MaxPieces
                            /\ value' = value \o p
                            /\ pieces' = pieces + 1
Another == pieces = MaxPieces /\ value' = <<>> /\ pieces' = 0
MaskingNext == Extend \/ Another
MaskingSpec == MaskingInit /\ [][MaskingNext]_maskingVars
-----------------------------------------------------------------------------
Masked(type, level) == MaskValue(Chars(value), type, level)
Relayed(type, level) == maskValue(Encode(Chars(value)), type, level)

(* Formats that never cut a value between two of its characters.           *)
Uncut == {"SSN", "ADDRESS", "AMOUNT", "SECRET", "DOB", "LOCATION", "SENSITIVE"}

(* The gateway masks a value as the backend does ("KEEP IN SYNC"), except  *)
(* where it slices the bytes of a wide character apart, which only formats *)
(* that count characters do, and except for one-character IP addresses.    *)
SameMask ==
  \A type \in Types, level \in Levels :
    \/ type = "IP_ADDRESS" /\ level # "raw" /\ Len(value) = 1
    \/ \E i \in DOMAIN value : value[i] = "wide" /\ type \notin Uncut
    \/ Relayed(type, level) = Encode(Masked(type, level))

(* "partial shows a bit more data": whatever digit or letter an analyst is  *)
(* shown, a manager is shown too.  Not so for the middle names of a name of *)
(* three words, for what a telephone number has besides digits, and for a   *)
(* card number of fewer than eight digits.                                  *)
FullShowsLess ==
  \A type \in MaskTypes :
    LET places == IF type = "PHONE" THEN {i \in DOMAIN value : value[i] = "digit"}
                  ELSE DOMAIN value
    IN  \/ type = "NAME" /\ Len(Initials(Chars(value))) > 2
        \/ type = "CREDIT_CARD" /\ Len(Digits(Chars(value))) < 8
        \/ places \cap ShownPlaces(Masked(type, Level("analyst")))
             \subseteq ShownPlaces(Masked(type, Level("manager")))
=============================================================================
