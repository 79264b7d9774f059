------------------------------ MODULE MaskText ------------------------------
(***************************************************************************)
(* The text that masking reads and writes.  A value is a sequence of       *)
(* units, each with its place in the value and its kind; a masked value    *)
(* is a sequence of units of the value and of literal text, so that it     *)
(* says which characters are still shown.  The backend takes a value by    *)
(* its characters; the gateway by the bytes that encode it, in which a     *)
(* wide character is two units that a slice may separate.                  *)
(***************************************************************************)
EXTENDS Integers, Sequences, SequencesExt, FiniteSets

Kinds == {"digit", "letter", "wide", "at", "dot", "comma", "space", "dash",
          "slash"}

MaskTypes == {"EMAIL", "PHONE", "SSN", "CREDIT_CARD", "NAME", "ADDRESS",
              "IP_ADDRESS", "AMOUNT", "ACCOUNT", "GOVT_ID", "TAX_ID", "SECRET",
              "DOB", "LOCATION", "SENSITIVE"}
PartialTypes == {"EMAIL", "PHONE", "SSN", "CREDIT_CARD", "NAME"}

Text(s) == <<[text |-> s]>>
IsUnit(x) == "kind" \in DOMAIN x

(* The characters of a value of these kinds, and their encoding. *)
Chars(kinds) == [i \in DOMAIN kinds |-> [place |-> i, kind |-> kinds[i]]]
Bytes(x) ==
  IF IsUnit(x) /\ x.kind = "wide"
    THEN <<[x EXCEPT !.kind = "lead"], [x EXCEPT !.kind = "trail"]>>
    ELSE <<x>>
Encode(t) == FlattenSeq([i \in DOMAIN t |-> Bytes(t[i])])

(* What both languages offer: s[:n], s[-n:], s[a:b], re.sub(\D), the places  *)
(* of a separator, the first letters of the words of s, and join.            *)
Upto(s, n) == SubSeq(s, 1, IF n < Len(s) THEN n ELSE Len(s))
Last4(s) == IF Len(s) < 4 THEN s ELSE SubSeq(s, Len(s) - 3, Len(s))
Keep(s, S) == FlattenSeq([i \in DOMAIN s |-> IF i \in S THEN <<s[i]>> ELSE <<>>])
Places(s, k) == {i \in DOMAIN s : s[i].kind = k}
Digits(s) == Keep(s, Places(s, "digit"))
Before(s, i) == SubSeq(s, 1, i - 1)
After(s, i) == SubSeq(s, i + 1, Len(s))
Lowest(S) == CHOOSE i \in S : \A j \in S : i <= j
Highest(S) == CHOOSE i \in S : \A j \in S : j <= i
Starred(s) == FlattenSeq([i \in DOMAIN s |->
                IF s[i].kind = "digit" THEN Text("*") ELSE <<s[i]>>])
Stars(n) == [i \in 1..n |-> [text |-> "*"]]

Initials(s) ==
  Keep(s, {i \in DOMAIN s : /\ s[i].kind # "space"
                            /\ i > 1 => s[i - 1].kind = "space"})
Word(s, x) ==
  LET i == CHOOSE j \in DOMAIN s : s[j] = x
      ends == {j \in DOMAIN s : j > i /\ s[j].kind = "space"}
  IN  IF ends = {} THEN SubSeq(s, i, Len(s)) ELSE SubSeq(s, i, Lowest(ends) - 1)

Join(parts, sep) ==
  FlattenSeq([i \in DOMAIN parts |-> IF i = 1 THEN parts[i] ELSE sep \o parts[i]])

(* A prefix of s that is spelled by kinds, as an anchored regular expression *)
(* asks for; n digits in a row.                                              *)
StartsWith(s, kinds) == /\ Len(kinds) <= Len(s)
                        /\ \A i \in DOMAIN kinds : s[i].kind = kinds[i]
Ds(n) == [i \in 1..n |-> "digit"]

(* The characters of the value that a masked value still shows. *)
ShownPlaces(t) == {x.place : x \in {t[i] : i \in {j \in DOMAIN t : IsUnit(t[j])}}}
=============================================================================
