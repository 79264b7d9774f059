------------------------- MODULE MCGatewaySessions -------------------------
(* Two connections of one credential, which share a source and its pool:   *)
(* the first speaks both protocols, the second sends plain queries.        *)
EXTENDS GatewaySessions

CONSTANTS Bilingual, Plain

MCSessions == {Bilingual, Plain}
MCSourceOf == [c \in Creds |-> CHOOSE d \in Sources : TRUE]
MCKinds == [s \in MCSessions |->
              IF s = Bilingual THEN {"Query", "Statements", "Extended", "Sync", "Other"}
                               ELSE {"Query"}]
MCMaxMessages == [s \in MCSessions |-> IF s = Bilingual THEN 2 ELSE 1]
=============================================================================
