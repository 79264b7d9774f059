--------------------------- MODULE MCCatalogScans ---------------------------
EXTENDS CatalogScans, TLC

CONSTANTS a, b, s1, s2

MCDbName == a :> "orcl" @@ b :> "orcl"
MCSchemaOf == "t1" :> "x" @@ "t2" :> "x" @@ "t3" :> "y"
MCKinds == a :> {SQL, MongoDB, Elasticsearch, Cassandra, DynamoDB, OracleERP, Redis} @@ b :> {SQL}
MCContents ==
    a :> {"t1" :> 1 @@ "t2" :> 1 @@ "t3" :> 0, "t1" :> 2 @@ "t2" :> 0 @@ "t3" :> 0}
    @@ b :> {"t1" :> 0 @@ "t2" :> 0 @@ "t3" :> 1}
MCScans == {s1, s2}
Symmetry == Permutations(MCScans)
=============================================================================
