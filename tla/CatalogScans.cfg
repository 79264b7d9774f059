SPECIFICATION Spec
CONSTANTS
    a = a
    b = b
    s1 = s1
    s2 = s2
    Sources = {a, b}
    DbName <- MCDbName
    Kinds <- MCKinds
    Tables = {"t1", "t2", "t3"}
    SchemaOf <- MCSchemaOf
    Contents <- MCContents
    CommitEvery = 2
    Scans <- MCScans
    NoSource = NoSource
SYMMETRY Symmetry
INVARIANT OwnHierarchy
PROPERTIES CompletedCovers CurationSurvives
CHECK_DEADLOCK FALSE
