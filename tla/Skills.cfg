\* Two threads, three copies of a skill in two roots, users who edit one file.
SPECIFICATION SkillsSpec
CONSTANTS
    SkillThreads = {t1, t2}
    Ids = {"s1"}
    Places = {"p1", "p2", "p3"}
    IdOf <- Names
    RootOf <- Roots
    PathOrder <- Paths
    RootScopes <- TwoRoots
    Untrusted = {1}
    Docs <- SomeDocs
    Absent = Absent
    Mounted = {"s1"}
    MaxEdits = 1
SYMMETRY Symmetry
INVARIANTS
    CalmCacheIsExact
    SteadyCopyIsNotOutranked
