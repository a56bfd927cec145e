\* Two loops sharing a 3-bit generator (ids -4..3) that may start anywhere
\* in 0..3, so registrations pass the largest int; three objects.
CONSTANTS
    l1 = l1
    l2 = l2
    o1 = o1
    o2 = o2
    o3 = o3
    NoObj = NoObj
    Loops <- MCLoops
    Objs <- MCObjs
    Watched <- MCWatched
    IdBits = 3
SPECIFICATION Spec
INVARIANT TypeOK
INVARIANT ReactorRecordsBacked
PROPERTY RegisterCompletes
CHECK_DEADLOCK FALSE
