\* Batch and single-item getters on one queue, bounded and unbounded puts
CONSTANTS
    NULL = NULL
    Q = Q
    c1 = c1
    c2 = c2
    Items = {p1, p2, p3, p4}
    Putters = {t1, t2}
    Getters = {c1, c2}
    Call <- MixedCalls
    MaxQLens = {0, 2}
SPECIFICATION FairSpec
INVARIANT TypeOK
INVARIANT ListsIntact
INVARIANT OneOwner
INVARIANT FreeUnlinked
INVARIANT NoLostWakeup
PROPERTY LinksImplementFIFO
PROPERTY WorkIsTaken
