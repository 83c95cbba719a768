\* One poller, one full rebuild and one request that misses; two changes of the
\* account and two of the group; one fault.
SPECIFICATION Spec
CONSTANTS
    p1 = p1
    r1 = r1
    f1 = f1
    a1 = a1
    a2 = a2
    g1 = g1
    None = None
    Pollers = {p1}
    Rebuilders = {r1}
    Readers = {f1}
    Writers = {a1, a2, g1}
    GroupWriters = {g1}
    InTransaction = {a1}
    Forced = TRUE
    MaxChanges = 2
    MaxFaults = 1
INVARIANTS
    SnapshotIsFresh
    GroupIsFollowed
    LoadedSinceRetirement
PROPERTIES
    Heals
