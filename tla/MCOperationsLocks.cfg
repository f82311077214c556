CONSTANTS
    create = create
    sync = sync
    depart = depart
    again = again
    configure = configure
    r1 = r1
    r2 = r2
    mb = mb
    q1 = q1
    q2 = q2
    q3 = q3
    w1 = w1
    w2 = w2
    c1 = c1
    c2 = c2
    NoOp = NoOp
    Requests = {q1, q2, q3}
    Resources = {r1, r2, mb}
    Ops = {create, sync, depart}
    Workers = {w1, w2}
    Controllers = {c1}
    MaxSteps = 2
    MaxInterruptions = 1
    MaxRetries = 1
    MaxSlow = 0
    RequestOf <- LockRequests
    KeysOf <- LockKeys
    KindOf <- LockKinds
    NewMailbox <- LockMailboxes
    Prepared <- LockPrepared
    Demotable = {}
SPECIFICATION Spec
SYMMETRY Symmetry
INVARIANTS LocksFollowStatus CommittedIsSucceeded AmbiguityHeld SuccessIsTruthful
PROPERTIES FulfilsReservations
CHECK_DEADLOCK FALSE
