CONSTANTS
    create = create
    sync = sync
    depart = depart
    again = again
    configure = configure
    r1 = r1
    r2 = r2
    mb = mb
    q1 = q1
    q2 = q2
    q3 = q3
    w1 = w1
    w2 = w2
    c1 = c1
    c2 = c2
    NoOp = NoOp
    Requests = {q1, q2, q3}
    Resources = {r1, r2, mb}
    Ops = {create, again, configure}
    Workers = {w1}
    Controllers = {c1}
    MaxSteps = 2
    MaxInterruptions = 2
    MaxRetries = 2
    MaxSlow = 1
    RequestOf <- StepRequests
    KeysOf <- StepKeys
    KindOf <- StepKinds
    NewMailbox <- StepMailboxes
    Prepared = {}
    Demotable = {create, again}
SPECIFICATION FairSpec
INVARIANTS TypeOK StepAppliedOnce FailedLeavesOverlooked
PROPERTIES QueuedIsExecuted
CHECK_DEADLOCK FALSE
