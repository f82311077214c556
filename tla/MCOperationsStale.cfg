CONSTANTS
    create = create
    sync = sync
    depart = depart
    again = again
    configure = configure
    r1 = r1
    r2 = r2
    mb = mb
    q1 = q1
    q2 = q2
    q3 = q3
    w1 = w1
    w2 = w2
    c1 = c1
    c2 = c2
    NoOp = NoOp
    Requests = {q1, q2, q3}
    Resources = {r1, r2, mb}
    Ops = {create, again}
    Workers = {w1}
    Controllers = {c1, c2}
    MaxSteps = 2
    MaxInterruptions = 0
    MaxRetries = 2
    MaxSlow = 0
    RequestOf <- StepRequests
    KeysOf <- StepKeys
    KindOf <- StepKinds
    NewMailbox <- StepMailboxes
    Prepared = {}
    Demotable = {}
SPECIFICATION Spec
INVARIANTS NeverRepeatedBlindly
CHECK_DEADLOCK FALSE
