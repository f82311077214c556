CONSTANTS
    c1 = c1
    c2 = c2
    c3 = c3
    b1 = b1
    b2 = b2
    link = link
    box1 = box1
    box2 = box2
    cred1 = cred1
    cred2 = cred2
    inbox = inbox
    inv = inv
    close = close
    Folders = {inbox}
    Invalidations = {inv}
    TargetOf <- PoolTargets
    Closer = close
    None = None
    PerCredIdle = 1
    Callers = {c1, c2, c3}
    Fresh = {c3}
    Subscribers = {b1, b2}
    Parties <- ClientParties
    Creds = {cred1, cred2}
    CredOf <- ClientCreds
    FolderOf <- ClientFolders
    Places = {link, box1, box2}
    PlacesOf <- PoolPlaces
    GlobalMax = 2
    PlaceMax <- ClientMax
    WatchReserve = 0
    PlaceReserve <- ClientReserve
SPECIFICATION FairSpec
INVARIANTS TypeOK NoDeafSubscriber SlotsAccounted NoLostWakeup InvalidatedIsClosed
CHECK_DEADLOCK FALSE
PROPERTIES CloseEnds
