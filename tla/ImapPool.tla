-------------------------------- MODULE ImapPool --------------------------------
(***************************************************************************)
(* The pool of IMAP connections.  Callers borrow authenticated connections *)
(* and return them; subscribers share one watcher per folder; revisions    *)
(* invalidate the connections of a mailbox or of a provider connection,    *)
(* and Close ends everything.  Slots are limited globally, per provider    *)
(* connection and per mailbox; the last two are called places here.        *)
(*                                                                         *)
(* An action is what happens under the pool's mutex, under a watcher's     *)
(* mutex, or between two such sections.  A caller makes one call of Get,   *)
(* uses what it got and puts it back; it dials at most once, so that a     *)
(* connection is named after the caller that dialled it, and a watcher     *)
(* after the subscriber that created it.                                   *)
(***************************************************************************)
EXTENDS Integers, Sequences, FiniteSets, SequencesExt

CONSTANTS
    Callers,        \* calls of Get or GetFresh
    Fresh,          \* those of GetFresh
    Subscribers,    \* calls of SubscribeChecked
    Creds,          \* login identities: mailbox, revisions and credential generation
    CredOf,         \* [Callers \cup Subscribers -> Creds]
    Folders, FolderOf,  \* FolderOf \in [Subscribers -> Folders]
    Places,         \* provider connections and mailboxes
    PlacesOf,       \* [Creds -> SUBSET Places]
    Invalidations,  \* calls of InvalidateConnection and InvalidateMailbox
    TargetOf,       \* [Invalidations -> Places]
    Parties,        \* the sets of clients that may come together
    Closer,         \* the call of Close
    None,           \* no connection, no watcher
    GlobalMax,      \* cfg.MaxConns
    PlaceMax,       \* [Places -> Nat]: 8 for a provider connection, 3 for a mailbox
    WatchReserve,   \* slots watchers leave to callers: 4
    PlaceReserve,   \* [Places -> Nat]: 2 for a provider connection, 0 for a mailbox
    PerCredIdle     \* idle connections kept for one login

Clients == Callers \cup Subscribers
Sweeps == Invalidations \cup {Closer}

ASSUME PoolAssumption ==
    /\ Callers \cap Subscribers = {}
    /\ Fresh \subseteq Callers
    /\ CredOf \in [Clients -> Creds]
    /\ FolderOf \in [Subscribers -> Folders]
    /\ PlacesOf \in [Creds -> SUBSET Places]
    /\ TargetOf \in [Invalidations -> Places]
    /\ Closer \notin Invalidations
    /\ Parties \subseteq SUBSET Clients
    /\ None \notin Clients
    /\ GlobalMax \in Nat /\ WatchReserve \in Nat /\ PerCredIdle \in Nat
    /\ PlaceMax \in [Places -> Nat] /\ PlaceReserve \in [Places -> Nat]

VARIABLES
    \* the pool
    closed,
    sem,            \* len(p.sem)
    use,            \* connectionUse and mailboxUse
    epoch,          \* connectionEpoch and mailboxEpoch
    idle,           \* [Creds -> Seq(connections)]
    listed,         \* p.all
    wtch,           \* [Creds \X Folders -> watchers]
    \* callers and subscribers
    pc,
    seen,           \* the epochs each read at the start
    conn,           \* the connection a caller holds, the watcher a subscriber joins
    cancelled,      \* callers whose dial context was cancelled
    \* connections
    cstate,         \* see ConnStates
    broken,
    reaped,         \* taken by the reaper, not closed yet
    \* watchers
    wstate,         \* see WatcherStates
    stopped,
    subs,           \* subscribers with an open channel
    delisting,      \* shutdown has still to remove it from the pool
    lingering,      \* a timer of fifteen seconds runs
    doomed,         \* the timer fired and found no subscriber
    \* invalidations and Close
    spc,
    current,        \* the connection being closed
    sweep, wsweep   \* connections to close, watchers to shut down

poolVars == <<closed, sem, use, epoch, idle, listed, wtch>>
clientVars == <<pc, seen, conn, cancelled>>
connVars == <<cstate, broken, reaped>>
watcherVars == <<wstate, stopped, subs, delisting, lingering, doomed>>
sweepVars == <<spc, current, sweep, wsweep>>
vars == <<poolVars, clientVars, connVars, watcherVars, sweepVars>>

\* "cut": the client is closed, the pool does not know yet; then the steps of close.
ConnStates == {"none", "open", "cut", "closing", "unlisted", "closed"}
\* "made": not yet running; "ended": session returned; "released": gave its slot back.
WatcherStates == {"none", "made", "new", "dialing", "open", "ended", "released", "gone"}

ClientStates == {"start", "taken", "discarding", "reserving", "asleep", "woken", "reserved",
                 "refused", "dialing", "dialed", "rejected", "failed", "using", "putting",
                 "closing", "duplicate", "joining", "starting", "listening", "done"}

Key(b) == <<CredOf[b], FolderOf[b]>>
EpochsOf(x) == [p \in PlacesOf[CredOf[x]] |-> epoch[p]]

TypeOK ==
    /\ closed \in BOOLEAN
    /\ sem \in 0..GlobalMax
    /\ use \in [Places -> Nat]
    /\ epoch \in [Places -> Nat]
    /\ idle \in [Creds -> Seq(Callers)]
    /\ listed \subseteq Callers
    /\ wtch \in [Creds \X Folders -> Subscribers \cup {None}]
    /\ pc \in [Clients -> ClientStates]
    /\ conn \in [Clients -> Clients \cup {None}]
    /\ cancelled \subseteq Callers
    /\ cstate \in [Callers -> ConnStates]
    /\ broken \subseteq Callers /\ reaped \subseteq Callers
    /\ wstate \in [Subscribers -> WatcherStates]
    /\ subs \in [Subscribers -> SUBSET Subscribers]
    /\ UNION {stopped, delisting, lingering, doomed} \subseteq Subscribers
    /\ spc \in [Sweeps -> {"ready", "closing", "waiting", "done"}]
    /\ current \in [Sweeps -> Callers \cup {None}]
    /\ sweep \in [Sweeps -> SUBSET Callers]
    /\ wsweep \in [Sweeps -> SUBSET Subscribers]

Init ==
    /\ closed = FALSE
    /\ sem = 0
    /\ use = [p \in Places |-> 0]
    /\ epoch = [p \in Places |-> 0]
    /\ idle = [d \in Creds |-> <<>>]
    /\ listed = {}
    /\ wtch = [key \in Creds \X Folders |-> None]
    /\ \E party \in Parties : pc = [x \in Clients |-> IF x \in party THEN "start" ELSE "done"]
    /\ seen = [x \in Clients |-> EpochsOf(x)]
    /\ conn = [x \in Clients |-> None]
    /\ cancelled = {}
    /\ cstate = [k \in Callers |-> "none"]
    /\ broken = {}
    /\ reaped = {}
    /\ wstate = [w \in Subscribers |-> "none"]
    /\ stopped = {}
    /\ subs = [w \in Subscribers |-> {}]
    /\ delisting = {}
    /\ lingering = {}
    /\ doomed = {}
    /\ spc = [s \in Sweeps |-> "ready"]
    /\ current = [s \in Sweeps |-> None]
    /\ sweep = [s \in Sweeps |-> {}]
    /\ wsweep = [s \in Sweeps |-> {}]

Goto(x, state) == pc' = [pc EXCEPT ![x] = state]

-----------------------------------------------------------------------------
(* Slots *)

Room(d) == sem < GlobalMax /\ \A p \in PlacesOf[d] : use[p] < PlaceMax[p]

RoomToWatch(d) ==
    /\ sem < GlobalMax - WatchReserve
    /\ \A p \in PlacesOf[d] : use[p] < PlaceMax[p] - PlaceReserve[p]

TakeSlot(d) ==
    /\ sem' = sem + 1
    /\ use' = [p \in Places |-> IF p \in PlacesOf[d] THEN use[p] + 1 ELSE use[p]]

\* Mutant: release forgets to close the channel.
WakeNobody(states) == states

\* release closes the channel that every waiting caller listens to.
Wake(states) == [x \in Clients |-> IF states[x] = "asleep" THEN "woken" ELSE states[x]]

GiveSlot(d, states) ==
    /\ sem' = sem - 1
    /\ use' = [p \in Places |-> IF p \in PlacesOf[d] THEN use[p] - 1 ELSE use[p]]
    /\ pc' = Wake(states)

-----------------------------------------------------------------------------
(* Closing a connection *)

\* The first who closes it marks it and closes the client; everybody else waits.
Shut(k) ==
    /\ cstate' = [cstate EXCEPT ![k] = IF @ \in {"open", "cut"} THEN "closing" ELSE @]
    /\ broken' = broken \cup {k}

Unlist(k) ==
    /\ cstate[k] = "closing"
    /\ cstate' = [cstate EXCEPT ![k] = "unlisted"]
    /\ listed' = listed \ {k}
    /\ UNCHANGED <<closed, sem, use, epoch, idle, wtch, clientVars, broken, reaped,
                   watcherVars, sweepVars>>

\* Mutant: the slot of a connection is not given back.
ReleaseNothing(k) ==
    /\ cstate[k] = "unlisted"
    /\ cstate' = [cstate EXCEPT ![k] = "closed"]
    /\ UNCHANGED <<poolVars, clientVars, broken, reaped, watcherVars, sweepVars>>

ReleaseConn(k) ==
    /\ cstate[k] = "unlisted"
    /\ cstate' = [cstate EXCEPT ![k] = "closed"]
    /\ GiveSlot(CredOf[k], pc)
    /\ UNCHANGED <<closed, epoch, idle, listed, wtch, seen, conn, cancelled, broken, reaped,
                   watcherVars, sweepVars>>

\* The server, or the network, ends a connection.
Cut(k) ==
    /\ cstate[k] = "open"
    /\ cstate' = [cstate EXCEPT ![k] = "cut"]
    /\ UNCHANGED <<poolVars, clientVars, broken, reaped, watcherVars, sweepVars>>

\* The elements of s that are in T, in their order.
Only(s, T) ==
    LET upTo[i \in 0..Len(s)] ==
            IF i = 0 THEN <<>>
            ELSE IF s[i] \in T THEN Append(upTo[i - 1], s[i]) ELSE upTo[i - 1]
    IN upTo[Len(s)]

\* The reaper takes idle connections that are old, the oldest first, or dead.
Reap ==
    /\ ~closed
    /\ \E old \in [Creds -> 0..PerCredIdle] :
        LET Stays(d, i) == i > old[d] /\ cstate[idle[d][i]] = "open"
            Kept(d) == {idle[d][i] : i \in {j \in DOMAIN idle[d] : Stays(d, j)}}
            Victims == UNION {ToSet(idle[d]) \ Kept(d) : d \in Creds}
        IN
        /\ Victims # {}
        /\ idle' = [d \in Creds |-> Only(idle[d], Kept(d))]
        /\ reaped' = reaped \cup Victims
    /\ UNCHANGED <<closed, sem, use, epoch, listed, wtch, clientVars, cstate, broken,
                   watcherVars, sweepVars>>

CloseReaped(k) ==
    /\ k \in reaped
    /\ reaped' = reaped \ {k}
    /\ Shut(k)
    /\ UNCHANGED <<poolVars, clientVars, watcherVars, sweepVars>>

-----------------------------------------------------------------------------
(* Get *)

\* An idle connection is handed out, the one used last first.
TakeIdle(c) ==
    LET d == CredOf[c] IN
    /\ pc[c] = "start"
    /\ ~closed
    /\ c \notin Fresh /\ idle[d] # <<>>
    /\ conn' = [conn EXCEPT ![c] = Last(idle[d])]
    /\ idle' = [idle EXCEPT ![d] = Front(@)]
    /\ Goto(c, "taken")
    /\ UNCHANGED <<closed, sem, use, epoch, listed, wtch, seen, cancelled, connVars,
                   watcherVars, sweepVars>>

\* Without one, the caller remembers the epochs and asks for a slot.
StartDial(c) ==
    /\ pc[c] = "start"
    /\ \/ closed /\ Goto(c, "done") /\ UNCHANGED seen
       \/ /\ ~closed
          /\ c \in Fresh \/ idle[CredOf[c]] = <<>>
          /\ seen' = [seen EXCEPT ![c] = EpochsOf(c)]
          /\ Goto(c, "reserving")
    /\ UNCHANGED <<poolVars, conn, cancelled, connVars, watcherVars, sweepVars>>

\* An idle connection that died meanwhile is closed, and Get starts again.
CheckTaken(c) ==
    /\ pc[c] = "taken"
    /\ \/ cstate[conn[c]] = "open" /\ Goto(c, "using") /\ UNCHANGED <<cstate, broken>>
       \/ cstate[conn[c]] # "open" /\ Goto(c, "discarding") /\ Shut(conn[c])
    /\ UNCHANGED <<poolVars, seen, conn, cancelled, reaped, watcherVars, sweepVars>>

StartAgain(c) ==
    /\ pc[c] = "discarding"
    /\ cstate[conn[c]] = "closed"
    /\ conn' = [conn EXCEPT ![c] = None]
    /\ Goto(c, "start")
    /\ UNCHANGED <<poolVars, seen, cancelled, connVars, watcherVars, sweepVars>>

\* reserve: a slot, or sleep until one is given back.
Reserve(c) ==
    /\ pc[c] \in {"reserving", "woken"}
    /\ \/ closed /\ Goto(c, "done") /\ UNCHANGED <<sem, use>>
       \/ ~closed /\ Room(CredOf[c]) /\ TakeSlot(CredOf[c]) /\ Goto(c, "reserved")
       \/ ~closed /\ ~Room(CredOf[c]) /\ Goto(c, "asleep") /\ UNCHANGED <<sem, use>>
    /\ UNCHANGED <<closed, epoch, idle, listed, wtch, seen, conn, cancelled, connVars,
                   watcherVars, sweepVars>>

\* Ten seconds pass, or the client goes away.
GiveUp(c) ==
    /\ pc[c] \in {"asleep", "woken"}
    /\ Goto(c, "done")
    /\ UNCHANGED <<poolVars, seen, conn, cancelled, connVars, watcherVars, sweepVars>>

\* Dialling starts if nothing was invalidated since.
Admit(c) ==
    /\ pc[c] = "reserved"
    /\ \/ ~closed /\ seen[c] = EpochsOf(c) /\ Goto(c, "dialing")
       \/ closed /\ Goto(c, "refused")
       \/ seen[c] # EpochsOf(c) /\ Goto(c, "refused")
    /\ UNCHANGED <<poolVars, seen, conn, cancelled, connVars, watcherVars, sweepVars>>

Dial(c) ==
    /\ pc[c] = "dialing"
    /\ \/ /\ cstate' = [cstate EXCEPT ![c] = "open"]
          /\ broken' = IF c \in Fresh THEN broken \cup {c} ELSE broken
          /\ Goto(c, "dialed")
       \/ Goto(c, "failed") /\ UNCHANGED <<cstate, broken>>
    /\ UNCHANGED <<poolVars, seen, conn, cancelled, reaped, watcherVars, sweepVars>>

\* The slot of a dial that did not take place or failed.
DialReleases(c) ==
    /\ pc[c] \in {"refused", "failed"}
    /\ GiveSlot(CredOf[c], [pc EXCEPT ![c] = "done"])
    /\ UNCHANGED <<closed, epoch, idle, listed, wtch, seen, conn, cancelled, connVars,
                   watcherVars, sweepVars>>

\* Mutant: an invalidation during the dial goes unnoticed.
RegisterUnchecked(c) ==
    /\ pc[c] = "dialed"
    /\ \/ /\ ~closed
          /\ listed' = listed \cup {c}
          /\ conn' = [conn EXCEPT ![c] = c]
          /\ Goto(c, "using")
          /\ UNCHANGED <<cstate, broken>>
       \/ closed /\ Shut(c) /\ Goto(c, "rejected") /\ UNCHANGED <<listed, conn>>
    /\ UNCHANGED <<closed, sem, use, epoch, idle, wtch, seen, cancelled, reaped,
                   watcherVars, sweepVars>>

\* The connection is handed out if nothing was invalidated during the dial either.  The
\* caller may be gone by then, which cancels the dial as well.
Register(c) ==
    LET valid == ~closed /\ c \notin cancelled /\ seen[c] = EpochsOf(c) IN
    /\ pc[c] = "dialed"
    /\ \/ /\ valid
          /\ listed' = listed \cup {c}
          /\ conn' = [conn EXCEPT ![c] = c]
          /\ Goto(c, "using")
          /\ UNCHANGED <<cstate, broken>>
       \/ Shut(c) /\ Goto(c, "rejected") /\ UNCHANGED <<listed, conn>>
    /\ UNCHANGED <<closed, sem, use, epoch, idle, wtch, seen, cancelled, reaped,
                   watcherVars, sweepVars>>

\* The caller may find its connection in a state it does not want to return it in.
MarkBroken(c) ==
    /\ pc[c] = "using"
    /\ conn[c] \notin broken
    /\ broken' = broken \cup {conn[c]}
    /\ UNCHANGED <<poolVars, clientVars, cstate, reaped, watcherVars, sweepVars>>

\* Put, before and under the mutex.
Put(c) ==
    LET k == conn[c] IN
    /\ pc[c] = "using"
    /\ \/ k \notin broken /\ cstate[k] = "open" /\ Goto(c, "putting")
          /\ UNCHANGED <<cstate, broken>>
       \/ (k \in broken \/ cstate[k] # "open") /\ Shut(k) /\ Goto(c, "closing")
    /\ UNCHANGED <<poolVars, seen, conn, cancelled, reaped, watcherVars, sweepVars>>

Keep(c) ==
    LET k == conn[c]
        d == CredOf[k]
        fits == ~closed /\ k \notin broken /\ cstate[k] = "open" /\ Len(idle[d]) < PerCredIdle
    IN
    /\ pc[c] = "putting"
    /\ \/ /\ fits
          /\ idle' = [idle EXCEPT ![d] = Append(@, k)]
          /\ conn' = [conn EXCEPT ![c] = None]
          /\ Goto(c, "done")
          /\ UNCHANGED <<cstate, broken>>
       \/ ~fits /\ Shut(k) /\ Goto(c, "closing") /\ UNCHANGED <<idle, conn>>
    /\ UNCHANGED <<closed, sem, use, epoch, listed, wtch, seen, cancelled, reaped,
                   watcherVars, sweepVars>>

\* The caller returns when its connection is closed.
Closed(c) ==
    /\ \/ pc[c] = "closing" /\ cstate[conn[c]] = "closed"
       \/ pc[c] = "rejected" /\ cstate[c] = "closed"
    /\ conn' = [conn EXCEPT ![c] = None]
    /\ Goto(c, "done")
    /\ UNCHANGED <<poolVars, seen, cancelled, connVars, watcherVars, sweepVars>>

-----------------------------------------------------------------------------
(* Watchers *)

\* SubscribeChecked joins the watcher of the folder, or asks for a slot to create it.
Subscribe(b) ==
    /\ pc[b] = "start"
    /\ \/ closed /\ Goto(b, "done") /\ UNCHANGED <<conn, seen>>
       \/ /\ ~closed
          /\ wtch[Key(b)] # None
          /\ conn' = [conn EXCEPT ![b] = wtch[Key(b)]]
          /\ Goto(b, "joining")
          /\ UNCHANGED seen
       \/ /\ ~closed
          /\ wtch[Key(b)] = None
          /\ seen' = [seen EXCEPT ![b] = EpochsOf(b)]
          /\ Goto(b, "reserving")
          /\ UNCHANGED conn
    /\ UNCHANGED <<poolVars, cancelled, connVars, watcherVars, sweepVars>>

\* A subscriber does not wait for a slot.
ReserveWatch(b) ==
    /\ pc[b] = "reserving"
    /\ \/ ~closed /\ RoomToWatch(CredOf[b]) /\ TakeSlot(CredOf[b]) /\ Goto(b, "reserved")
       \/ (closed \/ ~RoomToWatch(CredOf[b])) /\ Goto(b, "done") /\ UNCHANGED <<sem, use>>
    /\ UNCHANGED <<closed, epoch, idle, listed, wtch, seen, conn, cancelled, connVars,
                   watcherVars, sweepVars>>

\* The watcher is created unless something was invalidated or another subscriber was faster.
CreateWatcher(b) ==
    LET valid == ~closed /\ seen[b] = EpochsOf(b) IN
    /\ pc[b] = "reserved"
    /\ \/ ~valid /\ Goto(b, "refused") /\ UNCHANGED <<wtch, wstate, conn>>
       \/ valid /\ wtch[Key(b)] # None /\ Goto(b, "duplicate")
          /\ UNCHANGED <<wtch, wstate, conn>>
       \/ /\ valid /\ wtch[Key(b)] = None
          /\ wtch' = [wtch EXCEPT ![Key(b)] = b]
          /\ wstate' = [wstate EXCEPT ![b] = "made"]
          /\ conn' = [conn EXCEPT ![b] = b]
          /\ Goto(b, "starting")
    /\ UNCHANGED <<closed, sem, use, epoch, idle, listed, seen, cancelled, connVars,
                   stopped, subs, delisting, lingering, doomed, sweepVars>>

SubscribeReleases(b) ==
    /\ pc[b] \in {"refused", "duplicate"}
    /\ GiveSlot(CredOf[b], [pc EXCEPT ![b] = IF @ = "duplicate" THEN "start" ELSE "done"])
    /\ UNCHANGED <<closed, epoch, idle, listed, wtch, seen, conn, cancelled, connVars,
                   watcherVars, sweepVars>>

\* Mutant: a watcher that was stopped before its first subscriber joined is not run.
JoinWithoutRunning(b) ==
    LET w == conn[b] IN
    /\ pc[b] \in {"joining", "starting"}
    /\ \/ w \in stopped /\ Goto(b, "done") /\ UNCHANGED <<subs, wstate>>
       \/ /\ w \notin stopped
          /\ subs' = [subs EXCEPT ![w] = @ \cup {b}]
          /\ wstate' = [wstate EXCEPT ![w] = IF pc[b] = "starting" THEN "new" ELSE @]
          /\ Goto(b, "listening")
    /\ UNCHANGED <<poolVars, seen, conn, cancelled, connVars, stopped, delisting, lingering,
                   doomed, sweepVars>>

\* Mutant: a subscriber joins a watcher without looking whether it was stopped.
JoinStopped(b) ==
    LET w == conn[b] IN
    /\ pc[b] \in {"joining", "starting"}
    /\ subs' = [subs EXCEPT ![w] = @ \cup {b}]
    /\ wstate' = [wstate EXCEPT ![w] = IF pc[b] = "starting" THEN "new" ELSE @]
    /\ Goto(b, "listening")
    /\ UNCHANGED <<poolVars, seen, conn, cancelled, connVars, stopped, delisting, lingering,
                   doomed, sweepVars>>

\* The subscriber's channel is added, and whoever created the watcher starts it.
Join(b) ==
    LET w == conn[b] IN
    /\ pc[b] \in {"joining", "starting"}
    /\ wstate' = [wstate EXCEPT ![w] = IF pc[b] = "starting" THEN "new" ELSE @]
    /\ \/ w \in stopped /\ Goto(b, "done") /\ UNCHANGED subs
       \/ w \notin stopped /\ subs' = [subs EXCEPT ![w] = @ \cup {b}] /\ Goto(b, "listening")
    /\ UNCHANGED <<poolVars, seen, conn, cancelled, connVars, stopped, delisting, lingering,
                   doomed, sweepVars>>

\* The client goes away, or its channel was closed; the last one starts a timer.
Unsubscribe(b) ==
    LET w == conn[b] IN
    /\ pc[b] = "listening"
    /\ subs' = [subs EXCEPT ![w] = @ \ {b}]
    /\ lingering' = IF subs'[w] = {} THEN lingering \cup {w} ELSE lingering
    /\ Goto(b, "done")
    /\ UNCHANGED <<poolVars, seen, conn, cancelled, connVars, wstate, stopped, delisting,
                   doomed, sweepVars>>

Linger(w) ==
    /\ w \in lingering
    /\ lingering' = lingering \ {w}
    /\ doomed' = IF subs[w] = {} THEN doomed \cup {w} ELSE doomed
    /\ UNCHANGED <<poolVars, clientVars, connVars, wstate, stopped, subs, delisting, sweepVars>>

\* shutdown under the watcher's mutex; only the first call has an effect.
Stop(w) ==
    /\ stopped' = stopped \cup {w}
    /\ subs' = [subs EXCEPT ![w] = IF w \in stopped THEN @ ELSE {}]
    /\ delisting' = IF w \in stopped THEN delisting ELSE delisting \cup {w}

StopDoomed(w) ==
    /\ w \in doomed
    /\ doomed' = doomed \ {w}
    /\ Stop(w)
    /\ UNCHANGED <<poolVars, clientVars, connVars, wstate, lingering, sweepVars>>

\* ... and under the pool's.
Delist(w) ==
    /\ w \in delisting
    /\ delisting' = delisting \ {w}
    /\ wtch' = [key \in DOMAIN wtch |-> IF wtch[key] = w THEN None ELSE wtch[key]]
    /\ UNCHANGED <<closed, sem, use, epoch, idle, listed, clientVars, connVars, wstate, stopped,
                   subs, lingering, doomed, sweepVars>>

\* The session of a watcher: it dials, watches, and ends when it is stopped or on an error.
Session(w) ==
    /\ \/ /\ wstate[w] = "new"
          /\ wstate' = [wstate EXCEPT ![w] = IF w \in stopped THEN "ended" ELSE "dialing"]
       \/ /\ wstate[w] = "dialing"
          /\ \/ w \notin stopped /\ wstate' = [wstate EXCEPT ![w] = "open"]
             \/ wstate' = [wstate EXCEPT ![w] = "ended"]
       \/ /\ wstate[w] = "open"
          /\ w \in stopped
          /\ wstate' = [wstate EXCEPT ![w] = "ended"]
    /\ UNCHANGED <<poolVars, clientVars, connVars, stopped, subs, delisting, lingering, doomed,
                   sweepVars>>

WatchFails(w) ==
    /\ wstate[w] = "open"
    /\ wstate' = [wstate EXCEPT ![w] = "ended"]
    /\ UNCHANGED <<poolVars, clientVars, connVars, stopped, subs, delisting, lingering, doomed,
                   sweepVars>>

\* run then gives the slot back, shuts the watcher down if nobody did, and is done.
ReleaseWatch(w) ==
    /\ wstate[w] = "ended"
    /\ wstate' = [wstate EXCEPT ![w] = "released"]
    /\ GiveSlot(CredOf[w], pc)
    /\ UNCHANGED <<closed, epoch, idle, listed, wtch, seen, conn, cancelled, connVars,
                   stopped, subs, delisting, lingering, doomed, sweepVars>>

\* Mutant: shutdown gives the slot of the watcher back a second time.
EndWatchReleasing(w) ==
    /\ wstate[w] = "released"
    /\ wstate' = [wstate EXCEPT ![w] = "gone"]
    /\ Stop(w)
    /\ GiveSlot(CredOf[w], pc)
    /\ UNCHANGED <<closed, epoch, idle, listed, wtch, seen, conn, cancelled, connVars,
                   lingering, doomed, sweepVars>>

EndWatch(w) ==
    /\ wstate[w] = "released"
    /\ wstate' = [wstate EXCEPT ![w] = "gone"]
    /\ Stop(w)
    /\ UNCHANGED <<poolVars, clientVars, connVars, lingering, doomed, sweepVars>>

-----------------------------------------------------------------------------
(* Invalidation and Close *)

Pending == {c \in Callers : pc[c] \in {"dialing", "dialed", "rejected", "failed"}}

\* What a sweep has to end, seen under the mutex: dials, connections and watchers.
Collect(s, creds) ==
    /\ cancelled' = cancelled \cup {c \in Pending : CredOf[c] \in creds}
    /\ sweep' = [sweep EXCEPT ![s] = {k \in listed : CredOf[k] \in creds}]
    /\ wsweep' = [wsweep EXCEPT ![s] = {w \in Subscribers : /\ wtch[Key(w)] = w
                                                            /\ CredOf[w] \in creds}]
    /\ spc' = [spc EXCEPT ![s] = "closing"]

Invalidate(s) ==
    LET creds == {d \in Creds : TargetOf[s] \in PlacesOf[d]} IN
    /\ spc[s] = "ready"
    /\ epoch' = [epoch EXCEPT ![TargetOf[s]] = @ + 1]
    /\ idle' = [d \in Creds |-> IF d \in creds /\ (\E k \in listed : CredOf[k] = d)
                                  THEN <<>>
                                  ELSE idle[d]]
    /\ Collect(s, creds)
    /\ UNCHANGED <<closed, sem, use, listed, wtch, pc, seen, conn, connVars, watcherVars,
                   current>>

Close ==
    /\ spc[Closer] = "ready"
    /\ closed' = TRUE
    /\ idle' = [d \in Creds |-> <<>>]
    /\ Collect(Closer, Creds)
    /\ UNCHANGED <<sem, use, epoch, listed, wtch, pc, seen, conn, connVars, watcherVars,
                   current>>

\* The connections are closed one after the other.
SweepConn(s) ==
    /\ spc[s] = "closing"
    /\ current[s] = None
    /\ \E k \in sweep[s] :
        /\ Shut(k)
        /\ current' = [current EXCEPT ![s] = k]
        /\ sweep' = [sweep EXCEPT ![s] = @ \ {k}]
    /\ UNCHANGED <<poolVars, clientVars, reaped, watcherVars, spc, wsweep>>

SweptConn(s) ==
    /\ current[s] # None
    /\ cstate[current[s]] = "closed"
    /\ current' = [current EXCEPT ![s] = None]
    /\ UNCHANGED <<poolVars, clientVars, connVars, watcherVars, spc, sweep, wsweep>>

SweepWatcher(s) ==
    /\ spc[s] = "closing"
    /\ current[s] = None /\ sweep[s] = {}
    /\ \E w \in wsweep[s] :
        /\ Stop(w)
        /\ wsweep' = [wsweep EXCEPT ![s] = @ \ {w}]
    /\ UNCHANGED <<poolVars, clientVars, connVars, wstate, lingering, doomed, spc, current,
                   sweep>>

Swept(s) ==
    /\ spc[s] = "closing"
    /\ current[s] = None /\ sweep[s] = {} /\ wsweep[s] = {}
    /\ spc' = [spc EXCEPT ![s] = IF s = Closer THEN "waiting" ELSE "done"]
    /\ UNCHANGED <<poolVars, clientVars, connVars, watcherVars, current, sweep, wsweep>>

\* Close waits for dials and watchers.
CloseReturns ==
    /\ spc[Closer] = "waiting"
    /\ Pending = {}
    /\ \A w \in Subscribers : wstate[w] \in {"none", "gone"}
    /\ spc' = [spc EXCEPT ![Closer] = "done"]
    /\ UNCHANGED <<poolVars, clientVars, connVars, watcherVars, current, sweep, wsweep>>

-----------------------------------------------------------------------------

CallerStep(c) ==
    \/ TakeIdle(c) \/ StartDial(c) \/ CheckTaken(c) \/ StartAgain(c) \/ Reserve(c) \/ GiveUp(c)
    \/ Admit(c) \/ Dial(c) \/ DialReleases(c) \/ Register(c) \/ Put(c) \/ Keep(c) \/ Closed(c)

ConnStep(k) == Unlist(k) \/ ReleaseConn(k) \/ CloseReaped(k)

SubscriberStep(b) ==
    Subscribe(b) \/ ReserveWatch(b) \/ CreateWatcher(b) \/ SubscribeReleases(b) \/ Join(b)

WatcherStep(w) ==
    \/ Linger(w) \/ StopDoomed(w) \/ Delist(w) \/ Session(w) \/ ReleaseWatch(w) \/ EndWatch(w)

SweepStep(s) == SweepConn(s) \/ SweptConn(s) \/ SweepWatcher(s) \/ Swept(s)

Next ==
    \/ \E c \in Callers : CallerStep(c) \/ ConnStep(c) \/ MarkBroken(c) \/ Cut(c)
    \/ \E b \in Subscribers : SubscriberStep(b) \/ Unsubscribe(b)
    \/ \E w \in Subscribers : WatcherStep(w) \/ WatchFails(w)
    \/ \E s \in Invalidations : Invalidate(s)
    \/ \E s \in Sweeps : SweepStep(s)
    \/ Reap \/ Close \/ CloseReturns

Spec == Init /\ [][Next]_vars

\* Goroutines run, dials end at their deadline, a locked mutex is unlocked again.
FairSpec ==
    /\ Spec
    /\ \A c \in Callers : WF_vars(CallerStep(c)) /\ WF_vars(ConnStep(c))
    /\ \A b \in Subscribers : WF_vars(SubscriberStep(b)) /\ WF_vars(WatcherStep(b))
    /\ \A s \in Sweeps : WF_vars(SweepStep(s))
    /\ WF_vars(CloseReturns)

-----------------------------------------------------------------------------
(* Properties *)

\* Everybody who holds a slot, a caller's connection or a watcher.
Holders ==
    {c \in Callers : \/ pc[c] \in {"reserved", "refused", "dialing", "failed"}
                     \/ cstate[c] \in {"open", "cut", "closing", "unlisted"}}
    \cup
    {b \in Subscribers : \/ pc[b] \in {"reserved", "refused", "duplicate"}
                         \/ wstate[b] \in {"made", "new", "dialing", "open", "ended"}}

\* A connection is lent to one caller at a time, never while it lies among the idle ones or is
\* there twice, and never to a caller with another login than the one it was dialled with
\* (get and Put, with the reaper and invalidations between them).
LentOnce ==
    /\ \A c, e \in Callers : conn[c] # None /\ conn[c] = conn[e] => c = e
    /\ \A d \in Creds : \A i, j \in DOMAIN idle[d] : idle[d][i] = idle[d][j] => i = j
    /\ \A c \in Callers, d \in Creds : conn[c] \notin ToSet(idle[d])
    /\ \A c \in Callers : conn[c] # None => CredOf[conn[c]] = CredOf[c]

\* Each slot is held by one client and given back once, on every path through failed dials,
\* invalidations, dead idle connections, the reaper and Close (reserve, release, close); and
\* what holds it is not handed to two.
SlotsAccounted ==
    /\ sem = Cardinality(Holders)
    /\ \A p \in Places : use[p] = Cardinality({x \in Holders : p \in PlacesOf[CredOf[x]]})
    /\ LentOnce

\* A caller sleeps in reserve only while there is no room for it: release cannot slip between
\* its look at the counters and its sleep.
NoLostWakeup == \A c \in Callers : pc[c] = "asleep" => ~Room(CredOf[c])

\* When Close has returned, no connection to a server is left.
ClosedIsEmpty ==
    spc[Closer] = "done" =>
        /\ \A c \in Callers : cstate[c] # "open" /\ pc[c] \notin {"dialing", "dialed"}
        /\ \A w \in Subscribers : wstate[w] \notin {"dialing", "open"}

\* Once an invalidation is over, every connection and watcher of the pool was asked for after
\* it; until then, those that are left are about to be closed (invalidate, the epochs of get
\* and SubscribeChecked).  Close, the last invalidation of all, leaves nothing behind.
InvalidatedIsClosed ==
    /\ ClosedIsEmpty
    /\ \A k \in listed : cstate[k] = "open" =>
         seen[k] = EpochsOf(k) \/ \E s \in Sweeps : k \in sweep[s]
    /\ \A w \in Subscribers : wtch[Key(w)] = w /\ w \notin stopped =>
         seen[w] = EpochsOf(w) \/ \E s \in Sweeps : w \in wsweep[s]

\* A subscriber whose channel is open has a watcher that runs or is about to.
NoDeafSubscriber ==
    \A w \in Subscribers : subs[w] # {} => wstate[w] \notin {"none", "gone"} /\ w \notin stopped

\* Close returns, whatever callers, subscribers and servers are doing.
CloseEnds == spc[Closer] = "closing" ~> spc[Closer] = "done"
=================================================================================
