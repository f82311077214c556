---------------------------- MODULE ImapPoolProofs ----------------------------
(***************************************************************************)
(* Proofs about ImapPool, for every set of callers, subscribers, logins,   *)
(* places and invalidations and for every value of the limits.             *)
(*                                                                         *)
(* The types rest on the books: a counter stays natural because whoever    *)
(* decrements it is counted.  The books rest on the phases, which say that *)
(* nobody who gives a slot back holds another one.  What invalidations     *)
(* leave behind rests on what each sweep has still to close, and lending   *)
(* on the lists having no connection twice, for which Only, the one        *)
(* recursive function of the model, is shown by induction to return a part.  *)
(***************************************************************************)
EXTENDS ImapPool, TLAPS, FiniteSetTheorems, SequenceTheorems, WellFoundedInduction

-----------------------------------------------------------------------------
(* Sequences *)

(* Every set of natural numbers that is not empty has a least element. *)
LEMMA LeastElement ==
  ASSUME NEW T \in SUBSET Nat, T # {}
  PROVE  \E x \in T : \A y \in T : x <= y
<1> DEFINE R == OpToRel(<, Nat)
<1>1. IsWellFoundedOn(R, Nat)
  BY NatLessThanWellFounded
<1>2. \A x, y \in Nat : y < x => <<y, x>> \in R
  BY DEF OpToRel
<1> HIDE DEF R
<1>3. T \subseteq Nat
  OBVIOUS
<1>4. PICK x \in T : \A y \in T : ~ (<<y, x>> \in R)
  <2>1. \E x \in T : \A y \in T : ~ (<<y, x>> \in R)
    BY <1>1, <1>3, WFMin, Zenon
  <2> QED BY <2>1, Zenon
<1>5. ASSUME NEW y \in T PROVE x <= y
  <2>1. x \in Nat /\ y \in Nat OBVIOUS
  <2>2. ~ (y < x) BY <1>2, <1>4, <2>1, Zenon
  <2> QED BY <2>1, <2>2
<1> QED BY <1>5

(* Induction, for a set: one with 0 and with the successor of each of its numbers has them all. *)
LEMMA SetInduction ==
  ASSUME NEW S, 0 \in S, \A n \in Nat : n \in S => n + 1 \in S
  PROVE  Nat \subseteq S
<1> SUFFICES ASSUME Nat \ S # {} PROVE FALSE
  OBVIOUS
<1>1. PICK x \in Nat \ S : \A y \in Nat \ S : x <= y
  BY LeastElement
<1>2. x # 0 /\ x - 1 \in Nat
  OBVIOUS
<1>3. x - 1 \in S
  BY <1>1, <1>2
<1> QED BY <1>2, <1>3

(* Front is the sequence without its last element (get: the list without the connection handed
   out). *)
LEMMA FrontProperties ==
  ASSUME NEW S, NEW s \in Seq(S), s # <<>>
  PROVE  /\ Front(s) \in Seq(S) /\ Last(s) \in S
         /\ Len(Front(s)) = Len(s) - 1
         /\ \A i \in 1 .. Len(s) - 1 : Front(s)[i] = s[i]
         /\ Last(s) = s[Len(s)] /\ Len(s) \in 1..Len(s)
<1>1. Len(s) \in Nat /\ Len(s) >= 1
  OBVIOUS
<1>2. Front(s) = SubSeq(s, 1, Len(s) - 1) /\ Last(s) = s[Len(s)]
  BY DEF Front, Last
<1>3. \A i \in 1 .. Len(s) - 1 : s[i] \in S
  OBVIOUS
<1>4. /\ SubSeq(s, 1, Len(s) - 1) \in Seq(S)
      /\ Len(SubSeq(s, 1, Len(s) - 1)) = IF 1 <= Len(s) - 1 THEN Len(s) - 1 - 1 + 1 ELSE 0
      /\ \A i \in 1 .. Len(s) - 1 - 1 + 1 : SubSeq(s, 1, Len(s) - 1)[i] = s[1 + i - 1]
  BY <1>1, <1>3, SubSeqProperties
<1>5. \A i \in 1 .. Len(s) - 1 : /\ i \in 1 .. Len(s) - 1 - 1 + 1 /\ 1 + i - 1 = i
  BY <1>1
<1>6. \A i \in 1 .. Len(s) - 1 : Front(s)[i] = s[i]
  BY <1>1, <1>2, <1>4, <1>5
<1>7. Front(s) \in Seq(S)
  BY <1>2, <1>4
<1>9. Len(Front(s)) = Len(s) - 1
  <2>1. \A n \in Nat : n >= 1 => (IF 1 <= n - 1 THEN n - 1 - 1 + 1 ELSE 0) = n - 1
    OBVIOUS
  <2> QED BY <1>1, <1>2, <1>4, <2>1
<1>8. Last(s) \in S /\ Last(s) = s[Len(s)] /\ Len(s) \in 1..Len(s)
  BY <1>1, <1>2
<1> QED BY <1>6, <1>7, <1>8, <1>9

(* r is a part of the first n elements of s, all of them in T. *)
IsOnly(r, s, n, T, S) ==
  /\ r \in Seq(S)
  /\ \A j \in DOMAIN r : r[j] \in T /\ \E h \in 1..n : r[j] = s[h]
  /\ (\A h, i \in 1..n : s[h] = s[i] => h = i) => \A h, i \in DOMAIN r : r[h] = r[i] => h = i

(* One more element of s. *)
LEMMA IsOnlyStep ==
  ASSUME NEW S, NEW T, NEW s \in Seq(S), NEW n \in 0 .. Len(s) - 1, NEW r,
         IsOnly(r, s, n, T, S)
  PROVE  IsOnly(IF s[n+1] \in T THEN Append(r, s[n+1]) ELSE r, s, n + 1, T, S)
<1>0. n \in Nat /\ Len(s) \in Nat /\ n + 1 \in 1..Len(s) /\ 1..n \subseteq 1..(n+1) /\ n+1 \in 1..(n+1)
  OBVIOUS
<1>1. CASE s[n+1] \notin T
  BY <1>0, <1>1 DEF IsOnly
<1>2. CASE s[n+1] \in T
  <2> DEFINE q == Append(r, s[n+1])
  <2>1. /\ q \in Seq(S) /\ Len(q) = Len(r) + 1 /\ DOMAIN q = 1..(Len(r) + 1)
        /\ \A i \in 1..Len(r) : q[i] = r[i]
        /\ q[Len(r) + 1] = s[n+1]
        /\ Len(r) \in Nat /\ DOMAIN r = 1..Len(r)
    BY <1>0, AppendProperties DEF IsOnly
  <2> HIDE DEF q
  <2>2. ASSUME NEW j \in DOMAIN q PROVE q[j] \in T /\ \E h \in 1..(n+1) : q[j] = s[h]
    <3>1. CASE j = Len(r) + 1
      BY <1>0, <1>2, <2>1, <3>1
    <3>2. CASE j \in DOMAIN r
      BY <1>0, <2>1, <3>2 DEF IsOnly
    <3> QED BY <2>1, <3>1, <3>2
  <2>3. ASSUME \A h, i \in 1..(n+1) : s[h] = s[i] => h = i
        PROVE  \A h, i \in DOMAIN q : q[h] = q[i] => h = i
    <3>1. \A h, i \in 1..Len(r) : q[h] = q[i] => h = i
      BY <1>0, <2>1, <2>3 DEF IsOnly
    <3>2. \A h \in 1..Len(r) : q[h] # s[n+1]
      BY <1>0, <2>1, <2>3 DEF IsOnly
    <3> QED BY <2>1, <3>1, <3>2
  <2> QED BY <1>2, <2>1, <2>2, <2>3 DEF IsOnly, q
<1> QED BY <1>1, <1>2

(* What Only returns, for every sequence: elements of s that are in T, none of them twice if s
   has none twice (reaper: the connections it keeps). *)
LEMMA OnlyProperties ==
  ASSUME NEW S, NEW s \in Seq(S), NEW T
  PROVE  IsOnly(Only(s, T), s, Len(s), T, S)
<1> DEFINE Def(f, i) == IF i = 0 THEN <<>>
                        ELSE IF s[i] \in T THEN Append(f[i - 1], s[i]) ELSE f[i - 1]
           Good(n, f) == f = [i \in 0..n |-> Def(f, i)]
           N == {n \in Nat : \E f : Good(n, f)}
<1>1. Nat \subseteq N
  <2>1. 0 \in N
    <3>1. Good(0, [i \in 0..0 |-> <<>>]) OBVIOUS
    <3> QED BY <3>1
  <2>2. ASSUME NEW n \in Nat, n \in N PROVE n + 1 \in N
    <3>1. PICK f : Good(n, f) BY <2>2
    <3> DEFINE g == [i \in 0..(n+1) |-> IF i = n+1 THEN IF s[n+1] \in T THEN Append(f[n],
        s[n+1]) ELSE f[n] ELSE f[i]]
    <3>0. \A i \in 0..n : f[i] = Def(f, i)
      <4> HIDE DEF Def
      <4> QED BY <3>1
    <3> HIDE DEF Def
    <3>6. \A i \in 0..n : g[i] = f[i]
      OBVIOUS
    <3>2. \A i \in 0..n : g[i] = f[i] /\ f[i] = Def(f, i)
      BY <3>0, <3>6
    <3>3. \A i \in 0..n : Def(f, i) = Def(g, i)
      BY <3>2 DEF Def
    <3>4. g[n+1] = Def(g, n+1)
      BY <3>2 DEF Def
    <3>5. g = [i \in 0..(n+1) |-> Def(g, i)]
      <4>1. \A i \in 0..(n+1) : i \in 0..n \/ i = n+1 OBVIOUS
      <4>2. \A i \in 0..(n+1) : g[i] = Def(g, i)
        BY <3>2, <3>3, <3>4, <4>1
      <4>3. g = [i \in 0..(n+1) |-> g[i]]
        OBVIOUS
      <4> HIDE DEF g
      <4> QED BY <4>2, <4>3
    <3>7. Good(n + 1, g)
      BY <3>5
    <3> HIDE DEF g, Good
    <3> QED BY <3>7
  <2> HIDE DEF N
  <2> QED BY <2>1, <2>2, SetInduction
<1>2. Len(s) \in Nat
  OBVIOUS
<1> DEFINE upTo == CHOOSE f : f = [i \in 0..Len(s) |-> Def(f, i)]
<1>3. upTo = [i \in 0..Len(s) |-> Def(upTo, i)]
  BY <1>1, <1>2
<1>4. Only(s, T) = upTo[Len(s)]
  BY DEF Only
<1> HIDE DEF upTo
<1> DEFINE M == {n \in Nat : n <= Len(s) => IsOnly(upTo[n], s, n, T, S)}
<1>5. Nat \subseteq M
  <2>1. upTo[0] = <<>>
    BY <1>2, <1>3
  <2>4. IsOnly(<<>>, s, 0, T, S)
    BY DEF IsOnly
  <2>2. 0 \in M
    BY <2>1, <2>4
  <2>3. ASSUME NEW n \in Nat, n \in M PROVE n + 1 \in M
    <3> SUFFICES ASSUME n + 1 <= Len(s) PROVE IsOnly(upTo[n+1], s, n+1, T, S)
      OBVIOUS
    <3>0. n + 1 \in 0..Len(s) /\ n + 1 # 0 /\ n + 1 - 1 = n
      BY <1>2
    <3>3. upTo[n+1] = Def(upTo, n+1)
      <4> HIDE DEF Def
      <4> QED BY <1>3, <3>0
    <3>1. upTo[n+1] = IF s[n+1] \in T THEN Append(upTo[n], s[n+1]) ELSE upTo[n]
      BY <3>0, <3>3
    <3>2. IsOnly(upTo[n], s, n, T, S) /\ n \in 0 .. Len(s) - 1
      BY <1>2, <2>3
    <3> QED BY <3>1, <3>2, IsOnlyStep
  <2> HIDE DEF M
  <2> QED BY <2>2, <2>3, SetInduction
<1> QED BY <1>2, <1>4, <1>5
-----------------------------------------------------------------------------
(* Types *)

(* Types, by the part of the state a step may change: the pool's counters, ... *)
CountersOK == closed \in BOOLEAN /\ sem \in Int /\ use \in [Places -> Int] /\ epoch \in [Places -> Nat]

(* ... the idle lists, ... *)
IdleOK == idle \in [Creds -> Seq(Callers)]

(* ... the connections, ... *)
ConnsOK == 
  /\ listed \subseteq Callers /\ broken \subseteq Callers /\ reaped \subseteq Callers
  /\ cstate \in [Callers -> ConnStates]

(* ... callers and subscribers, ... *)
ClientsOK ==
  /\ pc \in [Clients -> ClientStates]
  /\ conn \in [Clients -> Clients \cup {None}] 
  /\ cancelled \subseteq Callers
  /\ DOMAIN seen = Clients

(* ... watchers, ... *)
WatchersOK == 
  /\ wtch \in [Creds \X Folders -> Subscribers \cup {None}]
  /\ wstate \in [Subscribers -> WatcherStates]
  /\ subs \in [Subscribers -> SUBSET Subscribers]
  /\ stopped \subseteq Subscribers /\ delisting \subseteq Subscribers
  /\ lingering \subseteq Subscribers /\ doomed \subseteq Subscribers

(* ... and sweeps. *)
SweepsOK ==
  /\ spc \in [Sweeps -> {"ready", "closing", "waiting", "done"}]
  /\ current \in [Sweeps -> Callers \cup {None}]
  /\ sweep \in [Sweeps -> SUBSET Callers]
  /\ wsweep \in [Sweeps -> SUBSET Subscribers]

(* The types without the bounds of the counters, which follow from Slots. *)
Shape == CountersOK /\ IdleOK /\ ConnsOK /\ ClientsOK /\ WatchersOK /\ SweepsOK
-----------------------------------------------------------------------------
(* Phases *)

(* A caller has no connection of its own before its dial succeeded, and holds one, its own or
   an idle one, in five states only. *)
CallerPhases ==
  \A c \in Callers :
    /\ pc[c] \in {"start", "taken", "discarding", "reserving", "asleep", "woken", "reserved",
                  "refused", "dialing", "failed"} => cstate[c] = "none"
    /\ pc[c] = "dialed" => cstate[c] # "none"
    /\ conn[c] \in Callers \cup {None}
    /\ conn[c] \in Callers <=> pc[c] \in {"taken", "discarding", "using", "putting", "closing"}

(* A subscriber has no watcher of its own before it created one; it alone can start it. *)
SubscriberPhases ==
  \A b \in Subscribers :
    /\ pc[b] \in {"start", "reserving", "reserved", "refused", "duplicate"} => wstate[b] = "none"
    /\ pc[b] = "starting" <=> wstate[b] = "made"
    /\ pc[b] = "starting" => conn[b] = b
    /\ pc[b] \in {"joining", "listening"} => conn[b] \in Subscribers /\ wstate[conn[b]] # "none"

(* Watchers in the pool's table exist, and one that is gone was stopped. *)
WatchersSound ==
  /\ \A key \in Creds \X Folders : wtch[key] # None => wstate[wtch[key]] # "none"
  /\ \A w \in Subscribers : wstate[w] = "gone" => w \in stopped

(* What a step leaves alone keeps its types. *)
LEMMA Frames ==
  ASSUME Shape
  PROVE /\ UNCHANGED <<closed, sem, use, epoch>> => CountersOK'
        /\ UNCHANGED idle => IdleOK'
        /\ UNCHANGED <<listed, cstate, broken, reaped>> => ConnsOK'
        /\ UNCHANGED clientVars => ClientsOK'
        /\ UNCHANGED <<wtch, wstate, stopped, subs, delisting, lingering, doomed>> => WatchersOK'
        /\ UNCHANGED sweepVars => SweepsOK'
  BY DEF Shape, CountersOK, IdleOK, ConnsOK, ClientsOK, WatchersOK, SweepsOK, clientVars,
      sweepVars

(* The reaper keeps a part of every idle list. *)
LEMMA ReapKeeps ==
  ASSUME Shape, Reap
  PROVE  \E kept \in [Creds -> SUBSET Callers] : idle' = [d \in Creds |-> Only(idle[d], kept[d])]
<1> DEFINE Stays(old, d, i) == i > old[d] /\ cstate[idle[d][i]] = "open"
           Kept(old, d) == {idle[d][i] : i \in {j \in DOMAIN idle[d] : Stays(old, d, j)}}
<1>1. PICK old \in [Creds -> 0..PerCredIdle] :
        idle' = [d \in Creds |-> Only(idle[d], Kept(old, d))]
  BY DEF Reap
<1>2. \A d \in Creds : Kept(old, d) \subseteq Callers
  BY DEF Shape, IdleOK
<1> DEFINE kept == [d \in Creds |-> Kept(old, d)]
<1> HIDE DEF Kept
<1>3. kept \in [Creds -> SUBSET Callers] BY <1>2
<1>4. idle' = [d \in Creds |-> Only(idle[d], kept[d])] BY <1>1
<1> QED BY <1>3, <1>4

(* Every step keeps the types. *)
LEMMA ShapeStep ==
  ASSUME PoolAssumption, Shape, CallerPhases, SubscriberPhases, Next
  PROVE  Shape'
<1> USE PoolAssumption DEF poolVars, clientVars, connVars, watcherVars, sweepVars, Shape
<1>1. ASSUME NEW c \in Callers, TakeIdle(c) PROVE Shape'
  <2>1. CredOf[c] \in Creds BY DEF Clients
  <2>2. Front(idle[CredOf[c]]) \in Seq(Callers) /\ Last(idle[CredOf[c]]) \in Callers
    BY <1>1, <2>1, FrontProperties DEF TakeIdle, IdleOK
  <2>3. IdleOK'
    <3>1. idle' = [idle EXCEPT ![CredOf[c]] = Front(idle[CredOf[c]])] BY <1>1 DEF TakeIdle
    <3> QED BY <2>1, <2>2, <3>1 DEF IdleOK
  <2>4. ClientsOK'
    <3>1. conn' = [conn EXCEPT ![c] = Last(idle[CredOf[c]])] /\ Goto(c,
        "taken") /\ UNCHANGED <<seen, cancelled>>
      BY <1>1 DEF TakeIdle
    <3> QED BY <2>2, <3>1 DEF Goto, ClientsOK, ClientStates, Clients
  <2> QED BY <1>1, <2>3, <2>4, Frames DEF TakeIdle
<1>2. ASSUME NEW c \in Callers, StartDial(c) PROVE Shape'
  <2>1. ClientsOK' BY <1>2 DEF StartDial, Goto, EpochsOf, ClientsOK, ClientStates, Clients
  <2> QED BY <1>2, <2>1, Frames DEF StartDial, Goto, EpochsOf
<1>3. ASSUME NEW c \in Callers, CheckTaken(c) PROVE Shape'
  <2>1. ConnsOK' BY <1>3 DEF CheckTaken, Goto, Shut, ConnsOK, ConnStates, CallerPhases, Clients
  <2>2. ClientsOK' BY <1>3
      DEF CheckTaken, Goto, Shut, ClientsOK, ClientStates, Clients, CallerPhases
  <2> QED BY <1>3, <2>1, <2>2, Frames DEF CheckTaken, Goto, Shut
<1>4. ASSUME NEW c \in Callers, StartAgain(c) PROVE Shape'
  <2>1. ClientsOK' BY <1>4 DEF StartAgain, Goto, ClientsOK, ClientStates, Clients
  <2> QED BY <1>4, <2>1, Frames DEF StartAgain, Goto
<1>5. ASSUME NEW c \in Callers, Reserve(c) PROVE Shape'
  <2>1. CountersOK' BY <1>5 DEF Reserve, Goto, Room, TakeSlot, CountersOK, Clients
  <2>2. ClientsOK' BY <1>5 DEF Reserve, Goto, Room, TakeSlot, ClientsOK, ClientStates, Clients
  <2> QED BY <1>5, <2>1, <2>2, Frames DEF Reserve, Goto, Room, TakeSlot
<1>6. ASSUME NEW c \in Callers, GiveUp(c) PROVE Shape'
  <2>1. ClientsOK' BY <1>6 DEF GiveUp, Goto, ClientsOK, ClientStates, Clients
  <2> QED BY <1>6, <2>1, Frames DEF GiveUp, Goto
<1>7. ASSUME NEW c \in Callers, Admit(c) PROVE Shape'
  <2>1. ClientsOK' BY <1>7 DEF Admit, Goto, EpochsOf, ClientsOK, ClientStates, Clients
  <2> QED BY <1>7, <2>1, Frames DEF Admit, Goto, EpochsOf
<1>8. ASSUME NEW c \in Callers, Dial(c) PROVE Shape'
  <2>1. ConnsOK' BY <1>8 DEF Dial, Goto, ConnsOK, ConnStates, Clients
  <2>2. ClientsOK' BY <1>8 DEF Dial, Goto, ClientsOK, ClientStates, Clients
  <2> QED BY <1>8, <2>1, <2>2, Frames DEF Dial, Goto
<1>9. ASSUME NEW c \in Callers, DialReleases(c) PROVE Shape'
  <2>1. CountersOK' BY <1>9 DEF DialReleases, GiveSlot, Wake, CountersOK, Clients
  <2>2. ClientsOK' BY <1>9 DEF DialReleases, GiveSlot, Wake, ClientsOK, ClientStates, Clients
  <2> QED BY <1>9, <2>1, <2>2, Frames DEF DialReleases, GiveSlot, Wake
<1>10. ASSUME NEW c \in Callers, Register(c) PROVE Shape'
  <2>1. ConnsOK' BY <1>10 DEF Register, Goto, Shut, EpochsOf, ConnsOK, ConnStates, Clients
  <2>2. ClientsOK' BY <1>10 DEF Register, Goto, Shut, EpochsOf, ClientsOK, ClientStates, Clients
  <2> QED BY <1>10, <2>1, <2>2, Frames DEF Register, Goto, Shut, EpochsOf
<1>11. ASSUME NEW c \in Callers, Put(c) PROVE Shape'
  <2>1. ConnsOK' BY <1>11 DEF Put, Goto, Shut, ConnsOK, ConnStates, CallerPhases, Clients
  <2>2. ClientsOK' BY <1>11 DEF Put, Goto, Shut, ClientsOK, ClientStates, Clients, CallerPhases
  <2> QED BY <1>11, <2>1, <2>2, Frames DEF Put, Goto, Shut
<1>12. ASSUME NEW c \in Callers, Keep(c) PROVE Shape'
  <2>1. conn[c] \in Callers /\ CredOf[conn[c]] \in Creds BY <1>12 DEF Keep, CallerPhases, Clients
  <2>2. IdleOK'
    <3> DEFINE d == CredOf[conn[c]]
               l == Append(idle[d], conn[c])
    <3>1. l \in Seq(Callers) BY <2>1 DEF IdleOK
    <3>2. idle' = idle \/ idle' = [idle EXCEPT ![d] = l] BY <1>12 DEF Keep
    <3>3. d \in Creds BY <2>1
    <3> HIDE DEF d, l
    <3>4. [idle EXCEPT ![d] = l] \in [Creds -> Seq(Callers)] BY <3>1, <3>3 DEF IdleOK
    <3>5. idle \in [Creds -> Seq(Callers)] BY DEF IdleOK
    <3> QED BY <3>2, <3>4, <3>5, Zenon DEF IdleOK
  <2>3. UNCHANGED <<cstate, broken>> \/ Shut(conn[c]) BY <1>12 DEF Keep
  <2>4. UNCHANGED <<listed, reaped>> BY <1>12 DEF Keep
  <2>5. ConnsOK' BY <2>1, <2>3, <2>4 DEF Shut, ConnsOK, ConnStates
  <2>6. /\ conn' = conn \/ conn' = [conn EXCEPT ![c] = None]
        /\ Goto(c, "done") \/ Goto(c, "closing")
        /\ UNCHANGED <<seen, cancelled>>
    BY <1>12 DEF Keep
  <2>7. ClientsOK' BY <2>6 DEF Goto, ClientsOK, ClientStates, Clients
  <2> QED BY <1>12, <2>2, <2>5, <2>7, Frames DEF Keep
<1>13. ASSUME NEW c \in Callers, Closed(c) PROVE Shape'
  <2>1. ClientsOK' BY <1>13 DEF Closed, Goto, ClientsOK, ClientStates, Clients
  <2> QED BY <1>13, <2>1, Frames DEF Closed, Goto
<1>14. ASSUME NEW c \in Callers, MarkBroken(c) PROVE Shape'
  <2>1. ConnsOK' BY <1>14 DEF MarkBroken, ConnsOK, ConnStates, CallerPhases, Clients
  <2> QED BY <1>14, <2>1, Frames DEF MarkBroken
<1>15. ASSUME NEW c \in Callers, Cut(c) PROVE Shape'
  <2>1. ConnsOK' BY <1>15 DEF Cut, ConnsOK, ConnStates, Clients
  <2> QED BY <1>15, <2>1, Frames DEF Cut
<1>16. ASSUME NEW k \in Callers, Unlist(k) PROVE Shape'
  <2>1. ConnsOK' BY <1>16 DEF Unlist, ConnsOK, ConnStates, Clients
  <2> QED BY <1>16, <2>1, Frames DEF Unlist
<1>17. ASSUME NEW k \in Callers, ReleaseConn(k) PROVE Shape'
  <2>1. CountersOK' BY <1>17 DEF ReleaseConn, GiveSlot, Wake, CountersOK, Clients
  <2>2. ConnsOK' BY <1>17 DEF ReleaseConn, GiveSlot, Wake, ConnsOK, ConnStates, Clients
  <2>3. ClientsOK' BY <1>17 DEF ReleaseConn, GiveSlot, Wake, ClientsOK, ClientStates, Clients
  <2> QED BY <1>17, <2>1, <2>2, <2>3, Frames DEF ReleaseConn, GiveSlot, Wake
<1>18. ASSUME NEW k \in Callers, CloseReaped(k) PROVE Shape'
  <2>1. ConnsOK' BY <1>18 DEF CloseReaped, Shut, ConnsOK, ConnStates, Clients
  <2> QED BY <1>18, <2>1, Frames DEF CloseReaped, Shut
<1>19. ASSUME NEW b \in Subscribers, Subscribe(b) PROVE Shape'
  <2>1. ClientsOK'
    <3>1. Key(b) \in Creds \X Folders BY DEF Key, Clients
    <3>2. wtch[Key(b)] # None => wtch[Key(b)] \in Subscribers BY <3>1 DEF WatchersOK
    <3> QED BY <1>19, <3>2 DEF Subscribe, Goto, ClientsOK, ClientStates, Clients
  <2> QED BY <1>19, <2>1, Frames DEF Subscribe, Goto, EpochsOf, Key
<1>20. ASSUME NEW b \in Subscribers, ReserveWatch(b) PROVE Shape'
  <2>1. CountersOK' BY <1>20 DEF ReserveWatch, Goto, RoomToWatch, TakeSlot, CountersOK, Clients
  <2>2. ClientsOK' BY <1>20
      DEF ReserveWatch, Goto, RoomToWatch, TakeSlot, ClientsOK, ClientStates, Clients
  <2> QED BY <1>20, <2>1, <2>2, Frames DEF ReserveWatch, Goto, RoomToWatch, TakeSlot
<1>21. ASSUME NEW b \in Subscribers, CreateWatcher(b) PROVE Shape'
  <2>1. ClientsOK' BY <1>21
      DEF CreateWatcher, Goto, EpochsOf, Key, ClientsOK, ClientStates, Clients
  <2>2. WatchersOK'
    <3>1. wtch' = [wtch EXCEPT ![Key(b)] = b] \/ wtch' = wtch BY <1>21 DEF CreateWatcher
    <3>2. wstate' = [wstate EXCEPT ![b] = "made"] \/ wstate' = wstate BY <1>21 DEF CreateWatcher
    <3>3. UNCHANGED <<stopped, subs, delisting, lingering, doomed>> BY <1>21 DEF CreateWatcher
    <3> QED BY <3>1, <3>2, <3>3 DEF WatchersOK, WatcherStates
  <2> QED BY <1>21, <2>1, <2>2, Frames DEF CreateWatcher, Goto, EpochsOf, Key
<1>22. ASSUME NEW b \in Subscribers, SubscribeReleases(b) PROVE Shape'
  <2>1. CountersOK' BY <1>22 DEF SubscribeReleases, GiveSlot, Wake, CountersOK, Clients
  <2>2. ClientsOK' BY <1>22
      DEF SubscribeReleases, GiveSlot, Wake, ClientsOK, ClientStates, Clients
  <2> QED BY <1>22, <2>1, <2>2, Frames DEF SubscribeReleases, GiveSlot, Wake
<1>23. ASSUME NEW b \in Subscribers, Join(b) PROVE Shape'
  <2>1. ClientsOK' BY <1>23 DEF Join, Goto, ClientsOK, ClientStates, Clients, SubscriberPhases
  <2>2. WatchersOK' BY <1>23 DEF Join, Goto, WatchersOK, WatcherStates, SubscriberPhases, Clients
  <2> QED BY <1>23, <2>1, <2>2, Frames DEF Join, Goto
<1>24. ASSUME NEW b \in Subscribers, Unsubscribe(b) PROVE Shape'
  <2>1. ClientsOK' BY <1>24
      DEF Unsubscribe, Goto, ClientsOK, ClientStates, Clients, SubscriberPhases
  <2>2. WatchersOK' BY <1>24
      DEF Unsubscribe, Goto, WatchersOK, WatcherStates, SubscriberPhases, Clients
  <2> QED BY <1>24, <2>1, <2>2, Frames DEF Unsubscribe, Goto
<1>25. ASSUME NEW w \in Subscribers, Linger(w) PROVE Shape'
  <2>1. WatchersOK' BY <1>25 DEF Linger, WatchersOK, WatcherStates, Clients
  <2> QED BY <1>25, <2>1, Frames DEF Linger
<1>26. ASSUME NEW w \in Subscribers, StopDoomed(w) PROVE Shape'
  <2>1. WatchersOK' BY <1>26 DEF StopDoomed, Stop, WatchersOK, WatcherStates, Clients
  <2> QED BY <1>26, <2>1, Frames DEF StopDoomed, Stop
<1>27. ASSUME NEW w \in Subscribers, Delist(w) PROVE Shape'
  <2>1. WatchersOK' BY <1>27 DEF Delist, WatchersOK, WatcherStates, Clients
  <2> QED BY <1>27, <2>1, Frames DEF Delist
<1>28. ASSUME NEW w \in Subscribers, Session(w) PROVE Shape'
  <2>1. WatchersOK' BY <1>28 DEF Session, WatchersOK, WatcherStates, Clients
  <2> QED BY <1>28, <2>1, Frames DEF Session
<1>29. ASSUME NEW w \in Subscribers, ReleaseWatch(w) PROVE Shape'
  <2>1. CountersOK' BY <1>29 DEF ReleaseWatch, GiveSlot, Wake, CountersOK, Clients
  <2>2. ClientsOK' BY <1>29 DEF ReleaseWatch, GiveSlot, Wake, ClientsOK, ClientStates, Clients
  <2>3. WatchersOK' BY <1>29 DEF ReleaseWatch, GiveSlot, Wake, WatchersOK, WatcherStates, Clients
  <2> QED BY <1>29, <2>1, <2>2, <2>3, Frames DEF ReleaseWatch, GiveSlot, Wake
<1>30. ASSUME NEW w \in Subscribers, EndWatch(w) PROVE Shape'
  <2>1. WatchersOK' BY <1>30 DEF EndWatch, Stop, WatchersOK, WatcherStates, Clients
  <2> QED BY <1>30, <2>1, Frames DEF EndWatch, Stop
<1>31. ASSUME NEW w \in Subscribers, WatchFails(w) PROVE Shape'
  <2>1. WatchersOK' BY <1>31 DEF WatchFails, WatchersOK, WatcherStates, Clients
  <2> QED BY <1>31, <2>1, Frames DEF WatchFails
<1>32. ASSUME NEW s \in Invalidations, Invalidate(s) PROVE Shape'
  <2>1. CountersOK' BY <1>32 DEF Invalidate, Collect, Pending, Key, CountersOK, ConnsOK, Sweeps
  <2>2. IdleOK' BY <1>32 DEF Invalidate, Collect, Pending, Key, IdleOK, ConnsOK, Sweeps
  <2>3. ClientsOK' BY <1>32
      DEF Invalidate, Collect, Pending, Key, ClientsOK, ClientStates, Clients, ConnsOK, Sweeps
  <2>4. SweepsOK' BY <1>32 DEF Invalidate, Collect, Pending, Key, SweepsOK, Sweeps, ConnsOK
  <2> QED BY <1>32, <2>1, <2>2, <2>3, <2>4, Frames DEF Invalidate, Collect, Pending, Key
<1>33. ASSUME NEW s \in Sweeps, SweepConn(s) PROVE Shape'
  <2>1. ConnsOK' BY <1>33 DEF SweepConn, Shut, ConnsOK, ConnStates, Sweeps, SweepsOK
  <2>2. SweepsOK' BY <1>33 DEF SweepConn, Shut, SweepsOK, Sweeps
  <2> QED BY <1>33, <2>1, <2>2, Frames DEF SweepConn, Shut
<1>34. ASSUME NEW s \in Sweeps, SweptConn(s) PROVE Shape'
  <2>1. SweepsOK' BY <1>34 DEF SweptConn, SweepsOK, Sweeps
  <2> QED BY <1>34, <2>1, Frames DEF SweptConn
<1>35. ASSUME NEW s \in Sweeps, SweepWatcher(s) PROVE Shape'
  <2>1. WatchersOK' BY <1>35 DEF SweepWatcher, Stop, WatchersOK, WatcherStates, Sweeps, SweepsOK
  <2>2. SweepsOK' BY <1>35 DEF SweepWatcher, Stop, SweepsOK, Sweeps
  <2> QED BY <1>35, <2>1, <2>2, Frames DEF SweepWatcher, Stop
<1>36. ASSUME NEW s \in Sweeps, Swept(s) PROVE Shape'
  <2>1. SweepsOK' BY <1>36 DEF Swept, SweepsOK, Sweeps
  <2> QED BY <1>36, <2>1, Frames DEF Swept
<1>37. ASSUME Reap PROVE Shape'
  <2>1. IdleOK'
    <3>1. PICK kept \in [Creds -> SUBSET Callers] : idle' = [d \in Creds |-> Only(idle[d],
        kept[d])]
      BY <1>37, ReapKeeps
    <3>2. \A d \in Creds : Only(idle[d], kept[d]) \in Seq(Callers)
      BY OnlyProperties DEF IdleOK, IsOnly
    <3> QED BY <3>1, <3>2 DEF IdleOK
  <2>2. ConnsOK'
    <3>1. \A d \in Creds : ToSet(idle[d]) \subseteq Callers BY DEF IdleOK, ToSet
    <3> QED BY <1>37, <3>1 DEF Reap, ConnsOK
  <2> QED BY <1>37, <2>1, <2>2, Frames DEF Reap
<1>38. ASSUME Close PROVE Shape'
  <2>1. CountersOK' BY <1>38 DEF Close, Collect, Pending, Key, CountersOK, ConnsOK
  <2>2. IdleOK' BY <1>38 DEF Close, Collect, Pending, Key, IdleOK, ConnsOK
  <2>3. ClientsOK' BY <1>38
      DEF Close, Collect, Pending, Key, ClientsOK, ClientStates, Clients, ConnsOK
  <2>4. SweepsOK' BY <1>38 DEF Close, Collect, Pending, Key, SweepsOK, Sweeps, ConnsOK
  <2> QED BY <1>38, <2>1, <2>2, <2>3, <2>4, Frames DEF Close, Collect, Pending, Key
<1>39. ASSUME CloseReturns PROVE Shape'
  <2>1. SweepsOK' BY <1>39 DEF CloseReturns, Pending, SweepsOK, Sweeps
  <2> QED BY <1>39, <2>1, Frames DEF CloseReturns, Pending
<1> QED BY <1>1, <1>2, <1>3, <1>4, <1>5, <1>6, <1>7, <1>8, <1>9, <1>10, <1>11, <1>12, <1>13,
    <1>14, <1>15, <1>16, <1>17, <1>18, <1>19, <1>20, <1>21, <1>22, <1>23, <1>24, <1>25, <1>26,
    <1>27, <1>28, <1>29, <1>30, <1>31, <1>32, <1>33, <1>34, <1>35, <1>36, <1>37, <1>38, <1>39
        DEF Next, CallerStep, ConnStep, SubscriberStep, WatcherStep, SweepStep

(* Every step of callers, connections and sweeps keeps callers in phase with their connections. *)
LEMMA CallerPhasesStep ==
  ASSUME PoolAssumption, Shape, CallerPhases, SubscriberPhases, Next
  PROVE  CallerPhases'
<1> USE PoolAssumption
    DEF poolVars, clientVars, connVars, watcherVars, sweepVars, CallerPhases, Shape, ClientsOK,
        ConnsOK, ConnStates, Clients
<1>1. ASSUME NEW c \in Callers, TakeIdle(c) PROVE CallerPhases'
  <2>1. conn' = [conn EXCEPT ![c] = Last(idle[CredOf[c]])] /\ Last(idle[CredOf[c]]) \in Callers
    BY <1>1, FrontProperties DEF TakeIdle, Shape, IdleOK, Clients
  <2>2. pc[c] = "start" /\ Goto(c, "taken") /\ UNCHANGED cstate
    BY <1>1 DEF TakeIdle
  <2> QED BY <2>1, <2>2 DEF Goto, CallerPhases, Shape, ClientsOK, Clients
<1>2. ASSUME NEW c \in Callers, StartDial(c) PROVE CallerPhases'
  <2>1. pc[c] = "start" /\ (Goto(c, "done") \/ Goto(c, "reserving")) /\ UNCHANGED <<cstate, conn>>
    BY <1>2 DEF StartDial
  <2> QED BY <2>1 DEF Goto, CallerPhases, Shape, ClientsOK, Clients
<1>3. ASSUME NEW c \in Callers, CheckTaken(c) PROVE CallerPhases'
  BY <1>3 DEF CheckTaken, Goto, Shut
<1>4. ASSUME NEW c \in Callers, StartAgain(c) PROVE CallerPhases'
  BY <1>4 DEF StartAgain, Goto
<1>5. ASSUME NEW c \in Callers, Reserve(c) PROVE CallerPhases'
  BY <1>5 DEF Reserve, Goto, Room, TakeSlot
<1>6. ASSUME NEW c \in Callers, GiveUp(c) PROVE CallerPhases'
  BY <1>6 DEF GiveUp, Goto
<1>7. ASSUME NEW c \in Callers, Admit(c) PROVE CallerPhases'
  BY <1>7 DEF Admit, Goto, EpochsOf
<1>8. ASSUME NEW c \in Callers, Dial(c) PROVE CallerPhases'
  BY <1>8 DEF Dial, Goto
<1>9. ASSUME NEW c \in Callers, DialReleases(c) PROVE CallerPhases'
  BY <1>9 DEF DialReleases, GiveSlot, Wake
<1>10. ASSUME NEW c \in Callers, Register(c) PROVE CallerPhases'
  BY <1>10 DEF Register, Goto, Shut, EpochsOf
<1>11. ASSUME NEW c \in Callers, Put(c) PROVE CallerPhases'
  BY <1>11 DEF Put, Goto, Shut
<1>12. ASSUME NEW c \in Callers, Keep(c) PROVE CallerPhases'
  BY <1>12 DEF Keep, Goto, Shut
<1>13. ASSUME NEW c \in Callers, Closed(c) PROVE CallerPhases'
  BY <1>13 DEF Closed, Goto
<1>14. ASSUME NEW c \in Callers, Cut(c) PROVE CallerPhases'
  BY <1>14 DEF Cut
<1>15. ASSUME NEW k \in Callers, Unlist(k) PROVE CallerPhases'
  BY <1>15 DEF Unlist
<1>16. ASSUME NEW k \in Callers, ReleaseConn(k) PROVE CallerPhases'
  BY <1>16 DEF ReleaseConn, GiveSlot, Wake
<1>17. ASSUME NEW k \in Callers, CloseReaped(k) PROVE CallerPhases'
  BY <1>17 DEF CloseReaped, Shut
<1>18. ASSUME NEW b \in Subscribers, Subscribe(b) PROVE CallerPhases'
  BY <1>18 DEF Subscribe, Goto, EpochsOf, Key
<1>19. ASSUME NEW b \in Subscribers, ReserveWatch(b) PROVE CallerPhases'
  BY <1>19 DEF ReserveWatch, Goto, RoomToWatch, TakeSlot
<1>20. ASSUME NEW b \in Subscribers, CreateWatcher(b) PROVE CallerPhases'
  BY <1>20 DEF CreateWatcher, Goto, EpochsOf, Key
<1>21. ASSUME NEW b \in Subscribers, SubscribeReleases(b) PROVE CallerPhases'
  BY <1>21 DEF SubscribeReleases, GiveSlot, Wake
<1>22. ASSUME NEW b \in Subscribers, Join(b) PROVE CallerPhases'
  BY <1>22 DEF Join, Goto
<1>23. ASSUME NEW b \in Subscribers, Unsubscribe(b) PROVE CallerPhases'
  BY <1>23 DEF Unsubscribe, Goto
<1>24. ASSUME NEW w \in Subscribers, ReleaseWatch(w) PROVE CallerPhases'
  BY <1>24 DEF ReleaseWatch, GiveSlot, Wake
<1>25. ASSUME NEW s \in Sweeps, SweepConn(s) PROVE CallerPhases'
  BY <1>25 DEF SweepConn, Shut
<1>26. UNCHANGED <<pc, conn, cstate>> => CallerPhases'
  BY DEF CallerPhases
<1> HIDE DEF CallerPhases, Shape, ClientsOK, ConnsOK, ConnStates, Clients
<1> QED
  BY <1>1, <1>2, <1>3, <1>4, <1>5, <1>6, <1>7, <1>8, <1>9, <1>10, <1>11, <1>12, <1>13, <1>14,
      <1>15, <1>16, <1>17, <1>18, <1>19, <1>20, <1>21, <1>22, <1>23, <1>24, <1>25, <1>26
  DEF Next, CallerStep, ConnStep, SubscriberStep, WatcherStep, SweepStep,
      MarkBroken, Linger, StopDoomed, Delist, Session, EndWatch, WatchFails, Invalidate,
          SweptConn, SweepWatcher, Swept, Reap, Close, CloseReturns, Stop, Collect, Pending, Key

(* Every step keeps subscribers in phase with their watchers. *)
LEMMA SubscriberPhasesStep ==
  ASSUME PoolAssumption, Shape, SubscriberPhases, WatchersSound, Next
  PROVE  SubscriberPhases'
<1> USE PoolAssumption
    DEF poolVars, clientVars, connVars, watcherVars, sweepVars, SubscriberPhases, Shape,
        ClientsOK, WatchersOK, WatcherStates, Clients
<1>1. ASSUME NEW c \in Callers, TakeIdle(c) PROVE SubscriberPhases'
  BY <1>1 DEF TakeIdle, Goto
<1>2. ASSUME NEW c \in Callers, StartDial(c) PROVE SubscriberPhases'
  BY <1>2 DEF StartDial, Goto, EpochsOf
<1>3. ASSUME NEW c \in Callers, CheckTaken(c) PROVE SubscriberPhases'
  BY <1>3 DEF CheckTaken, Goto, Shut
<1>4. ASSUME NEW c \in Callers, StartAgain(c) PROVE SubscriberPhases'
  BY <1>4 DEF StartAgain, Goto
<1>5. ASSUME NEW c \in Callers, Reserve(c) PROVE SubscriberPhases'
  BY <1>5 DEF Reserve, Goto, Room, TakeSlot
<1>6. ASSUME NEW c \in Callers, GiveUp(c) PROVE SubscriberPhases'
  BY <1>6 DEF GiveUp, Goto
<1>7. ASSUME NEW c \in Callers, Admit(c) PROVE SubscriberPhases'
  BY <1>7 DEF Admit, Goto, EpochsOf
<1>8. ASSUME NEW c \in Callers, Dial(c) PROVE SubscriberPhases'
  BY <1>8 DEF Dial, Goto
<1>9. ASSUME NEW c \in Callers, DialReleases(c) PROVE SubscriberPhases'
  BY <1>9 DEF DialReleases, GiveSlot, Wake
<1>10. ASSUME NEW c \in Callers, Register(c) PROVE SubscriberPhases'
  BY <1>10 DEF Register, Goto, Shut, EpochsOf
<1>11. ASSUME NEW c \in Callers, Put(c) PROVE SubscriberPhases'
  BY <1>11 DEF Put, Goto, Shut
<1>12. ASSUME NEW c \in Callers, Keep(c) PROVE SubscriberPhases'
  BY <1>12 DEF Keep, Goto, Shut
<1>13. ASSUME NEW c \in Callers, Closed(c) PROVE SubscriberPhases'
  BY <1>13 DEF Closed, Goto
<1>14. ASSUME NEW k \in Callers, ReleaseConn(k) PROVE SubscriberPhases'
  BY <1>14 DEF ReleaseConn, GiveSlot, Wake
<1>15. ASSUME NEW b \in Subscribers, Subscribe(b) PROVE SubscriberPhases'
  <2>1. Key(b) \in Creds \X Folders
    BY DEF Key, Clients
  <2>2. wtch[Key(b)] # None => wtch[Key(b)] \in Subscribers /\ wstate[wtch[Key(b)]] # "none"
    BY <2>1 DEF WatchersSound, Shape, WatchersOK
  <2>3. /\ pc[b] = "start" /\ UNCHANGED wstate
        /\ \/ (Goto(b, "done") \/ Goto(b, "reserving")) /\ UNCHANGED conn
           \/ /\ wtch[Key(b)] # None /\ Goto(b, "joining")
              /\ conn' = [conn EXCEPT ![b] = wtch[Key(b)]]
    BY <1>15 DEF Subscribe
  <2> QED BY <2>2, <2>3 DEF Goto, SubscriberPhases, Shape, ClientsOK, Clients
<1>16. ASSUME NEW b \in Subscribers, ReserveWatch(b) PROVE SubscriberPhases'
  BY <1>16 DEF ReserveWatch, Goto, RoomToWatch, TakeSlot
<1>17. ASSUME NEW b \in Subscribers, CreateWatcher(b) PROVE SubscriberPhases'
  BY <1>17 DEF CreateWatcher, Goto, EpochsOf, Key
<1>18. ASSUME NEW b \in Subscribers, SubscribeReleases(b) PROVE SubscriberPhases'
  BY <1>18 DEF SubscribeReleases, GiveSlot, Wake
<1>19. ASSUME NEW b \in Subscribers, Join(b) PROVE SubscriberPhases'
  BY <1>19 DEF Join, Goto
<1>20. ASSUME NEW b \in Subscribers, Unsubscribe(b) PROVE SubscriberPhases'
  BY <1>20 DEF Unsubscribe, Goto
<1>21. ASSUME NEW w \in Subscribers, Session(w) PROVE SubscriberPhases'
  BY <1>21 DEF Session
<1>22. ASSUME NEW w \in Subscribers, ReleaseWatch(w) PROVE SubscriberPhases'
  BY <1>22 DEF ReleaseWatch, GiveSlot, Wake
<1>23. ASSUME NEW w \in Subscribers, EndWatch(w) PROVE SubscriberPhases'
  BY <1>23 DEF EndWatch, Stop
<1>24. ASSUME NEW w \in Subscribers, WatchFails(w) PROVE SubscriberPhases'
  BY <1>24 DEF WatchFails
<1>25. UNCHANGED <<pc, conn, wstate>> => SubscriberPhases'
  BY DEF SubscriberPhases
<1>26. ASSUME NEW s \in Sweeps, SweepStep(s) PROVE UNCHANGED <<pc, conn, wstate>>
  BY <1>26 DEF SweepStep, SweepConn, SweptConn, SweepWatcher, Swept, Shut, Stop
<1> HIDE DEF SubscriberPhases, Shape, ClientsOK, WatchersOK, WatcherStates, Clients
<1> QED
  BY <1>1, <1>2, <1>3, <1>4, <1>5, <1>6, <1>7, <1>8, <1>9, <1>10, <1>11, <1>12, <1>13, <1>14,
      <1>15, <1>16, <1>17, <1>18, <1>19, <1>20, <1>21, <1>22, <1>23, <1>24, <1>25, <1>26
  DEF Next, CallerStep, ConnStep, SubscriberStep, WatcherStep, SweepStep,
      MarkBroken, Cut, Unlist, CloseReaped, Linger, StopDoomed, Delist, Invalidate, Reap, Close,
          CloseReturns, Shut, Stop, Collect, Pending, Key

(* A listed watcher exists, and one that is gone was stopped. *)
LEMMA WatchersSoundStep ==
  ASSUME PoolAssumption, Shape, SubscriberPhases, WatchersSound, Next
  PROVE  WatchersSound'
<1> USE PoolAssumption
    DEF poolVars, clientVars, connVars, watcherVars, sweepVars, WatchersSound, SubscriberPhases,
        Shape, WatchersOK, WatcherStates, Clients
<1>1. ASSUME NEW b \in Subscribers, CreateWatcher(b) PROVE WatchersSound'
  <2>1. Key(b) \in Creds \X Folders /\ b # None
    BY DEF Key, Clients
  <2>2. UNCHANGED stopped
        /\ \/ UNCHANGED <<wtch, wstate>>
           \/ /\ wtch' = [wtch EXCEPT ![Key(b)] = b]
              /\ wstate' = [wstate EXCEPT ![b] = "made"]
    BY <1>1 DEF CreateWatcher
  <2>3. UNCHANGED <<wtch, wstate, stopped>> => WatchersSound'
    BY DEF WatchersSound
  <2>4. ASSUME wtch' = [wtch EXCEPT ![Key(b)] = b], wstate' = [wstate EXCEPT ![b] = "made"]
        PROVE  \A key \in Creds \X Folders : wtch'[key] # None => wstate'[wtch'[key]] # "none"
    <3>1. \A key \in Creds \X Folders : wtch'[key] = IF key = Key(b) THEN b ELSE wtch[key]
      BY <2>1, <2>4 DEF Shape, WatchersOK
    <3>2. \A w \in Subscribers : wstate[w] # "none" => wstate'[w] # "none"
      BY <2>4 DEF Shape, WatchersOK
    <3>3. wstate'[b] # "none" /\ \A key \in Creds \X Folders : wtch[key] \in Subscribers \cup {None}
      BY <2>4 DEF Shape, WatchersOK
    <3> QED BY <3>1, <3>2, <3>3 DEF WatchersSound
  <2>5. wstate' = [wstate EXCEPT ![b] = "made"] /\ UNCHANGED stopped
          => \A w \in Subscribers : wstate'[w] = "gone" => w \in stopped'
    BY DEF Shape, WatchersOK, WatchersSound
  <2> QED BY <2>2, <2>3, <2>4, <2>5 DEF WatchersSound
<1>2. ASSUME NEW b \in Subscribers, Join(b) PROVE WatchersSound'
  BY <1>2 DEF Join, Goto
<1>3. ASSUME NEW w \in Subscribers, StopDoomed(w) PROVE WatchersSound'
  BY <1>3 DEF StopDoomed, Stop
<1>4. ASSUME NEW w \in Subscribers, Delist(w) PROVE WatchersSound'
  BY <1>4 DEF Delist
<1>5. ASSUME NEW w \in Subscribers, Session(w) PROVE WatchersSound'
  BY <1>5 DEF Session
<1>6. ASSUME NEW w \in Subscribers, ReleaseWatch(w) PROVE WatchersSound'
  BY <1>6 DEF ReleaseWatch, GiveSlot, Wake
<1>7. ASSUME NEW w \in Subscribers, EndWatch(w) PROVE WatchersSound'
  BY <1>7 DEF EndWatch, Stop
<1>8. ASSUME NEW w \in Subscribers, WatchFails(w) PROVE WatchersSound'
  BY <1>8 DEF WatchFails
<1>9. ASSUME NEW s \in Sweeps, SweepWatcher(s) PROVE WatchersSound'
  BY <1>9 DEF SweepWatcher, Stop
<1>10. UNCHANGED <<wtch, wstate, stopped>> => WatchersSound'
  BY DEF WatchersSound
<1>11. ASSUME NEW c \in Callers, CallerStep(c) \/ ConnStep(c) \/ MarkBroken(c) \/ Cut(c)
       PROVE UNCHANGED <<wtch, wstate, stopped>>
  BY <1>11 DEF CallerStep, ConnStep, TakeIdle, StartDial, CheckTaken, StartAgain, Reserve,
      GiveUp, Admit, Dial, DialReleases, Register, Put, Keep, Closed, MarkBroken, Cut, Unlist,
      ReleaseConn, CloseReaped, Goto, EpochsOf, Shut, Room, TakeSlot, GiveSlot, Wake
<1> HIDE DEF WatchersSound, SubscriberPhases, Shape, WatchersOK, WatcherStates, Clients
<1> QED
  BY <1>1, <1>2, <1>3, <1>4, <1>5, <1>6, <1>7, <1>8, <1>9, <1>10, <1>11
  DEF Next, CallerStep, ConnStep, SubscriberStep, WatcherStep, SweepStep,
      Subscribe, ReserveWatch, SubscribeReleases, Unsubscribe, Linger, Invalidate, SweepConn,
          SweptConn, Swept, Reap, Close, CloseReturns, Goto, EpochsOf, Key, RoomToWatch,
          TakeSlot, GiveSlot, Wake, Collect, Pending, Shut

-----------------------------------------------------------------------------
(* Slots *)

(* Those who hold a slot of a place. *)
HeldAt(p) == {x \in Holders : p \in PlacesOf[CredOf[x]]}

(* The books: the counters are the numbers of holders, of which there are finitely many. *)
Slots ==
  /\ IsFiniteSet(Holders)
  /\ sem = Cardinality(Holders)
  /\ \A p \in Places : use[p] = Cardinality(HeldAt(p))
  /\ sem <= GlobalMax

(* All slots stay where they are, ... *)
Kept == Holders' = Holders /\ UNCHANGED <<sem, use>>

(* ... or x takes one, ... *)
Gained(x) ==
  /\ x \in Clients \ Holders /\ Holders' = Holders \cup {x}
  /\ TakeSlot(CredOf[x]) /\ sem < GlobalMax

(* ... or x gives its own back. *)
Lost(x) ==
  /\ x \in Holders /\ Holders' = Holders \ {x}
  /\ sem' = sem - 1
  /\ use' = [p \in Places |-> IF p \in PlacesOf[CredOf[x]] THEN use[p] - 1 ELSE use[p]]

(* Every step keeps all slots with their holders, or one client takes a slot, or one holder
   returns its own. *)
LEMMA SlotMoves ==
  ASSUME PoolAssumption, Shape, CallerPhases, SubscriberPhases, Next
  PROVE  Kept \/ \E x \in Clients : Gained(x) \/ Lost(x)
<1> USE PoolAssumption
    DEF poolVars, clientVars, connVars, watcherVars, sweepVars, Kept, Holders, CallerPhases,
        SubscriberPhases, Shape, ClientsOK, ConnsOK, ConnStates, WatchersOK, WatcherStates,
        Clients
<1>1. ASSUME NEW c \in Callers, TakeIdle(c) PROVE Kept
  BY <1>1 DEF TakeIdle, Goto
<1>2. ASSUME NEW c \in Callers, StartDial(c) PROVE Kept
  BY <1>2 DEF StartDial, Goto, EpochsOf
<1>3. ASSUME NEW c \in Callers, CheckTaken(c) PROVE Kept
  BY <1>3 DEF CheckTaken, Goto, Shut
<1>4. ASSUME NEW c \in Callers, StartAgain(c) PROVE Kept
  BY <1>4 DEF StartAgain, Goto
<1>5. ASSUME NEW c \in Callers, Reserve(c) PROVE Kept \/ Gained(c)
  BY <1>5 DEF Reserve, Goto, Room, TakeSlot, Gained
<1>6. ASSUME NEW c \in Callers, GiveUp(c) PROVE Kept
  BY <1>6 DEF GiveUp, Goto
<1>7. ASSUME NEW c \in Callers, Admit(c) PROVE Kept
  BY <1>7 DEF Admit, Goto, EpochsOf
<1>8. ASSUME NEW c \in Callers, Dial(c) PROVE Kept
  BY <1>8 DEF Dial, Goto
<1>9. ASSUME NEW c \in Callers, DialReleases(c) PROVE Lost(c)
  BY <1>9 DEF DialReleases, GiveSlot, Wake, Lost
<1>10. ASSUME NEW c \in Callers, Register(c) PROVE Kept
  BY <1>10 DEF Register, Goto, Shut, EpochsOf
<1>11. ASSUME NEW c \in Callers, Put(c) PROVE Kept
  BY <1>11 DEF Put, Goto, Shut
<1>12. ASSUME NEW c \in Callers, Keep(c) PROVE Kept
  BY <1>12 DEF Keep, Goto, Shut
<1>13. ASSUME NEW c \in Callers, Closed(c) PROVE Kept
  BY <1>13 DEF Closed, Goto
<1>14. ASSUME NEW c \in Callers, Cut(c) PROVE Kept
  BY <1>14 DEF Cut
<1>15. ASSUME NEW k \in Callers, Unlist(k) PROVE Kept
  BY <1>15 DEF Unlist
<1>16. ASSUME NEW k \in Callers, ReleaseConn(k) PROVE Lost(k)
  BY <1>16 DEF ReleaseConn, GiveSlot, Wake, Lost
<1>17. ASSUME NEW k \in Callers, CloseReaped(k) PROVE Kept
  BY <1>17 DEF CloseReaped, Shut
<1>18. ASSUME NEW b \in Subscribers, Subscribe(b) PROVE Kept
  BY <1>18 DEF Subscribe, Goto, EpochsOf, Key
<1>19. ASSUME NEW b \in Subscribers, ReserveWatch(b) PROVE Kept \/ Gained(b)
  <2>1. \/ UNCHANGED <<sem, use>> /\ Goto(b, "done")
        \/ TakeSlot(CredOf[b]) /\ Goto(b, "reserved") /\ RoomToWatch(CredOf[b])
    BY <1>19 DEF ReserveWatch
  <2>2. RoomToWatch(CredOf[b]) => sem < GlobalMax
    BY DEF RoomToWatch, Shape, CountersOK
  <2>3. pc[b] = "reserving" /\ UNCHANGED <<cstate, wstate>>
    BY <1>19 DEF ReserveWatch
  <2>4. wstate[b] = "none" /\ b \in Clients \ Holders
    BY <2>3 DEF SubscriberPhases, Holders, Clients
  <2>5. Goto(b, "reserved") => Holders' = Holders \cup {b}
    BY <2>3, <2>4 DEF Goto, Holders, Shape, ClientsOK, Clients
  <2>6. Goto(b, "done") => Holders' = Holders
    BY <2>3, <2>4 DEF Goto, Holders, Shape, ClientsOK, Clients
  <2> QED BY <2>1, <2>2, <2>4, <2>5, <2>6 DEF Kept, Gained
<1>20. ASSUME NEW b \in Subscribers, CreateWatcher(b) PROVE Kept
  BY <1>20 DEF CreateWatcher, Goto, EpochsOf, Key
<1>21. ASSUME NEW b \in Subscribers, SubscribeReleases(b) PROVE Lost(b)
  BY <1>21 DEF SubscribeReleases, GiveSlot, Wake, Lost
<1>22. ASSUME NEW b \in Subscribers, Join(b) PROVE Kept
  BY <1>22 DEF Join, Goto
<1>23. ASSUME NEW b \in Subscribers, Unsubscribe(b) PROVE Kept
  BY <1>23 DEF Unsubscribe, Goto
<1>24. ASSUME NEW w \in Subscribers, Session(w) PROVE Kept
  BY <1>24 DEF Session
<1>25. ASSUME NEW w \in Subscribers, ReleaseWatch(w) PROVE Lost(w)
  BY <1>25 DEF ReleaseWatch, GiveSlot, Wake, Lost
<1>26. ASSUME NEW w \in Subscribers, EndWatch(w) PROVE Kept
  BY <1>26 DEF EndWatch, Stop
<1>27. ASSUME NEW w \in Subscribers, WatchFails(w) PROVE Kept
  BY <1>27 DEF WatchFails
<1>28. ASSUME NEW s \in Sweeps, SweepConn(s) PROVE Kept
  BY <1>28 DEF SweepConn, Shut
<1>29. UNCHANGED <<pc, cstate, wstate, sem, use>> => Kept
  BY DEF Kept, Holders
<1>30. Callers \subseteq Clients /\ Subscribers \subseteq Clients
  BY DEF Clients
<1> HIDE DEF Holders, CallerPhases, SubscriberPhases, Shape, ClientsOK, ConnsOK, ConnStates,
    WatchersOK, WatcherStates, Clients, Kept
<1> QED
  BY <1>1, <1>2, <1>3, <1>4, <1>5, <1>6, <1>7, <1>8, <1>9, <1>10, <1>11, <1>12, <1>13, <1>14,
      <1>15, <1>16, <1>17, <1>18, <1>19, <1>20, <1>21, <1>22, <1>23, <1>24, <1>25, <1>26, <1>27,
      <1>28, <1>29, <1>30
  DEF Next, CallerStep, ConnStep, SubscriberStep, WatcherStep, SweepStep,
      MarkBroken, Linger, StopDoomed, Delist, Invalidate, SweptConn, SweepWatcher, Swept, Reap,
          Close, CloseReturns, Stop, Collect, Pending, Key

(* Each of these keeps the books in order. *)
LEMMA SlotsStep ==
  ASSUME PoolAssumption, Shape, Slots, Kept \/ \E x \in Clients : Gained(x) \/ Lost(x)
  PROVE  Slots'
<1> USE PoolAssumption
<1>1. CASE Kept
  BY <1>1 DEF Kept, Slots, HeldAt
<1>2. ASSUME NEW x \in Clients, Gained(x) PROVE Slots'
  <2>1. IsFiniteSet(Holders') /\ Cardinality(Holders') = Cardinality(Holders) + 1
    BY <1>2, FS_AddElement DEF Gained, Slots
  <2>2. ASSUME NEW p \in Places PROVE use'[p] = Cardinality(HeldAt(p)')
    <3>1. IsFiniteSet(HeldAt(p)) /\ x \notin HeldAt(p)
      BY <1>2, FS_Subset DEF Gained, Slots, HeldAt
    <3>2. CASE p \in PlacesOf[CredOf[x]]
      <4>1. HeldAt(p)' = HeldAt(p) \cup {x}
        BY <1>2, <3>2 DEF Gained, HeldAt
      <4>2. use'[p] = use[p] + 1
        BY <1>2, <3>2 DEF Gained, TakeSlot
      <4> QED BY <3>1, <4>1, <4>2, FS_AddElement DEF Slots, HeldAt
    <3>3. CASE p \notin PlacesOf[CredOf[x]]
      <4>1. HeldAt(p)' = HeldAt(p) /\ use'[p] = use[p]
        BY <1>2, <3>3 DEF Gained, HeldAt, TakeSlot
      <4> QED BY <4>1 DEF Slots, HeldAt
    <3> QED BY <3>2, <3>3
  <2>3. sem' = sem + 1 /\ sem < GlobalMax
    BY <1>2 DEF Gained, TakeSlot
  <2>4. sem' = Cardinality(Holders') /\ sem' <= GlobalMax
    BY <2>1, <2>3 DEF Slots, Shape, CountersOK
  <2> QED BY <2>1, <2>2, <2>4 DEF Slots, HeldAt
<1>3. ASSUME NEW x \in Clients, Lost(x) PROVE Slots'
  <2>1. IsFiniteSet(Holders') /\ Cardinality(Holders') = Cardinality(Holders) - 1
    BY <1>3, FS_RemoveElement DEF Lost, Slots
  <2>2. ASSUME NEW p \in Places PROVE use'[p] = Cardinality(HeldAt(p)')
    <3>1. IsFiniteSet(HeldAt(p))
      BY FS_Subset DEF Slots, HeldAt
    <3>2. CASE p \in PlacesOf[CredOf[x]]
      <4>1. x \in HeldAt(p) /\ HeldAt(p)' = HeldAt(p) \ {x}
        BY <1>3, <3>2 DEF Lost, HeldAt
      <4>2. use'[p] = use[p] - 1
        BY <1>3, <3>2 DEF Lost
      <4>3. Cardinality(HeldAt(p)') = Cardinality(HeldAt(p)) - 1
        <5> DEFINE S == HeldAt(p)
        <5> HIDE DEF S
        <5>1. IsFiniteSet(S) /\ x \in S BY <3>1, <4>1 DEF S
        <5>2. Cardinality(S \ {x}) = Cardinality(S) - 1 BY <5>1, FS_RemoveElement
        <5>3. HeldAt(p)' = S \ {x} BY <4>1 DEF S
        <5> QED BY <5>2, <5>3 DEF S
      <4>4. use[p] = Cardinality(HeldAt(p))
        BY DEF Slots, HeldAt
      <4> QED BY <4>2, <4>3, <4>4
    <3>3. CASE p \notin PlacesOf[CredOf[x]]
      <4>1. HeldAt(p)' = HeldAt(p) /\ use'[p] = use[p]
        BY <1>3, <3>3 DEF Lost, HeldAt
      <4> QED BY <4>1 DEF Slots, HeldAt
    <3> QED BY <3>2, <3>3
  <2>3. sem' = sem - 1
    BY <1>3 DEF Lost
  <2>4. sem' = Cardinality(Holders') /\ sem' <= GlobalMax
    BY <2>1, <2>3 DEF Slots, Shape, CountersOK
  <2> QED BY <2>1, <2>2, <2>4 DEF Slots, HeldAt
<1> QED BY <1>1, <1>2, <1>3

(* Counted slots are natural numbers, so that the invariant gives every variable its type. *)
LEMMA TypesFollow == ASSUME PoolAssumption, Shape, Slots PROVE TypeOK
<1>1. sem \in 0 .. GlobalMax
  BY PoolAssumption, FS_CardinalityType DEF Slots, Shape, CountersOK
<1>2. \A p \in Places : IsFiniteSet(HeldAt(p))
  BY FS_Subset DEF Slots, HeldAt
<1>3. \A p \in Places : Cardinality(HeldAt(p)) \in Nat
  BY <1>2, FS_CardinalityType
<1>4. \A p \in Places : use[p] = Cardinality(HeldAt(p))
  BY DEF Slots, HeldAt
<1>5. use \in [Places -> Nat]
  BY <1>3, <1>4 DEF Shape, CountersOK
<1> QED
  BY <1>1, <1>5 DEF TypeOK, Shape, CountersOK, IdleOK, ConnsOK, ClientsOK, WatchersOK, SweepsOK

-----------------------------------------------------------------------------
(* No lost wakeup *)

(* Taking a slot makes no room for anybody. *)
LEMMA TakingLeavesNoRoom ==
  ASSUME PoolAssumption, Shape, NEW d \in Creds, NEW e \in Creds, TakeSlot(e), ~Room(d)
  PROVE  ~Room(d)'
<1>1. sem' = sem + 1 /\ \A p \in Places : use'[p] >= use[p]
  BY DEF TakeSlot, Shape, CountersOK
<1>2. PlacesOf[d] \subseteq Places /\ \A p \in Places : use[p] \in Int /\ use'[p] \in Int /\ PlaceMax[p] \in Int
  BY PoolAssumption DEF TakeSlot, Shape, CountersOK
<1>3. GlobalMax \in Int /\ sem \in Int
  BY PoolAssumption DEF Shape, CountersOK
<1> QED BY <1>1, <1>2, <1>3 DEF Room

(* Nothing is freed and nobody falls asleep. *)
NoNewSleeper ==
  /\ UNCHANGED <<sem, use>>
  /\ \A e \in Callers : pc'[e] = "asleep" => pc[e] = "asleep"

(* A step that frees no slot and puts nobody to sleep keeps the invariant. *)
LEMMA SleepersStay ==
  ASSUME NoLostWakeup, NoNewSleeper
  PROVE  NoLostWakeup'
<1>1. \A e \in Callers : Room(CredOf[e])' = Room(CredOf[e])
  BY DEF NoNewSleeper, Room
<1> QED BY <1>1 DEF NoLostWakeup, NoNewSleeper

(* Every step keeps sleepers without room: whoever frees a slot wakes all of them. *)
LEMMA NoLostWakeupStep ==
  ASSUME PoolAssumption, Shape, NoLostWakeup, Next
  PROVE  NoLostWakeup'
<1> USE PoolAssumption
    DEF poolVars, clientVars, connVars, watcherVars, sweepVars, NoLostWakeup, Shape, ClientsOK,
        Clients
<1>1. ASSUME NEW c \in Callers, TakeIdle(c) PROVE NoLostWakeup'
  BY <1>1, SleepersStay DEF TakeIdle, NoNewSleeper, Goto, Shape, ClientsOK, Clients
<1>2. ASSUME NEW c \in Callers, StartDial(c) PROVE NoLostWakeup'
  BY <1>2, SleepersStay DEF StartDial, NoNewSleeper, Goto, Shape, ClientsOK, Clients
<1>3. ASSUME NEW c \in Callers, CheckTaken(c) PROVE NoLostWakeup'
  BY <1>3, SleepersStay DEF CheckTaken, NoNewSleeper, Goto, Shape, ClientsOK, Clients
<1>4. ASSUME NEW c \in Callers, StartAgain(c) PROVE NoLostWakeup'
  BY <1>4, SleepersStay DEF StartAgain, NoNewSleeper, Goto, Shape, ClientsOK, Clients
<1>5. ASSUME NEW c \in Callers, Reserve(c) PROVE NoLostWakeup'
  <2>1. \/ Goto(c, "done") /\ UNCHANGED <<sem, use>>
        \/ TakeSlot(CredOf[c]) /\ Goto(c, "reserved")
        \/ ~Room(CredOf[c]) /\ Goto(c, "asleep") /\ UNCHANGED <<sem, use>>
    BY <1>5 DEF Reserve
  <2>2. \A e \in Callers : CredOf[e] \in Creds
    BY DEF Clients
  <2>3. \A e \in Callers : TakeSlot(CredOf[c]) /\ ~Room(CredOf[e]) => ~Room(CredOf[e])'
    BY <2>2, TakingLeavesNoRoom
  <2>4. \A e \in Callers : UNCHANGED <<sem, use>> /\ ~Room(CredOf[e]) => ~Room(CredOf[e])'
    BY DEF Room
  <2>5. ASSUME NEW e \in Callers, pc'[e] = "asleep"
        PROVE pc[e] = "asleep" \/ (e = c /\ ~Room(CredOf[c]) /\ UNCHANGED <<sem, use>>)
    BY <2>1, <2>5 DEF Goto, Shape, ClientsOK, Clients
  <2>6. \A e \in Callers : pc'[e] = "asleep" => ~Room(CredOf[e]) /\ (UNCHANGED <<sem,
      use>> \/ TakeSlot(CredOf[c]))
    BY <2>1, <2>5 DEF NoLostWakeup
  <2> QED BY <2>3, <2>4, <2>6 DEF NoLostWakeup
<1>6. ASSUME NEW c \in Callers, GiveUp(c) PROVE NoLostWakeup'
  BY <1>6, SleepersStay DEF GiveUp, NoNewSleeper, Goto, Shape, ClientsOK, Clients
<1>7. ASSUME NEW c \in Callers, Admit(c) PROVE NoLostWakeup'
  BY <1>7, SleepersStay DEF Admit, NoNewSleeper, Goto, Shape, ClientsOK, Clients
<1>8. ASSUME NEW c \in Callers, Dial(c) PROVE NoLostWakeup'
  BY <1>8, SleepersStay DEF Dial, NoNewSleeper, Goto, Shape, ClientsOK, Clients
<1>9. ASSUME NEW c \in Callers, DialReleases(c) PROVE NoLostWakeup'
  BY <1>9 DEF DialReleases, GiveSlot, Wake
<1>10. ASSUME NEW c \in Callers, Register(c) PROVE NoLostWakeup'
  BY <1>10, SleepersStay DEF Register, NoNewSleeper, Goto, Shape, ClientsOK, Clients
<1>11. ASSUME NEW c \in Callers, Put(c) PROVE NoLostWakeup'
  BY <1>11, SleepersStay DEF Put, NoNewSleeper, Goto, Shape, ClientsOK, Clients
<1>12. ASSUME NEW c \in Callers, Keep(c) PROVE NoLostWakeup'
  BY <1>12, SleepersStay DEF Keep, NoNewSleeper, Goto, Shape, ClientsOK, Clients
<1>13. ASSUME NEW c \in Callers, Closed(c) PROVE NoLostWakeup'
  BY <1>13, SleepersStay DEF Closed, NoNewSleeper, Goto, Shape, ClientsOK, Clients
<1>14. ASSUME NEW k \in Callers, ReleaseConn(k) PROVE NoLostWakeup'
  BY <1>14 DEF ReleaseConn, GiveSlot, Wake
<1>15. ASSUME NEW b \in Subscribers, Subscribe(b) PROVE NoLostWakeup'
  BY <1>15, SleepersStay DEF Subscribe, NoNewSleeper, Goto, Shape, ClientsOK, Clients
<1>16. ASSUME NEW b \in Subscribers, ReserveWatch(b) PROVE NoLostWakeup'
  <2>1. \/ Goto(b, "done") /\ UNCHANGED <<sem, use>>
        \/ TakeSlot(CredOf[b]) /\ Goto(b, "reserved")
    BY <1>16 DEF ReserveWatch
  <2>2. \A e \in Callers : CredOf[e] \in Creds /\ CredOf[b] \in Creds
    BY DEF Clients
  <2>3. \A e \in Callers : TakeSlot(CredOf[b]) /\ ~Room(CredOf[e]) => ~Room(CredOf[e])'
    BY <2>2, TakingLeavesNoRoom
  <2>4. \A e \in Callers : UNCHANGED <<sem, use>> /\ ~Room(CredOf[e]) => ~Room(CredOf[e])'
    BY DEF Room
  <2>5. \A e \in Callers : pc'[e] = pc[e]
    BY <2>1 DEF Goto, Shape, ClientsOK, Clients
  <2> QED BY <2>1, <2>3, <2>4, <2>5 DEF NoLostWakeup
<1>17. ASSUME NEW b \in Subscribers, CreateWatcher(b) PROVE NoLostWakeup'
  BY <1>17, SleepersStay DEF CreateWatcher, NoNewSleeper, Goto, Shape, ClientsOK, Clients
<1>18. ASSUME NEW b \in Subscribers, SubscribeReleases(b) PROVE NoLostWakeup'
  BY <1>18 DEF SubscribeReleases, GiveSlot, Wake
<1>19. ASSUME NEW b \in Subscribers, Join(b) PROVE NoLostWakeup'
  BY <1>19, SleepersStay DEF Join, NoNewSleeper, Goto, Shape, ClientsOK, Clients
<1>20. ASSUME NEW b \in Subscribers, Unsubscribe(b) PROVE NoLostWakeup'
  BY <1>20, SleepersStay DEF Unsubscribe, NoNewSleeper, Goto, Shape, ClientsOK, Clients
<1>21. ASSUME NEW w \in Subscribers, ReleaseWatch(w) PROVE NoLostWakeup'
  BY <1>21 DEF ReleaseWatch, GiveSlot, Wake
<1>22. UNCHANGED <<pc, sem, use>> => NoLostWakeup'
  BY DEF NoLostWakeup, Room
<1>23. ASSUME NEW s \in Sweeps, SweepStep(s) PROVE UNCHANGED <<pc, sem, use>>
  BY <1>23 DEF SweepStep, SweepConn, SweptConn, SweepWatcher, Swept, Shut, Stop
<1> HIDE DEF NoLostWakeup, Shape, ClientsOK, Clients
<1> QED
  BY <1>1, <1>2, <1>3, <1>4, <1>5, <1>6, <1>7, <1>8, <1>9, <1>10, <1>11, <1>12, <1>13, <1>14,
      <1>15, <1>16, <1>17, <1>18, <1>19, <1>20, <1>21, <1>22, <1>23
  DEF Next, CallerStep, ConnStep, SubscriberStep, WatcherStep, SweepStep,
      MarkBroken, Cut, Unlist, CloseReaped, Linger, StopDoomed, Delist, Session, EndWatch,
          WatchFails, Invalidate, Reap, Close, CloseReturns, Shut, Stop, Collect, Pending, Key

-----------------------------------------------------------------------------
(* Invalidation and Close *)

(* A listed connection exists, and an open one is listed unless its dial has just ended. *)
ConnsSound ==
  /\ \A k \in listed : cstate[k] # "none"
  /\ \A k \in Callers : cstate[k] \in {"open", "cut"} => pc[k] = "dialed" \/ k \in listed

(* The pool is closed once Close has begun, and a sweep that is not running has nothing left to
   do. *)
SweepsSound ==
  /\ closed <=> spc[Closer] # "ready"
  /\ \A s \in Sweeps : spc[s] # "closing" => sweep[s] = {} /\ wsweep[s] = {}

(* Close gets hold of every open connection but those of pending dials. *)
ClosingSound ==
  closed => \A k \in Callers : cstate[k] = "open" => pc[k] = "dialed" \/ k \in sweep[Closer]

(* When Close has returned, there are no dials and no watchers. *)
ClosedSound ==
  spc[Closer] = "done" => /\ Pending = {}
                          /\ \A w \in Subscribers : wstate[w] \in {"none", "gone"}

(* A listed open connection was asked for after the last invalidation of its places, or is
   about to be closed. *)
ConnsFresh ==
  \A k \in listed : cstate[k] = "open" =>
    seen[k] = EpochsOf(k) \/ \E s \in Sweeps : k \in sweep[s]

(* The same for a listed watcher. *)
WatchersFresh ==
  \A w \in Subscribers : wtch[Key(w)] = w /\ w \notin stopped =>
    seen[w] = EpochsOf(w) \/ \E s \in Sweeps : w \in wsweep[s]

(* Connections change only by being closed. *)
ShutsOnly ==
  \A k \in Callers : \/ cstate'[k] = cstate[k]
                     \/ cstate[k] \in {"open", "cut"} /\ cstate'[k] = "closing"

(* Shut closes connections and does nothing else to them. *)
LEMMA ShutShuts ==
  ASSUME Shape, NEW k, Shut(k)
  PROVE  ShutsOnly /\ (k \in Callers => cstate'[k] \notin {"open", "cut"})
  BY DEF Shut, ShutsOnly, Shape, ConnsOK

(* The epochs of a login change only with an invalidation of one of its places. *)
LEMMA EpochsElsewhere ==
  ASSUME PoolAssumption, Shape, NEW p \in Places, epoch' = [epoch EXCEPT ![p] = epoch[p] + 1],
         NEW x \in Clients, p \notin PlacesOf[CredOf[x]]
  PROVE  EpochsOf(x)' = EpochsOf(x)
<1>1. PlacesOf[CredOf[x]] \subseteq Places
  BY PoolAssumption
<1>2. \A q \in PlacesOf[CredOf[x]] : epoch'[q] = epoch[q]
  BY <1>1 DEF Shape, CountersOK
<1> QED BY <1>2 DEF EpochsOf

(* Every step keeps open connections listed or in the hands of whoever dialled them. *)
LEMMA ConnsSoundStep ==
  ASSUME PoolAssumption, Shape, CallerPhases, ConnsSound, Next
  PROVE  ConnsSound'
<1> USE PoolAssumption
    DEF poolVars, clientVars, connVars, watcherVars, sweepVars, ConnsSound, Shape, ClientsOK,
        Clients, ConnsOK, ConnStates, CallerPhases
<1>1. ASSUME NEW c \in Callers, TakeIdle(c) PROVE ConnsSound'
  BY <1>1 DEF TakeIdle, Goto
<1>2. ASSUME NEW c \in Callers, StartDial(c) PROVE ConnsSound'
  BY <1>2 DEF StartDial, Goto, EpochsOf
<1>3. ASSUME NEW c \in Callers, CheckTaken(c) PROVE ConnsSound'
  BY <1>3 DEF CheckTaken, Goto, Shut
<1>4. ASSUME NEW c \in Callers, StartAgain(c) PROVE ConnsSound'
  BY <1>4 DEF StartAgain, Goto
<1>5. ASSUME NEW c \in Callers, Reserve(c) PROVE ConnsSound'
  BY <1>5 DEF Reserve, Goto, Room, TakeSlot
<1>6. ASSUME NEW c \in Callers, GiveUp(c) PROVE ConnsSound'
  BY <1>6 DEF GiveUp, Goto
<1>7. ASSUME NEW c \in Callers, Admit(c) PROVE ConnsSound'
  BY <1>7 DEF Admit, Goto, EpochsOf
<1>8. ASSUME NEW c \in Callers, Dial(c) PROVE ConnsSound'
  BY <1>8 DEF Dial, Goto
<1>9. ASSUME NEW c \in Callers, DialReleases(c) PROVE ConnsSound'
  BY <1>9 DEF DialReleases, GiveSlot, Wake
<1>10. ASSUME NEW c \in Callers, Register(c) PROVE ConnsSound'
  <2>1. /\ pc[c] = "dialed"
        /\ \/ listed' = listed \cup {c} /\ Goto(c, "using") /\ UNCHANGED cstate
           \/ Shut(c) /\ Goto(c, "rejected") /\ UNCHANGED listed
    BY <1>10 DEF Register
  <2>2. \A k \in Callers : k # c => pc'[k] = pc[k]
    BY <2>1 DEF Goto, Shape, ClientsOK, Clients
  <2>3. cstate[c] # "none"
    BY <2>1 DEF CallerPhases
  <2>4. CASE listed' = listed \cup {c} /\ UNCHANGED cstate
    BY <2>2, <2>3, <2>4 DEF ConnsSound
  <2>5. CASE Shut(c) /\ UNCHANGED listed
    <3>1. ShutsOnly /\ cstate'[c] \notin {"open", "cut"}
      BY <2>5, ShutShuts
    <3> QED BY <2>2, <2>5, <3>1 DEF ConnsSound, ShutsOnly, Shape, ConnsOK
  <2> QED BY <2>1, <2>4, <2>5
<1>11. ASSUME NEW c \in Callers, Put(c) PROVE ConnsSound'
  BY <1>11 DEF Put, Goto, Shut
<1>12. ASSUME NEW c \in Callers, Keep(c) PROVE ConnsSound'
  <2>1. /\ pc[c] = "putting" /\ UNCHANGED listed
        /\ Goto(c, "done") \/ Goto(c, "closing")
        /\ UNCHANGED cstate \/ Shut(conn[c])
    BY <1>12 DEF Keep
  <2>2. \A k \in Callers : pc'[k] = "dialed" <=> pc[k] = "dialed"
    BY <2>1 DEF Goto, Shape, ClientsOK, Clients
  <2>3. ShutsOnly
    BY <2>1, ShutShuts DEF ShutsOnly
  <2> QED BY <2>1, <2>2, <2>3 DEF ConnsSound, ShutsOnly, Shape, ConnsOK
<1>13. ASSUME NEW c \in Callers, Closed(c) PROVE ConnsSound'
  BY <1>13 DEF Closed, Goto
<1>14. ASSUME NEW c \in Callers, Cut(c) PROVE ConnsSound'
  BY <1>14 DEF Cut
<1>15. ASSUME NEW k \in Callers, Unlist(k) PROVE ConnsSound'
  BY <1>15 DEF Unlist
<1>16. ASSUME NEW k \in Callers, ReleaseConn(k) PROVE ConnsSound'
  BY <1>16 DEF ReleaseConn, GiveSlot, Wake
<1>17. ASSUME NEW k \in Callers, CloseReaped(k) PROVE ConnsSound'
  BY <1>17 DEF CloseReaped, Shut
<1>18. ASSUME NEW b \in Subscribers, Subscribe(b) PROVE ConnsSound'
  BY <1>18 DEF Subscribe, Goto, EpochsOf, Key
<1>19. ASSUME NEW b \in Subscribers, ReserveWatch(b) PROVE ConnsSound'
  BY <1>19 DEF ReserveWatch, Goto, RoomToWatch, TakeSlot
<1>20. ASSUME NEW b \in Subscribers, CreateWatcher(b) PROVE ConnsSound'
  BY <1>20 DEF CreateWatcher, Goto, EpochsOf, Key
<1>21. ASSUME NEW b \in Subscribers, SubscribeReleases(b) PROVE ConnsSound'
  BY <1>21 DEF SubscribeReleases, GiveSlot, Wake
<1>22. ASSUME NEW b \in Subscribers, Join(b) PROVE ConnsSound'
  BY <1>22 DEF Join, Goto
<1>23. ASSUME NEW b \in Subscribers, Unsubscribe(b) PROVE ConnsSound'
  BY <1>23 DEF Unsubscribe, Goto
<1>24. ASSUME NEW w \in Subscribers, ReleaseWatch(w) PROVE ConnsSound'
  BY <1>24 DEF ReleaseWatch, GiveSlot, Wake
<1>25. ASSUME NEW s \in Sweeps, SweepConn(s) PROVE ConnsSound'
  BY <1>25 DEF SweepConn, Shut
<1>26. UNCHANGED <<listed, cstate, pc>> => ConnsSound'
  BY DEF ConnsSound
<1> HIDE DEF ConnsSound, Shape, ClientsOK, Clients, ConnsOK, ConnStates, CallerPhases
<1> QED
  BY <1>1, <1>2, <1>3, <1>4, <1>5, <1>6, <1>7, <1>8, <1>9, <1>10, <1>11, <1>12, <1>13, <1>14,
      <1>15, <1>16, <1>17, <1>18, <1>19, <1>20, <1>21, <1>22, <1>23, <1>24, <1>25, <1>26
  DEF Next, CallerStep, ConnStep, SubscriberStep, WatcherStep, SweepStep,
      MarkBroken, Linger, StopDoomed, Delist, Session, EndWatch, WatchFails, Invalidate,
          SweptConn, SweepWatcher, Swept, Reap, Close, CloseReturns, Stop, Collect, Pending, Key

(* A sweep that has not begun or is over has nothing left to do, and the pool is closed once
   Close began. *)
LEMMA SweepsSoundStep ==
  ASSUME PoolAssumption, Shape, SweepsSound, Next
  PROVE  SweepsSound'
<1> USE PoolAssumption
    DEF poolVars, clientVars, connVars, watcherVars, sweepVars, SweepsSound, Shape, SweepsOK,
        Sweeps
<1>1. ASSUME NEW s \in Invalidations, Invalidate(s) PROVE SweepsSound'
  BY <1>1 DEF Invalidate, Collect, Pending, Key
<1>2. ASSUME NEW s \in Sweeps, SweepConn(s) PROVE SweepsSound'
  BY <1>2 DEF SweepConn, Shut
<1>3. ASSUME NEW s \in Sweeps, SweepWatcher(s) PROVE SweepsSound'
  BY <1>3 DEF SweepWatcher, Stop
<1>4. ASSUME NEW s \in Sweeps, Swept(s) PROVE SweepsSound'
  BY <1>4 DEF Swept
<1>5. ASSUME Close PROVE SweepsSound'
  BY <1>5 DEF Close, Collect, Pending, Key
<1>6. ASSUME CloseReturns PROVE SweepsSound'
  BY <1>6 DEF CloseReturns, Pending
<1>7. UNCHANGED <<closed, spc, sweep, wsweep>> => SweepsSound'
  BY DEF SweepsSound
<1>8. ASSUME NEW c \in Callers, CallerStep(c) \/ ConnStep(c) \/ MarkBroken(c) \/ Cut(c)
      PROVE UNCHANGED <<closed, spc, sweep, wsweep>>
  BY <1>8 DEF CallerStep, ConnStep, TakeIdle, StartDial, CheckTaken, StartAgain, Reserve, GiveUp,
      Admit, Dial, DialReleases, Register, Put, Keep, Closed, MarkBroken, Cut, Unlist,
      ReleaseConn, CloseReaped, Goto, EpochsOf, Shut, Room, TakeSlot, GiveSlot, Wake
<1>9. ASSUME NEW b \in Subscribers, SubscriberStep(b) \/ Unsubscribe(b)
      PROVE UNCHANGED <<closed, spc, sweep, wsweep>>
  BY <1>9 DEF SubscriberStep, Subscribe, ReserveWatch, CreateWatcher, SubscribeReleases, Join,
      Unsubscribe, Goto, EpochsOf, Key, RoomToWatch, TakeSlot, GiveSlot, Wake
<1>10. ASSUME NEW w \in Subscribers, WatcherStep(w) \/ WatchFails(w)
       PROVE UNCHANGED <<closed, spc, sweep, wsweep>>
  BY <1>10 DEF WatcherStep, Linger, StopDoomed, Delist, Session, ReleaseWatch, EndWatch,
      WatchFails, Stop, GiveSlot, Wake
<1> HIDE DEF SweepsSound, Shape, SweepsOK, Sweeps
<1> QED
  BY <1>1, <1>2, <1>3, <1>4, <1>5, <1>6, <1>7, <1>8, <1>9, <1>10
  DEF Next, CallerStep, ConnStep, SubscriberStep, WatcherStep, SweepStep,
      SweptConn, Reap

(* Once the pool is closed, an open connection is still unregistered or in the sweep of Close. *)
LEMMA ClosingSoundStep ==
  ASSUME PoolAssumption, Shape, CallerPhases, ConnsSound, ClosingSound, Next
  PROVE  ClosingSound'
<1> USE PoolAssumption
    DEF poolVars, clientVars, connVars, watcherVars, sweepVars, ClosingSound, Shape, ClientsOK,
        Clients, ConnsOK, ConnStates, SweepsOK, Sweeps
<1>1. ASSUME NEW c \in Callers, TakeIdle(c) PROVE ClosingSound'
  BY <1>1 DEF TakeIdle, Goto
<1>2. ASSUME NEW c \in Callers, StartDial(c) PROVE ClosingSound'
  BY <1>2 DEF StartDial, Goto, EpochsOf
<1>3. ASSUME NEW c \in Callers, CheckTaken(c) PROVE ClosingSound'
  BY <1>3 DEF CheckTaken, Goto, Shut
<1>4. ASSUME NEW c \in Callers, StartAgain(c) PROVE ClosingSound'
  BY <1>4 DEF StartAgain, Goto
<1>5. ASSUME NEW c \in Callers, Reserve(c) PROVE ClosingSound'
  BY <1>5 DEF Reserve, Goto, Room, TakeSlot
<1>6. ASSUME NEW c \in Callers, GiveUp(c) PROVE ClosingSound'
  BY <1>6 DEF GiveUp, Goto
<1>7. ASSUME NEW c \in Callers, Admit(c) PROVE ClosingSound'
  BY <1>7 DEF Admit, Goto, EpochsOf
<1>8. ASSUME NEW c \in Callers, Dial(c) PROVE ClosingSound'
  BY <1>8 DEF Dial, Goto
<1>9. ASSUME NEW c \in Callers, DialReleases(c) PROVE ClosingSound'
  BY <1>9 DEF DialReleases, GiveSlot, Wake
<1>10. ASSUME NEW c \in Callers, Register(c) PROVE ClosingSound'
  BY <1>10 DEF Register, Goto, Shut, EpochsOf
<1>11. ASSUME NEW c \in Callers, Put(c) PROVE ClosingSound'
  BY <1>11 DEF Put, Goto, Shut
<1>12. ASSUME NEW c \in Callers, Keep(c) PROVE ClosingSound'
  BY <1>12 DEF Keep, Goto, Shut
<1>13. ASSUME NEW c \in Callers, Closed(c) PROVE ClosingSound'
  BY <1>13 DEF Closed, Goto
<1>14. ASSUME NEW c \in Callers, Cut(c) PROVE ClosingSound'
  BY <1>14 DEF Cut
<1>15. ASSUME NEW k \in Callers, Unlist(k) PROVE ClosingSound'
  BY <1>15 DEF Unlist
<1>16. ASSUME NEW k \in Callers, ReleaseConn(k) PROVE ClosingSound'
  BY <1>16 DEF ReleaseConn, GiveSlot, Wake
<1>17. ASSUME NEW k \in Callers, CloseReaped(k) PROVE ClosingSound'
  BY <1>17 DEF CloseReaped, Shut
<1>18. ASSUME NEW b \in Subscribers, Subscribe(b) PROVE ClosingSound'
  BY <1>18 DEF Subscribe, Goto, EpochsOf, Key
<1>19. ASSUME NEW b \in Subscribers, ReserveWatch(b) PROVE ClosingSound'
  BY <1>19 DEF ReserveWatch, Goto, RoomToWatch, TakeSlot
<1>20. ASSUME NEW b \in Subscribers, CreateWatcher(b) PROVE ClosingSound'
  BY <1>20 DEF CreateWatcher, Goto, EpochsOf, Key
<1>21. ASSUME NEW b \in Subscribers, SubscribeReleases(b) PROVE ClosingSound'
  BY <1>21 DEF SubscribeReleases, GiveSlot, Wake
<1>22. ASSUME NEW b \in Subscribers, Join(b) PROVE ClosingSound'
  BY <1>22 DEF Join, Goto
<1>23. ASSUME NEW b \in Subscribers, Unsubscribe(b) PROVE ClosingSound'
  BY <1>23 DEF Unsubscribe, Goto
<1>24. ASSUME NEW w \in Subscribers, ReleaseWatch(w) PROVE ClosingSound'
  BY <1>24 DEF ReleaseWatch, GiveSlot, Wake
<1>25. ASSUME NEW s \in Invalidations, Invalidate(s) PROVE ClosingSound'
  BY <1>25 DEF Invalidate, Collect, Pending, Key
<1>26. ASSUME NEW s \in Sweeps, SweepConn(s) PROVE ClosingSound'
  BY <1>26 DEF SweepConn, Shut
<1>27. ASSUME Close PROVE ClosingSound'
  <2>1. sweep' = [sweep EXCEPT ![Closer] = {k \in listed : CredOf[k] \in Creds}] /\ UNCHANGED <<cstate, pc>>
    BY <1>27 DEF Close, Collect
  <2>2. \A k \in listed : CredOf[k] \in Creds
    BY DEF Shape, ConnsOK, Clients
  <2>3. sweep'[Closer] = listed
    BY <2>1, <2>2 DEF Shape, SweepsOK, Sweeps
  <2> QED BY <2>1, <2>3 DEF ClosingSound, ConnsSound
<1>28. UNCHANGED <<closed, cstate, pc, sweep>> => ClosingSound'
  BY DEF ClosingSound
<1> HIDE DEF ClosingSound, Shape, ClientsOK, Clients, ConnsOK, ConnStates, SweepsOK, Sweeps
<1> QED
  BY <1>1, <1>2, <1>3, <1>4, <1>5, <1>6, <1>7, <1>8, <1>9, <1>10, <1>11, <1>12, <1>13, <1>14,
      <1>15, <1>16, <1>17, <1>18, <1>19, <1>20, <1>21, <1>22, <1>23, <1>24, <1>25, <1>26, <1>27,
      <1>28
  DEF Next, CallerStep, ConnStep, SubscriberStep, WatcherStep, SweepStep,
      MarkBroken, Linger, StopDoomed, Delist, Session, EndWatch, WatchFails, SweptConn,
          SweepWatcher, Swept, Reap, CloseReturns, Stop, Pending

(* When Close has returned, no dial is pending and no watcher is left. *)
LEMMA ClosedSoundStep ==
  ASSUME PoolAssumption, Shape, SubscriberPhases, SweepsSound, ClosedSound, Next
  PROVE  ClosedSound'
<1> USE PoolAssumption
    DEF poolVars, clientVars, connVars, watcherVars, sweepVars, ClosedSound, SweepsSound,
        SubscriberPhases, Shape, ClientsOK, Clients, WatchersOK, SweepsOK, Sweeps, Pending
<1>1. ASSUME NEW c \in Callers, TakeIdle(c) PROVE ClosedSound'
  BY <1>1 DEF TakeIdle, Goto
<1>2. ASSUME NEW c \in Callers, StartDial(c) PROVE ClosedSound'
  BY <1>2 DEF StartDial, Goto, EpochsOf
<1>3. ASSUME NEW c \in Callers, CheckTaken(c) PROVE ClosedSound'
  BY <1>3 DEF CheckTaken, Goto, Shut
<1>4. ASSUME NEW c \in Callers, StartAgain(c) PROVE ClosedSound'
  BY <1>4 DEF StartAgain, Goto
<1>5. ASSUME NEW c \in Callers, Reserve(c) PROVE ClosedSound'
  BY <1>5 DEF Reserve, Goto, Room, TakeSlot
<1>6. ASSUME NEW c \in Callers, GiveUp(c) PROVE ClosedSound'
  BY <1>6 DEF GiveUp, Goto
<1>7. ASSUME NEW c \in Callers, Admit(c) PROVE ClosedSound'
  BY <1>7 DEF Admit, Goto, EpochsOf
<1>8. ASSUME NEW c \in Callers, Dial(c) PROVE ClosedSound'
  BY <1>8 DEF Dial, Goto
<1>9. ASSUME NEW c \in Callers, DialReleases(c) PROVE ClosedSound'
  BY <1>9 DEF DialReleases, GiveSlot, Wake
<1>10. ASSUME NEW c \in Callers, Register(c) PROVE ClosedSound'
  BY <1>10 DEF Register, Goto, Shut, EpochsOf
<1>11. ASSUME NEW c \in Callers, Put(c) PROVE ClosedSound'
  BY <1>11 DEF Put, Goto, Shut
<1>12. ASSUME NEW c \in Callers, Keep(c) PROVE ClosedSound'
  BY <1>12 DEF Keep, Goto, Shut
<1>13. ASSUME NEW c \in Callers, Closed(c) PROVE ClosedSound'
  BY <1>13 DEF Closed, Goto
<1>14. ASSUME NEW k \in Callers, ReleaseConn(k) PROVE ClosedSound'
  BY <1>14 DEF ReleaseConn, GiveSlot, Wake
<1>15. ASSUME NEW b \in Subscribers, Subscribe(b) PROVE ClosedSound'
  BY <1>15 DEF Subscribe, Goto, EpochsOf, Key
<1>16. ASSUME NEW b \in Subscribers, ReserveWatch(b) PROVE ClosedSound'
  BY <1>16 DEF ReserveWatch, Goto, RoomToWatch, TakeSlot
<1>17. ASSUME NEW b \in Subscribers, CreateWatcher(b) PROVE ClosedSound'
  BY <1>17 DEF CreateWatcher, Goto, EpochsOf, Key
<1>18. ASSUME NEW b \in Subscribers, SubscribeReleases(b) PROVE ClosedSound'
  BY <1>18 DEF SubscribeReleases, GiveSlot, Wake
<1>19. ASSUME NEW b \in Subscribers, Join(b) PROVE ClosedSound'
  BY <1>19 DEF Join, Goto
<1>20. ASSUME NEW b \in Subscribers, Unsubscribe(b) PROVE ClosedSound'
  BY <1>20 DEF Unsubscribe, Goto
<1>21. ASSUME NEW w \in Subscribers, Session(w) PROVE ClosedSound'
  BY <1>21 DEF Session
<1>22. ASSUME NEW w \in Subscribers, ReleaseWatch(w) PROVE ClosedSound'
  BY <1>22 DEF ReleaseWatch, GiveSlot, Wake
<1>23. ASSUME NEW w \in Subscribers, EndWatch(w) PROVE ClosedSound'
  BY <1>23 DEF EndWatch, Stop
<1>24. ASSUME NEW w \in Subscribers, WatchFails(w) PROVE ClosedSound'
  BY <1>24 DEF WatchFails
<1>25. ASSUME NEW s \in Invalidations, Invalidate(s) PROVE ClosedSound'
  BY <1>25 DEF Invalidate, Collect, Key
<1>26. ASSUME NEW s \in Sweeps, Swept(s) PROVE ClosedSound'
  BY <1>26 DEF Swept
<1>27. ASSUME Close PROVE ClosedSound'
  BY <1>27 DEF Close, Collect, Key
<1>28. ASSUME CloseReturns PROVE ClosedSound'
  BY <1>28 DEF CloseReturns
<1>29. UNCHANGED <<spc, pc, wstate>> => ClosedSound'
  BY DEF ClosedSound, Pending
<1> HIDE DEF ClosedSound, SweepsSound, SubscriberPhases, Shape, ClientsOK, Clients, WatchersOK,
    SweepsOK, Sweeps, Pending
<1> QED
  BY <1>1, <1>2, <1>3, <1>4, <1>5, <1>6, <1>7, <1>8, <1>9, <1>10, <1>11, <1>12, <1>13, <1>14,
      <1>15, <1>16, <1>17, <1>18, <1>19, <1>20, <1>21, <1>22, <1>23, <1>24, <1>25, <1>26, <1>27,
      <1>28, <1>29
  DEF Next, CallerStep, ConnStep, SubscriberStep, WatcherStep, SweepStep,
      MarkBroken, Cut, Unlist, CloseReaped, Linger, StopDoomed, Delist, SweepConn, SweptConn,
          SweepWatcher, Reap, Shut, Stop

(* Every step keeps listed open connections either up to date or in the sweep of an
   invalidation. *)
LEMMA ConnsFreshStep ==
  ASSUME PoolAssumption, Shape, CallerPhases, ConnsSound, SweepsSound, ConnsFresh, Next
  PROVE  ConnsFresh'
<1> USE PoolAssumption
    DEF poolVars, clientVars, connVars, watcherVars, sweepVars, ConnsFresh, EpochsOf, Shape,
        ClientsOK, Clients, ConnsOK, ConnStates, CallerPhases, SweepsOK, Sweeps
<1>1. ASSUME NEW c \in Callers, StartDial(c) PROVE ConnsFresh'
  <2>1. pc[c] = "start" /\ UNCHANGED <<listed, cstate, epoch, sweep>>
        /\ (UNCHANGED seen \/ seen' = [seen EXCEPT ![c] = EpochsOf(c)])
    BY <1>1 DEF StartDial
  <2>2. cstate[c] = "none"
    BY <2>1 DEF CallerPhases
  <2>3. \A k \in listed : k # c => seen'[k] = seen[k]
    BY <2>1 DEF Shape, ClientsOK, ConnsOK, Clients
  <2>4. \A k \in listed : EpochsOf(k)' = EpochsOf(k)
    BY <2>1 DEF EpochsOf
  <2> QED BY <2>1, <2>2, <2>3, <2>4 DEF ConnsFresh
<1>2. ASSUME NEW c \in Callers, CheckTaken(c) PROVE ConnsFresh'
  BY <1>2 DEF CheckTaken, Goto, Shut
<1>3. ASSUME NEW c \in Callers, Dial(c) PROVE ConnsFresh'
  <2>1. /\ pc[c] = "dialing" /\ UNCHANGED <<listed, seen, epoch, sweep>>
        /\ UNCHANGED cstate \/ cstate' = [cstate EXCEPT ![c] = "open"]
    BY <1>3 DEF Dial
  <2>2. c \notin listed
    BY <2>1 DEF CallerPhases, ConnsSound
  <2>3. \A k \in listed : cstate'[k] = cstate[k]
    BY <2>1, <2>2 DEF Shape, ConnsOK
  <2>4. \A k \in listed : EpochsOf(k)' = EpochsOf(k)
    BY <2>1 DEF EpochsOf
  <2> QED BY <2>1, <2>3, <2>4 DEF ConnsFresh
<1>4. ASSUME NEW c \in Callers, Register(c) PROVE ConnsFresh'
  BY <1>4 DEF Register, Goto, Shut
<1>5. ASSUME NEW c \in Callers, Put(c) PROVE ConnsFresh'
  BY <1>5 DEF Put, Goto, Shut
<1>6. ASSUME NEW c \in Callers, Keep(c) PROVE ConnsFresh'
  <2>1. /\ UNCHANGED <<listed, seen, epoch, sweep>>
        /\ UNCHANGED cstate \/ Shut(conn[c])
    BY <1>6 DEF Keep
  <2>2. ShutsOnly
    BY <2>1, ShutShuts DEF ShutsOnly
  <2>3. \A k \in listed : EpochsOf(k)' = EpochsOf(k)
    BY <2>1 DEF EpochsOf
  <2> QED BY <2>1, <2>2, <2>3 DEF ConnsFresh, ShutsOnly, Shape, ConnsOK
<1>7. ASSUME NEW c \in Callers, Cut(c) PROVE ConnsFresh'
  BY <1>7 DEF Cut
<1>8. ASSUME NEW k \in Callers, Unlist(k) PROVE ConnsFresh'
  BY <1>8 DEF Unlist
<1>9. ASSUME NEW k \in Callers, ReleaseConn(k) PROVE ConnsFresh'
  BY <1>9 DEF ReleaseConn, GiveSlot, Wake
<1>10. ASSUME NEW k \in Callers, CloseReaped(k) PROVE ConnsFresh'
  BY <1>10 DEF CloseReaped, Shut
<1>11. ASSUME NEW b \in Subscribers, Subscribe(b) PROVE ConnsFresh'
  BY <1>11 DEF Subscribe, Goto, Key
<1>12. ASSUME NEW s \in Invalidations, Invalidate(s) PROVE ConnsFresh'
  <2> DEFINE creds == {d \in Creds : TargetOf[s] \in PlacesOf[d]}
  <2>1. /\ spc[s] = "ready" /\ UNCHANGED <<listed, seen, cstate>>
        /\ epoch' = [epoch EXCEPT ![TargetOf[s]] = epoch[TargetOf[s]] + 1]
        /\ sweep' = [sweep EXCEPT ![s] = {k \in listed : CredOf[k] \in creds}]
    BY <1>12 DEF Invalidate, Collect
  <2>2. s \in Sweeps /\ sweep[s] = {}
    BY <2>1 DEF Sweeps, SweepsSound
  <2>3. \A k \in listed : CredOf[k] \in creds => k \in sweep'[s]
    BY <2>1, <2>2 DEF Shape, SweepsOK
  <2>4. \A t \in Sweeps : sweep[t] \subseteq sweep'[t]
    BY <2>1, <2>2 DEF Shape, SweepsOK
  <2>5. \A k \in listed : CredOf[k] \notin creds => EpochsOf(k)' = EpochsOf(k)
    BY <2>1, EpochsElsewhere DEF Shape, ConnsOK, Clients
  <2> QED BY <2>1, <2>2, <2>3, <2>4, <2>5 DEF ConnsFresh
<1>13. ASSUME NEW s \in Sweeps, SweepConn(s) PROVE ConnsFresh'
  BY <1>13 DEF SweepConn, Shut
<1>14. ASSUME Close PROVE ConnsFresh'
  BY <1>14 DEF Close, Collect, Pending, Key
<1>15. UNCHANGED <<listed, cstate, seen, epoch, sweep>> => ConnsFresh'
  BY DEF ConnsFresh, EpochsOf
<1>16. ASSUME NEW w \in Subscribers, WatcherStep(w) \/ WatchFails(w)
       PROVE UNCHANGED <<listed, cstate, seen, epoch, sweep>>
  BY <1>16 DEF WatcherStep, Linger, StopDoomed, Delist, Session, ReleaseWatch, EndWatch,
      WatchFails, Stop, GiveSlot, Wake
<1> HIDE DEF ConnsFresh, EpochsOf, Shape, ClientsOK, Clients, ConnsOK, ConnStates, CallerPhases,
    SweepsOK, Sweeps
<1> QED
  BY <1>1, <1>2, <1>3, <1>4, <1>5, <1>6, <1>7, <1>8, <1>9, <1>10, <1>11, <1>12, <1>13, <1>14,
      <1>15, <1>16
  DEF Next, CallerStep, ConnStep, SubscriberStep, WatcherStep, SweepStep,
      TakeIdle, StartAgain, Reserve, GiveUp, Admit, DialReleases, Closed, MarkBroken,
          ReserveWatch, CreateWatcher, SubscribeReleases, Join, Unsubscribe, SweptConn,
          SweepWatcher, Swept, Reap, CloseReturns, Goto, Room, TakeSlot, EpochsOf, GiveSlot,
          Wake, RoomToWatch, Key, Stop, Pending

(* Every step keeps listed watchers either up to date, stopped, or in the sweep of an
   invalidation. *)
LEMMA WatchersFreshStep ==
  ASSUME PoolAssumption, Shape, SweepsSound, WatchersFresh, Next
  PROVE  WatchersFresh'
<1> USE PoolAssumption
    DEF poolVars, clientVars, connVars, watcherVars, sweepVars, WatchersFresh, EpochsOf, Key,
        Shape, ClientsOK, Clients, WatchersOK, SweepsOK, Sweeps
<1>1. ASSUME NEW c \in Callers, StartDial(c) PROVE WatchersFresh'
  <2>1. UNCHANGED <<wtch, stopped, epoch,
      wsweep>> /\ (UNCHANGED seen \/ seen' = [seen EXCEPT ![c] = EpochsOf(c)])
    BY <1>1 DEF StartDial
  <2>2. \A w \in Subscribers : seen'[w] = seen[w]
    BY <2>1 DEF Shape, ClientsOK, Clients
  <2>3. \A w \in Subscribers : EpochsOf(w)' = EpochsOf(w)
    BY <2>1 DEF EpochsOf
  <2> QED BY <2>1, <2>2, <2>3 DEF WatchersFresh
<1>2. ASSUME NEW b \in Subscribers, Subscribe(b) PROVE WatchersFresh'
  <2>1. /\ UNCHANGED <<wtch, stopped, epoch, wsweep>>
        /\ \/ UNCHANGED seen
           \/ wtch[Key(b)] = None /\ seen' = [seen EXCEPT ![b] = EpochsOf(b)]
    BY <1>2 DEF Subscribe
  <2>2. \A w \in Subscribers : wtch[Key(w)] = w => seen'[w] = seen[w]
    BY <2>1 DEF Shape, ClientsOK, Clients
  <2>3. \A w \in Subscribers : EpochsOf(w)' = EpochsOf(w)
    BY <2>1 DEF EpochsOf
  <2> QED BY <2>1, <2>2, <2>3 DEF WatchersFresh
<1>3. ASSUME NEW b \in Subscribers, CreateWatcher(b) PROVE WatchersFresh'
  <2>1. /\ UNCHANGED <<stopped, epoch, seen, wsweep>>
        /\ \/ UNCHANGED wtch
           \/ seen[b] = EpochsOf(b) /\ wtch' = [wtch EXCEPT ![Key(b)] = b]
    BY <1>3 DEF CreateWatcher
  <2>2. \A w \in Subscribers : Key(w) \in Creds \X Folders
    BY DEF Key, Clients
  <2>3. \A w \in Subscribers : wtch'[Key(w)] = w => wtch[Key(w)] = w \/ (w = b /\ seen[b] = EpochsOf(b))
    BY <2>1, <2>2 DEF Shape, WatchersOK
  <2>4. \A w \in Subscribers : EpochsOf(w)' = EpochsOf(w)
    BY <2>1 DEF EpochsOf
  <2> QED BY <2>1, <2>3, <2>4 DEF WatchersFresh
<1>4. ASSUME NEW w \in Subscribers, StopDoomed(w) PROVE WatchersFresh'
  BY <1>4 DEF StopDoomed, Stop
<1>5. ASSUME NEW w \in Subscribers, Delist(w) PROVE WatchersFresh'
  BY <1>5 DEF Delist
<1>6. ASSUME NEW w \in Subscribers, EndWatch(w) PROVE WatchersFresh'
  BY <1>6 DEF EndWatch, Stop
<1>7. ASSUME NEW s \in Invalidations, Invalidate(s) PROVE WatchersFresh'
  <2> DEFINE creds == {d \in Creds : TargetOf[s] \in PlacesOf[d]}
  <2>1. /\ spc[s] = "ready" /\ UNCHANGED <<wtch, seen, stopped>>
        /\ epoch' = [epoch EXCEPT ![TargetOf[s]] = epoch[TargetOf[s]] + 1]
        /\ wsweep' = [wsweep EXCEPT ![s] = {w \in Subscribers : wtch[Key(w)] = w /\ CredOf[w] \in creds}]
    BY <1>7 DEF Invalidate, Collect
  <2>2. s \in Sweeps /\ wsweep[s] = {}
    BY <2>1 DEF Sweeps, SweepsSound
  <2>3. \A w \in Subscribers : wtch[Key(w)] = w /\ CredOf[w] \in creds => w \in wsweep'[s]
    BY <2>1, <2>2 DEF Shape, SweepsOK
  <2>4. \A t \in Sweeps : wsweep[t] \subseteq wsweep'[t]
    BY <2>1, <2>2 DEF Shape, SweepsOK
  <2>5. \A w \in Subscribers : CredOf[w] \notin creds => EpochsOf(w)' = EpochsOf(w)
    BY <2>1, EpochsElsewhere DEF Clients
  <2> QED BY <2>1, <2>2, <2>3, <2>4, <2>5 DEF WatchersFresh, Key
<1>8. ASSUME NEW s \in Sweeps, SweepWatcher(s) PROVE WatchersFresh'
  BY <1>8 DEF SweepWatcher, Stop
<1>9. ASSUME Close PROVE WatchersFresh'
  BY <1>9 DEF Close, Collect, Pending
<1>10. UNCHANGED <<wtch, stopped, seen, epoch, wsweep>> => WatchersFresh'
  BY DEF WatchersFresh, EpochsOf
<1> HIDE DEF WatchersFresh, EpochsOf, Key, Shape, ClientsOK, Clients, WatchersOK, SweepsOK, Sweeps
<1> QED
  BY <1>1, <1>2, <1>3, <1>4, <1>5, <1>6, <1>7, <1>8, <1>9, <1>10
  DEF Next, CallerStep, ConnStep, SubscriberStep, WatcherStep, SweepStep,
      TakeIdle, CheckTaken, StartAgain, Reserve, GiveUp, Admit, Dial, DialReleases, Register,
          Put, Keep, Closed, MarkBroken, Cut, Unlist, ReleaseConn, CloseReaped, ReserveWatch,
          SubscribeReleases, Join, Unsubscribe, Linger, Session, ReleaseWatch, WatchFails,
          SweepConn, SweptConn, Swept, Reap, CloseReturns, Goto, Shut, Room, TakeSlot, EpochsOf,
          GiveSlot, Wake, RoomToWatch, Pending

-----------------------------------------------------------------------------
(* Subscribers *)

(* Every step keeps subscribers with an open channel on watchers that run or are about to. *)
LEMMA NoDeafSubscriberStep ==
  ASSUME PoolAssumption, Shape, SubscriberPhases, WatchersSound, NoDeafSubscriber, Next
  PROVE  NoDeafSubscriber'
<1> USE PoolAssumption
    DEF poolVars, clientVars, connVars, watcherVars, sweepVars, NoDeafSubscriber,
        SubscriberPhases, WatchersSound, Shape, WatchersOK, WatcherStates
<1>1. ASSUME NEW b \in Subscribers, CreateWatcher(b) PROVE NoDeafSubscriber'
  BY <1>1 DEF CreateWatcher, Goto, EpochsOf, Key
<1>2. ASSUME NEW b \in Subscribers, Join(b) PROVE NoDeafSubscriber'
  BY <1>2 DEF Join, Goto
<1>3. ASSUME NEW b \in Subscribers, Unsubscribe(b) PROVE NoDeafSubscriber'
  BY <1>3 DEF Unsubscribe, Goto
<1>4. ASSUME NEW w \in Subscribers, StopDoomed(w) PROVE NoDeafSubscriber'
  BY <1>4 DEF StopDoomed, Stop
<1>5. ASSUME NEW w \in Subscribers, Session(w) PROVE NoDeafSubscriber'
  BY <1>5 DEF Session
<1>6. ASSUME NEW w \in Subscribers, ReleaseWatch(w) PROVE NoDeafSubscriber'
  BY <1>6 DEF ReleaseWatch, GiveSlot, Wake
<1>7. ASSUME NEW w \in Subscribers, EndWatch(w) PROVE NoDeafSubscriber'
  BY <1>7 DEF EndWatch, Stop
<1>8. ASSUME NEW w \in Subscribers, WatchFails(w) PROVE NoDeafSubscriber'
  BY <1>8 DEF WatchFails
<1>9. ASSUME NEW s \in Sweeps, SweepWatcher(s) PROVE NoDeafSubscriber'
  BY <1>9 DEF SweepWatcher, Stop
<1>10. UNCHANGED <<subs, wstate, stopped>> => NoDeafSubscriber'
  BY DEF NoDeafSubscriber
<1>11. ASSUME NEW c \in Callers, CallerStep(c) \/ ConnStep(c) \/ MarkBroken(c) \/ Cut(c)
       PROVE UNCHANGED <<subs, wstate, stopped>>
  BY <1>11 DEF CallerStep, ConnStep, TakeIdle, StartDial, CheckTaken, StartAgain, Reserve,
      GiveUp, Admit, Dial, DialReleases, Register, Put, Keep, Closed, MarkBroken, Cut, Unlist,
      ReleaseConn, CloseReaped, Goto, EpochsOf, Shut, Room, TakeSlot, GiveSlot, Wake
<1> HIDE DEF NoDeafSubscriber, SubscriberPhases, WatchersSound, Shape, WatchersOK, WatcherStates
<1> QED
  BY <1>1, <1>2, <1>3, <1>4, <1>5, <1>6, <1>7, <1>8, <1>9, <1>10, <1>11
  DEF Next, CallerStep, ConnStep, SubscriberStep, WatcherStep, SweepStep,
      Subscribe, ReserveWatch, SubscribeReleases, Linger, Delist, Invalidate, SweepConn,
          SweptConn, Swept, Reap, Close, CloseReturns, Goto, EpochsOf, Key, RoomToWatch,
          TakeSlot, GiveSlot, Wake, Collect, Pending, Shut

-----------------------------------------------------------------------------
(* Lending *)

(* It was registered, so that it may be in a caller's hands or idle. *)
Lendable(k) == cstate[k] # "none" /\ pc[k] # "dialed"

(* Whatever is held or idle was registered, and lies in the list of its own login. *)
LendingSound ==
  /\ \A c \in Callers : conn[c] \in Callers => Lendable(conn[c])
  /\ \A d \in Creds : \A i \in DOMAIN idle[d] : CredOf[idle[d][i]] = d /\ Lendable(idle[d][i])

(* The same after the step. *)
StillLendable(k) == cstate'[k] # "none" /\ pc'[k] # "dialed"

(* Registered connections stay registered. *)
LendableStays == \A k \in Callers : Lendable(k) => StillLendable(k)

(* A connection that was registered stays registered or is closed: it never returns to its
   dial. *)
LEMMA LendableStaysStep ==
  ASSUME PoolAssumption, Shape, CallerPhases, Next
  PROVE  LendableStays
<1> USE PoolAssumption
    DEF poolVars, clientVars, connVars, watcherVars, sweepVars, LendableStays, Lendable,
        StillLendable, CallerPhases, Shape, ConnsOK, ConnStates, ClientsOK, Clients
<1>1. ASSUME NEW c \in Callers, TakeIdle(c) PROVE LendableStays
  BY <1>1 DEF TakeIdle, Goto
<1>2. ASSUME NEW c \in Callers, StartDial(c) PROVE LendableStays
  BY <1>2 DEF StartDial, Goto, EpochsOf
<1>3. ASSUME NEW c \in Callers, CheckTaken(c) PROVE LendableStays
  BY <1>3 DEF CheckTaken, Goto, Shut
<1>4. ASSUME NEW c \in Callers, StartAgain(c) PROVE LendableStays
  BY <1>4 DEF StartAgain, Goto
<1>5. ASSUME NEW c \in Callers, Reserve(c) PROVE LendableStays
  BY <1>5 DEF Reserve, Goto, Room, TakeSlot
<1>6. ASSUME NEW c \in Callers, GiveUp(c) PROVE LendableStays
  BY <1>6 DEF GiveUp, Goto
<1>7. ASSUME NEW c \in Callers, Admit(c) PROVE LendableStays
  BY <1>7 DEF Admit, Goto, EpochsOf
<1>8. ASSUME NEW c \in Callers, Dial(c) PROVE LendableStays
  BY <1>8 DEF Dial, Goto
<1>9. ASSUME NEW c \in Callers, DialReleases(c) PROVE LendableStays
  BY <1>9 DEF DialReleases, GiveSlot, Wake
<1>10. ASSUME NEW c \in Callers, Register(c) PROVE LendableStays
  BY <1>10 DEF Register, Goto, Shut, EpochsOf
<1>11. ASSUME NEW c \in Callers, Put(c) PROVE LendableStays
  BY <1>11 DEF Put, Goto, Shut
<1>12. ASSUME NEW c \in Callers, Keep(c) PROVE LendableStays
  BY <1>12 DEF Keep, Goto, Shut
<1>13. ASSUME NEW c \in Callers, Closed(c) PROVE LendableStays
  BY <1>13 DEF Closed, Goto
<1>14. ASSUME NEW c \in Callers, Cut(c) PROVE LendableStays
  BY <1>14 DEF Cut
<1>15. ASSUME NEW k \in Callers, Unlist(k) PROVE LendableStays
  BY <1>15 DEF Unlist
<1>16. ASSUME NEW k \in Callers, ReleaseConn(k) PROVE LendableStays
  BY <1>16 DEF ReleaseConn, GiveSlot, Wake
<1>17. ASSUME NEW k \in Callers, CloseReaped(k) PROVE LendableStays
  BY <1>17 DEF CloseReaped, Shut
<1>18. ASSUME NEW b \in Subscribers, Subscribe(b) PROVE LendableStays
  BY <1>18 DEF Subscribe, Goto, EpochsOf, Key
<1>19. ASSUME NEW b \in Subscribers, ReserveWatch(b) PROVE LendableStays
  BY <1>19 DEF ReserveWatch, Goto, RoomToWatch, TakeSlot
<1>20. ASSUME NEW b \in Subscribers, CreateWatcher(b) PROVE LendableStays
  BY <1>20 DEF CreateWatcher, Goto, EpochsOf, Key
<1>21. ASSUME NEW b \in Subscribers, SubscribeReleases(b) PROVE LendableStays
  BY <1>21 DEF SubscribeReleases, GiveSlot, Wake
<1>22. ASSUME NEW b \in Subscribers, Join(b) PROVE LendableStays
  BY <1>22 DEF Join, Goto
<1>23. ASSUME NEW b \in Subscribers, Unsubscribe(b) PROVE LendableStays
  BY <1>23 DEF Unsubscribe, Goto
<1>24. ASSUME NEW w \in Subscribers, ReleaseWatch(w) PROVE LendableStays
  BY <1>24 DEF ReleaseWatch, GiveSlot, Wake
<1>25. ASSUME NEW s \in Sweeps, SweepConn(s) PROVE LendableStays
  BY <1>25 DEF SweepConn, Shut
<1>26. UNCHANGED <<pc, cstate>> => LendableStays
  BY DEF LendableStays, Lendable, StillLendable
<1> HIDE DEF LendableStays, Lendable, StillLendable, CallerPhases, Shape, ConnsOK, ConnStates,
    ClientsOK, Clients
<1> QED
  BY <1>1, <1>2, <1>3, <1>4, <1>5, <1>6, <1>7, <1>8, <1>9, <1>10, <1>11, <1>12, <1>13, <1>14,
      <1>15, <1>16, <1>17, <1>18, <1>19, <1>20, <1>21, <1>22, <1>23, <1>24, <1>25, <1>26
  DEF Next, CallerStep, ConnStep, SubscriberStep, WatcherStep, SweepStep,
      MarkBroken, Linger, StopDoomed, Delist, Session, EndWatch, WatchFails, Invalidate,
          SweptConn, SweepWatcher, Swept, Reap, Close, CloseReturns, Stop, Collect, Pending, Key

(* Callers keep or drop what they hold, and idle lists lose connections. *)
Shrinks ==
  /\ \A c \in Callers : conn'[c] \in {conn[c], None}
  /\ \A d \in Creds : \E T : IsOnly(idle'[d], idle[d], Len(idle[d]), T, Callers)

(* Idle lists are sequences of connections. *)
LEMMA IdleDomains ==
  ASSUME Shape
  PROVE  \A d \in Creds : /\ DOMAIN idle[d] = 1..Len(idle[d])
                          /\ \A i \in DOMAIN idle[d] : idle[d][i] \in Callers
  BY DEF Shape, IdleOK

(* What a caller holds is at no position of an idle list. *)
LEMMA NotAmongIdle ==
  ASSUME LentOnce, NEW c \in Callers, NEW d \in Creds, NEW i \in DOMAIN idle[d]
  PROVE  conn[c] # idle[d][i]
<1>1. idle[d][i] \in ToSet(idle[d])
  BY DEF ToSet
<1> QED BY <1>1 DEF LentOnce

(* The list itself and the empty list are parts of an idle list. *)
LEMMA WholeIsOnly ==
  ASSUME Shape, NEW d \in Creds
  PROVE  /\ IsOnly(idle[d], idle[d], Len(idle[d]), Callers, Callers)
         /\ IsOnly(<<>>, idle[d], Len(idle[d]), Callers, Callers)
  BY IdleDomains DEF IsOnly, Shape, IdleOK

(* Callers that drop connections and idle lists that lose some cannot make two hold one
   (reaper, invalidate, Close). *)
LEMMA ShrinkingKeepsLending ==
  ASSUME PoolAssumption, Shape, CallerPhases, LendingSound, LentOnce, LendableStays, Shrinks
  PROVE  LendingSound' /\ LentOnce'
<1> USE PoolAssumption
<1>1. ASSUME NEW d \in Creds
      PROVE  /\ \A i \in DOMAIN idle'[d] : \E h \in DOMAIN idle[d] : idle'[d][i] = idle[d][h]
             /\ \A h, i \in DOMAIN idle'[d] : idle'[d][h] = idle'[d][i] => h = i
  <2>1. PICK T : IsOnly(idle'[d], idle[d], Len(idle[d]), T, Callers)
    BY DEF Shrinks
  <2>2. \A h, i \in DOMAIN idle[d] : idle[d][h] = idle[d][i] => h = i
    BY DEF LentOnce
  <2> QED BY <2>1, <2>2, IdleDomains DEF IsOnly
<1>2. ASSUME NEW c \in Callers PROVE conn'[c] = conn[c] \/ conn'[c] = None
  BY DEF Shrinks
<1>3. None \notin Callers
  BY DEF Clients
<1>4. LendingSound'
  <2>1. \A c \in Callers : conn'[c] \in Callers => StillLendable(conn'[c])
    BY <1>2, <1>3 DEF LendingSound, LendableStays
  <2>2. ASSUME NEW d \in Creds, NEW i \in DOMAIN idle'[d]
        PROVE  CredOf[idle'[d][i]] = d /\ StillLendable(idle'[d][i])
    <3>1. PICK h \in DOMAIN idle[d] : idle'[d][i] = idle[d][h]
      BY <1>1
    <3>2. idle[d][h] \in Callers /\ CredOf[idle[d][h]] = d /\ Lendable(idle[d][h])
      BY IdleDomains DEF LendingSound
    <3> QED BY <3>1, <3>2 DEF LendableStays
  <2> QED BY <2>1, <2>2 DEF LendingSound, Lendable, StillLendable
<1>5. LentOnce'
  <2>1. \A c, e \in Callers : conn'[c] # None /\ conn'[c] = conn'[e] => c = e
    BY <1>2 DEF LentOnce
  <2>2. \A c \in Callers : conn'[c] # None => CredOf[conn'[c]] = CredOf[c]
    BY <1>2 DEF LentOnce
  <2>3. ASSUME NEW c \in Callers, NEW d \in Creds, conn'[c] \in ToSet(idle'[d]) PROVE FALSE
    <3>1. PICK i \in DOMAIN idle'[d] : conn'[c] = idle'[d][i]
      BY <2>3 DEF ToSet
    <3>2. PICK h \in DOMAIN idle[d] : conn'[c] = idle[d][h]
      BY <1>1, <3>1
    <3>3. conn'[c] \in Callers /\ conn'[c] = conn[c]
      BY <1>2, <1>3, <3>2, IdleDomains
    <3> QED BY <3>2, <3>3, NotAmongIdle
  <2> QED BY <1>1, <2>1, <2>2, <2>3 DEF LentOnce
<1> QED BY <1>4, <1>5

(* A connection handed out by get leaves the idle list with it. *)
LEMMA TakingKeepsLending ==
  ASSUME PoolAssumption, Shape, CallerPhases, LendingSound, LentOnce, LendableStays,
         NEW c \in Callers, TakeIdle(c)
  PROVE  LendingSound' /\ LentOnce'
<1> USE PoolAssumption
<1> DEFINE d == CredOf[c]
           k == Last(idle[d])
           n == Len(idle[d])
<1>1. d \in Creds /\ None \notin Callers
  BY DEF Clients
<1>2. /\ idle[d] \in Seq(Callers) /\ idle[d] # <<>>
      /\ idle' = [idle EXCEPT ![d] = Front(idle[d])]
      /\ conn' = [conn EXCEPT ![c] = k]
      /\ pc[c] = "start"
  BY <1>1 DEF TakeIdle, Shape, IdleOK
<1>3. /\ Front(idle[d]) \in Seq(Callers) /\ Len(Front(idle[d])) = n - 1
      /\ \A i \in 1 .. n - 1 : Front(idle[d])[i] = idle[d][i]
      /\ k = idle[d][n] /\ n \in 1..n /\ k \in Callers
  BY <1>2, FrontProperties
<1>4. n \in Nat /\ DOMAIN idle[d] = 1..n /\ DOMAIN Front(idle[d]) = 1 .. n - 1
  BY <1>2, <1>3
<1>5. /\ idle'[d] = Front(idle[d]) /\ \A e \in Creds : e # d => idle'[e] = idle[e]
      /\ conn'[c] = k /\ \A e \in Callers : e # c => conn'[e] = conn[e]
  BY <1>1, <1>2 DEF Shape, IdleOK, ClientsOK, Clients
<1> HIDE DEF d, k, n
<1>6. CredOf[k] = d /\ Lendable(k)
  BY <1>1, <1>3, <1>4 DEF LendingSound
<1>7. \A e \in Callers : conn[e] # k
  BY <1>1, <1>3, <1>4, NotAmongIdle
<1>8. \A e \in Creds : \A i \in DOMAIN idle'[e] :
        i \in DOMAIN idle[e] /\ idle'[e][i] = idle[e][i] /\ (e = d => i # n)
  BY <1>3, <1>4, <1>5
<1>9. LendingSound'
  <2>1. \A e \in Callers : conn'[e] \in Callers => Lendable(conn'[e])
    BY <1>5, <1>6 DEF LendingSound
  <2>2. \A e \in Creds : \A i \in DOMAIN idle'[e] :
          CredOf[idle'[e][i]] = e /\ Lendable(idle'[e][i]) /\ idle'[e][i] \in Callers
    BY <1>8, IdleDomains DEF LendingSound
  <2>3. \A q \in Callers : Lendable(q) => StillLendable(q)
    BY DEF LendableStays
  <2> QED BY <2>1, <2>2, <2>3 DEF LendingSound, Lendable, StillLendable
<1>10. LentOnce'
  <2>1. \A a, e \in Callers : conn'[a] # None /\ conn'[a] = conn'[e] => a = e
    BY <1>5, <1>7 DEF LentOnce
  <2>2. \A e \in Creds : \A i, j \in DOMAIN idle'[e] : idle'[e][i] = idle'[e][j] => i = j
    BY <1>8 DEF LentOnce
  <2>3. \A a \in Callers : conn'[a] # None => CredOf[conn'[a]] = CredOf[a]
    BY <1>5, <1>6 DEF LentOnce, d
  <2>4. ASSUME NEW a \in Callers, NEW e \in Creds, conn'[a] \in ToSet(idle'[e]) PROVE FALSE
    <3>1. PICK i \in DOMAIN idle'[e] : conn'[a] = idle'[e][i]
      BY <2>4 DEF ToSet
    <3>2. i \in DOMAIN idle[e] /\ conn'[a] = idle[e][i] /\ (e = d => i # n)
      BY <1>8, <3>1
    <3>3. CASE a # c
      <4>1. conn'[a] = conn[a] BY <1>5, <3>3
      <4> QED BY <3>2, <4>1, NotAmongIdle
    <3>4. CASE a = c
      <4>1. idle[e][i] = k BY <1>5, <3>2, <3>4
      <4>2. e = d BY <1>6, <3>2, <4>1 DEF LendingSound
      <4> QED BY <1>3, <1>4, <3>2, <4>1, <4>2 DEF LentOnce
    <3> QED BY <3>3, <3>4
  <2> QED BY <2>1, <2>2, <2>3, <2>4 DEF LentOnce
<1> QED BY <1>9, <1>10

(* A connection returned by Put leaves its caller when it joins the idle list. *)
LEMMA KeepingKeepsLending ==
  ASSUME PoolAssumption, Shape, CallerPhases, LendingSound, LentOnce, LendableStays,
         NEW c \in Callers, pc[c] = "putting",
         idle' = [idle EXCEPT ![CredOf[conn[c]]] = Append(@, conn[c])],
         conn' = [conn EXCEPT ![c] = None]
  PROVE  LendingSound' /\ LentOnce'
<1> USE PoolAssumption
<1> DEFINE k == conn[c]
           d == CredOf[k]
           n == Len(idle[d])
<1>1. k \in Callers /\ d \in Creds /\ None \notin Callers
  BY DEF CallerPhases, Clients
<1>2. idle[d] \in Seq(Callers) /\ idle' = [idle EXCEPT ![d] = Append(idle[d], k)]
  BY <1>1 DEF Shape, IdleOK
<1>3. /\ idle'[d] = Append(idle[d], k) /\ \A e \in Creds : e # d => idle'[e] = idle[e]
      /\ conn'[c] = None /\ \A e \in Callers : e # c => conn'[e] = conn[e]
  BY <1>1, <1>2 DEF Shape, IdleOK, ClientsOK, Clients
<1>4. /\ Append(idle[d], k) \in Seq(Callers) /\ Len(Append(idle[d], k)) = n + 1
      /\ \A i \in 1..n : Append(idle[d], k)[i] = idle[d][i]
      /\ Append(idle[d], k)[n + 1] = k
  BY <1>1, <1>2, AppendProperties
<1>5. n \in Nat /\ DOMAIN idle[d] = 1..n /\ DOMAIN idle'[d] = 1 .. n + 1
  BY <1>2, <1>3, <1>4
<1>6. Lendable(k)
  BY <1>1 DEF LendingSound
<1>7. \A e \in Callers : e # c => conn[e] # k
  BY <1>1 DEF LentOnce
<1> HIDE DEF d, k, n
<1>8. \A e \in Creds : \A i \in DOMAIN idle'[e] :
        \/ i \in DOMAIN idle[e] /\ idle'[e][i] = idle[e][i]
        \/ e = d /\ i = n + 1 /\ idle'[e][i] = k
  <2>1. \A i \in 1..(n+1) : i \in 1..n \/ i = n + 1 BY <1>5
  <2> QED BY <1>3, <1>4, <1>5, <2>1
<1>9. \A e \in Creds : \A i \in DOMAIN idle[e] : idle[e][i] # k
  BY NotAmongIdle DEF k
<1>10. LendingSound'
  <2>1. \A e \in Callers : conn'[e] \in Callers => Lendable(conn'[e])
    BY <1>1, <1>3 DEF LendingSound
  <2>2. \A e \in Creds : \A i \in DOMAIN idle'[e] :
          CredOf[idle'[e][i]] = e /\ Lendable(idle'[e][i]) /\ idle'[e][i] \in Callers
    BY <1>1, <1>6, <1>8, IdleDomains DEF LendingSound, d
  <2>3. \A q \in Callers : Lendable(q) => StillLendable(q)
    BY DEF LendableStays
  <2>4. \A e \in Callers : conn'[e] \in Callers => StillLendable(conn'[e])
    BY <2>1, <2>3
  <2>5. \A e \in Creds : \A i \in DOMAIN idle'[e] : CredOf[idle'[e][i]] = e /\ StillLendable(idle'[e][i])
    BY <2>2, <2>3
  <2> QED BY <2>4, <2>5 DEF LendingSound, Lendable, StillLendable
<1>11. LentOnce'
  <2>1. \A a, e \in Callers : conn'[a] # None /\ conn'[a] = conn'[e] => a = e
    BY <1>3 DEF LentOnce
  <2>2. \A e \in Creds : \A i, j \in DOMAIN idle'[e] : idle'[e][i] = idle'[e][j] => i = j
    BY <1>8, <1>9 DEF LentOnce
  <2>3. \A a \in Callers : conn'[a] # None => CredOf[conn'[a]] = CredOf[a]
    BY <1>3 DEF LentOnce
  <2>4. ASSUME NEW a \in Callers, NEW e \in Creds, conn'[a] \in ToSet(idle'[e]) PROVE FALSE
    <3>1. PICK i \in DOMAIN idle'[e] : conn'[a] = idle'[e][i]
      BY <2>4 DEF ToSet
    <3>2. conn'[a] \in Callers
      BY <1>1, <1>8, <3>1, IdleDomains
    <3>3. a # c /\ conn'[a] = conn[a] /\ conn[a] # k
      BY <1>1, <1>3, <1>7, <3>2
    <3>4. i \in DOMAIN idle[e] /\ conn[a] = idle[e][i]
      BY <1>8, <3>1, <3>3
    <3> QED BY <3>4, NotAmongIdle
  <2> QED BY <2>1, <2>2, <2>3, <2>4 DEF LentOnce
<1> QED BY <1>10, <1>11

(* A new connection is in nobody's hands and in no list. *)
LEMMA RegisteringKeepsLending ==
  ASSUME PoolAssumption, Shape, CallerPhases, LendingSound, LentOnce, LendableStays,
         NEW c \in Callers, pc[c] = "dialed", pc' = [pc EXCEPT ![c] = "using"],
         UNCHANGED <<idle, cstate>>, conn' = [conn EXCEPT ![c] = c]
  PROVE  LendingSound' /\ LentOnce'
<1> USE PoolAssumption
<1>1. conn'[c] = c /\ \A e \in Callers : e # c => conn'[e] = conn[e]
  BY DEF Shape, ClientsOK, Clients
<1>2. ~Lendable(c) /\ StillLendable(c)
  BY DEF Lendable, StillLendable, CallerPhases, Shape, ClientsOK, Clients
<1>3. /\ \A e \in Callers : conn[e] # c
      /\ \A d \in Creds : \A i \in DOMAIN idle[d] : idle[d][i] # c
  BY <1>2 DEF LendingSound
<1>4. LendingSound'
  <2>1. \A e \in Callers : conn'[e] \in Callers => StillLendable(conn'[e])
    BY <1>1, <1>2 DEF LendingSound, LendableStays
  <2>2. \A d \in Creds : \A i \in DOMAIN idle[d] : CredOf[idle[d][i]] = d /\ StillLendable(idle[d][i])
    BY IdleDomains DEF LendingSound, LendableStays
  <2> QED BY <2>1, <2>2 DEF LendingSound, Lendable, StillLendable
<1>5. LentOnce'
  <2>1. \A d \in Creds : c \notin ToSet(idle[d])
    BY <1>3 DEF ToSet
  <2> QED BY <1>1, <1>3, <2>1 DEF LentOnce
<1> QED BY <1>4, <1>5

(* Every step keeps each connection in one place. *)
LEMMA LendingStep ==
  ASSUME PoolAssumption, Shape, CallerPhases, LendingSound, LentOnce, LendableStays, Next
  PROVE  LendingSound' /\ LentOnce'
<1> USE PoolAssumption DEF poolVars, clientVars, connVars, watcherVars, sweepVars
<1>0. (\A c \in Callers : conn'[c] \in {conn[c],
    None}) /\ UNCHANGED idle => LendingSound' /\ LentOnce'
  <2>1. UNCHANGED idle => \A d \in Creds : IsOnly(idle'[d], idle[d], Len(idle[d]), Callers,
      Callers)
    BY WholeIsOnly
  <2> QED BY <2>1, ShrinkingKeepsLending DEF Shrinks
<1>1. ASSUME NEW c \in Callers, TakeIdle(c) PROVE LendingSound' /\ LentOnce'
  BY <1>1, TakingKeepsLending
<1>2. ASSUME NEW c \in Callers, StartAgain(c) PROVE LendingSound' /\ LentOnce'
  <2>1. (\A e \in Callers : conn'[e] \in {conn[e], None}) /\ UNCHANGED idle
    BY <1>2 DEF StartAgain, Shape, ClientsOK, Clients
  <2> QED BY <1>0, <2>1
<1>3. ASSUME NEW c \in Callers, Register(c) PROVE LendingSound' /\ LentOnce'
  <2>1. UNCHANGED idle /\ pc[c] = "dialed"
        /\ \/ UNCHANGED conn
           \/ conn' = [conn EXCEPT ![c] = c] /\ pc' = [pc EXCEPT ![c] = "using"] /\ UNCHANGED cstate
    BY <1>3 DEF Register, Goto
  <2> QED BY <1>0, <2>1, RegisteringKeepsLending
<1>4. ASSUME NEW c \in Callers, Keep(c) PROVE LendingSound' /\ LentOnce'
  <2>1. pc[c] = "putting" /\ \/ UNCHANGED <<idle, conn>>
                             \/ /\ idle' = [idle EXCEPT ![CredOf[conn[c]]] = Append(@, conn[c])]
                                /\ conn' = [conn EXCEPT ![c] = None]
    BY <1>4 DEF Keep
  <2> QED BY <1>0, <2>1, KeepingKeepsLending
<1>5. ASSUME NEW c \in Callers, Closed(c) PROVE LendingSound' /\ LentOnce'
  <2>1. (\A e \in Callers : conn'[e] \in {conn[e], None}) /\ UNCHANGED idle
    BY <1>5 DEF Closed, Shape, ClientsOK, Clients
  <2> QED BY <1>0, <2>1
<1>6. ASSUME NEW b \in Subscribers, Subscribe(b) PROVE LendingSound' /\ LentOnce'
  <2>1. (\A e \in Callers : conn'[e] \in {conn[e], None}) /\ UNCHANGED idle
    BY <1>6 DEF Subscribe, Shape, ClientsOK, Clients
  <2> QED BY <1>0, <2>1
<1>7. ASSUME NEW b \in Subscribers, CreateWatcher(b) PROVE LendingSound' /\ LentOnce'
  <2>1. (\A e \in Callers : conn'[e] \in {conn[e], None}) /\ UNCHANGED idle
    BY <1>7 DEF CreateWatcher, Shape, ClientsOK, Clients
  <2> QED BY <1>0, <2>1
<1>8. ASSUME NEW s \in Invalidations, Invalidate(s) PROVE LendingSound' /\ LentOnce'
  <2>1. UNCHANGED conn /\ \A d \in Creds : idle'[d] = <<>> \/ idle'[d] = idle[d]
    BY <1>8 DEF Invalidate
  <2>2. \A d \in Creds : IsOnly(idle'[d], idle[d], Len(idle[d]), Callers, Callers)
    BY <2>1, WholeIsOnly
  <2> QED BY <2>1, <2>2, ShrinkingKeepsLending DEF Shrinks
<1>9. ASSUME Reap PROVE LendingSound' /\ LentOnce'
  <2>1. UNCHANGED conn
    BY <1>9 DEF Reap
  <2>2. PICK kept \in [Creds -> SUBSET Callers] : idle' = [d \in Creds |-> Only(idle[d], kept[d])]
    BY <1>9, ReapKeeps
  <2>3. \A d \in Creds : IsOnly(idle'[d], idle[d], Len(idle[d]), kept[d], Callers)
    BY <2>2, OnlyProperties DEF Shape, IdleOK
  <2> QED BY <2>1, <2>3, ShrinkingKeepsLending DEF Shrinks
<1>10. ASSUME Close PROVE LendingSound' /\ LentOnce'
  <2>1. UNCHANGED conn /\ \A d \in Creds : idle'[d] = <<>> \/ idle'[d] = idle[d]
    BY <1>10 DEF Close
  <2>2. \A d \in Creds : IsOnly(idle'[d], idle[d], Len(idle[d]), Callers, Callers)
    BY <2>1, WholeIsOnly
  <2> QED BY <2>1, <2>2, ShrinkingKeepsLending DEF Shrinks
<1>11. UNCHANGED <<conn, idle>> => LendingSound' /\ LentOnce'
  BY <1>0
<1> QED
  BY <1>0, <1>1, <1>2, <1>3, <1>4, <1>5, <1>6, <1>7, <1>8, <1>9, <1>10, <1>11
  DEF Next, CallerStep, ConnStep, SubscriberStep, WatcherStep, SweepStep,
      StartDial, CheckTaken, Reserve, GiveUp, Admit, Dial, DialReleases, Put, MarkBroken, Cut,
          Unlist, ReleaseConn, CloseReaped, ReserveWatch, SubscribeReleases, Join, Unsubscribe,
          Linger, StopDoomed, Delist, Session, ReleaseWatch, EndWatch, WatchFails, SweepConn,
          SweptConn, SweepWatcher, Swept, CloseReturns, Goto, EpochsOf, Shut, Room, TakeSlot,
          GiveSlot, Wake, RoomToWatch, Stop, Pending

-----------------------------------------------------------------------------
(* The invariant *)

(* Everybody is in phase with what it holds. *)
Phases == CallerPhases /\ SubscriberPhases /\ WatchersSound

(* What invalidations and Close rest on. *)
Closing == ConnsSound /\ SweepsSound /\ ClosingSound /\ ClosedSound /\ ConnsFresh /\ WatchersFresh

(* The inductive invariant. *)
Inv ==
  /\ Shape /\ Phases /\ Slots
  /\ NoLostWakeup /\ Closing /\ NoDeafSubscriber
  /\ LendingSound /\ LentOnce

(* The invariant holds of an empty pool. *)
LEMMA InvInit == ASSUME PoolAssumption, Init PROVE Inv
<1> USE PoolAssumption DEF Init
<1>1. PICK party \in Parties : pc = [x \in Clients |-> IF x \in party THEN "start" ELSE "done"]
  OBVIOUS
<1>2. Shape
  <2>1. CountersOK /\ ConnsOK
    <3>3. closed \in BOOLEAN OBVIOUS
    <3>4. sem \in Int /\ use \in [Places -> Int] /\ epoch \in [Places -> Nat] OBVIOUS
    <3>1. CountersOK BY <3>3, <3>4 DEF CountersOK
    <3>2. ConnsOK BY DEF ConnsOK, ConnStates
    <3> QED BY <3>1, <3>2
  <2>4. IdleOK
    <3>1. <<>> \in Seq(Callers)
      OBVIOUS
    <3> QED BY <3>1 DEF IdleOK
  <2>2. ClientsOK
    BY <1>1 DEF ClientsOK, ClientStates
  <2>3. WatchersOK /\ SweepsOK
    BY DEF WatchersOK, SweepsOK, WatcherStates
  <2> QED BY <2>1, <2>2, <2>3, <2>4 DEF Shape
<1>3. Phases
  BY <1>1 DEF Phases, CallerPhases, SubscriberPhases, WatchersSound, Clients
<1>4. Slots
  <2>1. Holders = {}
    BY <1>1 DEF Holders, Clients
  <2>2. IsFiniteSet(Holders) /\ Cardinality(Holders) = 0
    BY <2>1, FS_EmptySet
  <2>3. \A p \in Places : HeldAt(p) = {}
    BY <2>1 DEF HeldAt
  <2>4. Cardinality({}) = 0
    BY FS_EmptySet
  <2>5. sem <= GlobalMax
    OBVIOUS
  <2> QED BY <2>2, <2>3, <2>4, <2>5 DEF Slots
<1>5. NoLostWakeup /\ NoDeafSubscriber
  BY <1>1 DEF NoLostWakeup, NoDeafSubscriber, Clients
<1>6. Closing
  <2>1. ConnsSound /\ SweepsSound /\ ClosingSound /\ ClosedSound /\ ConnsFresh
    BY DEF ConnsSound, SweepsSound, ClosingSound, ClosedSound, ConnsFresh, Sweeps
  <2>2. \A w \in Subscribers : Key(w) \in Creds \X Folders /\ w # None
    BY DEF Key, Clients
  <2>3. WatchersFresh
    BY <2>2 DEF WatchersFresh
  <2> QED BY <2>1, <2>3 DEF Closing
<1>7. LendingSound /\ LentOnce
  BY <1>1 DEF LendingSound, LentOnce, ToSet, Clients
<1> QED BY <1>2, <1>3, <1>4, <1>5, <1>6, <1>7 DEF Inv

(* Every step keeps the invariant. *)
LEMMA InvStep == ASSUME PoolAssumption, Inv, [Next]_vars PROVE Inv'
<1>1. CASE Next
  <2>1. Shape' BY <1>1, PoolAssumption, ShapeStep DEF Inv, Phases
  <2>2. Phases' BY <1>1, PoolAssumption, CallerPhasesStep, SubscriberPhasesStep,
      WatchersSoundStep DEF Inv, Phases
  <2>3. Slots' BY <1>1, PoolAssumption, SlotMoves, SlotsStep DEF Inv, Phases
  <2>4. NoLostWakeup' BY <1>1, PoolAssumption, NoLostWakeupStep DEF Inv
  <2>5. Closing'
    BY <1>1, PoolAssumption, ConnsSoundStep, SweepsSoundStep, ClosingSoundStep, ClosedSoundStep,
        ConnsFreshStep,
       WatchersFreshStep DEF Inv, Phases, Closing
  <2>6. NoDeafSubscriber' BY <1>1, PoolAssumption, NoDeafSubscriberStep DEF Inv, Phases
  <2>7. LendingSound' /\ LentOnce'
    BY <1>1, PoolAssumption, LendableStaysStep, LendingStep DEF Inv, Phases
  <2> QED BY <2>1, <2>2, <2>3, <2>4, <2>5, <2>6, <2>7 DEF Inv
<1>2. CASE UNCHANGED vars
  <2> USE <1>2 DEF vars, poolVars, clientVars, connVars, watcherVars, sweepVars
  <2>1. Shape'
    BY Frames DEF Inv, Shape
  <2>2. Phases'
    BY DEF Inv, Phases, CallerPhases, SubscriberPhases, WatchersSound
  <2>6. Holders' = Holders
    BY DEF Holders
  <2>7. Slots'
    BY <2>6, SlotsStep, PoolAssumption DEF Inv, Kept
  <2>3. Slots' /\ NoLostWakeup' /\ NoDeafSubscriber'
    BY <2>7 DEF Inv, NoLostWakeup, Room, NoDeafSubscriber
  <2>4. Closing'
    BY DEF Inv, Closing, ConnsSound, SweepsSound, ClosingSound, ClosedSound, Pending, ConnsFresh,
           WatchersFresh, EpochsOf
  <2>5. LendingSound' /\ LentOnce'
    BY DEF Inv, LendingSound, Lendable, LentOnce
  <2> QED BY <2>1, <2>2, <2>3, <2>4, <2>5 DEF Inv
<1> QED BY <1>1, <1>2

(* The invariant of the pool, for any number of callers, subscribers, logins and places. *)
THEOREM InvHolds == Spec => []Inv
<1>1. Init => Inv BY PoolAssumption, InvInit
<1>2. Inv /\ [Next]_vars => Inv' BY PoolAssumption, InvStep
<1> QED BY <1>1, <1>2, PTL DEF Spec

(* Every variable keeps its type: no counter of slots falls below zero or passes the limit of
   the pool (reserve, release). *)
THEOREM TypeCorrect == Spec => []TypeOK
<1>1. Inv => TypeOK BY PoolAssumption, TypesFollow DEF Inv
<1> QED BY <1>1, InvHolds, PTL

(* The counters of reserve and release are, at every moment, the numbers of those who hold a
   slot of the pool, of a provider connection and of a mailbox, and no connection is in two
   hands. *)
THEOREM SlotsAreAccounted == Spec => []SlotsAccounted
<1>1. Inv => SlotsAccounted BY DEF Inv, Slots, HeldAt, SlotsAccounted
<1> QED BY <1>1, InvHolds, PTL

(* Nobody sleeps in reserve while there is room for it: release wakes everybody who waits. *)
THEOREM NoWakeupIsLost == Spec => []NoLostWakeup
<1>1. Inv => NoLostWakeup BY DEF Inv
<1> QED BY <1>1, InvHolds, PTL

(* After an invalidation every open connection and watcher of the pool is newer than it or
   about to be closed, and when Close has returned none is left. *)
THEOREM InvalidatedEnds == Spec => []InvalidatedIsClosed
<1>1. ASSUME Inv PROVE InvalidatedIsClosed
  <2>1. ASSUME spc[Closer] = "done" PROVE ClosedIsEmpty
    <3>1. closed /\ sweep[Closer] = {} /\ Pending = {}
      BY <1>1, <2>1 DEF Inv, Closing, SweepsSound, ClosedSound, Sweeps
    <3>2. \A c \in Callers : pc[c] \notin {"dialing", "dialed"}
      BY <3>1 DEF Pending
    <3>3. \A c \in Callers : cstate[c] # "open"
      BY <1>1, <3>1, <3>2 DEF Inv, Closing, ClosingSound
    <3>4. \A w \in Subscribers : wstate[w] \notin {"dialing", "open"}
      BY <1>1, <2>1 DEF Inv, Closing, ClosedSound
    <3> QED BY <3>2, <3>3, <3>4 DEF ClosedIsEmpty
  <2>2. ClosedIsEmpty
    BY <2>1 DEF ClosedIsEmpty
  <2> QED BY <1>1, <2>2 DEF Inv, Closing, ConnsFresh, WatchersFresh, InvalidatedIsClosed
<1> QED BY <1>1, InvHolds, PTL

(* A subscriber with an open channel has a watcher that has not been stopped and that runs or
   is about to. *)
THEOREM NoSubscriberIsDeaf == Spec => []NoDeafSubscriber
<1>1. Inv => NoDeafSubscriber BY DEF Inv
<1> QED BY <1>1, InvHolds, PTL

(* Get hands a connection to one caller at a time, and only to one with the login it was
   dialled with. *)
THEOREM NoConnectionIsShared == Spec => []LentOnce
<1>1. Inv => LentOnce BY DEF Inv
<1> QED BY <1>1, InvHolds, PTL
================================================================================
