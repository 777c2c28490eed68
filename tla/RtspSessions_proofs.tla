------------------------- MODULE RtspSessions_proofs -------------------------
(***************************************************************************)
(* Proofs about the camera sessions, for every number of channels and       *)
(* connections, every set of cameras and layouts.                           *)
(*                                                                          *)
(* An event of a batch may outlive its socket; what is said of events and   *)
(* timers follows such an event through the configurations of the batch,    *)
(* as many as there are.                                                    *)
(***************************************************************************)
EXTENDS RtspSessions, SequenceTheorems, FiniteSetTheorems, WellFoundedInduction, TLAPS

ConnStates ==
  [sock : {"none", "connecting", "open", "eof", "failed", "dead"},
   inst : {0, 1}, cam : Cams \cup {NoCam, Nowhere}, read : BOOLEAN, write : BOOLEAN,
   rtimer : BOOLEAN, wtimer : {"off", "now", "later"}, asked : BOOLEAN,
   inbox : {"none", "200", "401", "other", "rtp"}, plays : BOOLEAN, missed : BOOLEAN]

SessStates == [next : {"describe", "setup", "play", "none"},
               success : BOOLEAN, auth : BOOLEAN]

EventStates == [c : Conns, inst : {0, 1}, kind : {"in", "out", "both"}, own : BOOLEAN,
                twice : BOOLEAN]

\* A connection that get_conn may give to a client.
Unused(c) == c > made \/ c \in ToSet(cache)

\* Clients and pool are apart; nothing goes on with an unused connection.
Pool ==
  /\ \A i, j \in Chns : rc[i] # None /\ rc[i] = rc[j] => i = j
  /\ \A i \in Chns : rc[i] <= made
  /\ \A i, j \in 1 .. Len(cache) : cache[i] = cache[j] => i = j
  /\ \A c \in Conns : Unused(c) =>
       /\ \A i \in Chns : rc[i] # c
       /\ conn[c] = Closed(conn[c].inst, NoCam)
       /\ c \notin news
       /\ \A e \in batch : e.c = c => ~e.own

\* epoll_wait has reported the connection in this round.
Fetched(c) == \E e \in batch : e.c = c /\ e.own

\* An event of the round belongs to its socket, or that was closed: then its
\* connection has no socket, or one that asks for EPOLLOUT, with the other
\* instance bit unless it was closed twice.
EventsOK ==
  /\ \A c \in news : conn[c].sock \notin {"none", "connecting"}
  /\ \A e \in batch :
       IF e.own THEN /\ e.inst = conn[e.c].inst
                     /\ conn[e.c].sock \notin {"none", "connecting"}
                     /\ e.kind = "out" => ~conn[e.c].read
       ELSE /\ conn[e.c].sock = "none" \/ conn[e.c].write
            /\ ~e.twice => IF conn[e.c].sock = "none" THEN conn[e.c].inst = e.inst
                           ELSE conn[e.c].inst # e.inst
  /\ \A e, f \in batch : e.c = f.c => e = f

\* While EPOLLOUT is asked for, or the connect is open, nothing has been sent
\* or received.
Socket(c) ==
  LET k == conn[c]
  IN  /\ k.sock = "none" => k = Closed(k.inst, k.cam)
      /\ k.sock = "connecting" => \/ k.write
                                  \/ k.read /\ ~k.asked /\ ~k.plays /\ k.inbox = "none"
      /\ k.write => /\ k.wtimer # "off" /\ ~k.read /\ ~k.asked /\ ~k.plays
                    /\ k.inbox = "none" /\ k.sock \in {"connecting", "open", "eof", "failed"}
      /\ k.inbox \in Replies \cup {"none", "rtp"}

\* Without the write timer an end of the socket is reported, is going to be,
\* or is noticed by the read timer; what the next read will need of this is
\* said for the message that is still to be read.
NoTimer(c) ==
  LET k == conn[c]
  IN  k.sock # "none" /\ k.wtimer = "off" =>
        /\ k.read
        /\ k.inbox # "none" => (c \in news \/ Fetched(c)) /\ k.sock # "dead"
        /\ k.sock \in {"failed", "dead"} => c \in news \/ Fetched(c) \/ k.rtimer \/ k.missed
        /\ k.sock = "failed" /\ k.inbox \in Replies /\ ~k.missed => c \in news /\ Fetched(c)
        /\ sess[c].success \/ (sess[c].next # "none" /\ ~k.plays /\ k.inbox # "rtp")

\* Clients and pool.
PoolInv == TypeOK /\ Pool

\* Events and timers.
LoopInv == EventsOK /\ \A c \in Conns : Socket(c) /\ NoTimer(c)
-----------------------------------------------------------------------------
(* close_conn for a number of channels.                                     *)

\* A set of numbers has a least one.
LEMMA LeastNat ==
  ASSUME NEW T \in SUBSET Nat, T # {}
  PROVE  \E m \in T : \A k \in T : m <= k
<1> DEFINE R == OpToRel(<, Nat)
<1>1. IsWellFoundedOn(R, Nat)
  BY NatLessThanWellFounded
<1>2. \A x, y \in Nat : <<x, y>> \in R <=> x < y
  BY DEF OpToRel
<1> HIDE DEF R
<1>3. \E x \in T : \A y \in T : ~ (<<y, x>> \in R)
  BY <1>1, WFMin
<1>4. \A k \in T : k \in Nat
  OBVIOUS
<1>5. PICK m \in T : \A y \in T : ~ (<<y, m>> \in R)
  BY <1>3
<1>6. \A k \in T : ~(k < m)
  BY <1>2, <1>4, <1>5
<1> QED BY <1>4, <1>6

\* Induction, for a set of numbers.
LEMMA NatSetInduction ==
  ASSUME NEW T \in SUBSET Nat, 0 \in T, \A n \in T : n + 1 \in T
  PROVE  T = Nat
<1> SUFFICES ASSUME Nat \ T # {}
             PROVE  FALSE
  OBVIOUS
<1>1. PICK m \in Nat \ T : \A k \in Nat \ T : m <= k
  BY LeastNat
<1>2. m # 0 /\ m - 1 \in Nat
  BY <1>1
<1>3. m - 1 \in T
  BY <1>1, <1>2
<1> QED BY <1>1, <1>3

\* The connections of channels that are closed.
Shutting(chans) == {i \in chans : conn[rc[i]].sock # "none"}

\* One close_conn more.
OneMore(chans, n, list) ==
  IF n - 1 \in chans /\ conn[rc[n - 1]].sock # "none" THEN <<rc[n - 1]>> \o list ELSE list

\* The lists that close_conn makes, channel by channel.
Stages(g, chans, list) ==
  g = [n \in 0 .. NumChans |-> IF n = 0 THEN list ELSE OneMore(chans, n, g[n - 1])]

\* The function that ClosedOnto defines by recursion exists.
LEMMA StagesExist ==
  ASSUME NEW chans \in SUBSET Chns, NEW list
  PROVE  \E g : Stages(g, chans, list)
<1>1. NumChans \in Nat
  BY SessionsAssumption
<1> DEFINE T == {n \in Nat : \E g : g = [k \in 0 .. n |->
                               IF k = 0 THEN list ELSE OneMore(chans, k, g[k - 1])]}
<1>2. 0 \in T
  <2> DEFINE g == [k \in 0 .. 0 |-> list]
  <2>1. g = [k \in 0 .. 0 |-> IF k = 0 THEN list ELSE OneMore(chans, k, g[k - 1])]
    OBVIOUS
  <2> HIDE DEF g
  <2> QED BY <2>1
<1>3. ASSUME NEW n \in T
      PROVE  n + 1 \in T
  <2>1. PICK g : g = [k \in 0 .. n |->
                        IF k = 0 THEN list ELSE OneMore(chans, k, g[k - 1])]
    OBVIOUS
  <2> DEFINE h == [k \in 0 .. n + 1 |->
                     IF k = n + 1 THEN OneMore(chans, n + 1, g[n]) ELSE g[k]]
  <2>2. n \in Nat
    OBVIOUS
  <2>3. ASSUME NEW k \in 0 .. n + 1
        PROVE  h[k] = IF k = 0 THEN list ELSE OneMore(chans, k, h[k - 1])
    <3>1. CASE k = n + 1
      <4>1. k # 0 /\ k - 1 = n /\ n \in 0 .. n + 1 /\ n # n + 1
        BY <2>2, <3>1
      <4> QED BY <3>1, <4>1
    <3>2. CASE k # n + 1
      <4>1. k \in 0 .. n
        BY <2>2, <3>2
      <4>2. h[k] = g[k] /\ g[k] = IF k = 0 THEN list ELSE OneMore(chans, k, g[k - 1])
        BY <2>1, <3>2, <4>1
      <4>3. k # 0 => k - 1 \in 0 .. n + 1 /\ k - 1 # n + 1 /\ h[k - 1] = g[k - 1]
        BY <2>2, <4>1
      <4> QED BY <4>2, <4>3
    <3> QED BY <3>1, <3>2
  <2> HIDE DEF T
  <2>4. h = [k \in 0 .. n + 1 |-> h[k]]
    OBVIOUS
  <2> HIDE DEF h
  <2>5. h = [k \in 0 .. n + 1 |-> IF k = 0 THEN list ELSE OneMore(chans, k, h[k - 1])]
    BY <2>3, <2>4
  <2> QED BY <2>2, <2>5 DEF T
<1>4. NumChans \in T
  <2> HIDE DEF T
  <2>1. T \in SUBSET Nat
    BY DEF T
  <2> QED BY <1>1, <1>2, <1>3, <2>1, NatSetInduction
<1> QED BY <1>4 DEF Stages

\* close_conn puts the connections of the channels into the list, each once.
LEMMA ClosedOntoLemma ==
  ASSUME TypeOK, Pool, NEW chans \in SUBSET Chns, \A i \in chans : rc[i] # None
  PROVE  /\ Released(chans) \in Seq(1 .. made)
         /\ ToSet(Released(chans)) = ToSet(cache) \cup {rc[i] : i \in Shutting(chans)}
         /\ \A i, j \in 1 .. Len(Released(chans)) :
              Released(chans)[i] = Released(chans)[j] => i = j
<1>1. NumChans \in Nat /\ MaxConns \in Nat /\ made \in Nat
  BY SessionsAssumption DEF TypeOK
<1>2. \A i \in chans : rc[i] \in 1 .. made /\ rc[i] \notin ToSet(cache)
  <2>1. \A i \in Chns : rc[i] \in Conns \cup {None} /\ rc[i] <= made
    BY DEF TypeOK, Pool
  <2>2. \A i \in Chns : \A c \in Conns : c \in ToSet(cache) => rc[i] # c
    BY DEF Pool, Unused
  <2> QED BY <1>1, <2>1, <2>2 DEF Conns, None
<1> DEFINE free == CHOOSE g : Stages(g, chans, cache)
<1>3. free = [n \in 0 .. NumChans |-> IF n = 0 THEN cache ELSE OneMore(chans, n, free[n - 1])]
  <2>1. \E g : Stages(g, chans, cache)
    BY StagesExist
  <2>2. Stages(free, chans, cache)
    BY <2>1, Zenon
  <2> QED BY <2>2 DEF Stages
<1>4. Released(chans) = free[NumChans]
  BY DEF Released, ClosedOnto, OneMore, Stages
<1> HIDE DEF free
<1> DEFINE Good(n) ==
             /\ free[n] \in Seq(1 .. made)
             /\ ToSet(free[n]) = ToSet(cache) \cup {rc[i] : i \in {j \in Shutting(chans) : j < n}}
             /\ \A i, j \in 1 .. Len(free[n]) : free[n][i] = free[n][j] => i = j
           T == {n \in Nat : n <= NumChans => Good(n)}
<1>5. 0 \in T
  <2>1. free[0] = cache
    BY <1>1, <1>3
  <2>2. {j \in Shutting(chans) : j < 0} = {}
    <3>1. \A j \in Shutting(chans) : j \in 0 .. NumChans - 1
      BY DEF Shutting, Chns
    <3>2. \A j \in Shutting(chans) : ~(j < 0)
      BY <1>1, <3>1
    <3> QED BY <3>2
  <2>3. cache \in Seq(1 .. made)
    BY DEF TypeOK
  <2>4. \A i, j \in 1 .. Len(cache) : cache[i] = cache[j] => i = j
    BY DEF Pool
  <2> QED BY <2>1, <2>2, <2>3, <2>4
<1>6. ASSUME NEW n \in Nat, n + 1 <= NumChans, Good(n)
      PROVE  Good(n + 1)
  <2>1. n + 1 \in 0 .. NumChans /\ n + 1 # 0 /\ (n + 1) - 1 = n /\ n \in Chns
    BY <1>1, <1>6 DEF Chns
  <2>2. free[n + 1] = IF n \in Shutting(chans) THEN <<rc[n]>> \o free[n] ELSE free[n]
    BY <1>3, <2>1 DEF OneMore, Shutting
  <2>3. \A j \in Shutting(chans) : j \in chans /\ j \in Nat
    BY DEF Shutting, Chns
  <2>4. CASE n \notin Shutting(chans)
    <3>1. {j \in Shutting(chans) : j < n + 1} = {j \in Shutting(chans) : j < n}
      BY <2>3, <2>4
    <3> QED BY <1>6, <2>2, <2>4, <3>1
  <2>5. CASE n \in Shutting(chans)
    <3> DEFINE s == free[n]
               c == rc[n]
               t == <<c>> \o s
    <3>1. free[n + 1] = t
      BY <2>2, <2>5
    <3>2. {rc[i] : i \in {j \in Shutting(chans) : j < n + 1}} =
            {rc[i] : i \in {j \in Shutting(chans) : j < n}} \cup {c}
      BY <2>3, <2>5
    <3>3. c \in 1 .. made /\ s \in Seq(1 .. made)
      BY <1>2, <1>6, <2>3, <2>5
    <3>4. c \notin ToSet(s)
      <4>1. \A j \in Shutting(chans) : j < n => rc[j] # c
        BY <2>1, <2>3, <2>5, <1>2 DEF Pool, None
      <4> QED BY <1>2, <1>6, <2>3, <2>5, <4>1
    <3> HIDE DEF s, c
    <3>5. /\ t \in Seq(1 .. made) /\ Len(t) = Len(s) + 1 /\ Len(s) \in Nat
          /\ t[1] = c /\ \A i \in 2 .. Len(t) : t[i] = s[i - 1]
      <4>1. <<c>> \in Seq(1 .. made) /\ Len(<<c>>) = 1 /\ <<c>>[1] = c
        BY <3>3
      <4> QED BY <3>3, <4>1, ConcatProperties, LenProperties
    <3> HIDE DEF t
    <3>6. ToSet(t) = ToSet(s) \cup {c}
      <4>1. DOMAIN t = 1 .. Len(t) /\ DOMAIN s = 1 .. Len(s)
        BY <3>3, <3>5, LenProperties
      <4>2. ASSUME NEW x \in ToSet(t)
            PROVE  x \in ToSet(s) \cup {c}
        <5>1. PICK i \in 1 .. Len(t) : x = t[i]
          BY <4>1 DEF ToSet
        <5>2. CASE i = 1
          BY <3>5, <5>1, <5>2
        <5>3. CASE i # 1
          <6>1. i \in 2 .. Len(t) /\ i - 1 \in 1 .. Len(s)
            BY <3>5, <5>3
          <6> QED BY <3>5, <4>1, <5>1, <6>1 DEF ToSet
        <5> QED BY <5>2, <5>3
      <4>3. ASSUME NEW x \in ToSet(s) \cup {c}
            PROVE  x \in ToSet(t)
        <5>1. CASE x = c
          BY <3>5, <4>1, <5>1 DEF ToSet
        <5>2. CASE x \in ToSet(s)
          <6>1. PICK i \in 1 .. Len(s) : x = s[i]
            BY <4>1, <5>2 DEF ToSet
          <6>2. i + 1 \in 2 .. Len(t) /\ (i + 1) - 1 = i
            BY <3>5
          <6>3. t[i + 1] = x
            BY <3>5, <6>1, <6>2
          <6>4. i + 1 \in DOMAIN t
            BY <4>1, <6>2
          <6> QED BY <6>3, <6>4 DEF ToSet
        <5> QED BY <4>3, <5>1, <5>2
      <4> QED BY <4>2, <4>3
    <3>7. ASSUME NEW i \in 1 .. Len(t), NEW j \in 1 .. Len(t), t[i] = t[j]
          PROVE  i = j
      <4>1. \A k \in 1 .. Len(s) : s[k] # c
        BY <3>3, <3>4, LenProperties DEF ToSet
      <4>2. \A k \in 1 .. Len(t) : k = 1 \/ (k \in 2 .. Len(t) /\ k - 1 \in 1 .. Len(s))
        BY <3>5
      <4>3. CASE i = 1 \/ j = 1
        BY <3>5, <3>7, <4>1, <4>2, <4>3
      <4>4. CASE i # 1 /\ j # 1
        <5>1. /\ i - 1 \in 1 .. Len(s) /\ j - 1 \in 1 .. Len(s)
              /\ s[i - 1] = s[j - 1]
          BY <3>5, <3>7, <4>2, <4>4
        <5>2. i - 1 = j - 1
          BY <1>6, <5>1 DEF s
        <5> QED BY <5>2
      <4> QED BY <4>3, <4>4
    <3>8. ToSet(s) = ToSet(cache) \cup {rc[i] : i \in {j \in Shutting(chans) : j < n}}
      BY <1>6 DEF s
    <3> QED BY <3>1, <3>2, <3>5, <3>6, <3>7, <3>8
  <2> QED BY <2>4, <2>5
<1>7. NumChans \in T
  <2>1. ASSUME NEW n \in T
        PROVE  n + 1 \in T
    <3>1. n \in Nat /\ (n <= NumChans => Good(n))
      BY <2>1
    <3> HIDE DEF Good
    <3> QED BY <1>1, <1>6, <3>1
  <2> HIDE DEF Good
  <2>2. T \in SUBSET Nat
    OBVIOUS
  <2> HIDE DEF T
  <2> QED BY <1>1, <1>5, <2>1, <2>2, NatSetInduction
<1>8. Good(NumChans)
  <2> HIDE DEF Good
  <2> QED BY <1>1, <1>7
<1>9. {j \in Shutting(chans) : j < NumChans} = Shutting(chans)
  <2>1. \A j \in Shutting(chans) : j \in 0 .. NumChans - 1
    BY DEF Shutting, Chns
  <2>2. \A j \in Shutting(chans) : j < NumChans
    BY <1>1, <2>1
  <2> QED BY <2>2
<1> QED BY <1>4, <1>8, <1>9
-----------------------------------------------------------------------------
(* Clients and pool.                                                        *)

\* A connection on which something goes on is not in the pool.
LEMMA InUse ==
  ASSUME Pool, NEW c \in Conns,
         conn[c].sock # "none" \/ conn[c].wtimer # "off" \/ conn[c].rtimer
  PROVE  ~Unused(c)
<1> SUFFICES ASSUME Unused(c)
             PROVE  FALSE
  OBVIOUS
<1>1. conn[c] = Closed(conn[c].inst, NoCam)
  BY DEF Pool
<1>2. conn[c].sock = "none" /\ conn[c].wtimer = "off" /\ conn[c].rtimer = FALSE
  BY <1>1 DEF Closed
<1> QED BY <1>2

\* The states that stand for a closed and for a new connection.
LEMMA NewStates ==
  ASSUME NEW inst \in {0, 1}, NEW cam \in Cams \cup {NoCam, Nowhere}
  PROVE  /\ Closed(inst, cam) \in ConnStates /\ Connecting(inst, cam) \in ConnStates
         /\ Closed(inst, cam).inst = inst /\ Connecting(inst, cam).inst = inst
         /\ Closed(inst, cam).sock = "none"
         /\ NewSession \in SessStates
  BY DEF Closed, Connecting, ConnStates, NewSession, SessStates

\* The fields of a connection and of a session.
LEMMA Fields ==
  ASSUME TypeOK, NEW c \in Conns
  PROVE  /\ conn \in [Conns -> ConnStates] /\ conn[c] \in ConnStates
         /\ sess \in [Conns -> SessStates] /\ sess[c] \in SessStates
         /\ conn[c].inst \in {0, 1} /\ conn[c].cam \in Cams \cup {NoCam, Nowhere}
  BY DEF TypeOK, ConnStates, SessStates

\* A step that changes one connection, which is in use.
LEMMA OneConn ==
  ASSUME PoolInv, NEW c \in Conns, NEW k \in ConnStates, conn' = [conn EXCEPT ![c] = k],
         ~Unused(c), UNCHANGED pool, news' \subseteq news \cup {c}, batch' \subseteq batch,
         sess' \in [Conns -> SessStates], UNCHANGED <<todo, calm>>, crashed' \in BOOLEAN
  PROVE  PoolInv'
<1>1. TypeOK /\ Pool /\ conn \in [Conns -> ConnStates]
  BY Fields DEF PoolInv
<1>2. conn' \in [Conns -> ConnStates] /\ \A d \in Conns : d # c => conn'[d] = conn[d]
  BY <1>1
<1>3. /\ rc' = rc /\ made' = made /\ cache' = cache /\ subwin' = subwin
  BY DEF pool
<1>4. TypeOK'
  BY <1>1, <1>2, <1>3 DEF TypeOK, ConnStates, SessStates
<1>5. ASSUME NEW d \in Conns, Unused(d)'
      PROVE  /\ \A i \in Chns : rc'[i] # d
             /\ conn'[d] = Closed(conn'[d].inst, NoCam)
             /\ d \notin news'
             /\ \A e \in batch' : e.c = d => ~e.own
  <2>1. Unused(d)
    BY <1>3, <1>5 DEF Unused
  <2>2. d # c
    BY <2>1
  <2> QED BY <1>1, <1>2, <1>3, <2>1, <2>2 DEF Pool
<1>6. Pool'
  BY <1>1, <1>3, <1>5 DEF Pool
<1> QED BY <1>4, <1>6 DEF PoolInv

\* Cameras and network change one connection, which has a socket.
LEMMA CameraSteps ==
  ASSUME TypeOK, NEW c \in Conns,
         Accept(c) \/ Refuse(c) \/ Answer(c) \/ Stream(c) \/ HangUp(c) \/ Reset(c) \/ Gone(c)
  PROVE  /\ \E k \in ConnStates : conn' = [conn EXCEPT ![c] = k] /\ k.inst = conn[c].inst
         /\ conn[c].sock # "none"
         /\ news \subseteq news' /\ news' \subseteq news \cup {c}
         /\ EnvUnchanged
<1>1. conn \in [Conns -> ConnStates] /\ conn[c] \in ConnStates /\ sess[c] \in SessStates
  BY Fields
<1>2. CASE Accept(c)
  <2> DEFINE k == [conn[c] EXCEPT !.sock = "open"]
  <2>1. k \in ConnStates /\ k.inst = conn[c].inst
    BY <1>1 DEF ConnStates
  <2>2. conn' = [conn EXCEPT ![c] = k] /\ (news' = news \/ news' = news \cup {c})
    BY <1>1, <1>2 DEF Accept
  <2> HIDE DEF k
  <2> QED BY <1>2, <2>1, <2>2 DEF Accept
<1>3. CASE Refuse(c)
  <2> DEFINE k == [conn[c] EXCEPT !.sock = "failed"]
  <2>1. k \in ConnStates /\ k.inst = conn[c].inst
    BY <1>1 DEF ConnStates
  <2>2. conn' = [conn EXCEPT ![c] = k] /\ (news' = news \/ news' = news \cup {c})
    BY <1>1, <1>3 DEF Refuse
  <2> HIDE DEF k
  <2> QED BY <1>3, <2>1, <2>2 DEF Refuse
<1>4. CASE Answer(c)
  <2>1. PICK r \in Replies :
          conn' = [conn EXCEPT ![c].asked = FALSE, ![c].inbox = r,
                               ![c].plays = (r = "200" /\ sess[c].next = "none")]
    BY <1>4 DEF Answer
  <2>2. r \in {"200", "401", "other"}
    BY SessionsAssumption
  <2> DEFINE k == [conn[c] EXCEPT !.asked = FALSE, !.inbox = r,
                                  !.plays = (r = "200" /\ sess[c].next = "none")]
  <2>3. k \in ConnStates /\ k.inst = conn[c].inst
    BY <1>1, <2>2 DEF ConnStates
  <2>4. conn' = [conn EXCEPT ![c] = k]
    BY <1>1, <2>1
  <2> HIDE DEF k
  <2> QED BY <1>4, <2>3, <2>4 DEF Answer
<1>5. CASE Stream(c)
  <2> DEFINE k == [conn[c] EXCEPT !.inbox = "rtp"]
  <2>1. k \in ConnStates /\ k.inst = conn[c].inst
    BY <1>1 DEF ConnStates
  <2>2. conn' = [conn EXCEPT ![c] = k] /\ (news' = news \/ news' = news \cup {c})
    BY <1>1, <1>5 DEF Stream
  <2> HIDE DEF k
  <2> QED BY <1>5, <2>1, <2>2 DEF Stream
<1>6. CASE HangUp(c)
  <2> DEFINE k == [conn[c] EXCEPT !.sock = "eof", !.asked = FALSE, !.plays = FALSE]
  <2>1. k \in ConnStates /\ k.inst = conn[c].inst
    BY <1>1 DEF ConnStates
  <2>2. conn' = [conn EXCEPT ![c] = k] /\ (news' = news \/ news' = news \cup {c})
    BY <1>1, <1>6 DEF HangUp
  <2> HIDE DEF k
  <2> QED BY <1>6, <2>1, <2>2 DEF HangUp
<1>7. CASE Reset(c)
  <2> DEFINE k == [conn[c] EXCEPT !.sock = "failed", !.asked = FALSE, !.plays = FALSE,
                                  !.missed = c \in news /\ conn[c].inbox \in Replies]
  <2>1. k \in ConnStates /\ k.inst = conn[c].inst
    BY <1>1 DEF ConnStates
  <2>2. conn' = [conn EXCEPT ![c] = k]
    BY <1>1, <1>7 DEF Reset
  <2> HIDE DEF k
  <2> QED BY <1>7, <2>1, <2>2 DEF Reset
<1>8. CASE Gone(c)
  <2> DEFINE k == [conn[c] EXCEPT !.sock = "dead"]
  <2>1. k \in ConnStates /\ k.inst = conn[c].inst
    BY <1>1 DEF ConnStates
  <2>2. conn' = [conn EXCEPT ![c] = k] /\ (news' = news \/ news' = news \cup {c})
    BY <1>1, <1>8 DEF Gone
  <2> HIDE DEF k
  <2> QED BY <1>8, <2>1, <2>2 DEF Gone
<1> QED BY <1>2, <1>3, <1>4, <1>5, <1>6, <1>7, <1>8

\* A handler of an event changes the connection and session of the event.
LEMMA HandlerSteps ==
  ASSUME TypeOK, NEW c \in Conns, ReadHandler(c) \/ ConnectHandler(c)
  PROVE  /\ \E k \in ConnStates : conn' = [conn EXCEPT ![c] = k] /\ k.inst = conn[c].inst
         /\ \E s \in SessStates : sess' = [sess EXCEPT ![c] = s]
         /\ news \subseteq news' /\ news' \subseteq news \cup {c}
         /\ crashed' \in BOOLEAN
<1>1. /\ conn \in [Conns -> ConnStates] /\ conn[c] \in ConnStates
      /\ sess \in [Conns -> SessStates] /\ sess[c] \in SessStates
      /\ conn = [conn EXCEPT ![c] = conn[c]] /\ sess = [sess EXCEPT ![c] = sess[c]]
      /\ crashed \in BOOLEAN
  BY Fields DEF TypeOK
<1>2. Timed(c) \in ConnStates /\ Timed(c).inst = conn[c].inst
  BY <1>1 DEF Timed, ConnStates, SessStates
<1>3. Dropped(sess[c]) \in SessStates
  BY <1>1 DEF Dropped, SessStates
<1>4. ASSUME NEW k \in ConnStates
      PROVE  Sent(k) \in ConnStates /\ Sent(k).inst = k.inst
  BY DEF Sent, ConnStates
<1>5. CASE ReadError(c)
  <2> DEFINE k == [Timed(c) EXCEPT !.sock = "dead"]
  <2>1. k \in ConnStates /\ k.inst = conn[c].inst
    BY <1>2 DEF ConnStates
  <2> QED BY <1>1, <1>5, <2>1 DEF ReadError
<1>6. CASE ReadClosed(c)
  <2> DEFINE k == [Timed(c) EXCEPT !.wtimer = "later"]
  <2>1. k \in ConnStates /\ k.inst = conn[c].inst
    BY <1>2 DEF ConnStates
  <2>2. conn' = [conn EXCEPT ![c] = k] /\ sess' = [sess EXCEPT ![c] = Dropped(sess[c])]
    BY <1>6 DEF ReadClosed
  <2> HIDE DEF k
  <2> QED BY <1>1, <1>3, <1>6, <2>1, <2>2 DEF ReadClosed
<1>7. CASE ReadNothing(c)
  BY <1>1, <1>2, <1>7 DEF ReadNothing
<1>8. CASE ReadMessage(c)
  <2> DEFINE k == [Timed(c) EXCEPT !.inbox = "none"]
             next == Request(c)
             t == [next |-> After[next], success |-> sess[c].success \/ next = "play",
                   auth |-> sess[c].auth \/ conn[c].inbox = "401" \/ next # "describe"]
  <2>1. k \in ConnStates /\ k.inst = conn[c].inst
    BY <1>2 DEF ConnStates
  <2>2. next \in {"describe", "setup", "play", "none"}
    BY <1>1 DEF Request, SessStates
  <2>3. next # "none" => t \in SessStates
    <3>1. next # "none" => After[next] \in {"setup", "play", "none"}
      BY <2>2 DEF After
    <3> HIDE DEF next
    <3> QED BY <1>1, <3>1 DEF SessStates
  <2>4. \/ conn' = [conn EXCEPT ![c] = k] /\ sess' = sess
        \/ /\ next # "none"
           /\ conn' = [conn EXCEPT ![c] = Sent(k)] /\ sess' = [sess EXCEPT ![c] = t]
    BY <1>8 DEF ReadMessage
  <2>5. news' = news /\ crashed' = crashed
    BY <1>8 DEF ReadMessage
  <2> HIDE DEF k, next, t
  <2> QED BY <1>1, <1>4, <2>1, <2>3, <2>4, <2>5
<1>9. CASE ConnectHandler(c)
  <2> DEFINE k == [conn[c] EXCEPT !.write = FALSE, !.read = TRUE, !.wtimer = "off",
                     !.cam = IF conn[c].sock = "connecting" THEN Nowhere ELSE @]
             dead == [conn[c] EXCEPT !.sock = "dead", !.write = FALSE]
             t == [sess[c] EXCEPT !.next = "describe"]
  <2>1. /\ k \in ConnStates /\ k.inst = conn[c].inst
        /\ dead \in ConnStates /\ dead.inst = conn[c].inst
    BY <1>1 DEF ConnStates
  <2>2. t \in SessStates
    BY <1>1 DEF SessStates
  <2>3. CASE conn[c].sock = "failed"
    <3>1. conn' = [conn EXCEPT ![c] = dead] /\ UNCHANGED <<sess, news, crashed>>
      BY <1>1, <1>9, <2>3 DEF ConnectHandler
    <3> HIDE DEF dead
    <3> QED BY <1>1, <2>1, <3>1
  <2>4. CASE conn[c].sock # "failed"
    <3>1. conn' = [conn EXCEPT ![c] = Sent(k)]
      BY <1>9, <2>4 DEF ConnectHandler
    <3>2. sess' = [sess EXCEPT ![c] = t]
      BY <1>1, <1>9, <2>4 DEF ConnectHandler
    <3>3. news' = news \/ news' = news \cup {c}
      BY <1>9, <2>4 DEF ConnectHandler
    <3>4. crashed' \in BOOLEAN
      BY <1>9, <2>4 DEF ConnectHandler
    <3> HIDE DEF k, t
    <3> QED BY <1>4, <2>1, <2>2, <3>1, <3>2, <3>3, <3>4
  <2> QED BY <2>3, <2>4
<1> QED BY <1>5, <1>6, <1>7, <1>8, <1>9 DEF ReadHandler

\* A list of numbers without a repetition is no longer than they are many.
LEMMA InjectiveLen ==
  ASSUME NEW n \in Nat, NEW s \in Seq(1 .. n),
         \A i, j \in 1 .. Len(s) : s[i] = s[j] => i = j
  PROVE  Len(s) <= n
<1>1. Len(s) \in Nat /\ s \in [1 .. Len(s) -> 1 .. n] /\ DOMAIN s = 1 .. Len(s)
  BY LenProperties, ElementOfSeq
<1>2. s \in Injection(1 .. Len(s), 1 .. n)
  BY <1>1 DEF Injection, IsInjective
<1>3. /\ IsFiniteSet(1 .. n) /\ Cardinality(1 .. n) = n
      /\ Cardinality(1 .. Len(s)) = Len(s)
  <2>1. /\ IsFiniteSet(1 .. n) /\ Cardinality(1 .. n) = IF 1 > n THEN 0 ELSE n - 1 + 1
    BY FS_Interval
  <2>2. ASSUME NEW m \in Nat
        PROVE  Cardinality(1 .. m) = m
    <3>1. Cardinality(1 .. m) = IF 1 > m THEN 0 ELSE m - 1 + 1
      BY FS_Interval
    <3> QED BY <3>1
  <2> QED BY <1>1, <2>1, <2>2
<1>4. Cardinality(1 .. Len(s)) <= Cardinality(1 .. n)
  BY <1>2, <1>3, FS_Injection
<1> QED BY <1>3, <1>4

\* The connections of the clients that a configuration frees.
Freeing(chn, cam, w) == {rc[i] : i \in Freed(chn, cam, w)}

\* What a configuration notes at the events of the batch.
LEMMA SeveredLemma ==
  ASSUME NEW e \in EventStates, NEW gone
  PROVE  /\ Severed(e, gone) \in EventStates
         /\ Severed(e, gone).c = e.c /\ Severed(e, gone).inst = e.inst
         /\ Severed(e, gone).kind = e.kind
         /\ Severed(e, gone).own = (e.own /\ e.c \notin gone)
         /\ Severed(e, gone).twice = (e.twice \/ (~e.own /\ e.c \in gone))
  BY DEF EventStates, Severed

\* What a configuration closes, and what it does with the rest: only the
\* connections of the freed clients and the one that is taken change, and the
\* one that is taken was unused or has just been closed.
LEMMA ConfigureFacts ==
  ASSUME PoolInv, todo > 0, NEW w \in Layouts, NEW chn \in 0 .. w - 1,
         NEW cam \in Cams \cup {NoCam}, Configure(chn, cam, w)
  PROVE  /\ PoolInv' /\ todo' = todo - 1
         /\ Freeing(chn, cam, w) \in SUBSET Conns
         /\ \A k \in Freeing(chn, cam, w) : ~Unused(k)
         /\ news' = news \ Freeing(chn, cam, w)
         /\ batch' = {Severed(e, Freeing(chn, cam, w)) : e \in batch}
         /\ \A k \in Conns \ Freeing(chn, cam, w) :
              ~Unused(k) => conn'[k] = conn[k] /\ sess'[k] = sess[k]
         /\ \A k \in Conns : k \in Freeing(chn, cam, w) \/ Unused(k) =>
              \/ conn'[k] = Closed(conn[k].inst, NoCam)
              \/ conn'[k] = Connecting(1 - conn[k].inst, cam)
<1> DEFINE freed == Freed(chn, cam, w)
           gone == Freeing(chn, cam, w)
           free == Released(freed)
           left == [i \in Chns |-> IF i \in freed THEN None ELSE rc[i]]
           closed == [k \in Conns |-> IF k \in gone THEN Shut(k) ELSE conn[k]]
           c == IF free # <<>> THEN Head(free) ELSE made + 1
           events == {Severed(e, gone) : e \in batch}
<1>1. TypeOK /\ Pool
  BY DEF PoolInv
<1>2. /\ NumChans \in Nat \ {0} /\ MaxConns \in Nat /\ made \in Nat /\ made <= MaxConns
      /\ MaxPkgs \in Nat /\ todo \in 0 .. MaxPkgs /\ w \in 1 .. NumChans
  BY <1>1, SessionsAssumption DEF TypeOK
<1>3. chn \in Chns
  BY <1>2 DEF Chns
<1>4. freed \in SUBSET Chns /\ \A i \in freed : rc[i] # None
  BY <1>3 DEF Freed, OldClients
<1>5. \A i \in freed : rc[i] \in Conns /\ rc[i] <= made /\ ~Unused(rc[i])
  <2>1. \A i \in Chns : rc[i] \in Conns \cup {None} /\ rc[i] <= made
    BY <1>1 DEF TypeOK, Pool
  <2>2. \A i \in Chns : rc[i] # None => ~Unused(rc[i])
    BY <1>1, <2>1 DEF Pool
  <2> QED BY <1>4, <2>1, <2>2
<1>6. /\ todo' = todo - 1
      /\ sess' = [k \in Conns |-> IF k \in gone \cup {c} THEN NewSession ELSE sess[k]]
      /\ subwin' = w
      /\ news' = news \ gone
      /\ batch' = events
      /\ calm' = calm
      /\ \/ /\ rc' = left /\ conn' = closed /\ cache' = free /\ made' = made
            /\ crashed' = crashed
         \/ /\ c \in Conns /\ cam # NoCam
            /\ rc' = [left EXCEPT ![chn] = c]
            /\ conn' = [closed EXCEPT ![c] = Connecting(Turned(closed[c].inst), cam)]
            /\ cache' = IF free # <<>> THEN Tail(free) ELSE free
            /\ made' = IF free # <<>> THEN made ELSE made + 1
            /\ crashed' = crashed
         \/ /\ crashed' = TRUE
            /\ rc' = left /\ conn' = closed /\ cache' = free /\ made' = made
  BY DEF Configure, Freeing
<1>7. /\ free \in Seq(1 .. made)
      /\ ToSet(free) = ToSet(cache) \cup {rc[i] : i \in Shutting(freed)}
      /\ \A i, j \in 1 .. Len(free) : free[i] = free[j] => i = j
  BY <1>1, <1>4, ClosedOntoLemma
<1>8. gone \in SUBSET Conns /\ \A k \in gone : ~Unused(k) /\ k <= made
  BY <1>5 DEF Freeing
<1>9. \A i \in Chns : left[i] \in gone => FALSE
  <2> SUFFICES ASSUME NEW i \in Chns, left[i] \in gone
               PROVE  FALSE
    OBVIOUS
  <2>1. left[i] # None
    BY <1>8 DEF Conns, None
  <2>2. i \notin freed /\ left[i] = rc[i]
    BY <2>1
  <2>3. PICK j \in freed : rc[i] = rc[j]
    BY <2>2 DEF Freeing
  <2> QED BY <1>1, <1>4, <2>1, <2>2, <2>3 DEF Pool
<1>10. \A k \in Conns : closed[k] = IF k \in gone THEN Closed(conn[k].inst, NoCam) ELSE conn[k]
  BY DEF Shut
<1>11. \A k \in Conns : k > made \/ k \in ToSet(free) => k \in gone \/ Unused(k)
  <2>1. \A i \in Shutting(freed) : rc[i] \in gone
    BY DEF Shutting, Freeing
  <2> HIDE DEF free, gone, freed
  <2> QED BY <1>7, <2>1 DEF Unused
<1>12. \A k \in Conns : conn[k].inst \in {0, 1} /\ closed[k] \in ConnStates
                        /\ closed[k].inst = conn[k].inst
  <2> SUFFICES ASSUME NEW k \in Conns
               PROVE  conn[k].inst \in {0, 1} /\ closed[k] \in ConnStates
                      /\ closed[k].inst = conn[k].inst
    OBVIOUS
  <2>1. conn[k].inst \in {0, 1} /\ conn[k] \in ConnStates
    BY <1>1, Fields
  <2>2. /\ Closed(conn[k].inst, NoCam) \in ConnStates
        /\ Closed(conn[k].inst, NoCam).inst = conn[k].inst
    BY <2>1, NewStates
  <2> HIDE DEF closed, gone
  <2> QED BY <1>10, <2>1, <2>2
<1>13. ASSUME NEW k \in Conns, k > made \/ k \in ToSet(free)
       PROVE  /\ \A i \in Chns : left[i] # k
              /\ closed[k] = Closed(closed[k].inst, NoCam)
              /\ k \notin news'
              /\ \A e \in batch' : e.c = k => ~e.own
  <2>1. \A e \in batch' : \E f \in batch : /\ e.c = f.c
                                           /\ e.own => f.own /\ f.c \notin gone
    <3> SUFFICES ASSUME NEW e \in batch'
                 PROVE  \E f \in batch : e.c = f.c /\ (e.own => f.own /\ f.c \notin gone)
      OBVIOUS
    <3>1. PICK f \in batch : e = Severed(f, gone)
      BY <1>6
    <3>2. f \in EventStates
      BY <1>1 DEF TypeOK, EventStates
    <3> HIDE DEF gone
    <3>3. e.c = f.c /\ e.own = (f.own /\ f.c \notin gone)
      BY <3>1, <3>2, SeveredLemma
    <3> QED BY <3>3
  <2>2. CASE k \in gone
    <3>1. k \notin news' /\ \A e \in batch' : e.c = k => ~e.own
      <4>1. news' = news \ gone
        BY <1>6
      <4> HIDE DEF left, gone, closed, free, c, events
      <4> QED BY <2>1, <2>2, <4>1
    <3> HIDE DEF left, gone, closed, free, c, events
    <3>2. closed[k] = Closed(closed[k].inst, NoCam)
      BY <1>10, <1>12, <2>2
    <3> QED BY <1>9, <2>2, <3>1, <3>2
  <2>3. CASE Unused(k) /\ k \notin gone
    <3>1. \A i \in Chns : left[i] \in {None, rc[i]}
      OBVIOUS
    <3>2. /\ \A i \in Chns : rc[i] # k
          /\ conn[k] = Closed(conn[k].inst, NoCam)
          /\ k \notin news
          /\ \A e \in batch : e.c = k => ~e.own
      BY <1>1, <2>3 DEF Pool
    <3>3. k # None
      BY DEF Conns, None
    <3>4. k \notin news' /\ \A e \in batch' : e.c = k => ~e.own
      BY <1>6, <2>1, <3>2
    <3>5. closed[k] = Closed(closed[k].inst, NoCam)
      BY <1>10, <1>12, <2>3, <3>2
    <3> HIDE DEF left, gone, closed
    <3> QED BY <3>1, <3>2, <3>3, <3>4, <3>5
  <2> HIDE DEF left, gone, closed, free
  <2> QED BY <1>11, <1>13, <2>2, <2>3
<1>14. c \in Conns => c > made \/ c \in ToSet(free)
  <2>1. CASE free # <<>>
    <3>1. Head(free) = free[1] /\ 1 \in DOMAIN free
      <4> HIDE DEF free
      <4> QED BY <1>7, <2>1, EmptySeq, LenProperties, HeadTailProperties
    <3> QED BY <2>1, <3>1 DEF ToSet
  <2>2. CASE free = <<>>
    BY <1>2, <2>2
  <2> QED BY <2>1, <2>2
<1>15. \A i, j \in Chns : left[i] # None /\ left[i] = left[j] => i = j
  <2>1. \A i \in Chns : left[i] # None => left[i] = rc[i]
    OBVIOUS
  <2> HIDE DEF left
  <2> QED BY <1>1, <2>1 DEF Pool
<1>16. \A i \in Chns : left[i] \in Conns \cup {None} /\ left[i] <= made
  <2>1. \A i \in Chns : rc[i] \in Conns \cup {None} /\ rc[i] <= made
    BY <1>1 DEF TypeOK, Pool
  <2> QED BY <1>2, <2>1 DEF None
<1>17. events \subseteq EventStates
  <2>1. ASSUME NEW e \in batch
        PROVE  Severed(e, gone) \in EventStates
    <3>1. e \in EventStates
      BY <1>1 DEF TypeOK, EventStates
    <3> HIDE DEF gone
    <3> QED BY <3>1, SeveredLemma
  <2> QED BY <2>1
<1>18. sess' \in [Conns -> SessStates]
  <2>1. sess \in [Conns -> SessStates] /\ NewSession \in SessStates
    BY <1>1 DEF TypeOK, NewSession, SessStates
  <2> HIDE DEF gone, c
  <2> QED BY <1>6, <2>1
<1>19. cam \in Cams \cup {NoCam, Nowhere}
  OBVIOUS
<1>20. \A k \in Conns : ~Unused(k) /\ k \notin gone => k # c /\ closed[k] = conn[k]
  <2> SUFFICES ASSUME NEW k \in Conns, ~Unused(k), k \notin gone
               PROVE  k # c /\ closed[k] = conn[k]
    OBVIOUS
  <2>1. closed[k] = conn[k]
    BY <1>10
  <2>2. k # c
    <3> HIDE DEF gone, free, c
    <3> QED BY <1>11, <1>14
  <2> QED BY <2>1, <2>2
<1>21. \A k \in Conns : ~Unused(k) /\ k \notin gone => sess'[k] = sess[k]
  <2> HIDE DEF gone, c, closed
  <2> QED BY <1>6, <1>20
<1>22. \A k \in Conns : k \in gone \/ Unused(k) => closed[k] = Closed(conn[k].inst, NoCam)
  <2>1. \A k \in Conns : Unused(k) => conn[k] = Closed(conn[k].inst, NoCam)
    BY <1>1 DEF Pool
  <2> HIDE DEF gone, closed
  <2> QED BY <1>10, <2>1
<1>23. CASE /\ rc' = left /\ conn' = closed /\ cache' = free /\ made' = made
            /\ crashed' \in BOOLEAN
  <2> HIDE DEF gone, closed, free, c, events
  <2>1. left \in [Chns -> Conns \cup {None}] /\ closed \in [Conns -> ConnStates]
    BY <1>12, <1>16 DEF closed
  <2> HIDE DEF left
  <2>2. Len(free) <= made
    BY <1>2, <1>7, InjectiveLen
  <2>3. todo' \in 0 .. MaxPkgs
    BY <1>2, <1>6
  <2>4. news' \subseteq Conns
    BY <1>1, <1>6 DEF TypeOK
  <2>5. TypeOK'
    BY <1>1, <1>6, <1>7, <1>17, <1>18, <1>23, <2>1, <2>2, <2>3, <2>4
    DEF TypeOK, ConnStates, SessStates, EventStates
  <2>6. Pool'
    BY <1>7, <1>13, <1>15, <1>16, <1>23 DEF Pool, Unused
  <2> QED BY <1>6, <1>8, <1>20, <1>21, <1>22, <1>23, <2>5, <2>6 DEF PoolInv, gone, events
<1>24. CASE /\ c \in Conns /\ cam # NoCam
            /\ rc' = [left EXCEPT ![chn] = c]
            /\ conn' = [closed EXCEPT ![c] = Connecting(Turned(closed[c].inst), cam)]
            /\ cache' = IF free # <<>> THEN Tail(free) ELSE free
            /\ made' = IF free # <<>> THEN made ELSE made + 1
            /\ crashed' = crashed
  <2>1. c > made \/ c \in ToSet(free)
    BY <1>14, <1>24
  <2>2. /\ made' \in Nat /\ made' <= MaxConns /\ made <= made' /\ c <= made'
        /\ cache' \in Seq(1 .. made')
        /\ \A i, j \in 1 .. Len(cache') : cache'[i] = cache'[j] => i = j
        /\ \A k \in ToSet(cache') : k \in ToSet(free) /\ k # c
    <3>1. CASE free # <<>>
      <4>1. made' = made /\ cache' = Tail(free) /\ c = Head(free)
        BY <1>24, <3>1
      <4> HIDE DEF free, c
      <4>2. /\ Head(free) = free[1] /\ free[1] \in 1 .. made
            /\ Tail(free) \in Seq(1 .. made) /\ Len(Tail(free)) = Len(free) - 1
            /\ \A i \in 1 .. Len(Tail(free)) : Tail(free)[i] = free[i + 1]
            /\ Len(free) \in Nat \ {0}
        <5>1. free \in Seq(1 .. made) /\ free # <<>> /\ Len(free) \in Nat
          BY <1>7, <3>1, LenProperties
        <5>2. Len(free) # 0
          BY <5>1, EmptySeq
        <5>3. free[1] \in 1 .. made
          <6>1. 1 \in 1 .. Len(free)
            BY <5>1, <5>2
          <6> QED BY <5>1, <6>1, ElementOfSeq
        <5>4. /\ Head(free) = free[1] /\ Tail(free) \in Seq(1 .. made)
              /\ Len(Tail(free)) = Len(free) - 1
              /\ \A i \in 1 .. Len(Tail(free)) : Tail(free)[i] = free[i + 1]
          BY <5>1, HeadTailProperties
        <5> QED BY <5>1, <5>2, <5>3, <5>4
      <4>3. \A i \in 1 .. Len(Tail(free)) : i + 1 \in 1 .. Len(free) /\ i + 1 # 1 /\ 1 \in 1 .. Len(free)
        BY <4>2
      <4>4. \A i, j \in 1 .. Len(cache') : cache'[i] = cache'[j] => i = j
        <5> SUFFICES ASSUME NEW i \in 1 .. Len(Tail(free)), NEW j \in 1 .. Len(Tail(free)),
                            Tail(free)[i] = Tail(free)[j]
                     PROVE  i = j
          BY <4>1
        <5>1. free[i + 1] = free[j + 1]
          BY <4>2
        <5>2. i + 1 = j + 1
          BY <1>7, <4>3, <5>1
        <5> QED BY <4>2, <5>2
      <4>5. ASSUME NEW k \in ToSet(cache')
            PROVE  k \in ToSet(free) /\ k # c
        <5>1. DOMAIN Tail(free) = 1 .. Len(Tail(free)) /\ DOMAIN free = 1 .. Len(free)
          BY <1>7, <4>2, LenProperties
        <5>2. PICK i \in 1 .. Len(Tail(free)) : k = Tail(free)[i]
          BY <4>1, <5>1 DEF ToSet
        <5>3. k = free[i + 1] /\ i + 1 \in 1 .. Len(free) /\ i + 1 # 1 /\ 1 \in 1 .. Len(free)
          BY <4>2, <4>3, <5>2
        <5>4. k # free[1]
          BY <1>7, <5>3
        <5> QED BY <4>1, <4>2, <5>1, <5>3, <5>4 DEF ToSet
      <4> QED BY <1>2, <4>1, <4>2, <4>4, <4>5
    <3>2. CASE free = <<>>
      <4>1. made' = made + 1 /\ cache' = <<>> /\ c = made + 1
        BY <1>24, <3>2
      <4>2. made + 1 <= MaxConns
        BY <1>24, <4>1 DEF Conns
      <4>3. /\ <<>> \in Seq(1 .. made + 1) /\ Len(<<>>) = 0 /\ ToSet(<<>>) = {}
        BY EmptySeq DEF ToSet
      <4> HIDE DEF free, c
      <4> QED BY <1>2, <4>1, <4>2, <4>3
    <3> QED BY <3>1, <3>2
  <2> HIDE DEF gone, closed, free, c, events, left
  <2>3. Connecting(Turned(closed[c].inst), cam) = Connecting(1 - conn[c].inst, cam)
    BY <1>12, <1>24 DEF Turned
  <2>4. Connecting(1 - conn[c].inst, cam) \in ConnStates
    <3>1. 1 - conn[c].inst \in {0, 1}
      BY <1>12, <1>24
    <3> QED BY <1>19, <3>1, NewStates
  <2>5. left = [i \in Chns |-> left[i]] /\ closed = [k \in Conns |-> closed[k]]
    BY DEF left, closed
  <2>6. conn'[c] = Connecting(1 - conn[c].inst, cam) /\ \A k \in Conns : k # c => conn'[k] = closed[k]
    BY <1>24, <2>3, <2>5
  <2>7. rc'[chn] = c /\ \A i \in Chns : i # chn => rc'[i] = left[i]
    BY <1>3, <1>24, <2>5
  <2>8. rc' \in [Chns -> Conns \cup {None}] /\ conn' \in [Conns -> ConnStates]
    <3>1. left \in [Chns -> Conns \cup {None}]
      BY <1>16, <2>5
    <3>2. closed \in [Conns -> ConnStates]
      BY <1>12, <2>5
    <3> QED BY <1>24, <2>3, <2>4, <3>1, <3>2
  <2>9. TypeOK'
    <3>1. Len(cache') <= made'
      BY <2>2, InjectiveLen
    <3>2. todo' \in 0 .. MaxPkgs
      BY <1>2, <1>6
    <3>3. news' \subseteq Conns /\ crashed' \in BOOLEAN
      BY <1>1, <1>6, <1>24 DEF TypeOK
    <3>4. made' \in 0 .. MaxConns
      BY <1>2, <2>2
    <3> QED BY <1>1, <1>6, <1>17, <1>18, <2>2, <2>8, <3>1, <3>2, <3>3, <3>4
            DEF TypeOK, ConnStates, SessStates, EventStates
  <2>10. /\ \A i \in Chns : left[i] # c
         /\ c # None
    BY <1>13, <1>24, <2>1 DEF Conns, None
  <2>11. \A i, j \in Chns : rc'[i] # None /\ rc'[i] = rc'[j] => i = j
    BY <1>15, <2>7, <2>10
  <2>12. \A i \in Chns : rc'[i] <= made'
    <3>1. \A i \in Chns : left[i] \in Conns \cup {None} /\ left[i] <= made
      BY <1>16
    <3>2. \A i \in Chns : left[i] \in Nat
      BY <1>2, <3>1 DEF Conns, None
    <3>3. \A i \in Chns : left[i] <= made'
      BY <1>2, <2>2, <3>1, <3>2
    <3> QED BY <2>2, <2>7, <3>3
  <2>13. ASSUME NEW k \in Conns, Unused(k)'
         PROVE  /\ \A i \in Chns : rc'[i] # k
                /\ conn'[k] = Closed(conn'[k].inst, NoCam)
                /\ k \notin news'
                /\ \A e \in batch' : e.c = k => ~e.own
    <3>1. k > made' \/ k \in ToSet(cache')
      BY <2>13 DEF Unused
    <3>2. k # c /\ (k > made \/ k \in ToSet(free))
      <4>1. CASE k > made'
        BY <1>2, <1>24, <2>2, <4>1 DEF Conns
      <4>2. CASE k \in ToSet(cache')
        BY <2>2, <4>2
      <4> QED BY <3>1, <4>1, <4>2
    <3> QED BY <1>13, <2>6, <2>7, <3>2
  <2>14. Pool'
    BY <2>2, <2>11, <2>12, <2>13 DEF Pool
  <2>15. \A k \in Conns : ~Unused(k) /\ k \notin gone => conn'[k] = conn[k]
    BY <1>20, <2>6
  <2>16. \A k \in Conns : k \in gone \/ Unused(k) =>
              \/ conn'[k] = Closed(conn[k].inst, NoCam)
              \/ conn'[k] = Connecting(1 - conn[k].inst, cam)
    BY <1>22, <2>6
  <2> QED BY <1>6, <1>8, <1>21, <2>9, <2>14, <2>15, <2>16 DEF PoolInv, gone, events
<1>25. crashed \in BOOLEAN
  BY <1>1 DEF TypeOK
<1> HIDE DEF gone, closed, free, c, events, left, freed
<1> QED BY <1>6, <1>23, <1>24, <1>25

\* A step that changes no connection, and handles or drops events.
LEMMA QuietPool ==
  ASSUME PoolInv, UNCHANGED <<pool, conn, sess, news, todo, calm>>, crashed' \in BOOLEAN,
         batch' \subseteq batch
  PROVE  PoolInv'
<1>1. rc' = rc /\ made' = made /\ cache' = cache /\ subwin' = subwin
  BY DEF pool
<1>2. TypeOK'
  BY <1>1 DEF PoolInv, TypeOK
<1>3. Pool'
  BY <1>1 DEF PoolInv, Pool, Unused
<1> QED BY <1>2, <1>3 DEF PoolInv

\* epoll_wait fetches what is new.
LEMMA WaitPool ==
  ASSUME PoolInv, Wait
  PROVE  PoolInv'
<1>1. /\ rc' = rc /\ made' = made /\ cache' = cache /\ subwin' = subwin
      /\ UNCHANGED <<conn, sess, calm, crashed>> /\ news' = {} /\ todo' \in 0 .. MaxPkgs
  BY DEF Wait, pool
<1>2. batch' = {[c |-> d, inst |-> conn[d].inst, kind |-> Kind(d), own |-> TRUE,
               twice |-> FALSE] : d \in news}
  BY DEF Wait
<1>3. /\ TypeOK /\ Pool /\ news \subseteq Conns
  BY DEF PoolInv, TypeOK
<1>4. batch' \subseteq EventStates
  <2>1. ASSUME NEW d \in news
        PROVE  [c |-> d, inst |-> conn[d].inst, kind |-> Kind(d), own |-> TRUE,
               twice |-> FALSE] \in EventStates
    <3>1. conn[d].inst \in {0, 1} /\ Kind(d) \in {"in", "out", "both"} /\ d \in Conns
      BY <1>3, Fields DEF Kind
    <3> QED BY <3>1 DEF EventStates
  <2> QED BY <1>2, <2>1
<1>5. TypeOK'
  BY <1>1, <1>3, <1>4 DEF TypeOK, EventStates
<1>6. ASSUME NEW k \in Conns, Unused(k)'
      PROVE  /\ \A i \in Chns : rc'[i] # k
             /\ conn'[k] = Closed(conn'[k].inst, NoCam)
             /\ k \notin news'
             /\ \A e \in batch' : e.c = k => ~e.own
  <2>1. Unused(k)
    BY <1>1, <1>6 DEF Unused
  <2>2. \A e \in batch' : e.c \in news
    BY <1>2
  <2> QED BY <1>1, <1>3, <2>1, <2>2 DEF Pool
<1>7. Pool'
  BY <1>1, <1>3, <1>6 DEF Pool
<1> QED BY <1>5, <1>7 DEF PoolInv

\* What the handling of an event does.
LEMMA HandleSteps ==
  ASSUME PoolInv, NEW e \in batch, Handle(e)
  PROVE  /\ e.c \in Conns /\ batch' = batch \ {e} /\ UNCHANGED <<pool, todo, calm>>
         /\ \/ UNCHANGED <<conn, sess, news, crashed>>
            \/ ~Stale(e) /\ e.kind # "out" /\ conn[e.c].read /\ ReadHandler(e.c)
            \/ ~Stale(e) /\ e.kind # "in" /\ conn[e.c].write /\ ConnectHandler(e.c)
         /\ Stale(e) => UNCHANGED <<conn, sess, news, crashed>>
         /\ ~(e.kind # "out" /\ conn[e.c].read) /\ ~(e.kind # "in" /\ conn[e.c].write) =>
              UNCHANGED <<conn, sess, news, crashed>>
<1>1. e \in EventStates
  BY DEF PoolInv, TypeOK, EventStates
<1>2. e.c \in Conns
  BY <1>1 DEF EventStates
<1> QED BY <1>2 DEF Handle

\* Every step keeps clients and pool apart.
LEMMA PoolNext ==
  ASSUME PoolInv, [Next]_vars
  PROVE  PoolInv'
<1>1. TypeOK /\ Pool /\ calm \in BOOLEAN /\ crashed \in BOOLEAN
      /\ sess \in [Conns -> SessStates]
  BY DEF PoolInv, TypeOK, SessStates
<1>2. CASE Cameras
  <2>1. PICK c \in Conns : Accept(c) \/ Refuse(c) \/ Answer(c) \/ Stream(c)
                           \/ HangUp(c) \/ Reset(c) \/ Gone(c)
    BY <1>2 DEF Cameras
  <2>2. /\ \E k \in ConnStates : conn' = [conn EXCEPT ![c] = k] /\ k.inst = conn[c].inst
        /\ conn[c].sock # "none"
        /\ news' \subseteq news \cup {c}
        /\ EnvUnchanged
    BY <1>1, <2>1, CameraSteps
  <2>3. ~Unused(c)
    BY <1>1, <2>2, InUse
  <2> QED BY <1>1, <2>2, <2>3, OneConn DEF EnvUnchanged
<1>3. CASE Wait
  BY <1>3, WaitPool
<1>4. CASE Events
  <2>1. PICK e \in batch : Handle(e)
    BY <1>4 DEF Events
  <2>2. /\ e.c \in Conns /\ batch' = batch \ {e} /\ UNCHANGED <<pool, todo, calm>>
        /\ \/ UNCHANGED <<conn, sess, news, crashed>>
           \/ ~Stale(e) /\ (ReadHandler(e.c) \/ ConnectHandler(e.c))
    BY <2>1, HandleSteps
  <2>3. CASE UNCHANGED <<conn, sess, news, crashed>>
    BY <1>1, <2>2, <2>3, QuietPool
  <2>4. CASE ~Stale(e) /\ (ReadHandler(e.c) \/ ConnectHandler(e.c))
    <3>1. ~Unused(e.c)
      BY <1>1, <2>2, <2>4, InUse DEF Stale
    <3>2. /\ \E k \in ConnStates : conn' = [conn EXCEPT ![e.c] = k] /\ k.inst = conn[e.c].inst
          /\ \E s \in SessStates : sess' = [sess EXCEPT ![e.c] = s]
          /\ news' \subseteq news \cup {e.c}
          /\ crashed' \in BOOLEAN
      BY <1>1, <2>2, <2>4, HandlerSteps
    <3>3. sess' \in [Conns -> SessStates]
      BY <1>1, <3>2
    <3> QED BY <2>2, <3>1, <3>2, <3>3, OneConn
  <2> QED BY <2>2, <2>3, <2>4
<1>5. CASE Config
  <2>1. PICK w \in Layouts : \E chn \in 0 .. w - 1, cam \in Cams \cup {NoCam} :
          Configure(chn, cam, w)
    BY <1>5 DEF Config
  <2>2. PICK chn \in 0 .. w - 1, cam \in Cams \cup {NoCam} : Configure(chn, cam, w)
    BY <2>1
  <2> QED BY <1>5, <2>2, ConfigureFacts DEF Config
<1>6. CASE Timers
  <2>1. PICK c \in Conns : ReadTimeout(c) \/ Reconnect(c)
    BY <1>6 DEF Timers
  <2>2. conn[c] \in ConnStates /\ sess[c] \in SessStates /\ conn \in [Conns -> ConnStates]
        /\ conn[c].inst \in {0, 1} /\ conn[c].cam \in Cams \cup {NoCam, Nowhere}
    BY <1>1, Fields
  <2>3. CASE ReadTimeout(c)
    <3>1. ~Unused(c)
      BY <1>1, <2>3, InUse DEF ReadTimeout
    <3> DEFINE k == [conn[c] EXCEPT !.rtimer = FALSE, !.wtimer = "now"]
    <3>2. k \in ConnStates
      BY <2>2 DEF ConnStates
    <3>3. conn' = [conn EXCEPT ![c] = k]
      BY <2>2, <2>3 DEF ReadTimeout
    <3>4. sess' \in [Conns -> SessStates]
      <4>1. Dropped(sess[c]) \in SessStates
        BY <2>2 DEF Dropped, SessStates
      <4> QED BY <1>1, <2>3, <4>1 DEF ReadTimeout
    <3> HIDE DEF k
    <3> QED BY <1>1, <2>3, <3>1, <3>2, <3>3, <3>4, OneConn DEF ReadTimeout
  <2>4. CASE Reconnect(c)
    <3>1. ~Unused(c)
      BY <1>1, <2>4, InUse DEF Reconnect
    <3>2. PICK k \in {Connecting(conn[c].inst, conn[c].cam), Closed(conn[c].inst, conn[c].cam),
                      conn[c]} : conn' = [conn EXCEPT ![c] = k]
      BY <2>2, <2>4 DEF Reconnect
    <3>3. k \in ConnStates
      BY <2>2, <3>2, NewStates
    <3>4. crashed' \in BOOLEAN /\ news' \subseteq news \cup {c}
          /\ UNCHANGED <<pool, sess, batch, todo, calm>>
      BY <1>1, <2>4 DEF Reconnect
    <3> QED BY <1>1, <3>1, <3>2, <3>3, <3>4, OneConn
  <2> QED BY <2>1, <2>3, <2>4
<1>7. CASE UNCHANGED vars
  <2>1. UNCHANGED <<pool, conn, sess, news, todo, calm>> /\ batch' = batch /\ crashed' = crashed
    BY <1>7 DEF vars, pool
  <2> QED BY <1>1, <2>1, QuietPool
<1> QED BY <1>2, <1>3, <1>4, <1>5, <1>6, <1>7 DEF Next

\* The invariant holds when rtsp starts.
LEMMA PoolInit == Init => PoolInv
<1> SUFFICES ASSUME Init
             PROVE  PoolInv
  OBVIOUS
<1>1. /\ NumChans \in Nat /\ MaxConns \in Nat /\ MaxPkgs \in Nat /\ FirstLayout \in Layouts
  BY SessionsAssumption
<1>2. Closed(0, NoCam) \in ConnStates /\ NewSession \in SessStates /\ Closed(0, NoCam).inst = 0
  BY NewStates
<1>3. <<>> \in Seq(1 .. 0) /\ Len(<<>>) = 0 /\ ToSet(<<>>) = {}
  BY EmptySeq DEF ToSet
<1>4. conn \in [Conns -> ConnStates] /\ sess \in [Conns -> SessStates]
  BY <1>2 DEF Init
<1>5. TypeOK
  <2>1. cache \in Seq(1 .. made) /\ Len(cache) <= made /\ made \in 0 .. MaxConns
    BY <1>1, <1>3 DEF Init
  <2>2. rc \in [Chns -> Conns \cup {None}] /\ todo \in 0 .. MaxPkgs /\ subwin \in Layouts
    BY <1>1 DEF Init
  <2>3. /\ news = {} /\ batch = {} /\ calm \in BOOLEAN /\ crashed \in BOOLEAN
    BY DEF Init
  <2> QED BY <1>4, <2>1, <2>2, <2>3 DEF TypeOK, ConnStates, SessStates
<1>6. \A k \in Conns : conn[k] = Closed(conn[k].inst, NoCam)
  BY <1>2 DEF Init
<1>7. Pool
  BY <1>3, <1>6 DEF Init, Pool, Conns, None
<1> QED BY <1>5, <1>7 DEF PoolInv
-----------------------------------------------------------------------------
(* Events and timers.                                                       *)

\* A step that changes one connection and its session, and perhaps handles an
\* event of it.
LEMMA OneLoop ==
  ASSUME PoolInv, LoopInv, NEW c \in Conns,
         \A d \in Conns \ {c} : conn'[d] = conn[d] /\ sess'[d] = sess[d],
         conn'[c].inst = conn[c].inst,
         \A d \in Conns \ {c} : d \in news' <=> d \in news,
         news' \subseteq Conns,
         c \in news' => conn'[c].sock \notin {"none", "connecting"},
         batch' \subseteq batch,
         \A e \in batch : e \notin batch' /\ e.own => e.c = c,
         \A e \in batch' : e.own /\ e.c = c =>
            /\ conn'[c].sock \notin {"none", "connecting"}
            /\ e.kind = "out" => ~conn'[c].read,
         \A e \in batch' : ~e.own /\ e.c = c =>
            /\ conn'[c].sock = "none" <=> conn[c].sock = "none"
            /\ conn[c].write => conn'[c].write,
         Socket(c)', NoTimer(c)'
  PROVE  LoopInv'
<1>1. /\ EventsOK /\ \A d \in Conns : Socket(d) /\ NoTimer(d)
      /\ \A e \in batch : e.c \in Conns
  BY DEF LoopInv, PoolInv, TypeOK
<1>2. EventsOK'
  <2>1. \A d \in news' : conn'[d].sock \notin {"none", "connecting"}
    BY <1>1 DEF EventsOK
  <2>2. ASSUME NEW e \in batch'
        PROVE  IF e.own THEN /\ e.inst = conn'[e.c].inst
                             /\ conn'[e.c].sock \notin {"none", "connecting"}
                             /\ e.kind = "out" => ~conn'[e.c].read
               ELSE /\ conn'[e.c].sock = "none" \/ conn'[e.c].write
                    /\ ~e.twice => IF conn'[e.c].sock = "none" THEN conn'[e.c].inst = e.inst
                                   ELSE conn'[e.c].inst # e.inst
    <3>1. e \in batch /\ e.c \in Conns
      BY <1>1
    <3>2. CASE e.own
      BY <1>1, <3>1, <3>2 DEF EventsOK
    <3>3. CASE ~e.own
      <4>1. /\ conn'[e.c].sock = "none" <=> conn[e.c].sock = "none"
            /\ conn[e.c].write => conn'[e.c].write
            /\ conn'[e.c].inst = conn[e.c].inst
        BY <3>1, <3>3
      <4> QED BY <1>1, <3>1, <3>3, <4>1 DEF EventsOK
    <3> QED BY <3>2, <3>3
  <2>3. \A e, f \in batch' : e.c = f.c => e = f
    BY <1>1 DEF EventsOK
  <2> QED BY <2>1, <2>2, <2>3 DEF EventsOK
<1>3. ASSUME NEW d \in Conns, d # c
      PROVE  Socket(d)' /\ NoTimer(d)'
  <2>1. Fetched(d)' <=> Fetched(d)
    BY <1>3 DEF Fetched
  <2>2. /\ conn'[d] = conn[d] /\ sess'[d] = sess[d]
        /\ d \in news' <=> d \in news
    BY <1>3
  <2>3. Socket(d) /\ NoTimer(d)
    BY <1>1
  <2>4. Socket(d)'
    BY <2>2, <2>3 DEF Socket
  <2>5. NoTimer(d)'
    BY <2>1, <2>2, <2>3 DEF NoTimer
  <2> QED BY <2>4, <2>5
<1> QED BY <1>2, <1>3 DEF LoopInv

\* The answers of a camera are not the marks of an empty socket and a stream.
LEMMA ReplyTypes == Replies \subseteq {"200", "401", "other"}
  BY SessionsAssumption

\* Cameras and network keep the invariant: what they do to a socket without a
\* write timer is reported.
LEMMA CameraLoop ==
  ASSUME PoolInv, LoopInv, NEW c \in Conns,
         Accept(c) \/ Refuse(c) \/ Answer(c) \/ Stream(c) \/ HangUp(c) \/ Reset(c) \/ Gone(c)
  PROVE  LoopInv'
<1>1. /\ TypeOK /\ conn \in [Conns -> ConnStates] /\ conn[c] \in ConnStates
      /\ sess[c] \in SessStates /\ news \subseteq Conns
  BY Fields DEF PoolInv, TypeOK
<1>2. /\ \A d \in news : conn[d].sock \notin {"none", "connecting"}
      /\ \A e \in batch : e.own => /\ conn[e.c].sock \notin {"none", "connecting"}
                                   /\ e.kind = "out" => ~conn[e.c].read
      /\ Socket(c) /\ NoTimer(c)
  BY DEF LoopInv, EventsOK
<1>3. /\ \E k \in ConnStates : conn' = [conn EXCEPT ![c] = k] /\ k.inst = conn[c].inst
      /\ conn[c].sock # "none"
      /\ news \subseteq news' /\ news' \subseteq news \cup {c}
      /\ EnvUnchanged
  BY <1>1, CameraSteps
<1>4. /\ sess' = sess /\ batch' = batch
      /\ Fetched(c)' <=> Fetched(c)
  BY <1>3 DEF EnvUnchanged, Fetched
<1>5. /\ \A d \in Conns \ {c} : conn'[d] = conn[d]
      /\ conn'[c].inst = conn[c].inst
  BY <1>1, <1>3
<1>6. SUFFICES /\ conn'[c].sock \notin {"none", "connecting"}
               /\ conn'[c].read = conn[c].read /\ conn'[c].write = conn[c].write
               /\ Socket(c)' /\ NoTimer(c)'
  BY <1>1, <1>2, <1>3, <1>4, <1>5, OneLoop
<1>7. CASE Accept(c)
  <2>1. /\ conn'[c].sock = "open" /\ conn'[c].inst = conn[c].inst
        /\ conn'[c].cam = conn[c].cam /\ conn'[c].read = conn[c].read
        /\ conn'[c].write = conn[c].write /\ conn'[c].rtimer = conn[c].rtimer
        /\ conn'[c].wtimer = conn[c].wtimer /\ conn'[c].asked = conn[c].asked
        /\ conn'[c].inbox = conn[c].inbox /\ conn'[c].plays = conn[c].plays
        /\ conn'[c].missed = conn[c].missed
    BY <1>1, <1>7 DEF Accept, ConnStates
  <2>2. conn[c].sock = "connecting"
    BY <1>7 DEF Accept
  <2>3. Socket(c)'
    BY <1>2, <2>1, <2>2, ReplyTypes DEF Socket
  <2>4. NoTimer(c)'
    BY <1>2, <1>3, <1>4, <2>1, <2>2, ReplyTypes DEF Socket, NoTimer
  <2> QED BY <2>1, <2>2, <2>3, <2>4
<1>8. CASE Refuse(c)
  <2>1. /\ conn'[c].sock = "failed" /\ conn'[c].inst = conn[c].inst
        /\ conn'[c].cam = conn[c].cam /\ conn'[c].read = conn[c].read
        /\ conn'[c].write = conn[c].write /\ conn'[c].rtimer = conn[c].rtimer
        /\ conn'[c].wtimer = conn[c].wtimer /\ conn'[c].asked = conn[c].asked
        /\ conn'[c].inbox = conn[c].inbox /\ conn'[c].plays = conn[c].plays
        /\ conn'[c].missed = conn[c].missed
    BY <1>1, <1>8 DEF Refuse, ConnStates
  <2>2. conn[c].sock = "connecting" /\ c \in news'
    BY <1>8 DEF Refuse
  <2>3. Socket(c)'
    BY <1>2, <2>1, <2>2, ReplyTypes DEF Socket
  <2>4. NoTimer(c)'
    BY <1>2, <1>3, <1>4, <2>1, <2>2, ReplyTypes DEF Socket, NoTimer
  <2> QED BY <2>1, <2>2, <2>3, <2>4
<1>9. CASE Answer(c)
  <2>0. PICK r \in Replies :
          conn' = [conn EXCEPT ![c].asked = FALSE, ![c].inbox = r,
                               ![c].plays = (r = "200" /\ sess[c].next = "none")]
    BY <1>9 DEF Answer
  <2>1. /\ conn'[c].sock = conn[c].sock /\ conn'[c].inst = conn[c].inst
        /\ conn'[c].cam = conn[c].cam /\ conn'[c].read = conn[c].read
        /\ conn'[c].write = conn[c].write /\ conn'[c].rtimer = conn[c].rtimer
        /\ conn'[c].wtimer = conn[c].wtimer /\ conn'[c].asked = FALSE
        /\ conn'[c].inbox = r
        /\ conn'[c].plays = (r = "200" /\ sess[c].next = "none")
        /\ conn'[c].missed = conn[c].missed
    BY <1>1, <2>0 DEF Answer, ConnStates
  <2>2. conn[c].sock = "open" /\ conn[c].asked /\ c \in news'
    BY <1>9 DEF Answer
  <2>3. Socket(c)'
    BY <1>2, <2>1, <2>2, ReplyTypes DEF Socket
  <2>4. NoTimer(c)'
    BY <1>2, <1>3, <1>4, <2>1, <2>2, ReplyTypes DEF Socket, NoTimer
  <2> QED BY <2>1, <2>2, <2>3, <2>4
<1>10. CASE Stream(c)
  <2>1. /\ conn'[c].sock = conn[c].sock /\ conn'[c].inst = conn[c].inst
        /\ conn'[c].cam = conn[c].cam /\ conn'[c].read = conn[c].read
        /\ conn'[c].write = conn[c].write /\ conn'[c].rtimer = conn[c].rtimer
        /\ conn'[c].wtimer = conn[c].wtimer /\ conn'[c].asked = conn[c].asked
        /\ conn'[c].inbox = "rtp" /\ conn'[c].plays = conn[c].plays
        /\ conn'[c].missed = conn[c].missed
    BY <1>1, <1>10 DEF Stream, ConnStates
  <2>2. conn[c].sock = "open" /\ conn[c].plays /\ c \in news'
    BY <1>10 DEF Stream
  <2>3. Socket(c)'
    BY <1>2, <2>1, <2>2, ReplyTypes DEF Socket
  <2>4. NoTimer(c)'
    BY <1>2, <1>3, <1>4, <2>1, <2>2, ReplyTypes DEF Socket, NoTimer
  <2> QED BY <2>1, <2>2, <2>3, <2>4
<1>11. CASE HangUp(c)
  <2>1. /\ conn'[c].sock = "eof" /\ conn'[c].inst = conn[c].inst
        /\ conn'[c].cam = conn[c].cam /\ conn'[c].read = conn[c].read
        /\ conn'[c].write = conn[c].write /\ conn'[c].rtimer = conn[c].rtimer
        /\ conn'[c].wtimer = conn[c].wtimer /\ conn'[c].asked = FALSE
        /\ conn'[c].inbox = conn[c].inbox /\ conn'[c].plays = FALSE
        /\ conn'[c].missed = conn[c].missed
    BY <1>1, <1>11 DEF HangUp, ConnStates
  <2>2. conn[c].sock = "open" /\ (conn[c].read => c \in news')
    BY <1>11 DEF HangUp
  <2>3. Socket(c)'
    BY <1>2, <2>1, <2>2, ReplyTypes DEF Socket
  <2>4. NoTimer(c)'
    BY <1>2, <1>3, <1>4, <2>1, <2>2, ReplyTypes DEF Socket, NoTimer
  <2> QED BY <2>1, <2>2, <2>3, <2>4
<1>12. CASE Reset(c)
  <2>1. /\ conn'[c].sock = "failed" /\ conn'[c].inst = conn[c].inst
        /\ conn'[c].cam = conn[c].cam /\ conn'[c].read = conn[c].read
        /\ conn'[c].write = conn[c].write /\ conn'[c].rtimer = conn[c].rtimer
        /\ conn'[c].wtimer = conn[c].wtimer /\ conn'[c].asked = FALSE
        /\ conn'[c].inbox = conn[c].inbox /\ conn'[c].plays = FALSE
        /\ conn'[c].missed = (c \in news /\ conn[c].inbox \in Replies)
    BY <1>1, <1>12 DEF Reset, ConnStates
  <2>2. conn[c].sock = "open" /\ c \in news'
    BY <1>12 DEF Reset
  <2>3. Socket(c)'
    BY <1>2, <2>1, <2>2, ReplyTypes DEF Socket
  <2>4. NoTimer(c)'
    BY <1>2, <1>3, <1>4, <2>1, <2>2, ReplyTypes DEF Socket, NoTimer
  <2> QED BY <2>1, <2>2, <2>3, <2>4
<1>13. CASE Gone(c)
  <2>1. /\ conn'[c].sock = "dead" /\ conn'[c].inst = conn[c].inst
        /\ conn'[c].cam = conn[c].cam /\ conn'[c].read = conn[c].read
        /\ conn'[c].write = conn[c].write /\ conn'[c].rtimer = conn[c].rtimer
        /\ conn'[c].wtimer = conn[c].wtimer /\ conn'[c].asked = conn[c].asked
        /\ conn'[c].inbox = conn[c].inbox /\ conn'[c].plays = conn[c].plays
        /\ conn'[c].missed = conn[c].missed
    BY <1>1, <1>13 DEF Gone, ConnStates
  <2>2. conn[c].sock = "eof" /\ conn[c].read /\ conn[c].inbox = "none" /\ c \in news'
    BY <1>13 DEF Gone
  <2>3. Socket(c)'
    BY <1>2, <2>1, <2>2, ReplyTypes DEF Socket
  <2>4. NoTimer(c)'
    BY <1>2, <1>3, <1>4, <2>1, <2>2, ReplyTypes DEF Socket, NoTimer
  <2> QED BY <2>1, <2>2, <2>3, <2>4
<1> QED BY <1>7, <1>8, <1>9, <1>10, <1>11, <1>12, <1>13

\* epoll_wait begins a round: every event belongs to its socket.
LEMMA WaitLoop ==
  ASSUME PoolInv, LoopInv, Wait
  PROVE  LoopInv'
<1>1. /\ batch = {} /\ news' = {} /\ UNCHANGED <<conn, sess>>
  BY DEF Wait, RoundOver
<1>2. batch' = {[c |-> d, inst |-> conn[d].inst, kind |-> Kind(d), own |-> TRUE,
               twice |-> FALSE] : d \in news}
  BY DEF Wait
<1>3. /\ news \subseteq Conns
      /\ \A d \in news : conn[d].sock \notin {"none", "connecting"}
      /\ \A d \in Conns : Socket(d) /\ NoTimer(d)
  BY DEF PoolInv, TypeOK, LoopInv, EventsOK
<1>4. ASSUME NEW e \in batch'
      PROVE  /\ e.own /\ e.c \in news /\ e.inst = conn[e.c].inst
             /\ e.kind = "out" => ~conn[e.c].read
             /\ e = [c |-> e.c, inst |-> conn[e.c].inst, kind |-> Kind(e.c), own |-> TRUE,
                     twice |-> FALSE]
  <2>1. PICK d \in news :
          e = [c |-> d, inst |-> conn[d].inst, kind |-> Kind(d), own |-> TRUE,
               twice |-> FALSE]
    BY <1>2
  <2>2. e.c = d /\ e.inst = conn[d].inst /\ e.kind = Kind(d) /\ e.own
    BY <2>1
  <2>3. Kind(d) = "out" => ~conn[d].read
    BY DEF Kind
  <2> QED BY <2>1, <2>2, <2>3
<1>5. EventsOK'
  <2>1. \A e \in batch' : /\ e.own /\ e.inst = conn'[e.c].inst
                          /\ conn'[e.c].sock \notin {"none", "connecting"}
                          /\ e.kind = "out" => ~conn'[e.c].read
    BY <1>1, <1>3, <1>4
  <2>2. \A e, f \in batch' : e.c = f.c => e = f
    BY <1>4
  <2> QED BY <1>1, <2>1, <2>2 DEF EventsOK
<1>6. ASSUME NEW d \in Conns
      PROVE  Socket(d)' /\ NoTimer(d)'
  <2>1. d \in news => Fetched(d)'
    <3> SUFFICES ASSUME d \in news
                 PROVE  Fetched(d)'
      OBVIOUS
    <3> DEFINE e == [c |-> d, inst |-> conn[d].inst, kind |-> Kind(d), own |-> TRUE,
               twice |-> FALSE]
    <3>1. e \in batch' /\ e.c = d /\ e.own
      BY <1>2
    <3> QED BY <3>1 DEF Fetched
  <2>2. ~Fetched(d)
    BY <1>1 DEF Fetched
  <2>3. Socket(d) /\ NoTimer(d)
    BY <1>3
  <2>4. Socket(d)'
    BY <1>1, <2>3 DEF Socket
  <2>5. NoTimer(d)'
    BY <1>1, <2>1, <2>2, <2>3 DEF NoTimer
  <2> QED BY <2>4, <2>5
<1> QED BY <1>5, <1>6 DEF LoopInv

\* rtsp_read_handle for an event of the socket: what the event reported is
\* read, or is still reported, or the write or the read timer runs.
LEMMA ReadLoop ==
  ASSUME PoolInv, LoopInv, NEW e \in batch, e.own, batch' = batch \ {e},
         e.kind # "out", conn[e.c].read, ReadHandler(e.c)
  PROVE  LoopInv'
<1> DEFINE c == e.c
<1>1. /\ TypeOK /\ c \in Conns /\ news \subseteq Conns
  BY DEF PoolInv, TypeOK
<1>2. /\ conn \in [Conns -> ConnStates] /\ conn[c] \in ConnStates
      /\ sess \in [Conns -> SessStates] /\ sess[c] \in SessStates
  BY <1>1, Fields
<1>3. /\ \A d \in news : conn[d].sock \notin {"none", "connecting"}
      /\ conn[c].sock \notin {"none", "connecting"}
      /\ \A f \in batch : e.c = f.c => e = f
      /\ Socket(c) /\ NoTimer(c)
  BY <1>1 DEF LoopInv, EventsOK
<1>4. /\ \E k \in ConnStates : conn' = [conn EXCEPT ![c] = k] /\ k.inst = conn[c].inst
      /\ \E s \in SessStates : sess' = [sess EXCEPT ![c] = s]
      /\ news \subseteq news' /\ news' \subseteq news \cup {c}
  BY <1>1, HandlerSteps
<1>5. /\ \A d \in Conns \ {c} : conn'[d] = conn[d] /\ sess'[d] = sess[d]
      /\ conn'[c].inst = conn[c].inst
  BY <1>1, <1>2, <1>4
<1>6. \A f \in batch' : f.c # c
  BY <1>3
<1>7. SUFFICES /\ conn'[c].sock \notin {"none", "connecting"}
               /\ Socket(c)' /\ NoTimer(c)'
  <2> HIDE DEF c
  <2>1. \A f \in batch : f \notin batch' /\ f.own => f.c = c
    BY DEF c
  <2> QED BY <1>1, <1>3, <1>4, <1>5, <1>6, <1>7, <2>1, OneLoop
<1> HIDE DEF c
<1>8. conn[c].write = FALSE
  BY <1>2, <1>3 DEF Socket, ConnStates, c
<1>9. CASE ReadError(c)
  <2>1. /\ conn'[c].sock = "dead" /\ conn'[c].inst = conn[c].inst
        /\ conn'[c].cam = conn[c].cam /\ conn'[c].read = conn[c].read
        /\ conn'[c].write = conn[c].write
        /\ conn'[c].rtimer = (conn[c].rtimer \/ sess[c].success)
        /\ conn'[c].wtimer = conn[c].wtimer /\ conn'[c].asked = conn[c].asked
        /\ conn'[c].inbox = conn[c].inbox /\ conn'[c].plays = conn[c].plays
        /\ conn'[c].missed = conn[c].missed
    BY <1>1, <1>2, <1>9 DEF ReadError, Timed, ConnStates
  <2>2. c \in news' /\ conn[c].inbox = "none" /\ sess' = sess
    BY <1>9 DEF ReadError
  <2>3. Socket(c)'
    BY <1>3, <1>8, <2>1, <2>2 DEF Socket
  <2>4. NoTimer(c)'
    BY <1>3, <2>1, <2>2 DEF NoTimer
  <2> QED BY <2>1, <2>3, <2>4
<1>10. CASE ReadClosed(c)
  <2>1. /\ conn'[c].sock = conn[c].sock /\ conn'[c].inst = conn[c].inst
        /\ conn'[c].cam = conn[c].cam /\ conn'[c].read = conn[c].read
        /\ conn'[c].write = conn[c].write
        /\ conn'[c].rtimer = (conn[c].rtimer \/ sess[c].success)
        /\ conn'[c].wtimer = "later" /\ conn'[c].asked = conn[c].asked
        /\ conn'[c].inbox = conn[c].inbox /\ conn'[c].plays = conn[c].plays
        /\ conn'[c].missed = conn[c].missed
    BY <1>1, <1>2, <1>10 DEF ReadClosed, Timed, ConnStates
  <2>2. Socket(c)'
    BY <1>3, <1>8, <2>1 DEF Socket
  <2>3. NoTimer(c)'
    BY <2>1 DEF NoTimer
  <2> QED BY <1>3, <2>1, <2>2, <2>3
<1>11. CASE ReadNothing(c)
  <2>1. /\ conn'[c].sock = conn[c].sock /\ conn'[c].inst = conn[c].inst
        /\ conn'[c].cam = conn[c].cam /\ conn'[c].read = conn[c].read
        /\ conn'[c].write = conn[c].write
        /\ conn'[c].rtimer = (conn[c].rtimer \/ sess[c].success)
        /\ conn'[c].wtimer = conn[c].wtimer /\ conn'[c].asked = conn[c].asked
        /\ conn'[c].inbox = conn[c].inbox /\ conn'[c].plays = conn[c].plays
        /\ conn'[c].missed = conn[c].missed
    BY <1>1, <1>2, <1>11 DEF ReadNothing, Timed, ConnStates
  <2>2. /\ conn[c].inbox = "none" /\ conn[c].sock \notin {"failed", "eof", "dead"}
        /\ sess' = sess
    BY <1>11 DEF ReadNothing
  <2>3. Socket(c)'
    BY <1>3, <1>8, <2>1 DEF Socket
  <2>4. NoTimer(c)'
    BY <1>3, <2>1, <2>2 DEF NoTimer
  <2> QED BY <1>3, <2>1, <2>3, <2>4
<1>12. CASE ReadMessage(c)
  <2> DEFINE k == [Timed(c) EXCEPT !.inbox = "none"]
             next == Request(c)
  <2>1. /\ conn[c].inbox # "none" /\ news' = news
        /\ \/ next = "none" /\ conn' = [conn EXCEPT ![c] = k] /\ sess' = sess
           \/ /\ next # "none"
              /\ conn' = [conn EXCEPT ![c] = Sent(k)]
              /\ sess' = [sess EXCEPT ![c] =
                   [next |-> After[next], success |-> sess[c].success \/ next = "play",
                    auth |-> sess[c].auth \/ conn[c].inbox = "401" \/ next # "describe"]]
    BY <1>12 DEF ReadMessage
  <2>2. /\ k.sock = conn[c].sock /\ k.inst = conn[c].inst
        /\ k.cam = conn[c].cam /\ k.read = conn[c].read
        /\ k.write = conn[c].write
        /\ k.rtimer = (conn[c].rtimer \/ sess[c].success)
        /\ k.wtimer = conn[c].wtimer /\ k.asked = conn[c].asked
        /\ k.inbox = "none" /\ k.plays = conn[c].plays
        /\ k.missed = conn[c].missed
    BY <1>2 DEF Timed, ConnStates
  <2>3. next \in {"describe", "setup", "play", "none"}
    BY <1>2 DEF Request, SessStates
  <2>4. /\ conn'[c].read = conn[c].read /\ conn'[c].write = conn[c].write
        /\ conn'[c].wtimer = conn[c].wtimer /\ conn'[c].inbox = "none"
        /\ conn'[c].rtimer = (conn[c].rtimer \/ sess[c].success)
        /\ conn'[c].plays = conn[c].plays /\ conn'[c].missed = conn[c].missed
        /\ conn'[c].sock = conn[c].sock \/ (conn[c].sock = "failed" /\ conn'[c].sock = "dead")
    <3>1. k \in ConnStates
      BY <1>2 DEF Timed, ConnStates
    <3>2. CASE conn' = [conn EXCEPT ![c] = k]
      <4> HIDE DEF k
      <4>1. conn'[c] = k
        BY <1>1, <1>2, <3>2 DEF c
      <4> QED BY <2>2, <4>1
    <3>3. CASE conn' = [conn EXCEPT ![c] = Sent(k)]
      <4> HIDE DEF k
      <4>1. conn'[c] = Sent(k)
        BY <1>1, <1>2, <3>3 DEF c
      <4>2. /\ Sent(k).read = k.read /\ Sent(k).write = k.write
            /\ Sent(k).wtimer = k.wtimer /\ Sent(k).inbox = k.inbox
            /\ Sent(k).rtimer = k.rtimer /\ Sent(k).plays = k.plays
            /\ Sent(k).missed = k.missed
            /\ Sent(k).sock = k.sock \/ (k.sock = "failed" /\ Sent(k).sock = "dead")
        BY <3>1 DEF Sent, ConnStates
      <4> QED BY <2>2, <4>1, <4>2
    <3> QED BY <2>1, <3>2, <3>3
  <2>5. conn[c].wtimer = "off" =>
          sess'[c].success \/ (sess'[c].next # "none" /\ ~conn[c].plays)
    <3> SUFFICES ASSUME conn[c].wtimer = "off"
                 PROVE  sess'[c].success \/ (sess'[c].next # "none" /\ ~conn[c].plays)
      OBVIOUS
    <3>1. sess[c].success \/ (sess[c].next # "none" /\ ~conn[c].plays)
      BY <1>3 DEF NoTimer
    <3>2. CASE next = "none"
      BY <2>1, <3>1, <3>2
    <3>3. CASE next # "none"
      <4>1. /\ sess'[c].next = After[next]
            /\ sess'[c].success = (sess[c].success \/ next = "play")
        BY <1>1, <1>2, <2>1, <3>3 DEF c
      <4>2. next # "play" => After[next] # "none"
        <5> HIDE DEF next
        <5> QED BY <2>3, <3>3 DEF After
      <4> QED BY <3>1, <4>1, <4>2
    <3> QED BY <3>2, <3>3
  <2> HIDE DEF k, next
  <2>6. Socket(c)'
    BY <1>3, <1>8, <2>4 DEF Socket
  <2>7. NoTimer(c)'
    <3> SUFFICES ASSUME conn[c].wtimer = "off", conn'[c].sock \in {"failed", "dead"}
                 PROVE  c \in news' \/ Fetched(c)' \/ conn'[c].rtimer \/ conn'[c].missed
      BY <1>3, <2>4, <2>5, ReplyTypes DEF NoTimer
    <3>1. conn[c].sock = "failed"
      BY <1>3, <2>1, <2>4 DEF NoTimer
    <3>2. CASE conn[c].inbox \in Replies
      BY <1>3, <2>1, <2>4, <3>1, <3>2 DEF NoTimer
    <3>3. CASE conn[c].inbox = "rtp"
      BY <1>3, <2>4, <3>1, <3>3 DEF NoTimer
    <3> QED BY <1>3, <2>1, <3>2, <3>3 DEF Socket
  <2> QED BY <1>3, <2>4, <2>6, <2>7
<1> QED BY <1>9, <1>10, <1>11, <1>12 DEF ReadHandler, c

\* rtsp_connect_handler, also for the event of another socket, which may find
\* the connect open: either the error is there and the write timer goes on, or
\* EPOLLIN is asked for and reports what comes.
LEMMA ConnectLoop ==
  ASSUME PoolInv, LoopInv, NEW e \in batch, batch' = batch \ {e},
         conn[e.c].write, ConnectHandler(e.c)
  PROVE  LoopInv'
<1> DEFINE c == e.c
<1>1. /\ TypeOK /\ c \in Conns /\ news \subseteq Conns
  BY DEF PoolInv, TypeOK
<1>2. /\ conn \in [Conns -> ConnStates] /\ conn[c] \in ConnStates
      /\ sess \in [Conns -> SessStates] /\ sess[c] \in SessStates
  BY <1>1, Fields
<1>3. /\ \A d \in news : conn[d].sock \notin {"none", "connecting"}
      /\ \A f \in batch : e.c = f.c => e = f
      /\ Socket(c) /\ NoTimer(c)
  BY <1>1 DEF LoopInv, EventsOK
<1>4. /\ \E k \in ConnStates : conn' = [conn EXCEPT ![c] = k] /\ k.inst = conn[c].inst
      /\ \E s \in SessStates : sess' = [sess EXCEPT ![c] = s]
      /\ news \subseteq news' /\ news' \subseteq news \cup {c}
  BY <1>1, HandlerSteps
<1>5. /\ \A d \in Conns \ {c} : conn'[d] = conn[d] /\ sess'[d] = sess[d]
      /\ conn'[c].inst = conn[c].inst
  BY <1>1, <1>2, <1>4
<1>6. \A f \in batch' : f.c # c
  BY <1>3
<1>7. SUFFICES /\ c \in news' => conn'[c].sock \notin {"none", "connecting"}
               /\ Socket(c)' /\ NoTimer(c)'
  <2> HIDE DEF c
  <2>1. \A f \in batch : f \notin batch' /\ f.own => f.c = c
    BY DEF c
  <2> QED BY <1>1, <1>3, <1>4, <1>5, <1>6, <1>7, <2>1, OneLoop
<1> HIDE DEF c
<1>8. /\ conn[c].write /\ conn[c].wtimer # "off" /\ ~conn[c].read /\ ~conn[c].asked
      /\ ~conn[c].plays /\ conn[c].inbox = "none" /\ conn[c].sock \in {"connecting", "open", "eof", "failed"}
  BY <1>3 DEF Socket, c
<1>9. CASE conn[c].sock = "failed"
  <2>1. /\ conn'[c].sock = "dead" /\ conn'[c].read = conn[c].read
        /\ conn'[c].write = FALSE /\ conn'[c].wtimer = conn[c].wtimer
        /\ conn'[c].inbox = conn[c].inbox
    BY <1>1, <1>2, <1>9 DEF ConnectHandler, ConnStates, c
  <2>2. Socket(c)'
    BY <1>8, <2>1 DEF Socket
  <2>3. NoTimer(c)'
    BY <1>8, <2>1 DEF NoTimer
  <2> QED BY <2>1, <2>2, <2>3
<1>10. CASE conn[c].sock # "failed"
  <2> DEFINE k == [conn[c] EXCEPT !.write = FALSE, !.read = TRUE, !.wtimer = "off",
                     !.cam = IF conn[c].sock = "connecting" THEN Nowhere ELSE @]
  <2>1. /\ conn' = [conn EXCEPT ![c] = Sent(k)]
        /\ sess' = [sess EXCEPT ![c].next = "describe"]
    BY <1>10 DEF ConnectHandler, c
  <2>2. k \in ConnStates /\ k.sock = conn[c].sock /\ k.write = FALSE /\ k.read = TRUE
        /\ k.wtimer = "off" /\ k.inbox = conn[c].inbox /\ k.plays = conn[c].plays
    BY <1>2 DEF ConnStates
  <2> HIDE DEF k
  <2>3. /\ Sent(k).sock = conn[c].sock /\ Sent(k).write = FALSE /\ Sent(k).read = TRUE
        /\ Sent(k).wtimer = "off" /\ Sent(k).inbox = "none" /\ ~Sent(k).plays
        /\ conn[c].sock = "connecting" => Sent(k).asked = FALSE
    BY <1>8, <1>10, <2>2 DEF Sent, ConnStates
  <2>4. conn'[c] = Sent(k)
    BY <1>1, <1>2, <2>1
  <2>5. sess'[c].next = "describe"
    BY <1>1, <1>2, <2>1 DEF SessStates
  <2>6. /\ conn'[c].sock \in {"connecting", "open", "eof"}
        /\ c \in news' => conn'[c].sock # "connecting"
    <3>1. conn[c].sock = "connecting" => c \notin news /\ news' = news
      BY <1>3, <1>10 DEF ConnectHandler, c
    <3> QED BY <1>8, <1>10, <2>3, <2>4, <3>1
  <2>7. Socket(c)'
    BY <2>3, <2>4, <2>6 DEF Socket
  <2>8. NoTimer(c)'
    BY <2>3, <2>4, <2>5, <2>6 DEF NoTimer
  <2> QED BY <2>6, <2>7, <2>8
<1> QED BY <1>9, <1>10

\* The handling of an event keeps the invariant.
LEMMA HandleLoop ==
  ASSUME PoolInv, LoopInv, NEW e \in batch, Handle(e)
  PROVE  /\ LoopInv'
         /\ ~e.own /\ ~e.twice => UNCHANGED <<conn, sess>>
<1>1. /\ e.c \in Conns /\ batch' = batch \ {e} /\ UNCHANGED <<pool, todo, calm>>
      /\ \/ UNCHANGED <<conn, sess, news, crashed>>
         \/ ~Stale(e) /\ e.kind # "out" /\ conn[e.c].read /\ ReadHandler(e.c)
         \/ ~Stale(e) /\ e.kind # "in" /\ conn[e.c].write /\ ConnectHandler(e.c)
      /\ Stale(e) => UNCHANGED <<conn, sess, news, crashed>>
      /\ ~(e.kind # "out" /\ conn[e.c].read) /\ ~(e.kind # "in" /\ conn[e.c].write) =>
           UNCHANGED <<conn, sess, news, crashed>>
  BY HandleSteps
<1>2. EventsOK /\ Socket(e.c) /\ NoTimer(e.c) /\ \A d \in news : d \in Conns
  BY <1>1 DEF LoopInv, PoolInv, TypeOK
<1>3. ~e.own /\ ~e.twice => Stale(e)
  BY <1>2 DEF EventsOK, Stale
<1>4. /\ e.own => ~Stale(e)
      /\ ~Stale(e) /\ conn[e.c].read => e.own
  BY <1>2 DEF EventsOK, Stale, Socket
<1>5. CASE \/ Stale(e)
           \/ ~(e.kind # "out" /\ conn[e.c].read) /\ ~(e.kind # "in" /\ conn[e.c].write)
  <2>1. /\ conn' = conn /\ sess' = sess /\ news' = news
    BY <1>1, <1>5
  <2>2. /\ \A d \in news : conn[d].sock \notin {"none", "connecting"}
        /\ \A f \in batch : f.own => /\ conn[f.c].sock \notin {"none", "connecting"}
                                     /\ f.kind = "out" => ~conn[f.c].read
    BY <1>2 DEF EventsOK
  <2>3. Socket(e.c)'
    BY <1>2, <2>1 DEF Socket
  <2>4. NoTimer(e.c)'
    <3>1. CASE ~e.own
      <4>1. Fetched(e.c)' <=> Fetched(e.c)
        BY <1>1, <3>1 DEF Fetched
      <4> QED BY <1>2, <2>1, <4>1 DEF NoTimer
    <3>2. CASE e.own
      <4>1. /\ conn[e.c].write => conn[e.c].wtimer # "off" /\ ~conn[e.c].read
            /\ conn[e.c].sock # "none" /\ conn[e.c].wtimer = "off" => conn[e.c].read
        BY <1>2 DEF Socket, NoTimer
      <4>2. e.kind = "out" => ~conn[e.c].read
        BY <2>2, <3>2
      <4>3. conn[e.c].sock # "none" /\ conn[e.c].wtimer = "off" => FALSE
        BY <1>4, <1>5, <3>2, <4>1, <4>2
      <4> QED BY <2>1, <4>3 DEF NoTimer
    <3> QED BY <3>1, <3>2
  <2>5. LoopInv'
    <3>1. /\ \A d \in Conns \ {e.c} : conn'[d] = conn[d] /\ sess'[d] = sess[d]
          /\ conn'[e.c].inst = conn[e.c].inst
          /\ \A d \in Conns \ {e.c} : d \in news' <=> d \in news
          /\ news' \subseteq Conns /\ batch' \subseteq batch
          /\ e.c \in news' => conn'[e.c].sock \notin {"none", "connecting"}
      BY <1>1, <1>2, <2>1, <2>2
    <3>2. /\ \A f \in batch : f \notin batch' /\ f.own => f.c = e.c
          /\ \A f \in batch' : f.own /\ f.c = e.c =>
                /\ conn'[e.c].sock \notin {"none", "connecting"}
                /\ f.kind = "out" => ~conn'[e.c].read
          /\ \A f \in batch' : ~f.own /\ f.c = e.c =>
                /\ conn'[e.c].sock = "none" <=> conn[e.c].sock = "none"
                /\ conn[e.c].write => conn'[e.c].write
      BY <1>1, <2>1, <2>2
    <3> QED BY <1>1, <2>3, <2>4, <3>1, <3>2, OneLoop
  <2> QED BY <2>1, <2>5
<1>6. CASE /\ ~Stale(e)
           /\ ~(~(e.kind # "out" /\ conn[e.c].read) /\ ~(e.kind # "in" /\ conn[e.c].write))
  <2> SUFFICES LoopInv'
    BY <1>3, <1>6
  <2>1. CASE e.kind # "out" /\ conn[e.c].read
    <3>1. ReadHandler(e.c)
      BY <1>6, <2>1 DEF Handle
    <3> QED BY <1>1, <1>4, <1>6, <2>1, <3>1, ReadLoop
  <2>2. CASE ~(e.kind # "out" /\ conn[e.c].read)
    <3>1. ConnectHandler(e.c) /\ conn[e.c].write
      BY <1>6, <2>2 DEF Handle
    <3> QED BY <1>1, <3>1, ConnectLoop
  <2> QED BY <2>1, <2>2
<1> QED BY <1>3, <1>5, <1>6

\* A timer that expires starts the connection over, or leaves it closed, or is
\* followed by another one; no event is pending then.
LEMMA TimerLoop ==
  ASSUME PoolInv, LoopInv, NEW c \in Conns, ReadTimeout(c) \/ Reconnect(c)
  PROVE  LoopInv'
<1>1. /\ TypeOK /\ news \subseteq Conns
      /\ conn \in [Conns -> ConnStates] /\ conn[c] \in ConnStates
      /\ sess \in [Conns -> SessStates] /\ sess[c] \in SessStates
      /\ conn[c].inst \in {0, 1} /\ conn[c].cam \in Cams \cup {NoCam, Nowhere}
  BY Fields DEF PoolInv, TypeOK
<1>2. /\ \A d \in news : conn[d].sock \notin {"none", "connecting"}
      /\ Socket(c) /\ NoTimer(c)
  BY DEF LoopInv, EventsOK
<1>3. conn[c].sock # "none"
  <2> SUFFICES ASSUME conn[c].sock = "none"
               PROVE  FALSE
    OBVIOUS
  <2>1. conn[c] = Closed(conn[c].inst, conn[c].cam)
    BY <1>2 DEF Socket
  <2>2. conn[c].rtimer = FALSE /\ conn[c].wtimer = "off"
    BY <2>1 DEF Closed
  <2> QED BY <2>2 DEF ReadTimeout, Reconnect
<1>4. batch = {} /\ batch' = batch
  BY DEF ReadTimeout, Reconnect, RoundOver
<1>5. CASE ReadTimeout(c)
  <2>1. /\ conn'[c].sock = conn[c].sock /\ conn'[c].inst = conn[c].inst
        /\ conn'[c].cam = conn[c].cam /\ conn'[c].read = conn[c].read
        /\ conn'[c].write = conn[c].write /\ conn'[c].wtimer = "now"
        /\ conn'[c].asked = conn[c].asked /\ conn'[c].inbox = conn[c].inbox
        /\ conn'[c].plays = conn[c].plays
    BY <1>1, <1>5 DEF ReadTimeout, ConnStates
  <2>2. /\ \A d \in Conns \ {c} : conn'[d] = conn[d] /\ sess'[d] = sess[d]
        /\ news' = news
    BY <1>1, <1>5 DEF ReadTimeout
  <2>3. Socket(c)'
    BY <1>2, <1>3, <2>1 DEF Socket
  <2>4. NoTimer(c)'
    BY <2>1 DEF NoTimer
  <2> QED BY <1>1, <1>2, <1>3, <1>4, <2>1, <2>2, <2>3, <2>4, OneLoop
<1>6. CASE Reconnect(c)
  <2>1. /\ news' = news \ {c} /\ sess' = sess /\ conn[c].wtimer # "off"
        /\ \/ conn' = [conn EXCEPT ![c] = Connecting(conn[c].inst, conn[c].cam)]
           \/ conn' = [conn EXCEPT ![c] = Closed(conn[c].inst, conn[c].cam)]
           \/ conn' = conn
    BY <1>1, <1>6 DEF Reconnect
  <2>2. Socket(c)' /\ NoTimer(c)' /\ conn'[c].inst = conn[c].inst
    <3>1. CASE conn' = [conn EXCEPT ![c] = Connecting(conn[c].inst, conn[c].cam)]
      <4>1. conn'[c] = Connecting(conn[c].inst, conn[c].cam)
        BY <1>1, <3>1
      <4>2. /\ conn'[c].sock = "connecting" /\ conn'[c].write = TRUE
            /\ conn'[c].read = FALSE /\ conn'[c].asked = FALSE /\ conn'[c].plays = FALSE
            /\ conn'[c].inbox = "none" /\ conn'[c].wtimer = "later"
            /\ conn'[c].inst = conn[c].inst
        BY <4>1 DEF Connecting, Closed
      <4>3. Socket(c)'
        BY <4>2 DEF Socket
      <4>4. NoTimer(c)'
        BY <4>2 DEF NoTimer
      <4> QED BY <4>2, <4>3, <4>4
    <3>2. CASE conn' = [conn EXCEPT ![c] = Closed(conn[c].inst, conn[c].cam)]
      <4>1. conn'[c] = Closed(conn[c].inst, conn[c].cam)
        BY <1>1, <3>2
      <4>2. /\ conn'[c].sock = "none" /\ conn'[c].write = FALSE
            /\ conn'[c].inbox = "none" /\ conn'[c].inst = conn[c].inst
            /\ conn'[c].cam = conn[c].cam
        BY <4>1 DEF Closed
      <4>3. Socket(c)'
        BY <4>1, <4>2 DEF Socket
      <4>4. NoTimer(c)'
        BY <4>2 DEF NoTimer
      <4> QED BY <4>2, <4>3, <4>4
    <3>3. CASE conn' = conn
      <4>1. Socket(c)'
        BY <1>2, <3>3 DEF Socket
      <4>2. NoTimer(c)'
        BY <2>1, <3>3 DEF NoTimer
      <4> QED BY <3>3, <4>1, <4>2
    <3> QED BY <2>1, <3>1, <3>2, <3>3
  <2>3. \A d \in Conns \ {c} : conn'[d] = conn[d] /\ sess'[d] = sess[d]
    BY <1>1, <2>1
  <2> QED BY <1>1, <1>2, <1>3, <1>4, <2>1, <2>2, <2>3, OneLoop
<1> QED BY <1>5, <1>6

\* A configuration marks the events of what it closes.  The first close leaves
\* the instance bit of the event or, with the next use, the other one.
LEMMA ConfigLoop ==
  ASSUME PoolInv, LoopInv, Config
  PROVE  /\ LoopInv'
         /\ \A e \in batch : \E f \in batch' : f.c = e.c
<1>1. /\ TypeOK /\ Pool /\ conn \in [Conns -> ConnStates] /\ news \subseteq Conns
      /\ batch \subseteq EventStates
  BY Fields DEF PoolInv, TypeOK, EventStates
<1>2. todo > 0
  BY DEF Config
<1>3. PICK w \in Layouts : \E chn \in 0 .. w - 1, cam \in Cams \cup {NoCam} :
        Configure(chn, cam, w)
  BY DEF Config
<1>4. PICK chn \in 0 .. w - 1, cam \in Cams \cup {NoCam} : Configure(chn, cam, w)
  BY <1>3
<1> DEFINE gone == Freeing(chn, cam, w)
<1>5. /\ gone \in SUBSET Conns
      /\ \A k \in gone : ~Unused(k)
      /\ news' = news \ gone
      /\ batch' = {Severed(e, gone) : e \in batch}
      /\ \A k \in Conns \ gone :
           ~Unused(k) => conn'[k] = conn[k] /\ sess'[k] = sess[k]
      /\ \A k \in Conns : k \in gone \/ Unused(k) =>
           \/ conn'[k] = Closed(conn[k].inst, NoCam)
           \/ conn'[k] = Connecting(1 - conn[k].inst, cam)
  BY <1>2, <1>4, ConfigureFacts
<1> HIDE DEF gone
<1>6. /\ \A d \in news : conn[d].sock \notin {"none", "connecting"}
      /\ \A e \in batch : e \in EventStates /\ e.c \in Conns
      /\ \A e \in batch : e.own => /\ e.inst = conn[e.c].inst
                                   /\ conn[e.c].sock \notin {"none", "connecting"}
                                   /\ e.kind = "out" => ~conn[e.c].read
      /\ \A e \in batch : ~e.own =>
           /\ conn[e.c].sock = "none" \/ conn[e.c].write
           /\ ~e.twice => IF conn[e.c].sock = "none" THEN conn[e.c].inst = e.inst
                          ELSE conn[e.c].inst # e.inst
      /\ \A e, f \in batch : e.c = f.c => e = f
      /\ \A d \in Conns : Socket(d) /\ NoTimer(d)
  BY <1>1 DEF LoopInv, EventsOK, EventStates
<1>7. \A k \in Conns : Unused(k) => conn[k].sock = "none"
  <2>1. \A k \in Conns : Unused(k) => conn[k] = Closed(conn[k].inst, NoCam)
    BY <1>1 DEF Pool
  <2>2. \A i, cm : Closed(i, cm).sock = "none"
    BY DEF Closed
  <2> QED BY <2>1, <2>2
<1>8. \A e \in batch : e.own => ~Unused(e.c)
  BY <1>1, <1>6 DEF Pool
<1>9. \A d \in news : ~Unused(d)
  BY <1>1 DEF Pool
<1>10. \A k \in Conns : k \in gone \/ Unused(k) =>
         /\ IF conn'[k].sock = "none" THEN conn'[k].inst = conn[k].inst
            ELSE conn'[k].write /\ conn'[k].inst # conn[k].inst
         /\ Socket(k)' /\ NoTimer(k)'
  <2> SUFFICES ASSUME NEW k \in Conns, k \in gone \/ Unused(k)
               PROVE  /\ IF conn'[k].sock = "none" THEN conn'[k].inst = conn[k].inst
                         ELSE conn'[k].write /\ conn'[k].inst # conn[k].inst
                      /\ Socket(k)' /\ NoTimer(k)'
    OBVIOUS
  <2>1. conn[k].inst \in {0, 1}
    BY <1>1, Fields
  <2>2. CASE conn'[k] = Closed(conn[k].inst, NoCam)
    <3>1. /\ conn'[k].sock = "none" /\ conn'[k].write = FALSE
          /\ conn'[k].inbox = "none" /\ conn'[k].inst = conn[k].inst
          /\ conn'[k].cam = NoCam
      BY <2>2 DEF Closed
    <3>2. Socket(k)'
      BY <2>2, <3>1 DEF Socket
    <3>3. NoTimer(k)'
      BY <3>1 DEF NoTimer
    <3> QED BY <3>1, <3>2, <3>3
  <2>3. CASE conn'[k] = Connecting(1 - conn[k].inst, cam)
    <3>1. /\ conn'[k].sock = "connecting" /\ conn'[k].write = TRUE
          /\ conn'[k].read = FALSE /\ conn'[k].asked = FALSE /\ conn'[k].plays = FALSE
          /\ conn'[k].inbox = "none" /\ conn'[k].wtimer = "later"
          /\ conn'[k].inst = 1 - conn[k].inst
      BY <2>3 DEF Connecting, Closed
    <3>2. Socket(k)'
      BY <3>1 DEF Socket
    <3>3. NoTimer(k)'
      BY <3>1 DEF NoTimer
    <3> QED BY <2>1, <3>1, <3>2, <3>3
  <2> QED BY <1>5, <2>2, <2>3
<1>11. ASSUME NEW f \in batch'
       PROVE  \E e \in batch : /\ f.c = e.c /\ f.inst = e.inst /\ f.kind = e.kind
                               /\ f.own <=> e.own /\ e.c \notin gone
                               /\ f.twice <=> e.twice \/ (~e.own /\ e.c \in gone)
                               /\ f = Severed(e, gone)
  <2>1. PICK e \in batch : f = Severed(e, gone)
    BY <1>5
  <2> QED BY <1>6, <2>1, SeveredLemma
<1>12. EventsOK'
  <2>1. \A d \in news' : conn'[d].sock \notin {"none", "connecting"}
    BY <1>1, <1>5, <1>6, <1>9
  <2>2. ASSUME NEW f \in batch'
        PROVE  IF f.own THEN /\ f.inst = conn'[f.c].inst
                             /\ conn'[f.c].sock \notin {"none", "connecting"}
                             /\ f.kind = "out" => ~conn'[f.c].read
               ELSE /\ conn'[f.c].sock = "none" \/ conn'[f.c].write
                    /\ ~f.twice => IF conn'[f.c].sock = "none" THEN conn'[f.c].inst = f.inst
                                   ELSE conn'[f.c].inst # f.inst
    <3>1. PICK e \in batch : /\ f.c = e.c /\ f.inst = e.inst /\ f.kind = e.kind
                             /\ f.own <=> e.own /\ e.c \notin gone
                             /\ f.twice <=> e.twice \/ (~e.own /\ e.c \in gone)
      BY <1>11
    <3>2. CASE f.own
      <4>1. conn'[e.c] = conn[e.c]
        BY <1>5, <1>6, <1>8, <3>1, <3>2
      <4> QED BY <1>6, <3>1, <3>2, <4>1
    <3>3. CASE ~f.own /\ ~(e.c \in gone \/ Unused(e.c))
      <4>1. conn'[e.c] = conn[e.c] /\ ~e.own
        BY <1>5, <1>6, <3>1, <3>3
      <4> QED BY <1>6, <3>1, <3>3, <4>1
    <3>4. CASE ~f.own /\ (e.c \in gone \/ Unused(e.c))
      <4>1. IF conn'[e.c].sock = "none" THEN conn'[e.c].inst = conn[e.c].inst
            ELSE conn'[e.c].write /\ conn'[e.c].inst # conn[e.c].inst
        BY <1>6, <1>10, <3>4
      <4>2. ~f.twice => conn[e.c].inst = e.inst
        <5>1. CASE e.own
          BY <1>6, <5>1
        <5>2. CASE ~e.own
          BY <1>6, <1>7, <3>1, <3>4, <5>2
        <5> QED BY <5>1, <5>2
      <4> QED BY <3>1, <3>4, <4>1, <4>2
    <3> QED BY <3>2, <3>3, <3>4
  <2>3. ASSUME NEW f \in batch', NEW g \in batch', f.c = g.c
        PROVE  f = g
    <3>1. PICK e \in batch : f.c = e.c /\ f = Severed(e, gone)
      BY <1>11
    <3>2. PICK h \in batch : g.c = h.c /\ g = Severed(h, gone)
      BY <1>11
    <3>3. e = h
      BY <1>6, <2>3, <3>1, <3>2
    <3> QED BY <3>1, <3>2, <3>3
  <2> QED BY <2>1, <2>2, <2>3 DEF EventsOK
<1>13. ASSUME NEW k \in Conns
       PROVE  Socket(k)' /\ NoTimer(k)'
  <2>1. CASE k \in gone \/ Unused(k)
    BY <1>10, <2>1
  <2>2. CASE ~(k \in gone \/ Unused(k))
    <3>1. conn'[k] = conn[k] /\ sess'[k] = sess[k] /\ (k \in news => k \in news')
      BY <1>5, <2>2
    <3>2. Fetched(k) => Fetched(k)'
      <4> SUFFICES ASSUME Fetched(k)
                   PROVE  Fetched(k)'
        OBVIOUS
      <4>1. PICK e \in batch : e.c = k /\ e.own
        BY DEF Fetched
      <4>2. Severed(e, gone) \in batch'
        BY <1>5
      <4>3. Severed(e, gone).c = k /\ Severed(e, gone).own
        BY <1>6, <2>2, <4>1, SeveredLemma
      <4> QED BY <4>2, <4>3 DEF Fetched
    <3>3. Socket(k) /\ NoTimer(k)
      BY <1>6
    <3>4. Socket(k)'
      BY <3>1, <3>3 DEF Socket
    <3>5. NoTimer(k)'
      <4>1. k \in news' <=> k \in news
        BY <1>5, <2>2
      <4>2. CASE Fetched(k)' <=> Fetched(k)
        BY <3>1, <3>3, <4>1, <4>2 DEF NoTimer
      <4>3. Fetched(k)' => Fetched(k)
        <5> SUFFICES ASSUME Fetched(k)'
                     PROVE  Fetched(k)
          OBVIOUS
        <5>1. PICK f \in batch' : f.c = k /\ f.own
          BY DEF Fetched
        <5>2. PICK e \in batch : f.c = e.c /\ e.own
          BY <1>11, <5>1
        <5> QED BY <5>1, <5>2 DEF Fetched
      <4> QED BY <3>2, <4>2, <4>3
    <3> QED BY <3>4, <3>5
  <2> QED BY <2>1, <2>2
<1>14. ASSUME NEW e \in batch
       PROVE  \E f \in batch' : f.c = e.c
  <2>1. Severed(e, gone) \in batch'
    BY <1>5
  <2> QED BY <1>6, <2>1, SeveredLemma
<1> QED BY <1>12, <1>13, <1>14 DEF LoopInv

\* Nothing is reported and no timer runs when rtsp starts.
LEMMA LoopInit == Init => LoopInv
<1> SUFFICES ASSUME Init
             PROVE  LoopInv
  OBVIOUS
<1>1. /\ news = {} /\ batch = {}
      /\ \A c \in Conns : conn[c] = Closed(0, NoCam)
  BY DEF Init
<1>2. EventsOK
  BY <1>1 DEF EventsOK
<1>3. ASSUME NEW c \in Conns
      PROVE  Socket(c) /\ NoTimer(c)
  <2>1. conn[c] = Closed(0, NoCam)
    BY <1>1
  <2>2. /\ conn[c].sock = "none" /\ conn[c].inst = 0 /\ conn[c].cam = NoCam
        /\ conn[c].write = FALSE /\ conn[c].inbox = "none"
    BY <2>1 DEF Closed
  <2>3. Socket(c)
    BY <2>1, <2>2 DEF Socket
  <2>4. NoTimer(c)
    BY <2>2 DEF NoTimer
  <2> QED BY <2>3, <2>4
<1> QED BY <1>2, <1>3 DEF LoopInv

\* Every step keeps events and timers right; the event of a socket that was
\* closed is handled without effect, unless its connection was closed twice.
LEMMA LoopNext ==
  ASSUME PoolInv, LoopInv, [Next]_vars
  PROVE  /\ LoopInv'
         /\ \A e \in batch : ~e.own /\ ~e.twice /\ (\A f \in batch' : f.c # e.c) =>
              UNCHANGED <<conn, sess>>
<1>1. CASE Cameras
  <2>1. PICK c \in Conns : Accept(c) \/ Refuse(c) \/ Answer(c) \/ Stream(c)
                           \/ HangUp(c) \/ Reset(c) \/ Gone(c)
    BY <1>1 DEF Cameras
  <2>2. EnvUnchanged
    BY <2>1, CameraSteps DEF PoolInv
  <2> QED BY <2>1, <2>2, CameraLoop DEF EnvUnchanged
<1>2. CASE Wait
  <2>1. batch = {}
    BY <1>2 DEF Wait, RoundOver
  <2> QED BY <1>2, <2>1, WaitLoop
<1>3. CASE Events
  <2>1. PICK e \in batch : Handle(e)
    BY <1>3 DEF Events
  <2>2. batch' = batch \ {e}
    BY <2>1 DEF Handle
  <2>3. LoopInv' /\ (~e.own /\ ~e.twice => UNCHANGED <<conn, sess>>)
    BY <2>1, HandleLoop
  <2> QED BY <2>2, <2>3
<1>4. CASE Config
  BY <1>4, ConfigLoop
<1>5. CASE Timers
  <2>1. PICK c \in Conns : ReadTimeout(c) \/ Reconnect(c)
    BY <1>5 DEF Timers
  <2>2. batch' = batch
    BY <2>1 DEF ReadTimeout, Reconnect
  <2> QED BY <2>1, <2>2, TimerLoop
<1>6. CASE UNCHANGED vars
  <2>1. UNCHANGED <<conn, sess, news, batch>>
    BY <1>6 DEF vars
  <2>2. EventsOK'
    BY <2>1 DEF LoopInv, EventsOK
  <2>3. ASSUME NEW c \in Conns
        PROVE  Socket(c)' /\ NoTimer(c)'
    <3>1. Socket(c) /\ NoTimer(c)
      BY DEF LoopInv
    <3> QED BY <2>1, <3>1 DEF Socket, NoTimer, Fetched
  <2> QED BY <2>1, <2>2, <2>3 DEF LoopInv
<1> QED BY <1>1, <1>2, <1>3, <1>4, <1>5, <1>6 DEF Next
-----------------------------------------------------------------------------
(* What every behaviour of rtsp keeps.                                      *)

\* Clients and pool are apart at all times.
THEOREM PoolInvariant == Spec => []PoolInv
<1>1. Init => PoolInv
  BY PoolInit
<1>2. PoolInv /\ [Next]_vars => PoolInv'
  BY PoolNext
<1> QED BY <1>1, <1>2, PTL DEF Spec

\* Connections, clients, pool, events and timers keep their types.
THEOREM SessionTypes == Spec => []TypeOK
<1>1. PoolInv => TypeOK
  BY DEF PoolInv
<1> QED BY <1>1, PoolInvariant, PTL

\* No configuration makes two clients, or a client and the pool, share a
\* connection, and what is in the pool has no socket, timer or event.
THEOREM PoolStaysApart == Spec => []PoolApart
<1>1. PoolInv => PoolApart
  <2> SUFFICES ASSUME PoolInv
               PROVE  PoolApart
    OBVIOUS
  <2>1. TypeOK /\ Pool /\ made \in Nat /\ made <= MaxConns
    BY SessionsAssumption DEF PoolInv, TypeOK
  <2>2. cache \in Seq(1 .. made) /\ DOMAIN cache = 1 .. Len(cache)
    BY <2>1, LenProperties DEF TypeOK
  <2>3. ASSUME NEW c \in ToSet(cache)
        PROVE  c \in Conns /\ Unused(c)
    <3>1. PICK i \in DOMAIN cache : c = cache[i]
      BY DEF ToSet
    <3>2. cache[i] \in 1 .. made
      BY <2>2, <3>1, ElementOfSeq
    <3>3. c \in Conns
      BY <2>1, <3>1, <3>2, SessionsAssumption DEF Conns
    <3> QED BY <3>3 DEF Unused
  <2> QED BY <2>1, <2>2, <2>3 DEF Pool, PoolApart
<1> QED BY <1>1, PoolInvariant, PTL

\* However many configurations a batch holds, every event of a round is the
\* event of the socket its connection has, or is known by the instance bit to be
\* stale, or belongs to a connection that was closed twice; and no socket is
\* without a timer and without a report to come.
THEOREM LoopInvariant == Spec => [](PoolInv /\ LoopInv)
<1>1. Init => PoolInv /\ LoopInv
  BY PoolInit, LoopInit
<1>2. PoolInv /\ LoopInv /\ [Next]_vars => PoolInv' /\ LoopInv'
  BY PoolNext, LoopNext
<1> QED BY <1>1, <1>2, PTL DEF Spec

\* A client with a socket never waits for nothing: its write timer runs, or it
\* reads a socket whose end is still to come, is reported, or is noticed by the
\* read timer; only a reset behind an unread answer is missed.
THEOREM ClientsWatched == Spec => []Watched
<1>1. PoolInv /\ LoopInv => Watched
  <2> SUFFICES ASSUME PoolInv, LoopInv, NEW i \in Chns, rc[i] # None,
                      conn[rc[i]].sock # "none"
               PROVE  LET k == conn[rc[i]]
                          reported == rc[i] \in news \/ \E e \in batch : e.c = rc[i] /\ e.own
                      IN  /\ \/ k.wtimer # "off"
                             \/ /\ k.read
                                /\ \/ k.sock \in {"connecting", "open", "eof"}
                                   \/ reported \/ k.rtimer \/ k.missed
                          /\ k.write => k.wtimer # "off" /\ ~k.read
    BY DEF Watched
  <2>1. rc[i] \in Conns
    BY DEF PoolInv, TypeOK
  <2> DEFINE c == rc[i]
  <2>2. conn[c] \in ConnStates
    BY <2>1, Fields DEF PoolInv
  <2>3. Socket(c) /\ NoTimer(c)
    BY <2>1 DEF LoopInv
  <2> HIDE DEF c
  <2>4. conn[c].sock \in {"none", "connecting", "open", "eof", "failed", "dead"}
    BY <2>2 DEF ConnStates
  <2>5. conn[c].write => conn[c].wtimer # "off" /\ ~conn[c].read
    BY <2>3 DEF Socket
  <2>7. conn[c].sock # "none" /\ conn[c].wtimer = "off" =>
          /\ conn[c].read
          /\ conn[c].sock \in {"failed", "dead"} =>
               c \in news \/ Fetched(c) \/ conn[c].rtimer \/ conn[c].missed
    BY <2>3 DEF NoTimer
  <2>8. Fetched(c) => \E e \in batch : e.c = c /\ e.own
    BY DEF Fetched
  <2> QED BY <2>4, <2>5, <2>7, <2>8 DEF c
<1> QED BY <1>1, LoopInvariant, PTL

\* An event that was fetched for an earlier use of its connection changes
\* nothing when its turn comes, however many configurations came between, but
\* for one whose connection was closed twice in the round.
THEOREM RightSockets == Spec => RightSocket
<1>1. PoolInv /\ LoopInv /\ [Next]_vars =>
        [\A e \in batch : ~e.own /\ ~e.twice /\ (\A f \in batch' : f.c # e.c) =>
           UNCHANGED <<conn, sess>>]_vars
  BY LoopNext
<1> QED BY <1>1, LoopInvariant, PTL DEF Spec, RightSocket
=============================================================================
