---------------------------- MODULE RtspSessions ----------------------------
(***************************************************************************)
(* The camera sessions of the rtsp process on the connection pool and the   *)
(* event loop of connet: media.c and the configuration handler start and    *)
(* free them, rtsp.c brings them from connect to play and tries again       *)
(* whatever fails.                                                          *)
(*                                                                          *)
(* One thread: epoll_wait returns a batch of events, which are handled one  *)
(* by one; then the timers that are due are handled.  A configuration that  *)
(* is handled in a batch closes connections for which the same batch holds  *)
(* events, and takes them from the pool again.                              *)
(*                                                                          *)
(* A client has one connection for life, so a session goes by the number    *)
(* of its connection.  The handlers of an event follow from its flags: an   *)
(* active read event has rtsp_read_handle, an active write event, and a     *)
(* write timer, have rtsp_connect_handler.  Requests are small and are      *)
(* taken by the socket whole.  Durations are left out: a timer may expire   *)
(* in every round.                                                          *)
(***************************************************************************)
EXTENDS Integers, Sequences, SequencesExt, FiniteSets

CONSTANTS NumChans,      \* channels, numbered from 0
          MaxConns,      \* bound: connections that are ever allocated
          Cams,          \* cameras: address and url
          Layouts,       \* numbers of windows
          FirstLayout,   \* currentSunwin at boot
          Replies,       \* what cameras answer: "200", "401", "other"
          MaxPkgs        \* bound: configurations handled in one batch

ASSUME SessionsAssumption ==
  /\ NumChans \in Nat \ {0} /\ MaxConns \in Nat /\ MaxPkgs \in Nat
  /\ Layouts \subseteq 1 .. NumChans /\ FirstLayout \in Layouts
  /\ Replies \subseteq {"200", "401", "other"}
  /\ {"none", "0.0.0.0"} \cap Cams = {}

Chns == 0 .. NumChans - 1
Conns == 1 .. MaxConns
None == 0
NoCam == "none"          \* a configuration without an address
Nowhere == "0.0.0.0"     \* what getpeername() leaves of an open connect()

VARIABLES
  rc,       \* rc[chn]: connection of the client of a channel, or None
  conn,     \* connections, with the state of their sockets
  sess,     \* do_next, success and auth of the clients
  made,     \* connections allocated so far
  cache,    \* connQueue->cache, the one to be taken next in front
  subwin,   \* currentSunwin
  news,     \* connections whose sockets have something for epoll_wait
  batch,    \* events of the round that are not handled yet
  todo,     \* configurations of the round that are not handled yet
  calm,     \* from now on cameras and network do what they should
  crashed   \* a null pointer was followed

pool == <<rc, made, cache, subwin>>
vars == <<rc, conn, sess, made, cache, subwin, news, batch, todo, calm, crashed>>

\* A connection that is closed, keeping its instance bit and peer.  missed:
\* the camera has reset it behind an answer, before the event of the answer was
\* fetched, so that one event reports both (history).
Closed(inst, cam) ==
  [sock |-> "none", inst |-> inst, cam |-> cam, read |-> FALSE, write |-> FALSE,
   rtimer |-> FALSE, wtimer |-> "off", asked |-> FALSE, inbox |-> "none", plays |-> FALSE,
   missed |-> FALSE]

\* A connect in progress: EPOLLOUT asked for, and the write timer set.
Connecting(inst, cam) ==
  [Closed(inst, cam) EXCEPT !.sock = "connecting", !.write = TRUE, !.wtimer = "later"]

NewSession == [next |-> "describe", success |-> FALSE, auth |-> FALSE]

Init == /\ rc = [i \in Chns |-> None]
        /\ conn = [c \in Conns |-> Closed(0, NoCam)]
        /\ sess = [c \in Conns |-> NewSession]
        /\ made = 0
        /\ cache = <<>>
        /\ subwin = FirstLayout
        /\ news = {}
        /\ batch = {}
        /\ todo = 0
        /\ calm = FALSE
        /\ crashed = FALSE
-----------------------------------------------------------------------------
(* Cameras and the network.  sock is "connecting"; "open"; "eof", closed by *)
(* the camera; "failed" while SO_ERROR is pending and "dead" when recv()    *)
(* has only 0 left to return; "none" without a descriptor.                  *)

EnvUnchanged == UNCHANGED <<pool, sess, batch, todo, calm, crashed>>

\* EPOLLOUT is asked for until the connect is found done, EPOLLIN from then on.
Accept(c) ==
  /\ conn[c].sock = "connecting" /\ (conn[c].cam # Nowhere \/ conn[c].read)
  /\ conn' = [conn EXCEPT ![c].sock = "open"]
  /\ news' = IF conn[c].read THEN news ELSE news \cup {c}
  /\ EnvUnchanged

Refuse(c) ==
  /\ conn[c].sock = "connecting"
  /\ calm => conn[c].cam = Nowhere
  /\ conn' = [conn EXCEPT ![c].sock = "failed"]
  /\ news' = news \cup {c}
  /\ EnvUnchanged

\* The answer to a request; the one to PLAY starts the stream.
Answer(c) ==
  /\ conn[c].sock = "open" /\ conn[c].asked /\ conn[c].inbox = "none"
  /\ \E r \in Replies :
       /\ calm => r = "200" \/ (r = "401" /\ ~sess[c].auth)
       /\ conn' = [conn EXCEPT ![c].asked = FALSE, ![c].inbox = r,
                               ![c].plays = (r = "200" /\ sess[c].next = "none")]
  /\ news' = news \cup {c}
  /\ EnvUnchanged

Stream(c) ==
  /\ conn[c].sock = "open" /\ conn[c].plays /\ conn[c].inbox = "none"
  /\ conn' = [conn EXCEPT ![c].inbox = "rtp"]
  /\ news' = news \cup {c}
  /\ EnvUnchanged

\* Nothing is asked and nothing is played: the camera may hang up.
Idle(c) == conn[c].read /\ ~conn[c].asked /\ ~conn[c].plays /\ conn[c].inbox = "none"

HangUp(c) ==
  /\ conn[c].sock = "open"
  /\ calm => Idle(c)
  /\ conn' = [conn EXCEPT ![c].sock = "eof", ![c].asked = FALSE, ![c].plays = FALSE]
  /\ news' = IF conn[c].read THEN news \cup {c} ELSE news
  /\ EnvUnchanged

\* A reset by the camera.  What it sent before can still be read.
Reset(c) ==
  /\ conn[c].sock = "open" /\ ~calm
  /\ conn' = [conn EXCEPT ![c].sock = "failed", ![c].asked = FALSE, ![c].plays = FALSE,
                          ![c].missed = c \in news /\ conn[c].inbox \in Replies]
  /\ news' = news \cup {c}
  /\ EnvUnchanged

\* A camera that has left answers the next request, or the keepalive of the
\* kernel, with a reset.
Gone(c) ==
  /\ conn[c].sock = "eof" /\ conn[c].read /\ conn[c].inbox = "none"
  /\ conn' = [conn EXCEPT ![c].sock = "dead"]
  /\ news' = news \cup {c}
  /\ EnvUnchanged

Settle == /\ ~calm
          /\ calm' = TRUE
          /\ UNCHANGED <<pool, conn, sess, news, batch, todo, crashed>>
-----------------------------------------------------------------------------
(* The handlers.  Each gives conn[c] and sess[c] their next values.         *)

\* send_option, send_describe, send_setup, send_play.  send() fetches an error
\* that is pending, and nobody looks at its result.
Sent(k) == [k EXCEPT !.asked = (k.sock = "open"),
                     !.sock = IF @ = "failed" THEN "dead" ELSE @]
After == [describe |-> "setup", setup |-> "play", play |-> "none"]

\* Every read of a stream that plays sets the read timer.
Timed(c) == [conn[c] EXCEPT !.rtimer = @ \/ sess[c].success]

\* The session starts over: reset of the pool and of sess.
Dropped(s) == [s EXCEPT !.success = FALSE, !.auth = FALSE]

\* recv() returns -1: the read event is not armed again.
ReadErrorQuiet(c) ==
  /\ conn[c].sock = "failed" /\ conn[c].inbox = "none"
  /\ conn' = [conn EXCEPT ![c] = [Timed(c) EXCEPT !.sock = "dead"]]
  /\ UNCHANGED <<sess, news, crashed>>

\* recv() returns -1: the read event is armed again.
ReadError(c) ==
  /\ conn[c].sock = "failed" /\ conn[c].inbox = "none"
  /\ conn' = [conn EXCEPT ![c] = [Timed(c) EXCEPT !.sock = "dead"]]
  /\ news' = news \cup {c}
  /\ UNCHANGED <<sess, crashed>>

\* recv() returns 0: no timer is set.
ReadClosedGivesUp(c) ==
  /\ conn[c].sock \in {"eof", "dead"} /\ conn[c].inbox = "none"
  /\ conn' = [conn EXCEPT ![c] = Timed(c)]
  /\ sess' = [sess EXCEPT ![c] = Dropped(@)]
  /\ UNCHANGED <<news, crashed>>

\* recv() returns 0: connect again after 5 s.
ReadClosed(c) ==
  /\ conn[c].sock \in {"eof", "dead"} /\ conn[c].inbox = "none"
  /\ conn' = [conn EXCEPT ![c] = [Timed(c) EXCEPT !.wtimer = "later"]]
  /\ sess' = [sess EXCEPT ![c] = Dropped(@)]
  /\ UNCHANGED <<news, crashed>>

ReadNothing(c) ==
  /\ conn[c].sock \notin {"failed", "eof", "dead"} /\ conn[c].inbox = "none"
  /\ conn' = [conn EXCEPT ![c] = Timed(c)]
  /\ UNCHANGED <<sess, news, crashed>>

\* do_next after a 200; a first 401 asks again with credentials.
Request(c) == IF conn[c].inbox = "200" THEN sess[c].next
              ELSE IF conn[c].inbox = "401" /\ ~sess[c].auth THEN "describe" ELSE "none"

\* A short read ends the handler: what came behind the data, the end of the
\* stream or a reset, has been reported and is not asked for again.  send_setup
\* and send_play generate credentials in any case.
ReadMessage(c) ==
  LET k == [Timed(c) EXCEPT !.inbox = "none"]
      next == Request(c)
  IN  /\ conn[c].inbox # "none"
      /\ IF next = "none"
         THEN conn' = [conn EXCEPT ![c] = k] /\ UNCHANGED sess
         ELSE /\ conn' = [conn EXCEPT ![c] = Sent(k)]
              /\ sess' = [sess EXCEPT ![c] =
                            [next |-> After[next], success |-> @.success \/ next = "play",
                             auth |-> @.auth \/ conn[c].inbox = "401" \/ next # "describe"]]
      /\ UNCHANGED <<news, crashed>>

ReadHandler(c) == ReadError(c) \/ ReadClosed(c) \/ ReadNothing(c) \/ ReadMessage(c)

\* rtsp_connect_handler on a write event: SO_ERROR decides.  While the
\* connect is still open there is no error, and no peer name either.
ConnectHandler(c) ==
  IF conn[c].sock = "failed"
  THEN /\ conn' = [conn EXCEPT ![c].sock = "dead", ![c].write = FALSE]
       /\ UNCHANGED <<sess, news, crashed>>
  ELSE /\ conn' = [conn EXCEPT ![c] = Sent([conn[c] EXCEPT
                     !.write = FALSE, !.read = TRUE, !.wtimer = "off",
                     !.cam = IF conn[c].sock = "connecting" THEN Nowhere ELSE @])]
       /\ sess' = [sess EXCEPT ![c].next = "describe"]
       /\ news' = IF conn[c].sock = "eof" THEN news \cup {c} ELSE news
       /\ crashed' = (conn[c].wtimer = "off")
-----------------------------------------------------------------------------
(* The event loop: process_events, then expire_timers.                      *)

RoundOver == batch = {} /\ todo = 0

\* A timer of 0 ms expires before epoll_wait is called again.
Due == {c \in Conns : conn[c].wtimer = "now"}

\* EPOLLRDHUP, EPOLLHUP and EPOLLERR count as both kinds.
Kind(c) == IF conn[c].sock \in {"failed", "dead"} \/ (conn[c].sock = "eof" /\ conn[c].read)
           THEN "both"
           ELSE IF conn[c].read THEN "in" ELSE "out"

\* own: the event belongs to the socket the connection has now; twice: the
\* connection was closed again after that socket was (history).
Wait ==
  /\ RoundOver /\ Due = {}
  /\ \E n \in 0 .. MaxPkgs :
       /\ calm => n = 0
       /\ n > 0 \/ news # {}
       /\ todo' = n
  /\ batch' = {[c |-> c, inst |-> conn[c].inst, kind |-> Kind(c), own |-> TRUE,
               twice |-> FALSE] : c \in news}
  /\ news' = {}
  /\ UNCHANGED <<pool, conn, sess, calm, crashed>>

\* The check for events of a descriptor that was closed in this round.
Stale(e) == conn[e.c].sock = "none" \/ conn[e.c].inst # e.inst

Handle(e) ==
  /\ batch' = batch \ {e}
  /\ IF Stale(e) THEN UNCHANGED <<conn, sess, news, crashed>>
     ELSE IF e.kind # "out" /\ conn[e.c].read THEN ReadHandler(e.c)
     ELSE IF e.kind # "in" /\ conn[e.c].write THEN ConnectHandler(e.c)
     ELSE UNCHANGED <<conn, sess, news, crashed>>
  /\ UNCHANGED <<pool, todo, calm>>

\* rtsp_read_handle, timed out: nothing came for 4 s.
ReadTimeout(c) ==
  /\ RoundOver /\ conn[c].rtimer
  /\ calm => conn[c].sock # "open" \/ Idle(c)
  /\ conn' = [conn EXCEPT ![c].rtimer = FALSE, ![c].wtimer = "now"]
  /\ sess' = [sess EXCEPT ![c] = Dropped(@)]
  /\ UNCHANGED <<pool, news, batch, todo, calm, crashed>>

\* rtsp_connect_handler, timed out: rtsp_reconnect_peer.  AIO_AGAIN is -1, and
\* so is the result when there is no socket.  A connect that fails at once
\* frees the client, which the handler goes on to use.
Reconnect(c) ==
  /\ RoundOver /\ conn[c].wtimer # "off"
  /\ calm => conn[c].wtimer = "now" \/ conn[c].sock \notin {"connecting", "open"}
  /\ \/ /\ conn' = [conn EXCEPT ![c] = Connecting(@.inst, @.cam)]
        /\ UNCHANGED crashed
     \/ /\ ~calm
        /\ conn' = [conn EXCEPT ![c] = Closed(@.inst, @.cam)]
        /\ UNCHANGED crashed
     \/ ~calm /\ crashed' = TRUE /\ UNCHANGED conn
  /\ news' = news \ {c}
  /\ UNCHANGED <<pool, sess, batch, todo, calm>>
-----------------------------------------------------------------------------
(* server_read_handle of the configuration server, for one package.         *)

\* free_old_subwin: another number of windows ends the clients of the old.
OldClients(w) == {i \in Chns : w # subwin /\ i < subwin /\ rc[i] # None}

\* set_cam_chn: the client of the channel itself, unless its camera stays.
Stays(chn, cam, w) ==
  rc[chn] # None /\ chn \notin OldClients(w) /\ conn[rc[chn]].cam = cam

Freed(chn, cam, w) ==
  OldClients(w) \cup {i \in {chn} : rc[i] # None /\ ~Stays(i, cam, w)}

\* close_conn in the order of the calls: by channel, then the channel itself
\* (which is in the old layout, or the last); each connection goes in front of
\* the cache.  It returns at once for a connection without a descriptor, which
\* is lost to the pool.
ClosedOnto(chans, list) ==
  LET free[n \in 0 .. NumChans] ==
        IF n = 0 THEN list
        ELSE IF n - 1 \in chans /\ conn[rc[n - 1]].sock # "none"
             THEN <<rc[n - 1]>> \o free[n - 1]
             ELSE free[n - 1]
  IN  free[NumChans]

\* The clients of the old layout are freed again by set_cam_chn.
ReleasedTwice(chans) == ClosedOnto(chans, ClosedOnto(chans, cache))

Released(chans) == ClosedOnto(chans, cache)

\* close_conn leaves the timers running.
ShutKeepsTimers(c) == [Closed(conn[c].inst, NoCam) EXCEPT !.wtimer = conn[c].wtimer]

\* close_conn, and the end of what the connection stood for.
Shut(c) == Closed(conn[c].inst, NoCam)

\* get_conn forgets the instance bit of the last use.
SameInstance(inst) == 1

\* get_conn turns the instance bit with every use.
Turned(inst) == 1 - inst

\* An event of the batch when the connections in gone are closed (history).
Severed(e, gone) == [e EXCEPT !.own = @ /\ e.c \notin gone,
                              !.twice = @ \/ (~e.own /\ e.c \in gone)]

\* get_conn takes a connection from the cache, or allocates one.
Configure(chn, cam, w) ==
  LET freed == Freed(chn, cam, w)
      gone == {rc[i] : i \in freed}
      free == Released(freed)
      left == [i \in Chns |-> IF i \in freed THEN None ELSE rc[i]]
      closed == [k \in Conns |-> IF k \in gone THEN Shut(k) ELSE conn[k]]
      c == IF free # <<>> THEN Head(free) ELSE made + 1
  IN  /\ todo' = todo - 1
      /\ sess' = [k \in Conns |-> IF k \in gone \cup {c} THEN NewSession ELSE sess[k]]
      /\ subwin' = w
      /\ news' = news \ gone
      /\ batch' = {Severed(e, gone) : e \in batch}
      /\ \/ /\ cam = NoCam \/ Stays(chn, cam, w)
            /\ rc' = left /\ conn' = closed /\ cache' = free
            /\ UNCHANGED <<made, crashed>>
         \/ /\ cam # NoCam /\ ~Stays(chn, cam, w) /\ c \in Conns
            /\ rc' = [left EXCEPT ![chn] = c]
            /\ conn' = [closed EXCEPT ![c] = Connecting(Turned(closed[c].inst), cam)]
            /\ cache' = IF free # <<>> THEN Tail(free) ELSE free
            /\ made' = IF free # <<>> THEN made ELSE made + 1
            /\ UNCHANGED crashed
         \* connect_peer fails at once and leaves no connection.
         \/ /\ cam # NoCam /\ ~Stays(chn, cam, w)
            /\ crashed' = TRUE
            /\ rc' = left /\ conn' = closed /\ cache' = free
            /\ UNCHANGED made
      /\ UNCHANGED calm

Config ==
  /\ todo > 0
  /\ \E w \in Layouts : \E chn \in 0 .. w - 1, cam \in Cams \cup {NoCam} :
       Configure(chn, cam, w)
-----------------------------------------------------------------------------
Cameras == \E c \in Conns : \/ Accept(c) \/ Refuse(c) \/ Answer(c) \/ Stream(c)
                            \/ HangUp(c) \/ Reset(c) \/ Gone(c)
Timers == \E c \in Conns : ReadTimeout(c) \/ Reconnect(c)
Events == \E e \in batch : Handle(e)

Next == ~crashed /\ (Cameras \/ Wait \/ Events \/ Config \/ Timers)

Spec == Init /\ [][Next]_vars

\* The thread goes round, and time passes: timers that are set expire in some
\* round.  Once the cameras are calm they accept, answer, and hang up a
\* connection on which nothing happens.
FairSpec ==
  /\ Init /\ [][Next \/ Settle]_vars
  /\ WF_vars(~crashed /\ Wait) /\ WF_vars(~crashed /\ Events) /\ WF_vars(~crashed /\ Config)
  /\ \A c \in Conns :
       /\ SF_vars(~crashed /\ (ReadTimeout(c) \/ Reconnect(c)))
       /\ WF_vars(calm /\ ~crashed /\ (Accept(c) \/ Refuse(c)))
       /\ WF_vars(calm /\ ~crashed /\ Answer(c))
       /\ WF_vars(calm /\ ~crashed /\ HangUp(c))
       /\ WF_vars(calm /\ ~crashed /\ Gone(c))
-----------------------------------------------------------------------------
TypeOK ==
  /\ rc \in [Chns -> Conns \cup {None}]
  /\ conn \in [Conns ->
       [sock : {"none", "connecting", "open", "eof", "failed", "dead"},
        inst : {0, 1}, cam : Cams \cup {NoCam, Nowhere}, read : BOOLEAN, write : BOOLEAN,
        rtimer : BOOLEAN, wtimer : {"off", "now", "later"}, asked : BOOLEAN,
        inbox : {"none", "200", "401", "other", "rtp"}, plays : BOOLEAN, missed : BOOLEAN]]
  /\ sess \in [Conns -> [next : {"describe", "setup", "play", "none"},
                        success : BOOLEAN, auth : BOOLEAN]]
  /\ made \in 0 .. MaxConns
  /\ cache \in Seq(1 .. made) /\ Len(cache) <= made
  /\ subwin \in Layouts
  /\ news \subseteq Conns
  /\ batch \subseteq [c : Conns, inst : {0, 1}, kind : {"in", "out", "both"}, own : BOOLEAN,
                      twice : BOOLEAN]
  /\ todo \in 0 .. MaxPkgs
  /\ calm \in BOOLEAN /\ crashed \in BOOLEAN

\* The clients and the pool never share a connection, no two clients do, and
\* a connection in the pool has no descriptor, no timer and no active event.
PoolApart ==
  /\ \A i, j \in Chns : rc[i] # None /\ rc[i] = rc[j] => i = j
  /\ \A i, j \in DOMAIN cache : cache[i] = cache[j] => i = j
  /\ \A c \in ToSet(cache) : /\ \A i \in Chns : rc[i] # c
                             /\ conn[c] = Closed(conn[c].inst, NoCam)
                             /\ c \notin news

\* A client with a descriptor never waits for nothing: while EPOLLOUT is asked
\* for the write timer runs, and without it the read event is active, on a
\* socket that connects or lives or has its end still to report, or with the
\* read timer.  Only a reset that came behind an unread answer can be missed.
Watched ==
  \A i \in Chns : rc[i] # None /\ conn[rc[i]].sock # "none" =>
     LET k == conn[rc[i]]
         reported == rc[i] \in news \/ \E e \in batch : e.c = rc[i] /\ e.own
     IN  /\ \/ k.wtimer # "off"
            \/ k.read /\ (k.sock \in {"connecting", "open", "eof"} \/ reported \/ k.rtimer \/ k.missed)
         /\ k.write => k.wtimer # "off" /\ ~k.read

\* connection.h:33: the instance bit is there to detect stale events.  An event
\* whose socket was closed by a configuration of the same batch changes nothing,
\* also when its connection was taken again meanwhile.  There is one exception,
\* and no other: a connection that was closed and taken twice has its bit back,
\* and takes the event for one of its own.
RightSocket ==
  [][\A e \in batch : ~e.own /\ ~e.twice /\ (\A f \in batch' : f.c # e.c) =>
       UNCHANGED <<conn, sess>>]_vars

\* rtsp.c:265: whatever is not torn down on purpose is connected again.  When
\* cameras and network are well from some time on, every configured camera
\* plays in the end, but for a client that has got no socket, has missed a
\* reset, or was given the peer name of an open connect by an event of another.
Streams ==
  <>[](\A i \in Chns : LET k == conn[rc[i]]
                       IN  calm /\ ~crashed /\ rc[i] # None /\ k.sock # "none" /\ ~k.missed
                           /\ k.cam # Nowhere => k.plays)
=============================================================================
