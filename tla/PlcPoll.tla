------------------------------ MODULE PlcPoll -------------------------------
(***************************************************************************)
(* serialCtrl as a client of the crane's PLC (plcBus.c, protocol 2): the    *)
(* chain of polls.  A poll is sent by the write timer of the connection; it *)
(* starts the read timer, and only what the read handler then gets starts   *)
(* the write timer again.  When the PLC closes, the connection is built up  *)
(* anew, until the connect handler finds it there and starts the write      *)
(* timer for the first poll.                                                *)
(*                                                                          *)
(* The handlers run in the event loop (connet: event.c, timer.c).  epoll is *)
(* edge-triggered: edge says that a change of the socket is not reported    *)
(* yet.  A timer may run out at any time.  An answer is one piece, and      *)
(* connect() never succeeds at once; what an answer makes the program do is *)
(* in SerialViews.                                                          *)
(***************************************************************************)
EXTENDS Naturals

VARIABLES c,               \* the connection to the PLC
          calm             \* PLC and network do nothing wrong any more

vars == <<c, calm>>

(* sock: "connecting", "refused", "open"; "eof", the PLC has closed;        *)
(* "reset", by the PLC, the error not yet taken; "gone", the error taken,   *)
(* recv() returns 0; "mute", gone, and nothing will be reported again;      *)
(* "none", socket() or connect() failed at once.                            *)
(* At the start they do not: connect_peer then leaves pc unset, through      *)
(* which initPlcBus goes on to write (plcBus.c:511).                         *)
Init ==
  /\ c = [sock |-> "connecting",
          edge |-> FALSE,          \* a change that epoll_wait has not reported
          asked |-> 0,             \* polls the PLC has not answered
          inbox |-> FALSE,         \* an answer to read
          silent |-> FALSE,        \* the PLC left a poll unanswered
          handler |-> "connect",   \* write->handler; "poll" is memobus_write_handle
          rActive |-> FALSE, wActive |-> TRUE,
          rTimer |-> FALSE, wTimer |-> TRUE,
          wOut |-> FALSE]          \* write->timedout
  /\ calm = FALSE

\* socket() and connect(): in progress, or failed at once.
Tries == IF calm THEN {TRUE} ELSE BOOLEAN

-----------------------------------------------------------------------------
(* The handlers, as functions of the connection.                            *)

\* The new connection is tried without a time-out.
ReconnectedUntimed(x, ok) ==
  [x EXCEPT !.sock = IF ok THEN "connecting" ELSE "none",
            !.edge = FALSE, !.asked = 0, !.inbox = FALSE, !.silent = FALSE,
            !.rActive = FALSE, !.wActive = ok, !.rTimer = FALSE, !.wTimer = FALSE,
            !.handler = IF ok THEN "connect" ELSE @]

\* The write handler is still that of the old connection.
ReconnectedAsPoll(x, ok) ==
  [x EXCEPT !.sock = IF ok THEN "connecting" ELSE "none",
            !.edge = FALSE, !.asked = 0, !.inbox = FALSE, !.silent = FALSE,
            !.rActive = FALSE, !.wActive = ok, !.rTimer = FALSE, !.wTimer = ok]

\* plc_reconnect_peer.  After a failure no timer runs and no event is armed.
Reconnected(x, ok) ==
  [x EXCEPT !.sock = IF ok THEN "connecting" ELSE "none",
            !.edge = FALSE, !.asked = 0, !.inbox = FALSE, !.silent = FALSE,
            !.rActive = FALSE, !.wActive = ok, !.rTimer = FALSE, !.wTimer = ok,
            !.handler = IF ok THEN "connect" ELSE @]

\* The read event is armed, which reports an end that is already there.
Connected(x) == [x EXCEPT !.wTimer = TRUE, !.rActive = TRUE, !.handler = "poll",
                          !.edge = (x.sock = "eof")]

\* write->timedout stays set behind a reconnection.
ConnectHandlerStale(x, ok) ==
  IF x.wOut THEN Reconnected(x, ok)
  ELSE IF x.sock \in {"open", "eof"} THEN Connected(x) ELSE x

\* plc_connect_handler.  test_connect finds the error of a refused or reset
\* connection, set_conn_info that there is none yet; both just return.
ConnectHandler(x, ok) ==
  IF x.wOut THEN Reconnected([x EXCEPT !.wOut = FALSE], ok)
  ELSE IF x.sock \in {"open", "eof"} THEN Connected(x) ELSE x

\* The next poll does not wait for the answer to this one.
PolledUnanswered(x) == [x EXCEPT !.rTimer = TRUE, !.wTimer = TRUE,
                                 !.asked = IF x.sock \in {"open", "eof"} THEN @ + 1 ELSE @]

\* memobus_write_handle, whatever send() says.  It leaves timedout set.  The
\* error of a reset connection goes to send().
Polled(x) == [x EXCEPT !.rTimer = TRUE,
                       !.asked = IF x.sock \in {"open", "eof"} THEN @ + 1 ELSE @,
                       !.sock = IF @ # "reset" THEN @
                                 ELSE IF x.edge THEN "gone" ELSE "mute"]

WriteHandler(x, ok) ==
  IF x.handler = "connect" THEN ConnectHandler(x, ok) ELSE Polled(x)

\* An error is read and the event not armed again.
ReadHandlerOnce(x, ok) ==
  [CASE x.inbox -> [x EXCEPT !.inbox = FALSE]
     [] ~x.inbox /\ x.sock = "reset" -> [x EXCEPT !.sock = "gone"]
     [] ~x.inbox /\ x.sock \in {"eof", "gone"} -> Reconnected(x, ok)
     [] OTHER -> x
   EXCEPT !.wTimer = TRUE]

\* memobus_read_handle: one recv(), an answer before the end that came with it;
\* an error arms the event again, and the next recv() returns 0.  Whatever was
\* read, the write timer is started.
ReadHandler(x, ok) ==
  [CASE x.inbox -> [x EXCEPT !.inbox = FALSE]
     [] ~x.inbox /\ x.sock = "reset" -> [x EXCEPT !.sock = "gone", !.edge = TRUE]
     [] ~x.inbox /\ x.sock \in {"eof", "gone"} -> Reconnected(x, ok)
     [] OTHER -> x
   EXCEPT !.wTimer = TRUE]

-----------------------------------------------------------------------------
(* The event loop.                                                          *)

\* process_events.  An end or an error is reported to both handlers: when the
\* read handler has reconnected, the connect handler gets it for the new socket.
\* Behind the write handler write->active is cleared.
Event == /\ c.edge
         /\ \E ok1, ok2 \in Tries :
              LET taken == [c EXCEPT !.edge = FALSE]
                  read == IF taken.rActive THEN ReadHandler(taken, ok1) ELSE taken
              IN  c' = IF read.wActive
                       THEN [WriteHandler(read, ok2) EXCEPT !.wActive = FALSE]
                       ELSE read
         /\ UNCHANGED calm

\* expire_timers: the write timer.  The one the read handler has just started
\* is not due before the event that it armed again.
WriteTimer == /\ c.wTimer /\ ~(c.sock = "gone" /\ c.edge)
              /\ \E ok \in Tries :
                   c' = WriteHandler([c EXCEPT !.wTimer = FALSE, !.wOut = TRUE], ok)
              /\ UNCHANGED calm

\* expire_timers: the read timer.  memobus_read_handle only clears timedout.
ReadTimer == /\ c.rTimer
             /\ c' = [c EXCEPT !.rTimer = FALSE]
             /\ UNCHANGED calm

-----------------------------------------------------------------------------
(* The PLC and the network.                                                 *)

Reported(s) == c' = [c EXCEPT !.sock = s, !.edge = TRUE] /\ UNCHANGED calm

Accept == c.sock = "connecting" /\ Reported("open")
Refuse == ~calm /\ c.sock = "connecting" /\ Reported("refused")
Close == ~calm /\ c.sock = "open" /\ Reported("eof")
Reset == ~calm /\ c.sock = "open" /\ Reported("reset")

\* A poll that reaches a PLC that has closed.
Hangup == /\ c.sock = "eof" /\ c.asked > 0
          /\ Reported("gone")

Answer == /\ c.sock = "open" /\ c.asked > 0
          /\ c' = [c EXCEPT !.asked = @ - 1, !.inbox = TRUE, !.edge = TRUE]
          /\ UNCHANGED calm

LeaveUnanswered == /\ ~calm /\ c.sock = "open" /\ c.asked > 0
                   /\ c' = [c EXCEPT !.asked = @ - 1, !.silent = TRUE]
                   /\ UNCHANGED calm

Settle == /\ ~calm /\ calm' = TRUE
          /\ UNCHANGED c

Next == \/ Event \/ WriteTimer \/ ReadTimer
        \/ Accept \/ Refuse \/ Close \/ Reset \/ Hangup
        \/ Answer \/ LeaveUnanswered
        \/ Settle

\* The loop runs and reports events before it looks at the timers, so that a
\* timer cannot always win; the network comes to an end with what it began.
Fairness == /\ SF_vars(Event) /\ WF_vars(WriteTimer)
            /\ WF_vars(Accept) /\ WF_vars(Hangup) /\ WF_vars(Answer)

Spec == Init /\ [][Next]_vars /\ Fairness

-----------------------------------------------------------------------------
\* At most one poll is under way: a PLC answers one request at a time.
TypeOK ==
  /\ c \in [sock : {"connecting", "refused", "open", "eof", "reset", "gone", "mute", "none"},
            edge : BOOLEAN, asked : 0 .. 1, inbox : BOOLEAN, silent : BOOLEAN,
            handler : {"connect", "poll"}, rActive : BOOLEAN, wActive : BOOLEAN,
            rTimer : BOOLEAN, wTimer : BOOLEAN, wOut : BOOLEAN]
  /\ calm \in BOOLEAN

\* The three ends of the chain: a poll without an answer, a reset that was
\* reported together with an answer, a socket or connection refused at once.
Stuck == c.silent \/ c.sock \in {"mute", "none"}

\* plcBus.c:47,77: the chain of polls has no other end.  As long as it has not
\* come to one, the write timer runs, an event is on its way or the PLC owes an
\* answer, however closing, resetting and answering fall together with timers.
ChainAlive == c.wTimer \/ c.edge \/ c.asked > 0 \/ Stuck

\* A poll goes out only where its answer is waited for: nothing is asked on a
\* connection whose read event is not armed.
Listened == c.asked > 0 => c.rActive

\* plcBus.c:590: plc_connect_handler deletes the write timer without a look at
\* timer_set; deleting one that is not in the tree writes through NULL.
TimerHeld == c.wActive /\ ~c.wOut => c.wTimer

\* When PLC and network are calm, polls are sent again and again, or the chain
\* has come to one of its ends.
Polls == \/ []~calm
         \/ []<><<c'.asked > c.asked>>_vars
         \/ <>[]Stuck
=============================================================================
