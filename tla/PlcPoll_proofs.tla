---------------------------- MODULE PlcPoll_proofs ----------------------------
(***************************************************************************)
(* Proofs about the chain of polls.  The properties speak of one or two     *)
(* fields of the connection each; what a step keeps is the conjunction Inv, *)
(* which ties the handler in force to the state of the socket.              *)
(***************************************************************************)
EXTENDS PlcPoll, TLAPS

Conns ==
  [sock : {"connecting", "refused", "open", "eof", "reset", "gone", "mute", "none"},
   edge : BOOLEAN, asked : {0, 1}, inbox : BOOLEAN, silent : BOOLEAN,
   handler : {"connect", "poll"}, rActive : BOOLEAN, wActive : BOOLEAN,
   rTimer : BOOLEAN, wTimer : BOOLEAN, wOut : BOOLEAN]

\* While the connect handler is in force nothing is asked or listened for, and
\* its time-out runs unless the attempt failed at once.
Connecting(x) ==
  /\ x.handler = "connect" => /\ x.asked = 0 /\ ~x.inbox /\ ~x.silent
                              /\ ~x.rActive /\ ~x.rTimer
                              /\ x.wTimer \/ x.sock = "none"
  /\ x.wActive => x.handler = "connect"

\* The poll handler belongs to a connection that was there and is listened to.
Polling(x) ==
  x.handler = "poll" /\ x.sock # "none" =>
    x.rActive /\ x.sock \notin {"connecting", "refused"}

\* After a failed attempt nothing is armed.
Dead(x) ==
  x.sock = "none" => /\ ~x.edge /\ ~x.rActive /\ ~x.wActive
                     /\ x.asked = 0 /\ ~x.inbox /\ ~x.silent

\* The write timer and the event of an answer are never there together: who
\* waits for the PLC does not poll.
Turns(x) ==
  /\ x.inbox => x.edge /\ ~x.wTimer /\ x.sock \in {"open", "eof", "reset"}
  /\ x.handler = "poll" /\ x.edge /\ x.sock = "open" => x.inbox
  /\ x.asked = 1 => /\ x.handler = "poll" /\ ~x.inbox
                    /\ x.sock \in {"open", "eof", "reset", "gone"}
                    /\ ~x.wTimer \/ x.sock = "gone"
  /\ x.sock = "gone" => x.edge /\ x.handler = "poll"

\* ChainAlive, Listened and TimerHeld of a connection.
Alive(x) == x.wTimer \/ x.edge \/ x.asked = 1 \/ x.silent \/ x.sock \in {"mute", "none"}
Heard(x) == x.asked = 1 => x.rActive
Held(x) == x.wActive /\ ~x.wOut => x.wTimer

Good(x) == /\ Connecting(x) /\ Polling(x) /\ Dead(x) /\ Turns(x)
           /\ Alive(x) /\ Heard(x) /\ Held(x)


Inv == c \in Conns /\ Good(c) /\ calm \in BOOLEAN
-----------------------------------------------------------------------------
\* The typing of TypeOK, with the number of polls under way spelled out.
LEMMA InvTypes == Inv => /\ TypeOK
                         /\ c.asked \in {0, 1} /\ (c.asked > 0 <=> c.asked = 1)
  BY DEF Inv, TypeOK, Conns

\* plc_reconnect_peer leaves a good connection whatever it found, and the read
\* handler that called it may start the write timer on top.
LEMMA ReconnectedGood ==
  ASSUME NEW x \in Conns, NEW ok \in BOOLEAN
  PROVE  /\ Reconnected(x, ok) \in Conns
         /\ Good(Reconnected(x, ok))
         /\ Good([Reconnected(x, ok) EXCEPT !.wActive = FALSE])
         /\ Good([Reconnected(x, ok) EXCEPT !.wTimer = TRUE])
<1> DEFINE y == Reconnected(x, ok)
<1>1. /\ y.sock = IF ok THEN "connecting" ELSE "none"
      /\ y.handler = IF ok THEN "connect" ELSE x.handler
      /\ y.edge = FALSE /\ y.asked = 0 /\ y.inbox = FALSE /\ y.silent = FALSE
      /\ y.rActive = FALSE /\ y.wActive = ok /\ y.rTimer = FALSE /\ y.wTimer = ok
  BY DEF Reconnected, Conns
<1>2. y \in Conns
  <2> DEFINE sock == IF ok THEN "connecting" ELSE "none"
             handler == IF ok THEN "connect" ELSE x.handler
  <2>1. sock \in {"connecting", "none"} /\ handler \in {"connect", "poll"}
    BY DEF Conns
  <2> DEFINE z == [x EXCEPT !.sock = sock, !.edge = FALSE, !.asked = 0,
                            !.inbox = FALSE, !.silent = FALSE]
  <2>2. y = [z EXCEPT !.rActive = FALSE, !.wActive = ok, !.rTimer = FALSE,
                      !.wTimer = ok, !.handler = handler]
    BY DEF Reconnected
  <2> HIDE DEF sock, handler
  <2>3. z \in Conns
    BY <2>1 DEF Conns
  <2> HIDE DEF y, z
  <2> QED BY <2>1, <2>2, <2>3, ZenonT(30) DEF Conns
<1> HIDE DEF y
<1>3. Good(y)
  BY <1>1 DEF Good, Connecting, Polling, Dead, Turns, Alive, Heard, Held
<1>4. Good([y EXCEPT !.wActive = FALSE])
  BY <1>1, <1>2 DEF Good, Conns, Connecting, Polling, Dead, Turns, Alive, Heard, Held
<1>5. Good([y EXCEPT !.wTimer = TRUE])
  BY <1>1, <1>2 DEF Good, Conns, Connecting, Polling, Dead, Turns, Alive, Heard, Held
<1> QED BY <1>2, <1>3, <1>4, <1>5 DEF y

\* plc_connect_handler that an event calls: the event is taken, and
\* process_events clears write->active behind it.
LEMMA ConnectEvent ==
  ASSUME NEW x \in Conns, NEW ok \in BOOLEAN, x.handler = "connect",
         Good(x), ~x.edge
  PROVE  /\ [ConnectHandler(x, ok) EXCEPT !.wActive = FALSE] \in Conns
         /\ Good([ConnectHandler(x, ok) EXCEPT !.wActive = FALSE])
<1>1. CASE x.wOut
  <2>1. [x EXCEPT !.wOut = FALSE] \in Conns
    BY DEF Conns
  <2>2. ConnectHandler(x, ok) = Reconnected([x EXCEPT !.wOut = FALSE], ok)
    BY <1>1 DEF ConnectHandler
  <2>3. /\ Reconnected([x EXCEPT !.wOut = FALSE], ok) \in Conns
        /\ Good([Reconnected([x EXCEPT !.wOut = FALSE], ok) EXCEPT !.wActive = FALSE])
    BY <2>1, ReconnectedGood
  <2>4. \A y \in Conns : [y EXCEPT !.wActive = FALSE] \in Conns
    BY DEF Conns
  <2> QED BY <2>2, <2>3, <2>4
<1>2. CASE ~x.wOut /\ x.sock \in {"open", "eof"}
  <2> DEFINE y == [x EXCEPT !.wTimer = TRUE, !.rActive = TRUE, !.handler = "poll",
                            !.edge = (x.sock = "eof"), !.wActive = FALSE]
  <2>1. [ConnectHandler(x, ok) EXCEPT !.wActive = FALSE] = y
    BY <1>2 DEF ConnectHandler, Connected, Conns
  <2>2. y \in Conns
    BY DEF Conns
  <2>3. Good(y)
    BY <1>2 DEF Good, Conns, Connecting, Polling, Dead, Turns, Alive, Heard, Held
  <2> QED BY <2>1, <2>2, <2>3
<1>3. CASE ~x.wOut /\ x.sock \notin {"open", "eof"}
  <2> DEFINE y == [x EXCEPT !.wActive = FALSE]
  <2>1. [ConnectHandler(x, ok) EXCEPT !.wActive = FALSE] = y
    BY <1>3 DEF ConnectHandler
  <2>2. y \in Conns
    BY DEF Conns
  <2>3. Good(y)
    BY <1>3 DEF Good, Conns, Connecting, Polling, Dead, Turns, Alive, Heard, Held
  <2> QED BY <2>1, <2>2, <2>3
<1> QED BY <1>1, <1>2, <1>3

\* memobus_read_handle, called for a reported event: either it has built the
\* connection up anew, or no connect handler is in force.
LEMMA ReadEvent ==
  ASSUME NEW x \in Conns, NEW ok \in BOOLEAN, Good(x), x.edge, x.rActive
  PROVE  LET y == ReadHandler([x EXCEPT !.edge = FALSE], ok)
         IN  /\ y \in Conns /\ Good(y)
             /\ y.wActive => y.handler = "connect" /\ ~y.edge
<1> DEFINE t == [x EXCEPT !.edge = FALSE]
           y == ReadHandler(t, ok)
<1>1. t \in Conns /\ t.inbox = x.inbox /\ t.sock = x.sock
  BY DEF Conns
<1>2. x.handler = "poll" /\ ~x.wActive /\ x.sock # "none"
  BY DEF Good, Conns, Connecting, Dead
<1>3. CASE x.inbox
  <2>1. y = [x EXCEPT !.edge = FALSE, !.inbox = FALSE, !.wTimer = TRUE]
    BY <1>1, <1>3 DEF ReadHandler, Conns
  <2>2. y \in Conns
    BY <2>1 DEF Conns
  <2>3. Good(y) /\ ~y.wActive
    BY <1>2, <1>3, <2>1 DEF Good, Conns, Connecting, Polling, Dead, Turns, Alive, Heard, Held
  <2> QED BY <2>2, <2>3
<1>4. CASE ~x.inbox /\ x.sock = "reset"
  <2>1. y = [x EXCEPT !.edge = TRUE, !.sock = "gone", !.wTimer = TRUE]
    BY <1>1, <1>4 DEF ReadHandler, Conns
  <2>2. y \in Conns
    BY <2>1 DEF Conns
  <2>3. Good(y) /\ ~y.wActive
    BY <1>2, <1>4, <2>1 DEF Good, Conns, Connecting, Polling, Dead, Turns, Alive, Heard, Held
  <2> QED BY <2>2, <2>3
<1>5. CASE ~x.inbox /\ x.sock \in {"eof", "gone"}
  <2> DEFINE r == Reconnected(t, ok)
  <2>1. y = [r EXCEPT !.wTimer = TRUE]
    BY <1>1, <1>5 DEF ReadHandler
  <2>2. r \in Conns /\ Good([r EXCEPT !.wTimer = TRUE])
    BY <1>1, ReconnectedGood
  <2>3. ~r.edge /\ (r.wActive => r.handler = "connect")
    BY <1>1 DEF Reconnected, Conns
  <2> HIDE DEF r
  <2>4. y \in Conns /\ y.edge = r.edge /\ y.wActive = r.wActive /\ y.handler = r.handler
    BY <2>1, <2>2 DEF Conns
  <2> QED BY <2>1, <2>2, <2>3, <2>4
<1>6. CASE ~x.inbox /\ x.sock \notin {"reset", "eof", "gone"}
  <2>1. y = [x EXCEPT !.edge = FALSE, !.wTimer = TRUE]
    BY <1>1, <1>6 DEF ReadHandler, Conns
  <2>2. y \in Conns
    BY <2>1 DEF Conns
  <2>3. Good(y) /\ ~y.wActive
    BY <1>2, <1>6, <2>1 DEF Good, Conns, Connecting, Polling, Dead, Turns, Alive, Heard, Held
  <2> QED BY <2>2, <2>3
<1> QED BY <1>3, <1>4, <1>5, <1>6

\* process_events: the read handler, then the write handler if it is armed.
LEMMA EventInv ==
  ASSUME Inv, Event PROVE Inv'
<1>1. c \in Conns /\ Good(c) /\ c.edge /\ calm' = calm /\ calm \in BOOLEAN
  BY DEF Inv, Event
<1> DEFINE taken == [c EXCEPT !.edge = FALSE]
<1>2. Tries \subseteq BOOLEAN
  BY DEF Tries
<1>3. PICK ok1 \in BOOLEAN, ok2 \in BOOLEAN :
        LET read == IF taken.rActive THEN ReadHandler(taken, ok1) ELSE taken
        IN  c' = IF read.wActive
                 THEN [WriteHandler(read, ok2) EXCEPT !.wActive = FALSE]
                 ELSE read
  BY <1>2 DEF Event
<1>4. taken \in Conns /\ taken.rActive = c.rActive
  BY <1>1 DEF Conns
<1>5. CASE c.rActive
  <2> DEFINE read == ReadHandler(taken, ok1)
  <2>1. /\ read \in Conns /\ Good(read)
        /\ read.wActive => read.handler = "connect" /\ ~read.edge
    BY <1>1, <1>5, ReadEvent
  <2>2. c' = IF read.wActive
             THEN [WriteHandler(read, ok2) EXCEPT !.wActive = FALSE]
             ELSE read
    BY <1>3, <1>4, <1>5
  <2> HIDE DEF read
  <2>3. c' \in Conns /\ Good(c')
    BY <2>1, <2>2, ConnectEvent DEF WriteHandler
  <2> QED BY <1>1, <2>3 DEF Inv
<1>6. CASE ~c.rActive
  <2>1. c.handler = "connect" /\ c.sock # "gone"
    BY <1>1, <1>6 DEF Good, Conns, Polling, Dead, Turns
  <2>2. Good(taken) /\ ~taken.edge /\ taken.handler = "connect"
    BY <1>1, <1>6, <2>1 DEF Good, Conns, Connecting, Polling, Dead, Turns, Alive, Heard, Held
  <2>3. c' = IF taken.wActive
             THEN [WriteHandler(taken, ok2) EXCEPT !.wActive = FALSE]
             ELSE taken
    BY <1>3, <1>4, <1>6
  <2> HIDE DEF taken
  <2>4. c' \in Conns /\ Good(c')
    BY <1>4, <2>2, <2>3, ConnectEvent DEF WriteHandler
  <2> QED BY <1>1, <2>4 DEF Inv
<1> QED BY <1>5, <1>6

\* expire_timers: the write timer, with the connect handler or the next poll.
LEMMA WriteTimerInv ==
  ASSUME Inv, WriteTimer PROVE Inv'
<1>1. /\ c \in Conns /\ Good(c) /\ calm' = calm /\ calm \in BOOLEAN
      /\ c.wTimer /\ ~(c.sock = "gone" /\ c.edge)
  BY DEF Inv, WriteTimer
<1> DEFINE x == [c EXCEPT !.wTimer = FALSE, !.wOut = TRUE]
<1>2. x \in Conns /\ x.wOut /\ x.handler = c.handler
  BY <1>1 DEF Conns
<1>3. PICK ok \in BOOLEAN : c' = WriteHandler(x, ok)
  BY DEF WriteTimer, Tries
<1>4. CASE c.handler = "connect"
  <2> DEFINE z == [x EXCEPT !.wOut = FALSE]
  <2>1. z \in Conns
    BY <1>2 DEF Conns
  <2>2. c' = Reconnected(z, ok)
    BY <1>2, <1>3, <1>4 DEF WriteHandler, ConnectHandler
  <2>3. c' \in Conns /\ Good(c')
    BY <2>1, <2>2, ReconnectedGood
  <2> QED BY <1>1, <2>3 DEF Inv
<1>5. CASE c.handler = "poll" /\ c.sock \in {"open", "eof"}
  <2>1. c.asked = 0
    BY <1>1, <1>5 DEF Good, Conns, Turns
  <2>2. x.asked = 0 /\ x.sock = c.sock /\ x.asked + 1 = 1
    BY <1>1, <2>1 DEF Conns
  <2>3. c' = [x EXCEPT !.rTimer = TRUE, !.asked = 1, !.sock = c.sock]
    BY <1>2, <1>3, <1>5, <2>2 DEF WriteHandler, Polled
  <2>4. c' = [c EXCEPT !.wTimer = FALSE, !.wOut = TRUE, !.rTimer = TRUE, !.asked = 1]
    BY <1>1, <2>3 DEF Conns
  <2>5. c' \in Conns
    BY <1>1, <2>4 DEF Conns
  <2>6. Good(c')
    BY <1>1, <1>5, <2>4 DEF Good, Conns, Connecting, Polling, Dead, Turns, Alive, Heard, Held
  <2> QED BY <1>1, <2>5, <2>6 DEF Inv
<1>6. CASE c.handler = "poll" /\ c.sock \notin {"open", "eof"}
  <2>1. c.sock # "gone"
    BY <1>1 DEF Good, Conns, Turns
  <2> DEFINE sock == IF c.sock # "reset" THEN c.sock
                     ELSE IF c.edge THEN "gone" ELSE "mute"
  <2>2. c' = [c EXCEPT !.wTimer = FALSE, !.wOut = TRUE, !.rTimer = TRUE, !.sock = sock]
    BY <1>1, <1>2, <1>3, <1>6 DEF WriteHandler, Polled, Conns
  <2>3. /\ sock \in {"connecting", "refused", "open", "eof", "reset", "gone", "mute", "none"}
        /\ c.sock # "reset" => sock = c.sock
        /\ c.sock = "reset" => sock = IF c.edge THEN "gone" ELSE "mute"
    BY <1>1 DEF Conns
  <2> HIDE DEF sock
  <2>4. c' \in Conns
    BY <1>1, <2>2, <2>3 DEF Conns
  <2>5. Good(c')
    BY <1>1, <1>6, <2>1, <2>2, <2>3 DEF Good, Conns, Connecting, Polling, Dead, Turns, Alive, Heard, Held
  <2> QED BY <1>1, <2>4, <2>5 DEF Inv
<1> QED BY <1>1, <1>4, <1>5, <1>6 DEF Conns

\* The PLC answers, or leaves a poll unanswered.
LEMMA AnswerInv ==
  ASSUME Inv, Answer \/ LeaveUnanswered PROVE Inv'
<1>1. /\ c \in Conns /\ Good(c) /\ c.sock = "open" /\ c.asked = 1
      /\ calm' = calm /\ calm \in BOOLEAN
  BY InvTypes DEF Inv, Answer, LeaveUnanswered
<1>2. CASE Answer
  <2>1. c' = [c EXCEPT !.asked = 0, !.inbox = TRUE, !.edge = TRUE]
    BY <1>1, <1>2 DEF Answer
  <2>2. c' \in Conns
    BY <1>1, <2>1 DEF Conns
  <2>3. Good(c')
    BY <1>1, <2>1 DEF Good, Conns, Connecting, Polling, Dead, Turns, Alive, Heard, Held
  <2> QED BY <1>1, <2>2, <2>3 DEF Inv
<1>3. CASE LeaveUnanswered
  <2>1. c' = [c EXCEPT !.asked = 0, !.silent = TRUE]
    BY <1>1, <1>3 DEF LeaveUnanswered
  <2>2. c' \in Conns
    BY <1>1, <2>1 DEF Conns
  <2>3. Good(c')
    BY <1>1, <2>1 DEF Good, Conns, Connecting, Polling, Dead, Turns, Alive, Heard, Held
  <2> QED BY <1>1, <2>2, <2>3 DEF Inv
<1> QED BY <1>2, <1>3

\* The other steps of the PLC and the network change the socket only.
LEMMA NetworkInv ==
  ASSUME Inv, Accept \/ Refuse \/ Close \/ Reset \/ Hangup PROVE Inv'
<1>1. c \in Conns /\ Good(c) /\ calm' = calm /\ calm \in BOOLEAN
  BY DEF Inv, Accept, Refuse, Close, Reset, Hangup, Reported
<1>2. PICK s \in {"open", "refused", "eof", "reset", "gone"} :
        /\ c' = [c EXCEPT !.sock = s, !.edge = TRUE]
        /\ s \in {"open", "refused"} => c.sock = "connecting"
        /\ s \in {"eof", "reset"} => c.sock = "open"
        /\ s = "gone" => c.sock = "eof" /\ c.asked = 1
  BY InvTypes DEF Accept, Refuse, Close, Reset, Hangup, Reported
<1>3. c' \in Conns
  BY <1>1, <1>2 DEF Conns
<1>4. Good(c')
  BY <1>1, <1>2 DEF Good, Conns, Connecting, Polling, Dead, Turns, Alive, Heard, Held
<1> QED BY <1>1, <1>3, <1>4 DEF Inv

\* Every step keeps the invariant.
LEMMA NextInv == Inv /\ [Next]_vars => Inv'
<1> SUFFICES ASSUME Inv, [Next]_vars PROVE Inv'
  OBVIOUS
<1>1. CASE Event
  BY <1>1, EventInv
<1>2. CASE WriteTimer
  BY <1>2, WriteTimerInv
<1>3. CASE ReadTimer
  <2>1. c \in Conns /\ Good(c) /\ c' = [c EXCEPT !.rTimer = FALSE]
    BY <1>3 DEF Inv, ReadTimer
  <2>2. c' \in Conns
    BY <2>1 DEF Conns
  <2>3. Good(c')
    BY <2>1 DEF Good, Conns, Connecting, Polling, Dead, Turns, Alive, Heard, Held
  <2> QED BY <1>3, <2>2, <2>3 DEF Inv, ReadTimer
<1>4. CASE Accept \/ Refuse \/ Close \/ Reset \/ Hangup
  BY <1>4, NetworkInv
<1>5. CASE Answer \/ LeaveUnanswered
  BY <1>5, AnswerInv
<1>6. CASE Settle
  BY <1>6 DEF Settle, Inv
<1>7. CASE UNCHANGED vars
  BY <1>7 DEF vars, Inv
<1> QED BY <1>1, <1>2, <1>3, <1>4, <1>5, <1>6, <1>7 DEF Next

\* serialCtrl starts with a connection attempt and its time-out.
LEMMA InitInv == Init => Inv
<1> SUFFICES ASSUME Init PROVE Inv
  OBVIOUS
<1>1. c \in Conns /\ calm = FALSE
  BY DEF Init, Conns
<1>2. Good(c)
  BY DEF Init, Good, Connecting, Polling, Dead, Turns, Alive, Heard, Held
<1> QED BY <1>1, <1>2 DEF Inv

\* The invariant behind the properties, for every order of answers, ends and
\* timers.
THEOREM PollInvariant == Spec => []Inv
  BY InitInv, NextInv, PTL DEF Spec

\* The fields of the connection have the values the code gives them; no second
\* poll goes out before the first is answered.
THEOREM PollTypes == Spec => []TypeOK
  BY InvTypes, PollInvariant, PTL

\* The chain of polls has no other ends than the three of Stuck.
THEOREM ChainNeverBreaks == Spec => []ChainAlive
<1>1. Inv => ChainAlive
  BY InvTypes DEF Inv, Good, Alive, ChainAlive, Stuck
<1> QED BY <1>1, PollInvariant, PTL

\* Nothing is asked on a connection whose read event is not armed.
THEOREM AnswersHeard == Spec => []Listened
<1>1. Inv => Listened
  BY InvTypes DEF Inv, Good, Heard, Listened
<1> QED BY <1>1, PollInvariant, PTL

\* plc_connect_handler deletes a write timer that is in the tree.
THEOREM TimerThere == Spec => []TimerHeld
<1>1. Inv => TimerHeld
  BY DEF Inv, Good, Held, TimerHeld
<1> QED BY <1>1, PollInvariant, PTL
=============================================================================
