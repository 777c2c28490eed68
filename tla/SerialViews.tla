---------------------------- MODULE SerialViews -----------------------------
(***************************************************************************)
(* serialCtrl, the control panel gateway: who decides what the screen       *)
(* shows.  The uart thread (_mainLoop) pushes the view the operator keys in *)
(* on voQueue and keeps it in serialCustom.  In the vo thread (_voLoop) the *)
(* scenes of the PLC are pushed as they come; a camera's alarm connection   *)
(* (hik_event.c) pushes the camera's view, starts the osal timer OSAL_VO    *)
(* and tells the PLC of the event; when the timer fires osal_auto_vo pushes *)
(* serialCustom, so that the operator's view comes back; and transVo sends  *)
(* the views from voQueue to rtsp.                                          *)
(*                                                                          *)
(* serialCustom is shared without a lock: its fields are stored one by one  *)
(* by the uart thread and copied one by one by the vo thread, in any order. *)
(*                                                                          *)
(* A view is [cmd, ch]: cmd windows, the ch-th group of cameras; cmd 0 is   *)
(* the scene 0xaa of the PLC.  A copied view carries late, which is TRUE    *)
(* when the copy overlapped a key of the operator: the code then may show a *)
(* view from before, or one nobody chose.  Shown is what transVo was given; *)
(* whether the connection to rtsp is there to carry it is not modelled.     *)
(* The timers may fire at any time; durations are not modelled.  The PLC is *)
(* a Modbus client (protocol 1), without it nobody empties eventQueue.      *)
(***************************************************************************)
EXTENDS Integers, Sequences

CONSTANTS Keyed,           \* views the operator may key in
          FirstView,       \* what init pushes
          Scenes,          \* scene numbers of the PLC
          Cams,            \* cameras that connect, 32 for one that is not in the table
          NumNodes,        \* nodes of hikEventCache, 8 in create_event_server
          MaxQueue, MaxEvents  \* the environment waits while the queues hold that many

ASSUME ViewsAssumption == /\ Keyed \subseteq [cmd : {1, 2, 4, 6, 9, 16}, ch : Int]
                          /\ FirstView \in Keyed
                          /\ Cams \subseteq 0 .. 32 /\ Scenes \subseteq Nat
                          /\ NumNodes \in Nat \ {0}

VARIABLES queue,           \* voQueue
          serial,          \* env->serialCustom
          keyed, toStore,  \* uart thread: the last key, fields not yet stored
          auto,            \* OSAL_VO is running
          copy, toCopy,    \* osal_auto_vo: the copy, fields not yet copied
          shown,           \* the last view transVo was given
          due,             \* the view that should be on screen in the end
          conns,           \* open alarm connections: node (c->data) -> camera
          cache,           \* hikEventCache->cacheNodes
          events, bits,    \* eventQueue, and the alarm bits of holdReg[0]
          crashed          \* accept without a free node

uart == <<serial, keyed, toStore>>
autoVo == <<auto, copy, toCopy>>
alarm == <<conns, cache, events, bits>>
vars == <<queue, uart, autoVo, shown, due, alarm, crashed>>

Fields == {"cmd", "ch"}
NoField == -1
NoCopy == [cmd |-> NoField, ch |-> NoField, late |-> FALSE]
NoCam == -1
Nodes == 1 .. NumNodes
Stranger == 32
BitCams == {5, 6, 10, 11}  \* the cameras readCamEvents knows

\* A view on voQueue, on time.
View(cmd, ch) == [cmd |-> cmd, ch |-> ch, late |-> FALSE]

Init == /\ queue = <<View(FirstView.cmd, FirstView.ch)>>
        /\ serial = FirstView
        /\ keyed = FirstView /\ toStore = {}
        /\ auto = FALSE /\ copy = NoCopy /\ toCopy = {}
        /\ shown = View(FirstView.cmd, FirstView.ch)
        /\ due = FirstView
        /\ conns = [n \in Nodes |-> NoCam]
        /\ cache = [n \in Nodes |-> n]
        /\ events = <<>>
        /\ bits = [c \in BitCams |-> FALSE]
        /\ crashed = FALSE

Runs == ~crashed
VoFree == Runs /\ toCopy = {}
Room == Len(queue) < MaxQueue

-----------------------------------------------------------------------------
(* The uart thread.                                                         *)

\* A key: pushed first, then stored.  One that falls into a copy makes it late.
Press(v) == /\ Runs /\ Room
            /\ toStore = {}
            /\ queue' = Append(queue, View(v.cmd, v.ch))
            /\ keyed' = v /\ toStore' = Fields
            /\ due' = v
            /\ copy' = [copy EXCEPT !.late = toCopy # {}]
            /\ UNCHANGED <<serial, auto, toCopy, shown, alarm, crashed>>

Store(f) == /\ Runs
            /\ f \in toStore
            /\ serial' = [serial EXCEPT ![f] = keyed[f]]
            /\ toStore' = toStore \ {f}
            /\ UNCHANGED <<queue, keyed, autoVo, shown, due, alarm, crashed>>

-----------------------------------------------------------------------------
(* The vo thread: views.                                                    *)

\* What one Modbus write may push: a scene when holdReg[1] changes, the first
\* camera alone when the height does.
Writes == LET height == View(1, 0)
          IN  UNION {{<<View(0, n)>>, <<View(0, n), height>>, <<height>>} : n \in Scenes}

\* handle_modbus (the commands on UDP port 11000 push the same views): no timer,
\* and serialCustom is not changed, so that the return from an alarm leaves the
\* scene.
HandleModbus(vs) ==
  /\ VoFree /\ Room
  /\ queue' = queue \o vs
  /\ due' = IF auto THEN due ELSE [cmd |-> vs[Len(vs)].cmd, ch |-> vs[Len(vs)].ch]
  /\ UNCHANGED <<uart, autoVo, shown, alarm, crashed>>

\* osalRunSystem: OSAL_VO is over, osal_auto_vo begins to copy.
AutoDue == /\ VoFree /\ auto
           /\ auto' = FALSE
           /\ toCopy' = Fields
           /\ copy' = [NoCopy EXCEPT !.late = toStore # {}]
           /\ UNCHANGED <<queue, uart, shown, due, alarm, crashed>>

\* The view is pushed when the first field is there.
CopyHalf(f) ==
  /\ Runs /\ f \in toCopy
  /\ queue' = Append(queue, [copy EXCEPT ![f] = serial[f]])
  /\ toCopy' = {} /\ copy' = NoCopy
  /\ UNCHANGED <<uart, auto, shown, due, alarm, crashed>>

Copy(f) ==
  /\ Runs /\ f \in toCopy
  /\ toCopy' = toCopy \ {f}
  /\ LET copied == [copy EXCEPT ![f] = serial[f]]
     IN  IF toCopy = {f} THEN queue' = Append(queue, copied) /\ copy' = NoCopy
                         ELSE copy' = copied /\ UNCHANGED queue
  /\ UNCHANGED <<uart, auto, shown, due, alarm, crashed>>

\* The windows that have a camera, without the limit for the last groups.
FilledAll(v) == v.cmd

\* The windows that have a camera: 9-3 begins at camera 27, 6-5 at 30.
Filled(v) == LET first == v.cmd * v.ch
                 all == IF first = 27 THEN 5 ELSE IF first = 30 THEN 2 ELSE v.cmd
             IN  IF all < v.cmd THEN all ELSE v.cmd

\* The rows of camConn that transVo reads.
Rows(v) == {v.cmd * v.ch + i : i \in 0 .. Filled(v) - 1}

\* queue_get and transVo: one view a round.
Show == /\ VoFree /\ queue # <<>>
        /\ queue' = Tail(queue)
        /\ shown' = Head(queue)
        /\ UNCHANGED <<uart, autoVo, due, alarm, crashed>>

-----------------------------------------------------------------------------
(* The vo thread: alarms.                                                   *)

\* init_accepted_hik_server_conn: cache_pull, whose NULL is not looked at.
Accept(c) ==
  /\ VoFree /\ Len(events) < MaxEvents
  /\ IF cache = <<>>
     THEN crashed' = TRUE /\ UNCHANGED <<conns, cache>>
     ELSE /\ conns' = [conns EXCEPT ![Head(cache)] = c]
          /\ cache' = Tail(cache)
          /\ UNCHANGED crashed
  /\ UNCHANGED <<queue, uart, autoVo, shown, due, events, bits>>

\* The view of the alarm stays until somebody chooses another one.
AlarmStays(n) ==
  /\ VoFree /\ Room /\ Len(events) < MaxEvents
  /\ conns[n] \notin {NoCam, Stranger}
  /\ queue' = Append(queue, View(1, conns[n]))
  /\ events' = Append(events, [ch |-> conns[n], event |-> 1])
  /\ due' = keyed
  /\ UNCHANGED <<uart, autoVo, shown, conns, cache, bits, crashed>>

\* event_read_handle has a whole message: handEventVo.
Alarm(n) ==
  /\ VoFree /\ Room /\ Len(events) < MaxEvents
  /\ conns[n] \notin {NoCam, Stranger}
  /\ queue' = Append(queue, View(1, conns[n]))
  /\ auto' = TRUE
  /\ events' = Append(events, [ch |-> conns[n], event |-> 1])
  /\ due' = keyed
  /\ UNCHANGED <<uart, copy, toCopy, shown, conns, cache, bits, crashed>>

\* The end of the event is not told.
TimeoutSilent(n) ==
  /\ VoFree /\ conns[n] # NoCam
  /\ cache' = <<n>> \o cache
  /\ conns' = [conns EXCEPT ![n] = NoCam]
  /\ UNCHANGED <<queue, uart, autoVo, shown, due, events, bits, crashed>>

\* The node is not given back.
TimeoutKeeps(n) ==
  /\ VoFree /\ conns[n] # NoCam
  /\ events' = Append(events, [ch |-> conns[n], event |-> 0])
  /\ conns' = [conns EXCEPT ![n] = NoCam]
  /\ UNCHANGED <<queue, uart, autoVo, shown, due, cache, bits, crashed>>

\* event_read_handle, timed out: the 4000 ms that began with the accept are
\* over.  The read that follows is on a closed descriptor and changes nothing.
Timeout(n) ==
  /\ VoFree /\ conns[n] # NoCam
  /\ events' = Append(events, [ch |-> conns[n], event |-> 0])
  /\ cache' = <<n>> \o cache
  /\ conns' = [conns EXCEPT ![n] = NoCam]
  /\ UNCHANGED <<queue, uart, autoVo, shown, due, bits, crashed>>

\* readCamEvents, every 80 ms: one event, and the bit 0x08 of camera 6 is set
\* whatever the event was.
ReadCamEvents ==
  /\ VoFree
  /\ IF events = <<>> THEN bits' = [bits EXCEPT ![6] = TRUE]
     ELSE LET e == Head(events)
          IN  bits' = [c \in BitCams |-> \/ c = 6
                                         \/ IF c = e.ch THEN e.event = 1 ELSE bits[c]]
  /\ events' = IF events = <<>> THEN <<>> ELSE Tail(events)
  /\ UNCHANGED <<queue, uart, autoVo, shown, due, conns, cache, crashed>>

\* Operator, PLC and cameras.
Stir == \/ \E v \in Keyed : Press(v)
        \/ \E vs \in Writes : HandleModbus(vs)
        \/ \E c \in Cams : Accept(c)
        \/ \E n \in Nodes : Alarm(n)

Next == \/ Stir
        \/ \E f \in Fields : Store(f) \/ Copy(f)
        \/ AutoDue \/ Show
        \/ \E n \in Nodes : Timeout(n)
        \/ ReadCamEvents

\* Both threads go on; each alarm connection has a timer of its own, which is
\* over whatever the other connections do.
Fairness == /\ \A f \in Fields : WF_vars(Store(f)) /\ WF_vars(Copy(f))
            /\ WF_vars(AutoDue) /\ WF_vars(Show) /\ SF_vars(ReadCamEvents)
            /\ \A n \in Nodes : SF_vars(Timeout(n))

Spec == Init /\ [][Next]_vars /\ Fairness

-----------------------------------------------------------------------------
Views == [cmd : Nat, ch : Int, late : BOOLEAN]

TypeOK == /\ \A i \in DOMAIN queue : queue[i] \in Views
          /\ shown \in Views
          /\ copy \in [cmd : Nat \cup {NoField}, ch : Int, late : BOOLEAN]
          /\ serial \in [cmd : Nat, ch : Int] /\ keyed \in Keyed
          /\ toStore \subseteq Fields /\ toCopy \subseteq Fields
          /\ auto \in BOOLEAN
          /\ conns \in [Nodes -> Cams \cup {NoCam}]
          /\ \A i \in DOMAIN events : events[i] \in [ch : Cams, event : {0, 1}]
          /\ bits \in [BitCams -> BOOLEAN]
          /\ crashed \in BOOLEAN

\* hik_event.c:59, cache.c: whatever the order of alarms, ends and time-outs, a
\* node is in the cache, once, or belongs to a connection; accept finds the
\* cache empty only when every node is in use.
NodesKept ==
  /\ \A i, j \in DOMAIN cache : cache[i] = cache[j] => i = j
  /\ {cache[i] : i \in DOMAIN cache} = {n \in Nodes : conns[n] = NoCam}
  /\ crashed => \A n \in Nodes : conns[n] # NoCam

\* voProcess.c:165-170: transVo reads a row that camConn[32] does not have only
\* for a key of the operator whose group does not begin in the table, which
\* main.c:57 lets through; never for a group that begins in it, an alarm, a
\* scene or the return from an alarm, which is a view somebody chose.  Only a
\* copy that a key overlapped may mix the windows of one view with the group of
\* another.
RowsInTable == \/ shown.late \/ shown.cmd = 0
               \/ Rows(shown) \subseteq 0 .. 31
               \/ /\ [cmd |-> shown.cmd, ch |-> shown.ch] \in Keyed
                  /\ shown.cmd * shown.ch \notin 0 .. 31

\* When operator, PLC and cameras are done, the screen ends with the view that
\* was due: the last key or scene, and after an alarm the operator's view.
\* Exempt is a copy that overlapped a key, for which the code does nothing.
ViewReturns ==
  \/ []<><<Stir>>_vars
  \/ <>[](\/ crashed \/ shown.late
          \/ [cmd |-> shown.cmd, ch |-> shown.ch] = due)

\* An alarm bit of the PLC is taken back, also while another camera connects and
\* alarms again and again in the same queue; not so that of camera 6, which
\* plcBus.c:495 sets again at every turn.
AlarmEnds == \A c \in (BitCams \cap Cams) \ {6} : bits[c] ~> (crashed \/ ~bits[c])
=============================================================================
