-------------------------- MODULE SerialViews_proofs --------------------------
(***************************************************************************)
(* Proofs about the control panel gateway, for every number of nodes, every *)
(* set of keys, scenes and cameras, and queues of any length.  A key stands  *)
(* for any group of cameras, as in main.c:57, whether the table has it or    *)
(* not.                                                                      *)
(***************************************************************************)
EXTENDS SerialViews, SequenceTheorems, TLAPS

Groups == [cmd : Nat, ch : Int]
CopyStates == [cmd : Nat \cup {NoField}, ch : Int, late : BOOLEAN]
EventStates == [ch : Cams, event : {0, 1}]

\* The types of what does not depend on the nodes.
Types ==
  /\ queue \in Seq(Views) /\ shown \in Views
  /\ copy \in CopyStates /\ serial \in Groups /\ keyed \in Keyed
  /\ toStore \subseteq Fields /\ toCopy \subseteq Fields /\ auto \in BOOLEAN
  /\ events \in Seq(EventStates) /\ bits \in [BitCams -> BOOLEAN]
  /\ conns \in [Nodes -> Cams \cup {NoCam}] /\ crashed \in BOOLEAN

\* What osal_auto_vo has copied of the windows is a number of windows.
Copying == toCopy # {} /\ "cmd" \notin toCopy => copy.cmd \in Nat

\* A node is in the cache, once, or belongs to a connection.
NodesApart ==
  /\ cache \in Seq(Nodes)
  /\ \A i, j \in 1 .. Len(cache) : cache[i] = cache[j] => i = j
  /\ \A n \in Nodes : (\E i \in 1 .. Len(cache) : cache[i] = n) <=> conns[n] = NoCam
  /\ crashed => \A n \in Nodes : conns[n] # NoCam

\* serialCustom is the last key, but for the fields that are still to be stored.
KeyStored == /\ "cmd" \notin toStore => serial.cmd = keyed.cmd
             /\ "ch" \notin toStore => serial.ch = keyed.ch

\* A copy that is on time is a copy of the last key.
CopyOnTime ==
  toCopy # {} /\ ~copy.late =>
    /\ toStore = {}
    /\ "cmd" \notin toCopy => copy.cmd = serial.cmd
    /\ "ch" \notin toCopy => copy.ch = serial.ch

\* Views of which transVo reads no row outside camConn, keys for a group that
\* does not begin there, and late ones.
ViewsInTable ==
  {v \in Views : \/ v.late \/ v.cmd = 0
                 \/ Rows(v) \subseteq 0 .. 31
                 \/ /\ [cmd |-> v.cmd, ch |-> v.ch] \in Keyed
                    /\ v.cmd * v.ch \notin 0 .. 31}

\* The inductive invariant.
ViewInv == Types /\ Copying

\* What it takes for a view to be one that somebody chose.
RowInv == KeyStored /\ CopyOnTime /\ queue \in Seq(ViewsInTable) /\ shown \in ViewsInTable
-----------------------------------------------------------------------------
(* Queues and copies.                                                       *)

\* What queue_get leaves of a queue.
LEMMA HeadTail ==
  ASSUME NEW S, NEW s \in Seq(S), s # <<>>
  PROVE  Head(s) \in S /\ Tail(s) \in Seq(S)
  BY HeadTailProperties

\* The views of a key, an alarm or a scene.
LEMMA ViewFields ==
  ASSUME NEW cmd \in Nat, NEW ch \in Int
  PROVE  /\ View(cmd, ch) \in Views
         /\ View(cmd, ch).cmd = cmd /\ View(cmd, ch).ch = ch /\ View(cmd, ch).late = FALSE
  BY DEF View, Views

\* What the keys of the panel stand for.
LEMMA KeyFields ==
  ASSUME NEW v \in Keyed
  PROVE  /\ v \in Groups /\ v.cmd \in Nat /\ v.ch \in Int
         /\ v.cmd \in {1, 2, 4, 6, 9, 16} /\ v = [cmd |-> v.cmd, ch |-> v.ch]
<1>1. v \in [cmd : {1, 2, 4, 6, 9, 16}, ch : Int]
  BY ViewsAssumption
<1> QED BY <1>1 DEF Groups

\* One field of the copy, in full.
LEMMA CopiedField ==
  ASSUME Types, Copying, NEW f \in toCopy
  PROVE  LET copied == [copy EXCEPT ![f] = serial[f]]
         IN  /\ f \in {"cmd", "ch"}
             /\ copied \in CopyStates /\ copied.late = copy.late
             /\ copied.cmd = (IF f = "cmd" THEN serial.cmd ELSE copy.cmd)
             /\ copied.ch = (IF f = "ch" THEN serial.ch ELSE copy.ch)
             /\ toCopy = {f} => copied \in Views
<1>1. /\ copy \in CopyStates /\ serial \in Groups /\ f \in {"cmd", "ch"}
  BY DEF Types, Fields
<1>2. serial.cmd \in Nat /\ serial.ch \in Int
  BY <1>1 DEF Groups
<1>3. toCopy = {f} /\ f = "ch" => copy.cmd \in Nat
  BY DEF Copying
<1>4. CASE f = "cmd"
  BY <1>1, <1>2, <1>3, <1>4 DEF CopyStates, Views
<1>5. CASE f = "ch"
  BY <1>1, <1>2, <1>3, <1>5 DEF CopyStates, Views
<1> QED BY <1>1, <1>4, <1>5

\* Every view in voQueue is that of a key, an alarm, a scene, the height of the
\* PLC, or a copy of serialCustom.
LEMMA Pushed ==
  ASSUME NEW V, queue \in Seq(V), shown \in V, [Next]_vars,
         conns \in [Nodes -> Cams \cup {NoCam}],
         \A v \in Keyed : View(v.cmd, v.ch) \in V,
         \A c \in Cams \ {Stranger} : View(1, c) \in V,
         \A n \in Scenes : View(0, n) \in V, View(1, 0) \in V,
         \A f \in toCopy : toCopy = {f} => [copy EXCEPT ![f] = serial[f]] \in V
  PROVE  queue' \in Seq(V) /\ shown' \in V
<1>1. ASSUME NEW v \in V
      PROVE  Append(queue, v) \in Seq(V)
  BY AppendProperties
<1>2. CASE \E v \in Keyed : Press(v)
  BY <1>1, <1>2 DEF Press
<1>3. CASE \E f \in Fields : Store(f)
  BY <1>3 DEF Store
<1>4. CASE \E f \in Fields : Copy(f)
  BY <1>1, <1>4 DEF Copy
<1>5. CASE \E vs \in Writes : HandleModbus(vs)
  <2>1. PICK vs \in Writes : HandleModbus(vs)
    BY <1>5
  <2>2. PICK n \in Scenes :
          vs \in {<<View(0, n)>>, <<View(0, n), View(1, 0)>>, <<View(1, 0)>>}
    BY <2>1 DEF Writes
  <2>3. vs \in Seq(V)
    <3>1. ASSUME NEW a \in V, NEW b \in V
          PROVE  <<a>> \in Seq(V) /\ <<a, b>> \in Seq(V)
      OBVIOUS
    <3> QED BY <2>2, <3>1
  <2>4. queue \o vs \in Seq(V)
    BY <2>3, ConcatProperties
  <2> QED BY <2>1, <2>4 DEF HandleModbus
<1>6. CASE AutoDue
  BY <1>6 DEF AutoDue
<1>7. CASE Show
  BY <1>7, HeadTail DEF Show
<1>8. CASE \E c \in Cams : Accept(c)
  BY <1>8 DEF Accept
<1>9. CASE \E n \in Nodes : Alarm(n)
  <2>1. PICK n \in Nodes : Alarm(n)
    BY <1>9
  <2>2. conns[n] \in Cams \ {Stranger}
    BY <2>1 DEF Alarm
  <2> QED BY <1>1, <2>1, <2>2 DEF Alarm
<1>10. CASE \E n \in Nodes : Timeout(n)
  BY <1>10 DEF Timeout
<1>11. CASE ReadCamEvents
  BY <1>11 DEF ReadCamEvents
<1>12. CASE UNCHANGED vars
  BY <1>12 DEF vars
<1> QED BY <1>2, <1>3, <1>4, <1>5, <1>6, <1>7, <1>8, <1>9, <1>10, <1>11, <1>12
        DEF Next, Stir
-----------------------------------------------------------------------------
(* Types and nodes.                                                         *)

\* Queues, copies and connections keep their types.
LEMMA TypesNext ==
  ASSUME ViewInv, NodesApart, [Next]_vars
  PROVE  ViewInv'
<1>1. Types /\ Copying
  BY DEF ViewInv
<1>2. queue' \in Seq(Views) /\ shown' \in Views
  <2>1. \A v \in Keyed : View(v.cmd, v.ch) \in Views
    BY ViewFields, KeyFields
  <2>2. /\ \A c \in Cams \ {Stranger} : View(1, c) \in Views
        /\ \A n \in Scenes : View(0, n) \in Views
        /\ View(1, 0) \in Views
    <3>1. Cams \subseteq Int /\ Scenes \subseteq Int /\ 0 \in Nat /\ 1 \in Nat /\ 0 \in Int
      BY ViewsAssumption
    <3> QED BY <3>1, ViewFields
  <2>3. \A f \in toCopy : toCopy = {f} => [copy EXCEPT ![f] = serial[f]] \in Views
    BY <1>1, CopiedField
  <2> QED BY <1>1, <2>1, <2>2, <2>3, Pushed DEF Types
<1>3. /\ copy \in CopyStates /\ serial \in Groups /\ keyed \in Keyed
      /\ toStore \subseteq Fields /\ toCopy \subseteq Fields /\ auto \in BOOLEAN
      /\ events \in Seq(EventStates) /\ bits \in [BitCams -> BOOLEAN]
      /\ conns \in [Nodes -> Cams \cup {NoCam}] /\ crashed \in BOOLEAN
  BY <1>1 DEF Types
<1>4. CASE \E v \in Keyed : Press(v)
  <2>1. PICK v \in Keyed : Press(v)
    BY <1>4
  <2>2. /\ copy' = [copy EXCEPT !.late = toCopy # {}] /\ keyed' = v /\ toStore' = Fields
        /\ UNCHANGED <<serial, auto, toCopy, events, bits, conns, crashed>>
    BY <2>1 DEF Press, alarm
  <2>3. copy' \in CopyStates /\ copy'.cmd = copy.cmd /\ copy'.ch = copy.ch
    BY <1>3, <2>2 DEF CopyStates
  <2>4. Types'
    BY <1>2, <1>3, <2>2, <2>3 DEF Types
  <2> QED BY <1>1, <2>2, <2>3, <2>4 DEF ViewInv, Copying
<1>5. CASE \E f \in Fields : Store(f)
  <2>1. PICK f \in Fields : Store(f)
    BY <1>5
  <2>2. /\ serial' = [serial EXCEPT ![f] = keyed[f]] /\ toStore' = toStore \ {f}
        /\ UNCHANGED <<keyed, auto, copy, toCopy, events, bits, conns, crashed>>
    BY <2>1 DEF Store, autoVo, alarm
  <2>3. serial' \in Groups
    <3>1. keyed.cmd \in Nat /\ keyed.ch \in Int
      BY <1>3, KeyFields
    <3>2. f \in {"cmd", "ch"}
      BY DEF Fields
    <3> QED BY <1>3, <2>2, <3>1, <3>2 DEF Groups
  <2>4. Types'
    BY <1>2, <1>3, <2>2, <2>3 DEF Types
  <2> QED BY <1>1, <2>2, <2>4 DEF ViewInv, Copying
<1>6. CASE \E f \in Fields : Copy(f)
  <2>1. PICK f \in Fields : Copy(f)
    BY <1>6
  <2> DEFINE copied == [copy EXCEPT ![f] = serial[f]]
  <2>2. /\ f \in toCopy /\ toCopy' = toCopy \ {f}
        /\ IF toCopy = {f} THEN copy' = NoCopy ELSE copy' = copied
        /\ UNCHANGED <<serial, keyed, toStore, auto, events, bits, conns, crashed>>
    BY <2>1 DEF Copy, uart, alarm
  <2>3. /\ f \in {"cmd", "ch"} /\ copied \in CopyStates
        /\ copied.cmd = (IF f = "cmd" THEN serial.cmd ELSE copy.cmd)
        /\ copied.ch = (IF f = "ch" THEN serial.ch ELSE copy.ch)
    BY <1>1, <2>2, CopiedField
  <2> HIDE DEF copied
  <2>4. NoCopy \in CopyStates
    BY DEF NoCopy, NoField, CopyStates
  <2>5. Types'
    BY <1>2, <1>3, <2>2, <2>3, <2>4 DEF Types
  <2>6. Copying'
    <3>1. serial.cmd \in Nat
      BY <1>3 DEF Groups
    <3>2. CASE toCopy = {f}
      BY <2>2, <3>2 DEF Copying
    <3>3. CASE toCopy # {f}
      <4>1. "cmd" \notin toCopy => copy.cmd \in Nat
        BY <1>1, <2>2 DEF Copying
      <4> QED BY <2>2, <2>3, <3>1, <3>3, <4>1 DEF Copying
    <3> QED BY <3>2, <3>3
  <2> QED BY <2>5, <2>6 DEF ViewInv
<1>7. CASE AutoDue
  <2>1. /\ auto' = FALSE /\ toCopy' = Fields /\ copy' = [NoCopy EXCEPT !.late = toStore # {}]
        /\ UNCHANGED <<serial, keyed, toStore, events, bits, conns, crashed>>
    BY <1>7 DEF AutoDue, uart, alarm
  <2>2. copy' \in CopyStates
    <3>1. NoCopy \in CopyStates /\ (toStore # {}) \in BOOLEAN
      BY DEF NoCopy, NoField, CopyStates
    <3> QED BY <2>1, <3>1 DEF CopyStates
  <2>3. Types'
    BY <1>2, <1>3, <2>1, <2>2 DEF Types
  <2> QED BY <2>1, <2>3 DEF ViewInv, Copying, Fields
<1>8. CASE \E n \in Nodes : Alarm(n)
  <2>1. PICK n \in Nodes : Alarm(n)
    BY <1>8
  <2>2. /\ auto' = TRUE /\ events' = Append(events, [ch |-> conns[n], event |-> 1])
        /\ conns[n] \in Cams
        /\ UNCHANGED <<serial, keyed, toStore, copy, toCopy, bits, conns, crashed>>
    BY <1>3, <2>1 DEF Alarm, uart
  <2>3. [ch |-> conns[n], event |-> 1] \in EventStates
    BY <2>2 DEF EventStates
  <2>4. events' \in Seq(EventStates)
    BY <1>3, <2>2, <2>3, AppendProperties
  <2>5. Types'
    BY <1>2, <1>3, <2>2, <2>4 DEF Types
  <2> QED BY <1>1, <2>2, <2>5 DEF ViewInv, Copying
<1>9. CASE \E n \in Nodes : Timeout(n)
  <2>1. PICK n \in Nodes : Timeout(n)
    BY <1>9
  <2>2. /\ events' = Append(events, [ch |-> conns[n], event |-> 0])
        /\ conns[n] \in Cams /\ conns' = [conns EXCEPT ![n] = NoCam]
        /\ UNCHANGED <<serial, keyed, toStore, auto, copy, toCopy, bits, crashed>>
    BY <1>3, <2>1 DEF Timeout, uart, autoVo
  <2>3. [ch |-> conns[n], event |-> 0] \in EventStates
    BY <2>2 DEF EventStates
  <2>4. events' \in Seq(EventStates)
    BY <1>3, <2>2, <2>3, AppendProperties
  <2>5. Types'
    BY <1>2, <1>3, <2>2, <2>4 DEF Types
  <2> QED BY <1>1, <2>2, <2>5 DEF ViewInv, Copying
<1>10. CASE ReadCamEvents
  <2>1. UNCHANGED <<serial, keyed, toStore, auto, copy, toCopy, conns, crashed>>
    BY <1>10 DEF ReadCamEvents, uart, autoVo
  <2>2. events' \in Seq(EventStates)
    <3>1. events' = IF events = <<>> THEN events ELSE Tail(events)
      BY <1>10 DEF ReadCamEvents
    <3> QED BY <1>3, <3>1, HeadTail
  <2>3. bits' \in [BitCams -> BOOLEAN]
    <3>1. CASE events = <<>>
      <4>1. bits' = [bits EXCEPT ![6] = TRUE]
        BY <1>10, <3>1 DEF ReadCamEvents
      <4> QED BY <1>3, <4>1
    <3>2. CASE events # <<>>
      <4>1. bits' = [c \in BitCams |-> \/ c = 6
                                       \/ IF c = Head(events).ch THEN Head(events).event = 1
                                          ELSE bits[c]]
        BY <1>10, <3>2 DEF ReadCamEvents
      <4>2. \A c \in BitCams : bits[c] \in BOOLEAN
        BY <1>3
      <4> QED BY <4>1, <4>2, Zenon
    <3> QED BY <3>1, <3>2
  <2>4. Types'
    BY <1>2, <1>3, <2>1, <2>2, <2>3 DEF Types
  <2> QED BY <1>1, <2>1, <2>4 DEF ViewInv, Copying
<1>11. CASE \E c \in Cams : Accept(c)
  <2>1. PICK c \in Cams : Accept(c)
    BY <1>11
  <2>2. /\ UNCHANGED <<serial, keyed, toStore, auto, copy, toCopy, events, bits>>
        /\ crashed' \in BOOLEAN
    BY <1>3, <2>1 DEF Accept, uart, autoVo
  <2>3. conns' \in [Nodes -> Cams \cup {NoCam}]
    BY <1>3, <2>1 DEF Accept
  <2>4. Types'
    BY <1>2, <1>3, <2>2, <2>3 DEF Types
  <2> QED BY <1>1, <2>2, <2>4 DEF ViewInv, Copying
<1>12. CASE (\E vs \in Writes : HandleModbus(vs)) \/ Show \/ UNCHANGED vars
  <2>1. UNCHANGED <<serial, keyed, toStore, auto, copy, toCopy, events, bits, conns, crashed>>
    BY <1>12 DEF HandleModbus, Show, vars, uart, autoVo, alarm
  <2>2. Types'
    BY <1>2, <1>3, <2>1 DEF Types
  <2> QED BY <1>1, <2>1, <2>2 DEF ViewInv, Copying
<1> QED BY <1>4, <1>5, <1>6, <1>7, <1>8, <1>9, <1>10, <1>11, <1>12 DEF Next, Stir

\* accept moves a node from the cache to a connection, the time-out moves it
\* back, and nothing else touches nodes.
LEMMA NodesNext ==
  ASSUME ViewInv, NodesApart, [Next]_vars
  PROVE  NodesApart'
<1>1. /\ conns \in [Nodes -> Cams \cup {NoCam}]
      /\ cache \in Seq(Nodes) /\ Len(cache) \in Nat
      /\ \A i, j \in 1 .. Len(cache) : cache[i] = cache[j] => i = j
      /\ \A n \in Nodes : (\E i \in 1 .. Len(cache) : cache[i] = n) <=> conns[n] = NoCam
      /\ crashed => \A n \in Nodes : conns[n] # NoCam
  BY LenProperties DEF NodesApart, ViewInv, Types
<1>2. \A c \in Cams : c # NoCam
  BY ViewsAssumption DEF NoCam
<1>3. CASE \E c \in Cams : Accept(c)
  <2>1. PICK c \in Cams : Accept(c)
    BY <1>3
  <2>2. CASE cache = <<>>
    <3>1. conns' = conns /\ cache' = cache
      BY <2>1, <2>2 DEF Accept
    <3>2. \A n \in Nodes : conns[n] # NoCam
      <4>1. ~ \E i \in 1 .. Len(cache) : TRUE
        BY <2>2
      <4> QED BY <1>1, <4>1
    <3> QED BY <1>1, <3>1, <3>2 DEF NodesApart
  <2>3. CASE cache # <<>>
    <3> DEFINE n == Head(cache)
    <3>1. /\ conns' = [conns EXCEPT ![n] = c] /\ cache' = Tail(cache)
          /\ crashed' = crashed /\ ~crashed
      BY <2>1, <2>3 DEF Accept, VoFree, Runs
    <3>2. /\ n \in Nodes /\ n = cache[1] /\ cache' \in Seq(Nodes)
          /\ Len(cache') = Len(cache) - 1 /\ Len(cache) > 0
          /\ \A i \in 1 .. Len(cache') : cache'[i] = cache[i + 1]
      <4>1. Head(cache) = cache[1]
        BY <1>1, <2>3
      <4>2. Len(cache) > 0
        BY <1>1, <2>3, EmptySeq
      <4> QED BY <1>1, <2>3, <3>1, <4>1, <4>2, HeadTailProperties
    <3> HIDE DEF n
    <3>3. conns'[n] = c /\ \A m \in Nodes \ {n} : conns'[m] = conns[m]
      BY <1>1, <3>1, <3>2
    <3>4. \A i, j \in 1 .. Len(cache') : cache'[i] = cache'[j] => i = j
      <4>1. \A i \in 1 .. Len(cache') : i \in Int /\ i + 1 \in 1 .. Len(cache)
        BY <1>1, <3>2
      <4> QED BY <1>1, <3>2, <4>1
    <3>5. ASSUME NEW m \in Nodes
          PROVE  (\E i \in 1 .. Len(cache') : cache'[i] = m)
                   <=> m # n /\ \E i \in 1 .. Len(cache) : cache[i] = m
      <4>1. ASSUME NEW i \in 1 .. Len(cache'), cache'[i] = m
            PROVE  m # n /\ \E j \in 1 .. Len(cache) : cache[j] = m
        <5>1. i + 1 \in 1 .. Len(cache) /\ cache[i + 1] = m /\ i + 1 # 1
              /\ 1 \in 1 .. Len(cache)
          BY <1>1, <3>2, <4>1
        <5> QED BY <1>1, <3>2, <5>1
      <4>2. ASSUME m # n, NEW j \in 1 .. Len(cache), cache[j] = m
            PROVE  \E i \in 1 .. Len(cache') : cache'[i] = m
        <5>1. j # 1
          BY <3>2, <4>2
        <5>2. j - 1 \in 1 .. Len(cache') /\ cache'[j - 1] = cache[(j - 1) + 1]
              /\ (j - 1) + 1 = j
          BY <1>1, <3>2, <5>1
        <5> QED BY <4>2, <5>2
      <4> QED BY <4>1, <4>2
    <3>6. \A m \in Nodes : (\E i \in 1 .. Len(cache') : cache'[i] = m) <=> conns'[m] = NoCam
      BY <1>1, <1>2, <3>3, <3>5
    <3> QED BY <3>1, <3>2, <3>4, <3>6 DEF NodesApart
  <2> QED BY <2>2, <2>3
<1>4. CASE \E n \in Nodes : Timeout(n)
  <2>1. PICK n \in Nodes : Timeout(n)
    BY <1>4
  <2> DEFINE t == <<n>> \o cache
  <2>2. /\ conns[n] # NoCam /\ cache' = t
        /\ conns' = [conns EXCEPT ![n] = NoCam] /\ crashed' = crashed /\ ~crashed
    BY <2>1 DEF Timeout, VoFree, Runs
  <2>3. /\ t \in Seq(Nodes) /\ Len(t) = Len(cache) + 1 /\ t[1] = n
        /\ \A i \in 2 .. Len(t) : t[i] = cache[i - 1]
    <3>1. <<n>> \in Seq(Nodes) /\ Len(<<n>>) = 1 /\ <<n>>[1] = n
      OBVIOUS
    <3> QED BY <1>1, <3>1, ConcatProperties
  <2> HIDE DEF t
  <2>4. conns'[n] = NoCam /\ \A m \in Nodes \ {n} : conns'[m] = conns[m]
    BY <1>1, <2>2
  <2>5. ~ \E i \in 1 .. Len(cache) : cache[i] = n
    BY <1>1, <2>2
  <2>6. \A i, j \in 1 .. Len(t) : t[i] = t[j] => i = j
    <3>1. \A i \in 2 .. Len(t) : i - 1 \in 1 .. Len(cache) /\ t[i] = cache[i - 1] /\ t[i] # n
      <4>1. \A i \in 2 .. Len(t) : i - 1 \in 1 .. Len(cache)
        BY <1>1, <2>3
      <4> QED BY <2>3, <2>5, <4>1
    <3>2. \A i \in 1 .. Len(t) : i = 1 \/ i \in 2 .. Len(t)
      BY <1>1, <2>3
    <3>3. ASSUME NEW i \in 2 .. Len(t), NEW j \in 2 .. Len(t), t[i] = t[j]
          PROVE  i = j
      <4> DEFINE a == i - 1
                 b == j - 1
      <4>1. a \in 1 .. Len(cache) /\ b \in 1 .. Len(cache) /\ cache[a] = cache[b]
        BY <3>1, <3>3
      <4>2. i \in Int /\ j \in Int
        OBVIOUS
      <4>3. a = b
        <5> HIDE DEF a, b
        <5> QED BY <1>1, <4>1
      <4> QED BY <4>2, <4>3
    <3> QED BY <2>3, <3>1, <3>2, <3>3
  <2>7. ASSUME NEW m \in Nodes
        PROVE  (\E i \in 1 .. Len(t) : t[i] = m)
                 <=> m = n \/ \E i \in 1 .. Len(cache) : cache[i] = m
    <3>1. ASSUME NEW i \in 1 .. Len(t), t[i] = m, m # n
          PROVE  \E j \in 1 .. Len(cache) : cache[j] = m
      <4>1. i # 1
        BY <2>3, <3>1
      <4>2. i - 1 \in 1 .. Len(cache) /\ t[i] = cache[i - 1]
        BY <1>1, <2>3, <4>1
      <4> QED BY <3>1, <4>2
    <3>2. ASSUME NEW j \in 1 .. Len(cache)
          PROVE  j + 1 \in 1 .. Len(t) /\ t[j + 1] = cache[j]
      BY <1>1, <2>3
    <3>3. 1 \in 1 .. Len(t)
      BY <1>1, <2>3
    <3> QED BY <2>3, <3>1, <3>2, <3>3
  <2>8. \A m \in Nodes : (\E i \in 1 .. Len(cache') : cache'[i] = m) <=> conns'[m] = NoCam
    BY <1>1, <2>2, <2>4, <2>7
  <2>9. cache' \in Seq(Nodes) /\ ~crashed'
        /\ \A i, j \in 1 .. Len(cache') : cache'[i] = cache'[j] => i = j
    BY <2>2, <2>3, <2>6
  <2> QED BY <2>8, <2>9 DEF NodesApart
<1>5. CASE \/ \E v \in Keyed : Press(v)
           \/ \E f \in Fields : Store(f) \/ Copy(f)
           \/ \E vs \in Writes : HandleModbus(vs)
           \/ \E n \in Nodes : Alarm(n)
           \/ AutoDue \/ Show \/ ReadCamEvents \/ UNCHANGED vars
  <2>1. conns' = conns /\ cache' = cache /\ crashed' = crashed
    BY <1>5 DEF Press, Store, Copy, HandleModbus, Alarm, AutoDue, Show, ReadCamEvents,
                vars, alarm
  <2> QED BY <1>1, <2>1 DEF NodesApart
<1> QED BY <1>3, <1>4, <1>5 DEF Next, Stir
-----------------------------------------------------------------------------
(* Rows of camConn.                                                         *)

\* The limits of transVo for the last groups, 9-3 and 6-5, keep every group
\* that begins in the table within it.
LEMMA GroupsFit ==
  ASSUME NEW v \in Views, v.cmd \in {1, 2, 4, 6, 9, 16}, v.cmd * v.ch \in 0 .. 31
  PROVE  v \in ViewsInTable
<1> DEFINE ch == v.ch
           first == v.cmd * ch
<1>1. ch \in Int /\ v.cmd \in Nat
  BY DEF Views
<1>2. first \in Nat /\ first + Filled(v) <= 32 /\ Filled(v) \in Nat
  <2>1. Filled(v) = LET all == IF first = 27 THEN 5 ELSE IF first = 30 THEN 2 ELSE v.cmd
                    IN  IF all < v.cmd THEN all ELSE v.cmd
    BY DEF Filled
  <2>2. first \in 0 .. 31
    OBVIOUS
  <2> HIDE DEF ch
  <2>3. CASE v.cmd = 1
    BY <1>1, <2>1, <2>2, <2>3
  <2>4. CASE v.cmd = 2
    BY <1>1, <2>1, <2>2, <2>4
  <2>5. CASE v.cmd = 4
    BY <1>1, <2>1, <2>2, <2>5
  <2>6. CASE v.cmd = 6
    BY <1>1, <2>1, <2>2, <2>6
  <2>7. CASE v.cmd = 9
    BY <1>1, <2>1, <2>2, <2>7
  <2>8. CASE v.cmd = 16
    BY <1>1, <2>1, <2>2, <2>8
  <2> QED BY <2>3, <2>4, <2>5, <2>6, <2>7, <2>8
<1>3. Rows(v) = {first + i : i \in 0 .. Filled(v) - 1}
  BY DEF Rows
<1> HIDE DEF first
<1>4. \A i \in 0 .. Filled(v) - 1 : first + i \in 0 .. 31
  BY <1>2
<1>5. Rows(v) \subseteq 0 .. 31
  BY <1>3, <1>4
<1> QED BY <1>5 DEF ViewsInTable

\* A key is pushed as it is, whether its group begins in the table or not; the
\* limits of transVo do for the former.
LEMMA KeyFits ==
  ASSUME NEW v \in Views, [cmd |-> v.cmd, ch |-> v.ch] \in Keyed
  PROVE  v \in ViewsInTable
<1> DEFINE k == [cmd |-> v.cmd, ch |-> v.ch]
<1>1. k.cmd \in {1, 2, 4, 6, 9, 16}
  <2> HIDE DEF k
  <2> QED BY KeyFields DEF k
<1>2. v.cmd \in {1, 2, 4, 6, 9, 16}
  BY <1>1
<1>3. CASE v.cmd * v.ch \in 0 .. 31
  BY <1>2, <1>3, GroupsFit
<1>4. CASE v.cmd * v.ch \notin 0 .. 31
  BY <1>4 DEF ViewsInTable
<1> QED BY <1>3, <1>4

\* What is pushed on time is a key of the operator or a group of the table.
LEMMA PushedFit ==
  ASSUME ViewInv, RowInv
  PROVE  /\ \A v \in Keyed : View(v.cmd, v.ch) \in ViewsInTable
         /\ \A c \in Cams \ {Stranger} : View(1, c) \in ViewsInTable
         /\ \A n \in Scenes : View(0, n) \in ViewsInTable
         /\ View(1, 0) \in ViewsInTable
         /\ \A f \in toCopy :
              toCopy = {f} => [copy EXCEPT ![f] = serial[f]] \in ViewsInTable
<1>1. ASSUME NEW v \in Keyed
      PROVE  View(v.cmd, v.ch) \in ViewsInTable
  <2>1. v.cmd \in Nat /\ v.ch \in Int /\ v = [cmd |-> v.cmd, ch |-> v.ch]
    BY KeyFields
  <2>2. /\ View(v.cmd, v.ch) \in Views
        /\ View(v.cmd, v.ch).cmd = v.cmd /\ View(v.cmd, v.ch).ch = v.ch
    BY <2>1, ViewFields
  <2> QED BY <2>1, <2>2, KeyFits
<1>2. ASSUME NEW c \in 0 .. 31
      PROVE  View(1, c) \in ViewsInTable
  <2>1. View(1, c) \in Views /\ View(1, c).cmd = 1 /\ View(1, c).ch = c
    <3>1. 1 \in Nat /\ c \in Int
      OBVIOUS
    <3> QED BY <3>1, ViewFields
  <2>2. View(1, c).cmd * View(1, c).ch \in 0 .. 31
    BY <2>1
  <2> QED BY <2>1, <2>2, GroupsFit
<1>3. \A c \in Cams \ {Stranger} : c \in 0 .. 31
  BY ViewsAssumption DEF Stranger
<1>4. ASSUME NEW n \in Scenes
      PROVE  View(0, n) \in ViewsInTable
  <2>1. n \in Int /\ 0 \in Nat
    BY ViewsAssumption
  <2> QED BY <2>1, ViewFields DEF ViewsInTable
<1>5. ASSUME NEW f \in toCopy, toCopy = {f}
      PROVE  [copy EXCEPT ![f] = serial[f]] \in ViewsInTable
  <2> DEFINE copied == [copy EXCEPT ![f] = serial[f]]
  <2> SUFFICES copied \in ViewsInTable
    OBVIOUS
  <2>1. /\ f \in {"cmd", "ch"} /\ copied.late = copy.late /\ copied \in Views
        /\ copied.cmd = (IF f = "cmd" THEN serial.cmd ELSE copy.cmd)
        /\ copied.ch = (IF f = "ch" THEN serial.ch ELSE copy.ch)
    <3>1. Types /\ Copying
      BY DEF ViewInv
    <3> QED BY <1>5, <3>1, CopiedField
  <2> HIDE DEF copied
  <2>2. CASE copy.late
    BY <2>1, <2>2 DEF ViewsInTable
  <2>3. CASE ~copy.late
    <3>1. /\ toStore = {}
          /\ "cmd" \notin toCopy => copy.cmd = serial.cmd
          /\ "ch" \notin toCopy => copy.ch = serial.ch
      BY <2>3 DEF RowInv, CopyOnTime
    <3>2. serial.cmd = keyed.cmd /\ serial.ch = keyed.ch
      BY <3>1 DEF RowInv, KeyStored
    <3>3. copied.cmd = keyed.cmd /\ copied.ch = keyed.ch
      BY <1>5, <2>1, <3>1, <3>2
    <3>4. keyed \in Keyed /\ keyed = [cmd |-> keyed.cmd, ch |-> keyed.ch]
      BY KeyFields DEF ViewInv, Types
    <3>5. [cmd |-> copied.cmd, ch |-> copied.ch] \in Keyed
      BY <3>3, <3>4
    <3> QED BY <2>1, <3>5, KeyFits
  <2> QED BY <2>2, <2>3
<1> QED BY <1>1, <1>2, <1>3, <1>4, <1>5

\* A key marks a copy it falls into; a copy on time copies the last key.
LEMMA RowsNext ==
  ASSUME ViewInv, RowInv, [Next]_vars
  PROVE  RowInv'
<1>1. queue' \in Seq(ViewsInTable) /\ shown' \in ViewsInTable
  BY PushedFit, Pushed DEF RowInv, ViewInv, Types
<1>2. /\ KeyStored /\ CopyOnTime /\ Types /\ Copying
      /\ copy \in CopyStates /\ serial \in Groups /\ toStore \subseteq {"cmd", "ch"}
      /\ toCopy \subseteq {"cmd", "ch"}
  BY DEF RowInv, ViewInv, Types, Fields
<1>3. CASE \E v \in Keyed : Press(v)
  <2>1. /\ toStore' = Fields /\ toCopy' = toCopy
        /\ copy' = [copy EXCEPT !.late = toCopy # {}]
    BY <1>3 DEF Press
  <2>2. copy'.late = (toCopy # {})
    BY <1>2, <2>1 DEF CopyStates
  <2> QED BY <1>1, <2>1, <2>2 DEF RowInv, KeyStored, CopyOnTime, Fields
<1>4. CASE \E f \in Fields : Store(f)
  <2>1. PICK f \in Fields : Store(f)
    BY <1>4
  <2>2. /\ f \in toStore /\ f \in {"cmd", "ch"}
        /\ serial' = [serial EXCEPT ![f] = keyed[f]] /\ toStore' = toStore \ {f}
        /\ UNCHANGED <<keyed, copy, toCopy>>
    BY <2>1 DEF Store, autoVo, Fields
  <2>3. /\ f = "cmd" => serial'.cmd = keyed.cmd /\ serial'.ch = serial.ch
        /\ f = "ch" => serial'.ch = keyed.ch /\ serial'.cmd = serial.cmd
    BY <1>2, <2>2 DEF Groups
  <2>4. KeyStored'
    BY <1>2, <2>2, <2>3 DEF KeyStored
  <2>5. CopyOnTime'
    BY <1>2, <2>2 DEF CopyOnTime
  <2> QED BY <1>1, <2>4, <2>5 DEF RowInv
<1>5. CASE \E f \in Fields : Copy(f)
  <2>1. PICK f \in Fields : Copy(f)
    BY <1>5
  <2> DEFINE copied == [copy EXCEPT ![f] = serial[f]]
  <2>2. /\ f \in toCopy /\ toCopy' = toCopy \ {f}
        /\ IF toCopy = {f} THEN copy' = NoCopy ELSE copy' = copied
        /\ UNCHANGED <<serial, keyed, toStore>>
    BY <2>1 DEF Copy, uart
  <2>3. /\ f \in {"cmd", "ch"} /\ copied.late = copy.late
        /\ copied.cmd = (IF f = "cmd" THEN serial.cmd ELSE copy.cmd)
        /\ copied.ch = (IF f = "ch" THEN serial.ch ELSE copy.ch)
    BY <1>2, <2>2, CopiedField
  <2> HIDE DEF copied
  <2>4. KeyStored'
    BY <1>2, <2>2 DEF KeyStored
  <2>5. CopyOnTime'
    BY <1>2, <2>2, <2>3 DEF CopyOnTime
  <2> QED BY <1>1, <2>4, <2>5 DEF RowInv
<1>6. CASE AutoDue
  <2>1. /\ toCopy' = Fields /\ copy' = [NoCopy EXCEPT !.late = toStore # {}]
        /\ UNCHANGED <<serial, keyed, toStore>>
    BY <1>6 DEF AutoDue, uart
  <2>2. copy'.late = (toStore # {})
    BY <2>1 DEF NoCopy
  <2>3. KeyStored'
    BY <1>2, <2>1 DEF KeyStored
  <2>4. CopyOnTime'
    BY <2>1, <2>2 DEF CopyOnTime, Fields
  <2> QED BY <1>1, <2>3, <2>4 DEF RowInv
<1>7. CASE \/ \E vs \in Writes : HandleModbus(vs)
           \/ \E c \in Cams : Accept(c)
           \/ \E n \in Nodes : Alarm(n) \/ Timeout(n)
           \/ Show \/ ReadCamEvents \/ UNCHANGED vars
  <2>1. UNCHANGED <<serial, keyed, toStore, copy, toCopy>>
    BY <1>7 DEF HandleModbus, Accept, Alarm, Timeout, Show, ReadCamEvents, vars,
                uart, autoVo
  <2> QED BY <1>1, <1>2, <2>1 DEF RowInv, KeyStored, CopyOnTime
<1> QED BY <1>3, <1>4, <1>5, <1>6, <1>7 DEF Next, Stir
-----------------------------------------------------------------------------
(* What every behaviour of the gateway keeps.                               *)

\* The invariants hold when serialCtrl starts.
LEMMA ViewsInit ==
  ASSUME Init
  PROVE  ViewInv /\ NodesApart /\ RowInv
<1> DEFINE first == View(FirstView.cmd, FirstView.ch)
<1>1. FirstView \in Keyed /\ NumNodes \in Nat \ {0}
  BY ViewsAssumption
<1>2. /\ FirstView \in Groups /\ first \in Views
      /\ FirstView = [cmd |-> first.cmd, ch |-> first.ch]
  <2>1. /\ FirstView \in Groups /\ FirstView.cmd \in Nat /\ FirstView.ch \in Int
        /\ FirstView = [cmd |-> FirstView.cmd, ch |-> FirstView.ch]
    BY <1>1, KeyFields
  <2>2. first \in Views /\ first.cmd = FirstView.cmd /\ first.ch = FirstView.ch
    BY <2>1, ViewFields
  <2> HIDE DEF first
  <2> QED BY <2>1, <2>2
<1>3. /\ queue = <<first>> /\ shown = first /\ serial = FirstView /\ keyed = FirstView
      /\ toStore = {} /\ toCopy = {} /\ auto = FALSE /\ copy = NoCopy /\ events = <<>>
      /\ bits = [c \in BitCams |-> FALSE] /\ crashed = FALSE
      /\ conns = [n \in Nodes |-> NoCam] /\ cache = [n \in Nodes |-> n]
  BY DEF Init
<1>4. ViewInv
  <2>1. copy \in CopyStates
    BY <1>3 DEF NoCopy, NoField, CopyStates
  <2>2. queue \in Seq(Views)
    <3> HIDE DEF first
    <3> QED BY <1>2, <1>3
  <2>3. events \in Seq(EventStates)
    BY <1>3
  <2> HIDE DEF first
  <2> QED BY <1>1, <1>2, <1>3, <2>1, <2>2, <2>3 DEF ViewInv, Types, Copying
<1>5. NodesApart
  <2>1. cache \in Seq(Nodes) /\ Len(cache) = NumNodes /\ \A i \in Nodes : cache[i] = i
    BY <1>1, <1>3 DEF Nodes
  <2> QED BY <1>3, <2>1 DEF NodesApart, Nodes
<1>6. RowInv
  <2>1. first \in ViewsInTable
    BY <1>1, <1>2, KeyFits
  <2>2. queue \in Seq(ViewsInTable)
    <3> HIDE DEF first
    <3> QED BY <1>3, <2>1
  <2> HIDE DEF first
  <2> QED BY <1>3, <2>1, <2>2 DEF RowInv, KeyStored, CopyOnTime
<1> QED BY <1>4, <1>5, <1>6

\* Queues, copies, connections and nodes are what the code takes them for.
THEOREM ViewInvariant == Spec => [](ViewInv /\ NodesApart)
<1>1. Init => ViewInv /\ NodesApart
  BY ViewsInit
<1>2. ViewInv /\ NodesApart /\ [Next]_vars => ViewInv' /\ NodesApart'
  BY TypesNext, NodesNext
<1> QED BY <1>1, <1>2, PTL DEF Spec

\* The state of serialCtrl keeps its types.
THEOREM ViewTypes == Spec => []TypeOK
<1>1. ViewInv => TypeOK
  <2> SUFFICES ASSUME ViewInv
               PROVE  TypeOK
    OBVIOUS
  <2>1. \A i \in DOMAIN queue : queue[i] \in Views
    BY LenProperties, ElementOfSeq DEF ViewInv, Types
  <2>2. \A i \in DOMAIN events : events[i] \in EventStates
    BY LenProperties, ElementOfSeq DEF ViewInv, Types
  <2> QED BY <2>1, <2>2 DEF ViewInv, Types, TypeOK, CopyStates, Groups, EventStates
<1> QED BY <1>1, ViewInvariant, PTL

\* A node is in the cache, once, or belongs to a connection, and accept finds
\* the cache empty only when every node is in use.
THEOREM NodesAreKept == Spec => []NodesKept
<1>1. NodesApart => NodesKept
  <2> SUFFICES ASSUME NodesApart
               PROVE  NodesKept
    OBVIOUS
  <2>1. cache \in Seq(Nodes) /\ DOMAIN cache = 1 .. Len(cache)
    BY LenProperties DEF NodesApart
  <2>2. \A i \in DOMAIN cache : cache[i] \in Nodes
    BY <2>1, ElementOfSeq
  <2>3. {cache[i] : i \in DOMAIN cache} = {n \in Nodes : conns[n] = NoCam}
    BY <2>1, <2>2 DEF NodesApart
  <2> QED BY <2>1, <2>3 DEF NodesApart, NodesKept
<1> QED BY <1>1, ViewInvariant, PTL

\* transVo reads a row that camConn does not have only for a key of the operator
\* whose group does not begin in the table, or for a copy that a key overlapped.
THEOREM RowsStayInTable == Spec => []RowsInTable
<1>1. Init => RowInv
  BY ViewsInit
<1>2. ViewInv /\ RowInv /\ [Next]_vars => RowInv'
  BY RowsNext
<1>3. RowInv => RowsInTable
  BY DEF RowInv, RowsInTable, ViewsInTable
<1> QED BY <1>1, <1>2, <1>3, ViewInvariant, PTL DEF Spec
=============================================================================
