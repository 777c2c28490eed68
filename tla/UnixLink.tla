------------------------------ MODULE UnixLink ------------------------------
(***************************************************************************)
(* The link between the rtsp process and the decoder process: send_pkg      *)
(* (rtsp/shmring.c) queues a package of PkgLen bytes in unixBuf and asks    *)
(* for EPOLLOUT, unix_write_handle (rtsp/main.c) sends the queue in chunks, *)
(* the kernel keeps at most SockRoom bytes, and the decoder takes packages  *)
(* of PkgLen bytes off the stream, as PkgReader does.                       *)
(*                                                                          *)
(* The queue is the buffer of ByteBuf: when it is full, buf_extend drops    *)
(* all of it, also the rest of a package whose first bytes are sent.  The   *)
(* event loop clears write->active after every write handler and epoll is   *)
(* edge-triggered, so what a full socket leaves in the queue waits for the  *)
(* next send_pkg.                                                           *)
(*                                                                          *)
(* Behind a queue that is full to its last byte tailTOend of buf_extend     *)
(* wraps, and the next package may be copied behind the end of the heap     *)
(* (Overrun).  What that overwrites is not unixBuf: the model of the rtsp   *)
(* process stops there, the decoder reads on.                               *)
(*                                                                          *)
(* Byte number x of the stream is x % Ids; the packages a drop can run      *)
(* together differ in x \div PkgLen.                                        *)
(***************************************************************************)
EXTENDS ByteBuf, Sequences

CONSTANTS PkgLen,          \* sizeof(struct rtpPkg_st), 1616
          Chunk,           \* 4096 in unix_write_handle
          ReadLen,         \* 4096 in the decoder's server_read_handle
          SockRoom,        \* what the kernel keeps of the stream
          Ids              \* byte numbers wrap here

ASSUME LinkAssumption == /\ PkgLen \in Nat \ {0}
                         /\ Chunk \in Nat \ {0}
                         /\ ReadLen \in Nat \ {0}
                         /\ SockRoom \in Nat \ {0}
                         /\ Ids \in Nat \ {0} /\ Ids % PkgLen = 0
                         /\ PkgLen <= Capacity

VARIABLES queue,           \* unixBuf
          next,            \* the number of the next byte send_pkg queues
          active, ready,   \* of unixFd->write
          pc,              \* the rtsp process: "idle", in unix_write_handle
                           \* ("write"), or "overrun": it wrote behind the heap
          edge,            \* epoll has an EPOLLOUT to report
          wire,            \* bytes the kernel holds
          part,            \* decoder: the package that is not all there
          torn             \* a drop cut a package of which some was sent

vars == <<queue, next, active, ready, pc, edge, wire, part, torn>>

Init == /\ queue = BufInit
        /\ next = 0
        /\ active = FALSE
        /\ ready = FALSE
        /\ pc = "idle"
        /\ edge = FALSE
        /\ wire = <<>>
        /\ part = <<>>
        /\ torn = FALSE

\* The kernel calls a stream socket writable while three quarters are free.
Writable(w) == 4 * Len(w) <= SockRoom

Queued(b) == [k \in 1 .. b.size |-> b.heap[b.head + k - 1]]

\* A package of bytes next, next + 1, ... at tail.
Numbered(b) ==
  LET w == Written(b, PkgLen, next)
  IN  [w EXCEPT !.heap = [j \in Offsets |-> IF w.heap[j] = Blank THEN Blank
                                            ELSE w.heap[j] % Ids]]

\* buf_extend of unixBuf for one more package; what it drops may be the rest
\* of a package.
Extended == BufExtend(queue, PkgLen)
Drops == queue.size > 0 /\ Extended.size = 0
MidPackage == queue.size % PkgLen # 0

\* The package that is copied behind tail lies in the heap.
Fits == Extended.tail + PkgLen <= Capacity

\* Only the first package of a queue asks for EPOLLOUT.
SendPkgOnce ==
  /\ pc = "idle"
  /\ Fits
  /\ queue' = Numbered(Extended)
  /\ next' = (next + PkgLen) % Ids
  /\ torn' = (torn \/ (Drops /\ MidPackage))
  /\ IF queue.size = 0 THEN active' = TRUE /\ edge' = (edge \/ Writable(wire))
                       ELSE UNCHANGED <<active, edge>>
  /\ UNCHANGED <<ready, pc, wire, part>>

\* send_pkg: add_event(.., WRITE_EVENT) re-arms the edge.
SendPkg ==
  /\ pc = "idle"
  /\ Fits
  /\ queue' = Numbered(Extended)
  /\ next' = (next + PkgLen) % Ids
  /\ torn' = (torn \/ (Drops /\ MidPackage))
  /\ active' = TRUE
  /\ edge' = (edge \/ Writable(wire))
  /\ UNCHANGED <<ready, pc, wire, part>>

\* send_pkg behind a queue that buf_extend did not compact: the copy runs over
\* the end of the heap.
Overrun ==
  /\ pc = "idle"
  /\ ~Fits
  /\ pc' = "overrun"
  /\ UNCHANGED <<queue, next, active, ready, edge, wire, part, torn>>

\* process_events: EPOLLOUT, which counts only while the event is active.
WriteEvent ==
  /\ pc = "idle"
  /\ edge
  /\ edge' = FALSE
  /\ IF active /\ Writable(wire)
     THEN pc' = "write" /\ ready' = TRUE
     ELSE UNCHANGED <<pc, ready>>
  /\ UNCHANGED <<queue, next, active, wire, part, torn>>

Least(a, b) == IF a <= b THEN a ELSE b

ToSend == Least(queue.size, Chunk)
Room == SockRoom - Len(wire)

\* The chunk is taken for sent.
SendAll ==
  /\ pc = "write"
  /\ ready /\ queue.size > 0
  /\ Room > 0
  /\ LET n == Least(ToSend, Room)
     IN  /\ wire' = wire \o SubSeq(Queued(queue), 1, n)
         /\ queue' = BufConsume(queue, ToSend)
         /\ ready' = (n = ToSend)
  /\ UNCHANGED <<next, active, pc, edge, part, torn>>

\* One turn of the loop of unix_write_handle: send() takes what there is room
\* for; less than asked for ends readiness.
Send ==
  /\ pc = "write"
  /\ ready /\ queue.size > 0
  /\ Room > 0
  /\ LET n == Least(ToSend, Room)
     IN  /\ wire' = wire \o SubSeq(Queued(queue), 1, n)
         /\ queue' = BufConsume(queue, n)
         /\ ready' = (n = ToSend)
  /\ UNCHANGED <<next, active, pc, edge, part, torn>>

\* send() = -1, EAGAIN.
SendBlocked ==
  /\ pc = "write"
  /\ ready /\ queue.size > 0
  /\ Room = 0
  /\ ready' = FALSE
  /\ UNCHANGED <<queue, next, active, pc, edge, wire, part, torn>>

\* The loop ends; process_events clears write->active behind the handler.
WriteReturns ==
  /\ pc = "write"
  /\ ~ready \/ queue.size = 0
  /\ pc' = "idle"
  /\ active' = FALSE
  /\ UNCHANGED <<queue, next, ready, edge, wire, part, torn>>

\* The decoder: recv() takes what is there, ReadLen bytes at most, behind the
\* part of a package it has.
Taken == Least(Len(wire), ReadLen)
Received == part \o SubSeq(wire, 1, Taken)

\* Only the first package of a read is processed.
ReadFirst ==
  /\ wire # <<>>
  /\ wire' = SubSeq(wire, Taken + 1, Len(wire))
  /\ part' = IF Len(Received) < PkgLen THEN Received
             ELSE SubSeq(Received, PkgLen + 1, Len(Received))
  /\ edge' = (edge \/ Writable(wire'))
  /\ UNCHANGED <<queue, next, active, ready, pc, torn>>

\* All the packages that are complete are processed.
Read ==
  /\ wire # <<>>
  /\ wire' = SubSeq(wire, Taken + 1, Len(wire))
  /\ part' = SubSeq(Received, Len(Received) - (Len(Received) % PkgLen) + 1, Len(Received))
  /\ edge' = (edge \/ Writable(wire'))
  /\ UNCHANGED <<queue, next, active, ready, pc, torn>>

Loop == WriteEvent \/ Send \/ SendBlocked \/ WriteReturns

Next == SendPkg \/ Overrun \/ Loop \/ Read

Spec == Init /\ [][Next]_vars

\* Both processes run on: neither waits for the other but in epoll_wait.
FairSpec == Spec /\ WF_vars(Loop) /\ WF_vars(Read)
-----------------------------------------------------------------------------
Bytes == 0 .. Ids - 1

TypeOK == /\ queue \in Buffers
          /\ next \in Bytes
          /\ active \in BOOLEAN /\ ready \in BOOLEAN /\ edge \in BOOLEAN
          /\ pc \in {"idle", "write", "overrun"}
          /\ wire \in Seq(Bytes) /\ Len(wire) <= SockRoom
          /\ part \in Seq(Bytes) /\ Len(part) < PkgLen
          /\ torn \in BOOLEAN

\* What is on its way to pkgProcess, oldest byte first.
Stream == part \o wire \o Queued(queue)

\* buf.c:42: in the normal case the buffer is used again and again, so the
\* package that send_pkg copies behind tail is inside the heap.  There is one
\* case in which it is not, and no other (buf.c:32): the queue is full to its
\* very last byte, a package's length of it or more has been sent, and some of
\* it has not.
PkgFits == ~Fits => /\ queue.tail = Capacity
                    /\ PkgLen <= queue.head
                    /\ queue.head < queue.tail

\* Unless a drop tore a package, all that is on its way to the decoder is
\* whole packages: no chunk, partial send or compaction mixes two of them.
WholePackages ==
  ~torn => /\ Len(Stream) % PkgLen = 0
           /\ \A j \in 1 .. Len(Stream) :
                LET first == j - ((j - 1) % PkgLen)
                IN  Stream[j] = Stream[first] + (j - first)

\* While cameras send, the decoder goes on reading: a socket that was full
\* never stops the link for good, although the event loop forgets what the
\* write handler left.
LinkMoves == ([]<><<SendPkg>>_vars) => []<><<Read>>_vars
=============================================================================
