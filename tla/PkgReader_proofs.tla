------------------------- MODULE PkgReader_proofs -------------------------
(***************************************************************************)
(* Proofs about the package reader, for every capacity, package length and  *)
(* read length that satisfy ReaderAssumption.                               *)
(***************************************************************************)
EXTENDS PkgReader, TLAPS
-----------------------------------------------------------------------------
(* What the operations of the byte buffer do, for every capacity.           *)

\* dec_buf_new / dec_buf_init leave a well-formed empty buffer.
LEMMA InitLemma == BufInit \in Buffers /\ BufOK(BufInit) /\ BufInit.size = 0
  BY CapacityAssumption DEF BufInit, Buffers, BufOK, Offsets, Blank

\* Moving the live bytes to the front keeps them, in order.
LEMMA CompactedLemma ==
  ASSUME NEW b \in Buffers, BufOK(b)
  PROVE  /\ Compacted(b) \in Buffers
         /\ BufOK(Compacted(b))
         /\ Compacted(b).size = b.size
         /\ Compacted(b).tail = b.size
         /\ \A k \in 0 .. b.size - 1 :
               Compacted(b).heap[Compacted(b).head + k] = b.heap[b.head + k]
<1> DEFINE c == Compacted(b)
<1>1. b.size \in Nat /\ b.head \in Nat /\ b.tail \in Nat /\ b.heap \in [Offsets -> Int]
  BY DEF Buffers
<1>2. c.head = 0 /\ c.tail = b.size /\ c.size = b.size
  BY DEF Compacted
<1>3. \A k \in 0 .. b.size - 1 : k \in Offsets /\ b.head + k \in Offsets
  <2>1. b.head <= b.tail /\ b.tail < Capacity /\ b.size = b.tail - b.head
    BY DEF BufOK
  <2> SUFFICES ASSUME NEW k \in 0 .. b.size - 1
               PROVE  k \in 0 .. Capacity - 1 /\ b.head + k \in 0 .. Capacity - 1
    BY DEF Offsets
  <2> QED BY <1>1, <2>1, CapacityAssumption
<1>4. c.heap \in [Offsets -> Int]
  <2>1. \A j \in Offsets : j < b.size => b.head + j \in Offsets
    BY <1>1, CapacityAssumption DEF BufOK, Offsets
  <2> QED BY <1>1, <2>1 DEF Compacted, Blank
<1>5. \A k \in 0 .. b.size - 1 : c.heap[k] = b.heap[b.head + k]
  BY <1>1, <1>3 DEF Compacted
<1>6. c \in Buffers
  BY <1>1, <1>4 DEF Compacted, Buffers
<1>7. BufOK(c)
  BY <1>1, <1>2, CapacityAssumption DEF BufOK
<1> QED BY <1>1, <1>2, <1>5, <1>6, <1>7

\* dec_buf_extend, when the live bytes and the new ones fit in the heap: no
\* live byte is lost, and there is room for the new ones behind tail.
LEMMA ExtendLemma ==
  ASSUME NEW b \in Buffers, BufOK(b),
         NEW grow \in Nat, b.size + grow < Capacity
  PROVE  /\ BufExtend(b, grow) \in Buffers
         /\ BufOK(BufExtend(b, grow))
         /\ BufExtend(b, grow).size = b.size
         /\ BufExtend(b, grow).tail + grow < Capacity
         /\ \A k \in 0 .. b.size - 1 :
               BufExtend(b, grow).heap[BufExtend(b, grow).head + k]
                 = b.heap[b.head + k]
<1>1. b.size \in Nat /\ b.head \in Nat /\ b.tail \in Nat
  BY DEF Buffers
<1>2. CASE TailShort(b, grow)
  <2>1. BufExtend(b, grow) = Compacted(b)
    BY <1>2, CompactedLemma, <1>1, CapacityAssumption DEF BufExtend, Squeezed
  <2> QED BY <2>1, CompactedLemma
<1>3. CASE ~(TailShort(b, grow))
  <2>1. BufExtend(b, grow) = b
    BY <1>1, <1>3, CapacityAssumption DEF BufExtend, Squeezed
  <2>2. b.tail + grow < Capacity
    BY <1>1, <1>3, CapacityAssumption DEF TailShort, BufOK
  <2> QED BY <2>1, <2>2
<1> QED BY <1>2, <1>3

\* Bytes written behind tail, where they fit, become the last live bytes.
LEMMA WrittenLemma ==
  ASSUME NEW b \in Buffers, BufOK(b),
         NEW r \in Nat, b.tail + r < Capacity,
         NEW base \in Nat
  PROVE  /\ Written(b, r, base) \in Buffers
         /\ BufOK(Written(b, r, base))
         /\ Written(b, r, base).size = b.size + r
         /\ \A k \in 0 .. b.size - 1 :
               Written(b, r, base).heap[Written(b, r, base).head + k]
                 = b.heap[b.head + k]
         /\ \A k \in b.size .. b.size + r - 1 :
               Written(b, r, base).heap[Written(b, r, base).head + k]
                 = base + (k - b.size)
<1> DEFINE w == Written(b, r, base)
<1>1. b.size \in Nat /\ b.head \in Nat /\ b.tail \in Nat /\ b.heap \in [Offsets -> Int]
  BY DEF Buffers
<1>2. /\ w.head = b.head
      /\ w.tail = b.tail + r
      /\ w.size = b.size + r
      /\ w.heap = [j \in Offsets |-> IF j \in b.tail .. b.tail + r - 1
                                      THEN base + (j - b.tail) ELSE b.heap[j]]
  BY DEF Written
<1>3. w.heap \in [Offsets -> Int]
  <2>1. \A j \in Offsets : (IF j \in b.tail .. b.tail + r - 1
                             THEN base + (j - b.tail) ELSE b.heap[j]) \in Int
    <3> SUFFICES ASSUME NEW j \in Offsets
                 PROVE  base + (j - b.tail) \in Int /\ b.heap[j] \in Int
      OBVIOUS
    <3>1. j \in Int
      BY CapacityAssumption DEF Offsets
    <3> QED BY <1>1, <3>1
  <2> HIDE DEF w
  <2> QED BY <1>2, <2>1
<1>4. w \in Buffers
  <2>1. w = [head |-> w.head, tail |-> w.tail, size |-> w.size, heap |-> w.heap]
    BY DEF Written
  <2> HIDE DEF w
  <2> QED BY <1>1, <1>2, <1>3, <2>1 DEF Buffers
<1> HIDE DEF w
<1>5. BufOK(w)
  BY <1>1, <1>2, CapacityAssumption DEF BufOK
<1>6. ASSUME NEW k \in 0 .. b.size - 1
      PROVE  w.heap[w.head + k] = b.heap[b.head + k]
  <2>1. b.head + k < b.tail /\ b.head + k \in Nat
    BY <1>1 DEF BufOK
  <2>2. b.head + k \in Offsets
    <3>1. b.tail \in Nat /\ b.tail < Capacity
      BY <1>1 DEF BufOK
    <3> QED BY <2>1, <3>1, CapacityAssumption DEF Offsets
  <2>3. b.head + k \notin b.tail .. b.tail + r - 1
    BY <1>1, <2>1
  <2> QED BY <1>2, <2>2, <2>3
<1>7. ASSUME NEW k \in b.size .. b.size + r - 1
      PROVE  w.heap[w.head + k] = base + (k - b.size)
  <2>0. k \in Nat /\ b.size <= k /\ k < b.size + r
    BY <1>1
  <2>1. b.head + k \in b.tail .. b.tail + r - 1
    BY <1>1, <2>0 DEF BufOK
  <2>1a. b.head + k \in Offsets
    <3>1. b.head <= b.tail /\ b.size = b.tail - b.head
      BY DEF BufOK
    <3>2. b.head + k \in 0 .. Capacity - 1
      BY <1>1, <2>0, <3>1, CapacityAssumption
    <3> QED BY <3>2 DEF Offsets
  <2>2. w.heap[w.head + k] = base + ((b.head + k) - b.tail)
    BY <1>2, <2>1, <2>1a
  <2>3. (b.head + k) - b.tail = k - b.size
    BY <1>1, <1>2 DEF BufOK
  <2> QED BY <2>2, <2>3
<1> QED BY <1>2, <1>4, <1>5, <1>6, <1>7 DEF w

\* dec_buf_consume of what is there: the rest stays, in order.
LEMMA ConsumeLemma ==
  ASSUME NEW b \in Buffers, BufOK(b),
         NEW use \in Nat, use <= b.size
  PROVE  /\ BufConsume(b, use) \in Buffers
         /\ BufOK(BufConsume(b, use))
         /\ BufConsume(b, use).size = b.size - use
         /\ \A k \in 0 .. b.size - use - 1 :
               BufConsume(b, use).heap[BufConsume(b, use).head + k]
                 = b.heap[b.head + (use + k)]
<1>1. b.size \in Nat /\ b.head \in Nat /\ b.tail \in Nat /\ b.heap \in [Offsets -> Int]
  BY DEF Buffers
<1>2. CASE b.size - use = 0
  BY <1>1, <1>2, CapacityAssumption DEF BufConsume, Buffers, BufOK
<1>3. CASE b.size - use # 0
  <2> DEFINE c == BufConsume(b, use)
  <2>1. c = [head |-> b.head + use, tail |-> b.tail, size |-> b.size - use,
             heap |-> b.heap]
    BY <1>3 DEF BufConsume
  <2>2. c.head = b.head + use /\ c.size = b.size - use /\ c.tail = b.tail /\ c.heap = b.heap
    BY <2>1
  <2>3. c \in Buffers
    BY <1>1, <2>1 DEF Buffers
  <2>4. BufOK(c)
    BY <1>1, <2>2, CapacityAssumption DEF BufOK
  <2>5. \A k \in 0 .. b.size - use - 1 : c.heap[c.head + k] = b.heap[b.head + (use + k)]
    <3>1. \A k \in 0 .. b.size - use - 1 : (b.head + use) + k = b.head + (use + k)
      BY <1>1
    <3> QED BY <2>2, <3>1
  <2> QED BY <2>2, <2>3, <2>4, <2>5
<1> QED BY <1>2, <1>3
-----------------------------------------------------------------------------

\* What buf_extend leaves before a receive: everything the reader holds, and
\* room for ReadLen bytes.
LEMMA RoomLemma ==
  ASSUME Inv, pc = "recv"
  PROVE  /\ BufExtend(buf, ReadLen) \in Buffers
         /\ BufOK(BufExtend(buf, ReadLen))
         /\ BufExtend(buf, ReadLen).size = buf.size
         /\ BufExtend(buf, ReadLen).tail + ReadLen < Capacity
         /\ \A k \in 0 .. buf.size - 1 :
               BufExtend(buf, ReadLen).heap[BufExtend(buf, ReadLen).head + k]
                 = buf.heap[buf.head + k]
<1>1. buf \in Buffers /\ BufOK(buf) /\ buf.size < PkgLen
  BY DEF Inv, TypeOK, BufferOK, Drained
<1>2. buf.size \in Nat
  BY <1>1 DEF Buffers
<1>3. ReadLen \in Nat /\ buf.size + ReadLen < Capacity
  BY <1>1, <1>2, ReaderAssumption, CapacityAssumption
<1> QED BY <1>1, <1>3, ExtendLemma

\* A connection of the pool starts with an empty buffer.
LEMMA InitInv == Init => Inv
<1> SUFFICES ASSUME Init PROVE Inv
  OBVIOUS
<1>1. buf \in Buffers /\ BufOK(buf) /\ buf.size = 0
  BY InitLemma DEF Init
<1>2. got = 0 /\ pkgs = 0 /\ pc = "recv" /\ PkgLen \in Nat \ {0}
  BY ReaderAssumption DEF Init
<1> QED BY <1>1, <1>2 DEF Inv, TypeOK, BufferOK, Drained, Window

\* A receive appends the next r bytes of the stream.
LEMMA RecvInv ==
  ASSUME Inv, NEW r \in 1 .. ReadLen, Recv(r)
  PROVE  Inv'
<1> DEFINE e == BufExtend(buf, ReadLen)
           w == Written(e, r, got)
<1>1. /\ pc = "recv" /\ pc' = "loop" /\ buf' = w
      /\ got' = got + r /\ pkgs' = pkgs
  BY DEF Recv
<1>2. got \in Nat /\ pkgs \in Nat /\ PkgLen \in Nat /\ ReadLen \in Nat /\ r \in Nat
  BY ReaderAssumption DEF Inv, TypeOK
<1>3. /\ e \in Buffers /\ BufOK(e) /\ e.size = buf.size
      /\ e.tail + ReadLen < Capacity
      /\ \A k \in 0 .. buf.size - 1 : e.heap[e.head + k] = buf.heap[buf.head + k]
  BY <1>1, RoomLemma
<1> HIDE DEF e
<1>4. e.tail \in Nat /\ e.size \in Nat
  BY <1>3 DEF Buffers
<1>5. e.tail + r < Capacity
  BY <1>2, <1>3, <1>4, CapacityAssumption
<1>6. /\ w \in Buffers /\ BufOK(w) /\ w.size = e.size + r
      /\ \A k \in 0 .. e.size - 1 : w.heap[w.head + k] = e.heap[e.head + k]
      /\ \A k \in e.size .. e.size + r - 1 : w.heap[w.head + k] = got + (k - e.size)
  BY <1>2, <1>3, <1>5, WrittenLemma
<1> HIDE DEF w
<1>7. /\ buf.size = got - pkgs * PkgLen
      /\ \A k \in 0 .. buf.size - 1 : buf.heap[buf.head + k] = pkgs * PkgLen + k
  BY <1>1 DEF Inv, Window
<1> DEFINE first == pkgs * PkgLen
<1>8. first \in Nat
  BY <1>2
<1>9. buf.size = got - first
      /\ \A k \in 0 .. buf.size - 1 : buf.heap[buf.head + k] = first + k
  BY <1>7
<1> HIDE DEF first
<1>10. w.size = (got + r) - first
  BY <1>2, <1>3, <1>6, <1>8, <1>9
<1>11. ASSUME NEW k \in 0 .. w.size - 1
       PROVE  w.heap[w.head + k] = first + k
  <2>1. CASE k \in 0 .. e.size - 1
    BY <2>1, <1>3, <1>6, <1>9
  <2>2. CASE k \in e.size .. e.size + r - 1
    <3>1. w.heap[w.head + k] = got + (k - e.size)
      BY <2>2, <1>6
    <3>2. got + (k - e.size) = first + k
      BY <1>2, <1>3, <1>4, <1>8, <1>9
    <3> QED BY <3>1, <3>2
  <2>3. k \in 0 .. e.size - 1 \/ k \in e.size .. e.size + r - 1
    BY <1>2, <1>4, <1>6
  <2> QED BY <2>1, <2>2, <2>3
<1>12. Window'
  BY <1>1, <1>10, <1>11 DEF Window, first
<1>13. TypeOK' /\ BufferOK' /\ Drained'
  BY <1>1, <1>2, <1>6 DEF TypeOK, BufferOK, Drained
<1> QED BY <1>12, <1>13 DEF Inv

\* recv() < 0 and recv() = 0: only buf_extend was done.
LEMMA ExtendInv ==
  ASSUME Inv, RecvNothing \/ PeerClosed
  PROVE  Inv'
<1> DEFINE e == BufExtend(buf, ReadLen)
<1>1. /\ pc = "recv" /\ pc' \in {"recv", "closed"} /\ buf' = e
      /\ got' = got /\ pkgs' = pkgs
  BY DEF RecvNothing, PeerClosed
<1>2. /\ e \in Buffers /\ BufOK(e) /\ e.size = buf.size
      /\ \A k \in 0 .. buf.size - 1 : e.heap[e.head + k] = buf.heap[buf.head + k]
  BY <1>1, RoomLemma
<1> HIDE DEF e
<1>3. TypeOK' /\ BufferOK'
  BY <1>1, <1>2 DEF Inv, TypeOK, BufferOK
<1>4. Drained'
  BY <1>1, <1>2 DEF Inv, Drained
<1>5. Window'
  BY <1>1, <1>2 DEF Inv, Window
<1> QED BY <1>3, <1>4, <1>5 DEF Inv

\* A package leaves at the head.
LEMMA ProcessInv ==
  ASSUME Inv, ProcessPkg
  PROVE  Inv'
<1> DEFINE c == BufConsume(buf, PkgLen)
           first == pkgs * PkgLen
<1>1. /\ pc = "loop" /\ pc' = "loop" /\ buf' = c /\ buf.size >= PkgLen
      /\ got' = got /\ pkgs' = pkgs + 1
  BY DEF ProcessPkg
<1>2. /\ got \in Nat /\ pkgs \in Nat /\ PkgLen \in Nat
      /\ buf \in Buffers /\ BufOK(buf)
  BY ReaderAssumption DEF Inv, TypeOK, BufferOK
<1>3. buf.size \in Nat
  BY <1>2 DEF Buffers
<1>4. /\ c \in Buffers /\ BufOK(c) /\ c.size = buf.size - PkgLen
      /\ \A k \in 0 .. buf.size - PkgLen - 1 :
            c.heap[c.head + k] = buf.heap[buf.head + (PkgLen + k)]
  BY <1>1, <1>2, <1>3, ConsumeLemma
<1> HIDE DEF c
<1>5. /\ buf.size = got - first
      /\ \A k \in 0 .. buf.size - 1 : buf.heap[buf.head + k] = first + k
  BY <1>1 DEF Inv, Window
<1>6. first \in Nat /\ (pkgs + 1) * PkgLen = first + PkgLen
  BY <1>2
<1> HIDE DEF first
<1>7. c.size = got - (first + PkgLen)
  BY <1>2, <1>3, <1>4, <1>5, <1>6
<1>8. ASSUME NEW k \in 0 .. c.size - 1
      PROVE  c.heap[c.head + k] = (first + PkgLen) + k
  <2>1. PkgLen + k \in 0 .. buf.size - 1 /\ k \in 0 .. buf.size - PkgLen - 1
    BY <1>2, <1>3, <1>4
  <2>2. c.heap[c.head + k] = first + (PkgLen + k)
    BY <2>1, <1>4, <1>5
  <2> QED BY <2>2, <1>2, <1>6
<1>9. Window'
  BY <1>1, <1>6, <1>7, <1>8 DEF Window
<1>10. TypeOK' /\ BufferOK' /\ Drained'
  BY <1>1, <1>2, <1>4 DEF TypeOK, BufferOK, Drained
<1> QED BY <1>9, <1>10 DEF Inv

\* Every step keeps the invariant.
LEMMA NextInv == Inv /\ [Next]_vars => Inv'
<1> SUFFICES ASSUME Inv, [Next]_vars PROVE Inv'
  OBVIOUS
<1>1. CASE \E r \in 1 .. ReadLen : Recv(r)
  BY <1>1, RecvInv
<1>2. CASE RecvNothing \/ PeerClosed
  BY <1>2, ExtendInv
<1>3. CASE Accept
  <2>1. buf' \in Buffers /\ BufOK(buf') /\ buf'.size = 0
    BY <1>3, InitLemma DEF Accept
  <2>2. got' = 0 /\ pkgs' = 0 /\ pc' = "recv" /\ PkgLen \in Nat \ {0}
    BY <1>3, ReaderAssumption DEF Accept
  <2> QED BY <2>1, <2>2 DEF Inv, TypeOK, BufferOK, Drained, Window
<1>4. CASE ProcessPkg
  BY <1>4, ProcessInv
<1>5. CASE LoopDone
  BY <1>5 DEF LoopDone, Inv, TypeOK, BufferOK, Drained, Window
<1>6. CASE UNCHANGED vars
  BY <1>6 DEF vars, Inv, TypeOK, BufferOK, Drained, Window
<1> QED BY <1>1, <1>2, <1>3, <1>4, <1>5, <1>6 DEF Next

\* server_read_handle keeps its buffer well formed and full of exactly the
\* bytes that were received and not processed.
THEOREM ReaderInvariant == Spec => []Inv
<1>1. Init => Inv
  BY InitInv
<1>2. Inv /\ [Next]_vars => Inv'
  BY NextInv
<1> QED BY <1>1, <1>2, PTL DEF Spec

\* The fields of the read buffer and the counters keep their types.
THEOREM ReaderTypes == Spec => []TypeOK
<1>1. Inv => TypeOK
  BY DEF Inv
<1> QED BY <1>1, ReaderInvariant, PTL

\* No byte of the stream is lost, repeated or shifted on its way to pkgProcess.
THEOREM ReaderWindow == Spec => []Window
<1>1. Inv => Window
  BY DEF Inv
<1> QED BY <1>1, ReaderInvariant, PTL

\* recv() never writes outside the heap.
THEOREM ReaderFits == Spec => []ReadFits
<1>1. ASSUME Inv PROVE ReadFits
  <2> SUFFICES ASSUME pc = "recv"
               PROVE  BufExtend(buf, ReadLen).tail + ReadLen <= Capacity
    BY DEF ReadFits
  <2> DEFINE e == BufExtend(buf, ReadLen)
  <2>1. e \in Buffers /\ e.tail + ReadLen < Capacity
    BY <1>1, RoomLemma
  <2> HIDE DEF e
  <2>2. e.tail + ReadLen \in Nat
    BY <2>1, ReaderAssumption DEF Buffers
  <2>3. e.tail + ReadLen <= Capacity
    BY <2>1, <2>2, CapacityAssumption
  <2> QED BY <2>3 DEF e
<1> QED BY <1>1, ReaderInvariant, PTL

\* server_read_handle implements the package stream.
THEOREM ReaderImplementsStream == Spec => StreamSpec
<1>1. Init => Stream!Init
  BY DEF Init, Stream!Init
<1>2. ASSUME Inv, [Next]_vars
      PROVE  [Stream!Next]_<<got, pkgs>>
  <2>1. CASE \E r \in 1 .. ReadLen : Recv(r)
    BY <2>1 DEF Recv, Stream!Next, Stream!Receive
  <2>2. CASE RecvNothing \/ PeerClosed \/ LoopDone \/ UNCHANGED vars
    BY <2>2 DEF RecvNothing, PeerClosed, LoopDone, vars
  <2>3. CASE Accept
    BY <2>3 DEF Accept, Stream!Next, Stream!Reconnect
  <2>4. CASE ProcessPkg
    <3> DEFINE first == pkgs * PkgLen
    <3>1. /\ buf.size >= PkgLen /\ buf.size = got - first
          /\ buf.size \in Nat /\ PkgLen \in Nat /\ got \in Nat /\ pkgs \in Nat
      BY <1>2, <2>4, ReaderAssumption DEF ProcessPkg, Inv, TypeOK, Window, Buffers
    <3>2. first \in Nat /\ (pkgs + 1) * PkgLen = first + PkgLen
      BY <3>1
    <3> HIDE DEF first
    <3>3. (pkgs + 1) * PkgLen <= got
      BY <3>1, <3>2
    <3> QED BY <2>4, <3>3 DEF ProcessPkg, Stream!Next, Stream!Deliver
  <2> QED BY <1>2, <2>1, <2>2, <2>3, <2>4 DEF Next
<1> QED BY <1>1, <1>2, ReaderInvariant, PTL DEF Spec, StreamSpec, Stream!Spec
=============================================================================
