------------------------------ MODULE ByteBuf ------------------------------
(***************************************************************************)
(* The byte buffer of decoder/dec_buf.c and rtsp_context/conn/buf.c (the    *)
(* two files are the same code under two names): one heap of Capacity       *)
(* bytes, a read position head, a write position tail and a separate byte   *)
(* count size.  New data is written at tail and released at head; there is  *)
(* no wrap-around: dec_buf_extend moves the live bytes to the front when    *)
(* the room behind tail is short, and drops everything when even that does  *)
(* not make room.                                                           *)
(*                                                                          *)
(* A buffer is a record; head and tail are offsets from heap.  A byte is a  *)
(* number, Blank is what memset(.., 0, ..) leaves.                          *)
(***************************************************************************)
EXTENDS Integers

CONSTANT Capacity          \* b->capacity, in bytes

ASSUME CapacityAssumption == Capacity \in Nat \ {0}

Blank == -1
Offsets == 0 .. Capacity - 1

\* dec_buf_new / dec_buf_init: empty, at the front, all bytes cleared.
BufInit == [head |-> 0, tail |-> 0, size |-> 0,
            heap |-> [j \in Offsets |-> Blank]]

\* memmove(heap, head, size); memset(tail, 0, capacity - size).
Compacted(b) ==
  [head |-> 0, tail |-> b.size, size |-> b.size,
   heap |-> [j \in Offsets |-> IF j < b.size THEN b.heap[b.head + j]
                                             ELSE Blank]]

\* tailTOend < grow.  tailTOend = capacity - tail - 1 is a size_t: behind a
\* buffer that is full to the last byte it is not -1 but the largest number,
\* and the buffer is not compacted.
TailShort(b, grow) == b.tail < Capacity /\ Capacity - b.tail - 1 < grow

Squeezed(b, grow) == IF TailShort(b, grow) THEN Compacted(b) ELSE b

\* A forgotten compaction.
BufExtendNoCompaction(b, grow) ==
  IF b.size + grow > Capacity THEN BufInit ELSE b

\* dec_buf_extend: its return value 1 ("everything was dropped") is ignored
\* by every caller.
BufExtend(b, grow) ==
  LET s == Squeezed(b, grow)
  IN  IF s.size + grow > Capacity THEN BufInit ELSE s

\* The copy of r bytes at tail, by recv() or memcpy(), and the two "+= r"
\* behind it.  Bytes are numbered; first is the number of the first of them.
Written(b, r, first) ==
  [head |-> b.head, tail |-> b.tail + r, size |-> b.size + r,
   heap |-> [j \in Offsets |-> IF j \in b.tail .. b.tail + r - 1
                               THEN first + (j - b.tail) ELSE b.heap[j]]]

BufAppend(b, len, first) == Written(BufExtend(b, len), len, first)

\* dec_buf_consume: size is unsigned, so "size <= 0" is only "size = 0";
\* no caller consumes more than size.
BufConsume(b, use) ==
  IF b.size - use = 0
  THEN [head |-> 0, tail |-> 0, size |-> 0, heap |-> b.heap]
  ELSE [head |-> b.head + use, tail |-> b.tail, size |-> b.size - use,
        heap |-> b.heap]

Buffers == [head : Nat, tail : Nat, size : Nat, heap : [Offsets -> Int]]

\* The three fields agree, the live bytes lie inside the heap, and the last
\* byte of the heap is never used (see TailShort).
BufOK(b) == /\ b.head <= b.tail
            /\ b.tail < Capacity
            /\ b.size = b.tail - b.head
=============================================================================
