---------------------------- MODULE UnixLink_proofs ----------------------------
(***************************************************************************)
(* Proofs about the link between the two processes, for all sizes of the    *)
(* package, the buffer, the chunks, the reads and the socket.               *)
(*                                                                          *)
(* The queue may get full to its last byte.  The next package is then       *)
(* copied behind the heap (Overrun) or, when nothing of the queue was sent,  *)
(* everything is dropped; in both cases nothing of the queue is cut.         *)
(***************************************************************************)
EXTENDS UnixLink, SequenceTheorems, TLAPS
-----------------------------------------------------------------------------
\* The three fields agree and the live bytes lie inside the heap.  Unlike the
\* buffer of the reader (BufOK) the queue may use the last byte of its heap.
Sound(b) == /\ b.head <= b.tail
            /\ b.tail <= Capacity
            /\ b.size = b.tail - b.head

(* What the operations of the byte buffer do, for every capacity.           *)

\* dec_buf_new / dec_buf_init leave a well-formed empty buffer.
LEMMA InitLemma == BufInit \in Buffers /\ Sound(BufInit) /\ BufInit.size = 0
  BY CapacityAssumption DEF BufInit, Buffers, Sound, Offsets, Blank

\* Moving the live bytes to the front keeps them, in order.
LEMMA CompactedLemma ==
  ASSUME NEW b \in Buffers, Sound(b)
  PROVE  /\ Compacted(b) \in Buffers
         /\ Sound(Compacted(b))
         /\ Compacted(b).size = b.size
         /\ Compacted(b).tail = b.size
         /\ \A k \in 0 .. b.size - 1 :
               Compacted(b).heap[Compacted(b).head + k] = b.heap[b.head + k]
<1> DEFINE c == Compacted(b)
<1>1. b.size \in Nat /\ b.head \in Nat /\ b.tail \in Nat /\ b.heap \in [Offsets -> Int]
  BY DEF Buffers
<1>2. c.head = 0 /\ c.tail = b.size /\ c.size = b.size
  BY DEF Compacted
<1>3. \A k \in 0 .. b.size - 1 : k \in Offsets /\ b.head + k \in Offsets
  <2>1. b.head <= b.tail /\ b.tail <= Capacity /\ b.size = b.tail - b.head
    BY DEF Sound
  <2> SUFFICES ASSUME NEW k \in 0 .. b.size - 1
               PROVE  k \in 0 .. Capacity - 1 /\ b.head + k \in 0 .. Capacity - 1
    BY DEF Offsets
  <2> QED BY <1>1, <2>1, CapacityAssumption
<1>4. c.heap \in [Offsets -> Int]
  <2>1. \A j \in Offsets : j < b.size => b.head + j \in Offsets
    BY <1>1, CapacityAssumption DEF Sound, Offsets
  <2> QED BY <1>1, <2>1 DEF Compacted, Blank
<1>5. \A k \in 0 .. b.size - 1 : c.heap[k] = b.heap[b.head + k]
  BY <1>1, <1>3 DEF Compacted
<1>6. c \in Buffers
  BY <1>1, <1>4 DEF Compacted, Buffers
<1>7. Sound(c)
  BY <1>1, <1>2, CapacityAssumption DEF Sound
<1> QED BY <1>1, <1>2, <1>5, <1>6, <1>7

\* buf_extend, when the live bytes and the new ones together are no more than
\* the heap: no live byte is lost.
LEMMA ExtendLemma ==
  ASSUME NEW b \in Buffers, Sound(b),
         NEW grow \in Nat, b.size + grow <= Capacity
  PROVE  /\ BufExtend(b, grow) \in Buffers
         /\ Sound(BufExtend(b, grow))
         /\ BufExtend(b, grow).size = b.size
         /\ \A k \in 0 .. b.size - 1 :
               BufExtend(b, grow).heap[BufExtend(b, grow).head + k]
                 = b.heap[b.head + k]
<1>1. b.size \in Nat /\ b.head \in Nat /\ b.tail \in Nat
  BY DEF Buffers
<1>2. CASE TailShort(b, grow)
  <2>1. BufExtend(b, grow) = Compacted(b)
    BY <1>2, CompactedLemma, <1>1, CapacityAssumption DEF BufExtend, Squeezed
  <2> QED BY <2>1, CompactedLemma
<1>3. CASE ~(TailShort(b, grow))
  <2>1. BufExtend(b, grow) = b
    BY <1>1, <1>3, CapacityAssumption DEF BufExtend, Squeezed
  <2> QED BY <2>1
<1> QED BY <1>2, <1>3

\* Bytes written behind tail, where they fit, become the last live bytes.
LEMMA WrittenLemma ==
  ASSUME NEW b \in Buffers, Sound(b),
         NEW r \in Nat, b.tail + r <= Capacity,
         NEW base \in Nat
  PROVE  /\ Written(b, r, base) \in Buffers
         /\ Sound(Written(b, r, base))
         /\ Written(b, r, base).size = b.size + r
         /\ \A k \in 0 .. b.size - 1 :
               Written(b, r, base).heap[Written(b, r, base).head + k]
                 = b.heap[b.head + k]
         /\ \A k \in b.size .. b.size + r - 1 :
               Written(b, r, base).heap[Written(b, r, base).head + k]
                 = base + (k - b.size)
<1> DEFINE w == Written(b, r, base)
<1>1. b.size \in Nat /\ b.head \in Nat /\ b.tail \in Nat /\ b.heap \in [Offsets -> Int]
  BY DEF Buffers
<1>2. /\ w.head = b.head
      /\ w.tail = b.tail + r
      /\ w.size = b.size + r
      /\ w.heap = [j \in Offsets |-> IF j \in b.tail .. b.tail + r - 1
                                      THEN base + (j - b.tail) ELSE b.heap[j]]
  BY DEF Written
<1>3. w.heap \in [Offsets -> Int]
  <2>1. \A j \in Offsets : (IF j \in b.tail .. b.tail + r - 1
                             THEN base + (j - b.tail) ELSE b.heap[j]) \in Int
    <3> SUFFICES ASSUME NEW j \in Offsets
                 PROVE  base + (j - b.tail) \in Int /\ b.heap[j] \in Int
      OBVIOUS
    <3>1. j \in Int
      BY CapacityAssumption DEF Offsets
    <3> QED BY <1>1, <3>1
  <2> HIDE DEF w
  <2> QED BY <1>2, <2>1
<1>4. w \in Buffers
  <2>1. w = [head |-> w.head, tail |-> w.tail, size |-> w.size, heap |-> w.heap]
    BY DEF Written
  <2> HIDE DEF w
  <2> QED BY <1>1, <1>2, <1>3, <2>1 DEF Buffers
<1> HIDE DEF w
<1>5. Sound(w)
  BY <1>1, <1>2, CapacityAssumption DEF Sound
<1>6. ASSUME NEW k \in 0 .. b.size - 1
      PROVE  w.heap[w.head + k] = b.heap[b.head + k]
  <2>1. b.head + k < b.tail /\ b.head + k \in Nat
    BY <1>1 DEF Sound
  <2>2. b.head + k \in Offsets
    <3>1. b.tail \in Nat /\ b.tail <= Capacity
      BY <1>1 DEF Sound
    <3> QED BY <2>1, <3>1, CapacityAssumption DEF Offsets
  <2>3. b.head + k \notin b.tail .. b.tail + r - 1
    BY <1>1, <2>1
  <2> QED BY <1>2, <2>2, <2>3
<1>7. ASSUME NEW k \in b.size .. b.size + r - 1
      PROVE  w.heap[w.head + k] = base + (k - b.size)
  <2>0. k \in Nat /\ b.size <= k /\ k < b.size + r
    BY <1>1
  <2>1. b.head + k \in b.tail .. b.tail + r - 1
    BY <1>1, <2>0 DEF Sound
  <2>1a. b.head + k \in Offsets
    <3>1. b.head <= b.tail /\ b.size = b.tail - b.head
      BY DEF Sound
    <3>2. b.head + k \in 0 .. Capacity - 1
      BY <1>1, <2>0, <3>1, CapacityAssumption
    <3> QED BY <3>2 DEF Offsets
  <2>2. w.heap[w.head + k] = base + ((b.head + k) - b.tail)
    BY <1>2, <2>1, <2>1a
  <2>3. (b.head + k) - b.tail = k - b.size
    BY <1>1, <1>2 DEF Sound
  <2> QED BY <2>2, <2>3
<1> QED BY <1>2, <1>4, <1>5, <1>6, <1>7 DEF w

\* dec_buf_consume of what is there: the rest stays, in order.
LEMMA ConsumeLemma ==
  ASSUME NEW b \in Buffers, Sound(b),
         NEW use \in Nat, use <= b.size
  PROVE  /\ BufConsume(b, use) \in Buffers
         /\ Sound(BufConsume(b, use))
         /\ BufConsume(b, use).size = b.size - use
         /\ BufConsume(b, use).size = 0 => BufConsume(b, use).tail = 0
         /\ \A k \in 0 .. b.size - use - 1 :
               BufConsume(b, use).heap[BufConsume(b, use).head + k]
                 = b.heap[b.head + (use + k)]
<1>1. b.size \in Nat /\ b.head \in Nat /\ b.tail \in Nat /\ b.heap \in [Offsets -> Int]
  BY DEF Buffers
<1>2. CASE b.size - use = 0
  BY <1>1, <1>2, CapacityAssumption DEF BufConsume, Buffers, Sound
<1>3. CASE b.size - use # 0
  <2> DEFINE c == BufConsume(b, use)
  <2>1. c = [head |-> b.head + use, tail |-> b.tail, size |-> b.size - use,
             heap |-> b.heap]
    BY <1>3 DEF BufConsume
  <2>2. c.head = b.head + use /\ c.size = b.size - use /\ c.tail = b.tail /\ c.heap = b.heap
    BY <2>1
  <2>3. c \in Buffers
    BY <1>1, <2>1 DEF Buffers
  <2>4. Sound(c)
    BY <1>1, <2>2, CapacityAssumption DEF Sound
  <2>5. \A k \in 0 .. b.size - use - 1 : c.heap[c.head + k] = b.heap[b.head + (use + k)]
    <3>1. \A k \in 0 .. b.size - use - 1 : (b.head + use) + k = b.head + (use + k)
      BY <1>1
    <3> QED BY <2>2, <3>1
  <2> QED BY <1>3, <2>2, <2>3, <2>4, <2>5
<1> QED BY <1>2, <1>3
-----------------------------------------------------------------------------

\* Division with rest.
LEMMA Division ==
  ASSUME NEW a \in Nat, NEW p \in Nat \ {0}
  PROVE  /\ a % p \in 0 .. p - 1
         /\ a \div p \in Nat
         /\ a = p * (a \div p) + (a % p)
<1>1. a % p \in 0 .. p - 1 /\ a \div p \in Int
  OBVIOUS
<1>2. a = p * (a \div p) + (a % p)
  OBVIOUS
<1>3. a \div p >= 0
  <2> DEFINE q == a \div p
             r == a % p
  <2>1. q \in Int /\ r \in 0 .. p - 1 /\ a = p * q + r
    BY <1>1, <1>2
  <2> HIDE DEF q, r
  <2>2. ASSUME q <= -1 PROVE FALSE
    <3>1. p * q <= -p
      BY <2>1, <2>2
    <3> QED BY <2>1, <3>1
  <2>3. q >= 0
    BY <2>1, <2>2
  <2> QED BY <2>3 DEF q
<1> QED BY <1>1, <1>2, <1>3

\* The rest is unique.
LEMMA RestUnique ==
  ASSUME NEW p \in Nat \ {0}, NEW q \in Nat, NEW r \in 0 .. p - 1
  PROVE  (p * q + r) % p = r
  OBVIOUS

\* Multiples of p do not change the rest, and are closed under + and -.
LEMMA RestAdd ==
  ASSUME NEW p \in Nat \ {0}, NEW n \in Nat, NEW a \in Nat, n % p = 0
  PROVE  (n + a) % p = a % p
<1> DEFINE q == n \div p
           d == a \div p
           r == a % p
<1>1. q \in Nat /\ n = p * q
  BY Division
<1>2. d \in Nat /\ r \in 0 .. p - 1 /\ a = p * d + r
  BY Division
<1> HIDE DEF q, d, r
<1>3. n + a = p * (q + d) + r
  BY <1>1, <1>2
<1>4. (p * (q + d) + r) % p = r
  BY <1>1, <1>2, RestUnique
<1> QED BY <1>3, <1>4 DEF r

\* Whole multiples taken off do not change the rest.
LEMMA RestSub ==
  ASSUME NEW p \in Nat \ {0}, NEW n \in Nat, NEW a \in Nat, n % p = 0, n <= a
  PROVE  (a - n) % p = a % p
<1>1. a - n \in Nat
  OBVIOUS
<1>2. (n + (a - n)) % p = (a - n) % p
  BY <1>1, RestAdd
<1> QED BY <1>2

\* Two multiples of p differ by p at least.
LEMMA NextMultiple ==
  ASSUME NEW p \in Nat \ {0}, NEW n \in Nat, NEW m \in Nat,
         n % p = 0, m % p = 0, n < m
  PROVE  n + p <= m
<1> DEFINE q == n \div p
           d == m \div p
<1>1. q \in Nat /\ n = p * q
  BY Division
<1>2. d \in Nat /\ m = p * d
  BY Division
<1> HIDE DEF q, d
<1>3. ASSUME d <= q PROVE FALSE
  <2>1. p * d <= p * q
    BY <1>1, <1>2, <1>3
  <2> QED BY <2>1, <1>1, <1>2
<1>4. d >= q + 1
  BY <1>1, <1>2, <1>3
<1>5. p * d >= p * (q + 1)
  BY <1>1, <1>2, <1>4
<1> QED BY <1>1, <1>2, <1>5

\* A rest is less than the divisor, and not more than the number.
LEMMA RestLess ==
  ASSUME NEW p \in Nat \ {0}, NEW a \in Nat
  PROVE  a % p \in 0 .. p - 1 /\ a % p <= a
<1> DEFINE d == a \div p
           r == a % p
<1>1. d \in Nat /\ r \in 0 .. p - 1 /\ a = p * d + r
  BY Division
<1> HIDE DEF d, r
<1>2. p * d >= 0
  BY <1>1
<1> QED BY <1>1, <1>2 DEF r
-----------------------------------------------------------------------------
\* Whole packages, as WholePackages says of Stream.
Whole(s) == /\ Len(s) % PkgLen = 0
            /\ \A j \in 1 .. Len(s) :
                 s[j] = s[j - ((j - 1) % PkgLen)] + ((j - 1) % PkgLen)

\* Whole packages taken off at the front leave whole packages.
LEMMA WholeRest ==
  ASSUME NEW s \in Seq(Bytes), Whole(s),
         NEW n \in 0 .. Len(s), n % PkgLen = 0
  PROVE  Whole(SubSeq(s, n + 1, Len(s)))
<1> DEFINE t == SubSeq(s, n + 1, Len(s))
<1>1. PkgLen \in Nat \ {0} /\ Len(s) \in Nat /\ n \in Nat /\ n <= Len(s)
  BY LinkAssumption
<1>2. Len(t) = Len(s) - n /\ \A i \in 1 .. Len(s) - n : t[i] = s[n + i]
  <2>1. \A i \in n + 1 .. Len(s) : s[i] \in Bytes
    BY <1>1, ElementOfSeq
  <2>2. /\ Len(t) = IF n + 1 <= Len(s) THEN Len(s) - (n + 1) + 1 ELSE 0
        /\ \A i \in 1 .. Len(s) - (n + 1) + 1 : t[i] = s[(n + 1) + i - 1]
    BY <1>1, <2>1, SubSeqProperties
  <2> QED BY <1>1, <2>2
<1> HIDE DEF t
<1>3. Len(t) % PkgLen = 0
  <2>1. Len(s) % PkgLen = 0
    BY DEF Whole
  <2>2. (Len(s) - n) % PkgLen = Len(s) % PkgLen
    BY <1>1, RestSub
  <2> QED BY <1>2, <2>1, <2>2
<1>4. ASSUME NEW j \in 1 .. Len(t)
      PROVE  t[j] = t[j - ((j - 1) % PkgLen)] + ((j - 1) % PkgLen)
  <2> DEFINE r == (j - 1) % PkgLen
  <2>1. j - 1 \in Nat /\ n + (j - 1) \in Nat /\ n + j \in 1 .. Len(s)
    BY <1>1, <1>2
  <2>2. r \in 0 .. PkgLen - 1 /\ r <= j - 1
    BY <1>1, <2>1, RestLess
  <2>3. (n + (j - 1)) % PkgLen = r
    BY <1>1, <2>1, RestAdd
  <2>4. (n + j) - 1 = n + (j - 1)
    BY <1>1, <2>1
  <2>5. s[n + j] = s[(n + j) - r] + r
    BY <2>1, <2>3, <2>4 DEF Whole
  <2> HIDE DEF r
  <2>6. (n + j) - r = n + (j - r) /\ j - r \in 1 .. Len(s) - n /\ j \in 1 .. Len(s) - n
    BY <1>1, <1>2, <2>1, <2>2
  <2>7. t[j] = t[j - r] + r
    BY <1>2, <2>5, <2>6
  <2> QED BY <2>7 DEF r
<1> QED BY <1>3, <1>4 DEF Whole, t

\* What is in front of whole packages and makes whole packages with them is
\* whole packages.
LEMMA WholeFront ==
  ASSUME NEW s \in Seq(Bytes), NEW t \in Seq(Bytes),
         Whole(s \o t), Len(t) % PkgLen = 0
  PROVE  Whole(s)
<1> DEFINE u == s \o t
<1>1. PkgLen \in Nat \ {0} /\ Len(s) \in Nat /\ Len(t) \in Nat
  BY LinkAssumption
<1>2. Len(u) = Len(s) + Len(t) /\ \A i \in 1 .. Len(s) : u[i] = s[i]
  BY ConcatProperties, <1>1
<1>3. Whole(u)
  OBVIOUS
<1> HIDE DEF u
<1>4. Len(s) % PkgLen = 0
  <2>1. Len(u) - Len(t) = Len(s) /\ Len(u) \in Nat /\ Len(t) <= Len(u)
    BY <1>1, <1>2
  <2>2. Len(u) % PkgLen = 0
    BY <1>3 DEF Whole
  <2>3. (Len(u) - Len(t)) % PkgLen = Len(u) % PkgLen
    BY <1>1, <2>1, RestSub
  <2> QED BY <2>1, <2>2, <2>3
<1>5. ASSUME NEW j \in 1 .. Len(s)
      PROVE  s[j] = s[j - ((j - 1) % PkgLen)] + ((j - 1) % PkgLen)
  <2> DEFINE r == (j - 1) % PkgLen
  <2>1. j - 1 \in Nat /\ j \in 1 .. Len(u)
    BY <1>1, <1>2
  <2>2. r \in 0 .. PkgLen - 1 /\ r <= j - 1
    BY <1>1, <2>1, RestLess
  <2>3. u[j] = u[j - r] + r
    BY <1>3, <2>1 DEF Whole
  <2> HIDE DEF r
  <2>4. j - r \in 1 .. Len(s)
    BY <1>1, <2>1, <2>2
  <2>5. s[j] = s[j - r] + r
    BY <1>2, <2>3, <2>4
  <2> QED BY <2>5 DEF r
<1> QED BY <1>4, <1>5 DEF Whole

\* Whole packages behind whole packages.
LEMMA WholeConcat ==
  ASSUME NEW s \in Seq(Bytes), NEW t \in Seq(Bytes), Whole(s), Whole(t)
  PROVE  Whole(s \o t)
<1> DEFINE u == s \o t
<1>1. PkgLen \in Nat \ {0} /\ Len(s) \in Nat /\ Len(t) \in Nat
  BY LinkAssumption
<1>2. /\ Len(u) = Len(s) + Len(t)
      /\ \A i \in 1 .. Len(s) : u[i] = s[i]
      /\ \A i \in 1 .. Len(t) : u[Len(s) + i] = t[i]
  <2>1. \A i \in 1 .. Len(s) + Len(t) : u[i] = IF i <= Len(s) THEN s[i] ELSE t[i - Len(s)]
    BY ConcatProperties
  <2>2. Len(u) = Len(s) + Len(t)
    BY ConcatProperties
  <2> HIDE DEF u
  <2>3. \A i \in 1 .. Len(s) : u[i] = s[i]
    BY <1>1, <2>1
  <2>4. ASSUME NEW i \in 1 .. Len(t) PROVE u[Len(s) + i] = t[i]
    <3>1. Len(s) + i \in 1 .. Len(s) + Len(t) /\ ~(Len(s) + i <= Len(s))
          /\ (Len(s) + i) - Len(s) = i
      BY <1>1
    <3> QED BY <2>1, <3>1
  <2> QED BY <2>2, <2>3, <2>4
<1> HIDE DEF u
<1>3. Len(u) % PkgLen = 0
  <2>1. Len(s) % PkgLen = 0 /\ Len(t) % PkgLen = 0
    BY DEF Whole
  <2>2. (Len(s) + Len(t)) % PkgLen = Len(t) % PkgLen
    BY <1>1, <2>1, RestAdd
  <2> QED BY <1>2, <2>1, <2>2
<1>4. ASSUME NEW j \in 1 .. Len(u)
      PROVE  u[j] = u[j - ((j - 1) % PkgLen)] + ((j - 1) % PkgLen)
  <2> DEFINE r == (j - 1) % PkgLen
  <2>1. j - 1 \in Nat
    BY <1>1, <1>2
  <2>2. CASE j <= Len(s)
    <3>1. r \in 0 .. PkgLen - 1 /\ r <= j - 1
      BY <1>1, <2>1, RestLess
    <3>2. s[j] = s[j - r] + r
      BY <2>1, <2>2, <1>1 DEF Whole
    <3> HIDE DEF r
    <3>3. j \in 1 .. Len(s) /\ j - r \in 1 .. Len(s)
      BY <1>1, <2>1, <2>2, <3>1
    <3>4. u[j] = u[j - r] + r
      BY <1>2, <3>2, <3>3
    <3> QED BY <3>4 DEF r
  <2>3. CASE j > Len(s)
    <3> DEFINE i == j - Len(s)
    <3>1. i \in 1 .. Len(t) /\ i - 1 \in Nat /\ Len(s) + (i - 1) = j - 1 /\ Len(s) + i = j
      BY <1>1, <1>2, <2>1, <2>3
    <3>2. r = (i - 1) % PkgLen
      <4>1. Len(s) % PkgLen = 0
        BY DEF Whole
      <4>2. (Len(s) + (i - 1)) % PkgLen = (i - 1) % PkgLen
        BY <1>1, <3>1, <4>1, RestAdd
      <4> QED BY <3>1, <4>2
    <3>3. t[i] = t[i - r] + r
      BY <3>1, <3>2 DEF Whole
    <3>4. r \in 0 .. PkgLen - 1 /\ r <= i - 1
      BY <1>1, <3>1, <3>2, RestLess
    <3> HIDE DEF r, i
    <3>5. i - r \in 1 .. Len(t) /\ Len(s) + (i - r) = j - r
      BY <1>1, <3>1, <3>4
    <3>6. u[j] = u[j - r] + r
      BY <1>2, <3>1, <3>3, <3>5
    <3> QED BY <3>6 DEF r
  <2> QED BY <1>1, <1>2, <2>2, <2>3
<1> QED BY <1>3, <1>4 DEF Whole, u

\* The bytes of one package.
Package(first) == [k \in 1 .. PkgLen |-> first + (k - 1)]

\* A package is a whole package.
LEMMA WholePackage ==
  ASSUME NEW first \in Nat, first + PkgLen <= Ids
  PROVE  Package(first) \in Seq(Bytes) /\ Len(Package(first)) = PkgLen /\ Whole(Package(first))
<1>1. PkgLen \in Nat \ {0} /\ Ids \in Nat
  BY LinkAssumption
<1>2. \A k \in 1 .. PkgLen : first + (k - 1) \in Bytes
  BY <1>1 DEF Bytes
<1>3. Package(first) \in [1 .. PkgLen -> Bytes]
  BY <1>2 DEF Package
<1>4. Package(first) \in Seq(Bytes) /\ Len(Package(first)) = PkgLen
  BY <1>1, <1>3
<1>5. PkgLen % PkgLen = 0
  <2>1. (PkgLen * 1 + 0) % PkgLen = 0
    BY <1>1, RestUnique
  <2> QED BY <1>1, <2>1
<1>6. ASSUME NEW j \in 1 .. PkgLen
      PROVE  Package(first)[j] = Package(first)[j - ((j - 1) % PkgLen)] + ((j - 1) % PkgLen)
  <2>1. (PkgLen * 0 + (j - 1)) % PkgLen = j - 1
    BY <1>1, RestUnique
  <2>2. (j - 1) % PkgLen = j - 1
    BY <1>1, <2>1
  <2>3. j - (j - 1) = 1 /\ 1 \in 1 .. PkgLen
    BY <1>1
  <2> QED BY <1>1, <2>2, <2>3 DEF Package
<1> QED BY <1>4, <1>5, <1>6 DEF Whole
-----------------------------------------------------------------------------
\* Concatenation of three parts of a stream.
LEMMA Assoc ==
  ASSUME NEW s \in Seq(Bytes), NEW t \in Seq(Bytes), NEW u \in Seq(Bytes)
  PROVE  (s \o t) \o u = s \o (t \o u)
  BY ConcatAssociative

\* What a concatenation starts with, taken off.
LEMMA RestOfConcat ==
  ASSUME NEW s \in Seq(Bytes), NEW t \in Seq(Bytes)
  PROVE  SubSeq(s \o t, Len(s) + 1, Len(s \o t)) = t
<1> DEFINE u == s \o t
           g == SubSeq(u, Len(s) + 1, Len(u))
<1>1. /\ u \in Seq(Bytes) /\ Len(u) = Len(s) + Len(t)
      /\ \A i \in 1 .. Len(s) + Len(t) : u[i] = IF i <= Len(s) THEN s[i] ELSE t[i - Len(s)]
      /\ Len(s) \in Nat /\ Len(t) \in Nat
  BY ConcatProperties
<1> HIDE DEF u
<1>2. /\ g \in Seq(Bytes) /\ Len(g) = Len(t)
      /\ \A i \in 1 .. Len(t) : g[i] = u[Len(s) + i]
  <2>1. \A i \in Len(s) + 1 .. Len(u) : u[i] \in Bytes
    BY <1>1, ElementOfSeq
  <2>2. /\ g \in Seq(Bytes)
        /\ Len(g) = IF Len(s) + 1 <= Len(u) THEN Len(u) - (Len(s) + 1) + 1 ELSE 0
        /\ \A i \in 1 .. Len(u) - (Len(s) + 1) + 1 : g[i] = u[(Len(s) + 1) + i - 1]
    BY <1>1, <2>1, SubSeqProperties
  <2> QED BY <1>1, <2>2
<1> HIDE DEF g
<1>3. ASSUME NEW i \in 1 .. Len(t) PROVE g[i] = t[i]
  <2>1. /\ Len(s) + i \in 1 .. Len(s) + Len(t) /\ ~(Len(s) + i <= Len(s))
        /\ (Len(s) + i) - Len(s) = i
    BY <1>1
  <2> QED BY <1>1, <1>2, <2>1
<1>4. g = t
  BY <1>2, <1>3, SeqEqual
<1> QED BY <1>4 DEF g, u

\* A sequence cut in two.
LEMMA Cut ==
  ASSUME NEW s \in Seq(Bytes), NEW n \in 0 .. Len(s)
  PROVE  /\ SubSeq(s, 1, n) \in Seq(Bytes) /\ Len(SubSeq(s, 1, n)) = n
         /\ SubSeq(s, n + 1, Len(s)) \in Seq(Bytes)
         /\ Len(SubSeq(s, n + 1, Len(s))) = Len(s) - n
         /\ SubSeq(s, 1, n) \o SubSeq(s, n + 1, Len(s)) = s
<1>1. n \in Nat /\ n <= Len(s) /\ Len(s) \in Nat
  OBVIOUS
<1>2. \A i \in 1 .. Len(s) : s[i] \in Bytes
  BY ElementOfSeq
<1>3. SubSeq(s, 1, n) \in Seq(Bytes) /\ Len(SubSeq(s, 1, n)) = n
  <2>1. \A i \in 1 .. n : s[i] \in Bytes
    BY <1>1, <1>2
  <2>2. /\ SubSeq(s, 1, n) \in Seq(Bytes)
        /\ Len(SubSeq(s, 1, n)) = IF 1 <= n THEN n - 1 + 1 ELSE 0
    BY <1>1, <2>1, SubSeqProperties
  <2> QED BY <1>1, <2>2
<1>4. /\ SubSeq(s, n + 1, Len(s)) \in Seq(Bytes)
      /\ Len(SubSeq(s, n + 1, Len(s))) = Len(s) - n
  <2>1. \A i \in n + 1 .. Len(s) : s[i] \in Bytes
    BY <1>1, <1>2
  <2>2. /\ SubSeq(s, n + 1, Len(s)) \in Seq(Bytes)
        /\ Len(SubSeq(s, n + 1, Len(s)))
             = IF n + 1 <= Len(s) THEN Len(s) - (n + 1) + 1 ELSE 0
    BY <1>1, <2>1, SubSeqProperties
  <2> QED BY <1>1, <2>2
<1>5. SubSeq(s, 1, n) \o SubSeq(s, n + 1, Len(s)) = SubSeq(s, 1, Len(s))
  <2>1. 1 \in 1 .. Len(s) + 1 /\ n \in 1 - 1 .. Len(s) /\ Len(s) \in n .. Len(s)
    BY <1>1
  <2> QED BY <2>1, ConcatAdjacentSubSeq
<1> QED BY <1>3, <1>4, <1>5, SubSeqFull
-----------------------------------------------------------------------------
\* The live bytes of the queue are bytes of packages.
Live(b) == \A k \in 0 .. b.size - 1 : b.heap[b.head + k] \in Bytes

\* What the queue holds, byte by byte.
LEMMA QueuedBytes ==
  ASSUME NEW b \in Buffers, Sound(b), Live(b)
  PROVE  /\ Queued(b) \in Seq(Bytes)
         /\ Len(Queued(b)) = b.size /\ b.size \in Nat
         /\ \A k \in 1 .. b.size : Queued(b)[k] = b.heap[b.head + (k - 1)]
<1>1. b.size \in Nat /\ b.head \in Nat
  BY DEF Buffers
<1>2. \A k \in 1 .. b.size : b.head + k - 1 = b.head + (k - 1) /\ k - 1 \in 0 .. b.size - 1
  BY <1>1
<1>3. Queued(b) \in [1 .. b.size -> Bytes]
  BY <1>2 DEF Queued, Live
<1>4. Queued(b) \in Seq(Bytes) /\ Len(Queued(b)) = b.size
  BY <1>1, <1>3
<1>5. \A k \in 1 .. b.size : Queued(b)[k] = b.heap[b.head + (k - 1)]
  BY <1>2 DEF Queued
<1> QED BY <1>1, <1>4, <1>5

\* What is the same in two buffers is queued in both.
LEMMA QueuedSame ==
  ASSUME NEW b \in Buffers, Sound(b), Live(b),
         NEW e \in Buffers, Sound(e), e.size = b.size,
         \A k \in 0 .. b.size - 1 : e.heap[e.head + k] = b.heap[b.head + k]
  PROVE  Live(e) /\ Queued(e) = Queued(b)
<1>1. Live(e)
  BY DEF Live
<1>2. /\ Queued(b) \in Seq(Bytes) /\ Len(Queued(b)) = b.size /\ b.size \in Nat
      /\ \A k \in 1 .. b.size : Queued(b)[k] = b.heap[b.head + (k - 1)]
  BY QueuedBytes
<1>3. /\ Queued(e) \in Seq(Bytes) /\ Len(Queued(e)) = e.size
      /\ \A k \in 1 .. e.size : Queued(e)[k] = e.heap[e.head + (k - 1)]
  BY <1>1, QueuedBytes
<1>4. \A k \in 1 .. b.size : Queued(e)[k] = Queued(b)[k]
  <2> SUFFICES ASSUME NEW k \in 1 .. b.size PROVE Queued(e)[k] = Queued(b)[k]
    OBVIOUS
  <2>1. k - 1 \in 0 .. b.size - 1
    BY <1>2
  <2> QED BY <1>2, <1>3, <2>1
<1> QED BY <1>1, <1>2, <1>3, <1>4, SeqEqual

\* A chunk taken off the queue is the front of it.
LEMMA QueuedConsume ==
  ASSUME NEW b \in Buffers, Sound(b), Live(b), NEW n \in 1 .. b.size
  PROVE  /\ BufConsume(b, n) \in Buffers /\ Sound(BufConsume(b, n)) /\ Live(BufConsume(b, n))
         /\ BufConsume(b, n).size = 0 => BufConsume(b, n).tail = 0
         /\ SubSeq(Queued(b), 1, n) \in Seq(Bytes)
         /\ Len(SubSeq(Queued(b), 1, n)) = n
         /\ Queued(BufConsume(b, n)) \in Seq(Bytes)
         /\ SubSeq(Queued(b), 1, n) \o Queued(BufConsume(b, n)) = Queued(b)
<1> DEFINE c == BufConsume(b, n)
           q == Queued(b)
           f == SubSeq(q, 1, n)
           g == SubSeq(q, n + 1, Len(q))
<1>1. /\ q \in Seq(Bytes) /\ Len(q) = b.size /\ b.size \in Nat
      /\ \A k \in 1 .. b.size : q[k] = b.heap[b.head + (k - 1)]
  BY QueuedBytes
<1>2. n \in Nat /\ n <= b.size /\ n >= 1
  BY <1>1
<1>3. /\ c \in Buffers /\ Sound(c) /\ c.size = b.size - n
      /\ c.size = 0 => c.tail = 0
      /\ \A k \in 0 .. b.size - n - 1 : c.heap[c.head + k] = b.heap[b.head + (n + k)]
  BY <1>2, ConsumeLemma
<1> HIDE DEF c
<1>4. Live(c)
  <2> SUFFICES ASSUME NEW k \in 0 .. c.size - 1 PROVE c.heap[c.head + k] \in Bytes
    BY DEF Live
  <2>1. k \in 0 .. b.size - n - 1 /\ n + k \in 0 .. b.size - 1
    BY <1>1, <1>2, <1>3
  <2> QED BY <1>3, <2>1 DEF Live
<1>5. /\ Queued(c) \in Seq(Bytes) /\ Len(Queued(c)) = b.size - n
      /\ \A k \in 1 .. b.size - n : Queued(c)[k] = c.heap[c.head + (k - 1)]
  BY <1>3, <1>4, QueuedBytes
<1> HIDE DEF q
<1>6. /\ f \in Seq(Bytes) /\ Len(f) = n
      /\ g \in Seq(Bytes) /\ Len(g) = b.size - n
      /\ f \o g = q
  BY <1>1, <1>2, Cut
<1>7. \A i \in 1 .. b.size - n : g[i] = q[n + i]
  <2>1. \A i \in n + 1 .. Len(q) : q[i] \in Bytes
    BY <1>1, <1>2, ElementOfSeq
  <2>2. \A i \in 1 .. Len(q) - (n + 1) + 1 : g[i] = q[(n + 1) + i - 1]
    BY <1>1, <1>2, <2>1, SubSeqProperties
  <2> QED BY <1>1, <1>2, <2>2
<1> HIDE DEF f, g
<1>8. g = Queued(c)
  <2>1. ASSUME NEW i \in 1 .. b.size - n PROVE g[i] = Queued(c)[i]
    <3>1. i - 1 \in 0 .. b.size - n - 1 /\ n + i \in 1 .. b.size /\ n + (i - 1) = (n + i) - 1
      BY <1>1, <1>2
    <3>2. Queued(c)[i] = b.heap[b.head + (n + (i - 1))]
      BY <1>3, <1>5, <3>1
    <3> QED BY <1>1, <1>7, <3>1, <3>2
  <2> QED BY <1>5, <1>6, <2>1, SeqEqual
<1> QED BY <1>3, <1>4, <1>5, <1>6, <1>8 DEF c, f, q

\* buf_extend of the queue for one more package: either nothing queued is lost,
\* or all of it.
LEMMA ExtendQueue ==
  ASSUME queue \in Buffers, Sound(queue), Live(queue)
  PROVE  /\ Extended \in Buffers /\ Sound(Extended) /\ Live(Extended)
         /\ \/ Queued(Extended) = Queued(queue) /\ ~Drops
            \/ Queued(Extended) = << >> /\ Drops
<1>1. /\ queue.size \in Nat /\ queue.head \in Nat /\ queue.tail \in Nat
      /\ PkgLen \in Nat \ {0} /\ Capacity \in Nat /\ PkgLen <= Capacity
  BY LinkAssumption, CapacityAssumption DEF Buffers
<1>4. CASE queue.size + PkgLen <= Capacity
  <2>1. /\ Extended \in Buffers /\ Sound(Extended)
        /\ Extended.size = queue.size
        /\ \A k \in 0 .. queue.size - 1 :
             Extended.heap[Extended.head + k] = queue.heap[queue.head + k]
    BY <1>1, <1>4, ExtendLemma DEF Extended
  <2>2. Live(Extended) /\ Queued(Extended) = Queued(queue)
    BY <2>1, QueuedSame
  <2>3. ~Drops
    BY <1>1, <2>1 DEF Drops
  <2> QED BY <2>1, <2>2, <2>3
<1>6. CASE queue.size + PkgLen > Capacity
  <2>1. Squeezed(queue, PkgLen).size = queue.size
    BY CompactedLemma DEF Squeezed
  <2>2. Extended = BufInit
    BY <1>6, <2>1 DEF Extended, BufExtend
  <2>3. Extended \in Buffers /\ Sound(Extended) /\ Extended.size = 0
    BY <2>2, InitLemma
  <2>4. Live(Extended)
    BY <2>3 DEF Live
  <2>5. Queued(Extended) = << >>
    BY <2>3, <2>4, QueuedBytes, EmptySeq
  <2>6. Drops
    BY <1>1, <1>6, <2>3 DEF Drops
  <2> QED BY <2>3, <2>4, <2>5, <2>6
<1> QED BY <1>1, <1>4, <1>6

\* send_pkg queues a package behind what is there.
LEMMA NumberedLemma ==
  ASSUME NEW e \in Buffers, Sound(e), Live(e), e.tail + PkgLen <= Capacity,
         next \in Nat, next + PkgLen <= Ids
  PROVE  /\ Numbered(e) \in Buffers /\ Sound(Numbered(e)) /\ Live(Numbered(e))
         /\ Numbered(e).size > 0
         /\ Queued(Numbered(e)) = Queued(e) \o Package(next)
<1> DEFINE w == Written(e, PkgLen, next)
           n == Numbered(e)
<1>1. /\ e.size \in Nat /\ e.head \in Nat /\ e.tail \in Nat
      /\ PkgLen \in Nat \ {0} /\ Ids \in Nat \ {0} /\ Capacity \in Nat
  BY LinkAssumption, CapacityAssumption DEF Buffers
<1>2. /\ w \in Buffers /\ Sound(w) /\ w.size = e.size + PkgLen
      /\ \A k \in 0 .. e.size - 1 : w.heap[w.head + k] = e.heap[e.head + k]
      /\ \A k \in e.size .. e.size + PkgLen - 1 : w.heap[w.head + k] = next + (k - e.size)
  BY <1>1, WrittenLemma
<1>3. /\ n.head = w.head /\ n.tail = w.tail /\ n.size = w.size
      /\ n.heap = [j \in Offsets |-> IF w.heap[j] = Blank THEN Blank ELSE w.heap[j] % Ids]
      /\ n = [head |-> n.head, tail |-> n.tail, size |-> n.size, heap |-> n.heap]
  BY <1>2 DEF Numbered, Buffers
<1> HIDE DEF w
<1>4. /\ w.size \in Nat /\ w.head \in Nat /\ w.tail \in Nat /\ w.heap \in [Offsets -> Int]
      /\ w.head <= w.tail /\ w.tail <= Capacity /\ w.size = w.tail - w.head
  BY <1>2 DEF Buffers, Sound
<1>5. n \in Buffers /\ Sound(n)
  <2>1. \A j \in Offsets : (IF w.heap[j] = Blank THEN Blank ELSE w.heap[j] % Ids) \in Int
    BY <1>1, <1>4 DEF Blank
  <2> HIDE DEF n
  <2>2. n.heap \in [Offsets -> Int]
    BY <1>3, <2>1
  <2> QED BY <1>3, <1>4, <2>2 DEF Buffers, Sound
<1>6. \A k \in 0 .. w.size - 1 : w.head + k \in Offsets
  <2> SUFFICES ASSUME NEW k \in 0 .. w.size - 1 PROVE w.head + k \in 0 .. Capacity - 1
    BY DEF Offsets
  <2> QED BY <1>1, <1>4
<1>7. ASSUME NEW x \in Bytes PROVE x # Blank /\ x % Ids = x
  <2>1. x \in 0 .. Ids - 1
    BY DEF Bytes
  <2>2. (Ids * 0 + x) % Ids = x
    BY <1>1, <2>1, RestUnique
  <2>3. Ids * 0 + x = x
    BY <1>1, <2>1
  <2> QED BY <2>1, <2>2, <2>3 DEF Blank
<1>8. \A k \in 0 .. w.size - 1 :
        w.heap[w.head + k] \in Bytes => n.heap[n.head + k] = w.heap[w.head + k]
  <2> HIDE DEF n
  <2> QED BY <1>3, <1>6, <1>7
<1> HIDE DEF n
<1>9. \A k \in 0 .. e.size - 1 : /\ n.heap[n.head + k] = e.heap[e.head + k]
                                 /\ n.heap[n.head + k] \in Bytes
  <2> SUFFICES ASSUME NEW k \in 0 .. e.size - 1
               PROVE  n.heap[n.head + k] = e.heap[e.head + k] /\ e.heap[e.head + k] \in Bytes
    OBVIOUS
  <2>1. w.heap[w.head + k] = e.heap[e.head + k] /\ e.heap[e.head + k] \in Bytes
    BY <1>2 DEF Live
  <2>2. k \in 0 .. w.size - 1
    BY <1>1, <1>2
  <2> QED BY <1>8, <2>1, <2>2
<1>10. \A k \in e.size .. e.size + PkgLen - 1 :
         n.heap[n.head + k] = next + (k - e.size) /\ n.heap[n.head + k] \in Bytes
  <2> SUFFICES ASSUME NEW k \in e.size .. e.size + PkgLen - 1
               PROVE  n.heap[n.head + k] = next + (k - e.size) /\ next + (k - e.size) \in Bytes
    OBVIOUS
  <2>1. w.heap[w.head + k] = next + (k - e.size)
    BY <1>2
  <2>2. next + (k - e.size) \in 0 .. Ids - 1 /\ k \in 0 .. w.size - 1
    BY <1>1, <1>2
  <2> QED BY <1>8, <2>1, <2>2 DEF Bytes
<1>11. Live(n)
  <2> SUFFICES ASSUME NEW k \in 0 .. n.size - 1 PROVE n.heap[n.head + k] \in Bytes
    BY DEF Live
  <2>1. k \in 0 .. e.size - 1 \/ k \in e.size .. e.size + PkgLen - 1
    BY <1>1, <1>2, <1>3
  <2> QED BY <1>9, <1>10, <2>1
<1>12. Queued(n) = Queued(e) \o Package(next)
  <2> DEFINE q == Queued(e)
             p == Package(next)
             u == q \o p
  <2>1. /\ q \in Seq(Bytes) /\ Len(q) = e.size
        /\ \A k \in 1 .. e.size : q[k] = e.heap[e.head + (k - 1)]
    BY QueuedBytes
  <2>2. p \in Seq(Bytes) /\ Len(p) = PkgLen /\ \A k \in 1 .. PkgLen : p[k] = next + (k - 1)
    BY <1>1, WholePackage DEF Package
  <2>3. /\ Queued(n) \in Seq(Bytes) /\ Len(Queued(n)) = e.size + PkgLen
        /\ \A k \in 1 .. e.size + PkgLen : Queued(n)[k] = n.heap[n.head + (k - 1)]
    BY <1>2, <1>3, <1>5, <1>11, QueuedBytes
  <2> HIDE DEF q, p
  <2>4. /\ u \in Seq(Bytes) /\ Len(u) = e.size + PkgLen
        /\ \A k \in 1 .. e.size + PkgLen : u[k] = IF k <= e.size THEN q[k] ELSE p[k - e.size]
    <3>1. /\ u \in Seq(Bytes) /\ Len(u) = Len(q) + Len(p)
          /\ \A k \in 1 .. Len(q) + Len(p) : u[k] = IF k <= Len(q) THEN q[k] ELSE p[k - Len(q)]
      BY <2>1, <2>2, ConcatProperties
    <3> HIDE DEF u
    <3> QED BY <2>1, <2>2, <3>1
  <2> HIDE DEF u
  <2>5. ASSUME NEW k \in 1 .. e.size + PkgLen PROVE Queued(n)[k] = u[k]
    <3>1. CASE k <= e.size
      <4>1. k - 1 \in 0 .. e.size - 1 /\ k \in 1 .. e.size
        BY <1>1, <3>1
      <4>2. Queued(n)[k] = e.heap[e.head + (k - 1)]
        BY <1>9, <2>3, <4>1
      <4>3. u[k] = q[k]
        BY <2>4, <3>1
      <4> QED BY <2>1, <4>1, <4>2, <4>3
    <3>2. CASE k > e.size
      <4>1. /\ k - 1 \in e.size .. e.size + PkgLen - 1 /\ k - e.size \in 1 .. PkgLen
            /\ (k - 1) - e.size = (k - e.size) - 1 /\ ~(k <= e.size)
        BY <1>1, <3>2
      <4>2. Queued(n)[k] = next + ((k - 1) - e.size)
        BY <1>10, <2>3, <4>1
      <4>3. u[k] = p[k - e.size]
        BY <2>4, <4>1
      <4> QED BY <2>2, <4>1, <4>2, <4>3
    <3> QED BY <1>1, <3>1, <3>2
  <2>6. Queued(n) = u
    BY <2>3, <2>4, <2>5, SeqEqual
  <2> QED BY <2>6 DEF u, q, p
<1>13. n.size > 0
  BY <1>1, <1>2, <1>3
<1> QED BY <1>5, <1>11, <1>12, <1>13 DEF n
-----------------------------------------------------------------------------
\* The inductive invariant.  WholePackages is nearly inductive: it needs that
\* the live bytes of the queue lie in its heap, and that the next package
\* starts at a multiple of its length, so that no package is numbered across
\* the wrap of Ids.
Inv == /\ TypeOK
       /\ Sound(queue) /\ Live(queue)
       /\ queue.size = 0 => queue.tail = 0
       /\ next % PkgLen = 0
       /\ ~torn => Whole(Stream)

\* The form of the property that TLC evaluates.
LEMMA WholeIsWhole == Inv => WholePackages
<1> SUFFICES ASSUME Inv, ~torn
             PROVE  /\ Len(Stream) % PkgLen = 0
                    /\ \A j \in 1 .. Len(Stream) :
                         Stream[j] = Stream[j - ((j - 1) % PkgLen)] + (j - (j - ((j - 1) % PkgLen)))
  BY DEF WholePackages
<1> DEFINE s == Stream
<1>1. Whole(s)
  BY DEF Inv
<1>2. Len(s) \in Nat /\ PkgLen \in Nat \ {0}
  <2>1. part \in Seq(Bytes) /\ wire \in Seq(Bytes) /\ Queued(queue) \in Seq(Bytes)
    BY QueuedBytes DEF Inv, TypeOK
  <2>2. s \in Seq(Bytes)
    BY <2>1, ConcatProperties DEF Stream
  <2> HIDE DEF s
  <2> QED BY <2>2, LinkAssumption
<1> HIDE DEF s
<1>3. ASSUME NEW j \in 1 .. Len(s)
      PROVE  s[j] = s[j - ((j - 1) % PkgLen)] + (j - (j - ((j - 1) % PkgLen)))
  <2> DEFINE r == (j - 1) % PkgLen
  <2>1. j - 1 \in Nat
    BY <1>2
  <2>2. r \in Int
    BY <1>2, <2>1, RestLess
  <2>3. s[j] = s[j - r] + r
    BY <1>1 DEF Whole
  <2> HIDE DEF r
  <2>4. j - (j - r) = r
    BY <2>1, <2>2
  <2> QED BY <2>3, <2>4 DEF r
<1> QED BY <1>1, <1>3 DEF Whole, s

\* The three parts of the stream, and that they are sequences of bytes.
LEMMA StreamParts ==
  ASSUME Inv
  PROVE  /\ part \in Seq(Bytes) /\ wire \in Seq(Bytes) /\ Queued(queue) \in Seq(Bytes)
         /\ Stream = (part \o wire) \o Queued(queue)
         /\ part \o wire \in Seq(Bytes) /\ Stream \in Seq(Bytes)
         /\ Len(Queued(queue)) = queue.size /\ queue.size \in Nat
         /\ PkgLen \in Nat \ {0}
<1>1. part \in Seq(Bytes) /\ wire \in Seq(Bytes)
  BY DEF Inv, TypeOK
<1>2. /\ Queued(queue) \in Seq(Bytes) /\ Len(Queued(queue)) = queue.size
      /\ queue.size \in Nat
  BY QueuedBytes DEF Inv, TypeOK
<1>3. Stream = (part \o wire) \o Queued(queue)
  BY DEF Stream
<1>4. part \o wire \in Seq(Bytes)
  BY <1>1, ConcatProperties
<1>5. Stream \in Seq(Bytes)
  BY <1>2, <1>3, <1>4, ConcatProperties
<1> QED BY <1>1, <1>2, <1>3, <1>4, <1>5, LinkAssumption

\* send_pkg: a package behind whole packages, or behind what the link has
\* after a drop.
LEMMA SendPkgInv ==
  ASSUME Inv, SendPkg
  PROVE  Inv'
<1>1. /\ queue \in Buffers /\ Sound(queue) /\ Live(queue)
      /\ next \in Nat /\ next < Ids /\ next % PkgLen = 0
      /\ PkgLen \in Nat \ {0} /\ Ids \in Nat \ {0} /\ Ids % PkgLen = 0
  BY LinkAssumption DEF Inv, TypeOK, Bytes
<1>2. /\ queue' = Numbered(Extended) /\ part' = part /\ wire' = wire
      /\ next' = (next + PkgLen) % Ids
      /\ torn' = (torn \/ (Drops /\ MidPackage))
  BY DEF SendPkg
<1>3. next + PkgLen <= Ids
  BY <1>1, NextMultiple
<1>4. /\ Extended \in Buffers /\ Sound(Extended) /\ Live(Extended)
      /\ Extended.tail + PkgLen <= Capacity
      /\ \/ Queued(Extended) = Queued(queue) /\ ~Drops
         \/ Queued(Extended) = << >> /\ Drops
  BY <1>1, ExtendQueue DEF SendPkg, Fits
<1>5. /\ queue' \in Buffers /\ Sound(queue') /\ Live(queue')
      /\ queue'.size > 0
      /\ Queued(queue') = Queued(Extended) \o Package(next)
  BY <1>1, <1>2, <1>3, <1>4, NumberedLemma
<1>6. next' \in Bytes /\ next' % PkgLen = 0
  <2>1. CASE next + PkgLen < Ids
    <3>1. (Ids * 0 + (next + PkgLen)) % Ids = next + PkgLen
      BY <1>1, <2>1, RestUnique
    <3>2. next' = next + PkgLen
      BY <1>1, <1>2, <3>1
    <3>3. (PkgLen * 1 + 0) % PkgLen = 0
      BY <1>1, RestUnique
    <3>4. (next + PkgLen) % PkgLen = PkgLen % PkgLen
      BY <1>1, RestAdd
    <3>5. PkgLen % PkgLen = 0
      BY <1>1, <3>3
    <3> QED BY <1>1, <2>1, <3>2, <3>4, <3>5 DEF Bytes
  <2>2. CASE next + PkgLen = Ids
    <3>1. (Ids * 1 + 0) % Ids = 0 /\ (PkgLen * 0 + 0) % PkgLen = 0
      BY <1>1, RestUnique
    <3>2. next' = 0 /\ 0 % PkgLen = 0
      BY <1>1, <1>2, <2>2, <3>1
    <3> QED BY <1>1, <3>2 DEF Bytes
  <2> QED BY <1>1, <1>3, <2>1, <2>2
<1>7. TypeOK'
  BY <1>2, <1>5, <1>6 DEF Inv, TypeOK, SendPkg
<1>8. ASSUME ~torn' PROVE Whole(Stream')
  <2> DEFINE front == part \o wire
             q == Queued(queue)
             p == Package(next)
  <2>1. /\ front \in Seq(Bytes) /\ q \in Seq(Bytes)
        /\ Stream = front \o q /\ Stream \in Seq(Bytes) /\ Len(q) = queue.size
    BY StreamParts
  <2>2. Whole(Stream) /\ (Drops => Len(q) % PkgLen = 0)
    BY <1>2, <1>8, <2>1 DEF Inv, MidPackage
  <2>3. p \in Seq(Bytes) /\ Whole(p)
    BY <1>1, <1>3, WholePackage
  <2>4. Stream' = front \o (Queued(Extended) \o p)
    BY <1>2, <1>5 DEF Stream
  <2> HIDE DEF front, q, p
  <2>5. CASE Queued(Extended) = Queued(queue) /\ ~Drops
    <3>1. Stream' = front \o (q \o p)
      BY <2>4, <2>5 DEF q
    <3>2. front \o (q \o p) = (front \o q) \o p
      BY <2>1, <2>3, Assoc, ZenonT(30)
    <3>3. Stream' = Stream \o p
      BY <2>1, <3>1, <3>2
    <3> QED BY <2>1, <2>2, <2>3, <3>3, WholeConcat
  <2>6. CASE Queued(Extended) = << >> /\ Drops
    <3>1. Stream' = front \o p
      BY <2>3, <2>4, <2>6, ConcatEmptySeq
    <3>2. Whole(front)
      BY <2>1, <2>2, <2>6, WholeFront
    <3> QED BY <2>1, <2>3, <3>1, <3>2, WholeConcat
  <2> QED BY <1>4, <2>5, <2>6
<1> QED BY <1>5, <1>6, <1>7, <1>8 DEF Inv

\* A chunk moves from the queue to the kernel; no byte of the stream changes
\* its place.
LEMMA SendInv ==
  ASSUME Inv, Send
  PROVE  Inv'
<1> DEFINE n == Least(ToSend, Room)
           q == Queued(queue)
           f == SubSeq(q, 1, n)
           g == Queued(BufConsume(queue, n))
<1>1. /\ queue \in Buffers /\ Sound(queue) /\ Live(queue) /\ queue.size \in Nat
      /\ queue.size > 0 /\ Room > 0 /\ Room = SockRoom - Len(wire)
      /\ wire \in Seq(Bytes) /\ Len(wire) \in Nat
      /\ Chunk \in Nat \ {0} /\ SockRoom \in Nat \ {0}
  BY LinkAssumption DEF Inv, TypeOK, Send, Room, Buffers
<1>2. n \in 1 .. queue.size /\ n <= Room
  BY <1>1 DEF Least, ToSend
<1>3. /\ wire' = wire \o f /\ queue' = BufConsume(queue, n) /\ part' = part
      /\ torn' = torn /\ next' = next
      /\ ready' \in BOOLEAN
  BY DEF Send
<1> HIDE DEF n
<1>4. /\ BufConsume(queue, n) \in Buffers /\ Sound(BufConsume(queue, n))
      /\ Live(BufConsume(queue, n))
      /\ BufConsume(queue, n).size = 0 => BufConsume(queue, n).tail = 0
      /\ f \in Seq(Bytes) /\ Len(f) = n /\ g \in Seq(Bytes) /\ f \o g = q
  BY <1>1, <1>2, QueuedConsume
<1>5. /\ part \in Seq(Bytes) /\ part \o wire \in Seq(Bytes)
      /\ Stream = (part \o wire) \o q
  BY StreamParts
<1>6. Stream' = (part \o (wire \o f)) \o g
  BY <1>3 DEF Stream
<1> HIDE DEF f, g, q
<1>7. Stream' = Stream
  <2>1. part \o (wire \o f) = (part \o wire) \o f
    BY <1>1, <1>4, <1>5, Assoc, ZenonT(30)
  <2>2. ((part \o wire) \o f) \o g = (part \o wire) \o (f \o g)
    BY <1>4, <1>5, Assoc, ZenonT(30)
  <2> QED BY <1>4, <1>5, <1>6, <2>1, <2>2
<1>8. wire' \in Seq(Bytes) /\ Len(wire') <= SockRoom
  <2>1. wire \o f \in Seq(Bytes) /\ Len(wire \o f) = Len(wire) + Len(f)
    BY <1>1, <1>4, ConcatProperties
  <2> QED BY <1>1, <1>2, <1>3, <1>4, <2>1
<1>9. TypeOK'
  BY <1>3, <1>4, <1>8 DEF Inv, TypeOK, Send
<1> QED BY <1>3, <1>4, <1>7, <1>9 DEF Inv

\* The decoder takes all complete packages off the front of the stream.
LEMMA ReadInv ==
  ASSUME Inv, Read
  PROVE  Inv'
<1> DEFINE q == Queued(queue)
           a == SubSeq(wire, 1, Taken)
           b == SubSeq(wire, Taken + 1, Len(wire))
           r == Received
           k == Len(r) - (Len(r) % PkgLen)
           f == SubSeq(r, 1, k)
           g == SubSeq(r, k + 1, Len(r))
<1>1. /\ part \in Seq(Bytes) /\ wire \in Seq(Bytes) /\ q \in Seq(Bytes)
      /\ part \o wire \in Seq(Bytes) /\ Stream = (part \o wire) \o q
      /\ Stream \in Seq(Bytes) /\ PkgLen \in Nat \ {0}
  BY StreamParts
<1>2. Taken \in 0 .. Len(wire) /\ Len(wire) \in Nat /\ Len(wire) <= SockRoom
      /\ SockRoom \in Nat
  BY <1>1, LinkAssumption DEF Taken, Least, Inv, TypeOK
<1>3. /\ wire' = b /\ part' = g /\ queue' = queue /\ torn' = torn /\ next' = next
      /\ edge' \in BOOLEAN
  BY DEF Read, Inv, TypeOK
<1>4. /\ a \in Seq(Bytes) /\ b \in Seq(Bytes) /\ Len(b) = Len(wire) - Taken
      /\ a \o b = wire
  BY <1>1, <1>2, Cut
<1>5. r = part \o a /\ r \in Seq(Bytes) /\ Len(r) \in Nat
  <2>1. r = part \o a
    BY DEF Received
  <2>2. r \in Seq(Bytes)
    BY <1>1, <1>4, <2>1, ConcatProperties
  <2> HIDE DEF r
  <2> QED BY <2>1, <2>2
<1> HIDE DEF a, b, q, r
<1>6. k \in 0 .. Len(r) /\ k % PkgLen = 0 /\ Len(r) - k < PkgLen
  <2> DEFINE d == Len(r) \div PkgLen
             m == Len(r) % PkgLen
  <2>1. d \in Nat /\ m \in 0 .. PkgLen - 1 /\ Len(r) = PkgLen * d + m
    BY <1>1, <1>5, Division
  <2> HIDE DEF d, m
  <2>2. PkgLen * d \in Nat /\ (PkgLen * d + 0) % PkgLen = 0
    <3>1. PkgLen \in Nat \ {0} /\ d \in Nat /\ 0 \in 0 .. PkgLen - 1
      BY <1>1, <2>1
    <3>2. (PkgLen * d + 0) % PkgLen = 0
      BY <3>1, RestUnique
    <3>3. PkgLen * d \in Nat
      BY <3>1
    <3> QED BY <3>2, <3>3
  <2>3. Len(r) - m = PkgLen * d
    BY <1>1, <2>1, <2>2
  <2>4. Len(r) - m \in 0 .. Len(r) /\ (Len(r) - m) % PkgLen = 0
        /\ Len(r) - (Len(r) - m) < PkgLen
    BY <1>1, <1>5, <2>1, <2>2, <2>3
  <2> QED BY <2>4 DEF m
<1> HIDE DEF k
<1>7. /\ f \in Seq(Bytes) /\ Len(f) = k /\ g \in Seq(Bytes)
      /\ Len(g) = Len(r) - k /\ f \o g = r
  BY <1>5, <1>6, Cut
<1> HIDE DEF f, g
<1>8. Stream' = (g \o b) \o q
  BY <1>3 DEF Stream, q
<1>9. Stream = f \o ((g \o b) \o q)
  <2>1. /\ part \in Seq(Bytes) /\ a \in Seq(Bytes) /\ b \in Seq(Bytes)
        /\ f \in Seq(Bytes) /\ g \in Seq(Bytes) /\ q \in Seq(Bytes)
    BY <1>1, <1>4, <1>7
  <2>2. part \o (a \o b) = (part \o a) \o b
    BY <2>1, Assoc, ZenonT(30)
  <2>3. (f \o g) \o b = f \o (g \o b)
    BY <2>1, Assoc, ZenonT(30)
  <2>4. g \o b \in Seq(Bytes)
    BY <2>1, ConcatProperties
  <2>5. (f \o (g \o b)) \o q = f \o ((g \o b) \o q)
    <3>1. \A s \in Seq(Bytes) : (f \o s) \o q = f \o (s \o q)
      BY <2>1, Assoc, ZenonT(30)
    <3> QED BY <2>4, <3>1, ZenonT(30)
  <2> QED BY <1>1, <1>4, <1>5, <1>7, <2>2, <2>3, <2>5
<1>10. Stream' \in Seq(Bytes)
  BY <1>1, <1>4, <1>7, <1>8, ConcatProperties
<1>11. ASSUME ~torn' PROVE Whole(Stream')
  <2>1. Whole(Stream)
    BY <1>3, <1>11 DEF Inv
  <2>2. SubSeq(Stream, k + 1, Len(Stream)) = Stream'
    BY <1>7, <1>8, <1>9, <1>10, RestOfConcat
  <2>3. k \in 0 .. Len(Stream)
    <3>1. Len(Stream) = Len(f) + Len(Stream')
      BY <1>7, <1>8, <1>9, <1>10, ConcatProperties
    <3>2. Len(Stream') \in Nat
      BY <1>10
    <3> QED BY <1>6, <1>7, <3>1, <3>2
  <2> QED BY <1>1, <1>6, <2>1, <2>2, <2>3, WholeRest
<1>12. TypeOK'
  <2>1. Len(wire') <= SockRoom
    BY <1>2, <1>3, <1>4
  <2>2. Len(part') < PkgLen
    BY <1>3, <1>6, <1>7
  <2> QED BY <1>3, <1>4, <1>7, <2>1, <2>2 DEF Inv, TypeOK, Read
<1> QED BY <1>3, <1>11, <1>12 DEF Inv

\* Every step keeps the invariant.
LEMMA NextInv == Inv /\ [Next]_vars => Inv'
<1> SUFFICES ASSUME Inv, [Next]_vars PROVE Inv'
  OBVIOUS
<1>1. CASE SendPkg
  BY <1>1, SendPkgInv
<1>2. CASE Send
  BY <1>2, SendInv
<1>3. CASE Read
  BY <1>3, ReadInv
<1>4. CASE Overrun \/ WriteEvent \/ SendBlocked \/ WriteReturns \/ UNCHANGED vars
  <2>1. UNCHANGED <<queue, next, wire, part, torn>>
    BY <1>4 DEF Overrun, WriteEvent, SendBlocked, WriteReturns, vars
  <2>2. pc' \in {"idle", "write", "overrun"} /\ active' \in BOOLEAN /\ ready' \in BOOLEAN
        /\ edge' \in BOOLEAN
    BY <1>4 DEF Overrun, WriteEvent, SendBlocked, WriteReturns, vars, Inv, TypeOK
  <2>3. TypeOK'
    BY <2>1, <2>2 DEF Inv, TypeOK
  <2> QED BY <2>1, <2>3 DEF Inv, Stream
<1> QED BY <1>1, <1>2, <1>3, <1>4 DEF Next, Loop

\* Both processes start with nothing on the way.
LEMMA InitInv == Init => Inv
<1> SUFFICES ASSUME Init PROVE Inv
  OBVIOUS
<1>1. queue \in Buffers /\ Sound(queue) /\ queue.size = 0 /\ queue.tail = 0
  BY InitLemma DEF Init, BufInit
<1>2. PkgLen \in Nat \ {0} /\ Ids \in Nat \ {0} /\ SockRoom \in Nat
  BY LinkAssumption
<1>3. Live(queue) /\ Queued(queue) = << >>
  <2>1. Live(queue)
    BY <1>1 DEF Live
  <2> QED BY <1>1, <2>1, QueuedBytes, EmptySeq
<1>4. Stream = << >>
  <2>1. << >> \in Seq(Bytes) /\ << >> \o << >> = << >>
    BY EmptySeq, ConcatEmptySeq
  <2> QED BY <1>3, <2>1 DEF Stream, Init
<1>5. 0 % PkgLen = 0
  <2>1. (PkgLen * 0 + 0) % PkgLen = 0
    BY <1>2, RestUnique
  <2> QED BY <1>2, <2>1
<1>6. Whole(<< >>)
  BY <1>5, EmptySeq DEF Whole
<1>7. TypeOK
  <2>1. << >> \in Seq(Bytes) /\ Len(<< >>) = 0
    BY EmptySeq
  <2>2. 0 \in Bytes /\ 0 < PkgLen /\ 0 <= SockRoom
    BY <1>2 DEF Bytes
  <2> QED BY <1>1, <2>1, <2>2 DEF Init, TypeOK
<1> QED BY <1>1, <1>3, <1>4, <1>5, <1>6, <1>7 DEF Inv, Init

\* The invariant of the link.
THEOREM LinkInvariant == Spec => []Inv
<1>1. Init => Inv
  BY InitInv
<1>2. Inv /\ [Next]_vars => Inv'
  BY NextInv
<1> QED BY <1>1, <1>2, PTL DEF Spec

\* The two processes' variables keep their types: the kernel never holds more
\* than it has room for, the decoder never keeps a whole package.
THEOREM LinkTypes == Spec => []TypeOK
<1>1. Inv => TypeOK
  BY DEF Inv
<1> QED BY <1>1, LinkInvariant, PTL

\* What is on its way to pkgProcess is whole packages, until a drop tears one.
THEOREM LinkKeepsPackages == Spec => []WholePackages
  BY WholeIsWhole, LinkInvariant, PTL

\* Only behind a queue that is full to its last byte, and partly sent, the next
\* package does not fit.
LEMMA FitsLemma == Inv => PkgFits
<1> SUFFICES ASSUME Inv, ~Fits
             PROVE  /\ queue.tail = Capacity
                    /\ PkgLen <= queue.head
                    /\ queue.head < queue.tail
  BY DEF PkgFits
<1>1. /\ queue \in Buffers /\ Sound(queue)
      /\ PkgLen \in Nat \ {0} /\ Capacity \in Nat \ {0} /\ PkgLen <= Capacity
      /\ queue.size = 0 => queue.tail = 0
  BY LinkAssumption, CapacityAssumption DEF Inv, TypeOK
<1>2. /\ queue.size \in Nat /\ queue.tail \in Nat /\ queue.head \in Nat
      /\ queue.head <= queue.tail /\ queue.tail <= Capacity
      /\ queue.size = queue.tail - queue.head
      /\ Squeezed(queue, PkgLen).size = queue.size
  BY <1>1, CompactedLemma DEF Buffers, Sound, Squeezed
<1>3. CASE queue.size + PkgLen > Capacity
  <2>1. Extended.tail = 0
    BY <1>2, <1>3 DEF Extended, BufExtend, BufInit
  <2> QED BY <1>1, <2>1 DEF Fits
<1>4. CASE queue.size + PkgLen <= Capacity /\ TailShort(queue, PkgLen)
  <2>1. Extended = Compacted(queue)
    BY <1>1, <1>2, <1>4 DEF Extended, BufExtend, Squeezed
  <2>2. Extended.tail = queue.size
    BY <2>1, <1>1, CompactedLemma
  <2> QED BY <1>4, <2>2 DEF Fits
<1>5. CASE queue.size + PkgLen <= Capacity /\ ~TailShort(queue, PkgLen)
  <2>1. Extended = queue
    BY <1>1, <1>2, <1>5 DEF Extended, BufExtend, Squeezed
  <2>2. ~(queue.tail + PkgLen <= Capacity)
    BY <2>1 DEF Fits
  <2>3. queue.tail = Capacity
    BY <1>1, <1>2, <1>5, <2>2 DEF TailShort
  <2> QED BY <1>1, <1>2, <1>5, <2>3
<1> QED BY <1>1, <1>2, <1>3, <1>4, <1>5

\* send_pkg copies a package into the heap, but for the one case named.
THEOREM LinkFits == Spec => []PkgFits
  BY FitsLemma, LinkInvariant, PTL
=============================================================================
