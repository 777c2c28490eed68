-------------------------- MODULE TimerList_proofs --------------------------
(***************************************************************************)
(* Proofs about the timer list of the osal, for every set of keys, every    *)
(* heap and all durations: the two lists stay whole, and the list           *)
(* implements the set of timers.                                            *)
(***************************************************************************)
EXTENDS TimerList, FiniteSetTheorems, WellFoundedInduction, TLAPS

\* The pending timers are the cells a[1], a[2], ..., linked both ways.
Pending(l, a) ==
  /\ a \in [1 .. l.active -> Cells]
  /\ \A i, j \in 1 .. l.active : a[i] = a[j] => i = j
  /\ \A i \in 1 .. l.active : l.key[a[i]] # NoKey
  /\ \A i \in 1 .. l.active : l.next[a[i]] = IF i = l.active THEN Null ELSE a[i + 1]
  /\ \A i \in 1 .. l.active : l.prev[a[i]] = IF i = 1 THEN Null ELSE a[i - 1]
  /\ l.head = IF l.active = 0 THEN Null ELSE a[1]
  /\ l.tail = IF l.active = 0 THEN Null ELSE a[l.active]

\* The free list is f[1], f[2], ..., linked forwards.
Free(l, f) ==
  /\ f \in [1 .. l.cached -> Cells]
  /\ \A i, j \in 1 .. l.cached : f[i] = f[j] => i = j
  /\ \A i \in 1 .. l.cached : l.key[f[i]] = NoKey
  /\ \A i \in 1 .. l.cached : l.next[f[i]] = IF i = l.cached THEN Null ELSE f[i + 1]
  /\ l.cache = IF l.cached = 0 THEN Null ELSE f[1]

\* The two lists are made of the cells that were ever allocated, and no key
\* has two cells.
AllThere(l, a, f) ==
  /\ l.active + l.cached = l.made
  /\ \A i \in 1 .. l.active : a[i] <= l.made
  /\ \A i \in 1 .. l.cached : f[i] <= l.made
  /\ \A c \in 1 .. l.made : (\E i \in 1 .. l.active : a[i] = c)
                            \/ (\E i \in 1 .. l.cached : f[i] = c)
  /\ \A c \in Cells : l.key[c] # NoKey => \E i \in 1 .. l.active : a[i] = c
  /\ \A c, e \in Cells : l.key[c] = l.key[e] /\ l.key[c] # NoKey => c = e

Chained(l, a, f) == Pending(l, a) /\ Free(l, f) /\ AllThere(l, a, f)
Sound(l) == l \in Lists /\ \E a, f : Chained(l, a, f)

\* The inductive invariant.
Inv == /\ Sound(tl)
       /\ raised \subseteq Keys /\ backs \in 0 .. Backs
       /\ tl.made <= Cardinality(Keys)
-----------------------------------------------------------------------------
(* What a call does to the two lists.                                       *)

\* The list with a new timer.
Added(l, k, d) == Linked(CellTaken(l), Fresh(l), k, d)

\* The numbers of a list, and its two pointers to free cells.
LEMMA Numbers ==
  ASSUME NEW l \in Lists, NEW a, NEW f, Chained(l, a, f)
  PROVE  /\ MaxCells \in Nat
         /\ l.active \in Nat /\ l.cached \in Nat /\ l.made \in Nat
         /\ l.made <= MaxCells /\ l.made = l.active + l.cached
         /\ l.cache = Null <=> l.cached = 0
         /\ l.cached > 0 => l.cache = f[1] /\ 1 \in 1 .. l.cached
         /\ Null \notin Cells
<1>1. MaxCells \in Nat
  BY CellAssumption
<1>2. /\ l.active \in Nat /\ l.cached \in Nat /\ l.made \in Nat /\ l.made <= MaxCells
  BY <1>1 DEF Lists
<1>3. Null \notin Cells
  BY <1>1 DEF Cells, Null
<1>4. l.made = l.active + l.cached
  BY <1>2 DEF Chained, AllThere
<1>5. l.cached > 0 => l.cache = f[1] /\ 1 \in 1 .. l.cached /\ f[1] \in Cells
  BY <1>2 DEF Chained, Free
<1>6. l.cached = 0 => l.cache = Null
  BY DEF Chained, Free
<1> QED BY <1>1, <1>2, <1>3, <1>4, <1>5, <1>6

\* The cell for a new timer, and the list without it.
LEMMA TakenLemma ==
  ASSUME NEW l \in Lists, NEW a, NEW f, Chained(l, a, f), Fresh(l) \in Cells
  PROVE  \E g :
           /\ CellTaken(l) \in Lists /\ Free(CellTaken(l), g)
           /\ CellTaken(l).head = l.head /\ CellTaken(l).tail = l.tail
           /\ CellTaken(l).active = l.active
           /\ CellTaken(l).next = l.next /\ CellTaken(l).prev = l.prev
           /\ CellTaken(l).key = l.key /\ CellTaken(l).left = l.left
           /\ CellTaken(l).active + CellTaken(l).cached + 1 = CellTaken(l).made
           /\ \A i \in 1 .. CellTaken(l).cached : g[i] <= CellTaken(l).made /\ g[i] # Fresh(l)
           /\ \A i \in 1 .. l.active : a[i] <= CellTaken(l).made /\ a[i] # Fresh(l)
           /\ Fresh(l) <= CellTaken(l).made /\ l.key[Fresh(l)] = NoKey
           /\ \A x \in 1 .. CellTaken(l).made :
                x = Fresh(l) \/ (\E i \in 1 .. l.active : a[i] = x)
                             \/ (\E i \in 1 .. CellTaken(l).cached : g[i] = x)
           /\ CellTaken(l).made = l.made \/ (l.cached = 0 /\ CellTaken(l).made = l.made + 1)
<1> DEFINE t == CellTaken(l)
           c == Fresh(l)
<1>1. /\ MaxCells \in Nat
      /\ l.active \in Nat /\ l.cached \in Nat /\ l.made \in Nat
      /\ l.made <= MaxCells /\ l.made = l.active + l.cached
      /\ l.cache = Null <=> l.cached = 0
      /\ l.cached > 0 => l.cache = f[1] /\ 1 \in 1 .. l.cached
      /\ Null \notin Cells
  BY Numbers
<1>2. /\ a \in [1 .. l.active -> Cells] /\ f \in [1 .. l.cached -> Cells]
      /\ \A i \in 1 .. l.active : l.key[a[i]] # NoKey /\ a[i] <= l.made
      /\ \A i \in 1 .. l.cached : l.key[f[i]] = NoKey /\ f[i] <= l.made
      /\ \A i, j \in 1 .. l.cached : f[i] = f[j] => i = j
      /\ \A i \in 1 .. l.cached : l.next[f[i]] = IF i = l.cached THEN Null ELSE f[i + 1]
      /\ \A x \in Cells : l.key[x] # NoKey => \E i \in 1 .. l.active : a[i] = x
      /\ \A x \in 1 .. l.made : (\E i \in 1 .. l.active : a[i] = x)
                                \/ (\E i \in 1 .. l.cached : f[i] = x)
  BY DEF Chained, Pending, Free, AllThere
<1>3. CASE l.cached > 0
  <2> DEFINE g == [i \in 1 .. l.cached - 1 |-> f[i + 1]]
  <2>1. c = f[1] /\ l.cache = f[1] /\ f[1] \in Cells
    BY <1>1, <1>2, <1>3 DEF Fresh
  <2>2. /\ t \in Lists
        /\ t.head = l.head /\ t.tail = l.tail /\ t.active = l.active /\ t.made = l.made
        /\ t.next = l.next /\ t.prev = l.prev /\ t.key = l.key /\ t.left = l.left
        /\ t.cache = l.next[f[1]] /\ t.cached = l.cached - 1
    <3>1. t = [l EXCEPT !.cache = l.next[f[1]], !.cached = @ - 1]
      BY <1>1, <1>3, <2>1 DEF CellTaken, Reused
    <3>2. l.next[f[1]] \in Links /\ l.cached - 1 \in 0 .. MaxCells
      BY <1>1, <1>3, <2>1 DEF Lists
    <3> QED BY <3>1, <3>2 DEF Lists
  <2> HIDE DEF t, c
  <2>3. \A i \in 1 .. l.cached - 1 : i + 1 \in 1 .. l.cached /\ g[i] = f[i + 1]
    BY <1>1
  <2>4. g \in [1 .. t.cached -> Cells]
    BY <1>2, <2>2, <2>3
  <2> HIDE DEF g
  <2>5. \A i, j \in 1 .. t.cached : g[i] = g[j] => i = j
    <3> SUFFICES ASSUME NEW i \in 1 .. l.cached - 1, NEW j \in 1 .. l.cached - 1, g[i] = g[j]
                 PROVE  i = j
      BY <2>2
    <3>1. f[i + 1] = f[j + 1] /\ i + 1 \in 1 .. l.cached /\ j + 1 \in 1 .. l.cached
      BY <2>3
    <3>2. i + 1 = j + 1
      BY <1>2, <3>1
    <3> QED BY <1>1, <3>2
  <2>6. \A i \in 1 .. t.cached :
          /\ t.key[g[i]] = NoKey /\ g[i] <= t.made
          /\ t.next[g[i]] = IF i = t.cached THEN Null ELSE g[i + 1]
    <3> SUFFICES ASSUME NEW i \in 1 .. l.cached - 1
                 PROVE  /\ l.key[g[i]] = NoKey /\ g[i] <= l.made
                        /\ l.next[g[i]] = IF i = l.cached - 1 THEN Null ELSE g[i + 1]
      BY <2>2
    <3>1. i \in Nat /\ i + 1 \in 1 .. l.cached /\ g[i] = f[i + 1]
      BY <2>3
    <3>2. i # l.cached - 1 => i + 1 \in 1 .. l.cached - 1
      BY <1>1
    <3>3. i # l.cached - 1 => g[i + 1] = f[(i + 1) + 1]
      BY <2>3, <3>2
    <3>4. i = l.cached - 1 <=> i + 1 = l.cached
      BY <1>1
    <3> QED BY <1>2, <3>1, <3>3, <3>4
  <2>7. t.cache = IF t.cached = 0 THEN Null ELSE g[1]
    <3>1. l.next[f[1]] = IF 1 = l.cached THEN Null ELSE f[1 + 1]
      BY <1>1, <1>2, <1>3
    <3>2. 1 # l.cached => g[1] = f[1 + 1]
      <4>1. 1 # l.cached => 1 \in 1 .. l.cached - 1
        BY <1>1, <1>3
      <4> QED BY <2>3, <4>1
    <3>3. 1 = l.cached <=> t.cached = 0
      BY <1>1, <2>2
    <3> QED BY <2>2, <3>1, <3>2, <3>3
  <2>8. Free(t, g)
    BY <2>4, <2>5, <2>6, <2>7 DEF Free
  <2>9. \A i \in 1 .. t.cached : g[i] # c
    <3> SUFFICES ASSUME NEW i \in 1 .. l.cached - 1, f[i + 1] = f[1]
                 PROVE  FALSE
      BY <2>1, <2>2, <2>3
    <3>1. i + 1 = 1
      BY <1>1, <1>2, <1>3, <2>3
    <3> QED BY <1>1, <3>1
  <2>10. \A i \in 1 .. l.active : a[i] <= t.made /\ a[i] # c
    BY <1>1, <1>2, <1>3, <2>1, <2>2
  <2>11. c <= t.made /\ l.key[c] = NoKey
    BY <1>1, <1>2, <1>3, <2>1, <2>2
  <2>12. ASSUME NEW x \in 1 .. t.made
         PROVE  x = c \/ (\E i \in 1 .. l.active : a[i] = x)
                      \/ (\E i \in 1 .. t.cached : g[i] = x)
    <3>1. CASE \E i \in 1 .. l.active : a[i] = x
      BY <3>1
    <3>2. CASE \E i \in 1 .. l.cached : f[i] = x
      <4>1. PICK i \in 1 .. l.cached : f[i] = x
        BY <3>2
      <4>2. CASE i = 1
        BY <2>1, <4>1, <4>2
      <4>3. CASE i # 1
        <5>1. i - 1 \in 1 .. l.cached - 1 /\ (i - 1) + 1 = i
          BY <1>1, <4>3
        <5>2. g[i - 1] = x
          BY <2>3, <4>1, <5>1
        <5> QED BY <2>2, <5>1, <5>2
      <4> QED BY <4>2, <4>3
    <3> QED BY <1>2, <2>2, <3>1, <3>2
  <2>13. t.active + t.cached + 1 = t.made
    BY <1>1, <2>2
  <2> QED BY <2>2, <2>6, <2>8, <2>9, <2>10, <2>11, <2>12, <2>13 DEF t, c
<1>4. CASE l.cached = 0
  <2>1. c = l.made + 1 /\ l.made + 1 <= MaxCells
    BY <1>1, <1>4 DEF Fresh, Cells
  <2>2. /\ t \in Lists
        /\ t.head = l.head /\ t.tail = l.tail /\ t.active = l.active /\ t.made = l.made + 1
        /\ t.next = l.next /\ t.prev = l.prev /\ t.key = l.key /\ t.left = l.left
        /\ t.cache = l.cache /\ t.cached = l.cached
    <3>1. t = [l EXCEPT !.made = @ + 1]
      BY <1>1, <1>4 DEF CellTaken
    <3>2. l.made + 1 \in 0 .. MaxCells
      BY <1>1, <2>1
    <3> QED BY <3>1, <3>2 DEF Lists
  <2>3. c \in Cells
    OBVIOUS
  <2> HIDE DEF t, c
  <2>4. Free(t, f)
    <3>1. Free(l, f)
      BY DEF Chained
    <3> QED BY <2>2, <3>1 DEF Free
  <2>5. \A i \in 1 .. l.active : a[i] \in Cells /\ a[i] <= t.made /\ a[i] # c
    <3> SUFFICES ASSUME NEW i \in 1 .. l.active
                 PROVE  a[i] \in Cells /\ a[i] <= l.made + 1 /\ a[i] # l.made + 1
      BY <2>1, <2>2
    <3>1. a[i] \in Cells /\ a[i] <= l.made
      BY <1>2
    <3> QED BY <1>1, <3>1 DEF Cells
  <2>6. l.key[c] = NoKey
    BY <1>2, <2>3, <2>5
  <2>7. ASSUME NEW x \in 1 .. t.made
        PROVE  x = c \/ \E i \in 1 .. l.active : a[i] = x
    <3>1. CASE x = l.made + 1
      BY <2>1, <3>1
    <3>2. CASE x # l.made + 1
      <4>1. x \in 1 .. l.made /\ ~(\E i \in 1 .. l.cached : f[i] = x)
        BY <1>1, <1>4, <2>2, <3>2
      <4> QED BY <1>2, <4>1
    <3> QED BY <3>1, <3>2
  <2>8. \A i \in 1 .. t.cached : f[i] <= t.made /\ f[i] # c
    BY <1>4, <2>2
  <2>9. c <= t.made /\ t.active + t.cached + 1 = t.made
    BY <1>1, <1>4, <2>1, <2>2
  <2> QED BY <1>4, <2>2, <2>4, <2>5, <2>6, <2>7, <2>8, <2>9 DEF t, c
<1> QED BY <1>1, <1>3, <1>4

\* A new timer at the end: the two lists stay whole, no key gets two cells.
LEMMA AddedLemma ==
  ASSUME NEW l \in Lists, NEW a, NEW f, Chained(l, a, f), Fresh(l) \in Cells,
         NEW k \in Keys, NEW d \in Int, \A x \in Cells : l.key[x] # k
  PROVE  /\ Sound(Added(l, k, d))
         /\ Added(l, k, d).key = [l.key EXCEPT ![Fresh(l)] = k]
         /\ Added(l, k, d).left = [l.left EXCEPT ![Fresh(l)] = d]
         /\ l.key[Fresh(l)] = NoKey
         /\ Added(l, k, d).made = l.made \/ (l.cached = 0 /\ Added(l, k, d).made = l.made + 1)
<1> DEFINE t == CellTaken(l)
           c == Fresh(l)
           n == Added(l, k, d)
           b == [i \in 1 .. l.active + 1 |-> IF i = l.active + 1 THEN c ELSE a[i]]
<1>1. PICK g :
        /\ t \in Lists /\ Free(t, g)
        /\ t.head = l.head /\ t.tail = l.tail /\ t.active = l.active
        /\ t.next = l.next /\ t.prev = l.prev /\ t.key = l.key /\ t.left = l.left
        /\ t.active + t.cached + 1 = t.made
        /\ \A i \in 1 .. t.cached : g[i] <= t.made /\ g[i] # c
        /\ \A i \in 1 .. l.active : a[i] <= t.made /\ a[i] # c
        /\ c <= t.made /\ l.key[c] = NoKey
        /\ \A x \in 1 .. t.made :
             x = c \/ (\E i \in 1 .. l.active : a[i] = x) \/ (\E i \in 1 .. t.cached : g[i] = x)
        /\ t.made = l.made \/ (l.cached = 0 /\ t.made = l.made + 1)
  BY TakenLemma
<1>2. /\ MaxCells \in Nat /\ l.active \in Nat /\ t.cached \in Nat /\ t.made \in Nat
      /\ t.made <= MaxCells /\ c \in Cells /\ Null \notin Cells /\ c # Null
  BY <1>1, Numbers DEF Lists
<1>3. /\ n.head = IF t.head = Null THEN c ELSE t.head
      /\ n.tail = c /\ n.cache = t.cache
      /\ n.active = l.active + 1 /\ n.cached = t.cached /\ n.made = t.made
      /\ n.next = [x \in Cells |-> IF x = c THEN Null ELSE IF x = l.tail THEN c ELSE l.next[x]]
      /\ n.prev = [l.prev EXCEPT ![c] = l.tail]
      /\ n.key = [l.key EXCEPT ![c] = k]
      /\ n.left = [l.left EXCEPT ![c] = d]
      /\ n = [head |-> n.head, tail |-> n.tail, cache |-> n.cache, active |-> n.active,
              cached |-> n.cached, made |-> n.made, next |-> n.next, prev |-> n.prev,
              key |-> n.key, left |-> n.left]
  <2> HIDE DEF t, c
  <2>1. n = [t EXCEPT !.active = @ + 1,
            !.key[c] = k, !.left[c] = d,
            !.prev[c] = t.tail,
            !.next = [x \in Cells |-> IF x = c THEN Null
                                      ELSE IF x = t.tail THEN c ELSE @[x]],
            !.head = IF @ = Null THEN c ELSE @,
            !.tail = c]
    BY DEF Added, Linked, t, c
  <2>2. /\ t = [head |-> t.head, tail |-> t.tail, cache |-> t.cache, active |-> t.active,
                cached |-> t.cached, made |-> t.made, next |-> t.next, prev |-> t.prev,
                key |-> t.key, left |-> t.left]
    BY <1>1 DEF Lists
  <2>3. n = [head |-> IF t.head = Null THEN c ELSE t.head,
             tail |-> c, cache |-> t.cache,
             active |-> t.active + 1, cached |-> t.cached, made |-> t.made,
             next |-> [x \in Cells |-> IF x = c THEN Null
                                       ELSE IF x = t.tail THEN c ELSE t.next[x]],
             prev |-> [t.prev EXCEPT ![c] = t.tail],
             key |-> [t.key EXCEPT ![c] = k],
             left |-> [t.left EXCEPT ![c] = d]]
    BY <2>1, <2>2
  <2> HIDE DEF n
  <2> QED BY <1>1, <2>3
<1> HIDE DEF t, c, n
<1>4. /\ l.prev \in [Cells -> Links] /\ l.next \in [Cells -> Links]
      /\ l.key \in [Cells -> Keys \cup {NoKey}] /\ l.left \in [Cells -> Int]
      /\ l.tail \in Links /\ l.head \in Links /\ t.cache \in Links
      /\ k # NoKey /\ c \in Links
  BY <1>1, <1>2, CellAssumption DEF Lists, Links
<1>5. n \in Lists
  <2>1. n.active \in 0 .. MaxCells /\ n.cached \in 0 .. MaxCells /\ n.made \in 0 .. MaxCells
    BY <1>1, <1>2, <1>3
  <2>2. n.next \in [Cells -> Links]
    BY <1>2, <1>3, <1>4 DEF Links
  <2>3. /\ n.prev \in [Cells -> Links] /\ n.key \in [Cells -> Keys \cup {NoKey}]
        /\ n.left \in [Cells -> Int]
    BY <1>2, <1>3, <1>4
  <2>4. n.head \in Links /\ n.tail \in Links /\ n.cache \in Links
    BY <1>1, <1>3, <1>4
  <2> QED BY <1>3, <2>1, <2>2, <2>3, <2>4 DEF Lists
<1>6. /\ a \in [1 .. l.active -> Cells]
      /\ \A i, j \in 1 .. l.active : a[i] = a[j] => i = j
      /\ \A i \in 1 .. l.active : l.key[a[i]] # NoKey
      /\ \A i \in 1 .. l.active : l.next[a[i]] = IF i = l.active THEN Null ELSE a[i + 1]
      /\ \A i \in 1 .. l.active : l.prev[a[i]] = IF i = 1 THEN Null ELSE a[i - 1]
      /\ l.head = IF l.active = 0 THEN Null ELSE a[1]
      /\ l.tail = IF l.active = 0 THEN Null ELSE a[l.active]
      /\ \A x \in Cells : l.key[x] # NoKey => \E i \in 1 .. l.active : a[i] = x
      /\ \A x, e \in Cells : l.key[x] = l.key[e] /\ l.key[x] # NoKey => x = e
  BY DEF Chained, Pending, AllThere
<1>7. /\ b \in [1 .. n.active -> Cells] /\ b[l.active + 1] = c
      /\ \A i \in 1 .. l.active : i \in 1 .. n.active /\ b[i] = a[i] /\ b[i] # c
      /\ \A i \in 1 .. n.active : i = l.active + 1 \/ i \in 1 .. l.active
      /\ l.active + 1 \in 1 .. n.active
  <2>1. \A i \in 1 .. l.active + 1 : i = l.active + 1 \/ i \in 1 .. l.active
    BY <1>2
  <2>2. l.active + 1 \in 1 .. l.active + 1 /\ \A i \in 1 .. l.active : i # l.active + 1
    BY <1>2
  <2> QED BY <1>1, <1>2, <1>3, <1>6, <2>1, <2>2
<1> HIDE DEF b
<1>8. Pending(n, b)
  <2>1. \A i, j \in 1 .. n.active : b[i] = b[j] => i = j
    BY <1>6, <1>7
  <2>2. \A i \in 1 .. n.active : n.key[b[i]] # NoKey
    BY <1>2, <1>3, <1>4, <1>6, <1>7
  <2>3. ASSUME NEW i \in 1 .. n.active
        PROVE  n.next[b[i]] = IF i = n.active THEN Null ELSE b[i + 1]
    <3>1. CASE i = l.active + 1
      BY <1>2, <1>3, <1>7, <3>1
    <3>2. CASE i \in 1 .. l.active /\ i = l.active
      <4>1. b[i] = l.tail /\ b[i] # c /\ b[i] \in Cells /\ b[i + 1] = c
        BY <1>2, <1>6, <1>7, <3>2
      <4>2. i # n.active
        BY <1>2, <1>3, <3>2
      <4> QED BY <1>3, <4>1, <4>2
    <3>3. CASE i \in 1 .. l.active /\ i # l.active
      <4>1. i + 1 \in 1 .. l.active /\ i \in Nat /\ i # n.active /\ l.active \in 1 .. l.active
        BY <1>2, <1>3, <3>3
      <4>2. b[i] = a[i] /\ b[i] # c /\ b[i] \in Cells /\ b[i + 1] = a[i + 1]
        BY <1>7, <3>3, <4>1
      <4>3. a[i] # l.tail
        BY <1>6, <3>3, <4>1
      <4> QED BY <1>3, <1>6, <3>3, <4>1, <4>2, <4>3
    <3> QED BY <1>7, <3>1, <3>2, <3>3
  <2>4. ASSUME NEW i \in 1 .. n.active
        PROVE  n.prev[b[i]] = IF i = 1 THEN Null ELSE b[i - 1]
    <3>1. CASE i = l.active + 1
      <4>1. n.prev[b[i]] = l.tail
        BY <1>2, <1>3, <1>4, <1>7, <3>1
      <4>2. l.active # 0 => l.active \in 1 .. l.active /\ b[i - 1] = a[l.active]
        BY <1>2, <1>7, <3>1
      <4> QED BY <1>2, <1>6, <3>1, <4>1, <4>2
    <3>2. CASE i \in 1 .. l.active
      <4>1. n.prev[b[i]] = l.prev[a[i]]
        BY <1>2, <1>3, <1>4, <1>6, <1>7, <3>2
      <4>2. i # 1 => i - 1 \in 1 .. l.active
        BY <1>2, <3>2
      <4> QED BY <1>6, <1>7, <3>2, <4>1, <4>2
    <3> QED BY <1>7, <3>1, <3>2
  <2>5. n.head = IF n.active = 0 THEN Null ELSE b[1]
    <3>1. CASE l.active = 0
      BY <1>1, <1>2, <1>3, <1>6, <1>7, <3>1
    <3>2. CASE l.active # 0
      <4>1. 1 \in 1 .. l.active
        BY <1>2, <3>2
      <4>2. b[1] = a[1] /\ l.head = a[1] /\ a[1] \in Cells
        BY <1>6, <1>7, <3>2, <4>1
      <4>3. n.head = l.head
        BY <1>1, <1>2, <1>3, <4>2
      <4> QED BY <1>2, <1>3, <4>2, <4>3
    <3> QED BY <3>1, <3>2
  <2>6. n.tail = IF n.active = 0 THEN Null ELSE b[n.active]
    BY <1>2, <1>3, <1>7
  <2> QED BY <1>7, <2>1, <2>2, <2>3, <2>4, <2>5, <2>6 DEF Pending
<1>9. Free(n, g)
  <2>1. /\ g \in [1 .. t.cached -> Cells]
        /\ \A i, j \in 1 .. t.cached : g[i] = g[j] => i = j
        /\ \A i \in 1 .. t.cached : l.key[g[i]] = NoKey
        /\ \A i \in 1 .. t.cached : l.next[g[i]] = IF i = t.cached THEN Null ELSE g[i + 1]
        /\ t.cache = IF t.cached = 0 THEN Null ELSE g[1]
    BY <1>1 DEF Free
  <2>2. ASSUME NEW i \in 1 .. t.cached
        PROVE  n.key[g[i]] = NoKey /\ n.next[g[i]] = l.next[g[i]]
    <3>1. g[i] \in Cells /\ g[i] # c
      BY <1>1, <2>1
    <3>2. g[i] # l.tail
      <4>1. l.tail # Null => l.key[l.tail] # NoKey
        <5>1. l.active # 0 => l.active \in 1 .. l.active
          BY <1>2
        <5> QED BY <1>6, <5>1
      <4> QED BY <1>2, <2>1, <3>1, <4>1
    <3> QED BY <1>3, <1>4, <2>1, <3>1, <3>2
  <2> QED BY <1>3, <2>1, <2>2 DEF Free
<1>10. AllThere(n, b, g)
  <2>1. n.active + n.cached = n.made
    BY <1>1, <1>2, <1>3
  <2>2. \A i \in 1 .. n.active : b[i] <= n.made
    BY <1>1, <1>3, <1>7
  <2>3. ASSUME NEW x \in 1 .. n.made
        PROVE  (\E i \in 1 .. n.active : b[i] = x) \/ (\E i \in 1 .. n.cached : g[i] = x)
    BY <1>1, <1>3, <1>7
  <2>4. ASSUME NEW x \in Cells, n.key[x] # NoKey
        PROVE  \E i \in 1 .. n.active : b[i] = x
    <3>1. CASE x = c
      BY <1>7, <3>1
    <3>2. CASE x # c
      <4>1. l.key[x] # NoKey
        BY <1>3, <1>4, <2>4, <3>2
      <4>2. PICK i \in 1 .. l.active : a[i] = x
        BY <1>6, <4>1
      <4> QED BY <1>7, <4>2
    <3> QED BY <3>1, <3>2
  <2>5. ASSUME NEW x \in Cells, NEW e \in Cells, n.key[x] = n.key[e], n.key[x] # NoKey
        PROVE  x = e
    <3>1. \A y \in Cells : n.key[y] = IF y = c THEN k ELSE l.key[y]
      BY <1>3, <1>4
    <3> QED BY <1>6, <2>5, <3>1
  <2> QED BY <1>1, <1>3, <2>1, <2>2, <2>3, <2>4, <2>5 DEF AllThere
<1>11. Sound(n)
  BY <1>5, <1>8, <1>9, <1>10 DEF Sound, Chained
<1> QED BY <1>1, <1>3, <1>11 DEF n, c

\* What is left of n things without the m-th.
Without(a, n, m) == [i \in 1 .. n - 1 |-> IF i < m THEN a[i] ELSE a[i + 1]]

\* A cell taken out at the head, at the tail or between: the two lists stay
\* whole, and the others keep their order.
LEMMA ReleasedLemma ==
  ASSUME NEW l \in Lists, NEW a, NEW f, Chained(l, a, f), NEW m \in 1 .. l.active
  PROVE  /\ Released(l, a[m]) \in Lists
         /\ \E g : Chained(Released(l, a[m]), Without(a, l.active, m), g)
         /\ Released(l, a[m]).key = [l.key EXCEPT ![a[m]] = NoKey]
         /\ Released(l, a[m]).left = [l.left EXCEPT ![a[m]] = 0]
         /\ Released(l, a[m]).active = l.active - 1
         /\ Released(l, a[m]).made = l.made
<1> DEFINE c == a[m]
           p == l.prev[c]
           q == l.next[c]
           r == Released(l, c)
           b == Without(a, l.active, m)
           g == [i \in 1 .. l.cached + 1 |-> IF i = 1 THEN c ELSE f[i - 1]]
<1>1. /\ MaxCells \in Nat
      /\ l.active \in Nat /\ l.cached \in Nat /\ l.made \in Nat
      /\ l.made <= MaxCells /\ l.made = l.active + l.cached
      /\ Null \notin Cells
      /\ m \in Nat /\ 1 <= m /\ m <= l.active
  BY Numbers
<1>2. /\ a \in [1 .. l.active -> Cells]
      /\ \A i, j \in 1 .. l.active : a[i] = a[j] => i = j
      /\ \A i \in 1 .. l.active : l.key[a[i]] # NoKey
      /\ \A i \in 1 .. l.active : l.next[a[i]] = IF i = l.active THEN Null ELSE a[i + 1]
      /\ \A i \in 1 .. l.active : l.prev[a[i]] = IF i = 1 THEN Null ELSE a[i - 1]
      /\ l.head = IF l.active = 0 THEN Null ELSE a[1]
      /\ l.tail = IF l.active = 0 THEN Null ELSE a[l.active]
  BY DEF Chained, Pending
<1>3. /\ f \in [1 .. l.cached -> Cells]
      /\ \A i, j \in 1 .. l.cached : f[i] = f[j] => i = j
      /\ \A i \in 1 .. l.cached : l.key[f[i]] = NoKey
      /\ \A i \in 1 .. l.cached : l.next[f[i]] = IF i = l.cached THEN Null ELSE f[i + 1]
      /\ l.cache = IF l.cached = 0 THEN Null ELSE f[1]
  BY DEF Chained, Free
<1>4. /\ \A i \in 1 .. l.active : a[i] <= l.made
      /\ \A i \in 1 .. l.cached : f[i] <= l.made
      /\ \A x \in 1 .. l.made : (\E i \in 1 .. l.active : a[i] = x)
                                \/ (\E i \in 1 .. l.cached : f[i] = x)
      /\ \A x \in Cells : l.key[x] # NoKey => \E i \in 1 .. l.active : a[i] = x
      /\ \A x, e \in Cells : l.key[x] = l.key[e] /\ l.key[x] # NoKey => x = e
  BY DEF Chained, AllThere
<1>5. /\ c \in Cells /\ c # Null /\ l.key[c] # NoKey
      /\ l.next \in [Cells -> Links] /\ l.prev \in [Cells -> Links]
      /\ l.key \in [Cells -> Keys \cup {NoKey}] /\ l.left \in [Cells -> Int]
      /\ l.head \in Links /\ l.tail \in Links /\ l.cache \in Links
      /\ p \in Links /\ q \in Links
  BY <1>1, <1>2 DEF Lists
<1>6. /\ q = IF m = l.active THEN Null ELSE a[m + 1]
      /\ p = IF m = 1 THEN Null ELSE a[m - 1]
  BY <1>2
<1> HIDE DEF c, p, q
<1>7. /\ r.head = IF p = Null THEN q ELSE l.head
      /\ r.tail = IF q = Null THEN p ELSE l.tail
      /\ r.cache = c
      /\ r.active = l.active - 1 /\ r.cached = l.cached + 1 /\ r.made = l.made
      /\ r.next = [[x \in Cells |-> IF x = p THEN q ELSE l.next[x]] EXCEPT ![c] = l.cache]
      /\ r.prev = [[x \in Cells |-> IF x = q THEN p ELSE l.prev[x]] EXCEPT ![c] = Null]
      /\ r.key = [l.key EXCEPT ![c] = NoKey]
      /\ r.left = [l.left EXCEPT ![c] = 0]
      /\ r = [head |-> r.head, tail |-> r.tail, cache |-> r.cache, active |-> r.active,
              cached |-> r.cached, made |-> r.made, next |-> r.next, prev |-> r.prev,
              key |-> r.key, left |-> r.left]
  <2>1. /\ l = [head |-> l.head, tail |-> l.tail, cache |-> l.cache, active |-> l.active,
                cached |-> l.cached, made |-> l.made, next |-> l.next, prev |-> l.prev,
                key |-> l.key, left |-> l.left]
    BY DEF Lists
  <2>2. Unlinked(l, c) = [l EXCEPT !.head = IF p = Null THEN q ELSE @,
                !.tail = IF q = Null THEN p ELSE @,
                !.next = [x \in Cells |-> IF x = p THEN q ELSE @[x]],
                !.prev = [x \in Cells |-> IF x = q THEN p ELSE @[x]]]
    BY DEF Unlinked, p, q
  <2> DEFINE u == Unlinked(l, c)
  <2>3. u = [head |-> IF p = Null THEN q ELSE l.head,
             tail |-> IF q = Null THEN p ELSE l.tail,
             cache |-> l.cache, active |-> l.active,
             cached |-> l.cached, made |-> l.made,
             next |-> [x \in Cells |-> IF x = p THEN q ELSE l.next[x]],
             prev |-> [x \in Cells |-> IF x = q THEN p ELSE l.prev[x]],
             key |-> l.key, left |-> l.left]
    BY <2>1, <2>2
  <2>4. r = [u EXCEPT !.key[c] = NoKey, !.left[c] = 0,
                      !.next[c] = l.cache, !.prev[c] = Null,
                      !.cache = c, !.cached = @ + 1, !.active = @ - 1]
    BY DEF Released
  <2> HIDE DEF r, u
  <2>5. /\ u.head = IF p = Null THEN q ELSE l.head
        /\ u.tail = IF q = Null THEN p ELSE l.tail
        /\ u.active = l.active /\ u.cached = l.cached /\ u.made = l.made
        /\ u.next = [x \in Cells |-> IF x = p THEN q ELSE l.next[x]]
        /\ u.prev = [x \in Cells |-> IF x = q THEN p ELSE l.prev[x]]
        /\ u.key = l.key /\ u.left = l.left
        /\ u = [head |-> u.head, tail |-> u.tail, cache |-> u.cache, active |-> u.active,
                cached |-> u.cached, made |-> u.made, next |-> u.next, prev |-> u.prev,
                key |-> u.key, left |-> u.left]
    BY <2>3
  <2>6. r = [head |-> u.head, tail |-> u.tail, cache |-> c, active |-> u.active - 1,
             cached |-> u.cached + 1, made |-> u.made,
             next |-> [u.next EXCEPT ![c] = l.cache], prev |-> [u.prev EXCEPT ![c] = Null],
             key |-> [u.key EXCEPT ![c] = NoKey], left |-> [u.left EXCEPT ![c] = 0]]
    BY <2>4, <2>5
  <2> QED BY <2>5, <2>6
<1> HIDE DEF r
<1>8. /\ \A x \in Cells : r.next[x] = IF x = c THEN l.cache ELSE IF x = p THEN q ELSE l.next[x]
      /\ \A x \in Cells : r.prev[x] = IF x = c THEN Null ELSE IF x = q THEN p ELSE l.prev[x]
      /\ \A x \in Cells : r.key[x] = IF x = c THEN NoKey ELSE l.key[x]
  BY <1>5, <1>7
<1>9. r \in Lists
  <2>1. r.active \in 0 .. MaxCells /\ r.cached \in 0 .. MaxCells /\ r.made \in 0 .. MaxCells
    BY <1>1, <1>7
  <2>2. r.next \in [Cells -> Links] /\ r.prev \in [Cells -> Links]
    BY <1>5, <1>7 DEF Links
  <2>3. r.key \in [Cells -> Keys \cup {NoKey}] /\ r.left \in [Cells -> Int]
    BY <1>5, <1>7
  <2>4. r.head \in Links /\ r.tail \in Links /\ r.cache \in Links
    BY <1>5, <1>7 DEF Links
  <2> QED BY <1>7, <2>1, <2>2, <2>3, <2>4 DEF Lists
<1>10. /\ b \in [1 .. r.active -> Cells]
       /\ \A i \in 1 .. r.active :
            /\ i \in 1 .. l.active /\ i + 1 \in 1 .. l.active /\ i \in Nat
            /\ b[i] = (IF i < m THEN a[i] ELSE a[i + 1]) /\ b[i] # c
       /\ r.active \in Nat
  <2>1. \A i \in 1 .. l.active - 1 : i \in 1 .. l.active /\ i + 1 \in 1 .. l.active /\ i \in Nat
    BY <1>1
  <2>2. \A i \in 1 .. l.active - 1 : b[i] = IF i < m THEN a[i] ELSE a[i + 1]
    BY DEF Without
  <2>3. b \in [1 .. r.active -> Cells]
    BY <1>2, <1>7, <2>1 DEF Without
  <2>4. ASSUME NEW i \in 1 .. l.active - 1
        PROVE  b[i] # c
    <3>1. i < m => a[i] # a[m]
      BY <1>1, <1>2, <2>1
    <3>2. ~(i < m) => a[i + 1] # a[m]
      BY <1>1, <1>2, <2>1
    <3> QED BY <2>2, <3>1, <3>2 DEF c
  <2> QED BY <1>1, <1>7, <2>1, <2>2, <2>3, <2>4
<1> HIDE DEF b
<1>11. Pending(r, b)
  <2>0. \A x, y \in 1 .. l.active : a[x] = a[y] => x = y
    BY <1>2
  <2>1. ASSUME NEW i \in 1 .. r.active, NEW j \in 1 .. r.active, b[i] = b[j]
        PROVE  i = j
    <3>1. CASE i < m /\ j < m
      <4>1. i \in 1 .. l.active /\ j \in 1 .. l.active /\ b[i] = a[i] /\ b[j] = a[j]
        BY <1>10, <3>1
      <4> QED BY <2>0, <2>1, <4>1
    <3>2. CASE ~(i < m) /\ ~(j < m)
      <4>1. i + 1 = j + 1
        BY <1>10, <2>0, <2>1, <3>2
      <4> QED BY <1>10, <4>1
    <3>3. CASE i < m /\ ~(j < m)
      <4>1. i = j + 1
        BY <1>2, <1>10, <2>1, <3>3
      <4> QED BY <1>1, <1>10, <3>3, <4>1
    <3>4. CASE ~(i < m) /\ j < m
      <4>1. i + 1 = j
        BY <1>2, <1>10, <2>1, <3>4
      <4> QED BY <1>1, <1>10, <3>4, <4>1
    <3> QED BY <3>1, <3>2, <3>3, <3>4
  <2>2. ASSUME NEW i \in 1 .. r.active
        PROVE  r.key[b[i]] # NoKey
    <3>1. b[i] \in Cells /\ b[i] # c /\ l.key[b[i]] # NoKey
      BY <1>2, <1>10
    <3> QED BY <1>8, <3>1
  <2>3. ASSUME NEW i \in 1 .. r.active
        PROVE  r.next[b[i]] = IF i = r.active THEN Null ELSE b[i + 1]
    <3>0. /\ i \in 1 .. l.active /\ i + 1 \in 1 .. l.active /\ i \in Nat
          /\ b[i] \in Cells /\ b[i] # c /\ l.active = r.active + 1
          /\ i # r.active => i + 1 \in 1 .. r.active
      BY <1>1, <1>7, <1>10
    <3>1. CASE i < m /\ i + 1 = m
      <4>1. b[i] = a[i] /\ p = a[i]
        BY <1>1, <1>6, <1>10, <3>0, <3>1
      <4>2. r.next[b[i]] = q
        BY <1>8, <3>0, <4>1
      <4>3. i = r.active <=> m = l.active
        BY <1>1, <1>10, <3>0, <3>1
      <4>4. i # r.active => b[i + 1] = a[m + 1]
        BY <1>10, <3>0, <3>1
      <4> QED BY <1>6, <4>2, <4>3, <4>4
    <3>2. CASE i < m /\ i + 1 # m
      <4>1. b[i] = a[i] /\ i # r.active /\ i + 1 < m /\ i # l.active
        BY <1>1, <1>10, <3>0, <3>2
      <4>2. b[i + 1] = a[i + 1]
        BY <1>10, <3>0, <4>1
      <4>3. p # a[i]
        <5>1. m # 1 => m - 1 \in 1 .. l.active /\ m - 1 # i
          BY <1>1, <3>0, <3>2
        <5>2. a[i] \in Cells
          BY <1>2, <3>0
        <5> QED BY <1>1, <1>2, <1>6, <3>0, <5>1, <5>2
      <4> QED BY <1>2, <1>8, <3>0, <4>1, <4>2, <4>3
    <3>3. CASE ~(i < m)
      <4>1. b[i] = a[i + 1]
        BY <1>10, <3>3
      <4>2. p # a[i + 1]
        <5>1. m # 1 => m - 1 \in 1 .. l.active /\ m - 1 # i + 1
          BY <1>1, <3>0, <3>3
        <5>2. a[i + 1] \in Cells
          BY <1>2, <3>0
        <5> QED BY <1>1, <1>2, <1>6, <3>0, <5>1, <5>2
      <4>3. i # r.active => b[i + 1] = a[(i + 1) + 1]
        BY <1>1, <1>10, <3>0, <3>3
      <4>4. i = r.active <=> i + 1 = l.active
        BY <1>1, <1>10, <3>0
      <4>5. l.next[b[i]] = IF i + 1 = l.active THEN Null ELSE a[(i + 1) + 1]
        BY <1>2, <3>0, <4>1
      <4> QED BY <1>8, <3>0, <4>1, <4>2, <4>3, <4>4, <4>5
    <3> QED BY <3>1, <3>2, <3>3
  <2>4. ASSUME NEW i \in 1 .. r.active
        PROVE  r.prev[b[i]] = IF i = 1 THEN Null ELSE b[i - 1]
    <3>0. /\ i \in 1 .. l.active /\ i + 1 \in 1 .. l.active /\ i \in Nat
          /\ b[i] \in Cells /\ b[i] # c /\ l.active = r.active + 1
          /\ i # 1 => i - 1 \in 1 .. r.active /\ i - 1 \in 1 .. l.active
      BY <1>1, <1>7, <1>10
    <3>1. CASE i = m
      <4>1. b[i] = a[i + 1] /\ m # l.active
        BY <1>1, <1>10, <3>0, <3>1
      <4>2. q = b[i]
        BY <1>6, <3>1, <4>1
      <4>3. r.prev[b[i]] = p
        BY <1>8, <3>0, <4>2
      <4>4. i # 1 => b[i - 1] = a[m - 1]
        BY <1>1, <1>10, <3>0, <3>1
      <4> QED BY <1>6, <3>1, <4>3, <4>4
    <3>2. CASE i < m
      <4>1. b[i] = a[i]
        BY <1>10, <3>2
      <4>2. q # a[i]
        <5>1. m # l.active => m + 1 \in 1 .. l.active /\ m + 1 # i
          BY <1>1, <3>0, <3>2
        <5>2. a[i] \in Cells
          BY <1>2, <3>0
        <5> QED BY <1>1, <1>2, <1>6, <3>0, <5>1, <5>2
      <4>3. i # 1 => b[i - 1] = a[i - 1]
        BY <1>1, <1>10, <3>0, <3>2
      <4> QED BY <1>2, <1>8, <3>0, <4>1, <4>2, <4>3
    <3>3. CASE ~(i < m) /\ i # m
      <4>1. b[i] = a[i + 1] /\ i # 1 /\ i + 1 # 1
        BY <1>1, <1>10, <3>0, <3>3
      <4>2. q # a[i + 1]
        <5>1. m # l.active => m + 1 \in 1 .. l.active /\ m + 1 # i + 1
          BY <1>1, <3>0, <3>3
        <5>2. a[i + 1] \in Cells
          BY <1>2, <3>0
        <5> QED BY <1>1, <1>2, <1>6, <3>0, <5>1, <5>2
      <4>3. b[i - 1] = a[(i - 1) + 1] /\ (i - 1) + 1 = i /\ (i + 1) - 1 = i
        BY <1>1, <1>10, <3>0, <3>3, <4>1
      <4>4. l.prev[a[i + 1]] = a[i]
        BY <1>2, <3>0, <4>1, <4>3
      <4> QED BY <1>8, <3>0, <4>1, <4>2, <4>3, <4>4
    <3> QED BY <3>1, <3>2, <3>3
  <2>5. r.head = IF r.active = 0 THEN Null ELSE b[1]
    <3>1. CASE m = 1
      <4>1. r.head = q
        BY <1>6, <1>7, <3>1
      <4>2. r.active # 0 => b[1] = a[1 + 1]
        BY <1>10, <3>1
      <4>3. r.active = 0 <=> m = l.active
        BY <1>1, <1>7, <3>1
      <4> QED BY <1>6, <3>1, <4>1, <4>2, <4>3
    <3>2. CASE m # 1
      <4>1. m - 1 \in 1 .. l.active /\ a[m - 1] \in Cells /\ r.active # 0 /\ 1 \in 1 .. r.active
            /\ 1 < m /\ l.active # 0
        BY <1>1, <1>2, <1>7, <3>2
      <4>2. r.head = l.head
        BY <1>1, <1>6, <1>7, <3>2, <4>1
      <4>3. b[1] = a[1]
        BY <1>10, <4>1
      <4> QED BY <1>2, <4>1, <4>2, <4>3
    <3> QED BY <3>1, <3>2
  <2>6. r.tail = IF r.active = 0 THEN Null ELSE b[r.active]
    <3>1. CASE m = l.active
      <4>1. r.tail = p
        BY <1>6, <1>7, <3>1
      <4>2. r.active # 0 => r.active \in 1 .. r.active /\ r.active < m /\ r.active = m - 1
        BY <1>1, <1>7, <1>10, <3>1
      <4>3. r.active # 0 => b[r.active] = a[m - 1]
        BY <1>10, <4>2
      <4>4. r.active = 0 <=> m = 1
        BY <1>1, <1>7, <3>1
      <4> QED BY <1>6, <4>1, <4>3, <4>4
    <3>2. CASE m # l.active
      <4>1. m + 1 \in 1 .. l.active /\ a[m + 1] \in Cells /\ r.active # 0
            /\ r.active \in 1 .. r.active /\ ~(r.active < m) /\ r.active + 1 = l.active
            /\ l.active # 0
        BY <1>1, <1>2, <1>7, <3>2
      <4>2. r.tail = l.tail
        BY <1>1, <1>6, <1>7, <3>2, <4>1
      <4>3. b[r.active] = a[l.active]
        BY <1>10, <4>1
      <4> QED BY <1>2, <4>1, <4>2, <4>3
    <3> QED BY <3>1, <3>2
  <2> QED BY <1>10, <2>1, <2>2, <2>3, <2>4, <2>5, <2>6 DEF Pending
<1>12. /\ g \in [1 .. r.cached -> Cells] /\ g[1] = c
       /\ \A i \in 1 .. r.cached : i = 1 \/ (i - 1 \in 1 .. l.cached /\ i \in Nat /\ g[i] = f[i - 1])
       /\ \A i \in 1 .. l.cached : i + 1 \in 1 .. r.cached /\ g[i + 1] = f[i]
       /\ 1 \in 1 .. r.cached /\ r.cached = l.cached + 1
  <2>1. \A i \in 1 .. l.cached + 1 : i = 1 \/ (i - 1 \in 1 .. l.cached /\ i \in Nat)
    BY <1>1
  <2>2. \A i \in 1 .. l.cached : i + 1 \in 1 .. l.cached + 1 /\ i + 1 # 1 /\ (i + 1) - 1 = i
    BY <1>1
  <2>3. 1 \in 1 .. l.cached + 1
    BY <1>1
  <2> QED BY <1>3, <1>5, <1>7, <2>1, <2>2, <2>3
<1> HIDE DEF g
<1>13. \A i \in 1 .. l.cached : /\ f[i] \in Cells /\ f[i] # c /\ f[i] # p
                                /\ r.next[f[i]] = l.next[f[i]] /\ r.key[f[i]] = NoKey
  <2> SUFFICES ASSUME NEW i \in 1 .. l.cached
               PROVE  /\ f[i] \in Cells /\ f[i] # c /\ f[i] # p
                      /\ r.next[f[i]] = l.next[f[i]] /\ r.key[f[i]] = NoKey
    OBVIOUS
  <2>1. f[i] \in Cells /\ f[i] # c
    BY <1>3, <1>5
  <2>2. f[i] # p
    <3>1. m # 1 => m - 1 \in 1 .. l.active
      BY <1>1
    <3> QED BY <1>1, <1>2, <1>3, <1>6, <2>1, <3>1
  <2> QED BY <1>3, <1>8, <2>1, <2>2
<1>14. Free(r, g)
  <2>1. ASSUME NEW i \in 1 .. r.cached, NEW j \in 1 .. r.cached, g[i] = g[j]
        PROVE  i = j
    <3>1. i # 1 /\ j # 1 => i - 1 = j - 1
      BY <1>3, <1>12, <2>1
    <3>2. i = 1 <=> j = 1
      BY <1>12, <1>13, <2>1
    <3> QED BY <1>12, <3>1, <3>2
  <2>2. ASSUME NEW i \in 1 .. r.cached
        PROVE  /\ r.key[g[i]] = NoKey
               /\ r.next[g[i]] = IF i = r.cached THEN Null ELSE g[i + 1]
    <3>1. CASE i = 1
      <4>1. g[i] = c /\ r.next[c] = l.cache /\ r.key[c] = NoKey
        BY <1>5, <1>8, <1>12, <3>1
      <4>2. i = r.cached <=> l.cached = 0
        BY <1>1, <1>12, <3>1
      <4>3. l.cached # 0 => g[i + 1] = f[1]
        <5>1. l.cached # 0 => 1 \in 1 .. l.cached
          BY <1>1
        <5> QED BY <1>12, <3>1, <5>1
      <4> QED BY <1>3, <4>1, <4>2, <4>3
    <3>2. CASE i # 1
      <4>1. i - 1 \in 1 .. l.cached /\ i \in Nat /\ g[i] = f[i - 1]
        BY <1>12, <3>2
      <4>2. r.next[g[i]] = IF i - 1 = l.cached THEN Null ELSE f[(i - 1) + 1]
        BY <1>3, <1>13, <4>1
      <4>3. i - 1 = l.cached <=> i = r.cached
        BY <1>1, <1>12, <4>1
      <4>4. i # r.cached => i \in 1 .. l.cached /\ (i - 1) + 1 = i
        BY <1>1, <1>12, <4>1, <4>3
      <4>5. i # r.cached => g[i + 1] = f[i]
        BY <1>12, <4>4
      <4> QED BY <1>13, <4>1, <4>2, <4>3, <4>4, <4>5
    <3> QED BY <3>1, <3>2
  <2>3. r.cache = IF r.cached = 0 THEN Null ELSE g[1]
    BY <1>1, <1>7, <1>12
  <2> QED BY <1>12, <2>1, <2>2, <2>3 DEF Free
<1>15. AllThere(r, b, g)
  <2>1. r.active + r.cached = r.made
    BY <1>1, <1>7
  <2>2. \A i \in 1 .. r.active : b[i] <= r.made
    BY <1>4, <1>7, <1>10
  <2>3. \A i \in 1 .. r.cached : g[i] <= r.made
    BY <1>4, <1>7, <1>12 DEF c
  <2>4. ASSUME NEW i \in 1 .. l.active, i # m
        PROVE  \E j \in 1 .. r.active : b[j] = a[i]
    <3>1. CASE i < m
      <4>1. i \in 1 .. r.active
        BY <1>1, <1>7, <3>1
      <4> QED BY <1>10, <3>1, <4>1
    <3>2. CASE i > m
      <4>1. i - 1 \in 1 .. r.active /\ ~(i - 1 < m) /\ (i - 1) + 1 = i
        BY <1>1, <1>7, <3>2
      <4>2. b[i - 1] = a[i]
        BY <1>10, <4>1
      <4> QED BY <4>1, <4>2
    <3> QED BY <1>1, <2>4, <3>1, <3>2
  <2>5. ASSUME NEW x \in 1 .. r.made
        PROVE  (\E i \in 1 .. r.active : b[i] = x) \/ (\E i \in 1 .. r.cached : g[i] = x)
    <3>1. CASE \E i \in 1 .. l.active : a[i] = x
      <4>1. PICK i \in 1 .. l.active : a[i] = x
        BY <3>1
      <4>2. CASE i = m
        BY <1>12, <4>1, <4>2 DEF c
      <4>3. CASE i # m
        BY <2>4, <4>1, <4>3
      <4> QED BY <4>2, <4>3
    <3>2. CASE \E i \in 1 .. l.cached : f[i] = x
      BY <1>12, <3>2
    <3> QED BY <1>4, <1>7, <3>1, <3>2
  <2>6. ASSUME NEW x \in Cells, r.key[x] # NoKey
        PROVE  \E i \in 1 .. r.active : b[i] = x
    <3>1. x # c /\ l.key[x] # NoKey
      BY <1>8, <2>6
    <3>2. PICK i \in 1 .. l.active : a[i] = x
      BY <1>4, <3>1
    <3>3. i # m
      BY <3>1, <3>2 DEF c
    <3> QED BY <2>4, <3>2, <3>3
  <2>7. \A x, e \in Cells : r.key[x] = r.key[e] /\ r.key[x] # NoKey => x = e
    BY <1>4, <1>8
  <2> QED BY <2>1, <2>2, <2>3, <2>5, <2>6, <2>7 DEF AllThere
<1>16. Chained(r, b, g)
  BY <1>11, <1>14, <1>15 DEF Chained
<1> QED BY <1>7, <1>9, <1>16 DEF b, r, c
-----------------------------------------------------------------------------
(* What the loops over the lists find.                                      *)

\* A set of numbers has a least one.
LEMMA LeastNumber ==
  ASSUME NEW T \in SUBSET Nat, T # {}
  PROVE  \E m \in T : \A k \in T : m <= k
<1> DEFINE R == OpToRel(<, Nat)
<1>1. IsWellFoundedOn(R, Nat)
  BY NatLessThanWellFounded
<1>2. \A x, y \in Nat : <<x, y>> \in R <=> x < y
  BY DEF OpToRel
<1> HIDE DEF R
<1>3. \E x \in T : \A y \in T : ~ (<<y, x>> \in R)
  BY <1>1, WFMin
<1>4. PICK m \in T : \A y \in T : ~ (<<y, m>> \in R)
  BY <1>3
<1>5. \A k \in T : k \in Nat /\ ~(k < m)
  BY <1>2, <1>4
<1> QED BY <1>4, <1>5

\* Induction up to a bound, for a set of numbers.
LEMMA Induction ==
  ASSUME NEW m \in Nat, NEW T, 0 \in T, \A n \in 0 .. m - 1 : n \in T => n + 1 \in T
  PROVE  \A n \in 0 .. m : n \in T
<1> SUFFICES ASSUME NEW k \in 0 .. m, k \notin T
             PROVE  FALSE
  OBVIOUS
<1> DEFINE U == {n \in Nat : n <= m /\ n \notin T}
<1>1. U \in SUBSET Nat /\ U # {}
  <2>1. k \in Nat /\ k <= m
    OBVIOUS
  <2> QED BY <2>1
<1>2. PICK j \in U : \A n \in U : j <= n
  BY <1>1, LeastNumber
<1>3. j \in Nat /\ j <= m /\ j \notin T /\ j # 0
  BY <1>2
<1>4. j - 1 \in 0 .. m - 1 /\ (j - 1) + 1 = j
  BY <1>3
<1>5. j - 1 \notin T
  BY <1>3, <1>4
<1>6. j - 1 \in U
  BY <1>3, <1>4, <1>5
<1>7. j <= j - 1
  BY <1>2, <1>6
<1> QED BY <1>3, <1>7

\* A walk from the first cell of a list finds its cells, in order.
LEMMA WalkLemma ==
  ASSUME NEW l \in Lists, NEW n \in 0 .. MaxCells, NEW a \in [1 .. n -> Cells],
         \A i \in 1 .. n : l.next[a[i]] = IF i = n THEN Null ELSE a[i + 1],
         NEW c, c = IF n = 0 THEN Null ELSE a[1]
  PROVE  From(l, c) = a
<1> DEFINE Steps(g) == g = [k \in 0 .. MaxCells |-> IF k = 0 THEN c ELSE Follow(l, g[k - 1])]
           at == CHOOSE g : Steps(g)
           h == [k \in 0 .. MaxCells |-> IF k < n THEN a[k + 1] ELSE Null]
<1>1. MaxCells \in Nat /\ n \in Nat /\ n <= MaxCells /\ Null \notin Cells
  BY CellAssumption DEF Cells, Null
<1>2. \A k \in 0 .. MaxCells : k < n => k + 1 \in 1 .. n /\ a[k + 1] \in Cells
  BY <1>1
<1>3. ASSUME NEW k \in 0 .. MaxCells, k # 0
      PROVE  /\ k - 1 \in 0 .. MaxCells
             /\ h[k] = Follow(l, h[k - 1])
  <2>1. k - 1 \in 0 .. MaxCells /\ (k - 1) + 1 = k /\ k \in Nat
    BY <1>1, <1>3
  <2>2. CASE k - 1 < n
    <3>1. h[k - 1] = a[k] /\ a[k] \in Cells /\ k \in 1 .. n
      BY <1>2, <2>1, <2>2
    <3>2. Follow(l, h[k - 1]) = IF k = n THEN Null ELSE a[k + 1]
      BY <1>1, <3>1 DEF Follow
    <3>3. k < n <=> k # n
      BY <1>1, <2>1, <2>2
    <3> QED BY <2>1, <3>2, <3>3
  <2>3. CASE ~(k - 1 < n)
    <3>1. h[k - 1] = Null /\ ~(k < n)
      BY <1>1, <2>1, <2>3
    <3>2. h[k] = Null
      BY <3>1
    <3> QED BY <2>1, <3>1, <3>2 DEF Follow
  <2> QED BY <2>1, <2>2, <2>3
<1>4. h[0] = c
  <2>1. 0 \in 0 .. MaxCells
    BY <1>1
  <2>2. h[0] = IF 0 < n THEN a[0 + 1] ELSE Null
    BY <2>1
  <2>3. 0 + 1 = 1 /\ (0 < n <=> n # 0)
    BY <1>1
  <2> QED BY <2>2, <2>3
<1>5. \E g : Steps(g)
  <2>1. h = [k \in 0 .. MaxCells |-> h[k]]
    OBVIOUS
  <2> HIDE DEF h
  <2>2. Steps(h)
    BY <1>3, <1>4, <2>1
  <2> QED BY <2>2
<1>6. Steps(at)
  BY <1>5, Zenon
<1>7. From(l, c) = [i \in 1 .. Cardinality({k \in 0 .. MaxCells : at[k] # Null}) |-> at[i - 1]]
  BY DEF From
<1>8. /\ at[0] = c
      /\ \A k \in 0 .. MaxCells : k # 0 => at[k] = Follow(l, at[k - 1])
  <2>1. 0 \in 0 .. MaxCells
    BY <1>1
  <2> HIDE DEF at
  <2>2. \A k \in 0 .. MaxCells : at[k] = IF k = 0 THEN c ELSE Follow(l, at[k - 1])
    BY <1>6
  <2> QED BY <2>1, <2>2
<1> HIDE DEF at, h, Steps
<1>9. \A k \in 0 .. MaxCells : at[k] = h[k]
  <2> DEFINE T == {k \in 0 .. MaxCells : at[k] = h[k]}
  <2>1. 0 \in T
    BY <1>1, <1>4, <1>8
  <2>2. ASSUME NEW k \in 0 .. MaxCells - 1, k \in T
        PROVE  k + 1 \in T
    <3>1. k + 1 \in 0 .. MaxCells /\ k + 1 # 0 /\ (k + 1) - 1 = k
      BY <1>1
    <3>2. at[k] = h[k]
      BY <2>2
    <3>3. at[k + 1] = Follow(l, at[k]) /\ h[k + 1] = Follow(l, h[k])
      BY <1>3, <1>8, <3>1
    <3> QED BY <3>1, <3>2, <3>3
  <2> HIDE DEF T
  <2>3. \A k \in 0 .. MaxCells : k \in T
    BY <1>1, <2>1, <2>2, Induction
  <2> QED BY <2>3 DEF T
<1>10. \A k \in 0 .. MaxCells : h[k] = IF k < n THEN a[k + 1] ELSE Null
  BY DEF h
<1>11. {k \in 0 .. MaxCells : at[k] # Null} = 0 .. n - 1
  <2>1. \A k \in 0 .. MaxCells : at[k] # Null <=> k < n
    BY <1>1, <1>2, <1>9, <1>10
  <2> QED BY <1>1, <2>1
<1>12. Cardinality(0 .. n - 1) = n
  <2>1. 0 \in Int /\ n - 1 \in Int
    BY <1>1
  <2>2. Cardinality(0 .. n - 1) = IF 0 > n - 1 THEN 0 ELSE (n - 1) - 0 + 1
    BY <2>1, FS_Interval
  <2> QED BY <1>1, <2>2
<1>13. \A i \in 1 .. n : at[i - 1] = a[i]
  <2> SUFFICES ASSUME NEW i \in 1 .. n PROVE at[i - 1] = a[i]
    OBVIOUS
  <2>1. i - 1 \in 0 .. MaxCells /\ i - 1 < n /\ (i - 1) + 1 = i
    BY <1>1
  <2> QED BY <1>9, <1>10, <2>1
<1>14. From(l, c) = [i \in 1 .. n |-> at[i - 1]]
  BY <1>7, <1>11, <1>12, Zenon
<1>15. a = [i \in 1 .. n |-> a[i]]
  OBVIOUS
<1> QED BY <1>13, <1>14, <1>15

\* The walks of findTimer find the two lists.
LEMMA WalksLemma ==
  ASSUME NEW l \in Lists, NEW a, NEW f, Chained(l, a, f)
  PROVE  Active(l) = a /\ Cached(l) = f
<1>1. l.active \in 0 .. MaxCells /\ l.cached \in 0 .. MaxCells
  BY DEF Lists
<1>2. Active(l) = a
  <2>1. /\ a \in [1 .. l.active -> Cells]
        /\ \A i \in 1 .. l.active : l.next[a[i]] = IF i = l.active THEN Null ELSE a[i + 1]
        /\ l.head = IF l.active = 0 THEN Null ELSE a[1]
    BY DEF Chained, Pending
  <2> QED BY <1>1, <2>1, WalkLemma, ZenonT(60) DEF Active
<1>3. Cached(l) = f
  <2>1. /\ f \in [1 .. l.cached -> Cells]
        /\ \A i \in 1 .. l.cached : l.next[f[i]] = IF i = l.cached THEN Null ELSE f[i + 1]
        /\ l.cache = IF l.cached = 0 THEN Null ELSE f[1]
    BY DEF Chained, Free
  <2> QED BY <1>1, <2>1, WalkLemma, ZenonT(60) DEF Cached
<1> QED BY <1>2, <1>3

\* findTimer finds the cell of a pending key, and none for another.
LEMMA FindLemma ==
  ASSUME NEW l \in Lists, NEW a, NEW f, Chained(l, a, f), NEW k \in Keys
  PROVE  \/ \E m \in 1 .. l.active : FindTimer(l, k) = a[m] /\ l.key[a[m]] = k
         \/ FindTimer(l, k) = Null /\ \A c \in Cells : l.key[c] # k
<1> DEFINE found == {i \in 1 .. l.active : l.key[a[i]] = k}
<1>1. /\ a \in [1 .. l.active -> Cells] /\ k # NoKey
      /\ \A i, j \in 1 .. l.active : a[i] = a[j] => i = j
      /\ \A c \in Cells : l.key[c] # NoKey => \E i \in 1 .. l.active : a[i] = c
      /\ \A c, e \in Cells : l.key[c] = l.key[e] /\ l.key[c] # NoKey => c = e
  BY CellAssumption DEF Chained, Pending, AllThere
<1>2. l.active \in Nat
  BY Numbers
<1>3. FindTimer(l, k) = IF found = {} THEN Null
                        ELSE a[CHOOSE i \in found : \A j \in found : i <= j]
  <2>1. Active(l) = a /\ DOMAIN a = 1 .. l.active
    BY <1>1, WalksLemma
  <2> QED BY <2>1 DEF FindTimer
<1>4. CASE found = {}
  <2>1. FindTimer(l, k) = Null
    BY <1>3, <1>4
  <2>2. ASSUME NEW c \in Cells, l.key[c] = k PROVE FALSE
    BY <1>1, <1>4, <2>2
  <2> QED BY <2>1, <2>2
<1>5. CASE found # {}
  <2> DEFINE m == CHOOSE i \in found : \A j \in found : i <= j
  <2>1. PICK i \in 1 .. l.active : l.key[a[i]] = k
    BY <1>5
  <2>2. \A j \in found : j = i
    BY <1>1, <2>1
  <2>3. i \in found /\ \A j \in found : i <= j
    BY <1>2, <2>1, <2>2
  <2>4. m \in found
    BY <2>3
  <2>5. FindTimer(l, k) = a[m]
    BY <1>3, <1>5
  <2> HIDE DEF m
  <2> QED BY <2>4, <2>5
<1> QED BY <1>4, <1>5
-----------------------------------------------------------------------------
(* What timerUpdate does.                                                   *)

\* Function g iterates function f from x on, m times.
Iterates(g, m, x, f) == g = [n \in 0 .. m |-> IF n = 0 THEN x ELSE f[g[n - 1]]]

\* A function that is iterated by recursion exists.
LEMMA IterationExists ==
  ASSUME NEW m \in Nat, NEW x, NEW f
  PROVE  \E g : Iterates(g, m, x, f)
<1> DEFINE T == {k \in 0 .. m : \E g : g = [n \in 0 .. k |-> IF n = 0 THEN x ELSE f[g[n - 1]]]}
<1>1. 0 \in T
  <2> DEFINE g == [n \in 0 .. 0 |-> x]
  <2>1. g = [n \in 0 .. 0 |-> IF n = 0 THEN x ELSE f[g[n - 1]]]
    OBVIOUS
  <2> HIDE DEF g
  <2> QED BY <2>1
<1>2. ASSUME NEW k \in 0 .. m - 1, k \in T
      PROVE  k + 1 \in T
  <2>1. PICK g : g = [n \in 0 .. k |-> IF n = 0 THEN x ELSE f[g[n - 1]]]
    BY <1>2
  <2> DEFINE h == [n \in 0 .. k + 1 |-> IF n = k + 1 THEN f[g[k]] ELSE g[n]]
  <2>2. k \in Nat /\ k + 1 \in 0 .. m
    OBVIOUS
  <2>3. ASSUME NEW n \in 0 .. k + 1
        PROVE  h[n] = IF n = 0 THEN x ELSE f[h[n - 1]]
    <3>1. CASE n = k + 1
      <4>1. n # 0 /\ n - 1 = k /\ k \in 0 .. k + 1 /\ k # k + 1
        BY <2>2, <3>1
      <4> QED BY <3>1, <4>1
    <3>2. CASE n # k + 1
      <4>1. n \in 0 .. k
        BY <2>2, <3>2
      <4>2. h[n] = g[n] /\ g[n] = IF n = 0 THEN x ELSE f[g[n - 1]]
        BY <2>1, <3>2, <4>1
      <4>3. n # 0 => n - 1 \in 0 .. k + 1 /\ n - 1 # k + 1 /\ h[n - 1] = g[n - 1]
        BY <2>2, <4>1
      <4> QED BY <4>2, <4>3
    <3> QED BY <3>1, <3>2
  <2> HIDE DEF T
  <2>4. h = [n \in 0 .. k + 1 |-> h[n]]
    OBVIOUS
  <2> HIDE DEF h
  <2>5. h = [n \in 0 .. k + 1 |-> IF n = 0 THEN x ELSE f[h[n - 1]]]
    BY <2>3, <2>4
  <2> QED BY <2>2, <2>5 DEF T
<1> HIDE DEF T
<1>3. m \in T
  <2>1. \A k \in 0 .. m : k \in T
    BY <1>1, <1>2, Induction
  <2> QED BY <2>1
<1> QED BY <1>3 DEF T, Iterates

\* The loop of timerUpdate for list l, after n turns: p cells of the list are
\* behind it, none of them due; the cells that it has released are due, and
\* their keys are in the set; all the others are as they were.
Sweeping(l, s, n) ==
  /\ s \in Sweeps
  /\ s.list.made = l.made
  /\ \E b, g :
       /\ Chained(s.list, b, g)
       /\ \E p \in 0 .. s.list.active :
            /\ s.at = IF p = s.list.active THEN Null ELSE b[p + 1]
            /\ \A i \in 1 .. p : ~DueCell(s.list, b[i])
            /\ p = s.list.active \/ s.list.active + n <= l.active + p
  /\ \A c \in Cells :
       \/ s.list.key[c] = l.key[c] /\ s.list.left[c] = l.left[c]
       \/ s.list.key[c] = NoKey /\ DueCell(l, c) /\ l.key[c] \in s.set
  /\ \A k \in s.set : \E c \in Cells : l.key[c] = k /\ DueCell(l, c)

\* One turn of the loop.
LEMMA SweepLemma ==
  ASSUME NEW l \in Lists, NEW n \in Nat, NEW s, Sweeping(l, s, n)
  PROVE  Sweeping(l, Sweep(s), n + 1)
<1> DEFINE t == s.list
           z == Sweep(s)
<1>1. /\ s \in Sweeps /\ t \in Lists /\ s.at \in Links /\ s.set \subseteq Keys
      /\ t.made = l.made
      /\ \A c \in Cells :
           \/ t.key[c] = l.key[c] /\ t.left[c] = l.left[c]
           \/ t.key[c] = NoKey /\ DueCell(l, c) /\ l.key[c] \in s.set
      /\ \A k \in s.set : \E c \in Cells : l.key[c] = k /\ DueCell(l, c)
      /\ s = [list |-> t, at |-> s.at, set |-> s.set]
  BY DEF Sweeping, Sweeps
<1>2. PICK b, g :
        /\ Chained(t, b, g)
        /\ \E p \in 0 .. t.active :
             /\ s.at = IF p = t.active THEN Null ELSE b[p + 1]
             /\ \A i \in 1 .. p : ~DueCell(t, b[i])
             /\ p = t.active \/ t.active + n <= l.active + p
  BY DEF Sweeping
<1>3. PICK p \in 0 .. t.active :
        /\ s.at = IF p = t.active THEN Null ELSE b[p + 1]
        /\ \A i \in 1 .. p : ~DueCell(t, b[i])
        /\ p = t.active \/ t.active + n <= l.active + p
  BY <1>2
<1>4. /\ t.active \in Nat /\ l.active \in Nat /\ p \in Nat /\ p <= t.active /\ Null \notin Cells
  BY <1>1, <1>2, Numbers DEF Lists
<1>5. /\ b \in [1 .. t.active -> Cells]
      /\ \A i, j \in 1 .. t.active : b[i] = b[j] => i = j
      /\ \A i \in 1 .. t.active : t.key[b[i]] # NoKey
      /\ \A i \in 1 .. t.active : t.next[b[i]] = IF i = t.active THEN Null ELSE b[i + 1]
  BY <1>2 DEF Chained, Pending
<1>6. CASE s.at = Null
  <2>1. p = t.active
    <3>1. p # t.active => p + 1 \in 1 .. t.active /\ b[p + 1] \in Cells
      BY <1>4, <1>5
    <3> QED BY <1>3, <1>4, <1>6, <3>1
  <2>2. z = s
    BY <1>6 DEF Sweep
  <2>3. \E q \in 0 .. t.active :
          /\ s.at = IF q = t.active THEN Null ELSE b[q + 1]
          /\ \A i \in 1 .. q : ~DueCell(t, b[i])
          /\ q = t.active \/ t.active + (n + 1) <= l.active + q
    BY <1>3, <2>1
  <2> HIDE DEF z
  <2> QED BY <1>1, <1>2, <2>2, <2>3 DEF Sweeping, z
<1>7. CASE s.at # Null
  <2> DEFINE m == p + 1
             c == b[m]
  <2>1. /\ p < t.active /\ m \in 1 .. t.active /\ m \in Nat /\ s.at = c /\ c \in Cells
        /\ t.next[c] = IF m = t.active THEN Null ELSE b[m + 1]
        /\ t.key[c] # NoKey /\ t.active + n <= l.active + p
    <3>1. p # t.active /\ p < t.active
      BY <1>3, <1>4, <1>7
    <3>2. m \in 1 .. t.active /\ m \in Nat
      BY <1>4, <3>1
    <3> QED BY <1>3, <1>5, <3>1, <3>2
  <2>2. t.next[c] \in Links /\ t.key[c] \in Keys
    BY <1>1, <2>1 DEF Lists
  <2> HIDE DEF c
  <2>3. CASE DueCell(t, c)
    <3> DEFINE r == Released(t, c)
               d == Without(b, t.active, m)
    <3>1. z = [list |-> r, at |-> t.next[c], set |-> s.set \cup {t.key[c]}]
      BY <1>7, <2>1, <2>3 DEF Sweep, Fired
    <3>2. /\ r \in Lists
          /\ \E h : Chained(r, d, h)
          /\ r.key = [t.key EXCEPT ![c] = NoKey]
          /\ r.left = [t.left EXCEPT ![c] = 0]
          /\ r.active = t.active - 1
          /\ r.made = t.made
      BY <1>1, <1>2, <2>1, ReleasedLemma DEF c
    <3> HIDE DEF z, r
    <3>3. PICK h : Chained(r, d, h)
      BY <3>2
    <3>4. /\ z.list = r /\ z.at = t.next[c] /\ z.set = s.set \cup {t.key[c]}
          /\ z \in Sweeps
      BY <1>1, <2>2, <3>1, <3>2 DEF Sweeps
    <3>5. /\ p \in 0 .. r.active
          /\ p = r.active <=> m = t.active
          /\ r.active + (n + 1) <= l.active + p
      BY <1>4, <2>1, <3>2
    <3>6. \A i \in 1 .. r.active : d[i] = IF i < m THEN b[i] ELSE b[i + 1]
      BY <3>2 DEF Without
    <3> HIDE DEF d
    <3>7. z.at = IF p = r.active THEN Null ELSE d[p + 1]
      <4>1. p # r.active => m \in 1 .. r.active /\ d[m] = b[m + 1]
        BY <1>4, <2>1, <3>2, <3>5, <3>6
      <4> QED BY <2>1, <3>4, <3>5, <4>1
    <3>8. /\ t.key \in [Cells -> Keys \cup {NoKey}] /\ t.left \in [Cells -> Int]
          /\ \A x \in Cells : x # c => r.key[x] = t.key[x] /\ r.left[x] = t.left[x]
          /\ r.key[c] = NoKey
      BY <1>1, <2>1, <3>2 DEF Lists
    <3>9. ASSUME NEW i \in 1 .. p
          PROVE  ~DueCell(r, d[i])
      <4>1. /\ i \in 1 .. r.active /\ i < m /\ i \in 1 .. t.active /\ i # m
        BY <1>4, <2>1, <3>2
      <4>2. d[i] = b[i] /\ b[i] # c /\ b[i] \in Cells
        BY <1>5, <2>1, <3>6, <4>1 DEF c
      <4>3. ~DueCell(t, b[i])
        BY <1>3
      <4> QED BY <3>8, <4>2, <4>3 DEF DueCell
    <3>10. t.key[c] = l.key[c] /\ DueCell(l, c)
      <4>1. t.key[c] = l.key[c] /\ t.left[c] = l.left[c]
        BY <1>1, <2>1
      <4> QED BY <2>3, <4>1 DEF DueCell
    <3>11. ASSUME NEW x \in Cells
           PROVE  \/ r.key[x] = l.key[x] /\ r.left[x] = l.left[x]
                  \/ r.key[x] = NoKey /\ DueCell(l, x) /\ l.key[x] \in z.set
      <4>1. CASE x = c
        BY <3>4, <3>8, <3>10, <4>1
      <4>2. CASE x # c
        BY <1>1, <3>4, <3>8, <4>2
      <4> QED BY <4>1, <4>2
    <3>12. \A k \in z.set : \E x \in Cells : l.key[x] = k /\ DueCell(l, x)
      BY <1>1, <2>1, <3>4, <3>10
    <3>13. r.made = l.made
      BY <1>1, <3>2
    <3>14. \E q \in 0 .. r.active :
             /\ z.at = IF q = r.active THEN Null ELSE d[q + 1]
             /\ \A i \in 1 .. q : ~DueCell(r, d[i])
             /\ q = r.active \/ r.active + (n + 1) <= l.active + q
      BY <3>5, <3>7, <3>9
    <3> QED BY <3>3, <3>4, <3>11, <3>12, <3>13, <3>14 DEF Sweeping, z
  <2>4. CASE ~DueCell(t, c)
    <3>1. z = [s EXCEPT !.at = t.next[c]]
      BY <1>7, <2>1, <2>4 DEF Sweep
    <3> HIDE DEF z
    <3>2. z.list = t /\ z.at = t.next[c] /\ z.set = s.set /\ z \in Sweeps
      BY <1>1, <2>2, <3>1 DEF Sweeps
    <3>3. m \in 0 .. t.active /\ t.active + (n + 1) <= l.active + m
      BY <1>4, <2>1
    <3>4. ASSUME NEW i \in 1 .. m
          PROVE  ~DueCell(t, b[i])
      <4>1. CASE i = m
        BY <2>4, <4>1 DEF c
      <4>2. CASE i # m
        <5>1. i \in 1 .. p
          BY <1>4, <4>2
        <5> QED BY <1>3, <5>1
      <4> QED BY <4>1, <4>2
    <3>5. z.at = IF m = t.active THEN Null ELSE b[m + 1]
      BY <2>1, <3>2
    <3>6. \E q \in 0 .. t.active :
            /\ z.at = IF q = t.active THEN Null ELSE b[q + 1]
            /\ \A i \in 1 .. q : ~DueCell(t, b[i])
            /\ q = t.active \/ t.active + (n + 1) <= l.active + q
      <4> HIDE DEF m
      <4> QED BY <3>3, <3>4, <3>5
    <3> QED BY <1>1, <1>2, <3>2, <3>6 DEF Sweeping, z
  <2> QED BY <2>3, <2>4
<1> QED BY <1>6, <1>7

\* timerUpdate releases the cells that are due and raises their keys, and
\* leaves all the others as they were.
LEMMA SweptLemma ==
  ASSUME NEW l, Sound(l)
  PROVE  /\ Sound(Swept(l).list)
         /\ Swept(l).list.made = l.made
         /\ Swept(l).set = {l.key[c] : c \in {e \in Cells : DueCell(l, e)}}
         /\ Swept(l).set \subseteq Keys
         /\ \A c \in Cells :
              IF DueCell(l, c) THEN Swept(l).list.key[c] = NoKey
              ELSE /\ Swept(l).list.key[c] = l.key[c]
                   /\ Swept(l).list.left[c] = l.left[c]
<1> DEFINE start == [list |-> l, at |-> l.head, set |-> {}]
           F == [s \in Sweeps |-> Sweep(s)]
           Turns(g) == g = [n \in 0 .. MaxCells |-> IF n = 0 THEN start ELSE F[g[n - 1]]]
           turn == CHOOSE g : Turns(g)
<1>1. MaxCells \in Nat /\ l \in Lists
  BY CellAssumption DEF Sound
<1>2. PICK a, f : Chained(l, a, f)
  BY DEF Sound
<1>3. Swept(l) = turn[MaxCells]
  BY DEF Swept
<1>4. Turns(turn)
  <2>1. \E g : Turns(g)
    <3> HIDE DEF start, F
    <3>1. \E g : Iterates(g, MaxCells, start, F)
      BY <1>1, IterationExists, Zenon
    <3> QED BY <3>1 DEF Iterates
  <2> HIDE DEF start, F
  <2> QED BY <2>1, Zenon
<1>5. /\ turn[0] = start
      /\ \A n \in 0 .. MaxCells : n # 0 => turn[n] = F[turn[n - 1]]
  <2> HIDE DEF turn, start, F
  <2>1. 0 \in 0 .. MaxCells
    BY <1>1
  <2>2. \A n \in 0 .. MaxCells : turn[n] = IF n = 0 THEN start ELSE F[turn[n - 1]]
    BY <1>4
  <2> QED BY <2>1, <2>2
<1> HIDE DEF turn, Turns
<1>6. Sweeping(l, start, 0)
  <2>1. start \in Sweeps /\ start.list = l /\ start.at = l.head /\ start.set = {}
    BY <1>1 DEF Sweeps, Lists
  <2>2. l.active \in Nat /\ 0 \in 0 .. l.active
    BY <1>1 DEF Lists
  <2>3. l.head = IF 0 = l.active THEN Null ELSE a[0 + 1]
    BY <1>2 DEF Chained, Pending
  <2> HIDE DEF start
  <2>4. \E p \in 0 .. l.active :
          /\ start.at = IF p = l.active THEN Null ELSE a[p + 1]
          /\ \A i \in 1 .. p : ~DueCell(l, a[i])
          /\ p = l.active \/ l.active + 0 <= l.active + p
    BY <2>1, <2>2, <2>3
  <2> QED BY <1>2, <2>1, <2>4 DEF Sweeping
<1> DEFINE T == {n \in 0 .. MaxCells : Sweeping(l, turn[n], n)}
<1>7. 0 \in T
  BY <1>1, <1>5, <1>6
<1>8. ASSUME NEW n \in 0 .. MaxCells - 1, n \in T
      PROVE  n + 1 \in T
  <2>1. n \in Nat /\ n + 1 \in 0 .. MaxCells /\ n + 1 # 0 /\ (n + 1) - 1 = n
    BY <1>1
  <2>2. Sweeping(l, turn[n], n)
    BY <1>8
  <2>3. turn[n] \in Sweeps
    BY <2>2 DEF Sweeping
  <2>4. turn[n + 1] = F[turn[n]]
    <3> HIDE DEF F
    <3> QED BY <1>5, <2>1
  <2>5. turn[n + 1] = Sweep(turn[n])
    BY <2>3, <2>4
  <2>6. Sweeping(l, Sweep(turn[n]), n + 1)
    BY <1>1, <2>1, <2>2, SweepLemma
  <2> QED BY <2>1, <2>5, <2>6
<1>9. Sweeping(l, Swept(l), MaxCells)
  <2> HIDE DEF T
  <2>1. \A n \in 0 .. MaxCells : n \in T
    BY <1>1, <1>7, <1>8, Induction
  <2>2. MaxCells \in T
    BY <1>1, <2>1
  <2> QED BY <1>3, <2>2 DEF T
<1> DEFINE r == Swept(l)
<1> HIDE DEF r
<1>10. /\ r \in Sweeps /\ r.list.made = l.made
       /\ \A c \in Cells :
            \/ r.list.key[c] = l.key[c] /\ r.list.left[c] = l.left[c]
            \/ r.list.key[c] = NoKey /\ DueCell(l, c) /\ l.key[c] \in r.set
       /\ \A k \in r.set : \E c \in Cells : l.key[c] = k /\ DueCell(l, c)
  BY <1>9 DEF Sweeping, r
<1>11. PICK b, g :
         /\ Chained(r.list, b, g)
         /\ \E p \in 0 .. r.list.active :
              /\ r.at = IF p = r.list.active THEN Null ELSE b[p + 1]
              /\ \A i \in 1 .. p : ~DueCell(r.list, b[i])
              /\ p = r.list.active \/ r.list.active + MaxCells <= l.active + p
  BY <1>9 DEF Sweeping, r
<1>12. r.list \in Lists /\ r.set \subseteq Keys
  BY <1>10 DEF Sweeps
<1>13. \A i \in 1 .. r.list.active : ~DueCell(r.list, b[i])
  <2>1. PICK p \in 0 .. r.list.active :
              /\ \A i \in 1 .. p : ~DueCell(r.list, b[i])
              /\ p = r.list.active \/ r.list.active + MaxCells <= l.active + p
    BY <1>11
  <2>2. r.list.active \in Nat /\ l.active \in 0 .. MaxCells /\ p \in Nat /\ p <= r.list.active
    BY <1>1, <1>12, <2>1 DEF Lists
  <2>3. p = r.list.active
    BY <1>1, <2>1, <2>2
  <2> QED BY <2>1, <2>3
<1>14. ASSUME NEW c \in Cells, DueCell(l, c)
       PROVE  r.list.key[c] = NoKey /\ l.key[c] \in r.set
  <2>1. ASSUME r.list.key[c] = l.key[c], r.list.left[c] = l.left[c]
        PROVE  FALSE
    <3>1. DueCell(r.list, c) /\ r.list.key[c] # NoKey
      BY <1>14, <2>1 DEF DueCell
    <3>2. \E i \in 1 .. r.list.active : b[i] = c
      BY <1>11, <3>1 DEF Chained, AllThere
    <3> QED BY <1>13, <3>1, <3>2
  <2> QED BY <1>10, <1>14, <2>1
<1>15. r.set = {l.key[c] : c \in {e \in Cells : DueCell(l, e)}}
  BY <1>10, <1>14
<1>16. Sound(r.list)
  BY <1>11, <1>12 DEF Sound
<1> QED BY <1>10, <1>12, <1>14, <1>15, <1>16 DEF r
-----------------------------------------------------------------------------
(* What the operations do to the cells.                                     *)

\* The times left are no part of the shape of the lists.
LEMMA TimesLemma ==
  ASSUME NEW l, Sound(l), NEW t \in [Cells -> Int]
  PROVE  /\ Sound([l EXCEPT !.left = t])
         /\ [l EXCEPT !.left = t].key = l.key
         /\ [l EXCEPT !.left = t].left = t
         /\ [l EXCEPT !.left = t].made = l.made
<1> DEFINE n == [l EXCEPT !.left = t]
<1>1. l \in Lists
  BY DEF Sound
<1>2. /\ n \in Lists /\ n.left = t /\ n.key = l.key /\ n.made = l.made
      /\ n.head = l.head /\ n.tail = l.tail /\ n.cache = l.cache
      /\ n.active = l.active /\ n.cached = l.cached
      /\ n.next = l.next /\ n.prev = l.prev
  BY <1>1 DEF Lists
<1> HIDE DEF n
<1>3. PICK a, f : Chained(l, a, f)
  BY DEF Sound
<1>4. Chained(n, a, f)
  <2>1. Pending(n, a)
    BY <1>2, <1>3 DEF Chained, Pending
  <2>2. Free(n, f)
    BY <1>2, <1>3 DEF Chained, Free
  <2>3. AllThere(n, a, f)
    BY <1>2, <1>3 DEF Chained, AllThere
  <2> QED BY <2>1, <2>2, <2>3 DEF Chained
<1>5. Sound(n)
  BY <1>2, <1>4 DEF Sound
<1> QED BY <1>2, <1>5 DEF n

\* A heap cell is taken only when the pending timers do not use up the keys.
LEMMA HeapLemma ==
  ASSUME NEW l \in Lists, NEW a, NEW f, Chained(l, a, f), l.cached = 0,
         NEW k \in Keys, \A c \in Cells : l.key[c] # k
  PROVE  l.made + 1 <= Cardinality(Keys)
<1> DEFINE h == [i \in 1 .. l.active |-> l.key[a[i]]]
           OtherKeys == Keys \ {k}
<1>1. /\ l.active \in Nat /\ l.made = l.active /\ IsFiniteSet(Keys)
      /\ l.key \in [Cells -> Keys \cup {NoKey}]
  BY Numbers, CellAssumption DEF Lists
<1>2. /\ a \in [1 .. l.active -> Cells]
      /\ \A i, j \in 1 .. l.active : a[i] = a[j] => i = j
      /\ \A i \in 1 .. l.active : l.key[a[i]] # NoKey
      /\ \A c, e \in Cells : l.key[c] = l.key[e] /\ l.key[c] # NoKey => c = e
  BY DEF Chained, Pending, AllThere
<1>3. h \in Injection(1 .. l.active, OtherKeys)
  <2>1. ASSUME NEW i \in 1 .. l.active
        PROVE  h[i] \in OtherKeys
    <3>1. a[i] \in Cells
      BY <1>2
    <3> QED BY <1>1, <1>2, <3>1
  <2>2. ASSUME NEW i \in 1 .. l.active, NEW j \in 1 .. l.active, h[i] = h[j]
        PROVE  i = j
    <3>1. a[i] \in Cells /\ a[j] \in Cells /\ l.key[a[i]] = l.key[a[j]]
      BY <1>2, <2>2
    <3>2. a[i] = a[j]
      BY <1>2, <3>1
    <3> QED BY <1>2, <3>2
  <2>3. h \in [1 .. l.active -> OtherKeys]
    BY <2>1
  <2> HIDE DEF h, OtherKeys
  <2>4. DOMAIN h = 1 .. l.active
    BY <2>3
  <2> QED BY <2>2, <2>3, <2>4 DEF Injection, IsInjective
<1> HIDE DEF h
<1>4. /\ IsFiniteSet(OtherKeys) /\ Cardinality(OtherKeys) = Cardinality(Keys) - 1
      /\ Cardinality(Keys) \in Nat
  BY <1>1, FS_RemoveElement, FS_CardinalityType
<1> HIDE DEF OtherKeys
<1>5. Cardinality(1 .. l.active) <= Cardinality(OtherKeys)
  BY <1>3, <1>4, FS_Injection
<1>6. Cardinality(1 .. l.active) = l.active
  <2>1. Cardinality(1 .. l.active) = IF 1 > l.active THEN 0 ELSE l.active - 1 + 1
    BY <1>1, FS_Interval
  <2> QED BY <1>1, <2>1
<1> QED BY <1>1, <1>4, <1>5, <1>6

\* osalAddTimer leaves one cell with the key, and the others alone.
LEMMA AddLemma ==
  ASSUME NEW l, Sound(l), l.made <= Cardinality(Keys), NEW k \in Keys, NEW d \in Int,
         Fresh(l) \in Cells \/ FindTimer(l, k) # Null
  PROVE  /\ Sound(AddTimer(l, k, d))
         /\ AddTimer(l, k, d).made <= Cardinality(Keys)
         /\ \E c \in Cells :
              /\ AddTimer(l, k, d).key[c] = k /\ AddTimer(l, k, d).left[c] = d
              /\ l.key[c] = k \/ (l.key[c] = NoKey /\ \A x \in Cells : l.key[x] # k)
              /\ \A x \in Cells : x # c => /\ AddTimer(l, k, d).key[x] = l.key[x]
                                           /\ AddTimer(l, k, d).left[x] = l.left[x]
<1> DEFINE n == AddTimer(l, k, d)
           old == FindTimer(l, k)
<1>1. l \in Lists
  BY DEF Sound
<1>2. PICK a, f : Chained(l, a, f)
  BY DEF Sound
<1>3. /\ l.key \in [Cells -> Keys \cup {NoKey}] /\ l.left \in [Cells -> Int]
      /\ Null \notin Cells
      /\ a \in [1 .. l.active -> Cells]
  BY <1>1, <1>2, Numbers DEF Lists, Chained, Pending
<1>4. CASE old # Null
  <2>1. PICK m \in 1 .. l.active : old = a[m] /\ l.key[a[m]] = k
    BY <1>1, <1>2, <1>4, FindLemma
  <2>2. old \in Cells /\ l.key[old] = k
    BY <1>3, <2>1
  <2>3. n = [l EXCEPT !.left = [l.left EXCEPT ![old] = d]]
    BY <1>4 DEF AddTimer
  <2> DEFINE t == [l.left EXCEPT ![old] = d]
  <2>4. t \in [Cells -> Int] /\ t[old] = d /\ \A x \in Cells : x # old => t[x] = l.left[x]
    BY <1>3, <2>2
  <2> HIDE DEF n, old, t
  <2>5. /\ Sound([l EXCEPT !.left = t]) /\ [l EXCEPT !.left = t].key = l.key
        /\ [l EXCEPT !.left = t].left = t /\ [l EXCEPT !.left = t].made = l.made
    BY <2>4, TimesLemma
  <2>6. Sound(n) /\ n.key = l.key /\ n.left = t /\ n.made = l.made
    BY <2>3, <2>5 DEF t
  <2>7. \E c \in Cells :
          /\ n.key[c] = k /\ n.left[c] = d /\ l.key[c] = k
          /\ \A x \in Cells : x # c => n.key[x] = l.key[x] /\ n.left[x] = l.left[x]
    BY <2>2, <2>4, <2>6
  <2> QED BY <2>6, <2>7 DEF n
<1>5. CASE old = Null
  <2>1. \A x \in Cells : l.key[x] # k
    <3>1. \A m \in 1 .. l.active : a[m] \in Cells
      BY <1>3
    <3>2. \/ \E m \in 1 .. l.active : old = a[m] /\ l.key[a[m]] = k
          \/ old = Null /\ \A x \in Cells : l.key[x] # k
      BY <1>1, <1>2, FindLemma
    <3> QED BY <1>3, <1>5, <3>1, <3>2
  <2> DEFINE c == Fresh(l)
  <2>2. c \in Cells
    BY <1>5
  <2>3. n = Added(l, k, d)
    BY <1>5 DEF AddTimer, Added
  <2>4. /\ Sound(Added(l, k, d))
        /\ Added(l, k, d).key = [l.key EXCEPT ![c] = k]
        /\ Added(l, k, d).left = [l.left EXCEPT ![c] = d]
        /\ l.key[c] = NoKey
        /\ Added(l, k, d).made = l.made \/ (l.cached = 0 /\ Added(l, k, d).made = l.made + 1)
    BY <1>1, <1>2, <2>1, <2>2, AddedLemma
  <2> HIDE DEF n, old, c
  <2>5. /\ Sound(n) /\ n.key[c] = k /\ n.left[c] = d /\ l.key[c] = NoKey
        /\ \A x \in Cells : x # c => n.key[x] = l.key[x] /\ n.left[x] = l.left[x]
    BY <1>3, <2>2, <2>3, <2>4
  <2>6. n.made <= Cardinality(Keys)
    <3>1. l.cached = 0 => l.made + 1 <= Cardinality(Keys)
      BY <1>1, <1>2, <2>1, HeapLemma
    <3> QED BY <2>3, <2>4, <3>1
  <2> QED BY <2>1, <2>2, <2>5, <2>6 DEF n
<1> QED BY <1>4, <1>5

\* osalDeleteTimer leaves no cell with the key, and the others alone.
LEMMA StopLemma ==
  ASSUME NEW l, Sound(l), NEW k \in Keys
  PROVE  /\ Sound(StopTimer(l, k))
         /\ StopTimer(l, k).made = l.made
         /\ \A c \in Cells : IF l.key[c] = k THEN StopTimer(l, k).key[c] = NoKey
                             ELSE /\ StopTimer(l, k).key[c] = l.key[c]
                                  /\ StopTimer(l, k).left[c] = l.left[c]
<1> DEFINE n == StopTimer(l, k)
           old == FindTimer(l, k)
<1>1. l \in Lists
  BY DEF Sound
<1>2. PICK a, f : Chained(l, a, f)
  BY DEF Sound
<1>3. /\ l.key \in [Cells -> Keys \cup {NoKey}] /\ l.left \in [Cells -> Int]
      /\ Null \notin Cells /\ k # NoKey
  BY <1>1, <1>2, Numbers, CellAssumption DEF Lists
<1> HIDE DEF n, old
<1>4. /\ a \in [1 .. l.active -> Cells]
      /\ \A c, e \in Cells : l.key[c] = l.key[e] /\ l.key[c] # NoKey => c = e
  BY <1>2 DEF Chained, Pending, AllThere
<1>5. CASE old = Null
  <2>1. n = l
    BY <1>5 DEF StopTimer, n, old
  <2>2. \A c \in Cells : l.key[c] # k
    <3>1. \A m \in 1 .. l.active : a[m] \in Cells
      BY <1>4
    <3>2. \/ \E m \in 1 .. l.active : old = a[m] /\ l.key[a[m]] = k
          \/ old = Null /\ \A x \in Cells : l.key[x] # k
      BY <1>1, <1>2, FindLemma DEF old
    <3> QED BY <1>3, <1>5, <3>1, <3>2
  <2> QED BY <2>1, <2>2 DEF n
<1>6. CASE old # Null
  <2>1. PICK m \in 1 .. l.active : old = a[m] /\ l.key[a[m]] = k
    BY <1>1, <1>2, <1>3, <1>4, <1>6, FindLemma DEF old
  <2>2. a[m] \in Cells
    BY <1>4
  <2>3. n = Released(l, a[m])
    BY <1>6, <2>1 DEF StopTimer, n, old
  <2>4. /\ Sound(Released(l, a[m]))
        /\ Released(l, a[m]).key = [l.key EXCEPT ![a[m]] = NoKey]
        /\ Released(l, a[m]).left = [l.left EXCEPT ![a[m]] = 0]
        /\ Released(l, a[m]).made = l.made
    BY <1>1, <1>2, ReleasedLemma DEF Sound
  <2>5. /\ Sound(n) /\ n.made = l.made /\ n.key[a[m]] = NoKey
        /\ \A x \in Cells : x # a[m] => n.key[x] = l.key[x] /\ n.left[x] = l.left[x]
    BY <1>3, <2>2, <2>3, <2>4
  <2>6. \A c \in Cells : l.key[c] = k => c = a[m]
    BY <1>3, <1>4, <2>1, <2>2
  <2> QED BY <2>1, <2>5, <2>6 DEF n
<1> QED BY <1>5, <1>6

\* The clock moves for the cells that are in use.
LEMMA ShiftLemma ==
  ASSUME Sound(tl), NEW s \in Int
  PROVE  /\ Sound(Shifted(s))
         /\ Shifted(s).made = tl.made
         /\ Shifted(s).key = tl.key
         /\ \A c \in Cells : tl.key[c] # NoKey => Shifted(s).left[c] = tl.left[c] + s
<1> DEFINE t == [c \in Cells |-> IF tl.key[c] = NoKey THEN 0 ELSE tl.left[c] + s]
<1>1. tl.left \in [Cells -> Int]
  BY DEF Sound, Lists
<1>2. t \in [Cells -> Int] /\ \A c \in Cells : tl.key[c] # NoKey => t[c] = tl.left[c] + s
  BY <1>1
<1>3. Shifted(s) = [tl EXCEPT !.left = t]
  BY DEF Shifted
<1> HIDE DEF t
<1> QED BY <1>2, <1>3, TimesLemma

-----------------------------------------------------------------------------
(* The invariant.                                                           *)

\* At the start both lists are empty.
LEMMA InitInv == Init => Inv
<1> SUFFICES ASSUME Init
             PROVE  Inv
  OBVIOUS
<1> DEFINE e == [i \in 1 .. 0 |-> Null]
<1>1. /\ tl \in Lists /\ tl.active = 0 /\ tl.cached = 0 /\ tl.made = 0
      /\ tl.head = Null /\ tl.tail = Null /\ tl.cache = Null
      /\ \A c \in Cells : tl.key[c] = NoKey
  BY CellAssumption DEF Init, Lists, Links, Null
<1>2. e \in [1 .. 0 -> Cells] /\ \A i \in 1 .. 0 : FALSE
  OBVIOUS
<1> HIDE DEF e
<1>3. Pending(tl, e)
  BY <1>1, <1>2 DEF Pending
<1>4. Free(tl, e)
  BY <1>1, <1>2 DEF Free
<1>5. AllThere(tl, e, e)
  BY <1>1, <1>2 DEF AllThere
<1>6. Sound(tl)
  BY <1>1, <1>3, <1>4, <1>5 DEF Sound, Chained
<1>7. Cardinality(Keys) \in Nat
  BY CellAssumption, FS_CardinalityType
<1> QED BY <1>1, <1>6, <1>7, CellAssumption DEF Init, Inv

\* Every operation keeps the lists whole, and no key gets a second cell.
LEMMA NextInv == Inv /\ [Next]_vars => Inv'
<1> SUFFICES ASSUME Inv, [Next]_vars
             PROVE  Inv'
  OBVIOUS
<1>1. /\ Sound(tl) /\ raised \subseteq Keys /\ backs \in 0 .. Backs
      /\ tl.made <= Cardinality(Keys) /\ Backs \in Nat
  BY CellAssumption DEF Inv
<1>2. ASSUME NEW k \in Keys, NEW d \in Durations, Start(k, d)
      PROVE  Inv'
  <2>1. d \in Int
    BY CellAssumption
  <2>2. Sound(AddTimer(tl, k, d)) /\ AddTimer(tl, k, d).made <= Cardinality(Keys)
    BY <1>1, <1>2, <2>1, AddLemma DEF Start
  <2> QED BY <1>1, <1>2, <2>2 DEF Start, Inv
<1>3. ASSUME NEW k \in Keys, Clear(k)
      PROVE  Inv'
  <2>1. Sound(StopTimer(tl, k)) /\ StopTimer(tl, k).made = tl.made
    BY <1>1, StopLemma
  <2> QED BY <1>1, <1>3, <2>1 DEF Clear, Inv
<1>4. CASE Update
  <2>1. /\ Sound(Swept(tl).list) /\ Swept(tl).list.made = tl.made
        /\ Swept(tl).set \subseteq Keys
    BY <1>1, SweptLemma
  <2> QED BY <1>1, <1>4, <2>1 DEF Update, Inv
<1>5. ASSUME NEW ks \in SUBSET raised, Take(ks)
      PROVE  Inv'
  BY <1>1, <1>5 DEF Take, Inv
<1>6. CASE Tick
  <2>1. Sound(Shifted(-1)) /\ Shifted(-1).made = tl.made
    BY <1>1, ShiftLemma
  <2> QED BY <1>1, <1>6, <2>1 DEF Tick, Inv
<1>7. CASE SetBack
  <2>1. Sound(Shifted(BackStep)) /\ Shifted(BackStep).made = tl.made
    BY <1>1, CellAssumption, ShiftLemma
  <2>2. backs' \in 0 .. Backs
    BY <1>1, <1>7 DEF SetBack
  <2> QED BY <1>1, <1>7, <2>1, <2>2 DEF SetBack, Inv
<1>8. CASE UNCHANGED vars
  BY <1>1, <1>8 DEF vars, Inv
<1> QED BY <1>2, <1>3, <1>4, <1>5, <1>6, <1>7, <1>8 DEF Next

\* The inductive invariant holds in every state.
THEOREM TimerInvariant == Spec => []Inv
<1> QED BY InitInv, NextInv, PTL DEF Spec

\* Every field of the list stays in its range.
THEOREM TimerTypes == Spec => []TypeOK
<1>1. Inv => TypeOK
  BY DEF Inv, Sound, TypeOK
<1> QED BY <1>1, TimerInvariant, PTL

\* The list that the links give reads the same backwards, the counters are the
\* lengths of the two lists, and no cell is lost.
THEOREM TimerListsWhole == Spec => []ListsWhole
<1>1. Inv => ListsWhole
  <2> SUFFICES ASSUME Inv
               PROVE  ListsWhole
    OBVIOUS
  <2>1. tl \in Lists
    BY DEF Inv, Sound
  <2>2. PICK a, f : Chained(tl, a, f)
    BY DEF Inv, Sound
  <2>3. Active(tl) = a /\ Cached(tl) = f
    BY <2>1, <2>2, WalksLemma
  <2>4. /\ tl.active \in Nat /\ tl.cached \in Nat /\ tl.made \in Nat
        /\ tl.made <= MaxCells /\ MaxCells \in Nat
        /\ tl.active + tl.cached = tl.made
    BY <2>1, <2>2, Numbers
  <2>5. a \in [1 .. tl.active -> Cells] /\ f \in [1 .. tl.cached -> Cells]
    BY <2>2 DEF Chained, Pending, Free
  <2>6. /\ a \in Seq(Cells) /\ Len(a) = tl.active /\ DOMAIN a = 1 .. tl.active
        /\ f \in Seq(Cells) /\ Len(f) = tl.cached /\ DOMAIN f = 1 .. tl.cached
    BY <2>4, <2>5
  <2>7. {a[i] : i \in DOMAIN a} \cup {f[i] : i \in DOMAIN f} = 1 .. tl.made
    <3>1. ASSUME NEW i \in 1 .. tl.active
          PROVE  a[i] \in 1 .. tl.made
      <4>1. a[i] \in Cells /\ a[i] <= tl.made
        BY <2>2, <2>5 DEF Chained, AllThere
      <4> QED BY <2>4, <4>1 DEF Cells
    <3>2. ASSUME NEW i \in 1 .. tl.cached
          PROVE  f[i] \in 1 .. tl.made
      <4>1. f[i] \in Cells /\ f[i] <= tl.made
        BY <2>2, <2>5 DEF Chained, AllThere
      <4> QED BY <2>4, <4>1 DEF Cells
    <3>3. \A c \in 1 .. tl.made : (\E i \in 1 .. tl.active : a[i] = c)
                                  \/ (\E i \in 1 .. tl.cached : f[i] = c)
      BY <2>2 DEF Chained, AllThere
    <3> QED BY <2>6, <3>1, <3>2, <3>3
  <2>8. \A i \in DOMAIN a : tl.prev[a[i]] = IF i = 1 THEN Null ELSE a[i - 1]
    BY <2>2, <2>6 DEF Chained, Pending
  <2>9. tl.tail = IF a = <<>> THEN Null ELSE a[Len(a)]
    <3>1. a = <<>> <=> tl.active = 0
      BY <2>6
    <3> QED BY <2>2, <2>6, <3>1 DEF Chained, Pending
  <2> QED BY <2>3, <2>4, <2>6, <2>7, <2>8, <2>9 DEF ListsWhole
<1> QED BY <1>1, TimerInvariant, PTL

\* No key has two cells, and the heap gives no more cells than there are keys.
THEOREM TimerCells == Spec => []CellsBounded
<1>1. Inv => CellsBounded
  BY DEF Inv, Sound, Chained, AllThere, CellsBounded
<1> QED BY <1>1, TimerInvariant, PTL

-----------------------------------------------------------------------------
(* The list implements the set of timers.                                   *)

\* The keys that have a cell, and the set of timers that a list stands for.
Keyed(l) == {l.key[c] : c \in Cells} \ {NoKey}
Holder(l, k) == CHOOSE c \in Cells : l.key[c] = k
Timers(l) == [k \in Keyed(l) |-> l.left[Holder(l, k)]]

\* The timers without those of a set of keys.
Others(l, G) == [k \in Keyed(l) \ G |-> Timers(l)[k]]

\* A key and its cell determine each other.
LEMMA HolderLemma ==
  ASSUME NEW l, Sound(l)
  PROVE  /\ \A c \in Cells : l.key[c] # NoKey => /\ l.key[c] \in Keyed(l)
                                                 /\ Holder(l, l.key[c]) = c
                                                 /\ Timers(l)[l.key[c]] = l.left[c]
         /\ \A k \in Keyed(l) : \E c \in Cells : l.key[c] = k /\ k # NoKey /\ k \in Keys
<1>1. /\ l.key \in [Cells -> Keys \cup {NoKey}]
      /\ \A c, e \in Cells : l.key[c] = l.key[e] /\ l.key[c] # NoKey => c = e
  BY DEF Sound, Lists, Chained, AllThere
<1>2. \A c \in Cells : l.key[c] # NoKey => l.key[c] \in Keyed(l)
  BY DEF Keyed
<1>3. ASSUME NEW c \in Cells, l.key[c] # NoKey
      PROVE  Holder(l, l.key[c]) = c
  <2>1. \E e \in Cells : l.key[e] = l.key[c]
    OBVIOUS
  <2>2. Holder(l, l.key[c]) \in Cells /\ l.key[Holder(l, l.key[c])] = l.key[c]
    BY <2>1 DEF Holder
  <2> QED BY <1>1, <1>3, <2>2
<1>4. \A c \in Cells : l.key[c] # NoKey => Timers(l)[l.key[c]] = l.left[c]
  BY <1>2, <1>3 DEF Timers
<1>5. \A k \in Keyed(l) : \E c \in Cells : l.key[c] = k /\ k # NoKey /\ k \in Keys
  BY <1>1 DEF Keyed
<1> QED BY <1>2, <1>3, <1>4, <1>5

\* A list that has a cell for every key of a set, with the time that a function
\* gives, and for no other key, stands for that function.
LEMMA StandsFor ==
  ASSUME NEW n, Sound(n), NEW K, NEW t, t = [k \in K |-> t[k]],
         \A k \in K : \E c \in Cells : n.key[c] = k /\ k # NoKey /\ n.left[c] = t[k],
         \A c \in Cells : n.key[c] # NoKey => n.key[c] \in K
  PROVE  Timers(n) = t
<1>1. Keyed(n) = K
  BY DEF Keyed
<1>2. \A k \in K : Timers(n)[k] = t[k]
  BY HolderLemma
<1>3. Timers(n) = [k \in Keyed(n) |-> Timers(n)[k]]
  BY DEF Timers
<1> HIDE DEF Timers
<1> QED BY <1>1, <1>2, <1>3

\* The cells of the keys in a set are released: the other timers are left.
LEMMA KeptLemma ==
  ASSUME NEW l, Sound(l), NEW n, Sound(n), NEW G,
         \A c \in Cells : l.key[c] # NoKey =>
           IF l.key[c] \in G THEN n.key[c] = NoKey
           ELSE n.key[c] = l.key[c] /\ n.left[c] = l.left[c],
         \A c \in Cells : l.key[c] = NoKey => n.key[c] = NoKey
  PROVE  Timers(n) = Others(l, G)
<1> DEFINE t == [k \in Keyed(l) \ G |-> Timers(l)[k]]
<1>1. t = [k \in Keyed(l) \ G |-> t[k]]
  OBVIOUS
<1>2. ASSUME NEW k \in Keyed(l) \ G
      PROVE  \E c \in Cells : n.key[c] = k /\ k # NoKey /\ n.left[c] = t[k]
  <2>1. PICK c \in Cells : l.key[c] = k /\ k # NoKey
    BY HolderLemma
  <2>2. n.key[c] = k /\ n.left[c] = l.left[c] /\ Timers(l)[k] = l.left[c]
    BY <2>1, HolderLemma
  <2> QED BY <2>1, <2>2
<1>3. \A c \in Cells : n.key[c] # NoKey => n.key[c] \in Keyed(l) \ G
  BY HolderLemma
<1> HIDE DEF t
<1>4. Timers(n) = t
  BY <1>1, <1>2, <1>3, StandsFor
<1> QED BY <1>4 DEF t, Others

\* What the names of TimerList say for a list that is sound.
LEMMA SetOfList ==
  /\ [k \in Used |-> tl.left[CellOf(k)]] = Timers(tl)
  /\ [k \in Used |-> tl.left[CellOf(k)]]' = Timers(tl')
  /\ Used = Keyed(tl)
BY DEF Timers, Keyed, Holder, Used, CellOf

\* A start is a start of the set.
LEMMA StartMaps ==
  ASSUME Inv, NEW k \in Keys, NEW d \in Durations, Start(k, d)
  PROVE  Timers(tl') = [j \in Keyed(tl) \cup {k} |-> IF j = k THEN d ELSE Timers(tl)[j]]
<1> DEFINE n == AddTimer(tl, k, d)
           t == [j \in Keyed(tl) \cup {k} |-> IF j = k THEN d ELSE Timers(tl)[j]]
<1>1. /\ d \in Int /\ k # NoKey /\ Sound(tl)
      /\ Fresh(tl) \in Cells \/ FindTimer(tl, k) # Null
      /\ tl.made <= Cardinality(Keys)
  BY CellAssumption DEF Inv, Start
<1>2. /\ Sound(n)
      /\ \E c \in Cells :
           /\ n.key[c] = k /\ n.left[c] = d
           /\ tl.key[c] = k \/ (tl.key[c] = NoKey /\ \A x \in Cells : tl.key[x] # k)
           /\ \A x \in Cells : x # c => n.key[x] = tl.key[x] /\ n.left[x] = tl.left[x]
  BY <1>1, AddLemma
<1> HIDE DEF n
<1>3. PICK c \in Cells :
        /\ n.key[c] = k /\ n.left[c] = d
        /\ tl.key[c] = k \/ (tl.key[c] = NoKey /\ \A x \in Cells : tl.key[x] # k)
        /\ \A x \in Cells : x # c => n.key[x] = tl.key[x] /\ n.left[x] = tl.left[x]
  BY <1>2
<1>4. t = [j \in Keyed(tl) \cup {k} |-> t[j]]
  OBVIOUS
<1>5. t[k] = d /\ \A j \in Keyed(tl) : j # k => t[j] = Timers(tl)[j]
  OBVIOUS
<1> HIDE DEF t
<1>6. ASSUME NEW j \in Keyed(tl) \cup {k}
      PROVE  \E e \in Cells : n.key[e] = j /\ j # NoKey /\ n.left[e] = t[j]
  <2>1. CASE j = k
    BY <1>1, <1>3, <1>5, <2>1
  <2>2. CASE j # k
    <3>1. PICK e \in Cells : tl.key[e] = j /\ j # NoKey
      BY <1>1, <2>2, HolderLemma
    <3>2. e # c
      BY <1>3, <2>2, <3>1
    <3>3. Timers(tl)[j] = tl.left[e]
      BY <1>1, <3>1, HolderLemma
    <3> QED BY <1>3, <1>5, <2>2, <3>1, <3>2, <3>3
  <2> QED BY <2>1, <2>2
<1>7. \A e \in Cells : n.key[e] # NoKey => n.key[e] \in Keyed(tl) \cup {k}
  BY <1>1, <1>3, HolderLemma
<1>8. Timers(n) = t
  BY <1>2, <1>4, <1>6, <1>7, StandsFor
<1>9. tl' = n
  BY DEF Start, n
<1> QED BY <1>8, <1>9 DEF t

\* A clear takes the key out of the set.
LEMMA ClearMaps ==
  ASSUME Inv, NEW k \in Keys, Clear(k)
  PROVE  Timers(tl') = Others(tl, {k})
<1>1. Sound(tl) /\ k # NoKey /\ tl' = StopTimer(tl, k)
  BY CellAssumption DEF Inv, Clear
<1>2. /\ Sound(tl')
      /\ \A c \in Cells : IF tl.key[c] = k THEN tl'.key[c] = NoKey
                          ELSE tl'.key[c] = tl.key[c] /\ tl'.left[c] = tl.left[c]
  BY <1>1, StopLemma
<1>3. /\ \A c \in Cells : tl.key[c] # NoKey =>
           IF tl.key[c] \in {k} THEN tl'.key[c] = NoKey
           ELSE tl'.key[c] = tl.key[c] /\ tl'.left[c] = tl.left[c]
      /\ \A c \in Cells : tl.key[c] = NoKey => tl'.key[c] = NoKey
  BY <1>1, <1>2
<1> QED BY <1>1, <1>2, <1>3, KeptLemma

\* The loop of timerUpdate takes all the keys that are due out of the set, and
\* raises them.
LEMMA UpdateMaps ==
  ASSUME Inv, Update
  PROVE  LET Due == {k \in Keyed(tl) : Timers(tl)[k] <= 0}
         IN  /\ Timers(tl') = Others(tl, Due)
             /\ raised' = raised \cup Due
<1> DEFINE Due == {k \in Keyed(tl) : Timers(tl)[k] <= 0}
<1>1. /\ Sound(tl) /\ tl' = Swept(tl).list /\ raised' = raised \cup Swept(tl).set
  BY DEF Inv, Update
<1>2. /\ Sound(tl')
      /\ Swept(tl).set = {tl.key[c] : c \in {e \in Cells : DueCell(tl, e)}}
      /\ \A c \in Cells : IF DueCell(tl, c) THEN tl'.key[c] = NoKey
                          ELSE tl'.key[c] = tl.key[c] /\ tl'.left[c] = tl.left[c]
  BY <1>1, SweptLemma
<1>3. \A c \in Cells : tl.key[c] # NoKey => /\ tl.key[c] \in Keyed(tl)
                                            /\ Timers(tl)[tl.key[c]] = tl.left[c]
  BY <1>1, HolderLemma
<1>4. \A k \in Keyed(tl) : \E c \in Cells : tl.key[c] = k /\ k # NoKey
  BY <1>1, HolderLemma
<1>5. \A c \in Cells : tl.key[c] # NoKey => (tl.key[c] \in Due <=> DueCell(tl, c))
  BY <1>3 DEF DueCell
<1>6. Swept(tl).set = Due
  <2>1. \A k \in Swept(tl).set : k \in Due
    BY <1>2, <1>5 DEF DueCell
  <2>2. ASSUME NEW k \in Due
        PROVE  k \in Swept(tl).set
    <3>1. PICK c \in Cells : tl.key[c] = k /\ k # NoKey
      BY <1>4
    <3>2. DueCell(tl, c)
      BY <1>5, <3>1
    <3> QED BY <1>2, <3>1, <3>2
  <2> QED BY <2>1, <2>2
<1> HIDE DEF Due
<1>7. /\ \A c \in Cells : tl.key[c] # NoKey =>
           IF tl.key[c] \in Due THEN tl'.key[c] = NoKey
           ELSE tl'.key[c] = tl.key[c] /\ tl'.left[c] = tl.left[c]
      /\ \A c \in Cells : tl.key[c] = NoKey => tl'.key[c] = NoKey
  <2>1. \A c \in Cells : tl.key[c] = NoKey => ~DueCell(tl, c)
    BY DEF DueCell
  <2> QED BY <1>2, <1>5, <2>1
<1>8. Timers(tl') = Others(tl, Due)
  BY <1>1, <1>2, <1>7, KeptLemma
<1> QED BY <1>1, <1>6, <1>8 DEF Due

\* The clock moves for all timers of the set.
LEMMA ShiftMaps ==
  ASSUME Inv, NEW s \in Int, tl' = Shifted(s)
  PROVE  Timers(tl') = [j \in Keyed(tl) |-> Timers(tl)[j] + s]
<1> DEFINE t == [j \in Keyed(tl) |-> Timers(tl)[j] + s]
<1>1. /\ Sound(tl) /\ Sound(tl') /\ tl'.key = tl.key
      /\ \A c \in Cells : tl.key[c] # NoKey => tl'.left[c] = tl.left[c] + s
  BY ShiftLemma DEF Inv
<1>2. t = [j \in Keyed(tl) |-> t[j]]
  OBVIOUS
<1>3. ASSUME NEW k \in Keyed(tl)
      PROVE  \E c \in Cells : tl'.key[c] = k /\ k # NoKey /\ tl'.left[c] = t[k]
  <2>1. PICK c \in Cells : tl.key[c] = k /\ k # NoKey
    BY <1>1, HolderLemma
  <2>2. Timers(tl)[k] = tl.left[c]
    BY <1>1, <2>1, HolderLemma
  <2> QED BY <1>1, <2>1, <2>2
<1>4. \A c \in Cells : tl'.key[c] # NoKey => tl'.key[c] \in Keyed(tl)
  BY <1>1, HolderLemma
<1> HIDE DEF t
<1>5. Timers(tl') = t
  BY <1>1, <1>2, <1>3, <1>4, StandsFor
<1> QED BY <1>5 DEF t

\* The list implements the set of timers, step by step: every operation is one
\* of the set.
THEOREM TimerRefinement == Spec => Abstract!Init /\ [][Abstract!Next]_(Abstract!vars)
<1> DEFINE left == [k \in Used |-> tl.left[CellOf(k)]]
<1>1. Init => Abstract!Init
  <2> SUFFICES ASSUME Init
               PROVE  Abstract!Init
    OBVIOUS
  <2>1. Used = {}
    BY DEF Init, Used
  <2>2. left = [k \in {} |-> 0]
    BY <2>1
  <2> QED BY <2>2 DEF Init, Abstract!Init
<1>2. ASSUME Inv, [Next]_vars
      PROVE  [Abstract!Next]_(Abstract!vars)
  <2> DEFINE m == Timers(tl)
             n == Timers(tl')
  <2>1. left = m /\ left' = n /\ Used = Keyed(tl)
    BY SetOfList
  <2>2. DOMAIN m = Keyed(tl) /\ \A k \in Keyed(tl) : k \in Keys
    BY <1>2, HolderLemma DEF Timers, Inv
  <2>3. \A G : Others(tl, G) = [j \in Keyed(tl) \ G |-> m[j]]
    BY DEF Others
  <2> HIDE DEF left, m, n
  <2>4. ASSUME NEW k \in Keys, NEW d \in Durations, Start(k, d)
        PROVE  Abstract!Next
    <3>1. n = [j \in Keyed(tl) \cup {k} |-> IF j = k THEN d ELSE m[j]]
      BY <1>2, <2>4, StartMaps DEF m, n
    <3>2. Abstract!Start(k, d)
      BY <2>1, <2>2, <2>4, <3>1 DEF Start, Abstract!Start, Abstract!Pending, left
    <3> QED BY <3>2 DEF Abstract!Next
  <2>5. ASSUME NEW k \in Keys, Clear(k)
        PROVE  Abstract!Next
    <3>1. n = [j \in Keyed(tl) \ {k} |-> m[j]]
      BY <1>2, <2>3, <2>5, ClearMaps DEF n
    <3>2. Abstract!Clear(k)
      BY <2>1, <2>2, <2>5, <3>1 DEF Clear, Abstract!Clear, Abstract!Kept, Abstract!Pending, left
    <3> QED BY <3>2 DEF Abstract!Next
  <2>6. CASE Update
    <3> DEFINE Due == {k \in Keyed(tl) : m[k] <= 0}
    <3>1. n = [j \in Keyed(tl) \ Due |-> m[j]] /\ raised' = raised \cup Due /\ backs' = backs
      BY <1>2, <2>3, <2>6, UpdateMaps DEF m, n, Update
    <3>2. Abstract!Expire
      BY <2>1, <2>2, <3>1 DEF Abstract!Expire, Abstract!Kept, Abstract!Due, Abstract!Pending, left
    <3> QED BY <3>2 DEF Abstract!Next
  <2>7. ASSUME NEW ks \in SUBSET raised, Take(ks)
        PROVE  Abstract!Next
    <3>1. ks \in SUBSET Keys
      BY <1>2 DEF Inv
    <3>2. left' = left
      BY <2>1, <2>7 DEF Take, m, n
    <3>3. Abstract!Take(ks)
      BY <2>7, <3>2 DEF Take, Abstract!Take, left
    <3> QED BY <3>1, <3>3 DEF Abstract!Next
  <2>8. CASE Tick
    <3>1. n = [j \in Keyed(tl) |-> m[j] + (-1)]
      BY <1>2, <2>8, ShiftMaps DEF Tick, m, n
    <3>2. \A k \in Keyed(tl) : m[k] > -MaxLate
      BY <1>2, <2>8, HolderLemma DEF Tick, Inv, m
    <3>3. Abstract!Tick
      BY <2>1, <2>2, <2>8, <3>1, <3>2 DEF Tick, Abstract!Tick, Abstract!Shifted, Abstract!Pending, left
    <3> QED BY <3>3 DEF Abstract!Next
  <2>9. CASE SetBack
    <3>1. n = [j \in Keyed(tl) |-> m[j] + BackStep]
      BY <1>2, <2>9, CellAssumption, ShiftMaps DEF SetBack, m, n
    <3>2. Abstract!SetBack
      BY <2>1, <2>2, <2>9, <3>1 DEF SetBack, Abstract!SetBack, Abstract!Shifted, Abstract!Pending, left
    <3> QED BY <3>2 DEF Abstract!Next
  <2>10. CASE UNCHANGED vars
    <3>1. left' = left
      BY <2>1, <2>10 DEF vars, m, n
    <3> QED BY <2>10, <3>1 DEF vars, Abstract!vars, left
  <2> QED BY <1>2, <2>4, <2>5, <2>6, <2>7, <2>8, <2>9, <2>10 DEF Next
<1> QED BY <1>1, <1>2, TimerInvariant, PTL DEF Spec
=============================================================================
