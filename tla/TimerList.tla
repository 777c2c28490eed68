----------------------------- MODULE TimerList ------------------------------
(***************************************************************************)
(* The timer list of the osal (decoder/osal/timers.c): a doubly linked list *)
(* of pending timers and a free list of used ones, called by the threads of *)
(* the program under osalEnv->lock (osal.c), so that a call is one step.    *)
(*                                                                          *)
(* A cell of the heap is a number, 0 is NULL.  For a cell, timeout is kept  *)
(* as what is left of it, currentTime being read again by every call that   *)
(* uses it.  The flags of a task are the set of its raised keys; that       *)
(* osalRunSystem copies and stores them without the lock is in Decoder,     *)
(* here the handler's taking is one step.                                   *)
(***************************************************************************)
EXTENDS Integers, Sequences, FiniteSets

CONSTANTS Keys, Durations, MaxLate, BackStep, Backs,   \* as in TimerSet
          MaxCells         \* timer cells the heap can give


VARIABLES tl,              \* the timerList_st and the cells it reaches
          raised,          \* keys whose event flag is set in their task
          backs            \* clock corrections still to come

vars == <<tl, raised, backs>>

Null == 0
NoKey == "none"            \* eventFlag is 0: the cell is not in use
Cells == 1 .. MaxCells
Links == Cells \cup {Null}

\* The keys are the pairs of a task and one bit of its event flags.
ASSUME CellAssumption == /\ IsFiniteSet(Keys) /\ NoKey \notin Keys
                         /\ Durations \subseteq Nat /\ MaxCells \in Nat
                         /\ MaxLate \in Nat /\ BackStep \in Nat /\ Backs \in Nat

Init == /\ tl = [head |-> Null, tail |-> Null, cache |-> Null,
                 active |-> 0, cached |-> 0, made |-> 0,
                 next |-> [c \in Cells |-> Null], prev |-> [c \in Cells |-> Null],
                 key |-> [c \in Cells |-> NoKey], left |-> [c \in Cells |-> 0]]
        /\ raised = {}
        /\ backs = Backs

\* One link further.
Follow(l, c) == IF c = Null THEN Null ELSE l.next[c]

\* The cells from cell c on, in the order the links give.
From(l, c) ==
  LET at[n \in 0 .. MaxCells] == IF n = 0 THEN c ELSE Follow(l, at[n - 1])
  IN  [i \in 1 .. Cardinality({n \in 0 .. MaxCells : at[n] # Null}) |-> at[i - 1]]

Active(l) == From(l, l.head)
Cached(l) == From(l, l.cache)

\* An existing timer is not looked for.
FindNone(l, k) == Null

\* findTimer: the first cell with the key.
FindTimer(l, k) ==
  LET a == Active(l)
      found == {i \in DOMAIN a : l.key[a[i]] = k}
  IN  IF found = {} THEN Null ELSE a[CHOOSE i \in found : \A j \in found : i <= j]

-----------------------------------------------------------------------------
\* The cell for a new timer: the first of the free list, or a new one.
Reused(l) == [l EXCEPT !.cache = l.next[l.cache], !.cached = @ - 1]
Fresh(l) == IF l.cache # Null THEN l.cache ELSE l.made + 1
CellTaken(l) == IF l.cache # Null THEN Reused(l) ELSE [l EXCEPT !.made = @ + 1]

\* The new timer is filled in and linked behind the tail.
Linked(l, c, k, d) ==
  [l EXCEPT !.active = @ + 1,
            !.key[c] = k, !.left[c] = d,
            !.prev[c] = l.tail,
            !.next = [n \in Cells |-> IF n = c THEN Null
                                      ELSE IF n = l.tail THEN c ELSE @[n]],
            !.head = IF @ = Null THEN c ELSE @,
            !.tail = c]

\* The counter of the list is forgotten.
AddUncounted(l, k, d) ==
  LET old == FindTimer(l, k)
  IN  IF old # Null THEN [l EXCEPT !.left[old] = d]
      ELSE [Linked(CellTaken(l), Fresh(l), k, d) EXCEPT !.active = l.active]

\* addTimer: a timer with the key is prolonged, or a new one is linked.
AddTimer(l, k, d) ==
  LET old == FindTimer(l, k)
  IN  IF old # Null THEN [l EXCEPT !.left[old] = d]
      ELSE Linked(CellTaken(l), Fresh(l), k, d)

\* The tail is not moved when the last timer goes.
UnlinkedKeepsTail(l, c) ==
  LET p == l.prev[c]
      n == l.next[c]
  IN  [l EXCEPT !.head = IF p = Null THEN n ELSE @,
                !.next = [x \in Cells |-> IF x = p THEN n ELSE @[x]],
                !.prev = [x \in Cells |-> IF x = n THEN p ELSE @[x]]]

\* Take cell c out of the list, at the head, at the tail or between.
Unlinked(l, c) ==
  LET p == l.prev[c]
      n == l.next[c]
  IN  [l EXCEPT !.head = IF p = Null THEN n ELSE @,
                !.tail = IF n = Null THEN p ELSE @,
                !.next = [x \in Cells |-> IF x = p THEN n ELSE @[x]],
                !.prev = [x \in Cells |-> IF x = n THEN p ELSE @[x]]]

\* Put it on the free list; nothing reads what is left of a cell there.
Released(l, c) ==
  [Unlinked(l, c) EXCEPT !.key[c] = NoKey, !.left[c] = 0,
                         !.next[c] = l.cache, !.prev[c] = Null,
                         !.cache = c, !.cached = @ + 1, !.active = @ - 1]

StopTimer(l, k) ==
  LET c == FindTimer(l, k) IN IF c = Null THEN l ELSE Released(l, c)

DueCell(l, c) == l.left[c] <= 0 /\ l.key[c] # NoKey

Lists == [head : Links, tail : Links, cache : Links,
          active : 0 .. MaxCells, cached : 0 .. MaxCells, made : 0 .. MaxCells,
          next : [Cells -> Links], prev : [Cells -> Links],
          key : [Cells -> Keys \cup {NoKey}], left : [Cells -> Int]]
Sweeps == [list : Lists, at : Links, set : SUBSET Keys]

\* What a due cell leaves: its flag is set and the cell is on the free list.
Fired(s) == [list |-> Released(s.list, s.at), at |-> s.list.next[s.at],
             set |-> s.set \cup {s.list.key[s.at]}]

\* The loop ends at the first timer that is not due, as in a sorted list.
SweepSorted(s) ==
  IF s.at = Null THEN s
  ELSE IF DueCell(s.list, s.at) THEN Fired(s) ELSE [s EXCEPT !.at = Null]

\* The loop follows the link of a cell that is already on the free list.
SweepFreed(s) ==
  IF s.at = Null THEN s
  ELSE IF DueCell(s.list, s.at) THEN [Fired(s) EXCEPT !.at = Fired(s).list.next[s.at]]
  ELSE [s EXCEPT !.at = s.list.next[s.at]]

\* One turn of the loop of timerUpdate, at cell s.at: the link to the next cell
\* is read before the links of this one change.
Sweep(s) ==
  IF s.at = Null THEN s
  ELSE IF DueCell(s.list, s.at) THEN Fired(s)
  ELSE [s EXCEPT !.at = s.list.next[s.at]]

\* The loop, from the head on; applying a function, TLC evaluates a turn once.
Swept(l) ==
  LET turn[n \in 0 .. MaxCells] == IF n = 0 THEN [list |-> l, at |-> l.head, set |-> {}]
                                   ELSE [s \in Sweeps |-> Sweep(s)][turn[n - 1]]
  IN  turn[MaxCells]

-----------------------------------------------------------------------------
\* osalStartTimerEx, for a task that exists.  For another it would return with
\* the mutex held (osal.c:54); every caller names its own task or that of
\* dec_reset_handler, which main() has added before the first package.
Start(k, d) ==
  /\ Fresh(tl) \in Cells \/ FindTimer(tl, k) # Null
  /\ tl' = AddTimer(tl, k, d)
  /\ UNCHANGED <<raised, backs>>

\* osalClearTaskEvent: the flag and the timer.
Clear(k) == /\ raised' = raised \ {k}
            /\ tl' = StopTimer(tl, k)
            /\ UNCHANGED backs

\* osalTicksUpdate
Update == LET s == Swept(tl)
          IN  /\ tl' = s.list
              /\ raised' = raised \cup s.set
              /\ UNCHANGED backs

\* osalRunSystem: a task with a flag set is run and takes what it handles, here
\* in one step; Decoder has the copy of the flags and its write-back apart.
Take(ks) == /\ ks # {} /\ ks \subseteq raised
            /\ raised' = raised \ ks
            /\ UNCHANGED <<tl, backs>>

Shifted(s) == [tl EXCEPT !.left = [c \in Cells |-> IF tl.key[c] = NoKey THEN 0
                                                   ELSE tl.left[c] + s]]

Tick == /\ \A c \in Cells : tl.key[c] # NoKey => tl.left[c] > -MaxLate
        /\ tl' = Shifted(-1)
        /\ UNCHANGED <<raised, backs>>

SetBack == /\ backs > 0
           /\ tl' = Shifted(BackStep)
           /\ backs' = backs - 1
           /\ UNCHANGED raised

Next == \/ \E k \in Keys, d \in Durations : Start(k, d)
        \/ \E k \in Keys : Clear(k)
        \/ Update
        \/ \E ks \in SUBSET raised : Take(ks)
        \/ Tick
        \/ SetBack

\* The osal thread calls osalRunSystem again and again, and the clock goes on.
Spec == Init /\ [][Next]_vars /\ WF_vars(Update) /\ WF_vars(Tick)

-----------------------------------------------------------------------------
TypeOK ==
  /\ tl \in Lists
  /\ raised \subseteq Keys
  /\ backs \in 0 .. Backs

\* timers.c mends four links in every branch of two functions.  After any
\* history the list reads the same forwards and backwards, the two counters
\* are the lengths of the two lists, and every cell that was ever allocated is
\* in exactly one of them.
ListsWhole ==
  LET a == Active(tl)
      f == Cached(tl)
  IN  /\ Len(a) = tl.active /\ Len(f) = tl.cached
      /\ tl.active + tl.cached = tl.made
      /\ {a[i] : i \in DOMAIN a} \cup {f[i] : i \in DOMAIN f} = 1 .. tl.made
      /\ \A i \in DOMAIN a : tl.prev[a[i]] = IF i = 1 THEN Null ELSE a[i - 1]
      /\ tl.tail = IF a = <<>> THEN Null ELSE a[Len(a)]

\* However often timers are started, cleared and fired, no key has two cells
\* and the heap gives no more cells than there are keys.
CellsBounded ==
  /\ \A c, e \in Cells : tl.key[c] = tl.key[e] /\ tl.key[c] # NoKey => c = e
  /\ tl.made <= Cardinality(Keys)

\* The list implements the set of timers: what is left of a pending key is
\* what is left of its cell.
CellOf(k) == CHOOSE c \in Cells : tl.key[c] = k
Used == {tl.key[c] : c \in Cells} \ {NoKey}
Abstract == INSTANCE TimerSet WITH left <- [k \in Used |-> tl.left[CellOf(k)]],
                                   raised <- raised, backs <- backs
TimerSpec == Abstract!Spec

\* timers.c:179: a key stays pending forever only if its time is prolonged again
\* and again; neither other timers in front of it nor a clock that is set back
\* keep it from firing.
Prolonged(k) == \E c \in Cells : /\ tl.key[c] = k /\ tl'.key[c] = k
                                 /\ tl'.left[c] > tl.left[c]
Fires == \A k \in Keys : []<>(k \notin Used) \/ []<><<Prolonged(k)>>_vars
=============================================================================
