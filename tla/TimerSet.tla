------------------------------ MODULE TimerSet ------------------------------
(***************************************************************************)
(* What the timers of the osal promise: a set of pending keys, each with    *)
(* the time left.  A key is pending at most once, a later start replaces an *)
(* earlier one, a key is raised when nothing is left and not before, all    *)
(* keys that are due are raised in one round, and a cleared key is neither  *)
(* pending nor raised.  TimerList implements this.                          *)
(*                                                                          *)
(* Time is what is left of every key.  The clock is gettimeofday(): it may  *)
(* also be set back, Backs times by BackStep.                               *)
(***************************************************************************)
EXTENDS Integers

CONSTANTS Keys,            \* (task, event flag) pairs
          Durations,       \* timeout arguments
          MaxLate,         \* a round comes around before a key is later than this
          BackStep, Backs  \* how far, and how often, the clock is set back

VARIABLES left,            \* pending keys -> time left
          raised,          \* keys whose event flag is set
          backs            \* clock corrections still to come

vars == <<left, raised, backs>>

Pending == DOMAIN left
Due == {k \in Pending : left[k] <= 0}
Kept(ks) == [k \in ks |-> left[k]]
Shifted(s) == [k \in Pending |-> left[k] + s]

Init == /\ left = [k \in {} |-> 0]
        /\ raised = {}
        /\ backs = Backs

Start(k, d) == /\ left' = [j \in Pending \cup {k} |-> IF j = k THEN d ELSE left[j]]
               /\ UNCHANGED <<raised, backs>>

Clear(k) == /\ left' = Kept(Pending \ {k})
            /\ raised' = raised \ {k}
            /\ UNCHANGED backs

Expire == /\ left' = Kept(Pending \ Due)
          /\ raised' = raised \cup Due
          /\ UNCHANGED backs

\* The task's handler takes some of the events that are set.
Take(ks) == /\ raised' = raised \ ks
            /\ UNCHANGED <<left, backs>>

Tick == /\ \A k \in Pending : left[k] > -MaxLate
        /\ left' = Shifted(-1)
        /\ UNCHANGED <<raised, backs>>

SetBack == /\ backs > 0
           /\ left' = Shifted(BackStep)
           /\ backs' = backs - 1
           /\ UNCHANGED raised

Next == \/ \E k \in Keys, d \in Durations : Start(k, d)
        \/ \E k \in Keys : Clear(k)
        \/ Expire
        \/ \E ks \in SUBSET Keys : Take(ks)
        \/ Tick
        \/ SetBack

Spec == Init /\ [][Next]_vars /\ WF_vars(Expire) /\ WF_vars(Tick)
=============================================================================
