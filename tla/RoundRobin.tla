----------------------------- MODULE RoundRobin -----------------------------
(***************************************************************************)
(* What a round-robin scheduler promises its threads: time passes in       *)
(* rounds, and in a round every thread has one turn.  In which order the   *)
(* turns come, how a context is kept and when a thread is admitted is left *)
(* open.  Module Scheduler implements this.                                *)
(***************************************************************************)
EXTENDS Naturals

CONSTANTS Threads,     \* every thread that may ever be admitted
          none         \* no thread: the machine is still booting

VARIABLES members,     \* the threads admitted so far
          running,     \* the thread whose turn it is
          served       \* those that had their turn in this round

vars == <<members, running, served>>

Init ==
    /\ members \in SUBSET Threads
    /\ running = none
    /\ served = {}

Join(t) ==
    /\ t \notin members
    /\ members' = members \cup {t}
    /\ UNCHANGED <<running, served>>

\* The next turn of this round.
Turn(t) ==
    /\ t \in members \ served
    /\ running' = t
    /\ served' = served \cup {t}
    /\ UNCHANGED members

\* The first turn of a new round, once nobody is left in the old one.
NewRound(t) ==
    /\ members \subseteq served
    /\ t \in members
    /\ running' = t
    /\ served' = {t}
    /\ UNCHANGED members

Switch == \E t \in Threads : Turn(t) \/ NewRound(t)

Next == (\E t \in Threads : Join(t)) \/ Switch

Spec == Init /\ [][Next]_vars

============================================================================
