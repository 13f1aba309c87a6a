------------------------------ MODULE AbsSched ------------------------------
(***************************************************************************)
(* What the scheduler promises, without queues, semaphores or preemption   *)
(* points: one CPU, shared by tasks that are created, block, are woken,    *)
(* exit and are reaped.                                                    *)
(***************************************************************************)
EXTENDS Naturals

CONSTANTS Task, Idle, InitTask

VARIABLES current, state

avars == <<current, state>>

\* The tasks other than idle that could use the CPU.
Runnable(st) == {t \in Task \ {Idle} : st[t] \in {"READY", "RUNNING"}}

\* Some runnable task gets the CPU, or idle when there is none.
Dispatch(st) ==
  \E next \in Task :
    /\ IF Runnable(st) = {} THEN next = Idle ELSE next \in Runnable(st)
    /\ current' = next
    /\ state' = [t \in Task |->
                   IF t = next THEN "RUNNING"
                   ELSE IF st[t] = "RUNNING" THEN "READY" ELSE st[t]]

Init ==
  /\ current = Idle
  /\ state = [t \in Task |-> CASE t = Idle -> "RUNNING"
                               [] t = InitTask -> "READY"
                               [] OTHER -> "FREE"]

Create(t) ==
  /\ state[t] = "FREE"
  /\ state' = [state EXCEPT ![t] = "READY"]
  /\ UNCHANGED current

Wake(t) ==
  /\ state[t] = "SLEEPING"
  /\ state' = [state EXCEPT ![t] = "READY"]
  /\ UNCHANGED current

\* Give the CPU away at an interrupt that wakes some sleepers, or after exit.
Switch ==
  \E S \in SUBSET {t \in Task : state[t] = "SLEEPING"} :
    Dispatch([t \in Task |-> IF t \in S THEN "READY" ELSE state[t]])

\* The current task, which is not idle, blocks.
Block ==
  /\ current # Idle
  /\ state[current] = "RUNNING"
  /\ Dispatch([state EXCEPT ![current] = "SLEEPING"])

Exit ==
  /\ current # Idle
  /\ state[current] = "RUNNING"
  /\ state' = [state EXCEPT ![current] = "ZOMBIE"]
  /\ UNCHANGED current

Reap(t) ==
  /\ state[t] = "ZOMBIE"
  /\ t # current
  /\ state' = [state EXCEPT ![t] = "FREE"]
  /\ UNCHANGED current

Next ==
  \/ \E t \in Task : Create(t) \/ Wake(t) \/ Reap(t)
  \/ Switch
  \/ Block
  \/ Exit

Spec == Init /\ [][Next]_avars
=============================================================================
