------------------------- MODULE SchedSwitchProofs --------------------------
(***************************************************************************)
(* sched() and what its callers do around it: sleep_on, wake_one, the      *)
(* interrupts, page allocation, fork and exit keep the invariant of Sched. *)
(***************************************************************************)
EXTENDS Sched, QueueLemmas, TLAPS

\* list_del takes one entry off a queue and leaves a queue.
LEMMA ListDel ==
  ASSUME NEW S, NEW s \in Seq(S), NEW e \in Range(s), IsInjective(s)
  PROVE  /\ list_del(s, e) \in Seq(S)
         /\ IsInjective(list_del(s, e))
         /\ Range(list_del(s, e)) = Range(s) \ {e}
<1> DEFINE k == CHOOSE i \in DOMAIN s : s[i] = e
<1>1. k \in DOMAIN s /\ s[k] = e
  BY DEF Range
<1>2. list_del(s, e) = SubSeq(s, 1, k - 1) \o SubSeq(s, k + 1, Len(s))
  BY DEF list_del
<1> HIDE DEF k
<1> QED
  BY <1>1, <1>2, RemoveQueue

-----------------------------------------------------------------------------
(***************************************************************************)
(* sched() called with run queue rq, states st and control points pcs.     *)
(***************************************************************************)

\* What every caller of sched() has established.
SchedPre(rq, st, pcs) ==
  /\ current \in Task
  /\ rq \in Seq(Task)
  /\ st \in [Task -> States]
  /\ pcs \in [Task -> PCs]
  /\ IsInjective(rq)
  /\ Range(rq) = {t \in Task \ {Idle} : st[t] \in {"READY", "RUNNING"}}
  /\ \A t \in Task : st[t] = "RUNNING" => t = current
  /\ st[Idle] \in {"RUNNING", "READY"}
  /\ st[current] \in {"RUNNING", "SLEEPING", "ZOMBIE"}
  /\ \A t \in Task : pcs[t] = "new" => st[t] = "READY"

\* What it leaves behind: the same tasks on the run queue, the one it chose first
\* and RUNNING, and no other change of a state than between READY and RUNNING.
SchedPost(rq, st, pcs) ==
  /\ current' \in Task
  /\ runq' \in Seq(Task)
  /\ state' \in [Task -> States]
  /\ pc' \in [Task -> PCs]
  /\ insched' \in BOOLEAN
  /\ panicked' = FALSE
  /\ IsInjective(runq')
  /\ Range(runq') = {t \in Task \ {Idle} : state'[t] \in {"READY", "RUNNING"}}
  /\ \A t \in Task : \/ state'[t] = st[t]
                     \/ st[t] \in {"READY", "RUNNING"} /\ state'[t] \in {"READY", "RUNNING"}
  /\ \A t \in Task : state'[t] = "RUNNING" => t = current'
  /\ state'[current'] = "RUNNING"
  /\ current' # Idle => runq' # <<>> /\ Head(runq') = current'
  /\ \A t \in Task : pc'[t] = pcs[t] \/ (pcs[t] = "new" /\ pc'[t] = "run")
  /\ \A t \in Task : pc'[t] = "new" => state'[t] = "READY"

\* get_next_task keeps every task on the run queue and puts the one it returns
\* first; it returns idle only when there is nobody else.
LEMMA GetNextTask ==
  ASSUME NEW rq \in Seq(Task), IsInjective(rq), current \in Task, Idle \in Task
  PROVE  /\ Rotated(rq) \in Seq(Task)
         /\ IsInjective(Rotated(rq))
         /\ Range(Rotated(rq)) = Range(rq)
         /\ get_next_task(rq) \in Task
         /\ IF rq = <<>> THEN get_next_task(rq) = Idle
            ELSE /\ Rotated(rq) # <<>>
                 /\ get_next_task(rq) = Head(Rotated(rq))
                 /\ get_next_task(rq) \in Range(rq)
<1>1. CASE rq # <<>> /\ Head(rq) = current
  <2> DEFINE tl == Tail(rq)
  <2>1. Rotated(rq) = Append(tl, current)
    BY <1>1 DEF Rotated
  <2>2. /\ tl \in Seq(Task)
        /\ IsInjective(tl)
        /\ Range(tl) = Range(rq) \ {current}
        /\ current \in Range(rq)
    BY <1>1, TailQueue
  <2> HIDE DEF tl
  <2>3. /\ Rotated(rq) \in Seq(Task)
        /\ Rotated(rq) # <<>>
        /\ IsInjective(Rotated(rq))
        /\ Range(Rotated(rq)) = Range(rq)
    <3>1. current \notin Range(tl)
      BY <2>2
    <3>2. Range(Append(tl, current)) = Range(tl) \cup {current}
      BY <2>2, AppendQueue
    <3> QED
      BY <2>1, <2>2, <3>1, <3>2, AppendQueue
  <2>4. Head(Rotated(rq)) \in Task /\ Head(Rotated(rq)) \in Range(Rotated(rq))
    BY <2>3, TailQueue
  <2> QED
    BY <1>1, <2>3, <2>4 DEF get_next_task
<1>2. CASE rq # <<>> /\ Head(rq) # current
  BY <1>2, TailQueue DEF Rotated, get_next_task
<1>3. CASE rq = <<>>
  BY <1>3 DEF Rotated, get_next_task
<1> QED
  BY <1>1, <1>2, <1>3

\* sched() leaves the queues and the states in agreement.
LEMMA SchedLemma ==
  ASSUME NEW STATE rq, NEW STATE st, NEW STATE pcs, SchedPre(rq, st, pcs), sched(rq, st, pcs),
         Idle \in Task
  PROVE  SchedPost(rq, st, pcs)
<1> USE DEF SchedPre
<1> DEFINE next == get_next_task(rq)
<1>1. /\ runq' = Rotated(rq)
      /\ current' = next
      /\ state' = IF next = current THEN st
                  ELSE [st EXCEPT ![current] = IF @ = "RUNNING" THEN "READY" ELSE @,
                                  ![next] = "RUNNING"]
      /\ insched' = (next # current /\ pcs[next] # "new")
      /\ pc' = [pcs EXCEPT ![next] = IF @ = "new" THEN "run" ELSE @]
      /\ panicked' = (st[next] = "SLEEPING")
  BY DEF sched
<1>2. /\ Rotated(rq) \in Seq(Task)
      /\ IsInjective(Rotated(rq))
      /\ Range(Rotated(rq)) = Range(rq)
      /\ next \in Task
      /\ rq = <<>> => next = Idle
      /\ rq # <<>> => Rotated(rq) # <<>> /\ next = Head(Rotated(rq)) /\ next \in Range(rq)
  BY GetNextTask
<1> HIDE DEF next
<1>3. st[next] \in {"READY", "RUNNING"}
  BY <1>2
<1>4. next = current => st[next] = "RUNNING"
  BY <1>3
<1>5. /\ current' \in Task
      /\ runq' \in Seq(Task)
      /\ IsInjective(runq')
      /\ insched' \in BOOLEAN
      /\ panicked' = FALSE
  BY <1>1, <1>2, <1>3, Zenon
<1>6. /\ pc' \in [Task -> PCs]
      /\ \A t \in Task : pc'[t] = pcs[t] \/ (pcs[t] = "new" /\ pc'[t] = "run")
      /\ pc'[next] # "new"
  <2>1. pcs[next] \in PCs /\ "run" \in PCs
    BY <1>2 DEF PCs
  <2>2. pc' = [pcs EXCEPT ![next] = IF pcs[next] = "new" THEN "run" ELSE pcs[next]]
    BY <1>1
  <2> QED
    BY <1>2, <2>1, <2>2
<1>7. /\ state' \in [Task -> States]
      /\ state'[next] = "RUNNING"
      /\ \A t \in Task \ {next} :
           \/ t # current /\ state'[t] = st[t]
           \/ t = current /\ state'[t] = IF st[t] = "RUNNING" THEN "READY" ELSE st[t]
  BY <1>1, <1>2, <1>4 DEF States
<1>8. \A t \in Task : \/ state'[t] = st[t]
                      \/ st[t] \in {"READY", "RUNNING"} /\ state'[t] \in {"READY", "RUNNING"}
  BY <1>3, <1>7
<1>9. \A t \in Task : state'[t] = "RUNNING" => t = current'
  BY <1>1, <1>7
<1>10. Range(runq') = {t \in Task \ {Idle} : state'[t] \in {"READY", "RUNNING"}}
  BY <1>1, <1>2, <1>8
<1>11. current' # Idle => runq' # <<>> /\ Head(runq') = current'
  BY <1>1, <1>2
<1>12. ASSUME NEW t \in Task, pc'[t] = "new"
       PROVE  state'[t] = "READY"
  BY <1>6, <1>7, <1>12
<1> QED
  BY <1>1, <1>5, <1>6, <1>7, <1>8, <1>9, <1>10, <1>11, <1>12 DEF SchedPost

-----------------------------------------------------------------------------
(***************************************************************************)
(* The steps that give the CPU away: the invariant holds of the arguments  *)
(* of sched() and of the wait queues wq, but for the current task, which   *)
(* may have been put to sleep.                                             *)
(***************************************************************************)

SwitchPre(rq, st, pcs, wq) ==
  /\ SchedPre(rq, st, pcs)
  /\ wq \in [Queue -> Seq(Task)]
  /\ \A q \in Queue : IsInjective(wq[q])
  /\ Range(delq) = {t \in Task : st[t] = "ZOMBIE"}
  /\ Range(wq["pagesem"]) =
       {t \in Task : st[t] = "SLEEPING" /\ (pcs[t] = "P" \/ iter[t] # <<>>)}
  /\ Range(wq["floppyq"]) =
       {t \in Task : st[t] = "SLEEPING" /\ ~(pcs[t] = "P" \/ iter[t] # <<>>)}
  /\ \A t \in Task : pcs[t] = "alloc" <=> pc[t] = "alloc"
  /\ \A t \in Task : st[t] = "FREE" <=> state[t] = "FREE"
  /\ pcs[Idle] = "run"
  /\ \A t \in Task : pcs[t] = "none" <=> st[t] = "FREE"
  /\ \A t \in Task : pcs[t] = "exit" <=> st[t] = "ZOMBIE"
  /\ \A t \in Task : pcs[t] \in {"new", "none", "exit"} => iter[t] = <<>>
  /\ \A t \in Task : got[t] # NULL => pcs[t] = "got"

\* A step that ends in sched() preserves the invariant.
LEMMA SwitchLemma ==
  ASSUME IInv, NEW STATE rq, NEW STATE st, NEW STATE pcs, NEW STATE wq,
         SwitchPre(rq, st, pcs, wq), sched(rq, st, pcs), waitq' = wq,
         UNCHANGED <<delq, val, free_list, got, iter>>
  PROVE  IInv'
<1>1. SchedPre(rq, st, pcs)
  BY DEF SwitchPre
<1>2. SchedPost(rq, st, pcs)
  BY <1>1, SchedLemma, TaskAssumption
<1>3. Idle \in Task
  BY TaskAssumption
<1>4. /\ pc \in [Task -> PCs]
      /\ pc' \in [Task -> PCs]
      /\ \A t \in Task : pc'[t] = pcs[t] \/ (pcs[t] = "new" /\ pc'[t] = "run")
  BY <1>2 DEF SchedPost, IInv, TypeOK
<1>5. \A t \in Task : /\ pc'[t] = "P" <=> pcs[t] = "P"
                      /\ pc'[t] = "alloc" <=> pcs[t] = "alloc"
                      /\ pc'[t] = "none" <=> pcs[t] = "none"
                      /\ pc'[t] = "exit" <=> pcs[t] = "exit"
                      /\ pcs[t] = "got" => pc'[t] = "got"
                      /\ pc'[t] = "new" => pcs[t] = "new"
  BY <1>4
<1>6. \A t \in Task : /\ state'[t] = "SLEEPING" <=> st[t] = "SLEEPING"
                      /\ state'[t] = "ZOMBIE" <=> st[t] = "ZOMBIE"
                      /\ state'[t] = "FREE" <=> st[t] = "FREE"
  BY <1>2 DEF SchedPost
<1>7. TypeOK'
  BY <1>2, Zenon DEF IInv, TypeOK, SchedPost, SwitchPre
<1>8. QueuesMatchStates'
  <2>1. /\ IsInjective(runq')
        /\ IsInjective(delq')
        /\ \A q \in Queue : IsInjective(waitq'[q])
        /\ Range(runq') = {t \in Task \ {Idle} : state'[t] \in {"READY", "RUNNING"}}
    BY <1>2 DEF SchedPost, SwitchPre, IInv, QueuesMatchStates
  <2>2. Range(delq') = {t \in Task : state'[t] = "ZOMBIE"}
    BY <1>6 DEF SwitchPre
  <2>3. \A t \in Task : InSemP(t)' <=> pcs[t] = "P" \/ iter[t] # <<>>
    BY <1>5 DEF InSemP
  <2>4. Range(waitq'["pagesem"]) = {t \in Task : state'[t] = "SLEEPING" /\ InSemP(t)'}
    BY <1>6, <2>3 DEF SwitchPre
  <2>5. Range(waitq'["floppyq"]) = {t \in Task : state'[t] = "SLEEPING" /\ ~InSemP(t)'}
    BY <1>6, <2>3 DEF SwitchPre
  <2> QED
    BY <2>1, <2>2, <2>4, <2>5 DEF QueuesMatchStates
<1>9. \A t \in Task : pc'[t] = "exit" <=> state'[t] = "ZOMBIE"
  BY <1>5, <1>6 DEF SwitchPre
<1>10. CurrentIsHead'
  BY <1>2, <1>9 DEF CurrentIsHead, SchedPost
<1>11. PagesemExcludes'
  <2>1. \A t \in Task : pc'[t] = "alloc" <=> pc[t] = "alloc"
    BY <1>5 DEF SwitchPre
  <2> QED
    BY <2>1 DEF PagesemExcludes, IInv
<1>12. PagesConserved'
  <2>1. {p \in Task : state'[p] = "FREE"} = {p \in Task : state[p] = "FREE"}
    BY <1>6 DEF SwitchPre
  <2> QED
    BY <2>1 DEF PagesConserved, IInv, InHand, BeingFreed
<1>13. ControlInv'
  <2>1. state'[Idle] \in {"RUNNING", "READY"}
    BY <1>2, <1>3 DEF SchedPost, SchedPre, SwitchPre
  <2>2. pc'[Idle] = "run"
    BY <1>3, <1>4 DEF SwitchPre
  <2>3. \A t \in Task : pc'[t] = "none" <=> state'[t] = "FREE"
    BY <1>5, <1>6 DEF SwitchPre
  <2>4. \A t \in Task : pc'[t] = "new" => state'[t] = "READY"
    BY <1>2 DEF SchedPost
  <2>5. \A t \in Task : pc'[t] \in {"new", "none", "exit"} => iter'[t] = <<>>
    BY <1>5 DEF SwitchPre
  <2>6. \A t \in Task : got'[t] # NULL => pc'[t] = "got"
    BY <1>5 DEF SwitchPre
  <2>7. state'[current'] = "RUNNING"
    BY <1>2 DEF SchedPost
  <2> QED
    BY <1>9, <2>1, <2>2, <2>3, <2>4, <2>5, <2>6, <2>7 DEF ControlInv
<1> QED
  BY <1>7, <1>8, <1>10, <1>11, <1>12, <1>13 DEF IInv

\* An interrupt that wakes nobody, and the call of sched() that ends do_exit.
LEMMA PlainSwitch ==
  ASSUME IInv, sched(runq, state, pc),
         UNCHANGED <<delq, waitq, val, free_list, got, iter>>
  PROVE  IInv'
<1>1. SchedPre(runq, state, pc)
  BY DEF SchedPre, IInv, TypeOK, QueuesMatchStates, CurrentIsHead, ControlInv
<1>2. SwitchPre(runq, state, pc, waitq)
  BY <1>1 DEF SwitchPre, IInv, TypeOK, QueuesMatchStates, ControlInv, InSemP
<1> QED
  BY <1>2, SwitchLemma

\* The states and queues floppy_isr leaves to sched(): every sleeper of floppyq
\* is woken.
LEMMA FloppyIrqPre ==
  ASSUME IInv
  PROVE  SwitchPre(runq \o waitq["floppyq"],
                   [t \in Task |-> IF t \in Range(waitq["floppyq"]) THEN "READY"
                                   ELSE state[t]],
                   pc,
                   [waitq EXCEPT !["floppyq"] = <<>>])
<1> DEFINE q == waitq["floppyq"]
           st == [t \in Task |-> IF t \in Range(q) THEN "READY" ELSE state[t]]
           wq == [waitq EXCEPT !["floppyq"] = <<>>]
<1>2. /\ waitq \in [Queue -> Seq(Task)]
      /\ q \in Seq(Task)
      /\ IsInjective(q)
      /\ Range(q) = {t \in Task : state[t] = "SLEEPING" /\ ~InSemP(t)}
  BY DEF IInv, TypeOK, QueuesMatchStates, Queue
<1>3. /\ runq \in Seq(Task)
      /\ IsInjective(runq)
      /\ Range(runq) = {t \in Task \ {Idle} : state[t] \in {"READY", "RUNNING"}}
      /\ state \in [Task -> States]
      /\ state[Idle] \in {"RUNNING", "READY"}
  BY DEF IInv, TypeOK, QueuesMatchStates, ControlInv
<1>4. Range(runq) \cap Range(q) = {}
  BY <1>2, <1>3
<1>5. /\ runq \o q \in Seq(Task)
      /\ IsInjective(runq \o q)
      /\ Range(runq \o q) = Range(runq) \cup Range(q)
  BY <1>2, <1>3, <1>4, ConcatQueue
<1>6. /\ st \in [Task -> States]
      /\ \A t \in Task : st[t] = IF t \in Range(q) THEN "READY" ELSE state[t]
  BY <1>3 DEF States
<1>7. /\ wq \in [Queue -> Seq(Task)]
      /\ wq["floppyq"] = <<>>
      /\ wq["pagesem"] = waitq["pagesem"]
      /\ \A n \in Queue : IsInjective(wq[n])
  <2>1. IsInjective(<<>>) /\ <<>> \in Seq(Task)
    BY DEF IsInjective
  <2> QED
    BY <1>2, <2>1 DEF Queue, IInv, QueuesMatchStates
<1> HIDE DEF q, st, wq
<1>8. Range(runq \o q) = {t \in Task \ {Idle} : st[t] \in {"READY", "RUNNING"}}
  BY <1>2, <1>3, <1>5, <1>6
<1>9. SchedPre(runq \o q, st, pc)
  <2>1. current \in Task /\ pc \in [Task -> PCs]
    BY DEF IInv, TypeOK
  <2>2. \A t \in Task : st[t] = "RUNNING" => t = current
    BY <1>6 DEF IInv, CurrentIsHead
  <2>3. st[Idle] \in {"RUNNING", "READY"}
    BY <1>3, <1>6, TaskAssumption
  <2>4. st[current] \in {"RUNNING", "SLEEPING", "ZOMBIE"}
    <3>1. state[current] \in {"RUNNING", "ZOMBIE"}
      BY DEF IInv, CurrentIsHead
    <3>2. current \notin Range(q)
      BY <1>2, <3>1
    <3> QED
      BY <1>6, <2>1, <3>1, <3>2
  <2>5. \A t \in Task : pc[t] = "new" => st[t] = "READY"
    BY <1>6 DEF IInv, ControlInv
  <2> QED
    BY <1>5, <1>6, <1>8, <2>1, <2>2, <2>3, <2>4, <2>5 DEF SchedPre
<1>10. \A t \in Task : /\ st[t] = "ZOMBIE" <=> state[t] = "ZOMBIE"
                       /\ st[t] = "FREE" <=> state[t] = "FREE"
                       /\ st[t] = "SLEEPING" <=> state[t] = "SLEEPING" /\ InSemP(t)
  BY <1>2, <1>6
<1>11. /\ Range(wq["pagesem"]) =
            {t \in Task : st[t] = "SLEEPING" /\ (pc[t] = "P" \/ iter[t] # <<>>)}
       /\ Range(wq["floppyq"]) =
            {t \in Task : st[t] = "SLEEPING" /\ ~(pc[t] = "P" \/ iter[t] # <<>>)}
  <2>1. Range(waitq["pagesem"]) = {t \in Task : state[t] = "SLEEPING" /\ InSemP(t)}
    BY DEF IInv, QueuesMatchStates
  <2>2. Range(<<>>) = {}
    BY DEF Range
  <2> QED
    BY <1>7, <1>10, <2>1, <2>2 DEF InSemP
<1>12. /\ Range(delq) = {t \in Task : st[t] = "ZOMBIE"}
       /\ \A t \in Task : pc[t] = "none" <=> st[t] = "FREE"
       /\ \A t \in Task : pc[t] = "exit" <=> st[t] = "ZOMBIE"
  BY <1>10 DEF IInv, QueuesMatchStates, ControlInv
<1>13. SwitchPre(runq \o q, st, pc, wq)
  BY <1>7, <1>9, <1>10, <1>11, <1>12 DEF SwitchPre, IInv, ControlInv
<1> QED
  BY <1>13 DEF q, st, wq

\* The floppy interrupt.
LEMMA FloppyIrqStep ==
  ASSUME IInv, floppy_irq
  PROVE  IInv'
<1> DEFINE q == waitq["floppyq"]
           rq == runq \o q
           st == [t \in Task |-> IF t \in Range(q) THEN "READY" ELSE state[t]]
           wq == [waitq EXCEPT !["floppyq"] = <<>>]
<1>1. /\ sched(rq, st, pc)
      /\ waitq' = wq
      /\ UNCHANGED <<delq, val, free_list, got, iter>>
  BY DEF floppy_irq, wake_up
<1>2. SwitchPre(rq, st, pc, wq)
  BY FloppyIrqPre
<1> HIDE DEF rq, st, wq
<1> QED
  BY <1>1, <1>2, SwitchLemma

\* The states and queues sleep_on leaves to sched(): a task that is not idle has
\* left the run queue for a wait queue.  It waits on pagesem when it is inside
\* sem_P, on floppyq when it is not.
LEMMA SleepPre ==
  ASSUME IInv, NEW CONSTANT q \in Queue, NEW STATE pcs,
         state[current] = "RUNNING",
         pcs = pc \/ (pcs = [pc EXCEPT ![current] = "P"] /\ pc[current] \in {"run", "P"}),
         current # Idle,
         q = "pagesem" <=> (pcs[current] = "P" \/ iter[current] # <<>>)
  PROVE  SwitchPre(list_del(runq, current), [state EXCEPT ![current] = "SLEEPING"],
                   pcs, [waitq EXCEPT ![q] = Append(@, current)])
<1> DEFINE rq == list_del(runq, current)
           st == [state EXCEPT ![current] = "SLEEPING"]
           wq == [waitq EXCEPT ![q] = Append(@, current)]
<1>2. /\ current \in Task
      /\ runq \in Seq(Task)
      /\ IsInjective(runq)
      /\ Range(runq) = {t \in Task \ {Idle} : state[t] \in {"READY", "RUNNING"}}
      /\ state \in [Task -> States]
      /\ state[Idle] \in {"RUNNING", "READY"}
      /\ waitq \in [Queue -> Seq(Task)]
      /\ pc \in [Task -> PCs]
      /\ \A n \in Queue : IsInjective(waitq[n])
  BY DEF IInv, TypeOK, QueuesMatchStates, ControlInv
<1>3. current \in Range(runq)
  BY <1>2
<1>4. /\ rq \in Seq(Task)
      /\ IsInjective(rq)
      /\ Range(rq) = Range(runq) \ {current}
  BY <1>2, <1>3, ListDel
<1>5. /\ st \in [Task -> States]
      /\ st[current] = "SLEEPING"
      /\ \A t \in Task \ {current} : st[t] = state[t]
  BY <1>2 DEF States
<1>6. /\ pcs \in [Task -> PCs]
      /\ \A t \in Task \ {current} : pcs[t] = pc[t]
      /\ pcs[current] \notin {"new", "none", "exit"}
      /\ pcs[current] = "alloc" <=> pc[current] = "alloc"
      /\ got[current] # NULL => pcs[current] = "got"
  <2>1. pc[current] \notin {"new", "none", "exit"}
    BY <1>2 DEF IInv, ControlInv
  <2>2. got[current] # NULL => pc[current] = "got"
    BY <1>2 DEF IInv, ControlInv
  <2> QED
    BY <1>2, <2>1, <2>2 DEF PCs
<1>7. /\ Append(waitq[q], current) \in Seq(Task)
      /\ IsInjective(Append(waitq[q], current))
      /\ Range(Append(waitq[q], current)) = Range(waitq[q]) \cup {current}
  <2>1. waitq[q] \in Seq(Task) /\ IsInjective(waitq[q])
    BY <1>2
  <2>2. current \notin Range(waitq[q])
    BY DEF IInv, QueuesMatchStates, Queue
  <2> QED
    BY <1>2, <2>1, <2>2, AppendQueue
<1>8. /\ wq \in [Queue -> Seq(Task)]
      /\ wq[q] = Append(waitq[q], current)
      /\ \A n \in Queue \ {q} : wq[n] = waitq[n]
      /\ \A n \in Queue : IsInjective(wq[n])
  BY <1>2, <1>7
<1> HIDE DEF rq, st, wq
<1>9. SchedPre(rq, st, pcs)
  <2>1. Range(rq) = {t \in Task \ {Idle} : st[t] \in {"READY", "RUNNING"}}
    BY <1>2, <1>4, <1>5
  <2>2. \A t \in Task : st[t] = "RUNNING" => t = current
    BY <1>5 DEF IInv, CurrentIsHead
  <2>3. st[Idle] \in {"RUNNING", "READY"}
    BY <1>2, <1>5, TaskAssumption
  <2>4. \A t \in Task : pcs[t] = "new" => st[t] = "READY"
    BY <1>5, <1>6 DEF IInv, ControlInv
  <2> QED
    BY <1>2, <1>4, <1>5, <1>6, <2>1, <2>2, <2>3, <2>4 DEF SchedPre
<1>10. \A t \in Task : /\ st[t] = "ZOMBIE" <=> state[t] = "ZOMBIE"
                       /\ st[t] = "FREE" <=> state[t] = "FREE"
                       /\ st[t] = "SLEEPING" <=> state[t] = "SLEEPING" \/ t = current
  BY <1>5
<1>11. /\ Range(wq["pagesem"]) =
            {t \in Task : st[t] = "SLEEPING" /\ (pcs[t] = "P" \/ iter[t] # <<>>)}
       /\ Range(wq["floppyq"]) =
            {t \in Task : st[t] = "SLEEPING" /\ ~(pcs[t] = "P" \/ iter[t] # <<>>)}
  <2>1. /\ Range(waitq["pagesem"]) =
             {t \in Task : state[t] = "SLEEPING" /\ (pc[t] = "P" \/ iter[t] # <<>>)}
        /\ Range(waitq["floppyq"]) =
             {t \in Task : state[t] = "SLEEPING" /\ ~(pc[t] = "P" \/ iter[t] # <<>>)}
    BY DEF IInv, QueuesMatchStates, InSemP
  <2> DEFINE InP(t) == pcs[t] = "P" \/ iter[t] # <<>>
  <2>2. \A t \in Task \ {current} : InP(t) <=> pc[t] = "P" \/ iter[t] # <<>>
    BY <1>6
  <2>3. InP(current) <=> q = "pagesem"
    OBVIOUS
  <2> HIDE DEF InP
  <2>4. /\ Range(waitq["pagesem"]) =
             {t \in Task \ {current} : state[t] = "SLEEPING" /\ InP(t)}
        /\ Range(waitq["floppyq"]) =
             {t \in Task \ {current} : state[t] = "SLEEPING" /\ ~InP(t)}
    BY <2>1, <2>2
  <2>5. /\ Range(wq["pagesem"]) = {t \in Task : st[t] = "SLEEPING" /\ InP(t)}
        /\ Range(wq["floppyq"]) = {t \in Task : st[t] = "SLEEPING" /\ ~InP(t)}
    <3>1. CASE q = "pagesem"
      <4>1. /\ Range(wq["pagesem"]) = Range(waitq["pagesem"]) \cup {current}
            /\ Range(wq["floppyq"]) = Range(waitq["floppyq"])
        <5>1. wq["pagesem"] = Append(waitq[q], current) /\ wq["floppyq"] = waitq["floppyq"]
          BY <1>8, <3>1 DEF Queue
        <5> QED
          BY <1>7, <3>1, <5>1
      <4> QED
        BY <1>2, <1>10, <2>3, <2>4, <3>1, <4>1
    <3>2. CASE q = "floppyq"
      <4>1. /\ Range(wq["floppyq"]) = Range(waitq["floppyq"]) \cup {current}
            /\ Range(wq["pagesem"]) = Range(waitq["pagesem"])
        <5>1. wq["floppyq"] = Append(waitq[q], current) /\ wq["pagesem"] = waitq["pagesem"]
          BY <1>8, <3>2 DEF Queue
        <5> QED
          BY <1>7, <3>2, <5>1
      <4> QED
        BY <1>2, <1>10, <2>3, <2>4, <3>2, <4>1
    <3> QED
      BY <3>1, <3>2 DEF Queue
  <2> QED
    BY <2>5 DEF InP
<1>12. /\ Range(delq) = {t \in Task : st[t] = "ZOMBIE"}
       /\ pcs[Idle] = "run"
       /\ \A t \in Task : pcs[t] = "none" <=> st[t] = "FREE"
       /\ \A t \in Task : pcs[t] = "exit" <=> st[t] = "ZOMBIE"
       /\ \A t \in Task : pcs[t] \in {"new", "none", "exit"} => iter[t] = <<>>
       /\ \A t \in Task : got[t] # NULL => pcs[t] = "got"
       /\ \A t \in Task : pcs[t] = "alloc" <=> pc[t] = "alloc"
  BY <1>5, <1>6, <1>10, TaskAssumption DEF IInv, QueuesMatchStates, ControlInv
<1>13. SwitchPre(rq, st, pcs, wq)
  BY <1>8, <1>9, <1>10, <1>11, <1>12 DEF SwitchPre
<1> QED
  BY <1>13 DEF rq, st, wq

\* sleep_on by a task that is not idle.
LEMMA SleepStep ==
  ASSUME IInv, NEW CONSTANT q \in Queue, NEW STATE pcs,
         state[current] = "RUNNING",
         pcs = pc \/ (pcs = [pc EXCEPT ![current] = "P"] /\ pc[current] \in {"run", "P"}),
         current # Idle,
         q = "pagesem" <=> (pcs[current] = "P" \/ iter[current] # <<>>),
         sleep_on(q, pcs), UNCHANGED <<delq, val, free_list, got, iter>>
  PROVE  IInv'
<1> DEFINE rq == list_del(runq, current)
           st == [state EXCEPT ![current] = "SLEEPING"]
           wq == [waitq EXCEPT ![q] = Append(@, current)]
<1>1. sched(rq, st, pcs) /\ waitq' = wq
  BY DEF sleep_on
<1>2. SwitchPre(rq, st, pcs, wq)
  BY SleepPre, Zenon
<1> HIDE DEF rq, st, wq
<1> QED
  BY <1>1, <1>2, SwitchLemma

-----------------------------------------------------------------------------
(***************************************************************************)
(* sem_V: at most one task moves from the wait queue to the run queue.     *)
(***************************************************************************)

WakePost ==
  /\ runq' \in Seq(Task)
  /\ waitq' \in [Queue -> Seq(Task)]
  /\ state' \in [Task -> States]
  /\ IsInjective(runq')
  /\ \A q \in Queue : IsInjective(waitq'[q])
  /\ Range(runq') = {t \in Task \ {Idle} : state'[t] \in {"READY", "RUNNING"}}
  /\ Range(waitq'["pagesem"]) = {t \in Task : state'[t] = "SLEEPING" /\ InSemP(t)}
  /\ Range(waitq'["floppyq"]) = {t \in Task : state'[t] = "SLEEPING" /\ ~InSemP(t)}
  /\ \A t \in Task : \/ state'[t] = state[t]
                     \/ state[t] = "SLEEPING" /\ state'[t] = "READY"
  /\ runq # <<>> => runq' # <<>> /\ Head(runq') = Head(runq)

\* sem_V on a semaphore that nobody holds any more.
LEMMA WakeLemma ==
  ASSUME IInv, sem_V(0)
  PROVE  val' = 1 /\ WakePost
<1>1. val' = 1 /\ wake_one("pagesem")
  BY DEF sem_V
<1> DEFINE w == waitq["pagesem"]
<1>2. /\ runq \in Seq(Task)
      /\ IsInjective(runq)
      /\ Range(runq) = {t \in Task \ {Idle} : state[t] \in {"READY", "RUNNING"}}
      /\ state \in [Task -> States]
      /\ waitq \in [Queue -> Seq(Task)]
      /\ \A n \in Queue : IsInjective(waitq[n])
      /\ w \in Seq(Task)
      /\ IsInjective(w)
      /\ Range(w) = {t \in Task : state[t] = "SLEEPING" /\ InSemP(t)}
      /\ Range(waitq["floppyq"]) = {t \in Task : state[t] = "SLEEPING" /\ ~InSemP(t)}
      /\ state[Idle] \in {"RUNNING", "READY"}
  BY DEF IInv, TypeOK, QueuesMatchStates, ControlInv, Queue
<1>3. CASE w = <<>>
  BY <1>1, <1>2, <1>3 DEF wake_one, task_to_runq, WakePost
<1>4. CASE w # <<>>
  <2> DEFINE t == Head(w)
  <2>1. /\ waitq' = [waitq EXCEPT !["pagesem"] = Tail(w)]
        /\ runq' = Append(runq, t)
        /\ state' = [state EXCEPT ![t] = "READY"]
    BY <1>1, <1>4 DEF wake_one, task_to_runq
  <2>2. /\ t \in Task
        /\ t \in Range(w)
        /\ Tail(w) \in Seq(Task)
        /\ IsInjective(Tail(w))
        /\ Range(Tail(w)) = Range(w) \ {t}
    BY <1>2, <1>4, TailQueue
  <2> HIDE DEF t
  <2>3. state[t] = "SLEEPING" /\ InSemP(t) /\ t \notin Range(runq) /\ t # Idle
    BY <1>2, <2>2
  <2>4. /\ runq' \in Seq(Task)
        /\ IsInjective(runq')
        /\ Range(runq') = Range(runq) \cup {t}
        /\ runq # <<>> => runq' # <<>> /\ Head(runq') = Head(runq)
    BY <1>2, <2>1, <2>2, <2>3, AppendQueue
  <2>5. /\ state' \in [Task -> States]
        /\ state'[t] = "READY"
        /\ \A u \in Task \ {t} : state'[u] = state[u]
    BY <1>2, <2>1, <2>2 DEF States
  <2>6. /\ waitq' \in [Queue -> Seq(Task)]
        /\ waitq'["pagesem"] = Tail(w)
        /\ waitq'["floppyq"] = waitq["floppyq"]
        /\ \A q \in Queue : IsInjective(waitq'[q])
    BY <1>2, <2>1, <2>2 DEF Queue
  <2>7. Range(runq') = {u \in Task \ {Idle} : state'[u] \in {"READY", "RUNNING"}}
    BY <1>2, <2>2, <2>3, <2>4, <2>5
  <2>8. Range(waitq'["pagesem"]) = {u \in Task : state'[u] = "SLEEPING" /\ InSemP(u)}
    BY <1>2, <2>2, <2>3, <2>5, <2>6, Zenon
  <2>9. Range(waitq'["floppyq"]) = {u \in Task : state'[u] = "SLEEPING" /\ ~InSemP(u)}
    BY <1>2, <2>2, <2>3, <2>5, <2>6
  <2>10. \A u \in Task : \/ state'[u] = state[u]
                         \/ state[u] = "SLEEPING" /\ state'[u] = "READY"
    BY <2>3, <2>5
  <2> QED
    BY <1>1, <2>4, <2>5, <2>6, <2>7, <2>8, <2>9, <2>10 DEF WakePost
<1> QED
  BY <1>3, <1>4

\* The parts of the invariant that a sem_V can disturb.
LEMMA WakeInv ==
  ASSUME IInv, WakePost, UNCHANGED <<current, delq>>, current \in Task,
         state[current] = "RUNNING",
         pc'[current] # "exit",
         \A t \in Task : InSemP(t)' <=> InSemP(t)
  PROVE  QueuesMatchStates' /\ CurrentIsHead'
<1>1. \A t \in Task : /\ state'[t] = "ZOMBIE" <=> state[t] = "ZOMBIE"
                      /\ state'[t] = "RUNNING" <=> state[t] = "RUNNING"
  BY DEF WakePost
<1>2. QueuesMatchStates'
  <2>1. {t \in Task : state'[t] = "ZOMBIE"} = {t \in Task : state[t] = "ZOMBIE"}
    BY <1>1
  <2>2. {t \in Task : state'[t] = "SLEEPING" /\ InSemP(t)'}
          = {t \in Task : state'[t] = "SLEEPING" /\ InSemP(t)}
    OBVIOUS
  <2>3. {t \in Task : state'[t] = "SLEEPING" /\ ~InSemP(t)'}
          = {t \in Task : state'[t] = "SLEEPING" /\ ~InSemP(t)}
    OBVIOUS
  <2> QED
    BY <2>1, <2>2, <2>3 DEF IInv, WakePost, QueuesMatchStates
<1>3. CurrentIsHead'
  BY <1>1 DEF IInv, CurrentIsHead, WakePost
<1> QED
  BY <1>2, <1>3

-----------------------------------------------------------------------------
(* Page allocation, fork and exit.                                         *)

\* alloc_pages gets pagesem, or sleeps on it.
LEMMA AllocPStep ==
  ASSUME IInv, NEW CONSTANT t \in Task, alloc_P(t)
  PROVE  IInv'
<1>1. /\ current = t
      /\ iter[t] = <<>>
      /\ t # Idle
      /\ pc[t] \in {"run", "P"}
      /\ UNCHANGED <<delq, free_list, got, iter>>
  BY DEF alloc_P, InBase
<1>2. state[t] = "RUNNING"
  BY <1>1 DEF IInv, CurrentIsHead
<1>3. CASE sem_P_waits
  <2> DEFINE pcs == [pc EXCEPT ![current] = "P"]
  <2>1. sleep_on("pagesem", pcs) /\ UNCHANGED <<delq, val, free_list, got, iter>>
    BY <1>1, <1>3 DEF alloc_P
  <2>2. pcs[current] = "P"
    BY <1>1 DEF IInv, TypeOK
  <2>3. pcs = pc \/ (pcs = [pc EXCEPT ![current] = "P"] /\ pc[current] \in {"run", "P"})
    BY <1>1
  <2>4. "pagesem" \in Queue
    BY DEF Queue
  <2> HIDE DEF pcs
  <2> QED
    BY <1>1, <1>2, <2>1, <2>2, <2>3, <2>4, SleepStep
<1>4. CASE ~sem_P_waits
  <2>1. /\ val' = val - 1
        /\ pc' = [pc EXCEPT ![t] = "alloc"]
        /\ UNCHANGED <<current, state, runq, waitq, insched, panicked>>
    BY <1>4 DEF alloc_P
  <2>2. val = 1 /\ \A u \in Task : pc[u] # "alloc"
    BY <1>4 DEF sem_P_waits, IInv, PagesemExcludes
  <2>3. /\ pc' \in [Task -> PCs]
        /\ pc'[t] = "alloc"
        /\ \A u \in Task \ {t} : pc'[u] = pc[u]
    BY <2>1 DEF IInv, TypeOK, PCs
  <2>4. TypeOK'
    BY <1>1, <2>1, <2>2, <2>3 DEF IInv, TypeOK
  <2>5. QueuesMatchStates'
    <3>1. \A u \in Task : state[u] = "SLEEPING" => (InSemP(u)' <=> InSemP(u))
      BY <1>1, <1>2, <2>3 DEF InSemP
    <3>2. {u \in Task : state[u] = "SLEEPING" /\ InSemP(u)'}
            = {u \in Task : state[u] = "SLEEPING" /\ InSemP(u)}
      BY <3>1
    <3>3. {u \in Task : state[u] = "SLEEPING" /\ ~InSemP(u)'}
            = {u \in Task : state[u] = "SLEEPING" /\ ~InSemP(u)}
      BY <3>1
    <3> QED
      BY <1>1, <2>1, <3>2, <3>3 DEF IInv, QueuesMatchStates
  <2>6. CurrentIsHead'
    BY <1>1, <1>2, <2>1, <2>3 DEF IInv, CurrentIsHead
  <2>7. PagesemExcludes'
    BY <2>1, <2>2, <2>3 DEF PagesemExcludes
  <2>8. PagesConserved'
    BY <1>1, <2>1 DEF IInv, PagesConserved, InHand, BeingFreed
  <2>9. ControlInv'
    BY <1>1, <1>2, <2>1, <2>3, TaskAssumption DEF IInv, ControlInv
  <2> QED
    BY <2>4, <2>5, <2>6, <2>7, <2>8, <2>9 DEF IInv
<1> QED
  BY <1>3, <1>4

\* alloc_pages takes a page off the free list and gives pagesem back.
LEMMA AllocVStep ==
  ASSUME IInv, NEW CONSTANT t \in Task, alloc_V(t)
  PROVE  IInv'
<1>1. /\ current = t
      /\ iter[t] = <<>>
      /\ pc[t] = "alloc"
      /\ got' = [got EXCEPT ![t] = IF free_list = <<>> THEN NULL ELSE Head(free_list)]
      /\ free_list' = IF free_list = <<>> THEN <<>> ELSE Tail(free_list)
      /\ pc' = [pc EXCEPT ![t] = "got"]
      /\ UNCHANGED <<current, delq, iter, insched, panicked>>
      /\ sem_V(val)
  BY DEF alloc_V, InBase
<1>2. val = 0 /\ \A u \in Task \ {t} : pc[u] # "alloc"
  BY <1>1 DEF IInv, PagesemExcludes
<1>3. val' = 1 /\ WakePost
  BY <1>1, <1>2, WakeLemma
<1>4. state[t] = "RUNNING"
  BY <1>1 DEF IInv, CurrentIsHead
<1>5. /\ pc' \in [Task -> PCs]
      /\ pc'[t] = "got"
      /\ \A u \in Task \ {t} : pc'[u] = pc[u]
  BY <1>1 DEF IInv, TypeOK, PCs
<1>6. got \in [Task -> Task \cup {NULL}] /\ got[t] = NULL /\ free_list \in Seq(Task)
  BY <1>1 DEF IInv, TypeOK, ControlInv
<1>7. /\ got' \in [Task -> Task \cup {NULL}]
      /\ got'[t] = IF free_list = <<>> THEN NULL ELSE Head(free_list)
      /\ \A u \in Task \ {t} : got'[u] = got[u]
      /\ free_list' \in Seq(Task)
  BY <1>1, <1>6, TailQueue
<1>8. TypeOK'
  BY <1>1, <1>3, <1>5, <1>7 DEF IInv, TypeOK, WakePost
<1>9. QueuesMatchStates' /\ CurrentIsHead'
  <2>1. \A u \in Task : InSemP(u)' <=> InSemP(u)
    BY <1>1, <1>5 DEF InSemP
  <2> QED
    BY <1>1, <1>3, <1>4, <1>5, <2>1, WakeInv
<1>10. PagesemExcludes'
  BY <1>2, <1>3, <1>5 DEF PagesemExcludes
<1>11. \A u \in Task : /\ state'[u] = "FREE" <=> state[u] = "FREE"
                       /\ state'[u] = "ZOMBIE" <=> state[u] = "ZOMBIE"
                       /\ state[u] = "READY" => state'[u] = "READY"
                       /\ state[u] = "RUNNING" => state'[u] = "RUNNING"
  BY <1>3 DEF WakePost
<1>12. PagesConserved'
  <2>1. /\ PagesConserved
        /\ {p \in Task : state'[p] = "FREE"} = {p \in Task : state[p] = "FREE"}
        /\ BeingFreed' = BeingFreed
    BY <1>1, <1>11 DEF IInv, BeingFreed
  <2>2. CASE free_list = <<>>
    <3>1. InHand' = InHand
      BY <1>6, <1>7, <2>2 DEF InHand
    <3> QED
      BY <1>1, <1>6, <1>7, <2>1, <2>2, <3>1 DEF PagesConserved
  <2>3. CASE free_list # <<>>
    <3> DEFINE p == Head(free_list)
    <3>1. /\ p \in Task
          /\ p \in Range(free_list)
          /\ IsInjective(free_list')
          /\ Range(free_list') = Range(free_list) \ {p}
      BY <1>1, <1>6, <2>1, <2>3, TailQueue DEF PagesConserved
    <3>2. got'[t] = p
      BY <1>7, <2>3
    <3> HIDE DEF p
    <3>3. InHand' = InHand \cup {p}
      BY <1>6, <1>7, <3>1, <3>2, TaskAssumption DEF InHand
    <3>4. p \notin InHand /\ p \notin BeingFreed
      BY <2>1, <3>1 DEF PagesConserved
    <3>5. \A u, v \in Task : got'[u] = got'[v] /\ got'[u] # NULL => u = v
      <4>1. \A u \in Task \ {t} : got'[u] # p
        BY <1>7, <3>1, <3>4 DEF InHand
      <4> QED
        BY <1>7, <2>1, <3>2, <4>1 DEF PagesConserved
    <3>6. \A u, v \in Task : \A i \in DOMAIN iter'[u], j \in DOMAIN iter'[v] :
            iter'[u][i].z = iter'[v][j].z /\ iter'[u][i].z # NULL => u = v /\ i = j
      BY <1>1, <2>1 DEF PagesConserved
    <3>7. /\ Range(free_list') \cap InHand' = {}
          /\ Range(free_list') \cap BeingFreed' = {}
          /\ InHand' \cap BeingFreed' = {}
          /\ {x \in Task : state'[x] = "FREE"}
               = Range(free_list') \cup InHand' \cup BeingFreed'
      BY <2>1, <3>1, <3>3, <3>4 DEF PagesConserved
    <3> QED
      BY <3>1, <3>5, <3>6, <3>7 DEF PagesConserved
  <2> QED
    BY <2>2, <2>3
<1>13. ControlInv'
  <2>1. ControlInv /\ Idle \in Task /\ t # Idle
    BY <1>1, TaskAssumption DEF IInv, ControlInv
  <2>2. state'[Idle] \in {"RUNNING", "READY"} /\ pc'[Idle] = "run"
    BY <1>5, <1>11, <2>1 DEF ControlInv
  <2>3. \A u \in Task : /\ pc'[u] = "none" <=> state'[u] = "FREE"
                        /\ pc'[u] = "exit" <=> state'[u] = "ZOMBIE"
    BY <1>4, <1>5, <1>11, <2>1 DEF ControlInv
  <2>4. \A u \in Task : pc'[u] = "new" => state'[u] = "READY"
    BY <1>5, <1>11, <2>1 DEF ControlInv
  <2>5. \A u \in Task : pc'[u] \in {"new", "none", "exit"} => iter'[u] = <<>>
    BY <1>1, <1>5, <2>1 DEF ControlInv
  <2>6. \A u \in Task : got'[u] # NULL => pc'[u] = "got"
    BY <1>5, <1>7, <2>1 DEF ControlInv
  <2>7. state'[current'] = "RUNNING"
    BY <1>1, <1>4, <1>11
  <2> QED
    BY <2>2, <2>3, <2>4, <2>5, <2>6, <2>7 DEF ControlInv
<1> QED
  BY <1>8, <1>9, <1>10, <1>12, <1>13 DEF IInv

\* The page alloc_page returned becomes a task on the run queue.
LEMMA SysForkStep ==
  ASSUME IInv, NEW CONSTANT t \in Task, sys_fork(t)
  PROVE  IInv'
<1> DEFINE p == got[t]
<1>1. /\ current = t
      /\ iter[t] = <<>>
      /\ pc[t] = "got"
      /\ got' = [got EXCEPT ![t] = NULL]
      /\ UNCHANGED <<current, delq, waitq, val, free_list, iter, insched, panicked>>
  BY DEF sys_fork, InBase
<1>2. state[t] = "RUNNING"
  BY <1>1 DEF IInv, CurrentIsHead
<1>3. /\ got \in [Task -> Task \cup {NULL}]
      /\ got' \in [Task -> Task \cup {NULL}]
      /\ got'[t] = NULL
      /\ \A u \in Task \ {t} : got'[u] = got[u]
  BY <1>1 DEF IInv, TypeOK
<1>4. CASE p = NULL
  <2>1. pc' = [pc EXCEPT ![t] = "run"] /\ UNCHANGED <<state, runq>>
    BY <1>4 DEF sys_fork
  <2>2. /\ pc' \in [Task -> PCs]
        /\ pc'[t] = "run"
        /\ \A u \in Task \ {t} : pc'[u] = pc[u]
    BY <2>1 DEF IInv, TypeOK, PCs
  <2>3. got' = got
    BY <1>1, <1>3, <1>4
  <2>4. TypeOK'
    BY <1>1, <1>3, <2>1, <2>2 DEF IInv, TypeOK
  <2>5. QueuesMatchStates'
    <3>1. \A u \in Task : InSemP(u)' <=> InSemP(u)
      BY <1>1, <2>2 DEF InSemP
    <3> QED
      BY <1>1, <2>1, <3>1 DEF IInv, QueuesMatchStates
  <2>6. CurrentIsHead'
    BY <1>1, <1>2, <2>1, <2>2 DEF IInv, CurrentIsHead
  <2>7. PagesemExcludes'
    <3>1. \A u \in Task : pc'[u] = "alloc" <=> pc[u] = "alloc"
      BY <1>1, <2>2
    <3> QED
      BY <1>1, <3>1 DEF IInv, PagesemExcludes
  <2>8. PagesConserved'
    BY <1>1, <2>1, <2>3 DEF IInv, PagesConserved, InHand, BeingFreed
  <2>9. ControlInv'
    BY <1>1, <1>2, <1>3, <2>1, <2>2, TaskAssumption DEF IInv, ControlInv
  <2> QED
    BY <2>4, <2>5, <2>6, <2>7, <2>8, <2>9 DEF IInv
<1>5. CASE p # NULL
  <2>1. /\ pc' = [pc EXCEPT ![t] = "run", ![p] = "new"]
        /\ state' = [state EXCEPT ![p] = "READY"]
        /\ runq' = Append(runq, p)
    BY <1>5 DEF sys_fork, task_to_runq
  <2>2. p \in Task /\ p \in InHand
    BY <1>3, <1>5 DEF InHand
  <2>3. /\ state[p] = "FREE"
        /\ p \notin Range(free_list)
        /\ p \notin BeingFreed
    BY <2>2 DEF IInv, PagesConserved
  <2>4. p # t /\ p # Idle /\ pc[p] = "none" /\ iter[p] = <<>> /\ got[p] = NULL
    BY <1>2, <2>2, <2>3 DEF IInv, ControlInv
  <2> HIDE DEF p
  <2>5. /\ pc' \in [Task -> PCs]
        /\ pc'[t] = "run"
        /\ pc'[p] = "new"
        /\ \A u \in Task \ {t, p} : pc'[u] = pc[u]
    <3>1. pc \in [Task -> PCs] /\ "run" \in PCs /\ "new" \in PCs
      BY DEF IInv, TypeOK, PCs
    <3> QED
      BY <2>1, <2>2, <2>4, <3>1
  <2>6. /\ state' \in [Task -> States]
        /\ state'[p] = "READY"
        /\ \A u \in Task \ {p} : state'[u] = state[u]
    BY <2>1, <2>2 DEF IInv, TypeOK, States
  <2>7. /\ runq \in Seq(Task)
        /\ IsInjective(runq)
        /\ Range(runq) = {u \in Task \ {Idle} : state[u] \in {"READY", "RUNNING"}}
    BY DEF IInv, TypeOK, QueuesMatchStates
  <2>8. /\ runq' \in Seq(Task)
        /\ IsInjective(runq')
        /\ Range(runq') = Range(runq) \cup {p}
        /\ runq # <<>> => runq' # <<>> /\ Head(runq') = Head(runq)
    <3>1. p \notin Range(runq)
      BY <2>3, <2>7
    <3> QED
      BY <2>1, <2>2, <2>7, <3>1, AppendQueue
  <2>9. TypeOK'
    BY <1>1, <1>3, <2>5, <2>6, <2>8 DEF IInv, TypeOK
  <2>10. QueuesMatchStates'
    <3>1. \A u \in Task : InSemP(u)' <=> InSemP(u)
      BY <1>1, <2>4, <2>5 DEF InSemP
    <3>2. Range(runq') = {u \in Task \ {Idle} : state'[u] \in {"READY", "RUNNING"}}
      BY <2>2, <2>4, <2>6, <2>7, <2>8
    <3>3. \A u \in Task : /\ state'[u] = "ZOMBIE" <=> state[u] = "ZOMBIE"
                          /\ state'[u] = "SLEEPING" <=> state[u] = "SLEEPING"
      BY <2>3, <2>6
    <3> QED
      BY <1>1, <2>8, <3>1, <3>2, <3>3 DEF IInv, QueuesMatchStates
  <2>11. CurrentIsHead'
    BY <1>1, <1>2, <2>4, <2>5, <2>6, <2>8 DEF IInv, CurrentIsHead
  <2>12. PagesemExcludes'
    <3>1. \A u \in Task : pc'[u] = "alloc" <=> pc[u] = "alloc"
      BY <1>1, <2>4, <2>5
    <3> QED
      BY <1>1, <3>1 DEF IInv, PagesemExcludes
  <2>13. PagesConserved'
    <3>1. BeingFreed' = BeingFreed
      BY <1>1 DEF BeingFreed
    <3>2. \A u, v \in Task : got[u] = got[v] /\ got[u] # NULL => u = v
      BY DEF IInv, PagesConserved
    <3>3. InHand' = InHand \ {p}
      BY <1>3, <1>5, <2>2, <3>2, TaskAssumption DEF InHand, p
    <3>4. {x \in Task : state'[x] = "FREE"} = {x \in Task : state[x] = "FREE"} \ {p}
      BY <2>3, <2>6
    <3>5. \A u, v \in Task : got'[u] = got'[v] /\ got'[u] # NULL => u = v
      BY <1>3, <3>2
    <3>6. /\ Range(free_list') \cap InHand' = {}
          /\ Range(free_list') \cap BeingFreed' = {}
          /\ InHand' \cap BeingFreed' = {}
          /\ {x \in Task : state'[x] = "FREE"}
               = Range(free_list') \cup InHand' \cup BeingFreed'
      BY <1>1, <2>2, <2>3, <3>1, <3>3, <3>4 DEF IInv, PagesConserved
    <3> QED
      BY <1>1, <3>5, <3>6 DEF IInv, PagesConserved
  <2>14. ControlInv'
    <3>1. ControlInv /\ Idle \in Task /\ t # Idle
      BY <1>1, TaskAssumption DEF IInv, ControlInv
    <3>2. /\ state'[Idle] \in {"RUNNING", "READY"} /\ pc'[Idle] = "run"
          /\ insched' => state'[current'] = "RUNNING"
      BY <1>1, <1>2, <2>2, <2>4, <2>5, <2>6, <3>1 DEF ControlInv
    <3>3. ASSUME NEW u \in Task
          PROVE  /\ pc'[u] = "none" <=> state'[u] = "FREE"
                 /\ pc'[u] = "exit" <=> state'[u] = "ZOMBIE"
                 /\ pc'[u] = "new" => state'[u] = "READY"
                 /\ pc'[u] \in {"new", "none", "exit"} => iter'[u] = <<>>
                 /\ got'[u] # NULL => pc'[u] = "got"
      <4>1. CASE u = p
        BY <1>1, <1>3, <2>2, <2>4, <2>5, <2>6, <4>1
      <4>2. CASE u = t
        BY <1>1, <1>2, <1>3, <2>4, <2>5, <2>6, <4>2
      <4>3. CASE u # p /\ u # t
        <5>1. iter'[u] = iter[u] /\ got'[u] = got[u] /\ pc'[u] = pc[u] /\ state'[u] = state[u]
          BY <1>1, <1>3, <2>5, <2>6, <4>3
        <5> QED
          BY <3>1, <5>1, Zenon DEF ControlInv
      <4> QED
        BY <4>1, <4>2, <4>3
    <3> QED
      BY <3>2, <3>3, Zenon DEF ControlInv
  <2> QED
    BY <2>9, <2>10, <2>11, <2>12, <2>13, <2>14 DEF IInv
<1> QED
  BY <1>4, <1>5

\* do_exit moves the current task from the run queue to delq.
LEMMA DoExitStep ==
  ASSUME IInv, NEW CONSTANT t \in Task, do_exit(t)
  PROVE  IInv'
<1>1. /\ current = t
      /\ ~insched
      /\ iter[t] = <<>>
      /\ t # Idle
      /\ pc[t] = "run"
      /\ runq' = list_del(runq, t)
      /\ delq' = Append(delq, t)
      /\ state' = [state EXCEPT ![t] = "ZOMBIE"]
      /\ pc' = [pc EXCEPT ![t] = "exit"]
      /\ UNCHANGED <<current, waitq, val, free_list, got, iter, insched, panicked>>
  BY TaskAssumption DEF do_exit, InBase
<1>2. state[t] = "RUNNING"
  BY <1>1 DEF IInv, CurrentIsHead
<1>3. /\ runq \in Seq(Task)
      /\ IsInjective(runq)
      /\ Range(runq) = {u \in Task \ {Idle} : state[u] \in {"READY", "RUNNING"}}
      /\ delq \in Seq(Task)
      /\ IsInjective(delq)
      /\ Range(delq) = {u \in Task : state[u] = "ZOMBIE"}
  BY DEF IInv, TypeOK, QueuesMatchStates
<1>4. /\ pc' \in [Task -> PCs]
      /\ pc'[t] = "exit"
      /\ \A u \in Task \ {t} : pc'[u] = pc[u]
  BY <1>1 DEF IInv, TypeOK, PCs
<1>5. /\ state' \in [Task -> States]
      /\ state'[t] = "ZOMBIE"
      /\ \A u \in Task \ {t} : state'[u] = state[u]
  BY <1>1 DEF IInv, TypeOK, States
<1>6. /\ runq' \in Seq(Task)
      /\ IsInjective(runq')
      /\ Range(runq') = Range(runq) \ {t}
  <2>1. t \in Range(runq)
    BY <1>1, <1>2, <1>3
  <2> QED
    BY <1>1, <1>3, <2>1, ListDel
<1>7. /\ delq' \in Seq(Task)
      /\ IsInjective(delq')
      /\ Range(delq') = Range(delq) \cup {t}
  <2>1. t \notin Range(delq)
    BY <1>2, <1>3
  <2> QED
    BY <1>1, <1>3, <2>1, AppendQueue
<1>8. TypeOK'
  BY <1>1, <1>4, <1>5, <1>6, <1>7 DEF IInv, TypeOK
<1>9. QueuesMatchStates'
  <2>1. Range(runq') = {u \in Task \ {Idle} : state'[u] \in {"READY", "RUNNING"}}
    BY <1>3, <1>5, <1>6
  <2>2. Range(delq') = {u \in Task : state'[u] = "ZOMBIE"}
    BY <1>3, <1>5, <1>7
  <2>3. \A u \in Task : /\ state'[u] = "SLEEPING" <=> state[u] = "SLEEPING"
                        /\ InSemP(u)' <=> InSemP(u)
    BY <1>1, <1>2, <1>4, <1>5 DEF InSemP
  <2> QED
    BY <1>1, <1>6, <1>7, <2>1, <2>2, <2>3 DEF IInv, QueuesMatchStates
<1>10. CurrentIsHead'
  BY <1>1, <1>4, <1>5 DEF IInv, CurrentIsHead
<1>11. PagesemExcludes'
  <2>1. \A u \in Task : pc'[u] = "alloc" <=> pc[u] = "alloc"
    BY <1>1, <1>4
  <2> QED
    BY <1>1, <2>1 DEF IInv, PagesemExcludes
<1>12. PagesConserved'
  <2>1. {p \in Task : state'[p] = "FREE"} = {p \in Task : state[p] = "FREE"}
    BY <1>2, <1>5
  <2>2. free_list' = free_list /\ got' = got /\ iter' = iter
    BY <1>1
  <2>3. InHand' = InHand /\ BeingFreed' = BeingFreed
    BY <2>2 DEF InHand, BeingFreed
  <2> QED
    BY <2>1, <2>2, <2>3 DEF IInv, PagesConserved
<1>13. ControlInv'
  BY <1>1, <1>2, <1>4, <1>5, TaskAssumption, ZenonT(30) DEF IInv, ControlInv
<1> QED
  BY <1>8, <1>9, <1>10, <1>11, <1>12, <1>13 DEF IInv

=============================================================================
