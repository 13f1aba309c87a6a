------------------------------- MODULE Sched -------------------------------
(***************************************************************************)
(* The scheduler of scaraOS with the code that runs inside it: the run     *)
(* queue, the wait queues and the queue of dead tasks (kernel/sched.c),    *)
(* the semaphores (kernel/semaphore.c), the page allocator that hands out  *)
(* and takes back the page each task structure lives in (kernel/buddy.c),  *)
(* the interrupt path that preempts a task (arch-ia32/irq.c) and the       *)
(* hardware task switch (arch-ia32/task.c).                                *)
(*                                                                         *)
(* There is one CPU.  A step is a step of the task that owns it or an      *)
(* interrupt, and an interrupt is only taken at a point where the kernel   *)
(* runs with interrupts enabled.  Code between lock_irq and unlock_irq is  *)
(* therefore one action unless it gives the CPU away in sched().           *)
(*                                                                         *)
(* pc[t] is where task t is in the code, or where it goes on when it gets  *)
(* the CPU back; iter[t] holds the activations of flush_delq on its stack. *)
(***************************************************************************)
EXTENDS Integers, Sequences, FiniteSets, Functions

CONSTANTS
  Task,      \* pages that can hold a task structure, the idle task's included
  Idle,      \* idle_task, the context that ran the boot code
  InitTask,  \* the [init] kernel thread, created before interrupts are on
  MayExit,   \* the tasks that may call exit
  NULL       \* no task; for a list iterator: the list head

ASSUME TaskAssumption ==
  /\ IsFiniteSet(Task)
  /\ Idle \in Task
  /\ InitTask \in Task \ {Idle}
  /\ MayExit \subseteq Task \ {Idle}
  /\ NULL \notin Task

VARIABLES
  current,    \* __this_task
  state,      \* task->state; "FREE" is a page that holds no live structure
  runq,       \* run queue; the running task stays on it
  delq,       \* zombies whose page is still to be freed
  waitq,      \* wait queues, by name
  val,        \* pagesem.val
  free_list,  \* free pages
  pc,         \* control point of every task
  got,        \* the page alloc_page returned to a task
  iter,       \* activations of flush_delq: page being freed, saved tmp
  insched,    \* the CPU is in sched(), just after switch_task
  panicked    \* a BUG_ON fired or the kernel faulted

vars == <<current, state, runq, delq, waitq, val, free_list, pc, got, iter,
          insched, panicked>>

Queue == {"pagesem", "floppyq"}

States == {"RUNNING", "READY", "SLEEPING", "ZOMBIE", "FREE"}

(***************************************************************************)
(* Control points.                                                         *)
(*   new    the thread has never run: kthread_init or ret_from_fork        *)
(*   run    user code, or kernel code that holds nothing; also where a     *)
(*          task asleep on floppyq goes on                                 *)
(*   P      in the loop of sem_P(&pagesem), called by alloc_pages          *)
(*   alloc  in alloc_pages, between sem_P and sem_V                        *)
(*   got    alloc_page has returned to kernel_thread or _sys_fork          *)
(*   exit   in do_exit, after unlock_irq and before sched()                *)
(*   none   the page holds no task                                         *)
(***************************************************************************)
PCs == {"new", "run", "P", "alloc", "got", "exit", "none"}

Activation == [z : Task \cup {NULL}, tmp : Task \cup {NULL}]

\* Interrupts are on exactly at the points that hold no lock_irq.
IRQsOn ==
  /\ ~panicked
  /\ ~insched
  /\ iter[current] = <<>>
  /\ pc[current] \in {"run", "alloc", "got", "exit"}

\* The CPU executes the base code of the current task, not sched().
InBase(t) ==
  /\ ~panicked
  /\ ~insched
  /\ current = t
  /\ iter[t] = <<>>

-----------------------------------------------------------------------------
(***************************************************************************)
(* The scheduler.                                                          *)
(***************************************************************************)

\* list_del: take a task off the list it is on.
list_del_forgotten(s, t) == s
list_del(s, t) ==
  LET i == CHOOSE i \in DOMAIN s : s[i] = t
  IN  SubSeq(s, 1, i - 1) \o SubSeq(s, i + 1, Len(s))

\* The run queue after get_next_task has looked at it: when the current task
\* is first it goes to the back.
Rotated_not(rq) == rq
Rotated(rq) ==
  IF rq # <<>> /\ Head(rq) = current THEN Append(Tail(rq), current) ELSE rq

get_next_task(rq) ==
  IF rq = <<>> THEN Idle ELSE Head(Rotated(rq))

\* sched() up to the switch, entered with run queue rq, states st and control
\* points pcs.  A task that has run before comes back inside sched(), a new one
\* starts at its entry point.
sched_requeues(rq, st, pcs) ==
  LET next == get_next_task(rq) IN
  /\ runq' = Rotated(rq)
  /\ current' = next
  /\ state' = IF next = current THEN st
              ELSE [st EXCEPT ![current] = "READY", ![next] = "RUNNING"]
  /\ insched' = (next # current /\ pcs[next] # "new")
  /\ pc' = [pcs EXCEPT ![next] = IF @ = "new" THEN "run" ELSE @]
  /\ panicked' = (st[next] = "SLEEPING")
sched(rq, st, pcs) ==
  LET next == get_next_task(rq) IN
  /\ runq' = Rotated(rq)
  /\ current' = next
  /\ state' = IF next = current THEN st
              ELSE [st EXCEPT ![current] = IF @ = "RUNNING" THEN "READY" ELSE @,
                              ![next] = "RUNNING"]
  /\ insched' = (next # current /\ pcs[next] # "new")
  /\ pc' = [pcs EXCEPT ![next] = IF @ = "new" THEN "run" ELSE @]
  /\ panicked' = (st[next] = "SLEEPING")

\* sleep_on(q) by the current task.  The idle task cannot sleep: its list
\* pointers are never set, and get_next_task would find nothing but idle to run
\* and hit BUG_ON(ret->state == TASK_SLEEPING).
sleep_on_lifo(q, pcs) ==
  IF current = Idle
  THEN /\ panicked' = TRUE
       /\ UNCHANGED <<current, state, runq, waitq, pc, insched>>
  ELSE /\ waitq' = [waitq EXCEPT ![q] = <<current>> \o @]
       /\ sched(list_del(runq, current), [state EXCEPT ![current] = "SLEEPING"], pcs)
sleep_on(q, pcs) ==
  IF current = Idle
  THEN /\ panicked' = TRUE
       /\ UNCHANGED <<current, state, runq, waitq, pc, insched>>
  ELSE /\ waitq' = [waitq EXCEPT ![q] = Append(@, current)]
       /\ sched(list_del(runq, current),
                [state EXCEPT ![current] = "SLEEPING"], pcs)

\* task_to_runq: a task joins the end of the run queue.
task_to_runq(t) ==
  /\ runq' = Append(runq, t)
  /\ state' = [state EXCEPT ![t] = "READY"]

\* wake_one(q): the first sleeper, if there is one, goes through task_to_runq.
wake_one_front(q) ==
  IF waitq[q] = <<>>
  THEN UNCHANGED <<runq, state, waitq>>
  ELSE LET t == Head(waitq[q]) IN
       /\ waitq' = [waitq EXCEPT ![q] = Tail(@)]
       /\ runq' = <<t>> \o runq
       /\ state' = [state EXCEPT ![t] = "READY"]
wake_one(q) ==
  IF waitq[q] = <<>>
  THEN UNCHANGED <<runq, state, waitq>>
  ELSE /\ waitq' = [waitq EXCEPT ![q] = Tail(@)]
       /\ task_to_runq(Head(waitq[q]))

\* wake_up(q): every sleeper, in order, goes through task_to_runq.  The states
\* it leaves; the run queue grows by waitq[q].
wake_up(q) ==
  [t \in Task |-> IF t \in Range(waitq[q]) THEN "READY" ELSE state[t]]

\* The test of the loop in sem_P(&pagesem).
sem_P_waits_below_zero == val < 0
sem_P_waits_once == val <= 0 /\ pc[current] # "P"
sem_P_waits == val <= 0

\* sem_V(&pagesem) on a semaphore whose value is v.
sem_V_silent(v) ==
  /\ val' = v + 1
  /\ IF v > 0 THEN wake_one("pagesem") ELSE UNCHANGED <<runq, state, waitq>>
sem_V(v) ==
  /\ val' = v + 1
  /\ IF v + 1 > 0 THEN wake_one("pagesem")
     ELSE UNCHANGED <<runq, state, waitq>>

-----------------------------------------------------------------------------
(***************************************************************************)
(* sched() after switch_task has returned, and flush_delq.  All of this    *)
(* runs with interrupts off in the context of the task switched to.        *)
(***************************************************************************)

Push(t, a) == iter' = [iter EXCEPT ![t] = Append(@, a)]

SetTop(t, a) == iter' = [iter EXCEPT ![t][Len(iter[t])] = a]

Top(t) == iter[t][Len(iter[t])]

sched_resumed ==
  /\ ~panicked
  /\ insched
  /\ insched' = FALSE
  /\ IF delq = <<>>
     THEN UNCHANGED iter
     ELSE Push(current, [z |-> NULL, tmp |-> Head(delq)])
  /\ UNCHANGED <<current, state, runq, delq, waitq, val, free_list, pc, got,
                 panicked>>

InFlush ==
  /\ ~panicked
  /\ ~insched
  /\ iter[current] # <<>>

\* The entry after z on the list of dead tasks, NULL when z is the last one.
Successor(z) ==
  LET I == {i \in 1 .. Len(delq) - 1 : delq[i] = z} IN
  IF I = {} THEN NULL ELSE delq[1 + CHOOSE i \in I : TRUE]

\* The head of the loop of flush_delq: leave it at the list head, otherwise
\* check the entry, unlink it and call free_page, which poisons it first.
flush_next ==
  LET z == Top(current).tmp IN
  /\ InFlush
  /\ Top(current).z = NULL
  /\ \/ /\ z = NULL
        /\ iter' = [iter EXCEPT ![current] = SubSeq(@, 1, Len(@) - 1)]
        /\ UNCHANGED <<state, delq, pc, panicked>>
     \/ /\ z # NULL /\ state[z] # "ZOMBIE"
        /\ panicked' = TRUE
        /\ UNCHANGED <<state, delq, pc, iter>>
     \/ /\ z # NULL /\ state[z] = "ZOMBIE"
        /\ delq' = list_del(delq, z)
        /\ state' = [state EXCEPT ![z] = "FREE"]
        /\ pc' = [pc EXCEPT ![z] = "none"]
        /\ SetTop(current, [z |-> z, tmp |-> Successor(z)])
        /\ UNCHANGED panicked
  /\ UNCHANGED <<current, runq, waitq, val, free_list, got, insched>>

\* sem_P(&pagesem) in free_pages, called by flush_delq: the semaphore is taken.
flush_sleep ==
  /\ InFlush
  /\ Top(current).z # NULL
  /\ sem_P_waits
  /\ sleep_on("pagesem", pc)
  /\ UNCHANGED <<delq, val, free_list, got, iter>>

\* The rest of free_pages; nothing can run between its sem_P and sem_V.
flush_free ==
  /\ InFlush
  /\ Top(current).z # NULL
  /\ ~sem_P_waits
  /\ free_list' = Append(free_list, Top(current).z)
  /\ sem_V(val - 1)
  /\ SetTop(current, [Top(current) EXCEPT !.z = NULL])
  /\ UNCHANGED <<current, delq, pc, got, insched, panicked>>

-----------------------------------------------------------------------------
(***************************************************************************)
(* What a task does: create another task, wait for the floppy, exit.       *)
(***************************************************************************)

\* sem_P(&pagesem) at the start of alloc_pages, entered from kernel_thread or
\* _sys_fork ("run") or re-entered by a task that slept in it ("P").
alloc_P(t) ==
  /\ InBase(t)
  /\ t # Idle
  /\ pc[t] \in {"run", "P"}
  /\ \/ /\ ~sem_P_waits
        /\ val' = val - 1
        /\ pc' = [pc EXCEPT ![t] = "alloc"]
        /\ UNCHANGED <<current, state, runq, waitq, insched, panicked>>
     \/ /\ sem_P_waits
        /\ sleep_on("pagesem", [pc EXCEPT ![t] = "P"])
        /\ UNCHANGED val
  /\ UNCHANGED <<delq, free_list, got, iter>>

\* alloc_pages takes the first free page, if there is one, and sem_V.
alloc_V_keeps(t) ==
  /\ InBase(t)
  /\ pc[t] = "alloc"
  /\ got' = [got EXCEPT ![t] = IF free_list = <<>> THEN NULL ELSE Head(free_list)]
  /\ sem_V(val)
  /\ pc' = [pc EXCEPT ![t] = "got"]
  /\ UNCHANGED <<current, delq, free_list, iter, insched, panicked>>
alloc_V(t) ==
  /\ InBase(t)
  /\ pc[t] = "alloc"
  /\ got' = [got EXCEPT ![t] = IF free_list = <<>> THEN NULL ELSE Head(free_list)]
  /\ free_list' = IF free_list = <<>> THEN <<>> ELSE Tail(free_list)
  /\ sem_V(val)
  /\ pc' = [pc EXCEPT ![t] = "got"]
  /\ UNCHANGED <<current, delq, iter, insched, panicked>>

\* The rest of _sys_fork (and of kernel_thread): fail without a page, otherwise
\* make it a task and task_to_runq.
sys_fork(t) ==
  /\ InBase(t)
  /\ pc[t] = "got"
  /\ got' = [got EXCEPT ![t] = NULL]
  /\ \/ /\ got[t] = NULL
        /\ pc' = [pc EXCEPT ![t] = "run"]
        /\ UNCHANGED <<state, runq>>
     \/ /\ got[t] # NULL
        /\ pc' = [pc EXCEPT ![t] = "run", ![got[t]] = "new"]
        /\ task_to_runq(got[t])
  /\ UNCHANGED <<current, delq, waitq, val, free_list, iter, insched, panicked>>

\* floppy_rw_blk: a command is sent and the task sleeps until the interrupt.
floppy_wait(t) ==
  /\ InBase(t)
  /\ t # Idle
  /\ pc[t] = "run"
  /\ sleep_on("floppyq", pc)
  /\ UNCHANGED <<delq, val, free_list, got, iter>>

do_exit(t) ==
  /\ InBase(t)
  /\ t \in MayExit
  /\ pc[t] = "run"
  /\ runq' = list_del(runq, t)
  /\ delq' = Append(delq, t)
  /\ state' = [state EXCEPT ![t] = "ZOMBIE"]
  /\ pc' = [pc EXCEPT ![t] = "exit"]
  /\ UNCHANGED <<current, waitq, val, free_list, got, iter, insched, panicked>>

do_exit_sched(t) ==
  /\ InBase(t)
  /\ pc[t] = "exit"
  /\ sched(runq, state, pc)
  /\ UNCHANGED <<delq, waitq, val, free_list, got, iter>>

-----------------------------------------------------------------------------
(***************************************************************************)
(* Interrupts: the handler, the end-of-interrupt, then sched().            *)
(***************************************************************************)

\* The timer, or any other interrupt that wakes nobody.
timer_irq ==
  /\ IRQsOn
  /\ sched(runq, state, pc)
  /\ UNCHANGED <<delq, waitq, val, free_list, got, iter>>

\* floppy_isr calls wake_up(&floppyq).
floppy_irq ==
  /\ IRQsOn
  /\ waitq["floppyq"] # <<>>
  /\ waitq' = [waitq EXCEPT !["floppyq"] = <<>>]
  /\ sched(runq \o waitq["floppyq"], wake_up("floppyq"), pc)
  /\ UNCHANGED <<delq, val, free_list, got, iter>>

\* panic(): interrupts off, halt for ever.
halted ==
  /\ panicked
  /\ UNCHANGED vars

-----------------------------------------------------------------------------
\* setup() has created [init] and is about to enable interrupts.
Init ==
  /\ current = Idle
  /\ state = [t \in Task |-> CASE t = Idle -> "RUNNING"
                               [] t = InitTask -> "READY"
                               [] OTHER -> "FREE"]
  /\ runq = <<InitTask>>
  /\ delq = <<>>
  /\ waitq = [q \in Queue |-> <<>>]
  /\ val = 1
  /\ free_list \in LET F == Task \ {Idle, InitTask} IN Injection(1 .. Cardinality(F), F)
  /\ pc = [t \in Task |-> CASE t = Idle -> "run"
                            [] t = InitTask -> "new"
                            [] OTHER -> "none"]
  /\ got = [t \in Task |-> NULL]
  /\ iter = [t \in Task |-> <<>>]
  /\ insched = FALSE
  /\ panicked = FALSE

TaskStep(t) ==
  \/ alloc_P(t)
  \/ alloc_V(t)
  \/ sys_fork(t)
  \/ floppy_wait(t)
  \/ do_exit(t)
  \/ do_exit_sched(t)

SchedStep ==
  \/ sched_resumed
  \/ flush_next
  \/ flush_sleep
  \/ flush_free

Interrupt ==
  \/ timer_irq
  \/ floppy_irq

Next ==
  \/ \E t \in Task : TaskStep(t)
  \/ SchedStep
  \/ Interrupt
  \/ halted

Spec == Init /\ [][Next]_vars

\* A task in the kernel goes on when it has the CPU, and a started floppy
\* command completes.  The timer line stays raised until interrupts are on, so
\* an interrupt that is possible again and again is taken.  Nothing obliges a
\* task to fork, to read the floppy or to exit.
KernelStep(t) ==
  \/ pc[t] = "P" /\ alloc_P(t)
  \/ alloc_V(t)
  \/ sys_fork(t)
  \/ do_exit_sched(t)

Fairness ==
  /\ WF_vars(SchedStep)
  /\ \A t \in Task : SF_vars(KernelStep(t))
  /\ SF_vars(timer_irq)
  /\ SF_vars(floppy_irq)

FairSpec == Spec /\ Fairness

-----------------------------------------------------------------------------
\* The values the variables take.  pagesem.val is a signed int in the code, and
\* sem_P keeps it from going below zero.
TypeOK ==
  /\ current \in Task
  /\ state \in [Task -> States]
  /\ runq \in Seq(Task)
  /\ delq \in Seq(Task)
  /\ waitq \in [Queue -> Seq(Task)]
  /\ val \in Nat
  /\ free_list \in Seq(Task)
  /\ pc \in [Task -> PCs]
  /\ got \in [Task -> Task \cup {NULL}]
  /\ iter \in [Task -> Seq(Activation)]
  /\ insched \in BOOLEAN
  /\ panicked \in BOOLEAN

\* The task is inside sem_P(&pagesem), for alloc_pages or for flush_delq.
InSemP(t) == pc[t] = "P" \/ iter[t] # <<>>

\* Every task is on exactly the list its state says, once: a READY or RUNNING
\* task on the run queue, a SLEEPING one on the wait queue it waits on, a ZOMBIE
\* on delq.  The idle task is on no list.  The code keeps the two in step by
\* hand in sleep_on, task_to_runq, do_exit and flush_delq.
QueuesMatchStates ==
  /\ IsInjective(runq)
  /\ IsInjective(delq)
  /\ \A q \in Queue : IsInjective(waitq[q])
  /\ Range(runq) = {t \in Task \ {Idle} : state[t] \in {"READY", "RUNNING"}}
  /\ Range(delq) = {t \in Task : state[t] = "ZOMBIE"}
  /\ Range(waitq["pagesem"]) = {t \in Task : state[t] = "SLEEPING" /\ InSemP(t)}
  /\ Range(waitq["floppyq"]) = {t \in Task : state[t] = "SLEEPING" /\ ~InSemP(t)}

\* The CPU is where the lists say: nobody but the current task is RUNNING, it is
\* the first on the run queue unless it is the idle task or has just exited, and
\* it is never a task whose page has been given back.
CurrentIsHead ==
  /\ \A t \in Task : state[t] = "RUNNING" => t = current
  /\ state[current] \in {"RUNNING", "ZOMBIE"}
  /\ state[current] = "ZOMBIE" <=> pc[current] = "exit"
  /\ current # Idle /\ state[current] = "RUNNING" =>
       runq # <<>> /\ Head(runq) = current

\* pagesem protects the free list: one task at most is between its sem_P and
\* sem_V, and the value says whether there is one.
PagesemExcludes ==
  /\ \A t, u \in Task : pc[t] = "alloc" /\ pc[u] = "alloc" => t = u
  /\ val = IF \E t \in Task : pc[t] = "alloc" THEN 0 ELSE 1

\* Pages in the hands of a task that allocates one, and pages in the hands of a
\* flush_delq that has still to put them on the free list.
InHand == {p \in Task : \E t \in Task : got[t] = p}

BeingFreed ==
  {p \in Task : \E t \in Task : \E i \in DOMAIN iter[t] : iter[t][i].z = p}

\* A page that holds no task is on the free list, in the hands of one allocating
\* task or in the hands of one flush_delq, and in one of these places only: no
\* page is lost, handed out twice or freed twice.
PagesConserved ==
  /\ IsInjective(free_list)
  /\ \A t, u \in Task : got[t] = got[u] /\ got[t] # NULL => t = u
  /\ \A t, u \in Task : \A i \in DOMAIN iter[t], j \in DOMAIN iter[u] :
       iter[t][i].z = iter[u][j].z /\ iter[t][i].z # NULL => t = u /\ i = j
  /\ Range(free_list) \cap InHand = {}
  /\ Range(free_list) \cap BeingFreed = {}
  /\ InHand \cap BeingFreed = {}
  /\ {p \in Task : state[p] = "FREE"} = Range(free_list) \cup InHand \cup BeingFreed

\* A task's state follows where it is in the code: it is a ZOMBIE exactly from
\* do_exit until its page is freed, READY until it first runs, and only a live
\* task has a page in hand or flush_delq on its stack.  sched() relies on it when
\* it turns the task it leaves from RUNNING to READY and leaves any other state.
ControlInv ==
  /\ state[Idle] \in {"RUNNING", "READY"}
  /\ pc[Idle] = "run"
  /\ \A t \in Task : pc[t] = "none" <=> state[t] = "FREE"
  /\ \A t \in Task : pc[t] = "exit" <=> state[t] = "ZOMBIE"
  /\ \A t \in Task : pc[t] = "new" => state[t] = "READY"
  /\ \A t \in Task : pc[t] \in {"new", "none", "exit"} => iter[t] = <<>>
  /\ \A t \in Task : got[t] # NULL => pc[t] = "got"
  /\ insched => state[current] = "RUNNING"

\* The inductive invariant.  The lists can only be kept in step with the states
\* if the page a task is about to turn into a new task is free and in nobody
\* else's hands, and if the control points agree with the states.
IInv ==
  /\ TypeOK
  /\ QueuesMatchStates
  /\ CurrentIsHead
  /\ PagesemExcludes
  /\ PagesConserved
  /\ ControlInv

\* The task is in the loop of sem_P, in alloc_pages or in some activation of
\* flush_delq on its stack, and will look at pagesem when it runs.
WaitsForPagesem(t) ==
  pc[t] = "P" \/ \E i \in DOMAIN iter[t] : iter[t][i].z # NULL

\* No wake-up is lost: when pagesem is free and tasks sleep on it, another one
\* that was woken for it is on its way to take it (sem_V wakes one sleeper, and
\* any task may take the semaphore before that sleeper runs).
NoLostWakeup ==
  val > 0 /\ waitq["pagesem"] # <<>> =>
    \E t \in Task : state[t] \in {"READY", "RUNNING"} /\ WaitsForPagesem(t)

\* What keeps it true: a task asleep in sem_P(&pagesem) still wants the semaphore,
\* so the one that sem_V wakes does.
SleepersWait ==
  \A t \in Task : state[t] = "SLEEPING" /\ InSemP(t) => WaitsForPagesem(t)

WakeupInv == SleepersWait /\ NoLostWakeup

\* sched() implements a work-conserving scheduler for one CPU: the idle task gets
\* the CPU only when nobody else can use it, an exited task never gets it again
\* and its page, which holds the kernel stack, is taken back only after the CPU
\* has left it.
Abs == INSTANCE AbsSched
ImplementsAbsSched == Abs!Spec

\* Round robin: a task that is ready to run is run, whatever the others do.
ReadyTaskRuns ==
  \A t \in Task \ {Idle} : state[t] = "READY" ~> (current = t \/ panicked)

\* A task that sleeps on pagesem is woken: the wait queue is first in, first out,
\* and every holder gives the semaphore back.
SleeperWoken ==
  \A t \in Task : t \in Range(waitq["pagesem"]) ~> state[t] = "READY"

\* What BUG_ON(tsk->state != TASK_ZOMBIE) in flush_delq asserts: the entry the
\* loop is about to free is a dead task that nobody has freed.
FlushFindsZombies ==
  InFlush /\ Top(current).z = NULL /\ Top(current).tmp # NULL =>
    state[Top(current).tmp] = "ZOMBIE"

\* What BUG_ON(ret->state == TASK_SLEEPING) in get_next_task asserts of the task
\* it falls back on: idle always has something to run, itself.
IdleNeverSleeps ==
  ~(InFlush /\ current = Idle /\ Top(Idle).z # NULL /\ sem_P_waits)
=============================================================================
