----------------------------- MODULE TaskSwitch -----------------------------
(***************************************************************************)
(* The state of a task in the hardware (arch-ia32/task.c): each task has a *)
(* TSS, the GDT has two entries for TSSs that take turns, and exec leaves  *)
(* the old state of its task in a scratch TSS.  A register state is a      *)
(* record: privilege (cs), data segment, interrupt flag, eax, the label pc *)
(* of the code and a counter n for the progress made in it.  frame is what *)
(* a system call has put on the kernel stack of its task.                  *)
(***************************************************************************)
EXTENDS Integers

CONSTANTS Tasks, Idle,    \* Idle is the task that boots
          MaxWork,        \* progress of one task
          MaxExec,        \* execs of one task
          NULL

TSS0 == 5
TSS1 == 6
Scratch == "scratch"

Labels == {"idle", "kthread", "forked", "user", "syscall", "return", "exec_tr", "exec_scratch", "exec_jump"}
Register == [cs : {0, 3}, ds : {0, 3}, ie : {0, 1}, eax : Int, pc : Labels, n : Int]
\* The idle task is the one that boots, and no task has the scratch TSS.
ASSUME SwitchAssumption ==
  Idle \notin Tasks /\ Scratch \notin Tasks \cup {Idle} /\ NULL \notin Register \cup Tasks \cup {Idle}

VARIABLES current, r, tr, gdt, tss, frame, local, execs, mine, fault
vars == <<current, r, tr, gdt, tss, frame, local, execs, mine, fault>>

Regs(c, d, l, k) == [cs |-> c, ds |-> d, ie |-> 1, eax |-> 0, pc |-> l, n |-> k]
\* ia32_gdt_finalize: the idle task is the first in TSS0.
Init ==
  /\ current = Idle /\ r = Regs(0, 0, "idle", 0)
  /\ tr = [sel |-> TSS0, base |-> Idle]
  /\ gdt = [i \in {TSS0, TSS1} |-> IF i = TSS0 THEN [base |-> Idle, busy |-> TRUE] ELSE [base |-> NULL, busy |-> FALSE]]
  /\ tss = [t \in Tasks \cup {Idle, Scratch} |-> NULL]
  /\ frame = [t \in Tasks |-> NULL] /\ local = [t \in Tasks |-> NULL] /\ execs = [t \in Tasks |-> 0]
  /\ mine = [t \in Tasks \cup {Idle} |-> IF t = Idle THEN r ELSE NULL] /\ fault = FALSE

\* What the task does to its own registers.
Own(x) == r' = x /\ mine' = [mine EXCEPT ![current] = x]
At(c, l) == ~fault /\ r.cs = c /\ r.pc = l
Still == UNCHANGED <<current, tr, gdt, tss, frame, local, execs, fault>>

-----------------------------------------------------------------------------
(* ljmp to a TSS selector, with the entry just written (g): the CPU saves  *)
(* its registers where tr points to, and loads the others.                 *)
ljmp(i, g, saved) ==
  /\ IF g[i].busy THEN fault' = TRUE /\ UNCHANGED <<r, tr, gdt, tss>>
     ELSE LET m == [saved EXCEPT ![tr.base] = r]
          IN  /\ tss' = m /\ r' = m[g[i].base] /\ tr' = [sel |-> i, base |-> g[i].base] /\ UNCHANGED fault
              /\ gdt' = [j \in {TSS0, TSS1} |-> [g[j] EXCEPT !.busy = (j = i)]]
Other(i) == IF i = TSS0 THEN TSS1 ELSE TSS0
stnd_desc(t) == [base |-> t, busy |-> FALSE]
switch_task(next) == LET i == Other(tr.sel) IN ljmp(i, [gdt EXCEPT ![i] = stnd_desc(next)], tss)
\* An interrupt, or the task itself, comes to sched, which picks another task.
sched(next) ==
  /\ ~fault /\ r.ie = 1 /\ next # current /\ mine[next] # NULL
  /\ switch_task(next) /\ current' = next /\ UNCHANGED <<frame, local, execs, mine>>

-----------------------------------------------------------------------------
(* New tasks.                                                              *)
task_init_kthread(t) ==
  /\ At(0, "idle") /\ mine[t] = NULL
  /\ LET x == Regs(0, 0, "kthread", 0) IN tss' = [tss EXCEPT ![t] = x] /\ mine' = [mine EXCEPT ![t] = x]
  /\ UNCHANGED <<current, r, tr, gdt, frame, local, execs, fault>>
\* The child starts in ret_from_fork_in_child, eax holding the data segment,
\* with a copy of the parent's frame whose eax is 0 and, if fork was given a
\* function, whose eip is that.
task_clone(t, ip) ==
  /\ frame' = [frame EXCEPT ![t] = [frame[current] EXCEPT !.eax = 0, !.n = IF ip = NULL THEN @ ELSE ip]]
  /\ tss' = [tss EXCEPT ![t] = [Regs(0, 0, "forked", 0) EXCEPT !.eax = frame[current].cs]]
fork(t, ip) ==
  /\ At(0, "syscall") /\ mine[t] = NULL /\ task_clone(t, ip)
  /\ LET x == [r EXCEPT !.pc = "return", !.eax = 1]
     IN  r' = x /\ mine' = [mine EXCEPT ![current] = x, ![t] = [Regs(0, 0, "forked", 0) EXCEPT !.eax = 3]]
  /\ UNCHANGED <<current, tr, gdt, local, execs, fault>>
\* What the child's iret has to get from the copy: the state of the parent as
\* it entered fork, but for eax.
ret_from_fork_in_child ==
  /\ At(0, "forked") /\ r' = [frame[current] EXCEPT !.ds = r.eax]
  /\ mine' = [mine EXCEPT ![current] = Regs(3, 3, "user", frame[current].n)]
  /\ Still

-----------------------------------------------------------------------------
(* The tasks at work, and their system calls.                              *)
Work == ~fault /\ r.pc \in {"user", "kthread"} /\ r.n < MaxWork /\ Own([r EXCEPT !.n = @ + 1, !.eax = 2]) /\ Still
syscall ==
  /\ At(3, "user") /\ frame' = [frame EXCEPT ![current] = r]
  /\ Own([Regs(0, 0, "syscall", r.n) EXCEPT !.eax = r.eax])
  /\ UNCHANGED <<current, tr, gdt, tss, local, execs, fault>>
sysret == At(0, "return") /\ Own([frame[current] EXCEPT !.eax = r.eax]) /\ Still

-----------------------------------------------------------------------------
(* task_init_exec, in the steps that an interrupt could come between.      *)
cli_not(x) == x
cli(x) == [x EXCEPT !.ie = 0]
exec ==
  /\ At(0, "syscall") \/ At(0, "kthread")
  /\ execs[current] < MaxExec /\ execs' = [execs EXCEPT ![current] = @ + 1]
  /\ Own(cli([r EXCEPT !.pc = "exec_tr"]))
  /\ UNCHANGED <<current, tr, gdt, tss, frame, local, fault>>
store_tr ==
  /\ At(0, "exec_tr") /\ local' = [local EXCEPT ![current] = tr.sel] /\ Own([r EXCEPT !.pc = "exec_scratch"])
  /\ UNCHANGED <<current, tr, gdt, tss, frame, execs, fault>>
load_tr ==
  LET i == Other(local[current]) IN
  /\ At(0, "exec_scratch") /\ Own([r EXCEPT !.pc = "exec_jump"])
  /\ gdt' = [gdt EXCEPT ![i] = [base |-> Scratch, busy |-> TRUE]] /\ tr' = [sel |-> i, base |-> Scratch]
  /\ UNCHANGED <<current, tss, frame, local, execs, fault>>
task_init_exec ==
  LET x == Regs(3, 3, "user", 0)
      i == local[current]
  IN  /\ At(0, "exec_jump")
      /\ ljmp(i, [gdt EXCEPT ![i] = stnd_desc(current)], [tss EXCEPT ![current] = x])
      /\ mine' = [mine EXCEPT ![current] = x] /\ UNCHANGED <<current, frame, local, execs>>

Next ==
  \/ Work \/ syscall \/ sysret \/ ret_from_fork_in_child
  \/ exec \/ store_tr \/ load_tr \/ task_init_exec
  \/ \E t \in Tasks : task_init_kthread(t)
  \/ \E t \in Tasks, ip \in {NULL, 0} : fork(t, ip)
  \/ \E t \in Tasks \cup {Idle} : sched(t)
Spec == Init /\ [][Next]_vars

-----------------------------------------------------------------------------
\* The running task has its own registers: those it had when it was switched
\* from, those it was created with, or those of a fresh program after exec, in
\* whatever order tasks switch, fork and exec.
OwnRegisters == r = mine[current]

\* Every other task's registers are in its own TSS, and the task register names
\* the TSS of the running task (of nobody between load_tr and the jump).
SavedRegisters ==
  /\ \A t \in Tasks \cup {Idle} : t # current /\ mine[t] # NULL => tss[t] = mine[t]
  /\ tr.base = IF r.pc = "exec_jump" THEN Scratch ELSE current

\* The entry that is jumped to is never the busy one.
NoFault == ~fault

-----------------------------------------------------------------------------
(* The inductive invariant.  A task's registers fit the code it is in, a   *)
(* task is never switched from inside task_init_exec, and what it stored   *)
(* of the task register there is still true when it is used.               *)
Everyone == Tasks \cup {Idle}
TypeOK ==
  /\ current \in Everyone /\ r \in Register /\ fault \in BOOLEAN
  /\ tr \in [sel : {TSS0, TSS1}, base : Everyone \cup {Scratch}]
  /\ gdt \in [{TSS0, TSS1} -> [base : Everyone \cup {Scratch, NULL}, busy : BOOLEAN]]
  /\ tss \in [Everyone \cup {Scratch} -> Register \cup {NULL}]
  /\ frame \in [Tasks -> Register \cup {NULL}]
  /\ local \in [Tasks -> {TSS0, TSS1, NULL}]
  /\ mine \in [Everyone -> Register \cup {NULL}]

\* What a system call has put on the stack: the registers of a user program.
UserFrame == {x \in Register : x.cs = 3 /\ x.ds = 3 /\ x.ie = 1 /\ x.pc = "user"}
Fits(t, x) ==
  /\ x.pc = "idle" <=> t = Idle
  /\ x.cs = (IF x.pc = "user" THEN 3 ELSE 0) /\ x.ds = x.cs
  /\ x.ie = 0 <=> x.pc \in {"exec_tr", "exec_scratch", "exec_jump"}
  /\ x.pc \in {"syscall", "return", "forked"} => frame[t] \in UserFrame
  /\ x.pc = "forked" => x.eax = 3 /\ frame[t].eax = 0
RegistersFit == \A t \in Everyone : mine[t] # NULL => Fits(t, mine[t])

\* Interrupts are off in task_init_exec, so sched never leaves a task there.
ExecNotLeft ==
  /\ \A t \in Everyone : t # current /\ mine[t] # NULL => mine[t].ie = 1
  /\ r.pc = "exec_scratch" => local[current] = tr.sel
  /\ r.pc = "exec_jump" => local[current] = Other(tr.sel)

IInv == TypeOK /\ NoFault /\ OwnRegisters /\ SavedRegisters /\ RegistersFit /\ ExecNotLeft
=============================================================================
