-------------------------- MODULE TaskSwitchProofs --------------------------
(***************************************************************************)
(* Task switches keep every task's registers apart, for any number of      *)
(* tasks and any amount of work and of execs.                              *)
(***************************************************************************)
EXTENDS TaskSwitch, TLAPS

\* ia32_gdt_finalize leaves the invariant true.
LEMMA SwitchInit ==
  ASSUME Init
  PROVE  IInv
<1>1. r = [cs |-> 0, ds |-> 0, ie |-> 1, eax |-> 0, pc |-> "idle", n |-> 0] /\ r \in Register
  BY DEF Init, Regs, Register, Labels
<1>2. current = Idle /\ mine[Idle] = r /\ \A t \in Everyone : t # Idle => mine[t] = NULL
  BY DEF Init, Everyone
<1>3. TypeOK
  <2>1. /\ current \in Everyone /\ r \in Register /\ fault \in BOOLEAN
        /\ tr \in [sel : {TSS0, TSS1}, base : Everyone \cup {Scratch}]
        /\ frame \in [Tasks -> Register \cup {NULL}]
        /\ local \in [Tasks -> {TSS0, TSS1, NULL}]
    BY <1>1, <1>2 DEF Init, Everyone
  <2>2. /\ gdt \in [{TSS0, TSS1} -> [base : Everyone \cup {Scratch, NULL}, busy : BOOLEAN]]
        /\ tss \in [Everyone \cup {Scratch} -> Register \cup {NULL}]
    BY DEF Init, Everyone
  <2>3. mine \in [Everyone -> Register \cup {NULL}]
    BY <1>1 DEF Init, Everyone
  <2> QED
    BY <2>1, <2>2, <2>3 DEF TypeOK
<1>4. NoFault /\ OwnRegisters
  BY <1>2 DEF Init, NoFault, OwnRegisters
<1>5. SavedRegisters
  <2>1. \A t \in Tasks \cup {Idle} : t # current /\ mine[t] # NULL => tss[t] = mine[t]
    BY <1>2 DEF Everyone
  <2>2. tr.base = current
    BY DEF Init
  <2>3. r.pc # "exec_jump"
    BY <1>1
  <2> QED
    BY <2>1, <2>2, <2>3 DEF SavedRegisters
<1>6. RegistersFit
  BY <1>1, <1>2 DEF RegistersFit, Fits
<1>7. ExecNotLeft
  BY <1>1, <1>2 DEF ExecNotLeft
<1> QED
  BY <1>3, <1>4, <1>5, <1>6, <1>7 DEF IInv

\* A step in which the running task changes its own registers, to ones that fit
\* the code it goes to, touches nobody else's.
LEMMA OwnStep ==
  ASSUME IInv, NEW c, c = current, NEW x \in Register,
         r' = x, mine' = [mine EXCEPT ![c] = x], UNCHANGED <<current, tss, fault>>,
         tr' \in [sel : {TSS0, TSS1}, base : Everyone \cup {Scratch}],
         gdt' \in [{TSS0, TSS1} -> [base : Everyone \cup {Scratch, NULL}, busy : BOOLEAN]],
         frame' \in [Tasks -> Register \cup {NULL}], \A t \in Tasks : t # c => frame'[t] = frame[t],
         local' \in [Tasks -> {TSS0, TSS1, NULL}],
         Fits(c, x)', tr'.base = IF x.pc = "exec_jump" THEN Scratch ELSE c,
         x.pc = "exec_scratch" => local'[c] = tr'.sel,
         x.pc = "exec_jump" => local'[c] = Other(tr'.sel)
  PROVE  IInv'
<1>1. TypeOK
  BY DEF IInv
<1>2. c \in Everyone /\ mine'[c] = x /\ \A t \in Everyone : t # c => mine'[t] = mine[t]
  BY <1>1 DEF TypeOK
<1>3. TypeOK'
  BY <1>1 DEF TypeOK
<1>4. NoFault' /\ OwnRegisters'
  BY <1>2 DEF IInv, NoFault, OwnRegisters
<1>5. SavedRegisters'
  BY <1>2 DEF IInv, SavedRegisters, Everyone
<1>6. RegistersFit'
  <2> SUFFICES ASSUME NEW t \in Everyone, mine'[t] # NULL PROVE Fits(t, mine[t])'
    BY DEF RegistersFit
  <2>1. CASE t = c
    BY <1>2, <2>1
  <2>2. CASE t # c
    <3>1. mine[t] # NULL /\ mine'[t] = mine[t]
      BY <1>2, <2>2
    <3>2. Fits(t, mine[t])
      BY <3>1 DEF IInv, RegistersFit
    <3>3. mine[t].pc \in {"syscall", "return", "forked"} => t \in Tasks
      BY <3>2 DEF Fits, Everyone
    <3> QED
      BY <2>2, <3>1, <3>2, <3>3 DEF Fits
  <2> QED
    BY <2>1, <2>2
<1>7. ExecNotLeft'
  BY <1>2 DEF IInv, ExecNotLeft
<1> QED
  BY <1>3, <1>4, <1>5, <1>6, <1>7 DEF IInv

\* What the running task is known to be, in terms of its own registers.
LEMMA Running ==
  ASSUME IInv
  PROVE  /\ TypeOK /\ ~fault /\ r \in Register /\ mine[current] = r /\ r # NULL
         /\ Fits(current, r) /\ (r.pc # "idle" => current \in Tasks)
         /\ tr.base = IF r.pc = "exec_jump" THEN Scratch ELSE current
<1>1. /\ TypeOK /\ ~fault /\ mine[current] = r /\ RegistersFit
      /\ tr.base = IF r.pc = "exec_jump" THEN Scratch ELSE current
  BY DEF IInv, NoFault, OwnRegisters, SavedRegisters
<1>2. r \in Register /\ current \in Everyone
  BY <1>1 DEF TypeOK
<1>3. r # NULL
  BY <1>2, SwitchAssumption
<1>4. Fits(current, r)
  BY <1>1, <1>2, <1>3 DEF RegistersFit
<1>5. r.pc # "idle" => current \in Tasks
  BY <1>2, <1>4 DEF Fits, Everyone
<1> QED
  BY <1>1, <1>2, <1>3, <1>4, <1>5

\* The steps of a task on its own: work, system calls and their return.
LEMMA CallStep ==
  ASSUME IInv, Work \/ syscall \/ sysret \/ ret_from_fork_in_child
  PROVE  IInv'
<1>a. PICK c : c = current
  OBVIOUS
<1>1. /\ TypeOK /\ ~fault /\ r \in Register /\ mine[c] = r /\ Fits(c, r)
      /\ (r.pc # "idle" => c \in Tasks)
      /\ tr.base = IF r.pc = "exec_jump" THEN Scratch ELSE c
  BY <1>a, Running
<1>2. /\ tr \in [sel : {TSS0, TSS1}, base : Everyone \cup {Scratch}]
      /\ gdt \in [{TSS0, TSS1} -> [base : Everyone \cup {Scratch, NULL}, busy : BOOLEAN]]
      /\ frame \in [Tasks -> Register \cup {NULL}]
      /\ local \in [Tasks -> {TSS0, TSS1, NULL}]
      /\ mine \in [Everyone -> Register \cup {NULL}]
      /\ c \in Everyone
  BY <1>1, <1>a DEF TypeOK
<1>3. UNCHANGED <<current, tr, gdt, tss, local, fault>>
  BY DEF Work, syscall, sysret, ret_from_fork_in_child, Still
<1>4. CASE Work
  <2>x. PICK x : x = [r EXCEPT !.n = @ + 1, !.eax = 2]
    OBVIOUS
  <2>1. r' = x /\ mine' = [mine EXCEPT ![c] = x] /\ frame' = frame /\ r.pc \in {"user", "kthread"}
    BY <1>4, <1>a, <2>x DEF Work, Own, Still
  <2>a. PICK k \in Int : k = r.n + 1
    BY <1>1 DEF Register
  <2>b. x = [r EXCEPT !.n = k, !.eax = 2]
    BY <2>a, <2>x
  <2>2. x \in Register /\ x.pc = r.pc /\ x.cs = r.cs /\ x.ds = r.ds /\ x.ie = r.ie
    <3>1. r \in Register
      BY <1>1
    <3>2. x = [cs |-> r.cs, ds |-> r.ds, ie |-> r.ie, eax |-> 2, pc |-> r.pc, n |-> k]
      BY <2>b, <3>1 DEF Register
    <3>3. x \in Register
      BY <3>1, <3>2 DEF Register
    <3> QED
      BY <3>2, <3>3
  <2>3. Fits(c, x)'
    BY <1>1, <2>1, <2>2 DEF Fits
  <2> QED
    BY <1>1, <1>2, <1>3, <1>a, <2>1, <2>2, <2>3, OwnStep
<1>5. CASE syscall
  <2>x. PICK x : x = [Regs(0, 0, "syscall", r.n) EXCEPT !.eax = r.eax]
    OBVIOUS
  <2>1. /\ r' = x /\ mine' = [mine EXCEPT ![c] = x] /\ frame' = [frame EXCEPT ![c] = r]
        /\ r.cs = 3 /\ r.pc = "user"
    BY <1>5, <1>a, <2>x DEF syscall, Own, At
  <2>2. x \in Register /\ x.pc = "syscall" /\ x.cs = 0 /\ x.ds = 0 /\ x.ie = 1
    BY <1>1, <2>x DEF Register, Regs, Labels
  <2>3. frame' \in [Tasks -> Register \cup {NULL}] /\ \A t \in Tasks : t # c => frame'[t] = frame[t]
    BY <1>1, <1>2, <2>1
  <2>4. frame'[c] = r /\ r \in UserFrame /\ c # Idle
    BY <1>1, <1>2, <2>1 DEF Fits, UserFrame, Register
  <2>5. Fits(c, x)'
    BY <2>2, <2>4 DEF Fits
  <2> QED
    BY <1>1, <1>2, <1>3, <1>a, <2>1, <2>2, <2>3, <2>5, OwnStep
<1>6. CASE sysret
  <2>x. PICK x : x = [frame[c] EXCEPT !.eax = r.eax]
    OBVIOUS
  <2>1. r' = x /\ mine' = [mine EXCEPT ![c] = x] /\ frame' = frame /\ r.pc = "return"
    BY <1>6, <1>a, <2>x DEF sysret, Own, At, Still
  <2>2. frame[c] \in UserFrame /\ c # Idle
    BY <1>1, <2>1 DEF Fits
  <2>3. x \in Register /\ x.pc = "user" /\ x.cs = 3 /\ x.ds = 3 /\ x.ie = 1
    BY <1>1, <2>2, <2>x DEF Register, UserFrame
  <2>4. Fits(c, x)'
    BY <2>2, <2>3 DEF Fits
  <2> QED
    BY <1>1, <1>2, <1>3, <1>a, <2>1, <2>3, <2>4, OwnStep
<1>7. CASE ret_from_fork_in_child
  <2>x. PICK x : x = Regs(3, 3, "user", frame[c].n)
    OBVIOUS
  <2>1. /\ r' = [frame[c] EXCEPT !.ds = r.eax] /\ mine' = [mine EXCEPT ![c] = x] /\ frame' = frame
        /\ r.pc = "forked"
    BY <1>7, <1>a, <2>x DEF ret_from_fork_in_child, At, Still
  <2>2. frame[c] \in UserFrame /\ c # Idle /\ r.eax = 3 /\ frame[c].eax = 0
    BY <1>1, <2>1 DEF Fits
  <2>3. [frame[c] EXCEPT !.ds = r.eax] = x
    BY <2>2, <2>x DEF UserFrame, Register, Regs
  <2>4. x \in Register /\ x.pc = "user" /\ x.cs = 3 /\ x.ds = 3 /\ x.ie = 1
    BY <2>2, <2>x DEF Register, UserFrame, Regs, Labels
  <2>5. Fits(c, x)'
    BY <2>2, <2>4 DEF Fits
  <2> QED
    BY <1>1, <1>2, <1>3, <1>a, <2>1, <2>3, <2>4, <2>5, OwnStep
<1> QED
  BY <1>4, <1>5, <1>6, <1>7

\* task_init_exec up to the jump, with interrupts off.
LEMMA ExecStep ==
  ASSUME IInv, exec \/ store_tr \/ load_tr
  PROVE  IInv'
<1>a. PICK c : c = current
  OBVIOUS
<1>1. /\ TypeOK /\ ~fault /\ r \in Register /\ mine[c] = r /\ Fits(c, r)
      /\ (r.pc # "idle" => c \in Tasks)
      /\ tr.base = IF r.pc = "exec_jump" THEN Scratch ELSE c
  BY <1>a, Running
<1>2. /\ tr \in [sel : {TSS0, TSS1}, base : Everyone \cup {Scratch}]
      /\ gdt \in [{TSS0, TSS1} -> [base : Everyone \cup {Scratch, NULL}, busy : BOOLEAN]]
      /\ frame \in [Tasks -> Register \cup {NULL}]
      /\ local \in [Tasks -> {TSS0, TSS1, NULL}]
      /\ c \in Everyone
  BY <1>1, <1>a DEF TypeOK
<1>3. UNCHANGED <<current, tss, frame, fault>>
  BY DEF exec, store_tr, load_tr
<1>4. CASE exec
  <2>x. PICK x : x = [r EXCEPT !.pc = "exec_tr", !.ie = 0]
    OBVIOUS
  <2>1. /\ r' = x /\ mine' = [mine EXCEPT ![c] = x] /\ UNCHANGED <<tr, gdt, local>>
        /\ r.pc \in {"syscall", "kthread"}
    BY <1>1, <1>4, <1>a, <2>x DEF exec, Own, At, cli, Register
  <2>2. x \in Register /\ x.pc = "exec_tr" /\ x.cs = r.cs /\ x.ds = r.ds /\ x.ie = 0
    BY <1>1, <2>x DEF Register, Labels
  <2>3. Fits(c, x)'
    BY <1>1, <2>1, <2>2 DEF Fits
  <2> QED
    BY <1>1, <1>2, <1>3, <1>a, <2>1, <2>2, <2>3, OwnStep
<1>5. CASE store_tr
  <2>x. PICK x : x = [r EXCEPT !.pc = "exec_scratch"]
    OBVIOUS
  <2>1. /\ r' = x /\ mine' = [mine EXCEPT ![c] = x] /\ UNCHANGED <<tr, gdt>>
        /\ local' = [local EXCEPT ![c] = tr.sel] /\ r.pc = "exec_tr"
    BY <1>5, <1>a, <2>x DEF store_tr, Own, At
  <2>2. x \in Register /\ x.pc = "exec_scratch" /\ x.cs = r.cs /\ x.ds = r.ds /\ x.ie = r.ie
    BY <1>1, <2>x DEF Register, Labels
  <2>3. Fits(c, x)'
    BY <1>1, <2>1, <2>2 DEF Fits
  <2>4. local' \in [Tasks -> {TSS0, TSS1, NULL}] /\ local'[c] = tr'.sel
    BY <1>1, <1>2, <2>1
  <2> QED
    BY <1>1, <1>2, <1>3, <1>a, <2>1, <2>2, <2>3, <2>4, OwnStep
<1>6. CASE load_tr
  <2>x. PICK x : x = [r EXCEPT !.pc = "exec_jump"]
    OBVIOUS
  <2>i. PICK i : i = Other(local[c])
    OBVIOUS
  <2>1. /\ r' = x /\ mine' = [mine EXCEPT ![c] = x] /\ local' = local /\ r.pc = "exec_scratch"
        /\ gdt' = [gdt EXCEPT ![i] = [base |-> Scratch, busy |-> TRUE]]
        /\ tr' = [sel |-> i, base |-> Scratch]
    BY <1>6, <1>a, <2>x, <2>i DEF load_tr, Own, At
  <2>2. x \in Register /\ x.pc = "exec_jump" /\ x.cs = r.cs /\ x.ds = r.ds /\ x.ie = r.ie
    BY <1>1, <2>x DEF Register, Labels
  <2>3. local[c] = tr.sel
    BY <1>a, <2>1 DEF IInv, ExecNotLeft
  <2>4. i \in {TSS0, TSS1} /\ local[c] = Other(i)
    BY <1>2, <2>3, <2>i DEF Other, TSS0, TSS1
  <2>5. Fits(c, x)'
    BY <1>1, <1>3, <2>1, <2>2 DEF Fits
  <2>6. /\ tr' \in [sel : {TSS0, TSS1}, base : Everyone \cup {Scratch}]
        /\ gdt' \in [{TSS0, TSS1} -> [base : Everyone \cup {Scratch, NULL}, busy : BOOLEAN]]
    BY <1>2, <2>1, <2>4
  <2>7. tr'.base = Scratch /\ local'[c] = Other(tr'.sel)
    BY <2>1, <2>4
  <2> QED
    BY <1>1, <1>2, <1>3, <1>a, <2>1, <2>2, <2>5, <2>6, <2>7, OwnStep
<1> QED
  BY <1>4, <1>5, <1>6

\* The jump of task_init_exec: the old state goes to the scratch TSS, the new one
\* comes from the task's own.
LEMMA ExecJumpStep ==
  ASSUME IInv, task_init_exec
  PROVE  IInv'
<1>a. PICK c : c = current
  OBVIOUS
<1>x. PICK x : x = Regs(3, 3, "user", 0)
  OBVIOUS
<1>i. PICK i : i = local[c]
  OBVIOUS
<1>1. /\ TypeOK /\ ~fault /\ mine[c] = r /\ r \in Register /\ r.pc = "exec_jump" /\ c \in Tasks
      /\ tr.base = Scratch
  BY <1>a, Running DEF task_init_exec, At
<1>2. /\ gdt \in [{TSS0, TSS1} -> [base : Everyone \cup {Scratch, NULL}, busy : BOOLEAN]]
      /\ tss \in [Everyone \cup {Scratch} -> Register \cup {NULL}]
      /\ mine \in [Everyone -> Register \cup {NULL}]
      /\ c \in Everyone /\ Scratch \notin Everyone /\ tr.sel \in {TSS0, TSS1}
      /\ frame \in [Tasks -> Register \cup {NULL}]
      /\ local \in [Tasks -> {TSS0, TSS1, NULL}]
  BY <1>1, <1>a, SwitchAssumption DEF TypeOK, Everyone
<1>3. i \in {TSS0, TSS1}
  BY <1>1, <1>2, <1>a, <1>i DEF IInv, ExecNotLeft, Other
<1>4. x \in Register /\ x.pc = "user" /\ x.cs = 3 /\ x.ds = 3 /\ x.ie = 1
  BY <1>x DEF Register, Regs, Labels
<1>g. PICK g : g = [gdt EXCEPT ![i] = [base |-> c, busy |-> FALSE]]
  OBVIOUS
<1>m. PICK m : m = [[tss EXCEPT ![c] = x] EXCEPT ![Scratch] = r]
  OBVIOUS
<1>5. /\ g \in [{TSS0, TSS1} -> [base : Everyone \cup {Scratch, NULL}, busy : BOOLEAN]]
      /\ g[i].base = c /\ g[i].busy = FALSE
  BY <1>2, <1>3, <1>g
<1>6. /\ m \in [Everyone \cup {Scratch} -> Register \cup {NULL}]
      /\ m[c] = x /\ \A t \in Everyone : t # c => m[t] = tss[t]
  BY <1>1, <1>2, <1>4, <1>m
<1>7. /\ ljmp(i, g, [tss EXCEPT ![c] = x]) /\ mine' = [mine EXCEPT ![c] = x]
      /\ UNCHANGED <<current, frame, local, execs>>
  BY <1>a, <1>i, <1>x, <1>g DEF task_init_exec, stnd_desc
<1>8. /\ tss' = m /\ r' = m[c] /\ tr' = [sel |-> i, base |-> c] /\ fault' = fault
      /\ gdt' = [j \in {TSS0, TSS1} |-> [g[j] EXCEPT !.busy = (j = i)]]
  BY <1>1, <1>5, <1>7, <1>m DEF ljmp
<1>9. mine'[c] = x /\ \A t \in Everyone : t # c => mine'[t] = mine[t]
  BY <1>2, <1>7
<1>10. TypeOK'
  <2>1. tr' \in [sel : {TSS0, TSS1}, base : Everyone \cup {Scratch}]
    BY <1>2, <1>3, <1>8
  <2>2. gdt' \in [{TSS0, TSS1} -> [base : Everyone \cup {Scratch, NULL}, busy : BOOLEAN]]
    BY <1>5, <1>8
  <2>3. mine' \in [Everyone -> Register \cup {NULL}]
    BY <1>2, <1>4, <1>7
  <2> QED
    BY <1>2, <1>1, <1>4, <1>6, <1>7, <1>8, <1>a, <2>1, <2>2, <2>3 DEF TypeOK
<1>11. NoFault' /\ OwnRegisters'
  BY <1>1, <1>6, <1>7, <1>8, <1>9, <1>a DEF NoFault, OwnRegisters
<1>12. SavedRegisters'
  <2>1. \A t \in Everyone : t # c /\ mine[t] # NULL => tss[t] = mine[t]
    BY <1>a DEF IInv, SavedRegisters, Everyone
  <2> QED
    BY <1>4, <1>6, <1>7, <1>8, <1>9, <1>a, <2>1 DEF SavedRegisters, Everyone
<1>13. RegistersFit'
  <2>1. \A t \in Everyone : t # c /\ mine[t] # NULL => Fits(t, mine[t])'
    BY <1>7, <1>9 DEF IInv, RegistersFit, Fits
  <2>2. Fits(c, x)'
    BY <1>1, <1>4, SwitchAssumption DEF Fits
  <2> QED
    BY <1>9, <2>1, <2>2 DEF RegistersFit, Fits
<1>14. ExecNotLeft'
  BY <1>4, <1>6, <1>7, <1>8, <1>9, <1>a DEF IInv, ExecNotLeft
<1> QED
  BY <1>10, <1>11, <1>12, <1>13, <1>14 DEF IInv

\* sched: the registers go to the TSS of the task that is left and come from that
\* of the task that is entered, through the entry of the GDT that is not in use.
LEMMA SwitchStep ==
  ASSUME IInv, NEW next \in Everyone, sched(next)
  PROVE  IInv'
<1>a. PICK c : c = current
  OBVIOUS
<1>i. PICK i : i = Other(tr.sel)
  OBVIOUS
<1>1. /\ TypeOK /\ ~fault /\ mine[c] = r /\ r \in Register /\ r.ie = 1 /\ Fits(c, r)
      /\ next # c /\ mine[next] # NULL
      /\ tr.base = IF r.pc = "exec_jump" THEN Scratch ELSE c
  BY <1>a, Running DEF sched
<1>2. /\ gdt \in [{TSS0, TSS1} -> [base : Everyone \cup {Scratch, NULL}, busy : BOOLEAN]]
      /\ tss \in [Everyone \cup {Scratch} -> Register \cup {NULL}]
      /\ mine \in [Everyone -> Register \cup {NULL}]
      /\ c \in Everyone /\ Scratch \notin Everyone /\ tr.sel \in {TSS0, TSS1}
  BY <1>1, <1>a, SwitchAssumption DEF TypeOK, Everyone
<1>3. tr.base = c /\ r.pc # "exec_jump" /\ i \in {TSS0, TSS1}
  BY <1>1, <1>i DEF Fits, Other
<1>4. tss[next] = mine[next] /\ mine[next].ie = 1 /\ Fits(next, mine[next])
  BY <1>1, <1>a DEF IInv, SavedRegisters, ExecNotLeft, RegistersFit, Everyone
<1>g. PICK g : g = [gdt EXCEPT ![i] = [base |-> next, busy |-> FALSE]]
  OBVIOUS
<1>m. PICK m : m = [tss EXCEPT ![c] = r]
  OBVIOUS
<1>5. /\ g \in [{TSS0, TSS1} -> [base : Everyone \cup {Scratch, NULL}, busy : BOOLEAN]]
      /\ g[i].base = next /\ g[i].busy = FALSE
  BY <1>2, <1>3, <1>g
<1>6. /\ m \in [Everyone \cup {Scratch} -> Register \cup {NULL}]
      /\ m[c] = r /\ \A t \in Everyone : t # c => m[t] = tss[t]
  BY <1>1, <1>2, <1>m
<1>7. ljmp(i, g, tss) /\ current' = next /\ UNCHANGED <<frame, local, mine>>
  BY <1>g, <1>i DEF sched, switch_task, stnd_desc
<1>8. /\ tss' = m /\ r' = m[next] /\ tr' = [sel |-> i, base |-> next] /\ fault' = fault
      /\ gdt' = [j \in {TSS0, TSS1} |-> [g[j] EXCEPT !.busy = (j = i)]]
  BY <1>3, <1>5, <1>7, <1>m DEF ljmp
<1>9. r' = mine[next] /\ r' \in Register
  BY <1>1, <1>2, <1>4, <1>6, <1>8
<1>10. TypeOK'
  <2>1. tr' \in [sel : {TSS0, TSS1}, base : Everyone \cup {Scratch}]
    BY <1>3, <1>8
  <2>2. gdt' \in [{TSS0, TSS1} -> [base : Everyone \cup {Scratch, NULL}, busy : BOOLEAN]]
    BY <1>5, <1>8
  <2> QED
    BY <1>1, <1>6, <1>7, <1>8, <1>9, <2>1, <2>2 DEF TypeOK
<1>11. NoFault' /\ OwnRegisters'
  BY <1>1, <1>7, <1>8, <1>9 DEF NoFault, OwnRegisters
<1>12. SavedRegisters'
  <2>1. \A t \in Everyone : t # c /\ mine[t] # NULL => tss[t] = mine[t]
    BY <1>a DEF IInv, SavedRegisters, Everyone
  <2>2. r'.pc # "exec_jump"
    BY <1>4, <1>9 DEF Fits
  <2> QED
    BY <1>1, <1>6, <1>7, <1>8, <2>1, <2>2 DEF SavedRegisters, Everyone
<1>13. RegistersFit'
  BY <1>7 DEF IInv, RegistersFit, Fits
<1>14. ExecNotLeft'
  <2>1. r'.pc \notin {"exec_scratch", "exec_jump"}
    BY <1>4, <1>9 DEF Fits
  <2> QED
    BY <1>1, <1>7, <1>a, <2>1 DEF IInv, ExecNotLeft
<1> QED
  BY <1>10, <1>11, <1>12, <1>13, <1>14 DEF IInv

\* A new thread, and a new child with its copy of the parent's frame.
LEMMA NewTaskStep ==
  ASSUME IInv, NEW t \in Tasks, NEW ip \in {NULL, 0},
         task_init_kthread(t) \/ fork(t, ip)
  PROVE  IInv'
<1>a. PICK c : c = current
  OBVIOUS
<1>1. /\ TypeOK /\ ~fault /\ mine[c] = r /\ r \in Register /\ Fits(c, r) /\ r # NULL
      /\ (r.pc # "idle" => c \in Tasks)
      /\ tr.base = IF r.pc = "exec_jump" THEN Scratch ELSE c
  BY <1>a, Running
<1>2. /\ tss \in [Everyone \cup {Scratch} -> Register \cup {NULL}]
      /\ mine \in [Everyone -> Register \cup {NULL}]
      /\ frame \in [Tasks -> Register \cup {NULL}]
      /\ c \in Everyone /\ t \in Everyone /\ Scratch \notin Everyone /\ t # Idle
  BY <1>1, <1>a, SwitchAssumption DEF TypeOK, Everyone
<1>3. mine[t] = NULL /\ t # c /\ UNCHANGED <<current, tr, gdt, local, fault>>
  BY <1>1 DEF task_init_kthread, fork
<1>4. \E x, y \in Register, f \in Register \cup {NULL} :
        /\ tss' = [tss EXCEPT ![t] = x] /\ mine' = [mine EXCEPT ![c] = y, ![t] = x] /\ r' = y
        /\ frame' = [frame EXCEPT ![t] = f]
        /\ Fits(c, y) /\ y.pc \notin {"exec_jump", "exec_scratch"}
        /\ x.pc \in {"kthread", "forked"} /\ x.cs = 0 /\ x.ds = 0 /\ x.ie = 1
        /\ x.pc = "forked" => x.eax = 3 /\ f \in UserFrame /\ f.eax = 0
  <2>1. CASE task_init_kthread(t)
    <3>x. PICK x : x = Regs(0, 0, "kthread", 0)
      OBVIOUS
    <3>1. x \in Register /\ x.pc = "kthread" /\ x.cs = 0 /\ x.ds = 0 /\ x.ie = 1
      BY <3>x DEF Register, Regs, Labels
    <3>2. /\ tss' = [tss EXCEPT ![t] = x] /\ mine' = [mine EXCEPT ![t] = x] /\ r' = r /\ frame' = frame
          /\ r.pc = "idle"
      BY <2>1, <3>x DEF task_init_kthread, At
    <3>3. mine' = [mine EXCEPT ![c] = r, ![t] = x] /\ frame' = [frame EXCEPT ![t] = frame[t]]
      BY <1>1, <1>2, <1>3, <3>2
    <3> QED
      BY <1>1, <1>2, <3>1, <3>2, <3>3
  <2>2. CASE fork(t, ip)
    <3>x. PICK x : x = [Regs(0, 0, "forked", 0) EXCEPT !.eax = 3]
      OBVIOUS
    <3>y. PICK y : y = [r EXCEPT !.pc = "return", !.eax = 1]
      OBVIOUS
    <3>f. PICK f : f = [frame[c] EXCEPT !.eax = 0, !.n = IF ip = NULL THEN frame[c].n ELSE ip]
      OBVIOUS
    <3>1. r.pc = "syscall" /\ frame[c] \in UserFrame /\ c # Idle /\ r.cs = 0
      BY <1>1, <1>a, <2>2 DEF fork, At, Fits
    <3>2. x \in Register /\ x.pc = "forked" /\ x.cs = 0 /\ x.ds = 0 /\ x.ie = 1 /\ x.eax = 3
      BY <3>x DEF Register, Regs, Labels
    <3>3. y \in Register /\ y.pc = "return" /\ y.cs = r.cs /\ y.ds = r.ds /\ y.ie = r.ie
      <4>1. r \in Register
        BY <1>1
      <4>2. y = [cs |-> r.cs, ds |-> r.ds, ie |-> r.ie, eax |-> 1, pc |-> "return", n |-> r.n]
        BY <3>y, <4>1 DEF Register
      <4>3. y \in Register
        BY <4>1, <4>2 DEF Register, Labels
      <4> QED
        BY <4>2, <4>3
    <3>4. f \in Register /\ f.pc = "user" /\ f.cs = 3 /\ f.ds = 3 /\ f.ie = 1 /\ f.eax = 0
      <4>1. PICK k : k = IF ip = NULL THEN frame[c].n ELSE ip
        OBVIOUS
      <4>2. frame[c] \in Register /\ k \in Int
        BY <3>1, <4>1 DEF UserFrame, Register
      <4>3. f = [frame[c] EXCEPT !.eax = 0, !.n = k]
        BY <3>f, <4>1
      <4>4. f = [cs |-> frame[c].cs, ds |-> frame[c].ds, ie |-> frame[c].ie, eax |-> 0, pc |-> frame[c].pc, n |-> k]
        BY <4>2, <4>3 DEF Register
      <4>5. f \in Register
        BY <4>2, <4>4 DEF Register
      <4> QED
        BY <3>1, <4>4, <4>5 DEF UserFrame
    <3>5. /\ tss' = [tss EXCEPT ![t] = x] /\ mine' = [mine EXCEPT ![c] = y, ![t] = x] /\ r' = y
          /\ frame' = [frame EXCEPT ![t] = f]
      BY <1>a, <2>2, <3>1, <3>x, <3>y, <3>f DEF fork, task_clone, UserFrame
    <3>6. Fits(c, y)
      BY <1>1, <3>1, <3>3 DEF Fits
    <3>7. f \in UserFrame
      BY <3>4 DEF UserFrame
    <3> QED
      BY <3>2, <3>3, <3>4, <3>5, <3>6, <3>7
  <2> QED
    BY <2>1, <2>2
<1>5. PICK x, y \in Register, f \in Register \cup {NULL} :
        /\ tss' = [tss EXCEPT ![t] = x] /\ mine' = [mine EXCEPT ![c] = y, ![t] = x] /\ r' = y
        /\ frame' = [frame EXCEPT ![t] = f]
        /\ Fits(c, y) /\ y.pc \notin {"exec_jump", "exec_scratch"}
        /\ x.pc \in {"kthread", "forked"} /\ x.cs = 0 /\ x.ds = 0 /\ x.ie = 1
        /\ x.pc = "forked" => x.eax = 3 /\ f \in UserFrame /\ f.eax = 0
  BY <1>4
<1>6. /\ mine'[c] = y /\ mine'[t] = x /\ \A u \in Everyone : u \notin {c, t} => mine'[u] = mine[u]
      /\ tss'[t] = x /\ \A u \in Everyone : u # t => tss'[u] = tss[u]
      /\ frame'[t] = f /\ \A u \in Tasks : u # t => frame'[u] = frame[u]
  BY <1>2, <1>3, <1>5
<1>7. TypeOK'
  <2>1. /\ mine' \in [Everyone -> Register \cup {NULL}]
        /\ tss' \in [Everyone \cup {Scratch} -> Register \cup {NULL}]
        /\ frame' \in [Tasks -> Register \cup {NULL}]
    BY <1>2, <1>5
  <2> QED
    BY <1>1, <1>3, <1>5, <2>1 DEF TypeOK
<1>8. NoFault' /\ OwnRegisters'
  BY <1>1, <1>3, <1>5, <1>6, <1>a DEF NoFault, OwnRegisters
<1>9. SavedRegisters'
  <2>1. \A u \in Everyone : u # c /\ mine[u] # NULL => tss[u] = mine[u]
    BY <1>a DEF IInv, SavedRegisters, Everyone
  <2>2. \A u \in Everyone : u # c /\ mine'[u] # NULL => tss'[u] = mine'[u]
    BY <1>6, <2>1
  <2>3. tr.base = c
    <3>1. r.pc # "exec_jump"
      BY DEF task_init_kthread, fork, At
    <3> QED
      BY <1>1, <3>1
  <2> QED
    BY <1>3, <1>5, <1>a, <2>2, <2>3 DEF SavedRegisters, Everyone
<1>10. RegistersFit'
  <2> SUFFICES ASSUME NEW u \in Everyone, mine'[u] # NULL PROVE Fits(u, mine[u])'
    BY DEF RegistersFit
  <2>1. CASE u = t
    BY <1>2, <1>5, <1>6, <2>1, SMTT(30) DEF Fits
  <2>2. CASE u # t
    <3>1. Fits(u, mine'[u])
      BY <1>5, <1>6, <2>2 DEF IInv, RegistersFit
    <3>2. mine'[u].pc \in {"syscall", "return", "forked"} => u \in Tasks
      BY <3>1 DEF Fits, Everyone
    <3> QED
      BY <1>6, <2>2, <3>1, <3>2 DEF Fits
  <2> QED
    BY <2>1, <2>2
<1>11. ExecNotLeft'
  BY <1>3, <1>5, <1>6, <1>a DEF IInv, ExecNotLeft
<1> QED
  BY <1>7, <1>8, <1>9, <1>10, <1>11 DEF IInv

\* Every step preserves the invariant.
LEMMA SwitchNext ==
  ASSUME IInv, [Next]_vars
  PROVE  IInv'
<1>1. CASE Work \/ syscall \/ sysret \/ ret_from_fork_in_child
  BY <1>1, CallStep
<1>2. CASE exec \/ store_tr \/ load_tr
  BY <1>2, ExecStep
<1>3. CASE task_init_exec
  BY <1>3, ExecJumpStep
<1>4. ASSUME NEW t \in Tasks, task_init_kthread(t) PROVE IInv'
  BY <1>4, NewTaskStep
<1>5. ASSUME NEW t \in Tasks, NEW ip \in {NULL, 0}, fork(t, ip) PROVE IInv'
  BY <1>5, NewTaskStep
<1>6. ASSUME NEW t \in Everyone, sched(t) PROVE IInv'
  BY <1>6, SwitchStep
<1>7. CASE UNCHANGED vars
  BY <1>7 DEF vars, IInv, TypeOK, NoFault, OwnRegisters, SavedRegisters,
     RegistersFit, Fits, ExecNotLeft
<1> QED
  BY <1>1, <1>2, <1>3, <1>4, <1>5, <1>6, <1>7 DEF Next, Everyone

\* The invariant holds in every reachable state.
LEMMA SwitchInvariance == Spec => []IInv
<1>1. Init => IInv
  BY SwitchInit
<1>2. IInv /\ [Next]_vars => IInv'
  BY SwitchNext
<1> QED
  BY <1>1, <1>2, PTL DEF Spec

\* The registers of every task that does not run are in its own TSS, and the task
\* register names the TSS of the running one, in whatever order tasks switch, fork
\* and exec: the two entries of the GDT that take turns and the scratch TSS of exec
\* are enough for any number of tasks.
THEOREM RegistersSaved == Spec => []SavedRegisters
<1>1. IInv => SavedRegisters
  BY DEF IInv
<1> QED
  BY <1>1, SwitchInvariance, PTL

\* The running task has the registers it was switched from with, was created with
\* or got from exec, and no jump is ever to a busy TSS.
THEOREM OwnRegistersBack == Spec => [](OwnRegisters /\ NoFault)
<1>1. IInv => OwnRegisters /\ NoFault
  BY DEF IInv
<1> QED
  BY <1>1, SwitchInvariance, PTL
=============================================================================
