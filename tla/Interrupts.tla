----------------------------- MODULE Interrupts -----------------------------
(***************************************************************************)
(* The way in and out of the kernel: the two interrupt controllers          *)
(* (arch-ia32/8259a.c), the descriptor table and the exceptions (idt.c),   *)
(* the entry stubs (intr.S), the dispatch of IRQs (irq.c) and              *)
(* return_from_intr (regs.h).                                              *)
(*                                                                         *)
(* The kernel stack is a sequence of words, the last one on top.  run are  *)
(* the entries into the kernel that are not over yet, each with what was   *)
(* interrupted and how high the stack was (sp); the task itself runs when  *)
(* it is empty.                                                            *)
(***************************************************************************)
EXTENDS Integers, Sequences, FiniteSets

CONSTANTS Lines,          \* the IRQ lines with a device
          OffLines,       \* the ones irq_off is called for
          Syscalls,       \* whether the task makes system calls
          Exceptions,     \* the exceptions it raises
          MaxRaise,       \* how often a line is raised
          MaxSwitch,      \* how often a line is turned on or off
          MaxNest         \* how many entries there may be when an interrupt comes
\* There is no exception 15, and none above 19.
ASSUME LinesAssumption ==
  /\ Lines \subseteq (0 .. 15) \ {2} /\ OffLines \subseteq Lines
  /\ Exceptions \subseteq (0 .. 19) \ {15}

VARIABLES cpu, stack, run, back, pic, raised, handled, wanted, halted
vars == <<cpu, stack, run, back, pic, raised, handled, wanted, halted>>

M == "master"
S == "slave"
Pin(n) == n % 8
Pic(n) == IF n < 8 THEN M ELSE S
Cascade == 2               \* the master's pin the slave is on

-----------------------------------------------------------------------------
(* The controllers.  irq_on and irq_off change the masks and write them;   *)
(* a pin in service keeps its own and the lower ones (those with a higher  *)
(* number) waiting until it is acknowledged.                               *)
pic_init == [p \in {M, S} |-> [imr |-> 0 .. 7, irr |-> {}, isr |-> {}]]
pic_unmask(n) ==
  [p \in {M, S} |-> CASE p = Pic(n) -> [pic[p] EXCEPT !.imr = @ \ {Pin(n)}]
                      [] p = M /\ Pic(n) = S -> [pic[M] EXCEPT !.imr = @ \ {Cascade}]
                      [] OTHER -> pic[p]]
pic_mask(n) ==
  [p \in {M, S} |-> CASE p = Pic(n) -> [pic[p] EXCEPT !.imr = @ \cup {Pin(n)}]
                      [] p = M /\ Pic(n) = S -> [pic[M] EXCEPT !.imr = @ \cup {Cascade}]
                      [] OTHER -> pic[p]]
Least(T) == CHOOSE k \in T : \A j \in T : k <= j
\* EOI: the pin of highest priority is over; EOI_SPECIFIC: the one named is.
Eoi(p) == [p EXCEPT !.isr = IF @ = {} THEN {} ELSE @ \ {Least(@)}]
EoiSpecific(p, pin) == [p EXCEPT !.isr = @ \ {pin}]
irq_eoi_one(n) == [pic EXCEPT ![Pic(n)] = Eoi(pic[Pic(n)])]
irq_eoi(n) ==
  IF n < 8 THEN [pic EXCEPT ![M] = Eoi(pic[M])]
  ELSE [pic EXCEPT ![M] = EoiSpecific(pic[M], Cascade), ![S] = Eoi(pic[S])]
\* The pins a controller asks the CPU for.
Asks(p) == {k \in pic[p].irr \ pic[p].imr : \A j \in pic[p].isr : k < j}
Irr(p) == IF p = M /\ Asks(S) # {} THEN {Cascade} ELSE {}
MasterAsks == {k \in (pic[M].irr \cup Irr(M)) \ pic[M].imr : \A j \in pic[M].isr : k < j}

-----------------------------------------------------------------------------
(* The descriptor table.  A trap gate leaves interrupts on.                *)
int_null == [h |-> "null", nr |-> 0, trap |-> TRUE]
idt_exception(h, n) == [h |-> h, nr |-> n, trap |-> TRUE]
idt_interrupt(h, n) == [h |-> h, nr |-> n, trap |-> FALSE]
\* The exceptions whose stub expects an error code, and those that have one.
excf_few == {8} \cup 10 .. 13
excf == {8, 17} \cup 10 .. 14
ErrorCode == {8, 17} \cup 10 .. 14
IDT ==
  [v \in 0 .. 255 |->
     CASE v \in (0 .. 19) \ {15} -> idt_exception(IF v \in excf THEN "excf" ELSE "exc", v)
       [] v \in 32 .. 41 -> idt_interrupt("irq", v - 32)
       [] v = 48 -> idt_interrupt("irq", 10)
       [] v \in 58 .. 62 -> idt_interrupt("irq", v - 58 + 11)
       [] v = 240 -> idt_interrupt("panic", 0)
       [] v = 255 -> idt_exception("syscall", 0)          \* idt_user_interrupt
       [] OTHER -> int_null]

-----------------------------------------------------------------------------
(* In and out.                                                             *)
W(n, v) == <<[n |-> n, v |-> v]>>
Regs == [i \in 1 .. 8 |-> [n |-> "pusha", v |-> i]]
Hardware(err) ==
  (IF cpu.cpl = 3 THEN W("ss", 3) \o W("esp", 0) ELSE <<>>)
  \o W("eflags", cpu.ie) \o W("cs", cpu.cpl) \o W("eip", cpu.eip) \o (IF err THEN W("err", 0) ELSE <<>>)
Stub(h, nr) ==
  CASE h \in {"irq", "exc"} -> W("zero", 0) \o Regs \o W("nr", nr)
    [] h = "excf" -> Regs \o W("nr", nr)
    [] OTHER -> W("zero", 0) \o Regs
\* The gate of vector v is entered; the handler proper runs with run's last
\* entry at "call".
Enter(v, err) ==
  LET g == IDT[v] IN
  /\ stack' = stack \o Hardware(err) \o Stub(g.h, g.nr)
  /\ run' = Append(run, [h |-> g.h, nr |-> g.nr, pc |-> "call", was |-> cpu, sp |-> Len(stack)])
  /\ cpu' = [cpl |-> 0, ie |-> IF g.trap THEN cpu.ie ELSE 0, eip |-> Len(run) + 1, ds |-> 0]

Top == run[Len(run)]
Pc(l) == run' = [run EXCEPT ![Len(run)].pc = l]
In(l) == ~halted /\ run # <<>> /\ Top.pc = l

\* return_from_intr and the loading of ds and es in the stub.
CsOf(st, h) == st[Len(st) - (IF h = "syscall" THEN 10 ELSE 11)].v
return_from_intr == IF CsOf(stack, Top.h) = 0 THEN 0 ELSE 3
load_ds ==
  /\ In("return") /\ Pc("iret") /\ cpu' = [cpu EXCEPT !.ds = return_from_intr]
  /\ UNCHANGED <<stack, back, pic, raised, handled, wanted, halted>>
\* The stub takes its words off; iret the ones of the hardware.  A segment of
\* the kernel is taken away from user mode.
Words(h) == IF h = "syscall" THEN 9 ELSE 10
iret ==
  LET st == SubSeq(stack, 1, Len(stack) - Words(Top.h))
      n == Len(st)
      cpl == st[n - 1].v
      new == [cpl |-> cpl, ie |-> st[n - 2].v, eip |-> st[n].v, ds |-> IF cpu.ds < cpl THEN -1 ELSE cpu.ds]
  IN  /\ In("iret") /\ cpu' = new /\ back' = [got |-> new, was |-> Top.was]
      /\ stack' = SubSeq(st, 1, n - (IF cpl = 3 THEN 5 ELSE 3))
      /\ run' = SubSeq(run, 1, Len(run) - 1)
      /\ UNCHANGED <<pic, raised, handled, wanted, halted>>

-----------------------------------------------------------------------------
(* Interrupts.                                                             *)
Raise(n) ==
  /\ ~halted /\ raised[n] < MaxRaise /\ Pin(n) \notin pic[Pic(n)].irr
  /\ pic' = [pic EXCEPT ![Pic(n)].irr = @ \cup {Pin(n)}] /\ raised' = [raised EXCEPT ![n] = @ + 1]
  /\ UNCHANGED <<cpu, stack, run, back, handled, wanted, halted>>
\* The CPU asks for the vector: 0x20 and 0x28 and the pin (pic_init).
Deliver(n) ==
  /\ pic' = [p \in {M, S} |->
               CASE p = Pic(n) -> [pic[p] EXCEPT !.irr = @ \ {Pin(n)}, !.isr = @ \cup {Pin(n)}]
                 [] p = M /\ n >= 8 -> [pic[M] EXCEPT !.isr = @ \cup {Cascade}]
                 [] OTHER -> pic[p]]
  /\ IF IDT[32 + n].h = "null" THEN UNCHANGED <<cpu, stack, run>> ELSE Enter(32 + n, FALSE)
Interrupt ==
  LET m == Least(MasterAsks)
  IN  /\ ~halted /\ cpu.ie = 1 /\ MasterAsks # {} /\ Len(run) < MaxNest
      /\ Deliver(IF m = Cascade THEN 8 + Least(Asks(S)) ELSE m)
      /\ UNCHANGED <<back, raised, handled, wanted, halted>>
\* The handler that set_irq_handler has installed, and then the EOI.  Where sched
\* switches (module Sched) the task goes on from here when it runs again.
irq_handler ==
  /\ In("call") /\ Top.h = "irq" /\ handled' = [handled EXCEPT ![Top.nr] = @ + 1]
  /\ pic' = irq_eoi(Top.nr) /\ Pc("return")
  /\ UNCHANGED <<cpu, stack, back, raised, wanted, halted>>
irq_on(n) ==
  /\ ~halted /\ wanted[n].times < MaxSwitch /\ ~wanted[n].on
  /\ pic' = pic_unmask(n) /\ wanted' = [wanted EXCEPT ![n] = [on |-> TRUE, times |-> @.times + 1]]
  /\ UNCHANGED <<cpu, stack, run, back, raised, handled, halted>>
irq_off(n) ==
  /\ ~halted /\ wanted[n].times < MaxSwitch /\ wanted[n].on
  /\ pic' = pic_mask(n) /\ wanted' = [wanted EXCEPT ![n] = [on |-> FALSE, times |-> @.times + 1]]
  /\ UNCHANGED <<cpu, stack, run, back, raised, handled, halted>>

-----------------------------------------------------------------------------
(* System calls and exceptions of the task.                                *)
syscall ==
  /\ Syscalls /\ ~halted /\ run = <<>> /\ cpu.cpl = 3 /\ cpu.ds = 3 /\ Enter(255, FALSE)
  /\ UNCHANGED <<back, pic, raised, handled, wanted, halted>>
syscall_exc ==
  /\ In("call") /\ Top.h = "syscall" /\ Pc("return")
  /\ UNCHANGED <<cpu, stack, back, pic, raised, handled, wanted, halted>>
Exception(v) ==
  /\ ~halted /\ run = <<>> /\ Enter(v, v \in ErrorCode)
  /\ UNCHANGED <<back, pic, raised, handled, wanted, halted>>
\* A page fault that can be handled returns.  Otherwise user code exits, and
\* the next task starts afresh; the kernel halts.
exc_handler ==
  /\ In("call") /\ Top.h \in {"exc", "excf"} /\ UNCHANGED <<back, pic, raised, handled, wanted>>
  /\ \/ Top.nr = 14 /\ Pc("return") /\ UNCHANGED <<cpu, stack, halted>>
     \/ Top.was.cpl = 3 /\ run' = <<>> /\ stack' = <<>> /\ cpu' = Top.was /\ UNCHANGED halted
     \/ Top.was.cpl = 0 /\ halted' = TRUE /\ cpu' = [cpu EXCEPT !.ie = 0] /\ UNCHANGED <<stack, run>>

Init ==
  /\ \E c \in {0, 3} : cpu = [cpl |-> c, ie |-> 1, eip |-> 0, ds |-> c]
  /\ stack = <<>> /\ run = <<>> /\ back = [got |-> cpu, was |-> cpu] /\ halted = FALSE
  /\ pic = pic_init /\ raised = [n \in Lines |-> 0] /\ handled = [n \in Lines |-> 0]
  /\ wanted = [n \in Lines |-> [on |-> FALSE, times |-> 0]]
Kernel == irq_handler \/ load_ds \/ iret \/ syscall_exc \/ exc_handler
Next ==
  \/ Interrupt \/ irq_handler \/ load_ds \/ iret
  \/ syscall \/ syscall_exc \/ exc_handler
  \/ \E v \in Exceptions : Exception(v)
  \/ \E n \in Lines : Raise(n)
  \/ \E n \in Lines : irq_on(n)
  \/ \E n \in OffLines : irq_off(n)
Spec == Init /\ [][Next]_vars /\ WF_vars(Interrupt) /\ WF_vars(Kernel)

-----------------------------------------------------------------------------
\* A pin is in service only as long as its handler runs: every interrupt is
\* acknowledged, at both controllers if it came through the slave.
InServiceIsHandled ==
  LET on == {run[i].nr : i \in {j \in DOMAIN run : run[j].h = "irq" /\ run[j].pc = "call"}}
  IN  /\ pic[S].isr = {Pin(n) : n \in {k \in on : k >= 8}}
      /\ pic[M].isr = {n \in on : n < 8} \cup (IF \E n \in on : n >= 8 THEN {Cascade} ELSE {})

\* However interrupts and exceptions nest, with and without an error code, the
\* code that goes on is the code that was interrupted, at its privilege and
\* with interrupts as they were.
ReturnsWhereInterrupted ==
  /\ back.got.cpl = back.was.cpl /\ back.got.ie = back.was.ie /\ back.got.eip = back.was.eip
  /\ run = <<>> => stack = <<>>

\* The inductive invariant: the words each entry put on the stack are still where
\* it put them, those of the next entry begin where they end, and no two overlap.
Cpu == [cpl : {0, 3}, ie : {0, 1}, eip : Nat, ds : {-1, 0, 3}]
Entry == [h : {"irq", "exc", "excf", "syscall"}, nr : Nat, pc : {"call", "return", "iret"}, was : Cpu, sp : Nat]
Pins == SUBSET (0 .. 7)
Word == [n : {"ss", "esp", "eflags", "cs", "eip", "err", "zero", "pusha", "nr"}, v : Int]
PicOK == pic \in [{M, S} -> [imr : Pins, irr : Pins, isr : Pins]] /\ Cascade \notin pic[M].irr
TypeOK ==
  /\ PicOK /\ cpu \in Cpu /\ run \in Seq(Entry) /\ stack \in Seq(Word)
HardwareWords(c) == IF c.cpl = 3 THEN 5 ELSE 3
FrameEnd(i) == IF i = Len(run) THEN Len(stack) ELSE run[i + 1].sp
FrameKept(i) ==
  LET e == run[i]
      n == FrameEnd(i) - Words(e.h)
  IN  /\ n = e.sp + HardwareWords(e.was)
      /\ stack[n].v = e.was.eip /\ stack[n - 1].v = e.was.cpl /\ stack[n - 2].v = e.was.ie
FramesKept ==
  /\ IF run = <<>> THEN stack = <<>> ELSE run[1].sp = 0
  /\ \A i \in 1 .. Len(run) : FrameKept(i) /\ run[i].sp <= Len(stack)
  /\ \A i, j \in 1 .. Len(run) : i < j => run[i].sp <= run[j].sp
IInv == TypeOK /\ FramesKept /\ ReturnsWhereInterrupted

\* A task in user mode has the data segments of user mode.
SegmentsMatch == cpu.cpl = 3 => cpu.ds = 3

\* An interrupt is let through by the controllers if and only if its line was
\* last turned on.
MaskIsPerLine ==
  \A n \in Lines : wanted[n].on <=> Pin(n) \notin pic[Pic(n)].imr /\ (n < 8 \/ Cascade \notin pic[M].imr)

\* An interrupt whose line is on is handled, unless the kernel halts.
RaisedIsHandled ==
  \A n \in Lines : Pin(n) \in pic[Pic(n)].irr /\ wanted[n].on ~> (halted \/ ~wanted[n].on \/ handled[n] = raised[n])
=============================================================================
