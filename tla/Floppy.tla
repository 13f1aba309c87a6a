------------------------------- MODULE Floppy -------------------------------
(***************************************************************************)
(* The floppy driver (arch-ia32/floppy.c) with the DMA code it uses        *)
(* (dma.c), under the block layer (kernel/blk.c, blkdev.c).                *)
(*                                                                         *)
(* Several tasks read blocks; blksem lets one of them into the driver.     *)
(* Every command is sent, and the task put to sleep on floppyq, with       *)
(* interrupts off; the controller works, interrupts, and floppy_isr reads  *)
(* the result into status and wakes the task.  Memory and disk are counted *)
(* in sectors; a sector in memory is the number of the sector of the disk  *)
(* it holds, or NULL.                                                      *)
(***************************************************************************)
EXTENDS Integers, FiniteSets

CONSTANTS Tasks, Boot,          \* Boot initialises the driver and mounts
          Heads, Spt, Tracks,   \* geom
          Count,                \* sectors of a block, as the mount sets it
          Blocks,               \* the blocks that are read
          Mem,                  \* size of the memory
          Segment, Pages,       \* what the 16 bits of a DMA offset and the
                                \* 8 bits of a DMA page distinguish
          NULL
FloppyAssumption == Boot \in Tasks /\ Mem % Count = 0 /\ Segment % Count = 0

VARIABLES ctl,      \* the controller: command at work, its arguments, head position
          irq,      \* IRQ 6 is raised
          status,   \* the first two bytes of the last result; of the first
                    \* one, whether the command failed
          dev,      \* floppy0: in bdevs, count, blksem
          mem, tk
vars == <<ctl, irq, status, dev, mem, tk>>

NoCmd == [op |-> "none", trk |-> 0, head |-> 0, sect |-> 0, dma |-> 0]
NoRead == [pc |-> "idle", next |-> NULL, blk |-> 0, buf |-> NULL, i |-> 0, tries |-> 0,
           ret |-> NULL, changed |-> FALSE, faults |-> 0]
Init ==
  /\ \E p \in 0 .. Tracks - 1 : ctl = [cmd |-> NoCmd, pos |-> p, res |-> <<FALSE, 0>>]
  /\ irq = FALSE /\ status = <<FALSE, 0>>
  /\ dev = [added |-> FALSE, count |-> 0, sem |-> 0]
  /\ mem = [a \in 0 .. Mem - 1 |-> NULL]
  /\ tk = [t \in Tasks |-> [NoRead EXCEPT !.pc = IF t = Boot THEN "reset" ELSE "idle"]]

At(t, l) == tk[t].pc = l
Goto(t, l) == tk' = [tk EXCEPT ![t].pc = l]
Return(t, r) == tk' = [tk EXCEPT ![t].pc = "out", ![t].ret = r]

-----------------------------------------------------------------------------
(* Commands and interrupts.                                                *)

\* A command is sent and the task sleeps, in one go with interrupts off;
\* otherwise the interrupt may be over before the task sleeps.
Command(t, c, next) ==
  /\ tk' = [tk EXCEPT ![t].pc = "asleep", ![t].next = next]
  /\ ctl' = [ctl EXCEPT !.cmd = c]

\* The controller ends a command, well or not.  The second byte of the result
\* of a read is the error code ST1, of the others it is the cylinder.
Done(pos, failed, byte) == ctl' = [cmd |-> NoCmd, pos |-> pos, res |-> <<failed, byte>>]
Fault == tk' = [t \in Tasks |-> IF At(t, "asleep") /\ tk[t].faults < 2
                                THEN [tk[t] EXCEPT !.faults = @ + 1] ELSE tk[t]]
Sector(trk, head, sect) == (trk * Heads + head) * Spt + sect - 1
Complete ==
  LET c == ctl.cmd IN
  /\ c.op # "none" /\ irq' = TRUE /\ UNCHANGED <<status, dev>>
  /\ \/ c.op = "reset" /\ Done(ctl.pos, TRUE, 0) /\ UNCHANGED <<mem, tk>>
     \/ c.op = "recal" /\ Done(0, FALSE, 0) /\ UNCHANGED <<mem, tk>>
     \/ c.op = "seek" /\ c.trk < Tracks /\ Done(c.trk, FALSE, c.trk) /\ UNCHANGED <<mem, tk>>
     \/ c.op = "seek" /\ c.trk >= Tracks /\ Done(Tracks - 1, TRUE, Tracks - 1) /\ UNCHANGED <<mem, tk>>
     \/ c.op \in {"recal", "seek"} /\ Done(ctl.pos, TRUE, ctl.pos) /\ Fault /\ UNCHANGED mem
     \/ /\ c.op = "read" /\ c.trk = ctl.pos /\ Done(ctl.pos, FALSE, 0) /\ UNCHANGED tk
        /\ mem' = [mem EXCEPT ![c.dma] = Sector(c.trk, c.head, c.sect)]
     \/ \E st1 \in 1 .. Tracks :
          /\ c.op = "read" /\ Done(ctl.pos, TRUE, st1) /\ UNCHANGED mem
          /\ IF c.trk = ctl.pos THEN Fault ELSE UNCHANGED tk

floppy_isr ==
  /\ irq /\ irq' = FALSE /\ status' = ctl.res
  /\ tk' = [t \in Tasks |-> IF At(t, "asleep") THEN [tk[t] EXCEPT !.pc = tk[t].next, !.next = NULL] ELSE tk[t]]
  /\ UNCHANGED <<ctl, dev, mem>>

-----------------------------------------------------------------------------
(* floppy_init and the mount that sets the size of a block.                *)
floppy_reset ==
  /\ At(Boot, "reset") /\ Command(Boot, [NoCmd EXCEPT !.op = "reset"], "recal")
  /\ UNCHANGED <<irq, status, dev, mem>>
floppy_recal(t) ==
  /\ \/ At(t, "recal") /\ Command(t, [NoCmd EXCEPT !.op = "recal"], "add")
     \/ At(t, "retry") /\ Command(t, [NoCmd EXCEPT !.op = "recal"], "try")
  /\ UNCHANGED <<irq, status, dev, mem>>
blkdev_add ==
  /\ At(Boot, "add") /\ dev' = [dev EXCEPT !.added = TRUE, !.sem = 1] /\ Goto(Boot, "mount")
  /\ UNCHANGED <<ctl, irq, status, mem>>
blk_set_blocksize ==
  /\ At(Boot, "mount") /\ dev' = [dev EXCEPT !.count = Count] /\ Goto(Boot, "idle")
  /\ UNCHANGED <<ctl, irq, status, mem>>

-----------------------------------------------------------------------------
(* blk_read.                                                               *)
Used == UNION {tk[t].buf .. tk[t].buf + dev.count - 1 : t \in {u \in Tasks : tk[u].buf # NULL}}
Freed(t) == [a \in DOMAIN mem |-> IF a \in tk[t].buf .. tk[t].buf + dev.count - 1 THEN NULL ELSE mem[a]]
blk_read(t, blk) ==
  /\ At(t, "idle") /\ dev.count # 0 /\ UNCHANGED <<ctl, irq, status, dev, mem>>
  /\ \E a \in {b \in 0 .. Mem - 1 : b % dev.count = 0} \ Used :    \* kmalloc
       tk' = [tk EXCEPT ![t] = [NoRead EXCEPT !.pc = "P", !.blk = blk, !.buf = a]]
Tries == 3
sem_P(t) ==
  /\ At(t, "P") /\ dev.sem > 0 /\ dev' = [dev EXCEPT !.sem = @ - 1]
  /\ tk' = [tk EXCEPT ![t].pc = "try", ![t].tries = Tries]
  /\ UNCHANGED <<ctl, irq, status, mem>>
blk_read_out(t) ==
  /\ At(t, "out") /\ dev' = [dev EXCEPT !.sem = @ + 1]             \* sem_V
  /\ IF tk[t].ret = 0 THEN Goto(t, "done") /\ UNCHANGED mem
     ELSE mem' = Freed(t) /\ tk' = [tk EXCEPT ![t].pc = "done", ![t].buf = NULL]
  /\ UNCHANGED <<ctl, irq, status>>
\* The caller has used the block, or has seen that there is none.
blk_free(t) ==
  /\ At(t, "done") /\ tk' = [tk EXCEPT ![t] = NoRead]
  /\ mem' = IF tk[t].buf = NULL THEN mem ELSE Freed(t)
  /\ UNCHANGED <<ctl, irq, status, dev>>

-----------------------------------------------------------------------------
(* floppy_rw_blk.                                                          *)
floppy_block(b) == [head |-> (b % (Spt * Heads)) \div Spt, trk |-> b \div (Spt * Heads), sect |-> (b % Spt) + 1]
Where(t) == floppy_block(tk[t].blk * dev.count + tk[t].i)
floppy_seek(t) ==
  LET trk == Where(t).trk IN
  IF trk = status[2] THEN Goto(t, "read") /\ UNCHANGED ctl
  ELSE Command(t, [NoCmd EXCEPT !.op = "seek", !.trk = trk], "read")
try_again(t) ==
  /\ At(t, "try") /\ UNCHANGED <<irq, status, dev, mem>>
  /\ \/ floppy_seek(t)
     \/ tk' = [tk EXCEPT ![t].pc = "out", ![t].ret = -1, ![t].changed = TRUE] /\ UNCHANGED ctl  \* DIR_CHAN
\* The address the DMA controller is given: 8 bits of page, 16 of offset.
dma_read(a) == ((a \div Segment) % Pages) * Segment + (a % Segment)
read(t) ==
  /\ At(t, "read") /\ UNCHANGED <<irq, status, dev, mem>>
  /\ LET w == Where(t) IN
     Command(t, [op |-> "read", trk |-> w.trk, head |-> w.head, sect |-> w.sect,
                 dma |-> dma_read(tk[t].buf + tk[t].i)], "check")
More(t) == tk[t].i + 1 < dev.count
check_next(t) ==
  /\ At(t, "check") /\ UNCHANGED <<ctl, irq, status, dev, mem>>
  /\ \/ ~status[1] /\ More(t) /\ tk' = [tk EXCEPT ![t].pc = "try", ![t].i = @ + 1]
     \/ ~status[1] /\ ~More(t) /\ Return(t, 0)
     \/ status[1] /\ tk[t].tries > 1
        /\ tk' = [tk EXCEPT ![t].pc = "retry", ![t].tries = @ - 1, ![t].i = IF More(t) THEN @ + 1 ELSE @]
     \/ status[1] /\ tk[t].tries = 1 /\ Return(t, -1)
check_forever(t) ==
  /\ At(t, "check") /\ UNCHANGED <<ctl, irq, status, dev, mem>>
  /\ \/ ~status[1] /\ More(t) /\ tk' = [tk EXCEPT ![t].pc = "try", ![t].i = @ + 1]
     \/ ~status[1] /\ ~More(t) /\ Return(t, 0)
     \/ status[1] /\ Goto(t, "retry")
check(t) ==
  /\ At(t, "check") /\ UNCHANGED <<ctl, irq, status, dev, mem>>
  /\ \/ ~status[1] /\ More(t) /\ tk' = [tk EXCEPT ![t].pc = "try", ![t].i = @ + 1]
     \/ ~status[1] /\ ~More(t) /\ Return(t, 0)
     \/ status[1] /\ tk[t].tries > 1 /\ tk' = [tk EXCEPT ![t].pc = "retry", ![t].tries = @ - 1]
     \/ status[1] /\ tk[t].tries = 1 /\ Return(t, -1)

Driver(t) == floppy_recal(t) \/ sem_P(t) \/ blk_read_out(t) \/ try_again(t) \/ read(t) \/ check(t)
Next ==
  \/ Complete \/ floppy_isr
  \/ floppy_reset \/ blkdev_add \/ blk_set_blocksize
  \/ \E t \in Tasks : floppy_recal(t)
  \/ \E t \in Tasks, b \in Blocks : blk_read(t, b)
  \/ \E t \in Tasks : sem_P(t)
  \/ \E t \in Tasks : blk_read_out(t)
  \/ \E t \in Tasks : blk_free(t)
  \/ \E t \in Tasks : try_again(t)
  \/ \E t \in Tasks : read(t)
  \/ \E t \in Tasks : check(t)
Spec == Init /\ [][Next]_vars /\ WF_vars(Complete) /\ WF_vars(floppy_isr) /\ \A t \in Tasks : WF_vars(Driver(t))

-----------------------------------------------------------------------------
\* A block that blk_read returns holds the sectors of the disk it was asked
\* for, whatever failed and was tried again on the way and whoever else reads.
ReadIsRight ==
  \A t \in Tasks : At(t, "done") /\ tk[t].ret = 0 =>
    \A k \in 0 .. dev.count - 1 : mem[tk[t].buf + k] = tk[t].blk * dev.count + k

\* A seek left out because status still holds the error code of a read costs
\* one of the tries, and only one: a read fails only if the disk was changed,
\* the block is behind the end, or the drive failed twice in this call.
TriesSuffice ==
  \A t \in Tasks : At(t, "done") /\ tk[t].ret = -1 =>
    tk[t].changed \/ tk[t].faults = 2 \/ (tk[t].blk + 1) * dev.count > Tracks * Heads * Spt

\* Nobody sleeps on floppyq with no command at work and no interrupt to come.
SleeperIsWoken == (\E t \in Tasks : At(t, "asleep")) => ctl.cmd.op # "none" \/ irq

\* A task that has blksem gets out of the driver, however often the disk
\* fails, as long as the controller answers every command.
DriverReturns == \A t \in Tasks : At(t, "try") ~> At(t, "done")
=============================================================================
