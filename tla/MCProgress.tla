----------------------------- MODULE MCProgress -----------------------------
(***************************************************************************)
(* What comes to an end: lookups of two tasks at once, reads from the      *)
(* floppy, and interrupts.  They are put side by side, not connected: a    *)
(* behaviour runs one of them, which, and the others stay as they start.   *)
(* Each has the fairness of its own module.                                *)
(***************************************************************************)
EXTENDS Interrupts, TLC

CONSTANTS t1, t2, NULL

VARIABLES which,
          mounted, vfs_pc, path, i, itmp, ino, vfs_held, calls, names, leaked, tree, i_count,
          slack_inodes, slacksem, s_sem, seen, bug,
          ctl, irq, status, floppy_dev, dma, floppy_tk
vfsVars == <<mounted, vfs_pc, path, i, itmp, ino, vfs_held, calls, names, leaked, tree, i_count,
             slack_inodes, slacksem, s_sem, seen, bug>>
floppyVars == <<ctl, irq, status, floppy_dev, dma, floppy_tk>>
allVars == <<which, vfsVars, floppyVars, vars>>

-----------------------------------------------------------------------------
\* Two tasks look up the same file at the same time.
Entries == (<<2, "d">> :> 11) @@ (<<11, "e">> :> 12) @@ (<<11, "f">> :> 13)
V == INSTANCE Vfs WITH Tasks <- {t1, t2}, Squeezers <- {}, Inos <- {2, 11, 12, 13}, Root <- 2, Child <- Entries,
       Paths <- {<<"/", "d", "/", "f">>}, MaxCalls <- 1, pc <- vfs_pc, held <- vfs_held
F == INSTANCE Floppy WITH Tasks <- {t1}, Boot <- t1, Heads <- 2, Spt <- 2, Tracks <- 2, Count <- 2,
       Blocks <- {0, 1, 2, 4}, Mem <- 2, Segment <- 2, Pages <- 2, dev <- floppy_dev, mem <- dma, tk <- floppy_tk

\* What is not run is in one of its initial states.
MCInit ==
  /\ which \in {"vfs", "floppy", "interrupts"}
  /\ V!Init
  /\ F!Init /\ (which # "floppy" => ctl.pos = 0)
  /\ Init /\ (which # "interrupts" => cpu.cpl = 0)

Only(x) ==
  /\ which = x /\ UNCHANGED which
  /\ IF x = "vfs" THEN TRUE ELSE UNCHANGED vfsVars
  /\ IF x = "floppy" THEN TRUE ELSE UNCHANGED floppyVars
  /\ IF x = "interrupts" THEN TRUE ELSE UNCHANGED vars
\* All but the reads from the floppy come to an end or to a bound.
Ended == which # "floppy" /\ UNCHANGED allVars
MCNext ==
  \/ Only("vfs") /\ V!Next
  \/ Only("floppy") /\ F!Next
  \/ Only("interrupts") /\ Next
  \/ Ended
\* A task that can run goes on, a controller answers, the processor takes an
\* interrupt that is let through.  A behaviour runs one of the components, so one
\* fairness condition may speak of a step of each.
TaskStep(t) == Only("vfs") /\ V!TaskStep(t)
KernelStep == (Only("floppy") /\ F!Driver(t1)) \/ (Only("interrupts") /\ Kernel)
Answer == Only("floppy") /\ F!Complete
InterruptStep == (Only("floppy") /\ F!floppy_isr) \/ (Only("interrupts") /\ Interrupt)
Fairness ==
  /\ \A t \in {t1, t2} : WF_allVars(TaskStep(t))
  /\ WF_allVars(Answer) /\ WF_allVars(KernelStep) /\ WF_allVars(InterruptStep)
MCSpec == MCInit /\ [][MCNext]_allVars /\ Fairness

-----------------------------------------------------------------------------
\* A lookup that has begun returns, whatever the other task does with slacksem and
\* s_sem meanwhile (namei, iget).
EveryCallReturns == V!EveryCallReturns
\* A read from the floppy ends, with its block or with an error, however often the
\* disk fails, is late or is busy (floppy_rw_blk, do_one_block).
DriverReturns == F!DriverReturns
\* RaisedIsHandled and ReturnsWhereInterrupted are in Interrupts; they hold also of
\* the behaviours in which nothing of it is run.
=============================================================================
