----------------------------- MODULE MCMachine ------------------------------
(***************************************************************************)
(* The devices and the processor on small instances: the floppy and ATA    *)
(* drivers and the PCI scan; task switches and system calls.               *)
(* They are put side by side, not connected: a behaviour runs one of them, *)
(* which, and the others stay as they start.                               *)
(***************************************************************************)
EXTENDS TaskSwitch, Sequences, FiniteSets

CONSTANTS t1, t2, v1, v2

VARIABLES which,
          ctl, irq, status, floppy_dev, dma, floppy_tk,
          drive, hw, pc, dev, d, bd, nr_controllers, bdevs, fails, tk, locked, held, reads,
          regs, latch, confreg, pci_pc, at, bar, devices, attached, pci_fails, firmware,
          mem, page, call, ret, lost, stopped, poked
floppyVars == <<ctl, irq, status, floppy_dev, dma, floppy_tk>>
ataVars == <<drive, hw, pc, dev, d, bd, nr_controllers, bdevs, fails, tk, locked, held, reads>>
pciVars == <<regs, latch, confreg, pci_pc, at, bar, devices, attached, pci_fails, firmware>>
callVars == <<mem, page, call, ret, lost, stopped, poked>>
allVars == <<which, floppyVars, ataVars, pciVars, vars, callVars>>

-----------------------------------------------------------------------------
\* Two tasks read a floppy of two heads, two sectors and two tracks.
F == INSTANCE Floppy WITH Tasks <- {t1, t2}, Boot <- t1, Heads <- 2, Spt <- 2, Tracks <- 2, Count <- 2,
       Blocks <- {0, 1, 2, 4}, Mem <- 4, Segment <- 2, Pages <- 2, dev <- floppy_dev, mem <- dma, tk <- floppy_tk
\* Two controllers are detected, and an allocation may fail; then two tasks read.
\* One channel has two drives, one of any kind, and two have a drive.
A == INSTANCE Ata WITH Devs <- <<v1, v2>>, Kinds <- {"ata", "atapi", "bad", "none"}, Tasks <- {t1, t2}, Blocks <- {2, 5},
       Count <- 2, Base <- 2, MaxFail <- 1, MaxReads <- 2
DriveKinds(s) ==
  CASE s = <<v1, "X", 1>> -> {"ata", "atapi", "bad"}
    [] s \in {<<v1, "X", 0>>, <<v1, "Y", 0>>, <<v2, "X", 0>>} -> {"ata"}
    [] OTHER -> {"none"}
P == INSTANCE Pci WITH PCI_NUM_BUSSES <- 2, PCI_NUM_DEVS <- 2, PCI_NUM_FUNCS <- 3, PCI_NUM_BARS <- 2,
       Classes <- {"ata", "net"}, Bars <- {"a"}, MaxFunctions <- 3, MaxFail <- 1, pc <- pci_pc, fails <- pci_fails
S == INSTANCE Syscalls WITH PAGE_OFFSET <- 4, AddressSpace <- 6, PAGE_SIZE <- 2, MaxAlloc <- 5, MaxCount <- 5,
       MaxPokes <- 1, halted <- stopped
ASSUME F!FloppyAssumption /\ S!SizesAssumption

\* What is not run is in one of its initial states.
MCInit ==
  /\ which \in {"floppy", "ata", "pci", "switch", "syscalls"}
  /\ F!Init /\ (which # "floppy" => ctl.pos = 0)
  /\ A!Init /\ \A s \in DOMAIN drive : drive[s] \in DriveKinds(s) /\ (which # "ata" => drive[s] \in {"ata", "none"})
  /\ P!Init /\ (which # "pci" => DOMAIN regs = {P!Bdf(0, 0, 0)} /\ \A x \in DOMAIN regs : regs[x].type = 0 /\ regs[x].cls = "ata")
  /\ Init
  /\ S!Init /\ (which # "syscalls" => mem = [x \in 0 .. 3 |-> 0] /\ page = [x \in 0 .. 1 |-> "present"])

Only(x) ==
  /\ which = x /\ UNCHANGED which
  /\ IF x = "floppy" THEN TRUE ELSE UNCHANGED floppyVars
  /\ IF x = "ata" THEN TRUE ELSE UNCHANGED ataVars
  /\ IF x = "pci" THEN TRUE ELSE UNCHANGED pciVars
  /\ IF x = "switch" THEN TRUE ELSE UNCHANGED vars
  /\ IF x = "syscalls" THEN TRUE ELSE UNCHANGED callVars
\* A scan and a system call come to an end, reads to their bound; tasks go on to read floppies and to be switched.
Ended == which \notin {"floppy", "switch"} /\ UNCHANGED allVars
MCNext ==
  \/ Only("floppy") /\ F!Next
  \/ Only("ata") /\ A!Next
  \/ Only("pci") /\ P!Next
  \/ Only("switch") /\ Next
  \/ Only("syscalls") /\ S!Next
  \/ Ended
MCSpec == MCInit /\ [][MCNext]_allVars

-----------------------------------------------------------------------------
(* Floppy (floppy.c, dma.c, blk.c), Ata (ata.c) and Pci (pci.c)            *)

\* A block that blk_read returns from the floppy holds the sectors it was asked for,
\* whatever was tried again on the way and whoever else reads.
FloppyReadIsRight == which = "floppy" => F!ReadIsRight
\* What a task has read are the sectors of the block and the drive it asked for,
\* however tasks on the two drives of a channel, which share its registers, take
\* turns.
AtaReadIsRight == which = "ata" => A!ReadIsRight
\* When the scan is over every function that is not a bridge is known, once and by
\* its own class, behind whatever gaps, unless there was no memory for it.
FunctionsFound == which = "pci" => P!FunctionsFound

(* Syscalls (syscalls.c, user.h, user.S, kernel.h).  SavedRegisters is in   *)
(* TaskSwitch; it holds of the first state, so also where which is another. *)

\* A string that strdup_from_user returns ends with its last character, although it
\* may change between the two passes over it.
StringEnds == which = "syscalls" => S!StringEnds
=============================================================================
