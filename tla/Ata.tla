-------------------------------- MODULE Ata ---------------------------------
(***************************************************************************)
(* The ATA driver (drivers/ata.c): detection of the drives on the two      *)
(* channels of each PCI controller, and reading through blk_read, several  *)
(* tasks at once.  A block number is written to the drive in four digits   *)
(* to the base Base (8, 8, 8 and 4 bits in the code).                      *)
(***************************************************************************)
EXTENDS Integers, Sequences, FiniteSets

CONSTANTS Devs,           \* the controllers, in the order of the PCI scan
          Kinds,          \* what may be attached: "none", "ata", "atapi", "bad"
          Tasks,
          Blocks,         \* the logical blocks that are read
          Count,          \* sectors in a block
          Base,
          MaxFail,        \* allocations that fail
          MaxReads,       \* reads in all
          NULL

Chans == {"X", "Y"}
Slots == {<<v, c, d>> : v \in {Devs[i] : i \in DOMAIN Devs}, c \in Chans, d \in {0, 1}}
Chan(s) == <<s[1], s[2]>>
Hw == {Chan(s) : s \in Slots}

VARIABLES drive, hw, pc, dev, d, bd, nr_controllers, bdevs, fails, tk, locked, held, reads
boot == <<pc, dev, d, bd, nr_controllers, bdevs, fails>>
vars == <<drive, hw, pc, dev, d, bd, nr_controllers, bdevs, fails, tk, locked, held, reads>>

Init ==
  /\ drive \in [Slots -> Kinds]
  /\ hw = [c \in Hw |-> [sel |-> 0, n |-> <<0, 0, 0, 0>>, st |-> "idle", data |-> NULL]]
  /\ pc = "attach" /\ dev = 1 /\ d = 0 /\ bd = [s \in Slots |-> NULL] /\ nr_controllers = 0
  /\ bdevs = <<>> /\ fails = 0 /\ locked = NULL /\ held = {} /\ reads = 0
  /\ tk = [t \in Tasks |-> [pc |-> "idle", s |-> NULL, b |-> 0, i |-> 0, buf |-> <<>>]]

-----------------------------------------------------------------------------
(* Detection, at boot.  Every kmalloc may fail.                            *)
Fail == fails < MaxFail /\ fails' = fails + 1
Quiet == UNCHANGED <<drive, tk, locked, held, reads>>
NextDev == dev' = dev + 1 /\ pc' = IF dev < Len(Devs) THEN "attach" ELSE "up"
pci_ata_attach ==
  /\ pc = "attach" /\ Quiet /\ UNCHANGED <<hw, d, bd, nr_controllers, bdevs>>
  /\ \/ Fail /\ NextDev
     \/ pc' = "X" /\ UNCHANGED <<dev, fails>>
\* The start of ata_chan_init; if it fails the controller is given up.
ata_chan_reset ==
  LET c == <<Devs[dev], pc>> IN
  /\ pc \in Chans /\ Quiet /\ UNCHANGED <<bd, nr_controllers, bdevs>>
  /\ \/ Fail /\ NextDev /\ UNCHANGED <<hw, d>>
     \/ /\ hw' = [hw EXCEPT ![c] = [@ EXCEPT !.sel = 0, !.st = "idle"]]
        /\ d' = 0 /\ pc' = "id" \o pc /\ UNCHANGED <<dev, fails>>
\* bdev, the result of ata_new_blkdev: also when there is no memory for the
\* name, although it has been freed then.
ata_new_blkdev(c) ==
  \/ Fail /\ bd' = bd
  \/ Fail /\ bd' = [bd EXCEPT ![<<Devs[dev], c, d>>] = [nr |-> nr_controllers, live |-> FALSE]]
  \/ /\ UNCHANGED fails
     /\ bd' = [bd EXCEPT ![<<Devs[dev], c, d>>] = [nr |-> nr_controllers, live |-> TRUE]]
\* One drive: IDENTIFY, and IDENTIFY_PACKET if it says that it is ATAPI.
Identified(s) == drive[s] \in {"ata", "atapi"}
ata_identify(c) ==
  LET s == <<Devs[dev], c, d>> IN
  /\ pc = "id" \o c /\ d < 2 /\ d' = d + 1 /\ hw' = [hw EXCEPT ![Chan(s)].sel = d]
  /\ IF Identified(s) THEN ata_new_blkdev(c) ELSE UNCHANGED <<bd, fails>>
  /\ Quiet /\ UNCHANGED <<pc, dev, nr_controllers, bdevs>>
ata_chan_init(c) ==
  /\ pc = "id" \o c /\ d = 2 /\ nr_controllers' = nr_controllers + 1
  /\ pc' = IF c = "X" THEN "Y" ELSE "register"
  /\ Quiet /\ UNCHANGED <<hw, dev, d, bd, bdevs, fails>>
\* ata_dev_init: blkdev_add puts each of them in front.
ata_dev_init ==
  LET slot(c, k) == <<Devs[dev], c, k>>
      all == <<slot("Y", 1), slot("Y", 0), slot("X", 1), slot("X", 0)>>
  IN  /\ pc = "register" /\ NextDev
      /\ bdevs' = SelectSeq(all, LAMBDA s : bd[s] # NULL) \o bdevs
      /\ Quiet /\ UNCHANGED <<hw, d, bd, nr_controllers, fails>>

-----------------------------------------------------------------------------
(* Reading.  With interrupts off no other task runs.                       *)
Digits(n) == <<n % Base, (n \div Base) % Base, (n \div Base^2) % Base, (n \div Base^3) % Base>>
Number(n) == n[1] + n[2] * Base + n[3] * Base^2 + n[4] * Base^3
Runs(t, l) == locked \in {NULL, t} /\ tk[t].pc = l
Go(t, l) == tk' = [tk EXCEPT ![t].pc = l]
Ch(t) == Chan(tk[t].s)

\* Up to the semaphore; without memory it returns before it has changed anything.
blk_read(t, i, b) ==
  /\ pc = "up" /\ Runs(t, "idle") /\ reads < MaxReads /\ reads' = reads + 1
  /\ tk' = [tk EXCEPT ![t] = [pc |-> "sem", s |-> bdevs[i], b |-> b, i |-> 0, buf |-> <<>>]]
  /\ UNCHANGED <<boot, drive, hw, locked, held>>
sem_P(t) ==
  /\ Runs(t, "sem") /\ tk[t].s \notin held /\ held' = held \cup {tk[t].s} /\ Go(t, "lock")
  /\ UNCHANGED <<boot, drive, hw, locked, reads>>
lock_irq_not(t) == locked' = NULL
lock_irq(t) == locked' = t
\* The number of the sector that is next.
Blk(t) == tk[t].b * Count + tk[t].i
ata_set_drive_head(t) ==
  /\ Runs(t, "lock") /\ Go(t, "program") /\ lock_irq(t)
  /\ hw' = [hw EXCEPT ![Ch(t)].sel = tk[t].s[3], ![Ch(t)].n[4] = Digits(Blk(t))[4]]
  /\ UNCHANGED <<boot, drive, held, reads>>
ata_busy_wait(t) == hw[Ch(t)].st # "busy"
program(t) ==
  /\ Runs(t, "program") /\ ata_busy_wait(t) /\ Go(t, "command")
  /\ hw' = [hw EXCEPT ![Ch(t)].n = SubSeq(Digits(Blk(t)), 1, 3) \o <<@[4]>>]
  /\ UNCHANGED <<boot, drive, locked, held, reads>>
ata_command(t) ==
  /\ Runs(t, "command") /\ Go(t, "data") /\ hw' = [hw EXCEPT ![Ch(t)].st = "busy"]
  /\ UNCHANGED <<boot, drive, locked, held, reads>>
\* After the read command: no DRQ is an error, otherwise the sector is read.
Last(t) == tk[t].i + 1 = Count
ata_pio_read_blk(t) ==
  /\ Runs(t, "data") /\ ata_busy_wait(t) /\ locked' = NULL
  /\ IF hw[Ch(t)].st # "drq"
     THEN Go(t, "failed") /\ UNCHANGED hw
     ELSE /\ hw' = [hw EXCEPT ![Ch(t)].st = "idle"]
          /\ tk' = [tk EXCEPT ![t] = [@ EXCEPT !.buf = Append(@, hw[Ch(t)].data), !.i = @ + 1,
                                               !.pc = IF Last(t) THEN "read" ELSE "lock"]]
  /\ UNCHANGED <<boot, drive, held, reads>>
\* The rest of blk_read: sem_V, and the buffer is returned or freed.
sem_V(t) ==
  /\ locked \in {NULL, t} /\ tk[t].pc \in {"read", "failed"} /\ Go(t, "idle") /\ held' = held \ {tk[t].s}
  /\ UNCHANGED <<boot, drive, hw, locked, reads>>

\* The drive that is selected has done what it was told.
Complete(c) ==
  LET s == <<c[1], c[2], hw[c].sel>> IN
  /\ hw[c].st = "busy" /\ UNCHANGED <<boot, drive, tk, locked, held, reads>>
  /\ \/ hw' = [hw EXCEPT ![c].st = "err"]
     \/ drive[s] = "ata" /\ hw' = [hw EXCEPT ![c].st = "drq", ![c].data = <<s, Number(hw[c].n)>>]

Boot == pci_ata_attach \/ ata_chan_reset \/ ata_dev_init \/ \E c \in Chans : ata_identify(c) \/ ata_chan_init(c)
Step(t) ==
  sem_P(t) \/ ata_set_drive_head(t) \/ program(t) \/ ata_command(t) \/ ata_pio_read_blk(t) \/ sem_V(t)
Next ==
  \/ Boot
  \/ \E t \in Tasks : Step(t)
  \/ \E t \in Tasks, i \in DOMAIN bdevs, b \in Blocks : blk_read(t, i, b)
  \/ \E c \in Hw : Complete(c)
Spec == Init /\ [][Next]_vars /\ \A t \in Tasks : WF_vars(Step(t)) /\ \A c \in Hw : WF_vars(Complete(c))

-----------------------------------------------------------------------------
\* What a task has read are the sectors of the block it asked for, from the
\* drive it asked for, however the tasks on the two drives of a channel, which
\* share its registers, take turns.  (A device that a failed allocation has left
\* half made is no device to read from.)
ReadIsRight ==
  \A t \in Tasks : tk[t].pc = "read" /\ bd[tk[t].s].live =>
    tk[t].buf = [k \in 1 .. Count |-> <<tk[t].s, tk[t].b * Count + k - 1>>]

\* A block device that is registered is ready for use.
RegisteredAreReady == \A i \in DOMAIN bdevs : bd[bdevs[i]].live

\* The names of the devices (controller, channel and drive) are different,
\* whatever failed while they were detected: mounting goes by the name.
NamesDistinct ==
  \A i, j \in DOMAIN bdevs :
    LET name(s) == <<bd[s].nr, s[2], s[3]>>
    IN  bd[bdevs[i]].live /\ bd[bdevs[j]].live /\ name(bdevs[i]) = name(bdevs[j]) => i = j

\* A read comes to an end, with interrupts on and the device free again.
ReadEnds == \A t \in Tasks : tk[t].pc = "sem" ~> tk[t].pc = "idle" /\ locked # t
=============================================================================
