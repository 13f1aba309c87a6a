-------------------------------- MODULE Pci ---------------------------------
(***************************************************************************)
(* PCI: the scan of all functions and the attachment of drivers            *)
(* (drivers/pci.c), through the address latch of configuration mechanism 1 *)
(* (arch-ia32/pci.c), whose last value the kernel keeps in confreg.        *)
(***************************************************************************)
EXTENDS Integers, Sequences, FiniteSets

CONSTANTS PCI_NUM_BUSSES, PCI_NUM_DEVS, PCI_NUM_FUNCS, PCI_NUM_BARS,
          Classes,        \* device classes; "ata" has a driver
          Bars,           \* base addresses; "0" is a BAR that is not used
          MaxFunctions,   \* functions of the machine
          MaxFail,        \* allocations that fail
          NULL

Slots == (0 .. PCI_NUM_BUSSES - 1) \X (0 .. PCI_NUM_DEVS - 1)
Bdfs == Slots \X (0 .. PCI_NUM_FUNCS - 1)
Bdf(b, d, f) == <<<<b, d>>, f>>

\* The machine: function 0 of a slot is there if any is, and it says whether
\* there are others; function types are 0 and 1 (a bridge).
Header(m) == [type : {0, 1}, cls : Classes, bar : [1 .. PCI_NUM_BARS -> Bars], multi : {m}]
Machine(fs) ==
  {r \in [fs -> UNION {Header(m) : m \in BOOLEAN}] :
     \A x \in fs : r[x].multi = (\E y \in fs : y[1] = x[1] /\ y[2] # 0)}
Legal == {fs \in SUBSET Bdfs : Cardinality(fs) \in 1 .. MaxFunctions /\ \A x \in fs : <<x[1], 0>> \in fs}

VARIABLES regs, latch, confreg, pc, at, bar, devices, attached, fails, firmware
vars == <<regs, latch, confreg, pc, at, bar, devices, attached, fails, firmware>>
Init ==
  /\ \E fs \in Legal : regs \in Machine(fs)
  /\ firmware = regs /\ latch = <<NULL, NULL>> /\ confreg = <<NULL, NULL>>
  /\ pc = "probe" /\ at = Bdf(0, 0, 0) /\ bar = 0 /\ devices = <<>> /\ attached = <<>> /\ fails = 0

-----------------------------------------------------------------------------
(* Configuration accesses.  The register latched is the one that answers;  *)
(* NULL, in the code all ones, where there is no function.                 *)
conf_latch(x, r) ==
  IF confreg # <<x, r>> THEN latch' = <<x, r>> /\ confreg' = <<x, r>> ELSE UNCHANGED <<latch, confreg>>
Answer(l) ==
  CASE l[1] \notin DOMAIN regs -> NULL
    [] l[2][1] = "id" -> "id"
    [] l[2][1] = "type" -> regs[l[1]].type
    [] l[2][1] = "cls" -> regs[l[1]].cls
    [] OTHER -> "other"

\* pci_arch_init: only mechanism 1 is used, and without it nothing is scanned.
pci_arch_init ==
  /\ pc = "probe" /\ \/ pc' = "id"
                     \/ pc' = "done"
  /\ UNCHANGED <<regs, latch, confreg, at, bar, devices, attached, fails, firmware>>

\* The loops of probe_domain and probe_bus: the next slot, the next function.
NextSlot ==
  LET b == at[1][1]
      d == at[1][2]
      last == d = PCI_NUM_DEVS - 1
  IN  IF last /\ b = PCI_NUM_BUSSES - 1 THEN pc' = "done" /\ UNCHANGED at
      ELSE pc' = "id" /\ at' = IF last THEN Bdf(b + 1, 0, 0) ELSE Bdf(b, d + 1, 0)
NextFunc == IF at[2] = PCI_NUM_FUNCS - 1 THEN NextSlot ELSE pc' = "id" /\ at' = <<at[1], at[2] + 1>>
Done == IF at[2] = 0 /\ ~regs[at].multi THEN NextSlot ELSE NextFunc

probe_dev_stop ==
  /\ pc = "id" /\ conf_latch(at, <<"id", 0>>)
  /\ IF Answer(latch') = NULL THEN NextSlot ELSE pc' = "type" /\ UNCHANGED at
  /\ UNCHANGED <<regs, bar, devices, attached, fails, firmware>>
probe_dev ==
  /\ pc = "id" /\ conf_latch(at, <<"id", 0>>)
  /\ IF Answer(latch') # NULL THEN pc' = "type" /\ UNCHANGED at
     ELSE IF at[2] = 0 THEN NextSlot ELSE NextFunc
  /\ UNCHANGED <<regs, bar, devices, attached, fails, firmware>>
hdr_type ==
  /\ pc = "type" /\ conf_latch(at, <<"type", 0>>) /\ UNCHANGED <<regs, bar, devices, attached, fails, firmware>>
  /\ IF Answer(latch') = 0 THEN pc' = "add" /\ UNCHANGED at ELSE Done
\* pcidev_add; without memory the function is passed over.
pcidev_add ==
  /\ pc = "add" /\ UNCHANGED <<regs, attached, firmware>>
  /\ \/ fails < MaxFail /\ fails' = fails + 1 /\ Done /\ UNCHANGED <<latch, confreg, bar, devices>>
     \/ /\ conf_latch(at, <<"cls", 0>>) /\ devices' = Append(devices, [bdf |-> at, cls |-> Answer(latch')])
        /\ pc' = "bars" /\ bar' = 1 /\ UNCHANGED <<at, fails>>
\* The size of a BAR is found by writing ones, which stay there.
AllOnes == "ones"
pcidev_scan_bars ==
  /\ pc = "bars" /\ conf_latch(at, <<"bar", bar>>) /\ UNCHANGED <<at, devices, attached, fails, firmware>>
  /\ regs' = [regs EXCEPT ![latch'[1]].bar[latch'[2][2]] = AllOnes]
  /\ bar' = bar + 1 /\ pc' = IF bar = PCI_NUM_BARS THEN "irq" ELSE "bars"
\* The interrupt line is read too; it is only reported.
scan_irq ==
  /\ pc = "irq" /\ conf_latch(at, <<"irq", 0>>) /\ pc' = "driver"
  /\ UNCHANGED <<regs, at, bar, devices, attached, fails, firmware>>
\* pci_driver_lookup by the class; attach of the ATA driver reads the BARs, when
\* its controller is in native mode.
Driver(cls) == cls = "ata"
attach ==
  /\ pc = "driver" /\ Done /\ UNCHANGED <<regs, latch, confreg, bar, devices, fails, firmware>>
  /\ attached' = IF Driver(devices[Len(devices)].cls)
                 THEN Append(attached, [bdf |-> at, bar |-> regs[at].bar]) ELSE attached

Next == pci_arch_init \/ probe_dev \/ hdr_type \/ pcidev_add \/ pcidev_scan_bars \/ scan_irq \/ attach
Spec == Init /\ [][Next]_vars

-----------------------------------------------------------------------------
\* When the scan is over every function that is not a bridge is known, once and
\* by its own class, behind whatever gaps, unless there was no memory for it.
FunctionsFound ==
  LET fs == {x \in DOMAIN firmware : firmware[x].type = 0}
      found == {devices[i].bdf : i \in DOMAIN devices}
  IN  /\ Cardinality(found) = Len(devices) /\ found \subseteq fs
      /\ \A i \in DOMAIN devices : devices[i].cls = firmware[devices[i].bdf].cls
      /\ pc = "done" /\ latch # <<NULL, NULL>> => Cardinality(fs \ found) = fails

\* A driver is attached once to each function of its class, and to no other.
DriversAttached ==
  pc = "done" => [i \in DOMAIN attached |-> attached[i].bdf]
                   = LET ata == SelectSeq(devices, LAMBDA v : v.cls = "ata") IN [i \in DOMAIN ata |-> ata[i].bdf]

\* A driver that is attached finds the base addresses at which the kernel has
\* just reported the BARs of the device.
BarsAsReported ==
  \A i \in DOMAIN attached :
    \A k \in 1 .. PCI_NUM_BARS : firmware[attached[i].bdf].bar[k] # "0" =>
      attached[i].bar[k] = firmware[attached[i].bdf].bar[k]
=============================================================================
