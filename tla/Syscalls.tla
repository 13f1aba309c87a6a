------------------------------ MODULE Syscalls ------------------------------
(***************************************************************************)
(* System calls and the user's memory: the dispatch (arch-ia32/syscalls.c),*)
(* the checks of addresses (user.h), the string scan and the copy from the *)
(* user of user.S with the page faults they take and the fixups of idt.c,  *)
(* and strdup_from_user (kernel.h).  Another task that shares the address  *)
(* space may write at any moment.  The copy to the user is not modelled.   *)
(***************************************************************************)
EXTENDS Integers, Sequences, FiniteSets

CONSTANTS PAGE_OFFSET,    \* where the kernel's addresses start
          AddressSpace,   \* the number of addresses (2^32)
          PAGE_SIZE,
          MaxAlloc,       \* the largest kmalloc
          MaxCount,       \* the largest count that is passed
          MaxPokes,       \* writes of the other task
          NULL
SizesAssumption == PAGE_OFFSET < AddressSpace /\ PAGE_OFFSET % PAGE_SIZE = 0

Addrs == 0 .. AddressSpace - 1
Pages == 0 .. (PAGE_OFFSET \div PAGE_SIZE) - 1
Page(a) == a \div PAGE_SIZE

VARIABLES mem, page, call, ret, lost, halted, poked
vars == <<mem, page, call, ret, lost, halted, poked>>

\* Characters are 0 and 1.  A page is there, can be loaded, or is not mapped.
Init ==
  /\ mem \in [0 .. PAGE_OFFSET - 1 -> {0, 1}] /\ page \in [Pages -> {"present", "loadable", "unmapped"}]
  /\ call = NULL /\ ret = NULL /\ lost = {} /\ halted = FALSE /\ poked = <<>>

In(l) == ~halted /\ call # NULL /\ call.pc = l
Return(v) == call' = NULL /\ ret' = [eax |-> v, str |-> <<>>]
Same == UNCHANGED <<mem, page, lost, halted, poked>>

-----------------------------------------------------------------------------
(* The user's side: one system call, and the other task.                   *)
Syscall(nr, u, n) ==
  /\ ~halted /\ call = NULL /\ ret = NULL
  /\ call' = [pc |-> "dispatch", nr |-> nr, u |-> u, n |-> n, i |-> 0, buf |-> <<>>]
  /\ UNCHANGED <<mem, page, ret, lost, halted, poked>>
Poke(a, c) ==
  /\ ~halted /\ call # NULL /\ Len(poked) < MaxPokes /\ page[Page(a)] = "present" /\ mem[a] # c
  /\ mem' = [mem EXCEPT ![a] = c] /\ poked' = Append(poked, a)
  /\ UNCHANGED <<page, call, ret, lost, halted>>

-----------------------------------------------------------------------------
(* user.h                                                                  *)
uaddr_ok(vaddr, count) == vaddr < PAGE_OFFSET /\ count <= PAGE_OFFSET - vaddr
uaddr_maxstr(vaddr) == IF vaddr >= PAGE_OFFSET THEN 0 ELSE PAGE_OFFSET - vaddr

(* The system calls, up to their first access to the user's memory.        *)
syscall_exc ==
  /\ In("dispatch") /\ Same
  /\ CASE call.nr = "unknown" -> Return(-1)
       [] call.nr = "write" ->
            \/ ~uaddr_ok(call.u, call.n) /\ Return(-1)
            \/ uaddr_ok(call.u, call.n) /\ Return(-1)              \* not fd 1, or no memory
            \/ uaddr_ok(call.u, call.n) /\ call.n <= MaxAlloc /\ call' = [call EXCEPT !.pc = "movs"] /\ UNCHANGED ret
       [] OTHER ->
            \/ uaddr_maxstr(call.u) = 0 /\ Return(-1)
            \/ uaddr_maxstr(call.u) > 0 /\ call' = [call EXCEPT !.pc = "scas", !.n = uaddr_maxstr(call.u)] /\ UNCHANGED ret

-----------------------------------------------------------------------------
(* user.S, one byte at a time.  Here is the address that is accessed.      *)
Here == call.u + call.i
Present == Here < PAGE_OFFSET => page[Page(Here)] = "present"
Byte(a) == IF a < PAGE_OFFSET THEN mem[a] ELSE 1
\* __strnlen_from_user: the length is one less than the bytes looked at.
scas ==
  /\ In("scas") /\ Present /\ UNCHANGED ret /\ Same
  /\ IF Byte(Here) = 0 \/ call.i + 1 = call.n
     THEN call' = [call EXCEPT !.pc = "strlen", !.n = call.i]
     ELSE call' = [call EXCEPT !.i = @ + 1]
\* strdup_from_user: after strlen_from_user.
strdup_from_user ==
  /\ In("strlen") /\ Same
  /\ \/ call.n <= 0 /\ Return(-1)
     \/ call.n > 0 /\ Return(-1)                          \* no memory
     \/ /\ call.n > 0 /\ call.n + 1 <= MaxAlloc /\ UNCHANGED ret
        /\ call' = [call EXCEPT !.pc = "movs", !.n = @ + 1, !.i = 0]
\* __copy_from_user, and what the callers do with the result.
movs ==
  /\ In("movs") /\ call.i < call.n /\ Present /\ UNCHANGED ret /\ Same
  /\ call' = [call EXCEPT !.i = @ + 1, !.buf = Append(@, Byte(Here))]
Copied_any == call.nr = "open"
Copied == call.nr = "open" /\ call.buf[call.n] = 0
\* When the copy fails, or finds no end, strdup_from_user frees its buffer, and _sys_write does not.
kfree == call.nr = "open"
copied ==
  /\ In("movs") /\ call.i = call.n /\ UNCHANGED <<mem, page, halted, poked>>
  /\ lost' = IF call.nr = "write" \/ Copied \/ kfree THEN lost ELSE lost \cup {call.nr}
  /\ CASE call.nr = "write" -> call' = NULL /\ ret' = [eax |-> call.n, str |-> <<>>]
       [] Copied -> call' = NULL /\ ret' = [eax |-> 1, str |-> call.buf]
       [] OTHER -> Return(-1)

(* page_fault: the page is loaded and the instruction goes on where it     *)
(* was, or the fixup of the instruction makes the copy return -1.          *)
fixups == {"movs", "scas"}
mm_pagefault == page' = [page EXCEPT ![Page(Here)] = "present"] /\ UNCHANGED call
page_fault ==
  /\ In("movs") \/ In("scas")
  /\ call.pc = "movs" => call.i < call.n
  /\ ~Present /\ UNCHANGED <<mem, poked>>
  /\ \/ page[Page(Here)] = "loadable" /\ mm_pagefault /\ UNCHANGED <<ret, lost, halted>>
     \/ /\ call.pc \in fixups /\ Return(-1) /\ UNCHANGED <<page, halted>>
        /\ lost' = IF call.pc = "movs" /\ ~kfree THEN lost \cup {call.nr} ELSE lost
     \/ call.pc \notin fixups /\ halted' = TRUE /\ UNCHANGED <<page, call, ret, lost>>

Kernel == syscall_exc \/ scas \/ strdup_from_user \/ movs \/ copied \/ page_fault
Next ==
  \/ Kernel
  \/ \E u \in Addrs, n \in 0 .. MaxCount : Syscall("write", u, n)
  \/ \E u \in Addrs : Syscall("open", u, 0)
  \/ Syscall("unknown", 0, 0)
  \/ \E a \in 0 .. PAGE_OFFSET - 1, c \in {0, 1} : Poke(a, c)
Spec == Init /\ [][Next]_vars /\ WF_vars(Kernel)

-----------------------------------------------------------------------------
\* On behalf of a system call the kernel reads user addresses only.
UserAddressesOnly == call # NULL /\ call.pc \in {"scas", "movs"} /\ call.i < call.n => Here < PAGE_OFFSET

\* No address that a system call is given, mapped or not, stops the kernel.
KernelGoesOn == ~halted

\* A string that strdup_from_user returns ends with its last character, although
\* the string may change between the two passes over it.
StringEnds == ret # NULL /\ ret.str # <<>> => ret.str[Len(ret.str)] = 0 /\ Len(ret.str) <= MaxAlloc

\* The bytes copied are the user's, in order, across page faults in the middle;
\* only those that another task has written may differ.
CopyIsRight ==
  call # NULL /\ call.pc = "movs" =>
    \A k \in 1 .. Len(call.buf) :
      call.buf[k] = Byte(call.u + k - 1) \/ \E j \in DOMAIN poked : poked[j] = call.u + k - 1

\* A buffer is lost only by a write whose copy meets an address that is not
\* mapped; the paths of strdup_from_user free theirs.
LostOnlyByWrite == lost # {} => lost = {"write"} /\ ret.eax = -1

\* Every system call comes to an end.
CallReturns == call # NULL ~> call = NULL
=============================================================================
