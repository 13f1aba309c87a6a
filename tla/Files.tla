------------------------------- MODULE Files -------------------------------
(***************************************************************************)
(* Open files and the descriptor table of a task (kernel/fdt.c, file.c,    *)
(* open.c, close.c, read.c).  The inode of a file is given by its size; a  *)
(* file object is a number, the table the sequence of its entries from the *)
(* list head on.  Memory may run out and the disk may fail.                *)
(***************************************************************************)
EXTENDS Integers, Sequences, FiniteSets, SequencesExt

CONSTANTS MaxFiles,        \* how many file objects there is memory for
          Sizes,           \* the sizes of the files on the disk
          Requests,        \* how many bytes a read asks for
          NULL

VARIABLES fds,             \* fd_table->fds
          file,            \* the file objects: id -> record, or NULL if free
          kernel,          \* files the kernel has opened for itself
          lost,            \* files no descriptor was found for
          got,             \* bytes each file object has delivered
          last             \* the last call: what was asked and answered

vars == <<fds, file, kernel, lost, got, last>>

Ids == 1 .. MaxFiles
Free == {f \in Ids : file[f] = NULL}
Init ==
  /\ fds = <<>> /\ file = [f \in Ids |-> NULL] /\ kernel = {} /\ lost = {}
  /\ got = [f \in Ids |-> 0] /\ last = [op |-> "init"]

\* The entries that a loop of fdt.c looks at: in its body the cursor is
\* replaced by the entry after the saved next one, which may be the list head
\* taken for an entry; that has no handle anybody could ask for.
Head0 == [handle |-> NULL, file |-> NULL, refcount |-> 0]
Examined(s) ==
  [j \in 1 .. Len(s) |-> IF j = Len(s) THEN s[1]
                         ELSE IF j = Len(s) - 1 THEN Head0 ELSE s[j + 2]]

\* One pass raises the handle past every equal one it meets; passes are made
\* until one changes nothing.
Pass(h) == FoldLeft(LAMBDA acc, e : IF e.handle = acc THEN acc + 1 ELSE acc, h, Examined(fds))
RECURSIVE NewHandle(_)
NewHandle(h) == IF Pass(h) = h THEN h ELSE NewHandle(Pass(h))

fdt_entry_add(f) ==
  LET h == NewHandle(0) IN
  /\ fds' = <<[handle |-> h, file |-> f, refcount |-> 1]>> \o fds
  /\ last' = [op |-> "open", ret |-> h]

\* The entry a search for the handle stops at, or none.
Found(h) ==
  LET hits == SelectSeq(Examined(fds), LAMBDA e : e.handle = h)
  IN  IF hits = <<>> THEN NULL ELSE hits[1]
fdt_entry_retr(h) == IF Found(h) = NULL THEN NULL ELSE Found(h).file

file_new(f, size) ==
  /\ f \in Free
  /\ file' = [file EXCEPT ![f] = [size |-> size, offset |-> 0, refcount |-> 1]]
  /\ got' = [got EXCEPT ![f] = 0]

file_release(f) ==
  file' = [file EXCEPT ![f] = IF @.refcount = 1 THEN NULL ELSE [@ EXCEPT !.refcount = @ - 1]]

\* open: the name is bad, the file is missing or there is no memory; or a
\* file object is made, and a descriptor for it unless memory runs out then.
Fails(op) == last' = [op |-> op, ret |-> -1]
sys_open(size) ==
  \/ Fails("open") /\ UNCHANGED <<fds, file, kernel, lost, got>>
  \/ /\ Free # {}
     /\ LET f == CHOOSE f \in Free : TRUE IN
        /\ file_new(f, size)
        /\ \/ fdt_entry_add(f) /\ UNCHANGED lost
           \/ Fails("open") /\ lost' = lost \cup {f} /\ UNCHANGED fds
     /\ UNCHANGED kernel

kernel_open(size) ==
  /\ Free # {}
  /\ LET f == CHOOSE f \in Free : TRUE IN file_new(f, size) /\ kernel' = kernel \cup {f}
  /\ last' = [op |-> "kernel_open", ret |-> 0]
  /\ UNCHANGED <<fds, lost>>
kernel_close(f) ==
  /\ f \in kernel /\ kernel' = kernel \ {f}
  /\ file_release(f) /\ last' = [op |-> "kernel_close", ret |-> 0]
  /\ UNCHANGED <<fds, lost, got>>

\* close: the entry goes, and with its last reference the file.
fdt_entry_del_keeps(h) ==
  LET e == Found(h) IN
  /\ IF e = NULL THEN UNCHANGED <<fds, file>>
     ELSE file_release(e.file) /\ UNCHANGED fds
  /\ UNCHANGED <<kernel, lost, got>>
fdt_entry_del(h) ==
  LET e == Found(h) IN
  /\ IF e # NULL /\ e.refcount = 1 THEN file_release(e.file) ELSE UNCHANGED file
  /\ fds' = IF e # NULL /\ e.refcount = 1 THEN SelectSeq(fds, LAMBDA x : x # e)
            ELSE [j \in DOMAIN fds |-> IF fds[j] = e THEN [e EXCEPT !.refcount = @ - 1] ELSE fds[j]]
  /\ UNCHANGED <<kernel, lost, got>>
sys_close(h) == fdt_entry_del(h) /\ last' = [op |-> "close", ret |-> 0]

\* kernel_read asks for no more than the file's size, and pread gives no more
\* than is left of it, less if a block cannot be read, -1 for a directory or a
\* bad buffer.  The offset moves by what was read.
Smaller(a, b) == IF a < b THEN a ELSE b
kernel_read(f, size, ret) ==
  LET r    == file[f]
      ask  == Smaller(size, r.size)
      left == IF r.offset + ask > r.size THEN r.size - r.offset ELSE ask
  IN  /\ ret \in {-1} \cup 0 .. left
      /\ file' = [file EXCEPT ![f].offset = @ + (IF ret > 0 THEN ret ELSE 0)]
      /\ got' = [got EXCEPT ![f] = @ + (IF ret > 0 THEN ret ELSE 0)]
sys_read(h, size) ==
  /\ \/ /\ fdt_entry_retr(h) = NULL /\ UNCHANGED <<file, got>>
        /\ last' = [op |-> "read", handle |-> h, ret |-> -1, found |-> FALSE]
     \/ /\ fdt_entry_retr(h) # NULL
        /\ \E ret \in -1 .. size :
             /\ kernel_read(fdt_entry_retr(h), size, ret)
             /\ last' = [op |-> "read", handle |-> h, ret |-> ret, found |-> TRUE]
  /\ UNCHANGED <<fds, kernel, lost>>
ReadKernel(f, size) ==
  /\ f \in kernel
  /\ \E ret \in -1 .. size : kernel_read(f, size, ret) /\ last' = [op |-> "kernel_read", ret |-> ret]
  /\ UNCHANGED <<fds, kernel, lost>>

Next ==
  \/ \E s \in Sizes : sys_open(s) \/ kernel_open(s)
  \/ \E h \in 0 .. MaxFiles : sys_close(h) \/ \E n \in Requests : sys_read(h, n)
  \/ \E f \in Ids : kernel_close(f) \/ \E n \in Requests : ReadKernel(f, n)
Spec == Init /\ [][Next]_vars

-----------------------------------------------------------------------------
Holders(f) == {j \in DOMAIN fds : fds[j].file = f}

\* A file object lives as long as something refers to it and no longer: its
\* count is the number of descriptors and kernel users it has, and a closed
\* file is freed.  Only one for which no descriptor was left is lost.
CountIsHolders ==
  /\ \A j \in DOMAIN fds : file[fds[j].file] # NULL
  /\ \A f \in Ids : file[f] # NULL /\ f \notin lost =>
       file[f].refcount = Cardinality(Holders(f)) + (IF f \in kernel THEN 1 ELSE 0)

\* Reads of a file deliver its bytes one after the other, none twice and none
\* past its end, through any sequence of short and failing reads.
ReadsGoOn == \A f \in Ids : file[f] # NULL => file[f].offset = got[f] /\ got[f] <= file[f].size

\* A descriptor that open returned and close has not taken is good for read.
OpenFileIsFound ==
  last.op = "read" /\ ~last.found => \A j \in DOMAIN fds : fds[j].handle # last.handle
=============================================================================
