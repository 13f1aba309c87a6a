------------------------------ MODULE MCMemory ------------------------------
(***************************************************************************)
(* The memory management on small instances: the memory map of the boot,   *)
(* address spaces, and an object cache that one task uses.  They are put   *)
(* side by side, not connected: a behaviour runs one of them, which, and   *)
(* the others stay as they start.                                          *)
(***************************************************************************)
EXTENDS AddressSpace, TLC

CONSTANTS t1, t2, one

VARIABLES which,
          step, map, idx, contig_end, nr_physpages, bootmem_ptr, bootmem_end, tbls, pte, pfa, free,
          free_pages, o_ptr, o_ptr_end, o_cur, o_partials, o_full, free_list, inuse, memsem,
          live, pc, obj, chk, slab_bug
bootmemVars == <<step, map, idx, contig_end, nr_physpages, bootmem_ptr, bootmem_end, tbls, pte, pfa, free>>
slabVars == <<free_pages, o_ptr, o_ptr_end, o_cur, o_partials, o_full, free_list, inuse, memsem,
              live, pc, obj, chk, slab_bug>>
allVars == <<which, bootmemVars, vars, slabVars>>

-----------------------------------------------------------------------------
(* Maps as a BIOS gives them: low memory, a reserved area or a hole below  *)
(* the kernel, the memory the kernel is in, and perhaps a reserved tail    *)
(* and an area out of reach (80 is the end of what the kernel can reach).  *)
Mem(a, b) == [base |-> a, len |-> b - a, mem |-> TRUE]
Res(a, b) == [base |-> a, len |-> b - a, mem |-> FALSE]
Tails(e, top) == {<<>>, <<Res(e, top)>>} \cup {<<Res(e, top), Res(81, 84)>>}
Maps ==
  UNION {UNION {{<<Mem(0, a), Res(a, h), Mem(h, e)>> \o t, <<Mem(0, a), Mem(h, e)>> \o t} :
                t \in IF e = top THEN {<<>>, <<Res(81, 84)>>} ELSE Tails(e, top) \ {<<>>}} :
         <<a, h, e, top>> \in {q \in (5 .. 9) \X (9 .. 16) \X (40 .. 64) \X {48, 64} : q[1] <= q[2] /\ q[3] <= q[4]}}
OneMap == <<Mem(0, 8), Res(8, 12), Mem(12, 48)>>
B == INSTANCE Bootmem WITH PageSize <- 4, NrPte <- 4, MaxPhys <- 80, KBegin <- 16, KRodata <- 21, KEnd <- 24,
       E820 <- Maps, pc <- step

\* A program of two pages of its file and an anonymous page, which tasks that
\* fork share.
Seg(va, memsz, file, off) == [va |-> va, memsz |-> memsz, file |-> file, off |-> off]
Programs == {<<Seg(1, 2, TRUE, 1), Seg(6, 2, FALSE, 0)>>}
Shared == {{}}
\* A program of one anonymous page, whose tasks share it when they fork or get a
\* context of their own, and one whose segments overlap.
\* The parts of the run differ in how many contexts and pages they use.  A clone
\* that shares the tables of a context which an exec then drops takes three
\* contexts and five pages; there the tasks only read their own areas.
Small == <<Seg(0, 2, FALSE, 0)>>
Overlapping == <<Seg(0, 2, FALSE, 0), Seg(1, 1, TRUE, 1)>>
L == INSTANCE AddressSpace WITH Progs <- {Small, Overlapping}, ForkFlags <- {{}, {"MEM", "PID"}}
C == INSTANCE AddressSpace WITH Progs <- {Small}, ForkFlags <- {{"MEM", "PID"}}
Within(contexts, pages) ==
  /\ \A c \in contexts + 1 .. NCtx : ctx'[c] = NULL
  /\ \A p \in pages + 1 .. NPages : page'[p].use = "free"
OnlyReads == \A t \in Task : task'[t] # NULL => ~task'[t].write /\ task'[t].pc # "failed"

\* Three chunks of three objects, with a gap behind the objects.
S == INSTANCE Slab WITH Task <- {one}, NPages <- 3, o_num <- 3, Stride <- 4, bug <- slab_bug

\* It makes no difference which of the two tasks is there first.
Either == Permutations({t1, t2})

MCInit ==
  /\ which \in {"bootmem", "space", "life", "clones", "slab"}
  /\ B!Init /\ (which # "bootmem" => map = OneMap)
  /\ S!Init
  /\ Init

Only(x) ==
  /\ which = x /\ UNCHANGED which
  /\ IF x = "bootmem" THEN TRUE ELSE UNCHANGED bootmemVars
  /\ IF x \in {"space", "life", "clones"} THEN TRUE ELSE UNCHANGED vars
  /\ IF x = "slab" THEN TRUE ELSE UNCHANGED slabVars
\* The boot comes to an end, and a task may wait for a page that never comes free.
Ended == which # "slab" /\ UNCHANGED allVars
MCNext ==
  \/ Only("bootmem") /\ B!Next
  \/ Only("space") /\ Next /\ Within(1, 5)
  \/ Only("life") /\ L!Next /\ Within(2, 4)
  \/ Only("clones") /\ C!Next /\ Within(3, 5) /\ OnlyReads
  \/ Only("slab") /\ S!Next
  \/ Ended
MCSpec == MCInit /\ [][MCNext]_allVars

-----------------------------------------------------------------------------
(* Bootmem (arch-ia32/mm.c)                                                *)

\* The pages given to the page allocator are memory throughout, mapped writable, and
\* no part of the kernel, its tables or the frame array, for any sizes of the areas.
FreeIsUsable == which = "bootmem" => B!FreeIsUsable

(* Slab (memchunk.c)                                                       *)

\* With one task, and a gap between the last object and the end of a chunk, no
\* BUG_ON of the object cache fires, except for want of a page.
NoBug == which = "slab" => S!NoBug
=============================================================================
