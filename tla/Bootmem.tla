------------------------------ MODULE Bootmem ------------------------------
(***************************************************************************)
(* ia32_mm_init (arch-ia32/mm.c): from the memory map of the BIOS to the   *)
(* kernel's page tables, the page frame array and the free pages.          *)
(*                                                                         *)
(* The sizes are scaled down: a page is PageSize bytes, a page table has   *)
(* NrPte entries and is one page, a struct page is one byte, and physical  *)
(* addresses above MaxPhys have no place in the kernel's address space.    *)
(***************************************************************************)
EXTENDS Integers, Sequences, FiniteSets

CONSTANTS PageSize, NrPte, MaxPhys,
          KBegin, KRodata, KEnd,   \* __begin, __rodata_end and __bootmem_begin
          E820,                    \* the maps a BIOS may give
          NULL

VARIABLES pc, map, idx, contig_end, nr_physpages, bootmem_ptr, bootmem_end,
          tbls, pte, pfa, free
vars == <<pc, map, idx, contig_end, nr_physpages, bootmem_ptr, bootmem_end, tbls, pte, pfa, free>>

RoundUp(a) == ((a + PageSize - 1) \div PageSize) * PageSize
End(m) == m.base + m.len

\* Every loop over the map stops at the first entry out of reach.
Reach == {i \in DOMAIN map : \A j \in 1 .. i : map[j].base <= MaxPhys}

Init ==
  /\ map \in E820 /\ pc = "size" /\ idx = 1 /\ contig_end = 0 /\ nr_physpages = 0
  /\ bootmem_ptr = KEnd /\ bootmem_end = KEnd /\ tbls = NULL
  /\ pte = <<>> /\ pfa = <<>> /\ free = {}

\* The type is or-ed, not tested, so the last entry counts whatever it is.
size_up_ram == IF Reach = {} THEN 0 ELSE End(map[CHOOSE i \in Reach : \A j \in Reach : j <= i])

setup_max_bootmem ==
  LET ends == {End(map[i]) : i \in {j \in Reach : map[j].mem}} \cup {bootmem_end}
  IN  CHOOSE e \in ends : \A f \in ends : f <= e

SizeUp ==
  /\ pc = "size" /\ pc' = "tables"
  /\ nr_physpages' = size_up_ram \div PageSize
  /\ bootmem_end' = setup_max_bootmem
  /\ UNCHANGED <<map, idx, contig_end, bootmem_ptr, tbls, pte, pfa, free>>

bootmem_alloc(pages) == IF bootmem_ptr + pages * PageSize > bootmem_end THEN NULL ELSE bootmem_ptr

\* One table for every whole NrPte pages, and at least one; an entry for every
\* page; the kernel's text and constants are write protected.
nr_pgtbls == LET n == nr_physpages \div NrPte IN IF n = 0 THEN 1 ELSE n
map_ram == [i \in 0 .. nr_physpages - 1 |-> "rw"]
write_protect(f) ==
  [i \in DOMAIN f |-> IF i >= KBegin \div PageSize /\ i < RoundUp(KBegin - (KBegin % PageSize) + KRodata - KBegin) \div PageSize
                      THEN "ro" ELSE f[i]]
Tables ==
  /\ pc = "tables"
  /\ IF bootmem_alloc(nr_pgtbls) = NULL THEN pc' = "panic" /\ UNCHANGED <<tbls, pte, bootmem_ptr>>
     ELSE /\ tbls' = bootmem_ptr /\ bootmem_ptr' = bootmem_ptr + nr_pgtbls * PageSize
          /\ pte' = write_protect(map_ram) /\ pc' = "pfa"
  /\ UNCHANGED <<map, idx, contig_end, nr_physpages, bootmem_end, pfa, free>>

\* The array is cleared: entries of a table that lie there are lost.
Pfa ==
  LET pages == RoundUp(nr_physpages) \div PageSize IN
  /\ pc = "pfa"
  /\ IF bootmem_alloc(pages) = NULL THEN pc' = "panic" /\ UNCHANGED <<pte, pfa, bootmem_ptr>>
     ELSE /\ bootmem_ptr' = bootmem_ptr + pages * PageSize
          /\ pfa' = [i \in 0 .. nr_physpages - 1 |-> 0]
          /\ pte' = [i \in DOMAIN pte |->
               IF tbls + (i \div NrPte) * PageSize \in bootmem_ptr .. bootmem_ptr' - 1 THEN "none" ELSE pte[i]]
          /\ pc' = "reserve"
  /\ UNCHANGED <<map, idx, contig_end, nr_physpages, bootmem_end, tbls, free>>

\* reserve_pages: the last page of the range is rounded up and then included.
reserve_pages_down(f, begin, len) ==
  [i \in DOMAIN f |-> IF begin \div PageSize <= i /\ i < (begin + len) \div PageSize THEN 1 ELSE f[i]]
reserve_pages(f, begin, len) ==
  LET first == begin \div PageSize  last == RoundUp(begin + len - 1) \div PageSize
  IN  [i \in DOMAIN f |-> IF first <= i /\ i <= last THEN 1 ELSE f[i]]

reserve_from_e820 ==
  LET m == map[idx]
      hole == IF m.base # contig_end THEN reserve_pages(pfa, contig_end, m.base - contig_end) ELSE pfa IN
  /\ pc = "reserve" /\ idx \in Reach
  /\ pfa' = IF m.mem THEN hole ELSE reserve_pages(hole, m.base, m.len)
  /\ contig_end' = m.base + m.len /\ idx' = idx + 1
  /\ UNCHANGED <<pc, map, nr_physpages, bootmem_ptr, bootmem_end, tbls, pte, free>>

ReserveKernel ==
  /\ pc = "reserve" /\ idx \notin Reach /\ pc' = "free"
  /\ bootmem_end' = bootmem_ptr
  /\ pfa' = reserve_pages(pfa, KBegin, bootmem_ptr - KBegin)
  /\ UNCHANGED <<map, idx, contig_end, nr_physpages, bootmem_ptr, tbls, pte, free>>

FreePages ==
  /\ pc = "free" /\ pc' = "done"
  /\ free' = {i \in DOMAIN pfa : pfa[i] = 0}
  /\ UNCHANGED <<map, idx, contig_end, nr_physpages, bootmem_ptr, bootmem_end, tbls, pte, pfa>>

Next == SizeUp \/ Tables \/ Pfa \/ reserve_from_e820 \/ ReserveKernel \/ FreePages
Spec == Init /\ [][Next]_vars

-----------------------------------------------------------------------------
Page(i) == i * PageSize .. (i + 1) * PageSize - 1
IsRam(i) == \A a \in Page(i) : \E j \in DOMAIN map : map[j].mem /\ map[j].base <= a /\ a < End(map[j])
InKernel(i) == Page(i) \cap (KBegin .. bootmem_ptr - 1) # {}

\* The pages given to the page allocator are memory throughout, mapped
\* writable, and no part of the kernel, its page tables or the frame array;
\* for any sizes of the areas of the map, aligned or not.
FreeIsUsable == \A i \in free : IsRam(i) /\ ~InKernel(i) /\ pte[i] = "rw"

\* What is taken before the allocator is there, tables and array, is memory.
BootmemIsRam == \A i \in KEnd \div PageSize .. bootmem_ptr \div PageSize - 1 : IsRam(i)

\* All memory that the kernel has found is mapped.
AllRamMapped == pc = "done" => \A i \in DOMAIN pfa : pte[i] # "none"

\* A range is reserved up to its last byte: a page of memory outside the
\* kernel that no hole and no reserved area touches is free.
NothingElseReserved == pc = "done" => \A i \in DOMAIN pfa : IsRam(i) /\ ~InKernel(i) => i \in free
=============================================================================
