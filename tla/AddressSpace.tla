---------------------------- MODULE AddressSpace ----------------------------
(***************************************************************************)
(* Address spaces: demand paging from the page cache and of anonymous      *)
(* memory, page tables, and the contexts that fork shares or clones and    *)
(* exec replaces (kernel/mm.c, pagecache.c, fork.c, exec.c, and the second *)
(* half of arch-ia32/mm.c).                                                *)
(*                                                                         *)
(* One CPU runs the tasks.  It may leave a task wherever interrupts are on *)
(* or the task sleeps (for the disk, for i_sem, for memory), so a handler  *)
(* is several actions, which end there.  cr3 is kept apart from the tasks: *)
(* a task switch loads it from the task's TSS and never stores it.         *)
(* One file is mapped; addresses and offsets count bytes.                  *)
(***************************************************************************)
EXTENDS Integers, FiniteSets, Sequences

CONSTANTS Task, NPages, NCtx, PageSize, NrPte, MaxVa,
          FileSize,          \* of the one file that is mapped
          Progs,             \* programs: sequences of segments (va, memsz, file, off)
          ForkFlags,         \* the flags fork is called with
          MaxPid,
          MaxCount,          \* bound on reference counts that leaks let grow
          NULL
ASSUME SizesAssumption ==
  /\ IsFiniteSet(Task) /\ NPages \in Nat /\ NCtx \in Nat /\ MaxVa \in Nat
  /\ PageSize \in Nat \ {0} /\ NrPte \in Nat \ {0}
  /\ Progs \subseteq Seq([va : Nat, memsz : Nat, file : BOOLEAN, off : Int])
  /\ ForkFlags \subseteq SUBSET {"MEM", "PID"}

VARIABLES page, ctx, cache, isem, task, cpu, next_pid, bug
vars == <<page, ctx, cache, isem, task, cpu, next_pid, bug>>

Pages == 1 .. NPages
Kernel == 0                  \* kthread_ctx, and the page of its directory
dir(va) == va \div (PageSize * NrPte)
tbl(va) == (va \div PageSize) % NrPte
Dirs == 0 .. dir(MaxVa)
NoPd == [d \in Dirs |-> NULL]
NoPt == [i \in 0 .. NrPte - 1 |-> NULL]
va_round_down(va) == va - (va % PageSize)
va_round_up(va) == va_round_down(va + PageSize - 1)

\* A task in user mode; the fields after pid are the locals of a handler.
Ready(c, d, pid) == [pc |-> "user", ctx |-> c, tss |-> d, pid |-> pid, va |-> 0, write |-> FALSE,
                     page |-> NULL, pt |-> NULL, new |-> NULL, flags |-> {}]
Empty == [use |-> "free", count |-> 0, pd |-> NoPd, pt |-> NoPt, off |-> 0]

\* mm_init and kernel_thread have made the context of the kernel, which the
\* idle task and [init] share, and its directory.
Init ==
  /\ page = [p \in {0} \cup Pages |-> IF p = 0 THEN [Empty EXCEPT !.use = "pgd", !.count = 1] ELSE Empty]
  /\ ctx = [c \in 0 .. NCtx |-> IF c = 0 THEN [vmas |-> {}, freed |-> FALSE, pgd |-> 0, count |-> 2] ELSE NULL]
  /\ cache = {} /\ isem = NULL /\ next_pid = 1 /\ bug = NULL
  /\ \E t \in Task :
       /\ task = [u \in Task |-> IF u = t THEN Ready(Kernel, 0, 1) ELSE NULL]
       /\ cpu = [task |-> t, cr3 |-> 0]

At(t, pc) == bug = NULL /\ cpu.task = t /\ task[t] # NULL /\ task[t].pc = pc
Goto(t, pc) == task' = [task EXCEPT ![t].pc = pc]
Back(t, pc) == task' = [task EXCEPT ![t] = [Ready(@.ctx, @.tss, @.pid) EXCEPT !.pc = pc]]

\* The page allocator and the cache of mem_ctx objects: the first free one.
NoPage == \A p \in Pages : page[p].use # "free"
alloc_page(use) == LET p == CHOOSE p \in Pages : page[p].use = "free" IN
                   <<p, [Empty EXCEPT !.use = use, !.count = 1]>>
NoCtx == \A c \in 1 .. NCtx : ctx[c] # NULL
FreeCtx == CHOOSE c \in 1 .. NCtx : ctx[c] = NULL
Put(f, kv) == [f EXCEPT ![kv[1]] = kv[2]]

sched(t) ==
  /\ bug = NULL /\ t # cpu.task /\ task[t] # NULL
  /\ cpu' = [task |-> t, cr3 |-> task[t].tss]
  /\ UNCHANGED <<page, ctx, cache, isem, task, next_pid, bug>>

-----------------------------------------------------------------------------
(* Page faults.                                                            *)

\* Where two areas meet, the shape of the tree decides which one is found.
lookup_vma(c, va) == {v \in ctx[c].vmas : v.begin <= va /\ va <= v.end}

Pte(c, va) == LET pt == page[ctx[c].pgd].pd[dir(va)] IN IF pt = NULL THEN NULL ELSE page[pt].pt[tbl(va)]

\* The handler calls mm_pagefault for an address that has no page; [init],
\* which has the context of the kernel until it execs, neither faults nor forks.
mm_pagefault(t) ==
  /\ At(t, "user") /\ task[t].ctx # Kernel
  /\ \E va \in 0 .. MaxVa, write \in BOOLEAN : \E v \in lookup_vma(task[t].ctx, va) \cup {NULL} :
       /\ Pte(task[t].ctx, va) = NULL
       /\ v = NULL => lookup_vma(task[t].ctx, va) = {}
       /\ IF v = NULL \/ (write /\ ~v.write) THEN Back(t, "failed")
          ELSE task' = [task EXCEPT ![t].pc = IF v.file THEN "readpage" ELSE "anon",
                 ![t].va = va_round_down(va), ![t].write = write,
                 ![t].page = IF v.file THEN v.off + va_round_down(va - v.begin) ELSE NULL]
  /\ UNCHANGED <<page, ctx, cache, isem, cpu, next_pid, bug>>

\* A task the fault handler gives up on exits, or gets an error from its
\* system call; the exiting task's page is freed and nothing else.
FaultFails(t) ==
  /\ At(t, "failed")
  /\ task' \in {[task EXCEPT ![t] = NULL], [task EXCEPT ![t].pc = "user"]}
  /\ UNCHANGED <<page, ctx, cache, isem, cpu, next_pid, bug>>

anon(t) ==
  /\ At(t, "anon")
  /\ IF NoPage THEN Back(t, "failed") /\ UNCHANGED page
     ELSE LET a == alloc_page("anon") IN
          page' = Put(page, a) /\ task' = [task EXCEPT ![t].pc = "map", ![t].page = a[1]]
  /\ UNCHANGED <<ctx, cache, isem, cpu, next_pid, bug>>

get_page(p) == [page EXCEPT ![p].count = @ + 1]
HoldSem_not(t) == UNCHANGED isem
HoldSem(t) == isem' = t

\* readpage: under i_sem, a hit takes a reference; a miss reads the page.
readpage(t) ==
  /\ At(t, "readpage") /\ isem = NULL
  /\ LET hit == {p \in cache : page[p].off = task[t].page} IN
     IF hit # {} THEN LET p == CHOOSE p \in hit : TRUE IN
       /\ page[p].count < MaxCount /\ page' = get_page(p)
       /\ task' = [task EXCEPT ![t].pc = "map", ![t].page = p] /\ UNCHANGED isem
     ELSE IF NoPage THEN Back(t, "failed") /\ UNCHANGED <<page, isem>>
     ELSE LET a == alloc_page("read") IN
       /\ page' = [Put(page, a) EXCEPT ![a[1]].off = task[t].page]
       /\ task' = [task EXCEPT ![t].pc = "pread", ![t].page = a[1]] /\ HoldSem(t)
  /\ UNCHANGED <<ctx, cache, cpu, next_pid, bug>>

\* pread gives nothing past the end of the file, or the disk fails.
pread(t) ==
  /\ At(t, "pread")
  /\ \E ok \in {FALSE} \cup {page[task[t].page].off < FileSize} :
       IF ok THEN /\ page' = [page EXCEPT ![task[t].page].use = "cache"]
                  /\ cache' = cache \cup {task[t].page} /\ Goto(t, "map")
       ELSE /\ page' = [page EXCEPT ![task[t].page] = Empty] /\ UNCHANGED cache /\ Back(t, "failed")
  /\ isem' = NULL /\ UNCHANGED <<ctx, cpu, next_pid, bug>>

\* map_page_to_ctx: the directory entry is tested, a page table may have to
\* be allocated, which may sleep, and then the entries are written.
map_page_to_ctx(t) ==
  /\ At(t, "map")
  /\ LET pt == page[ctx[task[t].ctx].pgd].pd[dir(task[t].va)] IN
     IF pt # NULL THEN task' = [task EXCEPT ![t].pc = "pte", ![t].pt = pt] /\ UNCHANGED page
     ELSE IF NoPage THEN Back(t, "failed") /\ UNCHANGED page
     ELSE LET a == alloc_page("pgt") IN
          page' = Put(page, a) /\ task' = [task EXCEPT ![t].pc = "pde", ![t].pt = a[1]]
  /\ UNCHANGED <<ctx, cache, isem, cpu, next_pid, bug>>
map_pde(t) ==
  /\ At(t, "pde") /\ Goto(t, "pte")
  /\ page' = [page EXCEPT ![ctx[task[t].ctx].pgd].pd[dir(task[t].va)] = task[t].pt]
  /\ UNCHANGED <<ctx, cache, isem, cpu, next_pid, bug>>
map_pte(t) ==
  /\ At(t, "pte") /\ Back(t, "user")
  /\ page' = [page EXCEPT ![task[t].pt].pt[tbl(task[t].va)] = [page |-> task[t].page, rw |-> task[t].write]]
  /\ UNCHANGED <<ctx, cache, isem, cpu, next_pid, bug>>

-----------------------------------------------------------------------------
(* fork.                                                                   *)
fork(t, flags) ==
  /\ At(t, "user") /\ task[t].ctx # Kernel /\ next_pid < MaxPid /\ ctx[task[t].ctx].count < MaxCount
  /\ task' = [task EXCEPT ![t].flags = flags, ![t].pc = IF "PID" \in flags THEN "pid" ELSE "mm",
                          ![t].va = IF "PID" \in flags THEN next_pid ELSE task[t].pid]
  /\ UNCHANGED <<page, ctx, cache, isem, cpu, next_pid, bug>>
\* ++next_pid was read before; it is written now.
pid_alloc(t) ==
  /\ At(t, "pid")
  /\ next_pid' = task[t].va + 1
  /\ task' = [task EXCEPT ![t].va = @ + 1, ![t].pc = "mm"]
  /\ UNCHANGED <<page, ctx, cache, isem, cpu, bug>>

\* mem_ctx_clone copies the directory, so the page tables are shared; its
\* copies of the vmas end up in no tree.  If memory runs out while they are
\* copied, the vmas that are freed are the parent's.
mem_ctx_get(c) == [ctx EXCEPT ![c].count = @ + 1]
clone_ctx(c, a) == [Put(page, a) EXCEPT ![a[1]].pd = page[ctx[c].pgd].pd]
mem_ctx_new(pgd) == [ctx EXCEPT ![FreeCtx] = [vmas |-> {}, freed |-> FALSE, pgd |-> pgd, count |-> 1]]
mem_ctx_clone(t) ==
  LET c == task[t].ctx  a == alloc_page("pgd") IN
  \/ /\ NoCtx \/ NoPage
     /\ task' = [task EXCEPT ![t].new = NULL, ![t].pc = "task"] /\ UNCHANGED <<page, ctx>>
  \/ /\ ~(NoCtx \/ NoPage)
     /\ page' = clone_ctx(c, a)
     /\ \/ /\ ctx' = mem_ctx_new(a[1])
           /\ task' = [task EXCEPT ![t].new = FreeCtx, ![t].pc = "task"]
        \/ /\ ctx[c].vmas # {}
           /\ ctx' = [ctx EXCEPT ![c].freed = TRUE]
           /\ task' = [task EXCEPT ![t].new = NULL, ![t].pc = "task"]
fork_mm(t) ==
  /\ At(t, "mm")
  /\ \/ "MEM" \in task[t].flags /\ mem_ctx_clone(t)
     \/ /\ "MEM" \notin task[t].flags /\ ctx' = mem_ctx_get(task[t].ctx)
        /\ task' = [task EXCEPT ![t].new = task[t].ctx, ![t].pc = "task"] /\ UNCHANGED page
  /\ UNCHANGED <<cache, isem, cpu, next_pid, bug>>

\* The child's page cannot be had: the context stays as it is.  task_clone
\* reads the directory of the context without a test.
fork_task(t) ==
  /\ At(t, "task")
  /\ \/ Back(t, "user") /\ UNCHANGED bug
     \/ /\ task[t].new = NULL /\ bug' = "no context" /\ UNCHANGED task
     \/ /\ task[t].new # NULL
        /\ \E u \in {u \in Task : task[u] = NULL} :
             task' = [task EXCEPT ![t] = Ready(@.ctx, @.tss, @.pid),
                        ![u] = Ready(task[t].new, ctx[task[t].new].pgd, task[t].va)]
        /\ UNCHANGED bug
  /\ UNCHANGED <<page, ctx, cache, isem, cpu, next_pid>>

-----------------------------------------------------------------------------
(* exec and exit.                                                          *)
setup_vma_off(s) == [begin |-> va_round_down(s.va), end |-> va_round_up(s.va + s.memsz), file |-> s.file,
                 write |-> ~s.file, off |-> s.off]
setup_vma(s) == [begin |-> va_round_down(s.va), end |-> va_round_up(s.va + s.memsz), file |-> s.file,
                 write |-> ~s.file, off |-> s.off - (s.va - va_round_down(s.va))]

\* vma_insert: an area that overlaps one of the tree is a BUG_ON.
vma_insert(v, w) == ~(v.end <= w.begin \/ v.begin >= w.end)
Clash(vs) == \E i, j \in DOMAIN vs : i < j /\ vma_insert(setup_vma(vs[j]), setup_vma(vs[i]))

\* mem_ctx_free: the vmas and the directory, but no page table.
destroy_ctx(c) == [page EXCEPT ![ctx[c].pgd] = Empty]
mem_ctx_put_tables(c) ==
  LET last == ctx[c].count = 1
      gone == {ctx[c].pgd} \cup {page[ctx[c].pgd].pd[d] : d \in Dirs} IN
  /\ ctx' = [ctx EXCEPT ![c] = IF last THEN NULL ELSE [ctx[c] EXCEPT !.count = @ - 1]]
  /\ page' = IF last THEN [p \in DOMAIN page |-> IF p \in gone THEN Empty ELSE page[p]] ELSE page
  /\ bug' = IF last /\ ctx[c].freed THEN "double free" ELSE bug
mem_ctx_put(c) ==
  LET last == ctx[c].count = 1 IN
  /\ ctx' = [ctx EXCEPT ![c] = IF last THEN NULL ELSE [ctx[c] EXCEPT !.count = @ - 1]]
  /\ page' = IF last THEN destroy_ctx(c) ELSE page
  /\ bug' = IF last /\ ctx[c].freed THEN "double free" ELSE bug

\* The file is read and mem_ctx_new called, either of which may fail.
setup_new_ctx(a) == [Put(page, a) EXCEPT ![a[1]].pd = page[Kernel].pd]
exec(t) ==
  /\ At(t, "user") /\ ~NoCtx /\ ~NoPage
  /\ LET a == alloc_page("pgd") IN
     /\ page' = setup_new_ctx(a)
     /\ ctx' = mem_ctx_new(a[1])
     /\ task' = [task EXCEPT ![t].pc = "vmas", ![t].new = FreeCtx]
  /\ UNCHANGED <<cache, isem, cpu, next_pid, bug>>
exec_vmas(t) ==
  /\ At(t, "vmas")
  /\ \E prog \in Progs : \E n \in 0 .. Len(prog) :
       LET mapped == {setup_vma(prog[i]) : i \in 1 .. n}  clash == Clash(SubSeq(prog, 1, n)) IN
       \/ clash /\ bug' = "overlap" /\ UNCHANGED <<page, ctx, task>>
       \/ /\ ~clash /\ n = Len(prog) /\ ctx' = [ctx EXCEPT ![task[t].new].vmas = mapped]
          /\ Goto(t, "commit") /\ UNCHANGED <<page, bug>>
       \/ ~clash /\ n < Len(prog) /\ mem_ctx_put(task[t].new) /\ Back(t, "user")
  /\ UNCHANGED <<cache, isem, cpu, next_pid>>
\* The commit, with interrupts off: the new directory is loaded and the old
\* context dropped, which may sleep; then the task gets its new context.
exec_commit(t) ==
  /\ At(t, "commit") /\ Goto(t, "enter")
  /\ cpu' = [cpu EXCEPT !.cr3 = ctx[task[t].new].pgd]
  /\ mem_ctx_put(task[t].ctx)
  /\ UNCHANGED <<cache, isem, next_pid>>
task_init_exec(t) ==
  LET c == task[t].new IN
  /\ At(t, "enter")
  /\ task' = [task EXCEPT ![t] = Ready(c, ctx[c].pgd, task[t].pid)]
  /\ cpu' = [cpu EXCEPT !.cr3 = ctx[c].pgd]
  /\ UNCHANGED <<page, ctx, cache, isem, next_pid, bug>>

Next ==
  \E t \in Task :
    \/ sched(t)
    \/ mm_pagefault(t) \/ FaultFails(t) \/ anon(t) \/ readpage(t) \/ pread(t)
    \/ map_page_to_ctx(t) \/ map_pde(t) \/ map_pte(t)
    \/ (\E flags \in ForkFlags : fork(t, flags)) \/ pid_alloc(t) \/ fork_mm(t) \/ fork_task(t)
    \/ exec(t) \/ exec_vmas(t) \/ exec_commit(t) \/ task_init_exec(t)
Spec == Init /\ [][Next]_vars

-----------------------------------------------------------------------------
Live == {c \in 0 .. NCtx : ctx[c] # NULL}
Vpages == {va \in 0 .. MaxVa : va % PageSize = 0}

\* The page cache holds one page of each offset: two tasks that miss the same
\* page do not both read it in.
OnePagePerOffset == \A p, q \in cache : page[p].off = page[q].off => p = q

\* No page table entry, directory entry or context refers to a free page, or to
\* one that is used for something else.
NoFreePageMapped ==
  \A c \in Live :
    /\ page[ctx[c].pgd].use = "pgd"
    /\ \A d \in Dirs : page[ctx[c].pgd].pd[d] \in {NULL} \cup {p \in Pages : page[p].use = "pgt"}
    /\ \A va \in Vpages : Pte(c, va) # NULL => page[Pte(c, va).page].use \in {"anon", "cache"}

\* A page of the page cache is counted at least once for every page table
\* entry that maps it.
CountCoversMappings ==
  \A p \in cache : page[p].count >=
    Cardinality({e \in Pages \X (0 .. NrPte - 1) :
      page[e[1]].use = "pgt" /\ page[e[1]].pt[e[2]] # NULL /\ page[e[1]].pt[e[2]].page = p})

\* Every address of an area is backed, if at all, by the page it should be: of
\* a program's file the page its segment puts there, elsewhere an anonymous one,
\* and only areas that may be written are mapped writable.
RightPage ==
  \A c \in Live : \A v \in ctx[c].vmas : \A va \in Vpages :
    v.begin <= va /\ va < v.end /\ Pte(c, va) # NULL =>
      LET p == page[Pte(c, va).page] IN
      /\ p.use = (IF v.file THEN "cache" ELSE "anon")
      /\ v.file => \E prog \in Progs : \E i \in DOMAIN prog :
                      prog[i].file /\ p.off = prog[i].off + va - prog[i].va
      /\ Pte(c, va).rw => v.write

\* The directory the CPU works with is never a free page.
DirectoryIsLive == page[cpu.cr3].use = "pgd"

\* A context is counted once for every task that works in it (and is never
\* freed while one does).
CountCoversTasks ==
  \A c \in Live \cup {0} : Cardinality({t \in Task : task[t] # NULL /\ task[t].ctx = c /\ task[t].pc # "enter"})
                 <= (IF ctx[c] = NULL THEN 0 ELSE ctx[c].count)

\* Writes of a task that was forked with its own copy of the memory are not
\* seen by others: no page is writable through two contexts.
MemoryIsPrivate ==
  \A c, d \in Live : \A va \in Vpages :
    c # d /\ Pte(c, va) # NULL /\ Pte(c, va).rw => Pte(d, va) # Pte(c, va)

\* Every task that asked for a pid of its own has one nobody else has.
PidsDistinct == \A t, u \in Task : t # u /\ task[t] # NULL /\ task[u] # NULL => task[t].pid # task[u].pid

\* No vma is given back to the slab allocator twice.
NoDoubleFree == bug # "double free"
-----------------------------------------------------------------------------
(* The inductive invariant.                                                *)
Slots == 0 .. NrPte - 1
Frames == {0} \cup Pages
PteRec == [page : Pages, rw : BOOLEAN]
PageRec == [use : {"free", "pgd", "pgt", "anon", "read", "cache"}, count : Nat,
            pd : [Dirs -> Pages \cup {NULL}], pt : [Slots -> PteRec \cup {NULL}], off : Int]
Vma == [begin : Int, end : Int, file : BOOLEAN, write : BOOLEAN, off : Int]
CtxRec == [vmas : SUBSET Vma, freed : BOOLEAN, pgd : Frames, count : Nat]
TaskRec == [pc : {"user", "failed", "anon", "readpage", "pread", "map", "pde", "pte",
                  "pid", "mm", "task", "vmas", "commit", "enter"},
            ctx : 0 .. NCtx, tss : Frames, pid : Int, va : Int, write : BOOLEAN,
            page : Int \cup {NULL}, pt : Pages \cup {NULL}, new : (0 .. NCtx) \cup {NULL},
            flags : SUBSET {"MEM", "PID"}]
ASSUME NullAssumption == NULL \notin Int /\ NULL \notin Task /\ NULL \notin PteRec /\ NULL \notin CtxRec /\ NULL \notin TaskRec
TypeOK ==
  /\ page \in [Frames -> PageRec] /\ ctx \in [0 .. NCtx -> CtxRec \cup {NULL}]
  /\ cache \subseteq Pages /\ task \in [Task -> TaskRec \cup {NULL}] /\ next_pid \in Int

\* What page tables, directories, the page cache and contexts point at.
PointersOK ==
  /\ \A p \in Frames : \A d \in Dirs : page[p].pd[d] # NULL => page[page[p].pd[d]].use = "pgt"
  /\ \A p \in Frames : \A k \in Slots : page[p].pt[k] # NULL => page[page[p].pt[k].page].use \in {"anon", "cache"}
  /\ \A p \in cache : page[p].use = "cache"
ContextsOK ==
  /\ \A c \in 0 .. NCtx : ctx[c] # NULL => page[ctx[c].pgd].use = "pgd"
  /\ \A c, e \in 0 .. NCtx : ctx[c] # NULL /\ ctx[e] # NULL /\ ctx[c].pgd = ctx[e].pgd => c = e

\* What a task has in hand between two steps of a page fault.
InHand(t) ==
  /\ task[t].pc \in {"anon", "readpage", "pread", "map", "pde", "pte"} => task[t].va \in 0 .. MaxVa
  /\ task[t].pc = "readpage" => task[t].page \in Int
  /\ task[t].pc \in {"map", "pde", "pte"} => task[t].page \in Pages /\ page[task[t].page].use \in {"anon", "cache"}
  /\ task[t].pc \in {"pde", "pte"} => task[t].pt \in Pages /\ page[task[t].pt].use = "pgt"
  /\ task[t].pc = "pread" => /\ isem = t /\ task[t].page \in Pages /\ page[task[t].page].use = "read"
                             /\ \A p \in cache : page[p].off # page[task[t].page].off

\* The references to context c: as the context of a task, and as the one that
\* fork and exec are making for it.
Refers(k, how, c) ==
  \/ how = "ctx" /\ k.pc # "enter" /\ k.ctx = c
  \/ how = "new" /\ k.pc \in {"task", "vmas", "commit", "enter"} /\ k.new = c
Refs(c) == {r \in Task \X {"ctx", "new"} : task[r[1]] # NULL /\ Refers(task[r[1]], r[2], c)}
CountCoversRefs ==
  \A c \in 0 .. NCtx : IF ctx[c] = NULL THEN Refs(c) = {} ELSE Cardinality(Refs(c)) <= ctx[c].count
NewIsThere == \A t \in Task : task[t] # NULL /\ task[t].pc \in {"vmas", "commit", "enter"} => task[t].new # NULL
IInv ==
  /\ TypeOK /\ PointersOK /\ ContextsOK /\ CountCoversRefs /\ NewIsThere /\ OnePagePerOffset
  /\ \A t \in Task : task[t] # NULL => InHand(t)
=============================================================================
