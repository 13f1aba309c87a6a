------------------------- MODULE AddressSpaceProofs -------------------------
(***************************************************************************)
(* Proofs about AddressSpace: no page that is mapped is free, and the page *)
(* cache has one page of each offset, for any tasks, programs and sizes.   *)
(***************************************************************************)
EXTENDS AddressSpace, TLAPS

\* What a step leaves alone of a page: what it is used for, and of which offset.
Keeps(p) == page'[p].use = page[p].use /\ page'[p].off = page[p].off
Uses == {"free", "pgd", "pgt", "anon", "read", "cache"}

-----------------------------------------------------------------------------
(* The operators of the model.                                             *)

\* The page directory has an entry for every address, each table one for every page.
LEMMA Indices ==
  ASSUME NEW va \in 0 .. MaxVa
  PROVE  dir(va) \in Dirs /\ tbl(va) \in Slots
<1>1. PICK K : K = PageSize * NrPte
  OBVIOUS
<1>2. K \in Nat \ {0}
  BY <1>1, SizesAssumption
<1>3. va \div K <= MaxVa \div K /\ va \div K \in Nat /\ MaxVa \div K \in Nat
  BY <1>2, SizesAssumption
<1>4. dir(va) \in Dirs
  BY <1>1, <1>3 DEF dir, Dirs
<1>5. va \div PageSize \in Nat
  BY SizesAssumption
<1>6. (va \div PageSize) % NrPte \in 0 .. NrPte - 1
  BY <1>5, SizesAssumption
<1> QED
  BY <1>4, <1>6 DEF tbl, Slots

\* Rounding down does not leave the address space.
LEMMA RoundDown ==
  ASSUME NEW a \in Int
  PROVE  va_round_down(a) \in Int /\ (a \in 0 .. MaxVa => va_round_down(a) \in 0 .. MaxVa)
<1>1. a % PageSize \in 0 .. PageSize - 1
  BY SizesAssumption
<1>2. a \in Nat => a % PageSize <= a
  BY SizesAssumption
<1> QED
  BY <1>1, <1>2, SizesAssumption DEF va_round_down

\* A page that is given back has no entries.
LEMMA EmptyPage ==
  /\ Empty \in PageRec /\ Empty.use = "free"
  /\ \A d \in Dirs : Empty.pd[d] = NULL
  /\ \A k \in Slots : Empty.pt[k] = NULL
<1>1. NoPd \in [Dirs -> Pages \cup {NULL}] /\ NoPt \in [Slots -> PteRec \cup {NULL}]
  BY DEF NoPd, NoPt, Slots
<1>2. Empty \in PageRec
  BY <1>1 DEF Empty, PageRec
<1> QED
  BY <1>2 DEF Empty, NoPd, NoPt, Slots

\* The page allocator gives a free page, cleared.
LEMMA Alloc ==
  ASSUME TypeOK, ~NoPage, NEW u \in Uses
  PROVE  \E p \in Pages : \E r \in PageRec :
           /\ alloc_page(u) = <<p, r>> /\ page[p].use = "free"
           /\ r.use = u /\ r.off = 0 /\ r.pd = NoPd /\ r.pt = NoPt
<1>1. PICK p \in Pages : p = CHOOSE q \in Pages : page[q].use = "free"
  BY DEF NoPage
<1>2. page[p].use = "free"
  BY <1>1 DEF NoPage
<1>3. PICK r : r = [Empty EXCEPT !.use = u, !.count = 1]
  OBVIOUS
<1>4. r \in PageRec /\ r.use = u /\ r.off = 0 /\ r.pd = NoPd /\ r.pt = NoPt
  BY <1>3, EmptyPage, Zenon DEF PageRec, Empty, Uses
<1>5. alloc_page(u) = <<p, r>>
  BY <1>1, <1>3 DEF alloc_page
<1> QED
  BY <1>2, <1>4, <1>5

\* A page put in the place of another.
LEMMA PutPage ==
  ASSUME TypeOK, NEW p \in Pages, NEW r \in PageRec
  PROVE  /\ Put(page, <<p, r>>) \in [Frames -> PageRec] /\ Put(page, <<p, r>>)[p] = r
         /\ \A q \in Frames : q # p => Put(page, <<p, r>>)[q] = page[q]
BY DEF Put, TypeOK, Frames

-----------------------------------------------------------------------------
(* Parts of the invariant that many steps keep for the same reason.        *)

\* Page tables and mapped pages are never given back, and a new entry points at a
\* page table or at a page with contents.
LEMMA PointersKept ==
  ASSUME IInv, TypeOK', cache' = cache,
         \A p \in Pages : page[p].use \in {"pgt", "anon", "cache"} => Keeps(p),
         \A p \in Frames, d \in Dirs : page'[p].pd[d] # NULL =>
            (\E q \in Frames : page[q].pd[d] = page'[p].pd[d]) \/ page'[page'[p].pd[d]].use = "pgt",
         \A p \in Frames, k \in Slots : page'[p].pt[k] # NULL =>
            (\E q \in Frames : page[q].pt[k] = page'[p].pt[k]) \/ page'[page'[p].pt[k].page].use \in {"anon", "cache"}
  PROVE  PointersOK' /\ OnePagePerOffset'
<1>1. TypeOK /\ PointersOK /\ OnePagePerOffset
  BY DEF IInv
<1>2. ASSUME NEW p \in Frames, NEW d \in Dirs, page'[p].pd[d] # NULL
      PROVE  page'[page'[p].pd[d]].use = "pgt"
  <2>1. CASE \E q \in Frames : page[q].pd[d] = page'[p].pd[d]
    <3>1. PICK q \in Frames : page[q].pd[d] = page'[p].pd[d]
      BY <2>1
    <3>2. page[page[q].pd[d]].use = "pgt"
      BY <1>1, <1>2, <3>1 DEF PointersOK
    <3>3. page[q].pd[d] \in Pages
      BY <1>1, <1>2, <3>1 DEF TypeOK, PageRec
    <3> QED
      BY <3>1, <3>2, <3>3 DEF Keeps
  <2> QED
    BY <1>2, <2>1
<1>3. ASSUME NEW p \in Frames, NEW k \in Slots, page'[p].pt[k] # NULL
      PROVE  page'[page'[p].pt[k].page].use \in {"anon", "cache"}
  <2>1. CASE \E q \in Frames : page[q].pt[k] = page'[p].pt[k]
    <3>1. PICK q \in Frames : page[q].pt[k] = page'[p].pt[k]
      BY <2>1
    <3>2. page[page[q].pt[k].page].use \in {"anon", "cache"}
      BY <1>1, <1>3, <3>1 DEF PointersOK
    <3>3. page[q].pt[k] \in PteRec
      BY <1>1, <1>3, <3>1 DEF TypeOK, PageRec
    <3>4. page[q].pt[k].page \in Pages
      BY <3>3 DEF PteRec
    <3> QED
      BY <3>1, <3>2, <3>4 DEF Keeps
  <2> QED
    BY <1>3, <2>1
<1>4. \A p \in cache : page[p].use = "cache" /\ p \in Pages /\ Keeps(p)
  BY <1>1 DEF TypeOK, PointersOK
<1>5. OnePagePerOffset'
  BY <1>1, <1>4 DEF OnePagePerOffset, Keeps
<1>6. \A p \in cache' : page'[p].use = "cache"
  BY <1>4 DEF Keeps
<1> QED
  BY <1>2, <1>3, <1>5, <1>6 DEF PointersOK

\* What a task has in hand stays what it is.
LEMMA HandsKept ==
  ASSUME TypeOK, NEW u \in Task, InHand(u), task'[u] = task[u],
         \A p \in Pages : page[p].use \in {"pgt", "anon", "cache"} => Keeps(p),
         task[u].pc = "pread" => /\ isem' = isem /\ cache' = cache
                                 /\ \A p \in Pages : page[p].use \in {"read", "cache"} => Keeps(p),
         \A p \in cache : page[p].use = "cache"
  PROVE  InHand(u)'
<1>1. cache \subseteq Pages
  BY DEF TypeOK
<1>2. task[u].pc = "pread" =>
        /\ isem' = u /\ task[u].page \in Pages /\ page'[task[u].page].use = "read"
        /\ \A p \in cache' : page'[p].off # page'[task[u].page].off
  BY <1>1 DEF InHand, Keeps
<1> QED
  BY <1>2 DEF InHand, Keeps

\* A context that is there keeps its directory.
LEMMA ContextsKept ==
  ASSUME IInv, TypeOK',
         \A c \in 0 .. NCtx : ctx'[c] # NULL =>
            ctx[c] # NULL /\ ctx'[c].pgd = ctx[c].pgd /\ page'[ctx[c].pgd].use = page[ctx[c].pgd].use
  PROVE  ContextsOK'
BY DEF IInv, ContextsOK

\* A context that is made has a directory of its own.
LEMMA ContextMade ==
  ASSUME IInv, TypeOK', NEW c \in 0 .. NCtx, NEW p \in Pages, ctx[c] = NULL, page[p].use = "free",
         ctx'[c].pgd = p, page'[p].use = "pgd",
         \A e \in 0 .. NCtx : e # c => ctx'[e] = ctx[e],
         \A q \in Frames : q # p => page'[q].use = page[q].use
  PROVE  ContextsOK'
<1>1. \A e \in 0 .. NCtx : e # c /\ ctx[e] # NULL => ctx[e].pgd \in Frames /\ page[ctx[e].pgd].use = "pgd"
  BY DEF IInv, ContextsOK, TypeOK, CtxRec
<1>2. \A e \in 0 .. NCtx : e # c /\ ctx[e] # NULL => ctx[e].pgd # p
  BY <1>1
<1>3. ContextsOK
  BY DEF IInv
<1> QED
  BY <1>1, <1>2, <1>3 DEF ContextsOK

-----------------------------------------------------------------------------
(* References to contexts.                                                 *)
Kinds == {"ctx", "new"}

\* What is needed of the sizes of sets of references; CountingHolds proves it.
Counting ==
  \A S, T \in SUBSET (Task \X Kinds) :
    /\ Cardinality(S) \in Nat /\ (Cardinality(S) = 0 <=> S = {})
    /\ T \subseteq S => Cardinality(T) <= Cardinality(S)
    /\ \A x : T \subseteq S \cup {x} => Cardinality(T) <= Cardinality(S) + 1
    /\ \A x \in S : T \subseteq S \ {x} => Cardinality(T) + 1 <= Cardinality(S)

\* The references of a context are such a set, before and after a step.
LEMMA RefsCounted ==
  ASSUME Counting, NEW c
  PROVE  /\ Refs(c) \in SUBSET (Task \X Kinds) /\ Cardinality(Refs(c)) \in Nat
         /\ Refs(c)' \in SUBSET (Task \X Kinds) /\ Cardinality(Refs(c)') \in Nat
<1>1. Refs(c) \in SUBSET (Task \X Kinds) /\ Refs(c)' \in SUBSET (Task \X Kinds)
  BY DEF Refs, Kinds
<1> QED
  BY <1>1 DEF Counting

\* Only the references of the tasks whose record changes can change.
LEMMA RefsOfOthers ==
  ASSUME NEW T \in SUBSET Task, NEW c, \A u \in Task \ T : task'[u] = task[u]
  PROVE  \A u \in Task \ T, how \in Kinds : <<u, how>> \in Refs(c)' <=> <<u, how>> \in Refs(c)
BY DEF Refs, Kinds

\* A set of references is given by its pairs.
LEMMA RefsPairs ==
  ASSUME NEW c, NEW A,
         \A u \in Task, how \in Kinds : <<u, how>> \in Refs(c)' => <<u, how>> \in A
  PROVE  Refs(c)' \subseteq A
<1> SUFFICES ASSUME NEW r \in Refs(c)' PROVE r \in A
  OBVIOUS
<1>1. r \in Task \X Kinds
  BY DEF Refs, Kinds
<1>2. PICK u \in Task, how \in Kinds : r = <<u, how>>
  BY <1>1
<1> QED
  BY <1>2

\* What it is for a task to refer to a context.
LEMMA RefOf ==
  ASSUME NEW c, NEW u \in Task
  PROVE  /\ <<u, "ctx">> \in Refs(c) <=> task[u] # NULL /\ task[u].pc # "enter" /\ task[u].ctx = c
         /\ <<u, "new">> \in Refs(c) <=>
              task[u] # NULL /\ task[u].pc \in {"task", "vmas", "commit", "enter"} /\ task[u].new = c
         /\ <<u, "ctx">> \in Refs(c)' <=> task'[u] # NULL /\ task'[u].pc # "enter" /\ task'[u].ctx = c
         /\ <<u, "new">> \in Refs(c)' <=>
              task'[u] # NULL /\ task'[u].pc \in {"task", "vmas", "commit", "enter"} /\ task'[u].new = c
BY DEF Refs, Refers

\* A step that adds no reference and takes no count away.
LEMMA CountsKept ==
  ASSUME Counting, IInv, TypeOK',
         \A c \in 0 .. NCtx : /\ Refs(c)' \subseteq Refs(c) /\ (ctx'[c] = NULL <=> ctx[c] = NULL)
                              /\ ctx[c] # NULL => ctx'[c].count = ctx[c].count
  PROVE  CountCoversRefs'
<1> SUFFICES ASSUME NEW c \in 0 .. NCtx
             PROVE  (IF ctx[c] = NULL THEN Refs(c) = {} ELSE Cardinality(Refs(c)) <= ctx[c].count)'
  BY DEF CountCoversRefs
<1>1. IF ctx[c] = NULL THEN Refs(c) = {} ELSE Cardinality(Refs(c)) <= ctx[c].count
  BY DEF IInv, CountCoversRefs
<1>2. CASE ctx[c] = NULL
  BY <1>1, <1>2
<1>3. CASE ctx[c] # NULL
  <2>1. Cardinality(Refs(c)') <= Cardinality(Refs(c))
    BY RefsCounted, Zenon DEF Counting
  <2>2. ctx[c].count \in Nat /\ ctx'[c].count = ctx[c].count
    BY <1>3 DEF IInv, TypeOK, CtxRec
  <2> QED
    BY <1>1, <1>3, <2>1, <2>2, RefsCounted
<1> QED
  BY <1>2, <1>3

\* One reference more, which is counted, or the first one to a new context.
LEMMA RefAdded ==
  ASSUME Counting, IInv, TypeOK', NEW a \in 0 .. NCtx, NEW x, Refs(a)' \subseteq Refs(a) \cup {x},
         ctx'[a] # NULL, ctx'[a].count = (IF ctx[a] = NULL THEN 1 ELSE ctx[a].count + 1),
         \A c \in (0 .. NCtx) \ {a} : Refs(c)' \subseteq Refs(c) /\ ctx'[c] = ctx[c]
  PROVE  CountCoversRefs'
<1> SUFFICES ASSUME NEW c \in 0 .. NCtx
             PROVE  (IF ctx[c] = NULL THEN Refs(c) = {} ELSE Cardinality(Refs(c)) <= ctx[c].count)'
  BY DEF CountCoversRefs
<1>1. IF ctx[c] = NULL THEN Refs(c) = {} ELSE Cardinality(Refs(c)) <= ctx[c].count
  BY DEF IInv, CountCoversRefs
<1>2. ctx[c] # NULL => ctx[c].count \in Nat
  BY DEF IInv, TypeOK, CtxRec
<1>3. CASE c # a
  <2>1. Cardinality(Refs(c)') <= Cardinality(Refs(c))
    BY <1>3, RefsCounted DEF Counting
  <2> QED
    BY <1>1, <1>2, <1>3, <2>1, RefsCounted
<1>4. CASE c = a
  <2>1. Cardinality(Refs(c)') <= Cardinality(Refs(c)) + 1
    BY <1>4, RefsCounted, Zenon DEF Counting
  <2>2. ctx[c] = NULL => Cardinality(Refs(c)) = 0
    BY <1>1, RefsCounted DEF Counting
  <2> QED
    BY <1>1, <1>2, <1>4, <2>1, <2>2, RefsCounted
<1> QED
  BY <1>3, <1>4

\* One reference is dropped, and the context goes with the last one.
LEMMA RefDropped ==
  ASSUME Counting, IInv, TypeOK', NEW a \in 0 .. NCtx, NEW x \in Refs(a), Refs(a)' \subseteq Refs(a) \ {x},
         ctx[a] # NULL, IF ctx[a].count = 1 THEN ctx'[a] = NULL
                        ELSE ctx'[a] # NULL /\ ctx'[a].count = ctx[a].count - 1,
         \A c \in (0 .. NCtx) \ {a} : Refs(c)' \subseteq Refs(c) /\ ctx'[c] = ctx[c]
  PROVE  CountCoversRefs'
<1> SUFFICES ASSUME NEW c \in 0 .. NCtx
             PROVE  (IF ctx[c] = NULL THEN Refs(c) = {} ELSE Cardinality(Refs(c)) <= ctx[c].count)'
  BY DEF CountCoversRefs
<1>1. IF ctx[c] = NULL THEN Refs(c) = {} ELSE Cardinality(Refs(c)) <= ctx[c].count
  BY DEF IInv, CountCoversRefs
<1>2. ctx[c] # NULL => ctx[c].count \in Nat
  BY DEF IInv, TypeOK, CtxRec
<1>3. CASE c # a
  <2>1. Cardinality(Refs(c)') <= Cardinality(Refs(c))
    BY <1>3, RefsCounted DEF Counting
  <2> QED
    BY <1>1, <1>2, <1>3, <2>1, RefsCounted
<1>4. CASE c = a
  <2>1. Cardinality(Refs(c)') + 1 <= Cardinality(Refs(c))
    BY <1>4, RefsCounted, Zenon DEF Counting
  <2>2. CASE ctx[c].count = 1
    <3>1. Cardinality(Refs(c)') = 0
      BY <1>1, <1>4, <2>1, <2>2, RefsCounted
    <3> QED
      BY <1>4, <2>2, <3>1, RefsCounted DEF Counting
  <2>3. CASE ctx[c].count # 1
    BY <1>1, <1>2, <1>4, <2>1, <2>3, RefsCounted
  <2> QED
    BY <2>2, <2>3
<1> QED
  BY <1>3, <1>4

\* One reference takes the place of another.
LEMMA RefMoved ==
  ASSUME Counting, IInv, TypeOK', NEW a \in 0 .. NCtx, NEW x \in Refs(a), NEW y, Refs(a)' \subseteq (Refs(a) \ {x}) \cup {y},
         ctx' = ctx, \A c \in (0 .. NCtx) \ {a} : Refs(c)' \subseteq Refs(c)
  PROVE  CountCoversRefs'
<1> SUFFICES ASSUME NEW c \in 0 .. NCtx
             PROVE  (IF ctx[c] = NULL THEN Refs(c) = {} ELSE Cardinality(Refs(c)) <= ctx[c].count)'
  BY DEF CountCoversRefs
<1>1. IF ctx[c] = NULL THEN Refs(c) = {} ELSE Cardinality(Refs(c)) <= ctx[c].count
  BY DEF IInv, CountCoversRefs
<1>2. ctx[c] # NULL => ctx[c].count \in Nat
  BY DEF IInv, TypeOK, CtxRec
<1>3. CASE c # a
  <2>1. Cardinality(Refs(c)') <= Cardinality(Refs(c))
    BY <1>3, RefsCounted, Zenon DEF Counting
  <2>2. Refs(c)' \subseteq Refs(c)
    BY <1>3
  <2> QED
    BY <1>1, <1>2, <2>1, <2>2, RefsCounted
<1>4. CASE c = a
  <2>1. PICK S \in SUBSET (Task \X Kinds) : S = Refs(c) \ {x}
    BY RefsCounted, Zenon
  <2>2. Cardinality(S) + 1 <= Cardinality(Refs(c)) /\ Cardinality(S) \in Nat
    BY <1>4, <2>1, RefsCounted, Zenon DEF Counting
  <2>3. Cardinality(Refs(c)') <= Cardinality(S) + 1
    BY <1>4, <2>1, RefsCounted, Zenon DEF Counting
  <2> QED
    BY <1>1, <1>2, <1>4, <2>2, <2>3, RefsCounted
<1> QED
  BY <1>3, <1>4

-----------------------------------------------------------------------------
(* The steps.                                                              *)

\* Steps that change none of the state the invariant is about.
LEMMA NothingChanges ==
  ASSUME IInv, UNCHANGED <<page, ctx, cache, isem, task, next_pid>>
  PROVE  IInv'
<1>1. TypeOK' /\ PointersOK' /\ ContextsOK' /\ NewIsThere' /\ OnePagePerOffset'
  BY DEF IInv, TypeOK, PointersOK, ContextsOK, NewIsThere, OnePagePerOffset
<1>2. CountCoversRefs'
  BY DEF IInv, CountCoversRefs, Refs
<1>3. \A t \in Task : task'[t] # NULL => InHand(t)'
  BY DEF IInv, InHand
<1> QED
  BY <1>1, <1>2, <1>3 DEF IInv

\* The task that takes a step is there, and so is its context.
LEMMA AtWork ==
  ASSUME IInv, NEW t \in Task, NEW l, l # "enter", At(t, l)
  PROVE  /\ task[t] \in TaskRec /\ task[t] # NULL /\ task[t].pc = l /\ InHand(t)
         /\ task[t].ctx \in 0 .. NCtx /\ <<t, "ctx">> \in Refs(task[t].ctx)
         /\ ctx[task[t].ctx] # NULL /\ ctx[task[t].ctx] \in CtxRec
<1>1. task[t] \in TaskRec /\ task[t] # NULL /\ task[t].pc = l /\ InHand(t)
  BY DEF At, IInv, TypeOK
<1>2. task[t].ctx \in 0 .. NCtx
  BY <1>1 DEF TaskRec
<1>3. <<t, "ctx">> \in Refs(task[t].ctx)
  BY <1>1, RefOf, Zenon
<1>4. <<t, "ctx">> \in Refs(task[t].ctx) => ctx[task[t].ctx] # NULL
  BY <1>2 DEF IInv, CountCoversRefs
<1>5. ctx[task[t].ctx] # NULL => ctx[task[t].ctx] \in CtxRec
  BY <1>2 DEF IInv, TypeOK
<1> QED
  BY <1>1, <1>2, <1>3, <1>4, <1>5

\* A task in user mode.
LEMMA ReadyTask ==
  ASSUME NEW c \in 0 .. NCtx, NEW d \in Frames, NEW n \in Int
  PROVE  /\ Ready(c, d, n) \in TaskRec /\ Ready(c, d, n).pc = "user" /\ Ready(c, d, n).ctx = c
         /\ Ready(c, d, n).tss = d /\ Ready(c, d, n).pid = n
<1>1. FALSE \in BOOLEAN /\ {} \in SUBSET {"MEM", "PID"} /\ 0 \in Int
  OBVIOUS
<1> QED
  BY <1>1 DEF Ready, TaskRec

\* A task that gives up goes back with its locals cleared.
LEMMA BackTo ==
  ASSUME TypeOK, NEW t \in Task, task[t] \in TaskRec, NEW l \in {"user", "failed"}, Back(t, l)
  PROVE  /\ task' \in [Task -> TaskRec \cup {NULL}] /\ \A u \in Task \ {t} : task'[u] = task[u]
         /\ task'[t].pc = l /\ task'[t].ctx = task[t].ctx
<1>1. PICK k : k = Ready(task[t].ctx, task[t].tss, task[t].pid)
  OBVIOUS
<1>2. k \in TaskRec /\ k.ctx = task[t].ctx
  BY <1>1, ReadyTask DEF TaskRec
<1>3. PICK r : r = [k EXCEPT !.pc = l]
  BY Zenon
<1>4. r \in TaskRec /\ r.pc = l /\ r.ctx = task[t].ctx
  BY <1>2, <1>3 DEF TaskRec
<1>5. task' = [task EXCEPT ![t] = r]
  BY <1>1, <1>3 DEF Back
<1> QED
  BY <1>4, <1>5 DEF TypeOK

\* The steps of one task that take no reference to a context.
Plain(t) ==
  /\ \A u \in Task \ {t} : task'[u] = task[u]
  /\ task'[t] # NULL => /\ InHand(t)' /\ task'[t].ctx = task[t].ctx
                        /\ task'[t].pc \notin {"vmas", "commit", "enter"}
                        /\ task'[t].pc = "task" => task'[t].new = NULL
  /\ \A c \in 0 .. NCtx : /\ ctx'[c] = NULL <=> ctx[c] = NULL
                          /\ ctx[c] # NULL => ctx'[c].pgd = ctx[c].pgd /\ ctx'[c].count = ctx[c].count
  /\ \A p \in Frames : page[p].use \in {"pgd", "pgt", "anon", "cache"} => Keeps(p)

\* A step of one task that leaves the contexts alone keeps the invariant.
LEMMA PlainKeeps ==
  ASSUME Counting, IInv, NEW t \in Task, task[t] # NULL, task[t].pc # "enter", TypeOK', PointersOK', OnePagePerOffset', Plain(t),
         \A u \in Task \ {t} : task[u] # NULL /\ task[u].pc = "pread" =>
            /\ isem' = isem /\ cache' = cache /\ \A p \in Pages : page[p].use \in {"read", "cache"} => Keeps(p)
  PROVE  IInv'
<1>1. ContextsOK'
  <2>1. \A c \in 0 .. NCtx : ctx[c] # NULL => ctx[c].pgd \in Frames /\ page[ctx[c].pgd].use = "pgd"
    BY DEF IInv, TypeOK, CtxRec, ContextsOK
  <2> QED
    BY <2>1, ContextsKept DEF Plain, Keeps
<1>2. ASSUME NEW c \in 0 .. NCtx PROVE Refs(c)' \subseteq Refs(c)
  <2>1. \A u \in Task \ {t}, how \in Kinds : <<u, how>> \in Refs(c)' => <<u, how>> \in Refs(c)
    BY RefsOfOthers, {t} \in SUBSET Task DEF Plain
  <2>2. <<t, "ctx">> \in Refs(c)' => <<t, "ctx">> \in Refs(c)
    <3>1. task'[t] # NULL => task'[t].ctx = task[t].ctx
      BY DEF Plain
    <3> QED
      BY <3>1, RefOf, Zenon
  <2>3. <<t, "new">> \notin Refs(c)'
    <3>1. NULL \notin 0 .. NCtx
      BY NullAssumption, SizesAssumption
    <3>2. task'[t] # NULL => /\ task'[t].pc \notin {"vmas", "commit", "enter"}
                             /\ task'[t].pc = "task" => task'[t].new = NULL
      BY DEF Plain
    <3>3. <<t, "new">> \in Refs(c)' =>
             task'[t] # NULL /\ task'[t].pc \in {"task", "vmas", "commit", "enter"} /\ task'[t].new = c
      BY RefOf, Zenon
    <3> QED
      BY <3>1, <3>2, <3>3
  <2>4. \A u \in Task, how \in Kinds : <<u, how>> \in Refs(c)' => <<u, how>> \in Refs(c)
    BY <2>1, <2>2, <2>3, Zenon DEF Kinds
  <2> QED
    BY <2>4, RefsPairs
<1>3. CountCoversRefs'
  BY <1>2, CountsKept DEF Plain
<1>4. NewIsThere'
  BY DEF IInv, NewIsThere, Plain
<1>5. ASSUME NEW u \in Task, task'[u] # NULL PROVE InHand(u)'
  <2>1. CASE u = t
    BY <1>5, <2>1 DEF Plain
  <2>2. CASE u # t
    <3>1. task'[u] = task[u] /\ InHand(u)
      BY <1>5, <2>2 DEF Plain, IInv
    <3>2. TypeOK /\ \A p \in cache : page[p].use = "cache"
      BY DEF IInv, PointersOK
    <3>3. \A p \in Pages : page[p].use \in {"pgt", "anon", "cache"} => Keeps(p)
      BY DEF Plain, Frames
    <3> QED
      BY <1>5, <2>2, <3>1, <3>2, <3>3, HandsKept
  <2> QED
    BY <2>1, <2>2
<1> QED
  BY <1>1, <1>3, <1>4, <1>5 DEF IInv

\* Steps that change neither pages nor contexts.
LEMMA LocalKeeps ==
  ASSUME Counting, IInv, NEW t \in Task, task[t] # NULL, task[t].pc # "enter", UNCHANGED <<page, ctx, cache>>,
         \A u \in Task \ {t} : task'[u] = task[u], task' \in [Task -> TaskRec \cup {NULL}], next_pid' \in Int,
         task'[t] # NULL => /\ task'[t].ctx = task[t].ctx
                            /\ task'[t].pc \notin {"vmas", "commit", "enter"}
                            /\ task'[t].pc = "task" => task'[t].new = NULL
                            /\ InHand(t)',
         \A u \in Task \ {t} : task[u] # NULL /\ task[u].pc = "pread" => isem' = isem
  PROVE  IInv'
<1>1. TypeOK' /\ PointersOK' /\ OnePagePerOffset'
  BY DEF IInv, TypeOK, PointersOK, OnePagePerOffset
<1>2. Plain(t) /\ \A p \in Pages : Keeps(p)
  BY DEF Plain, Keeps
<1> QED
  BY <1>1, <1>2, PlainKeeps

\* A page is allocated for one task.
LEMMA AllocKeeps ==
  ASSUME Counting, IInv, NEW t \in Task, task[t] # NULL, task[t].pc # "enter",
         NEW p \in Pages, page[p].use = "free", page' \in [Frames -> PageRec],
         \A q \in Frames : q # p => page'[q] = page[q],
         \A d \in Dirs : page'[p].pd[d] = NULL \/ \E q \in Frames : page[q].pd[d] = page'[p].pd[d],
         \A k \in Slots : page'[p].pt[k] = NULL,
         ctx' \in [0 .. NCtx -> CtxRec \cup {NULL}], cache' = cache, next_pid' \in Int,
         task' \in [Task -> TaskRec \cup {NULL}], Plain(t),
         \A u \in Task \ {t} : task[u] # NULL /\ task[u].pc = "pread" => isem' = isem
  PROVE  IInv'
<1>1. TypeOK'
  BY DEF IInv, TypeOK
<1>2. \A q \in Frames : page[q].use # "free" => Keeps(q)
  BY DEF Keeps
<1>3. PointersOK' /\ OnePagePerOffset'
  <2>1. \A q \in Pages : page[q].use \in {"pgt", "anon", "cache"} => Keeps(q)
    BY <1>2, Zenon DEF Frames
  <2>2. \A q \in Frames, d \in Dirs : page'[q].pd[d] # NULL => \E r \in Frames : page[r].pd[d] = page'[q].pd[d]
    OBVIOUS
  <2>3. \A q \in Frames, k \in Slots : page'[q].pt[k] # NULL => \E r \in Frames : page[r].pt[k] = page'[q].pt[k]
    OBVIOUS
  <2> QED
    BY <1>1, <2>1, <2>2, <2>3, PointersKept
<1>4. \A q \in Pages : page[q].use \in {"read", "cache"} => Keeps(q)
  BY <1>2, Zenon DEF Frames
<1> QED
  BY <1>1, <1>3, <1>4, PlainKeeps

\* mm_pagefault finds the area of the address and goes on to its page, or fails.
LEMMA MmPagefaultKeeps ==
  ASSUME Counting, IInv, NEW t \in Task, mm_pagefault(t)
  PROVE  IInv'
<1>1. TypeOK
  BY DEF IInv
<1>2. At(t, "user") /\ UNCHANGED <<page, ctx, cache, isem>> /\ next_pid' \in Int
  BY DEF mm_pagefault, IInv, TypeOK
<1>3. /\ task[t] \in TaskRec /\ task[t] # NULL /\ task[t].pc = "user" /\ ctx[task[t].ctx] \in CtxRec
  BY <1>2, AtWork, Zenon
<1>4. PICK va \in 0 .. MaxVa, write \in BOOLEAN : \E v \in lookup_vma(task[t].ctx, va) \cup {NULL} :
         /\ Pte(task[t].ctx, va) = NULL
         /\ v = NULL => lookup_vma(task[t].ctx, va) = {}
         /\ IF v = NULL \/ (write /\ ~v.write) THEN Back(t, "failed")
            ELSE task' = [task EXCEPT ![t].pc = IF v.file THEN "readpage" ELSE "anon",
                   ![t].va = va_round_down(va), ![t].write = write,
                   ![t].page = IF v.file THEN v.off + va_round_down(va - v.begin) ELSE NULL]
  BY Zenon DEF mm_pagefault
<1>5. PICK v \in lookup_vma(task[t].ctx, va) \cup {NULL} :
         IF v = NULL \/ (write /\ ~v.write) THEN Back(t, "failed")
         ELSE task' = [task EXCEPT ![t].pc = IF v.file THEN "readpage" ELSE "anon",
                 ![t].va = va_round_down(va), ![t].write = write,
                 ![t].page = IF v.file THEN v.off + va_round_down(va - v.begin) ELSE NULL]
  BY <1>4, Zenon
<1>6. CASE Back(t, "failed")
  <2>1. /\ task' \in [Task -> TaskRec \cup {NULL}] /\ \A u \in Task \ {t} : task'[u] = task[u]
        /\ task'[t].pc = "failed" /\ task'[t].ctx = task[t].ctx
    BY <1>1, <1>3, <1>6, BackTo
  <2>2. InHand(t)'
    BY <2>1, SMTT(30) DEF InHand
  <2> QED
    BY <1>2, <1>3, <2>1, <2>2, LocalKeeps
<1>7. CASE ~(v = NULL \/ (write /\ ~v.write))
  <2>1. v \in Vma
    BY <1>3, <1>5, <1>7 DEF lookup_vma, CtxRec
  <2>2. PICK l, a, o : /\ l = IF v.file THEN "readpage" ELSE "anon"
                       /\ a = va_round_down(va)
                       /\ o = IF v.file THEN v.off + va_round_down(va - v.begin) ELSE NULL
    OBVIOUS
  <2>3. l \in {"readpage", "anon"} /\ a \in 0 .. MaxVa /\ o \in Int \cup {NULL} /\ (l = "readpage" => o \in Int)
    <3>1. v.off \in Int /\ va - v.begin \in Int /\ va \in Int
      BY <2>1 DEF Vma
    <3>2. va_round_down(va) \in 0 .. MaxVa /\ va_round_down(va - v.begin) \in Int
      BY <3>1, RoundDown
    <3> QED
      BY <2>2, <3>1, <3>2
  <2>4. task' = [task EXCEPT ![t].pc = l, ![t].va = a, ![t].write = write, ![t].page = o]
    BY <1>5, <1>7, <2>2
  <2>5. /\ task' \in [Task -> TaskRec \cup {NULL}] /\ \A u \in Task \ {t} : task'[u] = task[u]
        /\ task'[t].pc = l /\ task'[t].ctx = task[t].ctx /\ task'[t].va = a /\ task'[t].page = o
    <3>1. PICK r : r = [task[t] EXCEPT !.pc = l, !.va = a, !.write = write, !.page = o]
      OBVIOUS
    <3>2. r \in TaskRec /\ r.pc = l /\ r.ctx = task[t].ctx /\ r.va = a /\ r.page = o
      <4>1. a \in Int
        BY <2>3, SizesAssumption
      <4> QED
        BY <1>3, <2>3, <3>1, <4>1, Zenon DEF TaskRec
    <3>3. task' = [task EXCEPT ![t] = r]
      BY <1>1, <2>4, <3>1, Zenon DEF TypeOK
    <3> QED
      BY <1>1, <3>2, <3>3 DEF TypeOK
  <2>6. InHand(t)'
    BY <2>3, <2>5 DEF InHand
  <2> QED
    BY <1>2, <1>3, <2>3, <2>5, <2>6, LocalKeeps
<1> QED
  BY <1>5, <1>6, <1>7

\* A task that is given up exits or goes on.
LEMMA FaultFailsKeeps ==
  ASSUME Counting, IInv, NEW t \in Task, FaultFails(t)
  PROVE  IInv'
<1>1. TypeOK /\ At(t, "failed") /\ UNCHANGED <<page, ctx, cache, isem>> /\ next_pid' \in Int
  BY DEF FaultFails, IInv, TypeOK
<1>2. task[t] \in TaskRec /\ task[t] # NULL /\ task[t].pc = "failed"
  BY <1>1, AtWork, Zenon
<1>3. /\ task' \in [Task -> TaskRec \cup {NULL}] /\ \A u \in Task \ {t} : task'[u] = task[u]
      /\ task'[t] # NULL => task'[t].pc = "user" /\ task'[t].ctx = task[t].ctx
  <2>1. CASE task' = [task EXCEPT ![t] = NULL]
    BY <1>1, <2>1 DEF TypeOK
  <2>2. CASE task' = [task EXCEPT ![t].pc = "user"]
    BY <1>1, <1>2, <2>2 DEF TypeOK, TaskRec
  <2> QED
    BY <2>1, <2>2 DEF FaultFails
<1>4. task'[t] # NULL => InHand(t)'
  BY <1>3 DEF InHand
<1> QED
  BY <1>1, <1>2, <1>3, <1>4, LocalKeeps

\* A handler that fails without having changed anything.
LEMMA GivesUp ==
  ASSUME Counting, IInv, NEW t \in Task, task[t] \in TaskRec, task[t] # NULL, task[t].pc # "enter",
         NEW l \in {"user", "failed"}, Back(t, l), UNCHANGED <<page, ctx, cache, isem, next_pid>>
  PROVE  IInv'
<1>1. TypeOK /\ next_pid' \in Int
  BY DEF IInv, TypeOK
<1>2. /\ task' \in [Task -> TaskRec \cup {NULL}] /\ \A u \in Task \ {t} : task'[u] = task[u]
      /\ task'[t].pc = l /\ task'[t].ctx = task[t].ctx
  BY <1>1, BackTo
<1>3. InHand(t)'
  BY <1>2 DEF InHand
<1> QED
  BY <1>1, <1>2, <1>3, LocalKeeps

\* An anonymous page.
LEMMA AnonKeeps ==
  ASSUME Counting, IInv, NEW t \in Task, anon(t)
  PROVE  IInv'
<1>1. TypeOK /\ At(t, "anon") /\ UNCHANGED <<ctx, cache, isem, next_pid>>
  BY DEF anon, IInv
<1>2. task[t] \in TaskRec /\ task[t] # NULL /\ task[t].pc = "anon" /\ InHand(t)
  BY <1>1, AtWork, Zenon
<1>3. CASE NoPage
  BY <1>1, <1>2, <1>3, GivesUp DEF anon
<1>4. CASE ~NoPage
  <2>1. PICK p \in Pages, r \in PageRec :
          /\ alloc_page("anon") = <<p, r>> /\ page[p].use = "free"
          /\ r.use = "anon" /\ r.off = 0 /\ r.pd = NoPd /\ r.pt = NoPt
    BY <1>1, <1>4, Alloc DEF Uses
  <2>2. page' = Put(page, <<p, r>>) /\ task' = [task EXCEPT ![t].pc = "map", ![t].page = p]
    BY <1>4, <2>1 DEF anon
  <2>3. page' \in [Frames -> PageRec] /\ page'[p] = r /\ \A q \in Frames : q # p => page'[q] = page[q]
    BY <1>1, <2>2, PutPage
  <2>4. /\ task' \in [Task -> TaskRec \cup {NULL}] /\ \A u \in Task \ {t} : task'[u] = task[u]
        /\ task'[t].pc = "map" /\ task'[t].ctx = task[t].ctx /\ task'[t].va = task[t].va /\ task'[t].page = p
    <3>1. PICK k : k = [task[t] EXCEPT !.pc = "map", !.page = p]
      OBVIOUS
    <3>2. p \in Int
      BY DEF Pages
    <3>3. k \in TaskRec /\ k.pc = "map" /\ k.ctx = task[t].ctx /\ k.va = task[t].va /\ k.page = p
      BY <1>2, <3>1, <3>2, Zenon DEF TaskRec
    <3>4. task' = [task EXCEPT ![t] = k]
      BY <1>1, <2>2, <3>1, Zenon DEF TypeOK
    <3> QED
      BY <1>1, <3>3, <3>4 DEF TypeOK
  <2>5. InHand(t)'
    BY <1>2, <2>1, <2>3, <2>4 DEF InHand
  <2>6. Plain(t)
    BY <1>1, <2>1, <2>3, <2>4, <2>5 DEF Plain, Keeps, Frames
  <2>7. (\A d \in Dirs : page'[p].pd[d] = NULL) /\ \A k \in Slots : page'[p].pt[k] = NULL
    BY <2>1, <2>3, Zenon DEF NoPd, NoPt, Slots
  <2>8. ctx' \in [0 .. NCtx -> CtxRec \cup {NULL}] /\ next_pid' \in Int
    BY <1>1 DEF TypeOK
  <2> QED
    BY <1>1, <1>2, <2>1, <2>3, <2>4, <2>6, <2>7, <2>8, AllocKeeps
<1> QED
  BY <1>3, <1>4

\* Nobody else reads a page in while one task holds i_sem, or while it is free.
LEMMA NobodyReads ==
  ASSUME IInv, NEW t \in Task, isem = NULL \/ isem = t
  PROVE  \A u \in Task \ {t} : ~(task[u] # NULL /\ task[u].pc = "pread")
BY NullAssumption DEF IInv, InHand

\* readpage finds the page in the page cache or begins to read it.
LEMMA ReadpageKeeps ==
  ASSUME Counting, IInv, NEW t \in Task, readpage(t)
  PROVE  IInv'
<1>1. TypeOK /\ At(t, "readpage") /\ isem = NULL /\ UNCHANGED <<ctx, cache, next_pid>>
  BY DEF readpage, IInv
<1>2. task[t] \in TaskRec /\ task[t] # NULL /\ task[t].pc = "readpage" /\ InHand(t)
  BY <1>1, AtWork, Zenon
<1>3. task[t].page \in Int /\ task[t].va \in 0 .. MaxVa
  BY <1>2 DEF InHand
<1>4. ctx' \in [0 .. NCtx -> CtxRec \cup {NULL}] /\ next_pid' \in Int /\ cache \subseteq Pages
  BY <1>1 DEF TypeOK
<1>5. \A u \in Task \ {t} : ~(task[u] # NULL /\ task[u].pc = "pread")
  BY <1>1, NobodyReads
<1>6. PICK hit : hit = {p \in cache : page[p].off = task[t].page}
  BY Zenon
<1>7. CASE hit # {}
  <2>1. PICK p \in hit : /\ page' = get_page(p) /\ UNCHANGED isem
                         /\ task' = [task EXCEPT ![t].pc = "map", ![t].page = p]
    <3>1. (CHOOSE p \in hit : TRUE) \in hit
      BY <1>7
    <3> QED
      BY <1>6, <1>7, <3>1, Zenon DEF readpage
  <2>2. p \in Pages /\ page[p].use = "cache" /\ p \in Int /\ p \in Frames
    BY <1>4, <1>6, <2>1 DEF IInv, PointersOK, Pages, Frames
  <2>3. /\ task' \in [Task -> TaskRec \cup {NULL}] /\ \A u \in Task \ {t} : task'[u] = task[u]
        /\ task'[t].pc = "map" /\ task'[t].ctx = task[t].ctx /\ task'[t].va = task[t].va /\ task'[t].page = p
    <3>1. PICK k : k = [task[t] EXCEPT !.pc = "map", !.page = p]
      OBVIOUS
    <3>2. k \in TaskRec /\ k.pc = "map" /\ k.ctx = task[t].ctx /\ k.va = task[t].va /\ k.page = p
      BY <1>2, <2>2, <3>1, Zenon DEF TaskRec
    <3>3. task' = [task EXCEPT ![t] = k]
      BY <1>1, <2>1, <3>1, Zenon DEF TypeOK
    <3> QED
      BY <1>1, <3>2, <3>3 DEF TypeOK
  <2>4. /\ page' \in [Frames -> PageRec]
        /\ \A q \in Frames : Keeps(q) /\ page'[q].pd = page[q].pd /\ page'[q].pt = page[q].pt
    <3>1. PICK k : k = [page[p] EXCEPT !.count = @ + 1]
      BY Zenon
    <3>2. page[p] \in PageRec
      BY <1>1, <2>2 DEF TypeOK
    <3>3. k \in PageRec /\ k.use = page[p].use /\ k.off = page[p].off /\ k.pd = page[p].pd /\ k.pt = page[p].pt
      BY <3>1, <3>2 DEF PageRec
    <3>4. page' = [page EXCEPT ![p] = k]
      BY <1>1, <2>1, <2>2, <3>1 DEF TypeOK, get_page
    <3> QED
      BY <1>1, <2>2, <3>3, <3>4 DEF TypeOK, Keeps
  <2>5. TypeOK' /\ \A q \in Pages : Keeps(q)
    BY <1>1, <1>4, <2>3, <2>4, ZenonT(40) DEF TypeOK, Frames
  <2>6. PointersOK' /\ OnePagePerOffset'
    BY <1>1, <2>4, <2>5, PointersKept
  <2>7. InHand(t)'
    BY <1>3, <2>2, <2>3, <2>5 DEF InHand, Keeps
  <2>8. Plain(t)
    BY <1>1, <2>3, <2>4, <2>7 DEF Plain
  <2> QED
    BY <1>2, <1>5, <2>5, <2>6, <2>8, PlainKeeps
<1>8. CASE hit = {} /\ NoPage
  BY <1>1, <1>2, <1>6, <1>8, GivesUp, SMTT(30) DEF readpage
<1>9. CASE hit = {} /\ ~NoPage
  <2>1. PICK p \in Pages, r \in PageRec :
          /\ alloc_page("read") = <<p, r>> /\ page[p].use = "free"
          /\ r.use = "read" /\ r.off = 0 /\ r.pd = NoPd /\ r.pt = NoPt
    BY <1>1, <1>9, Alloc DEF Uses
  <2>2. /\ page' = [Put(page, <<p, r>>) EXCEPT ![p].off = task[t].page] /\ isem' = t
        /\ task' = [task EXCEPT ![t].pc = "pread", ![t].page = p]
    BY <1>6, <1>9, <2>1 DEF readpage, HoldSem
  <2>3. PICK g : g = [r EXCEPT !.off = task[t].page]
    BY Zenon
  <2>4. g \in PageRec /\ g.use = "read" /\ g.off = task[t].page /\ g.pd = NoPd /\ g.pt = NoPt
    BY <1>3, <2>1, <2>3 DEF PageRec
  <2>5. page' \in [Frames -> PageRec] /\ page'[p] = g /\ \A q \in Frames : q # p => page'[q] = page[q]
    <3>1. PICK f : f = Put(page, <<p, r>>)
      OBVIOUS
    <3>2. f \in [Frames -> PageRec] /\ f[p] = r /\ \A q \in Frames : q # p => f[q] = page[q]
      BY <1>1, <3>1, PutPage
    <3>3. page' = [f EXCEPT ![p] = g] /\ p \in Frames
      BY <2>2, <2>3, <3>1, <3>2, Zenon DEF Frames
    <3> QED
      BY <2>4, <3>2, <3>3
  <2>6. /\ task' \in [Task -> TaskRec \cup {NULL}] /\ \A u \in Task \ {t} : task'[u] = task[u]
        /\ task'[t].pc = "pread" /\ task'[t].ctx = task[t].ctx /\ task'[t].va = task[t].va /\ task'[t].page = p
    <3>1. PICK k : k = [task[t] EXCEPT !.pc = "pread", !.page = p]
      OBVIOUS
    <3>2. p \in Int
      BY DEF Pages
    <3>3. k \in TaskRec /\ k.pc = "pread" /\ k.ctx = task[t].ctx /\ k.va = task[t].va /\ k.page = p
      BY <1>2, <3>1, <3>2, Zenon DEF TaskRec
    <3>4. task' = [task EXCEPT ![t] = k]
      BY <1>1, <2>2, <3>1, Zenon DEF TypeOK
    <3> QED
      BY <1>1, <3>3, <3>4 DEF TypeOK
  <2>7. \A q \in cache : page'[q].off # task[t].page
    <3>1. \A q \in cache : page[q].off # task[t].page
      BY <1>6, <1>9
    <3>2. \A q \in cache : q # p /\ q \in Frames
      BY <1>4, <2>1 DEF IInv, PointersOK, Frames
    <3> QED
      BY <2>5, <3>1, <3>2
  <2>8. InHand(t)'
    BY <1>1, <1>3, <2>2, <2>4, <2>5, <2>6, <2>7, Zenon DEF InHand
  <2>9. Plain(t)
    BY <1>1, <2>1, <2>5, <2>6, <2>8 DEF Plain, Keeps, Frames
  <2>10. (\A d \in Dirs : page'[p].pd[d] = NULL) /\ \A k \in Slots : page'[p].pt[k] = NULL
    BY <2>4, <2>5, Zenon DEF NoPd, NoPt, Slots
  <2> QED
    BY <1>1, <1>2, <1>4, <1>5, <2>1, <2>5, <2>6, <2>9, <2>10, AllocKeeps, SMTT(30)
<1> QED
  BY <1>7, <1>8, <1>9

\* The page that was read goes into the page cache, or is given back.
LEMMA PreadKeeps ==
  ASSUME Counting, IInv, NEW t \in Task, pread(t)
  PROVE  IInv'
<1>1. TypeOK /\ PointersOK /\ OnePagePerOffset /\ At(t, "pread") /\ isem' = NULL /\ UNCHANGED <<ctx, next_pid>>
  BY DEF pread, IInv
<1>2. task[t] \in TaskRec /\ task[t] # NULL /\ task[t].pc = "pread" /\ InHand(t)
  BY <1>1, AtWork, Zenon
<1>3. PICK p : p = task[t].page
  OBVIOUS
<1>4. /\ p \in Pages /\ p \in Frames /\ page[p].use = "read" /\ isem = t /\ task[t].va \in 0 .. MaxVa
      /\ \A q \in cache : page[q].off # page[p].off
  BY <1>2, <1>3 DEF InHand, Frames
<1>5. \A u \in Task \ {t} : ~(task[u] # NULL /\ task[u].pc = "pread")
  BY <1>4, NobodyReads
<1>6. /\ \A q \in Frames, d \in Dirs : page[q].pd[d] # NULL =>
           page[q].pd[d] \in Frames /\ page[q].pd[d] # p /\ page[page[q].pd[d]].use = "pgt"
      /\ \A q \in Frames, k \in Slots : page[q].pt[k] # NULL =>
           /\ page[q].pt[k].page \in Frames /\ page[q].pt[k].page # p
           /\ page[page[q].pt[k].page].use \in {"anon", "cache"}
      /\ \A q \in cache : q \in Frames /\ q # p /\ page[q].use = "cache"
  <2>1. \A q \in Frames, d \in Dirs : page[q].pd[d] # NULL =>
           page[q].pd[d] \in Frames /\ page[page[q].pd[d]].use = "pgt"
    BY <1>1 DEF TypeOK, PageRec, Frames, PointersOK
  <2>2. \A q \in Frames, k \in Slots : page[q].pt[k] # NULL => page[q].pt[k] \in PteRec
    BY <1>1, SMTT(30) DEF TypeOK, PageRec
  <2>3. \A q \in Frames, k \in Slots : page[q].pt[k] # NULL =>
           page[q].pt[k].page \in Frames /\ page[page[q].pt[k].page].use \in {"anon", "cache"}
    BY <1>1, <2>2, Zenon DEF PteRec, Frames, PointersOK
  <2>4. \A q \in cache : q \in Frames /\ page[q].use = "cache"
    BY <1>1 DEF TypeOK, Frames, PointersOK
  <2> QED
    BY <1>4, <2>1, <2>3, <2>4, SMTT(30)
<1>7. ASSUME page' = [page EXCEPT ![p].use = "cache"], cache' = cache \cup {p}, Goto(t, "map")
      PROVE  IInv'
  <2>1. PICK g : g = [page[p] EXCEPT !.use = "cache"]
    BY Zenon
  <2>2. /\ g \in PageRec /\ g.use = "cache" /\ g.off = page[p].off /\ g.pd = page[p].pd /\ g.pt = page[p].pt
    BY <1>1, <1>4, <2>1, Zenon DEF TypeOK, PageRec
  <2>3. page' \in [Frames -> PageRec] /\ page'[p] = g /\ \A q \in Frames : q # p => page'[q] = page[q]
    BY <1>1, <1>4, <1>7, <2>1, <2>2 DEF TypeOK
  <2>4. /\ task' \in [Task -> TaskRec \cup {NULL}] /\ \A u \in Task \ {t} : task'[u] = task[u]
        /\ task'[t].pc = "map" /\ task'[t].ctx = task[t].ctx /\ task'[t].va = task[t].va /\ task'[t].page = p
    BY <1>1, <1>2, <1>3, <1>7, SMTT(30) DEF TypeOK, TaskRec, Goto
  <2>5. TypeOK'
    BY <1>1, <1>4, <1>7, <2>3, <2>4 DEF TypeOK
  <2>6. PointersOK'
    <3>1. \A q \in Frames : page'[q].pd = page[q].pd /\ page'[q].pt = page[q].pt
      BY <2>2, <2>3
    <3>2. \A q \in cache' : page'[q].use = "cache"
      BY <1>6, <1>7, <2>2, <2>3
    <3> QED
      BY <1>6, <2>3, <3>1, <3>2 DEF PointersOK
  <2>7. OnePagePerOffset'
    <3>1. \A q \in cache : page'[q].off = page[q].off /\ page[q].off # page'[p].off
      BY <1>4, <1>6, <2>2, <2>3
    <3> QED
      BY <1>1, <1>7, <3>1 DEF OnePagePerOffset
  <2>8. InHand(t)'
    BY <1>4, <2>2, <2>3, <2>4, SMTT(30) DEF InHand
  <2>9. Plain(t)
    BY <1>1, <1>4, <2>3, <2>4, <2>8, SMTT(30) DEF Plain, Keeps
  <2> QED
    BY <1>2, <1>5, <2>5, <2>6, <2>7, <2>9, PlainKeeps
<1>8. ASSUME page' = [page EXCEPT ![p] = Empty], UNCHANGED cache, Back(t, "failed")
      PROVE  IInv'
  <2>1. /\ page' \in [Frames -> PageRec] /\ page'[p] = Empty /\ \A q \in Frames : q # p => page'[q] = page[q]
    BY <1>1, <1>4, <1>8, EmptyPage DEF TypeOK
  <2>2. /\ task' \in [Task -> TaskRec \cup {NULL}] /\ \A u \in Task \ {t} : task'[u] = task[u]
        /\ task'[t].pc = "failed" /\ task'[t].ctx = task[t].ctx
    BY <1>1, <1>2, <1>8, BackTo
  <2>3. TypeOK'
    BY <1>1, <1>8, <2>1, <2>2, SMTT(30) DEF TypeOK
  <2>4. PointersOK'
    <3>1. \A q \in Frames, d \in Dirs : page'[q].pd[d] # NULL => q # p /\ page'[q].pd[d] = page[q].pd[d]
      BY <2>1, EmptyPage
    <3>2. \A q \in Frames, k \in Slots : page'[q].pt[k] # NULL => q # p /\ page'[q].pt[k] = page[q].pt[k]
      BY <2>1, EmptyPage
    <3>3. \A q \in cache' : page'[q].use = "cache"
      BY <1>6, <1>8, <2>1
    <3> QED
      BY <1>6, <2>1, <3>1, <3>2, <3>3 DEF PointersOK
  <2>5. OnePagePerOffset'
    BY <1>1, <1>6, <1>8, <2>1 DEF OnePagePerOffset
  <2>6. InHand(t)'
    BY <2>2, SMTT(30) DEF InHand
  <2>7. Plain(t)
    BY <1>1, <1>4, <2>1, <2>2, <2>6 DEF Plain, Keeps
  <2> QED
    BY <1>2, <1>5, <2>3, <2>4, <2>5, <2>7, PlainKeeps
<1> QED
  BY <1>3, <1>7, <1>8 DEF pread

\* The page table is there, or a page is allocated for it.
LEMMA MapPageKeeps ==
  ASSUME Counting, IInv, NEW t \in Task, map_page_to_ctx(t)
  PROVE  IInv'
<1>1. TypeOK /\ At(t, "map") /\ UNCHANGED <<ctx, cache, isem, next_pid>>
  BY SMTT(30) DEF map_page_to_ctx, IInv
<1>2. /\ task[t] \in TaskRec /\ task[t] # NULL /\ task[t].pc = "map" /\ InHand(t)
      /\ task[t].ctx \in 0 .. NCtx /\ ctx[task[t].ctx] \in CtxRec
  BY <1>1, AtWork, Zenon
<1>3. /\ task[t].va \in 0 .. MaxVa /\ task[t].page \in Pages
      /\ page[task[t].page].use \in {"anon", "cache"} /\ next_pid' \in Int
  BY <1>1, <1>2 DEF InHand, TypeOK
<1>4. PICK pt : pt = page[ctx[task[t].ctx].pgd].pd[dir(task[t].va)]
  OBVIOUS
<1>5. CASE pt # NULL
  <2>1. pt \in Pages /\ page[pt].use = "pgt"
    <3>1. dir(task[t].va) \in Dirs /\ ctx[task[t].ctx].pgd \in Frames
      BY <1>2, <1>3, Indices, SMTT(30) DEF CtxRec
    <3>2. PICK g \in Frames, d \in Dirs : pt = page[g].pd[d]
      BY <1>4, <3>1
    <3>3. page[page[g].pd[d]].use = "pgt"
      BY <1>5, <3>2 DEF IInv, PointersOK
    <3>4. page[g].pd[d] \in Pages \cup {NULL}
      BY <1>1 DEF TypeOK, PageRec
    <3> QED
      BY <1>5, <3>2, <3>3, <3>4, SMTT(30)
  <2>2. task' = [task EXCEPT ![t].pc = "pte", ![t].pt = pt] /\ UNCHANGED page
    BY <1>4, <1>5, Zenon DEF map_page_to_ctx
  <2>3. /\ task' \in [Task -> TaskRec \cup {NULL}] /\ \A u \in Task \ {t} : task'[u] = task[u]
        /\ task'[t].pc = "pte" /\ task'[t].ctx = task[t].ctx /\ task'[t].va = task[t].va
        /\ task'[t].page = task[t].page /\ task'[t].pt = pt
    <3>1. PICK k : k = [task[t] EXCEPT !.pc = "pte", !.pt = pt]
      OBVIOUS
    <3>2. /\ k \in TaskRec /\ k.pc = "pte" /\ k.ctx = task[t].ctx /\ k.va = task[t].va
          /\ k.page = task[t].page /\ k.pt = pt
      BY <1>2, <2>1, <3>1, Zenon DEF TaskRec
    <3>3. task' = [task EXCEPT ![t] = k]
      BY <1>1, <2>2, <3>1, Zenon DEF TypeOK
    <3> QED
      BY <1>1, <3>2, <3>3 DEF TypeOK
  <2>4. InHand(t)'
    BY <1>3, <2>1, <2>2, <2>3 DEF InHand
  <2> QED
    BY <1>1, <1>2, <1>3, <2>2, <2>3, <2>4, LocalKeeps
<1>6. CASE pt = NULL /\ NoPage
  BY <1>1, <1>2, <1>4, <1>6, GivesUp DEF map_page_to_ctx
<1>7. CASE pt = NULL /\ ~NoPage
  <2>1. PICK p \in Pages, r \in PageRec :
          /\ alloc_page("pgt") = <<p, r>> /\ page[p].use = "free"
          /\ r.use = "pgt" /\ r.off = 0 /\ r.pd = NoPd /\ r.pt = NoPt
    BY <1>1, <1>7, Alloc, Zenon DEF Uses
  <2>2. page' = Put(page, <<p, r>>) /\ task' = [task EXCEPT ![t].pc = "pde", ![t].pt = p]
    BY <1>4, <1>7, <2>1 DEF map_page_to_ctx
  <2>3. page' \in [Frames -> PageRec] /\ page'[p] = r /\ \A q \in Frames : q # p => page'[q] = page[q]
    BY <1>1, <2>2, PutPage
  <2>4. /\ task' \in [Task -> TaskRec \cup {NULL}] /\ \A u \in Task \ {t} : task'[u] = task[u]
        /\ task'[t].pc = "pde" /\ task'[t].ctx = task[t].ctx /\ task'[t].va = task[t].va
        /\ task'[t].page = task[t].page /\ task'[t].pt = p
    <3>1. PICK k : k = [task[t] EXCEPT !.pc = "pde", !.pt = p]
      OBVIOUS
    <3>2. /\ k \in TaskRec /\ k.pc = "pde" /\ k.ctx = task[t].ctx /\ k.va = task[t].va
          /\ k.page = task[t].page /\ k.pt = p
      BY <1>2, <2>1, <3>1, ZenonT(40) DEF TaskRec
    <3>3. task' = [task EXCEPT ![t] = k]
      BY <1>1, <2>2, <3>1, Zenon DEF TypeOK
    <3> QED
      BY <1>1, <3>2, <3>3 DEF TypeOK
  <2>5. InHand(t)'
    BY <1>3, <2>1, <2>3, <2>4, SMTT(30) DEF InHand, Frames
  <2>6. Plain(t)
    BY <1>1, <2>1, <2>3, <2>4, <2>5 DEF Plain, Keeps, Frames
  <2>7. (\A d \in Dirs : page'[p].pd[d] = NULL) /\ \A k \in Slots : page'[p].pt[k] = NULL
    BY <2>1, <2>3, Zenon DEF NoPd, NoPt, Slots
  <2>8. ctx' \in [0 .. NCtx -> CtxRec \cup {NULL}]
    BY <1>1 DEF TypeOK
  <2> QED
    BY <1>1, <1>2, <1>3, <2>1, <2>3, <2>4, <2>6, <2>7, <2>8, AllocKeeps, Zenon
<1> QED
  BY <1>5, <1>6, <1>7, SMTT(30)

\* The directory entry and the page table entry are written.
LEMMA MapPdeKeeps ==
  ASSUME Counting, IInv, NEW t \in Task, map_pde(t)
  PROVE  IInv'
<1>1. TypeOK /\ At(t, "pde") /\ UNCHANGED <<ctx, cache, isem, next_pid>>
  BY Zenon DEF map_pde, IInv
<1>2. /\ task[t] \in TaskRec /\ task[t] # NULL /\ task[t].pc = "pde" /\ InHand(t)
      /\ task[t].ctx \in 0 .. NCtx /\ ctx[task[t].ctx] \in CtxRec
  BY <1>1, AtWork, Zenon
<1>3. PICK g, x, e : g = ctx[task[t].ctx].pgd /\ x = task[t].pt /\ e = dir(task[t].va)
  OBVIOUS
<1>4. /\ g \in Frames /\ x \in Pages /\ page[x].use = "pgt" /\ page[g] \in PageRec
      /\ task[t].va \in 0 .. MaxVa /\ task[t].page \in Pages /\ page[task[t].page].use \in {"anon", "cache"}
  BY <1>1, <1>2, <1>3 DEF InHand, CtxRec, TypeOK
<1>5. PICK r : r = [page[g] EXCEPT !.pd[e] = x]
  BY Zenon
<1>6. /\ r \in PageRec /\ r.use = page[g].use /\ r.off = page[g].off /\ r.pt = page[g].pt
      /\ \A d \in Dirs : r.pd[d] = x \/ r.pd[d] = page[g].pd[d]
  BY <1>4, <1>5 DEF PageRec
<1>7. page' = [page EXCEPT ![g] = r]
  BY <1>1, <1>3, <1>4, <1>5, Zenon DEF map_pde, TypeOK
<1>8. /\ page' \in [Frames -> PageRec] /\ \A q \in Frames : Keeps(q) /\ page'[q].pt = page[q].pt
      /\ \A q \in Frames, d \in Dirs : page'[q].pd[d] = x \/ page'[q].pd[d] = page[q].pd[d]
  BY <1>1, <1>4, <1>6, <1>7, Zenon DEF TypeOK, Keeps
<1>9. /\ task' \in [Task -> TaskRec \cup {NULL}] /\ \A u \in Task \ {t} : task'[u] = task[u]
      /\ task'[t].pc = "pte" /\ task'[t].ctx = task[t].ctx /\ task'[t].va = task[t].va
      /\ task'[t].page = task[t].page /\ task'[t].pt = x
  BY <1>1, <1>2, <1>3 DEF map_pde, Goto, TypeOK, TaskRec
<1>10. TypeOK' /\ \A q \in Pages : Keeps(q)
  BY <1>1, <1>8, <1>9, Zenon DEF TypeOK, Frames
<1>11. PointersOK' /\ OnePagePerOffset'
  <2>1. \A q \in Frames, d \in Dirs : page'[q].pd[d] # NULL =>
           (\E f \in Frames : page[f].pd[d] = page'[q].pd[d]) \/ page'[page'[q].pd[d]].use = "pgt"
    BY <1>4, <1>8, <1>10 DEF Keeps
  <2>2. \A q \in Frames, k \in Slots : page'[q].pt[k] # NULL => \E f \in Frames : page[f].pt[k] = page'[q].pt[k]
    BY <1>8, SMTT(30)
  <2> QED
    BY <1>1, <1>10, <2>1, <2>2, PointersKept
<1>12. InHand(t)'
  BY <1>4, <1>9, <1>10, SMTT(30) DEF InHand, Keeps
<1>13. Plain(t)
  BY <1>1, <1>8, <1>9, <1>12 DEF Plain
<1> QED
  BY <1>1, <1>2, <1>10, <1>11, <1>13, PlainKeeps

\* map_pte: the page table entry, and the fault is over.
LEMMA MapPteKeeps ==
  ASSUME Counting, IInv, NEW t \in Task, map_pte(t)
  PROVE  IInv'
<1>1. TypeOK /\ At(t, "pte") /\ UNCHANGED <<ctx, cache, isem, next_pid>> /\ Back(t, "user")
  BY DEF map_pte, IInv
<1>2. task[t] \in TaskRec /\ task[t] # NULL /\ task[t].pc = "pte" /\ InHand(t)
  BY <1>1, AtWork, Zenon
<1>3. PICK g, x, e : g = task[t].pt /\ x = [page |-> task[t].page, rw |-> task[t].write] /\ e = tbl(task[t].va)
  BY Zenon
<1>4. /\ g \in Pages /\ g \in Frames /\ page[g] \in PageRec
      /\ x \in PteRec /\ page[x.page].use \in {"anon", "cache"} /\ x.page \in Pages
  BY <1>1, <1>2, <1>3 DEF InHand, TaskRec, TypeOK, PteRec, Frames
<1>5. PICK r : r = [page[g] EXCEPT !.pt[e] = x]
  BY Zenon
<1>6. /\ r \in PageRec /\ r.use = page[g].use /\ r.off = page[g].off /\ r.pd = page[g].pd
      /\ \A k \in Slots : r.pt[k] = x \/ r.pt[k] = page[g].pt[k]
  BY <1>4, <1>5 DEF PageRec
<1>7. page' = [page EXCEPT ![g] = r]
  BY <1>1, <1>3, <1>4, <1>5 DEF map_pte, TypeOK
<1>8. /\ page' \in [Frames -> PageRec] /\ \A q \in Frames : Keeps(q) /\ page'[q].pd = page[q].pd
      /\ \A q \in Frames, k \in Slots : page'[q].pt[k] = x \/ page'[q].pt[k] = page[q].pt[k]
  BY <1>1, <1>4, <1>6, <1>7 DEF TypeOK, Keeps
<1>9. /\ task' \in [Task -> TaskRec \cup {NULL}] /\ \A u \in Task \ {t} : task'[u] = task[u]
      /\ task'[t].pc = "user" /\ task'[t].ctx = task[t].ctx
  BY <1>1, <1>2, BackTo
<1>10. TypeOK' /\ \A q \in Pages : Keeps(q)
  BY <1>1, <1>8, <1>9, Zenon DEF TypeOK, Frames
<1>11. PointersOK' /\ OnePagePerOffset'
  <2>1. \A q \in Frames, d \in Dirs : page'[q].pd[d] # NULL => \E f \in Frames : page[f].pd[d] = page'[q].pd[d]
    BY <1>8
  <2>2. \A q \in Frames, k \in Slots : page'[q].pt[k] # NULL =>
           (\E f \in Frames : page[f].pt[k] = page'[q].pt[k]) \/ page'[page'[q].pt[k].page].use \in {"anon", "cache"}
    BY <1>4, <1>8, <1>10 DEF Keeps
  <2> QED
    BY <1>1, <1>10, <2>1, <2>2, PointersKept, Zenon
<1>12. InHand(t)'
  BY <1>9 DEF InHand
<1>13. Plain(t)
  BY <1>1, <1>8, <1>9, <1>12, Zenon DEF Plain
<1> QED
  BY <1>1, <1>2, <1>10, <1>11, <1>13, PlainKeeps, Zenon

\* fork begins, and takes a pid.
LEMMA ForkKeeps ==
  ASSUME Counting, IInv, NEW t \in Task, NEW flags \in ForkFlags, fork(t, flags)
  PROVE  IInv'
<1>1. TypeOK /\ At(t, "user") /\ UNCHANGED <<page, ctx, cache, isem, next_pid>>
  BY DEF fork, IInv
<1>2. task[t] \in TaskRec /\ task[t] # NULL /\ task[t].pc = "user" /\ next_pid \in Int
  BY <1>1, AtWork, Zenon DEF TypeOK
<1>3. PICK l, n : l = (IF "PID" \in flags THEN "pid" ELSE "mm") /\ n = IF "PID" \in flags THEN next_pid ELSE task[t].pid
  OBVIOUS
<1>4. l \in {"pid", "mm"} /\ n \in Int /\ flags \in SUBSET {"MEM", "PID"}
  BY <1>2, <1>3, SizesAssumption DEF TaskRec
<1>5. PICK k : k = [task[t] EXCEPT !.flags = flags, !.pc = l, !.va = n]
  OBVIOUS
<1>6. k \in TaskRec /\ k.pc = l /\ k.ctx = task[t].ctx
  BY <1>2, <1>4, <1>5, Zenon DEF TaskRec
<1>7. task' = [task EXCEPT ![t] = k]
  BY <1>1, <1>3, <1>5, Zenon DEF TypeOK, fork
<1>8. /\ task' \in [Task -> TaskRec \cup {NULL}] /\ \A u \in Task \ {t} : task'[u] = task[u]
      /\ task'[t].pc = l /\ task'[t].ctx = task[t].ctx
  BY <1>1, <1>6, <1>7 DEF TypeOK
<1>9. InHand(t)'
  BY <1>4, <1>8 DEF InHand
<1> QED
  BY <1>1, <1>2, <1>4, <1>8, <1>9, LocalKeeps

\* pid_alloc only concerns the pid.
LEMMA PidAllocKeeps ==
  ASSUME Counting, IInv, NEW t \in Task, pid_alloc(t)
  PROVE  IInv'
<1>1. TypeOK /\ At(t, "pid") /\ UNCHANGED <<page, ctx, cache, isem>>
  BY SMTT(30) DEF pid_alloc, IInv
<1>2. task[t] \in TaskRec /\ task[t] # NULL /\ task[t].pc = "pid"
  BY <1>1, AtWork, Zenon
<1>3. PICK n : n = task[t].va + 1
  OBVIOUS
<1>4. n \in Int /\ next_pid' = n
  BY <1>2, <1>3 DEF TaskRec, pid_alloc
<1>5. PICK k : k = [task[t] EXCEPT !.va = n, !.pc = "mm"]
  OBVIOUS
<1>6. k \in TaskRec /\ k.pc = "mm" /\ k.ctx = task[t].ctx
  BY <1>2, <1>4, <1>5, Zenon DEF TaskRec
<1>7. task' = [task EXCEPT ![t] = k]
  BY <1>1, <1>3, <1>5, Zenon DEF TypeOK, pid_alloc
<1>8. /\ task' \in [Task -> TaskRec \cup {NULL}] /\ \A u \in Task \ {t} : task'[u] = task[u]
      /\ task'[t].pc = "mm" /\ task'[t].ctx = task[t].ctx
  BY <1>1, <1>6, <1>7, SMTT(30) DEF TypeOK
<1>9. InHand(t)'
  BY <1>8, SMTT(30) DEF InHand
<1> QED
  BY <1>1, <1>2, <1>4, <1>8, <1>9, LocalKeeps, Zenon

-----------------------------------------------------------------------------
(* The steps that make, share and drop contexts.                           *)

\* They leave pages with contents and page tables alone, and no task that
\* takes one has a page in hand.
LEMMA ContextStep ==
  ASSUME IInv, TypeOK', ContextsOK', CountCoversRefs', UNCHANGED <<cache, isem>>,
         NEW T \in SUBSET Task, \A u \in Task \ T : task'[u] = task[u],
         \A u \in T : /\ task'[u].pc \in {"user", "task", "vmas", "commit", "enter"}
                      /\ task'[u].pc \in {"vmas", "commit", "enter"} => task'[u].new # NULL,
         \A p \in Frames : page[p].use \in {"pgt", "anon", "read", "cache"} => Keeps(p),
         \A p \in Frames, d \in Dirs : page'[p].pd[d] # NULL => \E q \in Frames : page[q].pd[d] = page'[p].pd[d],
         \A p \in Frames, k \in Slots : page'[p].pt[k] # NULL => \E q \in Frames : page[q].pt[k] = page'[p].pt[k]
  PROVE  IInv'
<1>1. TypeOK /\ \A p \in cache : page[p].use = "cache"
  BY ZenonT(40) DEF IInv, PointersOK
<1>2. \A p \in Pages : page[p].use \in {"pgt", "anon", "read", "cache"} => Keeps(p)
  BY SMTT(30) DEF Frames
<1>3. PointersOK' /\ OnePagePerOffset'
  BY <1>2, PointersKept, SMTT(30)
<1>4. ASSUME NEW u \in Task, task'[u] # NULL
      PROVE  InHand(u)' /\ (task'[u].pc \in {"vmas", "commit", "enter"} => task'[u].new # NULL)
  <2>1. CASE u \in T
    BY <2>1, SMTT(30) DEF InHand
  <2>2. CASE u \notin T
    <3>1. task'[u] = task[u] /\ InHand(u)
      BY <1>4, <2>2 DEF IInv
    <3>2. InHand(u)'
      BY <1>1, <1>2, <3>1, HandsKept, Zenon
    <3> QED
      BY <1>4, <3>1, <3>2 DEF IInv, NewIsThere
  <2> QED
    BY <2>1, <2>2, SMTT(30)
<1>5. NewIsThere'
  BY <1>4 DEF NewIsThere
<1> QED
  BY <1>3, <1>4, <1>5, Zenon DEF IInv

\* A task takes a reference to a context it makes or shares.
LEMMA RefTaken ==
  ASSUME NEW t \in Task, NEW a \in 0 .. NCtx, NEW c \in 0 .. NCtx, \A u \in Task \ {t} : task'[u] = task[u],
         task[t] # NULL, task[t].pc # "enter", task'[t].ctx = task[t].ctx, task'[t].new = a
  PROVE  Refs(c)' \subseteq Refs(c) \cup (IF c = a THEN {<<t, "new">>} ELSE {})
<1>1. \A u \in Task \ {t}, how \in Kinds : <<u, how>> \in Refs(c)' => <<u, how>> \in Refs(c)
  BY RefsOfOthers, {t} \in SUBSET Task
<1>2. <<t, "ctx">> \in Refs(c)' => <<t, "ctx">> \in Refs(c)
  BY RefOf, Zenon
<1>3. <<t, "new">> \in Refs(c)' => c = a
  BY RefOf, Zenon
<1>4. \A u \in Task, how \in Kinds : <<u, how>> \in Refs(c)' =>
        <<u, how>> \in Refs(c) \cup (IF c = a THEN {<<t, "new">>} ELSE {})
  BY <1>1, <1>2, <1>3, Zenon DEF Kinds
<1> QED
  BY <1>4, RefsPairs, Zenon

\* A new context is allocated where there was none.
LEMMA FreeContext ==
  ASSUME TypeOK, ~NoCtx, NEW g \in Pages
  PROVE  \E a \in 0 .. NCtx : /\ FreeCtx = a /\ ctx[a] = NULL
                              /\ mem_ctx_new(g) \in [0 .. NCtx -> CtxRec \cup {NULL}]
                              /\ mem_ctx_new(g)[a] # NULL /\ mem_ctx_new(g)[a].pgd = g /\ mem_ctx_new(g)[a].count = 1
                              /\ \A c \in 0 .. NCtx : c # a => mem_ctx_new(g)[c] = ctx[c]
<1>1. PICK a \in 1 .. NCtx : a = FreeCtx
  BY DEF NoCtx, FreeCtx
<1>2. ctx[a] = NULL
  BY <1>1 DEF NoCtx, FreeCtx
<1>3. a \in 0 .. NCtx
  BY SizesAssumption
<1>4. PICK k : k = [vmas |-> {}, freed |-> FALSE, pgd |-> g, count |-> 1]
  BY Zenon
<1>5. k \in CtxRec /\ k.pgd = g /\ k.count = 1
  BY <1>4 DEF CtxRec, Frames
<1>6. k # NULL
  BY <1>5, NullAssumption
<1>7. mem_ctx_new(g) = [ctx EXCEPT ![a] = k]
  BY <1>1, <1>4 DEF mem_ctx_new
<1> QED
  BY <1>1, <1>2, <1>3, <1>5, <1>6, <1>7 DEF TypeOK

\* A page for the directory of a new context, with the entries of another directory.
LEMMA DirectoryCopied ==
  ASSUME TypeOK, ~NoPage, NEW g \in Frames,
         page' = [Put(page, alloc_page("pgd")) EXCEPT ![alloc_page("pgd")[1]].pd = page[g].pd]
  PROVE  \E p \in Pages :
           /\ alloc_page("pgd")[1] = p /\ page[p].use = "free"
           /\ page' \in [Frames -> PageRec] /\ page'[p].use = "pgd" /\ page'[p].pd = page[g].pd
           /\ \A k \in Slots : page'[p].pt[k] = NULL
           /\ \A q \in Frames : q # p => page'[q] = page[q]
<1>1. PICK p \in Pages, r \in PageRec :
        /\ alloc_page("pgd") = <<p, r>> /\ page[p].use = "free"
        /\ r.use = "pgd" /\ r.off = 0 /\ r.pd = NoPd /\ r.pt = NoPt
  BY Alloc DEF Uses
<1>2. PICK f : f = Put(page, <<p, r>>)
  OBVIOUS
<1>3. f \in [Frames -> PageRec] /\ f[p] = r /\ \A q \in Frames : q # p => f[q] = page[q]
  BY <1>2, PutPage
<1>4. PICK x : x = page[g].pd
  OBVIOUS
<1>5. x \in [Dirs -> Pages \cup {NULL}]
  BY <1>4 DEF TypeOK, PageRec
<1>6. PICK k : k = [r EXCEPT !.pd = x]
  BY Zenon
<1>7. k \in PageRec /\ k.use = "pgd" /\ k.pd = x /\ k.pt = NoPt
  BY <1>1, <1>5, <1>6 DEF PageRec
<1>8. page' = [f EXCEPT ![p] = k] /\ p \in Frames
  BY <1>1, <1>2, <1>3, <1>4, <1>6 DEF Frames
<1>9. page' \in [Frames -> PageRec] /\ page'[p] = k /\ \A q \in Frames : q # p => page'[q] = page[q]
  BY <1>3, <1>7, <1>8, Zenon
<1>10. alloc_page("pgd")[1] = p
  BY <1>1
<1>11. page'[p].use = "pgd" /\ page'[p].pd = page[g].pd /\ \A i \in Slots : page'[p].pt[i] = NULL
  BY <1>4, <1>7, <1>9, Zenon DEF NoPt, Slots
<1> QED
  BY <1>1, <1>9, <1>10, <1>11

\* A context is made for a task, with a directory copied from another.
LEMMA NewContextKeeps ==
  ASSUME Counting, IInv, NEW t \in Task, task[t] \in TaskRec, task[t] # NULL, task[t].pc # "enter", ~NoCtx, ~NoPage, NEW g \in Frames,
         page' = [Put(page, alloc_page("pgd")) EXCEPT ![alloc_page("pgd")[1]].pd = page[g].pd],
         ctx' = mem_ctx_new(alloc_page("pgd")[1]), UNCHANGED <<cache, isem, next_pid>>,
         NEW l \in {"task", "vmas"}, task' = [task EXCEPT ![t].pc = l, ![t].new = FreeCtx]
  PROVE  IInv'
<1>1. TypeOK
  BY DEF IInv
<1>2. PICK p \in Pages :
        /\ alloc_page("pgd")[1] = p /\ page[p].use = "free"
        /\ page' \in [Frames -> PageRec] /\ page'[p].use = "pgd" /\ page'[p].pd = page[g].pd
        /\ \A k \in Slots : page'[p].pt[k] = NULL
        /\ \A q \in Frames : q # p => page'[q] = page[q]
  BY <1>1, DirectoryCopied
<1>3. PICK a \in 0 .. NCtx : /\ FreeCtx = a /\ ctx[a] = NULL /\ ctx' \in [0 .. NCtx -> CtxRec \cup {NULL}]
                             /\ ctx'[a] # NULL /\ ctx'[a].pgd = p /\ ctx'[a].count = 1
                             /\ \A c \in 0 .. NCtx : c # a => ctx'[c] = ctx[c]
  BY <1>1, <1>2, FreeContext
<1>4. PICK k : k = [task[t] EXCEPT !.pc = l, !.new = a]
  OBVIOUS
<1>5. k \in TaskRec /\ k.pc = l /\ k.new = a /\ k.ctx = task[t].ctx
  BY <1>4, Zenon DEF TaskRec
<1>6. task' = [task EXCEPT ![t] = k]
  BY <1>1, <1>3, <1>4, Zenon DEF TypeOK
<1>7. /\ task' \in [Task -> TaskRec \cup {NULL}] /\ \A u \in Task \ {t} : task'[u] = task[u]
      /\ task'[t].pc = l /\ task'[t].new = a /\ task'[t].ctx = task[t].ctx
  BY <1>1, <1>5, <1>6, Zenon DEF TypeOK
<1>8. TypeOK'
  BY <1>1, <1>2, <1>3, <1>7 DEF TypeOK
<1>9. ContextsOK'
  BY <1>2, <1>3, <1>8, ContextMade
<1>10. CountCoversRefs'
  <2>1. \A c \in 0 .. NCtx : Refs(c)' \subseteq Refs(c) \cup (IF c = a THEN {<<t, "new">>} ELSE {})
    BY <1>7, RefTaken
  <2>2. /\ Refs(a)' \subseteq Refs(a) \cup {<<t, "new">>}
        /\ \A c \in (0 .. NCtx) \ {a} : Refs(c)' \subseteq Refs(c) /\ ctx'[c] = ctx[c]
    BY <1>3, <2>1
  <2> QED
    BY <1>3, <1>8, <2>2, RefAdded, Zenon
<1>11. NULL # a
  BY NullAssumption
<1>12. /\ \A q \in Frames : page[q].use \in {"pgt", "anon", "read", "cache"} => Keeps(q)
       /\ \A q \in Frames, d \in Dirs : page'[q].pd[d] # NULL => \E f \in Frames : page[f].pd[d] = page'[q].pd[d]
       /\ \A q \in Frames, i \in Slots : page'[q].pt[i] # NULL => \E f \in Frames : page[f].pt[i] = page'[q].pt[i]
  BY <1>2 DEF Keeps
<1>13. \A u \in {t} : /\ task'[u].pc \in {"user", "task", "vmas", "commit", "enter"}
                      /\ task'[u].pc \in {"vmas", "commit", "enter"} => task'[u].new # NULL
  BY <1>7, <1>11
<1>14. {t} \in SUBSET Task
  OBVIOUS
<1> QED
  BY <1>7, <1>8, <1>9, <1>10, <1>12, <1>13, <1>14, ContextStep, Zenon

\* exec makes a context.
LEMMA ExecKeeps ==
  ASSUME Counting, IInv, NEW t \in Task, exec(t)
  PROVE  IInv'
<1>1. At(t, "user") /\ ~NoCtx /\ ~NoPage /\ UNCHANGED <<cache, isem, next_pid>>
  BY DEF exec
<1>2. task[t] \in TaskRec /\ task[t] # NULL /\ task[t].pc = "user"
  BY <1>1, AtWork, Zenon
<1>3. /\ page' = [Put(page, alloc_page("pgd")) EXCEPT ![alloc_page("pgd")[1]].pd = page[Kernel].pd]
      /\ ctx' = mem_ctx_new(alloc_page("pgd")[1])
      /\ task' = [task EXCEPT ![t].pc = "vmas", ![t].new = FreeCtx]
  BY DEF exec, setup_new_ctx
<1>4. Kernel \in Frames
  BY DEF Kernel, Frames
<1> QED
  BY <1>1, <1>2, <1>3, <1>4, NewContextKeeps, Zenon

\* The child of a fork gets a context of its own or shares its parent's.
LEMMA CloneKeeps ==
  ASSUME Counting, IInv, NEW t \in Task, At(t, "mm"), mem_ctx_clone(t), UNCHANGED <<cache, isem, next_pid>>
  PROVE  IInv'
<1>1. TypeOK /\ next_pid' \in Int
  BY DEF IInv, TypeOK
<1>2. /\ task[t] \in TaskRec /\ task[t] # NULL /\ task[t].pc = "mm"
      /\ task[t].ctx \in 0 .. NCtx /\ ctx[task[t].ctx] \in CtxRec /\ ctx[task[t].ctx] # NULL
  BY AtWork, Zenon
<1>3. PICK c, g : c = task[t].ctx /\ g = ctx[c].pgd
  OBVIOUS
<1>4. c \in 0 .. NCtx /\ g \in Frames /\ ctx[c] \in CtxRec /\ ctx[c] # NULL
  BY <1>2, <1>3 DEF CtxRec
<1>5. ASSUME task' = [task EXCEPT ![t].new = NULL, ![t].pc = "task"]
      PROVE  /\ task' \in [Task -> TaskRec \cup {NULL}] /\ \A u \in Task \ {t} : task'[u] = task[u]
             /\ task'[t].pc = "task" /\ task'[t].new = NULL /\ task'[t].ctx = task[t].ctx /\ InHand(t)'
  <2>1. PICK k : k = [task[t] EXCEPT !.new = NULL, !.pc = "task"]
    OBVIOUS
  <2>2. k \in TaskRec /\ k.pc = "task" /\ k.new = NULL /\ k.ctx = task[t].ctx
    BY <1>2, <2>1, Zenon DEF TaskRec
  <2>3. task' = [task EXCEPT ![t] = k]
    BY <1>1, <1>5, <2>1, Zenon DEF TypeOK
  <2>4. /\ task' \in [Task -> TaskRec \cup {NULL}] /\ \A u \in Task \ {t} : task'[u] = task[u]
        /\ task'[t].pc = "task" /\ task'[t].new = NULL /\ task'[t].ctx = task[t].ctx
    BY <1>1, <2>2, <2>3 DEF TypeOK
  <2> QED
    BY <2>4 DEF InHand
<1>6. ASSUME task' = [task EXCEPT ![t].new = NULL, ![t].pc = "task"], UNCHANGED <<page, ctx>>
      PROVE  IInv'
  BY <1>1, <1>2, <1>5, <1>6, LocalKeeps
<1>7. ASSUME ~NoCtx, ~NoPage, page' = clone_ctx(c, alloc_page("pgd")), ctx' = mem_ctx_new(alloc_page("pgd")[1]),
             task' = [task EXCEPT ![t].new = FreeCtx, ![t].pc = "task"]
      PROVE  IInv'
  <2>1. page' = [Put(page, alloc_page("pgd")) EXCEPT ![alloc_page("pgd")[1]].pd = page[g].pd]
    BY <1>3, <1>7 DEF clone_ctx
  <2>2. task' = [task EXCEPT ![t].pc = "task", ![t].new = FreeCtx]
    BY <1>1, <1>2, <1>7 DEF TypeOK, TaskRec
  <2> QED
    BY <1>2, <1>4, <1>7, <2>1, <2>2, NewContextKeeps, Zenon
<1>8. ASSUME ~NoPage, page' = clone_ctx(c, alloc_page("pgd")), ctx' = [ctx EXCEPT ![c].freed = TRUE],
             task' = [task EXCEPT ![t].new = NULL, ![t].pc = "task"]
      PROVE  IInv'
  <2>1. page' = [Put(page, alloc_page("pgd")) EXCEPT ![alloc_page("pgd")[1]].pd = page[g].pd]
    BY <1>3, <1>8 DEF clone_ctx
  <2>2. PICK p \in Pages :
          /\ alloc_page("pgd")[1] = p /\ page[p].use = "free"
          /\ page' \in [Frames -> PageRec] /\ page'[p].use = "pgd" /\ page'[p].pd = page[g].pd
          /\ \A k \in Slots : page'[p].pt[k] = NULL
          /\ \A q \in Frames : q # p => page'[q] = page[q]
    BY <1>1, <1>4, <1>8, <2>1, DirectoryCopied
  <2>3. /\ ctx' \in [0 .. NCtx -> CtxRec \cup {NULL}]
        /\ \A e \in 0 .. NCtx : /\ ctx'[e] = NULL <=> ctx[e] = NULL
                                /\ ctx[e] # NULL => ctx'[e].pgd = ctx[e].pgd /\ ctx'[e].count = ctx[e].count
    <3>1. PICK k : k = [ctx[c] EXCEPT !.freed = TRUE]
      BY Zenon
    <3>2. k \in CtxRec /\ k.pgd = ctx[c].pgd /\ k.count = ctx[c].count
      BY <1>4, <3>1, Zenon DEF CtxRec
    <3>3. ctx' = [ctx EXCEPT ![c] = k] /\ k # NULL
      BY <1>1, <1>4, <1>8, <3>1, <3>2, NullAssumption, Zenon DEF TypeOK
    <3> QED
      BY <1>1, <1>4, <3>2, <3>3 DEF TypeOK
  <2>4. Plain(t)
    BY <1>5, <1>8, <2>2, <2>3 DEF Plain, Keeps, Frames
  <2>5. \A d \in Dirs : page'[p].pd[d] = NULL \/ \E q \in Frames : page[q].pd[d] = page'[p].pd[d]
    BY <1>4, <2>2
  <2> QED
    BY <1>1, <1>2, <1>5, <1>8, <2>2, <2>3, <2>4, <2>5, AllocKeeps, Zenon
<1> QED
  BY <1>3, <1>6, <1>7, <1>8 DEF mem_ctx_clone

\* fork_mm shares the context of the parent or clones it.
LEMMA ForkMmKeeps ==
  ASSUME Counting, IInv, NEW t \in Task, fork_mm(t)
  PROVE  IInv'
<1>1. TypeOK /\ At(t, "mm") /\ UNCHANGED <<cache, isem, next_pid>>
  BY SMTT(30) DEF IInv, fork_mm
<1>2. /\ task[t] \in TaskRec /\ task[t] # NULL /\ task[t].pc = "mm"
      /\ task[t].ctx \in 0 .. NCtx /\ ctx[task[t].ctx] \in CtxRec /\ ctx[task[t].ctx] # NULL
  BY <1>1, AtWork, Zenon
<1>3. ASSUME ctx' = mem_ctx_get(task[t].ctx), task' = [task EXCEPT ![t].new = task[t].ctx, ![t].pc = "task"], UNCHANGED page
      PROVE  IInv'
  <2>1. PICK a : a = task[t].ctx
    OBVIOUS
  <2>2. a \in 0 .. NCtx /\ ctx[a] \in CtxRec /\ ctx[a] # NULL
    BY <1>2, <2>1
  <2>3. PICK k : k = [task[t] EXCEPT !.new = a, !.pc = "task"]
    OBVIOUS
  <2>4. k \in TaskRec /\ k.pc = "task" /\ k.new = a /\ k.ctx = task[t].ctx
    BY <1>2, <2>2, <2>3, Zenon DEF TaskRec
  <2>5. task' = [task EXCEPT ![t] = k]
    BY <1>1, <1>3, <2>1, <2>3, Zenon DEF TypeOK
  <2>6. /\ task' \in [Task -> TaskRec \cup {NULL}] /\ \A u \in Task \ {t} : task'[u] = task[u]
        /\ task'[t].pc = "task" /\ task'[t].new = a /\ task'[t].ctx = task[t].ctx
    BY <1>1, <2>4, <2>5 DEF TypeOK
  <2>7. /\ ctx' \in [0 .. NCtx -> CtxRec \cup {NULL}] /\ \A e \in 0 .. NCtx : e # a => ctx'[e] = ctx[e]
        /\ ctx'[a] # NULL /\ ctx'[a].pgd = ctx[a].pgd /\ ctx'[a].count = ctx[a].count + 1
    <3>1. PICK f : f = [ctx[a] EXCEPT !.count = @ + 1]
      BY Zenon
    <3>2. f \in CtxRec /\ f.pgd = ctx[a].pgd /\ f.count = ctx[a].count + 1
      BY <2>2, <3>1 DEF CtxRec
    <3>3. ctx' = [ctx EXCEPT ![a] = f] /\ f # NULL
      BY <1>1, <1>3, <2>1, <2>2, <3>1, <3>2, NullAssumption DEF TypeOK, mem_ctx_get
    <3> QED
      BY <1>1, <2>2, <3>2, <3>3 DEF TypeOK
  <2>8. TypeOK'
    BY <1>1, <1>3, <2>6, <2>7 DEF TypeOK
  <2>9. ContextsOK'
    BY <1>3, <2>2, <2>7, <2>8, ContextsKept
  <2>10. CountCoversRefs'
    <3>1. \A c \in 0 .. NCtx : Refs(c)' \subseteq Refs(c) \cup (IF c = a THEN {<<t, "new">>} ELSE {})
      BY <1>2, <2>2, <2>6, RefTaken
    <3>2. /\ Refs(a)' \subseteq Refs(a) \cup {<<t, "new">>}
          /\ \A c \in (0 .. NCtx) \ {a} : Refs(c)' \subseteq Refs(c) /\ ctx'[c] = ctx[c]
      BY <2>2, <2>7, <3>1
    <3> QED
      BY <2>2, <2>7, <2>8, <3>2, RefAdded, Zenon
  <2>11. \A u \in {t} : /\ task'[u].pc \in {"user", "task", "vmas", "commit", "enter"}
                        /\ task'[u].pc \in {"vmas", "commit", "enter"} => task'[u].new # NULL
    BY <2>6
  <2>12. /\ \A q \in Frames : page[q].use \in {"pgt", "anon", "read", "cache"} => Keeps(q)
         /\ \A q \in Frames, d \in Dirs : page'[q].pd[d] # NULL => \E f \in Frames : page[f].pd[d] = page'[q].pd[d]
         /\ \A q \in Frames, i \in Slots : page'[q].pt[i] # NULL => \E f \in Frames : page[f].pt[i] = page'[q].pt[i]
    BY <1>3 DEF Keeps
  <2>13. {t} \in SUBSET Task
    OBVIOUS
  <2> QED
    BY <1>1, <2>6, <2>8, <2>9, <2>10, <2>11, <2>12, <2>13, ContextStep, Zenon
<1>4. CASE mem_ctx_clone(t)
  BY <1>1, <1>4, CloneKeeps
<1> QED
  BY <1>3, <1>4 DEF fork_mm

\* A child is made: the reference that fork holds becomes the child's.
LEMMA ForkTaskKeeps ==
  ASSUME Counting, IInv, NEW t \in Task, fork_task(t)
  PROVE  IInv'
<1>1. TypeOK /\ At(t, "task") /\ UNCHANGED <<page, ctx, cache, isem, next_pid>>
  BY Zenon DEF IInv, fork_task
<1>2. /\ task[t] \in TaskRec /\ task[t] # NULL /\ task[t].pc = "task" /\ next_pid' \in Int
      /\ task[t].ctx \in 0 .. NCtx
  BY <1>1, AtWork, ZenonT(40) DEF TypeOK
<1>3. CASE Back(t, "user")
  BY <1>1, <1>2, <1>3, GivesUp
<1>4. CASE task[t].new = NULL /\ UNCHANGED task
  <2>1. InHand(t)'
    BY <1>2, <1>4 DEF InHand
  <2> QED
    BY <1>1, <1>2, <1>4, <2>1, LocalKeeps DEF TypeOK
<1>5. ASSUME task[t].new # NULL, NEW u \in Task, task[u] = NULL,
             task' = [task EXCEPT ![t] = Ready(@.ctx, @.tss, @.pid),
                        ![u] = Ready(task[t].new, ctx[task[t].new].pgd, task[t].va)]
      PROVE  IInv'
  <2>1. PICK a, b : a = task[t].new /\ b = task[t].ctx
    OBVIOUS
  <2>2. a \in 0 .. NCtx /\ b \in 0 .. NCtx /\ <<t, "new">> \in Refs(a) /\ t # u
    <3>1. a \in 0 .. NCtx /\ b \in 0 .. NCtx
      BY <1>2, <1>5, <2>1 DEF TaskRec
    <3>2. <<t, "new">> \in Refs(a)
      BY <1>2, <2>1, RefOf, Zenon
    <3> QED
      BY <1>2, <1>5, <3>1, <3>2
  <2>3. ctx[a] # NULL
    BY <2>2 DEF IInv, CountCoversRefs
  <2>4. PICK k, f : k = Ready(b, task[t].tss, task[t].pid) /\ f = Ready(a, ctx[a].pgd, task[t].va)
    BY SMTT(30)
  <2>5. k \in TaskRec /\ k.pc = "user" /\ k.ctx = b
    <3>1. task[t].tss \in Frames /\ task[t].pid \in Int
      BY <1>2 DEF TaskRec
    <3> QED
      BY <2>2, <2>4, <3>1, ReadyTask
  <2>6. f \in TaskRec /\ f.pc = "user" /\ f.ctx = a
    <3>1. ctx[a].pgd \in Frames /\ task[t].va \in Int
      BY <1>1, <1>2, <2>2, <2>3 DEF TypeOK, CtxRec, TaskRec
    <3> QED
      BY <2>2, <2>4, <3>1, ReadyTask, SMTT(30)
  <2>7. task' = [task EXCEPT ![t] = k, ![u] = f]
    BY <1>5, <2>1, <2>4
  <2>8. /\ task' \in [Task -> TaskRec \cup {NULL}] /\ \A w \in Task \ {t, u} : task'[w] = task[w]
        /\ task'[t] = k /\ task'[u] = f
    BY <1>1, <2>2, <2>5, <2>6, <2>7 DEF TypeOK
  <2>9. TypeOK'
    BY <1>1, <2>8, SMTT(30) DEF TypeOK
  <2>10. ContextsOK'
    BY <1>1, <2>9, ContextsKept
  <2>11. ASSUME NEW c \in 0 .. NCtx
         PROVE  /\ c = a => Refs(c)' \subseteq (Refs(c) \ {<<t, "new">>}) \cup {<<u, "ctx">>}
                /\ c # a => Refs(c)' \subseteq Refs(c)
    <3>1. \A w \in Task \ {t, u}, how \in Kinds : <<w, how>> \in Refs(c)' => <<w, how>> \in Refs(c)
      BY <2>8, RefsOfOthers, {t, u} \in SUBSET Task
    <3>2. /\ <<t, "ctx">> \in Refs(c)' => <<t, "ctx">> \in Refs(c)
          /\ <<u, "ctx">> \in Refs(c)' => c = a
      <4>1. /\ <<t, "ctx">> \in Refs(c)' => task'[t].ctx = c
            /\ <<u, "ctx">> \in Refs(c)' => task'[u].ctx = c
        BY RefOf, Zenon
      <4>2. task[t].ctx = c => <<t, "ctx">> \in Refs(c)
        BY <1>2, RefOf, Zenon
      <4> QED
        BY <2>1, <2>5, <2>6, <2>8, <4>1, <4>2
    <3>3. <<t, "new">> \notin Refs(c)' /\ <<u, "new">> \notin Refs(c)'
      BY <2>5, <2>6, <2>8, RefOf, Zenon
    <3>4. c = a => \A w \in Task, how \in Kinds : <<w, how>> \in Refs(c)' =>
                      <<w, how>> \in (Refs(c) \ {<<t, "new">>}) \cup {<<u, "ctx">>}
      BY <3>1, <3>2, <3>3, Zenon DEF Kinds
    <3>5. c # a => \A w \in Task, how \in Kinds : <<w, how>> \in Refs(c)' => <<w, how>> \in Refs(c)
      BY <3>1, <3>2, <3>3, Zenon DEF Kinds
    <3> QED
      BY <3>4, <3>5, RefsPairs, Zenon
  <2>12. CountCoversRefs'
    <3>1. /\ Refs(a)' \subseteq (Refs(a) \ {<<t, "new">>}) \cup {<<u, "ctx">>}
          /\ \A c \in (0 .. NCtx) \ {a} : Refs(c)' \subseteq Refs(c)
      BY <2>2, <2>11
    <3> QED
      BY <1>1, <2>2, <2>9, <3>1, RefMoved
  <2>13. \A w \in {t, u} : /\ task'[w].pc \in {"user", "task", "vmas", "commit", "enter"}
                           /\ task'[w].pc \in {"vmas", "commit", "enter"} => task'[w].new # NULL
    BY <2>5, <2>6, <2>8, SMTT(30)
  <2>14. /\ \A q \in Frames : page[q].use \in {"pgt", "anon", "read", "cache"} => Keeps(q)
         /\ \A q \in Frames, d \in Dirs : page'[q].pd[d] # NULL => \E g \in Frames : page[g].pd[d] = page'[q].pd[d]
         /\ \A q \in Frames, i \in Slots : page'[q].pt[i] # NULL => \E g \in Frames : page[g].pt[i] = page'[q].pt[i]
    BY <1>1 DEF Keeps
  <2>15. {t, u} \in SUBSET Task
    OBVIOUS
  <2> QED
    BY <1>1, <2>8, <2>9, <2>10, <2>12, <2>13, <2>14, <2>15, ContextStep, Zenon
<1> QED
  BY <1>3, <1>4, <1>5, Zenon DEF fork_task

\* mem_ctx_put drops a reference, and the directory with the last one.
LEMMA PutKeeps ==
  ASSUME Counting, IInv, NEW t \in Task, NEW a \in 0 .. NCtx, NEW x \in Refs(a), mem_ctx_put(a),
         UNCHANGED <<cache, isem, next_pid>>,
         task' \in [Task -> TaskRec \cup {NULL}], \A u \in Task \ {t} : task'[u] = task[u],
         task'[t].pc \in {"user", "enter"}, task'[t].pc = "enter" => task'[t].new # NULL,
         Refs(a)' \subseteq Refs(a) \ {x}, \A c \in (0 .. NCtx) \ {a} : Refs(c)' \subseteq Refs(c)
  PROVE  IInv'
<1>1. TypeOK /\ ContextsOK
  BY SMTT(30) DEF IInv
<1>2. ctx[a] # NULL
  BY SMTT(30) DEF IInv, CountCoversRefs
<1>3. PICK g : g = ctx[a].pgd
  BY SMTT(30)
<1>4. ctx[a] \in CtxRec /\ g \in Frames /\ page[g].use = "pgd" /\ ctx[a].count \in Nat
  BY <1>1, <1>2, <1>3, SMTT(30) DEF TypeOK, CtxRec, ContextsOK
<1>5. ctx[a].count # 0
  <2>1. Cardinality(Refs(a)) <= ctx[a].count
    BY <1>2, SMTT(30) DEF IInv, CountCoversRefs
  <2>2. Cardinality(Refs(a)) # 0
    BY RefsCounted, Zenon DEF Counting
  <2> QED
    BY <1>4, <2>1, <2>2, RefsCounted, SMTT(30)
<1>6. /\ ctx' \in [0 .. NCtx -> CtxRec \cup {NULL}] /\ \A c \in 0 .. NCtx : c # a => ctx'[c] = ctx[c]
      /\ IF ctx[a].count = 1 THEN ctx'[a] = NULL
         ELSE ctx'[a] # NULL /\ ctx'[a].pgd = g /\ ctx'[a].count = ctx[a].count - 1
  <2>1. PICK k : k = [ctx[a] EXCEPT !.count = @ - 1]
    BY Zenon
  <2>2. k \in CtxRec /\ k.pgd = g /\ k.count = ctx[a].count - 1
    BY <1>3, <1>4, <1>5, <2>1 DEF CtxRec
  <2>3. k # NULL
    BY <2>2, NullAssumption
  <2>4. ctx' = [ctx EXCEPT ![a] = IF ctx[a].count = 1 THEN NULL ELSE k]
    BY <2>1, Zenon DEF mem_ctx_put
  <2> QED
    BY <1>1, <2>2, <2>3, <2>4 DEF TypeOK
<1>7. /\ page' \in [Frames -> PageRec] /\ \A q \in Frames : q # g => page'[q] = page[q]
      /\ page'[g] = IF ctx[a].count = 1 THEN Empty ELSE page[g]
  BY <1>1, <1>3, <1>4, EmptyPage, ZenonT(40) DEF mem_ctx_put, destroy_ctx, TypeOK
<1>8. TypeOK'
  BY <1>1, <1>6, <1>7 DEF TypeOK
<1>9. ContextsOK'
  <2>1. ASSUME NEW c \in 0 .. NCtx, ctx'[c] # NULL
        PROVE  ctx[c] # NULL /\ ctx'[c].pgd = ctx[c].pgd /\ page'[ctx[c].pgd].use = page[ctx[c].pgd].use
    <3>1. CASE c = a
      BY <1>2, <1>3, <1>6, <1>7, <2>1, <3>1, SMTT(30)
    <3>2. CASE c # a
      <4>1. ctx'[c] = ctx[c] /\ ctx[c].pgd \in Frames
        BY <1>1, <1>6, <2>1, <3>2, SMTT(30) DEF TypeOK, CtxRec
      <4>2. ctx[c].pgd # g
        BY <1>1, <1>2, <1>3, <2>1, <3>2, <4>1 DEF ContextsOK
      <4> QED
        BY <1>7, <2>1, <4>1, <4>2, SMTT(30)
    <3> QED
      BY <3>1, <3>2, ZenonT(40)
  <2> QED
    BY <1>8, <2>1, ContextsKept, ZenonT(40)
<1>10. CountCoversRefs'
  <2>1. IF ctx[a].count = 1 THEN ctx'[a] = NULL ELSE ctx'[a] # NULL /\ ctx'[a].count = ctx[a].count - 1
    BY <1>6
  <2>2. \A c \in (0 .. NCtx) \ {a} : Refs(c)' \subseteq Refs(c) /\ ctx'[c] = ctx[c]
    BY <1>6
  <2> QED
    BY <1>2, <1>8, <2>1, <2>2, RefDropped, Zenon
<1>11. /\ \A q \in Frames : page[q].use \in {"pgt", "anon", "read", "cache"} => Keeps(q)
       /\ \A q \in Frames, d \in Dirs : page'[q].pd[d] # NULL => \E f \in Frames : page[f].pd[d] = page'[q].pd[d]
       /\ \A q \in Frames, i \in Slots : page'[q].pt[i] # NULL => \E f \in Frames : page[f].pt[i] = page'[q].pt[i]
  BY <1>4, <1>7, EmptyPage, ZenonT(40) DEF Keeps
<1>12. \A u \in {t} : /\ task'[u].pc \in {"user", "task", "vmas", "commit", "enter"}
                      /\ task'[u].pc \in {"vmas", "commit", "enter"} => task'[u].new # NULL
  OBVIOUS
<1>13. {t} \in SUBSET Task
  OBVIOUS
<1> QED
  BY <1>8, <1>9, <1>10, <1>11, <1>12, <1>13, ContextStep, ZenonT(40)

\* The areas of a program.
LEMMA SetupVma ==
  ASSUME NEW sg \in [va : Nat, memsz : Nat, file : BOOLEAN, off : Int]
  PROVE  setup_vma(sg) \in Vma
<1>1. /\ sg.va \in Int /\ sg.va + sg.memsz \in Int /\ sg.off \in Int /\ sg.file \in BOOLEAN
      /\ sg.va + sg.memsz + PageSize - 1 \in Int
  BY SizesAssumption
<1>2. va_round_down(sg.va) \in Int /\ va_round_up(sg.va + sg.memsz) \in Int
  BY <1>1, RoundDown DEF va_round_up
<1>3. sg.off - (sg.va - va_round_down(sg.va)) \in Int
  BY <1>1, <1>2
<1> QED
  BY <1>1, <1>2, <1>3 DEF setup_vma, Vma

\* exec maps the areas of the program, or drops the new context.
LEMMA ExecVmasKeeps ==
  ASSUME Counting, IInv, NEW t \in Task, exec_vmas(t)
  PROVE  IInv'
<1>1. TypeOK /\ At(t, "vmas") /\ UNCHANGED <<cache, isem, next_pid>>
  BY SMTT(30) DEF IInv, exec_vmas
<1>2. task[t] \in TaskRec /\ task[t] # NULL /\ task[t].pc = "vmas"
  BY <1>1, AtWork, Zenon
<1>3. PICK a : a = task[t].new
  OBVIOUS
<1>4. a \in 0 .. NCtx /\ <<t, "new">> \in Refs(a)
  <2>1. a # NULL
    BY <1>2, <1>3 DEF IInv, NewIsThere
  <2>2. a \in 0 .. NCtx
    BY <1>2, <1>3, <2>1 DEF TaskRec
  <2> QED
    BY <1>2, <1>3, <2>2, RefOf, Zenon
<1>5. ctx[a] # NULL /\ ctx[a] \in CtxRec
  <2>1. ctx[a] # NULL
    BY <1>4 DEF IInv, CountCoversRefs
  <2> QED
    BY <1>1, <1>4, <2>1, SMTT(30) DEF TypeOK
<1>6. CASE UNCHANGED <<page, ctx, task>>
  BY <1>1, <1>6, NothingChanges
<1>7. ASSUME NEW prog \in Progs, NEW n \in 0 .. Len(prog),
             ctx' = [ctx EXCEPT ![a].vmas = {setup_vma(prog[i]) : i \in 1 .. n}], Goto(t, "commit"), UNCHANGED page
      PROVE  IInv'
  <2>1. PICK S : S = {setup_vma(prog[i]) : i \in 1 .. n}
    BY Zenon
  <2>2. S \subseteq Vma
    <3>1. PICK Sg : Sg = [va : Nat, memsz : Nat, file : BOOLEAN, off : Int]
      BY Zenon
    <3>2. prog \in Seq(Sg)
      BY <3>1, SizesAssumption
    <3>3. \A i \in 1 .. n : prog[i] \in Sg
      BY <1>7, <3>2
    <3> QED
      BY <2>1, <3>1, <3>3, SetupVma
  <2>3. PICK k : k = [ctx[a] EXCEPT !.vmas = S]
    BY Zenon
  <2>4. k \in CtxRec /\ k.pgd = ctx[a].pgd /\ k.count = ctx[a].count
    BY <1>5, <2>2, <2>3 DEF CtxRec
  <2>5. k # NULL
    BY <2>4, NullAssumption
  <2>6. ctx' = [ctx EXCEPT ![a] = k]
    BY <1>1, <1>4, <1>7, <2>1, <2>3 DEF TypeOK
  <2>7. /\ ctx' \in [0 .. NCtx -> CtxRec \cup {NULL}]
        /\ \A c \in 0 .. NCtx : /\ ctx'[c] = NULL <=> ctx[c] = NULL
                                /\ ctx[c] # NULL => ctx'[c].pgd = ctx[c].pgd /\ ctx'[c].count = ctx[c].count
    BY <1>1, <1>4, <1>5, <2>4, <2>5, <2>6 DEF TypeOK
  <2>8. /\ task' \in [Task -> TaskRec \cup {NULL}] /\ \A u \in Task \ {t} : task'[u] = task[u]
        /\ task'[t].pc = "commit" /\ task'[t].ctx = task[t].ctx /\ task'[t].new = a
    BY <1>1, <1>2, <1>3, <1>7, SMTT(30) DEF TypeOK, TaskRec, Goto
  <2>9. TypeOK'
    BY <1>1, <1>7, <2>7, <2>8 DEF TypeOK
  <2>10. ContextsOK'
    BY <1>7, <2>7, <2>9, ContextsKept
  <2>11. ASSUME NEW c \in 0 .. NCtx PROVE Refs(c)' \subseteq Refs(c)
    <3>1. Refs(c)' \subseteq Refs(c) \cup (IF c = a THEN {<<t, "new">>} ELSE {})
      BY <1>2, <1>4, <2>8, RefTaken
    <3> QED
      BY <1>4, <3>1, SMTT(30)
  <2>12. CountCoversRefs'
    BY <2>7, <2>9, <2>11, CountsKept, SMTT(30)
  <2>13. \A u \in {t} : /\ task'[u].pc \in {"user", "task", "vmas", "commit", "enter"}
                        /\ task'[u].pc \in {"vmas", "commit", "enter"} => task'[u].new # NULL
    BY <1>4, <2>8, NullAssumption
  <2>14. /\ \A q \in Frames : page[q].use \in {"pgt", "anon", "read", "cache"} => Keeps(q)
         /\ \A q \in Frames, d \in Dirs : page'[q].pd[d] # NULL => \E f \in Frames : page[f].pd[d] = page'[q].pd[d]
         /\ \A q \in Frames, i \in Slots : page'[q].pt[i] # NULL => \E f \in Frames : page[f].pt[i] = page'[q].pt[i]
    BY <1>7 DEF Keeps
  <2>15. {t} \in SUBSET Task
    BY SMTT(30)
  <2> QED
    BY <1>1, <2>8, <2>9, <2>10, <2>12, <2>13, <2>14, <2>15, ContextStep, Zenon
<1>8. ASSUME mem_ctx_put(a), Back(t, "user")
      PROVE  IInv'
  <2>1. /\ task' \in [Task -> TaskRec \cup {NULL}] /\ \A u \in Task \ {t} : task'[u] = task[u]
        /\ task'[t].pc = "user" /\ task'[t].ctx = task[t].ctx
    BY <1>1, <1>2, <1>8, BackTo, Zenon
  <2>2. ASSUME NEW c \in 0 .. NCtx PROVE Refs(c)' \subseteq Refs(c) \ {<<t, "new">>}
    <3>1. \A u \in Task \ {t}, how \in Kinds : <<u, how>> \in Refs(c)' => <<u, how>> \in Refs(c)
      BY <2>1, RefsOfOthers, {t} \in SUBSET Task
    <3>2. <<t, "ctx">> \in Refs(c)' => <<t, "ctx">> \in Refs(c)
      <4>1. <<t, "ctx">> \in Refs(c)' => task'[t].ctx = c
        BY RefOf, Zenon
      <4>2. task[t].ctx = c => <<t, "ctx">> \in Refs(c)
        BY <1>2, RefOf, Zenon
      <4> QED
        BY <2>1, <4>1, <4>2
    <3>3. <<t, "new">> \notin Refs(c)'
      BY <2>1, RefOf, Zenon
    <3>4. \A u \in Task, how \in Kinds : <<u, how>> \in Refs(c)' => <<u, how>> \in Refs(c) \ {<<t, "new">>}
      BY <3>1, <3>2, <3>3, Zenon DEF Kinds
    <3> QED
      BY <3>4, RefsPairs, Zenon
  <2> QED
    BY <1>1, <1>4, <1>8, <2>1, <2>2, PutKeeps, ZenonT(40)
<1> QED
  BY <1>3, <1>6, <1>7, <1>8 DEF exec_vmas

\* The commit drops the old context, and the new one takes its place.
LEMMA ExecCommitKeeps ==
  ASSUME Counting, IInv, NEW t \in Task, exec_commit(t)
  PROVE  IInv'
<1>1. TypeOK /\ At(t, "commit") /\ UNCHANGED <<cache, isem, next_pid>> /\ Goto(t, "enter")
  BY SMTT(30) DEF IInv, exec_commit
<1>2. task[t] \in TaskRec /\ task[t] # NULL /\ task[t].pc = "commit"
  BY <1>1, AtWork, Zenon
<1>3. PICK a : a = task[t].ctx
  OBVIOUS
<1>4. a \in 0 .. NCtx /\ <<t, "ctx">> \in Refs(a) /\ mem_ctx_put(a) /\ task[t].new # NULL
  <2>1. task[t].ctx \in 0 .. NCtx /\ <<t, "ctx">> \in Refs(task[t].ctx)
    BY <1>1, AtWork
  <2>2. task[t].new # NULL
    BY <1>2 DEF IInv, NewIsThere
  <2> QED
    BY <1>3, <2>1, <2>2 DEF exec_commit
<1>5. /\ task' \in [Task -> TaskRec \cup {NULL}] /\ \A u \in Task \ {t} : task'[u] = task[u]
      /\ task'[t].pc = "enter" /\ task'[t].ctx = a /\ task'[t].new = task[t].new
  BY <1>1, <1>2, <1>3, ZenonT(40) DEF TypeOK, TaskRec, Goto
<1>6. ASSUME NEW c \in 0 .. NCtx PROVE Refs(c)' \subseteq Refs(c) \ {<<t, "ctx">>}
  <2>1. \A u \in Task \ {t}, how \in Kinds : <<u, how>> \in Refs(c)' => <<u, how>> \in Refs(c)
    BY <1>5, RefsOfOthers, {t} \in SUBSET Task
  <2>2. <<t, "ctx">> \notin Refs(c)'
    BY <1>5, RefOf, Zenon
  <2>3. <<t, "new">> \in Refs(c)' => <<t, "new">> \in Refs(c)
    <3>1. <<t, "new">> \in Refs(c)' => task'[t].new = c
      BY RefOf, Zenon
    <3>2. task[t].new = c => <<t, "new">> \in Refs(c)
      BY <1>2, RefOf, Zenon
    <3> QED
      BY <1>5, <3>1, <3>2
  <2>4. \A u \in Task, how \in Kinds : <<u, how>> \in Refs(c)' => <<u, how>> \in Refs(c) \ {<<t, "ctx">>}
    BY <2>1, <2>2, <2>3, Zenon DEF Kinds
  <2> QED
    BY <2>4, RefsPairs, Zenon
<1> QED
  BY <1>1, <1>4, <1>5, <1>6, PutKeeps

\* task_init_exec: the reference of exec becomes the one of the task.
LEMMA TaskInitExecKeeps ==
  ASSUME Counting, IInv, NEW t \in Task, task_init_exec(t)
  PROVE  IInv'
<1>1. TypeOK /\ UNCHANGED <<page, ctx, cache, isem, next_pid>>
  BY DEF IInv, task_init_exec
<1>2. task[t] \in TaskRec /\ task[t] # NULL /\ task[t].pc = "enter"
  BY <1>1, SMTT(30) DEF task_init_exec, At, TypeOK
<1>3. PICK a : a = task[t].new
  OBVIOUS
<1>4. a \in 0 .. NCtx /\ <<t, "new">> \in Refs(a)
  <2>1. a # NULL
    BY <1>2, <1>3 DEF IInv, NewIsThere
  <2>2. a \in 0 .. NCtx
    BY <1>2, <1>3, <2>1 DEF TaskRec
  <2> QED
    BY <1>2, <1>3, <2>2, RefOf, Zenon
<1>5. ctx[a] # NULL
  BY <1>4 DEF IInv, CountCoversRefs
<1>6. PICK k : k = Ready(a, ctx[a].pgd, task[t].pid)
  BY SMTT(30)
<1>7. k \in TaskRec /\ k.pc = "user" /\ k.ctx = a
  <2>1. ctx[a].pgd \in Frames /\ task[t].pid \in Int
    BY <1>1, <1>2, <1>4, <1>5 DEF TypeOK, CtxRec, TaskRec
  <2> QED
    BY <1>4, <1>6, <2>1, ReadyTask, SMTT(30)
<1>8. task' = [task EXCEPT ![t] = k]
  BY <1>3, <1>6 DEF task_init_exec
<1>9. task' \in [Task -> TaskRec \cup {NULL}] /\ \A u \in Task \ {t} : task'[u] = task[u] /\ task'[t] = k
  BY <1>1, <1>7, <1>8 DEF TypeOK
<1>10. task'[t] = k
  BY <1>1, <1>8 DEF TypeOK
<1>11. TypeOK'
  BY <1>1, <1>9 DEF TypeOK
<1>12. ContextsOK'
  BY <1>1, <1>11, ContextsKept
<1>13. ASSUME NEW c \in 0 .. NCtx
       PROVE  /\ c = a => Refs(c)' \subseteq (Refs(c) \ {<<t, "new">>}) \cup {<<t, "ctx">>}
              /\ c # a => Refs(c)' \subseteq Refs(c)
  <2>1. \A u \in Task \ {t}, how \in Kinds : <<u, how>> \in Refs(c)' => <<u, how>> \in Refs(c)
    BY <1>9, RefsOfOthers, {t} \in SUBSET Task
  <2>2. <<t, "new">> \notin Refs(c)'
    BY <1>7, <1>10, RefOf, Zenon
  <2>3. <<t, "ctx">> \in Refs(c)' => c = a
    <3>1. <<t, "ctx">> \in Refs(c)' => task'[t].ctx = c
      BY RefOf, Zenon
    <3> QED
      BY <1>7, <1>10, <3>1
  <2>4. c = a => \A u \in Task, how \in Kinds : <<u, how>> \in Refs(c)' =>
                    <<u, how>> \in (Refs(c) \ {<<t, "new">>}) \cup {<<t, "ctx">>}
    BY <2>1, <2>2, <2>3, Zenon DEF Kinds
  <2>5. c # a => \A u \in Task, how \in Kinds : <<u, how>> \in Refs(c)' => <<u, how>> \in Refs(c)
    BY <2>1, <2>2, <2>3, Zenon DEF Kinds
  <2> QED
    BY <2>4, <2>5, RefsPairs, Zenon
<1>14. CountCoversRefs'
  <2>1. /\ Refs(a)' \subseteq (Refs(a) \ {<<t, "new">>}) \cup {<<t, "ctx">>}
        /\ \A c \in (0 .. NCtx) \ {a} : Refs(c)' \subseteq Refs(c)
    BY <1>4, <1>13
  <2> QED
    BY <1>1, <1>4, <1>11, <2>1, RefMoved
<1>15. \A u \in {t} : /\ task'[u].pc \in {"user", "task", "vmas", "commit", "enter"}
                      /\ task'[u].pc \in {"vmas", "commit", "enter"} => task'[u].new # NULL
  BY <1>7, <1>10, SMTT(30)
<1>16. /\ \A q \in Frames : page[q].use \in {"pgt", "anon", "read", "cache"} => Keeps(q)
       /\ \A q \in Frames, d \in Dirs : page'[q].pd[d] # NULL => \E f \in Frames : page[f].pd[d] = page'[q].pd[d]
       /\ \A q \in Frames, i \in Slots : page'[q].pt[i] # NULL => \E f \in Frames : page[f].pt[i] = page'[q].pt[i]
  BY <1>1, SMTT(30) DEF Keeps
<1>17. {t} \in SUBSET Task
  OBVIOUS
<1> QED
  BY <1>1, <1>9, <1>11, <1>12, <1>14, <1>15, <1>16, <1>17, ContextStep, Zenon

-----------------------------------------------------------------------------
(* The invariant.                                                          *)

\* The context of the kernel is counted for the idle task and for [init].
LEMMA InitHolds ==
  ASSUME Counting, Init
  PROVE  IInv
<1>1. PICK t \in Task : task = [u \in Task |-> IF u = t THEN Ready(Kernel, 0, 1) ELSE NULL]
  BY DEF Init
<1>2. Ready(Kernel, 0, 1) \in TaskRec /\ Ready(Kernel, 0, 1).pc = "user" /\ Ready(Kernel, 0, 1).ctx = 0
  <2>1. Kernel = 0 /\ 0 \in 0 .. NCtx /\ 0 \in Frames /\ 1 \in Int
    BY SizesAssumption DEF Kernel, Frames
  <2> QED
    BY <2>1, ReadyTask
<1>3. /\ task \in [Task -> TaskRec \cup {NULL}] /\ \A u \in Task : u # t => task[u] = NULL
      /\ task[t].pc = "user" /\ task[t].ctx = 0
  BY <1>1, <1>2
<1>4. /\ page \in [Frames -> PageRec] /\ page[0].use = "pgd"
      /\ \A p \in Frames : /\ \A d \in Dirs : page[p].pd[d] = NULL
                           /\ \A k \in Slots : page[p].pt[k] = NULL
  <2>1. PICK g : g = [Empty EXCEPT !.use = "pgd", !.count = 1]
    OBVIOUS
  <2>2. g \in PageRec /\ g.use = "pgd" /\ g.pd = Empty.pd /\ g.pt = Empty.pt
    BY <2>1, EmptyPage, Zenon DEF PageRec
  <2>3. page = [p \in Frames |-> IF p = 0 THEN g ELSE Empty]
    BY <2>1 DEF Init, Frames
  <2>4. 0 \in Frames
    BY DEF Frames
  <2> QED
    BY <2>2, <2>3, <2>4, EmptyPage
<1>5. /\ ctx \in [0 .. NCtx -> CtxRec \cup {NULL}] /\ \A c \in 0 .. NCtx : c # 0 => ctx[c] = NULL
      /\ ctx[0] # NULL /\ ctx[0].pgd = 0 /\ ctx[0].count = 2
  <2>1. PICK k : k = [vmas |-> {}, freed |-> FALSE, pgd |-> 0, count |-> 2]
    BY Zenon
  <2>2. k \in CtxRec /\ k.pgd = 0 /\ k.count = 2
    BY <2>1 DEF CtxRec, Frames
  <2>3. k # NULL /\ 0 \in 0 .. NCtx
    BY <2>2, NullAssumption, SizesAssumption
  <2>4. ctx = [c \in 0 .. NCtx |-> IF c = 0 THEN k ELSE NULL]
    BY <2>1 DEF Init
  <2> QED
    BY <2>2, <2>3, <2>4
<1>6. TypeOK
  BY <1>3, <1>4, <1>5 DEF Init, TypeOK
<1>7. PointersOK /\ ContextsOK /\ OnePagePerOffset
  BY <1>4, <1>5, ZenonT(40) DEF Init, PointersOK, ContextsOK, OnePagePerOffset
<1>8. NewIsThere /\ \A u \in Task : task[u] # NULL => InHand(u)
  BY <1>3 DEF NewIsThere, InHand
<1>9. ASSUME NEW c \in 0 .. NCtx
      PROVE  IF ctx[c] = NULL THEN Refs(c) = {} ELSE Cardinality(Refs(c)) <= ctx[c].count
  <2>1. \A r \in Refs(c) : r = <<t, "ctx">> /\ c = 0
    BY <1>3 DEF Refs, Refers
  <2>2. CASE c # 0
    BY <1>5, <2>1, <2>2
  <2>3. CASE c = 0
    <3>1. {} \in SUBSET (Task \X Kinds) /\ Refs(c) \subseteq {} \cup {<<t, "ctx">>}
      BY <2>1
    <3>2. Cardinality({}) = 0
      BY <3>1 DEF Counting
    <3>3. Cardinality(Refs(c)) <= Cardinality({}) + 1
      BY <3>1, RefsCounted, Zenon DEF Counting
    <3> QED
      BY <1>5, <2>3, <3>2, <3>3, RefsCounted
  <2> QED
    BY <2>2, <2>3
<1> QED
  BY <1>6, <1>7, <1>8, <1>9 DEF IInv, CountCoversRefs

\* No step of any task breaks it.
LEMMA NextKeeps ==
  ASSUME Counting, IInv, [Next]_vars
  PROVE  IInv'
<1>1. ASSUME NEW t \in Task, sched(t)
      PROVE  IInv'
  BY <1>1, NothingChanges DEF sched
<1>2. CASE UNCHANGED vars
  BY <1>2, NothingChanges DEF vars
<1>3. CASE Next
  <2>1. PICK t \in Task :
          \/ sched(t)
          \/ mm_pagefault(t) \/ FaultFails(t) \/ anon(t) \/ readpage(t) \/ pread(t)
          \/ map_page_to_ctx(t) \/ map_pde(t) \/ map_pte(t)
          \/ (\E flags \in ForkFlags : fork(t, flags)) \/ pid_alloc(t) \/ fork_mm(t) \/ fork_task(t)
          \/ exec(t) \/ exec_vmas(t) \/ exec_commit(t) \/ task_init_exec(t)
    BY <1>3 DEF Next
  <2> QED
    BY SMTT(30), <1>1, <2>1, MmPagefaultKeeps, FaultFailsKeeps, AnonKeeps, ReadpageKeeps, PreadKeeps, MapPageKeeps,
       MapPdeKeeps, MapPteKeeps, ForkKeeps, PidAllocKeeps, ForkMmKeeps, ForkTaskKeeps, ExecKeeps,
       ExecVmasKeeps, ExecCommitKeeps, TaskInitExecKeeps
<1> QED
  BY <1>2, <1>3

-----------------------------------------------------------------------------
INSTANCE FiniteSetTheorems

\* There are finitely many tasks, so finitely many references.
LEMMA KindsFinite == IsFiniteSet(Task \X Kinds)
<1>1. IsFiniteSet({"ctx"}) /\ Kinds = {"ctx"} \cup {"new"}
  BY FS_Singleton DEF Kinds
<1>2. IsFiniteSet(Kinds)
  BY <1>1, FS_AddElement
<1> QED
  BY <1>2, SizesAssumption, FS_Product

\* How the sizes of sets of references compare.
LEMMA CountingHolds == Counting
<1> SUFFICES ASSUME NEW S \in SUBSET (Task \X Kinds), NEW T \in SUBSET (Task \X Kinds)
             PROVE  /\ Cardinality(S) \in Nat /\ (Cardinality(S) = 0 <=> S = {})
                    /\ T \subseteq S => Cardinality(T) <= Cardinality(S)
                    /\ \A x : T \subseteq S \cup {x} => Cardinality(T) <= Cardinality(S) + 1
                    /\ \A x \in S : T \subseteq S \ {x} => Cardinality(T) + 1 <= Cardinality(S)
  BY Zenon DEF Counting
<1>3. IsFiniteSet(S) /\ IsFiniteSet(T)
  BY KindsFinite, FS_Subset
<1>4. Cardinality(S) \in Nat /\ Cardinality(T) \in Nat
  BY <1>3, FS_CardinalityType
<1>5. Cardinality(S) = 0 <=> S = {}
  BY <1>3, FS_EmptySet
<1>6. T \subseteq S => Cardinality(T) <= Cardinality(S)
  BY <1>3, FS_Subset
<1>7. ASSUME NEW x, T \subseteq S \cup {x} PROVE Cardinality(T) <= Cardinality(S) + 1
  <2>1. IsFiniteSet(S \cup {x}) /\ Cardinality(S \cup {x}) = IF x \in S THEN Cardinality(S) ELSE Cardinality(S) + 1
    BY <1>3, FS_AddElement
  <2>2. Cardinality(T) <= Cardinality(S \cup {x})
    BY <1>7, <2>1, FS_Subset, SMTT(30)
  <2> QED
    BY <1>4, <2>1, <2>2, SMTT(30)
<1>8. ASSUME NEW x \in S, T \subseteq S \ {x} PROVE Cardinality(T) + 1 <= Cardinality(S)
  <2>1. IsFiniteSet(S \ {x}) /\ Cardinality(S \ {x}) = Cardinality(S) - 1
    BY <1>3, FS_RemoveElement, SMTT(30)
  <2>2. Cardinality(T) <= Cardinality(S \ {x})
    BY <1>8, <2>1, FS_Subset
  <2> QED
    BY <1>4, <2>1, <2>2, SMTT(30)
<1> QED
  BY <1>4, <1>5, <1>6, <1>7, <1>8, SMTT(30)

\* The invariant holds in every state, for any tasks, programs, and sizes of
\* pages, page tables and memory.
THEOREM InvariantHolds == Spec => []IInv
<1>1. Init => IInv
  BY InitHolds, CountingHolds
<1>2. IInv /\ [Next]_vars => IInv'
  BY NextKeeps, CountingHolds
<1> QED
  BY <1>1, <1>2, PTL DEF Spec

\* The page cache never has two pages of one offset, however the faults of
\* tasks that miss the same page interleave: i_sem is held from the look-up
\* to the insertion of the page (readpage, pread).
THEOREM PageCacheIsSound == Spec => []OnePagePerOffset
<1>1. IInv => OnePagePerOffset
  BY DEF IInv
<1> QED
  BY <1>1, InvariantHolds, PTL

\* No directory, page table or context refers to a page that was given back,
\* whatever fork shares, exec drops and page faults map in between.
THEOREM MappingsAreSound == Spec => []NoFreePageMapped
<1>1. ASSUME IInv PROVE NoFreePageMapped
  <2>1. TypeOK /\ PointersOK /\ ContextsOK
    BY <1>1, SMTT(30) DEF IInv
  <2> SUFFICES ASSUME NEW c \in Live
               PROVE  /\ page[ctx[c].pgd].use = "pgd"
                      /\ \A d \in Dirs : page[ctx[c].pgd].pd[d] \in {NULL} \cup {p \in Pages : page[p].use = "pgt"}
                      /\ \A va \in Vpages : Pte(c, va) # NULL => page[Pte(c, va).page].use \in {"anon", "cache"}
    BY DEF NoFreePageMapped
  <2>2. PICK g : g = ctx[c].pgd
    OBVIOUS
  <2>3. g \in Frames /\ page[g].use = "pgd"
    BY <2>1, <2>2, SMTT(30) DEF Live, TypeOK, CtxRec, ContextsOK
  <2>4. \A d \in Dirs : page[g].pd[d] # NULL => page[g].pd[d] \in Pages /\ page[page[g].pd[d]].use = "pgt"
    BY <2>1, <2>3, SMTT(30) DEF TypeOK, PageRec, PointersOK
  <2>5. ASSUME NEW va \in Vpages, Pte(c, va) # NULL
        PROVE  page[Pte(c, va).page].use \in {"anon", "cache"}
    <3>1. dir(va) \in Dirs /\ tbl(va) \in Slots
      BY Indices DEF Vpages
    <3>2. PICK q : q = page[g].pd[dir(va)]
      OBVIOUS
    <3>3. q # NULL /\ Pte(c, va) = page[q].pt[tbl(va)]
      BY <2>2, <2>5, <3>2, ZenonT(40) DEF Pte
    <3>4. q \in Frames
      BY <2>4, <3>1, <3>2, <3>3, Zenon DEF Frames
    <3> QED
      BY <2>1, <2>5, <3>1, <3>3, <3>4, Zenon DEF PointersOK
  <2> QED
    BY <2>2, <2>3, <2>4, <2>5, Zenon
<1> QED
  BY <1>1, InvariantHolds, PTL

\* A context has a reference counted for every task that works in it and for
\* every fork or exec that is making one, so that mem_ctx_put never frees it
\* under a task: exec drops the old context only with the reference of its task.
THEOREM ContextsAreCounted == Spec => []CountCoversTasks
<1>1. ASSUME IInv PROVE CountCoversTasks
  <2> SUFFICES ASSUME NEW c \in Live \cup {0}
               PROVE  Cardinality({t \in Task : task[t] # NULL /\ task[t].ctx = c /\ task[t].pc # "enter"})
                        <= (IF ctx[c] = NULL THEN 0 ELSE ctx[c].count)
    BY DEF CountCoversTasks
  <2>1. PICK S : S = {t \in Task : task[t] # NULL /\ task[t].ctx = c /\ task[t].pc # "enter"}
    OBVIOUS
  <2>2. PICK f : f = [t \in S |-> <<t, "ctx">>]
    OBVIOUS
  <2>3. \A t \in S : <<t, "ctx">> \in Refs(c)
    BY <2>1 DEF Refs, Refers
  <2>4. f \in Injection(S, Refs(c))
    BY <2>2, <2>3 DEF Injection, IsInjective
  <2>6. IsFiniteSet(Refs(c))
    BY KindsFinite, FS_Subset, RefsCounted, CountingHolds
  <2>7. IsFiniteSet(S) /\ Cardinality(S) <= Cardinality(Refs(c))
    BY <2>4, <2>6, FS_Injection
  <2>8. Cardinality(S) \in Nat /\ Cardinality(Refs(c)) \in Nat
    BY <2>6, <2>7, FS_CardinalityType
  <2>9. c \in 0 .. NCtx
    BY SizesAssumption DEF Live
  <2>10. CASE ctx[c] = NULL
    <3>1. Refs(c) = {}
      BY <1>1, <2>9, <2>10 DEF IInv, CountCoversRefs
    <3>2. S = {}
      BY <2>3, <3>1
    <3> QED
      BY <2>1, <2>10, <3>2, FS_EmptySet
  <2>11. CASE ctx[c] # NULL
    <3>1. Cardinality(Refs(c)) <= ctx[c].count /\ ctx[c].count \in Nat
      BY <1>1, <2>9, <2>11 DEF IInv, CountCoversRefs, TypeOK, CtxRec
    <3> QED
      BY <2>1, <2>7, <2>8, <2>11, <3>1
  <2> QED
    BY <2>10, <2>11
<1> QED
  BY <1>1, InvariantHolds, PTL
====
