-------------------------------- MODULE Slab --------------------------------
(***************************************************************************)
(* One cache of the slab allocator (kernel/memchunk.c), used by several    *)
(* preemptible tasks.                                                      *)
(*                                                                         *)
(* Memory is counted in objects.  Page p starts at address p * Stride and  *)
(* has room for o_num objects; Stride = o_num when the object size divides *)
(* the page size, as it does in every kmalloc cache.  Addresses start at   *)
(* page 1, so that 0 can stand for the null pointer as it does in C.       *)
(*                                                                         *)
(* memsem is a lock: the work under it is done by one task at a time, but  *)
(* interrupts are on, so a task that reads the cache without it sees the   *)
(* steps of the one that holds it.  An action ends where such a reader     *)
(* could tell the difference.  list_move and list_del are single steps.    *)
(***************************************************************************)
EXTENDS Integers, Sequences, FiniteSets, Functions

CONSTANTS
  Task,     \* tasks that use the cache
  NPages,   \* pages the page allocator can give
  o_num,    \* objects in a page
  Stride,   \* size of a page, in objects
  NULL      \* no chunk

Page == 1 .. NPages

ASSUME SlabAssumption ==
  /\ NPages \in Nat \ {0}
  /\ o_num \in Nat \ {0}
  /\ Stride \in Nat
  /\ Stride >= o_num
  /\ NULL \notin Page \cup Task

VARIABLES
  free_pages,  \* pages of the page allocator
  o_ptr,       \* next fresh object
  o_ptr_end,   \* the byte after the last object of the current chunk
  o_cur,       \* freshest chunk
  o_partials,  \* chunks with a free list, first one first
  o_full,      \* full chunks
  free_list,   \* free objects of each chunk, last freed first
  inuse,       \* objects of each chunk that are handed out
  memsem,      \* the task that holds the semaphore, or NULL
  live,        \* objects handed out that nobody is freeing
  pc,          \* control point of each task
  obj,         \* the object a task allocates or frees
  chk,         \* cursor of slab_is_on
  bug          \* the BUG_ON that fired

cache == <<o_ptr, o_ptr_end, o_cur, o_partials, o_full, free_list, inuse>>
vars == <<free_pages, cache, memsem, live, pc, obj, chk, bug>>

Start(p) == p * Stride
Objects(p) == {Start(p) + i : i \in 0 .. o_num - 1}
Addr == UNION {Objects(p) : p \in Page}

\* virt_to_page: the chunk an object lies in.
virt_to_page(a) == CHOOSE p \in Page : a \in Objects(p)

Chunks == Page \ free_pages

(***************************************************************************)
(* Control points of a task.                                               *)
(*   out        outside the allocator                                      *)
(*   alloc      in do_alloc, past sem_P                                    *)
(*   slow       in alloc_slow, o_ptr set and o_ptr_end not yet             *)
(*   fast       in alloc_slow, about to call alloc_fast                    *)
(*   allocated  in do_alloc, before sem_V                                  *)
(*   partials   objcache_free looks for the chunk on o_partials            *)
(*   full       ... on o_full                                              *)
(*   ptr        in do_cache_free, before the tests of inuse and o_ptr      *)
(*   ptr_end    between reading o_ptr and reading o_ptr_end                *)
(*   wait       before sem_P in do_cache_free                              *)
(*   free       past it                                                    *)
(*   put        the chunk is unlinked and its page still to be freed       *)
(*   freed      before sem_V                                               *)
(***************************************************************************)
PCs == {"out", "alloc", "slow", "fast", "allocated", "partials", "full",
        "ptr", "ptr_end", "wait", "free", "put", "freed"}

Goto(t, l) == pc' = [pc EXCEPT ![t] = l]

At(t, l) == bug = "none" /\ pc[t] = l

-----------------------------------------------------------------------------
(***************************************************************************)
(* Allocation.                                                             *)
(***************************************************************************)

\* list_del and list_move to the front of a list, for a chunk that is on s or not.
list_del(s, c) ==
  IF c \notin Range(s) THEN s
  ELSE LET i == CHOOSE i \in DOMAIN s : s[i] = c
       IN  SubSeq(s, 1, i - 1) \o SubSeq(s, i + 1, Len(s))

list_move(c, s) == <<c>> \o list_del(s, c)

\* do_alloc looks at the first partial chunk only.
HasPartial == o_partials # <<>> /\ free_list[Head(o_partials)] # <<>>

\* ... then at what is left of the current one.
HasFresh == o_ptr + 1 <= o_ptr_end

\* sem_P(&memsem) in do_alloc.
alloc_P(t) ==
  /\ At(t, "out")
  /\ memsem = NULL
  /\ memsem' = t
  /\ Goto(t, "alloc")
  /\ UNCHANGED <<free_pages, cache, live, obj, chk, bug>>

\* The object comes off the free list of the first partial chunk, which is full
\* now if that was the last one and it is not the current chunk.
Emptied_any(c) == Len(free_list[c]) = 1
Emptied(c) == Len(free_list[c]) = 1 /\ c # o_cur

alloc_from_partial(t) ==
  LET c == Head(o_partials) IN
  /\ At(t, "alloc")
  /\ HasPartial
  /\ obj' = [obj EXCEPT ![t] = Head(free_list[c])]
  /\ free_list' = [free_list EXCEPT ![c] = Tail(@)]
  /\ inuse' = [inuse EXCEPT ![c] = @ + 1]
  /\ IF Emptied(c)
     THEN /\ o_full' = list_move(c, o_full)
          /\ o_partials' = list_del(o_partials, c)
     ELSE UNCHANGED <<o_partials, o_full>>
  /\ Goto(t, "allocated")
  /\ UNCHANGED <<free_pages, o_ptr, o_ptr_end, o_cur, memsem, live, chk, bug>>

\* alloc_fast: the next fresh object of the current chunk, which is current no
\* longer when this fills it.
Filled_late == inuse[o_cur] = o_num /\ free_list[o_cur] = <<>>
Filled == inuse[o_cur] + 1 = o_num /\ free_list[o_cur] = <<>>

NextFresh_same == o_ptr
NextFresh == o_ptr + 1

alloc_fast(t) ==
  /\ \/ At(t, "alloc") /\ ~HasPartial /\ HasFresh
     \/ At(t, "fast")
  /\ obj' = [obj EXCEPT ![t] = o_ptr]
  /\ o_ptr' = NextFresh
  /\ inuse' = [inuse EXCEPT ![o_cur] = @ + 1]
  /\ IF Filled
     THEN /\ o_full' = list_move(o_cur, o_full)
          /\ o_partials' = list_del(o_partials, o_cur)
          /\ o_cur' = NULL
     ELSE UNCHANGED <<o_partials, o_full, o_cur>>
  /\ Goto(t, "allocated")
  /\ UNCHANGED <<free_pages, o_ptr_end, free_list, memsem, live, chk, bug>>

\* memchunk_get takes a page, whichever the allocator has first; BUG_ON when there
\* is none.
memchunk_get(p) == free_pages' = free_pages \ {p}

alloc_slow(t) ==
  /\ At(t, "alloc")
  /\ ~HasPartial
  /\ ~HasFresh
  /\ \/ /\ free_pages = {}
        /\ bug' = "out of memory"
        /\ UNCHANGED <<free_pages, o_cur, o_ptr, pc>>
     \/ \E p \in free_pages :
        /\ memchunk_get(p)
        /\ o_cur' = p
        /\ o_ptr' = Start(p)
        /\ Goto(t, "slow")
        /\ UNCHANGED bug
  /\ UNCHANGED <<o_ptr_end, o_partials, o_full, free_list, inuse, memsem, live,
                 obj, chk>>

alloc_slow_init(t) ==
  /\ At(t, "slow")
  /\ o_ptr_end' = o_ptr + o_num
  /\ free_list' = [free_list EXCEPT ![o_cur] = <<>>]
  /\ inuse' = [inuse EXCEPT ![o_cur] = 0]
  /\ Goto(t, "fast")
  /\ UNCHANGED <<free_pages, o_ptr, o_cur, o_partials, o_full, memsem, live, obj,
                 chk, bug>>

alloc_V(t) ==
  /\ At(t, "allocated")
  /\ memsem' = NULL
  /\ live' = live \cup {obj[t]}
  /\ obj' = [obj EXCEPT ![t] = 0]
  /\ Goto(t, "out")
  /\ UNCHANGED <<free_pages, cache, chk, bug>>

-----------------------------------------------------------------------------
(***************************************************************************)
(* Freeing.  Up to sem_P nothing is locked.                                *)
(***************************************************************************)

\* Nodes a list walk can be at: a chunk, or the head of a list.
partials_head == 0
full_head == NPages + 1
Node == Page \cup {partials_head, full_head}

\* The node after n.  A chunk on neither list points to itself, as INIT_LIST_HEAD
\* leaves it in list_del and alloc_slow; the free list of the page allocator uses
\* other words of the page descriptor.
NextNode(n) ==
  LET after(ring) == {ring[(i % Len(ring)) + 1] :
                        i \in {j \in DOMAIN ring : ring[j] = n}}
      linked == after(<<partials_head>> \o o_partials)
                  \cup after(<<full_head>> \o o_full)
  IN  IF linked = {} THEN n ELSE CHOOSE m \in linked : TRUE

\* objcache_free(a) tests whether the chunk is the current one, and otherwise
\* starts to look for it on the lists.
objcache_free(t) ==
  /\ At(t, "out")
  /\ \E a \in live :
     /\ live' = live \ {a}
     /\ obj' = [obj EXCEPT ![t] = a]
     /\ Goto(t, IF virt_to_page(a) = o_cur THEN "ptr" ELSE "partials")
  /\ UNCHANGED <<free_pages, cache, memsem, chk, bug>>

\* One round of slab_is_on: the chunk is found, or the cursor moves on.
slab_is_on(t, head) ==
  LET n == NextNode(chk[t]) IN
    \/ /\ n = virt_to_page(obj[t])
       /\ Goto(t, "ptr")
       /\ chk' = [chk EXCEPT ![t] = partials_head]
    \/ /\ n \notin {head, virt_to_page(obj[t])}
       /\ chk' = [chk EXCEPT ![t] = n]
       /\ UNCHANGED pc

\* The walk over o_partials; at its end the one over o_full begins.
is_on_partials(t) ==
  /\ At(t, "partials")
  /\ \/ slab_is_on(t, partials_head)
     \/ /\ NextNode(chk[t]) = partials_head
        /\ Goto(t, "full")
        /\ chk' = [chk EXCEPT ![t] = full_head]
  /\ UNCHANGED <<free_pages, cache, memsem, live, obj, bug>>

\* The walk over o_full; at its end the chunk is nowhere, BUG_ON.
is_on_full(t) ==
  /\ At(t, "full")
  /\ \/ slab_is_on(t, full_head) /\ UNCHANGED bug
     \/ /\ NextNode(chk[t]) = full_head
        /\ bug' = "not on a list"
        /\ UNCHANGED <<pc, chk>>
  /\ UNCHANGED <<free_pages, cache, memsem, live, obj>>

\* The tests at the start of do_cache_free.  The third one reads o_ptr and then,
\* if need be, o_ptr_end.
free_tests(t) ==
  LET n == inuse[virt_to_page(obj[t])] IN
  /\ At(t, "ptr")
  /\ bug' = IF n = 0 \/ n > o_num THEN "bad count" ELSE bug
  /\ Goto(t, IF obj[t] >= o_ptr THEN "ptr_end" ELSE "wait")
  /\ UNCHANGED <<free_pages, cache, memsem, live, obj, chk>>

free_tests_end(t) ==
  /\ At(t, "ptr_end")
  /\ bug' = IF obj[t] <= o_ptr_end THEN "never allocated" ELSE bug
  /\ Goto(t, "wait")
  /\ UNCHANGED <<free_pages, cache, memsem, live, obj, chk>>

\* sem_P(&memsem), then the search of the free list for the object.
free_P(t) ==
  /\ At(t, "wait")
  /\ memsem = NULL
  /\ memsem' = t
  /\ bug' = IF obj[t] \in Range(free_list[virt_to_page(obj[t])])
            THEN "double free" ELSE bug
  /\ Goto(t, "free")
  /\ UNCHANGED <<free_pages, cache, live, obj, chk>>

\* --inuse, and the test for the last object of a chunk.
Dropped_not(c) == inuse[c]
Dropped(c) == inuse[c] - 1

IsLast_early(c) == Dropped(c) <= 1
IsLast(c) == Dropped(c) = 0

\* The object goes to the free list of its chunk; the chunk becomes a partial one
\* with its first free object and is unlinked with its last.
do_cache_free(t) ==
  LET a == obj[t]
      c == virt_to_page(a)
      first == free_list[c] = <<>>
      partials == IF first THEN list_move(c, o_partials) ELSE o_partials
  IN
  /\ At(t, "free")
  /\ bug' = IF first /\ c # o_cur /\ inuse[c] # o_num THEN "not full" ELSE bug
  /\ free_list' = [free_list EXCEPT ![c] = <<a>> \o @]
  /\ inuse' = [inuse EXCEPT ![c] = Dropped(c)]
  /\ o_partials' = IF IsLast(c) THEN list_del(partials, c) ELSE partials
  /\ o_full' = IF first THEN list_del(o_full, c) ELSE o_full
  /\ Goto(t, IF IsLast(c) THEN "put" ELSE "freed")
  /\ UNCHANGED <<free_pages, o_ptr, o_ptr_end, o_cur, memsem, live, obj, chk>>

\* The chunk is current no longer, and memchunk_put frees its page.  Its header
\* is in the page's descriptor and goes with it.
memchunk_put(c) ==
  /\ free_pages' = free_pages \cup {c}
  /\ free_list' = [free_list EXCEPT ![c] = <<>>]

cache_free_last(t) ==
  LET c == virt_to_page(obj[t]) IN
  /\ At(t, "put")
  /\ IF o_cur = c
     THEN o_cur' = NULL /\ o_ptr' = 0 /\ o_ptr_end' = 0
     ELSE UNCHANGED <<o_cur, o_ptr, o_ptr_end>>
  /\ memchunk_put(c)
  /\ Goto(t, "freed")
  /\ UNCHANGED <<o_partials, o_full, inuse, memsem, live, obj, chk, bug>>

free_V(t) ==
  /\ At(t, "freed")
  /\ memsem' = NULL
  /\ obj' = [obj EXCEPT ![t] = 0]
  /\ Goto(t, "out")
  /\ UNCHANGED <<free_pages, cache, live, chk, bug>>

\* A BUG_ON has fired: panic() halts the machine.
halted ==
  /\ bug # "none"
  /\ UNCHANGED vars

-----------------------------------------------------------------------------
\* do_cache_init.
Init ==
  /\ free_pages = Page
  /\ o_ptr = 0 /\ o_ptr_end = 0
  /\ o_cur = NULL
  /\ o_partials = <<>> /\ o_full = <<>>
  /\ free_list = [p \in Page |-> <<>>]
  /\ inuse = [p \in Page |-> 0]
  /\ memsem = NULL
  /\ live = {}
  /\ pc = [t \in Task |-> "out"]
  /\ obj = [t \in Task |-> 0]
  /\ chk = [t \in Task |-> partials_head]
  /\ bug = "none"

AllocStep(t) ==
  \/ alloc_P(t)
  \/ alloc_from_partial(t)
  \/ alloc_fast(t)
  \/ alloc_slow(t)
  \/ alloc_slow_init(t)
  \/ alloc_V(t)

FreeStep(t) ==
  \/ objcache_free(t)
  \/ is_on_partials(t)
  \/ is_on_full(t)
  \/ free_tests(t)
  \/ free_tests_end(t)
  \/ free_P(t)
  \/ do_cache_free(t)
  \/ cache_free_last(t)
  \/ free_V(t)

Next ==
  \/ \E t \in Task : AllocStep(t) \/ FreeStep(t)
  \/ halted

Spec == Init /\ [][Next]_vars

-----------------------------------------------------------------------------
\* The values the variables take.
TypeOK ==
  /\ free_pages \subseteq Page
  /\ o_ptr \in Nat /\ o_ptr_end \in Nat
  /\ o_cur \in Page \cup {NULL}
  /\ o_partials \in Seq(Page) /\ o_full \in Seq(Page)
  /\ free_list \in [Page -> Seq(Addr)]
  /\ inuse \in [Page -> 0 .. o_num]
  /\ memsem \in Task \cup {NULL}
  /\ live \subseteq Addr
  /\ pc \in [Task -> PCs]
  /\ obj \in [Task -> Addr \cup {0}]
  /\ chk \in [Task -> Node]
  /\ bug \in {"none", "out of memory", "not on a list", "bad count",
              "never allocated", "double free", "not full"}

\* Objects of chunk c that have never been handed out.
Fresh(c) == IF c = o_cur THEN {a \in Objects(c) : a >= o_ptr} ELSE {}

\* Objects handed out or on their way to or from a user.
Used == live \cup {obj[t] : t \in {u \in Task : pc[u] \notin {"out", "put", "freed"}}}

\* Between two operations a chunk is where its contents say: on o_full when every
\* object is in use, on o_partials when it has a free list; only the current chunk
\* may be on o_partials without one, or on no list.  The code decides each move
\* from inuse, free_list and o_cur alone.
ListsMatch ==
  memsem = NULL /\ bug = "none" =>
    /\ IsInjective(o_partials) /\ IsInjective(o_full)
    /\ Range(o_full) = {c \in Chunks : c # o_cur /\ free_list[c] = <<>>}
    /\ Range(o_partials) \ {o_cur} = {c \in Chunks \ {o_cur} : free_list[c] # <<>>}
    /\ o_cur # NULL => (free_list[o_cur] # <<>> => o_cur \in Range(o_partials))
    /\ o_cur # NULL <=> o_ptr < o_ptr_end

\* Every object of a chunk is in one place: in use, on the chunk's free list once,
\* or fresh; inuse counts the first.  No object is handed out twice or lost.
ObjectsOnce ==
  memsem = NULL /\ bug = "none" =>
    \A c \in Chunks :
      LET used == Used \cap Objects(c) IN
      /\ IsInjective(free_list[c])
      /\ inuse[c] = Cardinality(used) /\ inuse[c] > 0
      /\ used \cap Range(free_list[c]) = {}
      /\ used \cap Fresh(c) = {}
      /\ Range(free_list[c]) \cap Fresh(c) = {}
      /\ used \cup Range(free_list[c]) \cup Fresh(c) = Objects(c)

\* A user's object lies in a page that belongs to the cache: no chunk is given
\* back to the page allocator while one of its objects is in use.
UsedPagesKept == \A a \in Used \ {0} : virt_to_page(a) \notin free_pages

\* A page is taken from the page allocator only when the cache has no free object:
\* the look at the first partial chunk alone never misses one.
TakesPageOnlyWhenFull ==
  [][free_pages' \subseteq free_pages /\ free_pages' # free_pages =>
       \A c \in Chunks : free_list[c] = <<>> /\ Fresh(c) = {}]_vars

\* No BUG_ON fires, except for want of a page.
NoBug == bug \in {"none", "out of memory"}

\* What BUG_ON(obj >= o_ptr && obj <= o_ptr_end) asserts: an object that is freed
\* is not one that has never been handed out.
FreesWhatWasAllocated == bug # "never allocated"

\* What the BUG_ON in objcache_free asserts: the chunk of an object that is in use
\* is the current one or on one of the lists.
ChunkIsSomewhere == bug # "not on a list"

-----------------------------------------------------------------------------
(***************************************************************************)
(* The inductive invariant: what ListsMatch and ObjectsOnce say between    *)
(* two operations, adjusted to every point inside one.                     *)
(***************************************************************************)

\* The points between sem_P and sem_V.
Locked == {"alloc", "slow", "fast", "allocated", "free", "put", "freed"}

\* The points where a task has no object in hand.
Without == {"out", "alloc", "slow", "fast"}

LockInv == \A t \in Task : pc[t] \in Locked <=> memsem = t

\* An object is in one task's hands, or handed out.
HandsInv ==
  /\ \A t \in Task : pc[t] \in Without => obj[t] = 0
  /\ \A t \in Task : pc[t] \notin Without => obj[t] \in Addr \ live
  /\ \A t, u \in Task : t # u /\ obj[t] = obj[u] => obj[t] = 0

\* A chunk alloc_slow has just taken, and one unlinked but not yet given back.
IsNew(c) == c = o_cur /\ \E t \in Task : pc[t] \in {"slow", "fast"}
IsUnlinked(c) == \E t \in Task : pc[t] = "put" /\ virt_to_page(obj[t]) = c

UsedOf(c) == Used \cap Objects(c)

\* The objects of each page, and the count of those in use.
PageInv(c) ==
  /\ IsInjective(free_list[c])
  /\ inuse[c] = Cardinality(UsedOf(c))
  /\ UsedOf(c) \cap Range(free_list[c]) = {}
  /\ UsedOf(c) \cap Fresh(c) = {}
  /\ Range(free_list[c]) \cap Fresh(c) = {}
  /\ UsedOf(c) \cup Range(free_list[c]) \cup Fresh(c) =
       IF c \in Chunks THEN Objects(c) ELSE {}
  /\ c \in Chunks => (inuse[c] = 0 <=> IsNew(c) \/ IsUnlinked(c))

\* The fresh objects of the current chunk.
CurInv ==
  /\ o_cur = NULL => o_ptr_end <= o_ptr
  /\ o_cur # NULL => o_cur \in Chunks /\ Start(o_cur) <= o_ptr
  /\ \A t \in Task : pc[t] \in {"slow", "fast"} =>
       o_cur # NULL /\ o_ptr = Start(o_cur) /\ free_list[o_cur] = <<>>
  /\ o_cur # NULL /\ (\A t \in Task : pc[t] # "slow") =>
       o_ptr_end = Start(o_cur) + o_num /\ o_ptr < o_ptr_end

\* Where each chunk is linked.
ListInv(c) ==
  /\ c \in Range(o_full) <=> c \in Chunks /\ c # o_cur /\ free_list[c] = <<>>
  /\ c # o_cur => (c \in Range(o_partials) <=>
                     c \in Chunks /\ ~IsUnlinked(c) /\ free_list[c] # <<>>)
  /\ IsUnlinked(c) => c \notin Range(o_partials) /\ free_list[c] # <<>> /\ c \in Chunks
  /\ c = o_cur /\ ~IsUnlinked(c) /\ free_list[c] # <<>> => c \in Range(o_partials)

\* The BUG_ONs under the semaphore, and those of the counts, never fire.
BugInv == bug \in {"none", "out of memory", "not on a list", "never allocated"}

PagesInv == \A c \in Page : PageInv(c)
ListsInv == IsInjective(o_partials) /\ IsInjective(o_full) /\ \A c \in Page : ListInv(c)

IInv == TypeOK /\ LockInv /\ HandsInv /\ PagesInv /\ CurInv /\ ListsInv /\ BugInv
=============================================================================
