-------------------------- MODULE SlabAllocProofs --------------------------
(***************************************************************************)
(* Proofs about the slab allocator, for any number of tasks and pages and  *)
(* any number of objects in a page: the lemmas, and that each step of      *)
(* objcache_alloc keeps the invariant.                                     *)
(***************************************************************************)
EXTENDS Slab, QueueLemmas

-----------------------------------------------------------------------------
(* Addresses.                                                              *)

\* The objects of a page lie between its start and its end.
LEMMA ObjectsOf ==
  ASSUME NEW p \in Page
  PROVE  /\ Start(p) \in Nat /\ Start(p) > 0
         /\ Objects(p) \subseteq Nat \ {0}
         /\ \A a \in Nat : a \in Objects(p) <=> Start(p) <= a /\ a < Start(p) + o_num
         /\ Start(p) \in Objects(p)
<1>1. Start(p) \in Nat /\ Start(p) > 0
  BY SlabAssumption DEF Page, Start
<1>2. o_num \in Nat /\ o_num > 0
  BY SlabAssumption
<1> HIDE DEF Start
<1>3. Objects(p) \subseteq Nat \ {0}
  BY <1>1, <1>2 DEF Objects
<1>4. ASSUME NEW a \in Nat, Start(p) <= a, a < Start(p) + o_num
      PROVE  a \in Objects(p)
  <2>1. a - Start(p) \in 0 .. o_num - 1 /\ a = Start(p) + (a - Start(p))
    BY <1>1, <1>2, <1>4
  <2>2. \E i \in 0 .. o_num - 1 : a = Start(p) + i
    BY <2>1
  <2> QED
    BY <2>2, Zenon DEF Objects
<1>5. ASSUME NEW a \in Objects(p)
      PROVE  Start(p) <= a /\ a < Start(p) + o_num
  BY <1>1, <1>2 DEF Objects
<1> QED
  BY <1>1, <1>2, <1>3, <1>4, <1>5

\* No object lies in two pages.
LEMMA ObjectsApart ==
  ASSUME NEW p \in Page, NEW q \in Page, p < q
  PROVE  Objects(p) \cap Objects(q) = {}
<1>1. p \in Int /\ q \in Int /\ Stride \in Nat /\ o_num \in Nat /\ o_num <= Stride /\ p + 1 <= q
  BY SlabAssumption DEF Page
<1>2. (p + 1) * Stride <= q * Stride
  BY <1>1
<1>3. (p + 1) * Stride = Start(p) + Stride
  BY <1>1 DEF Start
<1>4. Start(p) \in Nat /\ Start(q) \in Nat /\ q * Stride = Start(q)
  BY ObjectsOf DEF Start
<1>5. Start(p) + o_num <= Start(q)
  BY <1>1, <1>2, <1>3, <1>4
<1>6. \A a \in Objects(p) : a \in Nat /\ a < Start(p) + o_num
  BY ObjectsOf
<1>7. \A a \in Objects(q) : a \in Nat /\ a >= Start(q)
  BY ObjectsOf
<1> QED
  BY <1>1, <1>4, <1>5, <1>6, <1>7

LEMMA OnePage ==
  ASSUME NEW p \in Page, NEW q \in Page, NEW a, a \in Objects(p), a \in Objects(q)
  PROVE  p = q
<1>1. p \in Int /\ q \in Int
  BY DEF Page
<1> QED
  BY <1>1, ObjectsApart

\* virt_to_page finds the page of an object.
LEMMA VirtToPage ==
  /\ \A p \in Page : \A a \in Objects(p) : virt_to_page(a) = p /\ a \in Addr
  /\ \A a \in Addr : virt_to_page(a) \in Page /\ a \in Objects(virt_to_page(a))
  /\ Addr \subseteq Nat \ {0}
<1>1. ASSUME NEW p \in Page, NEW a \in Objects(p)
      PROVE  virt_to_page(a) = p /\ a \in Addr
  <2>1. a \in Addr
    BY DEF Addr
  <2>2. \A q \in Page : a \in Objects(q) => q = p
    BY OnePage
  <2> QED
    BY <2>1, <2>2 DEF virt_to_page
<1>2. ASSUME NEW a \in Addr
      PROVE  \E p \in Page : a \in Objects(p)
  BY DEF Addr
<1> QED
  BY <1>1, <1>2, ObjectsOf

\* What the steps use of Cardinality: the objects of a page can be counted.
Counting ==
  \A c \in Page : \A S \in SUBSET Objects(c) :
    /\ Cardinality(S) \in 0 .. o_num
    /\ Cardinality(S) = 0 <=> S = {}
    /\ Cardinality(S) = o_num <=> S = Objects(c)
    /\ \A a \in Objects(c) \ S : Cardinality(S \cup {a}) = Cardinality(S) + 1

-----------------------------------------------------------------------------
(* Lists.                                                                  *)

\* list_del leaves a queue without the entry.
LEMMA ListDel ==
  ASSUME NEW S, NEW s \in Seq(S), NEW e, IsInjective(s)
  PROVE  /\ list_del(s, e) \in Seq(S)
         /\ IsInjective(list_del(s, e))
         /\ Range(list_del(s, e)) = Range(s) \ {e}
<1>1. CASE e \notin Range(s)
  BY <1>1 DEF list_del
<1>2. CASE e \in Range(s)
  <2> DEFINE k == CHOOSE i \in DOMAIN s : s[i] = e
  <2>1. k \in DOMAIN s /\ s[k] = e
    BY <1>2 DEF Range
  <2>2. list_del(s, e) = SubSeq(s, 1, k - 1) \o SubSeq(s, k + 1, Len(s))
    BY <1>2 DEF list_del
  <2> HIDE DEF k
  <2> QED
    BY <2>1, <2>2, RemoveQueue
<1> QED
  BY <1>1, <1>2

\* An entry put in front of a queue it is not on.
LEMMA PushFront ==
  ASSUME NEW S, NEW s \in Seq(S), NEW e \in S, IsInjective(s), e \notin Range(s)
  PROVE  /\ <<e>> \o s \in Seq(S)
         /\ <<e>> \o s # <<>>
         /\ IsInjective(<<e>> \o s)
         /\ Range(<<e>> \o s) = Range(s) \cup {e}
<1> DEFINE o == <<e>>
<1>1. /\ o \in Seq(S)
      /\ o # <<>>
      /\ IsInjective(o)
      /\ Range(o) = {e}
  BY DEF IsInjective, Range
<1> HIDE DEF o
<1>2. Range(o) \cap Range(s) = {}
  BY <1>1
<1>3. /\ o \o s \in Seq(S)
      /\ IsInjective(o \o s)
      /\ Range(o \o s) = Range(o) \cup Range(s)
      /\ o \o s # <<>>
  BY <1>1, <1>2, ConcatQueue
<1>4. Range(o \o s) = Range(s) \cup {e}
  BY <1>1, <1>3
<1> QED
  BY <1>3, <1>4 DEF o

\* list_move leaves a queue with the entry on it.
LEMMA ListMove ==
  ASSUME NEW S, NEW s \in Seq(S), NEW e \in S, IsInjective(s)
  PROVE  /\ list_move(e, s) \in Seq(S)
         /\ list_move(e, s) # <<>>
         /\ IsInjective(list_move(e, s))
         /\ Range(list_move(e, s)) = Range(s) \cup {e}
<1> DEFINE d == list_del(s, e)
<1>1. d \in Seq(S) /\ IsInjective(d) /\ Range(d) = Range(s) \ {e}
  BY ListDel
<1>2. list_move(e, s) = <<e>> \o d
  BY DEF list_move
<1> HIDE DEF d
<1>3. e \notin Range(d)
  BY <1>1
<1>4. /\ <<e>> \o d \in Seq(S)
      /\ <<e>> \o d # <<>>
      /\ IsInjective(<<e>> \o d)
      /\ Range(<<e>> \o d) = Range(d) \cup {e}
  BY <1>1, <1>3, PushFront
<1>5. Range(<<e>> \o d) = Range(s) \cup {e}
  BY <1>1, <1>4
<1> QED
  BY <1>2, <1>4, <1>5

-----------------------------------------------------------------------------
(* Steps that leave the cache alone.                                       *)

\* A step that changes neither the cache nor which objects are in use, and no task's
\* part in alloc_slow or in giving a chunk back.
LEMMA QuietStep ==
  ASSUME IInv,
         UNCHANGED <<free_pages, cache>>,
         \A c \in Page : UsedOf(c)' = UsedOf(c),
         \A t \in Task : /\ pc'[t] = "slow" <=> pc[t] = "slow"
                         /\ pc'[t] = "fast" <=> pc[t] = "fast"
                         /\ pc'[t] = "put" <=> pc[t] = "put"
                         /\ pc[t] = "put" => obj'[t] = obj[t]
  PROVE  PagesInv' /\ CurInv' /\ ListsInv'
<1>1. /\ free_pages' = free_pages /\ o_ptr' = o_ptr /\ o_ptr_end' = o_ptr_end
      /\ o_cur' = o_cur /\ o_partials' = o_partials /\ o_full' = o_full
      /\ free_list' = free_list /\ inuse' = inuse
  BY DEF cache
<1>2. \A c \in Page : IsNew(c)' <=> IsNew(c)
  BY <1>1 DEF IsNew
<1>3. \A c \in Page : IsUnlinked(c)' <=> IsUnlinked(c)
  BY DEF IsUnlinked
<1>4. Chunks' = Chunks /\ \A c \in Page : Fresh(c)' = Fresh(c)
  BY <1>1 DEF Chunks, Fresh
<1>5. PagesInv'
  <2> SUFFICES ASSUME NEW c \in Page
               PROVE  PageInv(c)'
    BY DEF PagesInv
  <2>1. PageInv(c)
    BY DEF IInv, PagesInv
  <2> QED
    BY <1>1, <1>2, <1>3, <1>4, <2>1 DEF PageInv
<1>6. CurInv'
  BY <1>1, <1>4 DEF IInv, CurInv
<1>7. ListsInv'
  BY <1>1, <1>2, <1>3, <1>4 DEF IInv, ListsInv, ListInv
<1> QED
  BY <1>5, <1>6, <1>7

\* What is in use, element by element.
LEMMA UsedMember ==
  ASSUME NEW c \in Page, NEW a
  PROVE  a \in UsedOf(c) <=>
           /\ a \in Objects(c)
           /\ \/ a \in live
              \/ \E t \in Task : pc[t] \notin {"out", "put", "freed"} /\ obj[t] = a
BY DEF UsedOf, Used

LEMMA UsedMemberNext ==
  ASSUME NEW c \in Page, NEW a
  PROVE  a \in UsedOf(c)' <=>
           /\ a \in Objects(c)
           /\ \/ a \in live'
              \/ \E t \in Task : pc'[t] \notin {"out", "put", "freed"} /\ obj'[t] = a
BY DEF UsedOf, Used

LEMMA SameUsed ==
  ASSUME obj' = obj, live' = live,
         \A u \in Task : pc'[u] \in {"out", "put", "freed"} <=> pc[u] \in {"out", "put", "freed"}
  PROVE  \A q \in Page : UsedOf(q)' = UsedOf(q)
<1> SUFFICES ASSUME NEW q \in Page, NEW x
             PROVE  x \in UsedOf(q)' <=> x \in UsedOf(q)
  OBVIOUS
<1> DEFINE InHands == \E u \in Task : pc[u] \notin {"out", "put", "freed"} /\ obj[u] = x
<1>1. x \in UsedOf(q) <=> x \in Objects(q) /\ (x \in live \/ InHands)
  BY UsedMember
<1>2. x \in UsedOf(q)' <=> x \in Objects(q) /\ (x \in live \/ InHands)
  BY UsedMemberNext
<1> QED
  BY <1>1, <1>2

\* sem_P and sem_V of do_alloc.
LEMMA AllocPStep ==
  ASSUME IInv, NEW t \in Task, alloc_P(t)
  PROVE  IInv'
<1>1. /\ pc[t] = "out" /\ memsem = NULL /\ memsem' = t /\ pc' = [pc EXCEPT ![t] = "alloc"]
      /\ UNCHANGED <<free_pages, cache, live, obj, chk, bug>>
      /\ UNCHANGED <<o_ptr, o_ptr_end, o_cur, o_partials, o_full, free_list, inuse>>
  BY DEF alloc_P, At, Goto, cache
<1>2. TypeOK'
  BY <1>1 DEF IInv, TypeOK, PCs
<1>3. pc \in [Task -> PCs] /\ NULL \notin Task /\ obj[t] = 0
  BY <1>1, SlabAssumption DEF IInv, TypeOK, HandsInv, Without
<1>4. LockInv'
  BY <1>1, <1>3 DEF IInv, LockInv, Locked
<1>5. HandsInv'
  BY <1>1, <1>3 DEF IInv, HandsInv, Without
<1>6. \A c \in Page : UsedOf(c)' = UsedOf(c)
  <2> SUFFICES ASSUME NEW c \in Page, NEW a
               PROVE  a \in UsedOf(c)' <=> a \in UsedOf(c)
    OBVIOUS
  <2>1. 0 \notin Objects(c)
    BY ObjectsOf
  <2> QED
    BY <1>1, <1>3, <2>1, UsedMember, UsedMemberNext
<1>7. PagesInv' /\ CurInv' /\ ListsInv'
  BY <1>1, <1>3, <1>6, QuietStep
<1>8. BugInv'
  BY <1>1 DEF IInv, BugInv
<1> QED
  BY <1>2, <1>4, <1>5, <1>7, <1>8 DEF IInv

LEMMA AllocVStep ==
  ASSUME IInv, NEW t \in Task, alloc_V(t)
  PROVE  IInv'
<1>1. /\ pc[t] = "allocated" /\ memsem' = NULL /\ pc' = [pc EXCEPT ![t] = "out"]
      /\ live' = live \cup {obj[t]} /\ obj' = [obj EXCEPT ![t] = 0]
      /\ UNCHANGED <<free_pages, cache, chk, bug>>
      /\ UNCHANGED <<o_ptr, o_ptr_end, o_cur, o_partials, o_full, free_list, inuse>>
  BY DEF alloc_V, At, Goto, cache
<1>2. /\ pc \in [Task -> PCs] /\ obj \in [Task -> Addr \cup {0}] /\ NULL \notin Task
      /\ memsem = t /\ obj[t] \in Addr /\ 0 \notin Addr
      /\ \A u \in Task : pc[u] \in Locked => u = t
  BY <1>1, SlabAssumption, VirtToPage DEF IInv, TypeOK, HandsInv, Without, LockInv, Locked
<1>3. TypeOK'
  BY <1>1, <1>2 DEF IInv, TypeOK, PCs
<1>4. LockInv'
  BY <1>1, <1>2 DEF IInv, LockInv, Locked
<1>5. HandsInv'
  BY <1>1, <1>2 DEF IInv, HandsInv, Without
<1>6. \A c \in Page : UsedOf(c)' = UsedOf(c)
  <2> SUFFICES ASSUME NEW c \in Page, NEW a
               PROVE  a \in UsedOf(c)' <=> a \in UsedOf(c)
    OBVIOUS
  <2> QED
    BY <1>1, <1>2, UsedMember, UsedMemberNext
<1>7. PagesInv' /\ CurInv' /\ ListsInv'
  BY <1>1, <1>2, <1>6, QuietStep
<1>8. BugInv'
  BY <1>1 DEF IInv, BugInv
<1> QED
  BY <1>3, <1>4, <1>5, <1>7, <1>8 DEF IInv

LEMMA FreeVStep ==
  ASSUME IInv, NEW t \in Task, free_V(t)
  PROVE  IInv'
<1>1. /\ pc[t] = "freed" /\ memsem' = NULL /\ pc' = [pc EXCEPT ![t] = "out"]
      /\ obj' = [obj EXCEPT ![t] = 0]
      /\ UNCHANGED <<free_pages, cache, live, chk, bug>>
      /\ UNCHANGED <<o_ptr, o_ptr_end, o_cur, o_partials, o_full, free_list, inuse>>
  BY DEF free_V, At, Goto, cache
<1>2. /\ pc \in [Task -> PCs] /\ obj \in [Task -> Addr \cup {0}] /\ NULL \notin Task
      /\ memsem = t /\ 0 \notin Addr
      /\ \A u \in Task : pc[u] \in Locked => u = t
  BY <1>1, SlabAssumption, VirtToPage DEF IInv, TypeOK, LockInv, Locked
<1>3. TypeOK'
  BY <1>1, <1>2 DEF IInv, TypeOK, PCs
<1>4. LockInv'
  BY <1>1, <1>2 DEF IInv, LockInv, Locked
<1>5. HandsInv'
  BY <1>1, <1>2 DEF IInv, HandsInv, Without
<1>6. \A c \in Page : UsedOf(c)' = UsedOf(c)
  <2> SUFFICES ASSUME NEW c \in Page, NEW a
               PROVE  a \in UsedOf(c)' <=> a \in UsedOf(c)
    OBVIOUS
  <2> QED
    BY <1>1, <1>2, UsedMember, UsedMemberNext
<1>7. PagesInv' /\ CurInv' /\ ListsInv'
  BY <1>1, <1>2, <1>6, QuietStep
<1>8. BugInv'
  BY <1>1 DEF IInv, BugInv
<1> QED
  BY <1>3, <1>4, <1>5, <1>7, <1>8 DEF IInv

\* The task that holds the semaphore is alone in the allocator.
LEMMA Alone ==
  ASSUME LockInv, NEW t \in Task, pc[t] \in Locked
  PROVE  /\ \A u \in Task : u # t => pc[u] \notin Locked
         /\ memsem = t
         /\ \A c : IsNew(c) <=> c = o_cur /\ pc[t] \in {"slow", "fast"}
         /\ \A c : IsUnlinked(c) <=> pc[t] = "put" /\ virt_to_page(obj[t]) = c
BY DEF LockInv, Locked, IsNew, IsUnlinked

LEMMA AloneNext ==
  ASSUME LockInv', NEW t \in Task, pc'[t] \in Locked
  PROVE  /\ \A c : IsNew(c)' <=> c = o_cur' /\ pc'[t] \in {"slow", "fast"}
         /\ \A c : IsUnlinked(c)' <=> pc'[t] = "put" /\ virt_to_page(obj'[t]) = c
BY DEF LockInv, Locked, IsNew, IsUnlinked

\* It stays so while it works.
LEMMA StaysLocked ==
  ASSUME LockInv, NEW t \in Task, NEW l \in Locked, pc[t] \in Locked,
         pc \in [Task -> PCs], pc' = [pc EXCEPT ![t] = l], memsem' = memsem
  PROVE  LockInv'
BY DEF LockInv, Locked

\* A page that a step does not touch.
LEMMA SamePage ==
  ASSUME NEW c \in Page, PageInv(c), UsedOf(c)' = UsedOf(c), free_list'[c] = free_list[c],
         inuse'[c] = inuse[c], Fresh(c)' = Fresh(c), c \in Chunks' <=> c \in Chunks,
         IsNew(c)' <=> IsNew(c), IsUnlinked(c)' <=> IsUnlinked(c)
  PROVE  PageInv(c)'
BY DEF PageInv

LEMMA SameLists ==
  ASSUME NEW c \in Page, ListInv(c), free_list'[c] = free_list[c],
         c \in Range(o_full)' <=> c \in Range(o_full),
         c \in Range(o_partials)' <=> c \in Range(o_partials),
         c = o_cur' <=> c = o_cur, c \in Chunks' <=> c \in Chunks, IsUnlinked(c)' <=> IsUnlinked(c)
  PROVE  ListInv(c)'
BY DEF ListInv

\* The count of the objects of a chunk that are in use, when one is handed out and
\* when one comes back.
LEMMA CountUp ==
  ASSUME Counting, NEW c \in Page, NEW a \in Objects(c), a \notin UsedOf(c), PageInv(c),
         UsedOf(c)' = UsedOf(c) \cup {a}
  PROVE  /\ Cardinality(UsedOf(c)') = inuse[c] + 1
         /\ inuse[c] + 1 \in 1 .. o_num
         /\ inuse[c] + 1 = o_num <=> UsedOf(c)' = Objects(c)
<1>1. /\ UsedOf(c) \in SUBSET Objects(c) /\ UsedOf(c) \cup {a} \in SUBSET Objects(c)
      /\ a \in Objects(c) \ UsedOf(c)
  BY DEF UsedOf
<1>2. /\ Cardinality(UsedOf(c) \cup {a}) = Cardinality(UsedOf(c)) + 1
      /\ Cardinality(UsedOf(c)) \in 0 .. o_num /\ Cardinality(UsedOf(c) \cup {a}) \in 0 .. o_num
      /\ Cardinality(UsedOf(c) \cup {a}) = o_num <=> UsedOf(c) \cup {a} = Objects(c)
  <2>1. /\ Cardinality(UsedOf(c)) \in 0 .. o_num
        /\ Cardinality(UsedOf(c) \cup {a}) = Cardinality(UsedOf(c)) + 1
    <3>1. \A S \in SUBSET Objects(c) : \A x \in Objects(c) \ S :
            Cardinality(S) \in 0 .. o_num /\ Cardinality(S \cup {x}) = Cardinality(S) + 1
      BY ZenonT(30) DEF Counting
    <3> QED
      BY <1>1, <3>1
  <2>2. /\ Cardinality(UsedOf(c) \cup {a}) \in 0 .. o_num
        /\ Cardinality(UsedOf(c) \cup {a}) = o_num <=> UsedOf(c) \cup {a} = Objects(c)
    <3>1. \A S \in SUBSET Objects(c) :
            Cardinality(S) \in 0 .. o_num /\ (Cardinality(S) = o_num <=> S = Objects(c))
      BY DEF Counting
    <3> QED
      BY <1>1, <3>1
  <2> QED
    BY <2>1, <2>2
<1>3. inuse[c] = Cardinality(UsedOf(c))
  BY DEF PageInv
<1> QED
  BY <1>2, <1>3, SlabAssumption

LEMMA CountDown ==
  ASSUME Counting, NEW c \in Page, NEW a \in UsedOf(c), PageInv(c),
         UsedOf(c)' = UsedOf(c) \ {a}
  PROVE  /\ Cardinality(UsedOf(c)') = inuse[c] - 1
         /\ inuse[c] - 1 \in 0 .. o_num
         /\ inuse[c] - 1 = 0 <=> UsedOf(c)' = {}
<1>1. UsedOf(c) \in SUBSET Objects(c) /\ UsedOf(c) \ {a} \in SUBSET Objects(c) /\ a \in Objects(c) \ (UsedOf(c) \ {a})
  BY DEF UsedOf
<1>2. (UsedOf(c) \ {a}) \cup {a} = UsedOf(c)
  OBVIOUS
<1>3. /\ Cardinality(UsedOf(c)) = Cardinality(UsedOf(c) \ {a}) + 1
      /\ Cardinality(UsedOf(c)) \in 0 .. o_num /\ Cardinality(UsedOf(c) \ {a}) \in 0 .. o_num
      /\ Cardinality(UsedOf(c) \ {a}) = 0 <=> UsedOf(c) \ {a} = {}
  BY <1>1, <1>2 DEF Counting
<1>4. inuse[c] = Cardinality(UsedOf(c))
  BY DEF PageInv
<1> QED
  BY <1>3, <1>4, SlabAssumption

\* The task that holds the semaphore takes an object of chunk c that is not in use.
LEMMA TakesObject ==
  ASSUME IInv, NEW t \in Task, pc[t] \in {"alloc", "fast"}, NEW c \in Page,
         NEW a \in Objects(c), a \notin UsedOf(c),
         obj' = [obj EXCEPT ![t] = a], pc' = [pc EXCEPT ![t] = "allocated"],
         live' = live, memsem' = memsem
  PROVE  /\ LockInv' /\ HandsInv'
         /\ pc' \in [Task -> PCs] /\ obj' \in [Task -> Addr \cup {0}]
         /\ UsedOf(c)' = UsedOf(c) \cup {a}
         /\ \A q \in Page : q # c => UsedOf(q)' = UsedOf(q)
<1>1. /\ pc \in [Task -> PCs] /\ obj \in [Task -> Addr \cup {0}] /\ LockInv /\ pc[t] \in Locked
      /\ obj[t] = 0 /\ a \in Addr /\ 0 \notin Addr
  BY VirtToPage DEF IInv, TypeOK, HandsInv, Locked, Without
<1>2. \A u \in Task : u # t => pc[u] \notin Locked
  BY <1>1, Alone
<1>3. LockInv' /\ pc' \in [Task -> PCs] /\ obj' \in [Task -> Addr \cup {0}]
  BY <1>1, StaysLocked DEF Locked, PCs
<1>4. a \notin live /\ \A u \in Task : obj[u] # a
  <2>1. \A u \in Task : obj[u] = a => pc[u] \notin {"out", "put", "freed"}
    BY <1>1, <1>2 DEF IInv, HandsInv, Without, Locked
  <2> QED
    BY <2>1, UsedMember
<1>5. HandsInv'
  BY <1>1, <1>4 DEF IInv, HandsInv, Without
<1>6. ASSUME NEW q \in Page, NEW x
      PROVE  x \in UsedOf(q)' <=> x \in UsedOf(q) \/ (x = a /\ x \in Objects(q))
  <2>1. 0 \notin Objects(q)
    BY ObjectsOf
  <2> QED
    BY <1>1, <1>2, <2>1, UsedMember, UsedMemberNext DEF Locked
<1>7. UsedOf(c)' = UsedOf(c) \cup {a}
  BY <1>6
<1>8. \A q \in Page : q # c => UsedOf(q)' = UsedOf(q)
  BY <1>6, OnePage
<1> QED
  BY <1>3, <1>5, <1>7, <1>8

\* An object moves from the free or the fresh ones to those in use, and back.
LEMMA TakeFree ==
  ASSUME NEW U, NEW R, NEW F, NEW O, NEW a \in R,
         U \cap R = {}, U \cap F = {}, R \cap F = {}, U \cup R \cup F = O
  PROVE  /\ (U \cup {a}) \cap (R \ {a}) = {} /\ (U \cup {a}) \cap F = {}
         /\ (R \ {a}) \cap F = {} /\ (U \cup {a}) \cup (R \ {a}) \cup F = O
OBVIOUS

LEMMA GiveFree ==
  ASSUME NEW U, NEW R, NEW F, NEW O, NEW a \in U,
         U \cap R = {}, U \cap F = {}, R \cap F = {}, U \cup R \cup F = O
  PROVE  /\ (U \ {a}) \cap (R \cup {a}) = {} /\ (U \ {a}) \cap F = {}
         /\ (R \cup {a}) \cap F = {} /\ (U \ {a}) \cup (R \cup {a}) \cup F = O
OBVIOUS

\* An object comes off the free list of the first partial chunk.
LEMMA AllocFromPartialStep ==
  ASSUME IInv, Counting, NEW t \in Task, alloc_from_partial(t)
  PROVE  IInv'
<1>a. PICK c : c = Head(o_partials)
  OBVIOUS
<1>b. PICK a : a = Head(free_list[c])
  OBVIOUS
<1>1. /\ pc[t] = "alloc" /\ o_partials # <<>> /\ free_list[c] # <<>>
      /\ obj' = [obj EXCEPT ![t] = a] /\ pc' = [pc EXCEPT ![t] = "allocated"]
      /\ free_list' = [free_list EXCEPT ![c] = Tail(free_list[c])]
      /\ inuse' = [inuse EXCEPT ![c] = inuse[c] + 1]
      /\ UNCHANGED <<free_pages, o_ptr, o_ptr_end, o_cur, memsem, live, chk, bug>>
  BY <1>a, <1>b DEF alloc_from_partial, HasPartial, At, Goto
<1>2. /\ c \in Page /\ c \in Range(o_partials)
      /\ free_list \in [Page -> Seq(Addr)] /\ inuse \in [Page -> 0 .. o_num]
      /\ o_partials \in Seq(Page) /\ o_full \in Seq(Page)
      /\ IsInjective(o_partials) /\ IsInjective(o_full) /\ IsInjective(free_list[c])
      /\ \A q \in Page : PageInv(q) /\ ListInv(q)
  <2>1. o_partials \in Seq(Page) /\ free_list \in [Page -> Seq(Addr)] /\ o_full \in Seq(Page)
    BY DEF IInv, TypeOK
  <2>2. c \in Page /\ c \in Range(o_partials)
    BY <1>1, <1>a, <2>1, TailQueue
  <2>3. \A q \in Page : PageInv(q) /\ ListInv(q)
    BY DEF IInv, PagesInv, ListsInv
  <2> QED
    BY <2>1, <2>2, <2>3 DEF IInv, TypeOK, ListsInv, PageInv
<1>3. /\ \A u \in Task : u # t => pc[u] \notin Locked
      /\ \A q : ~IsNew(q) /\ ~IsUnlinked(q)
  BY <1>1, Alone DEF IInv, Locked
<1>4. /\ a \in Range(free_list[c])
      /\ Tail(free_list[c]) \in Seq(Addr) /\ IsInjective(Tail(free_list[c]))
      /\ Range(Tail(free_list[c])) = Range(free_list[c]) \ {a}
  BY <1>1, <1>2, <1>b, TailQueue
<1>5. c \in Chunks
  <2>1. CASE c = o_cur
    BY <1>2, <2>1, SlabAssumption DEF IInv, CurInv
  <2>2. CASE c # o_cur
    BY <1>2, <2>2 DEF ListInv
  <2> QED
    BY <2>1, <2>2
<1>6. a \in Objects(c) /\ a \notin UsedOf(c) /\ a \notin Fresh(c)
  BY <1>2, <1>4, <1>5 DEF PageInv
<1>7. /\ LockInv' /\ HandsInv'
      /\ pc' \in [Task -> PCs] /\ obj' \in [Task -> Addr \cup {0}]
      /\ UsedOf(c)' = UsedOf(c) \cup {a}
      /\ \A q \in Page : q # c => UsedOf(q)' = UsedOf(q)
  <2>1. pc[t] \in {"alloc", "fast"} /\ live' = live /\ memsem' = memsem
    BY <1>1
  <2>2. c \in Page /\ obj' = [obj EXCEPT ![t] = a] /\ pc' = [pc EXCEPT ![t] = "allocated"]
    BY <1>1, <1>2
  <2> QED
    BY <1>6, <2>1, <2>2, TakesObject
<1>8. Cardinality(UsedOf(c)') = inuse[c] + 1 /\ inuse[c] + 1 \in 1 .. o_num
  <2>1. c \in Page /\ PageInv(c) /\ UsedOf(c)' = UsedOf(c) \cup {a}
    BY <1>2, <1>7
  <2> QED
    BY <1>6, <2>1, CountUp
<1>9. \A q \in Page : ~IsNew(q)' /\ ~IsUnlinked(q)'
  <2>1. pc'[t] = "allocated" /\ pc'[t] \in Locked
    BY <1>1, <1>7 DEF IInv, TypeOK, Locked
  <2> QED
    BY <1>7, <2>1, AloneNext
<1>10. Chunks' = Chunks /\ \A q \in Page : Fresh(q)' = Fresh(q)
  BY <1>1 DEF Chunks, Fresh
<1>11. /\ o_partials' \in Seq(Page) /\ o_full' \in Seq(Page)
       /\ IsInjective(o_partials') /\ IsInjective(o_full')
       /\ IF Emptied(c) THEN /\ Range(o_full') = Range(o_full) \cup {c}
                             /\ Range(o_partials') = Range(o_partials) \ {c}
          ELSE o_full' = o_full /\ o_partials' = o_partials
  <2>1. CASE Emptied(c)
    <3>1. o_full' = list_move(c, o_full) /\ o_partials' = list_del(o_partials, c)
      BY <1>a, <2>1 DEF alloc_from_partial
    <3>2. /\ o_full' \in Seq(Page) /\ IsInjective(o_full')
          /\ Range(o_full') = Range(o_full) \cup {c}
      <4>1. o_full \in Seq(Page) /\ c \in Page /\ IsInjective(o_full)
        BY <1>2
      <4> QED
        BY <3>1, <4>1, ListMove, ZenonT(30)
    <3>3. /\ o_partials' \in Seq(Page) /\ IsInjective(o_partials')
          /\ Range(o_partials') = Range(o_partials) \ {c}
      <4>1. o_partials \in Seq(Page) /\ IsInjective(o_partials)
        BY <1>2
      <4> QED
        BY <3>1, <4>1, ListDel
    <3> QED
      BY <2>1, <3>2, <3>3
  <2>2. CASE ~Emptied(c)
    <3>1. o_full' = o_full /\ o_partials' = o_partials
      BY <1>a, <2>2 DEF alloc_from_partial
    <3> QED
      BY <1>2, <2>2, <3>1
  <2> QED
    BY <2>1, <2>2
<1>12. TypeOK'
  <2>1. inuse' \in [Page -> 0 .. o_num]
    BY <1>1, <1>2, <1>8
  <2>2. free_list' \in [Page -> Seq(Addr)]
    BY <1>1, <1>2, <1>4
  <2> QED
    BY <1>1, <1>7, <1>11, <2>1, <2>2 DEF IInv, TypeOK
<1>13. PagesInv'
  <2> SUFFICES ASSUME NEW q \in Page
               PROVE  PageInv(q)'
    BY DEF PagesInv
  <2>1. CASE q # c
    <3>1. free_list'[q] = free_list[q] /\ inuse'[q] = inuse[q]
      BY <1>1, <1>2, <2>1
    <3> QED
      BY <1>2, <1>3, <1>7, <1>9, <1>10, <2>1, <3>1, SamePage
  <2>2. CASE q = c
    <3>1. free_list'[c] = Tail(free_list[c]) /\ inuse'[c] = inuse[c] + 1
      BY <1>1, <1>2
    <3>2. PageInv(c)
      BY <1>2
    <3>3. inuse[c] + 1 # 0
      BY <1>8
    <3>4. /\ UsedOf(c)' = UsedOf(c) \cup {a} /\ Range(free_list'[c]) = Range(free_list[c]) \ {a}
          /\ Fresh(c)' = Fresh(c) /\ a \in Range(free_list[c])
      <4>1. Range(free_list'[c]) = Range(free_list[c]) \ {a} /\ a \in Range(free_list[c])
        BY <1>4, <3>1, Zenon
      <4>2. UsedOf(c)' = UsedOf(c) \cup {a} /\ Fresh(c)' = Fresh(c)
        BY <1>2, <1>7, <1>10
      <4> QED
        BY <4>1, <4>2, Zenon
    <3>5. /\ UsedOf(c) \cap Range(free_list[c]) = {} /\ UsedOf(c) \cap Fresh(c) = {}
          /\ Range(free_list[c]) \cap Fresh(c) = {}
          /\ UsedOf(c) \cup Range(free_list[c]) \cup Fresh(c) = Objects(c)
      BY <1>5, <3>2 DEF PageInv
    <3>6. /\ UsedOf(c)' \cap Range(free_list'[c]) = {} /\ UsedOf(c)' \cap Fresh(c)' = {}
          /\ Range(free_list'[c]) \cap Fresh(c)' = {}
          /\ UsedOf(c)' \cup Range(free_list'[c]) \cup Fresh(c)' = Objects(c)
      BY <3>4, <3>5, TakeFree, SMTT(30)
    <3> QED
      BY <1>4, <1>5, <1>8, <1>9, <1>10, <2>2, <3>1, <3>3, <3>6 DEF PageInv
  <2> QED
    BY <2>1, <2>2
<1>14. CurInv'
  <2>1. \A u \in Task : pc'[u] \notin {"slow", "fast"} /\ pc[u] # "slow"
    BY <1>1, <1>3, <1>7 DEF Locked, IInv, TypeOK
  <2> QED
    BY <1>1, <1>10, <2>1 DEF IInv, CurInv
<1>15. ListsInv'
  <2> SUFFICES ASSUME NEW q \in Page
               PROVE  ListInv(q)'
    BY <1>11 DEF ListsInv
  <2>1. CASE q # c
    <3>1. free_list'[q] = free_list[q]
      BY <1>1, <1>2, <2>1
    <3>2. /\ q \in Range(o_full)' <=> q \in Range(o_full)
          /\ q \in Range(o_partials)' <=> q \in Range(o_partials)
      BY <1>11, <2>1
    <3> QED
      BY <1>1, <1>2, <1>3, <1>9, <1>10, <2>1, <3>1, <3>2, SameLists
  <2>2. CASE q = c
    <3>1. free_list'[c] = Tail(free_list[c])
      BY <1>1, <1>2
    <3>2. Tail(free_list[c]) = <<>> <=> Len(free_list[c]) = 1
      <4>1. free_list[c] \in Seq(Addr)
        BY <1>2
      <4>2. Len(Tail(free_list[c])) = Len(free_list[c]) - 1 /\ Len(free_list[c]) \in Nat
        BY <1>1, <4>1
      <4>3. Tail(free_list[c]) = <<>> <=> Len(Tail(free_list[c])) = 0
        <5>1. \A s \in Seq(Addr) : s = <<>> <=> Len(s) = 0
          OBVIOUS
        <5> QED
          BY <1>4, <5>1
      <4> QED
        BY <4>2, <4>3
    <3>3. ListInv(c)
      BY <1>2
    <3>4. CASE Emptied(c)
      BY <1>1, <1>2, <1>5, <1>9, <1>10, <1>11, <2>2, <3>1, <3>2, <3>4 DEF ListInv, Emptied
    <3>5. CASE ~Emptied(c)
      BY <1>1, <1>2, <1>3, <1>5, <1>9, <1>10, <1>11, <2>2, <3>1, <3>2, <3>3, <3>5 DEF ListInv, Emptied
    <3> QED
      BY <3>4, <3>5
  <2> QED
    BY <2>1, <2>2
<1>16. BugInv'
  BY <1>1 DEF IInv, BugInv
<1> QED
  BY <1>7, <1>12, <1>13, <1>14, <1>15, <1>16 DEF IInv

\* do_alloc comes to the current chunk only when that has no free list: the first
\* partial chunk is another one, with a free list, or none is there.
LEMMA FastHasNoFreeList ==
  ASSUME IInv, NEW t \in Task, alloc_fast(t)
  PROVE  /\ o_cur \in Page /\ o_cur \in Chunks /\ free_list[o_cur] = <<>>
         /\ o_ptr_end = Start(o_cur) + o_num /\ Start(o_cur) <= o_ptr /\ o_ptr < o_ptr_end
         /\ o_ptr \in Fresh(o_cur)
<1>1. pc[t] = "fast" \/ (pc[t] = "alloc" /\ ~HasPartial /\ HasFresh)
  BY DEF alloc_fast, At
<1>2. /\ pc[t] # "slow" /\ (\A u \in Task : pc[u] # "slow")
      /\ \A c : ~IsUnlinked(c)
  BY <1>1, Alone DEF IInv, Locked
<1>3. o_ptr \in Nat /\ o_ptr_end \in Nat /\ o_cur \in Page \cup {NULL}
  BY DEF IInv, TypeOK
<1>4. o_cur # NULL
  <2>1. CASE pc[t] = "fast"
    BY <2>1 DEF IInv, CurInv
  <2>2. CASE HasFresh
    BY <1>3, <2>2 DEF IInv, CurInv, HasFresh
  <2> QED
    BY <1>1, <2>1, <2>2
<1>5. /\ o_cur \in Page /\ o_cur \in Chunks
      /\ o_ptr_end = Start(o_cur) + o_num /\ Start(o_cur) <= o_ptr /\ o_ptr < o_ptr_end
  BY <1>2, <1>3, <1>4 DEF IInv, CurInv
<1>6. o_ptr \in Fresh(o_cur)
  BY <1>3, <1>5, ObjectsOf DEF Fresh
<1>7. free_list[o_cur] = <<>>
  <2>1. CASE pc[t] = "fast"
    BY <2>1 DEF IInv, CurInv
  <2>2. CASE ~HasPartial
    <3> SUFFICES ASSUME free_list[o_cur] # <<>>
                 PROVE  FALSE
      OBVIOUS
    <3>1. o_cur \in Range(o_partials)
      BY <1>2, <1>5 DEF IInv, ListsInv, ListInv
    <3>2. o_partials \in Seq(Page) /\ o_partials # <<>>
      <4>1. Range(<<>>) = {}
        BY DEF Range
      <4> QED
        BY <3>1, <4>1 DEF IInv, TypeOK
    <3>3. Head(o_partials) \in Page /\ Head(o_partials) \in Range(o_partials)
      BY <3>2, TailQueue
    <3>4. free_list[Head(o_partials)] = <<>>
      BY <2>2, <3>2 DEF HasPartial
    <3> QED
      BY <1>2, <3>3, <3>4 DEF IInv, ListsInv, ListInv
  <2> QED
    BY <1>1, <2>1, <2>2
<1> QED
  BY <1>5, <1>6, <1>7

\* The next fresh object of the current chunk.
LEMMA AllocFastStep ==
  ASSUME IInv, Counting, NEW t \in Task, alloc_fast(t)
  PROVE  IInv'
<1>a. PICK c : c = o_cur
  OBVIOUS
<1>b. PICK a : a = o_ptr
  OBVIOUS
<1>1. /\ pc[t] \in {"alloc", "fast"}
      /\ obj' = [obj EXCEPT ![t] = a] /\ pc' = [pc EXCEPT ![t] = "allocated"]
      /\ inuse' = [inuse EXCEPT ![c] = inuse[c] + 1] /\ o_ptr' = a + 1
      /\ UNCHANGED <<free_pages, o_ptr_end, free_list, memsem, live, chk, bug>>
  BY <1>a, <1>b DEF alloc_fast, At, Goto, NextFresh
<1>2. /\ c \in Page /\ c \in Chunks /\ free_list[c] = <<>> /\ c # NULL /\ a \in Nat
      /\ o_ptr_end = Start(c) + o_num /\ Start(c) <= a /\ a < o_ptr_end /\ a \in Fresh(c)
  BY <1>a, <1>b, FastHasNoFreeList, SlabAssumption DEF IInv, TypeOK
<1>3. /\ free_list \in [Page -> Seq(Addr)] /\ inuse \in [Page -> 0 .. o_num]
      /\ o_partials \in Seq(Page) /\ o_full \in Seq(Page)
      /\ IsInjective(o_partials) /\ IsInjective(o_full)
      /\ \A q \in Page : PageInv(q) /\ ListInv(q)
  BY DEF IInv, TypeOK, PagesInv, ListsInv
<1>4. \A q \in Page : ~IsUnlinked(q) /\ (q # c => ~IsNew(q))
  BY <1>1, <1>a, Alone DEF IInv, Locked
<1>5. a \in Objects(c) /\ a \notin UsedOf(c)
  BY <1>2, <1>3 DEF PageInv, Fresh
<1>6. /\ LockInv' /\ HandsInv'
      /\ pc' \in [Task -> PCs] /\ obj' \in [Task -> Addr \cup {0}]
      /\ UsedOf(c)' = UsedOf(c) \cup {a}
      /\ \A q \in Page : q # c => UsedOf(q)' = UsedOf(q)
  BY <1>1, <1>2, <1>5, TakesObject
<1>7. /\ Cardinality(UsedOf(c)') = inuse[c] + 1 /\ inuse[c] + 1 \in 1 .. o_num
      /\ inuse[c] + 1 = o_num <=> UsedOf(c)' = Objects(c)
  BY <1>2, <1>3, <1>5, <1>6, CountUp
<1>8. \A q \in Page : ~IsNew(q)' /\ ~IsUnlinked(q)'
  <2>1. pc'[t] = "allocated" /\ pc'[t] \in Locked
    BY <1>1, <1>6 DEF IInv, TypeOK, Locked
  <2> QED
    BY <1>6, <2>1, AloneNext
<1>9. Chunks' = Chunks
  BY <1>1 DEF Chunks
<1>10. /\ UsedOf(c) \cap Fresh(c) = {} /\ UsedOf(c) \cup Fresh(c) = Objects(c)
       /\ Range(free_list[c]) = {}
  BY <1>2, <1>3 DEF PageInv, Range
<1>11. Filled <=> Fresh(c) = {a}
  <2>1. Filled <=> UsedOf(c)' = Objects(c)
    BY <1>2, <1>7, <1>a DEF Filled
  <2>2. UsedOf(c) \cup {a} = Objects(c) <=> Fresh(c) = {a}
    BY <1>2, <1>5, <1>10
  <2> QED
    BY <1>6, <2>1, <2>2
<1>12. /\ o_partials' \in Seq(Page) /\ o_full' \in Seq(Page)
       /\ IsInjective(o_partials') /\ IsInjective(o_full')
       /\ IF Filled THEN /\ Range(o_full') = Range(o_full) \cup {c}
                         /\ Range(o_partials') = Range(o_partials) \ {c}
                         /\ o_cur' = NULL
          ELSE o_full' = o_full /\ o_partials' = o_partials /\ o_cur' = c
  <2>1. CASE Filled
    <3>1. o_full' = list_move(c, o_full) /\ o_partials' = list_del(o_partials, c) /\ o_cur' = NULL
      BY <1>a, <2>1 DEF alloc_fast
    <3>2. /\ o_full' \in Seq(Page) /\ IsInjective(o_full')
          /\ Range(o_full') = Range(o_full) \cup {c}
      <4>1. o_full \in Seq(Page) /\ c \in Page /\ IsInjective(o_full)
        BY <1>2, <1>3
      <4> QED
        BY <3>1, <4>1, ListMove, ZenonT(30)
    <3>3. /\ o_partials' \in Seq(Page) /\ IsInjective(o_partials')
          /\ Range(o_partials') = Range(o_partials) \ {c}
      BY <1>3, <3>1, ListDel
    <3> QED
      BY <2>1, <3>1, <3>2, <3>3
  <2>2. CASE ~Filled
    <3>1. o_full' = o_full /\ o_partials' = o_partials /\ o_cur' = c
      BY <1>a, <2>2 DEF alloc_fast
    <3> QED
      BY <1>3, <2>2, <3>1
  <2> QED
    BY <2>1, <2>2
<1>13. Fresh(c)' = Fresh(c) \ {a} /\ \A q \in Page : q # c => Fresh(q)' = Fresh(q)
  <2>1. \A q \in Page : q # c => Fresh(q)' = {} /\ Fresh(q) = {}
    BY <1>2, <1>12, <1>a, SlabAssumption DEF Fresh
  <2>2. CASE Filled
    <3>1. Fresh(c)' = {} /\ Fresh(c) = {a}
      BY <1>2, <1>11, <1>12, <2>2 DEF Fresh
    <3> QED
      BY <2>1, <3>1
  <2>3. CASE ~Filled
    <3>1. Objects(c) \subseteq Nat
      BY <1>2, ObjectsOf
    <3>2. Fresh(c) = {x \in Objects(c) : x >= a} /\ Fresh(c)' = {x \in Objects(c) : x >= a + 1}
      BY <1>1, <1>12, <1>a, <1>b, <2>3 DEF Fresh
    <3>3. ASSUME NEW x
          PROVE  x \in Fresh(c)' <=> x \in Fresh(c) /\ x # a
      BY <1>2, <3>1, <3>2
    <3> QED
      BY <2>1, <3>3
  <2> QED
    BY <2>1, <2>2, <2>3
<1>14. TypeOK'
  <2>1. inuse' \in [Page -> 0 .. o_num]
    BY <1>1, <1>2, <1>3, <1>7, SlabAssumption
  <2>2. o_cur' \in Page \cup {NULL} /\ o_ptr' \in Nat
    <3>1. CASE Filled
      BY <1>1, <1>2, <1>12, <3>1
    <3>2. CASE ~Filled
      BY <1>1, <1>2, <1>12, <3>2
    <3> QED
      BY <3>1, <3>2
  <2> QED
    BY <1>1, <1>6, <1>12, <2>1, <2>2 DEF IInv, TypeOK
<1>15. PagesInv'
  <2> SUFFICES ASSUME NEW q \in Page
               PROVE  PageInv(q)'
    BY DEF PagesInv
  <2>1. CASE q # c
    <3>1. free_list'[q] = free_list[q] /\ inuse'[q] = inuse[q]
      BY <1>1, <1>3, <2>1
    <3> QED
      BY <1>3, <1>4, <1>6, <1>8, <1>9, <1>13, <2>1, <3>1, SamePage
  <2>2. CASE q = c
    <3>1. free_list'[c] = free_list[c] /\ inuse'[c] = inuse[c] + 1 /\ inuse[c] + 1 # 0
      BY <1>1, <1>2, <1>3, <1>7
    <3>2. IsInjective(free_list[c])
      BY <1>2, <1>3 DEF PageInv
    <3>3. /\ UsedOf(c)' \cap Fresh(c)' = {}
          /\ UsedOf(c)' \cup Fresh(c)' = Objects(c)
      BY <1>2, <1>6, <1>10, <1>13
    <3> QED
      BY <1>2, <1>7, <1>8, <1>9, <1>10, <2>2, <3>1, <3>2, <3>3 DEF PageInv
  <2> QED
    BY <2>1, <2>2
<1>16. CurInv'
  <2>1. \A u \in Task : pc'[u] \notin {"slow", "fast"}
    BY <1>8, <1>1, <1>6, Alone DEF IInv, TypeOK, Locked
  <2>2. \A x \in Objects(c) : x \in Nat /\ x < o_ptr_end
    BY <1>2, ObjectsOf
  <2>3. CASE Filled
    <3>1. a + 1 \notin Fresh(c)
      BY <1>2, <1>11, <2>3
    <3>2. a + 1 \notin Objects(c)
      BY <1>2, <1>a, <1>b, <3>1 DEF Fresh
    <3>3. Start(c) \in Nat /\ o_num \in Nat /\ (a + 1 < Start(c) + o_num => a + 1 \in Objects(c))
      BY <1>2, ObjectsOf, SlabAssumption
    <3>4. o_ptr_end <= a + 1
      BY <1>2, <3>2, <3>3
    <3> QED
      BY <1>1, <1>12, <2>1, <2>3, <3>4 DEF CurInv
  <2>4. CASE ~Filled
    <3>1. PICK x \in Fresh(c) : x # a
      BY <1>2, <1>11, <2>4
    <3>2. x \in Objects(c) /\ x >= a
      BY <1>a, <1>b, <3>1 DEF Fresh
    <3>3. a + 1 < o_ptr_end
      BY <1>2, <2>2, <3>1, <3>2
    <3>4. Start(c) \in Nat /\ Start(c) <= a + 1
      BY <1>2, ObjectsOf
    <3> QED
      BY <1>1, <1>2, <1>9, <1>12, <2>1, <2>4, <3>3, <3>4 DEF CurInv
  <2> QED
    BY <2>3, <2>4
<1>17. ListsInv'
  <2> SUFFICES ASSUME NEW q \in Page
               PROVE  ListInv(q)'
    BY <1>12 DEF ListsInv
  <2>1. CASE q # c
    <3>1. free_list'[q] = free_list[q] /\ q # NULL /\ (q = o_cur' <=> q = o_cur)
      BY <1>1, <1>12, <1>a, <2>1, SlabAssumption
    <3>2. /\ q \in Range(o_full)' <=> q \in Range(o_full)
          /\ q \in Range(o_partials)' <=> q \in Range(o_partials)
      BY <1>12, <2>1
    <3> QED
      BY <1>3, <1>4, <1>8, <1>9, <2>1, <3>1, <3>2, SameLists
  <2>2. CASE q = c
    <3>1. ListInv(c)
      BY <1>2, <1>3
    <3>2. CASE Filled
      BY <1>1, <1>2, <1>8, <1>9, <1>12, <2>2, <3>2 DEF ListInv
    <3>3. CASE ~Filled
      BY <1>1, <1>2, <1>4, <1>8, <1>9, <1>12, <1>a, <2>2, <3>1, <3>3 DEF ListInv
    <3> QED
      BY <3>2, <3>3
  <2> QED
    BY <2>1, <2>2
<1>18. BugInv'
  BY <1>1 DEF IInv, BugInv
<1> QED
  BY <1>6, <1>14, <1>15, <1>16, <1>17, <1>18 DEF IInv

LEMMA EmptyRange ==
  ASSUME NEW S, NEW s \in Seq(S), Range(s) = {}
  PROVE  s = <<>>
<1>1. s # <<>> => Head(s) \in Range(s)
  BY TailQueue
<1> QED
  BY <1>1

\* alloc_slow takes a page for a new chunk, or panics.
LEMMA AllocSlowStep ==
  ASSUME IInv, Counting, NEW t \in Task, alloc_slow(t)
  PROVE  IInv'
<1>1. /\ pc[t] = "alloc" /\ ~HasFresh
      /\ UNCHANGED <<o_ptr_end, o_partials, o_full, free_list, inuse, memsem, live, obj, chk>>
  BY DEF alloc_slow, At
<1>2. CASE bug' = "out of memory" /\ UNCHANGED <<free_pages, o_cur, o_ptr, pc>>
  <2>1. TypeOK' /\ BugInv'
    BY <1>1, <1>2 DEF IInv, TypeOK, BugInv
  <2>2. LockInv' /\ HandsInv'
    BY <1>1, <1>2 DEF IInv, LockInv, HandsInv
  <2>3. \A c \in Page : UsedOf(c)' = UsedOf(c)
    BY <1>1, <1>2 DEF UsedOf, Used
  <2>4. PagesInv' /\ CurInv' /\ ListsInv'
    BY <1>1, <1>2, <2>3, QuietStep DEF cache
  <2> QED
    BY <2>1, <2>2, <2>4 DEF IInv
<1>3. ASSUME NEW p \in free_pages, free_pages' = free_pages \ {p}, o_cur' = p, o_ptr' = Start(p),
             pc' = [pc EXCEPT ![t] = "slow"], bug' = bug
      PROVE  IInv'
  <2>1. /\ p \in Page /\ pc \in [Task -> PCs] /\ LockInv /\ obj[t] = 0 /\ pc[t] \in Locked
        /\ free_list \in [Page -> Seq(Addr)] /\ o_ptr \in Nat /\ o_ptr_end \in Nat
        /\ \A q \in Page : PageInv(q) /\ ListInv(q) /\ q # NULL
    BY <1>1, <1>3, SlabAssumption
    DEF IInv, TypeOK, HandsInv, Without, PagesInv, ListsInv, Locked
  <2>2. /\ \A u \in Task : u # t => pc[u] \notin Locked
        /\ \A q : ~IsNew(q) /\ ~IsUnlinked(q)
    BY <1>1, <2>1, Alone
  <2>3. o_cur = NULL
    <3>1. \A u \in Task : pc[u] # "slow"
      BY <1>1, <2>2 DEF Locked
    <3>2. ~(o_ptr < o_ptr_end)
      BY <1>1, <2>1 DEF HasFresh
    <3> QED
      BY <3>1, <3>2 DEF IInv, CurInv
  <2>4. TypeOK'
    <3>1. Start(p) \in Nat
      BY <2>1, ObjectsOf
    <3> QED
      BY <1>1, <1>3, <2>1, <3>1 DEF IInv, TypeOK, PCs
  <2>5. LockInv'
    BY <1>1, <1>3, <2>1, StaysLocked DEF Locked
  <2>6. HandsInv'
    BY <1>1, <1>3, <2>1 DEF IInv, HandsInv, Without
  <2>7. \A q \in Page : UsedOf(q)' = UsedOf(q)
    <3>1. \A u \in Task : u # t => pc'[u] = pc[u]
      BY <1>3, <2>1
    <3> QED
      BY <1>1, <1>3, <2>1, <3>1, SameUsed
  <2>8. \A q \in Page : ~IsUnlinked(q)' /\ (IsNew(q)' <=> q = p)
    <3>1. pc'[t] = "slow" /\ pc'[t] \in Locked
      BY <1>3, <2>1 DEF Locked
    <3> QED
      BY <1>3, <2>5, <3>1, AloneNext
  <2>9. p \notin Chunks /\ p \in Chunks' /\ \A q \in Page : q # p => (q \in Chunks' <=> q \in Chunks)
    BY <1>3, <2>1 DEF Chunks
  <2>10. UsedOf(p) = {} /\ Range(free_list[p]) = {} /\ inuse[p] = Cardinality({})
    BY <2>1, <2>9 DEF PageInv
  <2>11. free_list[p] = <<>> /\ inuse[p] = 0
    <3>1. {} \in SUBSET Objects(p)
      OBVIOUS
    <3>2. Cardinality({}) = 0
      BY <2>1, <3>1 DEF Counting
    <3> QED
      BY <2>1, <2>10, <3>2, EmptyRange
  <2>12. Fresh(p)' = Objects(p) /\ \A q \in Page : q # p => Fresh(q)' = Fresh(q)
    <3>1. \A x \in Objects(p) : x >= Start(p)
      BY <2>1, ObjectsOf
    <3> QED
      BY <1>3, <2>1, <2>3, <3>1 DEF Fresh
  <2>13. PagesInv'
    <3> SUFFICES ASSUME NEW q \in Page
                 PROVE  PageInv(q)'
      BY DEF PagesInv
    <3>1. CASE q # p
      BY <1>1, <2>1, <2>2, <2>7, <2>8, <2>9, <2>12, <3>1, SamePage
    <3>2. CASE q = p
      <4>1. IsInjective(free_list[p])
        BY <2>1 DEF PageInv
      <4>2. UsedOf(p)' = {} /\ free_list'[p] = free_list[p] /\ inuse'[p] = inuse[p]
        BY <1>1, <2>1, <2>7, <2>10
      <4> QED
        BY <2>8, <2>9, <2>10, <2>11, <2>12, <3>2, <4>1, <4>2 DEF PageInv
    <3> QED
      BY <3>1, <3>2
  <2>14. CurInv'
    <3>1. /\ o_cur' # NULL /\ o_cur' \in Chunks' /\ Start(o_cur') <= o_ptr'
          /\ o_ptr' = Start(o_cur') /\ free_list'[o_cur'] = <<>>
      <4>1. Start(p) \in Nat
        BY <2>1, ObjectsOf
      <4> QED
        BY <1>1, <1>3, <2>1, <2>9, <2>11, <4>1
    <3>2. pc'[t] = "slow"
      BY <1>3, <2>1
    <3> QED
      BY <3>1, <3>2 DEF CurInv
  <2>15. ListsInv'
    <3>1. \A q \in Page : q # p => ListInv(q)'
      BY <1>1, <1>3, <2>1, <2>2, <2>3, <2>8, <2>9 DEF ListInv
    <3>2. ListInv(p)'
      BY <1>1, <1>3, <2>1, <2>8, <2>9, <2>11 DEF ListInv
    <3> QED
      BY <1>1, <3>1, <3>2 DEF IInv, ListsInv
  <2>16. BugInv'
    BY <1>3 DEF IInv, BugInv
  <2> QED
    BY <2>4, <2>5, <2>6, <2>13, <2>14, <2>15, <2>16 DEF IInv
<1> QED
  BY <1>2, <1>3 DEF alloc_slow, memchunk_get, Goto

\* ... and sets up its header.
LEMMA AllocSlowInitStep ==
  ASSUME IInv, NEW t \in Task, alloc_slow_init(t)
  PROVE  IInv'
<1>1. /\ pc[t] = "slow" /\ pc' = [pc EXCEPT ![t] = "fast"] /\ o_ptr_end' = o_ptr + o_num
      /\ free_list' = [free_list EXCEPT ![o_cur] = <<>>] /\ inuse' = [inuse EXCEPT ![o_cur] = 0]
      /\ UNCHANGED <<free_pages, o_ptr, o_cur, o_partials, o_full, memsem, live, obj, chk, bug>>
  BY DEF alloc_slow_init, At, Goto
<1>2. /\ pc \in [Task -> PCs] /\ LockInv /\ obj[t] = 0 /\ pc[t] \in Locked
      /\ free_list \in [Page -> Seq(Addr)] /\ inuse \in [Page -> 0 .. o_num] /\ o_ptr \in Nat
      /\ \A q \in Page : PageInv(q) /\ ListInv(q)
  BY <1>1 DEF IInv, TypeOK, HandsInv, Without, PagesInv, ListsInv, Locked
<1>3. /\ o_cur \in Page /\ o_cur \in Chunks /\ o_ptr = Start(o_cur) /\ free_list[o_cur] = <<>> /\ o_cur # NULL
  BY <1>1 DEF IInv, TypeOK, CurInv
<1>4. /\ \A u \in Task : u # t => pc[u] \notin Locked
      /\ \A q : (IsNew(q) <=> q = o_cur) /\ ~IsUnlinked(q)
  BY <1>1, <1>2, Alone
<1>5. inuse[o_cur] = 0
  BY <1>2, <1>3, <1>4 DEF PageInv
<1>6. free_list' = free_list /\ inuse' = inuse
  BY <1>1, <1>2, <1>3, <1>5
<1>7. TypeOK'
  <2>1. o_ptr_end' \in Nat
    BY <1>1, <1>2, SlabAssumption
  <2>2. pc' \in [Task -> PCs]
    BY <1>1, <1>2 DEF PCs
  <2> QED
    BY <1>1, <1>6, <2>1, <2>2 DEF IInv, TypeOK
<1>8. LockInv'
  BY <1>1, <1>2, StaysLocked DEF Locked
<1>9. HandsInv'
  BY <1>1, <1>2 DEF IInv, HandsInv, Without
<1>10. \A q \in Page : UsedOf(q)' = UsedOf(q)
  <2>1. \A u \in Task : pc'[u] \in {"out", "put", "freed"} <=> pc[u] \in {"out", "put", "freed"}
    BY <1>1, <1>2
  <2>2. obj' = obj /\ live' = live
    BY <1>1
  <2> QED
    BY <2>1, <2>2, SameUsed
<1>11. \A q \in Page : ~IsUnlinked(q)' /\ (IsNew(q)' <=> q = o_cur)
  <2>1. pc'[t] = "fast" /\ pc'[t] \in Locked
    BY <1>1, <1>2 DEF Locked
  <2> QED
    BY <1>1, <1>8, <2>1, AloneNext
<1>12. Chunks' = Chunks /\ \A q \in Page : Fresh(q)' = Fresh(q)
  BY <1>1 DEF Chunks, Fresh
<1>13. PagesInv'
  BY <1>2, <1>4, <1>6, <1>10, <1>11, <1>12, SamePage DEF PagesInv
<1>14. CurInv'
  <2>1. Start(o_cur) \in Nat /\ o_num \in Nat /\ o_num > 0
    BY <1>3, ObjectsOf, SlabAssumption
  <2> QED
    BY <1>1, <1>3, <1>6, <1>12, <2>1 DEF CurInv
<1>15. ListsInv'
  BY <1>1, <1>2, <1>4, <1>6, <1>11, <1>12 DEF IInv, ListsInv, ListInv
<1>16. BugInv'
  BY <1>1 DEF IInv, BugInv
<1> QED
  BY <1>7, <1>8, <1>9, <1>13, <1>14, <1>15, <1>16 DEF IInv

=============================================================================
