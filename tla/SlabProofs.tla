----------------------------- MODULE SlabProofs -----------------------------
(***************************************************************************)
(* The slab allocator: each step of objcache_free keeps the invariant, and *)
(* what follows from it.                                                   *)
(***************************************************************************)
EXTENDS SlabAllocProofs, FiniteSetTheorems

\* The object a task is about to free belongs to a chunk, is counted there and is
\* neither free nor fresh.
LEMMA InHand ==
  ASSUME IInv, Counting, NEW t \in Task, pc[t] \notin Without, pc[t] \notin {"put", "freed"},
         NEW c, c = virt_to_page(obj[t])
  PROVE  /\ c \in Page /\ c \in Chunks
         /\ obj[t] \in Objects(c) /\ obj[t] \in UsedOf(c)
         /\ inuse[c] \in 1 .. o_num
         /\ obj[t] \notin Range(free_list[c]) /\ obj[t] \notin Fresh(c)
<1>1. obj[t] \in Addr
  BY DEF IInv, HandsInv
<1>2. c \in Page /\ obj[t] \in Objects(c)
  BY <1>1, VirtToPage
<1>3. obj[t] \in UsedOf(c)
  BY <1>2, UsedMember DEF Without
<1>4. /\ c \in Chunks
      /\ inuse[c] = Cardinality(UsedOf(c))
      /\ obj[t] \notin Range(free_list[c]) /\ obj[t] \notin Fresh(c)
  BY <1>2, <1>3 DEF IInv, PagesInv, PageInv
<1>5. UsedOf(c) \in SUBSET Objects(c)
  BY DEF UsedOf
<1>6. Cardinality(UsedOf(c)) \in 0 .. o_num /\ Cardinality(UsedOf(c)) # 0
  BY <1>2, <1>3, <1>5 DEF Counting
<1>7. inuse[c] \in 1 .. o_num
  BY <1>4, <1>6, SlabAssumption
<1> QED
  BY <1>2, <1>3, <1>4, <1>7

\* The points of a free before sem_P.
Before == {"partials", "full", "ptr", "ptr_end", "wait"}

LEMMA BeforeStep ==
  ASSUME IInv, NEW t \in Task, NEW l \in Before, pc[t] \in Before,
         pc' = [pc EXCEPT ![t] = l], chk' \in [Task -> Node], BugInv',
         UNCHANGED <<free_pages, cache, memsem, live, obj>>
  PROVE  IInv'
<1>1. /\ pc \in [Task -> PCs] /\ Before \subseteq PCs
      /\ UNCHANGED <<o_ptr, o_ptr_end, o_cur, o_partials, o_full, free_list, inuse>>
  BY DEF IInv, TypeOK, Before, PCs, cache
<1>2. TypeOK'
  BY <1>1 DEF IInv, TypeOK, BugInv
<1>3. \A u \in Task : /\ pc'[u] \in Locked <=> pc[u] \in Locked
                      /\ pc'[u] \in Without <=> pc[u] \in Without
                      /\ pc'[u] \in {"out", "put", "freed"} <=> pc[u] \in {"out", "put", "freed"}
  BY <1>1 DEF Before, Locked, Without
<1>4. LockInv'
  BY <1>1, <1>3 DEF IInv, LockInv
<1>5. HandsInv'
  BY <1>1, <1>3 DEF IInv, HandsInv
<1>6. \A c \in Page : UsedOf(c)' = UsedOf(c)
  <2> SUFFICES ASSUME NEW c \in Page, NEW a
               PROVE  a \in UsedOf(c)' <=> a \in UsedOf(c)
    OBVIOUS
  <2> QED
    BY <1>1, <1>3, UsedMember, UsedMemberNext
<1>7. PagesInv' /\ CurInv' /\ ListsInv'
  BY <1>1, <1>6, QuietStep DEF Before
<1> QED
  BY <1>2, <1>4, <1>5, <1>7 DEF IInv

\* A walk goes from a node to a node.
LEMMA NextNodeType ==
  ASSUME TypeOK, NEW n \in Node
  PROVE  NextNode(n) \in Node
<1>1. ASSUME NEW s \in Seq(Page), NEW h \in {partials_head, full_head}
      PROVE  {(<<h>> \o s)[(i % Len(<<h>> \o s)) + 1] :
                i \in {j \in DOMAIN (<<h>> \o s) : (<<h>> \o s)[j] = n}} \subseteq Node
  <2> DEFINE r == <<h>> \o s
  <2>1. r \in Seq(Node)
    <3>1. <<h>> \in Seq(Node) /\ s \in Seq(Node)
      BY DEF Node
    <3> QED
      BY <3>1
  <2> HIDE DEF r
  <2>2. /\ Len(r) \in Nat /\ DOMAIN r = 1 .. Len(r)
        /\ \A i \in 1 .. Len(r) : r[i] \in Node
    BY <2>1
  <2>3. \A i \in DOMAIN r : (i % Len(r)) + 1 \in DOMAIN r
    BY <2>2
  <2> QED
    BY <2>2, <2>3 DEF r
<1> DEFINE A == {(<<partials_head>> \o o_partials)[(i % Len(<<partials_head>> \o o_partials)) + 1] :
                i \in {j \in DOMAIN (<<partials_head>> \o o_partials) :
                         (<<partials_head>> \o o_partials)[j] = n}}
           B == {(<<full_head>> \o o_full)[(i % Len(<<full_head>> \o o_full)) + 1] :
                i \in {j \in DOMAIN (<<full_head>> \o o_full) : (<<full_head>> \o o_full)[j] = n}}
<1>2. A \subseteq Node /\ B \subseteq Node
  BY <1>1 DEF TypeOK
<1>3. NextNode(n) = IF A \cup B = {} THEN n ELSE CHOOSE m \in A \cup B : TRUE
  BY DEF NextNode
<1> HIDE DEF A, B
<1> QED
  BY <1>2, <1>3

\* The walks over the lists.
LEMMA WalkStep ==
  ASSUME IInv, NEW t \in Task, is_on_partials(t) \/ is_on_full(t)
  PROVE  IInv'
<1>1. /\ pc \in [Task -> PCs] /\ chk \in [Task -> Node] /\ BugInv
      /\ partials_head \in Node /\ full_head \in Node /\ NextNode(chk[t]) \in Node
  BY NextNodeType DEF IInv, TypeOK, Node
<1>2. /\ UNCHANGED <<free_pages, cache, memsem, live, obj>>
      /\ pc[t] \in {"partials", "full"}
      /\ bug' \in {bug, "not on a list"}
      /\ pc' \in {pc, [pc EXCEPT ![t] = "ptr"], [pc EXCEPT ![t] = "full"]}
      /\ \E n \in Node : chk' \in {chk, [chk EXCEPT ![t] = n]}
  BY <1>1 DEF is_on_partials, is_on_full, slab_is_on, At, Goto
<1>3. BugInv'
  BY <1>1, <1>2 DEF BugInv
<1>4. chk' \in [Task -> Node]
  BY <1>1, <1>2
<1>5. \E l \in Before : pc' = [pc EXCEPT ![t] = l]
  <2>1. pc = [pc EXCEPT ![t] = pc[t]]
    BY <1>1
  <2> QED
    BY <1>2, <2>1 DEF Before
<1> QED
  BY <1>2, <1>3, <1>4, <1>5, BeforeStep DEF Before

\* The tests at the start of do_cache_free.
LEMMA TestsStep ==
  ASSUME IInv, Counting, NEW t \in Task, free_tests(t) \/ free_tests_end(t)
  PROVE  IInv'
<1>1. CASE free_tests(t)
  <2> DEFINE c == virt_to_page(obj[t])
  <2>1. pc[t] = "ptr"
    BY <1>1 DEF free_tests, At
  <2>2. inuse[c] \in 1 .. o_num
    BY <2>1, InHand DEF Without
  <2>3. ~(inuse[c] = 0 \/ inuse[c] > o_num)
    BY <2>2, SlabAssumption
  <2>4. bug' = bug /\ \E l \in Before : pc' = [pc EXCEPT ![t] = l]
    BY <1>1, <2>3 DEF free_tests, Goto, Before
  <2>5. BugInv' /\ chk' \in [Task -> Node] /\ UNCHANGED <<free_pages, cache, memsem, live, obj>>
    BY <1>1, <2>4 DEF free_tests, IInv, TypeOK, BugInv
  <2> QED
    BY <2>1, <2>4, <2>5, BeforeStep DEF Before
<1>2. CASE free_tests_end(t)
  <2>1. /\ pc[t] = "ptr_end" /\ bug' \in {bug, "never allocated"}
        /\ pc' = [pc EXCEPT ![t] = "wait"] /\ chk' = chk
        /\ UNCHANGED <<free_pages, cache, memsem, live, obj>>
    BY <1>2 DEF free_tests_end, At, Goto
  <2>2. BugInv' /\ chk' \in [Task -> Node]
    BY <2>1 DEF IInv, TypeOK, BugInv
  <2> QED
    BY <2>1, <2>2, BeforeStep DEF Before
<1> QED
  BY <1>1, <1>2

\* A user gives an object back.
LEMMA ObjcacheFreeStep ==
  ASSUME IInv, NEW t \in Task, objcache_free(t)
  PROVE  IInv'
<1>1. PICK a \in live :
        /\ pc[t] = "out" /\ live' = live \ {a} /\ obj' = [obj EXCEPT ![t] = a]
        /\ pc' \in {[pc EXCEPT ![t] = "ptr"], [pc EXCEPT ![t] = "partials"]}
        /\ UNCHANGED <<free_pages, cache, memsem, chk, bug>>
        /\ UNCHANGED <<o_ptr, o_ptr_end, o_cur, o_partials, o_full, free_list, inuse>>
  BY DEF objcache_free, At, Goto, cache
<1>2. /\ pc \in [Task -> PCs] /\ obj \in [Task -> Addr \cup {0}] /\ live \subseteq Addr
      /\ 0 \notin Addr /\ obj[t] = 0
      /\ \A u \in Task : obj[u] # a
  <2>1. live \subseteq Addr /\ 0 \notin Addr
    BY VirtToPage DEF IInv, TypeOK
  <2>2. \A u \in Task : obj[u] = 0 \/ obj[u] \notin live
    BY DEF IInv, HandsInv
  <2> QED
    BY <1>1, <2>1, <2>2 DEF IInv, TypeOK, HandsInv, Without
<1>3. TypeOK'
  BY <1>1, <1>2 DEF IInv, TypeOK, PCs
<1>4. LockInv'
  BY <1>1, <1>2 DEF IInv, LockInv, Locked
<1>5. HandsInv'
  BY <1>1, <1>2 DEF IInv, HandsInv, Without
<1>6. \A c \in Page : UsedOf(c)' = UsedOf(c)
  <2> SUFFICES ASSUME NEW c \in Page, NEW x
               PROVE  x \in UsedOf(c)' <=> x \in UsedOf(c)
    OBVIOUS
  <2> QED
    BY <1>1, <1>2, UsedMember, UsedMemberNext
<1>7. PagesInv' /\ CurInv' /\ ListsInv'
  BY <1>1, <1>2, <1>6, QuietStep
<1>8. BugInv'
  BY <1>1 DEF IInv, BugInv
<1> QED
  BY <1>3, <1>4, <1>5, <1>7, <1>8 DEF IInv

\* sem_P of do_cache_free: the object is on no free list.
LEMMA FreePStep ==
  ASSUME IInv, Counting, NEW t \in Task, free_P(t)
  PROVE  IInv'
<1>1. /\ pc[t] = "wait" /\ memsem = NULL /\ memsem' = t /\ pc' = [pc EXCEPT ![t] = "free"]
      /\ UNCHANGED <<free_pages, cache, live, obj, chk>>
      /\ UNCHANGED <<o_ptr, o_ptr_end, o_cur, o_partials, o_full, free_list, inuse>>
  BY DEF free_P, At, Goto, cache
<1>2. bug' = bug
  <2>1. obj[t] \notin Range(free_list[virt_to_page(obj[t])])
    BY <1>1, InHand DEF Without
  <2> QED
    BY <2>1 DEF free_P
<1>3. pc \in [Task -> PCs] /\ NULL \notin Task
  BY SlabAssumption DEF IInv, TypeOK
<1>4. TypeOK'
  BY <1>1, <1>2, <1>3 DEF IInv, TypeOK, PCs
<1>5. LockInv'
  BY <1>1, <1>3 DEF IInv, LockInv, Locked
<1>6. HandsInv'
  BY <1>1, <1>3 DEF IInv, HandsInv, Without
<1>7. \A c \in Page : UsedOf(c)' = UsedOf(c)
  <2> SUFFICES ASSUME NEW c \in Page, NEW a
               PROVE  a \in UsedOf(c)' <=> a \in UsedOf(c)
    OBVIOUS
  <2> QED
    BY <1>1, <1>3, UsedMember, UsedMemberNext
<1>8. PagesInv' /\ CurInv' /\ ListsInv'
  BY <1>1, <1>3, <1>7, QuietStep
<1>9. BugInv'
  BY <1>2 DEF IInv, BugInv
<1> QED
  BY <1>4, <1>5, <1>6, <1>8, <1>9 DEF IInv

-----------------------------------------------------------------------------
(* Steps under the semaphore.                                              *)

\* The object goes to the free list of its chunk.
LEMMA DoCacheFreeStep ==
  ASSUME IInv, Counting, NEW t \in Task, do_cache_free(t)
  PROVE  IInv'
<1>a. PICK a : a = obj[t]
  OBVIOUS
<1>b. PICK c : c = virt_to_page(a)
  OBVIOUS
<1> DEFINE first == free_list[c] = <<>>
           P1 == IF first THEN list_move(c, o_partials) ELSE o_partials
<1>1. /\ pc[t] = "free"
      /\ free_list' = [free_list EXCEPT ![c] = <<a>> \o free_list[c]]
      /\ inuse' = [inuse EXCEPT ![c] = inuse[c] - 1]
      /\ bug' = IF first /\ c # o_cur /\ inuse[c] # o_num THEN "not full" ELSE bug
      /\ o_partials' = IF inuse[c] - 1 = 0 THEN list_del(P1, c) ELSE P1
      /\ o_full' = IF first THEN list_del(o_full, c) ELSE o_full
      /\ pc' = [pc EXCEPT ![t] = IF inuse[c] - 1 = 0 THEN "put" ELSE "freed"]
      /\ UNCHANGED <<free_pages, o_ptr, o_ptr_end, o_cur, memsem, live, obj, chk>>
  BY <1>a, <1>b DEF do_cache_free, At, Goto, Dropped, IsLast
<1>2. /\ c \in Page /\ c \in Chunks /\ a \in Objects(c) /\ a \in UsedOf(c) /\ inuse[c] \in 1 .. o_num
      /\ a \notin Range(free_list[c]) /\ a \notin Fresh(c)
  BY <1>1, <1>a, <1>b, InHand DEF Without
<1>3. /\ free_list \in [Page -> Seq(Addr)] /\ inuse \in [Page -> 0 .. o_num] /\ pc \in [Task -> PCs]
      /\ o_partials \in Seq(Page) /\ o_full \in Seq(Page) /\ obj \in [Task -> Addr \cup {0}]
      /\ IsInjective(o_partials) /\ IsInjective(o_full) /\ LockInv /\ pc[t] \in Locked
      /\ \A q \in Page : PageInv(q) /\ ListInv(q)
      /\ a \in Addr /\ a \notin live /\ \A u \in Task : u # t => obj[u] # a
  <2>1. a \in Addr /\ a \notin live /\ 0 \notin Addr
    BY <1>1, <1>a, VirtToPage DEF IInv, HandsInv, Without
  <2>2. \A u \in Task : u # t => obj[u] # a
    BY <1>a, <2>1 DEF IInv, HandsInv
  <2> QED
    BY <1>1, <2>1, <2>2 DEF IInv, TypeOK, PagesInv, ListsInv, Locked
<1>4. /\ \A u \in Task : u # t => pc[u] \notin Locked
      /\ \A q : ~IsNew(q) /\ ~IsUnlinked(q)
  BY <1>1, <1>3, Alone
<1>5. LockInv' /\ pc' \in [Task -> PCs]
  BY <1>1, <1>3, StaysLocked DEF Locked, PCs
<1>6. HandsInv'
  BY <1>1, <1>3 DEF IInv, HandsInv, Without
<1>7. ASSUME NEW q \in Page, NEW x
      PROVE  x \in UsedOf(q)' <=> x \in UsedOf(q) /\ x # a
  <2>1. pc'[t] \in {"put", "freed"} /\ \A u \in Task : u # t => pc'[u] = pc[u]
    BY <1>1, <1>3
  <2>2. pc[t] \notin {"out", "put", "freed"} /\ obj' = obj /\ live' = live
    BY <1>1
  <2> QED
    <3> DEFINE Else == \E u \in Task : u # t /\ pc[u] \notin {"out", "put", "freed"} /\ obj[u] = x
    <3>1. x \in UsedOf(q) <=> x \in Objects(q) /\ (x \in live \/ Else \/ x = a)
      BY <1>a, <2>2, UsedMember
    <3>2. x \in UsedOf(q)' <=> x \in Objects(q) /\ (x \in live \/ Else)
      BY <2>1, <2>2, UsedMemberNext
    <3>3. Else => x # a
      BY <1>3
    <3> HIDE DEF Else
    <3> QED
      BY <1>3, <3>1, <3>2, <3>3
<1>8. UsedOf(c)' = UsedOf(c) \ {a} /\ \A q \in Page : q # c => UsedOf(q)' = UsedOf(q)
  <2>1. \A q \in Page : q # c => a \notin UsedOf(q)
    BY <1>2, OnePage DEF UsedOf
  <2> QED
    BY <1>2, <1>7, <2>1
<1>9. /\ Cardinality(UsedOf(c)') = inuse[c] - 1 /\ inuse[c] - 1 \in 0 .. o_num
  BY <1>2, <1>3, <1>8, CountDown
<1>10. \A q \in Page : ~IsNew(q)' /\ (IsUnlinked(q)' <=> q = c /\ inuse[c] - 1 = 0)
  <2>1. pc'[t] \in Locked /\ pc'[t] \notin {"slow", "fast"} /\ (pc'[t] = "put" <=> inuse[c] - 1 = 0)
    BY <1>1, <1>3 DEF Locked
  <2>2. virt_to_page(obj'[t]) = c
    BY <1>1, <1>a, <1>b
  <2> QED
    BY <1>5, <2>1, <2>2, AloneNext
<1>11. Chunks' = Chunks /\ \A q \in Page : Fresh(q)' = Fresh(q)
  BY <1>1 DEF Chunks, Fresh
<1>12. /\ <<a>> \o free_list[c] \in Seq(Addr) /\ <<a>> \o free_list[c] # <<>>
       /\ IsInjective(<<a>> \o free_list[c])
       /\ Range(<<a>> \o free_list[c]) = Range(free_list[c]) \cup {a}
  <2>1. free_list[c] \in Seq(Addr) /\ IsInjective(free_list[c])
    BY <1>2, <1>3 DEF PageInv
  <2> QED
    BY <1>2, <1>3, <2>1, PushFront, ZenonT(30)
<1>13. /\ o_full' \in Seq(Page) /\ IsInjective(o_full') /\ Range(o_full') = Range(o_full) \ {c}
  <2>1. CASE first
    BY <1>1, <1>3, <2>1, ListDel
  <2>2. CASE ~first
    <3>1. c \notin Range(o_full)
      BY <1>2, <1>3, <2>2 DEF ListInv
    <3> QED
      BY <1>1, <1>3, <2>2, <3>1
  <2> QED
    BY <2>1, <2>2
<1>14. P1 \in Seq(Page) /\ IsInjective(P1) /\ Range(P1) = Range(o_partials) \cup {c}
  <2>1. CASE first
    BY <1>2, <1>3, <2>1, ListMove
  <2>2. CASE ~first
    <3>1. c \in Range(o_partials)
      BY <1>2, <1>3, <1>4, <2>2 DEF ListInv
    <3> QED
      BY <1>3, <2>2, <3>1
  <2> QED
    BY <2>1, <2>2
<1> HIDE DEF P1
<1>15. /\ o_partials' \in Seq(Page) /\ IsInjective(o_partials')
       /\ Range(o_partials') = IF inuse[c] - 1 = 0 THEN Range(o_partials) \ {c}
                               ELSE Range(o_partials) \cup {c}
  <2>1. CASE inuse[c] - 1 = 0
    <3>1. o_partials' = list_del(P1, c)
      BY <1>1, <2>1
    <3>2. /\ o_partials' \in Seq(Page) /\ IsInjective(o_partials')
          /\ Range(o_partials') = Range(P1) \ {c}
      BY <1>14, <3>1, ListDel
    <3> QED
      BY <1>14, <2>1, <3>2
  <2>2. CASE inuse[c] - 1 # 0
    BY <1>1, <1>14, <2>2
  <2> QED
    BY <2>1, <2>2
<1>16. bug' = bug
  <2> SUFFICES ASSUME first, c # o_cur
               PROVE  inuse[c] = o_num
    BY <1>1
  <2>1. Range(free_list[c]) = {}
    BY DEF Range
  <2>2. Fresh(c) = {}
    BY DEF Fresh
  <2>3. UsedOf(c) = Objects(c) /\ inuse[c] = Cardinality(UsedOf(c))
    BY <1>2, <1>3, <2>1, <2>2 DEF PageInv
  <2>4. Objects(c) \in SUBSET Objects(c)
    OBVIOUS
  <2> QED
    BY <1>2, <1>3, <2>3, <2>4 DEF Counting
<1> HIDE DEF first
<1>17. TypeOK'
  <2>1. inuse' \in [Page -> 0 .. o_num] /\ free_list' \in [Page -> Seq(Addr)]
    BY <1>1, <1>2, <1>3, <1>9, <1>12
  <2> QED
    BY <1>1, <1>5, <1>13, <1>15, <1>16, <2>1 DEF IInv, TypeOK
<1>18. PagesInv'
  <2> SUFFICES ASSUME NEW q \in Page
               PROVE  PageInv(q)'
    BY DEF PagesInv
  <2>1. CASE q # c
    <3>1. free_list'[q] = free_list[q] /\ inuse'[q] = inuse[q]
      BY <1>1, <1>3, <2>1
    <3> QED
      BY <1>3, <1>4, <1>8, <1>10, <1>11, <2>1, <3>1, SamePage
  <2>2. CASE q = c
    <3>1. free_list'[c] = <<a>> \o free_list[c] /\ inuse'[c] = inuse[c] - 1
      BY <1>1, <1>2, <1>3
    <3>2. /\ UsedOf(c) \cap Range(free_list[c]) = {} /\ UsedOf(c) \cap Fresh(c) = {}
          /\ Range(free_list[c]) \cap Fresh(c) = {}
          /\ UsedOf(c) \cup Range(free_list[c]) \cup Fresh(c) = Objects(c)
      BY <1>2, <1>3 DEF PageInv
    <3>3. /\ (UsedOf(c) \ {a}) \cap (Range(free_list[c]) \cup {a}) = {} /\ (UsedOf(c) \ {a}) \cap Fresh(c) = {}
          /\ (Range(free_list[c]) \cup {a}) \cap Fresh(c) = {}
          /\ (UsedOf(c) \ {a}) \cup (Range(free_list[c]) \cup {a}) \cup Fresh(c) = Objects(c)
      BY <1>2, <3>2, GiveFree
    <3>4. UsedOf(c)' = UsedOf(c) \ {a} /\ Range(free_list'[c]) = Range(free_list[c]) \cup {a} /\ Fresh(c)' = Fresh(c)
      BY <1>2, <1>8, <1>11, <1>12, <3>1
    <3>5. IsInjective(free_list'[c])
      BY <1>12, <3>1
    <3> QED
      BY <1>2, <1>9, <1>10, <1>11, <2>2, <3>1, <3>3, <3>4, <3>5 DEF PageInv
  <2> QED
    BY <2>1, <2>2
<1>19. CurInv'
  <2>1. \A u \in Task : pc'[u] \notin {"slow", "fast"} /\ pc[u] # "slow"
    BY <1>1, <1>3, <1>4 DEF Locked
  <2> QED
    BY <1>1, <1>11, <2>1 DEF IInv, CurInv
<1>20. ListsInv'
  <2> SUFFICES ASSUME NEW q \in Page
               PROVE  ListInv(q)'
    BY <1>13, <1>15 DEF ListsInv
  <2>1. CASE q # c
    <3>1. free_list'[q] = free_list[q] /\ o_cur' = o_cur
      BY <1>1, <1>3, <2>1
    <3>2. /\ q \in Range(o_full)' <=> q \in Range(o_full)
          /\ q \in Range(o_partials)' <=> q \in Range(o_partials)
      BY <1>13, <1>15, <2>1
    <3> QED
      BY <1>3, <1>4, <1>10, <1>11, <2>1, <3>1, <3>2, SameLists
  <2>2. CASE q = c
    <3>1. free_list'[c] # <<>> /\ o_cur' = o_cur
      BY <1>1, <1>2, <1>3, <1>12
    <3>2. /\ c \notin Range(o_full)'
          /\ c \in Range(o_partials)' <=> inuse[c] - 1 # 0
      BY <1>13, <1>15
    <3> QED
      BY <1>2, <1>10, <1>11, <2>2, <3>1, <3>2 DEF ListInv
  <2> QED
    BY <2>1, <2>2
<1>21. BugInv'
  BY <1>16 DEF IInv, BugInv
<1> QED
  BY <1>5, <1>6, <1>17, <1>18, <1>19, <1>20, <1>21 DEF IInv

\* The last object of a chunk is back: its page goes to the page allocator.
LEMMA CacheFreeLastStep ==
  ASSUME IInv, Counting, NEW t \in Task, cache_free_last(t)
  PROVE  IInv'
<1>a. PICK c : c = virt_to_page(obj[t])
  OBVIOUS
<1>1. /\ pc[t] = "put" /\ pc' = [pc EXCEPT ![t] = "freed"]
      /\ free_pages' = free_pages \cup {c} /\ free_list' = [free_list EXCEPT ![c] = <<>>]
      /\ IF o_cur = c THEN o_cur' = NULL /\ o_ptr' = 0 /\ o_ptr_end' = 0
         ELSE UNCHANGED <<o_cur, o_ptr, o_ptr_end>>
      /\ UNCHANGED <<o_partials, o_full, inuse, memsem, live, obj, chk, bug>>
  BY <1>a DEF cache_free_last, memchunk_put, At, Goto
<1>2. /\ free_list \in [Page -> Seq(Addr)] /\ pc \in [Task -> PCs] /\ LockInv /\ pc[t] \in Locked
      /\ \A q \in Page : PageInv(q) /\ ListInv(q) /\ q # NULL
      /\ c \in Page /\ o_cur \in Page \cup {NULL}
  <2>1. c \in Page
    BY <1>1, <1>a, VirtToPage DEF IInv, HandsInv, Without
  <2> QED
    BY <1>1, <2>1, SlabAssumption DEF IInv, TypeOK, PagesInv, ListsInv, Locked
<1>3. /\ \A u \in Task : u # t => pc[u] \notin Locked
      /\ \A q : ~IsNew(q) /\ (IsUnlinked(q) <=> q = c)
  BY <1>1, <1>2, <1>a, Alone
<1>4. c \in Chunks /\ c \notin Range(o_partials) /\ c \notin Range(o_full) /\ inuse[c] = 0
  BY <1>2, <1>3 DEF ListInv, PageInv
<1>5. UsedOf(c) = {}
  <2>1. UsedOf(c) \in SUBSET Objects(c)
    BY DEF UsedOf
  <2>2. Cardinality(UsedOf(c)) = 0
    BY <1>2, <1>4 DEF PageInv
  <2> QED
    BY <1>2, <2>1, <2>2 DEF Counting
<1>6. TypeOK'
  <2>1. free_list' \in [Page -> Seq(Addr)] /\ pc' \in [Task -> PCs]
    BY <1>1, <1>2 DEF PCs
  <2>2. o_cur' \in Page \cup {NULL} /\ o_ptr' \in Nat /\ o_ptr_end' \in Nat
    <3>1. CASE o_cur = c
      BY <1>1, <3>1
    <3>2. CASE o_cur # c
      BY <1>1, <3>2 DEF IInv, TypeOK
    <3> QED
      BY <3>1, <3>2
  <2> QED
    BY <1>1, <1>2, <2>1, <2>2 DEF IInv, TypeOK
<1>7. LockInv'
  BY <1>1, <1>2, StaysLocked DEF Locked
<1>8. HandsInv'
  BY <1>1, <1>2 DEF IInv, HandsInv, Without
<1>9. \A q \in Page : UsedOf(q)' = UsedOf(q)
  <2>1. \A u \in Task : pc'[u] \in {"out", "put", "freed"} <=> pc[u] \in {"out", "put", "freed"}
    BY <1>1, <1>2
  <2>2. obj' = obj /\ live' = live
    BY <1>1
  <2> QED
    BY <2>1, <2>2, SameUsed
<1>10. \A q \in Page : ~IsNew(q)' /\ ~IsUnlinked(q)'
  <2>1. pc'[t] = "freed" /\ pc'[t] \in Locked
    BY <1>1, <1>2 DEF Locked
  <2> QED
    BY <1>7, <2>1, AloneNext
<1>11. c \notin Chunks' /\ \A q \in Page : q # c => (q \in Chunks' <=> q \in Chunks)
  BY <1>1, <1>2 DEF Chunks
<1>12. c # o_cur' /\ \A q \in Page : q # c => (q = o_cur' <=> q = o_cur)
  BY <1>1, <1>2
<1>13. Fresh(c)' = {} /\ \A q \in Page : q # c => Fresh(q)' = Fresh(q)
  BY <1>1, <1>12 DEF Fresh
<1>14. PagesInv'
  <2> SUFFICES ASSUME NEW q \in Page
               PROVE  PageInv(q)'
    BY DEF PagesInv
  <2>1. CASE q # c
    <3>1. free_list'[q] = free_list[q] /\ inuse'[q] = inuse[q]
      BY <1>1, <1>2, <2>1
    <3> QED
      BY <1>2, <1>3, <1>9, <1>10, <1>11, <1>13, <2>1, <3>1, SamePage
  <2>2. CASE q = c
    <3>1. free_list'[c] = <<>> /\ inuse'[c] = Cardinality(UsedOf(c)) /\ UsedOf(c)' = {}
      BY <1>1, <1>2, <1>5, <1>9 DEF PageInv
    <3>2. IsInjective(<<>>) /\ Range(<<>>) = {}
      BY DEF IsInjective, Range
    <3> QED
      BY <1>5, <1>11, <1>13, <2>2, <3>1, <3>2 DEF PageInv
  <2> QED
    BY <2>1, <2>2
<1>15. CurInv'
  <2>1. \A u \in Task : pc'[u] \notin {"slow", "fast"} /\ pc[u] # "slow"
    BY <1>1, <1>2, <1>3 DEF Locked
  <2>2. CASE o_cur = c
    BY <1>1, <2>1, <2>2 DEF CurInv
  <2>3. CASE o_cur # c
    BY <1>1, <1>2, <1>11, <2>1, <2>3 DEF IInv, CurInv
  <2> QED
    BY <2>2, <2>3
<1>16. ListsInv'
  <2> SUFFICES ASSUME NEW q \in Page
               PROVE  ListInv(q)'
    BY <1>1 DEF IInv, ListsInv
  <2>1. CASE q # c
    <3>1. free_list'[q] = free_list[q] /\ o_partials' = o_partials /\ o_full' = o_full
      BY <1>1, <1>2, <2>1
    <3> QED
      BY <1>2, <1>3, <1>10, <1>11, <1>12, <2>1, <3>1, SameLists
  <2>2. CASE q = c
    BY <1>1, <1>2, <1>4, <1>10, <1>11, <1>12, <2>2 DEF ListInv
  <2> QED
    BY <2>1, <2>2
<1>17. BugInv'
  BY <1>1 DEF IInv, BugInv
<1> QED
  BY <1>6, <1>7, <1>8, <1>14, <1>15, <1>16, <1>17 DEF IInv

\* A page holds o_num objects.
LEMMA ObjectsCount ==
  ASSUME NEW p \in Page
  PROVE  IsFiniteSet(Objects(p)) /\ Cardinality(Objects(p)) = o_num
<1>1. Start(p) \in Nat /\ o_num \in Nat /\ o_num > 0
  BY ObjectsOf, SlabAssumption
<1> DEFINE lo == Start(p)
           hi == Start(p) + o_num - 1
<1>2. lo \in Int /\ hi \in Int /\ lo <= hi /\ hi - lo + 1 = o_num
  BY <1>1
<1>3. \A a : a \in Objects(p) <=> a \in lo .. hi
  BY <1>1, ObjectsOf
<1> HIDE DEF lo, hi
<1>4. IsFiniteSet(lo .. hi) /\ Cardinality(lo .. hi) = IF lo > hi THEN 0 ELSE hi - lo + 1
  BY <1>2, FS_Interval
<1>5. Objects(p) = lo .. hi
  BY <1>3
<1> QED
  BY <1>2, <1>4, <1>5

LEMMA CountingHolds == Counting
<1> SUFFICES ASSUME NEW c \in Page, NEW S \in SUBSET Objects(c)
             PROVE  /\ Cardinality(S) \in 0 .. o_num
                    /\ Cardinality(S) = 0 <=> S = {}
                    /\ Cardinality(S) = o_num <=> S = Objects(c)
                    /\ \A a \in Objects(c) \ S : Cardinality(S \cup {a}) = Cardinality(S) + 1
  BY DEF Counting
<1>1. IsFiniteSet(Objects(c)) /\ Cardinality(Objects(c)) = o_num /\ o_num \in Nat
  BY ObjectsCount, SlabAssumption
<1>2. IsFiniteSet(S) /\ Cardinality(S) <= o_num /\ (Cardinality(S) = o_num => S = Objects(c))
  BY <1>1, FS_Subset
<1>3. Cardinality(S) \in Nat
  BY <1>2, FS_CardinalityType
<1>4. Cardinality(S) = 0 <=> S = {}
  BY <1>2, FS_EmptySet
<1>5. \A a \in Objects(c) \ S : Cardinality(S \cup {a}) = Cardinality(S) + 1
  BY <1>2, FS_AddElement
<1> QED
  BY <1>1, <1>2, <1>3, <1>4, <1>5

LEMMA InitIInv == Init => IInv
<1> SUFFICES ASSUME Init PROVE IInv
  OBVIOUS
<1>1. TypeOK
  <2>1. o_num \in Nat /\ 0 \in 0 .. o_num /\ <<>> \in Seq(Addr) /\ <<>> \in Seq(Page)
    BY SlabAssumption
  <2> QED
    BY <2>1 DEF Init, TypeOK, PCs, Node
<1>2. /\ \A t \in Task : pc[t] = "out" /\ obj[t] = 0
      /\ memsem = NULL /\ NULL \notin Task /\ NULL \notin Page
  BY SlabAssumption DEF Init
<1>3. LockInv /\ HandsInv /\ BugInv
  BY <1>2 DEF Init, LockInv, HandsInv, BugInv, Locked, Without
<1>4. IsInjective(<<>>) /\ Range(<<>>) = {}
  BY DEF IsInjective, Range
<1>5. \A c \in Page : /\ UsedOf(c) = {} /\ Fresh(c) = {} /\ c \notin Chunks /\ c # o_cur
                      /\ free_list[c] = <<>> /\ inuse[c] = Cardinality({})
  BY <1>2, FS_EmptySet DEF Init, UsedOf, Used, Fresh, Chunks
<1>6. PagesInv
  BY <1>4, <1>5 DEF PagesInv, PageInv
<1>7. CurInv
  BY <1>2 DEF Init, CurInv
<1>8. ListsInv
  <2>1. \A c \in Page : ~IsUnlinked(c)
    BY <1>2 DEF IsUnlinked
  <2>2. IsInjective(o_partials) /\ IsInjective(o_full) /\ Range(o_partials) = {} /\ Range(o_full) = {}
    BY <1>4 DEF Init
  <2> QED
    BY <1>5, <2>1, <2>2 DEF ListsInv, ListInv
<1> QED
  BY <1>1, <1>3, <1>6, <1>7, <1>8 DEF IInv

LEMMA NextIInv == IInv /\ [Next]_vars => IInv'
<1> SUFFICES ASSUME IInv, [Next]_vars PROVE IInv'
  OBVIOUS
<1>1. ASSUME NEW t \in Task, AllocStep(t) PROVE IInv'
  BY <1>1, CountingHolds, AllocPStep, AllocFromPartialStep, AllocFastStep, AllocSlowStep,
     AllocSlowInitStep, AllocVStep
  DEF AllocStep
<1>2. ASSUME NEW t \in Task, FreeStep(t) PROVE IInv'
  BY <1>2, CountingHolds, ObjcacheFreeStep, WalkStep, TestsStep, FreePStep, DoCacheFreeStep,
     CacheFreeLastStep, FreeVStep
  DEF FreeStep
<1>3. CASE UNCHANGED vars
  <2>1. \A c \in Page : UsedOf(c)' = UsedOf(c)
    BY <1>3 DEF vars, UsedOf, Used
  <2>2. PagesInv' /\ CurInv' /\ ListsInv'
    BY <1>3, <2>1, QuietStep DEF vars
  <2>3. TypeOK' /\ LockInv' /\ HandsInv' /\ BugInv'
    BY <1>3 DEF IInv, TypeOK, LockInv, HandsInv, BugInv, vars, cache
  <2> QED
    BY <2>2, <2>3 DEF IInv
<1> QED
  BY <1>1, <1>2, <1>3 DEF Next, halted

\* Every reachable state satisfies the inductive invariant.
THEOREM Invariance == Spec => []IInv
BY InitIInv, NextIInv, PTL DEF Spec

\* The slab allocator's state keeps its types, the counts their bounds.
THEOREM TypeCorrect == Spec => []TypeOK
<1>1. IInv => TypeOK
  BY DEF IInv
<1> QED
  BY <1>1, Invariance, PTL

\* do_cache_alloc and do_cache_free leave each chunk on the list its free
\* list calls for whenever the semaphore is free.
THEOREM ListsAgree == Spec => []ListsMatch
<1>1. IInv => ListsMatch
  <2> SUFFICES ASSUME IInv, memsem = NULL
               PROVE  /\ IsInjective(o_partials) /\ IsInjective(o_full)
                      /\ Range(o_full) = {c \in Chunks : c # o_cur /\ free_list[c] = <<>>}
                      /\ Range(o_partials) \ {o_cur} = {c \in Chunks \ {o_cur} : free_list[c] # <<>>}
                      /\ o_cur # NULL => (free_list[o_cur] # <<>> => o_cur \in Range(o_partials))
                      /\ o_cur # NULL <=> o_ptr < o_ptr_end
    BY DEF ListsMatch
  <2>1. \A t \in Task : pc[t] \notin Locked
    BY SlabAssumption DEF IInv, LockInv
  <2>2. \A c : ~IsNew(c) /\ ~IsUnlinked(c)
    BY <2>1 DEF IsNew, IsUnlinked, Locked
  <2>3. /\ Range(o_partials) \subseteq Page /\ Range(o_full) \subseteq Page
        /\ Chunks \subseteq Page /\ o_cur \in Page \cup {NULL}
        /\ o_ptr \in Nat /\ o_ptr_end \in Nat
    <3>1. o_partials \in Seq(Page) /\ o_full \in Seq(Page)
      BY DEF IInv, TypeOK
    <3>2. Range(o_partials) \subseteq Page /\ Range(o_full) \subseteq Page
      BY <3>1 DEF Range
    <3> QED
      BY <3>2 DEF IInv, TypeOK, Chunks
  <2>4. \A c \in Page : ListInv(c)
    BY DEF IInv, ListsInv
  <2>5. IsInjective(o_partials) /\ IsInjective(o_full)
    BY DEF IInv, ListsInv
  <2>6. Range(o_full) = {c \in Chunks : c # o_cur /\ free_list[c] = <<>>}
    BY <2>3, <2>4 DEF ListInv
  <2>7. Range(o_partials) \ {o_cur} = {c \in Chunks \ {o_cur} : free_list[c] # <<>>}
    BY <2>2, <2>3, <2>4 DEF ListInv
  <2>8. o_cur # NULL => (free_list[o_cur] # <<>> => o_cur \in Range(o_partials))
    BY <2>2, <2>3, <2>4 DEF ListInv
  <2>9. o_cur # NULL <=> o_ptr < o_ptr_end
    BY <2>1, <2>3 DEF IInv, CurInv, Locked
  <2> QED
    BY <2>5, <2>6, <2>7, <2>8, <2>9
<1> QED
  BY <1>1, Invariance, PTL

\* Each object of a chunk is in use, on its free list or fresh, never two of
\* them, and inuse counts the first: no object is handed out twice or lost.
THEOREM EveryObjectOnce == Spec => []ObjectsOnce
<1>1. IInv => ObjectsOnce
  <2> SUFFICES ASSUME IInv, memsem = NULL, NEW c \in Chunks
               PROVE  /\ IsInjective(free_list[c])
                      /\ inuse[c] = Cardinality(UsedOf(c)) /\ inuse[c] > 0
                      /\ UsedOf(c) \cap Range(free_list[c]) = {}
                      /\ UsedOf(c) \cap Fresh(c) = {}
                      /\ Range(free_list[c]) \cap Fresh(c) = {}
                      /\ UsedOf(c) \cup Range(free_list[c]) \cup Fresh(c) = Objects(c)
    BY DEF ObjectsOnce, UsedOf
  <2>1. \A t \in Task : pc[t] \notin Locked
    BY SlabAssumption DEF IInv, LockInv
  <2>2. ~IsNew(c) /\ ~IsUnlinked(c)
    BY <2>1 DEF IsNew, IsUnlinked, Locked
  <2>3. c \in Page /\ PageInv(c)
    BY DEF IInv, PagesInv, Chunks
  <2>4. inuse[c] > 0
    <3>1. inuse \in [Page -> 0 .. o_num] /\ o_num \in Nat
      BY SlabAssumption DEF IInv, TypeOK
    <3>2. inuse[c] # 0
      BY <2>2, <2>3 DEF PageInv
    <3> QED
      BY <2>3, <3>1, <3>2
  <2> QED
    BY <2>3, <2>4 DEF PageInv
<1> QED
  BY <1>1, Invariance, PTL

\* memchunk_put never returns the page of an object that is handed out or in
\* a task's hands.
THEOREM NoUsedPageFreed == Spec => []UsedPagesKept
<1>1. IInv => UsedPagesKept
  <2> SUFFICES ASSUME IInv, NEW a \in Used \ {0}
               PROVE  virt_to_page(a) \notin free_pages
    BY DEF UsedPagesKept
  <2>1. a \in Addr
    BY DEF IInv, TypeOK, Used
  <2>2. virt_to_page(a) \in Page /\ a \in Objects(virt_to_page(a))
    BY <2>1, VirtToPage
  <2>3. a \in UsedOf(virt_to_page(a)) /\ PageInv(virt_to_page(a))
    BY <2>2 DEF UsedOf, IInv, PagesInv
  <2> QED
    BY <2>2, <2>3 DEF PageInv, Chunks
<1> QED
  BY <1>1, Invariance, PTL

\* alloc_slow runs only when no chunk has a free or a fresh object left: the
\* look at the head of o_partials and at o_ptr misses none.
THEOREM PageTakenOnlyWhenFull == Spec => TakesPageOnlyWhenFull
<1> DEFINE Full == \A c \in Chunks : free_list[c] = <<>> /\ Fresh(c) = {}
           Takes == free_pages' \subseteq free_pages /\ free_pages' # free_pages
<1>1. ASSUME IInv, Next, Takes PROVE Full
  <2>1. PICK t \in Task : alloc_slow(t)
    <3>1. ASSUME NEW t \in Task, cache_free_last(t) PROVE FALSE
      BY <1>1, <3>1 DEF cache_free_last, memchunk_put
    <3>2. ASSUME NEW t \in Task, AllocStep(t), ~alloc_slow(t) PROVE free_pages' = free_pages
      BY <3>2 DEF AllocStep, alloc_P, alloc_from_partial, alloc_fast, alloc_slow_init, alloc_V
    <3>3. ASSUME NEW t \in Task, FreeStep(t), ~cache_free_last(t) PROVE free_pages' = free_pages
      BY <3>3 DEF FreeStep, objcache_free, is_on_partials, is_on_full, free_tests, free_tests_end,
                  free_P, do_cache_free, free_V
    <3>4. halted => free_pages' = free_pages
      BY DEF halted, vars
    <3> QED
      BY <1>1, <3>1, <3>2, <3>3, <3>4 DEF Next
  <2>2. /\ pc[t] = "alloc" /\ ~HasPartial /\ ~(o_ptr < o_ptr_end)
        /\ o_partials \in Seq(Page)
    <3>1. o_ptr \in Nat /\ o_ptr_end \in Nat /\ o_partials \in Seq(Page)
      BY <1>1 DEF IInv, TypeOK
    <3>2. pc[t] = "alloc" /\ ~HasPartial /\ ~HasFresh
      BY <2>1 DEF alloc_slow, At
    <3> QED
      BY <3>1, <3>2 DEF HasFresh
  <2>3. /\ \A u \in Task : u # t => pc[u] \notin Locked
        /\ \A q : ~IsUnlinked(q)
    <3>1. LockInv /\ pc[t] \in Locked
      BY <1>1, <2>2 DEF IInv, Locked
    <3> QED
      BY <2>2, <3>1, Alone
  <2>4. \A u \in Task : pc[u] # "slow"
    BY <2>2, <2>3 DEF Locked
  <2>5. o_cur = NULL
    BY <1>1, <2>2, <2>4 DEF IInv, CurInv
  <2>6. Range(o_partials) = {}
    <3>1. ASSUME o_partials # <<>> PROVE FALSE
      <4>1. Head(o_partials) \in Range(o_partials) /\ Head(o_partials) \in Page
        BY <2>2, <3>1, TailQueue
      <4>2. ListInv(Head(o_partials)) /\ Head(o_partials) # o_cur
        BY <1>1, <2>5, <4>1, SlabAssumption DEF IInv, ListsInv
      <4> QED
        BY <2>2, <3>1, <4>1, <4>2 DEF ListInv, HasPartial
    <3>2. o_partials = <<>>
      BY <3>1
    <3> QED
      BY <3>2 DEF Range
  <2>7. ASSUME NEW c \in Chunks PROVE free_list[c] = <<>> /\ Fresh(c) = {}
    <3>1. c \in Page /\ c # o_cur /\ ListInv(c)
      BY <1>1, <2>5, SlabAssumption DEF IInv, ListsInv, Chunks
    <3> QED
      BY <2>3, <2>6, <3>1 DEF ListInv, Fresh
  <2> QED
    BY <2>7
<1>2. ASSUME IInv, [Next]_vars PROVE [Takes => Full]_vars
  BY <1>1, <1>2
<1> QED
  BY <1>2, Invariance, PTL DEF Spec, TakesPageOnlyWhenFull

\* The BUG_ONs of free_tests on the count and on a second free, and the one of
\* do_cache_free on a chunk that comes off the full list, never fire, even
\* though the first two are evaluated outside the semaphore.
THEOREM BugOnsUnreachable == Spec => []BugInv
<1>1. IInv => BugInv
  BY DEF IInv
<1> QED
  BY <1>1, Invariance, PTL
=============================================================================
