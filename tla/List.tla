-------------------------------- MODULE List --------------------------------
(***************************************************************************)
(* The doubly linked lists of include/scaraOS/list.h at the level of their *)
(* pointers, with a walk of list_for_each_entry_safe in progress while the *)
(* lists change.  Every queue of the kernel is such a list.  An entry is   *)
(* the structure it is embedded in.                                        *)
(***************************************************************************)
EXTENDS Sequences, Integers, FiniteSets

CONSTANTS Heads, Entries, NULL

VARIABLES
  next, prev,       \* the two pointers of every list_head
  head, pos, n,     \* the walk: its list, the entry it is at, the saved one
  due,              \* entries on the list since the walk began and not yet seen
  op                \* the operation that came last, by its name

vars == <<next, prev, head, pos, n, due, op>>
links == [next |-> next, prev |-> prev]
walk == <<head, pos, n, due>>

Nodes == Heads \cup Entries

LIST_HEAD_INIT == [next |-> [x \in Nodes |-> x], prev |-> [x \in Nodes |-> x]]

INIT_LIST_HEAD(l, x) == [l EXCEPT !.next[x] = x, !.prev[x] = x]

\* Four assignments, in the order of the code: new may be its own neighbour.
list_add_between(l, new, before, after) ==
  [l EXCEPT !.prev[after] = new, !.next[new] = after, !.prev[new] = before, !.next[before] = new]
list_add(l, new, h) == list_add_between(l, new, h, l.next[h])
list_add_tail_first(l, new, h) == list_add_between(l, new, h, l.next[h])
list_add_tail(l, new, h) == list_add_between(l, new, l.prev[h], h)

list_del_internal(l, before, after) == [l EXCEPT !.prev[after] = before, !.next[before] = after]
list_del(l, e) == INIT_LIST_HEAD(list_del_internal(l, l.prev[e], l.next[e]), e)
list_move(l, e, h) == list_add(list_del_internal(l, l.prev[e], l.next[e]), e, h)
list_move_tail(l, e, h) == list_add_tail(list_del_internal(l, l.prev[e], l.next[e]), e, h)

list_empty(l, h) == l.next[h] = h

list_splice(l, list, h) ==
  LET first == l.next[list]
      last  == l.prev[list]
      at    == l.next[h]
  IN  IF list_empty(l, list) THEN l
      ELSE INIT_LIST_HEAD([l EXCEPT !.prev[first] = h, !.next[h] = first,
                                    !.next[last] = at, !.prev[at] = last], list)

----------------------------------------------------------------------------

Set(l) == next' = l.next /\ prev' = l.prev

\* The operations on one entry that is, or will be, on the list of h.
Put(e, h) ==
  \/ op' = <<"first", e, h>> /\ Set(list_move(links, e, h))
  \/ op' = <<"last", e, h>> /\ Set(list_move_tail(links, e, h))

Del(e) == op' = <<"del", e>> /\ Set(list_del(links, e))

Init ==
  /\ next = LIST_HEAD_INIT.next /\ prev = LIST_HEAD_INIT.prev
  /\ head = NULL /\ pos = NULL /\ n = NULL /\ due = <<>>
  /\ op = <<"init">>

IsOn(e) == ~list_empty(links, e)

\* A new entry; whoever adds one knows that it is on no list.
Add(e, h) ==
  /\ ~IsOn(e)
  /\ \/ op' = <<"first", e, h>> /\ Set(list_add(links, e, h))
     \/ op' = <<"last", e, h>> /\ Set(list_add_tail(links, e, h))
  /\ UNCHANGED walk

\* Somebody else takes an entry off its list or moves it.  The entry saved in
\* n must stay where it is: the walk has no other way on.
Take(e) ==
  /\ IsOn(e) /\ e # n
  /\ Del(e) \/ \E h \in Heads : Put(e, h)
  /\ due' = SelectSeq(due, LAMBDA x : x # e)
  /\ UNCHANGED <<head, pos, n>>

Splice(from, to) ==
  /\ from # to /\ head = NULL
  /\ op' = <<"splice", from, to>>
  /\ Set(list_splice(links, from, to))
  /\ UNCHANGED walk

RECURSIVE Chain(_, _, _)
Chain(f, h, x) == IF x = h THEN <<>> ELSE <<x>> \o Chain(f, h, f[x])
Contents(h) == Chain(next, h, next[h])

Begin(h) ==
  /\ head = NULL
  /\ head' = h /\ pos' = next[h] /\ n' = next[next[h]]
  /\ due' = Contents(h)
  /\ op' = <<"walk">>
  /\ UNCHANGED <<next, prev>>

\* Where the walk goes next: the entry saved before the body ran.
Advance_unsafe == next'[pos]
Advance == n

\* One round: the body may take the entry off or put it on another list.
Visit ==
  /\ head # NULL /\ pos # head
  /\ \/ op' = <<"walk">> /\ UNCHANGED <<next, prev>>
     \/ Del(pos)
     \/ \E h \in Heads \ {head} : Put(pos, h)
  /\ pos' = Advance
  /\ n' = next'[pos']
  /\ due' = SelectSeq(due, LAMBDA x : x # pos)
  /\ head' = head

End ==
  /\ head # NULL /\ pos = head
  /\ head' = NULL /\ pos' = NULL /\ n' = NULL /\ due' = <<>>
  /\ op' = <<"walk">>
  /\ UNCHANGED <<next, prev>>

Next ==
  \/ \E e \in Entries : Take(e) \/ \E h \in Heads : Add(e, h)
  \/ \E from, to \in Heads : Splice(from, to)
  \/ \E h \in Heads : Begin(h)
  \/ Visit
  \/ End

Spec == Init /\ [][Next]_vars

----------------------------------------------------------------------------

\* The two directions agree: from every node, one step forward and one back,
\* or one back and one forward, lead to it again.  list_for_each_entry_reverse
\* and list_add_tail read prev, everything else reads next.
BothWays == \A x \in Nodes : prev[next[x]] = x /\ next[prev[x]] = x

\* The walk of list_for_each_entry_safe loses nothing: as long as nobody
\* moves the saved entry, the first entry that is due is the one the walk is
\* at or one it will reach, and when the walk ends none is left, whatever
\* its body and others did to the rest of the list meanwhile.
WalkSeesAll ==
  /\ head # NULL /\ pos = head => due = <<>>
  /\ head # NULL /\ pos # head /\ due # <<>> => Head(due) \in {pos, n}

\* What list.h says of list_del: "list_empty on entry does not return true
\* after this".  It does: list_del ends with INIT_LIST_HEAD, and a walk that
\* stands on the entry goes round on it for ever.
DeletedIsNotEmpty == \A e \in Entries : op = <<"del", e>> => ~list_empty(links, e)

\* The pointers implement sequences: an operation puts the entry where its
\* name says and leaves every other list as it was.
Seqs == INSTANCE AbsLists WITH lists <- [h \in Heads |-> Contents(h)]
ImplementsLists == Seqs!Spec
=============================================================================
