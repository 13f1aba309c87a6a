------------------------------ MODULE AbsLists ------------------------------
(***************************************************************************)
(* What include/scaraOS/list.h promises: each head holds a sequence of     *)
(* entries, an entry is on one list at most, and an operation changes the  *)
(* two sequences it names and no other.                                    *)
(***************************************************************************)
EXTENDS Sequences

CONSTANTS Heads, Entries

VARIABLES
  lists,            \* the entries after each head, in order
  op                \* the operation that came last

vars == <<lists, op>>

Without(e) == [h \in Heads |-> SelectSeq(lists[h], LAMBDA x : x # e)]

Init == lists = [h \in Heads |-> <<>>] /\ op = <<"init">>

\* e comes to the front or the back of h, from another place or from none.
PutFirst(e, h) ==
  /\ op' = <<"first", e, h>>
  /\ lists' = [Without(e) EXCEPT ![h] = <<e>> \o @]

PutLast(e, h) ==
  /\ op' = <<"last", e, h>>
  /\ lists' = [Without(e) EXCEPT ![h] = Append(@, e)]

Remove(e) ==
  /\ op' = <<"del", e>>
  /\ lists' = Without(e)

\* The whole of one list goes in front of another, which then has both.
Join(from, to) ==
  /\ op' = <<"splice", from, to>>
  /\ lists' = [lists EXCEPT ![from] = <<>>, ![to] = lists[from] \o @]

Next ==
  \/ \E e \in Entries : Remove(e) \/ \E h \in Heads : PutFirst(e, h) \/ PutLast(e, h)
  \/ op' = <<"walk">> /\ lists' = lists
  \/ \E from, to \in Heads : from # to /\ Join(from, to)

Spec == Init /\ [][Next]_vars
=============================================================================
