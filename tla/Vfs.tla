-------------------------------- MODULE Vfs --------------------------------
(***************************************************************************)
(* The inode cache and path lookup (fs/inode.c, fs/dentry.c, fs/vfs.c,     *)
(* fs/mount.c, the inline functions of vfs.h).  Tasks resolve paths at the *)
(* same time; each step below ends where another task may run.  An inode   *)
(* is its number, a path the sequence of its tokens: "/" and names.        *)
(* What the caller of namei gets it keeps, as open and exec do.            *)
(***************************************************************************)
EXTENDS Integers, Sequences, FiniteSets

CONSTANTS Tasks, Squeezers, NULL,
          Inos, Root,      \* inode numbers, and that of the root directory
          Child,           \* what the directories hold: <<directory, name>> -> inode
          Paths,           \* the paths that are looked up
          MaxCalls         \* how many of them by one task

VARIABLES mounted, pc, path, i, itmp, ino, held, calls, names, leaked,
          tree,            \* ino -> how many inodes of that number s_inode_cache has
          i_count, slack_inodes, slacksem, s_sem, seen, bug

vfs == <<mounted, tree, i_count, slack_inodes, slacksem, s_sem, bug>>
local == <<pc, path, i, itmp, ino, held, calls, names, leaked, seen>>
vars == <<vfs, local>>

All == Tasks \cup Squeezers
Goto(t, l) == pc' = [pc EXCEPT ![t] = l]
At(t, l) == pc[t] = l /\ ~bug

Init ==
  /\ mounted = "no" /\ bug = FALSE
  /\ pc = [t \in All |-> IF t \in Tasks THEN "unborn" ELSE "balance"]
  /\ path = [t \in Tasks |-> <<>>] /\ i = [t \in Tasks |-> NULL] /\ itmp = i /\ ino = i
  /\ held = [t \in Tasks |-> <<>>] /\ calls = [t \in Tasks |-> 0]
  /\ names = [t \in Tasks |-> <<>>] /\ seen = names /\ leaked = [n \in Inos |-> 0]
  /\ tree = [n \in Inos |-> 0] /\ i_count = tree /\ slack_inodes = <<>>
  /\ slacksem = NULL /\ s_sem = NULL

\* Filling in a super block reads the root inode; nothing else is in the cache.
super_get ==
  /\ tree' = [tree EXCEPT ![Root] = 1] /\ i_count' = [i_count EXCEPT ![Root] = 1 + 1]

\* vfs_mount_root by the init task, alone: the type, the device and the super
\* block may each be missing; else the task's root and cwd are the root inode.
vfs_mount_root ==
  /\ mounted = "no"
  /\ \/ mounted' = "failed" /\ UNCHANGED <<tree, i_count>>
     \/ mounted' = "yes" /\ super_get
  /\ UNCHANGED <<local, slack_inodes, slacksem, s_sem, bug>>

\* A new task has its parent's root and working directory.
iref_not(n) == UNCHANGED i_count
iref(n) == i_count' = [i_count EXCEPT ![n] = @ + 1]
Spawn(t) ==
  /\ At(t, "unborn") /\ mounted = "yes"
  /\ i_count' = [i_count EXCEPT ![Root] = @ + 2]
  /\ Goto(t, "idle")
  /\ UNCHANGED <<mounted, tree, slack_inodes, slacksem, s_sem, bug,
                 path, i, itmp, ino, held, calls, names, leaked, seen>>

\* The root and the working directory are the same inode here.
Call(t, p) ==
  /\ At(t, "idle") /\ calls[t] < MaxCalls
  /\ calls' = [calls EXCEPT ![t] = @ + 1]
  /\ iref(Root) /\ i' = [i EXCEPT ![t] = Root]
  /\ path' = [path EXCEPT ![t] = p] /\ seen' = [seen EXCEPT ![t] = <<>>]
  /\ names' = [names EXCEPT ![t] = SelectSeq(p, LAMBDA x : x # "/")]
  /\ Goto(t, "namei")
  /\ UNCHANGED <<mounted, tree, slack_inodes, slacksem, s_sem, bug, itmp, ino, held, leaked>>

\* One token of the path: a slash is passed over, a name is looked up in the
\* inode reached so far, and at the end that inode is the result.
namei(t) ==
  LET p == path[t] IN
  /\ At(t, "namei")
  /\ IF p = <<>>
     THEN /\ held' = [held EXCEPT ![t] = Append(@, i[t])] /\ Goto(t, "idle")
          /\ UNCHANGED <<path, itmp, seen>>
     ELSE /\ path' = [path EXCEPT ![t] = Tail(p)]
          /\ IF Head(p) = "/" THEN UNCHANGED <<pc, itmp, seen>>
             ELSE /\ itmp' = [itmp EXCEPT ![t] = i[t]]
                  /\ seen' = [seen EXCEPT ![t] = Append(@, Head(p))]
                  /\ Goto(t, "lookup")
          /\ UNCHANGED held
  /\ UNCHANGED <<vfs, i, ino, calls, names, leaked>>

Name(t) == seen[t][Len(seen[t])]

\* i_iop->lookup found no such name, could not read the directory, or the
\* inode is no directory: namei returns at once and keeps the reference.
NotFound(t) ==
  /\ i' = [i EXCEPT ![t] = NULL]
  /\ leaked' = [leaked EXCEPT ![itmp[t]] = @ + 1]
  /\ Goto(t, "idle")
lookup(t) ==
  /\ At(t, "lookup")
  /\ \/ NotFound(t) /\ UNCHANGED ino
     \/ /\ <<itmp[t], Name(t)>> \in DOMAIN Child
        /\ ino' = [ino EXCEPT ![t] = Child[<<itmp[t], Name(t)>>]]
        /\ Goto(t, "iget") /\ UNCHANGED <<i, leaked>>
  /\ UNCHANGED <<vfs, path, itmp, held, calls, names, seen>>

iget_lock_not(t) == At(t, "iget") /\ Goto(t, "search")
  /\ UNCHANGED <<vfs, path, i, itmp, ino, held, calls, names, leaked, seen>>
iget_lock(t) ==
  /\ \/ At(t, "iget") /\ slacksem = NULL /\ slacksem' = t /\ Goto(t, "iget2") /\ UNCHANGED s_sem
     \/ At(t, "iget2") /\ s_sem = NULL /\ s_sem' = t /\ Goto(t, "search") /\ UNCHANGED slacksem
  /\ UNCHANGED <<mounted, tree, i_count, slack_inodes, bug, path, i, itmp, ino, held, calls, names, leaked, seen>>

Unlock == slacksem' = NULL /\ s_sem' = NULL
Without(s, n) == SelectSeq(s, LAMBDA m : m # n)

\* A hit takes a reference, and the inode off the slack list if it was there.
iget_hit_stays(t) ==
  /\ At(t, "search") /\ tree[ino[t]] > 0
  /\ iref(ino[t]) /\ i' = [i EXCEPT ![t] = ino[t]]
  /\ Unlock /\ Goto(t, "iput")
  /\ UNCHANGED <<mounted, tree, slack_inodes, bug, path, itmp, ino, held, calls, names, leaked, seen>>
iget_hit(t) ==
  /\ At(t, "search") /\ tree[ino[t]] > 0
  /\ iref(ino[t]) /\ i' = [i EXCEPT ![t] = ino[t]]
  /\ slack_inodes' = Without(slack_inodes, ino[t])
  /\ Unlock /\ Goto(t, "iput")
  /\ UNCHANGED <<mounted, tree, bug, path, itmp, ino, held, calls, names, leaked, seen>>

\* A miss allocates an inode, has it read with both semaphores held, which
\* sleeps, and inserts it; if either fails the lookup has found nothing.
iget_miss(t) ==
  /\ At(t, "search") /\ tree[ino[t]] = 0
  /\ Goto(t, "read_inode")
  /\ UNCHANGED <<vfs, path, i, itmp, ino, held, calls, names, leaked, seen>>
read_inode_keeps(t) ==
  /\ At(t, "read_inode")
  /\ \/ /\ tree' = [tree EXCEPT ![ino[t]] = @ + 1] /\ Unlock
        /\ i_count' = [i_count EXCEPT ![ino[t]] = 1]
        /\ i' = [i EXCEPT ![t] = ino[t]] /\ Goto(t, "iput") /\ UNCHANGED leaked
     \/ NotFound(t) /\ UNCHANGED <<tree, i_count, slacksem, s_sem>>
  /\ UNCHANGED <<mounted, slack_inodes, bug, path, itmp, ino, held, calls, names, seen>>
read_inode(t) ==
  /\ At(t, "read_inode") /\ Unlock
  /\ \/ /\ tree' = [tree EXCEPT ![ino[t]] = @ + 1]
        /\ i_count' = [i_count EXCEPT ![ino[t]] = 1]
        /\ i' = [i EXCEPT ![t] = ino[t]] /\ Goto(t, "iput") /\ UNCHANGED leaked
     \/ NotFound(t) /\ UNCHANGED <<tree, i_count>>
  /\ UNCHANGED <<mounted, slack_inodes, bug, path, itmp, ino, held, calls, names, seen>>

\* iput of the directory: the count is read and tested, then written, without
\* a lock; nothing keeps a compiler from using two instructions.
iput(t) ==
  /\ At(t, "iput")
  /\ IF i_count[itmp[t]] = 0 THEN bug' = TRUE /\ UNCHANGED <<pc, ino>>
     ELSE ino' = [ino EXCEPT ![t] = i_count[itmp[t]]] /\ Goto(t, "iput2") /\ UNCHANGED bug
  /\ UNCHANGED <<mounted, tree, i_count, slack_inodes, slacksem, s_sem, path, i, itmp, held, calls, names, leaked, seen>>
iput_store(t) ==
  /\ At(t, "iput2")
  /\ i_count' = [i_count EXCEPT ![itmp[t]] = ino[t] - 1]
  /\ Goto(t, IF ino[t] = 1 THEN "inode_free" ELSE "namei")
  /\ UNCHANGED <<mounted, tree, slack_inodes, slacksem, s_sem, bug, path, i, itmp, ino, held, calls, names, leaked, seen>>

inode_free(t) ==
  /\ At(t, "inode_free")
  /\ IF i_count[itmp[t]] # 0 THEN bug' = TRUE /\ UNCHANGED pc
     ELSE Goto(t, "slacken") /\ UNCHANGED bug
  /\ UNCHANGED <<mounted, tree, i_count, slack_inodes, slacksem, s_sem, path, i, itmp, ino, held, calls, names, leaked, seen>>
Slacken(t) ==
  /\ At(t, "slacken") /\ slacksem = NULL
  /\ slack_inodes' = Append(slack_inodes, itmp[t]) /\ Goto(t, "namei")
  /\ UNCHANGED <<mounted, tree, i_count, slacksem, s_sem, bug, path, i, itmp, ino, held, calls, names, leaked, seen>>

\* _squeeze_inode_cache: for every slack inode, s_sem, off the tree and the
\* list, freed.  Nothing calls it yet; a Squeezer is a task that would.
squeeze_inode_cache(t) ==
  /\ \/ At(t, "balance") /\ mounted = "yes" /\ slacksem = NULL /\ slacksem' = t
        /\ Goto(t, "kill") /\ UNCHANGED <<tree, slack_inodes>>
     \/ At(t, "kill") /\ slack_inodes = <<>>
        /\ slacksem' = NULL /\ Goto(t, "balance") /\ UNCHANGED <<tree, slack_inodes>>
     \/ At(t, "kill") /\ slack_inodes # <<>> /\ s_sem = NULL
        /\ tree' = [tree EXCEPT ![Head(slack_inodes)] = 0]
        /\ slack_inodes' = Tail(slack_inodes) /\ UNCHANGED <<slacksem, pc>>
  /\ UNCHANGED <<mounted, i_count, s_sem, bug, path, i, itmp, ino, held, calls, names, leaked, seen>>

TaskStep(t) ==
  \/ namei(t) \/ lookup(t) \/ iget_lock(t) \/ iget_hit(t) \/ iget_miss(t)
  \/ read_inode(t) \/ iput(t) \/ iput_store(t) \/ inode_free(t) \/ Slacken(t)

Next ==
  \/ vfs_mount_root
  \/ \E t \in Tasks : Spawn(t) \/ TaskStep(t) \/ \E p \in Paths : Call(t, p)
  \/ \E t \in Squeezers : squeeze_inode_cache(t)

\* A task that can go on is given the CPU by the round robin.
Fairness == \A t \in Tasks : WF_vars(TaskStep(t))
Spec == Init /\ [][Next]_vars
FairSpec == Spec /\ Fairness

-----------------------------------------------------------------------------
Copies(s, n) == Len(SelectSeq(s, LAMBDA m : m = n))
RECURSIVE SumOver(_, _)
SumOver(f, S) == IF S = {} THEN 0 ELSE LET x == CHOOSE x \in S : TRUE IN f[x] + SumOver(f, S \ {x})

\* What task t has a reference to: its root and working directory, what it
\* was given by namei, and, in a call, the directory and the inode found in it.
Refs(t, n) ==
  (IF pc[t] # "unborn" /\ n = Root THEN 2 ELSE 0) + Copies(held[t], n)
  + (IF pc[t] = "namei" /\ i[t] = n THEN 1 ELSE 0)
  + (IF pc[t] \in {"lookup", "iget", "iget2", "search", "read_inode", "iput", "iput2"} /\ itmp[t] = n THEN 1 ELSE 0)
  + (IF pc[t] \in {"iput", "iput2", "inode_free", "slacken"} /\ i[t] = n THEN 1 ELSE 0)

\* The count of a cached inode is the number of references to it: the root
\* and cwd of tasks, results of namei, the directory and the child a lookup
\* has in hand, and those that failed lookups left behind.
CountIsRefs ==
  \A n \in Inos : tree[n] > 0 =>
    i_count[n] = SumOver([t \in Tasks |-> Refs(t, n)], Tasks) + leaked[n] + (IF n = Root THEN 2 ELSE 0)

\* The slack list holds the cached inodes nobody uses, each once: exactly
\* those whose count is zero, except one on its way there in inode_free.
SlackIsUnused ==
  \A n \in Inos :
    LET coming == {t \in Tasks : pc[t] \in {"inode_free", "slacken"} /\ itmp[t] = n} IN
    Copies(slack_inodes, n) + Cardinality(coming) = (IF tree[n] > 0 /\ i_count[n] = 0 THEN 1 ELSE 0)

\* Squeezing the cache frees no inode that somebody refers to.
UsedIsCached == \A t \in Tasks, n \in Inos : Refs(t, n) > 0 => tree[n] > 0

\* iget never makes two inodes of one number, though it sleeps between the
\* search that misses and the insertion.
OneInodePerNumber == \A n \in Inos : tree[n] <= 1

\* namei looks up the names of the path, the parts between slashes, in order
\* and no others, and returns only when it has looked up them all.
RECURSIVE Walk(_, _)
Walk(n, s) == IF s = <<>> THEN n ELSE Walk(Child[<<n, Head(s)>>], Tail(s))
LooksUpThePath ==
  \A t \in Tasks :
    /\ seen[t] = SubSeq(names[t], 1, Len(seen[t]))
    /\ (pc[t] = "idle" /\ i[t] # NULL) => seen[t] = names[t] /\ i[t] = Walk(Root, names[t])

\* The assertions of iput and inode_free: a reference that is dropped was
\* held, and an inode that is given up is not in use.
NoBug == ~bug

\* A lookup that has begun ends, whatever the other tasks are doing: nobody
\* keeps slacksem and s_sem from it for ever.
EveryCallReturns == \A t \in Tasks : (pc[t] = "namei") ~> (pc[t] = "idle" \/ bug)
=============================================================================
