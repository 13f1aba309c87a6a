---------------------------- MODULE SchedProofs -----------------------------
(***************************************************************************)
(* Theorems about Sched, for any number of tasks: the lists agree with the *)
(* task states, the CPU is where the lists say, pagesem excludes, no page is *)
(* lost or handed out twice, and Sched implements AbsSched.                *)
(***************************************************************************)
EXTENDS SchedSwitchProofs

\* flush_delq is only ever run by a RUNNING task that is past its entry point.
LEMMA FlusherRuns ==
  ASSUME IInv, InFlush
  PROVE  /\ current \in Task
         /\ iter \in [Task -> Seq(Activation)]
         /\ iter[current] # <<>>
         /\ Len(iter[current]) \in Nat \ {0}
         /\ DOMAIN iter[current] = 1 .. Len(iter[current])
         /\ Top(current) \in Activation
         /\ pc[current] \notin {"new", "none", "exit"}
         /\ state[current] = "RUNNING"
<1>1. current \in Task /\ iter \in [Task -> Seq(Activation)] /\ iter[current] # <<>>
  BY DEF IInv, TypeOK, InFlush
<1>2. /\ Len(iter[current]) \in Nat \ {0}
      /\ DOMAIN iter[current] = 1 .. Len(iter[current])
  BY <1>1
<1>3. Top(current) \in Activation
  BY <1>1, <1>2 DEF Top
<1>4. pc[current] \notin {"new", "none", "exit"}
  BY <1>1 DEF IInv, ControlInv
<1>5. state[current] = "RUNNING"
  BY <1>1, <1>4 DEF IInv, ControlInv, CurrentIsHead
<1> QED
  BY <1>1, <1>2, <1>3, <1>4, <1>5

\* Writing the fields of the innermost activation.
LEMMA SetTopLemma ==
  ASSUME IInv, InFlush, NEW STATE a, a \in Activation, SetTop(current, a)
  PROVE  /\ iter' \in [Task -> Seq(Activation)]
         /\ \A t \in Task \ {current} : iter'[t] = iter[t]
         /\ iter'[current] # <<>>
         /\ \A t \in Task : DOMAIN iter'[t] = DOMAIN iter[t]
         /\ Len(iter[current]) \in DOMAIN iter[current]
         /\ iter'[current][Len(iter[current])] = a
         /\ \A i \in DOMAIN iter[current] \ {Len(iter[current])} :
              iter'[current][i] = iter[current][i]
<1> DEFINE s == iter[current]
           r == [s EXCEPT ![Len(s)] = a]
<1>1. /\ current \in Task
      /\ iter \in [Task -> Seq(Activation)]
      /\ s \in Seq(Activation)
      /\ s # <<>>
  BY FlusherRuns
<1>2. iter' = [iter EXCEPT ![current] = r]
  BY <1>1 DEF SetTop
<1>3. /\ r \in Seq(Activation)
      /\ r # <<>>
      /\ DOMAIN r = DOMAIN s
      /\ Len(s) \in DOMAIN s
      /\ r[Len(s)] = a
      /\ \A i \in DOMAIN s \ {Len(s)} : r[i] = s[i]
  BY <1>1, SetLast
<1> HIDE DEF r
<1>4. /\ iter' \in [Task -> Seq(Activation)]
      /\ iter'[current] = r
      /\ \A t \in Task \ {current} : iter'[t] = iter[t]
  BY <1>1, <1>2, <1>3
<1> QED
  BY <1>3, <1>4

\* The successor of an entry of delq is an entry of delq or the list head.
LEMMA SuccessorType ==
  ASSUME IInv, NEW STATE z
  PROVE  Successor(z) \in Task \cup {NULL}
<1> DEFINE I == {i \in 1 .. Len(delq) - 1 : delq[i] = z}
<1>1. delq \in Seq(Task) /\ Len(delq) \in Nat
  BY DEF IInv, TypeOK
<1>2. CASE I = {}
  BY <1>2 DEF Successor
<1>3. CASE I # {}
  <2> DEFINE k == CHOOSE i \in I : TRUE
  <2>1. k \in I
    BY <1>3
  <2>2. 1 + k \in 1 .. Len(delq)
    BY <1>1, <2>1
  <2>3. delq[1 + k] \in Task
    BY <1>1, <2>2
  <2>4. Successor(z) = delq[1 + k]
    BY <1>3 DEF Successor
  <2> QED
    BY <2>3, <2>4
<1> QED
  BY <1>2, <1>3

\* A task switched to enters flush_delq.
LEMMA SchedResumedStep ==
  ASSUME IInv, sched_resumed
  PROVE  IInv'
<1>1. /\ insched
      /\ insched' = FALSE
      /\ UNCHANGED <<current, state, runq, delq, waitq, val, free_list, pc, got,
                     panicked>>
  BY DEF sched_resumed
<1>2. /\ current \in Task
      /\ state[current] = "RUNNING"
      /\ iter \in [Task -> Seq(Activation)]
      /\ delq \in Seq(Task)
  BY <1>1 DEF IInv, TypeOK, ControlInv
<1>3. CASE delq = <<>>
  <2>1. UNCHANGED iter
    BY <1>3 DEF sched_resumed
  <2>2. TypeOK'
    BY <1>1, <2>1, Zenon DEF IInv, TypeOK
  <2>4. QueuesMatchStates' /\ CurrentIsHead' /\ PagesemExcludes'
    BY <1>1, <2>1 DEF IInv, QueuesMatchStates, InSemP, CurrentIsHead, PagesemExcludes
  <2>3. PagesConserved' /\ ControlInv'
    BY <1>1, <2>1 DEF IInv, PagesConserved, InHand, BeingFreed, ControlInv
  <2> QED
    BY <2>2, <2>3, <2>4 DEF IInv
<1>4. CASE delq # <<>>
  <2> DEFINE a == [z |-> NULL, tmp |-> Head(delq)]
             s == iter[current]
  <2>1. a \in Activation /\ a.z = NULL
    BY <1>2, <1>4, TailQueue DEF Activation
  <2>2. iter' = [iter EXCEPT ![current] = Append(s, a)]
    BY <1>4 DEF sched_resumed, Push
  <2> HIDE DEF a
  <2> DEFINE r == Append(s, a)
  <2>3. /\ r \in Seq(Activation)
        /\ r # <<>>
        /\ DOMAIN s \subseteq DOMAIN r
        /\ \A i \in DOMAIN s : r[i] = s[i]
        /\ \A i \in DOMAIN r \ DOMAIN s : r[i] = a
    BY <1>2, <2>1, Pushed
  <2> HIDE DEF r
  <2>4. /\ iter' \in [Task -> Seq(Activation)]
        /\ iter'[current] = r
        /\ \A t \in Task \ {current} : iter'[t] = iter[t]
    BY <1>2, <2>2, <2>3 DEF r
  <2>5. \A t \in Task : \A i \in DOMAIN iter'[t] :
          iter'[t][i].z # NULL => i \in DOMAIN iter[t] /\ iter'[t][i] = iter[t][i]
    <3> SUFFICES ASSUME NEW t \in Task, NEW i \in DOMAIN iter'[t],
                        iter'[t][i].z # NULL
                 PROVE  i \in DOMAIN iter[t] /\ iter'[t][i] = iter[t][i]
      OBVIOUS
    <3>1. CASE t # current
      BY <2>4, <3>1
    <3>2. CASE t = current
      BY <2>1, <2>3, <2>4, <3>2
    <3> QED
      BY <3>1, <3>2
  <2>6. \A t \in Task : \A i \in DOMAIN iter[t] :
          i \in DOMAIN iter'[t] /\ iter'[t][i] = iter[t][i]
    <3> SUFFICES ASSUME NEW t \in Task, NEW i \in DOMAIN iter[t]
                 PROVE  i \in DOMAIN iter'[t] /\ iter'[t][i] = iter[t][i]
      OBVIOUS
    <3>1. CASE t # current
      BY <2>4, <3>1
    <3>2. CASE t = current
      BY <2>3, <2>4, <3>2
    <3> QED
      BY <3>1, <3>2
  <2>7. TypeOK'
    BY <1>1, <2>4, Zenon DEF IInv, TypeOK
  <2>8. QueuesMatchStates'
    <3>1. \A t \in Task : state[t] = "SLEEPING" => (InSemP(t)' <=> InSemP(t))
      BY <1>1, <1>2, <2>4 DEF InSemP
    <3> QED
      BY <1>1, <3>1 DEF IInv, QueuesMatchStates
  <2>9. CurrentIsHead' /\ PagesemExcludes'
    BY <1>1 DEF IInv, CurrentIsHead, PagesemExcludes
  <2>10. PagesConserved'
    <3>1. InHand' = InHand
      BY <1>1 DEF InHand
    <3>2. BeingFreed' = BeingFreed
      BY <2>5, <2>6, TaskAssumption DEF BeingFreed
    <3>3. \A t, u \in Task : \A i \in DOMAIN iter'[t], j \in DOMAIN iter'[u] :
            iter'[t][i].z = iter'[u][j].z /\ iter'[t][i].z # NULL => t = u /\ i = j
      BY <2>5 DEF IInv, PagesConserved
    <3> QED
      BY <1>1, <3>1, <3>2, <3>3 DEF IInv, PagesConserved
  <2>11. ControlInv'
    <3>1. pc[current] \notin {"new", "none", "exit"}
      BY <1>2 DEF IInv, ControlInv
    <3> QED
      BY <1>1, <1>2, <2>4, <3>1 DEF IInv, ControlInv
  <2> QED
    BY <2>7, <2>8, <2>9, <2>10, <2>11 DEF IInv
<1> QED
  BY <1>3, <1>4

\* A step that only panics, or does nothing.
LEMMA PanicStep ==
  ASSUME IInv, panicked' \in BOOLEAN,
         UNCHANGED <<current, state, runq, delq, waitq, val, free_list, pc, got,
                     iter, insched>>
  PROVE  IInv'
<1>1. TypeOK'
  BY Zenon DEF IInv, TypeOK
<1>2. QueuesMatchStates' /\ CurrentIsHead' /\ PagesemExcludes'
  BY DEF IInv, QueuesMatchStates, InSemP, CurrentIsHead, PagesemExcludes
<1>3. PagesConserved' /\ ControlInv'
  BY DEF IInv, PagesConserved, InHand, BeingFreed, ControlInv
<1> QED
  BY <1>1, <1>2, <1>3 DEF IInv

\* The loop of flush_delq reaches the list head and the activation ends.
LEMMA FlushLeaves ==
  ASSUME IInv, InFlush, Top(current).z = NULL,
         iter' = [iter EXCEPT ![current] = SubSeq(@, 1, Len(@) - 1)],
         UNCHANGED <<current, state, runq, delq, waitq, val, free_list, pc, got,
                     insched, panicked>>
  PROVE  IInv'
<1> DEFINE s == iter[current]
           r == SubSeq(s, 1, Len(s) - 1)
<1>1. /\ current \in Task
      /\ state[current] = "RUNNING"
      /\ pc[current] \notin {"new", "none", "exit"}
      /\ iter \in [Task -> Seq(Activation)]
      /\ s \in Seq(Activation)
      /\ s # <<>>
      /\ s[Len(s)].z = NULL
  BY FlusherRuns DEF Top
<1>2. /\ r \in Seq(Activation)
      /\ DOMAIN r = DOMAIN s \ {Len(s)}
      /\ \A i \in DOMAIN r : r[i] = s[i]
  <2>1. s \in Seq(Activation) /\ s # <<>>
    BY <1>1
  <2> HIDE DEF s
  <2> QED
    BY <2>1, Popped, Zenon
<1> HIDE DEF r
<1>3. /\ iter' \in [Task -> Seq(Activation)]
      /\ iter'[current] = r
      /\ \A t \in Task \ {current} : iter'[t] = iter[t]
  BY <1>1, <1>2 DEF r
<1>4. ASSUME NEW t \in Task, NEW i \in DOMAIN iter[t], iter[t][i].z # NULL
      PROVE  i \in DOMAIN iter'[t] /\ iter'[t][i] = iter[t][i]
  <2>1. CASE t # current
    BY <1>3, <2>1
  <2>2. CASE t = current
    BY <1>1, <1>2, <1>3, <1>4, <2>2
  <2> QED
    BY <2>1, <2>2
<1>5. ASSUME NEW t \in Task, NEW i \in DOMAIN iter'[t]
      PROVE  i \in DOMAIN iter[t] /\ iter'[t][i] = iter[t][i]
  <2>1. CASE t # current
    BY <1>3, <2>1
  <2>2. CASE t = current
    BY <1>2, <1>3, <2>2
  <2> QED
    BY <2>1, <2>2
<1>6. TypeOK'
  BY <1>3, Zenon DEF IInv, TypeOK
<1>7. QueuesMatchStates'
  <2>1. \A t \in Task : state[t] = "SLEEPING" => (InSemP(t)' <=> InSemP(t))
    BY <1>1, <1>3 DEF InSemP
  <2> QED
    BY <2>1 DEF IInv, QueuesMatchStates
<1>8. CurrentIsHead' /\ PagesemExcludes'
  BY DEF IInv, CurrentIsHead, PagesemExcludes
<1>9. PagesConserved'
  <2>1. InHand' = InHand
    BY DEF InHand
  <2>2. BeingFreed' = BeingFreed
    BY <1>4, <1>5, TaskAssumption DEF BeingFreed
  <2>3. \A t, u \in Task : \A i \in DOMAIN iter'[t], j \in DOMAIN iter'[u] :
          iter'[t][i].z = iter'[u][j].z /\ iter'[t][i].z # NULL => t = u /\ i = j
    BY <1>5 DEF IInv, PagesConserved
  <2> QED
    BY <2>1, <2>2, <2>3 DEF IInv, PagesConserved
<1>10. ControlInv'
  BY <1>1, <1>3 DEF IInv, ControlInv
<1> QED
  BY <1>6, <1>7, <1>8, <1>9, <1>10 DEF IInv

\* flush_delq unlinks a dead task: its page leaves delq and is being freed.
LEMMA FlushUnlinks ==
  ASSUME IInv, InFlush, Top(current).z = NULL, NEW STATE z, z \in Task,
         state[z] = "ZOMBIE",
         delq' = list_del(delq, z),
         state' = [state EXCEPT ![z] = "FREE"],
         pc' = [pc EXCEPT ![z] = "none"],
         SetTop(current, [z |-> z, tmp |-> Successor(z)]),
         UNCHANGED <<current, runq, waitq, val, free_list, got, insched, panicked>>
  PROVE  IInv'
<1> DEFINE a == [z |-> z, tmp |-> Successor(z)]
           n == Len(iter[current])
<1>1. /\ current \in Task
      /\ state[current] = "RUNNING"
      /\ pc[current] \notin {"new", "none", "exit"}
      /\ iter[current] # <<>>
      /\ iter[current][n].z = NULL
  BY FlusherRuns DEF Top
<1>2. a \in Activation /\ a.z = z
  BY SuccessorType DEF Activation
<1> HIDE DEF a
<1>3. /\ iter' \in [Task -> Seq(Activation)]
      /\ \A t \in Task \ {current} : iter'[t] = iter[t]
      /\ iter'[current] # <<>>
      /\ \A t \in Task : DOMAIN iter'[t] = DOMAIN iter[t]
      /\ n \in DOMAIN iter[current]
      /\ iter'[current][n] = a
      /\ \A i \in DOMAIN iter[current] \ {n} : iter'[current][i] = iter[current][i]
  BY <1>2, SetTopLemma DEF a
<1> HIDE DEF n
<1>4. z # current /\ z # Idle /\ pc[z] = "exit" /\ iter[z] = <<>> /\ got[z] = NULL
  BY <1>1 DEF IInv, ControlInv
<1>5. /\ state' \in [Task -> States]
      /\ state'[z] = "FREE"
      /\ \A t \in Task \ {z} : state'[t] = state[t]
  BY DEF IInv, TypeOK, States
<1>6. /\ pc' \in [Task -> PCs]
      /\ pc'[z] = "none"
      /\ \A t \in Task \ {z} : pc'[t] = pc[t]
  BY DEF IInv, TypeOK, PCs
<1>7. /\ delq \in Seq(Task)
      /\ IsInjective(delq)
      /\ Range(delq) = {t \in Task : state[t] = "ZOMBIE"}
  BY DEF IInv, TypeOK, QueuesMatchStates
<1>8. /\ delq' \in Seq(Task)
      /\ IsInjective(delq')
      /\ Range(delq') = Range(delq) \ {z}
  <2>1. z \in Range(delq)
    BY <1>7
  <2> QED
    BY <1>7, <2>1, ListDel
<1>9. TypeOK'
  BY <1>3, <1>5, <1>6, <1>8, Zenon DEF IInv, TypeOK
<1>10. QueuesMatchStates'
  <2>1. \A t \in Task : InSemP(t)' <=> InSemP(t)
    BY <1>1, <1>3, <1>4, <1>6 DEF InSemP
  <2>2. Range(delq') = {t \in Task : state'[t] = "ZOMBIE"}
    BY <1>5, <1>7, <1>8
  <2>3. \A t \in Task : /\ state'[t] = "SLEEPING" <=> state[t] = "SLEEPING"
                        /\ state'[t] = "READY" <=> state[t] = "READY"
                        /\ state'[t] = "RUNNING" <=> state[t] = "RUNNING"
    BY <1>5
  <2> QED
    BY <1>8, <2>1, <2>2, <2>3, SMTT(30) DEF IInv, QueuesMatchStates
<1>11. CurrentIsHead'
  BY <1>1, <1>4, <1>5, <1>6 DEF IInv, CurrentIsHead
<1>12. PagesemExcludes'
  <2>1. \A t \in Task : pc'[t] = "alloc" <=> pc[t] = "alloc"
    BY <1>4, <1>6, SMTT(30)
  <2> QED
    BY <2>1 DEF IInv, PagesemExcludes
<1>13. PagesConserved'
  <2>1. InHand' = InHand
    BY DEF InHand
  <2>2. z \notin Range(free_list) \cup InHand \cup BeingFreed
    BY DEF IInv, PagesConserved
  <2>3. ASSUME NEW t \in Task, NEW i \in DOMAIN iter'[t], ~(t = current /\ i = n)
        PROVE  i \in DOMAIN iter[t] /\ iter'[t][i] = iter[t][i]
    BY <1>3, <2>3
  <2>4. BeingFreed' = BeingFreed \cup {z}
    <3>1. ASSUME NEW p \in BeingFreed'
          PROVE  p \in BeingFreed \cup {z}
      <4>1. PICK t \in Task : \E i \in DOMAIN iter'[t] : iter'[t][i].z = p
        BY <3>1 DEF BeingFreed
      <4>2. PICK i \in DOMAIN iter'[t] : iter'[t][i].z = p
        BY <4>1
      <4>3. CASE t = current /\ i = n
        BY <1>2, <1>3, <4>2, <4>3
      <4>4. CASE ~(t = current /\ i = n)
        <5>1. i \in DOMAIN iter[t] /\ iter[t][i].z = p /\ p \in Task
          BY <2>3, <3>1, <4>2, <4>4 DEF BeingFreed
        <5> QED
          BY <5>1 DEF BeingFreed
      <4> QED
        BY <4>3, <4>4
    <3>2. ASSUME NEW p \in BeingFreed
          PROVE  p \in BeingFreed'
      <4>1. PICK t \in Task : \E i \in DOMAIN iter[t] : iter[t][i].z = p
        BY <3>2 DEF BeingFreed
      <4>2. PICK i \in DOMAIN iter[t] : iter[t][i].z = p
        BY <4>1
      <4>3. ~(t = current /\ i = n) /\ p \in Task
        BY <1>1, <3>2, <4>2, TaskAssumption, SMTT(30) DEF BeingFreed
      <4>4. i \in DOMAIN iter'[t] /\ iter'[t][i].z = p
        BY <1>3, <2>3, <4>2, <4>3, SMTT(30)
      <4> QED
        BY <4>3, <4>4 DEF BeingFreed
    <3>3. z \in BeingFreed'
      BY <1>1, <1>2, <1>3 DEF BeingFreed
    <3> QED
      BY <3>1, <3>2, <3>3
  <2>5. \A t, u \in Task : \A i \in DOMAIN iter'[t], j \in DOMAIN iter'[u] :
          iter'[t][i].z = iter'[u][j].z /\ iter'[t][i].z # NULL => t = u /\ i = j
    <3>1. ASSUME NEW t \in Task, NEW i \in DOMAIN iter'[t], ~(t = current /\ i = n)
          PROVE  iter'[t][i].z # z
      BY <2>2, <2>3, <3>1 DEF BeingFreed
    <3>2. iter'[current][n].z = z
      BY <1>2, <1>3
    <3> SUFFICES ASSUME NEW t \in Task, NEW u \in Task,
                        NEW i \in DOMAIN iter'[t], NEW j \in DOMAIN iter'[u],
                        iter'[t][i].z = iter'[u][j].z, iter'[t][i].z # NULL
                 PROVE  t = u /\ i = j
      OBVIOUS
    <3>3. CASE t = current /\ i = n
      BY <3>1, <3>2, <3>3
    <3>4. CASE u = current /\ j = n
      BY <3>1, <3>2, <3>4, SMTT(30)
    <3>5. CASE ~(t = current /\ i = n) /\ ~(u = current /\ j = n)
      BY <2>3, <3>5 DEF IInv, PagesConserved
    <3> QED
      BY <3>3, <3>4, <3>5
  <2>6. {p \in Task : state'[p] = "FREE"} = {p \in Task : state[p] = "FREE"} \cup {z}
    BY <1>5
  <2> QED
    BY <2>1, <2>2, <2>4, <2>5, <2>6, SMTT(30) DEF IInv, PagesConserved
<1>14. ControlInv'
  <2>1. Idle \in Task /\ ControlInv
    BY TaskAssumption DEF IInv
  <2>2. state'[Idle] \in {"RUNNING", "READY"} /\ pc'[Idle] = "run"
    BY <1>4, <1>5, <1>6, <2>1 DEF ControlInv
  <2>3. \A t \in Task : /\ pc'[t] = "none" <=> state'[t] = "FREE"
                        /\ pc'[t] = "exit" <=> state'[t] = "ZOMBIE"
                        /\ pc'[t] = "new" => state'[t] = "READY"
    BY <1>5, <1>6, <2>1, SMTT(30) DEF ControlInv
  <2>4. \A t \in Task : pc'[t] \in {"new", "none", "exit"} => iter'[t] = <<>>
    BY <1>1, <1>3, <1>4, <1>6, <2>1, SMTT(30) DEF ControlInv
  <2>5. \A t \in Task : got'[t] # NULL => pc'[t] = "got"
    BY <1>4, <1>6, <2>1 DEF ControlInv
  <2>6. state'[current'] = "RUNNING"
    BY <1>1, <1>4, <1>5
  <2> QED
    BY <2>2, <2>3, <2>4, <2>5, <2>6 DEF ControlInv
<1> QED
  BY <1>9, <1>10, <1>11, <1>12, <1>13, <1>14 DEF IInv

\* The head of the loop of flush_delq.
LEMMA FlushNextStep ==
  ASSUME IInv, flush_next
  PROVE  IInv'
<1> DEFINE z == Top(current).tmp
<1>1. /\ InFlush
      /\ Top(current).z = NULL
      /\ UNCHANGED <<current, runq, waitq, val, free_list, got, insched>>
  BY DEF flush_next
<1>2. z \in Task \cup {NULL}
  BY <1>1, FlusherRuns DEF Activation
<1>3. CASE z = NULL
  <2>1. /\ iter' = [iter EXCEPT ![current] = SubSeq(@, 1, Len(@) - 1)]
        /\ UNCHANGED <<state, delq, pc, panicked>>
    BY <1>3 DEF flush_next
  <2> QED
    BY <1>1, <2>1, FlushLeaves
<1>4. CASE z # NULL /\ state[z] # "ZOMBIE"
  <2>1. panicked' = TRUE /\ UNCHANGED <<state, delq, pc, iter>>
    BY <1>4 DEF flush_next
  <2> QED
    BY <1>1, <2>1, PanicStep
<1>5. CASE z # NULL /\ state[z] = "ZOMBIE"
  <2>1. /\ delq' = list_del(delq, z)
        /\ state' = [state EXCEPT ![z] = "FREE"]
        /\ pc' = [pc EXCEPT ![z] = "none"]
        /\ SetTop(current, [z |-> z, tmp |-> Successor(z)])
        /\ UNCHANGED panicked
    BY <1>5 DEF flush_next
  <2>2. z \in Task
    BY <1>2, <1>5
  <2> HIDE DEF z
  <2> QED
    BY <1>1, <1>5, <2>1, <2>2, FlushUnlinks, Zenon
<1> QED
  BY <1>3, <1>4, <1>5

\* free_page in flush_delq waits for pagesem.
LEMMA FlushSleepStep ==
  ASSUME IInv, flush_sleep
  PROVE  IInv'
<1>1. /\ InFlush
      /\ sleep_on("pagesem", pc)
      /\ UNCHANGED <<delq, val, free_list, got, iter>>
  BY DEF flush_sleep
<1>2. CASE current = Idle
  <2>1. panicked' = TRUE /\ UNCHANGED <<current, state, runq, waitq, pc, insched>>
    BY <1>1, <1>2 DEF sleep_on
  <2> QED
    BY <1>1, <2>1, PanicStep
<1>3. CASE current # Idle
  <2>1. state[current] = "RUNNING" /\ iter[current] # <<>>
    BY <1>1, FlusherRuns
  <2>2. "pagesem" \in Queue
    BY DEF Queue
  <2> QED
    BY <1>1, <1>3, <2>1, <2>2, SleepStep
<1> QED
  BY <1>2, <1>3

\* free_pages puts the page on the free list.
LEMMA FlushFreeStep ==
  ASSUME IInv, flush_free
  PROVE  IInv'
<1> DEFINE z == Top(current).z
           a == [Top(current) EXCEPT !.z = NULL]
           n == Len(iter[current])
<1>1. /\ InFlush
      /\ z # NULL
      /\ ~sem_P_waits
      /\ free_list' = Append(free_list, z)
      /\ sem_V(val - 1)
      /\ SetTop(current, a)
      /\ UNCHANGED <<current, delq, pc, got, insched, panicked>>
  BY DEF flush_free
<1>2. /\ current \in Task
      /\ state[current] = "RUNNING"
      /\ pc[current] \notin {"new", "none", "exit"}
      /\ iter[current] # <<>>
      /\ Top(current) \in Activation
      /\ iter[current][n].z = z
  BY <1>1, FlusherRuns DEF Top
<1>3. z \in Task /\ a \in Activation /\ a.z = NULL
  BY <1>1, <1>2 DEF Activation
<1> HIDE DEF a
<1>4. /\ iter' \in [Task -> Seq(Activation)]
      /\ \A t \in Task \ {current} : iter'[t] = iter[t]
      /\ iter'[current] # <<>>
      /\ \A t \in Task : DOMAIN iter'[t] = DOMAIN iter[t]
      /\ n \in DOMAIN iter[current]
      /\ iter'[current][n] = a
      /\ \A i \in DOMAIN iter[current] \ {n} : iter'[current][i] = iter[current][i]
  BY <1>1, <1>3, SetTopLemma
<1> HIDE DEF n, z
<1>5. val = 1 /\ \A t \in Task : pc[t] # "alloc"
  BY <1>1 DEF sem_P_waits, IInv, PagesemExcludes
<1>6. val' = 1 /\ WakePost
  BY <1>1, <1>5, WakeLemma
<1>7. z \in BeingFreed
  BY <1>2, <1>3, <1>4, SMTT(30) DEF BeingFreed
<1>8. z \notin Range(free_list) /\ z \notin InHand /\ state[z] = "FREE"
  BY <1>3, <1>7, SMTT(30) DEF IInv, PagesConserved
<1>9. /\ free_list' \in Seq(Task)
      /\ IsInjective(free_list')
      /\ Range(free_list') = Range(free_list) \cup {z}
  <2>1. free_list \in Seq(Task) /\ IsInjective(free_list)
    BY DEF IInv, TypeOK, PagesConserved
  <2> QED
    BY <1>1, <1>3, <1>8, <2>1, AppendQueue
<1>10. TypeOK'
  <2>1. val' \in Nat
    BY <1>6
  <2>2. /\ runq' \in Seq(Task)
        /\ waitq' \in [Queue -> Seq(Task)]
        /\ state' \in [Task -> States]
    BY <1>6 DEF WakePost
  <2> QED
    BY <1>1, <1>4, <1>9, <2>1, <2>2, Zenon DEF IInv, TypeOK
<1>11. QueuesMatchStates' /\ CurrentIsHead'
  <2>1. \A t \in Task : InSemP(t)' <=> InSemP(t)
    BY <1>1, <1>2, <1>4 DEF InSemP
  <2> QED
    BY <1>1, <1>2, <1>6, <2>1, WakeInv, SMTT(30)
<1>12. PagesemExcludes'
  BY <1>1, <1>5, <1>6 DEF PagesemExcludes
<1>13. \A t \in Task : /\ state'[t] = "FREE" <=> state[t] = "FREE"
                       /\ state'[t] = "ZOMBIE" <=> state[t] = "ZOMBIE"
                       /\ state[t] = "READY" => state'[t] = "READY"
                       /\ state[t] = "RUNNING" => state'[t] = "RUNNING"
  BY <1>6, SMTT(30) DEF WakePost
<1>14. PagesConserved'
  <2>1. InHand' = InHand
    BY <1>1 DEF InHand
  <2>2. ASSUME NEW t \in Task, NEW i \in DOMAIN iter'[t], iter'[t][i].z # NULL
        PROVE  i \in DOMAIN iter[t] /\ iter'[t][i] = iter[t][i] /\ ~(t = current /\ i = n)
    BY <1>3, <1>4, <2>2
  <2>3. \A t, u \in Task : \A i \in DOMAIN iter[t], j \in DOMAIN iter[u] :
          iter[t][i].z = iter[u][j].z /\ iter[t][i].z # NULL => t = u /\ i = j
    BY DEF IInv, PagesConserved
  <2>4. BeingFreed' = BeingFreed \ {z}
    <3>1. ASSUME NEW p \in BeingFreed'
          PROVE  p \in BeingFreed \ {z}
      <4>1. PICK t \in Task : \E i \in DOMAIN iter'[t] : iter'[t][i].z = p
        BY <3>1 DEF BeingFreed
      <4>2. PICK i \in DOMAIN iter'[t] : iter'[t][i].z = p
        BY <4>1
      <4>3. p \in Task /\ p # NULL
        BY <3>1, TaskAssumption DEF BeingFreed
      <4>4. i \in DOMAIN iter[t] /\ iter[t][i].z = p /\ ~(t = current /\ i = n)
        BY <2>2, <4>2, <4>3, SMTT(30)
      <4>5. p # z
        BY <1>2, <1>4, <2>3, <4>3, <4>4
      <4> QED
        BY <4>3, <4>4, <4>5 DEF BeingFreed
    <3>2. ASSUME NEW p \in BeingFreed \ {z}
          PROVE  p \in BeingFreed'
      <4>1. PICK t \in Task : \E i \in DOMAIN iter[t] : iter[t][i].z = p
        BY <3>2 DEF BeingFreed
      <4>2. PICK i \in DOMAIN iter[t] : iter[t][i].z = p
        BY <4>1
      <4>3. ~(t = current /\ i = n) /\ p \in Task
        BY <1>2, <3>2, <4>2 DEF BeingFreed
      <4>4. i \in DOMAIN iter'[t] /\ iter'[t][i].z = p
        BY <1>4, <4>2, <4>3
      <4> QED
        BY <4>3, <4>4 DEF BeingFreed
    <3> QED
      BY <3>1, <3>2
  <2>5. \A t, u \in Task : \A i \in DOMAIN iter'[t], j \in DOMAIN iter'[u] :
          iter'[t][i].z = iter'[u][j].z /\ iter'[t][i].z # NULL => t = u /\ i = j
    BY <2>2, <2>3
  <2>6. {p \in Task : state'[p] = "FREE"} = {p \in Task : state[p] = "FREE"}
    BY <1>13
  <2> QED
    BY <1>1, <1>7, <1>8, <1>9, <2>1, <2>4, <2>5, <2>6, SMTT(30) DEF IInv, PagesConserved
<1>15. ControlInv'
  <2>1. Idle \in Task /\ ControlInv
    BY TaskAssumption DEF IInv
  <2>2. state'[Idle] \in {"RUNNING", "READY"} /\ pc'[Idle] = "run"
    BY <1>1, <1>13, <2>1 DEF ControlInv
  <2>3. \A t \in Task : /\ pc'[t] = "none" <=> state'[t] = "FREE"
                        /\ pc'[t] = "exit" <=> state'[t] = "ZOMBIE"
                        /\ pc'[t] = "new" => state'[t] = "READY"
    BY <1>1, <1>13, <2>1, SMTT(30) DEF ControlInv
  <2>4. \A t \in Task : pc'[t] \in {"new", "none", "exit"} => iter'[t] = <<>>
    BY <1>1, <1>2, <1>4, <2>1, SMTT(30) DEF ControlInv
  <2>5. \A t \in Task : got'[t] # NULL => pc'[t] = "got"
    BY <1>1, <2>1, SMTT(30) DEF ControlInv
  <2>6. state'[current'] = "RUNNING"
    BY <1>1, <1>2, <1>13
  <2> QED
    BY <2>2, <2>3, <2>4, <2>5, <2>6 DEF ControlInv
<1> QED
  BY <1>10, <1>11, <1>12, <1>14, <1>15 DEF IInv

-----------------------------------------------------------------------------
(***************************************************************************)
(* Wake-ups of pagesem.                                                    *)
(***************************************************************************)

\* A step that leaves pagesem and its sleepers alone keeps WakeupInv when nobody
\* it touches was waiting for pagesem, or still is.
LEMMA WakeupKept ==
  ASSUME WakeupInv, val' = val, waitq'["pagesem"] = waitq["pagesem"],
         \A t \in Task : state[t] \in {"READY", "RUNNING"} /\ WaitsForPagesem(t) =>
                           state'[t] \in {"READY", "RUNNING"} /\ WaitsForPagesem(t)',
         \A t \in Task : state'[t] = "SLEEPING" /\ InSemP(t)' =>
                           /\ state[t] = "SLEEPING" /\ InSemP(t)
                           /\ WaitsForPagesem(t) => WaitsForPagesem(t)'
  PROVE  WakeupInv'
BY DEF WakeupInv, SleepersWait, NoLostWakeup

\* sched() changes neither who sleeps nor who waits for pagesem.
LEMMA SchedKeepsWaiters ==
  ASSUME NEW STATE rq, NEW STATE st, NEW STATE pcs, SchedPre(rq, st, pcs), sched(rq, st, pcs),
         UNCHANGED iter
  PROVE  \A t \in Task :
           /\ state'[t] = "SLEEPING" <=> st[t] = "SLEEPING"
           /\ state'[t] \in {"READY", "RUNNING"} <=> st[t] \in {"READY", "RUNNING"}
           /\ InSemP(t)' <=> pcs[t] = "P" \/ iter[t] # <<>>
           /\ WaitsForPagesem(t)' <=> pcs[t] = "P" \/ \E i \in DOMAIN iter[t] : iter[t][i].z # NULL
<1> SUFFICES ASSUME NEW t \in Task
             PROVE  /\ state'[t] = "SLEEPING" <=> st[t] = "SLEEPING"
                    /\ state'[t] \in {"READY", "RUNNING"} <=> st[t] \in {"READY", "RUNNING"}
                    /\ InSemP(t)' <=> pcs[t] = "P" \/ iter[t] # <<>>
                    /\ WaitsForPagesem(t)' <=>
                         pcs[t] = "P" \/ \E i \in DOMAIN iter[t] : iter[t][i].z # NULL
  OBVIOUS
<1>1. SchedPost(rq, st, pcs)
  BY SchedLemma, TaskAssumption
<1>2. pc'[t] = "P" <=> pcs[t] = "P"
  BY <1>1 DEF SchedPost
<1>3. /\ state'[t] = "SLEEPING" <=> st[t] = "SLEEPING"
      /\ state'[t] \in {"READY", "RUNNING"} <=> st[t] \in {"READY", "RUNNING"}
  BY <1>1 DEF SchedPost
<1> QED
  BY <1>2, <1>3 DEF InSemP, WaitsForPagesem

\* An interrupt that wakes nobody, and the sched() of do_exit.
LEMMA PlainSwitchWakeup ==
  ASSUME IInv, WakeupInv, sched(runq, state, pc), UNCHANGED <<waitq, val, iter>>
  PROVE  WakeupInv'
<1>1. SchedPre(runq, state, pc)
  BY SMTT(30) DEF SchedPre, IInv, TypeOK, QueuesMatchStates, CurrentIsHead, ControlInv
<1>2. \A t \in Task :
        /\ state'[t] = "SLEEPING" <=> state[t] = "SLEEPING"
        /\ state'[t] \in {"READY", "RUNNING"} <=> state[t] \in {"READY", "RUNNING"}
        /\ InSemP(t)' <=> InSemP(t)
        /\ WaitsForPagesem(t)' <=> WaitsForPagesem(t)
  BY <1>1, SchedKeepsWaiters DEF InSemP, WaitsForPagesem
<1> QED
  BY <1>2, WakeupKept, SMTT(30)

\* The floppy interrupt wakes nobody who waits for pagesem.
LEMMA FloppyIrqWakeup ==
  ASSUME IInv, WakeupInv, floppy_irq
  PROVE  WakeupInv'
<1> DEFINE q == waitq["floppyq"]
           st == [t \in Task |-> IF t \in Range(q) THEN "READY" ELSE state[t]]
<1>1. sched(runq \o q, st, pc) /\ waitq' = [waitq EXCEPT !["floppyq"] = <<>>] /\ UNCHANGED <<val, iter>>
  BY DEF floppy_irq, wake_up
<1>2. SchedPre(runq \o q, st, pc)
  BY FloppyIrqPre DEF SwitchPre
<1>3. \A t \in Task : st[t] = IF t \in Range(q) THEN "READY" ELSE state[t]
  OBVIOUS
<1>4. \A t \in Range(q) : state[t] = "SLEEPING" /\ ~InSemP(t)
  BY DEF IInv, QueuesMatchStates
<1>5. waitq'["pagesem"] = waitq["pagesem"]
  BY <1>1 DEF IInv, TypeOK, Queue
<1> HIDE DEF st
<1>6. \A t \in Task :
        /\ state'[t] = "SLEEPING" <=> st[t] = "SLEEPING"
        /\ state'[t] \in {"READY", "RUNNING"} <=> st[t] \in {"READY", "RUNNING"}
        /\ InSemP(t)' <=> InSemP(t)
        /\ WaitsForPagesem(t)' <=> WaitsForPagesem(t)
  BY <1>1, <1>2, SchedKeepsWaiters DEF InSemP, WaitsForPagesem
<1> QED
  BY <1>1, <1>3, <1>4, <1>5, <1>6, WakeupKept

\* sleep_on by a task that is not idle: on pagesem, whose value is then zero, or
\* on floppyq by a task that is not in sem_P.
LEMMA SleepWakeup ==
  ASSUME IInv, WakeupInv, NEW CONSTANT q \in Queue, NEW STATE pcs,
         state[current] = "RUNNING", current # Idle,
         pcs = pc \/ (pcs = [pc EXCEPT ![current] = "P"] /\ pc[current] \in {"run", "P"}),
         q = "pagesem" <=> (pcs[current] = "P" \/ iter[current] # <<>>),
         q = "pagesem" => /\ val = 0
                          /\ pcs[current] = "P" \/ \E i \in DOMAIN iter[current] : iter[current][i].z # NULL,
         sleep_on(q, pcs), UNCHANGED <<val, iter>>
  PROVE  WakeupInv'
<1> DEFINE rq == list_del(runq, current)
           st == [state EXCEPT ![current] = "SLEEPING"]
<1>1. sched(rq, st, pcs) /\ waitq' = [waitq EXCEPT ![q] = Append(@, current)]
  BY DEF sleep_on
<1>2. SchedPre(rq, st, pcs)
  BY SleepPre, Zenon DEF SwitchPre
<1>3. /\ current \in Task /\ state \in [Task -> States] /\ pc \in [Task -> PCs]
      /\ waitq \in [Queue -> Seq(Task)]
  BY DEF IInv, TypeOK
<1>4. st[current] = "SLEEPING" /\ \A t \in Task : t # current => st[t] = state[t] /\ pcs[t] = pc[t]
  BY <1>3
<1>a. PICK c \in Task : c = current
  BY <1>3
<1> HIDE DEF st, rq
<1>5. \A t \in Task :
        /\ state'[t] = "SLEEPING" <=> st[t] = "SLEEPING"
        /\ state'[t] \in {"READY", "RUNNING"} <=> st[t] \in {"READY", "RUNNING"}
        /\ InSemP(t)' <=> pcs[t] = "P" \/ iter[t] # <<>>
        /\ WaitsForPagesem(t)' <=> pcs[t] = "P" \/ \E i \in DOMAIN iter[t] : iter[t][i].z # NULL
  BY <1>1, <1>2, SchedKeepsWaiters, SMTT(30)
<1>6. \A t \in Task : t # c =>
        /\ state'[t] = "SLEEPING" <=> state[t] = "SLEEPING"
        /\ state'[t] \in {"READY", "RUNNING"} <=> state[t] \in {"READY", "RUNNING"}
        /\ InSemP(t)' <=> InSemP(t)
        /\ WaitsForPagesem(t)' <=> WaitsForPagesem(t)
  BY <1>4, <1>5, <1>a DEF InSemP, WaitsForPagesem
<1>7. CASE q = "pagesem"
  <2>1. WaitsForPagesem(c)'
    BY <1>5, <1>7, <1>a, SMTT(30)
  <2>2. SleepersWait'
    BY <1>6, <2>1 DEF SleepersWait, WakeupInv
  <2>3. NoLostWakeup'
    BY <1>7 DEF NoLostWakeup
  <2> QED
    BY <2>2, <2>3 DEF WakeupInv
<1>8. CASE q # "pagesem"
  <2>1. ~InSemP(c)' /\ ~WaitsForPagesem(c)
    <3>1. ~(pcs[c] = "P" \/ iter[c] # <<>>) /\ pc[c] # "P"
      BY <1>3, <1>8, <1>a
    <3> QED
      BY <1>5, <3>1 DEF WaitsForPagesem
  <2>2. waitq'["pagesem"] = waitq["pagesem"]
    BY <1>1, <1>3, <1>8 DEF Queue
  <2> QED
    BY <1>6, <2>1, <2>2, WakeupKept, SMTT(30)
<1> QED
  BY <1>7, <1>8

\* sem_V on a free semaphore: the sleeper it wakes wants the semaphore, and keeps
\* wanting it when the step touches the current task only.
LEMMA SemVWakeup ==
  ASSUME IInv, WakeupInv, sem_V(0), NEW c \in Task, c = current, state[c] = "RUNNING",
         \A t \in Task : t # c => pc'[t] = pc[t] /\ iter'[t] = iter[t]
  PROVE  WakeupInv'
<1>1. wake_one("pagesem")
  BY DEF sem_V
<1>a. PICK w : w = waitq["pagesem"]
  OBVIOUS
<1>2. /\ w \in Seq(Task) /\ state \in [Task -> States] /\ waitq \in [Queue -> Seq(Task)]
      /\ Range(w) = {t \in Task : state[t] = "SLEEPING" /\ InSemP(t)}
  BY <1>a, SMTT(30) DEF IInv, TypeOK, QueuesMatchStates, Queue
<1>3. \A t \in Task : t # c => /\ InSemP(t)' <=> InSemP(t)
                               /\ WaitsForPagesem(t)' <=> WaitsForPagesem(t)
  BY DEF InSemP, WaitsForPagesem
<1>4. CASE w = <<>>
  <2>1. waitq' = waitq /\ state' = state
    BY <1>1, <1>4, <1>a DEF wake_one
  <2>2. SleepersWait'
    BY <1>3, <2>1 DEF SleepersWait, WakeupInv
  <2>3. NoLostWakeup'
    BY <1>4, <1>a, <2>1 DEF NoLostWakeup
  <2> QED
    BY <2>2, <2>3, SMTT(30) DEF WakeupInv
<1>5. CASE w # <<>>
  <2>1. PICK h : h = Head(w)
    OBVIOUS
  <2>2. state' = [state EXCEPT ![h] = "READY"]
    BY <1>1, <1>5, <1>a, <2>1 DEF wake_one, task_to_runq
  <2>3. h \in Task /\ state[h] = "SLEEPING" /\ InSemP(h)
    BY <1>2, <1>5, <2>1, TailQueue
  <2>4. h # c /\ state'[h] = "READY" /\ \A t \in Task : t # h => state'[t] = state[t]
    BY <1>2, <2>2, <2>3
  <2>5. WaitsForPagesem(h)'
    BY <1>3, <2>3, <2>4 DEF WakeupInv, SleepersWait
  <2>6. SleepersWait'
    BY <1>3, <2>4 DEF SleepersWait, WakeupInv
  <2>7. NoLostWakeup'
    BY <2>3, <2>4, <2>5 DEF NoLostWakeup
  <2> QED
    BY <2>6, <2>7, Zenon DEF WakeupInv
<1> QED
  BY <1>4, <1>5

\* alloc_pages: sem_P, and sem_V once it has the page.
LEMMA AllocWakeup ==
  ASSUME IInv, WakeupInv, NEW CONSTANT t \in Task, alloc_P(t) \/ alloc_V(t)
  PROVE  WakeupInv'
<1>1. current = t /\ iter[t] = <<>> /\ pc[t] # "exit" /\ iter' = iter
  BY DEF alloc_P, alloc_V, InBase
<1>2. state[t] = "RUNNING" /\ val \in Nat /\ pc \in [Task -> PCs]
  BY <1>1, SMTT(30) DEF IInv, TypeOK, CurrentIsHead
<1>3. CASE alloc_P(t) /\ sem_P_waits
  <2>1. /\ t # Idle /\ pc[t] \in {"run", "P"} /\ sleep_on("pagesem", [pc EXCEPT ![t] = "P"])
        /\ UNCHANGED <<val, iter>>
    BY <1>3 DEF alloc_P
  <2> DEFINE pcs == [pc EXCEPT ![current] = "P"]
  <2>2. /\ sleep_on("pagesem", pcs) /\ pcs[current] = "P" /\ "pagesem" \in Queue
        /\ pcs = [pc EXCEPT ![current] = "P"] /\ pc[current] \in {"run", "P"}
    BY <1>1, <1>2, <2>1 DEF Queue
  <2>3. val = 0
    BY <1>2, <1>3 DEF sem_P_waits
  <2> HIDE DEF pcs
  <2> QED
    BY <1>1, <1>2, <2>1, <2>2, <2>3, SleepWakeup, Zenon
<1>4. CASE alloc_P(t) /\ ~sem_P_waits
  <2>1. val' = val - 1 /\ pc' = [pc EXCEPT ![t] = "alloc"] /\ UNCHANGED <<state, waitq>>
    BY <1>4 DEF alloc_P
  <2>2. val = 1
    BY <1>2, <1>4 DEF sem_P_waits, IInv, PagesemExcludes
  <2>3. NoLostWakeup'
    BY <2>1, <2>2, SMTT(30) DEF NoLostWakeup
  <2>4. \A u \in Task : u # t => /\ InSemP(u)' <=> InSemP(u)
                                 /\ WaitsForPagesem(u)' <=> WaitsForPagesem(u)
    BY <1>1, <1>2, <2>1 DEF InSemP, WaitsForPagesem
  <2>5. SleepersWait'
    BY <1>2, <2>1, <2>4, SMTT(30) DEF SleepersWait, WakeupInv
  <2> QED
    BY <2>3, <2>5 DEF WakeupInv
<1>5. CASE alloc_V(t)
  <2>1. sem_V(val) /\ pc[t] = "alloc" /\ pc' = [pc EXCEPT ![t] = "got"]
    BY <1>5 DEF alloc_V
  <2>2. val = 0
    BY <2>1 DEF IInv, PagesemExcludes
  <2>3. \A u \in Task : u # t => pc'[u] = pc[u] /\ iter'[u] = iter[u]
    BY <1>1, <1>2, <2>1
  <2>4. sem_V(0)
    BY <2>1, <2>2, SMTT(30)
  <2> QED
    BY <1>1, <1>2, <2>3, <2>4, SemVWakeup
<1> QED
  BY <1>3, <1>4, <1>5

\* A fork and an exit are by a task that is not in sem_P, and touch no sleeper.
LEMMA ForkExitWakeup ==
  ASSUME IInv, WakeupInv, NEW CONSTANT t \in Task, sys_fork(t) \/ do_exit(t)
  PROVE  WakeupInv'
<1>1. /\ current = t /\ iter[t] = <<>> /\ pc[t] \in {"run", "got"}
      /\ val' = val /\ waitq' = waitq /\ iter' = iter
  BY DEF sys_fork, do_exit, InBase
<1>2. /\ state[t] = "RUNNING" /\ state \in [Task -> States] /\ pc \in [Task -> PCs]
      /\ got \in [Task -> Task \cup {NULL}]
  BY <1>1, SMTT(30) DEF IInv, TypeOK, CurrentIsHead
<1>3. ~WaitsForPagesem(t)
  BY <1>1, SMTT(30) DEF WaitsForPagesem
<1>4. \A u \in Task : /\ state[u] \in {"READY", "RUNNING"} /\ u # t => state'[u] \in {"READY", "RUNNING"} /\ pc'[u] = pc[u]
                      /\ state'[u] = "SLEEPING" => state[u] = "SLEEPING" /\ u # t /\ pc'[u] = pc[u]
  <2>1. CASE do_exit(t)
    <3>1. state' = [state EXCEPT ![t] = "ZOMBIE"] /\ pc' = [pc EXCEPT ![t] = "exit"]
      BY <2>1 DEF do_exit
    <3> QED
      BY <1>2, <3>1
  <2>2. CASE sys_fork(t) /\ got[t] = NULL
    <3>1. state' = state /\ pc' = [pc EXCEPT ![t] = "run"]
      BY <2>2 DEF sys_fork
    <3> QED
      BY <1>2, <3>1
  <2>3. CASE sys_fork(t) /\ got[t] # NULL
    <3>1. PICK p : p = got[t]
      OBVIOUS
    <3>2. state' = [state EXCEPT ![p] = "READY"] /\ pc' = [pc EXCEPT ![t] = "run", ![p] = "new"]
      BY <2>3, <3>1 DEF sys_fork, task_to_runq
    <3>3. p \in Task /\ p \in InHand
      BY <1>2, <2>3, <3>1, SMTT(30) DEF InHand
    <3>4. state[p] = "FREE" /\ p # t
      BY <1>2, <3>3, SMTT(30) DEF IInv, PagesConserved
    <3> QED
      BY <1>2, <3>2, <3>3, <3>4
  <2> QED
    BY <2>1, <2>2, <2>3
<1>5. \A u \in Task : pc'[u] = pc[u] => /\ InSemP(u)' <=> InSemP(u)
                                        /\ WaitsForPagesem(u)' <=> WaitsForPagesem(u)
  BY <1>1, SMTT(30) DEF InSemP, WaitsForPagesem
<1> QED
  BY <1>1, <1>3, <1>4, <1>5, WakeupKept, SMTT(30)

\* flush_delq: the entry and the head of its loop.
LEMMA FlushLoopWakeup ==
  ASSUME IInv, WakeupInv, sched_resumed \/ flush_next
  PROVE  WakeupInv'
<1>1. val' = val /\ waitq' = waitq /\ current' = current
  BY DEF sched_resumed, flush_next
<1>a. PICK c : c = current
  BY SMTT(30)
<1>2. /\ c \in Task /\ state[c] = "RUNNING" /\ iter \in [Task -> Seq(Activation)]
      /\ state \in [Task -> States] /\ pc \in [Task -> PCs] /\ delq \in Seq(Task)
  BY <1>a, FlusherRuns, Zenon DEF sched_resumed, flush_next, IInv, TypeOK, ControlInv
<1>3. \A u \in Task : /\ u # c => iter'[u] = iter[u]
                      /\ \A i \in DOMAIN iter[u] : iter[u][i].z # NULL =>
                           i \in DOMAIN iter'[u] /\ iter'[u][i].z # NULL
  <2>1. CASE iter' = iter
    BY <2>1
  <2>2. CASE sched_resumed /\ iter' # iter
    <3>1. /\ delq # <<>> /\ iter' = [iter EXCEPT ![c] = Append(iter[c], [z |-> NULL, tmp |-> Head(delq)])]
      BY <1>a, <2>2, SMTT(30) DEF sched_resumed, Push
    <3>2. [z |-> NULL, tmp |-> Head(delq)] \in Activation
      BY <1>2, <3>1, TailQueue, SMTT(30) DEF Activation
    <3>3. \A i \in DOMAIN iter[c] : i \in DOMAIN Append(iter[c], [z |-> NULL, tmp |-> Head(delq)])
                                    /\ Append(iter[c], [z |-> NULL, tmp |-> Head(delq)])[i] = iter[c][i]
      BY <1>2, <3>2, SMTT(30)
    <3> QED
      BY <1>2, <3>1, <3>3
  <2>3. CASE flush_next /\ iter' # iter
    <3>1. /\ InFlush /\ Top(current).z = NULL
          /\ \/ iter' = [iter EXCEPT ![current] = SubSeq(@, 1, Len(@) - 1)]
             \/ /\ Top(current).tmp # NULL
                /\ SetTop(current, [z |-> Top(current).tmp, tmp |-> Successor(Top(current).tmp)])
      BY <2>3, Zenon DEF flush_next
    <3>2. /\ iter[c] \in Seq(Activation) /\ iter[c] # <<>> /\ iter[c][Len(iter[c])].z = NULL
          /\ Top(current).tmp \in Task \cup {NULL}
      BY <1>2, <1>a, <3>1, FlusherRuns, Zenon DEF Top, InFlush, Activation
    <3>3. CASE iter' = [iter EXCEPT ![current] = SubSeq(@, 1, Len(@) - 1)]
      <4>1. iter' = [iter EXCEPT ![c] = SubSeq(iter[c], 1, Len(iter[c]) - 1)]
        BY <1>a, <3>3
      <4>2. PICK s : s = iter[c]
        OBVIOUS
      <4>3. s \in Seq(Activation) /\ s # <<>>
        BY <3>2, <4>2
      <4>4. PICK r : r = SubSeq(s, 1, Len(s) - 1)
        BY Zenon
      <4>5. DOMAIN r = DOMAIN s \ {Len(s)} /\ \A i \in DOMAIN r : r[i] = s[i]
        BY <4>3, <4>4, Popped, ZenonT(30)
      <4>6. iter'[c] = r /\ \A u \in Task : u # c => iter'[u] = iter[u]
        BY <1>2, <4>1, <4>2, <4>4, SMTT(30)
      <4> QED
        BY <3>2, <4>2, <4>5, <4>6
    <3>4. CASE SetTop(current, [z |-> Top(current).tmp, tmp |-> Successor(Top(current).tmp)])
      <4> DEFINE a == [z |-> Top(current).tmp, tmp |-> Successor(Top(current).tmp)]
      <4>1. a \in Activation
        BY <3>2, SuccessorType, SMTT(30) DEF Activation
      <4> HIDE DEF a
      <4>2. /\ \A u \in Task \ {current} : iter'[u] = iter[u]
            /\ \A u \in Task : DOMAIN iter'[u] = DOMAIN iter[u]
            /\ \A i \in DOMAIN iter[current] \ {Len(iter[current])} :
                 iter'[current][i] = iter[current][i]
        BY <3>1, <3>4, <4>1, SetTopLemma DEF a
      <4> QED
        BY <1>2, <1>a, <3>2, <4>2, SMTT(30)
    <3> QED
      BY <3>1, <3>3, <3>4, SMTT(30)
  <2> QED
    BY <2>1, <2>2, <2>3
<1>4. \A u \in Task : \/ state'[u] = state[u] /\ pc'[u] = pc[u]
                      \/ state[u] = "ZOMBIE" /\ state'[u] = "FREE"
  <2>1. CASE sched_resumed
    BY <2>1 DEF sched_resumed
  <2>2. CASE flush_next
    <3>1. PICK z : z = Top(current).tmp
      BY SMTT(30)
    <3>2. \/ UNCHANGED <<state, pc>>
          \/ /\ state[z] = "ZOMBIE" /\ state' = [state EXCEPT ![z] = "FREE"]
             /\ pc' = [pc EXCEPT ![z] = "none"]
      BY <2>2, <3>1, ZenonT(40) DEF flush_next
    <3> QED
      BY <1>2, <3>2
  <2> QED
    BY <2>1, <2>2, SMTT(30)
<1>5. \A u \in Task : pc'[u] = pc[u] => (WaitsForPagesem(u) => WaitsForPagesem(u)')
  BY <1>3, SMTT(30) DEF WaitsForPagesem
<1>6. \A u \in Task : u # c /\ pc'[u] = pc[u] => (InSemP(u)' <=> InSemP(u))
  BY <1>3 DEF InSemP
<1> QED
  BY <1>1, <1>2, <1>4, <1>5, <1>6, WakeupKept, SMTT(30)

\* flush_delq: free_page waits for pagesem, or frees the page and wakes a sleeper.
LEMMA FlushFreeWakeup ==
  ASSUME IInv, WakeupInv, flush_sleep \/ flush_free
  PROVE  WakeupInv'
<1>1. InFlush /\ Top(current).z # NULL
  BY DEF flush_sleep, flush_free
<1>2. /\ current \in Task /\ state[current] = "RUNNING" /\ iter[current] # <<>>
      /\ Len(iter[current]) \in DOMAIN iter[current] /\ iter[current][Len(iter[current])].z # NULL
      /\ Top(current) \in Activation
  BY <1>1, FlusherRuns, SMTT(30) DEF Top
<1>3. CASE flush_sleep /\ current = Idle
  <2>1. UNCHANGED <<state, waitq, pc, val, iter>>
    BY <1>3, SMTT(30) DEF flush_sleep, sleep_on
  <2> QED
    BY <2>1 DEF WakeupInv, SleepersWait, NoLostWakeup, InSemP, WaitsForPagesem
<1>4. CASE flush_sleep /\ current # Idle
  <2>1. sleep_on("pagesem", pc) /\ UNCHANGED <<val, iter>> /\ "pagesem" \in Queue
    BY <1>4 DEF flush_sleep, Queue
  <2>2. val = 0
    BY <1>4 DEF flush_sleep, sem_P_waits, IInv, TypeOK
  <2> QED
    BY <1>2, <1>4, <2>1, <2>2, SleepWakeup
<1>5. CASE flush_free
  <2>1. sem_V(val - 1) /\ ~sem_P_waits /\ pc' = pc /\ SetTop(current, [Top(current) EXCEPT !.z = NULL])
    BY <1>5 DEF flush_free
  <2>2. val = 1
    BY <2>1 DEF sem_P_waits, IInv, PagesemExcludes
  <2>3. sem_V(0)
    BY <2>1, <2>2
  <2>4. [Top(current) EXCEPT !.z = NULL] \in Activation
    BY <1>2 DEF Activation
  <2>5. \A t \in Task : t # current => iter'[t] = iter[t]
    BY <1>1, <2>1, <2>4, SetTopLemma
  <2>6. PICK c \in Task : c = current
    BY <1>2
  <2> QED
    BY <1>2, <2>1, <2>3, <2>5, <2>6, SemVWakeup
<1> QED
  BY <1>3, <1>4, <1>5


-----------------------------------------------------------------------------

INSTANCE FiniteSetTheorems

\* setup() leaves the invariant true.
LEMMA InitIInv == Init => IInv
<1> SUFFICES ASSUME Init PROVE IInv
  OBVIOUS
<1> DEFINE F == Task \ {Idle, InitTask}
<1>1. /\ Idle \in Task
      /\ InitTask \in Task
      /\ InitTask # Idle
      /\ NULL \notin Task
      /\ IsFiniteSet(F)
  <2>1. IsFiniteSet(Task) /\ F \subseteq Task
    BY TaskAssumption
  <2>2. IsFiniteSet(F)
    BY <2>1, FS_Subset
  <2> QED
    BY <2>2, TaskAssumption
<1>2. /\ current = Idle
      /\ state \in [Task -> States]
      /\ state[Idle] = "RUNNING"
      /\ state[InitTask] = "READY"
      /\ \A t \in F : state[t] = "FREE"
  BY <1>1 DEF Init, States
<1>3. /\ pc \in [Task -> PCs]
      /\ pc[Idle] = "run"
      /\ pc[InitTask] = "new"
      /\ \A t \in F : pc[t] = "none"
  BY <1>1 DEF Init, PCs
<1>4. /\ free_list \in Seq(Task)
      /\ IsInjective(free_list)
      /\ Range(free_list) = F
  <2> DEFINE n == Cardinality(F)
  <2>1. n \in Nat
    BY <1>1, FS_CardinalityType
  <2>2. /\ free_list \in [1 .. n -> F]
        /\ \A i, j \in 1 .. n : i # j => free_list[i] # free_list[j]
    <3>1. free_list \in Injection(1 .. n, F)
      BY DEF Init
    <3> HIDE DEF F, n
    <3> QED
      BY <3>1 DEF Injection, IsInjective
  <2> HIDE DEF n
  <2>3. IsFiniteSet(1 .. n) /\ Cardinality(1 .. n) = Cardinality(F)
    <3>1. 1 \in Int /\ n \in Int
      BY <2>1
    <3>2. IsFiniteSet(1 .. n) /\ Cardinality(1 .. n) = IF 1 > n THEN 0 ELSE n - 1 + 1
      BY <3>1, FS_Interval
    <3>3. Cardinality(1 .. n) = n
      BY <2>1, <3>2
    <3> QED
      BY <3>2, <3>3 DEF n
  <2>4. IsInjective(free_list)
    BY <2>2 DEF IsInjective
  <2>5. free_list \in Injection(1 .. n, F)
    BY <2>2, <2>4 DEF Injection
  <2>6. free_list \in Surjection(1 .. n, F)
    BY <1>1, <2>3, <2>5, FS_Injection
  <2>7. Range(free_list) = F
    BY <2>2, <2>6 DEF Surjection, Range
  <2>8. free_list \in [1 .. n -> Task]
    BY <2>2
  <2>9. free_list \in Seq(Task)
    BY <2>1, <2>8
  <2> QED
    BY <2>4, <2>7, <2>9
<1>5. /\ runq \in Seq(Task)
      /\ IsInjective(runq)
      /\ Range(runq) = {InitTask}
      /\ runq = <<InitTask>>
  BY <1>1 DEF Init, Range, IsInjective
<1>6. <<>> \in Seq(Task) /\ <<>> \in Seq(Activation) /\ IsInjective(<<>>) /\ Range(<<>>) = {}
  BY DEF Range, IsInjective
<1>7. /\ delq = <<>>
      /\ waitq = [q \in Queue |-> <<>>]
      /\ val = 1
      /\ got = [t \in Task |-> NULL]
      /\ iter = [t \in Task |-> <<>>]
      /\ insched = FALSE
      /\ panicked = FALSE
  BY DEF Init
<1>8. TypeOK
  <2>1. /\ waitq \in [Queue -> Seq(Task)]
        /\ val \in Nat
        /\ got \in [Task -> Task \cup {NULL}]
        /\ iter \in [Task -> Seq(Activation)]
        /\ delq \in Seq(Task)
        /\ current \in Task
    BY <1>1, <1>2, <1>6, <1>7, SMTT(30)
  <2> QED
    BY <1>2, <1>3, <1>4, <1>5, <1>7, <2>1, Zenon DEF TypeOK
<1>9. QueuesMatchStates
  BY <1>1, <1>2, <1>3, <1>5, <1>6, <1>7, SMTT(30) DEF QueuesMatchStates, Queue, InSemP
<1>10. CurrentIsHead
  BY <1>1, <1>2, <1>3 DEF CurrentIsHead
<1>11. PagesemExcludes
  BY <1>1, <1>3, <1>7, SMTT(30) DEF PagesemExcludes
<1>12. PagesConserved
  <2>1. InHand = {} /\ BeingFreed = {}
    BY <1>1, <1>7 DEF InHand, BeingFreed
  <2> QED
    BY <1>1, <1>2, <1>4, <1>7, <2>1 DEF PagesConserved
<1>13. ControlInv
  BY <1>1, <1>2, <1>3, <1>7, SMTT(30) DEF ControlInv
<1> QED
  BY <1>8, <1>9, <1>10, <1>11, <1>12, <1>13 DEF IInv

\* Every step of the kernel preserves the invariant.
LEMMA NextIInv == IInv /\ [Next]_vars => IInv'
<1> SUFFICES ASSUME IInv, [Next]_vars PROVE IInv'
  OBVIOUS
<1>1. ASSUME NEW t \in Task, alloc_P(t) PROVE IInv'
  BY <1>1, AllocPStep
<1>2. ASSUME NEW t \in Task, alloc_V(t) PROVE IInv'
  BY <1>2, AllocVStep, SMTT(30)
<1>3. ASSUME NEW t \in Task, sys_fork(t) PROVE IInv'
  BY <1>3, SysForkStep
<1>4. ASSUME NEW t \in Task, floppy_wait(t) PROVE IInv'
  <2>1. /\ current = t
        /\ iter[current] = <<>>
        /\ current # Idle
        /\ pc[current] = "run"
        /\ sleep_on("floppyq", pc)
        /\ UNCHANGED <<delq, val, free_list, got, iter>>
    BY <1>4 DEF floppy_wait, InBase
  <2>2. state[current] = "RUNNING"
    BY <2>1 DEF IInv, CurrentIsHead
  <2>3. "floppyq" \in Queue
    BY DEF Queue
  <2> QED
    BY <2>1, <2>2, <2>3, SleepStep, SMTT(30)
<1>5. ASSUME NEW t \in Task, do_exit(t) PROVE IInv'
  BY <1>5, DoExitStep
<1>6. ASSUME NEW t \in Task, do_exit_sched(t) PROVE IInv'
  BY <1>6, PlainSwitch DEF do_exit_sched
<1>7. CASE sched_resumed
  BY <1>7, SchedResumedStep
<1>8. CASE flush_next
  BY <1>8, FlushNextStep, SMTT(30)
<1>9. CASE flush_sleep
  BY <1>9, FlushSleepStep
<1>10. CASE flush_free
  BY <1>10, FlushFreeStep
<1>11. CASE timer_irq
  BY <1>11, PlainSwitch, SMTT(30) DEF timer_irq
<1>12. CASE floppy_irq
  BY <1>12, FloppyIrqStep
<1>13. CASE UNCHANGED vars
  BY <1>13, PanicStep DEF vars, IInv, TypeOK
<1> QED
  BY SMTT(30), <1>1, <1>2, <1>3, <1>4, <1>5, <1>6, <1>7, <1>8, <1>9, <1>10, <1>11, <1>12,
     <1>13 DEF Next, TaskStep, SchedStep, Interrupt, halted

\* The invariant holds in every reachable state.
LEMMA Invariance == Spec => []IInv
  BY InitIInv, NextIInv, PTL DEF Spec

\* Type correctness, with the value of pagesem never below zero: sem_P takes the
\* semaphore only when its value is positive.
THEOREM TypeCorrect == Spec => []TypeOK
<1>1. IInv => TypeOK
  BY DEF IInv
<1> QED
  BY <1>1, Invariance, PTL

\* Every task is always on exactly the list its state says, whatever the number
\* of tasks: sleep_on, wake_one, wake_up, do_exit, sched and flush_delq keep the
\* lists and task->state in step.
THEOREM ListsAgree == Spec => []QueuesMatchStates
<1>1. IInv => QueuesMatchStates
  BY DEF IInv
<1> QED
  BY <1>1, Invariance, PTL

\* The task that has the CPU is the only RUNNING one and the first on the run
\* queue, and the CPU never runs in a task whose page was given back.
THEOREM CpuWhereListsSay == Spec => []CurrentIsHead
<1>1. IInv => CurrentIsHead
  BY DEF IInv
<1> QED
  BY <1>1, Invariance, PTL

\* pagesem is a mutual exclusion lock for alloc_pages and free_pages.
THEOREM MutualExclusion == Spec => []PagesemExcludes
<1>1. IInv => PagesemExcludes
  BY DEF IInv
<1> QED
  BY <1>1, Invariance, PTL

\* alloc_pages and free_pages lose no page, hand none out twice and take none
\* back twice, even when flush_delq is run by several tasks at once.
THEOREM NoPageLost == Spec => []PagesConserved
<1>1. IInv => PagesConserved
  BY DEF IInv
<1> QED
  BY <1>1, Invariance, PTL

\* A task's state follows where it is in the code: do_exit, sys_fork, sched and
\* flush_delq make a task a ZOMBIE exactly from its exit until its page is freed,
\* and no task but a live one holds a page or runs flush_delq.
THEOREM ControlAgrees == Spec => []ControlInv
<1>1. IInv => ControlInv
  BY DEF IInv
<1> QED
  BY <1>1, Invariance, PTL

-----------------------------------------------------------------------------
(***************************************************************************)
(* No wake-up of pagesem is lost.  The invariant says too that a sleeper of *)
(* pagesem still wants it: flush_delq never goes on to the next entry while *)
(* its free_page waits.                                                    *)
(***************************************************************************)

\* Nobody sleeps when the kernel starts.
LEMMA InitWakeup == Init => WakeupInv
<1> SUFFICES ASSUME Init PROVE WakeupInv
  OBVIOUS
<1>1. \A t \in Task : state[t] # "SLEEPING"
  BY DEF Init
<1>2. waitq["pagesem"] = <<>>
  BY DEF Init, Queue
<1> QED
  BY <1>1, <1>2 DEF WakeupInv, SleepersWait, NoLostWakeup

\* Every step of the kernel preserves the invariant.
LEMMA NextWakeup == IInv /\ WakeupInv /\ [Next]_vars => WakeupInv'
<1> SUFFICES ASSUME IInv, WakeupInv, [Next]_vars PROVE WakeupInv'
  OBVIOUS
<1>1. ASSUME NEW t \in Task, alloc_P(t) \/ alloc_V(t) PROVE WakeupInv'
  BY <1>1, AllocWakeup
<1>2. ASSUME NEW t \in Task, sys_fork(t) \/ do_exit(t) PROVE WakeupInv'
  BY <1>2, ForkExitWakeup, SMTT(30)
<1>3. ASSUME NEW t \in Task, floppy_wait(t) PROVE WakeupInv'
  <2>1. /\ current = t
        /\ iter[current] = <<>>
        /\ current # Idle
        /\ pc[current] = "run"
        /\ sleep_on("floppyq", pc)
        /\ UNCHANGED <<val, iter>>
    BY <1>3 DEF floppy_wait, InBase
  <2>2. state[current] = "RUNNING"
    BY <2>1 DEF IInv, CurrentIsHead
  <2>3. "floppyq" \in Queue
    BY DEF Queue
  <2> QED
    BY <2>1, <2>2, <2>3, SleepWakeup, SMTT(30)
<1>4. ASSUME NEW t \in Task, do_exit_sched(t) PROVE WakeupInv'
  BY <1>4, PlainSwitchWakeup DEF do_exit_sched
<1>5. CASE sched_resumed \/ flush_next
  BY <1>5, FlushLoopWakeup
<1>6. CASE flush_sleep \/ flush_free
  BY <1>6, FlushFreeWakeup
<1>7. CASE timer_irq
  BY <1>7, PlainSwitchWakeup DEF timer_irq
<1>8. CASE floppy_irq
  BY <1>8, FloppyIrqWakeup, SMTT(30)
<1>9. CASE UNCHANGED vars
  BY <1>9 DEF vars, WakeupInv, SleepersWait, NoLostWakeup, InSemP, WaitsForPagesem
<1> QED
  BY <1>1, <1>2, <1>3, <1>4, <1>5, <1>6, <1>7, <1>8, <1>9, SMTT(30)
     DEF Next, TaskStep, SchedStep, Interrupt, halted

\* Whenever pagesem is free and tasks sleep on it, a woken task that wants it is
\* about to run: the single wake-up of sem_V never reaches a task that has no use
\* for it, so it is never lost, whatever the number of tasks.
THEOREM NoWakeupLost == Spec => []NoLostWakeup
<1>1. WakeupInv => NoLostWakeup
  BY DEF WakeupInv
<1> QED
  BY <1>1, Invariance, InitWakeup, NextWakeup, PTL DEF Spec

-----------------------------------------------------------------------------
(***************************************************************************)
(* The scheduler with its queues, semaphore and deferred freeing of dead   *)
(* tasks implements AbsSched.                                              *)
(***************************************************************************)

\* sched() is a dispatch of the abstract scheduler: it never leaves the CPU to
\* idle while a task on the run queue could use it.
LEMMA SchedDispatches ==
  ASSUME NEW STATE rq, NEW STATE st, NEW STATE pcs, SchedPre(rq, st, pcs),
         sched(rq, st, pcs)
  PROVE  Abs!Dispatch(st)
<1> DEFINE next == get_next_task(rq)
<1>1. /\ current \in Task
      /\ rq \in Seq(Task)
      /\ st \in [Task -> States]
      /\ IsInjective(rq)
      /\ Range(rq) = {t \in Task \ {Idle} : st[t] \in {"READY", "RUNNING"}}
      /\ \A t \in Task : st[t] = "RUNNING" => t = current
      /\ st[Idle] \in {"RUNNING", "READY"}
      /\ st[current] \in {"RUNNING", "SLEEPING", "ZOMBIE"}
      /\ Idle \in Task
  BY TaskAssumption DEF SchedPre
<1>2. /\ current' = next
      /\ state' = IF next = current THEN st
                  ELSE [st EXCEPT ![current] = IF @ = "RUNNING" THEN "READY" ELSE @,
                                  ![next] = "RUNNING"]
  BY DEF sched
<1>3. /\ next \in Task
      /\ rq = <<>> => next = Idle
      /\ rq # <<>> => next \in Range(rq)
  BY <1>1, GetNextTask
<1> HIDE DEF next
<1>4. Abs!Runnable(st) = Range(rq)
  BY <1>1 DEF Abs!Runnable
<1>5. IF Abs!Runnable(st) = {} THEN next = Idle ELSE next \in Abs!Runnable(st)
  <2>1. rq = <<>> => Range(rq) = {}
    BY DEF Range
  <2> QED
    BY <1>3, <1>4, <2>1
<1>6. st[next] \in {"READY", "RUNNING"}
  BY <1>1, <1>3
<1> DEFINE g == [t \in Task |-> IF t = next THEN "RUNNING"
                                ELSE IF st[t] = "RUNNING" THEN "READY" ELSE st[t]]
<1>7. state' = g
  <2>1. CASE next = current
    <3>1. state' = st /\ st[next] = "RUNNING"
      BY <1>1, <1>2, <1>6, <2>1, SMTT(30)
    <3>2. \A t \in Task : st[t] = g[t]
      BY <1>1, <2>1, <3>1
    <3> QED
      BY <1>1, <3>1, <3>2, SMTT(30)
  <2>2. CASE next # current
    <3>1. state' = [st EXCEPT ![current] = IF st[current] = "RUNNING" THEN "READY"
                                           ELSE st[current],
                              ![next] = "RUNNING"]
      BY <1>2, <2>2
    <3>2. state' \in [Task -> States]
      BY <1>1, <3>1, Zenon DEF States
    <3>3. \A t \in Task : state'[t] = g[t]
      BY <1>1, <1>3, <2>2, <3>1
    <3> QED
      BY <3>2, <3>3
  <2> QED
    BY <2>1, <2>2, SMTT(30)
<1> QED
  BY <1>2, <1>3, <1>5, <1>7, SMTT(30) DEF Abs!Dispatch

\* An interrupt that wakes nobody, or the sched() of do_exit, is a Switch.
LEMMA PlainSwitchRefines ==
  ASSUME IInv, sched(runq, state, pc)
  PROVE  Abs!Switch
<1>1. SchedPre(runq, state, pc)
  BY DEF SchedPre, IInv, TypeOK, QueuesMatchStates, CurrentIsHead, ControlInv
<1>2. Abs!Dispatch(state)
  BY <1>1, SchedDispatches
<1>3. state = [t \in Task |-> IF t \in {} THEN "READY" ELSE state[t]]
  BY DEF IInv, TypeOK
<1>4. {} \in SUBSET {t \in Task : state[t] = "SLEEPING"}
  OBVIOUS
<1> QED
  BY <1>2, <1>3, <1>4, Zenon DEF Abs!Switch

\* The floppy interrupt is a Switch that wakes the sleepers of floppyq.
LEMMA FloppyIrqRefines ==
  ASSUME IInv, floppy_irq
  PROVE  Abs!Switch
<1> DEFINE q == waitq["floppyq"]
           st == [t \in Task |-> IF t \in Range(q) THEN "READY" ELSE state[t]]
<1>1. sched(runq \o q, st, pc)
  BY SMTT(30) DEF floppy_irq, wake_up
<1>2. SchedPre(runq \o q, st, pc)
  BY FloppyIrqPre DEF SwitchPre
<1>3. Abs!Dispatch(st)
  BY <1>1, <1>2, SchedDispatches
<1>4. Range(q) \in SUBSET {t \in Task : state[t] = "SLEEPING"}
  BY SMTT(30) DEF IInv, QueuesMatchStates
<1> QED
  BY <1>3, <1>4 DEF Abs!Switch

\* sleep_on by a task that is not idle is a Block; idle only panics.
LEMMA SleepRefines ==
  ASSUME IInv, NEW CONSTANT q \in Queue, NEW STATE pcs,
         state[current] = "RUNNING",
         pcs = pc \/ (pcs = [pc EXCEPT ![current] = "P"] /\ pc[current] \in {"run", "P"}),
         q = "pagesem" <=> (pcs[current] = "P" \/ iter[current] # <<>>),
         sleep_on(q, pcs)
  PROVE  Abs!Block \/ UNCHANGED <<current, state>>
<1>1. CASE current = Idle
  BY <1>1 DEF sleep_on
<1>2. CASE current # Idle
  <2> DEFINE rq == list_del(runq, current)
             st == [state EXCEPT ![current] = "SLEEPING"]
  <2>1. sched(rq, st, pcs)
    BY <1>2 DEF sleep_on
  <2>2. SchedPre(rq, st, pcs)
    BY <1>2, SleepPre, ZenonT(40) DEF SwitchPre
  <2>3. Abs!Dispatch(st)
    BY <2>1, <2>2, SchedDispatches
  <2> QED
    BY <1>2, <2>3, SMTT(30) DEF Abs!Block
<1> QED
  BY <1>1, <1>2, SMTT(30)

\* sem_V wakes one sleeper or nobody.
LEMMA WakeRefines ==
  ASSUME IInv, NEW STATE v, sem_V(v), UNCHANGED current
  PROVE  (\E t \in Task : Abs!Wake(t)) \/ UNCHANGED <<current, state>>
<1>1. CASE UNCHANGED state
  BY <1>1
<1>2. CASE ~UNCHANGED state
  <2> DEFINE w == waitq["pagesem"]
             t == Head(w)
  <2>1. w # <<>> /\ state' = [state EXCEPT ![t] = "READY"]
    BY <1>2, SMTT(30) DEF sem_V, wake_one, task_to_runq
  <2>2. /\ w \in Seq(Task)
        /\ Range(w) = {u \in Task : state[u] = "SLEEPING" /\ InSemP(u)}
    BY DEF IInv, TypeOK, QueuesMatchStates, Queue
  <2>3. t \in Task /\ t \in Range(w)
    BY <2>1, <2>2, TailQueue, SMTT(30)
  <2> HIDE DEF t
  <2>4. Abs!Wake(t)
    BY <2>1, <2>2, <2>3, SMTT(30) DEF Abs!Wake
  <2> QED
    BY <2>3, <2>4
<1> QED
  BY <1>1, <1>2

\* Every step of the kernel is a step of the abstract scheduler, or changes
\* neither a state nor the owner of the CPU.
LEMMA NextRefines ==
  ASSUME IInv, [Next]_vars
  PROVE  [Abs!Next]_(Abs!avars)
<1> SUFFICES Abs!Next \/ UNCHANGED <<current, state>>
  BY DEF Abs!avars
<1>0. IInv => /\ current \in Task
              /\ state \in [Task -> States]
  BY DEF IInv, TypeOK
<1>1. ASSUME NEW t \in Task, alloc_P(t)
      PROVE  Abs!Next \/ UNCHANGED <<current, state>>
  <2>1. current = t /\ iter[t] = <<>> /\ pc[current] \in {"run", "P"}
    BY <1>1 DEF alloc_P, InBase
  <2>2. state[current] = "RUNNING"
    BY <2>1 DEF IInv, CurrentIsHead
  <2>3. CASE sem_P_waits
    <3> DEFINE pcs == [pc EXCEPT ![current] = "P"]
    <3>1. sleep_on("pagesem", pcs)
      BY <1>1, <2>1, <2>3 DEF alloc_P
    <3>2. "pagesem" \in Queue
      BY DEF Queue
    <3>3. pcs = pc \/ (pcs = [pc EXCEPT ![current] = "P"] /\ pc[current] \in {"run", "P"})
      BY <2>1, SMTT(30)
    <3>4. pcs[current] = "P"
      BY DEF IInv, TypeOK
    <3> HIDE DEF pcs
    <3>5. Abs!Block \/ UNCHANGED <<current, state>>
      BY <2>2, <3>1, <3>2, <3>3, <3>4, SleepRefines, SMTT(30)
    <3> QED
      BY <3>5 DEF Abs!Next
  <2>4. CASE ~sem_P_waits
    BY <1>1, <2>4 DEF alloc_P
  <2> QED
    BY <2>3, <2>4, SMTT(30)
<1>2. ASSUME NEW t \in Task, alloc_V(t)
      PROVE  Abs!Next \/ UNCHANGED <<current, state>>
  <2>1. sem_V(val) /\ UNCHANGED current
    BY <1>2 DEF alloc_V
  <2>2. (\E u \in Task : Abs!Wake(u)) \/ UNCHANGED <<current, state>>
    BY <2>1, WakeRefines
  <2> QED
    BY <2>2 DEF Abs!Next
<1>3. ASSUME NEW t \in Task, sys_fork(t)
      PROVE  Abs!Next \/ UNCHANGED <<current, state>>
  <2>1. CASE got[t] = NULL
    BY <1>3, <2>1 DEF sys_fork
  <2>2. CASE got[t] # NULL
    <3> DEFINE p == got[t]
    <3>1. state' = [state EXCEPT ![p] = "READY"] /\ UNCHANGED current
      BY <1>3, <2>2 DEF sys_fork, task_to_runq
    <3>2. p \in Task /\ p \in InHand
      BY <2>2, SMTT(30) DEF IInv, TypeOK, InHand
    <3>3. state[p] = "FREE"
      BY <3>2 DEF IInv, PagesConserved
    <3> HIDE DEF p
    <3>4. Abs!Create(p)
      BY <3>1, <3>3 DEF Abs!Create
    <3> QED
      BY <3>2, <3>4 DEF Abs!Next
  <2> QED
    BY <2>1, <2>2
<1>4. ASSUME NEW t \in Task, floppy_wait(t)
      PROVE  Abs!Next \/ UNCHANGED <<current, state>>
  <2>1. /\ current = t
        /\ iter[current] = <<>>
        /\ pc[current] = "run"
        /\ sleep_on("floppyq", pc)
    BY <1>4, SMTT(30) DEF floppy_wait, InBase
  <2>2. state[current] = "RUNNING"
    BY <2>1 DEF IInv, CurrentIsHead
  <2>3. "floppyq" \in Queue
    BY DEF Queue
  <2>4. Abs!Block \/ UNCHANGED <<current, state>>
    BY <2>1, <2>2, <2>3, SleepRefines, SMTT(30)
  <2> QED
    BY <2>4 DEF Abs!Next
<1>5. ASSUME NEW t \in Task, do_exit(t)
      PROVE  Abs!Next \/ UNCHANGED <<current, state>>
  <2>1. /\ current = t
        /\ t # Idle
        /\ pc[current] = "run"
        /\ state' = [state EXCEPT ![t] = "ZOMBIE"]
        /\ UNCHANGED current
    BY <1>5, TaskAssumption, SMTT(30) DEF do_exit, InBase
  <2>2. state[current] = "RUNNING"
    BY <2>1 DEF IInv, CurrentIsHead
  <2> QED
    BY <2>1, <2>2, SMTT(30) DEF Abs!Next, Abs!Exit
<1>6. ASSUME NEW t \in Task, do_exit_sched(t)
      PROVE  Abs!Next \/ UNCHANGED <<current, state>>
  BY <1>6, PlainSwitchRefines DEF do_exit_sched, Abs!Next
<1>7. CASE sched_resumed
  BY <1>7 DEF sched_resumed
<1>8. CASE flush_next
  <2> DEFINE z == Top(current).tmp
  <2>1. InFlush /\ UNCHANGED current
    BY <1>8, Zenon DEF flush_next
  <2>2. z \in Task \cup {NULL} /\ state[current] = "RUNNING"
    BY <2>1, FlusherRuns, SMTT(30) DEF Activation
  <2>3. CASE z = NULL \/ state[z] # "ZOMBIE"
    BY <1>8, <2>1, <2>3, Zenon DEF flush_next
  <2>4. CASE z # NULL /\ state[z] = "ZOMBIE"
    <3>1. state' = [state EXCEPT ![z] = "FREE"]
      BY <1>8, <2>4, ZenonT(40) DEF flush_next
    <3>2. z \in Task /\ z # current
      BY <2>2, <2>4
    <3> HIDE DEF z
    <3>3. Abs!Reap(z)
      BY <2>1, <2>4, <3>1, <3>2 DEF Abs!Reap
    <3> QED
      BY <3>2, <3>3, SMTT(30) DEF Abs!Next
  <2> QED
    BY <2>3, <2>4, SMTT(30)
<1>9. CASE flush_sleep
  <2>1. InFlush /\ sleep_on("pagesem", pc)
    BY <1>9 DEF flush_sleep
  <2>2. state[current] = "RUNNING" /\ iter[current] # <<>>
    BY <2>1, FlusherRuns
  <2>3. "pagesem" \in Queue
    BY DEF Queue
  <2>4. Abs!Block \/ UNCHANGED <<current, state>>
    BY <2>1, <2>2, <2>3, SleepRefines
  <2> QED
    BY <2>4 DEF Abs!Next
<1>10. CASE flush_free
  <2>1. sem_V(val - 1) /\ UNCHANGED current
    BY <1>10 DEF flush_free
  <2>2. (\E u \in Task : Abs!Wake(u)) \/ UNCHANGED <<current, state>>
    BY <2>1, WakeRefines
  <2> QED
    BY <2>2 DEF Abs!Next
<1>11. CASE timer_irq
  BY <1>11, PlainSwitchRefines DEF timer_irq, Abs!Next
<1>12. CASE floppy_irq
  BY <1>12, FloppyIrqRefines DEF Abs!Next
<1>13. CASE UNCHANGED vars
  BY <1>13 DEF vars
<1> QED
  BY SMTT(30), <1>1, <1>2, <1>3, <1>4, <1>5, <1>6, <1>7, <1>8, <1>9, <1>10, <1>11, <1>12,
     <1>13 DEF Next, TaskStep, SchedStep, Interrupt, halted

\* The kernel's scheduler implements the abstract one.
THEOREM Refinement == Spec => ImplementsAbsSched
<1>1. Init => Abs!Init
  BY DEF Init, Abs!Init
<1>2. IInv /\ [Next]_vars => [Abs!Next]_(Abs!avars)
  BY NextRefines
<1> QED
  BY <1>1, <1>2, Invariance, PTL DEF Spec, Abs!Spec, ImplementsAbsSched
=============================================================================
