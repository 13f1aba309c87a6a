-------------------------- MODULE InterruptsProofs --------------------------
(***************************************************************************)
(* What goes on after an entry into the kernel is what was interrupted,    *)
(* for any lines, exceptions and depth of nesting.                         *)
(***************************************************************************)
EXTENDS Interrupts, TLAPS

\* The lowest of some pins is one of them.
LEMMA LeastPin ==
  ASSUME NEW P \in SUBSET (0 .. 7), P # {}
  PROVE  Least(P) \in P
<1>1. \E k \in P : \A j \in P : k <= j
  <2> SUFFICES ASSUME \A k \in P : \E j \in P : j < k PROVE FALSE
    OBVIOUS
  <2>0. 0 \notin P
    OBVIOUS
  <2>1. 1 \notin P
    BY <2>0
  <2>2. 2 \notin P
    BY <2>0, <2>1
  <2>3. 3 \notin P
    BY <2>0, <2>1, <2>2
  <2>4. 4 \notin P
    BY <2>0, <2>1, <2>2, <2>3
  <2>5. 5 \notin P
    BY <2>0, <2>1, <2>2, <2>3, <2>4
  <2>6. 6 \notin P
    BY <2>0, <2>1, <2>2, <2>3, <2>4, <2>5
  <2>7. 7 \notin P
    BY <2>0, <2>1, <2>2, <2>3, <2>4, <2>5, <2>6
  <2>8. PICK k \in P : k \in 0 .. 7
    OBVIOUS
  <2> QED
    BY <2>0, <2>1, <2>2, <2>3, <2>4, <2>5, <2>6, <2>7, <2>8
<1> QED
  BY <1>1 DEF Least

\* Two sequences of words, one put after the other.
LEMMA Joined ==
  ASSUME NEW T, NEW a \in Seq(T), NEW b \in Seq(T)
  PROVE  /\ a \o b \in Seq(T) /\ Len(a \o b) = Len(a) + Len(b)
         /\ \A i \in 1 .. Len(a) : (a \o b)[i] = a[i]
         /\ \A i \in 1 .. Len(b) : (a \o b)[Len(a) + i] = b[i]
OBVIOUS

LEMMA Listed ==
  ASSUME NEW T, NEW k \in Nat, NEW f \in [1 .. k -> T]
  PROVE  f \in Seq(T) /\ Len(f) = k
OBVIOUS

\* What the CPU pushes: ss and esp from user mode, then the flags, the code
\* segment and the instruction pointer, then the error code of some exceptions.
LEMMA HardwarePushes ==
  ASSUME cpu \in Cpu, NEW err \in BOOLEAN, NEW k, k = HardwareWords(cpu)
  PROVE  /\ Hardware(err) \in Seq(Word) /\ Len(Hardware(err)) = k + (IF err THEN 1 ELSE 0)
         /\ Hardware(err)[k].v = cpu.eip
         /\ Hardware(err)[k - 1].v = cpu.cpl
         /\ Hardware(err)[k - 2].v = cpu.ie
<1>1. cpu.cpl \in {0, 3} /\ cpu.ie \in Int /\ cpu.eip \in Int /\ cpu.cpl \in Int
  BY DEF Cpu
<1>a. PICK f : f = [n |-> "eflags", v |-> cpu.ie]
  OBVIOUS
<1>b. PICK c : c = [n |-> "cs", v |-> cpu.cpl]
  OBVIOUS
<1>c. PICK e : e = [n |-> "eip", v |-> cpu.eip]
  OBVIOUS
<1>d. PICK x : x = [n |-> "err", v |-> 0]
  OBVIOUS
<1>s. PICK s : s = [n |-> "ss", v |-> 3]
  OBVIOUS
<1>p. PICK p : p = [n |-> "esp", v |-> 0]
  OBVIOUS
<1>2. f \in Word /\ c \in Word /\ e \in Word
  BY <1>1, <1>a, <1>b, <1>c DEF Word
<1>3. x \in Word /\ s \in Word /\ p \in Word
  BY <1>d, <1>s, <1>p DEF Word
<1>4. f.v = cpu.ie /\ c.v = cpu.cpl /\ e.v = cpu.eip
  BY <1>a, <1>b, <1>c
<1>5. Hardware(err) = (IF cpu.cpl = 3 THEN <<s>> \o <<p>> ELSE <<>>) \o <<f>> \o <<c>> \o <<e>>
                        \o (IF err THEN <<x>> ELSE <<>>)
  BY <1>a, <1>b, <1>c, <1>d, <1>s, <1>p DEF Hardware, W
<1>6. \E b \in Seq(Word) : /\ Hardware(err) = b \o (IF err THEN <<x>> ELSE <<>>) /\ Len(b) = k
                             /\ b[k] = e /\ b[k - 1] = c /\ b[k - 2] = f
  <2>1. CASE cpu.cpl = 3
    <3>1. Hardware(err) = <<s, p, f, c, e>> \o (IF err THEN <<x>> ELSE <<>>)
      BY <1>2, <1>3, <1>5, <2>1
    <3>2. <<s, p, f, c, e>> \in Seq(Word) /\ k = 5
      BY <1>2, <1>3, <2>1 DEF HardwareWords
    <3>3. PICK b : b = <<s, p, f, c, e>>
      OBVIOUS
    <3>4. b \in Seq(Word) /\ Len(b) = 5 /\ b[5] = e /\ b[4] = c /\ b[3] = f
      BY <3>2, <3>3
    <3>5. k - 1 = 4 /\ k - 2 = 3
      BY <3>2
    <3> QED
      BY <3>1, <3>2, <3>3, <3>4, <3>5
  <2>2. CASE cpu.cpl # 3
    <3>1. Hardware(err) = <<f, c, e>> \o (IF err THEN <<x>> ELSE <<>>)
      BY <1>2, <1>3, <1>5, <2>2
    <3>2. <<f, c, e>> \in Seq(Word) /\ k = 3
      BY <1>2, <1>3, <2>2 DEF HardwareWords
    <3>3. PICK b : b = <<f, c, e>>
      OBVIOUS
    <3>4. b \in Seq(Word) /\ Len(b) = 3 /\ b[3] = e /\ b[2] = c /\ b[1] = f
      BY <3>2, <3>3
    <3>5. k - 1 = 2 /\ k - 2 = 1
      BY <3>2
    <3> QED
      BY <3>1, <3>2, <3>3, <3>4, <3>5
  <2> QED
    BY <2>1, <2>2
<1>7. PICK b \in Seq(Word) : /\ Hardware(err) = b \o (IF err THEN <<x>> ELSE <<>>) /\ Len(b) = k
                               /\ b[k] = e /\ b[k - 1] = c /\ b[k - 2] = f
  BY <1>6
<1>8. k \in {3, 5}
  BY DEF HardwareWords
<1>z. PICK z : z = (IF err THEN <<x>> ELSE <<>>)
  OBVIOUS
<1>9. z \in Seq(Word) /\ Len(z) = IF err THEN 1 ELSE 0
  <2>1. <<x>> \in Seq(Word) /\ Len(<<x>>) = 1 /\ <<>> \in Seq(Word) /\ Len(<<>>) = 0
    BY <1>3
  <2> QED
    BY <1>z, <2>1
<1>10. /\ b \o z \in Seq(Word) /\ Len(b \o z) = Len(b) + Len(z)
       /\ \A i \in 1 .. Len(b) : (b \o z)[i] = b[i]
  BY <1>7, <1>9, Joined
<1>11. Hardware(err) = b \o z
  BY <1>7, <1>z
<1>12. k \in 1 .. Len(b) /\ k - 1 \in 1 .. Len(b) /\ k - 2 \in 1 .. Len(b)
  BY <1>7, <1>8
<1> QED
  BY <1>4, <1>7, <1>9, <1>10, <1>11, <1>12

\* What the stub pushes, and with the error code takes off: as many words for an
\* exception with an error code as for one without.
LEMMA StubPushes ==
  ASSUME NEW h \in {"irq", "exc", "excf", "syscall"}, NEW nr \in Nat
  PROVE  /\ Stub(h, nr) \in Seq(Word)
         /\ Len(Stub(h, nr)) + (IF h = "excf" THEN 1 ELSE 0) = Words(h)
<1>g. PICK g : g = Regs
  OBVIOUS
<1>z. PICK z : z = W("zero", 0)
  OBVIOUS
<1>m. PICK m : m = W("nr", nr)
  OBVIOUS
<1>1. g \in Seq(Word) /\ Len(g) = 8
  <2>1. g \in [1 .. 8 -> Word]
    BY <1>g DEF Regs, Word
  <2> QED
    BY <2>1, 8 \in Nat, Listed
<1>2. z \in Seq(Word) /\ Len(z) = 1
  <2>1. [n |-> "zero", v |-> 0] \in Word
    BY DEF Word
  <2> QED
    BY <1>z, <2>1 DEF W
<1>3. m \in Seq(Word) /\ Len(m) = 1
  <2>1. [n |-> "nr", v |-> nr] \in Word
    BY DEF Word
  <2> QED
    BY <1>m, <2>1 DEF W
<1>u. PICK u : u = z \o g
  OBVIOUS
<1>w. PICK w : w = u \o m
  OBVIOUS
<1>y. PICK y : y = g \o m
  OBVIOUS
<1>4. u \in Seq(Word) /\ Len(u) = 9
  <2>0. z \o g \in Seq(Word) /\ Len(z \o g) = Len(z) + Len(g)
    BY <1>1, <1>2, Joined
  <2>1. z \o g \in Seq(Word) /\ Len(z \o g) = 1 + 8
    BY <1>1, <1>2, <2>0, Zenon
  <2>2. 1 + 8 = 9
    OBVIOUS
  <2> QED
    BY <1>u, <2>1, <2>2, Zenon
<1>5. w \in Seq(Word) /\ Len(w) = 10
  <2>0. u \o m \in Seq(Word) /\ Len(u \o m) = Len(u) + Len(m)
    BY <1>3, <1>4, Joined
  <2>1. u \o m \in Seq(Word) /\ Len(u \o m) = 9 + 1
    BY <1>3, <1>4, <2>0, Zenon
  <2>2. 9 + 1 = 10
    OBVIOUS
  <2> QED
    BY <1>w, <2>1, <2>2, Zenon
<1>6. y \in Seq(Word) /\ Len(y) = 9
  <2>0. g \o m \in Seq(Word) /\ Len(g \o m) = Len(g) + Len(m)
    BY <1>1, <1>3, Joined
  <2>1. g \o m \in Seq(Word) /\ Len(g \o m) = 8 + 1
    BY <1>1, <1>3, <2>0, Zenon
  <2>2. 8 + 1 = 9
    OBVIOUS
  <2> QED
    BY <1>y, <2>1, <2>2, Zenon
<1>7. CASE h \in {"irq", "exc"}
  <2>1. Stub(h, nr) = w /\ Words(h) = 10
    BY <1>7, <1>g, <1>z, <1>m, <1>u, <1>w DEF Stub, Words
  <2>2. Len(w) + (IF h = "excf" THEN 1 ELSE 0) = Words(h)
    BY <1>5, <1>7, <2>1
  <2> QED
    BY <1>5, <2>1, <2>2, Zenon
<1>8. CASE h = "excf"
  <2>1. Stub(h, nr) = y /\ Words(h) = 10
    BY <1>8, <1>g, <1>m, <1>y DEF Stub, Words
  <2>2. Len(y) + (IF h = "excf" THEN 1 ELSE 0) = Words(h)
    BY <1>6, <1>8, <2>1
  <2> QED
    BY <1>6, <2>1, <2>2, Zenon
<1>9. CASE h = "syscall"
  <2>1. Stub(h, nr) = u /\ Words(h) = 9
    BY <1>9, <1>g, <1>z, <1>u DEF Stub, Words
  <2>2. Len(u) + (IF h = "excf" THEN 1 ELSE 0) = Words(h)
    BY <1>4, <1>9, <2>1
  <2> QED
    BY <1>4, <2>1, <2>2, Zenon
<1> QED
  BY <1>7, <1>8, <1>9

\* The words of an entry on top of the stack: what was there stays where it was.
LEMMA Pushed ==
  ASSUME NEW T, NEW s \in Seq(T), NEW h \in Seq(T), NEW u \in Seq(T)
  PROVE  /\ (s \o h) \o u \in Seq(T) /\ Len((s \o h) \o u) = Len(s) + Len(h) + Len(u)
         /\ \A i \in 1 .. Len(s) : ((s \o h) \o u)[i] = s[i]
         /\ \A i \in 1 .. Len(h) : ((s \o h) \o u)[Len(s) + i] = h[i]
OBVIOUS

\* An entry through a gate puts its words on top, and changes none below.
LEMMA EnterKeeps ==
  ASSUME IInv, NEW v, NEW err \in BOOLEAN, Enter(v, err), UNCHANGED back,
         PicOK', NEW g, g = IDT[v],
         g.h \in {"irq", "exc", "excf", "syscall"}, g.nr \in Nat, err <=> g.h = "excf"
  PROVE  IInv'
<1>1. /\ cpu \in Cpu /\ run \in Seq(Entry) /\ stack \in Seq(Word) /\ Len(stack) \in Nat
      /\ FramesKept
  BY DEF IInv, TypeOK
<1>c. PICK c : c = cpu
  OBVIOUS
<1>k. PICK k : k = HardwareWords(c)
  OBVIOUS
<1>H. PICK H : H = Hardware(err)
  OBVIOUS
<1>U. PICK U : U = Stub(g.h, g.nr)
  OBVIOUS
<1>w. PICK w : w = Words(g.h)
  OBVIOUS
<1>2. k \in {3, 5} /\ w \in {9, 10}
  BY <1>k, <1>w DEF HardwareWords, Words
<1>3. /\ H \in Seq(Word) /\ Len(H) = k + (IF err THEN 1 ELSE 0)
      /\ H[k].v = c.eip /\ H[k - 1].v = c.cpl /\ H[k - 2].v = c.ie
  BY <1>1, <1>c, <1>k, <1>H, HardwarePushes
<1>4. U \in Seq(Word) /\ Len(U) + (IF err THEN 1 ELSE 0) = w
  <2>1. Stub(g.h, g.nr) \in Seq(Word) /\ Len(Stub(g.h, g.nr)) + (IF g.h = "excf" THEN 1 ELSE 0) = Words(g.h)
    BY StubPushes
  <2>2. (IF g.h = "excf" THEN 1 ELSE 0) = IF err THEN 1 ELSE 0
    OBVIOUS
  <2> QED
    BY <1>U, <1>w, <2>1, <2>2, Zenon
<1>5. /\ stack' \in Seq(Word) /\ Len(stack') = Len(stack) + Len(H) + Len(U)
      /\ \A i \in 1 .. Len(stack) : stack'[i] = stack[i]
      /\ \A i \in 1 .. Len(H) : stack'[Len(stack) + i] = H[i]
  <2>1. stack' = (stack \o H) \o U
    BY <1>H, <1>U, Zenon DEF Enter
  <2>2. /\ (stack \o H) \o U \in Seq(Word) /\ Len((stack \o H) \o U) = Len(stack) + Len(H) + Len(U)
        /\ \A i \in 1 .. Len(stack) : ((stack \o H) \o U)[i] = stack[i]
        /\ \A i \in 1 .. Len(H) : ((stack \o H) \o U)[Len(stack) + i] = H[i]
    <3>1. stack \in Seq(Word) /\ H \in Seq(Word) /\ U \in Seq(Word)
      BY <1>1, <1>3, <1>4
    <3> QED
      BY <3>1, Pushed, SMTT(30)
  <2> QED
    BY <2>1, <2>2, Zenon
<1>6. Len(stack') = Len(stack) + k + w /\ Len(H) \in Nat /\ k \in 1 .. Len(H) /\ k - 1 \in 1 .. Len(H) /\ k - 2 \in 1 .. Len(H)
  <2>1. Len(stack) \in Nat /\ Len(H) \in Nat /\ Len(U) \in Nat
    BY <1>1, <1>3, <1>4
  <2>2. Len(H) = k + (IF err THEN 1 ELSE 0) /\ Len(U) + (IF err THEN 1 ELSE 0) = w
    BY <1>3, <1>4
  <2>3. Len(stack') = Len(stack) + Len(H) + Len(U)
    BY <1>5
  <2> QED
    BY <1>2, <2>1, <2>2, <2>3
<1>e. PICK e : e = [h |-> g.h, nr |-> g.nr, pc |-> "call", was |-> c, sp |-> Len(stack)]
  OBVIOUS
<1>7. /\ e \in Entry /\ e.h = g.h /\ e.was = c /\ e.sp = Len(stack)
      /\ run' = Append(run, e)
  BY <1>1, <1>c, <1>e DEF Enter, Entry
<1>8. /\ run' \in Seq(Entry) /\ Len(run') = Len(run) + 1 /\ Len(run) \in Nat
      /\ run'[Len(run) + 1] = e /\ \A i \in 1 .. Len(run) : run'[i] = run[i]
  BY <1>1, <1>7
<1>9. cpu' \in Cpu
  BY <1>1, <1>8 DEF Enter, Cpu
<1>10. TypeOK'
  BY <1>5, <1>8, <1>9 DEF TypeOK
<1>11. \A i \in 1 .. Len(run) : FrameKept(i) /\ run[i].sp <= Len(stack) /\ run[i].sp \in Nat
  <2>1. \A i \in 1 .. Len(run) : run[i] \in Entry
    BY <1>1
  <2>2. \A i \in 1 .. Len(run) : run[i].sp \in Nat
    BY <2>1 DEF Entry
  <2>3. \A i \in 1 .. Len(run) : FrameKept(i) /\ run[i].sp <= Len(stack)
    BY <1>1 DEF FramesKept
  <2> QED
    BY <2>2, <2>3
<1>L. PICK L \in Nat : L = Len(run)
  BY <1>8
<1>12. ASSUME NEW i \in 1 .. Len(run) PROVE FrameKept(i)'
  <2>n. PICK n : n = FrameEnd(i) - Words(run[i].h)
    OBVIOUS
  <2>1. /\ n = run[i].sp + HardwareWords(run[i].was)
        /\ stack[n].v = run[i].was.eip /\ stack[n - 1].v = run[i].was.cpl /\ stack[n - 2].v = run[i].was.ie
    BY <1>11, <2>n DEF FrameKept
  <2>2. FrameEnd(i)' = FrameEnd(i)
    BY <1>7, <1>8, <1>11 DEF FrameEnd
  <2>3. FrameEnd(i) \in Nat /\ FrameEnd(i) <= Len(stack)
    BY <1>1, <1>11 DEF FrameEnd
  <2>4. n \in 1 .. Len(stack) /\ n - 1 \in 1 .. Len(stack) /\ n - 2 \in 1 .. Len(stack)
    <3>1. HardwareWords(run[i].was) \in {3, 5} /\ Words(run[i].h) \in {9, 10}
      BY DEF HardwareWords, Words
    <3>2. run[i].sp \in Nat /\ Len(stack) \in Nat
      BY <1>1, <1>11
    <3>3. PICK x, y, z, l : /\ x = HardwareWords(run[i].was) /\ y = Words(run[i].h)
                            /\ z = FrameEnd(i) /\ l = Len(stack)
      OBVIOUS
    <3>4. x \in {3, 5} /\ y \in {9, 10} /\ z \in Nat /\ l \in Nat /\ z <= l /\ n = z - y
      BY <2>3, <2>n, <3>1, <3>2, <3>3
    <3>5. \E p \in Nat : n = p + x
      BY <2>1, <3>2, <3>3
    <3>6. n \in 1 .. l /\ n - 1 \in 1 .. l /\ n - 2 \in 1 .. l
      BY <3>4, <3>5
    <3> QED
      BY <3>3, <3>6
  <2>5. run'[i] = run[i] /\ stack'[n] = stack[n] /\ stack'[n - 1] = stack[n - 1] /\ stack'[n - 2] = stack[n - 2]
    BY <1>5, <1>8, <2>4
  <2> QED
    BY <2>1, <2>2, <2>5, <2>n DEF FrameKept, HardwareWords, Words
<1>13. FrameKept(L + 1)'
  <2>n. PICK n : n = Len(stack) + k
    OBVIOUS
  <2>1. stack'[n] = H[k] /\ stack'[n - 1] = H[k - 1] /\ stack'[n - 2] = H[k - 2]
    <3>1. n - 1 = Len(stack) + (k - 1) /\ n - 2 = Len(stack) + (k - 2)
      BY <1>1, <1>2, <2>n
    <3> QED
      BY <1>5, <1>6, <2>n, <3>1
  <2>2. Len(stack') - w = n
    BY <1>1, <1>2, <1>6, <2>n
  <2>3. FrameEnd(L + 1)' = Len(stack') /\ run'[L + 1] = e
    BY <1>8, <1>L DEF FrameEnd
  <2> QED
    <3>1. e.sp + HardwareWords(e.was) = n /\ FrameEnd(L + 1)' - Words(e.h) = n
      BY <1>7, <1>k, <1>w, <2>2, <2>3, <2>n, Zenon
    <3>2. stack'[n].v = e.was.eip /\ stack'[n - 1].v = e.was.cpl /\ stack'[n - 2].v = e.was.ie
      BY <1>3, <1>7, <2>1, Zenon
    <3> QED
      BY <2>3, <3>1, <3>2, Zenon DEF FrameKept
<1>14. FramesKept'
  <2>1. run' # <<>> /\ run'[1].sp = 0
    BY <1>1, <1>7, <1>8 DEF FramesKept
  <2>2. \A i \in 1 .. Len(run') : FrameKept(i)'
    <3>1. \A i \in 1 .. Len(run') : i \in 1 .. Len(run) \/ i = L + 1
      BY <1>8, <1>L
    <3> QED
      BY <1>12, <1>13, <3>1
  <2>3. \A i \in 1 .. Len(run') : run'[i].sp <= Len(stack')
    BY <1>1, <1>2, <1>6, <1>7, <1>8, <1>11
  <2>4. \A i, j \in 1 .. Len(run') : i < j => run'[i].sp <= run'[j].sp
    <3> SUFFICES ASSUME NEW i \in 1 .. Len(run'), NEW j \in 1 .. Len(run'), i < j
                 PROVE  run'[i].sp <= run'[j].sp
      OBVIOUS
    <3>1. i \in 1 .. Len(run) /\ run'[i] = run[i]
      BY <1>8
    <3>2. CASE j \in 1 .. Len(run)
      BY <1>1, <1>8, <3>1, <3>2 DEF FramesKept
    <3>3. CASE j = L + 1
      <4>1. run'[j].sp = Len(stack)
        BY <1>7, <1>8, <1>L, <3>3
      <4>2. run[i].sp <= Len(stack)
        BY <1>11, <3>1
      <4> QED
        BY <3>1, <4>1, <4>2, Zenon
    <3> QED
      BY <1>8, <1>L, <3>2, <3>3
  <2> QED
    BY <2>1, <2>2, <2>3, <2>4 DEF FramesKept
<1>15. ReturnsWhereInterrupted'
  BY <1>8 DEF IInv, ReturnsWhereInterrupted
<1> QED
  BY <1>10, <1>14, <1>15 DEF IInv

\* The gates of the descriptor table that are ever entered.
LEMMA Gates ==
  /\ IDT[255].h = "syscall" /\ IDT[255].nr \in Nat
  /\ \A k \in 0 .. 15 : IDT[32 + k].h \in {"irq", "null"} /\ IDT[32 + k].nr \in Nat
  /\ \A v \in (0 .. 19) \ {15} : /\ IDT[v].h \in {"exc", "excf"} /\ IDT[v].nr \in Nat
                                 /\ v \in ErrorCode <=> IDT[v].h = "excf"
<1>1. IDT[255].h = "syscall" /\ IDT[255].nr \in Nat
  BY DEF IDT, idt_exception
<1>2. ASSUME NEW k \in 0 .. 15 PROVE IDT[32 + k].h \in {"irq", "null"} /\ IDT[32 + k].nr \in Nat
  <2>1. CASE k \in 0 .. 9
    <3>1. 32 + k \in 32 .. 41 /\ 32 + k \notin 0 .. 19 /\ 32 + k \in 0 .. 255 /\ 32 + k - 32 = k
      BY <2>1
    <3>2. IDT[32 + k] = idt_interrupt("irq", k)
      BY <3>1 DEF IDT
    <3> QED
      BY <2>1, <3>2 DEF idt_interrupt
  <2>2. CASE k \in 10 .. 15
    <3>1. /\ 32 + k \notin 0 .. 19 /\ 32 + k \notin 32 .. 41 /\ 32 + k \notin {48, 240, 255}
          /\ 32 + k \notin 58 .. 62 /\ 32 + k \in 0 .. 255
      BY <2>2
    <3>2. IDT[32 + k] = int_null
      BY <3>1 DEF IDT
    <3> QED
      BY <3>2 DEF int_null
  <2> QED
    BY <2>1, <2>2
<1>3. ASSUME NEW v \in (0 .. 19) \ {15}
      PROVE  /\ IDT[v].h \in {"exc", "excf"} /\ IDT[v].nr \in Nat
             /\ v \in ErrorCode <=> IDT[v].h = "excf"
  <2>1. IDT[v] = idt_exception(IF v \in excf THEN "excf" ELSE "exc", v)
    BY DEF IDT
  <2> QED
    BY <2>1 DEF idt_exception, excf, ErrorCode
<1> QED
  BY <1>1, <1>2, <1>3

\* The controllers and the state of a handler change; the stack does not.
LEMMA HandlerKeeps ==
  ASSUME IInv, PicOK', cpu' \in Cpu, UNCHANGED <<stack, back>>,
         run' = run \/ \E l \in {"call", "return", "iret"} : run # <<>> /\ Pc(l)
  PROVE  IInv'
<1>1. /\ run \in Seq(Entry) /\ stack \in Seq(Word) /\ FramesKept /\ ReturnsWhereInterrupted
  BY DEF IInv, TypeOK
<1>2. /\ run' \in Seq(Entry) /\ Len(run') = Len(run) /\ Len(run) \in Nat
      /\ (run = <<>> <=> run' = <<>>)
      /\ \A i \in 1 .. Len(run) : /\ run'[i].h = run[i].h /\ run'[i].was = run[i].was
                                  /\ run'[i].sp = run[i].sp
  <2>1. CASE run' = run
    BY <1>1, <2>1
  <2>2. ASSUME NEW l \in {"call", "return", "iret"}, run # <<>>, Pc(l)
        PROVE  /\ run' \in Seq(Entry) /\ Len(run') = Len(run) /\ Len(run) \in Nat
               /\ (run = <<>> <=> run' = <<>>)
               /\ \A i \in 1 .. Len(run) : /\ run'[i].h = run[i].h /\ run'[i].was = run[i].was
                                           /\ run'[i].sp = run[i].sp
    <3>1. Len(run) \in Nat /\ Len(run) \in 1 .. Len(run) /\ run[Len(run)] \in Entry
      BY <1>1, <2>2
    <3>x. PICK x : x = [run[Len(run)] EXCEPT !.pc = l]
      OBVIOUS
    <3>2. /\ x \in Entry /\ x.h = run[Len(run)].h /\ x.was = run[Len(run)].was
          /\ x.sp = run[Len(run)].sp
      BY <3>1, <3>x DEF Entry
    <3>3. run' = [run EXCEPT ![Len(run)] = x]
      BY <2>2, <3>x DEF Pc
    <3>4. /\ run' \in Seq(Entry) /\ Len(run') = Len(run) /\ run' # <<>>
          /\ run'[Len(run)] = x /\ \A i \in 1 .. Len(run) : i # Len(run) => run'[i] = run[i]
      BY <1>1, <3>1, <3>2, <3>3
    <3> QED
      BY <2>2, <3>1, <3>2, <3>4
  <2> QED
    BY <2>1, <2>2
<1>3. \A i \in 1 .. Len(run) : FrameEnd(i)' = FrameEnd(i)
  BY <1>2 DEF FrameEnd
<1>4. \A i \in 1 .. Len(run) : FrameKept(i) => FrameKept(i)'
  BY <1>2, <1>3 DEF FrameKept, HardwareWords, Words
<1>5. FramesKept'
  <2>1. IF run' = <<>> THEN stack' = <<>> ELSE run'[1].sp = 0
    BY <1>1, <1>2 DEF FramesKept
  <2>2. \A i \in 1 .. Len(run') : FrameKept(i)' /\ run'[i].sp <= Len(stack')
    BY <1>1, <1>2, <1>4 DEF FramesKept
  <2>3. \A i, j \in 1 .. Len(run') : i < j => run'[i].sp <= run'[j].sp
    BY <1>1, <1>2 DEF FramesKept
  <2> QED
    BY <2>1, <2>2, <2>3 DEF FramesKept
<1>6. ReturnsWhereInterrupted'
  BY <1>1, <1>2 DEF ReturnsWhereInterrupted
<1>7. TypeOK'
  BY <1>1, <1>2 DEF TypeOK
<1> QED
  BY <1>5, <1>6, <1>7 DEF IInv

\* A prefix of a sequence.
LEMMA Prefix ==
  ASSUME NEW T, NEW s \in Seq(T), NEW n \in 0 .. Len(s)
  PROVE  /\ SubSeq(s, 1, n) \in Seq(T) /\ Len(SubSeq(s, 1, n)) = n
         /\ \A i \in 1 .. n : SubSeq(s, 1, n)[i] = s[i]
OBVIOUS

\* iret takes off the words of the last entry and no others.
LEMMA IretKeeps ==
  ASSUME IInv, iret
  PROVE  IInv'
<1>1. /\ cpu \in Cpu /\ run \in Seq(Entry) /\ stack \in Seq(Word) /\ FramesKept /\ PicOK
      /\ run # <<>>
  BY DEF IInv, TypeOK, iret, In
<1>r. PICK r : r = Len(run)
  OBVIOUS
<1>L. PICK L : L = Len(stack)
  OBVIOUS
<1>e. PICK e : e = run[r]
  OBVIOUS
<1>2. r \in Nat \ {0} /\ r \in 1 .. Len(run) /\ e \in Entry /\ L \in Nat /\ Top = e
  BY <1>1, <1>r, <1>L, <1>e DEF Top
<1>3. e.was \in Cpu /\ e.sp \in Nat /\ e.was.cpl \in {0, 3} /\ e.was.ie \in {0, 1} /\ e.was.eip \in Nat
  BY <1>2 DEF Entry, Cpu
<1>w. PICK w : w = Words(e.h)
  OBVIOUS
<1>k. PICK k : k = HardwareWords(e.was)
  OBVIOUS
<1>4. w \in 9 .. 10 /\ k = (IF e.was.cpl = 3 THEN 5 ELSE 3) /\ k \in 3 .. 5
  BY <1>3, <1>w, <1>k DEF Words, HardwareWords
<1>n. PICK n : n = L - w
  OBVIOUS
<1>5. /\ n = e.sp + k
      /\ stack[n].v = e.was.eip /\ stack[n - 1].v = e.was.cpl /\ stack[n - 2].v = e.was.ie
  <2>1. FrameKept(r) /\ FrameEnd(r) = L
    BY <1>1, <1>2, <1>r, <1>L DEF FramesKept, FrameEnd
  <2> QED
    BY <2>1, <1>e, <1>w, <1>k, <1>n DEF FrameKept
<1>6. n \in Nat /\ n \in 0 .. Len(stack) /\ n \in 1 .. n /\ n - 1 \in 1 .. n /\ n - 2 \in 1 .. n
      /\ e.sp \in 0 .. n /\ n - k = e.sp
  <2>s. PICK s : s = e.sp
    OBVIOUS
  <2>1. s \in Nat /\ n = s + k /\ n = L - w
    BY <1>3, <1>5, <1>n, <2>s, Zenon
  <2>2. L \in Nat /\ w \in 9 .. 10 /\ k \in 3 .. 5
    BY <1>2, <1>4, Zenon
  <2>3. /\ n \in Nat /\ n \in 0 .. L /\ n \in 1 .. n /\ n - 1 \in 1 .. n /\ n - 2 \in 1 .. n
        /\ s \in 0 .. n /\ n - k = s
    BY <2>1, <2>2
  <2> QED
    BY <2>3, <2>s, <1>L, Zenon
<1>t. PICK t : t = SubSeq(stack, 1, n)
  OBVIOUS
<1>7. /\ t \in Seq(Word) /\ Len(t) = n /\ \A i \in 1 .. n : t[i] = stack[i]
  BY <1>1, <1>6, <1>t, Prefix
<1>8. t[n].v = e.was.eip /\ t[n - 1].v = e.was.cpl /\ t[n - 2].v = e.was.ie
  BY <1>5, <1>6, <1>7
<1>c. PICK c : c = [cpl |-> e.was.cpl, ie |-> e.was.ie, eip |-> e.was.eip,
                    ds |-> IF cpu.ds < e.was.cpl THEN -1 ELSE cpu.ds]
  OBVIOUS
<1>9. t = SubSeq(stack, 1, Len(stack) - Words(Top.h))
  BY <1>2, <1>t, <1>n, <1>L, <1>w
<1>10. /\ cpu' = c /\ back' = [got |-> c, was |-> e.was] /\ stack' = SubSeq(t, 1, e.sp)
       /\ run' = SubSeq(run, 1, r - 1) /\ UNCHANGED pic
  <2>1. /\ cpu' = [cpl |-> t[Len(t) - 1].v, ie |-> t[Len(t) - 2].v, eip |-> t[Len(t)].v,
                   ds |-> IF cpu.ds < t[Len(t) - 1].v THEN -1 ELSE cpu.ds]
        /\ back' = [got |-> cpu', was |-> Top.was]
        /\ stack' = SubSeq(t, 1, Len(t) - (IF t[Len(t) - 1].v = 3 THEN 5 ELSE 3))
        /\ run' = SubSeq(run, 1, Len(run) - 1) /\ UNCHANGED pic
    BY <1>9, Zenon DEF iret
  <2>2. cpu' = c
    BY <2>1, <1>7, <1>8, <1>c, Zenon
  <2>3. stack' = SubSeq(t, 1, e.sp)
    <3>1. stack' = SubSeq(t, 1, n - k)
      BY <2>1, <1>4, <1>7, <1>8, Zenon
    <3> QED
      BY <3>1, <1>6, Zenon
  <2> QED
    BY <2>1, <2>2, <2>3, <1>2, <1>r, Zenon
<1>11. c \in Cpu
  BY <1>1, <1>3, <1>c DEF Cpu
<1>12. /\ stack' \in Seq(Word) /\ Len(stack') = e.sp /\ \A i \in 1 .. e.sp : stack'[i] = stack[i]
  <2>1. e.sp \in 0 .. Len(t)
    BY <1>6, <1>7
  <2>2. /\ SubSeq(t, 1, e.sp) \in Seq(Word) /\ Len(SubSeq(t, 1, e.sp)) = e.sp
        /\ \A i \in 1 .. e.sp : SubSeq(t, 1, e.sp)[i] = t[i]
    BY <1>7, <2>1, Prefix
  <2>3. \A i \in 1 .. e.sp : t[i] = stack[i]
    BY <1>6, <1>7
  <2> QED
    BY <2>2, <2>3, <1>10, Zenon
<1>13. /\ run' \in Seq(Entry) /\ Len(run') = r - 1 /\ \A i \in 1 .. r - 1 : run'[i] = run[i]
  <2>1. r - 1 \in 0 .. Len(run)
    BY <1>2, <1>r
  <2> QED
    BY <1>1, <1>10, <2>1, Prefix
<1>14. TypeOK'
  <2>1. PicOK'
    BY <1>1, <1>10 DEF PicOK
  <2> QED
    BY <2>1, <1>10, <1>11, <1>12, <1>13 DEF TypeOK
<1>15. IF run' = <<>> THEN stack' = <<>> ELSE run'[1].sp = 0
  <2>1. run[1].sp = 0
    BY <1>1 DEF FramesKept
  <2>2. CASE r = 1
    <3>1. Len(run') = 0 /\ Len(stack') = 0
      BY <2>1, <2>2, <1>12, <1>13, <1>e
    <3> QED
      BY <3>1, <1>12, <1>13
  <2>3. CASE r # 1
    <3>1. 1 \in 1 .. r - 1
      BY <2>3, <1>2
    <3>2. run'[1].sp = 0 /\ run' # <<>>
      BY <3>1, <2>1, <1>13
    <3> QED
      BY <3>2
  <2> QED
    BY <2>2, <2>3
<1>16. ASSUME NEW i \in 1 .. Len(run') PROVE FrameKept(i)' /\ run'[i].sp <= Len(stack')
  <2>1. i \in 1 .. r - 1 /\ i \in 1 .. Len(run) /\ i < r /\ run'[i] = run[i] /\ run[i] \in Entry
    BY <1>1, <1>2, <1>13, <1>r
  <2>x. PICK x : x = FrameEnd(i)
    OBVIOUS
  <2>2. x = run[i + 1].sp /\ x \in Nat /\ x <= e.sp /\ i + 1 \in 1 .. r
    <3>1. i + 1 \in 1 .. r /\ i + 1 \in 1 .. Len(run) /\ i # Len(run)
      BY <2>1, <1>2, <1>r
    <3>2. run[i + 1] \in Entry
      BY <3>1, <1>1
    <3>3. x = run[i + 1].sp /\ x \in Nat
      BY <3>1, <3>2, <2>x DEF FrameEnd, Entry
    <3>4. CASE i + 1 = r
      BY <3>1, <3>3, <3>4, <1>e, <1>3
    <3>5. CASE i + 1 # r
      <4>1. i + 1 < r
        BY <3>1, <3>5, <1>2
      <4> QED
        BY <4>1, <3>1, <3>3, <1>1, <1>2, <1>e DEF FramesKept
    <3> QED
      BY <3>1, <3>3, <3>4, <3>5
  <2>3. FrameEnd(i)' = x
    <3>1. CASE i = r - 1
      <4>1. i = Len(run') /\ i + 1 = r
        BY <3>1, <1>2, <1>13
      <4> QED
        BY <4>1, <2>2, <1>12, <1>e DEF FrameEnd
    <3>2. CASE i # r - 1
      <4>1. i # Len(run') /\ i + 1 \in 1 .. r - 1
        BY <3>2, <2>1, <1>2, <1>13
      <4> QED
        BY <4>1, <2>2, <1>13 DEF FrameEnd
    <3> QED
      BY <3>1, <3>2
  <2>y. PICK y : y = run[i]
    OBVIOUS
  <2>m. PICK m : m = x - Words(y.h)
    OBVIOUS
  <2>4. /\ m = y.sp + HardwareWords(y.was)
        /\ stack[m].v = y.was.eip /\ stack[m - 1].v = y.was.cpl /\ stack[m - 2].v = y.was.ie
    <3>1. FrameKept(i)
      BY <1>1, <2>1 DEF FramesKept
    <3> QED
      BY <3>1, <2>x, <2>y, <2>m DEF FrameKept
  <2>5. m \in 1 .. e.sp /\ m - 1 \in 1 .. e.sp /\ m - 2 \in 1 .. e.sp /\ y.sp <= e.sp
    <3>1. y.sp \in Nat /\ HardwareWords(y.was) \in 3 .. 5 /\ Words(y.h) \in 9 .. 10
      BY <2>1, <2>y DEF Entry, HardwareWords, Words
    <3>a. PICK a : a = y.sp
      OBVIOUS
    <3>b. PICK b : b = e.sp
      OBVIOUS
    <3>h. PICK h : h = HardwareWords(y.was)
      OBVIOUS
    <3>u. PICK u : u = Words(y.h)
      OBVIOUS
    <3>2. /\ a \in Nat /\ b \in Nat /\ h \in 3 .. 5 /\ u \in 9 .. 10 /\ x \in Nat /\ x <= b
          /\ m = x - u /\ m = a + h
      BY <3>1, <3>a, <3>b, <3>h, <3>u, <2>2, <2>4, <2>m, <1>3, Zenon
    <3>3. m \in 1 .. b /\ m - 1 \in 1 .. b /\ m - 2 \in 1 .. b /\ a <= b
      BY <3>2
    <3> QED
      BY <3>3, <3>a, <3>b, Zenon
  <2>6. stack'[m] = stack[m] /\ stack'[m - 1] = stack[m - 1] /\ stack'[m - 2] = stack[m - 2]
    BY <2>5, <1>12
  <2>7. FrameKept(i)'
    <3>1. run'[i] = y
      BY <2>1, <2>y
    <3> QED
      BY <3>1, <2>3, <2>4, <2>6, <2>m DEF FrameKept, HardwareWords, Words
  <2> QED
    BY <2>1, <2>5, <2>7, <2>y, <1>12
<1>17. \A i, j \in 1 .. Len(run') : i < j => run'[i].sp <= run'[j].sp
  <2>1. \A i \in 1 .. r - 1 : i \in 1 .. Len(run)
    BY <1>2, <1>r
  <2> QED
    BY <2>1, <1>1, <1>13 DEF FramesKept
<1>18. FramesKept'
  BY <1>15, <1>16, <1>17 DEF FramesKept
<1>19. ReturnsWhereInterrupted'
  BY <1>10, <1>15, <1>c DEF ReturnsWhereInterrupted
<1> QED
  BY <1>14, <1>18, <1>19 DEF IInv

\* What the controllers do keeps their state well formed; the slave's pin of the
\* master is never asked for by a device.
LEMMA PicSteps ==
  ASSUME PicOK
  PROVE  /\ \A n \in (0 .. 15) \ {2} :
              pic' = [pic EXCEPT ![Pic(n)].irr = @ \cup {Pin(n)}] => PicOK'
         /\ \A n \in 0 .. 15 : pic' \in {pic_mask(n), pic_unmask(n)} => PicOK'
         /\ \A n \in Nat : pic' = irq_eoi(n) => PicOK'
         /\ UNCHANGED pic => PicOK'
<1> DEFINE Ctl == [imr : Pins, irr : Pins, isr : Pins]
<1>1. /\ pic \in [{M, S} -> Ctl] /\ pic[M] \in Ctl /\ pic[S] \in Ctl /\ M # S
      /\ 2 \notin pic[M].irr
  BY DEF PicOK, Cascade, M, S
<1>2. ASSUME NEW n \in (0 .. 15) \ {2}, pic' = [pic EXCEPT ![Pic(n)].irr = @ \cup {Pin(n)}]
      PROVE  PicOK'
  <2>p. PICK p : p = Pic(n)
    OBVIOUS
  <2>x. PICK x : x = [imr |-> pic[p].imr, irr |-> pic[p].irr \cup {Pin(n)}, isr |-> pic[p].isr]
    OBVIOUS
  <2>1. p \in {M, S} /\ pic[p] \in Ctl /\ Pin(n) \in 0 .. 7 /\ (p = M => Pin(n) # 2)
    BY <1>1, <2>p DEF Pic, Pin
  <2>2. x \in Ctl /\ (p = M => 2 \notin x.irr)
    BY <1>1, <2>1, <2>x DEF Pins
  <2>3. pic' = [pic EXCEPT ![p] = x]
    <3>1. pic' = [pic EXCEPT ![p] = [pic[p] EXCEPT !.irr = @ \cup {Pin(n)}]]
      BY <1>1, <1>2, <2>1, <2>p
    <3>2. [pic[p] EXCEPT !.irr = @ \cup {Pin(n)}] = x
      BY <2>1, <2>x
    <3> QED
      BY <3>1, <3>2
  <2> QED
    BY <1>1, <2>1, <2>2, <2>3 DEF PicOK, Cascade
<1>3. ASSUME NEW n \in 0 .. 15, pic' \in {pic_mask(n), pic_unmask(n)}
      PROVE  PicOK'
  <2>1. Pin(n) \in 0 .. 7 /\ Cascade \in 0 .. 7
    BY DEF Pin, Cascade
  <2>2. /\ pic' = [p \in {M, S} |-> pic'[p]]
        /\ \A p \in {M, S} : pic'[p] = pic[p]
             \/ \E k \in 0 .. 7 : pic'[p] \in {[pic[p] EXCEPT !.imr = @ \cup {k}],
                                               [pic[p] EXCEPT !.imr = @ \ {k}]}
    <3>1. CASE pic' = pic_mask(n)
      <4>1. pic' = [p \in {M, S} |-> pic'[p]]
        BY <3>1 DEF pic_mask
      <4>2. \A p \in {M, S} : \/ pic'[p] = [pic[p] EXCEPT !.imr = @ \cup {Pin(n)}]
                                 \/ pic'[p] = [pic[p] EXCEPT !.imr = @ \cup {Cascade}]
                                 \/ pic'[p] = pic[p]
        BY <3>1 DEF pic_mask
      <4> QED
        BY <2>1, <4>1, <4>2, Zenon
    <3>2. CASE pic' = pic_unmask(n)
      <4>1. pic' = [p \in {M, S} |-> pic'[p]]
        BY <3>2 DEF pic_unmask
      <4>2. \A p \in {M, S} : \/ pic'[p] = [pic[p] EXCEPT !.imr = @ \ {Pin(n)}]
                                 \/ pic'[p] = [pic[p] EXCEPT !.imr = @ \ {Cascade}]
                                 \/ pic'[p] = pic[p]
        BY <3>2 DEF pic_unmask
      <4> QED
        BY <2>1, <4>1, <4>2, Zenon
    <3> QED
      BY <1>3, <3>1, <3>2
  <2>3. ASSUME NEW p \in {M, S} PROVE pic'[p] \in Ctl /\ pic'[p].irr = pic[p].irr
    <3>1. pic[p] \in Ctl
      BY <1>1
    <3>2. \A k \in 0 .. 7 : /\ [pic[p] EXCEPT !.imr = @ \cup {k}] \in Ctl
                            /\ [pic[p] EXCEPT !.imr = @ \cup {k}].irr = pic[p].irr
                            /\ [pic[p] EXCEPT !.imr = @ \ {k}] \in Ctl
                            /\ [pic[p] EXCEPT !.imr = @ \ {k}].irr = pic[p].irr
      BY <3>1 DEF Pins
    <3> QED
      BY <2>2, <3>1, <3>2
  <2> QED
    BY <1>1, <2>2, <2>3 DEF PicOK, Cascade
<1>4. ASSUME NEW n \in Nat, pic' = irq_eoi(n) PROVE PicOK'
  <2>1. ASSUME NEW c \in Ctl
        PROVE  /\ Eoi(c) \in Ctl /\ Eoi(c).irr = c.irr
               /\ EoiSpecific(c, Cascade) \in Ctl /\ EoiSpecific(c, Cascade).irr = c.irr
    BY DEF Eoi, EoiSpecific, Pins
  <2>2. CASE n < 8
    <3>1. pic' = [pic EXCEPT ![M] = Eoi(pic[M])]
      BY <1>4, <2>2 DEF irq_eoi
    <3> QED
      BY <1>1, <2>1, <3>1 DEF PicOK, Cascade
  <2>3. CASE ~(n < 8)
    <3>1. pic' = [pic EXCEPT ![M] = EoiSpecific(pic[M], Cascade), ![S] = Eoi(pic[S])]
      BY <1>4, <2>3 DEF irq_eoi
    <3> QED
      BY <1>1, <2>1, <3>1 DEF PicOK, Cascade
  <2> QED
    BY <2>2, <2>3
<1>5. ASSUME UNCHANGED pic PROVE PicOK'
  BY <1>5 DEF PicOK
<1> QED
  BY <1>2, <1>3, <1>4, <1>5

\* The CPU is given a vector the table has a gate for.
LEMMA InterruptKeeps ==
  ASSUME IInv, Interrupt
  PROVE  IInv'
<1>1. PicOK /\ cpu \in Cpu
  BY DEF IInv, TypeOK
<1> DEFINE Ctl == [imr : Pins, irr : Pins, isr : Pins]
<1>2. /\ pic \in [{M, S} -> Ctl] /\ pic[M] \in Ctl /\ pic[S] \in Ctl /\ M # S
      /\ 2 \notin pic[M].irr
  BY <1>1 DEF PicOK, Cascade, M, S
<1>m. PICK m : m = Least(MasterAsks)
  OBVIOUS
<1>3. m \in MasterAsks /\ m \in 0 .. 7 /\ (m = 2 => Asks(S) # {})
  <2>1. MasterAsks \in SUBSET (0 .. 7) /\ MasterAsks # {}
    BY <1>2 DEF MasterAsks, Interrupt, Irr, Cascade, Pins
  <2>2. m \in MasterAsks
    BY <2>1, <1>m, LeastPin
  <2> QED
    BY <2>1, <2>2, <1>2 DEF MasterAsks, Irr, Cascade
<1>n. PICK n : n = IF m = Cascade THEN 8 + Least(Asks(S)) ELSE m
  OBVIOUS
<1>4. n \in 0 .. 15
  <2>1. CASE m = 2
    <3>1. Asks(S) \in SUBSET (0 .. 7) /\ Asks(S) # {}
      BY <1>2, <1>3, <2>1 DEF Asks, Pins
    <3>2. Least(Asks(S)) \in 0 .. 7
      BY <3>1, LeastPin
    <3> QED
      BY <3>2, <2>1, <1>n DEF Cascade
  <2>2. CASE m # 2
    BY <2>2, <1>3, <1>n DEF Cascade
  <2> QED
    BY <2>1, <2>2
<1>5. /\ pic' = [p \in {M, S} |->
                   CASE p = Pic(n) -> [pic[p] EXCEPT !.irr = @ \ {Pin(n)}, !.isr = @ \cup {Pin(n)}]
                     [] p = M /\ n >= 8 -> [pic[M] EXCEPT !.isr = @ \cup {Cascade}]
                     [] OTHER -> pic[p]]
      /\ IF IDT[32 + n].h = "null" THEN UNCHANGED <<cpu, stack, run>> ELSE Enter(32 + n, FALSE)
      /\ UNCHANGED back
  <2>1. Deliver(n) /\ UNCHANGED back
    BY <1>m, <1>n, Zenon DEF Interrupt
  <2> QED
    BY <2>1, Zenon DEF Deliver
<1>6. PicOK'
  <2>1. Pin(n) \in 0 .. 7 /\ Cascade \in 0 .. 7
    BY <1>4 DEF Pin, Cascade
  <2>2. ASSUME NEW p \in {M, S} PROVE pic'[p] \in Ctl /\ pic'[p].irr \subseteq pic[p].irr
    <3>c. PICK c : c = pic[p]
      OBVIOUS
    <3>1. c \in Ctl
      BY <1>2, <3>c
    <3>2. \/ pic'[p] = [c EXCEPT !.irr = @ \ {Pin(n)}, !.isr = @ \cup {Pin(n)}]
          \/ pic'[p] = [c EXCEPT !.isr = @ \cup {Cascade}]
          \/ pic'[p] = c
      BY <1>5, <3>c
    <3>3. /\ c.irr \ {Pin(n)} \in Pins /\ c.isr \cup {Pin(n)} \in Pins
          /\ c.isr \cup {Cascade} \in Pins
      BY <2>1, <3>1 DEF Pins
    <3>4. CASE pic'[p] = [c EXCEPT !.irr = @ \ {Pin(n)}, !.isr = @ \cup {Pin(n)}]
      BY <3>1, <3>3, <3>4, <3>c
    <3>5. CASE pic'[p] = [c EXCEPT !.isr = @ \cup {Cascade}]
      BY <3>1, <3>3, <3>5, <3>c
    <3>6. CASE pic'[p] = c
      BY <3>1, <3>6, <3>c
    <3> QED
      BY <3>2, <3>4, <3>5, <3>6
  <2>3. pic' = [p \in {M, S} |-> pic'[p]]
    BY <1>5
  <2> QED
    BY <1>2, <2>2, <2>3 DEF PicOK, Cascade
<1>g. PICK g : g = IDT[32 + n]
  OBVIOUS
<1>7. CASE g.h = "null"
  BY <1>1, <1>5, <1>6, <1>7, <1>g, HandlerKeeps
<1>8. CASE g.h # "null"
  <2>1. g.h = "irq" /\ g.nr \in Nat
    BY <1>4, <1>8, <1>g, Gates
  <2>2. Enter(32 + n, FALSE) /\ UNCHANGED back
    BY <1>5, <1>8, <1>g
  <2>3. g.h \in {"irq", "exc", "excf", "syscall"} /\ (FALSE <=> g.h = "excf")
    BY <2>1
  <2> QED
    BY <1>6, <1>g, <2>1, <2>2, <2>3, EnterKeeps
<1> QED
  BY <1>7, <1>8

LEMMA InterruptsInit ==
  ASSUME Init
  PROVE  IInv
<1>1. /\ cpu \in Cpu /\ run = <<>> /\ stack = <<>> /\ back = [got |-> cpu, was |-> cpu]
      /\ pic = pic_init
  BY DEF Init, Cpu
<1>2. PicOK
  BY <1>1 DEF PicOK, pic_init, Pins, M, S, Cascade
<1>3. run \in Seq(Entry) /\ stack \in Seq(Word) /\ Len(run) = 0
  BY <1>1
<1>4. FramesKept
  BY <1>1, <1>3 DEF FramesKept
<1> QED
  BY <1>1, <1>2, <1>3, <1>4 DEF IInv, TypeOK, ReturnsWhereInterrupted

\* exc_handler returns, ends the task, or halts.
LEMMA ExcHandlerKeeps ==
  ASSUME IInv, exc_handler
  PROVE  IInv'
<1>1. /\ PicOK /\ cpu \in Cpu /\ run \in Seq(Entry) /\ run # <<>> /\ UNCHANGED <<pic, back>>
  BY DEF IInv, TypeOK, exc_handler, In
<1>2. PicOK'
  BY <1>1, PicSteps
<1>3. CASE Pc("return") /\ UNCHANGED <<cpu, stack>>
  <2>1. cpu' \in Cpu /\ \E l \in {"call", "return", "iret"} : run # <<>> /\ Pc(l)
    BY <1>1, <1>3
  <2> QED
    BY <1>1, <1>2, <1>3, <2>1, HandlerKeeps
<1>4. CASE run' = <<>> /\ stack' = <<>> /\ cpu' = Top.was
  <2>1. cpu' \in Cpu
    <3>1. Len(run) \in 1 .. Len(run) /\ Top \in Entry
      BY <1>1 DEF Top
    <3> QED
      BY <3>1, <1>4 DEF Entry
  <2>2. run' \in Seq(Entry) /\ stack' \in Seq(Word) /\ Len(run') = 0
    BY <1>4
  <2>3. FramesKept'
    BY <1>4, <2>2 DEF FramesKept
  <2> QED
    BY <1>1, <1>2, <1>4, <2>1, <2>2, <2>3 DEF IInv, TypeOK, ReturnsWhereInterrupted
<1>5. CASE cpu' = [cpu EXCEPT !.ie = 0] /\ UNCHANGED <<stack, run>>
  <2>1. cpu' \in Cpu
    BY <1>1, <1>5 DEF Cpu
  <2> QED
    BY <1>1, <1>2, <1>5, <2>1, HandlerKeeps
<1> QED
  BY <1>3, <1>4, <1>5 DEF exc_handler

LEMMA InterruptsNext ==
  ASSUME IInv, [Next]_vars
  PROVE  IInv'
<1>1. PicOK /\ cpu \in Cpu /\ run \in Seq(Entry)
  BY DEF IInv, TypeOK
<1>2. CASE Interrupt
  BY <1>2, InterruptKeeps
<1>3. CASE irq_handler
  <2>1. /\ pic' = irq_eoi(Top.nr) /\ Pc("return") /\ UNCHANGED <<cpu, stack, back>> /\ run # <<>>
    BY <1>3 DEF irq_handler, In
  <2>2. Top.nr \in Nat
    <3>1. Len(run) \in 1 .. Len(run) /\ Top \in Entry
      BY <1>1, <2>1 DEF Top
    <3> QED
      BY <3>1 DEF Entry
  <2>3. PicOK'
    BY <1>1, <2>1, <2>2, PicSteps
  <2>4. cpu' \in Cpu /\ \E l \in {"call", "return", "iret"} : run # <<>> /\ Pc(l)
    BY <1>1, <2>1
  <2> QED
    BY <2>1, <2>3, <2>4, HandlerKeeps
<1>4. CASE load_ds
  <2>1. /\ Pc("iret") /\ cpu' = [cpu EXCEPT !.ds = return_from_intr]
        /\ UNCHANGED <<stack, back, pic>> /\ run # <<>>
    BY <1>4 DEF load_ds, In
  <2>2. return_from_intr \in {0, 3}
    BY DEF return_from_intr
  <2>3. cpu' \in Cpu
    BY <1>1, <2>1, <2>2 DEF Cpu
  <2>4. PicOK' /\ \E l \in {"call", "return", "iret"} : run # <<>> /\ Pc(l)
    BY <1>1, <2>1, PicSteps
  <2> QED
    BY <2>1, <2>3, <2>4, HandlerKeeps
<1>5. CASE iret
  BY <1>5, IretKeeps
<1>6. CASE syscall
  <2>1. Enter(255, FALSE) /\ UNCHANGED <<back, pic>>
    BY <1>6 DEF syscall
  <2>2. PicOK'
    BY <1>1, <2>1, PicSteps
  <2>g. PICK g : g = IDT[255]
    OBVIOUS
  <2>3. /\ g.h \in {"irq", "exc", "excf", "syscall"} /\ g.nr \in Nat /\ (FALSE <=> g.h = "excf")
        /\ FALSE \in BOOLEAN
    BY <2>g, Gates
  <2> QED
    BY <2>1, <2>2, <2>3, <2>g, EnterKeeps
<1>7. CASE syscall_exc
  <2>1. Pc("return") /\ UNCHANGED <<cpu, stack, back, pic>> /\ run # <<>>
    BY <1>7 DEF syscall_exc, In
  <2>2. PicOK' /\ cpu' \in Cpu /\ \E l \in {"call", "return", "iret"} : run # <<>> /\ Pc(l)
    BY <1>1, <2>1, PicSteps
  <2> QED
    BY <2>1, <2>2, HandlerKeeps
<1>8. CASE exc_handler
  BY <1>8, ExcHandlerKeeps
<1>9. ASSUME NEW v \in Exceptions, Exception(v) PROVE IInv'
  <2>1. Enter(v, v \in ErrorCode) /\ UNCHANGED <<back, pic>>
    BY <1>9 DEF Exception
  <2>2. PicOK'
    BY <1>1, <2>1, PicSteps
  <2>g. PICK g : g = IDT[v]
    OBVIOUS
  <2>e. PICK err \in BOOLEAN : err <=> v \in ErrorCode
    OBVIOUS
  <2>3. v \in (0 .. 19) \ {15}
    BY LinesAssumption
  <2>4. /\ g.h \in {"exc", "excf"} /\ g.nr \in Nat /\ (err <=> g.h = "excf")
    BY <2>3, <2>g, <2>e, Gates
  <2>5. g.h \in {"irq", "exc", "excf", "syscall"}
    BY <2>4
  <2>6. Enter(v, err)
    <3>1. CASE v \in ErrorCode
      BY <2>1, <2>e, <3>1 DEF Enter, Hardware
    <3>2. CASE v \notin ErrorCode
      BY <2>1, <2>e, <3>2 DEF Enter, Hardware
    <3> QED
      BY <3>1, <3>2
  <2> QED
    BY <2>1, <2>2, <2>4, <2>5, <2>6, <2>g, EnterKeeps
<1>10. ASSUME NEW n \in Lines, Raise(n) \/ irq_on(n) \/ irq_off(n) PROVE IInv'
  <2>1. UNCHANGED <<cpu, stack, run, back>>
    BY <1>10 DEF Raise, irq_on, irq_off
  <2>2. n \in (0 .. 15) \ {2}
    BY LinesAssumption
  <2>3. \/ pic' = [pic EXCEPT ![Pic(n)].irr = @ \cup {Pin(n)}]
        \/ pic' \in {pic_mask(n), pic_unmask(n)}
    BY <1>10, Zenon DEF Raise, irq_on, irq_off
  <2>4. PicOK' /\ cpu' \in Cpu
    BY <1>1, <2>1, <2>2, <2>3, PicSteps
  <2> QED
    BY <2>1, <2>4, HandlerKeeps
<1>11. CASE UNCHANGED vars
  <2>1. UNCHANGED <<cpu, stack, run, back, pic>>
    BY <1>11 DEF vars
  <2>2. PicOK' /\ cpu' \in Cpu
    BY <1>1, <2>1, PicSteps
  <2> QED
    BY <2>1, <2>2, HandlerKeeps
<1>12. OffLines \subseteq Lines
  BY LinesAssumption
<1> QED
  BY <1>2, <1>3, <1>4, <1>5, <1>6, <1>7, <1>8, <1>9, <1>10, <1>11, <1>12 DEF Next

\* However deep interrupts, exceptions and system calls nest, and whichever of
\* them push an error code, return_from_intr and iret go back to the code that was
\* interrupted, at its privilege and with interrupts as they were, and leave the
\* kernel stack as they found it.
THEOREM InterruptedGoesOn == Spec => []ReturnsWhereInterrupted
<1>1. Init => IInv
  BY InterruptsInit
<1>2. IInv /\ [Next]_vars => IInv'
  BY InterruptsNext
<1>3. IInv => ReturnsWhereInterrupted
  BY DEF IInv
<1> QED
  BY <1>1, <1>2, <1>3, PTL DEF Spec

=============================================================================
