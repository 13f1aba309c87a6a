------------------------------- MODULE Console ------------------------------
(***************************************************************************)
(* printk (kernel/printk.c) and the two devices it writes to: the screen   *)
(* (arch-ia32/vga.c) and the serial line (arch-ia32/serio.c).              *)
(*                                                                         *)
(* A message is a sequence of characters; printk formats it into a buffer  *)
(* of BufSize characters (module Vsprintf) and, with interrupts off, sends *)
(* what vsnprintf says is its length to both devices.                      *)
(***************************************************************************)
EXTENDS Integers, Sequences, SequencesExt

CONSTANTS Cols, Rows, Messages,
          BufSize,        \* size of the static buffer
          MaxChars        \* bound on what is printed in all

Blank == " "
Newlines == {"\n", "\r"}
Delete == "DEL"
NUL == "NUL"
Beyond == "?"             \* a byte of the memory behind the buffer

VARIABLES uart,      \* the divisor of the serial port, its line control and interrupt registers
          vga,       \* what vidmem shows, xpos and ypos
          curs,      \* the cursor's place, as the CRTC has it
          line,      \* the characters sent on the serial line
          text,      \* all that was given to printk
          input      \* characters the serial port has received
vars == <<uart, vga, curs, line, text, input>>

-----------------------------------------------------------------------------
(* The screen.                                                             *)
Cells == 0 .. Rows * Cols - 1
vga_preinit == [mem |-> [i \in Cells |-> NUL], xpos |-> 0, ypos |-> 0]
Place(v) == v.xpos + v.ypos * Cols

Scroll_short(mem) == [i \in Cells |-> IF i < (Rows - 1) * Cols - 1 THEN mem[i + Cols] ELSE Blank]
Scroll(mem) == [i \in Cells |-> IF i < (Rows - 1) * Cols THEN mem[i + Cols] ELSE Blank]
newline(v) ==
  IF v.ypos + 1 < Rows THEN [v EXCEPT !.xpos = 0, !.ypos = @ + 1]
  ELSE [v EXCEPT !.xpos = 0, !.mem = Scroll(v.mem)]
back(v) ==
  IF v.xpos > 0 THEN [v EXCEPT !.xpos = @ - 1]
  ELSE [v EXCEPT !.xpos = Cols - 1, !.ypos = IF @ > 0 THEN @ - 1 ELSE 0]
vga_put(v, c) ==
  CASE c = Delete -> LET b == back(v) IN [b EXCEPT !.mem[Place(b)] = Blank]
    [] c \in Newlines -> newline(v)
    [] OTHER -> LET w == [v EXCEPT !.mem[Place(v)] = c, !.xpos = @ + 1]
                IN  IF w.xpos >= Cols THEN newline(w) ELSE w

\* The low byte of the offset and then, after an index that also clears the
\* data register, the high one.
Byte == 4                  \* scaled: what a register of the CRTC holds
vga_curs(v) == ((Place(v) \div Byte) % Byte) * Byte + (Place(v) % Byte)

-----------------------------------------------------------------------------
(* The serial port: with bit 7 of the line control set, the first two       *)
(* registers are the divisor.                                              *)
outb(u, reg, val) ==
  CASE reg = 3 -> [u EXCEPT !.dlab = val]
    [] reg = 0 /\ u.dlab -> [u EXCEPT !.low = val]
    [] reg = 1 /\ u.dlab -> [u EXCEPT !.high = val]
    [] reg = 1 /\ ~u.dlab -> [u EXCEPT !.ier = val]
serio_init ==
  /\ ~uart.up /\ UNCHANGED <<vga, curs, line, text, input>>
  /\ uart' = [outb(outb(outb(outb(outb(uart, 1, 0), 3, TRUE), 0, 0), 1, 1), 3, FALSE) EXCEPT !.up = TRUE]
serio_driver_init ==
  uart.up /\ uart.ier = 0 /\ uart' = outb(uart, 1, 1) /\ UNCHANGED <<vga, curs, line, text, input>>

Init ==
  /\ \E low \in {1, 12} : uart = [up |-> FALSE, dlab |-> FALSE, low |-> low, high |-> 0, ier |-> 0]
  /\ vga = vga_preinit /\ curs = vga_curs(vga_preinit)
  /\ line = <<>> /\ text = <<>> /\ input = <<>>

-----------------------------------------------------------------------------
(* printk: buf after vsnprintf, and the loop over len characters of it.    *)
buf(m) == [i \in 1 .. Len(m) |-> IF i < BufSize THEN m[i] ELSE IF i = BufSize THEN NUL ELSE Beyond]
printkv_unlocked(m) ==
  LET v == FoldLeft(vga_put, vga, buf(m))
  IN  vga' = v /\ curs' = vga_curs(v) /\ line' = line \o buf(m) /\ text' = text \o m
printk(m) == uart.up /\ Len(text) + Len(m) <= MaxChars /\ printkv_unlocked(m) /\ UNCHANGED <<uart, input>>

\* A character arrives, and the handler echoes what the port has.
Receive(c) == uart.ier = 1 /\ input = <<>> /\ input' = Append(input, c) /\ UNCHANGED <<uart, vga, curs, line, text>>
serio_isr ==
  /\ uart.ier = 1 /\ input # <<>> /\ input' = Tail(input) /\ Len(text) < MaxChars /\ UNCHANGED uart
  /\ printkv_unlocked(<<IF Head(input) = "\r" THEN "\n" ELSE Head(input)>>)

Next ==
  \/ serio_init \/ serio_driver_init \/ serio_isr
  \/ \E m \in Messages : printk(m)
  \/ \E c \in {"k", "\r"} : Receive(c)
Spec == Init /\ [][Next]_vars

-----------------------------------------------------------------------------
\* What goes out on the serial line is what was printed, by tasks and by the
\* echo of the interrupt handler, complete and in order.
LineIsText == line = text

\* The screen is the end of the text: its last Rows lines, where a line ends
\* at a newline or after Cols characters, the last one with the cursor in it.
\* A text with deletions in it is not followed further.
Wrapped ==
  FoldLeft(LAMBDA ls, c : LET k == Len(ls)  l == IF c \in Newlines THEN ls[k] ELSE Append(ls[k], c)
                          IN  IF c \in Newlines \/ Len(l) = Cols THEN Append([ls EXCEPT ![k] = l], <<>>)
                              ELSE [ls EXCEPT ![k] = l],
           <<<<>>>>, text)
ScreenShowsTail ==
  (\A i \in DOMAIN text : text[i] # Delete) =>
    LET ls == Wrapped
        top == IF Len(ls) > Rows THEN Len(ls) - Rows ELSE 0
        Shown(c) == IF c = NUL THEN Blank ELSE c
        At(y, x) == IF top + y + 1 <= Len(ls) /\ x < Len(ls[top + y + 1]) THEN ls[top + y + 1][x + 1] ELSE Blank
    IN  /\ \A y \in 0 .. Rows - 1, x \in 0 .. Cols - 1 : Shown(vga.mem[x + y * Cols]) = At(y, x)
        /\ vga.ypos = Len(ls) - top - 1 /\ vga.xpos = Len(ls[Len(ls)])

\* The cursor is on the screen, at the place of the next character.
CursorFollows == curs = Place(vga) /\ curs \in Cells

\* A deletion moves the position back, never forward: on an empty screen it
\* leaves it where it was.
DeleteGoesBack == (\A i \in DOMAIN text : text[i] = Delete) => Place(vga) = 0

\* The serial port is set up with the divisor 1.
DivisorIsOne == uart.up => uart.low + uart.high * 256 = 1
=============================================================================
