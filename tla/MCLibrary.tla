----------------------------- MODULE MCLibrary ------------------------------
(***************************************************************************)
(* The kernel's library on small instances: the red-black tree, the lists, *)
(* vsnprintf and the console.  They share no state, so a behaviour runs    *)
(* one of them, which, and the others stay as they start.                  *)
(***************************************************************************)
EXTENDS Integers, Sequences, FiniteSets

CONSTANTS h1, h2, e1, e2, e3, e4, none

VARIABLES which, tree,
          next, prev, head, pos, n, due, op,
          size, buf, str, out, pieces, ret, last,
          uart, vga, curs, line, text, input
treeVars == <<tree>>
listVars == <<next, prev, head, pos, n, due, op>>
printfVars == <<size, buf, str, out, pieces, ret, last>>
consoleVars == <<uart, vga, curs, line, text, input>>
vars == <<which, treeVars, listVars, printfVars, consoleVars>>

-----------------------------------------------------------------------------
(* Formats of numbers, with the width and the precision in the format or,  *)
(* if star, in the arguments; and mixtures of conversions.                 *)
Digit == <<"0", "1", "2", "3", "4", "5", "6", "7", "8", "9">>
Num(v, base, width, prec, flags, q, star) ==
  LET opt(f, ch) == IF f \in flags THEN <<ch>> ELSE <<>>
      num(x) == IF star THEN <<"*">> ELSE <<Digit[x + 1]>>
      conv == CASE base = 8 -> "o" [] base = 16 -> IF "LARGE" \in flags THEN "X" ELSE "x"
                [] OTHER -> IF "SIGN" \in flags THEN "d" ELSE "u"
  IN  [fmt |-> <<"%">> \o opt("LEFT", "-") \o opt("PLUS", "+") \o opt("SPACE", " ") \o opt("SPECIAL", "#") \o opt("ZEROPAD", "0")
               \o (IF width >= 0 THEN num(width) ELSE <<>>) \o (IF prec >= 0 THEN <<".">> \o num(prec) ELSE <<>>)
               \o (CASE q = "none" -> <<>> [] q = "L" /\ star -> <<"l", "l">> [] OTHER -> <<q>>) \o <<conv>>,
       args |-> (IF star /\ width >= 0 THEN <<width>> ELSE <<>>) \o (IF star /\ prec >= 0 THEN <<prec>> ELSE <<>>) \o <<v>>,
       means |-> [k |-> "num", arg |-> v, base |-> base, width |-> width, prec |-> prec, flags |-> flags, q |-> q]]
Flags == SUBSET {"PLUS", "SPACE", "SPECIAL", "ZEROPAD", "LEFT"}
Numbers ==
  {Num(v, base, w, p, f, q, TRUE) : v \in {-16, -9, 0, 7, 11}, base \in {8, 16}, w \in {-1, 6}, p \in {-1, 3},
      f \in Flags \cup {g \cup {"LARGE"} : g \in {{}, {"SPECIAL"}}}, q \in {"none", "h", "l", "Z"}}
  \cup {Num(v, 10, w, p, f \cup s, q, star) : v \in {-16, -9, 0, 7, 11}, w \in {-1, 3, 6}, p \in {-1, 0, 3},
      f \in Flags, s \in {{"SIGN"}, {}}, q \in {"none", "h", "L"}, star \in BOOLEAN}
Other(fmt, args) == [fmt |-> fmt, args |-> args, means |-> [k |-> "other"]]
Mixture ==
  {Other(<<"a">>, <<>>), Other(<<"%", "%">>, <<>>), Other(<<"%", "y">>, <<>>), Other(<<"%", "l", "n">>, <<0>>),
   Other(<<"%", "3", "c">>, <<"b">>), Other(<<"%", "-", "c">>, <<"b">>),
   Other(<<"%", "s">>, <<<<"x", "y", "z">>>>), Other(<<"%", "*", ".", "2", "s">>, <<-4, <<"x", "y", "z">>>>),
   Num(-9, 10, -1, -1, {"SIGN"}, "none", FALSE), Num(11, 16, 5, -1, {"SPECIAL", "LARGE"}, "none", FALSE)}
Pointer == Other(<<"%", "p">>, <<11>>)
Rooms == {0, 1, 2, 5, 9, 12}

-----------------------------------------------------------------------------
R == INSTANCE Rbtree WITH MaxKey <- 9
L == INSTANCE List WITH Heads <- {h1, h2}, Entries <- {e1, e2, e3, e4}, NULL <- none
\* vsnprintf with all conversions, and with numbers alone.
V == INSTANCE Vsprintf WITH Pieces <- Mixture \cup {Pointer}, MaxPieces <- 4, Sizes <- Rooms,
       ShortBits <- 3, IntBits <- 4, LongLongBits <- 5, text <- out, n <- pieces
VN == INSTANCE Vsprintf WITH Pieces <- Numbers, MaxPieces <- 1, Sizes <- {12},
       ShortBits <- 3, IntBits <- 4, LongLongBits <- 5, text <- out, n <- pieces
\* A screen of three lines of three characters.
Chars == {<<"a">>, <<"\n">>, <<"DEL">>, <<"b", "c">>, <<"x", "\n", "y", "z">>}
C == INSTANCE Console WITH Cols <- 3, Rows <- 3, Messages <- Chars, BufSize <- 5, MaxChars <- 8
ASSUME R!KeyAssumption /\ V!WidthAssumption

Init ==
  /\ which \in {"rbtree", "list", "printf", "number", "console"}
  /\ R!Init /\ L!Init /\ C!Init /\ (which # "console" => uart.low = 12)
  /\ IF which = "printf" THEN V!Init ELSE VN!Init

Only(x) ==
  /\ which = x /\ UNCHANGED which
  /\ IF x = "rbtree" THEN TRUE ELSE UNCHANGED treeVars
  /\ IF x = "list" THEN TRUE ELSE UNCHANGED listVars
  /\ IF x \in {"printf", "number"} THEN TRUE ELSE UNCHANGED printfVars
  /\ IF x = "console" THEN TRUE ELSE UNCHANGED consoleVars
\* A format ends, and so does what is written to the console (MaxChars).
Ended == which \notin {"rbtree", "list"} /\ UNCHANGED vars
Next ==
  \/ Only("rbtree") /\ R!Next
  \/ Only("list") /\ L!Next
  \/ Only("printf") /\ V!Next
  \/ Only("number") /\ VN!Next
  \/ Only("console") /\ C!Next
  \/ Ended
Spec == Init /\ [][Next]_vars

-----------------------------------------------------------------------------
(* Rbtree (rbtree.c)                                                       *)

\* Whatever was inserted, erased and replaced, in any order, no red node has a red
\* child and all paths have the same number of black nodes (rb_insert_color,
\* rb_erase and __rb_erase_color).
RedBlack == which = "rbtree" => R!RedBlack
\* The tree is a map: insert, erase and replace do what they do to a set of keys
\* and change nothing else.
ImplementsMap == R!Index!Init /\ [][which = "rbtree" => [R!Index!Next]_(R!Found)]_vars

(* List (list.h)                                                           *)

\* The walk of list_for_each_entry_safe loses no entry that is due as long as
\* nobody moves the entry it has saved, whatever its body does to the others.
WalkSeesAll == which = "list" => L!WalkSeesAll
\* The links are lists: every operation does to the sequences of entries what it
\* says and leaves the other lists alone.
ImplementsLists == L!Seqs!Init /\ [][which = "list" => [L!Seqs!Next]_(L!Seqs!vars)]_vars

(* Vsprintf (vsprintf.c) and Console (printk.c, vga.c, serio.c)            *)

\* When vsnprintf returns, the buffer holds the beginning of the full text, as much
\* of it as fits, and a NUL.
Terminated == which = "printf" => V!Terminated
\* What number writes reads as the value of the argument, padded to the width of the
\* field and on the side the flags say.
NumberReads == which = "number" => VN!NumberReads
\* The screen shows the end of the text that was printed, through wrapping,
\* scrolling and the echo of serio_isr.
ScreenShowsTail == which = "console" => C!ScreenShowsTail
=============================================================================
