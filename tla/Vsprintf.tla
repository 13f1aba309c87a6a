------------------------------ MODULE Vsprintf ------------------------------
(***************************************************************************)
(* Formatted output (kernel/vsprintf.c): vsnprintf, a conversion at a      *)
(* time, into a buffer of any size.  A format is a sequence of pieces, each *)
(* a character or a conversion with its arguments; characters are strings  *)
(* of length one.  text is what would be written if there were room for    *)
(* all of it.                                                              *)
(***************************************************************************)
EXTENDS Integers, Sequences, FiniteSets, TLC

CONSTANTS Pieces,         \* pieces a format is made of: fmt, the arguments args,
                          \* and what is meant, a record as parse finds it
          MaxPieces,      \* how many at most
          Sizes,          \* of buffers
          ShortBits, IntBits, LongLongBits  \* widths of the integers, in bits
WidthAssumption == ShortBits <= IntBits /\ IntBits <= LongLongBits

VARIABLES size, buf, str, text, n, ret, last
vars == <<size, buf, str, text, n, ret, last>>

Room == 40                 \* cells of memory that are watched, from buf[0]
NUL == "NUL"
Init ==
  /\ size \in Sizes /\ buf = [i \in 0 .. Room |-> "?"]
  /\ str = 0 /\ text = <<>> /\ n = 0 /\ ret = -1 /\ last = [k |-> "none"]
end == size - 1

-----------------------------------------------------------------------------
(* number.  A flag is a member of type.                                    *)
Digits == <<"0", "1", "2", "3", "4", "5", "6", "7", "8", "9", "a", "b", "c", "d", "e", "f">>
LargeDigits == [i \in 1 .. 16 |-> IF i <= 10 THEN Digits[i] ELSE <<"A", "B", "C", "D", "E", "F">>[i - 10]]

Rep(c, k) == [i \in 1 .. k |-> c]
Rest(k) == IF k > 0 THEN k ELSE 0

\* do_div, repeated: the digits of an unsigned number, most significant first.
do_div(num, base) ==
  LET d[k \in 0 .. num] == IF k = 0 THEN <<>> ELSE d[k \div base] \o <<k % base>>
  IN  IF num = 0 THEN <<0>> ELSE d[num]

\* What is written for num, which is signed and LongLongBits bits wide, as num is.
number_sign(num, type) ==
  CASE "SIGN" \notin type -> <<>>
    [] "SIGN" \in type /\ num < 0 -> <<"-">>
    [] "SIGN" \in type /\ num >= 0 /\ "PLUS" \in type -> <<"+">>
    [] "SIGN" \in type /\ num >= 0 /\ "PLUS" \notin type /\ "SPACE" \in type -> <<" ">>
    [] OTHER -> <<>>
number_special(base, type) ==
  IF "SPECIAL" \notin type THEN <<>>
  ELSE CASE base = 16 -> IF "LARGE" \in type THEN <<"0", "X">> ELSE <<"0", "x">>
         [] base = 8 -> <<"0">>
         [] OTHER -> <<>>
number_signed(num, base, field_width, precision, flags) ==
  LET type == IF "LEFT" \in flags THEN flags \ {"ZEROPAD"} ELSE flags
      set == IF "LARGE" \in type THEN LargeDigits ELSE Digits
      sign == number_sign(num, type)
      special == number_special(base, type)
      d == do_div(IF num < 0 THEN -num ELSE num, base)
      prec == IF Len(d) > precision THEN Len(d) ELSE precision
      left == Rest(field_width - Len(sign) - Len(special) - prec)
      body == Rep("0", prec - Len(d)) \o [i \in DOMAIN d |-> set[d[i] + 1]]
  IN  CASE "LEFT" \in type -> sign \o special \o body \o Rep(" ", left)
        [] "ZEROPAD" \in type -> sign \o special \o Rep("0", left) \o body
        [] OTHER -> Rep(" ", left) \o sign \o special \o body
number(num, base, field_width, precision, flags) ==
  LET type == IF "LEFT" \in flags THEN flags \ {"ZEROPAD"} ELSE flags
      set == IF "LARGE" \in type THEN LargeDigits ELSE Digits
      sign == number_sign(num, type)
      special == number_special(base, type)
      abs == IF "SIGN" \in type /\ num < 0 THEN -num ELSE num
      d == do_div(abs % 2^LongLongBits, base)
      prec == IF Len(d) > precision THEN Len(d) ELSE precision
      left == Rest(field_width - Len(sign) - Len(special) - prec)
      body == Rep("0", prec - Len(d)) \o [i \in DOMAIN d |-> set[d[i] + 1]]
  IN  CASE "LEFT" \in type -> sign \o special \o body \o Rep(" ", left)
        [] "ZEROPAD" \in type -> sign \o special \o Rep("0", left) \o body
        [] OTHER -> Rep(" ", left) \o sign \o special \o body

-----------------------------------------------------------------------------
(* The conversions.                                                        *)

\* What the bits of v mean in w bits, signed or not.
Signed(v, w) == IF v % 2^w >= 2^(w - 1) THEN (v % 2^w) - 2^w ELSE v % 2^w
\* The argument v of an integer conversion, fetched as the qualifier says.
argument(v, qualifier, flags) ==
  LET w == CASE qualifier = "L" -> LongLongBits [] qualifier = "h" -> ShortBits [] OTHER -> IntBits
  IN  IF qualifier = "L" \/ ("SIGN" \in flags /\ qualifier # "Z") THEN Signed(v, w) ELSE v % 2^w

\* The conversion a piece asks for: flags, width, precision and qualifier, each
\* of them possibly missing, and an argument for every "*".
FlagOf == [c \in {"-", "+", " ", "#", "0"} |->
             CASE c = "-" -> "LEFT" [] c = "+" -> "PLUS" [] c = " " -> "SPACE" [] c = "#" -> "SPECIAL" [] c = "0" -> "ZEROPAD"]
Decimal == {Digits[i] : i \in 1 .. 10}
After(f, i, S) == CHOOSE j \in i .. Len(f) : f[j] \notin S /\ \A k \in i .. j - 1 : f[k] \in S
skip_atoi(f, i, j) ==
  LET v[k \in i - 1 .. j - 1] == IF k < i THEN 0 ELSE v[k - 1] * 10 + (CHOOSE d \in 0 .. 9 : Digits[d + 1] = f[k])
  IN  v[j - 1]
\* A number or a star at i, -1 if there is none: where it ends, its value, and
\* the arguments that are left.
field(f, i, va) ==
  IF f[i] = "*" THEN [to |-> i + 1, v |-> va[1], va |-> Tail(va)]
  ELSE LET j == After(f, i, Decimal) IN [to |-> j, v |-> IF j = i THEN -1 ELSE skip_atoi(f, i, j), va |-> va]
qualifier(f, i) ==
  CASE f[i] = "l" /\ f[i + 1] = "l" -> [to |-> i + 2, q |-> "L"]
    [] f[i] \in {"h", "L", "Z"} \/ (f[i] = "l" /\ f[i + 1] # "l") -> [to |-> i + 1, q |-> f[i]]
    [] OTHER -> [to |-> i, q |-> "none"]
parse(f, args) ==
  LET i == IF f[1] = "%" THEN After(f, 2, DOMAIN FlagOf) ELSE 1
      w == field(f, i, args)
      neg == f[i] = "*" /\ w.v < 0
      pr == IF f[w.to] = "." THEN field(f, w.to + 1, w.va) ELSE [to |-> w.to, v |-> -1, va |-> w.va]
      q == qualifier(f, pr.to)
      c == f[q.to]
      flags == {FlagOf[f[j]] : j \in 2 .. i - 1} \cup (IF neg THEN {"LEFT"} ELSE {})
      all == [flags |-> flags \cup (IF c = "X" THEN {"LARGE"} ELSE {}) \cup (IF c \in {"d", "i"} THEN {"SIGN"} ELSE {}),
              width |-> IF neg THEN -w.v ELSE w.v,
              prec |-> IF f[w.to] = "." /\ pr.v < 0 THEN 0 ELSE pr.v,
              q |-> q.q, base |-> CASE c = "o" -> 8 [] c \in {"x", "X"} -> 16 [] OTHER -> 10,
              arg |-> IF pr.va = <<>> THEN NUL ELSE pr.va[1], c |-> c]
  IN  [k |-> IF f[1] # "%" THEN "lit" ELSE IF c \in {"c", "s", "p", "n", "%"} THEN c
             ELSE IF c \in {"o", "x", "X", "d", "i", "u"} THEN "num" ELSE "bad"]
      @@ all
\* What a piece p puts out: the flags LEFT and width serve c and s as well.
Pad(s, p) ==
  LET left == Rest(p.width - Len(s))
  IN  IF "LEFT" \in p.flags THEN s \o Rep(" ", left) ELSE Rep(" ", left) \o s
Text(p) ==
  CASE p.k \in {"lit", "%"} -> <<p.c>>
    [] p.k = "bad" -> <<"%", p.c>>
    [] p.k = "c" -> Pad(<<p.arg>>, p)
    [] p.k = "s" -> Pad(SubSeq(p.arg, 1, IF p.prec = -1 \/ p.prec > Len(p.arg) THEN Len(p.arg) ELSE p.prec), p)
    [] p.k = "p" -> <<"0", "x">> \o number(p.arg, 16, IF p.width = -1 THEN 2 ELSE p.width, p.prec,
                                           IF p.width = -1 THEN p.flags \cup {"ZEROPAD"} ELSE p.flags)
    [] p.k = "n" -> <<>>
    [] p.k = "num" -> number(argument(p.arg, p.q, p.flags), p.base, p.width, p.prec, p.flags)

\* Characters go into the buffer as long as they fit, and are counted anyway.
Put(b, at, s) == [i \in 0 .. Room |-> IF i \in at .. at + Len(s) - 1 /\ i <= end THEN s[i - at + 1] ELSE b[i]]
\* The two characters before a pointer are counted only if there is room behind them.
PointerPrefix(at) == Rest(IF at + 2 <= end THEN 2 ELSE end - at)

convert(x) ==
  LET p == parse(x.fmt, x.args)
      t == Text(p)
      fits == IF p.k = "p" THEN PointerPrefix(str) ELSE 0
      out == IF p.k = "p" THEN SubSeq(t, 1, fits) \o SubSeq(t, 3, Len(t)) ELSE t
  IN  /\ ret = -1 /\ str + Len(out) <= Room
      /\ buf' = Put(buf, str, out) /\ str' = str + Len(out)
      /\ text' = text \o t /\ n' = n + 1 /\ last' = x.means
      /\ UNCHANGED <<size, ret>>

\* The end of the format.
terminate_short ==
  /\ ret = -1 /\ ret' = str /\ UNCHANGED <<size, str, text, n, last>>
  /\ buf' = IF str <= end THEN Put(buf, str, <<NUL>>) ELSE buf
terminate ==
  /\ ret = -1 /\ ret' = str /\ UNCHANGED <<size, str, text, n, last>>
  /\ buf' = IF str <= end THEN Put(buf, str, <<NUL>>)
            ELSE IF size > 0 THEN [buf EXCEPT ![end] = NUL] ELSE buf

Next == terminate \/ \E x \in IF n < MaxPieces THEN Pieces ELSE {} : convert(x)
Spec == Init /\ [][Next]_vars

-----------------------------------------------------------------------------
\* Nothing is written behind the buffer, whatever its size.
InBounds == \A i \in 0 .. Room : i >= size => buf[i] = "?"

\* What is left in a buffer that has any room is a string: the beginning of
\* the full text, as much as fits, and a NUL.
Terminated ==
  ret # -1 /\ size > 0 =>
    LET k == IF Len(text) < size THEN Len(text) ELSE size - 1
    IN  buf[k] = NUL /\ \A i \in 1 .. k : buf[i - 1] = text[i]

\* The result is the length of the full text, so that the caller can see
\* whether it was cut.
LengthReported == ret # -1 => ret = Len(text)

\* A number is written so that it reads as the argument's value: spaces, sign,
\* prefix, at least precision digits in the right base, spaces; padded to the
\* field's width and on the side the flags say.
NumberReads ==
  last.k = "num" /\ n = 1 =>
    LET flags == last.flags
        w == CASE last.q = "L" -> LongLongBits [] last.q = "h" -> ShortBits [] OTHER -> IntBits
        v == IF "SIGN" \in flags /\ last.q # "Z" THEN Signed(last.arg, w) ELSE last.arg % 2^w
        set == IF "LARGE" \in flags THEN LargeDigits ELSE Digits
        special == number_special(last.base, flags)
        val(c) == CHOOSE i \in 0 .. 15 : set[i + 1] = c
    IN  \E i \in 0 .. Len(text) : \E j \in i .. Len(text) :
          LET before == SubSeq(text, 1, i)  body == SubSeq(text, i + 1, j)  after == SubSeq(text, j + 1, Len(text))
              sign == CASE v < 0 -> <<"-">> [] v >= 0 /\ {"SIGN", "PLUS"} \subseteq flags -> <<"+">>
                        [] v >= 0 /\ "PLUS" \notin flags /\ {"SIGN", "SPACE"} \subseteq flags -> <<" ">> [] OTHER -> <<>>
              lead == sign \o special
              ds == SubSeq(body, Len(lead) + 1, Len(body))
              horner[k \in 0 .. Len(ds)] == IF k = 0 THEN 0 ELSE horner[k - 1] * last.base + val(ds[k])
          IN  /\ \A k \in DOMAIN before : before[k] = " "
              /\ \A k \in DOMAIN after : after[k] = " "
              /\ after # <<>> => "LEFT" \in flags
              /\ before # <<>> => flags \cap {"LEFT", "ZEROPAD"} = {}
              /\ Len(body) > Len(lead) /\ SubSeq(body, 1, Len(lead)) = lead
              /\ \A k \in DOMAIN ds : \E d \in 1 .. last.base : ds[k] = set[d]
              /\ horner[Len(ds)] = (IF v < 0 THEN -v ELSE v)
              /\ Len(ds) >= last.prec /\ Len(text) >= last.width
              /\ Len(text) > last.width => before = <<>> /\ after = <<>>
=============================================================================
