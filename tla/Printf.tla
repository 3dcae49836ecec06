------------------------------- MODULE Printf -------------------------------
(* Pintos's lib/stdio.c: how printf and its relatives read a format and       *)
(* render a value.  A format or an output is a sequence of one-character      *)
(* strings, NUL the empty string; an integer type is named by its length      *)
(* modifier and Bits gives its width.                                         *)
EXTENDS Integers, Sequences, SequencesExt

CONSTANTS Bits,       \* the width of each integer type
          BufSize     \* sizeof buf of format_integer (64)

NUL == ""
FlagChars == {"-", "+", " ", "#", "0", "'"}
DigitChars == <<"0", "1", "2", "3", "4", "5", "6", "7", "8", "9", "a", "b", "c", "d", "e", "f">>
Decimal == ToSet(SubSeq(DigitChars, 1, 10))
DigitOf(ch) == SelectInSeq(DigitChars, LAMBDA d : d = ch) - 1

\* struct integer_base: the radix, the `x' of the prefix, digits per group.
base_d == [base |-> 10, x |-> NUL, group |-> 3]
base_o == [base |-> 8, x |-> NUL, group |-> 3]
base_x == [base |-> 16, x |-> "x", group |-> 4]
base_X == [base |-> 16, x |-> "X", group |-> 4]

Least(a, b) == IF a < b THEN a ELSE b
Unsigned(v, type) == v % 2 ^ Bits[type]
Signed(v, type) == ((v + 2 ^ (Bits[type] - 1)) % 2 ^ Bits[type]) - 2 ^ (Bits[type] - 1)

-----------------------------------------------------------------------------
(* Reading a conversion                                                      *)

\* Where the run of characters of `set` that starts at i ends.
After(f, i, set) == SelectInSubSeq(f, i, Len(f), LAMBDA ch : ch \notin set)
Number(base, digits) == FoldLeft(LAMBDA n, ch : n * base + DigitOf(ch), 0, digits)

\* A width or a precision at i: `*' takes an argument, otherwise digits.
Quantity(f, i, args) ==
  IF f[i] = "*" THEN [i |-> i + 1, n |-> Head(args), args |-> Tail(args)]
  ELSE LET j == After(f, i, Decimal)
       IN  [i |-> j, n |-> Number(10, SubSeq(f, i, j - 1)), args |-> args]

\* The four steps of parse_conversion, each on the conversion read so far, c; c.i
\* is the next character.
ParseFlags(f, i, args) ==
  LET given == ToSet(SubSeq(f, i, After(f, i, FlagChars) - 1))
  IN  [i |-> After(f, i, FlagChars), args |-> args,
       flags |-> given \ ((IF "-" \in given THEN {"0"} ELSE {})
                          \cup (IF "+" \in given THEN {" "} ELSE {}))]
SetWidth(c, q) ==
  [i |-> q.i, args |-> q.args, width |-> IF q.n < 0 THEN -q.n ELSE q.n,
   flags |-> c.flags \cup (IF q.n < 0 THEN {"-"} ELSE {})]
SetPrecision(c, q) ==
  [i |-> q.i, args |-> q.args, width |-> c.width, precision |-> IF q.n < 0 THEN -1 ELSE q.n,
   flags |-> c.flags \ (IF q.n >= 0 THEN {"0"} ELSE {})]
ParsePrecision(f, c) ==
  SetPrecision(c, IF f[c.i] = "." THEN Quantity(f, c.i + 1, c.args)
                  ELSE [i |-> c.i, n |-> -1, args |-> c.args])
ParseType(f, c) ==
  LET one == f[c.i] \in {"h", "l", "j", "t", "z"}
      twice == f[c.i] \in {"h", "l"} /\ f[c.i + 1] = f[c.i]
  IN  [i |-> c.i + (IF twice THEN 2 ELSE IF one THEN 1 ELSE 0), args |-> c.args,
       flags |-> c.flags, width |-> c.width, precision |-> c.precision,
       type |-> CASE twice -> IF f[c.i] = "h" THEN "hh" ELSE "ll"
                  [] ~twice /\ one -> f[c.i]
                  [] OTHER -> ""]

\* Flags, width, precision and type; i is left at the conversion's character.
ParseWidth(f, c) == SetWidth(c, Quantity(f, c.i, c.args))
parse_conversion(f, i, args) ==
  ParseType(f, ParsePrecision(f, ParseWidth(f, ParseFlags(f, i, args))))

-----------------------------------------------------------------------------
(* Rendering                                                                 *)

\* `cnt` copies of a character; a negative count, which every caller turns into
\* zero first, gives none.
output_dup(ch, cnt) == IF cnt > 0 THEN [k \in 1 .. cnt |-> ch] ELSE <<>>

\* The digits of `value`, lowest first, with a comma before every full group.
RECURSIVE Digits(_, _, _, _)
Digits(value, b, group, cnt) ==
  IF value = 0 THEN <<>>
  ELSE (IF group /\ cnt > 0 /\ cnt % b.group = 0 THEN <<",">> ELSE <<>>)
       \o <<DigitChars[(value % b.base) + 1]>> \o Digits(value \div b.base, b, group, cnt + 1)

\* The digits in their order, filled up to the precision, as far as the buffer
\* reaches, and the zero `#' asks for in octal.
DigitText(digits, b, c) ==
  LET least == Least(IF c.precision < 0 THEN 1 ELSE c.precision, BufSize - 1)
      filled == digits \o output_dup("0", least - Len(digits))
      octal == "#" \in c.flags /\ b.base = 8 /\ (filled = <<>> \/ Last(filled) # "0")
  IN  Reverse(filled \o (IF octal THEN <<"0">> ELSE <<>>))

\* Sign, prefix and digits in a field of c.width.
Justify(sign, x, text, c) ==
  LET pad == c.width - Len(text) - Len(x) - Len(sign)
      When(cond, s) == IF cond THEN s ELSE <<>>
  IN  When(c.flags \cap {"-", "0"} = {}, output_dup(" ", pad)) \o sign \o x
      \o When("0" \in c.flags, output_dup("0", pad)) \o text
      \o When("-" \in c.flags, output_dup(" ", pad))

format_integer(value, is_signed, negative, b, c) ==
  Justify(IF ~is_signed THEN <<>>
          ELSE IF negative THEN <<"-">>
          ELSE SelectSeq(<<"+", " ">>, LAMBDA ch : ch \in c.flags),
          IF "#" \in c.flags /\ value # 0 /\ b.x # NUL THEN <<"0", b.x>> ELSE <<>>,
          DigitText(Digits(value, b, "'" \in c.flags, 0), b, c), c)

\* The first `length` characters in a field of c.width.
format_string(string, length, c) ==
  LET pad == output_dup(" ", c.width - length)
      text == SubSeq(string, 1, length)
  IN  IF "-" \in c.flags THEN text \o pad ELSE pad \o text

\* One conversion of __vprintf.  The notice for an unsupported conversion is
\* kept as a mark and the conversion's character; it consumes no argument.
Convert(conv, c, args) ==
  CASE conv \in {"d", "i"} ->
         LET v == Signed(args[1], c.type)
         IN  format_integer(IF v < 0 THEN -v ELSE v, TRUE, v < 0, base_d, c)
    [] conv \in {"o", "u", "x", "X"} ->
         format_integer(Unsigned(args[1], c.type), FALSE, FALSE,
                        [o |-> base_o, u |-> base_d, x |-> base_x, X |-> base_X][conv], c)
    [] conv = "c" -> format_string(<<args[1]>>, 1, c)
    [] conv = "s" -> LET n == Len(args[1])
                     IN  format_string(args[1], IF c.precision < 0 THEN n ELSE Least(n, c.precision), c)
    [] conv = "p" -> format_integer(Unsigned(args[1], "l"), FALSE, FALSE, base_x,
                                    [c EXCEPT !.flags = {"#"}])
    [] OTHER -> <<"<<no>>", conv>>

RECURSIVE VprintfFrom(_, _, _)
ConvertFrom(f, c, conv) ==
  Convert(conv, c, c.args)
  \o VprintfFrom(f, c.i + 1, IF conv \in {"d", "i", "o", "u", "x", "X", "c", "s", "p"}
                             THEN Tail(c.args) ELSE c.args)
ConversionAt(f, c) == ConvertFrom(f, c, f[c.i])
VprintfFrom(f, i, args) ==
  IF f[i] = NUL THEN <<>>
  ELSE IF f[i] # "%" THEN <<f[i]>> \o VprintfFrom(f, i + 1, args)
  ELSE IF f[i + 1] = "%" THEN <<"%">> \o VprintfFrom(f, i + 2, args)
  ELSE ConversionAt(f, parse_conversion(f, i + 1, args))
__vprintf(f, args) == VprintfFrom(f, 1, args)

\* What a bounded buffer holds afterwards, and the length returned.
vsnprintf(f, args, buf_size) ==
  LET helper(aux, ch) ==
        [p |-> IF aux.length < aux.max_length THEN Append(aux.p, ch) ELSE aux.p,
         length |-> aux.length + 1, max_length |-> aux.max_length]
      aux == FoldLeft(helper, [p |-> <<>>, length |-> 0,
                               max_length |-> IF buf_size > 0 THEN buf_size - 1 ELSE 0],
                      __vprintf(f, args))
  IN  [buffer |-> IF buf_size > 0 THEN Append(aux.p, NUL) ELSE <<>>, length |-> aux.length]

\* The lines hex_dump prints: an address rounded down to a full line, then the
\* bytes in their columns, blank before the first byte.
RECURSIVE hex_dump(_, _, _)
hex_dump(ofs, buf, per_line) ==
  IF buf = <<>> THEN <<>>
  ELSE LET start == ofs % per_line
           end == IF per_line - start > Len(buf) THEN start + Len(buf) ELSE per_line
           n == end - start
       IN  <<[addr |-> ofs - start, cells |-> output_dup(NUL, start) \o SubSeq(buf, 1, n)]>>
           \o hex_dump(ofs + n, SubSeq(buf, n + 1, Len(buf)), per_line)

\* The number and the unit (an index of factors[], 0 for "1 byte") printed.
RECURSIVE Scaled(_, _, _, _)
Scaled(size, k, unit, units) ==
  IF size >= k /\ unit < units THEN Scaled(size \div k, k, unit + 1, units) ELSE <<size, unit>>
print_human_readable_size(size, k, units) ==
  IF size = 1 THEN <<1, 0>> ELSE Scaled(size, k, 1, units)

-----------------------------------------------------------------------------
(* What the outputs should be                                                *)

\* The integer a rendered field denotes: blanks and group commas dropped, then a
\* sign, a prefix, and digits.
Denotes(base, field) ==
  LET body == SelectSeq(field, LAMBDA ch : ch \notin {" ", ",", "+"})
      neg == body # <<>> /\ Head(body) = "-"
      abs == IF neg THEN Tail(body) ELSE body
      num == IF Len(abs) > 1 /\ abs[2] \in {"x", "X"} THEN SubSeq(abs, 3, Len(abs)) ELSE abs
  IN  IF neg THEN -Number(base, num) ELSE Number(base, num)

\* An integer conversion shows the value its type holds, is at least as wide as
\* asked, is padded on one side only and only up to the width.
FieldOk(flags, width, precision, signed, base, value, out, tight) ==
  /\ Denotes(base, out) = value
  /\ Len(out) >= width
  /\ Len(tight) >= Least(precision, BufSize - 1)
  /\ Len(out) > width => Len(out) - Len(tight) =< IF signed /\ " " \in flags THEN 1 ELSE 0
  /\ "-" \in flags /\ out # <<>> => out[1] # " " \/ (signed /\ " " \in flags) \/ tight = <<>>
  /\ "-" \notin flags /\ out # <<>> => Last(out) # " " \/ tight = <<>>
  /\ signed /\ "+" \in flags => Head(tight) \in {"+", "-"}
IntegerOk(flags, width, precision, type, conv, v) ==
  LET Text(n) == [k \in 1 .. (IF n < 10 THEN 1 ELSE 2) |->
                    DigitChars[(IF n < 10 THEN n ELSE IF k = 1 THEN n \div 10 ELSE n % 10) + 1]]
      f == <<"%">> \o SelectSeq(<<"-", "+", " ", "#", "0", "'">>, LAMBDA ch : ch \in flags)
           \o (IF width = 0 THEN <<>> ELSE Text(width))
           \o (IF precision < 0 THEN <<>> ELSE <<".">> \o Text(precision))
           \o type \o <<conv, NUL>>
      modifier == CASE type = <<>> -> "" [] Len(type) = 1 -> type[1]
                    [] type = <<"h", "h">> -> "hh" [] OTHER -> "ll"
      signed == conv = "d"
      Check(out) ==
        FieldOk(flags, width, precision, signed,
                CASE conv = "o" -> 8 [] conv \in {"x", "X"} -> 16 [] OTHER -> 10,
                IF signed THEN Signed(v, modifier) ELSE Unsigned(v, modifier),
                out, SelectSeq(out, LAMBDA ch : ch # " "))
  IN  Check(__vprintf(f, <<v>>))

\* A buffer of any size holds a prefix of the output and its final NUL, never
\* more, and the length returned is that of the whole output.
SnprintfOk(f, args, buf_size) ==
  LET Check(r, whole) ==
        /\ Len(r.buffer) =< buf_size
        /\ r.length = Len(whole)
        /\ buf_size > 0 => /\ Last(r.buffer) = NUL
                           /\ IsPrefix(Front(r.buffer), whole)
                           /\ r.length < buf_size => Front(r.buffer) = whole
  IN  Check(vsnprintf(f, args, buf_size), __vprintf(f, args))

\* Every byte is printed once, in the line and the column of its address.
HexDumpOk(ofs, buf, per_line) ==
  LET lines == hex_dump(ofs, buf, per_line)
  IN  /\ \A k \in 1 .. Len(buf) :
           LET a == ofs + k - 1
               line == lines[(a \div per_line) - (ofs \div per_line) + 1]
           IN  line.addr = (a \div per_line) * per_line /\ line.cells[(a % per_line) + 1] = buf[k]
      /\ Len(FlattenSeq([l \in DOMAIN lines |-> SelectSeq(lines[l].cells, LAMBDA ch : ch # NUL)]))
           = Len(buf)

\* The number printed is below k unless no larger unit is left, and is the size
\* rounded down to the unit.
HumanSizeOk(size, k, units) ==
  LET r == print_human_readable_size(size, k, units)
      unit == IF r[2] = 0 THEN 1 ELSE k ^ (r[2] - 1)
  IN  /\ r[1] * unit =< size /\ size < (r[1] + 1) * unit
      /\ r[1] < k \/ r[2] = units
=============================================================================
