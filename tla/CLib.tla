------------------------------- MODULE CLib -------------------------------
(* Pintos's C library: string.c, stdlib.c and arithmetic.c as operators, and  *)
(* what each of them should compute.  Bytes are numbers, 0 ends a string.     *)
(* A string in memory is a sequence with its final 0; S(s) is what precedes   *)
(* it.  Addresses are positions of a sequence; NULL is 0.                     *)
EXTENDS Integers, Sequences, SequencesExt

S(s) == SubSeq(s, 1, SelectInSeq(s, LAMBDA c : c = 0) - 1)

-----------------------------------------------------------------------------
(* string.c                                                                 *)

\* The first position from i on at which Test holds of the byte; the loops of
\* string.c end there.
Scan(s, i, Test(_)) == SelectInSubSeq(s, i, Len(s), Test)

strlen(s) == Scan(s, 1, LAMBDA c : c = 0) - 1
strnlen(s, maxlen) == IF strlen(s) < maxlen THEN strlen(s) ELSE maxlen

\* memcpy and memset write `size` bytes from position dst on.
memcpy(mem, dst, src, size) ==
  [i \in DOMAIN mem |-> IF i \in dst .. dst + size - 1 THEN src[i - dst + 1] ELSE mem[i]]
memset(mem, dst, value, size) ==
  [i \in DOMAIN mem |-> IF i \in dst .. dst + size - 1 THEN value ELSE mem[i]]


\* Within one memory: upwards when dst is below src, downwards otherwise.
memmove(mem, dst, src, size) ==
  FoldLeft(LAMBDA m, k : [m EXCEPT ![dst + k - 1] = m[src + k - 1]], mem,
           [k \in 1 .. size |-> IF dst < src THEN k ELSE size + 1 - k])

memchr(s, c, size) == SelectInSeq(SubSeq(s, 1, size), LAMBDA b : b = c)

memcmp(a, b, size) ==
  LET i == SelectInSeq([k \in 1 .. size |-> (a[k] # b[k])], LAMBDA differs : differs)
  IN  IF i = 0 THEN 0 ELSE IF a[i] > b[i] THEN 1 ELSE -1

RECURSIVE StrcmpFrom(_, _, _)
StrcmpFrom(a, b, i) ==
  IF a[i] # 0 /\ a[i] = b[i] THEN StrcmpFrom(a, b, i + 1)
  ELSE IF a[i] < b[i] THEN -1 ELSE IF a[i] > b[i] THEN 1 ELSE 0
strcmp(a, b) == StrcmpFrom(a, b, 1)

\* The position of c, which may be the final 0.
strchr(s, c) == LET i == Scan(s, 1, LAMBDA b : b \in {c, 0}) IN IF s[i] = c THEN i ELSE 0
strrchr(s, c) == LET n == strlen(s) IN SelectLastInSubSeq(s, 1, n, LAMBDA b : b = c)
strcspn(s, stop) == Scan(s, 1, LAMBDA c : c = 0 \/ strchr(stop, c) # 0) - 1
strspn(s, skip) == Scan(s, 1, LAMBDA c : c = 0 \/ strchr(skip, c) = 0) - 1
strpbrk(s, stop) == LET i == strcspn(s, stop) + 1 IN IF s[i] = 0 THEN 0 ELSE i

strstr(haystack, needle) ==
  LET h == strlen(haystack)
      n == strlen(needle)
      At(i) == memcmp(SubSeq(haystack, i + 1, i + n), needle, n) = 0
  IN  IF h < n THEN 0 ELSE SelectInSeq([i \in 1 .. h - n + 1 |-> At(i - 1)], LAMBDA m : m)

\* strtok_r from position p of s: [s, token, save_ptr]; token 0 is NULL.
strtok_r(s, delimiters, p) ==
  LET from == Scan(s, p, LAMBDA c : c = 0 \/ strchr(delimiters, c) = 0)
      end == Scan(s, from, LAMBDA c : strchr(delimiters, c) # 0)
  IN  IF s[from] = 0 THEN [s |-> s, token |-> 0, save_ptr |-> from]
      ELSE IF s[end] # 0
      THEN [s |-> [s EXCEPT ![end] = 0], token |-> from, save_ptr |-> end + 1]
      ELSE [s |-> s, token |-> from, save_ptr |-> end]

\* All tokens of s, by calls until one returns NULL.
RECURSIVE Tokens(_, _, _)
Tokens(s, delimiters, p) ==
  LET call == strtok_r(s, delimiters, p)
      rest == SubSeq(call.s, call.token, Len(s))
  IN  IF call.token = 0 THEN <<>>
      ELSE <<S(rest)>> \o Tokens(call.s, delimiters, call.save_ptr)

strlcpy(dst, src, size) ==
  LET n == IF strlen(src) < size - 1 THEN strlen(src) ELSE size - 1
  IN  [dst |-> IF size > 0 THEN memset(memcpy(dst, 1, src, n), n + 1, 0, 1) ELSE dst,
       ret |-> strlen(src)]

strlcat(dst, src, size) ==
  LET d == strlen(dst)
      room == size - d - 1
      n == IF strlen(src) < room THEN strlen(src) ELSE room
  IN  [dst |-> IF size > 0 /\ d < size
               THEN memset(memcpy(dst, d + 1, src, n), d + n + 1, 0, 1) ELSE dst,
       ret |-> strlen(src) + d]

-----------------------------------------------------------------------------
(* stdlib.c                                                                 *)

IsSpace(c) == c \in {9, 10, 11, 12, 13, 32}
IsDigit(c) == c \in 48 .. 57

\* The value is computed as a negative number and negated at the end, so that
\* the least int can be read.
atoi(s) ==
  LET sign == Scan(s, 1, LAMBDA c : ~IsSpace(c))
      from == IF s[sign] \in {43, 45} THEN sign + 1 ELSE sign
      end == Scan(s, from, LAMBDA c : ~IsDigit(c))
      value == FoldLeft(LAMBDA v, c : v * 10 - (c - 48), 0, SubSeq(s, from, end - 1))
  IN  IF s[sign] = 45 THEN value ELSE -value

do_swap(array, a, b) == [array EXCEPT ![a] = array[b], ![b] = array[a]]

\* Element i floats down the heap in the first cnt elements.
RECURSIVE heapify(_, _, _)
heapify(array, i, cnt) ==
  LET max1 == IF 2 * i <= cnt /\ array[2 * i] > array[i] THEN 2 * i ELSE i
      max == IF 2 * i + 1 <= cnt /\ array[2 * i + 1] > array[max1] THEN 2 * i + 1 ELSE max1
  IN  IF max = i THEN array ELSE heapify(do_swap(array, i, max), max, cnt)

Down(n) == [k \in 1 .. n |-> n + 1 - k]
sort(array) ==
  LET cnt == Len(array)
      heap == FoldLeft(LAMBDA a, i : heapify(a, i, cnt), array, Down(cnt \div 2))
  IN  FoldLeft(LAMBDA a, i : IF i = 1 THEN a ELSE heapify(do_swap(a, 1, i), 1, i - 1),
               heap, Down(cnt))

\* The position of the key among the elements first up to last (exclusive).
RECURSIVE SearchIn(_, _, _, _)
SearchIn(key, array, first, last) ==
  LET middle == first + (last - first) \div 2
  IN  IF first >= last THEN 0
      ELSE IF key < array[middle] THEN SearchIn(key, array, first, middle)
      ELSE IF key > array[middle] THEN SearchIn(key, array, middle + 1, last)
      ELSE middle
binary_search(key, array) == SearchIn(key, array, 1, Len(array) + 1)

-----------------------------------------------------------------------------
(* arithmetic.c, with words of B bits instead of 32 and of 2 * B instead of   *)
(* 64.  Trap stands for a divide error.                                       *)

CONSTANT B
Trap == -1
W1 == 2 ^ B
W2 == 2 ^ (2 * B)

divl(n, d) == IF d = 0 \/ n \div d >= W1 THEN Trap ELSE n \div d

\* Leading zeros are counted by halving: B / 2, B / 4, ... 1 at a time.
nlz(x) ==
  LET Halves == SelectSeq([k \in 1 .. B |-> B \div (2 ^ k)], LAMBDA h : h > 0)
      Step(a, h) == IF a.x < 2 ^ (B - h) THEN [n |-> a.n + h, x |-> (a.x * 2 ^ h) % W1] ELSE a
  IN  FoldLeft(Step, [n |-> 0, x |-> x], Halves).n

udiv64(n, d) ==
  IF d < W1
  THEN LET n1 == n \div W1
           n0 == n % W1
           q == divl(W1 * (n1 % d) + n0, d)
       IN  IF q = Trap THEN Trap ELSE q + W1 * (n1 \div d)
  ELSE IF n < d THEN 0
  ELSE LET s == nlz(d \div W1)
           d1 == ((d * 2 ^ s) % W2) \div W1
           q0 == divl(n \div 2, d1)
           q == q0 \div (2 ^ (B - 1 - s))
       IN  IF q0 = Trap THEN Trap
           ELSE IF (n - (q - 1) * d) % W2 < d THEN q - 1 ELSE q

\* umod64 is declared to return a uint32_t, whatever the size of d.
umod64(n, d) == ((n - d * udiv64(n, d)) % W2) % W1

Signed(x, w) == IF x % w >= w \div 2 THEN (x % w) - w ELSE x % w
Abs(x) == IF x < 0 THEN -x ELSE x

sdiv64(n, d) ==
  LET q == udiv64(Abs(n), Abs(d))
  IN  IF (n < 0) = (d < 0) THEN Signed(q, W2) ELSE Signed(-Signed(q, W2), W2)
smod64(n, d) == Signed(n - d * sdiv64(n, d), W1)

-----------------------------------------------------------------------------
(* What they should compute.                                                *)

\* Copies between overlapping ranges read the bytes as they were.
MoveOk(mem, dst, src, size) ==
  memmove(mem, dst, src, size) =
    [i \in DOMAIN mem |-> IF i \in dst .. dst + size - 1 THEN mem[src + (i - dst)] ELSE mem[i]]

\* strlcpy and strlcat leave a string that is as much as `size` allows, write
\* nothing after it in dst, and return the length they would have needed.
CopyOk(dst, src, size) ==
  LET copy == strlcpy(dst, src, size)
      cat == strlcat(dst, src, size)
      whole == S(dst) \o S(src)
      Fit(s) == IF Len(s) < size THEN s ELSE SubSeq(s, 1, size - 1)
      Untouched(d) == \A i \in DOMAIN d : i > size => d[i] = dst[i]
  IN  /\ copy.ret = Len(S(src)) /\ Untouched(copy.dst)
      /\ size > 0 => S(copy.dst) = Fit(S(src))
      /\ cat.ret = Len(whole) /\ Untouched(cat.dst)
      /\ Len(S(dst)) < size => S(cat.dst) = Fit(whole)
      /\ Len(S(dst)) >= size => cat.dst = dst

\* Searches find the first position there is, tokens are the maximal runs of
\* bytes that are no delimiters.
Tail_(s, i) == SubSeq(s, i, Len(s))
SearchOk(s, t) ==
  LET first(P(_)) == IF \E i \in DOMAIN S(s) : P(i)
                     THEN CHOOSE i \in DOMAIN S(s) : P(i) /\ \A j \in 1 .. i - 1 : ~P(j) ELSE 0
      In(i) == s[i] \in ToSet(S(t))
      runs == {<<i, j>> \in (DOMAIN S(s)) \X (DOMAIN S(s)) :
                 /\ i <= j /\ \A k \in i .. j : ~In(k)
                 /\ i = 1 \/ In(i - 1)
                 /\ j = Len(S(s)) \/ In(j + 1)}
      order == SetToSortSeq(runs, LAMBDA a, b : a[1] < b[1])
      Lex == \/ S(s) = S(t) /\ strcmp(s, t) = 0
             \/ /\ S(s) # S(t)
                /\ LET i == CHOOSE k \in DOMAIN s : s[k] # t[k] /\ SubSeq(s, 1, k - 1) = SubSeq(t, 1, k - 1)
                   IN  strcmp(s, t) = IF s[i] < t[i] THEN -1 ELSE 1
  IN  /\ Lex
      /\ strstr(s, t) = IF S(t) = <<>> THEN 1 ELSE first(LAMBDA i : IsPrefix(S(t), Tail_(S(s), i)))
      /\ strpbrk(s, t) = first(In)
      /\ strspn(s, t) = IF first(LAMBDA i : ~In(i)) = 0 THEN Len(S(s)) ELSE first(LAMBDA i : ~In(i)) - 1
      /\ strrchr(s, t[1]) = IF t[1] \in ToSet(S(s)) THEN CHOOSE i \in DOMAIN S(s) :
                               s[i] = t[1] /\ t[1] \notin ToSet(Tail_(S(s), i + 1)) ELSE 0
      /\ memchr(s, t[1], Len(s)) = strchr(s, t[1])
      /\ Tokens(s, t, 1) = [n \in DOMAIN order |-> SubSeq(s, order[n][1], order[n][2])]

\* Heap sort sorts, and a binary search in the result finds what there is.
SortOk(array) ==
  LET s == sort(array)
  IN  /\ \A i \in 1 .. Len(s) - 1 : s[i] <= s[i + 1]
      /\ \A x \in 0 .. 4 : Len(SelectSeq(s, LAMBDA y : y = x)) = Len(SelectSeq(array, LAMBDA y : y = x))
      /\ \A x \in 0 .. 4 : LET i == binary_search(x, s)
                           IN  IF x \in ToSet(array) THEN i # 0 /\ s[i] = x ELSE i = 0

\* Division never traps and gives the quotient; a remainder comes out modulo
\* the size of the type that umod64 returns.  The least negative number
\* divided by -1 is left out: its quotient has no representation.
DivOk(n, d) ==
  /\ udiv64(n, d) = n \div d
  /\ umod64(n, d) = (n % d) % W1
  /\ LET a == Signed(n, W2)
         b == Signed(d, W2)
         q == sdiv64(a, b)
         r == a - b * q
     IN  \/ a = -(W2 \div 2) /\ b = -1
         \/ /\ Abs(r) < Abs(b) /\ (r # 0 => (r < 0) = (a < 0))
            /\ smod64(a, b) = Signed(r, W1)

\* atoi reads the number that the leading spaces, sign and digits denote.
AtoiOk(spaces, sign, digits, rest) ==
  LET text == [i \in 1 .. spaces |-> 32] \o sign \o [i \in DOMAIN digits |-> digits[i] + 48]
              \o rest \o <<0>>
      n == FoldLeft(LAMBDA v, x : 10 * v + x, 0, digits)
  IN  atoi(text) = IF sign = <<45>> THEN -n ELSE n
=============================================================================
