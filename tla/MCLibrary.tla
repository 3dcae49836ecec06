------------------------------ MODULE MCLibrary ------------------------------
(* The pure functions, for TLC: a behaviour is one call, `job`, and Matches   *)
(* says that the result is what it should be.                                 *)
EXTENDS Integers, Sequences

CONSTANTS ZeroSector, TornSector

VARIABLE job

Widths == [type \in {"", "hh", "h", "l", "ll", "j", "t", "z"} |->
             CASE type = "hh" -> 4 [] type = "h" -> 5 [] type \in {"ll", "j"} -> 9 [] OTHER -> 7]

L == INSTANCE CLib WITH B <- 4
F == INSTANCE Printf WITH Bits <- Widths, BufSize <- 8
A == INSTANCE Tar WITH NameSize <- 4, SizeSize <- 4, ChksumSize <- 6, MaxValue <- 65535,
                       IntMax <- 600, SectorSize <- 2

Strings(n, chars) == UNION {[1 .. k -> chars] : k \in 0 .. n}
CString(s) == s \o <<0>>

\* The calls of each kind.
Calls ==
  [move |-> (1 .. 5) \X (1 .. 5),
   copy |-> Strings(3, {1, 2}) \X Strings(2, {1, 2}),
   search |-> Strings(5, {1, 2}) \X Strings(2, {1, 2}),
   sort |-> Strings(5, 1 .. 3) \X {0},
   div |-> (0 .. 255) \X {0},
   atoi |-> (0 .. 1) \X {<<>>, <<43>>, <<45>>},
   integer |-> (SUBSET F!FlagChars) \X ({"d", "u", "o", "x"} \X {<<>>, <<"h", "h">>, <<"l", "l">>}),
   print |-> (0 .. 14) \X (-1 .. 3),
   dump |-> (0 .. 9) \X (0 .. 5),
   size |-> (0 .. 300) \X {0},
   name |-> Strings(5, {A!Dot, A!Slash, 97}) \X {0},
   header |-> (Strings(2, {A!Dot, A!Slash, 97}) \cup {<<97, 97, 97>>, <<97, 97, 97, 97>>})
                \X {0, 8, 63, 511, 512},
   archive |-> (3 .. 8) \X (0 .. 5)]

Init == job \in {<<kind>> : kind \in DOMAIN Calls}

Call == /\ Len(job) = 1
        /\ \E args \in Calls[job[1]] : job' = job \o args
Return == Len(job) = 3 /\ UNCHANGED job

Next == Call \/ Return

Format == <<"a", "%", "*", ".", "*", "s", "%", "%", "%", "-", "3", "c", "%", "p", "%", "f", "%", "n",
            "%", "h", "k", "">>

\* memmove and the copying and searching functions, sort and binary_search,
\* 64-bit division and atoi; printf's conversions, a truncated snprintf,
\* hex_dump; a file name, a header and a whole archive: each agrees with its
\* definition.
Matches ==
  LET x == job[2]
      y == job[3]
      Bigger == IF x < y THEN y ELSE x
  IN  Len(job) = 3 =>
      CASE job[1] = "move" -> \A n \in 0 .. 6 - Bigger : L!MoveOk(<<1, 2, 3, 4, 5, 6>>, x, y, n)
        [] job[1] = "copy" -> \A n \in 0 .. 5 :
             L!CopyOk(CString(x) \o [i \in 1 .. 6 - Len(x) |-> 7], CString(y), n)
        [] job[1] = "search" -> L!SearchOk(CString(x), CString(y))
        [] job[1] = "sort" -> L!SortOk(x)
        [] job[1] = "div" -> \A d \in (1 .. 9) \cup {15, 16, 127, 128, 129, 254, 255} : L!DivOk(x, d)
        [] job[1] = "atoi" -> \A digits \in Strings(3, {0, 1, 9}), rest \in {<<>>, <<65>>} :
             L!AtoiOk(x, y, digits, rest)
        [] job[1] = "integer" ->
             \A width \in {0, 7}, precision \in {-1, 0, 4, 9}, v \in {-33, 0, 260} :
               F!IntegerOk(x, width, precision, y[2], y[1], v)
        [] job[1] = "print" -> \A width \in -4 .. 4 :
             F!SnprintfOk(Format, <<width, y, <<"u", "v", "w">>, "q", 0>>, x)
        [] job[1] = "dump" -> F!HexDumpOk(y, [i \in 1 .. x |-> F!DigitChars[i]], 4)
        [] job[1] = "size" -> F!HumanSizeOk(x, 4, 5)
        [] job[1] = "name" -> A!StripOk(x)
        [] job[1] = "header" -> A!HeaderOk(x, y)
        [] job[1] = "archive" ->
             \A b \in 0 .. 5, n1 \in {<<97>>, <<46, 47, 97>>}, n2 \in {<<97>>, <<98>>}, after \in 0 .. 1 :
               A!ArchiveOk([i \in 1 .. x |-> ZeroSector], n1, [i \in 1 .. y |-> i],
                           n2, [i \in 1 .. b |-> 10 + i], after)
=============================================================================
