-------------------------------- MODULE Tar --------------------------------
(* Pintos's lib/ustar.c and the copying commands of filesys/fsutil.c.  A      *)
(* header is a record of its fields, each a sequence of bytes; the fields     *)
(* whose content never changes are one field, `rest`.  A sector is a header,  *)
(* a sequence of file bytes, or ZeroSector; the file system is a function     *)
(* from names to contents.                                                    *)
EXTENDS Integers, Sequences, SequencesExt, FiniteSetsExt

CONSTANTS NameSize,     \* sizeof name (100)
          SizeSize,     \* sizeof size (12)
          ChksumSize,   \* sizeof chksum (8)
          MaxValue,     \* ULONG_MAX
          IntMax,       \* INT_MAX
          SectorSize,   \* BLOCK_SECTOR_SIZE
          ZeroSector, TornSector

NUL == 0
Space == 32
Dot == 46
Slash == 47
Zero == 48
USTAR_REGULAR == 48
USTAR_DIRECTORY == 53
Magic == <<117, 115, 116, 97, 114, NUL, Zero, Zero>>    \* "ustar" and version "00"

-----------------------------------------------------------------------------
(* ustar.c                                                                   *)

Sum(bytes) == FoldLeft(LAMBDA n, b : n + b, 0, bytes)
calculate_chksum(h) ==
  Sum(h.name \o h.size \o <<h.typeflag>> \o h.magic \o h.prefix \o h.rest) + ChksumSize * Space

\* A name without its leading "/", "./" and "../" parts.
RECURSIVE strip_antisocial_prefixes(_)
strip_antisocial_prefixes(name) ==
  IF \E p \in {<<Slash>>, <<Dot, Slash>>, <<Dot, Dot, Slash>>} : IsPrefix(p, name)
  THEN strip_antisocial_prefixes(
         SubSeq(name, SelectInSeq(name, LAMBDA b : b = Slash) + 1, Len(name)))
  ELSE IF name \in {<<>>, <<Dot, Dot>>} THEN <<Dot>> ELSE name

\* snprintf (field, size, "%0*o", size - 1, value): octal digits, the excess cut
\* off at the end, and a null byte.
Octal(value, size) ==
  LET digits(n) == [k \in 1 .. n |-> Zero + ((value \div 8 ^ (n - k)) % 8)]
      n == CHOOSE m \in (size - 1) .. 32 : value < 8 ^ m /\ \A l \in (size - 1) .. m - 1 : value >= 8 ^ l
  IN  Append(SubSeq(digits(n), 1, size - 1), NUL)

Padded(s, size) == s \o [k \in 1 .. size - Len(s) |-> NUL]

\* The header of a file, or <<>> when its name is too long.
ustar_make_header(file_name, type, size) ==
  LET name == strip_antisocial_prefixes(file_name)
      h == [name |-> Padded(name, NameSize), size |-> Octal(size, SizeSize), typeflag |-> type,
            magic |-> Magic, prefix |-> <<NUL>>, rest |-> Octal(420, SizeSize),
            chksum |-> [k \in 1 .. ChksumSize |-> NUL]]
  IN  IF Len(name) > NameSize - 1 THEN <<>>
      ELSE <<[h EXCEPT !.chksum = Octal(calculate_chksum(h), ChksumSize)]>>

\* The value of an octal field, or -1: digits up to a space or a null byte that
\* must come after the first and within the field.
parse_octal_field(s) ==
  LET end == SelectInSeq(s, LAMBDA c : c \notin Zero .. Zero + 7)
      step(v, c) == IF v < 0 \/ v > MaxValue \div 8 THEN -1 ELSE c - Zero + v * 8
  IN  IF end > 1 /\ s[end] \in {Space, NUL} THEN FoldLeft(step, 0, SubSeq(s, 1, end - 1)) ELSE -1

CString(s) == SubSeq(s, 1, SelectInSeq(Append(s, NUL), LAMBDA c : c = NUL) - 1)

\* The order of the tests is the order of the error messages; "error" stands for
\* each of them.
Error == [error |-> TRUE]
ustar_parse_header(h) ==
  IF h = ZeroSector THEN [error |-> FALSE, eof |-> TRUE]
  ELSE IF \/ h = TornSector
          \/ h.magic # Magic
          \/ parse_octal_field(h.chksum) # calculate_chksum(h)
          \/ Last(h.name) # NUL \/ h.prefix[1] # NUL
          \/ h.typeflag \notin {USTAR_REGULAR, USTAR_DIRECTORY}
          \/ /\ h.typeflag = USTAR_REGULAR
             /\ parse_octal_field(h.size) \notin 0 .. IntMax
  THEN Error
  ELSE [error |-> FALSE, eof |-> FALSE, type |-> h.typeflag,
        name |-> strip_antisocial_prefixes(CString(h.name)),
        size |-> IF h.typeflag = USTAR_REGULAR THEN parse_octal_field(h.size) ELSE 0]

-----------------------------------------------------------------------------
(* fsutil.c                                                                  *)

Chunk(size) == IF size > SectorSize THEN SectorSize ELSE size
Sectors(size) == (size + SectorSize - 1) \div SectorSize
DataSector(bytes, k) ==
  Padded(SubSeq(bytes, (k - 1) * SectorSize + 1,
                (k - 1) * SectorSize + Chunk(Len(bytes) - (k - 1) * SectorSize)), SectorSize)

\* fsutil_append: the header, the data and the end marker from `sector` on.  Both
\* writes of the marker go to the same sector, and the second one starts one byte
\* into the buffer: its last byte is whatever follows the buffer in memory.
\* `after` is that byte.  The result is the device and the next sector, or
\* <<>> where a PANIC stops the kernel.
fsutil_append(dev, sector, file_name, bytes, after) ==
  LET header == ustar_make_header(file_name, USTAR_REGULAR, Len(bytes))
      data == [k \in 1 .. Sectors(Len(bytes)) |-> DataSector(bytes, k)]
      next == sector + 1 + Len(data)
      marker == IF after = 0 THEN ZeroSector ELSE TornSector
      written == header \o data \o <<marker>>
  IN  IF header = <<>> \/ next >= Len(dev) THEN <<>>
      ELSE <<[dev |-> [s \in DOMAIN dev |-> IF s \in sector + 1 .. next + 1 THEN written[s - sector] ELSE dev[s]],
              sector |-> next]>>

\* fsutil_extract from `sector` on: regular files are created and filled,
\* directories are skipped, a bad header or a name in use is a PANIC.  At the
\* end marker the first two sectors are erased.
RECURSIVE fsutil_extract(_, _, _)
ExtractEntry(dev, sector, fs, h) ==
  LET bytes == FlattenSeq(SubSeq(dev, sector + 2, sector + 1 + Sectors(h.size)))
  IN  CASE h.error -> [dev |-> dev, fs |-> fs, panic |-> TRUE]
        [] ~h.error /\ h.eof ->
             [dev |-> [dev EXCEPT ![1] = ZeroSector, ![2] = ZeroSector], fs |-> fs, panic |-> FALSE]
        [] OTHER ->
             IF h.type = USTAR_DIRECTORY THEN fsutil_extract(dev, sector + 1, fs)
             ELSE IF h.name \in DOMAIN fs THEN [dev |-> dev, fs |-> fs, panic |-> TRUE]
             ELSE fsutil_extract(dev, sector + 1 + Sectors(h.size),
                                 [f \in DOMAIN fs \cup {h.name} |->
                                    IF f = h.name THEN SubSeq(bytes, 1, h.size) ELSE fs[f]])
fsutil_extract(dev, sector, fs) ==
  IF sector >= Len(dev) THEN [dev |-> dev, fs |-> fs, panic |-> TRUE]
  ELSE ExtractEntry(dev, sector, fs, ustar_parse_header(dev[sector + 1]))

-----------------------------------------------------------------------------
(* What they should do                                                       *)

\* A stripped name has none of the prefixes, is not empty, names a suffix of the
\* original or ".", and stripping it again changes nothing.
StripOk(name) ==
  LET s == strip_antisocial_prefixes(name)
  IN  /\ s # <<>> /\ s[1] # Slash /\ ~IsPrefix(<<Dot, Slash>>, s) /\ ~IsPrefix(<<Dot, Dot, Slash>>, s)
      /\ s # <<Dot, Dot>>
      /\ s = <<Dot>> \/ IsSuffix(s, name)
      /\ strip_antisocial_prefixes(s) = s

\* A header reads back as the file it was made for, as long as the size fits its
\* field; and no header with one changed byte reads back as another file.
HeaderOk(name, size) ==
  LET Check(h, read) ==
        /\ read = [error |-> FALSE, eof |-> FALSE, type |-> USTAR_REGULAR,
                   name |-> strip_antisocial_prefixes(name), size |-> size]
        /\ \A field \in {"name", "size", "chksum", "magic", "prefix", "rest"} :
             \A k \in DOMAIN h[field] : \A b \in {NUL, Space, Dot, Zero, Zero + 1, 97} :
               ustar_parse_header([h EXCEPT ![field][k] = b]) \in {Error, read}
      Fits(made) == /\ made # <<>> => Len(strip_antisocial_prefixes(name)) < NameSize
                    /\ made # <<>> /\ size < 8 ^ (SizeSize - 1) /\ size =< IntMax
                         => Check(made[1], ustar_parse_header(made[1]))
  IN  Fits(ustar_make_header(name, USTAR_REGULAR, size))

\* Files appended one after another come back with the same bytes: whatever the
\* byte after the buffer was, extraction reaches every file before the marker; a
\* sound marker ends it, and extracting again after a restart extracts nothing.
ArchiveOk(dev, name1, bytes1, name2, bytes2, after) ==
  LET Check(got, n1, n2) ==
        n1 # n2 =>
          /\ got.fs = [f \in {n1, n2} |-> IF f = n1 THEN bytes1 ELSE bytes2]
          /\ got.panic <=> after # 0
          /\ ~got.panic => fsutil_extract(got.dev, 0, got.fs) = got
      Extracted(two) ==
        two # <<>> => Check(fsutil_extract(two[1].dev, 0, [f \in {} |-> f]),
                            strip_antisocial_prefixes(name1), strip_antisocial_prefixes(name2))
      Second(one) ==
        one # <<>> => Extracted(fsutil_append(one[1].dev, one[1].sector, name2, bytes2, after))
  IN  Second(fsutil_append(dev, 0, name1, bytes1, after))
=============================================================================
