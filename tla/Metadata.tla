------------------------------ MODULE Metadata ------------------------------
(* The image-metadata extractor: main.c, png.c and jpg.c.  One step analyses  *)
(* one file of the command line; the file-scope variables of png.c and jpg.c  *)
(* live on from one file to the next.                                         *)
(*                                                                            *)
(* A PNG file is a sequence of chunks [type, data, crc, whole]: `crc` tells   *)
(* whether the checksum agrees, `whole` whether the file holds all of the     *)
(* chunk, and `data` is a sequence over 0 and 1, 0 the null byte.  A JPEG     *)
(* file is a sequence of segments.  An Exif segment holds a TIFF structure    *)
(* [len, header, offset, ifd]: ifd maps an offset to the entries of the       *)
(* directory there.  An entry [tag, type, count, value, good] has `good` when *)
(* its text ends, or starts, as the printing functions require.               *)
EXTENDS Integers, Sequences, SequencesExt

CONSTANTS Files,       \* the files a command line may name
          MaxFiles,    \* the number of arguments
          AsciiTags    \* the tags printed from a type 2 value

VARIABLES statics,     \* png.c: valid; jpg.c: valid, exif_offset, exif_found
          reports      \* per file: what was printed and returned
vars == <<statics, reports>>

Init == /\ statics = [png_valid |-> 1, jpg_valid |-> 1, exif_offset |-> 0, exif_found |-> 0]
        /\ reports = <<>>

Result(s, out, rv) == [statics |-> s, out |-> out, rv |-> rv]

-----------------------------------------------------------------------------
(* png.c                                                                     *)


\* Whether the keyword ends with a null byte, so that a line is printed; without
\* one `valid` is cleared.
handle_text_chunk(data) == SelectInSeq(data, LAMBDA b : b = 0) # 0

\* After the keyword comes a compression method, which must be 0, and after that
\* nothing, or a stream zlib can inflate.  The loop doubles the output buffer
\* until it is large enough.
handle_ztxt_chunk(data, inflates) ==
  LET key == SelectInSeq(data, LAMBDA b : b = 0)
  IN  /\ key # 0 /\ key < Len(data) /\ data[key + 1] = 0
      /\ key + 1 = Len(data) \/ inflates

RECURSIVE PngChunks(_, _, _, _)
PngChunks(chunks, i, s, out) ==
  LET c == chunks[i]
      ok == CASE c.type = "tEXt" -> handle_text_chunk(c.data)
              [] c.type = "zTXt" -> handle_ztxt_chunk(c.data, c.inflates)
              [] OTHER -> TRUE
  IN  CASE i > Len(chunks) -> Result(s, out, 0)
        [] i =< Len(chunks) /\ (~c.whole \/ s.png_valid # 1) -> Result(s, out, 1)
        [] i =< Len(chunks) /\ c.whole /\ s.png_valid = 1 ->
             CASE ~c.crc -> Result(s, out, -1)
               [] c.crc /\ ~ok -> Result([s EXCEPT !.png_valid = 0], out, -1)
               [] c.crc /\ ok /\ c.type = "tIME" /\ Len(c.data) # 7 -> Result(s, out, 1)
               [] OTHER -> PngChunks(chunks, i + 1, s,
                                     IF c.type = "other" THEN out ELSE Append(out, c.type))
analyze_png(f, s) ==
  IF f.header = "png" THEN PngChunks(f.chunks, 1, s, <<>>) ELSE Result(s, <<>>, -1)

-----------------------------------------------------------------------------
(* jpg.c                                                                     *)

TypeSize == [t \in (1 .. 12) \ {6} |->
               CASE t \in {1, 2, 7} -> 1 [] t \in {3, 8} -> 2 [] t \in {4, 9, 11} -> 4 [] OTHER -> 8]
num_bytes(type, count) == IF type \in DOMAIN TypeSize THEN TypeSize[type] * count ELSE 0

should_print(e) ==
  CASE e.tag \in AsciiTags -> IF e.type = 2 THEN 1 ELSE -1
    [] e.tag \in {"MakerNote", "UserComment"} -> IF e.type = 7 THEN 1 ELSE -1
    [] e.tag = "ExifIFD" -> IF e.type = 4 /\ e.count = 1 THEN 2 ELSE -1
    [] OTHER -> 0

\* Whether a value held in the entry itself is printed, and one held elsewhere.
print_values(e) == CASE e.tag = "MakerNote" -> e.count = 4 \/ e.good
                     [] e.tag = "UserComment" -> FALSE
                     [] OTHER -> e.good
print_offset(e) == CASE e.tag = "MakerNote" -> TRUE
                     [] e.tag = "UserComment" -> e.count >= 8 /\ e.good
                     [] OTHER -> e.good

\* The loop over a directory's entries; `num` is num_bytes_read.  The two loops of
\* analyze_tiff differ in what an Exif pointer does.  len - 12 is unsigned.
RECURSIVE Entries(_, _, _, _, _, _, _)
Entries(t, es, k, num, first, s, out) ==
  LET e == es[k]
      size == num_bytes(e.type, e.count)
      s1 == IF e.type \in DOMAIN TypeSize THEN s ELSE [s EXCEPT !.jpg_valid = 0]
      print == should_print(e)
      Go(s2, shown) == Entries(t, es, k + 1, num + 12, first, s2,
                               IF shown THEN Append(out, e.tag) ELSE out)
  IN  IF k > Len(es) THEN Result(s, out, 0)
      ELSE IF t.len >= 12 /\ num >= t.len - 12 THEN Result(s, out, -1)
      ELSE IF size > t.len \/ s1.jpg_valid = 0 THEN Result(s1, out, -1)
      ELSE IF size =< 4
      THEN CASE print = 2 /\ (~first \/ s1.exif_found = 1) -> Result(s1, out, -1)
             [] print = 2 /\ first /\ s1.exif_found # 1 ->
                  Go([s1 EXCEPT !.exif_found = 1, !.exif_offset = e.value], FALSE)
             [] OTHER -> Go(s1, print = 1 /\ print_values(e))
      ELSE IF e.value + size > t.len \/ print \notin {0, 1} THEN Result(s1, out, -1)
      ELSE Go(s1, print = 1 /\ print_offset(e))

\* The entries at an offset; elsewhere the count read is 0.
DirectoryAt(t, offset) == IF offset \in DOMAIN t.ifd THEN t.ifd[offset] ELSE <<>>

\* Whether the header is in order and leads to a directory that has entries.
TiffHeader(t) ==
  /\ t.len >= 8 /\ t.header
  /\ t.offset >= 8 /\ t.offset < t.len
  /\ t.offset - 8 < t.len - 2
  /\ DirectoryAt(t, t.offset) # <<>>

\* The directory of the Exif pointer, `one` being what the first directory gave;
\* it must lie behind the num_bytes_read of that one.
ExifDirectory(t, one, num) ==
  LET at == one.statics.exif_offset
      dir == DirectoryAt(t, at)
  IN  IF at < num \/ at >= t.len - 2 \/ dir = <<>>
      THEN [one EXCEPT !.rv = -1]
      ELSE Entries(t, dir, 1, at + 2, FALSE, one.statics, one.out)

\* The first directory is read with num_bytes_read 8 below the position, because
\* `offset` has already been reduced when it is added.
analyze_tiff(t, s) ==
  LET dir == DirectoryAt(t, t.offset)
      num == t.offset - 8 + 2
      one == Entries(t, dir, 1, num, TRUE, s, <<>>)
  IN  IF ~TiffHeader(t) THEN Result(s, <<>>, -1)
      ELSE IF one.rv # 0 \/ one.statics.exif_found = 0 THEN one
      ELSE ExifDirectory(t, one, num + 12 * Len(dir))

\* What a segment returns; GoOn when the loop reads the next one.  `cut` says what
\* the file lacks of the segment.
GoOn == 2
StandardSegment(g, s) ==
  Result(s, <<>>, CASE g.cut = "no" -> GoOn [] g.cut = "marker" -> -1
                    [] g.cut = "length" -> 1 [] g.cut = "data" -> 0)

\* An APP1 segment ends the analysis whatever is in it, and the result of
\* analyze_tiff is not looked at.
App1Segment(g, s) ==
  CASE g.cut = "no" -> [analyze_tiff(g.tiff, s) EXCEPT !.rv = 0]
    [] g.cut = "marker" -> Result(s, <<>>, -1)
    [] g.cut = "length" -> Result(s, <<>>, 1)
    [] g.cut \in {"short", "not Exif"} -> Result(s, <<>>, 0)

\* The bytes up to the next marker are skipped; a last byte 0xFF is an error.
SuperSegment(g, s) == Result(s, <<>>, IF g.cut = "no" THEN GoOn ELSE -1)

RECURSIVE Segments(_, _, _)
Segments(segs, i, s) ==
  LET g == segs[i]
      r == CASE g.marker \in {"none", "fill", "SOI"} -> Result(s, <<>>, -1)
             [] g.marker \in {"EOI", "zero"} -> Result(s, <<>>, 0)
             [] g.marker = "standard" -> StandardSegment(g, s)
             [] g.marker = "APP1" -> App1Segment(g, s)
             [] g.marker = "super" -> SuperSegment(g, s)
  IN  IF i > Len(segs) THEN Result(s, <<>>, 0)
      ELSE IF r.rv = GoOn THEN Segments(segs, i + 1, s) ELSE r

analyze_jpg(f, s) ==
  IF f.header = "jpg" THEN Segments(f.segments, 1, s) ELSE Result(s, <<>>, -1)

-----------------------------------------------------------------------------
(* main.c                                                                    *)

analyze(f, s) ==
  LET png == analyze_png(f, s)
      jpg == analyze_jpg(f, png.statics)
  IN  IF png.rv < 0 THEN [jpg EXCEPT !.out = png.out \o jpg.out] ELSE png

Analyze(f) ==
  /\ Len(reports) < MaxFiles
  /\ LET r == analyze(f, statics)
     IN  /\ statics' = r.statics
         /\ reports' = Append(reports, [file |-> f, out |-> r.out, error |-> r.rv < 0])

\* main returns after its last argument.
Return == Len(reports) = MaxFiles /\ UNCHANGED vars

Next == (\E f \in Files : Analyze(f)) \/ Return
Spec == Init /\ [][Next]_vars

-----------------------------------------------------------------------------
(* What a command line should print                                          *)

TextOk(c) == LET z == {i \in DOMAIN c.data : c.data[i] = 0}
                 key == CHOOSE i \in z : \A j \in z : i =< j
             IN  CASE c.type = "tEXt" -> z # {}
                   [] c.type = "zTXt" -> /\ z # {}
                                         /\ key + 1 \in z
                                         /\ Len(c.data) > key + 1 => c.inflates
                   [] c.type = "tIME" -> Len(c.data) = 7
                   [] OTHER -> TRUE
ValidPng(f) == f.header = "png" /\ \A i \in DOMAIN f.chunks :
                 f.chunks[i].whole /\ f.chunks[i].crc /\ TextOk(f.chunks[i])
PngLines(f) == SelectSeq([i \in DOMAIN f.chunks |-> f.chunks[i].type], LAMBDA y : y # "other")

\* A directory at `offset` that ends before the end of the structure, and whose
\* entries have known types, values inside, and printable tags of their type.
Printable == AsciiTags \cup {"MakerNote", "UserComment"}
ValidDirectory(t, offset) ==
  /\ offset \in DOMAIN t.ifd /\ offset + 2 + 12 * Len(t.ifd[offset]) < t.len
  /\ \A k \in DOMAIN t.ifd[offset] :
       LET e == t.ifd[offset][k]
       IN  /\ e.type \in DOMAIN TypeSize
           /\ TypeSize[e.type] * e.count > 4 => e.value + TypeSize[e.type] * e.count =< t.len
           /\ TypeSize[e.type] * e.count =< t.len
           /\ e.tag \in Printable => e.good /\ e.type = (IF e.tag \in AsciiTags THEN 2 ELSE 7)
           /\ e.tag = "UserComment" => e.count >= 8
           /\ e.tag = "ExifIFD" => e.type = 4 /\ e.count = 1
Pointers(t, offset) == {k \in DOMAIN t.ifd[offset] : t.ifd[offset][k].tag = "ExifIFD"}
ExifOf(t) == t.ifd[t.offset][CHOOSE k \in Pointers(t, t.offset) : TRUE].value
ValidTiff(t) ==
  /\ t.header /\ t.offset >= 8 /\ ValidDirectory(t, t.offset)
  /\ \A k, l \in Pointers(t, t.offset) : k = l
  /\ Pointers(t, t.offset) # {} =>
       /\ ExifOf(t) >= t.offset + 2 + 12 * Len(t.ifd[t.offset])
       /\ ValidDirectory(t, ExifOf(t)) /\ Pointers(t, ExifOf(t)) = {}
TagsOf(t, offset) ==
  SelectSeq([k \in DOMAIN t.ifd[offset] |-> t.ifd[offset][k].tag], LAMBDA tag : tag \in Printable)
TiffLines(t) == TagsOf(t, t.offset)
                \o (IF Pointers(t, t.offset) = {} THEN <<>> ELSE TagsOf(t, ExifOf(t)))

\* A JPEG file whose first APP1 segment is Exif, with only whole segments before.
ExifSegment(f) == SelectInSeq(f.segments, LAMBDA g : g.marker = "APP1")
ValidJpg(f) ==
  /\ f.header = "jpg" /\ ExifSegment(f) # 0
  /\ \A i \in 1 .. ExifSegment(f) :
       f.segments[i].marker \in {"standard", "super", "APP1"} /\ f.segments[i].cut = "no"
  /\ ValidTiff(f.segments[ExifSegment(f)].tiff)

\* Files that leave a file-scope variable changed: a text chunk without its null
\* bytes; an Exif pointer or an unknown type.
TaintsPng(f) == f.header = "png" /\ \E i \in DOMAIN f.chunks :
                  f.chunks[i].type \in {"tEXt", "zTXt"} /\ ~TextOk(f.chunks[i])
TaintsJpg(f) ==
  f.header = "jpg" /\ \E i \in DOMAIN f.segments :
    /\ f.segments[i].marker = "APP1" /\ f.segments[i].cut = "no"
    /\ \E o \in DOMAIN f.segments[i].tiff.ifd : \E k \in DOMAIN f.segments[i].tiff.ifd[o] :
         LET e == f.segments[i].tiff.ifd[o][k] IN e.tag = "ExifIFD" \/ e.type \notin DOMAIN TypeSize

=============================================================================
