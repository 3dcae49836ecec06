------------------------------ MODULE MCInputs ------------------------------
(* The inputs on which TLC checks the components of MCComponents.             *)
EXTENDS Integers, Sequences, TLC

-----------------------------------------------------------------------------
(* Machines for Ide: two disks, by their registers, sizes and tables.         *)

Absent == [present |-> FALSE, error |-> 127, ready |-> FALSE, ata |-> FALSE, drq |-> FALSE,
           capacity |-> 0, signature |-> FALSE, table |-> <<>>]
Disk(table, n) == [present |-> TRUE, error |-> 1, ready |-> TRUE, ata |-> TRUE, drq |-> TRUE,
                   capacity |-> n, signature |-> TRUE, table |-> table]
Part(type, offset, size) == [type |-> type, offset |-> offset, size |-> size]
Machine(a, b) == (0 :> a) @@ (1 :> b)
Plain == Disk(<<Part(33, 0, 1)>>, 1)

\* Two disks; a foreign partition, a disk that answers nothing; a partition that
\* wraps round, empty and too long ones; a disk 0 that says disk 1 failed; a disk
\* that is too large; none ready; extended partitions, the last read for ever.
MCMachines ==
  { Machine(Plain, Disk(<<>>, 1)),
    Machine(Disk(<<Part(33, 1, 1), Part(131, 0, 1)>>, 2), [Plain EXCEPT !.drq = FALSE]),
    Machine(Disk(<<Part(33, 1, 7), Part(0, 1, 1), Part(34, 2, 1), Part(35, 1, 1)>>, 2), Absent),
    Machine([Plain EXCEPT !.error = 129], Plain),
    Machine(Disk(<<>>, 6), [Plain EXCEPT !.signature = FALSE]),
    Machine([Plain EXCEPT !.ready = FALSE], [Plain EXCEPT !.ata = FALSE]),
    Machine(Disk(<<Part(5, 1, 1)>>, 3), Absent),
    Machine(Disk(<<Part(5, 2, 1), Part(34, 0, 1)>>, 3), Absent) }

-----------------------------------------------------------------------------
(* Executables for Loader.                                                    *)

Phdr(offset, vaddr, filesz, memsz, writable) ==
  [type |-> "load", offset |-> offset, vaddr |-> vaddr, filesz |-> filesz, memsz |-> memsz,
   writable |-> writable]
Other(type) == [Phdr(0, 0, 0, 0, FALSE) EXCEPT !.type = type]
Code == Phdr(1, 3, 2, 4, FALSE)
Data == Phdr(2, 2, 2, 2, TRUE)
Bss == Phdr(0, 4, 0, 1, TRUE)

\* Segments of one and of three pages, two that meet on a page, a refused type, a
\* segment up to the stack, reads past the end, a size that wraps round, an offset
\* past the end, and a file that is no executable.
MCExes ==
  {[length |-> 5, header |-> TRUE, phdrs |-> phdrs] : phdrs \in
    {<<Code>>, <<Data, Bss>>, <<Code, Bss>>, <<Other("ignore"), Bss, Other("refuse")>>,
     <<Phdr(3, 5, 2, 2, TRUE)>>, <<Phdr(4, 4, 2, 2, FALSE)>>, <<Phdr(0, 6, 0, 12, TRUE)>>,
     <<Data, Phdr(6, 4, 0, 1, TRUE)>>}}
  \cup {[length |-> 5, header |-> FALSE, phdrs |-> <<>>]}

-----------------------------------------------------------------------------
(* Image files for Metadata.                                                  *)

Chunk(type, data, crc, whole, inflates) ==
  [type |-> type, data |-> data, crc |-> crc, whole |-> whole, inflates |-> inflates]
Chunks ==
  {Chunk("tEXt", d, TRUE, TRUE, FALSE) : d \in {<<>>, <<1>>, <<1, 0>>, <<1, 0, 1, 0>>}}
  \cup {Chunk("zTXt", d, TRUE, TRUE, i) :
          d \in {<<1>>, <<1, 0>>, <<1, 0, 0>>, <<1, 0, 1, 1>>, <<1, 0, 0, 1>>}, i \in BOOLEAN}
  \cup {Chunk("tIME", d, TRUE, TRUE, FALSE) : d \in {<<1>>, <<1, 1, 1, 1, 0, 0, 0>>}}
  \cup {Chunk("other", <<1>>, crc, whole, FALSE) : crc, whole \in BOOLEAN}
File(header, chunks, segments) == [header |-> header, chunks |-> chunks, segments |-> segments]
Pngs == {File("png", <<c>>, <<>>) : c \in Chunks}

Entry(tag, type, count, value, good) ==
  [tag |-> tag, type |-> type, count |-> count, value |-> value, good |-> good]
Make == Entry("Make", 2, 4, 0, TRUE)
Comment == Entry("UserComment", 7, 9, 40, TRUE)
Pointer == Entry("ExifIFD", 4, 1, 34, TRUE)
Entries ==
  {Make, [Make EXCEPT !.count = 6, !.value = 40], Entry("Make", 2, 6, 40, FALSE),
   Entry("Make", 3, 3, 40, TRUE), Entry("MakerNote", 7, 4, 1, FALSE), Comment,
   Entry("Other", 6, 1, 0, TRUE), Entry("Other", 5, 1, 50, TRUE),
   Pointer, [Pointer EXCEPT !.value = 22], [Pointer EXCEPT !.type = 3]}
Tiff(len, header, offset, ifd) == [len |-> len, header |-> header, offset |-> offset, ifd |-> ifd]
Tiffs ==
  {Tiff(len, TRUE, 8, (8 :> first) @@ (22 :> <<Make>>) @@ (34 :> <<Comment>>)) :
     len \in {23, 49}, first \in {<<e>> : e \in Entries} \cup {<<Pointer, e>> : e \in Entries}}
  \cup {Tiff(7, TRUE, 8, 8 :> <<>>), Tiff(30, FALSE, 8, 8 :> <<>>), Tiff(30, TRUE, 4, 8 :> <<>>),
        Tiff(30, TRUE, 8, 8 :> <<>>), Tiff(30, TRUE, 31, 8 :> <<>>)}
Segment(marker, cut) == [marker |-> marker, cut |-> cut]
Exif(tiff) == [marker |-> "APP1", cut |-> "no", tiff |-> tiff]
Jpgs ==
  {File("jpg", <<>>, segments) : segments \in
     {<<Segment("standard", "no"), Exif(t)>> : t \in Tiffs}
     \cup {<<Segment("standard", cut)>> : cut \in {"no", "marker", "length", "data"}}
     \cup {<<Segment("APP1", cut)>> : cut \in {"marker", "length", "short", "not Exif"}}
     \cup {<<Segment(m, "no"), Exif(CHOOSE t \in Tiffs : t.len = 49)>> :
             m \in {"none", "fill", "SOI", "EOI", "zero", "super"}}
     \cup {<<Segment("super", "data")>>}}
MCFiles == Pngs \cup Jpgs \cup {File("none", <<>>, <<>>)}

-----------------------------------------------------------------------------
(* Images and kernels for Convolve, with elements that differ.                *)

MCShapes == [x : 1 .. 7, y : 1 .. 3, kx : {1, 3, 5, 7}, ky : {1, 3, 5}]
MCin(i) == ((i * 7 + 3) % 11) - 5
MCkernel(i) == ((i * 5 + 1) % 13) - 4
MCbefore(i) == 100 + i

-----------------------------------------------------------------------------
(* For RIPRouter a line of three routers with a host; for KVCache hash codes  *)
(* of which four share a set, one negative and one the least; for Ocean runs. *)

MCTopologies == {<<<<"r1", "r2">>, <<"r2", "r3">>>>, <<<<"r1", "r2">>, <<"r1", "h">>>>}
MChashCode == ("a" :> 1) @@ ("b" :> -4) @@ ("c" :> 7) @@ ("d" :> -8) @@ ("e" :> -1) @@ ("g" :> 2)
MCArrays == {[types |-> <<"shark", "empty", "fish">>, lengths |-> <<1, 4, 1>>]}
=============================================================================
