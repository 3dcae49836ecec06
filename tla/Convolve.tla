------------------------------ MODULE Convolve ------------------------------
(* fast-image-convolution: conv2D of extra.c against reference of ref.c.      *)
(*                                                                            *)
(* The loops marked `omp parallel for` are run by a team of threads: each     *)
(* takes a contiguous share of the iterations, and the loop ends when all     *)
(* have finished.  The loop counters and the copy of the kernel are private   *)
(* to a thread; padded_in and out are shared.  A thread's step is one row (in *)
(* the border loops, its share).  Numbers are integers: rounding is left out. *)
(* Memory from malloc holds Junk until it is written.                         *)
EXTENDS Integers, Sequences, FiniteSets, FiniteSetsExt, SequencesExt

CONSTANTS Threads,     \* the OpenMP team, 0 .. n - 1
          Shapes,      \* [x, y, kx, ky]: the sizes of the image and of the kernel
          VECTOR,      \* floats in an __m128 (4)
          BLOCK,       \* floats copied per unrolled step (32)
          UNROLL,      \* kernel elements per unrolled step of CONV (9)
          Custom,      \* the kernel widths with loops of their own (3, 5, ... 19)
          Junk,
          in(_), kernel(_), before(_)   \* the arrays on entry: out holds before(i)

VARIABLES s, phase, todo, padded_in, kern_flipped, kern_local, out
vars == <<s, phase, todo, padded_in, kern_flipped, kern_local, out>>

T == Cardinality(Threads)
kernel_size(d) == d.kx * d.ky
cent(k) == (k - 1) \div 2
padded_x(d) == (d.kx - 1) + d.x
padded_y(d) == (d.ky - 1) + d.y

\* The iterations of lo .. hi that thread t runs.
Share(t, lo, hi) ==
  LET n == hi - lo + 1
      q == n \div T
      r == n % T
      first == lo + t * q + (IF t < r THEN t ELSE r)
  IN  first .. first + q - (IF t < r THEN 0 ELSE 1)
Team(lo, hi) == [t \in Threads |-> Share(t, lo, hi)]

Init == /\ s \in Shapes
        /\ phase = "top"
        /\ todo = Team(0, (padded_x(s) * cent(s.ky)) - 1)
        /\ padded_in = [i \in 0 .. (padded_x(s) * padded_y(s)) - 1 |-> Junk]
        /\ kern_flipped = [i \in 0 .. kernel_size(s) - 1 |-> Junk]
        /\ kern_local = [t \in Threads |-> <<>>]
        /\ out = [i \in 0 .. (s.x * s.y) - 1 |-> before(i)]

-----------------------------------------------------------------------------
(* Padding                                                                   *)

\* The rows of zeros above and below the image.
PadRows(t) ==
  /\ phase \in {"top", "bottom", "CONV top", "CONV bottom"} /\ todo[t] # {}
  /\ padded_in' = [i \in DOMAIN padded_in |-> IF i \in todo[t] THEN 0 ELSE padded_in[i]]
  /\ todo' = [todo EXCEPT ![t] = {}]
  /\ UNCHANGED <<s, phase, kern_flipped, kern_local, out>>

\* Where the loops that copy BLOCK, VECTOR and single floats leave off.
RECURSIVE Steps(_, _, _)
Steps(x, n, step) == IF x < n - (step - 1) THEN Steps(x + step, n, step) ELSE x
Copied(n) == LET a == Steps(0, n, BLOCK) b == Steps(a, n, VECTOR) IN Steps(b, n, 1)

\* One row: zeros on the left, the data, zeros on the right.
FillRow(t) ==
  /\ phase \in {"fill", "CONV fill"} /\ todo[t] # {}
  /\ LET y == Min(todo[t])
         row == (y + cent(s.ky)) * padded_x(s)
         left == 0 .. cent(s.kx) - 1
         right == s.x + cent(s.kx) .. padded_x(s) - 1
         data == cent(s.kx) .. cent(s.kx) + Copied(s.x) - 1
     IN  /\ padded_in' = [i \in DOMAIN padded_in |->
              CASE i - row \in left \cup right -> 0
                [] i - row \in data -> in(y * s.x + (i - row - cent(s.kx)))
                [] OTHER -> padded_in[i]]
         /\ todo' = [todo EXCEPT ![t] = @ \ {y}]
  /\ UNCHANGED <<s, phase, kern_flipped, kern_local, out>>

Finished == \A t \in Threads : todo[t] = {}
Begin(p, lo, hi) == phase' = p /\ todo' = Team(lo, hi)

\* The end of one parallel loop and the start of the next.
Barrier ==
  /\ Finished
  /\ \/ phase = "top" /\ Begin("fill", 0, s.y - 1)
     \/ phase = "fill" /\ Begin("bottom", padded_x(s) * (cent(s.ky) + s.y),
                                (padded_x(s) * padded_y(s)) - 1)
     \/ phase = "CONV top" /\ Begin("CONV fill", 0, s.y - 1)
     \/ phase = "CONV fill" /\ Begin("CONV bottom", padded_x(s) * (cent(s.ky) + s.y),
                                     (padded_x(s) * padded_y(s)) - 1)
     \/ phase = "convolve" /\ Begin("done", 0, -1)
  /\ UNCHANGED <<s, padded_in, kern_flipped, kern_local, out>>

\* The kernel is turned round, and the convolution begins; for a width without a
\* loop of its own CONV first pads an array of its own in the same way.
Flip ==
  /\ Finished /\ phase \in {"bottom", "CONV bottom"}
  /\ kern_flipped' = [i \in DOMAIN kern_flipped |-> kernel(kernel_size(s) - 1 - i)]
  /\ \/ /\ phase = "CONV bottom" \/ s.kx \in Custom
        /\ Begin("convolve", 0, s.y - 1)
        /\ UNCHANGED padded_in
     \/ /\ phase = "bottom" /\ s.kx \notin Custom
        /\ Begin("CONV top", 0, (padded_x(s) * cent(s.ky)) - 1)
        /\ padded_in' = [i \in DOMAIN padded_in |-> Junk]
  /\ UNCHANGED <<s, kern_local, out>>

-----------------------------------------------------------------------------
(* Convolution                                                               *)

\* A term [k, dx, dy] multiplies kernel element k by the padded element dx to the
\* right and dy below.  Single terms find dx and dy by division.
Single(k, kx) == [k |-> k, dx |-> k % kx, dy |-> k \div kx]
Rest(i, d) == [n \in 1 .. kernel_size(d) - i |-> Single(i + n - 1, d.kx)]

\* The 3 by 3 kernel, written out.
Terms3x3 == [n \in 1 .. 9 |-> [k |-> n - 1, dx |-> (n - 1) % 3, dy |-> (n - 1) \div 3]]

\* Mutant of CustomTerms: the last full row is left to no loop.
CustomTermsShort(d) ==
  FlattenSeq([r \in 1 .. d.ky - 1 |-> [c \in 1 .. d.kx |->
     [k |-> ((r - 1) * d.kx) + c - 1, dx |-> c - 1, dy |-> r - 1]]])

\* The loops of a width kx: rows written out while i < kernel_size - kx - 1, with
\* `temp` the row, and single terms for what is left.
CustomTerms(d) ==
  LET rows == Cardinality({r \in 0 .. d.ky : r * d.kx < kernel_size(d) - d.kx - 1})
  IN  FlattenSeq([r \in 1 .. rows |-> [c \in 1 .. d.kx |->
         [k |-> ((r - 1) * d.kx) + c - 1, dx |-> c - 1, dy |-> r - 1]]])
      \o Rest(rows * d.kx, d)

\* CONV: UNROLL terms at a time while i < kernel_size - (UNROLL - 1), then single ones.
ConvTerms(d) ==
  LET i == Steps(0, kernel_size(d), UNROLL)
  IN  [n \in 1 .. i |-> Single(n - 1, d.kx)] \o Rest(i, d)

Terms(d) == IF d.kx = 3 /\ d.ky = 3 THEN Terms3x3
            ELSE IF d.kx \in Custom THEN CustomTerms(d) ELSE ConvTerms(d)

Dot(kern, terms, x, y) ==
  FoldLeft(LAMBDA acc, m : acc + kern[m.k] * padded_in[x + m.dx + padded_x(s) * (y + m.dy)], 0, terms)

\* One row of the output.  Full vectors are computed from zero and stored; the
\* columns that are left are added to what out holds.
ConvolveRow(t) ==
  /\ phase = "convolve" /\ todo[t] # {}
  /\ LET y == Min(todo[t])
         kern == IF kern_local[t] = <<>> THEN kern_flipped ELSE kern_local[t]
         full == Steps(0, s.x, VECTOR)
     IN  /\ kern_local' = [kern_local EXCEPT ![t] = kern]
         /\ out' = [i \in DOMAIN out |->
              IF i \div s.x # y THEN out[i]
              ELSE IF i % s.x < full THEN Dot(kern, Terms(s), i % s.x, y)
              ELSE out[i] + Dot(kern, Rest(0, s), i % s.x, y)]
         /\ todo' = [todo EXCEPT ![t] = @ \ {y}]
  /\ UNCHANGED <<s, phase, padded_in, kern_flipped>>

Returned == phase = "done" /\ UNCHANGED vars

Next == \/ \E t \in Threads : PadRows(t) \/ FillRow(t) \/ ConvolveRow(t)
        \/ Barrier \/ Flip \/ Returned
Spec == Init /\ [][Next]_vars

-----------------------------------------------------------------------------
\* ref.c: the sum over the kernel's window, cut off at the image's edge.
reference(d, x, y) ==
  LET window == {<<i, j>> \in (-cent(d.kx) .. cent(d.kx)) \X (-cent(d.ky) .. cent(d.ky)) :
                   x + i \in 0 .. d.x - 1 /\ y + j \in 0 .. d.y - 1}
      term(w) == kernel((cent(d.kx) - w[1]) + (cent(d.ky) - w[2]) * d.kx)
                 * in((x + w[1]) + (y + w[2]) * d.x)
  IN  MapThenSumSet(term, window)

\* When conv2D returns, out holds what reference computes: in the columns done by
\* whole vectors whatever it held before, in the last columns added to it.  No
\* order of the team's steps, no shape and no choice of loop changes that.
ConvolutionMatches ==
  phase = "done" =>
    \A i \in DOMAIN out :
      out[i] = reference(s, i % s.x, i \div s.x)
               + (IF i % s.x < s.x - (s.x % VECTOR) THEN 0 ELSE before(i))
=============================================================================
