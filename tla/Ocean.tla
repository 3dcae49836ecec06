------------------------------- MODULE Ocean -------------------------------
(* The ocean of sharks and fish, and its run-length encoding, which a caller  *)
(* keeps in step: creatures are added to both, and after a timestep the new   *)
(* ocean is encoded afresh.  An ocean is a function of the cells <<x, y>>.    *)
EXTENDS Integers, Sequences, FiniteSets, SequencesExt

CONSTANTS width, height, starveTime,
          Arrays       \* the [types, lengths] given to the five-argument constructor

VARIABLES ocean_array, runs,
          threw        \* an addFish or addShark of the encoding threw an exception
vars == <<ocean_array, runs, threw>>

EMPTY == "empty"
FISH == "fish"
SHARK == "shark"
NULL_HUNGER == -10
Unset == -11           \* the hunger of a run that has no third element

Cells == (0 .. width - 1) \X (0 .. height - 1)
Creature(type, hunger) == [type |-> type, hunger |-> hunger]
Nothing == Creature(EMPTY, NULL_HUNGER)
Fish == Creature(FISH, NULL_HUNGER)
Shark(feeding) == Creature(SHARK, feeding)
EmptyOcean == [c \in Cells |-> Nothing]

-----------------------------------------------------------------------------
(* Ocean                                                                     *)

convert(x, y) == <<x % width, y % height>>

\* addFish, addShark: into an empty cell only.
Placed(ocean, x, y, creature) ==
  IF ocean[convert(x, y)].type = EMPTY THEN [ocean EXCEPT ![convert(x, y)] = creature] ELSE ocean

\* The nine cells around <<x, y>>; in a narrow ocean some of them are the same.
numNeighborType(ocean, c, type) ==
  Cardinality({d \in (-1 .. 1) \X (-1 .. 1) : ocean[convert(c[1] + d[1], c[2] + d[2])].type = type})

timeStep(ocean) ==
  [c \in Cells |->
     LET fish == numNeighborType(ocean, c, FISH)
         sharks == numNeighborType(ocean, c, SHARK)
         hunger == ocean[c].hunger
     IN  CASE ocean[c].type = SHARK ->
                IF fish > 0 THEN Shark(starveTime)
                ELSE IF hunger - 1 < 0 THEN Nothing ELSE Shark(hunger - 1)
           [] ocean[c].type = FISH ->
                IF sharks = 0 THEN ocean[c] ELSE IF sharks = 1 THEN Nothing ELSE Shark(starveTime)
           [] ocean[c].type = EMPTY ->
                IF fish < 2 THEN ocean[c] ELSE IF sharks <= 1 THEN Fish ELSE Shark(starveTime)]

-----------------------------------------------------------------------------
(* RunLengthEncoding                                                         *)

Run(creature, length) == [type |-> creature.type, length |-> length, hunger |-> creature.hunger]

\* The constructor from an ocean: row by row, a run ends where the next creature
\* or its hunger differs.
Encode(ocean) ==
  LET cell(i) == ocean[<<(i - 1) % width, (i - 1) \div width>>]
      Extend(rs, i) ==
        IF rs # <<>> /\ Last(rs).type = cell(i).type /\ Last(rs).hunger = cell(i).hunger
        THEN [rs EXCEPT ![Len(rs)].length = @ + 1]
        ELSE Append(rs, Run(cell(i), 1))
  IN  FoldLeft(Extend, <<>>, [i \in 1 .. width * height |-> i])

\* The constructor from two arrays: sharks are newborn.
FromArrays(a) ==
  [k \in DOMAIN a.types |->
     Run(IF a.types[k] = SHARK THEN Shark(starveTime) ELSE Creature(a.types[k], NULL_HUNGER),
         a.lengths[k])]

\* The three-argument constructor leaves out the hunger.
EmptyEncoding == <<[type |-> EMPTY, length |-> width * height, hunger |-> Unset]>>

\* toOcean: [x, y] is where the next creature goes; a row's end is left only when
\* something follows.
toOcean(rs) ==
  LET Creatures(o, run) ==
        FoldLeft(LAMBDA p, k :
                   LET x == IF p.x >= width THEN p.x - width ELSE p.x
                       y == IF p.x >= width THEN p.y + 1 ELSE p.y
                   IN  [x |-> x + 1, y |-> y,
                        ocean |-> Placed(p.ocean, x, y, Creature(run.type, run.hunger))],
                 o, [k \in 1 .. run.length |-> k])
      Skip(o, run) ==
        LET x == o.x + run.length
            rows == IF x > width THEN (x - 1) \div width ELSE 0
        IN  [o EXCEPT !.x = x - rows * width, !.y = @ + rows]
  IN  FoldLeft(LAMBDA o, run : IF run.type = EMPTY THEN Skip(o, run) ELSE Creatures(o, run),
               [x |-> 0, y |-> 0, ocean |-> EmptyOcean], rs).ocean

\* The run that holds a position, and the position counted from the run's start (0)
\* or, when it is not there, from its end (-1 and less).
Locate(rs, position) ==
  LET walk == FoldLeft(LAMBDA w, run :
                         IF w.pos > 0 THEN [pos |-> w.pos - run.length, i |-> w.i + 1] ELSE w,
                       [pos |-> position, i |-> 1], rs)
  IN  IF walk.pos < 0 THEN [walk EXCEPT !.i = @ - 1] ELSE walk

\* addFish and addShark of the encoding: a cell of an empty run becomes the
\* creature's; the run shrinks, vanishes or is split, and a neighbor takes the
\* cell when it is of the same kind.
Added(rs, x, y, creature) ==
  LET at == Locate(rs, (y % height) * width + (x % width))
      run == rs[at.i]
      left == SubSeq(rs, 1, at.i - 1)
      right == SubSeq(rs, at.i + 1, Len(rs))
      Same(r) == r.type = creature.type /\ (creature.type = SHARK => r.hunger = starveTime)
      back == left # <<>> /\ Same(Last(left))
      forth == right # <<>> /\ Same(Head(right))
      longer(r) == [r EXCEPT !.length = @ + 1]
      shorter == [run EXCEPT !.length = @ - 1]
      new == Run(creature, 1)
      first == run.length + at.pos
      \* A run of two elements stays so.
      become(n) == [type |-> creature.type, length |-> n,
                    hunger |-> IF run.hunger = Unset THEN Unset ELSE creature.hunger]
  IN  IF run.type # EMPTY THEN rs
      ELSE IF run.length = 1
      THEN (IF back THEN Front(left) ELSE left)
             \o <<become(1 + (IF back THEN Last(left).length ELSE 0)
                           + (IF forth THEN Head(right).length ELSE 0))>>
             \o (IF forth THEN Tail(right) ELSE right)
      ELSE IF at.pos = 0
      THEN (IF back THEN Append(Front(left), longer(Last(left))) ELSE Append(left, new))
             \o <<shorter>> \o right
      ELSE IF at.pos = -1
      THEN left \o <<shorter>>
             \o (IF forth THEN <<longer(Head(right))>> \o Tail(right) ELSE <<new>> \o right)
      ELSE left \o <<Run(Nothing, first), become(1), Run(Nothing, run.length - first - 1)>> \o right

\* check() reads the hunger of every run.
Throws(rs) == \E i \in DOMAIN rs : rs[i].hunger = Unset

-----------------------------------------------------------------------------

Init ==
  /\ threw = FALSE
  /\ \/ /\ ocean_array = EmptyOcean
        /\ runs \in {EmptyEncoding, Encode(EmptyOcean)}
     \/ \E a \in Arrays : runs = FromArrays(a) /\ ocean_array = toOcean(FromArrays(a))

Add(x, y, creature) ==
  /\ ~threw
  /\ ocean_array' = Placed(ocean_array, x, y, creature)
  /\ runs' = Added(runs, x, y, creature)
  /\ threw' = Throws(runs')

\* The next ocean and its encoding.
Step ==
  /\ ~threw
  /\ ocean_array' = timeStep(ocean_array)
  /\ runs' = Encode(ocean_array')
  /\ UNCHANGED threw

Stopped == threw /\ UNCHANGED vars

Next == \/ \E x \in -1 .. width, y \in -1 .. height :
             Add(x, y, Fish) \/ Add(x, y, Shark(starveTime))
        \/ Step \/ Stopped
Spec == Init /\ [][Next]_vars

\* After any series of additions and timesteps the encoding stands for the ocean,
\* and it is the one that encoding the ocean gives: no empty run, no two alike
\* in a row (addFish, addShark, toOcean, RunLengthEncoding(Ocean)).
EncodingIsOcean ==
  ~threw => /\ toOcean(runs) = ocean_array
            /\ Throws(runs) \/ runs = Encode(ocean_array)
=============================================================================
