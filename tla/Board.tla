------------------------------- MODULE Board -------------------------------
(* The board of the Network game inside a MachinePlayer: moves of the two     *)
(* players, and the tree search that places, moves and takes back chips on    *)
(* the same board.  Scores are left out: the search may try any legal move    *)
(* and stop (prune) anywhere, and the player may choose any legal move; a     *)
(* quit, which ends the game, is left out.                                    *)
EXTENDS Integers, Sequences, FiniteSets, SequencesExt

CONSTANTS DIMENSION, Chips,      \* 8 and 10 in the code
          playerColor,           \* the machine's; the other color is its opponent's
          searchDepth, NULL

VARIABLES grid,                  \* <<x, y>> -> color
          connections,           \* <<x, y>> -> direction -> <<x, y>> or NULL
          count,                 \* numWhite and numBlack
          currentPlayer, moveKind,
          search,                \* the moves under trial, [color, from, to], the first outermost
          root                   \* history: the grid when the search began
vars == <<grid, connections, count, currentPlayer, moveKind, search, root>>

EMPTY == "empty"
WHITE == "white"
BLACK == "black"
Other(color) == IF color = WHITE THEN BLACK ELSE WHITE

Side == 0 .. DIMENSION - 1
Positions == Side \X Side
Corners == {0, DIMENSION - 1} \X {0, DIMENSION - 1}
CONNECTION_STEPS == <<<<0, -1>>, <<1, -1>>, <<1, 0>>, <<1, 1>>,
                      <<0, 1>>, <<-1, 1>>, <<-1, 0>>, <<-1, -1>>>>
Opposite(i) == ((i + 3) % 8) + 1
Along(p, i, n) == <<p[1] + n * CONNECTION_STEPS[i][1], p[2] + n * CONNECTION_STEPS[i][2]>>

-----------------------------------------------------------------------------
(* Board; b is [grid, connections, count]                                    *)

Neighbors(g, color, p) ==
  {q \in ((p[1] - 1 .. p[1] + 1) \cap Side) \X ((p[2] - 1 .. p[2] + 1) \cap Side) :
     g[q] = color /\ q # p}
numNeighbors(g, color, p) == Cardinality(Neighbors(g, color, p))

notInOppositeGoal(color, p) ==
  IF color = WHITE THEN p[2] \notin {0, DIMENSION - 1} ELSE p[1] \notin {0, DIMENSION - 1}

\* Mutant of notGroupOfThree: the neighbor's own neighbors are not looked at.
notThirdNeighbor(g, color, p) == numNeighbors(g, color, p) <= 1

\* No neighbor, or one that has none.
notGroupOfThree(g, color, p) ==
  LET near == Neighbors(g, color, p)
  IN  Cardinality(near) <= 1 /\ \A q \in near : numNeighbors(g, color, q) = 0

canPlace(b, color, p) ==
  /\ p \in Positions /\ b.grid[p] = EMPTY
  /\ p \notin Corners
  /\ notInOppositeGoal(color, p)
  /\ notGroupOfThree(b.grid, color, p)
  /\ b.count[color] < Chips

\* The positions for which canMove holds: those where the chip could be placed if it
\* were gone from where it is.
canMove(b, color, from) ==
  LET gone == [b EXCEPT !.grid[from] = EMPTY, !.count[color] = @ - 1]
  IN  IF b.grid[from] # color \/ b.count[color] # Chips THEN {}
      ELSE {to \in Positions \ {from} : canPlace(gone, color, to)}

\* The nearest chip in a direction, and in each of the eight.
Nearest(g, p, i) ==
  LET From[n \in 1 .. DIMENSION] ==
        LET q == Along(p, i, n)
        IN  IF q \notin Positions THEN NULL ELSE IF g[q] # EMPTY THEN q ELSE From[n + 1]
  IN  From[1]
getConnections(g, p) ==
  <<Nearest(g, p, 1), Nearest(g, p, 2), Nearest(g, p, 3), Nearest(g, p, 4),
    Nearest(g, p, 5), Nearest(g, p, 6), Nearest(g, p, 7), Nearest(g, p, 8)>>

\* The direction in which q was found.
Towards(found, q) == CHOOSE i \in 1 .. 8 : found[i] = q

placeChip(b, color, p) ==
  LET g == [b.grid EXCEPT ![p] = color]
      found == getConnections(g, p)
      seen == Range(found)
  IN  IF ~canPlace(b, color, p) THEN b
      ELSE [grid |-> g,
            count |-> [b.count EXCEPT ![color] = @ + 1],
            connections |->
              [q \in Positions |->
                 IF q = p THEN [i \in 1 .. 8 |-> IF found[i] # NULL THEN found[i] ELSE b.connections[p][i]]
                 ELSE IF q \notin seen THEN b.connections[q]
                 ELSE [b.connections[q] EXCEPT ![Opposite(Towards(found, q))] = p]]]

\* The chips on either side of a chip that goes see each other.
removeChip(b, p) ==
  LET g == [b.grid EXCEPT ![p] = EMPTY]
      found == getConnections(g, p)
      seen == Range(found)
  IN  IF p \notin Positions \/ b.grid[p] = EMPTY THEN b
      ELSE [grid |-> g,
            count |-> [b.count EXCEPT ![b.grid[p]] = @ - 1],
            connections |->
              [q \in Positions |->
                 IF q = p THEN [i \in 1 .. 8 |-> NULL]
                 ELSE IF q \notin seen THEN b.connections[q]
                 ELSE LET i == Towards(found, q)
                      IN  [b.connections[q] EXCEPT ![Opposite(i)] = found[Opposite(i)]]]]

-----------------------------------------------------------------------------
(* MachinePlayer                                                             *)

board == [grid |-> grid, connections |-> connections, count |-> count]
Becomes(b) == grid' = b.grid /\ connections' = b.connections /\ count' = b.count

Move(color, from, to) == [color |-> color, from |-> from, to |-> to]
Adds(b, color) == {Move(color, NULL, p) : p \in {q \in Positions : canPlace(b, color, q)}}
Steps(b, color) ==
  UNION {{Move(color, p, q) : q \in canMove(b, color, p)} : p \in Positions}
Made(b, m) ==
  IF m.from = NULL THEN placeChip(b, m.color, m.to)
  ELSE placeChip(removeChip(b, m.from), m.color, m.to)
Undone(b, m) ==
  IF m.from = NULL THEN removeChip(b, m.to)
  ELSE placeChip(removeChip(b, m.to), m.color, m.from)

Init ==
  /\ grid = [p \in Positions |-> EMPTY]
  /\ connections = [p \in Positions |-> [i \in 1 .. 8 |-> NULL]]
  /\ count = [c \in {WHITE, BLACK} |-> 0]
  /\ currentPlayer = WHITE /\ moveKind = "add"
  /\ search = <<>> /\ root = NULL

\* isLegalMove.
LegalMoves ==
  IF moveKind = "add" THEN Adds(board, currentPlayer) ELSE Steps(board, currentPlayer)

\* A legal move, of the opponent or chosen after a search.
makeMove(m) ==
  LET b == Made(board, m)
  IN  /\ Becomes(b)
      /\ currentPlayer' = Other(currentPlayer)
      /\ moveKind' = IF b.count[WHITE] + b.count[BLACK] = 2 * Chips THEN "step" ELSE moveKind
      /\ root' = NULL
      /\ UNCHANGED search

\* minimax goes one level down: chips are added until a player has all on the
\* board, and then moved.
Player == IF search = <<>> THEN playerColor ELSE Other(Last(search).color)
Tries == IF count[Player] < Chips THEN Adds(board, Player) ELSE Steps(board, Player)
Try(m) ==
  /\ Becomes(Made(board, m))
  /\ search' = Append(search, m)
  /\ root' = IF root = NULL THEN grid ELSE root
  /\ UNCHANGED <<currentPlayer, moveKind>>

\* It comes back and takes the chip back.
TakeBack ==
  /\ search # <<>>
  /\ Becomes(Undone(board, Last(search)))
  /\ search' = Front(search)
  /\ UNCHANGED <<currentPlayer, moveKind, root>>

\* A player without a legal move ends the game.
Stuck == search = <<>> /\ LegalMoves = {} /\ UNCHANGED vars
Next == \/ search = <<>> /\ \E m \in LegalMoves : makeMove(m)
        \/ /\ Len(search) < searchDepth /\ (search = <<>> => currentPlayer = playerColor)
           /\ \E m \in Tries : Try(m)
        \/ TakeBack \/ Stuck
Spec == Init /\ [][Next]_vars

-----------------------------------------------------------------------------

\* However chips come and go, in moves and in the search: the connections that are
\* updated chip by chip are those of the chips on the board, the counters are
\* right, and no chip has two neighbors of its color or is where it may not be;
\* and a search leaves the board as it found it (placeChip, removeChip,
\* minimaxStepMoves).
BoardConsistent ==
  /\ \A p \in Positions :
       /\ grid[p] = EMPTY => connections[p] = [i \in 1 .. 8 |-> NULL]
       /\ grid[p] # EMPTY =>
            /\ connections[p] = getConnections(grid, p)
            /\ p \notin Corners /\ notInOppositeGoal(grid[p], p)
            /\ numNeighbors(grid, grid[p], p) <= 1
  /\ \A c \in {WHITE, BLACK} : count[c] = Cardinality({p \in Positions : grid[p] = c})
  /\ search = <<>> => root \in {NULL, grid}
=============================================================================
