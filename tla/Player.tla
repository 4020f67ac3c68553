------------------------------- MODULE Player -------------------------------
(***************************************************************************)
(* The values the game is played with: positions on the grid, the client's *)
(* Player objects (Snek/player.cpp), its powerups (Snek/powerups.cpp), and *)
(* how a tail travels in the body of a message (Networking/message.h),     *)
(* which is a stack: what was pushed last is read first.                   *)
(***************************************************************************)
EXTENDS Integers, Sequences, FiniteSets

CONSTANTS
    Width,   \* GRIDWIDTH, 40 in the program
    Height   \* GRIDHEIGHT, 30 in the program

ASSUME GridAssumption == Width \in Nat \ {0} /\ Height \in Nat \ {0}

Cells == (0..(Width - 1)) \X (0..(Height - 1))

Origin == <<0, 0>>   \* a Position or Powerup that is value-initialized

Direction == {"Up", "Right", "Down", "Left"}

Opposite(d) ==
    CASE d = "Up" -> "Down" [] d = "Down" -> "Up"
      [] d = "Left" -> "Right" [] d = "Right" -> "Left"

\* the step over the edge is not wrapped
OffGrid(pos, d) ==
    CASE d = "Up"    -> <<pos[1], pos[2] - 1>>
      [] d = "Right" -> <<pos[1] + 1, pos[2]>>
      [] d = "Down"  -> <<pos[1], pos[2] + 1>>
      [] d = "Left"  -> <<pos[1] - 1, pos[2]>>

\* the cell in front of pos, on a torus
Ahead(pos, d) ==
    CASE d = "Up"    -> <<pos[1], ((pos[2] - 1) + Height) % Height>>
      [] d = "Right" -> <<((pos[1] + 1) + Width) % Width, pos[2]>>
      [] d = "Down"  -> <<pos[1], ((pos[2] + 1) + Height) % Height>>
      [] d = "Left"  -> <<((pos[1] - 1) + Width) % Width, pos[2]>>

----------------------------------------------------------------------------
(* Player *)

\* Player(gridPointer, color) whose tail is then filled in
NewPlayer(tail) ==
    [alive |-> TRUE, food |-> 0, direction |-> "Up", grid |-> TRUE, tail |-> tail]

\* the Player that players[id] makes for an unknown id: no grid, no tail
DefaultPlayer == [NewPlayer(<<>>) EXCEPT !.grid = FALSE]

\* the snake grows at every step
AlwaysGrows(p) == [p EXCEPT !.tail = <<Ahead(Head(@), p.direction)>> \o @]

\* emplace_front and UpdateTail
Advanced(p) ==
    LET longer == <<Ahead(Head(p.tail), p.direction)>> \o p.tail
    IN  IF p.food > 0
          THEN [p EXCEPT !.food = @ - 1, !.tail = longer]
          ELSE [p EXCEPT !.tail = SubSeq(longer, 1, Len(p.tail))]

\* Move cannot be carried out: tail[0] of an empty deque, or no grid to ask
Stuck(p) == p.alive /\ (p.tail = <<>> \/ ~p.grid)

\* Move; should the read of an empty deque return, the front it makes up is
\* the back that is popped, and nothing has changed
Move(p) == IF p.alive /\ p.tail # <<>> THEN Advanced(p) ELSE p

AddLength(p, n) == [p EXCEPT !.food = @ + n]

SetDirection(p, d) == [p EXCEPT !.direction = d]

\* the player is dead, and its tail stays
KeepTail(p) == [p EXCEPT !.alive = FALSE]

\* the tail goes, and the player still moves
KeepAlive(p) == [p EXCEPT !.tail = <<>>]

Kill(p) == [p EXCEPT !.alive = FALSE, !.tail = <<>>]

\* values tail[0] may have; any, should the read of an empty deque return
GetHead(tail) == IF tail = <<>> THEN Cells ELSE {Head(tail)}

----------------------------------------------------------------------------
(* A tail in the body of a message *)

\* operator <<, and what operator >> reads next
Push(body, data) == Append(body, data)

Top(body) == body[Len(body)]

\* AddPlayerToMsg, UpdateServer: the positions from the head on, then their number
Pushed(tail) == Push(tail, Len(tail))

\* the positions are read one too few
PoppedShort(body) ==
    LET n == Top(body)
    IN  [i \in 1..(n - 1) |-> body[Len(body) - n + i]]

\* the number is read, then so many positions, each put in front of the others
Popped(body) ==
    LET n == Top(body)
    IN  [i \in 1..n |-> body[Len(body) - 1 - (n - i)]]

----------------------------------------------------------------------------
(* The client's powerups: how many there are in each cell *)

NoPowerups == [p \in Cells |-> 0]

Present(powerups) == {p \in Cells : powerups[p] > 0}

Added(powerups, p) == [powerups EXCEPT ![p] = @ + 1]

\* the first one with the position of p is erased, if there is one
Erased(powerups, p) == [powerups EXCEPT ![p] = IF @ > 0 THEN @ - 1 ELSE 0]

\* vector<Powerup>(n) makes n powerups at the origin, those read follow them
Received(read) ==
    LET n == Cardinality(read)
    IN  [p \in Cells |-> (IF p \in read THEN 1 ELSE 0) + (IF p = Origin THEN n ELSE 0)]

============================================================================
