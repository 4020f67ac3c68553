---------------------------- MODULE PlayerProofs ----------------------------
(***************************************************************************)
(* What Player's operators keep, on a grid of any size.                    *)
(***************************************************************************)
EXTENDS Player, TLAPS

\* A wrapped coordinate is on the grid.
LEMMA Wrapped ==
    ASSUME NEW n \in Nat \ {0}, NEW i \in -1..n
    PROVE  (i + n) % n \in 0..(n - 1)
OBVIOUS

\* Move never leaves the torus, whatever its size: the cell in front of a cell is
\* a cell, at the edges too (Snek/player.cpp:17).
THEOREM AheadOnGrid ==
    ASSUME NEW pos \in Cells, NEW d \in Direction
    PROVE  Ahead(pos, d) \in Cells
<1>1. pos[1] \in 0..(Width - 1) /\ pos[2] \in 0..(Height - 1) /\ pos = <<pos[1], pos[2]>>
  BY DEF Cells
<1>2. /\ ((pos[2] - 1) + Height) % Height \in 0..(Height - 1)
      /\ ((pos[2] + 1) + Height) % Height \in 0..(Height - 1)
      /\ ((pos[1] - 1) + Width) % Width \in 0..(Width - 1)
      /\ ((pos[1] + 1) + Width) % Width \in 0..(Width - 1)
  BY <1>1, GridAssumption, Wrapped
<1>3. CASE d = "Up"     BY <1>1, <1>2, <1>3 DEF Ahead, Cells
<1>4. CASE d = "Right"  BY <1>1, <1>2, <1>4 DEF Ahead, Cells
<1>5. CASE d = "Down"   BY <1>1, <1>2, <1>5 DEF Ahead, Cells
<1>6. CASE d = "Left"   BY <1>1, <1>2, <1>6 DEF Ahead, Cells
<1> QED  BY <1>3, <1>4, <1>5, <1>6 DEF Direction

\* A tail that is pushed and popped is the tail that was sent, in the same order,
\* although the body of a message is a stack (Networking/message.h:35).
THEOREM TailRoundTrip ==
    ASSUME NEW tail \in Seq(Cells)
    PROVE  Popped(Pushed(tail)) = tail
<1> DEFINE body == Pushed(tail)
<1>1. Len(body) = Len(tail) + 1 /\ body[Len(body)] = Len(tail)
  BY DEF Pushed, Push
<1>2. \A i \in 1..Len(tail) : body[i] = tail[i]
  BY DEF Pushed, Push
<1>3. \A i \in 1..Len(tail) : Len(body) - 1 - (Len(tail) - i) = i
  BY <1>1
<1>4. tail = [i \in 1..Len(tail) |-> tail[i]]
  OBVIOUS
<1> QED  BY <1>1, <1>2, <1>3, <1>4 DEF Popped, Top

============================================================================
