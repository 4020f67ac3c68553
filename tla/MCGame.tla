------------------------------- MODULE MCGame -------------------------------
(***************************************************************************)
(* Game on a grid of 4 by 3 cells, from the moment on at which two clients *)
(* play.  Their spawnpoints (3,2) and (2,2) are next to each other, and    *)
(* the powerup at (3,1) is in front of the first snake and two moves from  *)
(* the second.                                                             *)
(***************************************************************************)
EXTENDS Game

MCPowerupCells == {<<3, 1>>, <<0, 0>>}

Snake(p) == NewPlayer(<< <<4 - p, 2>> >>)

\* what is left of each bound, and whether the third client is still to come or
\* came and went before it was validated
Instances ==
    { [third |-> "off",  frames |-> 2, keys |-> 1, leave |-> 0],
      [third |-> "off",  frames |-> 1, keys |-> 1, leave |-> 1],
      [third |-> "gone", frames |-> 4, keys |-> 1, leave |-> 1] }

\* Client 2 has joined when there was one powerup, and client 1 before there was any.
PlayingInit ==
    \E i \in Instances :
        /\ conns = {1, 2} /\ open = {1, 2}
        /\ tails = [p \in 1..2 |-> Snake(p).tail] /\ powerups = {<<3, 1>>}
        /\ spawnpoints = SubSeq(Spawnpoints, 1, 10)
        /\ gameStarted = FALSE /\ fill = 1 /\ crashed = "no"
        /\ client = [c \in Clients |->
               [phase    |-> IF c = 3 THEN i.third ELSE "idle",
                players  |-> IF c = 3 THEN NoFunction ELSE [p \in 1..2 |-> Snake(p)],
                powerups |-> CASE c = 1 -> Added(NoPowerups, <<3, 1>>)
                               [] c = 2 -> Received({<<3, 1>>})
                               [] c = 3 -> NoPowerups,
                started  |-> FALSE]]
        /\ up = [c \in Clients |-> <<>>] /\ down = [c \in Clients |-> <<>>]
        /\ frames = MaxFrames - i.frames /\ keys = MaxKeys - i.keys /\ left = MaxLeave - i.leave
        /\ killed = {} /\ deadAtJoin = [c \in Clients |-> {}]

PlayingSpec == PlayingInit /\ [][Next]_vars

============================================================================
