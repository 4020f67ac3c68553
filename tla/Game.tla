-------------------------------- MODULE Game --------------------------------
(***************************************************************************)
(* The game that is played over the connections: Server                    *)
(* (SnekServer/server.cpp) and, on each client, SnakeClient                *)
(* (Snek/snakeclient.cpp) driven by main (Snek/main.cpp) and the keyboard  *)
(* (Snek/inputhandler.cpp).                                                *)
(*                                                                         *)
(* Every client moves all snakes by itself, is the authority on its own    *)
(* one, and sends it to the server after every frame; the server relays    *)
(* it, detects collisions and hands out powerups.  Nobody waits for        *)
(* anybody.  up[c] and down[c] are the messages under way between client c *)
(* and the server, queues included; each is a FIFO channel, as Connection  *)
(* shows.  A handler of the server is one step (SnekServer has its steps), *)
(* and so is the client's handling of one message.                         *)
(***************************************************************************)
EXTENDS Player

CONSTANTS
    MaxClients,    \* bound: clients, numbered from 1
    MaxFrames,     \* bound: frames of all clients together
    MaxKeys,       \* bound: keys pressed on all clients together
    MaxLeave,      \* bound: clients that leave, those apart that crash
    PowerupCells   \* bound: free cells preferred by GeneratePowerup's random choice

ASSUME GameAssumption ==
    /\ MaxClients \in Nat /\ MaxFrames \in Nat /\ MaxKeys \in Nat /\ MaxLeave \in Nat
    /\ PowerupCells \subseteq Cells

Clients == 1..MaxClients

Null == 0   \* nullptr, as the client to ignore

VARIABLES
    conns,       \* the clients in m_deqConnections, which is in the order of their IDs
    open,        \* clients whose socket at the server is open
    tails,       \* players: the tail of each player
    powerups,    \* the positions of powerups, which are all different
    spawnpoints,
    gameStarted,
    fill,        \* powerupCount of the last OnClientValidated, which fills up to it
    crashed,     \* "no", or what ended the server
    client,      \* the state of each client
    up, down,    \* the messages under way
    frames, keys, left, \* counted up to their bounds
    killed,      \* history: players for whom KillPlayer was sent
    deadAtJoin   \* history: those of killed when the client was validated

vars == <<conns, open, tails, powerups, spawnpoints, gameStarted, fill, crashed,
          client, up, down, frames, keys, left, killed, deadAtJoin>>

server == <<conns, open, tails, powerups, spawnpoints, gameStarted, fill, crashed, killed, deadAtJoin>>

bounds == <<frames, keys, left>>

\* GenerateSpawnpoints; six value-initialized positions come before the six
Spawnpoints ==
    [i \in 1..6 |-> Origin] \o
    << <<Width \div 4, Height \div 3>>, <<(2 * Width) \div 4, Height \div 3>>,
       <<(3 * Width) \div 4, Height \div 3>>, <<Width \div 4, (2 * Height) \div 3>>,
       <<(2 * Width) \div 4, (2 * Height) \div 3>>, <<(3 * Width) \div 4, (2 * Height) \div 3>> >>

NoFunction == [p \in {} |-> <<>>]

Init ==
    /\ conns = {} /\ open = {} /\ tails = NoFunction /\ powerups = {}
    /\ spawnpoints = Spawnpoints /\ gameStarted = FALSE /\ fill = 0 /\ crashed = "no"
    /\ client = [c \in Clients |-> [phase |-> "off", players |-> NoFunction,
                                    powerups |-> NoPowerups, started |-> FALSE]]
    /\ up = [c \in Clients |-> <<>>] /\ down = [c \in Clients |-> <<>>]
    /\ frames = 0 /\ keys = 0 /\ left = 0
    /\ killed = {} /\ deadAtJoin = [c \in Clients |-> {}]

With(f, k, v) == [p \in DOMAIN f \cup {k} |-> IF p = k THEN v ELSE f[p]]

Without(f, k) == [p \in DOMAIN f \ {k} |-> f[p]]

Elements(s) == {s[i] : i \in DOMAIN s}

----------------------------------------------------------------------------
(* MessageAllClients *)

About(type, c) == [type |-> type, who |-> c]

At(type, p) == [type |-> type, cell |-> p]

\* what a broadcast changes
Now == [conns |-> conns, tails |-> tails, down |-> down, ok |-> TRUE]

\* what c gets: the loop reports a closed connection when it comes to it, between
\* the clients before it and those behind it
Around(c, gone, sent, notice) ==
    IF \A x \in gone : c < x THEN sent \o notice ELSE notice \o sent

\* MessageAllClients(m, ignore) in n.  A closed connection that is not ignored
\* is reported and dropped: OnClientDisconnect tells all others and erases the
\* player.  With two closed connections the calls never end.
Broadcast(n, m, ignore) ==
    LET closed == n.conns \ open
        gone   == IF closed = {ignore} THEN {} ELSE closed
        Notice == IF gone = {} THEN <<>> ELSE <<About("RemovePlayer", CHOOSE x \in gone : TRUE)>>
        Own(c) == IF c = ignore THEN <<>> ELSE <<m>>
        Sent(c) == IF c \in n.conns \cap open THEN Around(c, gone, Own(c), Notice) ELSE <<>>
    IN  [conns |-> n.conns \ gone,
         tails |-> [p \in DOMAIN n.tails \ gone |-> n.tails[p]],
         down  |-> [c \in Clients |-> n.down[c] \o Sent(c)],
         ok    |-> n.ok /\ Cardinality(closed) < 2]

\* the state after a handler that ended with n
Commit(n) ==
    /\ conns' = n.conns /\ tails' = n.tails /\ down' = n.down
    /\ crashed' = IF n.ok THEN "no" ELSE "recursion"

\* the process ends in the handler
ServerCrash(why) ==
    /\ crashed' = why
    /\ UNCHANGED <<conns, open, tails, powerups, spawnpoints, gameStarted, fill, killed,
                   deadAtJoin, client, down>>

----------------------------------------------------------------------------
(* Server on its context thread *)

Filled == Cardinality(powerups) >= fill

\* the accept handler with OnClientConnect
Accept(c) ==
    /\ crashed = "no" /\ Filled
    /\ client[c].phase = "off" /\ \A d \in Clients : d < c => client[d].phase # "off"
    /\ spawnpoints # <<>> /\ ~gameStarted
    /\ conns' = conns \cup {c}
    /\ open' = open \cup {c}
    /\ client' = [client EXCEPT ![c].phase = "waiting"]
    /\ UNCHANGED <<tails, powerups, spawnpoints, gameStarted, fill, crashed, up, down,
                   bounds, killed, deadAtJoin>>

\* the message ServerValidation
Welcome(c, players) ==
    [type |-> "ServerValidation", who |-> c, powerups |-> powerups,
     bodies |-> [p \in DOMAIN players |-> Pushed(players[p])]]

PowerupCount(n) == ((n % 2) * n) \div 2 + 1

\* OnClientValidated, once for every client
OnClientValidated(c) ==
    /\ crashed = "no" /\ Filled
    /\ c \in open \ DOMAIN tails
    /\ IF spawnpoints = <<>> THEN ServerCrash("no spawnpoint")
       ELSE LET tail == <<spawnpoints[Len(spawnpoints)]>>
                players == With(tails, c, tail)
                welcomed == [Now EXCEPT !.tails = players,
                                        !.down[c] = Append(@, Welcome(c, players))]
                n == Broadcast(welcomed,
                               [type |-> "NewPlayer", who |-> c, body |-> Pushed(tail)], c)
            IN  /\ Commit(n)
                /\ spawnpoints' = SubSeq(spawnpoints, 1, Len(spawnpoints) - 1)
                /\ fill' = PowerupCount(Cardinality(DOMAIN n.tails))
                /\ deadAtJoin' = [deadAtJoin EXCEPT ![c] = killed]
                /\ UNCHANGED <<open, powerups, gameStarted, client, killed>>
    /\ UNCHANGED <<up, bounds>>

----------------------------------------------------------------------------
(* Powerups *)

\* GetFreeGrid
FreeGrid(players, occupied) ==
    Cells \ (occupied \cup UNION {Elements(players[p]) : p \in DOMAIN players})

\* where GeneratePowerup may put a powerup
Candidates(free) == IF free \cap PowerupCells # {} THEN free \cap PowerupCells ELSE free

\* GeneratePowerup, with the players and the powerups of that moment
GeneratePowerup(n, present) ==
    LET free == FreeGrid(n.tails, present)
    IN  IF free = {} THEN ServerCrash("full grid")
        ELSE \E p \in Candidates(free) :
               /\ powerups' = present \cup {p}
               /\ Commit(Broadcast(n, At("NewPowerup", p), Null))
               /\ UNCHANGED <<open, spawnpoints, gameStarted, fill, killed, deadAtJoin, client>>

\* the loop at the end of OnClientValidated
Fill ==
    /\ crashed = "no" /\ ~Filled
    /\ GeneratePowerup(Now, powerups)
    /\ UNCHANGED <<up, bounds>>

----------------------------------------------------------------------------
(* Server on its main thread: OnMessage *)

\* the next message of c is m
Takes(c, type) ==
    /\ crashed = "no" /\ up[c] # <<>> /\ Head(up[c]).type = type
    /\ up' = [up EXCEPT ![c] = Tail(@)]

\* the eaten powerup is not erased
NotDeleted(p) == powerups

\* DeletePowerup at the server: the powerup may be gone already
Deleted(p) == powerups \ {p}

\* DeletePowerup, whose broadcast leaves the eater out, then GeneratePowerup
PowerupEaten(c) ==
    /\ Takes(c, "PowerupEaten")
    /\ LET p == Head(up[c]).cell
       IN  GeneratePowerup(Broadcast(Now, At("PowerupEaten", p), c), Deleted(p))
    /\ UNCHANGED bounds

\* PlayerCollision compares the head of c with somebody's tail
Compares(players, c) == \E p \in DOMAIN players \ {c} : players[p] # <<>>

\* the first part of the own tail that counts, tail[4]
OwnFrom == 5

\* the head is found in a tail
Collides(players, c, head) ==
    \/ \E i \in OwnFrom..Len(players[c]) : players[c][i] = head
    \/ \E p \in DOMAIN players \ {c} : head \in Elements(players[p])

\* the broadcast, players.at, the new tail and PlayerCollision
UpdatePlayer(c) ==
    /\ Takes(c, "UpdatePlayer")
    /\ LET m == Head(up[c])
           n == Broadcast(Now, m, c)
           players == With(n.tails, c, Popped(m.body))
           updated == [n EXCEPT !.tails = players]
       IN  \/ ~n.ok /\ ServerCrash("recursion")
           \/ n.ok /\ c \notin DOMAIN n.tails /\ ServerCrash("at")
           \/ /\ n.ok /\ c \in DOMAIN n.tails
              /\ players[c] = <<>> /\ Compares(players, c)
              /\ ServerCrash("empty tail")
           \/ /\ n.ok /\ c \in DOMAIN n.tails
              /\ \E head \in GetHead(players[c]) :
                   IF Collides(players, c, head)
                     THEN /\ Commit(Broadcast(updated, About("KillPlayer", c), Null))
                          /\ killed' = killed \cup {c}
                     ELSE Commit(updated) /\ UNCHANGED killed
              /\ UNCHANGED <<open, powerups, spawnpoints, gameStarted, fill, deadAtJoin, client>>
    /\ UNCHANGED bounds

\* the client that sent the message is left out
NotSender(c) == c

\* whom MessageAllClients leaves out when the game starts
NotToldOfStart(c) == Null

StartGame(c) ==
    /\ Takes(c, "StartGame")
    /\ gameStarted' = TRUE
    /\ Commit(Broadcast(Now, Head(up[c]), NotToldOfStart(c)))
    /\ UNCHANGED <<open, powerups, spawnpoints, fill, killed, deadAtJoin, client, bounds>>

----------------------------------------------------------------------------
(* The client's messages: SnakeClient::HandleMessages *)

\* players[p], which makes the player if there is none
PlayerOf(players, p) == IF p \in DOMAIN players THEN players[p] ELSE DefaultPlayer

\* players of the snapshot are made anew, others stay
Snapshot(players, bodies) ==
    [p \in DOMAIN players \cup DOMAIN bodies |->
        IF p \in DOMAIN bodies THEN NewPlayer(Popped(bodies[p])) ELSE players[p]]

\* what client s makes of m
Applied(s, m) ==
    CASE m.type = "ServerValidation" ->
           [s EXCEPT !.phase = "entering", !.powerups = Received(m.powerups),
                     !.players = Snapshot(@, m.bodies)]
      [] m.type = "NewPlayer" ->
           [s EXCEPT !.players = With(@, m.who, NewPlayer(Popped(m.body)))]
      [] m.type = "RemovePlayer" ->
           [s EXCEPT !.players = Without(@, m.who)]
      [] m.type = "NewPowerup" ->
           [s EXCEPT !.powerups = Added(@, m.cell)]
      [] m.type = "UpdatePlayer" ->
           [s EXCEPT !.players = With(@, m.who,
               [SetDirection(PlayerOf(@, m.who), m.direction) EXCEPT !.tail = Popped(m.body)])]
      [] m.type = "PowerupEaten" ->
           [s EXCEPT !.powerups = Erased(@, m.cell)]
      [] m.type = "StartGame" ->
           [s EXCEPT !.started = TRUE]
      [] m.type = "KillPlayer" ->
           [s EXCEPT !.players = With(@, m.who, Kill(PlayerOf(@, m.who)))]

\* in the loop that waits for the ID, and in a frame
Handle(c) ==
    /\ crashed = "no"
    /\ client[c].phase \in {"waiting", "entering", "handling"} /\ down[c] # <<>>
    /\ client' = [client EXCEPT ![c] = Applied(@, Head(down[c]))]
    /\ down' = [down EXCEPT ![c] = Tail(@)]
    /\ UNCHANGED <<server, up, bounds>>

----------------------------------------------------------------------------
(* The client's main loop and keyboard *)

\* main is between two frames, or its first frame is next
Polling(c) == client[c].phase \in {"entering", "idle"}

MoveAll(players) == [p \in DOMAIN players |-> Move(players[p])]

\* the frame reads the head of an empty tail, or asks a grid that is not there
Misreads(s, c) ==
    \/ \E p \in DOMAIN s.players : Stuck(s.players[p])
    \/ PlayerOf(s.players, c).tail = <<>> /\ Present(s.powerups) # {}

\* EatPowerup
Eaten(s, c, p) ==
    [s EXCEPT !.players = With(@, c, AddLength(PlayerOf(@, c), 1)), !.powerups = Erased(@, p)]

\* a frame up to HandleMessages: all players move, and the own one may eat
Frame(c) ==
    LET s == [client[c] EXCEPT !.players = MoveAll(@), !.phase = "handling"]
    IN  /\ crashed = "no" /\ Polling(c) /\ frames < MaxFrames
        /\ \A p \in DOMAIN s.players : Stuck(s.players[p]) => s.players[p].grid
        /\ \E p \in GetHead(PlayerOf(s.players, c).tail) :
             IF p \in Present(s.powerups)
               THEN /\ client' = [client EXCEPT ![c] = Eaten(s, c, p)]
                    /\ up' = [up EXCEPT ![c] = Append(@, At("PowerupEaten", p))]
               ELSE client' = [client EXCEPT ![c] = s] /\ UNCHANGED up
        /\ frames' = frames + 1
        /\ UNCHANGED <<server, down, keys, left>>

\* the end of a frame
UpdateServer(c) ==
    LET player == PlayerOf(client[c].players, c)
    IN  /\ crashed = "no" /\ client[c].phase = "handling"
        /\ client' = [client EXCEPT ![c].phase = "idle", ![c].players = With(@, c, player)]
        /\ up' = [up EXCEPT ![c] = Append(@,
               [type |-> "UpdatePlayer", who |-> c, direction |-> player.direction,
                body |-> Pushed(player.tail)])]
        /\ UNCHANGED <<server, down, bounds>>

\* key_callback, a key of movement
Turn(c, d) ==
    /\ crashed = "no" /\ Polling(c) /\ keys < MaxKeys
    /\ PlayerOf(client[c].players, c).direction # Opposite(d)
    /\ client' = [client EXCEPT ![c].phase = "idle",
                                ![c].players = With(@, c, SetDirection(PlayerOf(@, c), d))]
    /\ keys' = keys + 1
    /\ UNCHANGED <<server, up, down, frames, left>>

\* key_callback, the key P: AttemptGameStart
AttemptGameStart(c) ==
    /\ crashed = "no" /\ Polling(c) /\ keys < MaxKeys
    /\ ~client[c].started
    /\ client' = [client EXCEPT ![c].phase = "idle"]
    /\ up' = [up EXCEPT ![c] = Append(@, [type |-> "StartGame"])]
    /\ keys' = keys + 1
    /\ UNCHANGED <<server, down, frames, left>>

\* the client's process ends and its socket with it; the last of what it sent
\* may be lost
Gone(c) ==
    /\ open' = open \ {c}
    /\ client' = [client EXCEPT ![c] = [phase |-> "gone", players |-> NoFunction,
                                        powerups |-> NoPowerups, started |-> FALSE]]
    /\ down' = [down EXCEPT ![c] = <<>>]
    /\ \E k \in 0..Len(up[c]) : up' = [up EXCEPT ![c] = SubSeq(@, 1, k)]
    /\ UNCHANGED <<conns, tails, powerups, spawnpoints, gameStarted, fill, crashed, killed, deadAtJoin>>

\* the player closes the window, or the connection fails
Leave(c) ==
    /\ crashed = "no" /\ client[c].phase \notin {"off", "gone"} /\ left < MaxLeave
    /\ Gone(c)
    /\ left' = left + 1
    /\ UNCHANGED <<frames, keys>>

\* a frame that ends the client's process
FrameCrash(c) ==
    /\ crashed = "no" /\ Polling(c) /\ frames < MaxFrames
    /\ Misreads([client[c] EXCEPT !.players = MoveAll(@)], c)
    /\ Gone(c)
    /\ frames' = frames + 1
    /\ UNCHANGED <<keys, left>>

----------------------------------------------------------------------------
Next ==
    \/ Fill
    \/ \E c \in Clients :
         \/ Accept(c) \/ OnClientValidated(c)
         \/ PowerupEaten(c) \/ UpdatePlayer(c) \/ StartGame(c)
         \/ Handle(c) \/ Frame(c) \/ FrameCrash(c) \/ UpdateServer(c)
         \/ AttemptGameStart(c) \/ Leave(c)
         \/ \E d \in Direction : Turn(c, d)

Spec == Init /\ [][Next]_vars

----------------------------------------------------------------------------
(* Properties *)

Playing == {c \in open : client[c].phase \notin {"waiting"}}

\* c has handled all that was sent to it.
UpToDate(c) == c \in Playing \cap DOMAIN tails /\ down[c] = <<>>

\* The server has handled all that c sent, and c is between two frames.
Heard(c) == up[c] = <<>> /\ client[c].phase # "handling"

Snakes ==
    [alive : BOOLEAN, food : Nat, direction : Direction, grid : BOOLEAN, tail : Seq(Cells)]

\* Type invariant: every position of a snake or a powerup, wherever it is kept,
\* is on the grid; the server indexes an array with them.
TypeOK ==
    /\ conns \subseteq Clients /\ open \subseteq conns
    /\ DOMAIN tails \subseteq conns /\ tails \in [DOMAIN tails -> Seq(Cells)]
    /\ powerups \subseteq Cells /\ spawnpoints \in Seq(Cells)
    /\ gameStarted \in BOOLEAN /\ fill \in Nat
    /\ crashed \in {"no", "at", "empty tail", "recursion", "no spawnpoint", "full grid"}
    /\ client \in [Clients ->
         [phase    : {"off", "waiting", "entering", "idle", "handling", "gone"},
          players  : {client[c].players : c \in Clients},
          powerups : [Cells -> Nat],
          started  : BOOLEAN]]
    /\ \A c \in Clients :
         LET players == client[c].players
         IN  DOMAIN players \subseteq Clients /\ players \in [DOMAIN players -> Snakes]
    /\ killed \subseteq Clients /\ deadAtJoin \in [Clients -> SUBSET Clients]

\* c has said that it ate the powerup at p, and the server has not heard it yet
Claimed(c, p) == \E i \in DOMAIN up[c] : up[c][i] = At("PowerupEaten", p)

\* m puts a powerup at p, or takes it away
Puts(m, p) ==
    \/ m.type = "NewPowerup" /\ m.cell = p
    \/ m.type = "ServerValidation" /\ p \in m.powerups

Removes(m, p) ==
    \/ m.type = "PowerupEaten" /\ m.cell = p
    \/ m.type = "ServerValidation" /\ p \notin m.powerups

\* what is under way to c ends with a powerup at p on c
Arrives(c, p) ==
    \E i \in DOMAIN down[c] :
        Puts(down[c][i], p) /\ \A j \in DOMAIN down[c] : j > i => ~Removes(down[c][j], p)

\* c has a powerup at p, and nothing under way takes it away
Has(c, p) ==
    p \in Present(client[c].powerups) /\ \A i \in DOMAIN down[c] : ~Removes(down[c][i], p)

\* No powerup is lost: each one the server counts is there, or on its way, on
\* every client that has been validated, or that client has just eaten it.
\* DeletePowerup leaves the eater out of its broadcast, two clients may eat the
\* same powerup, and a new one may come up where the last one was.
PowerupEverywhere ==
    crashed = "no" =>
        \A c \in open \cap DOMAIN tails, p \in powerups :
            Claimed(c, p) \/ Arrives(c, p) \/ Has(c, p)

\* The server has the snake of a client it has heard, and whoever is up to date
\* has it at its length, although every client moves all of the snakes.
SnakesAgree ==
    crashed = "no" =>
        \A c \in {x \in Clients : UpToDate(x) /\ Heard(x)} :
            /\ client[c].players[c].tail = tails[c]
            /\ \A d \in {x \in Clients : UpToDate(x)} :
                 /\ c \in DOMAIN client[d].players
                 /\ Len(client[d].players[c].tail) = Len(tails[c])

\* A player who knows of being killed, and has said so, has no tail anywhere,
\* and a client that is up to date neither shows nor moves a player who is gone,
\* although updates of both may have been under way and KillPlayer may come
\* after RemovePlayer.
DeadAreGone ==
    crashed = "no" =>
        \A c \in {x \in Clients : UpToDate(x)} :
            /\ \A p \in {x \in killed : UpToDate(x) /\ Heard(x)} :
                 tails[p] = <<>> /\ client[c].players[p].tail = <<>>
            /\ \A p \in DOMAIN client[c].players \ conns :
                 ~client[c].players[p].alive /\ client[c].players[p].tail = <<>>

\* A client can always move the players it takes to be alive: each has a head
\* and a grid, whoever joined or left meanwhile, unless it was dead before the
\* client joined.
AliveCanMove ==
    crashed = "no" =>
        \A c \in Playing : \A p \in DOMAIN client[c].players \ deadAtJoin[c] :
            ~Stuck(client[c].players[p])

\* A client that is up to date knows whether the game has started, also one that
\* was accepted before and validated after the start.
StartKnown ==
    crashed = "no" =>
        \A c \in {x \in Clients : UpToDate(x)} : client[c].started = gameStarted

\* As long as nobody has been killed, nobody reads the head of an empty tail.
OnlyDeathEmpties ==
    killed = {} =>
        /\ crashed # "empty tail"
        /\ \A c \in Playing : client[c].players[c].tail # <<>>

\* "Don't move if dead" (Snek/player.cpp:11): the game goes on with a dead player,
\* neither the server nor a client ends because of one.
DeathIsSurvived ==
    /\ crashed # "empty tail"
    /\ \A c \in Playing : ~(Polling(c) /\ Misreads([client[c] EXCEPT !.players = MoveAll(@)], c))

============================================================================
