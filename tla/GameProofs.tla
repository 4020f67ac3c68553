----------------------------- MODULE GameProofs -----------------------------
(***************************************************************************)
(* What the game keeps on a grid of any size, for any number of clients,   *)
(* frames, keys and departures.                                            *)
(***************************************************************************)
EXTENDS Game, PlayerProofs, FiniteSetTheorems, SequenceTheorems

----------------------------------------------------------------------------
(* The values of the state *)

\* maps from some of the clients, as players is
Maps(S) == UNION {[D -> S] : D \in SUBSET Clients}

\* what a client can be
States ==
    [phase    : {"off", "waiting", "entering", "idle", "handling", "gone"},
     players  : Maps(Snakes),
     powerups : [Cells -> Nat],
     started  : BOOLEAN]


\* the body of a message that carries a tail
Bodies == {Pushed(t) : t \in Seq(Cells)}

Mail ==
    [type : {"ServerValidation"}, who : Clients, powerups : SUBSET Cells, bodies : Maps(Bodies)]
    \cup [type : {"NewPlayer"}, who : Clients, body : Bodies]
    \cup [type : {"UpdatePlayer"}, who : Clients, direction : Direction, body : Bodies]
    \cup [type : {"RemovePlayer", "KillPlayer"}, who : Clients]
    \cup [type : {"NewPowerup", "PowerupEaten"}, cell : Cells]
    \cup [type : {"StartGame"}]

\* what clients send
Reports ==
    [type : {"PowerupEaten"}, cell : Cells]
    \cup [type : {"UpdatePlayer"}, who : Clients, direction : Direction, body : Bodies]
    \cup [type : {"StartGame"}]

\* m can be sent to c: its own welcome has its snake, and nobody is told to
\* remove the own one
For(c, m) ==
    /\ m.type = "ServerValidation" => c \in DOMAIN m.bodies
    /\ m.type = "RemovePlayer" => m.who # c

\* m tells of no death
Lively(m) ==
    /\ m.type # "KillPlayer"
    /\ m.type \in {"NewPlayer", "UpdatePlayer"} => Popped(m.body) # <<>>
    /\ m.type = "ServerValidation" => \A p \in DOMAIN m.bodies : Popped(m.bodies[p]) # <<>>

\* a powerup at p is put by d, and not taken away behind it
ArrivesIn(d, p) ==
    \E i \in DOMAIN d : Puts(d[i], p) /\ \A j \in DOMAIN d : j > i => ~Removes(d[j], p)

\* nothing in d takes a powerup at p away
Spares(d, p) == \A i \in DOMAIN d : ~Removes(d[i], p)

\* d tells of the start
Starts(d) == \E i \in DOMAIN d : d[i].type = "StartGame"

----------------------------------------------------------------------------
(* The inductive invariant *)

\* What is under way can be read.
Mailed ==
    /\ up \in [Clients -> Seq(Reports)] /\ down \in [Clients -> Seq(Mail)]
    /\ \A c \in Clients : \A i \in DOMAIN down[c] : For(c, down[c][i])

\* A client is new until it is accepted, and has its own snake once it plays.
Roster ==
    \A c \in Clients :
        /\ client[c].phase = "off" => c \notin conns /\ down[c] = <<>> /\ ~client[c].started
        /\ c \in open => client[c].phase \notin {"off", "gone"}
        /\ client[c].phase \in {"entering", "idle", "handling"} => c \in DOMAIN client[c].players

\* A client knows of the start, or will, exactly when there was one.
Told == \A c \in open : gameStarted <=> (client[c].started \/ Starts(down[c]))

\* Until somebody is killed, every tail has a head, wherever it is.
Living ==
    killed = {} =>
        /\ crashed # "empty tail"
        /\ \A p \in DOMAIN tails : tails[p] # <<>>
        /\ \A c \in Clients :
             /\ \A p \in DOMAIN client[c].players : client[c].players[p].tail # <<>>
             /\ \A i \in DOMAIN up[c] : Lively(up[c][i])
             /\ \A i \in DOMAIN down[c] : Lively(down[c][i])

IInv == TypeOK /\ Mailed /\ Roster /\ Told /\ Living /\ PowerupEverywhere

----------------------------------------------------------------------------
(* Player's operators *)

\* The tail that is read from the body of a message is on the grid.
LEMMA BodyPopped ==
    ASSUME NEW b \in Bodies
    PROVE  Popped(b) \in Seq(Cells)
  BY TailRoundTrip DEF Bodies

\* The tail that is written to a body is the one that is read.
LEMMA BodyPushed ==
    ASSUME NEW t \in Seq(Cells)
    PROVE  Pushed(t) \in Bodies /\ Popped(Pushed(t)) = t
  BY TailRoundTrip DEF Bodies

\* A snake that moves stays on the grid and keeps a head.
LEMMA AdvancedType ==
    ASSUME NEW p \in Snakes, p.tail # <<>>
    PROVE  Advanced(p) \in Snakes /\ Advanced(p).tail # <<>>
<1> DEFINE front == Ahead(Head(p.tail), p.direction)
           longer == <<front>> \o p.tail
           shorter == SubSeq(longer, 1, Len(p.tail))
<1>1. p.tail \in Seq(Cells) /\ p.direction \in Direction /\ p.food \in Nat
  BY DEF Snakes
<1>2. Head(p.tail) \in Cells /\ Len(p.tail) \in Nat /\ Len(p.tail) > 0
  BY <1>1
<1>3. front \in Cells
  BY <1>1, <1>2, AheadOnGrid
<1> HIDE DEF front
<1>4. longer \in Seq(Cells) /\ Len(longer) = Len(p.tail) + 1
  BY <1>1, <1>3
<1> HIDE DEF longer
<1>5. shorter \in Seq(Cells) /\ Len(shorter) = Len(p.tail)
  BY <1>2, <1>4
<1> HIDE DEF shorter
<1>6. longer # <<>> /\ shorter # <<>>
  BY <1>2, <1>4, <1>5
<1>7. Advanced(p) = IF p.food > 0 THEN [p EXCEPT !.food = @ - 1, !.tail = longer]
                    ELSE [p EXCEPT !.tail = shorter]
  BY DEF Advanced, longer, front, shorter
<1>8. CASE p.food > 0
  <2>1. p.food - 1 \in Nat
    BY <1>1, <1>8
  <2> QED  BY <1>4, <1>6, <1>7, <1>8, <2>1 DEF Snakes
<1>9. CASE ~(p.food > 0)
  BY <1>5, <1>6, <1>7, <1>9 DEF Snakes
<1> QED  BY <1>8, <1>9

\* What Player's operations keep of a snake.
LEMMA SnakeTypes ==
    /\ \A t \in Seq(Cells) : NewPlayer(t) \in Snakes /\ NewPlayer(t).tail = t
    /\ DefaultPlayer \in Snakes
    /\ \A p \in Snakes :
         /\ Move(p) \in Snakes /\ (p.tail # <<>> => Move(p).tail # <<>>)
         /\ AddLength(p, 1) \in Snakes /\ AddLength(p, 1).tail = p.tail
         /\ Kill(p) \in Snakes
         /\ \A d \in Direction : SetDirection(p, d) \in Snakes /\ SetDirection(p, d).tail = p.tail
         /\ \A t \in Seq(Cells) : [p EXCEPT !.tail = t] \in Snakes /\ [p EXCEPT !.tail = t].tail = t
<1>1. \A t \in Seq(Cells) : NewPlayer(t) \in Snakes /\ NewPlayer(t).tail = t
  BY DEF NewPlayer, Snakes, Direction
<1>2. DefaultPlayer \in Snakes
  <2>1. <<>> \in Seq(Cells)
    OBVIOUS
  <2> QED  BY <2>1 DEF DefaultPlayer, NewPlayer, Snakes, Direction
<1> SUFFICES ASSUME NEW p \in Snakes
             PROVE  /\ Move(p) \in Snakes /\ (p.tail # <<>> => Move(p).tail # <<>>)
                    /\ AddLength(p, 1) \in Snakes /\ AddLength(p, 1).tail = p.tail
                    /\ Kill(p) \in Snakes
                    /\ \A d \in Direction : SetDirection(p, d) \in Snakes /\ SetDirection(p, d).tail = p.tail
                    /\ \A t \in Seq(Cells) : [p EXCEPT !.tail = t] \in Snakes /\ [p EXCEPT !.tail = t].tail = t
  BY <1>1, <1>2
<1>3. Move(p) \in Snakes /\ (p.tail # <<>> => Move(p).tail # <<>>)
  BY AdvancedType DEF Move
<1>4. AddLength(p, 1) \in Snakes /\ AddLength(p, 1).tail = p.tail
  BY DEF AddLength, Snakes
<1>5. Kill(p) \in Snakes
  <2>1. <<>> \in Seq(Cells)
    OBVIOUS
  <2> QED  BY <2>1 DEF Kill, Snakes
<1>6. \A d \in Direction : SetDirection(p, d) \in Snakes /\ SetDirection(p, d).tail = p.tail
  BY DEF SetDirection, Snakes
<1>7. \A t \in Seq(Cells) : [p EXCEPT !.tail = t] \in Snakes /\ [p EXCEPT !.tail = t].tail = t
  BY DEF Snakes
<1> QED  BY <1>3, <1>4, <1>5, <1>6, <1>7

----------------------------------------------------------------------------
(* Maps from clients *)

\* What a map is.
LEMMA MapType ==
    ASSUME NEW S, NEW f \in Maps(S)
    PROVE  /\ DOMAIN f \subseteq Clients /\ (\A p \in DOMAIN f : f[p] \in S)
           /\ f = [p \in DOMAIN f |-> f[p]]
  BY DEF Maps

\* A function on some of the clients is a map.
LEMMA MapMade ==
    ASSUME NEW S, NEW D \in SUBSET Clients, NEW f, f \in [D -> S]
    PROVE  f \in Maps(S)
  BY DEF Maps

\* g is f but for v at k
Widened(S, f, k, v, g) ==
    /\ g \in Maps(S) /\ DOMAIN g = DOMAIN f \cup {k} /\ g[k] = v
    /\ \A p \in DOMAIN f : p # k => g[p] = f[p]

\* A map with one more player.
LEMMA WithType ==
    ASSUME NEW S, NEW f \in Maps(S), NEW k \in Clients, NEW v \in S
    PROVE  Widened(S, f, k, v, With(f, k, v))
<1> DEFINE g == With(f, k, v)
<1>1. DOMAIN f \subseteq Clients /\ \A p \in DOMAIN f : f[p] \in S
  BY MapType
<1>2. g \in [DOMAIN f \cup {k} -> S]
  BY <1>1 DEF With
<1>3. DOMAIN f \cup {k} \in SUBSET Clients
  BY <1>1
<1>4. g \in Maps(S)
  BY <1>2, <1>3, MapMade
<1> QED  BY <1>2, <1>4 DEF With, Widened

\* A map with one player less.
LEMMA WithoutType ==
    ASSUME NEW S, NEW f \in Maps(S), NEW k
    PROVE  /\ Without(f, k) \in Maps(S) /\ DOMAIN Without(f, k) = DOMAIN f \ {k}
           /\ \A p \in DOMAIN f \ {k} : Without(f, k)[p] = f[p]
<1>1. DOMAIN f \subseteq Clients /\ \A p \in DOMAIN f : f[p] \in S
  BY MapType
<1>2. Without(f, k) \in [DOMAIN f \ {k} -> S] /\ DOMAIN f \ {k} \in SUBSET Clients
  BY <1>1 DEF Without
<1> QED  BY <1>2, MapMade DEF Without

\* TypeOK with these sets
Typed ==
    /\ conns \subseteq Clients /\ open \subseteq conns
    /\ tails \in Maps(Seq(Cells)) /\ DOMAIN tails \subseteq conns
    /\ powerups \subseteq Cells /\ spawnpoints \in Seq(Cells)
    /\ gameStarted \in BOOLEAN /\ fill \in Nat
    /\ crashed \in {"no", "at", "empty tail", "recursion", "no spawnpoint", "full grid"}
    /\ client \in [Clients -> States]
    /\ killed \subseteq Clients /\ deadAtJoin \in [Clients -> SUBSET Clients]

\* TypeOK in two forms.
LEMMA TypeIs == TypeOK <=> Typed
<1>1. \A S, f : f \in Maps(S) <=> DOMAIN f \subseteq Clients /\ f \in [DOMAIN f -> S]
  BY DEF Maps
<1>2. conns \subseteq Clients /\ DOMAIN tails \subseteq conns =>
        (tails \in Maps(Seq(Cells)) <=> tails \in [DOMAIN tails -> Seq(Cells)])
  BY <1>1
<1> DEFINE A == client \in [Clients ->
         [phase    : {"off", "waiting", "entering", "idle", "handling", "gone"},
          players  : {client[c].players : c \in Clients},
          powerups : [Cells -> Nat],
          started  : BOOLEAN]]
           B == \A c \in Clients :
             LET players == client[c].players
             IN  DOMAIN players \subseteq Clients /\ players \in [DOMAIN players -> Snakes]
<1>3. ASSUME A, B PROVE client \in [Clients -> States]
  <2>1. \A c \in Clients : client[c].players \in Maps(Snakes)
    BY <1>1, <1>3
  <2> QED  BY <1>3, <2>1 DEF States
<1>4. ASSUME client \in [Clients -> States] PROVE A /\ B
  <2>1. \A c \in Clients : client[c] \in States /\ client[c].players \in Maps(Snakes)
    BY <1>4 DEF States
  <2>2. B
    BY <1>1, <2>1
  <2>3. A
    BY <1>4, <2>1 DEF States
  <2> QED  BY <2>2, <2>3
<1> HIDE DEF A, B
<1>5. A /\ B <=> client \in [Clients -> States]
  BY <1>3, <1>4
<1> QED  BY <1>2, <1>5 DEF TypeOK, Typed, A, B

----------------------------------------------------------------------------
(* What a message is *)

\* What a message of each type carries.
LEMMA MailFields ==
    ASSUME NEW m \in Mail
    PROVE  /\ m.type \in {"ServerValidation", "NewPlayer", "UpdatePlayer", "RemovePlayer",
                          "KillPlayer", "NewPowerup", "PowerupEaten", "StartGame"}
           /\ m.type = "ServerValidation" => m.powerups \in SUBSET Cells /\ m.bodies \in Maps(Bodies)
           /\ m.type \in {"NewPlayer", "UpdatePlayer"} => m.body \in Bodies
           /\ m.type \in {"NewPlayer", "UpdatePlayer", "RemovePlayer", "KillPlayer"} => m.who \in Clients
           /\ m.type = "UpdatePlayer" => m.direction \in Direction
           /\ m.type \in {"NewPowerup", "PowerupEaten"} => m.cell \in Cells
  BY DEF Mail

\* What clients send can be relayed.
LEMMA ReportIsMail ==
    /\ Reports \subseteq Mail
    /\ \A m \in Reports : m.type \in {"PowerupEaten", "UpdatePlayer", "StartGame"}
  BY DEF Reports, Mail

\* The messages that are made.
LEMMA MailMade ==
    /\ \A c \in Clients : About("RemovePlayer", c) \in Mail /\ About("KillPlayer", c) \in Mail
    /\ \A p \in Cells : At("NewPowerup", p) \in Mail /\ At("PowerupEaten", p) \in Mail
    /\ \A p \in Cells : At("PowerupEaten", p) \in Reports
    /\ \A c \in Clients, b \in Bodies : [type |-> "NewPlayer", who |-> c, body |-> b] \in Mail
    /\ \A c \in Clients, d \in Direction, b \in Bodies :
         [type |-> "UpdatePlayer", who |-> c, direction |-> d, body |-> b] \in Reports
    /\ [type |-> "StartGame"] \in Reports
<1>1. \A c \in Clients : About("RemovePlayer", c) \in Mail /\ About("KillPlayer", c) \in Mail
  BY DEF About, Mail
<1>2. \A p \in Cells : At("NewPowerup", p) \in Mail /\ At("PowerupEaten", p) \in Mail
  BY DEF At, Mail
<1>3. \A p \in Cells : At("PowerupEaten", p) \in Reports
  BY DEF At, Reports
<1>4. \A c \in Clients, b \in Bodies : [type |-> "NewPlayer", who |-> c, body |-> b] \in Mail
  BY DEF Mail
<1>5. \A c \in Clients, d \in Direction, b \in Bodies :
         [type |-> "UpdatePlayer", who |-> c, direction |-> d, body |-> b] \in Reports
  BY DEF Reports
<1>6. [type |-> "StartGame"] \in Reports
  BY DEF Reports
<1> QED  BY <1>1, <1>2, <1>3, <1>4, <1>5, <1>6

\* The notice about a client that has left.
LEMMA NoticeIs ==
    ASSUME NEW x
    PROVE  LET r == About("RemovePlayer", x)
           IN  /\ r.type = "RemovePlayer" /\ r.who = x /\ Lively(r)
               /\ \A p : ~Removes(r, p) /\ ~Puts(r, p)
  BY DEF About, Lively, Removes, Puts

----------------------------------------------------------------------------
(* Messages under way *)

\* What is appended goes behind what was there.
LEMMA Behind ==
    ASSUME NEW S, NEW d \in Seq(S), NEW s \in Seq(S)
    PROVE  /\ d \o s \in Seq(S) /\ Len(d \o s) = Len(d) + Len(s)
           /\ \A i \in DOMAIN d : i \in DOMAIN (d \o s) /\ (d \o s)[i] = d[i]
           /\ \A i \in DOMAIN s : Len(d) + i \in DOMAIN (d \o s) /\ (d \o s)[Len(d) + i] = s[i]
           /\ \A i \in DOMAIN (d \o s) :
                i \in DOMAIN d \/ (i > Len(d) /\ i - Len(d) \in DOMAIN s /\ (d \o s)[i] = s[i - Len(d)])
  OBVIOUS

\* Powerups, when messages are appended that take none away.
LEMMA PowerBehind ==
    ASSUME NEW d \in Seq(Mail), NEW s \in Seq(Mail), NEW p, Spares(s, p)
    PROVE  /\ Spares(d, p) => Spares(d \o s, p)
           /\ ArrivesIn(d, p) => ArrivesIn(d \o s, p)
           /\ (\E i \in DOMAIN s : Puts(s[i], p)) => ArrivesIn(d \o s, p)
<1> DEFINE e == d \o s
<1>1. /\ Len(d) \in Nat /\ DOMAIN d = 1..Len(d) /\ DOMAIN s = 1..Len(s) /\ Len(s) \in Nat
      /\ DOMAIN e = 1..(Len(d) + Len(s))
  OBVIOUS
<1>2. /\ \A i \in DOMAIN d : i \in DOMAIN e /\ e[i] = d[i]
      /\ \A i \in DOMAIN s : Len(d) + i \in DOMAIN e /\ e[Len(d) + i] = s[i]
      /\ \A i \in DOMAIN e : i \in DOMAIN d \/ (i > Len(d) /\ i - Len(d) \in DOMAIN s /\ e[i] = s[i - Len(d)])
  BY Behind
<1> HIDE DEF e
<1>3. \A i \in DOMAIN e : i \notin DOMAIN d => ~Removes(e[i], p)
  BY <1>2 DEF Spares
<1>4. Spares(d, p) => Spares(e, p)
  BY <1>2, <1>3 DEF Spares
<1>5. ASSUME ArrivesIn(d, p) PROVE ArrivesIn(e, p)
  <2>1. PICK i \in DOMAIN d : Puts(d[i], p) /\ \A j \in DOMAIN d : j > i => ~Removes(d[j], p)
    BY <1>5 DEF ArrivesIn
  <2>2. \A j \in DOMAIN e : j > i => ~Removes(e[j], p)
    BY <1>2, <1>3, <2>1
  <2> QED  BY <1>2, <2>1, <2>2 DEF ArrivesIn
<1>6. ASSUME NEW i \in DOMAIN s, Puts(s[i], p) PROVE ArrivesIn(e, p)
  <2>1. \A j \in DOMAIN e : j > Len(d) + i => j \notin DOMAIN d
    BY <1>1
  <2> QED  BY <1>2, <1>3, <1>6, <2>1 DEF ArrivesIn
<1> QED  BY <1>4, <1>5, <1>6 DEF e

----------------------------------------------------------------------------
(* MessageAllClients *)

\* what a handler of the server has so far
Ledger(n) ==
    /\ n = [conns |-> n.conns, tails |-> n.tails, down |-> n.down, ok |-> n.ok]
    /\ n.conns \subseteq Clients /\ open \subseteq n.conns
    /\ n.tails \in Maps(Seq(Cells)) /\ DOMAIN n.tails \subseteq n.conns
    /\ n.down \in [Clients -> Seq(Mail)] /\ n.ok \in BOOLEAN
    /\ \A c \in Clients : \A i \in DOMAIN n.down[c] : For(c, n.down[c][i])

\* s is what c gets of a broadcast of m; it gets m itself unless it is left out
Share(c, m, ignore, s) ==
    /\ s \in Seq(Mail)
    /\ \A i \in DOMAIN s :
         \/ c # ignore /\ s[i] = m
         \/ \E x \in Clients : x # c /\ s[i] = About("RemovePlayer", x)
    /\ c # ignore => \E i \in DOMAIN s : s[i] = m

\* Short sequences of messages.
LEMMA Short ==
    ASSUME NEW m, NEW r
    PROVE  /\ <<m>> \o <<>> = <<m>> /\ <<>> \o <<m>> = <<m>> /\ <<>> \o <<>> = <<>>
           /\ <<m>> \o <<r>> = <<m, r>>
<1>1. <<m>> \in Seq({m}) /\ <<>> \in Seq({m})
  OBVIOUS
<1>2. <<m>> \o <<>> = <<m>> /\ <<>> \o <<m>> = <<m>> /\ <<>> \o <<>> = <<>>
  BY <1>1, ConcatEmptySeq
<1>3. <<m>> \o <<r>> = <<m, r>>
  <2> DEFINE s == <<m>> \o <<r>>
             t == <<m, r>>
  <2>1. s \in Seq({m, r}) /\ Len(s) = 2 /\ s[1] = m /\ s[2] = r
    OBVIOUS
  <2>2. t \in Seq({m, r}) /\ Len(t) = 2 /\ t[1] = m /\ t[2] = r
    OBVIOUS
  <2> HIDE DEF s, t
  <2>3. \A i \in 1..Len(s) : s[i] = t[i]
    BY <2>1, <2>2
  <2>4. s = t
    BY <2>1, <2>2, <2>3, SeqEqual
  <2> QED  BY <2>4 DEF s, t
<1> QED  BY <1>2, <1>3

\* The two orders in which c gets the message and the notice.
LEMMA AroundIs ==
    ASSUME NEW c, NEW m \in Mail, NEW ignore, NEW gone, NEW notice,
           notice = <<>> \/ \E x \in Clients : x # c /\ notice = <<About("RemovePlayer", x)>>
    PROVE  Share(c, m, ignore, Around(c, gone, IF c = ignore THEN <<>> ELSE <<m>>, notice))
<1> DEFINE Sound(r) == r \in Mail /\ \E x \in Clients : x # c /\ r = About("RemovePlayer", x)
           own == IF c = ignore THEN <<>> ELSE <<m>>
<1>1. notice = <<>> \/ \E r : Sound(r) /\ notice = <<r>>
  BY MailMade
<1>2. Around(c, gone, own, notice) \in {own \o notice, notice \o own}
  BY DEF Around
<1>3. c # ignore => Share(c, m, ignore, <<m>>)
  BY DEF Share
<1>4. c = ignore => Share(c, m, ignore, <<>>)
  BY DEF Share
<1>5. ASSUME NEW r, Sound(r), c = ignore PROVE Share(c, m, ignore, <<r>>)
  BY <1>5 DEF Share
<1>6. ASSUME NEW r, Sound(r), c # ignore PROVE Share(c, m, ignore, <<m, r>>)
  <2> DEFINE s == <<m, r>>
  <2>1. s \in Seq(Mail) /\ DOMAIN s = {1, 2} /\ s[1] = m /\ s[2] = r
    BY <1>6
  <2> HIDE DEF s
  <2>2. Share(c, m, ignore, s)
    BY <1>6, <2>1 DEF Share
  <2> QED  BY <2>2 DEF s
<1>7. ASSUME NEW r, Sound(r), c # ignore PROVE Share(c, m, ignore, <<r, m>>)
  <2> DEFINE s == <<r, m>>
  <2>1. s \in Seq(Mail) /\ DOMAIN s = {1, 2} /\ s[1] = r /\ s[2] = m
    BY <1>7
  <2> HIDE DEF s
  <2>2. Share(c, m, ignore, s)
    BY <1>7, <2>1 DEF Share
  <2> QED  BY <2>2 DEF s
<1> HIDE DEF Sound
<1>8. CASE c # ignore
  <2>1. own = <<m>>
    BY <1>8
  <2>2. ASSUME notice = <<>> PROVE Share(c, m, ignore, Around(c, gone, own, notice))
    BY <1>2, <1>3, <1>8, <2>1, <2>2, Short
  <2>3. ASSUME NEW r, Sound(r), notice = <<r>> PROVE Share(c, m, ignore, Around(c, gone, own, notice))
    BY <1>2, <1>6, <1>7, <1>8, <2>1, <2>3, Short
  <2> QED  BY <1>1, <1>8, <2>2, <2>3
<1>9. CASE c = ignore
  <2>1. own = <<>>
    BY <1>9
  <2>2. ASSUME notice = <<>> PROVE Share(c, m, ignore, Around(c, gone, own, notice))
    BY <1>2, <1>4, <1>9, <2>1, <2>2, Short
  <2>3. ASSUME NEW r, Sound(r), notice = <<r>> PROVE Share(c, m, ignore, Around(c, gone, own, notice))
    BY <1>2, <1>5, <1>9, <2>1, <2>3, Short
  <2> QED  BY <1>1, <1>9, <2>2, <2>3
<1> QED  BY <1>8, <1>9

\* r is what a broadcast of m makes of n, share by share
Reached(n, m, ignore, r) ==
    /\ Ledger(r) /\ (r.ok => n.ok) /\ r.conns \subseteq n.conns
    /\ DOMAIN r.tails \subseteq DOMAIN n.tails /\ \A p \in DOMAIN r.tails : r.tails[p] = n.tails[p]
    /\ \A c \in Clients \ open : r.down[c] = n.down[c]
    /\ \A c \in open : \E s : Share(c, m, ignore, s) /\ r.down[c] = n.down[c] \o s

\* A broadcast drops only clients that have left, and reaches all others.
LEMMA BroadcastIs ==
    ASSUME NEW n, Ledger(n), NEW m \in Mail, NEW ignore, \A c \in Clients : c = ignore \/ For(c, m),
           NEW r, r = Broadcast(n, m, ignore)
    PROVE  Reached(n, m, ignore, r)
<1> DEFINE closed == n.conns \ open
           gone == IF closed = {ignore} THEN {} ELSE closed
           x == CHOOSE y \in gone : TRUE
           Notice == IF gone = {} THEN <<>> ELSE <<About("RemovePlayer", x)>>
           Own(c) == IF c = ignore THEN <<>> ELSE <<m>>
           Sent(c) == IF c \in n.conns \cap open THEN Around(c, gone, Own(c), Notice) ELSE <<>>
<1>1. /\ n.conns \subseteq Clients /\ open \subseteq n.conns /\ n.tails \in Maps(Seq(Cells))
      /\ DOMAIN n.tails \subseteq n.conns /\ n.down \in [Clients -> Seq(Mail)] /\ n.ok \in BOOLEAN
      /\ \A c \in Clients : \A i \in DOMAIN n.down[c] : For(c, n.down[c][i])
  BY DEF Ledger
<1>2. r = [conns |-> n.conns \ gone,
           tails |-> [p \in DOMAIN n.tails \ gone |-> n.tails[p]],
           down  |-> [c \in Clients |-> n.down[c] \o Sent(c)],
           ok    |-> n.ok /\ Cardinality(closed) < 2]
  BY DEF Broadcast
<1>3. gone \subseteq n.conns \ open
  OBVIOUS
<1>4. ASSUME NEW c \in open PROVE Share(c, m, ignore, Sent(c))
  <2>1. Notice = <<>> \/ \E y \in Clients : y # c /\ Notice = <<About("RemovePlayer", y)>>
    <3>1. CASE gone = {}
      BY <3>1
    <3>2. CASE gone # {}
      <4>1. x \in gone
        BY <3>2
      <4>2. x \in Clients /\ x # c
        BY <1>1, <1>3, <4>1
      <4> QED  BY <3>2, <4>2
    <3> QED  BY <3>1, <3>2
  <2>2. Own(c) = IF c = ignore THEN <<>> ELSE <<m>>
    OBVIOUS
  <2>3. Sent(c) = Around(c, gone, Own(c), Notice)
    BY <1>1, <1>4
  <2> HIDE DEF gone, Notice, Sent, Own
  <2> QED  BY <2>1, <2>2, <2>3, AroundIs
<1>5. \A c \in Clients \ open : Sent(c) = <<>>
  OBVIOUS
<1> HIDE DEF gone, Notice, Own, Sent, closed, x
<1>6. /\ r.conns = n.conns \ gone /\ r.tails = [p \in DOMAIN n.tails \ gone |-> n.tails[p]]
      /\ r.down = [c \in Clients |-> n.down[c] \o Sent(c)]
      /\ r.ok = (n.ok /\ Cardinality(closed) < 2)
      /\ r = [conns |-> r.conns, tails |-> r.tails, down |-> r.down, ok |-> r.ok]
  BY <1>2
<1>7. /\ r.conns \subseteq Clients /\ open \subseteq r.conns /\ r.conns \subseteq n.conns
      /\ DOMAIN r.tails = DOMAIN n.tails \ gone /\ DOMAIN r.tails \subseteq r.conns
      /\ \A p \in DOMAIN r.tails : r.tails[p] = n.tails[p]
  BY <1>1, <1>3, <1>6
<1>8. r.tails \in Maps(Seq(Cells))
  <2>1. DOMAIN n.tails \subseteq Clients /\ \A p \in DOMAIN n.tails : n.tails[p] \in Seq(Cells)
    BY <1>1, MapType
  <2>2. r.tails \in [DOMAIN n.tails \ gone -> Seq(Cells)]
    BY <1>6, <2>1
  <2>3. DOMAIN n.tails \ gone \in SUBSET Clients
    BY <2>1
  <2> QED  BY <2>2, <2>3, MapMade
<1>9. \A c \in Clients \ open : r.down[c] = n.down[c]
  <2>1. ASSUME NEW c \in Clients \ open PROVE n.down[c] \o <<>> = n.down[c]
    <3>1. n.down[c] \in Seq(Mail)
      BY <1>1
    <3> QED  BY <3>1
  <2> QED  BY <1>5, <1>6, <2>1, ZenonT(60)
<1>10. \A c \in open : Share(c, m, ignore, Sent(c)) /\ r.down[c] = n.down[c] \o Sent(c)
  BY <1>1, <1>4, <1>6
<1>11. ASSUME NEW c \in Clients
       PROVE  r.down[c] \in Seq(Mail) /\ \A i \in DOMAIN r.down[c] : For(c, r.down[c][i])
  <2>0. n.down[c] \in Seq(Mail) /\ \A i \in DOMAIN n.down[c] : For(c, n.down[c][i])
    BY <1>1
  <2>1. CASE c \in open
    <3>1. PICK s : Share(c, m, ignore, s) /\ r.down[c] = n.down[c] \o s
      BY <1>10, <2>1
    <3>2. s \in Seq(Mail)
      BY <3>1 DEF Share
    <3>3. \A i \in DOMAIN s : For(c, s[i])
      <4>1. \A y \in Clients : y # c => For(c, About("RemovePlayer", y))
        BY NoticeIs DEF For
      <4> QED  BY <3>1, <4>1 DEF Share
    <3>4. r.down[c] \in Seq(Mail)
      BY <2>0, <3>1, <3>2
    <3>5. \A i \in DOMAIN r.down[c] : For(c, r.down[c][i])
      BY <2>0, <3>1, <3>2, <3>3, Behind
    <3> QED  BY <3>4, <3>5
  <2>2. CASE c \notin open
    BY <1>9, <2>0, <2>2
  <2> QED  BY <2>1, <2>2
<1>12. r.down \in [Clients -> Seq(Mail)]
  BY <1>6, <1>11
<1>13. r.ok \in BOOLEAN /\ (r.ok => n.ok)
  BY <1>1, <1>6
<1>14. Ledger(r)
  BY <1>6, <1>7, <1>8, <1>11, <1>12, <1>13 DEF Ledger
<1> QED  BY <1>7, <1>9, <1>10, <1>13, <1>14 DEF Reached

\* e is d and behind it c's share of a broadcast of m
Follows(c, m, ignore, d, e) ==
    /\ Starts(e) <=> Starts(d) \/ (c # ignore /\ m.type = "StartGame")
    /\ (c # ignore => Lively(m)) /\ (\A i \in DOMAIN d : Lively(d[i])) => \A i \in DOMAIN e : Lively(e[i])
    /\ \A p : (c # ignore => ~Removes(m, p)) =>
         /\ Spares(d, p) => Spares(e, p)
         /\ ArrivesIn(d, p) => ArrivesIn(e, p)
         /\ c # ignore /\ Puts(m, p) => ArrivesIn(e, p)

\* What the messages of a broadcast do behind those that were under way.
LEMMA ShareBehind ==
    ASSUME NEW c, NEW m \in Mail, NEW ignore, NEW s, Share(c, m, ignore, s),
           NEW d \in Seq(Mail), NEW e, e = d \o s
    PROVE  Follows(c, m, ignore, d, e)
<1>1. /\ s \in Seq(Mail) /\ (c # ignore => \E i \in DOMAIN s : s[i] = m)
      /\ \A i \in DOMAIN s : (c # ignore /\ s[i] = m) \/ \E x \in Clients : x # c /\ s[i] = About("RemovePlayer", x)
  BY DEF Share
<1>2. /\ \A i \in DOMAIN d : i \in DOMAIN e /\ e[i] = d[i]
      /\ \A i \in DOMAIN s : Len(d) + i \in DOMAIN e /\ e[Len(d) + i] = s[i]
      /\ \A i \in DOMAIN e : i \in DOMAIN d \/ (i > Len(d) /\ i - Len(d) \in DOMAIN s /\ e[i] = s[i - Len(d)])
  BY <1>1, Behind
<1>3. \A i \in DOMAIN s :
        \/ c # ignore /\ s[i] = m
        \/ s[i].type = "RemovePlayer" /\ Lively(s[i]) /\ \A p : ~Removes(s[i], p)
  BY <1>1, NoticeIs
<1>4. Starts(e) <=> Starts(d) \/ (c # ignore /\ m.type = "StartGame")
  <2>1. ASSUME Starts(e) PROVE Starts(d) \/ (c # ignore /\ m.type = "StartGame")
    <3>1. PICK i \in DOMAIN e : e[i].type = "StartGame"
      BY <2>1 DEF Starts
    <3>2. CASE i \in DOMAIN d
      BY <1>2, <3>1, <3>2 DEF Starts
    <3>3. CASE i \notin DOMAIN d
      <4>1. i - Len(d) \in DOMAIN s /\ s[i - Len(d)].type = "StartGame"
        BY <1>2, <3>1, <3>3
      <4> QED  BY <1>3, <4>1
    <3> QED  BY <3>2, <3>3
  <2>2. ASSUME Starts(d) PROVE Starts(e)
    BY <1>2, <2>2 DEF Starts
  <2>3. ASSUME c # ignore, m.type = "StartGame" PROVE Starts(e)
    <3>1. PICK i \in DOMAIN s : s[i] = m
      BY <1>1, <2>3
    <3>2. PICK j \in DOMAIN e : e[j] = m
      BY <1>2, <3>1
    <3> QED  BY <2>3, <3>2 DEF Starts
  <2> QED  BY <2>1, <2>2, <2>3
<1>5. ASSUME c # ignore => Lively(m), \A i \in DOMAIN d : Lively(d[i]), NEW i \in DOMAIN e PROVE Lively(e[i])
  <2>1. CASE i \in DOMAIN d
    BY <1>2, <1>5, <2>1
  <2>2. CASE i \notin DOMAIN d
    <3>1. i - Len(d) \in DOMAIN s /\ e[i] = s[i - Len(d)]
      BY <1>2, <2>2
    <3> QED  BY <1>3, <1>5, <3>1
  <2> QED  BY <2>1, <2>2
<1>6. ASSUME NEW p, c # ignore => ~Removes(m, p)
      PROVE  /\ Spares(d, p) => Spares(e, p)
             /\ ArrivesIn(d, p) => ArrivesIn(e, p)
             /\ c # ignore /\ Puts(m, p) => ArrivesIn(e, p)
  <2>1. Spares(s, p)
    BY <1>3, <1>6 DEF Spares
  <2>2. c # ignore /\ Puts(m, p) => \E i \in DOMAIN s : Puts(s[i], p)
    BY <1>1
  <2> QED  BY <1>1, <2>1, <2>2, PowerBehind
<1> QED  BY <1>4, <1>5, <1>6 DEF Follows

\* r is what a broadcast of m makes of n
Relayed(n, m, ignore, r) ==
    /\ r.conns \subseteq n.conns
    /\ DOMAIN r.tails \subseteq DOMAIN n.tails /\ \A p \in DOMAIN r.tails : r.tails[p] = n.tails[p]
    /\ \A c \in Clients \ open : r.down[c] = n.down[c]
    /\ \A c \in open : Follows(c, m, ignore, n.down[c], r.down[c])

\* What a broadcast of m tells the clients.
LEMMA BroadcastRelays ==
    ASSUME NEW n, Ledger(n), NEW m \in Mail, NEW ignore, \A c \in Clients : c = ignore \/ For(c, m),
           NEW r, r = Broadcast(n, m, ignore)
    PROVE  Ledger(r) /\ Relayed(n, m, ignore, r)
<1>1. n.down \in [Clients -> Seq(Mail)] /\ open \subseteq Clients
  BY DEF Ledger
<1>2. /\ Ledger(r) /\ r.conns \subseteq n.conns
      /\ DOMAIN r.tails \subseteq DOMAIN n.tails /\ \A p \in DOMAIN r.tails : r.tails[p] = n.tails[p]
      /\ \A c \in Clients \ open : r.down[c] = n.down[c]
      /\ \A c \in open : \E s : Share(c, m, ignore, s) /\ r.down[c] = n.down[c] \o s
  <2>1. Reached(n, m, ignore, r)
    BY ONLY Ledger(n), m \in Mail, \A c \in Clients : c = ignore \/ For(c, m),
            r = Broadcast(n, m, ignore), BroadcastIs
  <2> QED  BY <2>1 DEF Reached
<1>3. ASSUME NEW c \in open
      PROVE  Follows(c, m, ignore, n.down[c], r.down[c])
  <2>1. PICK s : Share(c, m, ignore, s) /\ r.down[c] = n.down[c] \o s
    BY <1>2
  <2> DEFINE d == n.down[c]
             e == r.down[c]
  <2>2. d \in Seq(Mail) /\ e = d \o s
    BY <1>1, <2>1
  <2> HIDE DEF d, e
  <2>3. Follows(c, m, ignore, d, e)
    BY ONLY m \in Mail, <2>1, <2>2, ShareBehind
  <2> QED  BY <2>3 DEF d, e
<1> QED  BY <1>2, <1>3 DEF Relayed

----------------------------------------------------------------------------
(* Steps of the server *)

\* n is what a handler may have made of the state so far
Goes(n) ==
    /\ Ledger(n) /\ n.conns \subseteq conns
    /\ \A c \in Clients \ open : n.down[c] = down[c]

\* nobody is told of a start that was not told before
Quiet(n) == \A c \in open : Starts(n.down[c]) <=> Starts(down[c])

\* every tail in n has a head
Hale(n) ==
    /\ \A p \in DOMAIN n.tails : n.tails[p] # <<>>
    /\ \A c \in Clients : \A i \in DOMAIN n.down[c] : Lively(n.down[c][i])

\* n takes no powerup at p away from c
Leaves(n, c, p) ==
    /\ Spares(down[c], p) => Spares(n.down[c], p)
    /\ ArrivesIn(down[c], p) => ArrivesIn(n.down[c], p)

\* The state a handler starts with.
LEMMA NowGoes ==
    ASSUME IInv
    PROVE  /\ Goes(Now) /\ Quiet(Now) /\ (killed = {} => Hale(Now))
           /\ \A c \in open, p \in Cells : Leaves(Now, c, p)
           /\ Now.tails = tails /\ Now.down = down /\ Now.conns = conns
<1>1. Now.tails = tails /\ Now.down = down /\ Now.conns = conns /\ Now.ok = TRUE
  BY DEF Now
<1>2. Now = [conns |-> Now.conns, tails |-> Now.tails, down |-> Now.down, ok |-> Now.ok]
  BY DEF Now
<1>3. Ledger(Now)
  BY <1>1, <1>2, TypeIs DEF Ledger, IInv, Mailed, Typed
<1>4. killed = {} => Hale(Now)
  BY <1>1 DEF IInv, Living, Hale
<1> QED  BY <1>1, <1>3, <1>4 DEF Goes, Quiet, Leaves

\* A broadcast, in a handler.
LEMMA BroadcastGoes ==
    ASSUME NEW n, Goes(n), NEW m \in Mail, NEW ignore, \A c \in Clients : c = ignore \/ For(c, m),
           NEW r, r = Broadcast(n, m, ignore)
    PROVE  /\ Goes(r) /\ Relayed(n, m, ignore, r)
           /\ Quiet(n) /\ m.type # "StartGame" => Quiet(r)
           /\ Hale(n) /\ Lively(m) => Hale(r)
           /\ \A c \in open, p \in Cells : Leaves(n, c, p) /\ (c = ignore \/ ~Removes(m, p)) => Leaves(r, c, p)
           /\ \A c \in open, p \in Cells : c # ignore /\ ~Removes(m, p) /\ Puts(m, p) => ArrivesIn(r.down[c], p)
<1>1. Ledger(n) /\ n.conns \subseteq conns /\ \A c \in Clients \ open : n.down[c] = down[c]
  BY DEF Goes
<1>2. Ledger(r) /\ Relayed(n, m, ignore, r)
  BY ONLY <1>1, m \in Mail, \A c \in Clients : c = ignore \/ For(c, m),
          r = Broadcast(n, m, ignore), BroadcastRelays
<1>3. Goes(r)
  BY <1>1, <1>2 DEF Goes, Relayed
<1>4. \A c \in open : Follows(c, m, ignore, n.down[c], r.down[c])
  BY <1>2 DEF Relayed
<1>5. Quiet(n) /\ m.type # "StartGame" => Quiet(r)
  BY <1>4 DEF Quiet, Follows
<1>6. ASSUME Hale(n), Lively(m) PROVE Hale(r)
  <2>1. \A p \in DOMAIN r.tails : r.tails[p] # <<>>
    BY <1>2, <1>6 DEF Hale, Relayed
  <2>2. ASSUME NEW c \in Clients PROVE \A i \in DOMAIN r.down[c] : Lively(r.down[c][i])
    <3>1. \A i \in DOMAIN n.down[c] : Lively(n.down[c][i])
      BY <1>6 DEF Hale
    <3>2. CASE c \in open
      BY <1>4, <1>6, <3>1, <3>2 DEF Follows
    <3>3. CASE c \notin open
      BY <1>2, <3>1, <3>3 DEF Relayed
    <3> QED  BY <3>2, <3>3
  <2> QED  BY <2>1, <2>2 DEF Hale
<1>7. ASSUME NEW c \in open, NEW p \in Cells, Leaves(n, c, p), c = ignore \/ ~Removes(m, p)
      PROVE  Leaves(r, c, p)
  BY <1>4, <1>7 DEF Leaves, Follows
<1>8. ASSUME NEW c \in open, NEW p \in Cells, c # ignore, ~Removes(m, p), Puts(m, p)
      PROVE  ArrivesIn(r.down[c], p)
  BY <1>4, <1>8 DEF Follows
<1> QED  BY <1>2, <1>3, <1>5, <1>6, <1>7, <1>8

\* A handler that ends with r keeps the invariant, when what it changes apart from r fits.
LEMMA ServerKeeps ==
    ASSUME IInv, NEW r, Goes(r), Commit(r), open' = open, client' = client,
           up' \in [Clients -> Seq(Reports)], powerups' \subseteq Cells, spawnpoints' \in Seq(Cells),
           gameStarted' \in BOOLEAN, fill' \in Nat, killed' \subseteq Clients,
           deadAtJoin' \in [Clients -> SUBSET Clients],
           \A c \in open : gameStarted' <=> (client[c].started \/ Starts(r.down[c])),
           killed' = {} => Hale(r) /\ killed = {} /\ \A c \in Clients : \A i \in DOMAIN up'[c] : Lively(up'[c][i]),
           \A c \in open \cap DOMAIN r.tails, p \in powerups' :
               \/ Claimed(c, p)' \/ ArrivesIn(r.down[c], p)
               \/ p \in Present(client[c].powerups) /\ Spares(r.down[c], p)
    PROVE  IInv'
<1>1. /\ conns' = r.conns /\ tails' = r.tails /\ down' = r.down
      /\ crashed' \in {"no", "recursion"}
  BY DEF Commit
<1>2. TypeOK'
  <2>1. Typed
    BY TypeIs DEF IInv
  <2>2. Typed'
    BY <1>1, <2>1 DEF Typed, Goes, Ledger
  <2> QED  BY <2>2, TypeIs, PTL
<1>3. Mailed'
  BY <1>1 DEF Mailed, Goes, Ledger
<1>4. Roster'
  <2>1. /\ r.conns \subseteq conns /\ \A c \in Clients \ open : r.down[c] = down[c]
        /\ open \subseteq conns
    BY DEF Goes, IInv, TypeOK
  <2> QED  BY <1>1, <2>1 DEF IInv, Roster
<1>5. Told'
  BY <1>1 DEF Told, Starts
<1>6. Living'
  <2>1. killed' = {} => \A c \in Clients : \A p \in DOMAIN client[c].players : client[c].players[p].tail # <<>>
    BY DEF IInv, Living
  <2>2. killed' = {} => /\ \A p \in DOMAIN tails' : tails'[p] # <<>>
                        /\ \A c \in Clients : \A i \in DOMAIN down'[c] : Lively(down'[c][i])
    BY <1>1 DEF Hale
  <2> QED  BY <1>1, <2>1, <2>2 DEF Living
<1>7. PowerupEverywhere'
  BY <1>1 DEF PowerupEverywhere, Arrives, ArrivesIn, Has, Spares
<1> QED  BY <1>2, <1>3, <1>4, <1>5, <1>6, <1>7 DEF IInv

\* A handler that ends the process keeps the invariant.
LEMMA CrashKeeps ==
    ASSUME IInv, NEW why \in {"at", "empty tail", "recursion", "no spawnpoint", "full grid"},
           ServerCrash(why), why = "empty tail" => killed # {},
           up' \in [Clients -> Seq(Reports)],
           killed = {} => \A c \in Clients : \A i \in DOMAIN up'[c] : Lively(up'[c][i])
    PROVE  IInv'
<1>1. /\ crashed' = why
      /\ UNCHANGED <<conns, open, tails, powerups, spawnpoints, gameStarted, fill, killed,
                     deadAtJoin, client, down>>
  BY DEF ServerCrash
<1>2. TypeOK'
  <2>1. Typed
    BY TypeIs DEF IInv
  <2>2. Typed'
    BY <1>1, <2>1 DEF Typed
  <2> QED  BY <2>2, TypeIs, PTL
<1>3. Mailed'
  BY <1>1 DEF IInv, Mailed
<1>4. Roster' /\ Told'
  BY <1>1 DEF IInv, Roster, Told
<1>5. Living'
  BY <1>1 DEF IInv, Living
<1>6. PowerupEverywhere'
  BY <1>1 DEF PowerupEverywhere
<1> QED  BY <1>2, <1>3, <1>4, <1>5, <1>6 DEF IInv

\* What a handler takes from a client.
LEMMA TakesIs ==
    ASSUME IInv, NEW c \in Clients, NEW type, Takes(c, type), NEW m, m = Head(up[c])
    PROVE  /\ crashed = "no" /\ m \in Reports /\ m.type = type
           /\ up' \in [Clients -> Seq(Reports)]
           /\ killed = {} => Lively(m) /\ \A d \in Clients : \A i \in DOMAIN up'[d] : Lively(up'[d][i])
           /\ \A d \in Clients, p \in Cells : Claimed(d, p) => Claimed(d, p)' \/ (d = c /\ m = At("PowerupEaten", p))
<1>1. /\ crashed = "no" /\ up[c] # <<>> /\ m.type = type /\ up' = [up EXCEPT ![c] = Tail(@)]
  BY DEF Takes
<1>2. up \in [Clients -> Seq(Reports)]
  BY DEF IInv, Mailed
<1> DEFINE u == up[c]
<1>3. u \in Seq(Reports) /\ u # <<>> /\ m = Head(u)
  BY <1>1, <1>2
<1> HIDE DEF u
<1>4. /\ m \in Reports /\ m = u[1] /\ 1 \in DOMAIN u /\ Tail(u) \in Seq(Reports)
      /\ \A i \in DOMAIN Tail(u) : i + 1 \in DOMAIN u /\ Tail(u)[i] = u[i + 1]
      /\ \A i \in DOMAIN u : i # 1 => i - 1 \in DOMAIN Tail(u) /\ Tail(u)[i - 1] = u[i]
  BY <1>3
<1>5. up'[c] = Tail(u) /\ \A d \in Clients : d # c => up'[d] = up[d]
  BY <1>1, <1>2 DEF u
<1>6. up' \in [Clients -> Seq(Reports)]
  BY <1>1, <1>2, <1>4 DEF u
<1>7. ASSUME killed = {} PROVE Lively(m) /\ \A d \in Clients : \A i \in DOMAIN up'[d] : Lively(up'[d][i])
  <2>1. \A d \in Clients : \A i \in DOMAIN up[d] : Lively(up[d][i])
    BY <1>7 DEF IInv, Living
  <2>2. \A i \in DOMAIN u : Lively(u[i])
    BY <2>1 DEF u
  <2>3. Lively(m) /\ \A i \in DOMAIN Tail(u) : Lively(Tail(u)[i])
    BY <1>4, <2>2
  <2> QED  BY <1>5, <2>1, <2>3
<1>8. ASSUME NEW d \in Clients, NEW p \in Cells, Claimed(d, p)
      PROVE  Claimed(d, p)' \/ (d = c /\ m = At("PowerupEaten", p))
  <2>1. PICK i \in DOMAIN up[d] : up[d][i] = At("PowerupEaten", p)
    BY <1>8 DEF Claimed
  <2>2. CASE d # c
    BY <1>5, <2>1, <2>2 DEF Claimed
  <2>3. CASE d = c
    <3>1. i \in DOMAIN u /\ u[i] = At("PowerupEaten", p)
      BY <2>1, <2>3 DEF u
    <3>2. CASE i = 1
      BY <1>4, <2>3, <3>1, <3>2
    <3>3. CASE i # 1
      <4>1. i - 1 \in DOMAIN up'[c] /\ up'[c][i - 1] = At("PowerupEaten", p)
        BY <1>4, <1>5, <3>1, <3>3
      <4> DEFINE j == i - 1
      <4>2. j \in DOMAIN up'[d] /\ up'[d][j] = At("PowerupEaten", p)
        BY <2>3, <4>1
      <4> HIDE DEF j
      <4>3. At("PowerupEaten", p)' = At("PowerupEaten", p)
        BY DEF At
      <4> QED  BY <4>2, <4>3 DEF Claimed
    <3> QED  BY <3>2, <3>3
  <2> QED  BY <2>2, <2>3
<1> QED  BY <1>1, <1>4, <1>6, <1>7, <1>8

\* Nobody is left out who is not named.
LEMMA ClientIsSomebody == \A c \in Clients : c # Null
  BY GameAssumption DEF Clients, Null

\* A powerup that was there, or on its way, still is.
LEMMA StillThere ==
    ASSUME IInv, crashed = "no", NEW r, NEW c \in open \cap DOMAIN tails, NEW p \in powerups,
           Leaves(r, c, p), Claimed(c, p) => Claimed(c, p)'
    PROVE  \/ Claimed(c, p)' \/ ArrivesIn(r.down[c], p)
           \/ p \in Present(client[c].powerups) /\ Spares(r.down[c], p)
<1>1. Claimed(c, p) \/ Arrives(c, p) \/ Has(c, p)
  BY DEF IInv, PowerupEverywhere
<1>2. Arrives(c, p) => ArrivesIn(r.down[c], p)
  BY DEF Leaves, Arrives, ArrivesIn
<1>3. Has(c, p) => p \in Present(client[c].powerups) /\ Spares(r.down[c], p)
  BY DEF Leaves, Has, Spares
<1> QED  BY <1>1, <1>2, <1>3

\* GeneratePowerup, in a handler that has told nobody but of powerups that are no more.
LEMMA GeneratesKeeps ==
    ASSUME IInv, crashed = "no", NEW n, Goes(n), Quiet(n), killed = {} => Hale(n),
           DOMAIN n.tails \subseteq DOMAIN tails,
           NEW present \in SUBSET powerups, GeneratePowerup(n, present),
           up' \in [Clients -> Seq(Reports)],
           killed = {} => \A c \in Clients : \A i \in DOMAIN up'[c] : Lively(up'[c][i]),
           \A c \in open, p \in present : Leaves(n, c, p) /\ (Claimed(c, p) => Claimed(c, p)')
    PROVE  IInv'
<1> DEFINE free == FreeGrid(n.tails, present)
<1>0. Typed
  BY TypeIs DEF IInv
<1>1. CASE free = {}
  <2>1. ServerCrash("full grid")
    BY <1>1 DEF GeneratePowerup
  <2> QED  BY <2>1, CrashKeeps
<1>2. CASE free # {}
  <2>1. PICK q \in Candidates(free) :
          /\ powerups' = present \cup {q}
          /\ Commit(Broadcast(n, At("NewPowerup", q), Null))
          /\ UNCHANGED <<open, spawnpoints, gameStarted, fill, killed, deadAtJoin, client>>
    BY <1>2 DEF GeneratePowerup
  <2>2. q \in Cells
    BY DEF Candidates, FreeGrid
  <2> DEFINE m == At("NewPowerup", q)
             r == Broadcast(n, m, Null)
  <2>3. /\ m \in Mail /\ m.type = "NewPowerup" /\ Lively(m) /\ Puts(m, q)
        /\ (\A p : ~Removes(m, p)) /\ \A c : For(c, m)
    BY <2>2, MailMade DEF At, Lively, Puts, Removes, For
  <2>4. Commit(r)
    BY <2>1
  <2> HIDE DEF m, r, free
  <2>5. r = Broadcast(n, m, Null)
    BY DEF r
  <2>6. /\ Goes(r) /\ Relayed(n, m, Null, r) /\ Quiet(r) /\ (Hale(n) => Hale(r))
        /\ \A c \in open, p \in Cells : Leaves(n, c, p) => Leaves(r, c, p)
        /\ \A c \in open, p \in Cells : c # Null /\ Puts(m, p) => ArrivesIn(r.down[c], p)
    <3>1. /\ Goes(r) /\ Relayed(n, m, Null, r)
          /\ Quiet(n) /\ m.type # "StartGame" => Quiet(r)
          /\ Hale(n) /\ Lively(m) => Hale(r)
          /\ \A c \in open, p \in Cells : Leaves(n, c, p) /\ (c = Null \/ ~Removes(m, p)) => Leaves(r, c, p)
          /\ \A c \in open, p \in Cells : c # Null /\ ~Removes(m, p) /\ Puts(m, p) => ArrivesIn(r.down[c], p)
      BY ONLY Goes(n), <2>3, <2>5, BroadcastGoes
    <3> QED  BY <2>3, <3>1
  <2>7. DOMAIN r.tails \subseteq DOMAIN tails
    BY <2>6 DEF Relayed
  <2>8. open \subseteq Clients /\ \A c \in Clients : c # Null
    <3>1. open \subseteq Clients
      BY <1>0 DEF Typed
    <3> QED  BY <3>1, ClientIsSomebody
  <2>9. ASSUME NEW c \in open \cap DOMAIN r.tails, NEW p \in powerups'
        PROVE  \/ Claimed(c, p)' \/ ArrivesIn(r.down[c], p)
               \/ p \in Present(client[c].powerups) /\ Spares(r.down[c], p)
    <3>1. CASE p = q
      BY <2>2, <2>3, <2>6, <2>8, <3>1
    <3>2. CASE p # q
      <4>1. p \in present /\ p \in powerups /\ p \in Cells
        BY <1>0, <2>1, <3>2 DEF Typed
      <4>2. Leaves(r, c, p) /\ (Claimed(c, p) => Claimed(c, p)')
        BY <2>6, <4>1
      <4>3. c \in open \cap DOMAIN tails
        BY <2>7
      <4> QED  BY ONLY IInv, crashed = "no", <4>1, <4>2, <4>3, StillThere
    <3> QED  BY <3>1, <3>2
  <2>10. /\ powerups' \subseteq Cells /\ spawnpoints' \in Seq(Cells) /\ gameStarted' \in BOOLEAN
         /\ fill' \in Nat /\ killed' \subseteq Clients /\ deadAtJoin' \in [Clients -> SUBSET Clients]
         /\ open' = open /\ client' = client
    BY <1>0, <2>1, <2>2 DEF Typed
  <2>11. \A c \in open : gameStarted' <=> (client[c].started \/ Starts(r.down[c]))
    BY <2>1, <2>6 DEF IInv, Told, Quiet
  <2>12. killed' = {} => Hale(r) /\ killed = {} /\ \A c \in Clients : \A i \in DOMAIN up'[c] : Lively(up'[c][i])
    BY <2>1, <2>6
  <2> QED  BY ONLY IInv, <2>4, <2>6, <2>9, <2>10, <2>11, <2>12, up' \in [Clients -> Seq(Reports)], ServerKeeps
<1> QED  BY <1>1, <1>2

\* The loop that fills the grid up with powerups.
LEMMA FillKeeps == ASSUME IInv, Fill PROVE IInv'
<1>1. crashed = "no" /\ GeneratePowerup(Now, powerups) /\ UNCHANGED up
  BY DEF Fill
<1>2. /\ Goes(Now) /\ Quiet(Now) /\ (killed = {} => Hale(Now))
      /\ \A c \in open, p \in Cells : Leaves(Now, c, p)
      /\ DOMAIN Now.tails \subseteq DOMAIN tails
  BY NowGoes
<1>3. powerups \subseteq Cells /\ powerups \in SUBSET powerups
  BY DEF IInv, TypeOK
<1>4. /\ up' \in [Clients -> Seq(Reports)]
      /\ killed = {} => \A c \in Clients : \A i \in DOMAIN up'[c] : Lively(up'[c][i])
  BY <1>1 DEF IInv, Mailed, Living
<1>5. \A c \in open, p \in powerups : Leaves(Now, c, p) /\ (Claimed(c, p) => Claimed(c, p)')
  BY <1>1, <1>2, <1>3 DEF Claimed, At
<1> HIDE DEF Now
<1> QED  BY ONLY IInv, <1>1, <1>2, <1>3, <1>4, <1>5, GeneratesKeeps

\* A powerup that a client has eaten.
LEMMA PowerupEatenKeeps == ASSUME IInv, NEW c \in Clients, PowerupEaten(c) PROVE IInv'
<1> DEFINE m == Head(up[c])
           p == m.cell
           n == Broadcast(Now, At("PowerupEaten", p), c)
<1>1. Takes(c, "PowerupEaten") /\ GeneratePowerup(n, Deleted(p))
  BY DEF PowerupEaten
<1>2. m = Head(up[c])
  OBVIOUS
<1> HIDE DEF m
<1>3. /\ crashed = "no" /\ m \in Reports /\ m.type = "PowerupEaten"
      /\ up' \in [Clients -> Seq(Reports)]
      /\ killed = {} => Lively(m) /\ \A d \in Clients : \A i \in DOMAIN up'[d] : Lively(up'[d][i])
      /\ \A d \in Clients, x \in Cells : Claimed(d, x) => Claimed(d, x)' \/ (d = c /\ m = At("PowerupEaten", x))
  BY ONLY IInv, c \in Clients, <1>1, <1>2, TakesIs
<1>4. p \in Cells /\ m = At("PowerupEaten", p)
  BY <1>3 DEF Reports, At
<1> DEFINE e == At("PowerupEaten", p)
<1>5. n = Broadcast(Now, e, c)
  OBVIOUS
<1>6. /\ e \in Mail /\ e.type = "PowerupEaten" /\ Lively(e) /\ (\A d : For(d, e))
      /\ (\A x : Removes(e, x) <=> x = p) /\ \A x : e = At("PowerupEaten", x) => x = p
  BY <1>4, MailMade DEF At, Lively, Removes, For
<1>7. /\ Goes(Now) /\ Quiet(Now) /\ (killed = {} => Hale(Now))
      /\ \A d \in open, x \in Cells : Leaves(Now, d, x)
      /\ Now.tails = tails
  BY NowGoes
<1>8. powerups \subseteq Cells /\ open \subseteq Clients
  BY DEF IInv, TypeOK
<1> HIDE DEF n, p, e, Now
<1>9. /\ Goes(n) /\ Relayed(Now, e, c, n)
      /\ Quiet(Now) /\ e.type # "StartGame" => Quiet(n)
      /\ Hale(Now) /\ Lively(e) => Hale(n)
      /\ \A d \in open, x \in Cells : Leaves(Now, d, x) /\ (d = c \/ ~Removes(e, x)) => Leaves(n, d, x)
  BY ONLY <1>5, <1>6, <1>7, BroadcastGoes
<1>10. Quiet(n) /\ (killed = {} => Hale(n)) /\ DOMAIN n.tails \subseteq DOMAIN tails
  BY <1>6, <1>7, <1>9 DEF Relayed
<1> DEFINE present == Deleted(p)
<1>11. present \in SUBSET powerups /\ p \notin present
  BY DEF Deleted
<1>12. \A d \in open, x \in present : Leaves(n, d, x) /\ (Claimed(d, x) => Claimed(d, x)')
  <2> SUFFICES ASSUME NEW d \in open, NEW x \in present
               PROVE  Leaves(n, d, x) /\ (Claimed(d, x) => Claimed(d, x)')
    OBVIOUS
  <2>1. x \in Cells /\ x # p /\ d \in Clients
    BY <1>8, <1>11
  <2>2. Leaves(n, d, x)
    BY <1>6, <1>7, <1>9, <2>1
  <2>3. m # At("PowerupEaten", x)
    BY <1>4, <1>6, <2>1 DEF e
  <2> QED  BY <1>3, <2>1, <2>2, <2>3
<1>13. GeneratePowerup(n, present)
  BY <1>1
<1> HIDE DEF present
<1> QED  BY ONLY IInv, <1>3, <1>9, <1>10, <1>11, <1>12, <1>13, GeneratesKeeps

\* The start of the game, of which all clients are told.
LEMMA StartGameKeeps == ASSUME IInv, NEW c \in Clients, StartGame(c) PROVE IInv'
<1> DEFINE m == Head(up[c])
           r == Broadcast(Now, m, Null)
<1>1. /\ Takes(c, "StartGame") /\ gameStarted' = TRUE /\ Commit(r)
      /\ UNCHANGED <<open, powerups, spawnpoints, fill, killed, deadAtJoin, client>>
  BY DEF StartGame, NotToldOfStart
<1>2. m = Head(up[c]) /\ r = Broadcast(Now, m, Null)
  OBVIOUS
<1> HIDE DEF m, r
<1>3. /\ crashed = "no" /\ m \in Reports /\ m.type = "StartGame"
      /\ up' \in [Clients -> Seq(Reports)]
      /\ killed = {} => Lively(m) /\ \A d \in Clients : \A i \in DOMAIN up'[d] : Lively(up'[d][i])
      /\ \A d \in Clients, p \in Cells : Claimed(d, p) => Claimed(d, p)' \/ (d = c /\ m = At("PowerupEaten", p))
  BY ONLY IInv, c \in Clients, <1>1, <1>2, TakesIs
<1>4. /\ m \in Mail /\ (\A d : For(d, m)) /\ (\A p : ~Removes(m, p))
      /\ \A p : m # At("PowerupEaten", p)
  BY <1>3, ReportIsMail DEF For, Removes, At
<1>5. /\ Goes(Now) /\ (killed = {} => Hale(Now))
      /\ \A d \in open, p \in Cells : Leaves(Now, d, p)
      /\ Now.tails = tails /\ Now.down = down
  BY NowGoes
<1>6. Typed
  BY TypeIs DEF IInv
<1> HIDE DEF Now
<1>7. /\ Goes(r) /\ Relayed(Now, m, Null, r)
      /\ Hale(Now) /\ Lively(m) => Hale(r)
      /\ \A d \in open, p \in Cells : Leaves(Now, d, p) /\ (d = Null \/ ~Removes(m, p)) => Leaves(r, d, p)
  BY ONLY <1>2, <1>4, <1>5, BroadcastGoes
<1>8. open \subseteq Clients /\ powerups \subseteq Cells
  BY <1>6 DEF Typed
<1>9. \A d \in open : gameStarted' <=> (client[d].started \/ Starts(r.down[d]))
  BY <1>1, <1>3, <1>7, <1>8, ClientIsSomebody DEF Relayed, Follows
<1>10. killed' = {} => Hale(r) /\ killed = {} /\ \A d \in Clients : \A i \in DOMAIN up'[d] : Lively(up'[d][i])
  BY <1>1, <1>3, <1>5, <1>7
<1>11. ASSUME NEW d \in open \cap DOMAIN r.tails, NEW p \in powerups'
       PROVE  \/ Claimed(d, p)' \/ ArrivesIn(r.down[d], p)
              \/ p \in Present(client[d].powerups) /\ Spares(r.down[d], p)
  <2>1. d \in open \cap DOMAIN tails /\ d \in Clients
    BY <1>5, <1>7, <1>8 DEF Relayed
  <2>2. p \in powerups /\ p \in Cells
    BY <1>1, <1>8
  <2>3. Leaves(r, d, p) /\ (Claimed(d, p) => Claimed(d, p)')
    BY <1>3, <1>4, <1>5, <1>7, <2>1, <2>2
  <2> QED  BY ONLY IInv, <1>3, <2>1, <2>2, <2>3, StillThere
<1>12. /\ powerups' \subseteq Cells /\ spawnpoints' \in Seq(Cells) /\ gameStarted' \in BOOLEAN
       /\ fill' \in Nat /\ killed' \subseteq Clients /\ deadAtJoin' \in [Clients -> SUBSET Clients]
       /\ open' = open /\ client' = client
  BY <1>1, <1>6 DEF Typed
<1> QED  BY ONLY IInv, <1>1, <1>3, <1>7, <1>9, <1>10, <1>11, <1>12, ServerKeeps

\* Other tails in a handler.
LEMMA Retailed ==
    ASSUME NEW n, Goes(n), NEW players \in Maps(Seq(Cells)), DOMAIN players \subseteq n.conns,
           NEW u, u = [n EXCEPT !.tails = players]
    PROVE  /\ Goes(u) /\ u.tails = players /\ u.down = n.down /\ u.conns = n.conns
           /\ Quiet(n) => Quiet(u)
           /\ Hale(n) /\ (\A p \in DOMAIN players : players[p] # <<>>) => Hale(u)
           /\ \A c \in open, p \in Cells : Leaves(n, c, p) => Leaves(u, c, p)
<1>1. Ledger(n)
  BY DEF Goes
<1>2. n = [conns |-> n.conns, tails |-> n.tails, down |-> n.down, ok |-> n.ok]
  BY <1>1 DEF Ledger
<1>3. u = [conns |-> n.conns, tails |-> players, down |-> n.down, ok |-> n.ok]
  BY <1>2
<1>4. /\ u.tails = players /\ u.down = n.down /\ u.conns = n.conns /\ u.ok = n.ok
      /\ u = [conns |-> u.conns, tails |-> u.tails, down |-> u.down, ok |-> u.ok]
  BY <1>3
<1>5. Ledger(u)
  BY <1>1, <1>4 DEF Ledger
<1>6. Goes(u)
  BY <1>4, <1>5 DEF Goes
<1> QED  BY <1>4, <1>6 DEF Quiet, Hale, Leaves

\* A client's new tail, which others see, and which may end its player.
LEMMA UpdatePlayerKeeps == ASSUME IInv, NEW c \in Clients, UpdatePlayer(c) PROVE IInv'
<1> DEFINE m == Head(up[c])
           n == Broadcast(Now, m, c)
           players == With(n.tails, c, Popped(m.body))
           u == [n EXCEPT !.tails = players]
           k == About("KillPlayer", c)
           v == Broadcast(u, k, Null)
<1>1. Takes(c, "UpdatePlayer")
  BY DEF UpdatePlayer
<1>2. \/ ServerCrash("recursion") \/ ServerCrash("at")
      \/ players[c] = <<>> /\ c \in DOMAIN n.tails /\ ServerCrash("empty tail")
      \/ /\ c \in DOMAIN n.tails
         /\ \/ Commit(v) /\ killed' = killed \cup {c}
            \/ Commit(u) /\ UNCHANGED killed
         /\ UNCHANGED <<open, powerups, spawnpoints, gameStarted, fill, deadAtJoin, client>>
  BY DEF UpdatePlayer
<1>3. m = Head(up[c]) /\ n = Broadcast(Now, m, c) /\ u = [n EXCEPT !.tails = players] /\ v = Broadcast(u, k, Null)
  OBVIOUS
<1>4. players = With(n.tails, c, Popped(m.body))
  OBVIOUS
<1> HIDE DEF m, n, u, v, players
<1>5. /\ crashed = "no" /\ m \in Reports /\ m.type = "UpdatePlayer"
      /\ up' \in [Clients -> Seq(Reports)]
      /\ killed = {} => Lively(m) /\ \A d \in Clients : \A i \in DOMAIN up'[d] : Lively(up'[d][i])
      /\ \A d \in Clients, p \in Cells : Claimed(d, p) => Claimed(d, p)' \/ (d = c /\ m = At("PowerupEaten", p))
  BY ONLY IInv, c \in Clients, <1>1, <1>3, TakesIs
<1>6. /\ m \in Mail /\ (\A d : For(d, m)) /\ (\A p : ~Removes(m, p))
      /\ \A p : m # At("PowerupEaten", p)
  BY <1>5, ReportIsMail DEF For, Removes, At
<1>7. Popped(m.body) \in Seq(Cells) /\ (killed = {} => Popped(m.body) # <<>>)
  BY <1>5, <1>6, MailFields, BodyPopped DEF Lively
<1>8. /\ Goes(Now) /\ Quiet(Now) /\ (killed = {} => Hale(Now))
      /\ \A d \in open, p \in Cells : Leaves(Now, d, p)
      /\ Now.tails = tails /\ Now.down = down
  BY NowGoes
<1>9. Typed
  BY TypeIs DEF IInv
<1> HIDE DEF Now
<1>10. /\ Goes(n) /\ Relayed(Now, m, c, n)
       /\ Quiet(Now) /\ m.type # "StartGame" => Quiet(n)
       /\ Hale(Now) /\ Lively(m) => Hale(n)
       /\ \A d \in open, p \in Cells : Leaves(Now, d, p) /\ (d = c \/ ~Removes(m, p)) => Leaves(n, d, p)
  BY ONLY <1>3, <1>6, <1>8, BroadcastGoes
<1>11. Quiet(n) /\ (killed = {} => Hale(n)) /\ (\A d \in open, p \in Cells : Leaves(n, d, p))
  BY <1>5, <1>6, <1>8, <1>10
<1>12. /\ n.tails \in Maps(Seq(Cells)) /\ DOMAIN n.tails \subseteq n.conns /\ DOMAIN n.tails \subseteq DOMAIN tails
  BY <1>8, <1>10 DEF Goes, Ledger, Relayed
<1>13. /\ players \in Maps(Seq(Cells)) /\ DOMAIN players = DOMAIN n.tails \cup {c}
       /\ players[c] = Popped(m.body) /\ \A p \in DOMAIN n.tails : p # c => players[p] = n.tails[p]
  <2> DEFINE t == Popped(m.body)
             f == n.tails
             S == Seq(Cells)
  <2>1. t \in S /\ f \in Maps(S) /\ players = With(f, c, t)
    BY <1>4, <1>7, <1>12
  <2> HIDE DEF t, f, S
  <2>2. Widened(S, f, c, t, With(f, c, t))
    BY ONLY <2>1, c \in Clients, WithType
  <2> QED  BY <2>1, <2>2 DEF t, f, S, Widened
<1>14. CASE ServerCrash("recursion") \/ ServerCrash("at")
  BY <1>5, <1>14, CrashKeeps
<1>15. CASE players[c] = <<>> /\ c \in DOMAIN n.tails /\ ServerCrash("empty tail")
  <2>1. killed # {}
    BY <1>7, <1>13, <1>15
  <2> QED  BY <1>5, <1>15, <2>1, CrashKeeps
<1>16. ASSUME c \in DOMAIN n.tails,
              \/ Commit(v) /\ killed' = killed \cup {c}
              \/ Commit(u) /\ UNCHANGED killed,
              UNCHANGED <<open, powerups, spawnpoints, gameStarted, fill, deadAtJoin, client>>
       PROVE  IInv'
  <2>1. DOMAIN players = DOMAIN n.tails /\ DOMAIN players \subseteq n.conns /\ DOMAIN players \subseteq DOMAIN tails
    BY <1>12, <1>13, <1>16
  <2>2. /\ Goes(u) /\ u.tails = players /\ u.down = n.down /\ u.conns = n.conns
        /\ Quiet(n) => Quiet(u)
        /\ Hale(n) /\ (\A p \in DOMAIN players : players[p] # <<>>) => Hale(u)
        /\ \A d \in open, p \in Cells : Leaves(n, d, p) => Leaves(u, d, p)
    BY ONLY <1>3, <1>10, <1>13, <2>1, Retailed
  <2>3. Quiet(u) /\ \A d \in open, p \in Cells : Leaves(u, d, p)
    BY <1>11, <2>2
  <2>4. killed = {} => Hale(u)
    <3>1. ASSUME killed = {} PROVE \A p \in DOMAIN players : players[p] # <<>>
      BY <1>7, <1>11, <1>13, <2>1, <3>1 DEF Hale
    <3> QED  BY <1>11, <2>2, <3>1
  <2>5. \E r : /\ Commit(r) /\ Goes(r) /\ Quiet(r) /\ (\A d \in open, p \in Cells : Leaves(r, d, p))
               /\ DOMAIN r.tails \subseteq DOMAIN tails /\ (killed' = {} => Hale(r) /\ killed = {})
               /\ killed' \subseteq Clients
    <3>1. CASE Commit(u) /\ UNCHANGED killed
      BY <1>9, <2>1, <2>2, <2>3, <2>4, <3>1 DEF Typed
    <3>2. CASE Commit(v) /\ killed' = killed \cup {c}
      <4>1. /\ k \in Mail /\ k.type # "StartGame" /\ (\A d : For(d, k)) /\ (\A p : ~Removes(k, p))
        BY MailMade DEF About, For, Removes
      <4> HIDE DEF k
      <4>2. /\ Goes(v) /\ Relayed(u, k, Null, v)
            /\ Quiet(u) /\ k.type # "StartGame" => Quiet(v)
            /\ \A d \in open, p \in Cells : Leaves(u, d, p) /\ (d = Null \/ ~Removes(k, p)) => Leaves(v, d, p)
        BY ONLY <1>3, <2>2, <4>1, BroadcastGoes
      <4>3. DOMAIN v.tails \subseteq DOMAIN tails
        BY <2>1, <2>2, <4>2 DEF Relayed
      <4>4. killed' \subseteq Clients /\ killed' # {}
        BY <1>9, <3>2 DEF Typed
      <4> QED  BY <2>3, <3>2, <4>1, <4>2, <4>3, <4>4
    <3> QED  BY <1>16, <3>1, <3>2
  <2>6. PICK r : /\ Commit(r) /\ Goes(r) /\ Quiet(r) /\ (\A d \in open, p \in Cells : Leaves(r, d, p))
                 /\ DOMAIN r.tails \subseteq DOMAIN tails /\ (killed' = {} => Hale(r) /\ killed = {})
                 /\ killed' \subseteq Clients
    BY <2>5
  <2>7. \A d \in open : gameStarted' <=> (client[d].started \/ Starts(r.down[d]))
    BY <1>16, <2>6 DEF IInv, Told, Quiet
  <2>8. killed' = {} => Hale(r) /\ killed = {} /\ \A d \in Clients : \A i \in DOMAIN up'[d] : Lively(up'[d][i])
    BY <1>5, <2>6
  <2>9. ASSUME NEW d \in open \cap DOMAIN r.tails, NEW p \in powerups'
        PROVE  \/ Claimed(d, p)' \/ ArrivesIn(r.down[d], p)
               \/ p \in Present(client[d].powerups) /\ Spares(r.down[d], p)
    <3>1. d \in open \cap DOMAIN tails /\ d \in Clients /\ p \in powerups /\ p \in Cells
      BY <1>9, <1>16, <2>6 DEF Typed
    <3>2. Leaves(r, d, p) /\ (Claimed(d, p) => Claimed(d, p)')
      BY <1>5, <1>6, <2>6, <3>1
    <3> QED  BY ONLY IInv, <1>5, <3>1, <3>2, StillThere
  <2>10. /\ powerups' \subseteq Cells /\ spawnpoints' \in Seq(Cells) /\ gameStarted' \in BOOLEAN
         /\ fill' \in Nat /\ killed' \subseteq Clients /\ deadAtJoin' \in [Clients -> SUBSET Clients]
         /\ open' = open /\ client' = client
    BY <1>9, <1>16, <2>6 DEF Typed
  <2> QED  BY ONLY IInv, <1>5, <2>6, <2>7, <2>8, <2>9, <2>10, ServerKeeps
<1> QED  BY <1>2, <1>14, <1>15, <1>16

\* The number of powerups the server fills up to.
LEMMA PowerupCountType ==
    ASSUME NEW D \in SUBSET Clients
    PROVE  PowerupCount(Cardinality(D)) \in Nat
<1> DEFINE n == Cardinality(D)
<1>1. n \in Nat
  <2>1. IsFiniteSet(Clients)
    BY GameAssumption, FS_Interval DEF Clients
  <2>2. IsFiniteSet(D)
    BY <2>1, FS_Subset
  <2> QED  BY <2>2, FS_CardinalityType
<1> HIDE DEF n
<1>2. n % 2 \in {0, 1}
  BY <1>1
<1>3. (n % 2) * n \in Nat
  BY <1>1, <1>2
<1>4. PowerupCount(n) \in Nat
  BY <1>3 DEF PowerupCount
<1> QED  BY <1>4 DEF n

\* What a client is welcomed with.
LEMMA WelcomeIs ==
    ASSUME NEW c \in Clients, NEW players \in Maps(Seq(Cells)), c \in DOMAIN players, powerups \subseteq Cells,
           NEW w, w = Welcome(c, players)
    PROVE  /\ w \in Mail /\ For(c, w) /\ w.type = "ServerValidation"
           /\ (\A p \in DOMAIN players : players[p] # <<>>) => Lively(w)
           /\ \A p \in powerups : Puts(w, p)
<1> DEFINE bodies == [p \in DOMAIN players |-> Pushed(players[p])]
<1>1. w = [type |-> "ServerValidation", who |-> c, powerups |-> powerups, bodies |-> bodies]
  BY DEF Welcome
<1>2. DOMAIN players \subseteq Clients /\ \A p \in DOMAIN players : players[p] \in Seq(Cells)
  BY MapType
<1>3. \A p \in DOMAIN players : Pushed(players[p]) \in Bodies /\ Popped(Pushed(players[p])) = players[p]
  BY <1>2, BodyPushed
<1>4. bodies \in [DOMAIN players -> Bodies]
  BY <1>3
<1>5. bodies \in Maps(Bodies)
  BY <1>2, <1>4, MapMade
<1>6. DOMAIN bodies = DOMAIN players /\ \A p \in DOMAIN players : Popped(bodies[p]) = players[p]
  BY <1>3
<1> HIDE DEF bodies
<1>7. /\ w \in Mail /\ w.type = "ServerValidation" /\ w.bodies = bodies /\ w.powerups = powerups
  BY <1>1, <1>5 DEF Mail
<1>8. For(c, w) /\ \A p \in powerups : Puts(w, p)
  BY <1>6, <1>7 DEF For, Puts
<1>9. (\A p \in DOMAIN players : players[p] # <<>>) => Lively(w)
  BY <1>6, <1>7 DEF Lively
<1> QED  BY <1>7, <1>8, <1>9

\* n with one more message to c
Post(n, c, w) == [n EXCEPT !.down[c] = Append(@, w)]

\* One more message to one client.
LEMMA Posted ==
    ASSUME NEW n, Goes(n), NEW c \in open, NEW w \in Mail, For(c, w), w.type # "StartGame",
           NEW u, u = Post(n, c, w)
    PROVE  /\ Goes(u) /\ u.tails = n.tails /\ u.conns = n.conns
           /\ Quiet(n) => Quiet(u)
           /\ Hale(n) /\ Lively(w) => Hale(u)
           /\ \A d \in open, p \in Cells : d # c /\ Leaves(n, d, p) => Leaves(u, d, p)
           /\ \A p \in Cells : Puts(w, p) => ArrivesIn(u.down[c], p)
<1>1. Ledger(n)
  BY DEF Goes
<1>2. /\ n = [conns |-> n.conns, tails |-> n.tails, down |-> n.down, ok |-> n.ok]
      /\ n.down \in [Clients -> Seq(Mail)] /\ open \subseteq Clients
      /\ \A d \in Clients : \A i \in DOMAIN n.down[d] : For(d, n.down[d][i])
  BY <1>1 DEF Ledger
<1> DEFINE e == Append(n.down[c], w)
           d0 == n.down[c]
<1>3. u = [conns |-> n.conns, tails |-> n.tails, down |-> [n.down EXCEPT ![c] = e], ok |-> n.ok]
  BY <1>2 DEF Post
<1>4. d0 \in Seq(Mail) /\ c \in Clients
  BY <1>2
<1>5. e = Append(d0, w)
  OBVIOUS
<1> HIDE DEF e, d0
<1>6. /\ u.tails = n.tails /\ u.conns = n.conns /\ u.ok = n.ok /\ u.down = [n.down EXCEPT ![c] = e]
      /\ u = [conns |-> u.conns, tails |-> u.tails, down |-> u.down, ok |-> u.ok]
  BY ONLY <1>3
<1>7. /\ e \in Seq(Mail) /\ DOMAIN e = 1..(Len(d0) + 1) /\ Len(d0) \in Nat /\ e[Len(d0) + 1] = w
      /\ DOMAIN d0 = 1..Len(d0) /\ \A i \in DOMAIN d0 : e[i] = d0[i]
  BY <1>4, <1>5
<1>8. /\ u.down[c] = e /\ n.down[c] = d0
      /\ \A d \in Clients : d # c => u.down[d] = n.down[d]
  BY <1>2, <1>4, <1>6 DEF d0
<1>9. \A i \in DOMAIN e : i \in DOMAIN d0 \/ i = Len(d0) + 1
  BY <1>7
<1>10. \A d \in Clients : u.down[d] \in Seq(Mail) /\ \A i \in DOMAIN u.down[d] : For(d, u.down[d][i])
  <2>1. \A i \in DOMAIN e : For(c, e[i])
    BY <1>2, <1>4, <1>7, <1>8, <1>9
  <2> QED  BY <1>2, <1>7, <1>8, <2>1, SMTT(60)
<1>11. u.down \in [Clients -> Seq(Mail)]
  BY <1>2, <1>6, <1>7
<1>12. Ledger(u)
  BY <1>1, <1>6, <1>10, <1>11 DEF Ledger
<1>13. Goes(u)
  BY <1>2, <1>6, <1>8, <1>12 DEF Goes
<1>14. Starts(e) <=> Starts(d0)
  <2>1. Starts(d0) => Starts(e)
    BY <1>7 DEF Starts
  <2>2. ASSUME Starts(e) PROVE Starts(d0)
    <3>1. PICK i \in DOMAIN e : e[i].type = "StartGame"
      BY <2>2 DEF Starts
    <3>2. i \in DOMAIN d0
      BY <1>7, <1>9, <3>1
    <3> QED  BY <1>7, <3>1, <3>2 DEF Starts
  <2> QED  BY <2>1, <2>2
<1>15. Quiet(n) => Quiet(u)
  BY <1>2, <1>8, <1>14 DEF Quiet
<1>16. Hale(n) /\ Lively(w) => Hale(u)
  <2>1. ASSUME Hale(n), Lively(w) PROVE \A i \in DOMAIN e : Lively(e[i])
    BY <1>4, <1>7, <1>8, <1>9, <2>1 DEF Hale
  <2> QED  BY <1>6, <1>8, <2>1 DEF Hale
<1>17. ASSUME NEW p \in Cells, Puts(w, p) PROVE ArrivesIn(e, p)
  <2>1. Len(d0) + 1 \in DOMAIN e /\ \A j \in DOMAIN e : ~(j > Len(d0) + 1)
    BY <1>7
  <2> QED  BY <1>7, <1>17, <2>1 DEF ArrivesIn
<1> QED  BY <1>2, <1>6, <1>8, <1>13, <1>15, <1>16, <1>17 DEF Leaves

\* A client is welcomed, and the others are told.
LEMMA OnClientValidatedKeeps == ASSUME IInv, NEW c \in Clients, OnClientValidated(c) PROVE IInv'
<1>1. crashed = "no" /\ c \in open \ DOMAIN tails /\ UNCHANGED up
  BY DEF OnClientValidated
<1>2. Typed
  BY TypeIs DEF IInv
<1>3. /\ up' \in [Clients -> Seq(Reports)]
      /\ killed = {} => \A d \in Clients : \A i \in DOMAIN up'[d] : Lively(up'[d][i])
      /\ \A d, p : Claimed(d, p) => Claimed(d, p)'
  BY <1>1 DEF IInv, Mailed, Living, Claimed, At
<1>4. CASE spawnpoints = <<>>
  <2>1. ServerCrash("no spawnpoint")
    BY <1>4 DEF OnClientValidated
  <2> QED  BY <1>3, <2>1, CrashKeeps
<1>5. CASE spawnpoints # <<>>
  <2> DEFINE spot == spawnpoints[Len(spawnpoints)]
             tail == <<spot>>
             players == With(tails, c, tail)
             t == [Now EXCEPT !.tails = players]
             w == Welcome(c, players)
             u == [Now EXCEPT !.tails = players, !.down[c] = Append(@, w)]
             m == [type |-> "NewPlayer", who |-> c, body |-> Pushed(tail)]
             r == Broadcast(u, m, c)
  <2>1. /\ Commit(r) /\ spawnpoints' = SubSeq(spawnpoints, 1, Len(spawnpoints) - 1)
        /\ fill' = PowerupCount(Cardinality(DOMAIN r.tails))
        /\ deadAtJoin' = [deadAtJoin EXCEPT ![c] = killed]
        /\ UNCHANGED <<open, powerups, gameStarted, client, killed>>
    BY <1>5 DEF OnClientValidated
  <2>2. u = Post(t, c, w)
    BY DEF Now, Post
  <2>3. /\ t = [Now EXCEPT !.tails = players] /\ r = Broadcast(u, m, c) /\ w = Welcome(c, players)
    OBVIOUS
  <2>4. tail \in Seq(Cells) /\ tail # <<>> /\ spawnpoints' \in Seq(Cells)
    <3>1. spawnpoints \in Seq(Cells)
      BY <1>2 DEF Typed
    <3>2. Len(spawnpoints) \in Nat /\ Len(spawnpoints) > 0 /\ spot \in Cells
      BY <1>5, <3>1
    <3>3. SubSeq(spawnpoints, 1, Len(spawnpoints) - 1) \in Seq(Cells)
      BY <3>1, <3>2
    <3> HIDE DEF spot
    <3> QED  BY <2>1, <3>2, <3>3
  <2>5. /\ players \in Maps(Seq(Cells)) /\ DOMAIN players = DOMAIN tails \cup {c}
        /\ players[c] = tail /\ \A p \in DOMAIN tails : p # c => players[p] = tails[p]
    <3> DEFINE S == Seq(Cells)
    <3>1. tail \in S /\ tails \in Maps(S) /\ players = With(tails, c, tail)
      BY <1>2, <2>4 DEF Typed
    <3> HIDE DEF tail, players, S
    <3>2. Widened(S, tails, c, tail, With(tails, c, tail))
      BY ONLY <3>1, c \in Clients, WithType
    <3> QED  BY <3>1, <3>2 DEF S, Widened
  <2>6. /\ m \in Mail /\ m.type = "NewPlayer" /\ (\A d : For(d, m)) /\ (\A p : ~Removes(m, p)) /\ Lively(m)
    <3> DEFINE b == Pushed(tail)
    <3>1. b \in Bodies /\ Popped(b) = tail
      BY <2>4, BodyPushed
    <3> HIDE DEF b, tail
    <3> QED  BY <2>4, <3>1, MailMade DEF For, Removes, Lively, b
  <2> HIDE DEF r, u, w, t, players, m, tail
  <2>7. /\ Goes(Now) /\ Quiet(Now) /\ (killed = {} => Hale(Now))
        /\ \A d \in open, p \in Cells : Leaves(Now, d, p)
        /\ Now.tails = tails /\ Now.down = down /\ Now.conns = conns
    BY NowGoes
  <2>8. c \in open /\ open \subseteq conns /\ open \subseteq Clients /\ powerups \subseteq Cells /\ DOMAIN tails \subseteq conns
    BY <1>1, <1>2 DEF Typed
  <2> HIDE DEF Now
  <2>9. DOMAIN players \subseteq Now.conns
    BY <2>5, <2>7, <2>8
  <2>10. /\ Goes(t) /\ t.tails = players
         /\ Quiet(Now) => Quiet(t)
         /\ Hale(Now) /\ (\A p \in DOMAIN players : players[p] # <<>>) => Hale(t)
         /\ \A d \in open, p \in Cells : Leaves(Now, d, p) => Leaves(t, d, p)
    BY ONLY <2>3, <2>5, <2>7, <2>9, Retailed
  <2>11. killed = {} => \A p \in DOMAIN players : players[p] # <<>>
    BY <2>4, <2>5 DEF IInv, Living
  <2>12. /\ w \in Mail /\ For(c, w) /\ w.type = "ServerValidation"
         /\ (\A p \in DOMAIN players : players[p] # <<>>) => Lively(w)
         /\ \A p \in powerups : Puts(w, p)
    <3>1. c \in DOMAIN players
      BY <2>5
    <3> QED  BY ONLY <2>3, <2>5, <2>8, <3>1, c \in Clients, WelcomeIs
  <2>13. /\ Goes(u) /\ u.tails = t.tails
         /\ Quiet(t) => Quiet(u)
         /\ Hale(t) /\ Lively(w) => Hale(u)
         /\ \A d \in open, p \in Cells : d # c /\ Leaves(t, d, p) => Leaves(u, d, p)
         /\ \A p \in Cells : Puts(w, p) => ArrivesIn(u.down[c], p)
    <3>1. w.type # "StartGame"
      BY <2>12
    <3>2. Goes(t) /\ c \in open /\ w \in Mail /\ For(c, w)
      BY <2>8, <2>10, <2>12
    <3> QED  BY ONLY <2>2, <3>1, <3>2, Posted
  <2>14. /\ Goes(r) /\ Relayed(u, m, c, r)
         /\ Quiet(u) /\ m.type # "StartGame" => Quiet(r)
         /\ Hale(u) /\ Lively(m) => Hale(r)
         /\ \A d \in open, p \in Cells : Leaves(u, d, p) /\ (d = c \/ ~Removes(m, p)) => Leaves(r, d, p)
    BY ONLY <2>3, <2>6, <2>13, BroadcastGoes
  <2>15. Quiet(r) /\ (killed = {} => Hale(r))
    BY <2>6, <2>7, <2>10, <2>11, <2>12, <2>13, <2>14
  <2>16. DOMAIN r.tails \subseteq DOMAIN tails \cup {c} /\ DOMAIN r.tails \subseteq Clients
    <3>1. DOMAIN r.tails \subseteq DOMAIN players
      BY <2>10, <2>13, <2>14 DEF Relayed
    <3>2. DOMAIN tails \subseteq Clients
      BY <1>2 DEF Typed
    <3> QED  BY <2>5, <3>1, <3>2
  <2>17. ASSUME NEW d \in open \cap DOMAIN r.tails, NEW p \in powerups'
         PROVE  \/ Claimed(d, p)' \/ ArrivesIn(r.down[d], p)
                \/ p \in Present(client[d].powerups) /\ Spares(r.down[d], p)
    <3>1. p \in powerups /\ p \in Cells
      BY <2>1, <2>8
    <3>2. CASE d = c
      <4>1. ArrivesIn(u.down[c], p)
        BY <2>12, <2>13, <3>1
      <4>2. Follows(c, m, c, u.down[c], r.down[c])
        BY <2>8, <2>14 DEF Relayed
      <4>3. ArrivesIn(r.down[c], p)
        BY <4>1, <4>2 DEF Follows
      <4> QED  BY <3>2, <4>3
    <3>3. CASE d # c
      <4>1. d \in open \cap DOMAIN tails
        BY <2>16, <3>3
      <4>2. Leaves(r, d, p)
        BY <2>6, <2>7, <2>10, <2>13, <2>14, <3>1, <3>3
      <4>3. Claimed(d, p) => Claimed(d, p)'
        BY <1>3
      <4> QED  BY ONLY IInv, <1>1, <3>1, <4>1, <4>2, <4>3, StillThere
    <3> QED  BY <3>2, <3>3
  <2>18. /\ powerups' \subseteq Cells /\ gameStarted' \in BOOLEAN
         /\ killed' \subseteq Clients /\ open' = open /\ client' = client
    BY <1>2, <2>1 DEF Typed
  <2>19. deadAtJoin' \in [Clients -> SUBSET Clients]
    BY <1>2, <2>1 DEF Typed
  <2>20. fill' \in Nat
    BY <2>1, <2>16, PowerupCountType
  <2>21. \A d \in open : gameStarted' <=> (client[d].started \/ Starts(r.down[d]))
    BY <2>1, <2>15 DEF IInv, Told, Quiet
  <2>22. killed' = {} => Hale(r) /\ killed = {} /\ \A d \in Clients : \A i \in DOMAIN up'[d] : Lively(up'[d][i])
    BY <1>3, <2>1, <2>15
  <2> QED  BY ONLY IInv, <1>3, <2>1, <2>4, <2>14, <2>17, <2>18, <2>19, <2>20, <2>21, <2>22, ServerKeeps
<1> QED  BY <1>4, <1>5

\* A client is accepted, before the game starts.
LEMMA AcceptKeeps == ASSUME IInv, NEW c \in Clients, Accept(c) PROVE IInv'
<1>1. /\ client[c].phase = "off" /\ ~gameStarted
      /\ conns' = conns \cup {c} /\ open' = open \cup {c}
      /\ client' = [client EXCEPT ![c].phase = "waiting"]
      /\ UNCHANGED <<tails, powerups, spawnpoints, gameStarted, fill, crashed, up, down, killed, deadAtJoin>>
  BY DEF Accept
<1>2. Typed
  BY TypeIs DEF IInv
<1>3. client[c] \in States /\ client \in [Clients -> States]
  BY <1>2 DEF Typed
<1> DEFINE s == [client[c] EXCEPT !.phase = "waiting"]
<1>4. /\ s \in States /\ s.phase = "waiting" /\ s.players = client[c].players
      /\ s.powerups = client[c].powerups /\ s.started = client[c].started
  BY <1>3 DEF States
<1>5. client' = [client EXCEPT ![c] = s]
  BY <1>1, <1>3
<1> HIDE DEF s
<1>6. client'[c] = s /\ \A d \in Clients : d # c => client'[d] = client[d]
  BY <1>3, <1>5
<1>7. c \notin conns /\ down[c] = <<>> /\ ~client[c].started
  BY <1>1 DEF IInv, Roster
<1>8. TypeOK'
  <2>1. client' \in [Clients -> States]
    BY <1>3, <1>4, <1>5
  <2>2. Typed'
    BY <1>1, <1>2, <2>1 DEF Typed
  <2> QED  BY <2>2, TypeIs, PTL
<1>9. Mailed'
  BY <1>1 DEF IInv, Mailed
<1>10. Roster'
  BY <1>1, <1>4, <1>6 DEF IInv, Roster
<1>11. Told'
  <2>1. ~Starts(down[c])
    BY <1>7 DEF Starts
  <2> QED  BY <1>1, <1>2, <1>4, <1>6, <1>7, <2>1 DEF IInv, Told, Typed
<1>12. Living'
  <2>1. killed = {} => \A d \in Clients : \A p \in DOMAIN client[d].players : client[d].players[p].tail # <<>>
    BY DEF IInv, Living
  <2>2. \A d \in Clients : client'[d].players = client[d].players
    BY <1>4, <1>6
  <2>3. killed' = {} => \A d \in Clients : \A p \in DOMAIN client'[d].players : client'[d].players[p].tail # <<>>
    BY <1>1, <2>1, <2>2
  <2> QED  BY <1>1, <2>3 DEF IInv, Living
<1>13. PowerupEverywhere'
  <2>1. \A d \in open' \cap DOMAIN tails' : d \in open \cap DOMAIN tails /\ d # c /\ d \in Clients
    BY <1>1, <1>2, <1>7 DEF Typed
  <2> QED  BY <1>1, <1>6, <2>1 DEF IInv, PowerupEverywhere, Claimed, Arrives, Has, At
<1> QED  BY <1>8, <1>9, <1>10, <1>11, <1>12, <1>13 DEF IInv

----------------------------------------------------------------------------
(* Steps of a client *)

\* every snake that s knows has a head
Headed(s) == \A p \in DOMAIN s.players : s.players[p].tail # <<>>

\* c may come to be in s, with u still to be heard and d still to be handled
Allowed(c, s, u, d) ==
    /\ s \in States /\ u \in Seq(Reports) /\ d \in Seq(Mail)
    /\ s.phase \notin {"off", "gone"}
    /\ s.phase \in {"entering", "idle", "handling"} => c \in DOMAIN s.players
    /\ \A i \in DOMAIN d : For(c, d[i])
    /\ (s.started \/ Starts(d)) <=> (client[c].started \/ Starts(down[c]))
    /\ killed = {} => /\ Headed(s) /\ (\A i \in DOMAIN u : Lively(u[i]))
                      /\ \A i \in DOMAIN d : Lively(d[i])
    /\ \A p \in powerups : Claimed(c, p) \/ Arrives(c, p) \/ Has(c, p) =>
         \/ \E i \in DOMAIN u : u[i] = At("PowerupEaten", p)
         \/ ArrivesIn(d, p)
         \/ p \in Present(s.powerups) /\ Spares(d, p)

\* A step of c to such a state keeps the invariant.
LEMMA ClientKeeps ==
    ASSUME IInv, NEW c \in Clients, NEW s, NEW u, NEW d, Allowed(c, s, u, d), UNCHANGED server,
           client' = [client EXCEPT ![c] = s], up' = [up EXCEPT ![c] = u], down' = [down EXCEPT ![c] = d]
    PROVE  IInv'
<1>0. /\ s \in States /\ u \in Seq(Reports) /\ d \in Seq(Mail)
      /\ s.phase \notin {"off", "gone"}
      /\ s.phase \in {"entering", "idle", "handling"} => c \in DOMAIN s.players
      /\ \A i \in DOMAIN d : For(c, d[i])
      /\ (s.started \/ Starts(d)) <=> (client[c].started \/ Starts(down[c]))
      /\ killed = {} => /\ Headed(s) /\ (\A i \in DOMAIN u : Lively(u[i]))
                        /\ \A i \in DOMAIN d : Lively(d[i])
      /\ \A p \in powerups : Claimed(c, p) \/ Arrives(c, p) \/ Has(c, p) =>
           \/ \E i \in DOMAIN u : u[i] = At("PowerupEaten", p)
           \/ ArrivesIn(d, p)
           \/ p \in Present(s.powerups) /\ Spares(d, p)
  BY DEF Allowed
<1>1. UNCHANGED <<conns, open, tails, powerups, spawnpoints, gameStarted, fill, crashed, killed, deadAtJoin>>
  BY DEF server
<1>2. Typed
  BY TypeIs DEF IInv
<1>3. client \in [Clients -> States] /\ up \in [Clients -> Seq(Reports)] /\ down \in [Clients -> Seq(Mail)]
  BY <1>2 DEF Typed, IInv, Mailed
<1>4. client'[c] = s /\ \A x \in Clients : x # c => client'[x] = client[x]
  BY <1>3
<1>5. up'[c] = u /\ \A x \in Clients : x # c => up'[x] = up[x]
  BY <1>3
<1>6. down'[c] = d /\ \A x \in Clients : x # c => down'[x] = down[x]
  BY <1>3
<1>7. /\ client' \in [Clients -> States] /\ up' \in [Clients -> Seq(Reports)]
      /\ down' \in [Clients -> Seq(Mail)]
  BY <1>0, <1>3
<1>8. TypeOK'
  <2>1. Typed'
    BY <1>1, <1>2, <1>7 DEF Typed
  <2> QED  BY <2>1, TypeIs, PTL
<1>9. Mailed'
  BY <1>0, <1>6, <1>7 DEF IInv, Mailed
<1>10. Roster'
  BY <1>0, <1>1, <1>4, <1>6 DEF IInv, Roster
<1>11. Told'
  <2>1. open \subseteq Clients
    BY <1>2 DEF Typed
  <2> QED  BY <1>0, <1>1, <1>4, <1>6, <2>1 DEF IInv, Told
<1>12. Living'
  <2>1. ASSUME killed = {}, NEW x \in Clients
        PROVE  /\ \A p \in DOMAIN client'[x].players : client'[x].players[p].tail # <<>>
               /\ \A i \in DOMAIN up'[x] : Lively(up'[x][i])
               /\ \A i \in DOMAIN down'[x] : Lively(down'[x][i])
    <3>1. CASE x = c
      BY <1>0, <1>4, <1>5, <1>6, <2>1, <3>1 DEF Headed
    <3>2. CASE x # c
      <4>1. /\ \A p \in DOMAIN client[x].players : client[x].players[p].tail # <<>>
            /\ \A i \in DOMAIN up[x] : Lively(up[x][i])
            /\ \A i \in DOMAIN down[x] : Lively(down[x][i])
        BY <2>1 DEF IInv, Living
      <4>2. client'[x] = client[x] /\ up'[x] = up[x] /\ down'[x] = down[x]
        BY <1>4, <1>5, <1>6, <3>2
      <4> QED  BY <4>1, <4>2
    <3> QED  BY <3>1, <3>2
  <2>2. killed = {} => crashed # "empty tail" /\ \A p \in DOMAIN tails : tails[p] # <<>>
    BY DEF IInv, Living
  <2> QED  BY <1>1, <2>1, <2>2 DEF Living
<1>13. PowerupEverywhere'
  <2> SUFFICES ASSUME crashed' = "no", NEW x \in (open \cap DOMAIN tails)', NEW p \in powerups'
               PROVE  (Claimed(x, p) \/ Arrives(x, p) \/ Has(x, p))'
    BY DEF PowerupEverywhere
  <2>1. x \in open \cap DOMAIN tails /\ x \in Clients /\ p \in powerups /\ crashed = "no"
    BY <1>1, <1>2 DEF Typed
  <2>2. Claimed(x, p) \/ Arrives(x, p) \/ Has(x, p)
    BY <2>1 DEF IInv, PowerupEverywhere
  <2>3. CASE x # c
    BY <1>4, <1>5, <1>6, <2>1, <2>2, <2>3 DEF Claimed, Arrives, Has, At
  <2>4. CASE x = c
    <3>1. \/ \E i \in DOMAIN u : u[i] = At("PowerupEaten", p)
          \/ ArrivesIn(d, p)
          \/ p \in Present(s.powerups) /\ Spares(d, p)
      BY <1>0, <2>1, <2>2, <2>4
    <3> QED  BY <1>4, <1>5, <1>6, <2>4, <3>1 DEF Claimed, Arrives, Has, At, ArrivesIn, Spares
  <2> QED  BY <2>3, <2>4
<1> QED  BY <1>8, <1>9, <1>10, <1>11, <1>12, <1>13 DEF IInv

\* A client whose players change.
LEMMA PlayersChange ==
    ASSUME NEW s \in States, NEW f \in Maps(Snakes), NEW r, r = [s EXCEPT !.players = f]
    PROVE  /\ r \in States /\ r.phase = s.phase /\ r.players = f /\ r.powerups = s.powerups
           /\ r.started = s.started
  BY DEF States

\* A client whose powerups change.
LEMMA PowerupsChange ==
    ASSUME NEW s \in States, NEW f \in [Cells -> Nat], NEW r, r = [s EXCEPT !.powerups = f]
    PROVE  /\ r \in States /\ r.phase = s.phase /\ r.players = s.players /\ r.powerups = f
           /\ r.started = s.started
  BY DEF States

\* The powerups of a client.
LEMMA PowerupTypes ==
    /\ \A read \in SUBSET Cells :
         Received(read) \in [Cells -> Nat] /\ read \subseteq Present(Received(read))
    /\ \A f \in [Cells -> Nat], q \in Cells :
         /\ Added(f, q) \in [Cells -> Nat] /\ Erased(f, q) \in [Cells -> Nat]
         /\ Present(f) \cup {q} \subseteq Present(Added(f, q))
         /\ \A p \in Present(f) : p # q => p \in Present(Erased(f, q))
<1>1. ASSUME NEW read \in SUBSET Cells
      PROVE  Received(read) \in [Cells -> Nat] /\ read \subseteq Present(Received(read))
  <2> DEFINE n == Cardinality(read)
             W == 0..(Width - 1)
             H == 0..(Height - 1)
  <2>1. n \in Nat
    <3>1. IsFiniteSet(W) /\ IsFiniteSet(H)
      BY GridAssumption, FS_Interval
    <3>2. IsFiniteSet(Cells)
      BY <3>1, FS_Product DEF Cells
    <3>3. IsFiniteSet(read)
      BY <3>2, FS_Subset
    <3> QED  BY <3>3, FS_CardinalityType
  <2> HIDE DEF n
  <2>2. Received(read) = [p \in Cells |-> (IF p \in read THEN 1 ELSE 0) + (IF p = Origin THEN n ELSE 0)]
    BY DEF Received, n
  <2>3. ASSUME NEW p \in Cells
        PROVE  LET k == (IF p \in read THEN 1 ELSE 0) + (IF p = Origin THEN n ELSE 0)
               IN  k \in Nat /\ (p \in read => k > 0)
    BY <2>1
  <2> QED  BY <2>2, <2>3 DEF Present
<1>2. ASSUME NEW f \in [Cells -> Nat], NEW q \in Cells
      PROVE  /\ Added(f, q) \in [Cells -> Nat] /\ Erased(f, q) \in [Cells -> Nat]
             /\ Present(f) \cup {q} \subseteq Present(Added(f, q))
             /\ \A p \in Present(f) : p # q => p \in Present(Erased(f, q))
  <2>1. f[q] \in Nat /\ f[q] + 1 \in Nat /\ f[q] + 1 > 0 /\ (IF f[q] > 0 THEN f[q] - 1 ELSE 0) \in Nat
    OBVIOUS
  <2> DEFINE k == IF f[q] > 0 THEN f[q] - 1 ELSE 0
  <2>2. Added(f, q) = [f EXCEPT ![q] = f[q] + 1] /\ Erased(f, q) = [f EXCEPT ![q] = k]
    BY DEF Added, Erased
  <2> HIDE DEF k
  <2> QED  BY <2>1, <2>2 DEF Present, k
<1> QED  BY <1>1, <1>2

\* a client in s that handles m is in r
Handled(c, s, m, r) ==
    /\ r \in States /\ r.phase \in {"entering", s.phase}
    /\ r.phase \in {"entering", "idle", "handling"} => c \in DOMAIN r.players
    /\ r.started <=> (s.started \/ m.type = "StartGame")
    /\ Headed(s) /\ Lively(m) => Headed(r)
    /\ \A p \in Cells : Puts(m, p) => p \in Present(r.powerups)
    /\ \A p \in Present(s.powerups) : ~Removes(m, p) => p \in Present(r.powerups)

\* A player that is there, or is made.
LEMMA PlayerOfType ==
    ASSUME NEW f \in Maps(Snakes), NEW p
    PROVE  PlayerOf(f, p) \in Snakes
  BY MapType, SnakeTypes DEF PlayerOf

\* Handling a message that is about one player, who is there then.
LEMMA HandledOne ==
    ASSUME NEW c \in Clients, NEW s \in States, NEW m \in Mail, NEW x \in Clients, NEW v \in Snakes,
           s.phase \in {"entering", "idle", "handling"} => c \in DOMAIN s.players,
           m.type \notin {"ServerValidation", "NewPowerup", "PowerupEaten", "StartGame"},
           Lively(m) => v.tail # <<>>,
           NEW r, r = [s EXCEPT !.players = With(@, x, v)]
    PROVE  Handled(c, s, m, r)
<1> DEFINE f == s.players
           g == With(f, x, v)
<1>1. f \in Maps(Snakes)
  BY DEF States
<1> HIDE DEF f
<1>2. Widened(Snakes, f, x, v, g)
  BY <1>1, WithType
<1>3. r = [s EXCEPT !.players = g]
  BY DEF f
<1> HIDE DEF g
<1>4. /\ g \in Maps(Snakes) /\ DOMAIN g = DOMAIN f \cup {x} /\ g[x] = v
      /\ \A p \in DOMAIN f : p # x => g[p] = f[p]
  BY <1>2 DEF Widened
<1>5. /\ r \in States /\ r.phase = s.phase /\ r.players = g /\ r.powerups = s.powerups
      /\ r.started = s.started
  BY ONLY <1>3, <1>4, s \in States, PlayersChange
<1>6. Headed(s) /\ Lively(m) => Headed(r)
  BY <1>4, <1>5 DEF Headed, f
<1>7. r.phase \in {"entering", "idle", "handling"} => c \in DOMAIN r.players
  BY <1>4, <1>5 DEF f
<1>8. \A p : ~Puts(m, p)
  BY DEF Puts
<1> QED  BY <1>5, <1>6, <1>7, <1>8 DEF Handled

\* What a client makes of a message it can get.
LEMMA AppliedType ==
    ASSUME NEW c \in Clients, NEW s \in States, NEW m \in Mail, For(c, m),
           s.phase \in {"entering", "idle", "handling"} => c \in DOMAIN s.players
    PROVE  Handled(c, s, m, Applied(s, m))
<1> DEFINE r == Applied(s, m)
<1>0. /\ m.type \in {"ServerValidation", "NewPlayer", "UpdatePlayer", "RemovePlayer",
                     "KillPlayer", "NewPowerup", "PowerupEaten", "StartGame"}
      /\ m.type = "ServerValidation" => m.powerups \in SUBSET Cells /\ m.bodies \in Maps(Bodies)
      /\ m.type \in {"NewPlayer", "UpdatePlayer"} => m.body \in Bodies
      /\ m.type \in {"NewPlayer", "UpdatePlayer", "RemovePlayer", "KillPlayer"} => m.who \in Clients
      /\ m.type = "UpdatePlayer" => m.direction \in Direction
      /\ m.type \in {"NewPowerup", "PowerupEaten"} => m.cell \in Cells
  BY MailFields
<1>1. /\ s.players \in Maps(Snakes) /\ s.powerups \in [Cells -> Nat] /\ s.started \in BOOLEAN
      /\ DOMAIN s.players \subseteq Clients /\ \A p \in DOMAIN s.players : s.players[p] \in Snakes
  BY MapType DEF States
<1>2. CASE m.type = "ServerValidation"
  <2> DEFINE b == m.bodies
             f == Snapshot(s.players, b)
             g == Received(m.powerups)
  <2>1. r = [s EXCEPT !.phase = "entering", !.powerups = g, !.players = f]
    BY <1>2 DEF Applied
  <2>2. g \in [Cells -> Nat] /\ m.powerups \subseteq Present(g)
    BY <1>0, <1>2, PowerupTypes
  <2>3. DOMAIN b \subseteq Clients /\ c \in DOMAIN b /\ \A p \in DOMAIN b : b[p] \in Bodies
    BY <1>0, <1>2, MapType DEF For
  <2>4. \A p \in DOMAIN b : NewPlayer(Popped(b[p])) \in Snakes /\ NewPlayer(Popped(b[p])).tail = Popped(b[p])
    BY <2>3, BodyPopped, SnakeTypes
  <2>5. Lively(m) => \A p \in DOMAIN b : Popped(b[p]) # <<>>
    BY <1>2 DEF Lively
  <2>6. \A p : (Puts(m, p) <=> p \in m.powerups) /\ (Removes(m, p) <=> p \notin m.powerups)
    BY <1>2 DEF Puts, Removes
  <2> HIDE DEF b, g
  <2>7. f = [p \in DOMAIN s.players \cup DOMAIN b |->
               IF p \in DOMAIN b THEN NewPlayer(Popped(b[p])) ELSE s.players[p]]
    BY DEF Snapshot
  <2>8. f \in [DOMAIN s.players \cup DOMAIN b -> Snakes] /\ DOMAIN s.players \cup DOMAIN b \in SUBSET Clients
    BY <1>1, <2>3, <2>4, <2>7
  <2>9. f \in Maps(Snakes) /\ c \in DOMAIN f
    BY <2>3, <2>8, MapMade
  <2>10. Headed(s) /\ Lively(m) => \A p \in DOMAIN f : f[p].tail # <<>>
    BY <2>4, <2>5, <2>7 DEF Headed
  <2> HIDE DEF f
  <2>11. r \in States /\ r.phase = "entering" /\ r.players = f /\ r.powerups = g /\ r.started = s.started
    BY <1>1, <2>1, <2>2, <2>9 DEF States
  <2> HIDE DEF r
  <2>12. Handled(c, s, m, r)
    BY <1>2, <2>2, <2>6, <2>9, <2>10, <2>11 DEF Handled, Headed
  <2> QED  BY <2>12 DEF r
<1>3. CASE m.type = "NewPlayer"
  <2> DEFINE v == NewPlayer(Popped(m.body))
  <2>1. v \in Snakes /\ v.tail = Popped(m.body) /\ m.who \in Clients
    BY <1>0, <1>3, BodyPopped, SnakeTypes
  <2>2. r = [s EXCEPT !.players = With(@, m.who, v)]
    BY <1>3 DEF Applied
  <2>3. Lively(m) => v.tail # <<>>
    BY <1>3, <2>1 DEF Lively
  <2> HIDE DEF r, v
  <2>4. Handled(c, s, m, r)
    BY <1>3, <2>1, <2>2, <2>3, HandledOne
  <2> QED  BY <2>4 DEF r
<1>4. CASE m.type = "UpdatePlayer"
  <2> DEFINE o == PlayerOf(s.players, m.who)
             v == [SetDirection(o, m.direction) EXCEPT !.tail = Popped(m.body)]
  <2>1. o \in Snakes
    BY <1>1, PlayerOfType
  <2>2. Popped(m.body) \in Seq(Cells) /\ m.who \in Clients /\ m.direction \in Direction
    BY <1>0, <1>4, BodyPopped
  <2>3. r = [s EXCEPT !.players = With(@, m.who, v)]
    BY <1>4 DEF Applied
  <2> HIDE DEF o
  <2>4. v \in Snakes /\ v.tail = Popped(m.body)
    <3>1. SetDirection(o, m.direction) \in Snakes
      BY <2>1, <2>2, SnakeTypes
    <3> QED  BY <2>2, <3>1, SnakeTypes
  <2>5. Lively(m) => v.tail # <<>>
    BY <1>4, <2>4 DEF Lively
  <2> HIDE DEF r, v
  <2>6. Handled(c, s, m, r)
    BY <1>4, <2>2, <2>3, <2>4, <2>5, HandledOne
  <2> QED  BY <2>6 DEF r
<1>5. CASE m.type = "KillPlayer"
  <2> DEFINE o == PlayerOf(s.players, m.who)
             v == Kill(o)
  <2>1. v \in Snakes /\ m.who \in Clients
    BY <1>0, <1>1, <1>5, PlayerOfType, SnakeTypes
  <2>2. r = [s EXCEPT !.players = With(@, m.who, v)]
    BY <1>5 DEF Applied
  <2>3. ~Lively(m)
    BY <1>5 DEF Lively
  <2> HIDE DEF r, v
  <2>4. Handled(c, s, m, r)
    BY <1>5, <2>1, <2>2, <2>3, HandledOne
  <2> QED  BY <2>4 DEF r
<1>6. CASE m.type = "RemovePlayer"
  <2> DEFINE f == Without(s.players, m.who)
  <2>1. /\ f \in Maps(Snakes) /\ DOMAIN f = DOMAIN s.players \ {m.who}
        /\ \A p \in DOMAIN s.players \ {m.who} : f[p] = s.players[p]
    BY <1>1, WithoutType
  <2>2. r = [s EXCEPT !.players = f] /\ m.who # c
    BY <1>6 DEF Applied, For
  <2> HIDE DEF f, r
  <2>3. /\ r \in States /\ r.phase = s.phase /\ r.players = f /\ r.powerups = s.powerups
        /\ r.started = s.started
    BY ONLY <2>1, <2>2, s \in States, PlayersChange
  <2>4. Handled(c, s, m, r)
    BY <1>6, <2>1, <2>2, <2>3 DEF Handled, Headed, Puts
  <2> QED  BY <2>4 DEF r
<1>7. CASE m.type \in {"NewPowerup", "PowerupEaten"}
  <2> DEFINE f == IF m.type = "NewPowerup" THEN Added(s.powerups, m.cell) ELSE Erased(s.powerups, m.cell)
  <2>1. f \in [Cells -> Nat] /\ m.cell \in Cells
    BY <1>0, <1>1, <1>7, PowerupTypes
  <2>2. r = [s EXCEPT !.powerups = f]
    BY <1>7 DEF Applied
  <2>3. /\ \A p \in Cells : Puts(m, p) => p \in Present(f)
        /\ \A p \in Present(s.powerups) : ~Removes(m, p) => p \in Present(f)
    <3>1. CASE m.type = "NewPowerup"
      BY <1>0, <1>1, <3>1, PowerupTypes DEF Puts, Removes
    <3>2. CASE m.type = "PowerupEaten"
      BY <1>0, <1>1, <3>2, PowerupTypes DEF Puts, Removes
    <3> QED  BY <1>7, <3>1, <3>2
  <2> HIDE DEF f, r
  <2>4. /\ r \in States /\ r.phase = s.phase /\ r.players = s.players /\ r.powerups = f
        /\ r.started = s.started
    BY ONLY <2>1, <2>2, s \in States, PowerupsChange
  <2>5. Handled(c, s, m, r)
    BY <1>7, <2>3, <2>4 DEF Handled, Headed
  <2> QED  BY <2>5 DEF r
<1>8. CASE m.type = "StartGame"
  <2>1. r = [s EXCEPT !.started = TRUE]
    BY <1>8 DEF Applied
  <2>2. /\ r \in States /\ r.phase = s.phase /\ r.players = s.players /\ r.powerups = s.powerups
        /\ r.started = TRUE
    BY <2>1 DEF States
  <2> HIDE DEF r
  <2>3. Handled(c, s, m, r)
    BY <1>8, <2>2 DEF Handled, Headed, Puts
  <2> QED  BY <2>3 DEF r
<1> QED  BY <1>0, <1>2, <1>3, <1>4, <1>5, <1>6, <1>7, <1>8

\* d is m and behind it e
Unreads(d, m, e) ==
    /\ m \in Mail /\ e \in Seq(Mail) /\ 1 \in DOMAIN d /\ m = d[1]
    /\ \A i \in DOMAIN e : \E j \in DOMAIN d : e[i] = d[j]
    /\ Starts(d) <=> (m.type = "StartGame" \/ Starts(e))
    /\ \A p : Spares(d, p) => ~Removes(m, p) /\ Spares(e, p)
    /\ \A p : ArrivesIn(d, p) => ArrivesIn(e, p) \/ (Puts(m, p) /\ Spares(e, p))

\* What is left when the first message is handled.
LEMMA Unread ==
    ASSUME NEW d \in Seq(Mail), d # <<>>
    PROVE  Unreads(d, Head(d), Tail(d))
<1> DEFINE m == Head(d)
           e == Tail(d)
<1>1. /\ m \in Mail /\ e \in Seq(Mail) /\ m = d[1] /\ 1 \in DOMAIN d /\ DOMAIN d \subseteq Nat
      /\ \A i \in DOMAIN e : i + 1 \in DOMAIN d /\ e[i] = d[i + 1] /\ i \in Nat /\ i + 1 > 1
      /\ \A i \in DOMAIN d : i # 1 => i - 1 \in DOMAIN e /\ e[i - 1] = d[i]
  OBVIOUS
<1> HIDE DEF m, e
<1>2. Starts(d) <=> (m.type = "StartGame" \/ Starts(e))
  <2>1. ASSUME Starts(d) PROVE m.type = "StartGame" \/ Starts(e)
    <3>1. PICK i \in DOMAIN d : d[i].type = "StartGame"
      BY <2>1 DEF Starts
    <3>2. CASE i = 1
      BY <1>1, <3>1, <3>2
    <3>3. CASE i # 1
      <4>1. PICK j \in DOMAIN e : e[j] = d[i]
        BY <1>1, <3>3
      <4> QED  BY <3>1, <4>1 DEF Starts
    <3> QED  BY <3>2, <3>3
  <2>2. ASSUME Starts(e) PROVE Starts(d)
    <3>1. PICK i \in DOMAIN e : e[i].type = "StartGame"
      BY <2>2 DEF Starts
    <3>2. PICK j \in DOMAIN d : e[i] = d[j]
      BY <1>1
    <3> QED  BY <3>1, <3>2 DEF Starts
  <2>3. m.type = "StartGame" => Starts(d)
    BY <1>1 DEF Starts
  <2> QED  BY <2>1, <2>2, <2>3
<1>3. ASSUME NEW p, Spares(d, p) PROVE ~Removes(m, p) /\ Spares(e, p)
  BY <1>1, <1>3 DEF Spares
<1>4. ASSUME NEW p, ArrivesIn(d, p) PROVE ArrivesIn(e, p) \/ (Puts(m, p) /\ Spares(e, p))
  <2>1. PICK i \in DOMAIN d : Puts(d[i], p) /\ \A j \in DOMAIN d : j > i => ~Removes(d[j], p)
    BY <1>4 DEF ArrivesIn
  <2>2. CASE i = 1
    <3>1. Puts(m, p)
      BY <1>1, <2>1, <2>2
    <3>2. Spares(e, p)
      BY <1>1, <2>1, <2>2 DEF Spares
    <3> QED  BY <3>1, <3>2
  <2>3. CASE i # 1
    <3> DEFINE k == i - 1
    <3>1. k \in DOMAIN e /\ e[k] = d[i] /\ k \in Nat /\ i = k + 1
      BY <1>1, <2>3
    <3> HIDE DEF k
    <3>2. \A j \in DOMAIN e : j > k => ~Removes(e[j], p)
      BY <1>1, <2>1, <3>1
    <3> QED  BY <2>1, <3>1, <3>2 DEF ArrivesIn
  <2> QED  BY <2>2, <2>3
<1>5. Unreads(d, m, e)
  BY <1>1, <1>2, <1>3, <1>4 DEF Unreads
<1> QED  BY <1>5 DEF m, e

\* A client handles a message.
LEMMA HandleKeeps == ASSUME IInv, NEW c \in Clients, Handle(c) PROVE IInv'
<1> DEFINE s == client[c]
           d == down[c]
           m == Head(d)
           e == Tail(d)
           r == Applied(s, m)
           u == up[c]
<1>1. /\ s.phase \in {"waiting", "entering", "handling"} /\ d # <<>>
      /\ client' = [client EXCEPT ![c] = r] /\ down' = [down EXCEPT ![c] = e]
      /\ UNCHANGED server /\ UNCHANGED up
  BY DEF Handle
<1>2. Typed
  BY TypeIs DEF IInv
<1>3. s \in States /\ d \in Seq(Mail) /\ u \in Seq(Reports) /\ up \in [Clients -> Seq(Reports)]
  BY <1>2 DEF Typed, IInv, Mailed
<1>4. up' = [up EXCEPT ![c] = u]
  BY <1>1, <1>3
<1>5. /\ \A i \in DOMAIN d : For(c, d[i])
      /\ s.phase \in {"entering", "idle", "handling"} => c \in DOMAIN s.players
  BY DEF IInv, Mailed, Roster
<1>6. killed = {} => /\ Headed(s) /\ (\A i \in DOMAIN u : Lively(u[i])) /\ \A i \in DOMAIN d : Lively(d[i])
  BY DEF IInv, Living, Headed
<1>7. \A p : /\ Claimed(c, p) => \E i \in DOMAIN u : u[i] = At("PowerupEaten", p)
             /\ Arrives(c, p) => ArrivesIn(d, p)
             /\ Has(c, p) => p \in Present(s.powerups) /\ Spares(d, p)
  BY DEF Claimed, Arrives, ArrivesIn, Has, Spares
<1>8. powerups \subseteq Cells
  BY <1>2 DEF Typed
<1>9. m = Head(d) /\ e = Tail(d) /\ r = Applied(s, m)
  OBVIOUS
<1>10. s.started = client[c].started /\ Starts(d) = Starts(down[c])
  OBVIOUS
<1> HIDE DEF s, d, m, e, r, u
<1>11. /\ m \in Mail /\ e \in Seq(Mail) /\ 1 \in DOMAIN d /\ m = d[1]
       /\ \A i \in DOMAIN e : \E j \in DOMAIN d : e[i] = d[j]
       /\ Starts(d) <=> (m.type = "StartGame" \/ Starts(e))
       /\ \A p : Spares(d, p) => ~Removes(m, p) /\ Spares(e, p)
       /\ \A p : ArrivesIn(d, p) => ArrivesIn(e, p) \/ (Puts(m, p) /\ Spares(e, p))
  <2>1. d \in Seq(Mail) /\ d # <<>>
    BY <1>1, <1>3
  <2>2. Unreads(d, Head(d), Tail(d))
    BY ONLY <2>1, Unread
  <2> QED  BY <1>9, <2>2 DEF Unreads
<1>12. Handled(c, s, m, r)
  <2>1. For(c, m)
    BY <1>5, <1>11
  <2>2. Handled(c, s, m, Applied(s, m))
    BY ONLY c \in Clients, <1>3, <1>5, <1>11, <2>1, AppliedType
  <2> QED  BY <1>9, <2>2
<1>13. /\ r \in States /\ r.phase \notin {"off", "gone"}
       /\ r.phase \in {"entering", "idle", "handling"} => c \in DOMAIN r.players
  BY <1>1, <1>12 DEF Handled
<1>14. \A i \in DOMAIN e : For(c, e[i])
  BY <1>5, <1>11
<1>15. (r.started \/ Starts(e)) <=> (client[c].started \/ Starts(down[c]))
  <2>1. r.started <=> (s.started \/ m.type = "StartGame")
    BY <1>12 DEF Handled
  <2>2. (r.started \/ Starts(e)) <=> (s.started \/ Starts(d))
    BY <1>11, <2>1
  <2> QED  BY <2>2 DEF s, d
<1>16. killed = {} => Headed(r) /\ (\A i \in DOMAIN u : Lively(u[i])) /\ \A i \in DOMAIN e : Lively(e[i])
  <2>1. ASSUME killed = {} PROVE \A i \in DOMAIN e : Lively(e[i])
    BY <1>6, <1>11, <2>1
  <2>2. ASSUME killed = {} PROVE Headed(r)
    <3>1. Headed(s) /\ Lively(m)
      BY <1>6, <1>11, <2>2
    <3> QED  BY <1>12, <3>1 DEF Handled
  <2> QED  BY <1>6, <2>1, <2>2
<1>17. ASSUME NEW p \in powerups, Claimed(c, p) \/ Arrives(c, p) \/ Has(c, p)
       PROVE  \/ \E i \in DOMAIN u : u[i] = At("PowerupEaten", p)
              \/ ArrivesIn(e, p)
              \/ p \in Present(r.powerups) /\ Spares(e, p)
  <2>1. CASE Claimed(c, p)
    BY <1>7, <2>1
  <2>2. CASE Arrives(c, p)
    <3>1. ArrivesIn(e, p) \/ (Puts(m, p) /\ Spares(e, p))
      BY <1>7, <1>11, <2>2
    <3>2. Puts(m, p) => p \in Present(r.powerups)
      BY <1>8, <1>12 DEF Handled
    <3> QED  BY <3>1, <3>2
  <2>3. CASE Has(c, p)
    <3>1. p \in Present(s.powerups) /\ ~Removes(m, p) /\ Spares(e, p)
      BY <1>7, <1>11, <2>3
    <3>2. p \in Present(r.powerups)
      BY <1>12, <3>1 DEF Handled
    <3> QED  BY <3>1, <3>2
  <2> QED  BY <1>17, <2>1, <2>2, <2>3
<1>18. Allowed(c, r, u, e)
  BY <1>3, <1>11, <1>13, <1>14, <1>15, <1>16, <1>17 DEF Allowed
<1> QED  BY ONLY IInv, c \in Clients, <1>1, <1>4, <1>18, ClientKeeps

\* u is what c sent and m
Reporting(c, m, u) ==
    /\ u \in Seq(Reports)
    /\ killed = {} /\ Lively(m) => \A i \in DOMAIN u : Lively(u[i])
    /\ \A p : Claimed(c, p) => \E i \in DOMAIN u : u[i] = At("PowerupEaten", p)
    /\ \E i \in DOMAIN u : u[i] = m

\* One more message to the server.
LEMMA Reported ==
    ASSUME IInv, NEW c \in Clients, NEW m \in Reports
    PROVE  Reporting(c, m, Append(up[c], m))
<1> DEFINE v == up[c]
           u == Append(v, m)
<1>1. v \in Seq(Reports) /\ u = Append(v, m)
  BY DEF IInv, Mailed
<1>2. killed = {} => \A i \in DOMAIN v : Lively(v[i])
  BY DEF IInv, Living
<1>3. \A p : Claimed(c, p) => \E i \in DOMAIN v : v[i] = At("PowerupEaten", p)
  BY DEF Claimed
<1> HIDE DEF v, u
<1>4. /\ u \in Seq(Reports) /\ DOMAIN v = 1..Len(v) /\ Len(v) \in Nat /\ DOMAIN u = 1..(Len(v) + 1)
      /\ u[Len(v) + 1] = m /\ \A i \in DOMAIN v : u[i] = v[i]
  BY <1>1
<1>5. DOMAIN v \subseteq DOMAIN u /\ Len(v) + 1 \in DOMAIN u /\ \A i \in DOMAIN u : i \in DOMAIN v \/ i = Len(v) + 1
  BY <1>4
<1>6. \E i \in DOMAIN u : u[i] = m
  BY <1>4, <1>5
<1>7. ASSUME killed = {}, Lively(m), NEW i \in DOMAIN u PROVE Lively(u[i])
  BY <1>2, <1>4, <1>5, <1>7
<1>8. ASSUME NEW p, Claimed(c, p) PROVE \E i \in DOMAIN u : u[i] = At("PowerupEaten", p)
  <2>1. PICK i \in DOMAIN v : v[i] = At("PowerupEaten", p)
    BY <1>3, <1>8
  <2> QED  BY <1>4, <1>5, <2>1
<1>9. Reporting(c, m, u)
  BY <1>4, <1>6, <1>7, <1>8 DEF Reporting
<1> QED  BY <1>9 DEF u, v

\* A client between two messages.
LEMMA ClientIs ==
    ASSUME IInv, NEW c \in Clients, client[c].phase \in {"entering", "idle", "handling"}
    PROVE  /\ client[c] \in States /\ client[c].players \in Maps(Snakes) /\ c \in DOMAIN client[c].players
           /\ client[c].powerups \in [Cells -> Nat]
           /\ down[c] \in Seq(Mail) /\ up[c] \in Seq(Reports)
           /\ client \in [Clients -> States] /\ up \in [Clients -> Seq(Reports)]
           /\ down \in [Clients -> Seq(Mail)] /\ down = [down EXCEPT ![c] = down[c]]
           /\ up = [up EXCEPT ![c] = up[c]]
           /\ killed = {} => Headed(client[c]) /\ \A i \in DOMAIN up[c] : Lively(up[c][i])
<1>1. Typed
  BY TypeIs DEF IInv
<1>2. client \in [Clients -> States] /\ up \in [Clients -> Seq(Reports)] /\ down \in [Clients -> Seq(Mail)]
  BY <1>1 DEF Typed, IInv, Mailed
<1>3. client[c] \in States /\ down[c] \in Seq(Mail) /\ up[c] \in Seq(Reports)
  BY <1>2
<1>4. client[c].players \in Maps(Snakes) /\ client[c].powerups \in [Cells -> Nat]
  BY <1>3 DEF States
<1>5. down = [down EXCEPT ![c] = down[c]] /\ up = [up EXCEPT ![c] = up[c]]
  BY <1>2
<1>6. c \in DOMAIN client[c].players
  BY DEF IInv, Roster
<1>7. killed = {} => Headed(client[c]) /\ \A i \in DOMAIN up[c] : Lively(up[c][i])
  BY DEF IInv, Living, Headed
<1> QED  BY <1>2, <1>3, <1>4, <1>5, <1>6, <1>7

\* A step of c in which it handles no message: what it eats, it reports.
LEMMA OwnStep ==
    ASSUME IInv, NEW c \in Clients, client[c].phase \in {"entering", "idle", "handling"},
           NEW s \in States, s.phase \notin {"off", "gone"}, c \in DOMAIN s.players,
           s.started = client[c].started, killed = {} => Headed(s),
           NEW u \in Seq(Reports), killed = {} => \A i \in DOMAIN u : Lively(u[i]),
           \A p : Claimed(c, p) => \E i \in DOMAIN u : u[i] = At("PowerupEaten", p),
           \A p \in Present(client[c].powerups) :
               p \in Present(s.powerups) \/ \E i \in DOMAIN u : u[i] = At("PowerupEaten", p),
           UNCHANGED <<server, down>>, client' = [client EXCEPT ![c] = s], up' = [up EXCEPT ![c] = u]
    PROVE  IInv'
<1> DEFINE d == down[c]
<1>1. d \in Seq(Mail) /\ down = [down EXCEPT ![c] = d]
  BY ClientIs
<1>2. down' = [down EXCEPT ![c] = d] /\ UNCHANGED server
  BY <1>1
<1>3. \A i \in DOMAIN d : For(c, d[i])
  BY DEF IInv, Mailed
<1>4. killed = {} => \A i \in DOMAIN d : Lively(d[i])
  BY DEF IInv, Living
<1>5. \A p : /\ Arrives(c, p) => ArrivesIn(d, p)
             /\ Has(c, p) => p \in Present(client[c].powerups) /\ Spares(d, p)
  BY DEF Arrives, ArrivesIn, Has, Spares
<1>6. Starts(d) <=> Starts(down[c])
  OBVIOUS
<1> HIDE DEF d
<1>7. (s.started \/ Starts(d)) <=> (client[c].started \/ Starts(down[c]))
  BY <1>6
<1>8. ASSUME NEW p \in powerups, Claimed(c, p) \/ Arrives(c, p) \/ Has(c, p)
      PROVE  \/ \E i \in DOMAIN u : u[i] = At("PowerupEaten", p)
             \/ ArrivesIn(d, p)
             \/ p \in Present(s.powerups) /\ Spares(d, p)
  BY <1>5, <1>8
<1>9. Allowed(c, s, u, d)
  BY <1>1, <1>3, <1>4, <1>7, <1>8 DEF Allowed
<1> QED  BY ONLY IInv, c \in Clients, client' = [client EXCEPT ![c] = s], up' = [up EXCEPT ![c] = u],
              <1>2, <1>9, ClientKeeps

\* s in another phase, with one player changed
Retouch(s, c, v) == [s EXCEPT !.phase = "idle", !.players = With(@, c, v)]

\* r is s in another phase, and c knows its snake
Retouches(s, c, r) ==
    /\ r \in States /\ r.phase = "idle" /\ c \in DOMAIN r.players /\ r.started = s.started
    /\ r.powerups = s.powerups /\ (Headed(s) => Headed(r))

\* A client in another phase, with one player changed.
LEMMA Retouched ==
    ASSUME NEW s \in States, NEW c \in Clients, NEW v \in Snakes, Headed(s) => v.tail # <<>>
    PROVE  Retouches(s, c, Retouch(s, c, v))
<1> DEFINE r == Retouch(s, c, v)
<1> DEFINE f == s.players
           g == With(f, c, v)
<1>1. f \in Maps(Snakes)
  BY DEF States
<1> HIDE DEF f
<1>2. Widened(Snakes, f, c, v, g)
  BY <1>1, WithType
<1>3. r = [s EXCEPT !.phase = "idle", !.players = g]
  BY DEF f, Retouch
<1> HIDE DEF g, r
<1>4. /\ g \in Maps(Snakes) /\ DOMAIN g = DOMAIN f \cup {c} /\ g[c] = v
      /\ \A p \in DOMAIN f : p # c => g[p] = f[p]
  BY <1>2 DEF Widened
<1>5. /\ r \in States /\ r.phase = "idle" /\ r.players = g /\ r.powerups = s.powerups
      /\ r.started = s.started
  BY <1>3, <1>4 DEF States
<1>6. Retouches(s, c, r)
  BY <1>4, <1>5 DEF Headed, f, Retouches
<1> QED  BY <1>6 DEF r

\* A key of movement.
LEMMA TurnKeeps == ASSUME IInv, NEW c \in Clients, NEW d \in Direction, Turn(c, d) PROVE IInv'
<1> DEFINE s == client[c]
           o == PlayerOf(s.players, c)
           v == SetDirection(o, d)
           r == Retouch(s, c, v)
           u == up[c]
<1>1. /\ s.phase \in {"entering", "idle", "handling"}
      /\ client' = [client EXCEPT ![c].phase = "idle", ![c].players = With(@, c, v)]
      /\ UNCHANGED <<server, down>> /\ UNCHANGED up
  BY DEF Turn, Polling
<1>2. /\ s \in States /\ s.players \in Maps(Snakes) /\ c \in DOMAIN s.players
      /\ u \in Seq(Reports) /\ client \in [Clients -> States] /\ up = [up EXCEPT ![c] = u]
      /\ killed = {} => Headed(s) /\ \A i \in DOMAIN u : Lively(u[i])
  BY <1>1, ClientIs
<1>3. client' = [client EXCEPT ![c] = r]
  BY <1>1, <1>2 DEF Retouch
<1>4. o \in Snakes /\ (Headed(s) => o.tail # <<>>)
  BY <1>2, PlayerOfType DEF PlayerOf, Headed
<1>5. v \in Snakes /\ v.tail = o.tail
  <2> HIDE DEF o
  <2> QED  BY <1>4, SnakeTypes
<1>6. s = client[c] /\ r = Retouch(s, c, v)
  OBVIOUS
<1>7. \A p : Claimed(c, p) => \E i \in DOMAIN u : u[i] = At("PowerupEaten", p)
  BY DEF Claimed
<1> HIDE DEF s, o, v, r, u
<1>8. Headed(s) => v.tail # <<>>
  BY <1>4, <1>5
<1>9. /\ r \in States /\ r.phase = "idle" /\ c \in DOMAIN r.players /\ r.started = s.started
      /\ r.powerups = s.powerups /\ (Headed(s) => Headed(r))
  <2>1. Retouches(s, c, Retouch(s, c, v))
    BY ONLY c \in Clients, <1>2, <1>5, <1>8, Retouched
  <2> QED  BY <1>6, <2>1 DEF Retouches
<1>10. /\ client[c].phase \in {"entering", "idle", "handling"} /\ r.phase \notin {"off", "gone"}
       /\ r.started = client[c].started /\ (killed = {} => Headed(r))
       /\ \A p \in Present(client[c].powerups) : p \in Present(r.powerups)
  BY <1>1, <1>2, <1>6, <1>9
<1>11. up' = [up EXCEPT ![c] = u]
  BY <1>1, <1>2
<1> QED  BY ONLY IInv, c \in Clients, <1>1, <1>2, <1>3, <1>7, <1>9, <1>10, <1>11, OwnStep

\* The end of a frame.
LEMMA UpdateServerKeeps == ASSUME IInv, NEW c \in Clients, UpdateServer(c) PROVE IInv'
<1> DEFINE s == client[c]
           v == PlayerOf(s.players, c)
           r == Retouch(s, c, v)
           m == [type |-> "UpdatePlayer", who |-> c, direction |-> v.direction, body |-> Pushed(v.tail)]
           u == Append(up[c], m)
<1>1. /\ s.phase \in {"entering", "idle", "handling"}
      /\ client' = [client EXCEPT ![c].phase = "idle", ![c].players = With(@, c, v)]
      /\ up' = [up EXCEPT ![c] = u]
      /\ UNCHANGED <<server, down>>
  BY DEF UpdateServer
<1>2. /\ s \in States /\ s.players \in Maps(Snakes) /\ c \in DOMAIN s.players
      /\ client \in [Clients -> States] /\ (killed = {} => Headed(s))
  BY <1>1, ClientIs
<1>3. client' = [client EXCEPT ![c] = r]
  BY <1>1, <1>2 DEF Retouch
<1>4. v \in Snakes /\ (Headed(s) => v.tail # <<>>)
  BY <1>2, PlayerOfType DEF PlayerOf, Headed
<1>5. s = client[c] /\ r = Retouch(s, c, v) /\ u = Append(up[c], m)
  OBVIOUS
<1> HIDE DEF s, v, r, u
<1>6. m \in Reports /\ (v.tail # <<>> => Lively(m))
  <2> DEFINE t == v.tail
             b == Pushed(t)
             d == v.direction
  <2>1. t \in Seq(Cells) /\ d \in Direction
    BY <1>4 DEF Snakes
  <2> HIDE DEF t, d
  <2>2. b \in Bodies /\ Popped(b) = t
    BY <2>1, BodyPushed
  <2>3. m = [type |-> "UpdatePlayer", who |-> c, direction |-> d, body |-> b]
    BY DEF t, d
  <2> HIDE DEF b, m
  <2>4. m \in Reports /\ m.type = "UpdatePlayer" /\ m.body = b
    BY <2>1, <2>2, <2>3, MailMade
  <2>5. t # <<>> => Lively(m)
    BY <2>2, <2>4 DEF Lively
  <2> QED  BY <2>4, <2>5 DEF t
<1> HIDE DEF m
<1>7. /\ u \in Seq(Reports)
      /\ killed = {} /\ Lively(m) => \A i \in DOMAIN u : Lively(u[i])
      /\ \A p : Claimed(c, p) => \E i \in DOMAIN u : u[i] = At("PowerupEaten", p)
  <2>1. Reporting(c, m, Append(up[c], m))
    BY ONLY IInv, c \in Clients, <1>6, Reported
  <2> QED  BY <1>5, <2>1 DEF Reporting
<1>8. /\ r \in States /\ r.phase = "idle" /\ c \in DOMAIN r.players /\ r.started = s.started
      /\ r.powerups = s.powerups /\ (Headed(s) => Headed(r))
  <2>1. Retouches(s, c, Retouch(s, c, v))
    BY ONLY c \in Clients, <1>2, <1>4, Retouched
  <2> QED  BY <1>5, <2>1 DEF Retouches
<1>9. /\ client[c].phase \in {"entering", "idle", "handling"} /\ r.phase \notin {"off", "gone"}
      /\ r.started = client[c].started /\ (killed = {} => Headed(r))
      /\ \A p \in Present(client[c].powerups) : p \in Present(r.powerups)
  BY <1>1, <1>2, <1>5, <1>8
<1>10. killed = {} => \A i \in DOMAIN u : Lively(u[i])
  BY <1>2, <1>4, <1>6, <1>7
<1> QED  BY ONLY IInv, c \in Clients, <1>1, <1>3, <1>7, <1>8, <1>9, <1>10, OwnStep

\* The key P.
LEMMA AttemptGameStartKeeps == ASSUME IInv, NEW c \in Clients, AttemptGameStart(c) PROVE IInv'
<1> DEFINE s == client[c]
           r == [s EXCEPT !.phase = "idle"]
           m == [type |-> "StartGame"]
           u == Append(up[c], m)
<1>1. /\ s.phase \in {"entering", "idle", "handling"}
      /\ client' = [client EXCEPT ![c].phase = "idle"]
      /\ up' = [up EXCEPT ![c] = u]
      /\ UNCHANGED <<server, down>>
  BY DEF AttemptGameStart, Polling
<1>2. /\ s \in States /\ c \in DOMAIN s.players
      /\ client \in [Clients -> States] /\ (killed = {} => Headed(s))
  BY <1>1, ClientIs
<1>3. client' = [client EXCEPT ![c] = r]
  BY <1>1, <1>2
<1>4. s = client[c] /\ u = Append(up[c], m)
  OBVIOUS
<1>5. m \in Reports /\ Lively(m)
  BY MailMade DEF Lively
<1>6. /\ r \in States /\ r.phase = "idle" /\ r.players = s.players /\ r.started = s.started
      /\ r.powerups = s.powerups
  BY <1>2 DEF States
<1> HIDE DEF s, r, u, m
<1>7. /\ u \in Seq(Reports)
      /\ killed = {} /\ Lively(m) => \A i \in DOMAIN u : Lively(u[i])
      /\ \A p : Claimed(c, p) => \E i \in DOMAIN u : u[i] = At("PowerupEaten", p)
  <2>1. Reporting(c, m, Append(up[c], m))
    BY ONLY IInv, c \in Clients, <1>5, Reported
  <2> QED  BY <1>4, <2>1 DEF Reporting
<1>8. /\ client[c].phase \in {"entering", "idle", "handling"} /\ r.phase \notin {"off", "gone"}
      /\ r.started = client[c].started /\ (killed = {} => Headed(r)) /\ c \in DOMAIN r.players
      /\ \A p \in Present(client[c].powerups) : p \in Present(r.powerups)
  BY <1>1, <1>2, <1>4, <1>6 DEF Headed
<1>9. killed = {} => \A i \in DOMAIN u : Lively(u[i])
  BY <1>5, <1>7
<1> QED  BY ONLY IInv, c \in Clients, <1>1, <1>3, <1>6, <1>7, <1>8, <1>9, OwnStep

\* All snakes move.
LEMMA MoveAllType ==
    ASSUME NEW f \in Maps(Snakes)
    PROVE  /\ MoveAll(f) \in Maps(Snakes) /\ DOMAIN MoveAll(f) = DOMAIN f
           /\ (\A p \in DOMAIN f : f[p].tail # <<>>) => \A p \in DOMAIN f : MoveAll(f)[p].tail # <<>>
<1>1. DOMAIN f \subseteq Clients /\ \A p \in DOMAIN f : f[p] \in Snakes
  BY MapType
<1>2. \A p \in DOMAIN f : Move(f[p]) \in Snakes /\ (f[p].tail # <<>> => Move(f[p]).tail # <<>>)
  BY <1>1, SnakeTypes
<1>3. MoveAll(f) \in [DOMAIN f -> Snakes] /\ DOMAIN f \in SUBSET Clients
  BY <1>1, <1>2 DEF MoveAll
<1>4. MoveAll(f) \in Maps(Snakes)
  BY <1>3, MapMade
<1> QED  BY <1>2, <1>3, <1>4 DEF MoveAll

\* A frame: the snakes move, and the own one may eat.
LEMMA FrameKeeps == ASSUME IInv, NEW c \in Clients, Frame(c) PROVE IInv'
<1> DEFINE o == client[c]
           f == MoveAll(o.players)
           s == [o EXCEPT !.players = f, !.phase = "handling"]
           v == PlayerOf(s.players, c)
<1>1. /\ o.phase \in {"entering", "idle", "handling"} /\ UNCHANGED <<server, down>>
      /\ \E p \in GetHead(v.tail) :
           IF p \in Present(s.powerups)
             THEN /\ client' = [client EXCEPT ![c] = Eaten(s, c, p)]
                  /\ up' = [up EXCEPT ![c] = Append(up[c], At("PowerupEaten", p))]
             ELSE client' = [client EXCEPT ![c] = s] /\ UNCHANGED up
  BY DEF Frame, Polling
<1>2. /\ o \in States /\ o.players \in Maps(Snakes) /\ c \in DOMAIN o.players
      /\ o.powerups \in [Cells -> Nat] /\ client \in [Clients -> States]
      /\ up[c] \in Seq(Reports) /\ up = [up EXCEPT ![c] = up[c]]
      /\ killed = {} => Headed(o) /\ \A i \in DOMAIN up[c] : Lively(up[c][i])
  BY <1>1, ClientIs
<1>3. f \in Maps(Snakes) /\ DOMAIN f = DOMAIN o.players /\ (Headed(o) => \A p \in DOMAIN f : f[p].tail # <<>>)
  BY <1>2, MoveAllType DEF Headed
<1> HIDE DEF f
<1>4. /\ s \in States /\ s.phase = "handling" /\ s.players = f /\ s.powerups = o.powerups
      /\ s.started = o.started
  BY <1>2, <1>3 DEF States
<1>5. \A p : Claimed(c, p) => \E i \in DOMAIN up[c] : up[c][i] = At("PowerupEaten", p)
  BY DEF Claimed
<1>6. o = client[c]
  OBVIOUS
<1> HIDE DEF s, o
<1>7. c \in DOMAIN s.players /\ (killed = {} => Headed(s))
  BY <1>2, <1>3, <1>4 DEF Headed
<1>8. v \in Snakes /\ (Headed(s) => v.tail # <<>>)
  BY <1>3, <1>4, <1>7, PlayerOfType DEF PlayerOf, Headed
<1> HIDE DEF v
<1>9. PICK p \in GetHead(v.tail) :
        IF p \in Present(s.powerups)
          THEN /\ client' = [client EXCEPT ![c] = Eaten(s, c, p)]
               /\ up' = [up EXCEPT ![c] = Append(up[c], At("PowerupEaten", p))]
          ELSE client' = [client EXCEPT ![c] = s] /\ UNCHANGED up
  BY <1>1
<1>10. CASE p \notin Present(s.powerups)
  <2> DEFINE u == up[c]
  <2>1. /\ u \in Seq(Reports) /\ (killed = {} => \A i \in DOMAIN u : Lively(u[i]))
        /\ \A q : Claimed(c, q) => \E i \in DOMAIN u : u[i] = At("PowerupEaten", q)
    BY <1>2, <1>5
  <2>2. client' = [client EXCEPT ![c] = s] /\ up' = [up EXCEPT ![c] = u]
    BY <1>2, <1>9, <1>10
  <2> HIDE DEF u
  <2>3. /\ client[c].phase \in {"entering", "idle", "handling"} /\ s.phase \notin {"off", "gone"}
        /\ s.started = client[c].started
        /\ \A q \in Present(client[c].powerups) : q \in Present(s.powerups)
    BY <1>1, <1>4, <1>6
  <2> QED  BY ONLY IInv, c \in Clients, <1>1, <1>4, <1>7, <2>1, <2>2, <2>3, OwnStep
<1>11. CASE p \in Present(s.powerups)
  <2> DEFINE m == At("PowerupEaten", p)
             u == Append(up[c], m)
             w == AddLength(v, 1)
             g == With(f, c, w)
             e == Erased(o.powerups, p)
             r == Eaten(s, c, p)
  <2>1. p \in Cells
    BY <1>11 DEF Present
  <2>2. m \in Reports /\ Lively(m)
    BY <2>1, MailMade DEF At, Lively
  <2> HIDE DEF m
  <2>3. Reporting(c, m, u)
    BY ONLY IInv, c \in Clients, <2>2, Reported
  <2>4. w \in Snakes /\ w.tail = v.tail
    BY <1>8, SnakeTypes
  <2>5. r = [s EXCEPT !.players = g, !.powerups = e]
    BY <1>4 DEF Eaten, v
  <2> HIDE DEF w
  <2>6. Widened(Snakes, f, c, w, g)
    BY <1>3, <2>4, WithType
  <2>7. e \in [Cells -> Nat] /\ \A q \in Present(o.powerups) : q # p => q \in Present(e)
    BY <1>2, <2>1, PowerupTypes
  <2>8. client' = [client EXCEPT ![c] = r] /\ up' = [up EXCEPT ![c] = u]
    BY <1>9, <1>11 DEF m
  <2> HIDE DEF g, e, r, u
  <2>9. /\ g \in Maps(Snakes) /\ DOMAIN g = DOMAIN f \cup {c} /\ g[c] = w
        /\ \A q \in DOMAIN f : q # c => g[q] = f[q]
    BY <2>6 DEF Widened
  <2>10. /\ r \in States /\ r.phase = "handling" /\ r.players = g /\ r.powerups = e
         /\ r.started = s.started
    BY <1>4, <2>5, <2>7, <2>9 DEF States
  <2>11. c \in DOMAIN r.players /\ (killed = {} => Headed(r))
    <3>1. ASSUME killed = {} PROVE Headed(r)
      BY <1>4, <1>7, <1>8, <2>4, <2>9, <2>10, <3>1 DEF Headed
    <3> QED  BY <2>9, <2>10, <3>1
  <2>12. /\ u \in Seq(Reports) /\ (killed = {} => \A i \in DOMAIN u : Lively(u[i]))
         /\ \A q : Claimed(c, q) => \E i \in DOMAIN u : u[i] = At("PowerupEaten", q)
         /\ \E i \in DOMAIN u : u[i] = At("PowerupEaten", p)
    BY <2>2, <2>3 DEF Reporting, m
  <2>13. /\ client[c].phase \in {"entering", "idle", "handling"} /\ r.phase \notin {"off", "gone"}
         /\ r.started = client[c].started
         /\ \A q \in Present(client[c].powerups) :
              q \in Present(r.powerups) \/ \E i \in DOMAIN u : u[i] = At("PowerupEaten", q)
    BY <1>1, <1>4, <1>6, <2>7, <2>10, <2>12
  <2> QED  BY ONLY IInv, c \in Clients, <1>1, <2>8, <2>10, <2>11, <2>12, <2>13, OwnStep
<1> QED  BY <1>10, <1>11

\* The end of a client, whatever it had sent.
LEMMA GoneKeeps == ASSUME IInv, NEW c \in Clients, Gone(c) PROVE IInv'
<1> DEFINE s == [phase |-> "gone", players |-> NoFunction, powerups |-> NoPowerups, started |-> FALSE]
<1>1. /\ open' = open \ {c} /\ client' = [client EXCEPT ![c] = s] /\ down' = [down EXCEPT ![c] = <<>>]
      /\ \E k \in 0..Len(up[c]) : up' = [up EXCEPT ![c] = SubSeq(up[c], 1, k)]
      /\ UNCHANGED <<conns, tails, powerups, spawnpoints, gameStarted, fill, crashed, killed, deadAtJoin>>
  BY DEF Gone
<1>2. Typed
  BY TypeIs DEF IInv
<1>3. client \in [Clients -> States] /\ up \in [Clients -> Seq(Reports)] /\ down \in [Clients -> Seq(Mail)]
  BY <1>2 DEF Typed, IInv, Mailed
<1>4. s \in States /\ s.phase = "gone" /\ DOMAIN s.players = {}
  <2>1. NoFunction \in [{} -> Snakes] /\ {} \in SUBSET Clients
    BY DEF NoFunction
  <2>2. NoFunction \in Maps(Snakes)
    BY <2>1, MapMade
  <2>3. NoPowerups \in [Cells -> Nat]
    BY DEF NoPowerups
  <2> QED  BY <2>1, <2>2, <2>3 DEF States
<1> HIDE DEF s
<1>5. PICK k \in 0..Len(up[c]) : up' = [up EXCEPT ![c] = SubSeq(up[c], 1, k)]
  BY <1>1
<1> DEFINE u == up[c]
           v == SubSeq(u, 1, k)
<1>6. u \in Seq(Reports) /\ k \in 0..Len(u)
  BY <1>3
<1>7. up' = [up EXCEPT ![c] = v]
  BY <1>5
<1>8. killed = {} => \A i \in DOMAIN u : Lively(u[i])
  BY DEF IInv, Living
<1> HIDE DEF u
<1>9. v \in Seq(Reports) /\ \A i \in DOMAIN v : i \in DOMAIN u /\ v[i] = u[i]
  BY <1>6
<1> HIDE DEF v
<1>10. /\ client'[c] = s /\ (\A x \in Clients : x # c => client'[x] = client[x])
       /\ up'[c] = v /\ (\A x \in Clients : x # c => up'[x] = up[x])
       /\ down'[c] = <<>> /\ (\A x \in Clients : x # c => down'[x] = down[x])
  BY <1>1, <1>3, <1>7
<1>11. /\ client' \in [Clients -> States] /\ up' \in [Clients -> Seq(Reports)]
  BY <1>1, <1>3, <1>4, <1>7, <1>9
<1>12. down' \in [Clients -> Seq(Mail)]
  <2>1. <<>> \in Seq(Mail)
    OBVIOUS
  <2> QED  BY <1>1, <1>3, <2>1
<1>13. TypeOK'
  <2>1. Typed'
    BY <1>1, <1>2, <1>11 DEF Typed
  <2> QED  BY <2>1, TypeIs, PTL
<1>14. Mailed'
  BY <1>10, <1>11, <1>12 DEF IInv, Mailed
<1>15. Roster'
  BY <1>1, <1>4, <1>10 DEF IInv, Roster
<1>16. open' \subseteq open /\ open \subseteq Clients /\ c \notin open'
  BY <1>1, <1>2 DEF Typed
<1>17. Told'
  BY <1>1, <1>10, <1>16 DEF IInv, Told
<1>18. Living'
  <2>1. ASSUME killed = {}, NEW x \in Clients
        PROVE  /\ \A p \in DOMAIN client'[x].players : client'[x].players[p].tail # <<>>
               /\ \A i \in DOMAIN up'[x] : Lively(up'[x][i])
               /\ \A i \in DOMAIN down'[x] : Lively(down'[x][i])
    <3>1. CASE x = c
      BY <1>4, <1>8, <1>9, <1>10, <2>1, <3>1
    <3>2. CASE x # c
      <4>1. /\ \A p \in DOMAIN client[x].players : client[x].players[p].tail # <<>>
            /\ \A i \in DOMAIN up[x] : Lively(up[x][i])
            /\ \A i \in DOMAIN down[x] : Lively(down[x][i])
        BY <2>1 DEF IInv, Living
      <4> QED  BY <1>10, <3>2, <4>1
    <3> QED  BY <3>1, <3>2
  <2>2. killed = {} => crashed # "empty tail" /\ \A p \in DOMAIN tails : tails[p] # <<>>
    BY DEF IInv, Living
  <2> QED  BY <1>1, <2>1, <2>2 DEF Living
<1>19. PowerupEverywhere'
  <2>1. \A x \in open' : x \in open /\ x # c /\ x \in Clients
    BY <1>16
  <2> QED  BY <1>1, <1>10, <2>1 DEF IInv, PowerupEverywhere, Claimed, Arrives, Has, At
<1> QED  BY <1>13, <1>14, <1>15, <1>17, <1>18, <1>19 DEF IInv

----------------------------------------------------------------------------
(* Theorems *)

\* The spawnpoints are on the grid.
LEMMA SpawnpointsType == Spawnpoints \in Seq(Cells)
<1> DEFINE w1 == Width \div 4
           w2 == (2 * Width) \div 4
           w3 == (3 * Width) \div 4
           h1 == Height \div 3
           h2 == (2 * Height) \div 3
<1>1. w1 \in 0..(Width - 1) /\ w2 \in 0..(Width - 1) /\ w3 \in 0..(Width - 1)
  BY GridAssumption
<1>2. h1 \in 0..(Height - 1) /\ h2 \in 0..(Height - 1)
  BY GridAssumption
<1>3. 0 \in 0..(Width - 1) /\ 0 \in 0..(Height - 1)
  BY GridAssumption
<1>4. Spawnpoints = [i \in 1..6 |-> Origin] \o
          << <<w1, h1>>, <<w2, h1>>, <<w3, h1>>, <<w1, h2>>, <<w2, h2>>, <<w3, h2>> >>
  BY DEF Spawnpoints
<1> HIDE DEF w1, w2, w3, h1, h2
<1>5. \A x \in 0..(Width - 1), y \in 0..(Height - 1) : <<x, y>> \in Cells
  BY DEF Cells
<1>6. Origin \in Cells
  BY <1>3, <1>5 DEF Origin
<1>7. [i \in 1..6 |-> Origin] \in Seq(Cells)
  BY <1>6
<1> DEFINE a == <<w1, h1>>
           b == <<w2, h1>>
           c == <<w3, h1>>
           d == <<w1, h2>>
           e == <<w2, h2>>
           f == <<w3, h2>>
<1>8. a \in Cells /\ b \in Cells /\ c \in Cells /\ d \in Cells /\ e \in Cells /\ f \in Cells
  BY <1>1, <1>2, <1>5
<1>9. Spawnpoints = [i \in 1..6 |-> Origin] \o <<a, b, c, d, e, f>>
  BY <1>4
<1> HIDE DEF a, b, c, d, e, f
<1>10. <<a, b, c, d, e, f>> \in Seq(Cells)
  BY <1>8
<1> QED  BY <1>7, <1>9, <1>10

\* The state in which the server starts.
LEMMA InitIInv == Init => IInv
<1> SUFFICES ASSUME Init PROVE IInv
  OBVIOUS
<1> DEFINE s == [phase |-> "off", players |-> NoFunction, powerups |-> NoPowerups, started |-> FALSE]
<1>1. /\ conns = {} /\ open = {} /\ tails = NoFunction /\ powerups = {}
      /\ spawnpoints = Spawnpoints /\ gameStarted = FALSE /\ fill = 0 /\ crashed = "no"
      /\ client = [c \in Clients |-> s]
      /\ up = [c \in Clients |-> <<>>] /\ down = [c \in Clients |-> <<>>]
      /\ killed = {} /\ deadAtJoin = [c \in Clients |-> {}]
  BY DEF Init
<1>2. \A S : NoFunction \in Maps(S) /\ DOMAIN NoFunction = {}
  <2> SUFFICES ASSUME NEW S PROVE NoFunction \in Maps(S) /\ DOMAIN NoFunction = {}
    OBVIOUS
  <2>1. NoFunction \in [{} -> S] /\ {} \in SUBSET Clients
    BY DEF NoFunction
  <2>2. NoFunction \in Maps(S)
    BY <2>1, MapMade
  <2> QED  BY <2>1, <2>2
<1>3. s \in States /\ s.phase = "off" /\ s.players = NoFunction /\ s.started = FALSE
  <2>1. NoPowerups \in [Cells -> Nat]
    BY DEF NoPowerups
  <2> QED  BY <1>2, <2>1 DEF States
<1> HIDE DEF s
<1>4. \A c \in Clients : client[c] = s /\ up[c] = <<>> /\ down[c] = <<>>
  BY <1>1
<1>5. TypeOK
  <2>1. client \in [Clients -> States] /\ deadAtJoin \in [Clients -> SUBSET Clients]
    BY <1>1, <1>3
  <2>2. spawnpoints \in Seq(Cells)
    BY <1>1, SpawnpointsType
  <2>3. tails \in Maps(Seq(Cells)) /\ DOMAIN tails = {}
    BY <1>1, <1>2
  <2>4. Typed
    BY <1>1, <2>1, <2>2, <2>3 DEF Typed
  <2> QED  BY <2>4, TypeIs
<1>6. Mailed
  <2>1. <<>> \in Seq(Reports) /\ <<>> \in Seq(Mail)
    OBVIOUS
  <2>2. up \in [Clients -> Seq(Reports)] /\ down \in [Clients -> Seq(Mail)]
    BY <1>1, <2>1
  <2> QED  BY <1>4, <2>2 DEF Mailed
<1>7. Roster
  BY <1>1, <1>3, <1>4 DEF Roster
<1>8. Told /\ PowerupEverywhere
  BY <1>1 DEF Told, PowerupEverywhere
<1>9. Living
  BY <1>1, <1>2, <1>3, <1>4 DEF Living
<1> QED  BY <1>5, <1>6, <1>7, <1>8, <1>9 DEF IInv

\* Every step keeps the invariant.
LEMMA NextIInv == IInv /\ [Next]_vars => IInv'
<1> SUFFICES ASSUME IInv, [Next]_vars PROVE IInv'
  OBVIOUS
<1>1. CASE Fill
  BY <1>1, FillKeeps
<1>2. ASSUME NEW c \in Clients, Accept(c) PROVE IInv'
  BY <1>2, AcceptKeeps
<1>3. ASSUME NEW c \in Clients, OnClientValidated(c) PROVE IInv'
  BY <1>3, OnClientValidatedKeeps
<1>4. ASSUME NEW c \in Clients, PowerupEaten(c) PROVE IInv'
  BY <1>4, PowerupEatenKeeps
<1>5. ASSUME NEW c \in Clients, UpdatePlayer(c) PROVE IInv'
  BY <1>5, UpdatePlayerKeeps
<1>6. ASSUME NEW c \in Clients, StartGame(c) PROVE IInv'
  BY <1>6, StartGameKeeps
<1>7. ASSUME NEW c \in Clients, Handle(c) PROVE IInv'
  BY <1>7, HandleKeeps
<1>8. ASSUME NEW c \in Clients, Frame(c) PROVE IInv'
  BY <1>8, FrameKeeps
<1>9. ASSUME NEW c \in Clients, FrameCrash(c) \/ Leave(c) PROVE IInv'
  BY <1>9, GoneKeeps DEF FrameCrash, Leave
<1>10. ASSUME NEW c \in Clients, UpdateServer(c) PROVE IInv'
  BY <1>10, UpdateServerKeeps
<1>11. ASSUME NEW c \in Clients, AttemptGameStart(c) PROVE IInv'
  BY <1>11, AttemptGameStartKeeps
<1>12. ASSUME NEW c \in Clients, NEW d \in Direction, Turn(c, d) PROVE IInv'
  BY <1>12, TurnKeeps
<1>13. CASE UNCHANGED vars
  <2>1. UNCHANGED <<conns, open, tails, powerups, spawnpoints, gameStarted, fill, crashed,
                    client, up, down, killed, deadAtJoin>>
    BY <1>13 DEF vars
  <2>2. TypeOK'
    BY <2>1 DEF IInv, TypeOK
  <2>3. Mailed' /\ Roster' /\ Told' /\ Living'
    BY <2>1 DEF IInv, Mailed, Roster, Told, Living
  <2>4. PowerupEverywhere'
    BY <2>1 DEF IInv, PowerupEverywhere, Claimed, Arrives, Has, At
  <2> QED  BY <2>2, <2>3, <2>4 DEF IInv
<1> QED
  BY <1>1, <1>2, <1>3, <1>4, <1>5, <1>6, <1>7, <1>8, <1>9, <1>10, <1>11, <1>12, <1>13 DEF Next

\* The inductive invariant holds in every state of the game, however many clients,
\* frames, keys and departures there are.
THEOREM InvariantHolds == Spec => []IInv
  BY InitIInv, NextIInv, PTL DEF Spec

\* Every position the server and the clients keep is on the grid, so that the
\* array of GetFreeGrid (SnekServer/server.cpp:226) is never indexed outside of it.
THEOREM TypeCorrect == Spec => []TypeOK
<1>1. IInv => TypeOK
  BY DEF IInv
<1> QED  BY <1>1, InvariantHolds, PTL

\* No powerup is lost: each one the server counts is there, or on its way, on every
\* validated client, or that client has reported to have eaten it, although
\* DeletePowerup (SnekServer/server.cpp:181) leaves the eater out of its broadcast
\* and two clients may eat the same one.
THEOREM NoPowerupLost == Spec => []PowerupEverywhere
<1>1. IInv => PowerupEverywhere
  BY DEF IInv
<1> QED  BY <1>1, InvariantHolds, PTL

\* A client that has handled all that was sent to it knows whether the game has
\* started, also one that was accepted before the start and validated after it.
THEOREM StartIsKnown == Spec => []StartKnown
<1>1. IInv => StartKnown
  <2> SUFFICES ASSUME IInv, NEW c \in Clients, UpToDate(c)
               PROVE  client[c].started = gameStarted
    BY DEF StartKnown
  <2>1. c \in open /\ down[c] = <<>>
    BY DEF UpToDate, Playing
  <2>2. ~Starts(down[c])
    BY <2>1 DEF Starts
  <2>3. gameStarted <=> client[c].started
    BY <2>1, <2>2 DEF IInv, Told
  <2>4. gameStarted \in BOOLEAN /\ client[c].started \in BOOLEAN
    BY TypeIs DEF IInv, Typed, States
  <2> QED  BY <2>3, <2>4
<1> QED  BY <1>1, InvariantHolds, PTL

\* As long as nobody has been killed, neither the server nor a client reads the
\* head of an empty tail (Snek/player.cpp:22, SnekServer/server.cpp:305).
THEOREM OnlyTheDeadAreEmpty == Spec => []OnlyDeathEmpties
<1>1. IInv => OnlyDeathEmpties
  <2> SUFFICES ASSUME IInv, killed = {}
               PROVE  crashed # "empty tail" /\ \A c \in Playing : client[c].players[c].tail # <<>>
    BY DEF OnlyDeathEmpties
  <2>1. crashed # "empty tail"
    BY DEF IInv, Living
  <2>2. ASSUME NEW c \in Playing PROVE client[c].players[c].tail # <<>>
    <3>1. c \in open /\ c \in Clients /\ client[c].phase # "waiting"
      BY DEF Playing, IInv, TypeOK
    <3>2. client[c].phase \in {"off", "waiting", "entering", "idle", "handling", "gone"}
      BY <3>1, TypeIs DEF IInv, Typed, States
    <3>3. c \in DOMAIN client[c].players
      BY <3>1, <3>2 DEF IInv, Roster
    <3> QED  BY <3>1, <3>3 DEF IInv, Living
  <2> QED  BY <2>1, <2>2
<1> QED  BY <1>1, InvariantHolds, PTL

============================================================================
