---------------------------- MODULE CopiesProofs ----------------------------
(***************************************************************************)
(* The copies of a snake: the server's, its own client's and those of the  *)
(* other clients, on a grid of any size, for any number of clients,        *)
(* frames, keys and departures.                                            *)
(*                                                                         *)
(* A client is always behind.  What has to be known of a copy is what it   *)
(* will be after each of the messages under way, and that the last of      *)
(* these is what the server has.  The frames that a client draws meanwhile *)
(* move the copy, but change nothing of what a View has of it.             *)
(***************************************************************************)
EXTENDS GameProofs

----------------------------------------------------------------------------
(* What a client makes of another player *)

\* what does not change with a frame of what client s has of player p; in says
\* whether s has been welcomed
View(s, p) ==
    [in    |-> s.phase # "waiting",
     has   |-> p \in DOMAIN s.players,
     alive |-> PlayerOf(s.players, p).alive,
     grid  |-> PlayerOf(s.players, p).grid,
     len   |-> Len(PlayerOf(s.players, p).tail)]

Views == [in : BOOLEAN, has : BOOLEAN, alive : BOOLEAN, grid : BOOLEAN, len : Nat]

\* m tells something of p
Tells(m, type, p) == m.type = type /\ m.who = p

\* the view of p after message m
After(v, m, p) ==
    IF m.type = "ServerValidation" THEN
      IF p \in DOMAIN m.bodies
        THEN [in |-> TRUE, has |-> TRUE, alive |-> TRUE, grid |-> TRUE, len |-> Len(Popped(m.bodies[p]))]
        ELSE [v EXCEPT !.in = TRUE]
    ELSE IF Tells(m, "NewPlayer", p) THEN
      [in |-> v.in, has |-> TRUE, alive |-> TRUE, grid |-> TRUE, len |-> Len(Popped(m.body))]
    ELSE IF Tells(m, "RemovePlayer", p) THEN
      [in |-> v.in, has |-> FALSE, alive |-> TRUE, grid |-> FALSE, len |-> 0]
    ELSE IF Tells(m, "UpdatePlayer", p) THEN
      [v EXCEPT !.has = TRUE, !.len = Len(Popped(m.body))]
    ELSE IF Tells(m, "KillPlayer", p) THEN
      [v EXCEPT !.has = TRUE, !.alive = FALSE, !.len = 0]
    ELSE v

\* the views of p while d is handled
Course(v, d, p, h) ==
    /\ h \in [0..Len(d) -> Views] /\ h[0] = v
    /\ \A i \in 1..Len(d) : h[i] = After(h[i - 1], d[i], p)

\* The server's side of it: whether it has the client that views p in its game
\* (known) and p (there), the length of p's tail, whether p was killed (dead) and
\* whether that was before the client came (late).

\* a frame can be drawn with view v
Drawable(v, known, late) ==
    v.in => known /\ (late \/ ~v.has \/ ~v.alive \/ (v.grid /\ v.len # 0))

\* v is what the server would tell of p
Agrees(v, known, there, len, dead, late) ==
    /\ ~there => ~v.has \/ (~v.alive /\ v.len = 0)
    /\ known => v.in
    /\ known /\ there =>
         /\ v.has /\ v.grid
         /\ ~dead => v.alive /\ v.len = len
         /\ dead => (v.len = 0 \/ v.len = len) /\ (late \/ ~v.alive)

\* d leads from v to what the server would tell
Leads(v, d, p, known, there, len, dead, late) ==
    \E h : /\ Course(v, d, p, h)
           /\ \A i \in 0..Len(d) : Drawable(h[i], known, late)
           /\ Agrees(h[Len(d)], known, there, len, dead, late)

\* a view is still right when m comes behind it and the server's side changes
Turns(m, p, known, there, len, dead, late, known2, there2, len2, dead2, late2) ==
    \A v \in Views : Drawable(v, known, late) =>
        /\ Drawable(v, known2, late2)
        /\ Agrees(v, known, there, len, dead, late) =>
             /\ Drawable(After(v, m, p), known2, late2)
             /\ Agrees(After(v, m, p), known2, there2, len2, dead2, late2)

----------------------------------------------------------------------------
(* Views *)

\* A message makes a view of a view.
LEMMA AfterType ==
    ASSUME NEW v \in Views, NEW m \in Mail, NEW p
    PROVE  After(v, m, p) \in Views
<1>1. \A b \in Bodies : Len(Popped(b)) \in Nat
  BY BodyPopped
<1>2. /\ m.type = "ServerValidation" => \A q \in DOMAIN m.bodies : Len(Popped(m.bodies[q])) \in Nat
      /\ m.type \in {"NewPlayer", "UpdatePlayer"} => Len(Popped(m.body)) \in Nat
  BY <1>1, MailFields, MapType
<1> QED  BY <1>2 DEF After, Tells, Views

\* One more message.
LEMMA LeadsOn ==
    ASSUME NEW v, NEW d \in Seq(Mail), NEW m \in Mail, NEW p,
           NEW known, NEW there, NEW len, NEW dead, NEW late,
           NEW known2, NEW there2, NEW len2, NEW dead2, NEW late2,
           Leads(v, d, p, known, there, len, dead, late),
           Turns(m, p, known, there, len, dead, late, known2, there2, len2, dead2, late2)
    PROVE  Leads(v, Append(d, m), p, known2, there2, len2, dead2, late2)
<1>1. PICK h : /\ Course(v, d, p, h)
               /\ \A i \in 0..Len(d) : Drawable(h[i], known, late)
               /\ Agrees(h[Len(d)], known, there, len, dead, late)
  BY DEF Leads
<1> DEFINE n == Len(d)
           e == Append(d, m)
           w == After(h[n], m, p)
           g == [i \in 0..(n + 1) |-> IF i = n + 1 THEN w ELSE h[i]]
<1>2. n \in Nat /\ n \in 0..n
  OBVIOUS
<1>3. /\ h \in [0..n -> Views] /\ h[0] = v /\ h[n] \in Views
      /\ \A i \in 1..n : h[i] = After(h[i - 1], d[i], p)
  BY <1>1, <1>2 DEF Course
<1>4. w \in Views
  BY <1>3, AfterType
<1>5. Len(e) = n + 1 /\ e[n + 1] = m /\ \A i \in 1..n : e[i] = d[i]
  OBVIOUS
<1> HIDE DEF n, e, w
<1>6. g \in [0..(n + 1) -> Views] /\ g[n + 1] = w /\ \A i \in 0..n : g[i] = h[i]
  BY <1>2, <1>3, <1>4
<1> HIDE DEF g
<1>7. g[0] = v
  BY <1>2, <1>3, <1>6
<1>8. ASSUME NEW i \in 1..(n + 1) PROVE g[i] = After(g[i - 1], e[i], p)
  <2>1. CASE i = n + 1
    BY <1>2, <1>5, <1>6, <2>1 DEF w
  <2>2. CASE i # n + 1
    <3>1. i \in 1..n /\ i \in 0..n /\ i - 1 \in 0..n
      BY <1>2, <2>2
    <3> QED  BY <1>3, <1>5, <1>6, <3>1
  <2> QED  BY <2>1, <2>2
<1>9. Course(v, e, p, g)
  BY <1>5, <1>6, <1>7, <1>8 DEF Course
<1>10. /\ \A i \in 0..n : Drawable(h[i], known2, late2)
       /\ Drawable(w, known2, late2) /\ Agrees(w, known2, there2, len2, dead2, late2)
  BY <1>1, <1>2, <1>3 DEF Turns, w, n
<1>11. ASSUME NEW i \in 0..(n + 1) PROVE Drawable(g[i], known2, late2)
  <2>1. i = n + 1 \/ i \in 0..n
    BY <1>2
  <2> QED  BY <1>6, <1>10, <2>1
<1>12. Leads(v, e, p, known2, there2, len2, dead2, late2)
  BY <1>5, <1>6, <1>9, <1>10, <1>11 DEF Leads
<1> QED  BY <1>12 DEF e

\* The first message is handled.
LEMMA LeadsBehind ==
    ASSUME NEW v, NEW d \in Seq(Mail), d # <<>>, NEW p,
           NEW known, NEW there, NEW len, NEW dead, NEW late,
           Leads(v, d, p, known, there, len, dead, late)
    PROVE  Leads(After(v, Head(d), p), Tail(d), p, known, there, len, dead, late)
<1>1. PICK h : /\ Course(v, d, p, h)
               /\ \A i \in 0..Len(d) : Drawable(h[i], known, late)
               /\ Agrees(h[Len(d)], known, there, len, dead, late)
  BY DEF Leads
<1> DEFINE n == Len(d)
           e == Tail(d)
           g == [i \in 0..(n - 1) |-> h[i + 1]]
<1>2. n \in Nat /\ n > 0
  OBVIOUS
<1>3. /\ h \in [0..n -> Views] /\ h[0] = v
      /\ \A i \in 1..n : h[i] = After(h[i - 1], d[i], p)
  BY <1>1 DEF Course
<1>4. Len(e) = n - 1 /\ d[1] = Head(d) /\ \A i \in 1..(n - 1) : e[i] = d[i + 1]
  OBVIOUS
<1> HIDE DEF n, e
<1>5. g \in [0..(n - 1) -> Views] /\ \A i \in 0..(n - 1) : g[i] = h[i + 1] /\ i + 1 \in 0..n
  BY <1>2, <1>3
<1> HIDE DEF g
<1>6. g[0] = After(v, Head(d), p)
  <2>1. h[1] = After(h[1 - 1], d[1], p)
    BY <1>2, <1>3
  <2>2. 0 \in 0..(n - 1) /\ 0 + 1 = 1 /\ 1 - 1 = 0
    BY <1>2
  <2> QED  BY <1>3, <1>4, <1>5, <2>1, <2>2
<1>7. ASSUME NEW i \in 1..(n - 1) PROVE g[i] = After(g[i - 1], e[i], p)
  <2>1. i + 1 \in 1..n /\ (i + 1) - 1 = i /\ (i - 1) + 1 = i /\ i \in 0..(n - 1) /\ i - 1 \in 0..(n - 1)
    BY <1>2
  <2>2. h[i + 1] = After(h[(i + 1) - 1], d[i + 1], p)
    BY <1>3, <2>1
  <2> QED  BY <1>4, <1>5, <2>1, <2>2
<1>8. Course(After(v, Head(d), p), e, p, g)
  BY <1>4, <1>5, <1>6, <1>7 DEF Course
<1>9. n - 1 \in 0..(n - 1) /\ (n - 1) + 1 = n
  BY <1>2
<1>10. g[n - 1] = h[n]
  BY <1>5, <1>9
<1>11. /\ \A i \in 0..(n - 1) : Drawable(g[i], known, late)
       /\ Agrees(g[n - 1], known, there, len, dead, late)
  BY <1>1, <1>5, <1>10 DEF n
<1>12. Leads(After(v, Head(d), p), e, p, known, there, len, dead, late)
  BY <1>4, <1>8, <1>11 DEF Leads
<1> QED  BY <1>12 DEF e

\* m tells nothing of p
Neutral(m, p) ==
    /\ m.type # "ServerValidation"
    /\ m.type \in {"NewPlayer", "RemovePlayer", "UpdatePlayer", "KillPlayer"} => m.who # p

\* What tells nothing of p changes nothing.
LEMMA TurnsNeutral ==
    ASSUME NEW m, NEW p, Neutral(m, p), NEW known, NEW there, NEW len, NEW dead, NEW late
    PROVE  Turns(m, p, known, there, len, dead, late, known, there, len, dead, late)
<1>1. \A v : After(v, m, p) = v
  BY DEF After, Neutral, Tells
<1> QED  BY <1>1 DEF Turns

\* RemovePlayer takes the server's player away.
LEMMA TurnsRemove ==
    ASSUME NEW m, NEW p, Tells(m, "RemovePlayer", p),
           NEW known, NEW there, NEW len, NEW dead, NEW late, NEW len2
    PROVE  Turns(m, p, known, there, len, dead, late, known, FALSE, len2, dead, late)
<1> SUFFICES ASSUME NEW v \in Views, Drawable(v, known, late), Agrees(v, known, there, len, dead, late)
             PROVE  /\ Drawable(After(v, m, p), known, late)
                    /\ Agrees(After(v, m, p), known, FALSE, len2, dead, late)
  BY DEF Turns
<1> DEFINE w == After(v, m, p)
<1>1. w = [in |-> v.in, has |-> FALSE, alive |-> TRUE, grid |-> FALSE, len |-> 0]
  BY DEF After, Tells
<1>2. w.in = v.in /\ w.has = FALSE
  BY <1>1
<1> HIDE DEF w
<1>3. Drawable(w, known, late) /\ Agrees(w, known, FALSE, len2, dead, late)
  BY <1>2 DEF Drawable, Agrees
<1> QED  BY <1>3 DEF w

\* KillPlayer tells of a death.
LEMMA TurnsKill ==
    ASSUME NEW m, NEW p, Tells(m, "KillPlayer", p),
           NEW known, NEW there, NEW len, NEW dead, NEW late
    PROVE  Turns(m, p, known, there, len, dead, late, known, there, len, TRUE, late)
<1> SUFFICES ASSUME NEW v \in Views, Drawable(v, known, late), Agrees(v, known, there, len, dead, late)
             PROVE  /\ Drawable(After(v, m, p), known, late)
                    /\ Agrees(After(v, m, p), known, there, len, TRUE, late)
  BY DEF Turns
<1> DEFINE w == After(v, m, p)
<1>1. w = [v EXCEPT !.has = TRUE, !.alive = FALSE, !.len = 0]
  BY DEF After, Tells
<1>2. w.in = v.in /\ w.has = TRUE /\ w.alive = FALSE /\ w.len = 0 /\ w.grid = v.grid
  BY <1>1 DEF Views
<1> HIDE DEF w
<1>3. Drawable(w, known, late) /\ Agrees(w, known, there, len, TRUE, late)
  BY <1>2 DEF Drawable, Agrees
<1> QED  BY <1>3 DEF w

\* UpdatePlayer tells of a tail, which has a head unless its player was killed.
LEMMA TurnsUpdate ==
    ASSUME NEW m, NEW p, Tells(m, "UpdatePlayer", p),
           NEW known, NEW len, NEW dead, NEW late, NEW len2, len2 = Len(Popped(m.body)), ~dead => len2 # 0
    PROVE  Turns(m, p, known, TRUE, len, dead, late, known, TRUE, len2, dead, late)
<1> SUFFICES ASSUME NEW v \in Views, Drawable(v, known, late), Agrees(v, known, TRUE, len, dead, late)
             PROVE  /\ Drawable(After(v, m, p), known, late)
                    /\ Agrees(After(v, m, p), known, TRUE, len2, dead, late)
  BY DEF Turns
<1> DEFINE w == After(v, m, p)
<1>1. w = [v EXCEPT !.has = TRUE, !.len = len2]
  BY DEF After, Tells
<1>2. w.in = v.in /\ w.has = TRUE /\ w.alive = v.alive /\ w.len = len2 /\ w.grid = v.grid
  BY <1>1 DEF Views
<1> HIDE DEF w
<1>3. Drawable(w, known, late) /\ Agrees(w, known, TRUE, len2, dead, late)
  BY <1>2 DEF Drawable, Agrees
<1> QED  BY <1>3 DEF w

\* NewPlayer tells of a player that nobody has killed.
LEMMA TurnsNew ==
    ASSUME NEW m, NEW p, Tells(m, "NewPlayer", p),
           NEW known, NEW there, NEW len, NEW late, NEW len2, len2 = Len(Popped(m.body)), len2 # 0
    PROVE  Turns(m, p, known, there, len, FALSE, late, known, TRUE, len2, FALSE, late)
<1> SUFFICES ASSUME NEW v \in Views, Drawable(v, known, late), Agrees(v, known, there, len, FALSE, late)
             PROVE  /\ Drawable(After(v, m, p), known, late)
                    /\ Agrees(After(v, m, p), known, TRUE, len2, FALSE, late)
  BY DEF Turns
<1> DEFINE w == After(v, m, p)
<1>1. w = [in |-> v.in, has |-> TRUE, alive |-> TRUE, grid |-> TRUE, len |-> len2]
  BY DEF After, Tells
<1>2. w.in = v.in /\ w.has = TRUE /\ w.alive = TRUE /\ w.len = len2 /\ w.grid = TRUE
  BY <1>1
<1> HIDE DEF w
<1>3. Drawable(w, known, late) /\ Agrees(w, known, TRUE, len2, FALSE, late)
  BY <1>2 DEF Drawable, Agrees
<1> QED  BY <1>3 DEF w

\* ServerValidation tells of all players, the dead ones among them.
LEMMA TurnsWelcome ==
    ASSUME NEW m, NEW p, m.type = "ServerValidation",
           NEW there, NEW len, NEW dead, NEW late, there <=> p \in DOMAIN m.bodies,
           there => len = Len(Popped(m.bodies[p])), there /\ ~dead => len # 0
    PROVE  Turns(m, p, FALSE, there, len, dead, late, TRUE, there, len, dead, dead)
<1> SUFFICES ASSUME NEW v \in Views, Drawable(v, FALSE, late)
             PROVE  /\ Drawable(v, TRUE, dead)
                    /\ Agrees(v, FALSE, there, len, dead, late) =>
                         /\ Drawable(After(v, m, p), TRUE, dead)
                         /\ Agrees(After(v, m, p), TRUE, there, len, dead, dead)
  BY DEF Turns
<1>1. Drawable(v, TRUE, dead)
  BY DEF Drawable
<1> DEFINE w == After(v, m, p)
<1>2. CASE there
  <2>1. w = [in |-> TRUE, has |-> TRUE, alive |-> TRUE, grid |-> TRUE, len |-> len]
    BY <1>2 DEF After
  <2>2. w.in = TRUE /\ w.has = TRUE /\ w.alive = TRUE /\ w.len = len /\ w.grid = TRUE
    BY <2>1
  <2> HIDE DEF w
  <2>3. Drawable(w, TRUE, dead) /\ Agrees(w, TRUE, there, len, dead, dead)
    BY <1>2, <2>2 DEF Drawable, Agrees
  <2> QED  BY <1>1, <2>3 DEF w
<1>3. CASE ~there
  <2>1. w = [v EXCEPT !.in = TRUE]
    BY <1>3 DEF After
  <2>2. w.in = TRUE /\ w.has = v.has /\ w.alive = v.alive /\ w.len = v.len
    BY <2>1 DEF Views
  <2> HIDE DEF w
  <2>3. Agrees(v, FALSE, there, len, dead, late) =>
          Drawable(w, TRUE, dead) /\ Agrees(w, TRUE, there, len, dead, dead)
    BY <1>3, <2>2 DEF Drawable, Agrees
  <2> QED  BY <1>1, <2>3 DEF w
<1> QED  BY <1>2, <1>3

----------------------------------------------------------------------------
(* The inductive invariant *)

\* The parts are about the ledger n of the server, the messages u under way to it,
\* the players in k that were killed and those of them that were dead when a
\* client was validated, in late.

TailLen(t, p) == IF p \in DOMAIN t THEN Len(t[p]) ELSE 0

\* d leads from what s has of p to what the server has
Prospect(s, d, p, t, known, k, late) ==
    Leads(View(s, p), d, p, known, p \in DOMAIN t, TailLen(t, p), p \in k, p \in late)

\* What is under way to a client leads to what the server has.
Prospects(n, k, late) ==
    \A c \in open : \A p \in Clients \ {c} :
        Prospect(client[c], n.down[c], p, n.tails, c \in DOMAIN n.tails, k, late[c])

IsReport(m) == m.type = "UpdatePlayer"

Welcomes(m) == m.type = "ServerValidation"

\* m may be sent to c: nobody is told of the own snake, except that it was killed
Proper(c, m, k) ==
    /\ m.type \in {"NewPlayer", "UpdatePlayer"} => m.who # c
    /\ m.type = "KillPlayer" => m.who \in k

\* m may be sent by c: it reports the own snake, which has a head unless it was killed
Authentic(c, m, k) ==
    IsReport(m) => m.who = c /\ (c \in k \/ Popped(m.body) # <<>>)

\* Everybody reports the own snake and hears of the others; a tail without a head
\* is that of a player who was killed.
Signed(n, u, k) ==
    /\ \A c \in Clients : \A i \in DOMAIN u[c] : Authentic(c, u[c][i], k)
    /\ \A c \in Clients : \A i \in DOMAIN n.down[c] : Proper(c, n.down[c][i], k)
    /\ \A p \in DOMAIN n.tails : p \in k \/ n.tails[p] # <<>>

\* the last report in u, or t if there is none, is of tail
Latest(u, t, tail) ==
    /\ (\A i \in DOMAIN u : ~IsReport(u[i])) => t = tail
    /\ \A i \in DOMAIN u :
         IsReport(u[i]) /\ (\A j \in DOMAIN u : j > i => ~IsReport(u[j])) => Popped(u[i].body) = tail

\* what c is to be welcomed with is what the server has of it, and comes once
Invited(c, s, d, t) ==
    /\ \A i, j \in DOMAIN d : Welcomes(d[i]) /\ Welcomes(d[j]) => i = j
    /\ \A i \in DOMAIN d : Welcomes(d[i]) =>
         s.phase = "waiting" /\ c \in DOMAIN t /\ Popped(d[i].bodies[c]) = t[c]

\* what c has of itself is what it has reported
Itself(c, s, u, d, t, k) ==
    LET me == s.players[c]
    IN  /\ c \in DOMAIN t /\ me.grid /\ (me.alive => me.tail # <<>>)
        /\ c \notin k => me.tail # <<>>
        /\ c \in k => me.tail = <<>> \/ \E i \in DOMAIN d : Tells(d[i], "KillPlayer", c)
        /\ s.phase # "handling" => Latest(u, t[c], me.tail)

\* c's own snake
Own(c, s, u, d, t, k) ==
    /\ Invited(c, s, d, t)
    /\ s.phase \in {"waiting", "entering"} => u = <<>> /\ c \notin k
    /\ s.phase # "waiting" => Itself(c, s, u, d, t, k)

Owned(n, u, k) == \A c \in open : Own(c, client[c], u[c], n.down[c], n.tails, k)

Fits(n, u, k, late) == Prospects(n, k, late) /\ Signed(n, u, k) /\ Owned(n, u, k)

\* No client feeds the snake of another, so that it keeps its length between reports.
Unfed == \A c \in Clients : \A p \in Clients \ {c} : PlayerOf(client[c].players, p).food = 0

\* A client that was not started yet has done nothing, and one that runs is connected.
Connected ==
    \A c \in Clients :
        /\ client[c].phase = "off" => up[c] = <<>> /\ DOMAIN client[c].players = {} /\ c \notin killed
        /\ client[c].phase \notin {"off", "gone"} => c \in open

Copies == crashed = "no" => Fits(Now, up, killed, deadAtJoin) /\ Unfed /\ Connected

----------------------------------------------------------------------------
(* Handling a message *)

\* what s makes of m for player p
AppliesTo(s, m, p, r) ==
    /\ Welcomes(m) =>
         /\ r.phase = "entering"
         /\ p \in DOMAIN r.players <=> p \in DOMAIN s.players \/ p \in DOMAIN m.bodies
         /\ PlayerOf(r.players, p) =
              IF p \in DOMAIN m.bodies THEN NewPlayer(Popped(m.bodies[p])) ELSE PlayerOf(s.players, p)
    /\ ~Welcomes(m) => r.phase = s.phase
    /\ Tells(m, "NewPlayer", p) =>
         p \in DOMAIN r.players /\ PlayerOf(r.players, p) = NewPlayer(Popped(m.body))
    /\ Tells(m, "RemovePlayer", p) =>
         p \notin DOMAIN r.players /\ PlayerOf(r.players, p) = DefaultPlayer
    /\ Tells(m, "UpdatePlayer", p) =>
         /\ p \in DOMAIN r.players
         /\ PlayerOf(r.players, p) =
              [SetDirection(PlayerOf(s.players, p), m.direction) EXCEPT !.tail = Popped(m.body)]
    /\ Tells(m, "KillPlayer", p) =>
         p \in DOMAIN r.players /\ PlayerOf(r.players, p) = Kill(PlayerOf(s.players, p))
    /\ Neutral(m, p) =>
         /\ p \in DOMAIN r.players <=> p \in DOMAIN s.players
         /\ PlayerOf(r.players, p) = PlayerOf(s.players, p)

\* s with player v for x
Put(s, x, v) == [s EXCEPT !.players = With(@, x, v)]

\* r is s but for player v
IsPut(s, x, v, r) ==
    /\ r.phase = s.phase
    /\ x \in DOMAIN r.players /\ PlayerOf(r.players, x) = v
    /\ \A p : p # x => (p \in DOMAIN r.players <=> p \in DOMAIN s.players)
                       /\ PlayerOf(r.players, p) = PlayerOf(s.players, p)

\* One entry is put into the map of players.
LEMMA PutIs ==
    ASSUME NEW s \in States, NEW x, NEW v
    PROVE  IsPut(s, x, v, Put(s, x, v))
<1> DEFINE r == Put(s, x, v)
<1>1. r.phase = s.phase /\ r.players = With(s.players, x, v)
  BY DEF States, Put
<1> HIDE DEF r
<1>2. /\ DOMAIN r.players = DOMAIN s.players \cup {x} /\ r.players[x] = v
      /\ \A p \in DOMAIN s.players : p # x => r.players[p] = s.players[p]
  BY <1>1 DEF With
<1>3. IsPut(s, x, v, r)
  BY <1>1, <1>2 DEF PlayerOf, IsPut
<1> QED  BY <1>3 DEF r

\* HandleMessages changes the player a message is about.
LEMMA AppliedTo ==
    ASSUME NEW s \in States, NEW m \in Mail, NEW p, NEW r, r = Applied(s, m)
    PROVE  AppliesTo(s, m, p, r)
<1>0. m.type \in {"ServerValidation", "NewPlayer", "UpdatePlayer", "RemovePlayer",
                  "KillPlayer", "NewPowerup", "PowerupEaten", "StartGame"}
  BY MailFields
<1>1. CASE m.type = "ServerValidation"
  <2>1. r = [s EXCEPT !.phase = "entering", !.powerups = Received(m.powerups),
                      !.players = Snapshot(@, m.bodies)]
    BY <1>1 DEF Applied
  <2>2. r.phase = "entering" /\ r.players = Snapshot(s.players, m.bodies)
    BY <2>1 DEF States
  <2>3. /\ DOMAIN r.players = DOMAIN s.players \cup DOMAIN m.bodies
        /\ \A q \in DOMAIN r.players :
             r.players[q] = IF q \in DOMAIN m.bodies THEN NewPlayer(Popped(m.bodies[q])) ELSE s.players[q]
    BY <2>2 DEF Snapshot
  <2>4. PlayerOf(r.players, p) =
          IF p \in DOMAIN m.bodies THEN NewPlayer(Popped(m.bodies[p])) ELSE PlayerOf(s.players, p)
    BY <2>3 DEF PlayerOf
  <2> QED  BY <1>1, <2>2, <2>3, <2>4 DEF AppliesTo, Welcomes, Tells, Neutral
<1>2. CASE m.type = "NewPlayer"
  <2> DEFINE v == NewPlayer(Popped(m.body))
             x == m.who
  <2>1. r = Put(s, x, v)
    BY <1>2 DEF Applied, Put
  <2> HIDE DEF v, x
  <2>2. IsPut(s, x, v, r)
    BY <2>1, PutIs
  <2> QED  BY <1>2, <2>2 DEF AppliesTo, Welcomes, Tells, Neutral, IsPut, v, x
<1>3. CASE m.type = "UpdatePlayer"
  <2> DEFINE v == [SetDirection(PlayerOf(s.players, m.who), m.direction) EXCEPT !.tail = Popped(m.body)]
             x == m.who
  <2>1. r = Put(s, x, v)
    BY <1>3 DEF Applied, Put
  <2>2. p = x => v = [SetDirection(PlayerOf(s.players, p), m.direction) EXCEPT !.tail = Popped(m.body)]
    OBVIOUS
  <2> HIDE DEF v, x
  <2>3. IsPut(s, x, v, r)
    BY <2>1, PutIs
  <2> QED  BY <1>3, <2>2, <2>3 DEF AppliesTo, Welcomes, Tells, Neutral, IsPut, x
<1>4. CASE m.type = "KillPlayer"
  <2> DEFINE v == Kill(PlayerOf(s.players, m.who))
             x == m.who
  <2>1. r = Put(s, x, v)
    BY <1>4 DEF Applied, Put
  <2>2. p = x => v = Kill(PlayerOf(s.players, p))
    OBVIOUS
  <2> HIDE DEF v, x
  <2>3. IsPut(s, x, v, r)
    BY <2>1, PutIs
  <2> QED  BY <1>4, <2>2, <2>3 DEF AppliesTo, Welcomes, Tells, Neutral, IsPut, x
<1>5. CASE m.type = "RemovePlayer"
  <2>1. r = [s EXCEPT !.players = Without(@, m.who)]
    BY <1>5 DEF Applied
  <2>2. r.phase = s.phase /\ r.players = Without(s.players, m.who)
    BY <2>1 DEF States
  <2>3. /\ DOMAIN r.players = DOMAIN s.players \ {m.who}
        /\ \A q \in DOMAIN r.players : r.players[q] = s.players[q]
    BY <2>2 DEF Without
  <2> QED  BY <1>5, <2>2, <2>3 DEF AppliesTo, Welcomes, Tells, Neutral, PlayerOf
<1>6. CASE m.type \in {"NewPowerup", "PowerupEaten", "StartGame"}
  <2>1. r.phase = s.phase /\ r.players = s.players
    BY <1>6 DEF Applied, States
  <2> QED  BY <1>6, <2>1 DEF AppliesTo, Welcomes, Tells, Neutral
<1> QED  BY <1>0, <1>1, <1>2, <1>3, <1>4, <1>5, <1>6

\* The view of a client that has handled a message.
LEMMA AppliedView ==
    ASSUME NEW s \in States, NEW m \in Mail, NEW p
    PROVE  /\ View(Applied(s, m), p) = After(View(s, p), m, p)
           /\ PlayerOf(s.players, p).food = 0 => PlayerOf(Applied(s, m).players, p).food = 0
<1> DEFINE r == Applied(s, m)
           q == PlayerOf(s.players, p)
           z == PlayerOf(r.players, p)
           in0 == s.phase # "waiting"
           has0 == p \in DOMAIN s.players
           in1 == r.phase # "waiting"
           has1 == p \in DOMAIN r.players
           v == View(s, p)
<1>1. AppliesTo(s, m, p, r)
  BY AppliedTo
<1>2. q \in Snakes
  BY PlayerOfType DEF States
<1>3. v = [in |-> in0, has |-> has0, alive |-> q.alive, grid |-> q.grid, len |-> Len(q.tail)]
  BY DEF View
<1>4. View(r, p) = [in |-> in1, has |-> has1, alive |-> z.alive, grid |-> z.grid, len |-> Len(z.tail)]
  BY DEF View
<1>5. m.type \in {"ServerValidation", "NewPlayer", "UpdatePlayer", "RemovePlayer",
                  "KillPlayer", "NewPowerup", "PowerupEaten", "StartGame"}
  BY MailFields
<1> HIDE DEF r, q, z
<1>6. /\ r.phase = "entering" => in1 = TRUE
      /\ r.phase = s.phase => in1 = in0
      /\ p \in DOMAIN r.players => has1 = TRUE
      /\ p \notin DOMAIN r.players => has1 = FALSE
      /\ (p \in DOMAIN r.players <=> p \in DOMAIN s.players) => has1 = has0
  OBVIOUS
<1> HIDE DEF v, in0, has0, in1, has1
<1>7. CASE Welcomes(m) /\ p \in DOMAIN m.bodies
  <2>1. r.phase = "entering" /\ p \in DOMAIN r.players /\ z = NewPlayer(Popped(m.bodies[p]))
    BY <1>1, <1>7 DEF AppliesTo, z
  <2>2. z.alive = TRUE /\ z.grid = TRUE /\ z.tail = Popped(m.bodies[p]) /\ z.food = 0
    BY <2>1 DEF NewPlayer
  <2>3. After(v, m, p) = [in |-> TRUE, has |-> TRUE, alive |-> TRUE, grid |-> TRUE, len |-> Len(Popped(m.bodies[p]))]
    BY <1>7 DEF After, Welcomes
  <2>4. View(r, p) = After(v, m, p)
    BY <1>4, <1>6, <2>1, <2>2, <2>3
  <2> QED  BY <2>2, <2>4 DEF r, q, z, v
<1>8. CASE Welcomes(m) /\ p \notin DOMAIN m.bodies
  <2>1. r.phase = "entering" /\ (p \in DOMAIN r.players <=> p \in DOMAIN s.players) /\ z = q
    BY <1>1, <1>8 DEF AppliesTo, z, q
  <2>2. After(v, m, p) = [v EXCEPT !.in = TRUE]
    BY <1>8 DEF After, Welcomes
  <2>3. After(v, m, p) = [in |-> TRUE, has |-> has0, alive |-> q.alive, grid |-> q.grid, len |-> Len(q.tail)]
    BY <1>3, <2>2
  <2>4. View(r, p) = After(v, m, p)
    BY <1>4, <1>6, <2>1, <2>3
  <2> QED  BY <2>1, <2>4 DEF r, q, z, v
<1>9. CASE Tells(m, "NewPlayer", p)
  <2>1. r.phase = s.phase /\ p \in DOMAIN r.players /\ z = NewPlayer(Popped(m.body))
    BY <1>1, <1>9 DEF AppliesTo, z, Tells, Welcomes
  <2>2. z.alive = TRUE /\ z.grid = TRUE /\ z.tail = Popped(m.body) /\ z.food = 0
    BY <2>1 DEF NewPlayer
  <2>3. After(v, m, p) = [in |-> v.in, has |-> TRUE, alive |-> TRUE, grid |-> TRUE, len |-> Len(Popped(m.body))]
    BY <1>9 DEF After, Tells
  <2>4. v.in = in0
    BY <1>3
  <2>5. View(r, p) = After(v, m, p)
    BY <1>4, <1>6, <2>1, <2>2, <2>3, <2>4
  <2> QED  BY <2>2, <2>5 DEF r, q, z, v
<1>10. CASE Tells(m, "RemovePlayer", p)
  <2>1. r.phase = s.phase /\ p \notin DOMAIN r.players /\ z = DefaultPlayer
    BY <1>1, <1>10 DEF AppliesTo, z, Tells, Welcomes
  <2>2. z.alive = TRUE /\ z.grid = FALSE /\ Len(z.tail) = 0 /\ z.food = 0
    BY <2>1 DEF DefaultPlayer, NewPlayer
  <2>3. After(v, m, p) = [in |-> v.in, has |-> FALSE, alive |-> TRUE, grid |-> FALSE, len |-> 0]
    BY <1>10 DEF After, Tells
  <2>4. v.in = in0
    BY <1>3
  <2>5. View(r, p) = After(v, m, p)
    BY <1>4, <1>6, <2>1, <2>2, <2>3, <2>4
  <2> QED  BY <2>2, <2>5 DEF r, q, z, v
<1>11. CASE Tells(m, "UpdatePlayer", p)
  <2>1. r.phase = s.phase /\ p \in DOMAIN r.players /\ z = [SetDirection(q, m.direction) EXCEPT !.tail = Popped(m.body)]
    BY <1>1, <1>11 DEF AppliesTo, z, q, Tells, Welcomes
  <2>2. z.alive = q.alive /\ z.grid = q.grid /\ z.tail = Popped(m.body) /\ z.food = q.food
    BY <1>2, <2>1 DEF SetDirection, Snakes
  <2>3. After(v, m, p) = [v EXCEPT !.has = TRUE, !.len = Len(Popped(m.body))]
    BY <1>11 DEF After, Tells
  <2>4. After(v, m, p) = [in |-> in0, has |-> TRUE, alive |-> q.alive, grid |-> q.grid, len |-> Len(Popped(m.body))]
    BY <1>3, <2>3
  <2>5. View(r, p) = After(v, m, p)
    BY <1>4, <1>6, <2>1, <2>2, <2>4
  <2> QED  BY <2>2, <2>5 DEF r, q, z, v
<1>12. CASE Tells(m, "KillPlayer", p)
  <2>1. r.phase = s.phase /\ p \in DOMAIN r.players /\ z = Kill(q)
    BY <1>1, <1>12 DEF AppliesTo, z, q, Tells, Welcomes
  <2>2. z.alive = FALSE /\ z.grid = q.grid /\ Len(z.tail) = 0 /\ z.food = q.food
    BY <1>2, <2>1 DEF Kill, Snakes
  <2>3. After(v, m, p) = [v EXCEPT !.has = TRUE, !.alive = FALSE, !.len = 0]
    BY <1>12 DEF After, Tells
  <2>4. After(v, m, p) = [in |-> in0, has |-> TRUE, alive |-> FALSE, grid |-> q.grid, len |-> 0]
    BY <1>3, <2>3
  <2>5. View(r, p) = After(v, m, p)
    BY <1>4, <1>6, <2>1, <2>2, <2>4
  <2> QED  BY <2>2, <2>5 DEF r, q, z, v
<1>13. CASE Neutral(m, p)
  <2>1. r.phase = s.phase /\ (p \in DOMAIN r.players <=> p \in DOMAIN s.players) /\ z = q
    BY <1>1, <1>13 DEF AppliesTo, z, q, Neutral, Welcomes
  <2>2. After(v, m, p) = v
    BY <1>13 DEF After, Neutral, Tells
  <2>3. View(r, p) = After(v, m, p)
    BY <1>3, <1>4, <1>6, <2>1, <2>2
  <2> QED  BY <2>1, <2>3 DEF r, q, z, v
<1> QED  BY <1>5, <1>7, <1>8, <1>9, <1>10, <1>11, <1>12, <1>13 DEF Welcomes, Neutral, Tells

----------------------------------------------------------------------------
(* MessageAllClients, message by message *)

\* a broadcast of m that drops nobody
Plain(n, m, ignore, r) ==
    /\ r.conns = n.conns /\ r.tails = n.tails
    /\ \A c \in open : r.down[c] = IF c = ignore THEN n.down[c] ELSE Append(n.down[c], m)

\* a broadcast of m that drops x
Drops(n, m, ignore, r, x) ==
    LET y == About("RemovePlayer", x)
    IN  /\ x \in n.conns \ open /\ x # ignore
        /\ r.conns = n.conns \ {x} /\ DOMAIN r.tails = DOMAIN n.tails \ {x}
        /\ \A p \in DOMAIN r.tails : r.tails[p] = n.tails[p]
        /\ \A c \in open :
             /\ c = ignore => r.down[c] = Append(n.down[c], y)
             /\ c # ignore => \/ r.down[c] = Append(Append(n.down[c], m), y)
                              \/ r.down[c] = Append(Append(n.down[c], y), m)

\* One or two messages behind others.
LEMMA OneOrTwo ==
    ASSUME NEW d \in Seq(Mail), NEW m \in Mail, NEW y \in Mail
    PROVE  /\ d \o <<>> = d /\ d \o <<m>> = Append(d, m)
           /\ d \o <<m, y>> = Append(Append(d, m), y)
<1>1. d \o <<>> = d /\ d \o <<m>> = Append(d, m)
  OBVIOUS
<1>2. d \o <<m, y>> = Append(Append(d, m), y)
  <2> DEFINE s == d \o <<m, y>>
             t == Append(Append(d, m), y)
  <2>1. /\ s \in Seq(Mail) /\ Len(s) = Len(d) + 2 /\ Len(d) \in Nat
        /\ (\A i \in 1..Len(d) : s[i] = d[i]) /\ s[Len(d) + 1] = m /\ s[Len(d) + 2] = y
    OBVIOUS
  <2>2. /\ t \in Seq(Mail) /\ Len(t) = Len(d) + 2
        /\ (\A i \in 1..Len(d) : t[i] = d[i]) /\ t[Len(d) + 1] = m /\ t[Len(d) + 2] = y
    OBVIOUS
  <2> HIDE DEF s, t
  <2>3. \A i \in 1..Len(s) : s[i] = t[i]
    <3>1. \A i \in 1..Len(s) : i \in 1..Len(d) \/ i = Len(d) + 1 \/ i = Len(d) + 2
      BY <2>1
    <3> QED  BY <2>1, <2>2, <3>1
  <2>4. s = t
    BY <2>1, <2>2, <2>3, SeqEqual
  <2> QED  BY <2>4 DEF s, t
<1> QED  BY <1>1, <1>2

\* A broadcast that ends drops at most one client.
LEMMA BroadcastWays ==
    ASSUME NEW n, Ledger(n), NEW m \in Mail, NEW ignore, NEW r, r = Broadcast(n, m, ignore), r.ok
    PROVE  Plain(n, m, ignore, r) \/ \E x : Drops(n, m, ignore, r, x)
<1> DEFINE closed == n.conns \ open
           gone == IF closed = {ignore} THEN {} ELSE closed
           Notice == IF gone = {} THEN <<>> ELSE <<About("RemovePlayer", CHOOSE y \in gone : TRUE)>>
           Mine(c) == IF c = ignore THEN <<>> ELSE <<m>>
           Sent(c) == IF c \in n.conns \cap open THEN Around(c, gone, Mine(c), Notice) ELSE <<>>
<1>1. /\ n.conns \subseteq Clients /\ open \subseteq n.conns /\ n.tails \in Maps(Seq(Cells))
      /\ n.down \in [Clients -> Seq(Mail)] /\ n.ok \in BOOLEAN
  BY DEF Ledger
<1>2. r = [conns |-> n.conns \ gone,
           tails |-> [p \in DOMAIN n.tails \ gone |-> n.tails[p]],
           down  |-> [c \in Clients |-> n.down[c] \o Sent(c)],
           ok    |-> n.ok /\ Cardinality(closed) < 2]
  BY DEF Broadcast
<1>3. closed = {} \/ \E x : closed = {x}
  <2>1. Cardinality(closed) < 2
    <3> DEFINE few == n.ok /\ Cardinality(closed) < 2
               C == n.conns \ gone
               T == [p \in DOMAIN n.tails \ gone |-> n.tails[p]]
               D == [c \in Clients |-> n.down[c] \o Sent(c)]
    <3>1. r = [conns |-> C, tails |-> T, down |-> D, ok |-> few]
      BY <1>2
    <3>2. few => Cardinality(closed) < 2
      OBVIOUS
    <3> HIDE DEF few, C, T, D
    <3>3. r.ok = few
      BY ONLY <3>1
    <3> QED  BY <3>2, <3>3
  <2>2. IsFiniteSet(closed)
    <3>1. IsFiniteSet(Clients) /\ closed \subseteq Clients
      BY <1>1, GameAssumption, FS_Interval DEF Clients
    <3> QED  BY <3>1, FS_Subset
  <2>3. Cardinality(closed) \in Nat
    BY <2>2, FS_CardinalityType
  <2>4. Cardinality(closed) = 0 \/ Cardinality(closed) = 1
    BY <2>1, <2>3
  <2>5. Cardinality(closed) = 0 => closed = {}
    BY <2>2, FS_EmptySet
  <2>6. Cardinality(closed) = 1 => \E x : closed = {x}
    BY <2>2, FS_Singleton
  <2> QED  BY <2>4, <2>5, <2>6
<1>4. gone = {} \/ \E x \in closed : x # ignore /\ gone = {x}
  BY <1>3
<1>5. \A c \in open : Sent(c) = Around(c, gone, Mine(c), Notice)
  BY <1>1
<1>6. \A c : Around(c, gone, Mine(c), Notice) \in {Mine(c) \o Notice, Notice \o Mine(c)}
  BY DEF Around
<1>7. \A x : gone = {x} => Notice = <<About("RemovePlayer", x)>>
  <2>1. \A x : gone = {x} => (CHOOSE y \in gone : TRUE) = x
    OBVIOUS
  <2> HIDE DEF gone
  <2> QED  BY <2>1
<1>8. gone = {} => Notice = <<>>
  OBVIOUS
<1>9. \A c : (c = ignore => Mine(c) = <<>>) /\ (c # ignore => Mine(c) = <<m>>)
  OBVIOUS
<1>10. \A x \in closed : x \in n.conns \ open /\ x \in Clients
  BY <1>1
<1> HIDE DEF gone, Notice, Mine, Sent, closed
<1>11. /\ r.conns = n.conns \ gone /\ DOMAIN r.tails = DOMAIN n.tails \ gone
       /\ r.tails = [p \in DOMAIN n.tails \ gone |-> n.tails[p]]
       /\ \A p \in DOMAIN r.tails : r.tails[p] = n.tails[p]
  BY <1>2
<1>12. ASSUME NEW c \in open
       PROVE  /\ r.down[c] = n.down[c] \o (Mine(c) \o Notice) \/ r.down[c] = n.down[c] \o (Notice \o Mine(c))
              /\ n.down[c] \in Seq(Mail)
  <2>1. c \in Clients
    BY <1>1
  <2>2. r.down = [e \in Clients |-> n.down[e] \o Sent(e)]
    BY <1>2
  <2>3. r.down[c] = n.down[c] \o Sent(c)
    BY <2>1, <2>2
  <2>4. Sent(c) = Mine(c) \o Notice \/ Sent(c) = Notice \o Mine(c)
    BY <1>5, <1>6
  <2> QED  BY <1>1, <2>1, <2>3, <2>4
<1>13. CASE gone = {}
  <2>1. r.conns = n.conns /\ r.tails = n.tails
    <3>1. n.tails = [p \in DOMAIN n.tails |-> n.tails[p]]
      BY <1>1, MapType
    <3> QED  BY <1>11, <1>13, <3>1
  <2>2. ASSUME NEW c \in open PROVE r.down[c] = IF c = ignore THEN n.down[c] ELSE Append(n.down[c], m)
    <3> DEFINE d == n.down[c]
    <3>1. d \in Seq(Mail) /\ (r.down[c] = d \o (Mine(c) \o <<>>) \/ r.down[c] = d \o (<<>> \o Mine(c)))
      BY <1>8, <1>12, <1>13
    <3> HIDE DEF d
    <3>2. d \o <<>> = d /\ d \o <<m>> = Append(d, m)
      BY <3>1
    <3>3. CASE c = ignore
      BY <1>9, <3>1, <3>2, <3>3, Short DEF d
    <3>4. CASE c # ignore
      BY <1>9, <3>1, <3>2, <3>4, Short DEF d
    <3> QED  BY <3>3, <3>4
  <2> QED  BY <2>1, <2>2 DEF Plain
<1>14. ASSUME NEW x \in closed, x # ignore, gone = {x} PROVE Drops(n, m, ignore, r, x)
  <2> DEFINE y == About("RemovePlayer", x)
  <2>1. y \in Mail
    BY <1>10, MailMade
  <2>2. Notice = <<y>>
    BY <1>7, <1>14
  <2> HIDE DEF y
  <2>3. ASSUME NEW c \in open
        PROVE  /\ c = ignore => r.down[c] = Append(n.down[c], y)
               /\ c # ignore => \/ r.down[c] = Append(Append(n.down[c], m), y)
                                \/ r.down[c] = Append(Append(n.down[c], y), m)
    <3> DEFINE d == n.down[c]
    <3>1. d \in Seq(Mail) /\ (r.down[c] = d \o (Mine(c) \o <<y>>) \/ r.down[c] = d \o (<<y>> \o Mine(c)))
      BY <1>12, <2>2
    <3> HIDE DEF d
    <3>2. /\ d \o <<y>> = Append(d, y)
          /\ d \o <<m, y>> = Append(Append(d, m), y) /\ d \o <<y, m>> = Append(Append(d, y), m)
      BY <2>1, <3>1, OneOrTwo
    <3>3. CASE c = ignore
      BY <1>9, <3>1, <3>2, <3>3, Short DEF d
    <3>4. CASE c # ignore
      BY <1>9, <3>1, <3>2, <3>4, Short, ZenonT(60) DEF d
    <3> QED  BY <3>3, <3>4
  <2> QED  BY <1>10, <1>11, <1>14, <2>3 DEF Drops, y
<1> QED  BY <1>4, <1>13, <1>14

\* m turns one side of the server into another for all but the ignored client
Turnable(m, c, p, ignore, known, there, len, dead, late, there2, len2, dead2) ==
    /\ c # ignore => Turns(m, p, known, there, len, dead, late, known, there2, len2, dead2, late)
    /\ c # ignore /\ p # ignore => Turns(m, p, known, FALSE, 0, dead, late, known, FALSE, 0, dead2, late)
    /\ c = ignore => there2 = there /\ len2 = len /\ dead2 = dead

\* what leads from v to p after a broadcast that makes r of n
Spread(n, r, c, p, v, known, there2, len2, dead2, late) ==
    /\ p \in n.conns \ r.conns => Leads(v, r.down[c], p, known, FALSE, 0, dead2, late)
    /\ p \notin n.conns \ r.conns => Leads(v, r.down[c], p, known, there2, len2, dead2, late)

\* r is n after a broadcast of m that ends
Sends(n, m, ignore, r) == Ledger(n) /\ m \in Mail /\ r = Broadcast(n, m, ignore) /\ r.ok

\* A broadcast of m turns what leads to p from one server's side to the next, and
\* away from p when it drops it.
LEMMA Spreads ==
    ASSUME NEW n, NEW m, NEW ignore, NEW r, Sends(n, m, ignore, r),
           NEW c \in open, NEW p, NEW v,
           NEW known, NEW there, NEW len, NEW dead, NEW late, NEW there2, NEW len2, NEW dead2,
           Leads(v, n.down[c], p, known, there, len, dead, late),
           Turnable(m, c, p, ignore, known, there, len, dead, late, there2, len2, dead2)
    PROVE  Spread(n, r, c, p, v, known, there2, len2, dead2, late)
<1>0. /\ Ledger(n) /\ m \in Mail /\ r = Broadcast(n, m, ignore) /\ r.ok
      /\ c # ignore => Turns(m, p, known, there, len, dead, late, known, there2, len2, dead2, late)
      /\ c # ignore /\ p # ignore => Turns(m, p, known, FALSE, 0, dead, late, known, FALSE, 0, dead2, late)
      /\ c = ignore => there2 = there /\ len2 = len /\ dead2 = dead
  BY DEF Sends, Turnable
<1> DEFINE d == n.down[c]
<1>1. d \in Seq(Mail) /\ Leads(v, d, p, known, there, len, dead, late) /\ n.conns \subseteq Clients
  <2>1. n.down \in [Clients -> Seq(Mail)] /\ open \subseteq Clients /\ n.conns \subseteq Clients
    BY <1>0 DEF Ledger
  <2> QED  BY <2>1
<1>2. Plain(n, m, ignore, r) \/ \E x : Drops(n, m, ignore, r, x)
  BY <1>0, BroadcastWays
<1>3. c # ignore => Leads(v, Append(d, m), p, known, there2, len2, dead2, late)
  <2> HIDE DEF d
  <2> QED  BY <1>0, <1>1, LeadsOn
<1>4. CASE Plain(n, m, ignore, r)
  <2>1. r.down[c] = (IF c = ignore THEN d ELSE Append(d, m)) /\ r.conns = n.conns
    BY <1>4 DEF Plain
  <2>2. CASE c = ignore
    BY <1>0, <1>1, <2>1, <2>2 DEF Spread
  <2>3. CASE c # ignore
    BY <1>3, <2>1, <2>3 DEF Spread
  <2> QED  BY <2>2, <2>3
<1>5. ASSUME NEW x, Drops(n, m, ignore, r, x)
      PROVE  /\ p \in n.conns \ r.conns => Leads(v, r.down[c], p, known, FALSE, 0, dead2, late)
             /\ p \notin n.conns \ r.conns => Leads(v, r.down[c], p, known, there2, len2, dead2, late)
  <2> DEFINE y == About("RemovePlayer", x)
  <2>1. /\ x \in Clients /\ x # ignore /\ n.conns \ r.conns = {x}
        /\ c = ignore => r.down[c] = Append(d, y)
        /\ c # ignore => r.down[c] = Append(Append(d, m), y) \/ r.down[c] = Append(Append(d, y), m)
    BY <1>1, <1>5 DEF Drops
  <2>2. y \in Mail /\ y.type = "RemovePlayer" /\ y.who = x
    BY <2>1, MailMade, NoticeIs
  <2> HIDE DEF d, y
  <2>3. CASE p = x
    <3>1. Tells(y, "RemovePlayer", p)
      BY <2>2, <2>3 DEF Tells
    <3>2. CASE c = ignore
      <4>1. Turns(y, p, known, there, len, dead, late, known, FALSE, 0, dead, late)
        BY <3>1, TurnsRemove
      <4>2. Leads(v, Append(d, y), p, known, FALSE, 0, dead, late)
        BY <1>1, <2>2, <4>1, LeadsOn
      <4> QED  BY <1>0, <2>1, <2>3, <3>2, <4>2
    <3>3. CASE c # ignore
      <4>1. Turns(y, p, known, there2, len2, dead2, late, known, FALSE, 0, dead2, late)
        BY <3>1, TurnsRemove
      <4>2. Append(d, m) \in Seq(Mail) /\ Append(d, y) \in Seq(Mail)
        BY <1>0, <1>1, <2>2
      <4>3. Leads(v, Append(Append(d, m), y), p, known, FALSE, 0, dead2, late)
        BY <1>3, <2>2, <3>3, <4>1, <4>2, LeadsOn
      <4>4. Turns(y, p, known, there, len, dead, late, known, FALSE, 0, dead, late)
        BY <3>1, TurnsRemove
      <4>5. Leads(v, Append(d, y), p, known, FALSE, 0, dead, late)
        BY <1>1, <2>2, <4>4, LeadsOn
      <4>6. Turns(m, p, known, FALSE, 0, dead, late, known, FALSE, 0, dead2, late)
        BY <1>0, <2>1, <2>3, <3>3
      <4>7. Leads(v, Append(Append(d, y), m), p, known, FALSE, 0, dead2, late)
        BY <1>0, <4>2, <4>5, <4>6, LeadsOn
      <4> QED  BY <2>1, <2>3, <3>3, <4>3, <4>7
    <3> QED  BY <3>2, <3>3
  <2>4. CASE p # x
    <3>1. Neutral(y, p)
      BY <2>2, <2>4 DEF Neutral
    <3>2. CASE c = ignore
      <4>1. Turns(y, p, known, there, len, dead, late, known, there, len, dead, late)
        BY <3>1, TurnsNeutral
      <4>2. Leads(v, Append(d, y), p, known, there, len, dead, late)
        BY <1>1, <2>2, <4>1, LeadsOn
      <4> QED  BY <1>0, <2>1, <2>4, <3>2, <4>2
    <3>3. CASE c # ignore
      <4>1. Turns(y, p, known, there2, len2, dead2, late, known, there2, len2, dead2, late)
        BY <3>1, TurnsNeutral
      <4>2. Append(d, m) \in Seq(Mail) /\ Append(d, y) \in Seq(Mail)
        BY <1>0, <1>1, <2>2
      <4>3. Leads(v, Append(Append(d, m), y), p, known, there2, len2, dead2, late)
        BY <1>3, <2>2, <3>3, <4>1, <4>2, LeadsOn
      <4>4. Turns(y, p, known, there, len, dead, late, known, there, len, dead, late)
        BY <3>1, TurnsNeutral
      <4>5. Leads(v, Append(d, y), p, known, there, len, dead, late)
        BY <1>1, <2>2, <4>4, LeadsOn
      <4>6. Turns(m, p, known, there, len, dead, late, known, there2, len2, dead2, late)
        BY <1>0, <3>3
      <4>7. Leads(v, Append(Append(d, y), m), p, known, there2, len2, dead2, late)
        BY <1>0, <4>2, <4>5, <4>6, LeadsOn
      <4> QED  BY <2>1, <2>4, <3>3, <4>3, <4>7
    <3> QED  BY <3>2, <3>3
  <2> QED  BY <2>3, <2>4
<1> QED  BY <1>2, <1>4, <1>5 DEF Spread

----------------------------------------------------------------------------
(* What a broadcast keeps *)

\* Who is still in the game after a broadcast.
LEMMA BroadcastTails ==
    ASSUME NEW n, Ledger(n), NEW m \in Mail, NEW ignore, NEW r, r = Broadcast(n, m, ignore), r.ok
    PROVE  /\ DOMAIN r.tails = DOMAIN n.tails \ (n.conns \ r.conns)
           /\ \A p \in DOMAIN r.tails : r.tails[p] = n.tails[p]
           /\ \A c \in open : c \notin n.conns \ r.conns
           /\ ignore \notin n.conns \ r.conns
<1>1. Plain(n, m, ignore, r) \/ \E x : Drops(n, m, ignore, r, x)
  BY BroadcastWays
<1>2. CASE Plain(n, m, ignore, r)
  BY <1>2 DEF Plain
<1>3. ASSUME NEW x, Drops(n, m, ignore, r, x) PROVE n.conns \ r.conns = {x} /\ x \notin open /\ x # ignore
  BY <1>3 DEF Drops
<1>4. ASSUME NEW x, Drops(n, m, ignore, r, x)
      PROVE  /\ DOMAIN r.tails = DOMAIN n.tails \ (n.conns \ r.conns)
             /\ \A p \in DOMAIN r.tails : r.tails[p] = n.tails[p]
             /\ \A c \in open : c \notin n.conns \ r.conns
             /\ ignore \notin n.conns \ r.conns
  BY <1>3, <1>4 DEF Drops
<1> QED  BY <1>1, <1>2, <1>4

\* m turns the prospects of all when the players killed are k2 instead of k
TurnsAll(m, ignore, k, k2) ==
    \A c \in open : \A p \in Clients \ {c} : \A known, there, len, dead, dead2, late :
        dead = (p \in k) /\ dead2 = (p \in k2) =>
            Turnable(m, c, p, ignore, known, there, len, dead, late, there, len, dead2)

\* The prospects after a broadcast of m, if m turns them all.
LEMMA ProspectsOn ==
    ASSUME NEW n, NEW m, NEW ignore, NEW r, Sends(n, m, ignore, r),
           NEW k, NEW k2, NEW late, Prospects(n, k, late), TurnsAll(m, ignore, k, k2)
    PROVE  Prospects(r, k2, late)
<1> SUFFICES ASSUME NEW c \in open, NEW p \in Clients \ {c}
             PROVE  Prospect(client[c], r.down[c], p, r.tails, c \in DOMAIN r.tails, k2, late[c])
  BY DEF Prospects
<1> DEFINE v == View(client[c], p)
           known == c \in DOMAIN n.tails
           there == p \in DOMAIN n.tails
           len == TailLen(n.tails, p)
           dead == p \in k
           before == p \in late[c]
           known2 == c \in DOMAIN r.tails
           there2 == p \in DOMAIN r.tails
           len2 == TailLen(r.tails, p)
           dead2 == p \in k2
<1>1. Leads(v, n.down[c], p, known, there, len, dead, before)
  <2>1. Prospect(client[c], n.down[c], p, n.tails, c \in DOMAIN n.tails, k, late[c])
    BY DEF Prospects
  <2> QED  BY <2>1 DEF Prospect
<1>2. Turnable(m, c, p, ignore, known, there, len, dead, before, there, len, dead2)
  BY DEF TurnsAll
<1>3. /\ DOMAIN r.tails = DOMAIN n.tails \ (n.conns \ r.conns)
      /\ \A q \in DOMAIN r.tails : r.tails[q] = n.tails[q]
      /\ c \notin n.conns \ r.conns
  BY BroadcastTails DEF Sends
<1>4. known2 = known
  BY <1>3
<1>5. p \in n.conns \ r.conns => there2 = FALSE /\ len2 = 0
  BY <1>3 DEF TailLen
<1>6. p \notin n.conns \ r.conns => there2 = there /\ len2 = len
  BY <1>3 DEF TailLen
<1>7. Leads(v, r.down[c], p, known2, there2, len2, dead2, before) =>
        Prospect(client[c], r.down[c], p, r.tails, c \in DOMAIN r.tails, k2, late[c])
  BY DEF Prospect
<1> HIDE DEF v, known, there, len, dead, before, known2, there2, len2, dead2
<1>8. Spread(n, r, c, p, v, known, there, len, dead2, before)
  BY ONLY Sends(n, m, ignore, r), c \in open, <1>1, <1>2, Spreads
<1> QED  BY <1>4, <1>5, <1>6, <1>7, <1>8 DEF Spread

\* The own snake, with more messages under way, and perhaps killed by them.
LEMMA OwnBehind ==
    ASSUME NEW c, NEW x, NEW u, NEW d \in Seq(Mail), NEW t, NEW k, Own(c, x, u, d, t, k),
           NEW s \in Seq(Mail), \A i \in DOMAIN s : ~Welcomes(s[i]),
           NEW t2, c \in DOMAIN t => c \in DOMAIN t2 /\ t2[c] = t[c], NEW k2, c \in k => c \in k2,
           c \in k2 => c \in k \/ (/\ x.phase \notin {"waiting", "entering"}
                                   /\ \E i \in DOMAIN s : Tells(s[i], "KillPlayer", c))
    PROVE  Own(c, x, u, d \o s, t2, k2)
<1> DEFINE e == d \o s
<1>1. /\ \A i \in DOMAIN d : i \in DOMAIN e /\ e[i] = d[i]
      /\ \A i \in DOMAIN s : Len(d) + i \in DOMAIN e /\ e[Len(d) + i] = s[i]
      /\ \A i \in DOMAIN e : i \in DOMAIN d \/ (i > Len(d) /\ i - Len(d) \in DOMAIN s /\ e[i] = s[i - Len(d)])
  BY Behind
<1> HIDE DEF e
<1>2. \A i \in DOMAIN e : Welcomes(e[i]) => i \in DOMAIN d /\ e[i] = d[i]
  BY <1>1
<1>3. Invited(c, x, e, t2)
  BY <1>2 DEF Own, Invited
<1>4. x.phase \in {"waiting", "entering"} => u = <<>> /\ c \notin k2
  BY DEF Own
<1>5. ASSUME x.phase # "waiting" PROVE Itself(c, x, u, e, t2, k2)
  <2> DEFINE me == x.players[c]
  <2>1. /\ c \in DOMAIN t /\ me.grid /\ (me.alive => me.tail # <<>>)
        /\ c \notin k => me.tail # <<>>
        /\ c \in k => me.tail = <<>> \/ \E i \in DOMAIN d : Tells(d[i], "KillPlayer", c)
        /\ x.phase # "handling" => Latest(u, t[c], me.tail)
    BY <1>5 DEF Own, Itself
  <2>2. (\E i \in DOMAIN d : Tells(d[i], "KillPlayer", c)) => \E i \in DOMAIN e : Tells(e[i], "KillPlayer", c)
    BY <1>1
  <2>3. (\E i \in DOMAIN s : Tells(s[i], "KillPlayer", c)) => \E i \in DOMAIN e : Tells(e[i], "KillPlayer", c)
    BY <1>1
  <2> QED  BY <2>1, <2>2, <2>3 DEF Itself
<1> QED  BY <1>3, <1>4, <1>5 DEF Own, e

\* Own snakes and senders, after a broadcast of m that welcomes nobody.
LEMMA OwnedOn ==
    ASSUME NEW n, Ledger(n), NEW m \in Mail, NEW ignore, NEW r, r = Broadcast(n, m, ignore), r.ok,
           \A c \in Clients : c = ignore \/ For(c, m), ~Welcomes(m),
           NEW u, NEW k, NEW k2, k \subseteq k2, Signed(n, u, k), Owned(n, u, k),
           \A c \in open : c = ignore \/ Proper(c, m, k2),
           \A c \in open : c \in k2 => c \in k \/ (/\ client[c].phase \notin {"waiting", "entering"}
                                                   /\ c # ignore /\ Tells(m, "KillPlayer", c))
    PROVE  Signed(r, u, k2) /\ Owned(r, u, k2)
<1>1. /\ n.down \in [Clients -> Seq(Mail)] /\ open \subseteq Clients
  BY DEF Ledger
<1>2. Reached(n, m, ignore, r)
  BY ONLY Ledger(n), m \in Mail, \A c \in Clients : c = ignore \/ For(c, m),
          r = Broadcast(n, m, ignore), BroadcastIs
<1>3. /\ \A c \in Clients \ open : r.down[c] = n.down[c]
      /\ \A c \in open : \E s : Share(c, m, ignore, s) /\ r.down[c] = n.down[c] \o s
  BY <1>2 DEF Reached
<1>4. /\ DOMAIN r.tails = DOMAIN n.tails \ (n.conns \ r.conns)
      /\ \A p \in DOMAIN r.tails : r.tails[p] = n.tails[p]
      /\ \A c \in open : c \notin n.conns \ r.conns
  BY BroadcastTails
<1>5. \A x : ~Welcomes(About("RemovePlayer", x)) /\ \A c : Proper(c, About("RemovePlayer", x), k2)
  BY DEF Welcomes, Proper, About
<1>6. ASSUME NEW c \in Clients, NEW i \in DOMAIN r.down[c] PROVE Proper(c, r.down[c][i], k2)
  <2>1. \A j \in DOMAIN n.down[c] : Proper(c, n.down[c][j], k2)
    BY DEF Signed, Proper
  <2>2. CASE c \notin open
    BY <1>3, <1>6, <2>1, <2>2
  <2>3. CASE c \in open
    <3>1. PICK s : Share(c, m, ignore, s) /\ r.down[c] = n.down[c] \o s
      BY <1>3, <2>3
    <3> DEFINE d == n.down[c]
    <3>2. d \in Seq(Mail) /\ s \in Seq(Mail)
      BY <1>1, <3>1 DEF Share
    <3>3. \A j \in DOMAIN s : Proper(c, s[j], k2)
      BY <1>5, <2>3, <3>1 DEF Share
    <3> HIDE DEF d
    <3>4. i \in DOMAIN d \/ (i - Len(d) \in DOMAIN s /\ (d \o s)[i] = s[i - Len(d)])
      BY <1>6, <3>1, <3>2, Behind DEF d
    <3>5. \A j \in DOMAIN d : (d \o s)[j] = d[j]
      BY <3>2, Behind
    <3> QED  BY <2>1, <3>1, <3>3, <3>4, <3>5 DEF d
  <2> QED  BY <2>2, <2>3
<1>7. Signed(r, u, k2)
  <2>1. \A c \in Clients : \A i \in DOMAIN u[c] : Authentic(c, u[c][i], k2)
    BY DEF Signed, Authentic
  <2>2. \A p \in DOMAIN r.tails : p \in k2 \/ r.tails[p] # <<>>
    BY <1>4 DEF Signed
  <2> QED  BY <1>6, <2>1, <2>2 DEF Signed
<1>8. ASSUME NEW c \in open PROVE Own(c, client[c], u[c], r.down[c], r.tails, k2)
  <2>1. PICK s : Share(c, m, ignore, s) /\ r.down[c] = n.down[c] \o s
    BY <1>3
  <2> DEFINE d == n.down[c]
             x == client[c]
             w == u[c]
             t == n.tails
             t2 == r.tails
  <2>2. d \in Seq(Mail) /\ s \in Seq(Mail) /\ r.down[c] = d \o s
    BY <1>1, <2>1 DEF Share
  <2>3. \A i \in DOMAIN s : ~Welcomes(s[i])
    BY <1>5, <2>1 DEF Share
  <2>4. Own(c, x, w, d, t, k)
    BY DEF Owned
  <2>5. c \in DOMAIN t => c \in DOMAIN t2 /\ t2[c] = t[c]
    BY <1>4
  <2>6. c \in k2 => c \in k \/ (/\ x.phase \notin {"waiting", "entering"}
                                /\ \E i \in DOMAIN s : Tells(s[i], "KillPlayer", c))
    <3>1. c # ignore => \E i \in DOMAIN s : s[i] = m
      BY <2>1 DEF Share
    <3> QED  BY <3>1
  <2>7. c \in k => c \in k2
    OBVIOUS
  <2> HIDE DEF d, x, w, t, t2
  <2>8. Own(c, x, w, d \o s, t2, k2)
    BY ONLY <2>2, <2>3, <2>4, <2>5, <2>6, <2>7, OwnBehind
  <2> QED  BY <2>2, <2>8 DEF d, x, w, t, t2
<1> QED  BY <1>7, <1>8 DEF Owned

\* A broadcast that tells of no player.
LEMMA FitsOn ==
    ASSUME NEW n, Ledger(n), NEW m \in Mail, m.type \in {"NewPowerup", "PowerupEaten", "StartGame"}, NEW ignore,
           NEW r, r = Broadcast(n, m, ignore), r.ok, NEW u, NEW k, NEW late, Fits(n, u, k, late)
    PROVE  Fits(r, u, k, late)
<1>1. /\ Prospects(n, k, late) /\ Signed(n, u, k) /\ Owned(n, u, k)
  BY DEF Fits
<1>2. /\ \A c \in Clients : c = ignore \/ For(c, m)
      /\ ~Welcomes(m) /\ (\A c \in open : c = ignore \/ Proper(c, m, k))
      /\ \A p : Neutral(m, p)
  BY DEF For, Welcomes, Proper, Neutral
<1>3. TurnsAll(m, ignore, k, k)
  <2> SUFFICES ASSUME NEW c \in open, NEW p \in Clients \ {c}, NEW known, NEW there, NEW len, NEW dead, NEW dead2,
                      NEW before, dead = (p \in k), dead2 = (p \in k)
               PROVE  Turnable(m, c, p, ignore, known, there, len, dead, before, there, len, dead2)
    BY DEF TurnsAll
  <2>1. dead2 = dead
    OBVIOUS
  <2>2. \A t, l : Turns(m, p, known, t, l, dead, before, known, t, l, dead, before)
    BY <1>2, TurnsNeutral
  <2> QED  BY <2>1, <2>2 DEF Turnable
<1>4. Prospects(r, k, late)
  <2>1. Sends(n, m, ignore, r)
    BY DEF Sends
  <2> QED  BY ONLY <1>1, <1>3, <2>1, ProspectsOn
<1>5. Signed(r, u, k) /\ Owned(r, u, k)
  <2>1. k \subseteq k /\ \A c \in open : c \in k => c \in k \/ (/\ client[c].phase \notin {"waiting", "entering"}
                                                                /\ c # ignore /\ Tells(m, "KillPlayer", c))
    OBVIOUS
  <2> QED  BY ONLY Ledger(n), m \in Mail, r = Broadcast(n, m, ignore), r.ok, <1>1, <1>2, <2>1, OwnedOn
<1> QED  BY <1>4, <1>5 DEF Fits

\* The broadcast of a death.
LEMMA FitsKill ==
    ASSUME NEW n, Ledger(n), NEW a \in Clients, NEW m, m = About("KillPlayer", a),
           client[a].phase \notin {"waiting", "entering"},
           NEW r, r = Broadcast(n, m, Null), r.ok, NEW u, NEW k, NEW late, Fits(n, u, k, late)
    PROVE  Fits(r, u, k \cup {a}, late)
<1> DEFINE k2 == k \cup {a}
<1>1. /\ Prospects(n, k, late) /\ Signed(n, u, k) /\ Owned(n, u, k)
  BY DEF Fits
<1>2. /\ m \in Mail /\ m.type = "KillPlayer" /\ m.who = a
  BY MailMade DEF About
<1>3. /\ \A c \in Clients : c = Null \/ For(c, m)
      /\ ~Welcomes(m) /\ (\A c \in open : c = Null \/ Proper(c, m, k2))
      /\ \A p : p # a => Neutral(m, p)
      /\ Tells(m, "KillPlayer", a)
  BY <1>2 DEF For, Welcomes, Proper, Neutral, Tells
<1>4. open \subseteq Clients /\ \A c \in open : c # Null
  BY ClientIsSomebody DEF Ledger
<1>5. TurnsAll(m, Null, k, k2)
  <2> SUFFICES ASSUME NEW c \in open, NEW p \in Clients \ {c}, NEW known, NEW there, NEW len, NEW dead, NEW dead2,
                      NEW before, dead = (p \in k), dead2 = (p \in k2)
               PROVE  Turnable(m, c, p, Null, known, there, len, dead, before, there, len, dead2)
    BY DEF TurnsAll
  <2>1. CASE p = a
    <3>1. dead2 = TRUE
      BY <2>1
    <3>2. \A t, l : Turns(m, p, known, t, l, dead, before, known, t, l, TRUE, before)
      BY <1>3, <2>1, TurnsKill
    <3> QED  BY <1>4, <3>1, <3>2 DEF Turnable
  <2>2. CASE p # a
    <3>1. dead2 = dead
      BY <2>2
    <3>2. \A t, l : Turns(m, p, known, t, l, dead, before, known, t, l, dead, before)
      BY <1>3, <2>2, TurnsNeutral
    <3> QED  BY <1>4, <3>1, <3>2 DEF Turnable
  <2> QED  BY <2>1, <2>2
<1>6. /\ k \subseteq k2
      /\ \A c \in open : c \in k2 => c \in k \/ (/\ client[c].phase \notin {"waiting", "entering"}
                                                 /\ c # Null /\ Tells(m, "KillPlayer", c))
  BY <1>3, <1>4
<1> HIDE DEF k2
<1>7. Prospects(r, k2, late)
  <2>1. Sends(n, m, Null, r)
    BY <1>2 DEF Sends
  <2> QED  BY ONLY <1>1, <1>5, <2>1, ProspectsOn
<1>8. Signed(r, u, k2) /\ Owned(r, u, k2)
  BY ONLY Ledger(n), r = Broadcast(n, m, Null), r.ok, <1>1, <1>2, <1>3, <1>6, OwnedOn
<1>9. Fits(r, u, k2, late)
  BY <1>7, <1>8 DEF Fits
<1> QED  BY <1>9 DEF k2

----------------------------------------------------------------------------
(* Steps of the server *)

\* A client that has not been started has neither sent anything nor been killed.
Unborn(u, k) == \A c \in Clients : client[c].phase = "off" => u[c] = <<>> /\ c \notin k

\* A handler of the server that ends with r.
LEMMA Committed ==
    ASSUME IInv, Copies, crashed = "no", NEW r, Goes(r), Commit(r), open' = open, client' = client,
           r.ok => Fits(r, up', killed', deadAtJoin'), Unborn(up', killed')
    PROVE  Copies'
<1>1. /\ conns' = r.conns /\ tails' = r.tails /\ down' = r.down
      /\ crashed' = IF r.ok THEN "no" ELSE "recursion"
  BY DEF Commit
<1>2. r = [conns |-> r.conns, tails |-> r.tails, down |-> r.down, ok |-> r.ok] /\ r.ok \in BOOLEAN
  BY DEF Goes, Ledger
<1> SUFFICES ASSUME crashed' = "no" PROVE Fits(Now, up, killed, deadAtJoin)' /\ Unfed' /\ Connected'
  BY DEF Copies
<1>3. r.ok = TRUE
  BY <1>1, <1>2
<1>4. Now' = r
  BY <1>1, <1>2, <1>3 DEF Now
<1>5. Fits(r, up', killed', deadAtJoin')
  BY <1>3
<1>6. Fits(Now, up, killed, deadAtJoin)'
  BY <1>4, <1>5 DEF Fits, Prospects, Signed, Owned
<1>7. Unfed'
  BY DEF Copies, Unfed
<1>8. Connected'
  BY DEF Copies, Connected, Unborn
<1> QED  BY <1>6, <1>7, <1>8

\* A handler of the server that does not end.
LEMMA CrashCopies ==
    ASSUME NEW why, ServerCrash(why), why # "no"
    PROVE  Copies'
  BY DEF ServerCrash, Copies

\* The first message of those a client sent is taken.
LEMMA LatestTaken ==
    ASSUME NEW u \in Seq(Reports), u # <<>>, NEW t, NEW tail, Latest(u, t, tail)
    PROVE  /\ ~IsReport(Head(u)) => Latest(Tail(u), t, tail)
           /\ IsReport(Head(u)) => Latest(Tail(u), Popped(Head(u).body), tail)
<1> DEFINE w == Tail(u)
<1>1. /\ Head(u) = u[1] /\ 1 \in DOMAIN u /\ DOMAIN u \subseteq Nat /\ DOMAIN w \subseteq Nat
      /\ \A i \in DOMAIN w : i + 1 \in DOMAIN u /\ w[i] = u[i + 1] /\ i + 1 > 1
      /\ \A i \in DOMAIN u : i # 1 => i - 1 \in DOMAIN w /\ w[i - 1] = u[i]
  OBVIOUS
<1> HIDE DEF w
<1>2. /\ (\A i \in DOMAIN u : ~IsReport(u[i])) => t = tail
      /\ \A i \in DOMAIN u :
           IsReport(u[i]) /\ (\A j \in DOMAIN u : j > i => ~IsReport(u[j])) => Popped(u[i].body) = tail
  BY DEF Latest
<1>3. ASSUME NEW i \in DOMAIN w, IsReport(w[i]), \A j \in DOMAIN w : j > i => ~IsReport(w[j])
      PROVE  Popped(w[i].body) = tail
  <2>1. \A j \in DOMAIN u : j > i + 1 => ~IsReport(u[j])
    <3> SUFFICES ASSUME NEW j \in DOMAIN u, j > i + 1 PROVE ~IsReport(u[j])
      OBVIOUS
    <3>1. i \in Nat /\ j \in Nat
      BY <1>1
    <3>2. j # 1 /\ j - 1 > i
      BY <3>1
    <3> QED  BY <1>1, <1>3, <3>2
  <2>2. i + 1 \in DOMAIN u /\ w[i] = u[i + 1]
    BY <1>1
  <2> QED  BY <1>2, <1>3, <2>1, <2>2
<1>4. ASSUME \A i \in DOMAIN w : ~IsReport(w[i]) PROVE \A j \in DOMAIN u : j # 1 => ~IsReport(u[j])
  BY <1>1, <1>4
<1>5. ASSUME \A i \in DOMAIN w : ~IsReport(w[i]), ~IsReport(u[1]) PROVE t = tail
  BY <1>2, <1>4, <1>5
<1>6. ASSUME \A i \in DOMAIN w : ~IsReport(w[i]), IsReport(u[1]) PROVE Popped(u[1].body) = tail
  <2>1. \A j \in DOMAIN u : j > 1 => ~IsReport(u[j])
    BY <1>1, <1>4, <1>6
  <2> QED  BY <1>1, <1>2, <1>6, <2>1
<1>7. /\ ~IsReport(u[1]) => Latest(w, t, tail)
      /\ IsReport(u[1]) => Latest(w, Popped(u[1].body), tail)
  BY <1>3, <1>5, <1>6 DEF Latest
<1> QED  BY <1>1, <1>7 DEF w

\* One more message is sent.
LEMMA LatestSent ==
    ASSUME NEW u \in Seq(Reports), NEW m \in Reports, NEW t, NEW tail
    PROVE  /\ ~IsReport(m) /\ Latest(u, t, tail) => Latest(Append(u, m), t, tail)
           /\ IsReport(m) /\ Popped(m.body) = tail => Latest(Append(u, m), t, tail)
<1> DEFINE w == Append(u, m)
           n == Len(u)
<1>1. /\ n \in Nat /\ DOMAIN u = 1..n /\ DOMAIN w = 1..(n + 1) /\ w[n + 1] = m
      /\ \A i \in DOMAIN u : w[i] = u[i]
  OBVIOUS
<1> HIDE DEF w, n
<1>2. \A i \in DOMAIN w : i \in DOMAIN u \/ i = n + 1
  BY <1>1
<1>3. DOMAIN u \subseteq DOMAIN w /\ n + 1 \in DOMAIN w /\ \A i \in DOMAIN u : n + 1 > i
  BY <1>1
<1>4. ASSUME ~IsReport(m), Latest(u, t, tail) PROVE Latest(w, t, tail)
  <2>1. (\A i \in DOMAIN w : ~IsReport(w[i])) => t = tail
    BY <1>1, <1>3, <1>4 DEF Latest
  <2>2. ASSUME NEW i \in DOMAIN w, IsReport(w[i]), \A j \in DOMAIN w : j > i => ~IsReport(w[j])
        PROVE  Popped(w[i].body) = tail
    <3>1. i \in DOMAIN u
      BY <1>1, <1>2, <1>4, <2>2
    <3>2. \A j \in DOMAIN u : j > i => ~IsReport(u[j])
      BY <1>1, <1>3, <2>2
    <3> QED  BY <1>1, <1>4, <2>2, <3>1, <3>2 DEF Latest
  <2> QED  BY <2>1, <2>2 DEF Latest
<1>5. ASSUME IsReport(m), Popped(m.body) = tail PROVE Latest(w, t, tail)
  <2>1. ~(\A i \in DOMAIN w : ~IsReport(w[i]))
    BY <1>1, <1>3, <1>5
  <2>2. ASSUME NEW i \in DOMAIN w, IsReport(w[i]), \A j \in DOMAIN w : j > i => ~IsReport(w[j])
        PROVE  Popped(w[i].body) = tail
    <3>1. i \notin DOMAIN u
      BY <1>1, <1>3, <1>5, <2>2
    <3> QED  BY <1>1, <1>2, <1>5, <3>1
  <2> QED  BY <2>1, <2>2 DEF Latest
<1> QED  BY <1>4, <1>5 DEF w

\* What is known before a handler of the server.
LEMMA Before ==
    ASSUME IInv, Copies, crashed = "no"
    PROVE  /\ Fits(Now, up, killed, deadAtJoin) /\ Unborn(up, killed) /\ Goes(Now) /\ Ledger(Now) /\ Now.ok = TRUE
           /\ Now.tails = tails /\ Now.down = down /\ Now.conns = conns
<1>1. Unborn(up, killed)
  BY DEF Copies, Connected, Unborn
<1>2. Ledger(Now)
  BY NowGoes DEF Goes
<1>3. Now.ok = TRUE
  BY DEF Now
<1> QED  BY <1>1, <1>2, <1>3, NowGoes DEF Copies

\* A message that reports no snake is taken.
LEMMA TakenFits ==
    ASSUME IInv, Copies, NEW c \in Clients, NEW type, Takes(c, type), type # "UpdatePlayer"
    PROVE  Fits(Now, up', killed, deadAtJoin) /\ Unborn(up', killed)
<1>1. crashed = "no" /\ up[c] # <<>> /\ Head(up[c]).type = type /\ up' = [up EXCEPT ![c] = Tail(@)]
  BY DEF Takes
<1>2. Fits(Now, up, killed, deadAtJoin) /\ Unborn(up, killed)
  BY <1>1, Before
<1>3. up \in [Clients -> Seq(Reports)] /\ open \subseteq Clients
  BY DEF IInv, Mailed, TypeOK
<1> DEFINE u == up[c]
<1>4. u \in Seq(Reports) /\ u # <<>> /\ ~IsReport(Head(u))
  BY <1>1, <1>3 DEF IsReport
<1>5. up'[c] = Tail(u) /\ \A d \in Clients : d # c => up'[d] = up[d]
  BY <1>1, <1>3
<1>6. u = up[c]
  OBVIOUS
<1> HIDE DEF u
<1>7. \A i \in DOMAIN Tail(u) : i + 1 \in DOMAIN u /\ Tail(u)[i] = u[i + 1]
  BY <1>4
<1>8. \A d \in Clients : \A i \in DOMAIN up'[d] : Authentic(d, up'[d][i], killed)
  <2>1. \A d \in Clients : \A i \in DOMAIN up[d] : Authentic(d, up[d][i], killed)
    BY <1>2 DEF Fits, Signed
  <2>2. \A i \in DOMAIN Tail(u) : Authentic(c, Tail(u)[i], killed)
    BY <1>6, <1>7, <2>1
  <2> QED  BY <1>5, <2>1, <2>2
<1>9. Signed(Now, up', killed)
  BY <1>2, <1>8 DEF Fits, Signed
<1>10. ASSUME NEW d \in open PROVE Own(d, client[d], up'[d], Now.down[d], Now.tails, killed)
  <2>1. Own(d, client[d], up[d], Now.down[d], Now.tails, killed) /\ d \in Clients
    BY <1>2, <1>3 DEF Fits, Owned
  <2>2. CASE d # c
    BY <1>5, <2>1, <2>2
  <2>3. CASE d = c
    <3>1. Own(c, client[c], u, Now.down[c], Now.tails, killed)
      BY <1>6, <2>1, <2>3
    <3>2. client[c].phase \notin {"waiting", "entering"}
      BY <1>4, <3>1 DEF Own
    <3>3. \A t, tail : Latest(u, t, tail) => Latest(Tail(u), t, tail)
      BY <1>4, LatestTaken
    <3>4. Own(c, client[c], Tail(u), Now.down[c], Now.tails, killed)
      BY <3>1, <3>2, <3>3 DEF Own, Itself
    <3> QED  BY <1>5, <2>3, <3>4
  <2> QED  BY <2>2, <2>3
<1>11. Unborn(up', killed)
  BY <1>1, <1>2, <1>3, <1>5 DEF Unborn
<1> QED  BY <1>2, <1>9, <1>10, <1>11 DEF Fits, Owned

\* GeneratePowerup.
LEMMA GeneratesCopies ==
    ASSUME IInv, Copies, crashed = "no", NEW n, Goes(n), n.ok => Fits(n, up', killed, deadAtJoin),
           Unborn(up', killed), NEW present, GeneratePowerup(n, present)
    PROVE  Copies'
<1> DEFINE free == FreeGrid(n.tails, present)
<1>1. CASE free = {}
  <2>1. ServerCrash("full grid")
    BY <1>1 DEF GeneratePowerup
  <2> QED  BY <2>1, CrashCopies
<1>2. CASE free # {}
  <2>1. PICK q \in Candidates(free) :
          /\ Commit(Broadcast(n, At("NewPowerup", q), Null))
          /\ UNCHANGED <<open, spawnpoints, gameStarted, fill, killed, deadAtJoin, client>>
    BY <1>2 DEF GeneratePowerup
  <2>2. q \in Cells
    BY DEF Candidates, FreeGrid
  <2> DEFINE m == At("NewPowerup", q)
             r == Broadcast(n, m, Null)
  <2>3. m \in Mail /\ m.type = "NewPowerup" /\ \A c \in Clients : c = Null \/ For(c, m)
    BY <2>2, MailMade DEF At, For
  <2>4. Commit(r) /\ r = Broadcast(n, m, Null)
    BY <2>1
  <2> HIDE DEF m, r, free
  <2>5. Goes(r)
    BY ONLY Goes(n), <2>3, <2>4, BroadcastGoes
  <2>6. Reached(n, m, Null, r)
    <3>1. Ledger(n)
      BY DEF Goes
    <3> QED  BY ONLY <2>3, <2>4, <3>1, BroadcastIs
  <2>7. ASSUME r.ok PROVE Fits(r, up', killed, deadAtJoin)
    <3>1. n.ok /\ Ledger(n)
      BY <2>6, <2>7 DEF Reached, Goes
    <3>2. Fits(n, up', killed, deadAtJoin) /\ m.type \in {"NewPowerup", "PowerupEaten", "StartGame"}
      BY <2>3, <3>1
    <3> QED  BY ONLY <2>3, <2>4, <2>7, <3>1, <3>2, FitsOn
  <2>8. r.ok => Fits(r, up', killed', deadAtJoin')
    BY <2>1, <2>7
  <2>9. open' = open /\ client' = client /\ Unborn(up', killed')
    BY <2>1
  <2> QED  BY ONLY IInv, Copies, crashed = "no", <2>4, <2>5, <2>8, <2>9, Committed
<1> QED  BY <1>1, <1>2

\* The loop that fills the grid up with powerups.
LEMMA FillCopies == ASSUME IInv, Copies, Fill PROVE Copies'
<1>1. crashed = "no" /\ GeneratePowerup(Now, powerups) /\ UNCHANGED up
  BY DEF Fill
<1>2. Goes(Now) /\ Fits(Now, up, killed, deadAtJoin) /\ Unborn(up, killed)
  BY <1>1, Before
<1> HIDE DEF Now
<1>3. (Now.ok => Fits(Now, up', killed, deadAtJoin)) /\ Unborn(up', killed)
  BY <1>1, <1>2
<1> QED  BY ONLY IInv, Copies, <1>1, <1>2, <1>3, GeneratesCopies

\* A powerup that a client has eaten.
LEMMA PowerupEatenCopies == ASSUME IInv, Copies, NEW c \in Clients, PowerupEaten(c) PROVE Copies'
<1> DEFINE m == Head(up[c])
           p == m.cell
           e == At("PowerupEaten", p)
           n == Broadcast(Now, e, c)
           present == Deleted(p)
<1>1. Takes(c, "PowerupEaten") /\ GeneratePowerup(n, present)
  BY DEF PowerupEaten
<1>2. m = Head(up[c]) /\ n = Broadcast(Now, e, c)
  OBVIOUS
<1> HIDE DEF m, present
<1>3. crashed = "no" /\ m \in Reports /\ m.type = "PowerupEaten"
  BY ONLY IInv, c \in Clients, <1>1, <1>2, TakesIs
<1>4. p \in Cells
  BY <1>3 DEF Reports
<1>5. /\ e \in Mail /\ e.type = "PowerupEaten" /\ \A d \in Clients : d = c \/ For(d, e)
  BY <1>4, MailMade DEF At, For
<1>6. Goes(Now) /\ Ledger(Now)
  BY <1>3, Before
<1>7. Fits(Now, up', killed, deadAtJoin) /\ Unborn(up', killed)
  <2>1. "PowerupEaten" # "UpdatePlayer"
    OBVIOUS
  <2> QED  BY ONLY IInv, Copies, c \in Clients, <1>1, <2>1, TakenFits
<1> HIDE DEF n, e, p, Now
<1>8. Goes(n)
  BY ONLY <1>2, <1>5, <1>6, BroadcastGoes
<1>9. ASSUME n.ok PROVE Fits(n, up', killed, deadAtJoin)
  <2>1. e.type \in {"NewPowerup", "PowerupEaten", "StartGame"}
    BY <1>5
  <2> QED  BY ONLY <1>2, <1>5, <1>6, <1>7, <1>9, <2>1, FitsOn
<1> QED  BY ONLY IInv, Copies, <1>1, <1>3, <1>7, <1>8, <1>9, GeneratesCopies

\* The start of the game.
LEMMA StartGameCopies == ASSUME IInv, Copies, NEW c \in Clients, StartGame(c) PROVE Copies'
<1> DEFINE m == Head(up[c])
           r == Broadcast(Now, m, Null)
<1>1. /\ Takes(c, "StartGame") /\ Commit(r)
      /\ UNCHANGED <<open, killed, deadAtJoin, client>>
  BY DEF StartGame, NotToldOfStart
<1>2. m = Head(up[c]) /\ r = Broadcast(Now, m, Null)
  OBVIOUS
<1> HIDE DEF m, r
<1>3. crashed = "no" /\ m \in Reports /\ m.type = "StartGame"
  BY ONLY IInv, c \in Clients, <1>1, <1>2, TakesIs
<1>4. m \in Mail /\ \A d \in Clients : d = Null \/ For(d, m)
  BY <1>3, ReportIsMail DEF For
<1>5. Goes(Now) /\ Ledger(Now)
  BY <1>3, Before
<1>6. Fits(Now, up', killed, deadAtJoin) /\ Unborn(up', killed)
  <2>1. "StartGame" # "UpdatePlayer"
    OBVIOUS
  <2> QED  BY ONLY IInv, Copies, c \in Clients, <1>1, <2>1, TakenFits
<1> HIDE DEF Now
<1>7. Goes(r)
  BY ONLY <1>2, <1>4, <1>5, BroadcastGoes
<1>8. ASSUME r.ok PROVE Fits(r, up', killed, deadAtJoin)
  <2>1. m.type \in {"NewPowerup", "PowerupEaten", "StartGame"}
    BY <1>3
  <2> QED  BY ONLY <1>2, <1>4, <1>5, <1>6, <1>8, <2>1, FitsOn
<1>9. /\ r.ok => Fits(r, up', killed', deadAtJoin')
      /\ open' = open /\ client' = client /\ Unborn(up', killed')
  BY <1>1, <1>6, <1>8
<1> QED  BY ONLY IInv, Copies, <1>1, <1>3, <1>7, <1>9, Committed

\* A report of a snake is relayed, and the server's tail of it is new.
LEMMA ReportFits ==
    ASSUME IInv, Copies, NEW c \in Clients, Takes(c, "UpdatePlayer"), NEW m, m = Head(up[c]),
           NEW n, n = Broadcast(Now, m, c), n.ok, c \in DOMAIN n.tails,
           NEW players, players = With(n.tails, c, Popped(m.body)), NEW u, u = [n EXCEPT !.tails = players]
    PROVE  /\ Fits(u, up', killed, deadAtJoin) /\ Goes(u) /\ Unborn(up', killed)
           /\ client[c].phase \notin {"off", "waiting", "entering"}
<1>1. crashed = "no" /\ up[c] # <<>> /\ up' = [up EXCEPT ![c] = Tail(@)]
  BY DEF Takes
<1>2. m \in Reports /\ m.type = "UpdatePlayer"
  BY TakesIs
<1>3. /\ m \in Mail /\ (\A d \in Clients : d = c \/ For(d, m)) /\ ~Welcomes(m)
  BY <1>2, ReportIsMail DEF For, Welcomes
<1>4. /\ Fits(Now, up, killed, deadAtJoin) /\ Unborn(up, killed) /\ Goes(Now) /\ Ledger(Now)
      /\ Now.tails = tails /\ Now.down = down /\ Now.conns = conns
  BY <1>1, Before
<1>5. up \in [Clients -> Seq(Reports)] /\ open \subseteq Clients
  BY DEF IInv, Mailed, TypeOK
<1> DEFINE w == up[c]
           tail == Popped(m.body)
<1>6. w \in Seq(Reports) /\ w # <<>> /\ m = Head(w) /\ w = up[c]
  BY <1>1, <1>5
<1>7. up'[c] = Tail(w) /\ \A d \in Clients : d # c => up'[d] = up[d]
  BY <1>1, <1>5
<1> HIDE DEF w
<1>8. /\ m = w[1] /\ 1 \in DOMAIN w
      /\ \A i \in DOMAIN Tail(w) : i + 1 \in DOMAIN w /\ Tail(w)[i] = w[i + 1]
  BY <1>6
<1>9. Prospects(Now, killed, deadAtJoin) /\ Signed(Now, up, killed) /\ Owned(Now, up, killed)
  BY <1>4 DEF Fits
<1>10. m.who = c /\ (c \in killed \/ tail # <<>>) /\ tail \in Seq(Cells)
  <2>1. Authentic(c, m, killed)
    BY <1>6, <1>8, <1>9 DEF Signed
  <2>2. tail \in Seq(Cells)
    BY <1>2, <1>3, MailFields, BodyPopped
  <2> QED  BY <1>2, <2>1, <2>2 DEF Authentic, IsReport
<1>11. Goes(n)
  BY ONLY <1>3, <1>4, n = Broadcast(Now, m, c), BroadcastGoes
<1>12. /\ n.tails \in Maps(Seq(Cells)) /\ DOMAIN n.tails \subseteq n.conns /\ Ledger(n)
  BY <1>11 DEF Goes, Ledger
<1> HIDE DEF Now, tail
<1>13. /\ players \in Maps(Seq(Cells)) /\ DOMAIN players = DOMAIN n.tails
       /\ players[c] = tail /\ \A p \in DOMAIN n.tails : p # c => players[p] = n.tails[p]
  <2> DEFINE f == n.tails
             S == Seq(Cells)
  <2>1. tail \in S /\ f \in Maps(S) /\ players = With(f, c, tail)
    BY <1>10, <1>12 DEF tail
  <2> HIDE DEF f, S
  <2>2. Widened(S, f, c, tail, With(f, c, tail))
    BY ONLY <2>1, c \in Clients, WithType
  <2> QED  BY <2>1, <2>2 DEF f, S, Widened
<1>14. Goes(u) /\ u.tails = players /\ u.down = n.down
  <2>1. DOMAIN players \subseteq n.conns
    BY <1>12, <1>13
  <2> QED  BY ONLY <1>11, <1>13, <2>1, u = [n EXCEPT !.tails = players], Retailed
<1>15. /\ DOMAIN n.tails = DOMAIN Now.tails \ (Now.conns \ n.conns)
       /\ \A p \in DOMAIN n.tails : n.tails[p] = Now.tails[p]
       /\ \A d \in open : d \notin Now.conns \ n.conns
       /\ c \notin Now.conns \ n.conns
  BY ONLY <1>3, <1>4, n = Broadcast(Now, m, c), n.ok, BroadcastTails
<1>16. Signed(n, up, killed) /\ Owned(n, up, killed)
  <2>1. \A d \in open : d = c \/ Proper(d, m, killed)
    BY <1>2, <1>10 DEF Proper
  <2>2. killed \subseteq killed
        /\ \A d \in open : d \in killed => d \in killed \/ (/\ client[d].phase \notin {"waiting", "entering"}
                                                            /\ d # c /\ Tells(m, "KillPlayer", d))
    OBVIOUS
  <2> QED  BY ONLY <1>3, <1>4, <1>9, <2>1, <2>2, n = Broadcast(Now, m, c), n.ok, OwnedOn
<1>17. client[c].phase \notin {"off", "waiting", "entering"}
  <2>1. client[c].phase # "off"
    BY <1>1, <1>4 DEF Unborn
  <2>2. client[c].phase \in {"waiting", "entering"} => c \in open
    BY <1>1 DEF Copies, Connected
  <2>3. c \in open => client[c].phase \notin {"waiting", "entering"}
    BY <1>1, <1>9 DEF Owned, Own
  <2> QED  BY <2>1, <2>2, <2>3
<1>18. Unborn(up', killed)
  BY <1>4, <1>7, <1>17 DEF Unborn
<1>19. Signed(u, up', killed)
  <2>1. \A d \in Clients : \A i \in DOMAIN up[d] : Authentic(d, up[d][i], killed)
    BY <1>16 DEF Signed
  <2>2. \A i \in DOMAIN Tail(w) : Authentic(c, Tail(w)[i], killed)
    BY <1>6, <1>8, <2>1
  <2>3. \A d \in Clients : \A i \in DOMAIN up'[d] : Authentic(d, up'[d][i], killed)
    BY <1>7, <2>1, <2>2
  <2>4. \A p \in DOMAIN players : p \in killed \/ players[p] # <<>>
    BY <1>10, <1>13, <1>16 DEF Signed
  <2> QED  BY <1>14, <1>16, <2>3, <2>4 DEF Signed
<1>20. ASSUME NEW d \in open PROVE Own(d, client[d], up'[d], u.down[d], u.tails, killed)
  <2>1. Own(d, client[d], up[d], n.down[d], n.tails, killed) /\ d \in Clients
    BY <1>5, <1>16 DEF Owned
  <2>2. CASE d # c
    <3>1. (d \in DOMAIN players <=> d \in DOMAIN n.tails) /\ (d \in DOMAIN n.tails => players[d] = n.tails[d])
      BY <1>13, <2>2
    <3>2. Own(d, client[d], up[d], n.down[d], players, killed)
      BY <2>1, <3>1 DEF Own, Invited, Itself
    <3> QED  BY <1>7, <1>14, <2>1, <2>2, <3>2
  <2>3. CASE d = c
    <3>1. Own(c, client[c], w, n.down[c], n.tails, killed)
      BY <1>6, <2>1, <2>3
    <3>2. \A t, l : Latest(w, t, l) => Latest(Tail(w), tail, l)
      BY <1>2, <1>6, LatestTaken DEF IsReport, tail
    <3>3. Invited(c, client[c], n.down[c], players)
      BY <1>17, <3>1 DEF Own, Invited
    <3>4. Itself(c, client[c], Tail(w), n.down[c], players, killed)
      BY <1>13, <1>17, <3>1, <3>2 DEF Own, Itself
    <3>5. Own(c, client[c], Tail(w), n.down[c], players, killed)
      BY <1>17, <3>3, <3>4 DEF Own
    <3> QED  BY <1>7, <1>14, <2>3, <3>5
  <2> QED  BY <2>2, <2>3
<1>21. ASSUME NEW d \in open, NEW p \in Clients \ {d}
       PROVE  Prospect(client[d], u.down[d], p, u.tails, d \in DOMAIN u.tails, killed, deadAtJoin[d])
  <2> DEFINE v == View(client[d], p)
             known == d \in DOMAIN Now.tails
             there == p \in DOMAIN Now.tails
             len == TailLen(Now.tails, p)
             dead == p \in killed
             before == p \in deadAtJoin[d]
             len2 == IF p = c THEN Len(tail) ELSE len
             known3 == d \in DOMAIN u.tails
             there3 == p \in DOMAIN u.tails
             len3 == TailLen(u.tails, p)
  <2>1. Leads(v, Now.down[d], p, known, there, len, dead, before)
    <3>1. Prospect(client[d], Now.down[d], p, Now.tails, d \in DOMAIN Now.tails, killed, deadAtJoin[d])
      BY <1>9 DEF Prospects
    <3> QED  BY <3>1 DEF Prospect
  <2>2. known3 = known
    BY <1>13, <1>14, <1>15
  <2>3. p \in Now.conns \ n.conns => there3 = FALSE /\ len3 = 0
    BY <1>13, <1>14, <1>15 DEF TailLen
  <2>4. p \notin Now.conns \ n.conns => there3 = there /\ len3 = len2
    <3>1. CASE p = c
      BY <1>13, <1>14, <1>15, <3>1 DEF TailLen
    <3>2. CASE p # c
      BY <1>13, <1>14, <1>15, <3>2 DEF TailLen
    <3> QED  BY <3>1, <3>2
  <2>5. Leads(v, u.down[d], p, known3, there3, len3, dead, before) =>
          Prospect(client[d], u.down[d], p, u.tails, d \in DOMAIN u.tails, killed, deadAtJoin[d])
    BY DEF Prospect
  <2>6. p = c => there = TRUE
    BY <1>15
  <2>7. dead = FALSE /\ p = c => tail # <<>>
    BY <1>10
  <2>8. p = c => len2 = Len(tail)
    OBVIOUS
  <2>9. p # c => len2 = len
    OBVIOUS
  <2> HIDE DEF v, known, there, len, dead, before, len2, known3, there3, len3
  <2>10. d # c => Turns(m, p, known, there, len, dead, before, known, there, len2, dead, before)
    <3>1. CASE p = c
      <4>1. Tells(m, "UpdatePlayer", p) /\ len2 = Len(Popped(m.body))
        BY <1>2, <1>10, <2>8, <3>1 DEF Tells, tail
      <4>2. ~dead => len2 # 0
        BY <1>10, <2>7, <2>8, <3>1 DEF dead
      <4>3. Turns(m, p, known, TRUE, len, dead, before, known, TRUE, len2, dead, before)
        BY <4>1, <4>2, TurnsUpdate
      <4> QED  BY <2>6, <3>1, <4>3
    <3>2. CASE p # c
      <4>1. Neutral(m, p)
        BY <1>2, <1>10, <3>2 DEF Neutral
      <4>2. Turns(m, p, known, there, len, dead, before, known, there, len, dead, before)
        BY <4>1, TurnsNeutral
      <4> QED  BY <2>9, <3>2, <4>2
    <3> QED  BY <3>1, <3>2
  <2>11. d # c /\ p # c => Turns(m, p, known, FALSE, 0, dead, before, known, FALSE, 0, dead, before)
    <3>1. p # c => Neutral(m, p)
      BY <1>2, <1>10 DEF Neutral
    <3> QED  BY <3>1, TurnsNeutral
  <2>12. d = c => there = there /\ len2 = len /\ dead = dead
    BY <2>9
  <2>13. Turnable(m, d, p, c, known, there, len, dead, before, there, len2, dead)
    BY <2>10, <2>11, <2>12 DEF Turnable
  <2>14. Sends(Now, m, c, n)
    BY <1>3, <1>4 DEF Sends
  <2>15. Spread(Now, n, d, p, v, known, there, len2, dead, before)
    BY ONLY <2>1, <2>13, <2>14, d \in open, Spreads
  <2> QED  BY <1>14, <2>2, <2>3, <2>4, <2>5, <2>15 DEF Spread
<1> QED  BY <1>14, <1>17, <1>18, <1>19, <1>20, <1>21 DEF Fits, Prospects, Owned

\* A client's new tail, which others see, and which may end its player.
LEMMA UpdatePlayerCopies == ASSUME IInv, Copies, NEW c \in Clients, UpdatePlayer(c) PROVE Copies'
<1> DEFINE m == Head(up[c])
           n == Broadcast(Now, m, c)
           players == With(n.tails, c, Popped(m.body))
           u == [n EXCEPT !.tails = players]
           k == About("KillPlayer", c)
           v == Broadcast(u, k, Null)
<1>1. Takes(c, "UpdatePlayer") /\ crashed = "no"
  BY DEF UpdatePlayer, Takes
<1>2. \/ ServerCrash("recursion") \/ ServerCrash("at") \/ ServerCrash("empty tail")
      \/ /\ n.ok /\ c \in DOMAIN n.tails
         /\ \/ Commit(v) /\ killed' = killed \cup {c}
            \/ Commit(u) /\ UNCHANGED killed
         /\ UNCHANGED <<open, deadAtJoin, client>>
  BY DEF UpdatePlayer
<1>3. /\ m = Head(up[c]) /\ n = Broadcast(Now, m, c) /\ u = [n EXCEPT !.tails = players]
      /\ v = Broadcast(u, k, Null) /\ players = With(n.tails, c, Popped(m.body)) /\ k = About("KillPlayer", c)
  OBVIOUS
<1> HIDE DEF m, n, u, v, players, k
<1>4. CASE ServerCrash("recursion") \/ ServerCrash("at") \/ ServerCrash("empty tail")
  BY <1>4, CrashCopies
<1>5. ASSUME n.ok, c \in DOMAIN n.tails,
             \/ Commit(v) /\ killed' = killed \cup {c}
             \/ Commit(u) /\ UNCHANGED killed,
             UNCHANGED <<open, deadAtJoin, client>>
      PROVE  Copies'
  <2>1. /\ Fits(u, up', killed, deadAtJoin) /\ Goes(u) /\ Unborn(up', killed)
        /\ client[c].phase \notin {"off", "waiting", "entering"}
    BY ONLY IInv, Copies, c \in Clients, <1>1, <1>3, <1>5, ReportFits
  <2>2. open' = open /\ client' = client /\ deadAtJoin' = deadAtJoin
    BY <1>5
  <2>3. CASE Commit(u) /\ UNCHANGED killed
    <3>1. (u.ok => Fits(u, up', killed', deadAtJoin')) /\ Unborn(up', killed')
      BY <2>1, <2>2, <2>3
    <3> QED  BY ONLY IInv, Copies, <1>1, <2>1, <2>2, <2>3, <3>1, Committed
  <2>4. CASE Commit(v) /\ killed' = killed \cup {c}
    <3>1. k \in Mail /\ \A d \in Clients : d = Null \/ For(d, k)
      BY <1>3, MailMade DEF About, For
    <3>2. Goes(v)
      BY ONLY <1>3, <2>1, <3>1, BroadcastGoes
    <3>3. ASSUME v.ok PROVE Fits(v, up', killed \cup {c}, deadAtJoin)
      <4>1. Ledger(u) /\ client[c].phase \notin {"waiting", "entering"}
        BY <2>1 DEF Goes
      <4> QED  BY ONLY c \in Clients, <1>3, <2>1, <3>3, <4>1, FitsKill
    <3>4. (v.ok => Fits(v, up', killed', deadAtJoin')) /\ Unborn(up', killed')
      BY <2>1, <2>2, <2>4, <3>3 DEF Unborn
    <3> QED  BY ONLY IInv, Copies, <1>1, <2>2, <2>4, <3>2, <3>4, Committed
  <2> QED  BY <1>5, <2>3, <2>4
<1> QED  BY <1>2, <1>4, <1>5

\* The tails a client is welcomed with.
LEMMA WelcomeTails ==
    ASSUME NEW c, NEW players \in Maps(Seq(Cells)), NEW w, w = Welcome(c, players)
    PROVE  w.type = "ServerValidation" /\ DOMAIN w.bodies = DOMAIN players
           /\ \A p \in DOMAIN players : Popped(w.bodies[p]) = players[p]
<1> DEFINE bodies == [p \in DOMAIN players |-> Pushed(players[p])]
<1>1. w = [type |-> "ServerValidation", who |-> c, powerups |-> powerups, bodies |-> bodies]
  BY DEF Welcome
<1>2. \A p \in DOMAIN players : Popped(bodies[p]) = players[p]
  BY MapType, BodyPushed
<1>3. DOMAIN bodies = DOMAIN players
  OBVIOUS
<1> HIDE DEF bodies
<1>4. w.type = "ServerValidation" /\ w.bodies = bodies
  BY <1>1
<1> QED  BY <1>2, <1>3, <1>4

\* u is the ledger with c welcomed by w as one of the players
Greets(c, players, w, u) ==
    /\ players \in Maps(Seq(Cells)) /\ DOMAIN players = DOMAIN tails \cup {c}
    /\ \A p \in DOMAIN tails : players[p] = tails[p]
    /\ w \in Mail /\ w.type = "ServerValidation" /\ DOMAIN w.bodies = DOMAIN players
    /\ \A p \in DOMAIN players : Popped(w.bodies[p]) = players[p]
    /\ Goes(u) /\ u.tails = players
    /\ u.down[c] = Append(down[c], w) /\ \A d \in Clients : d # c => u.down[d] = down[d]

\* A client that is validated waits for it, and does not play yet.
LEMMA Newcomer ==
    ASSUME IInv, Copies, crashed = "no", NEW c \in open \ DOMAIN tails
    PROVE  /\ client[c].phase = "waiting" /\ up[c] = <<>> /\ c \notin killed
           /\ \A i \in DOMAIN down[c] : ~Welcomes(down[c][i])
<1>1. Own(c, client[c], up[c], down[c], tails, killed)
  BY Before DEF Fits, Owned
<1>2. client[c].phase = "waiting"
  BY <1>1 DEF Own, Itself
<1> QED  BY <1>1, <1>2 DEF Own, Invited

\* The newcomer has its welcome under way.
LEMMA GreetsOwned ==
    ASSUME IInv, Copies, crashed = "no", NEW c \in open \ DOMAIN tails, NEW players, NEW w, NEW u,
           Greets(c, players, w, u), players[c] # <<>>
    PROVE  Signed(u, up, killed) /\ Owned(u, up, killed)
<1>1. Signed(Now, up, killed) /\ Owned(Now, up, killed) /\ Now.tails = tails /\ Now.down = down
  BY Before DEF Fits
<1>2. down \in [Clients -> Seq(Mail)] /\ open \subseteq Clients
  BY DEF IInv, Mailed, TypeOK
<1> DEFINE d0 == down[c]
           e == Append(d0, w)
<1>3. d0 \in Seq(Mail) /\ w \in Mail /\ u.down[c] = e /\ d0 = down[c]
  BY <1>2 DEF Greets
<1> HIDE DEF d0
<1>4. /\ DOMAIN e = 1..(Len(d0) + 1) /\ Len(d0) \in Nat /\ e[Len(d0) + 1] = w
      /\ DOMAIN d0 = 1..Len(d0) /\ \A i \in DOMAIN d0 : e[i] = d0[i]
  BY <1>3
<1> HIDE DEF e
<1>5. \A i \in DOMAIN e : i \in DOMAIN d0 \/ (i = Len(d0) + 1 /\ e[i] = w)
  BY <1>4
<1>6. /\ client[c].phase = "waiting" /\ up[c] = <<>> /\ c \notin killed
      /\ \A i \in DOMAIN d0 : ~Welcomes(d0[i])
  BY <1>3, Newcomer
<1>7. Proper(c, w, killed)
  BY DEF Greets, Proper
<1>8. \A d \in Clients : \A i \in DOMAIN u.down[d] : Proper(d, u.down[d][i], killed)
  <2>1. \A d \in Clients : \A i \in DOMAIN down[d] : Proper(d, down[d][i], killed)
    BY <1>1 DEF Signed
  <2>2. \A i \in DOMAIN e : Proper(c, e[i], killed)
    BY <1>2, <1>3, <1>4, <1>5, <1>7, <2>1
  <2> QED  BY <1>3, <2>1, <2>2 DEF Greets
<1>9. Signed(u, up, killed)
  BY <1>1, <1>8 DEF Signed, Greets
<1>10. ASSUME NEW d \in open PROVE Own(d, client[d], up[d], u.down[d], u.tails, killed)
  <2>1. CASE d # c
    <3>1. Own(d, client[d], up[d], down[d], tails, killed)
      BY <1>1 DEF Owned
    <3>2. u.down[d] = down[d] /\ (d \in DOMAIN u.tails <=> d \in DOMAIN tails) /\ (d \in DOMAIN tails => u.tails[d] = tails[d])
      BY <1>2, <2>1 DEF Greets
    <3> QED  BY <3>1, <3>2 DEF Own, Invited, Itself
  <2>2. CASE d = c
    <3>1. \A i \in DOMAIN e : Welcomes(e[i]) => i = Len(d0) + 1 /\ e[i] = w
      BY <1>4, <1>5, <1>6
    <3>2. c \in DOMAIN u.tails /\ Popped(w.bodies[c]) = u.tails[c]
      BY DEF Greets
    <3>3. Invited(c, client[c], e, u.tails)
      BY <1>6, <3>1, <3>2 DEF Invited
    <3> QED  BY <1>3, <1>6, <2>2, <3>3 DEF Own
  <2> QED  BY <2>1, <2>2
<1> QED  BY <1>9, <1>10 DEF Owned

\* A client is welcomed, and the others are told.
LEMMA WelcomeFits ==
    ASSUME IInv, Copies, crashed = "no", NEW c \in open \ DOMAIN tails, NEW players, NEW w, NEW u,
           Greets(c, players, w, u), players[c] # <<>>,
           NEW m \in Mail, m.type = "NewPlayer", m.who = c, Popped(m.body) = players[c],
           NEW r, r = Broadcast(u, m, c), r.ok,
           NEW late, late[c] = killed, \A d \in open : d # c => late[d] = deadAtJoin[d]
    PROVE  Fits(r, up, killed, late)
<1>1. /\ Prospects(Now, killed, deadAtJoin) /\ Signed(Now, up, killed)
      /\ Now.tails = tails /\ Now.down = down /\ Now.conns = conns
  BY Before DEF Fits
<1>2. down \in [Clients -> Seq(Mail)] /\ open \subseteq Clients
  BY DEF IInv, Mailed, TypeOK
<1>3. Goes(u) /\ Ledger(u) /\ players \in Maps(Seq(Cells)) /\ u.tails = players
  BY DEF Greets, Goes
<1>4. Signed(u, up, killed) /\ Owned(u, up, killed)
  BY GreetsOwned
<1>5. /\ (\A d \in Clients : d = c \/ For(d, m)) /\ ~Welcomes(m)
      /\ \A d \in open : d = c \/ Proper(d, m, killed)
  BY DEF For, Welcomes, Proper
<1>6. Signed(r, up, killed) /\ Owned(r, up, killed)
  <2>1. killed \subseteq killed
        /\ \A d \in open : d \in killed => d \in killed \/ (/\ client[d].phase \notin {"waiting", "entering"}
                                                            /\ d # c /\ Tells(m, "KillPlayer", d))
    OBVIOUS
  <2> QED  BY ONLY <1>3, <1>4, <1>5, <2>1, m \in Mail, r = Broadcast(u, m, c), r.ok, OwnedOn
<1>7. c \notin killed
  BY Newcomer
<1>8. /\ DOMAIN r.tails = DOMAIN u.tails \ (u.conns \ r.conns)
      /\ \A p \in DOMAIN r.tails : r.tails[p] = u.tails[p]
      /\ \A d \in open : d \notin u.conns \ r.conns
      /\ c \notin u.conns \ r.conns
  BY ONLY <1>3, m \in Mail, r = Broadcast(u, m, c), r.ok, BroadcastTails
<1>9. Sends(u, m, c, r)
  BY <1>3 DEF Sends
<1>10. Len(players[c]) \in Nat /\ Len(players[c]) # 0
  <2>1. c \in DOMAIN players
    BY DEF Greets
  <2>2. players[c] \in Seq(Cells)
    BY <1>3, <2>1, MapType
  <2> QED  BY <2>2
<1>11. \A p \in DOMAIN tails : p \notin killed => tails[p] # <<>> /\ tails[p] \in Seq(Cells)
  <2>1. \A p \in DOMAIN tails : tails[p] \in Seq(Cells)
    BY DEF IInv, TypeOK
  <2> QED  BY <1>1, <2>1 DEF Signed
<1>12. ASSUME NEW d \in open, NEW p \in Clients \ {d}
       PROVE  Prospect(client[d], r.down[d], p, r.tails, d \in DOMAIN r.tails, killed, late[d])
  <2> DEFINE v == View(client[d], p)
             known0 == d \in DOMAIN tails
             there0 == p \in DOMAIN tails
             len0 == TailLen(tails, p)
             dead == p \in killed
             before0 == p \in deadAtJoin[d]
             known == d \in DOMAIN u.tails
             there == p \in DOMAIN u.tails
             len == TailLen(u.tails, p)
             before == p \in late[d]
             known3 == d \in DOMAIN r.tails
             there3 == p \in DOMAIN r.tails
             len3 == TailLen(r.tails, p)
  <2>1. Leads(v, down[d], p, known0, there0, len0, dead, before0)
    <3>1. Prospect(client[d], down[d], p, tails, d \in DOMAIN tails, killed, deadAtJoin[d])
      BY <1>1 DEF Prospects
    <3> QED  BY <3>1 DEF Prospect
  <2>2. known3 = known
    BY <1>8
  <2>3. p \in u.conns \ r.conns => there3 = FALSE /\ len3 = 0
    BY <1>8 DEF TailLen
  <2>4. p \notin u.conns \ r.conns => there3 = there /\ len3 = len
    BY <1>8 DEF TailLen
  <2>5. Leads(v, r.down[d], p, known3, there3, len3, dead, before) =>
          Prospect(client[d], r.down[d], p, r.tails, d \in DOMAIN r.tails, killed, late[d])
    BY DEF Prospect
  <2>6. p # c => there = there0 /\ len = len0
    BY DEF Greets, TailLen
  <2>7. p = c => there0 = FALSE /\ there = TRUE /\ len = Len(players[c]) /\ dead = FALSE
    BY <1>7 DEF Greets, TailLen
  <2>8. d # c => known = known0 /\ before = before0 /\ u.down[d] = down[d]
    BY <1>2 DEF Greets
  <2>9. d = c => known0 = FALSE /\ known = TRUE /\ before = dead /\ u.down[d] = Append(down[d], w) /\ p # c
    BY DEF Greets
  <2>10. /\ d = c => (there0 <=> p \in DOMAIN w.bodies)
         /\ d = c /\ there0 => len0 = Len(Popped(w.bodies[p]))
         /\ there0 /\ ~dead => len0 # 0
    <3>1. /\ d = c => (there0 <=> p \in DOMAIN w.bodies)
          /\ d = c /\ there0 => len0 = Len(Popped(w.bodies[p]))
      BY DEF Greets, TailLen
    <3>2. there0 /\ ~dead => len0 # 0
      <4>1. there0 /\ ~dead => tails[p] # <<>> /\ tails[p] \in Seq(Cells) /\ len0 = Len(tails[p])
        BY <1>11 DEF TailLen
      <4> HIDE DEF len0, there0, dead
      <4> QED  BY <4>1
    <3> QED  BY <3>1, <3>2
  <2>11. w \in Mail /\ w.type = "ServerValidation" /\ down[d] \in Seq(Mail)
    BY <1>2 DEF Greets
  <2> HIDE DEF v, known0, there0, len0, dead, before0, known, there, len, before, known3, there3, len3
  <2>12. CASE d = c
    <3>1. Turns(w, p, FALSE, there0, len0, dead, before0, TRUE, there0, len0, dead, dead)
      BY ONLY <2>10, <2>11, <2>12, TurnsWelcome
    <3>2. Leads(v, Append(down[d], w), p, TRUE, there0, len0, dead, dead)
      <4>1. Leads(v, down[d], p, FALSE, there0, len0, dead, before0)
        BY <2>1, <2>9, <2>12
      <4> QED  BY ONLY <2>11, <3>1, <4>1, LeadsOn
    <3>3. Leads(v, u.down[d], p, known, there, len, dead, before)
      BY <2>6, <2>9, <2>12, <3>2
    <3>4. Turnable(m, d, p, c, known, there, len, dead, before, there, len, dead)
      BY <2>12 DEF Turnable
    <3>5. Spread(u, r, d, p, v, known, there, len, dead, before)
      BY ONLY <1>9, <3>3, <3>4, d \in open, Spreads
    <3> QED  BY <2>2, <2>3, <2>4, <2>5, <3>5 DEF Spread
  <2>13. CASE d # c
    <3>1. Leads(v, u.down[d], p, known, there0, len0, dead, before)
      BY <2>1, <2>8, <2>13
    <3>2. Turns(m, p, known, there0, len0, dead, before, known, there, len, dead, before)
      <4>1. CASE p = c
        <5>1. Tells(m, "NewPlayer", p) /\ len = Len(Popped(m.body)) /\ len # 0
          BY <1>10, <2>7, <4>1 DEF Tells
        <5>2. Turns(m, p, known, there0, len0, FALSE, before, known, TRUE, len, FALSE, before)
          BY ONLY <5>1, TurnsNew
        <5> QED  BY <2>7, <4>1, <5>2
      <4>2. CASE p # c
        <5>1. Neutral(m, p)
          BY <4>2 DEF Neutral
        <5>2. Turns(m, p, known, there0, len0, dead, before, known, there0, len0, dead, before)
          BY <5>1, TurnsNeutral
        <5> QED  BY <2>6, <4>2, <5>2
      <4> QED  BY <4>1, <4>2
    <3>3. p # c => Turns(m, p, known, FALSE, 0, dead, before, known, FALSE, 0, dead, before)
      <4>1. p # c => Neutral(m, p)
        BY DEF Neutral
      <4> QED  BY <4>1, TurnsNeutral
    <3>4. Turnable(m, d, p, c, known, there0, len0, dead, before, there, len, dead)
      BY <2>13, <3>2, <3>3 DEF Turnable
    <3>5. Spread(u, r, d, p, v, known, there, len, dead, before)
      BY ONLY <1>9, <3>1, <3>4, d \in open, Spreads
    <3> QED  BY <2>2, <2>3, <2>4, <2>5, <3>5 DEF Spread
  <2> QED  BY <2>12, <2>13
<1> QED  BY <1>6, <1>12 DEF Fits, Prospects

\* A client is validated.
LEMMA OnClientValidatedCopies == ASSUME IInv, Copies, NEW c \in Clients, OnClientValidated(c) PROVE Copies'
<1>1. crashed = "no" /\ c \in open \ DOMAIN tails /\ UNCHANGED up
  BY DEF OnClientValidated
<1>2. Typed
  BY TypeIs DEF IInv
<1>3. CASE spawnpoints = <<>>
  <2>1. ServerCrash("no spawnpoint")
    BY <1>3 DEF OnClientValidated
  <2> QED  BY <2>1, CrashCopies
<1>4. CASE spawnpoints # <<>>
  <2> DEFINE spot == spawnpoints[Len(spawnpoints)]
             tail == <<spot>>
             players == With(tails, c, tail)
             t == [Now EXCEPT !.tails = players]
             w == Welcome(c, players)
             u == [Now EXCEPT !.tails = players, !.down[c] = Append(@, w)]
             m == [type |-> "NewPlayer", who |-> c, body |-> Pushed(tail)]
             r == Broadcast(u, m, c)
  <2>1. /\ Commit(r) /\ deadAtJoin' = [deadAtJoin EXCEPT ![c] = killed]
        /\ UNCHANGED <<open, client, killed>>
    BY <1>4 DEF OnClientValidated
  <2>2. u = Post(t, c, w)
    BY DEF Now, Post
  <2>3. /\ t = [Now EXCEPT !.tails = players] /\ r = Broadcast(u, m, c) /\ w = Welcome(c, players)
    OBVIOUS
  <2>4. tail \in Seq(Cells) /\ tail # <<>>
    <3>1. spawnpoints \in Seq(Cells)
      BY <1>2 DEF Typed
    <3>2. spot \in Cells
      BY <1>4, <3>1
    <3> HIDE DEF spot
    <3> QED  BY <3>2
  <2>5. /\ players \in Maps(Seq(Cells)) /\ DOMAIN players = DOMAIN tails \cup {c}
        /\ players[c] = tail /\ \A p \in DOMAIN tails : p # c => players[p] = tails[p]
    <3> DEFINE S == Seq(Cells)
    <3>1. tail \in S /\ tails \in Maps(S) /\ players = With(tails, c, tail)
      BY <1>2, <2>4 DEF Typed
    <3> HIDE DEF tail, players, S
    <3>2. Widened(S, tails, c, tail, With(tails, c, tail))
      BY ONLY <3>1, c \in Clients, WithType
    <3> QED  BY <3>1, <3>2 DEF S, Widened
  <2>6. /\ m \in Mail /\ m.type = "NewPlayer" /\ m.who = c /\ Popped(m.body) = tail /\ (\A d : For(d, m))
    <3> DEFINE b == Pushed(tail)
    <3>1. b \in Bodies /\ Popped(b) = tail
      BY <2>4, BodyPushed
    <3> HIDE DEF b, tail
    <3> QED  BY <2>4, <3>1, MailMade DEF For, b
  <2> HIDE DEF tail
  <2>7. u.down = [down EXCEPT ![c] = Append(@, w)]
    <3> HIDE DEF w, players
    <3> QED  BY DEF Now
  <2> HIDE DEF r, u, w, t, players, m
  <2>8. Goes(Now) /\ Now.tails = tails /\ Now.conns = conns /\ Unborn(up, killed)
    BY <1>1, Before
  <2>9. /\ c \in open /\ open \subseteq conns /\ open \subseteq Clients /\ powerups \subseteq Cells
        /\ DOMAIN tails \subseteq conns /\ down \in [Clients -> Seq(Mail)] /\ deadAtJoin \in [Clients -> SUBSET Clients]
    BY <1>1, <1>2 DEF Typed, IInv, Mailed
  <2> HIDE DEF Now
  <2>10. DOMAIN players \subseteq Now.conns
    BY <2>5, <2>8, <2>9
  <2>11. Goes(t) /\ t.tails = players
    BY ONLY <2>3, <2>5, <2>8, <2>10, Retailed
  <2>12. w \in Mail /\ For(c, w) /\ w.type = "ServerValidation" /\ c \in DOMAIN players
    <3>1. c \in DOMAIN players
      BY <2>5
    <3>2. w \in Mail /\ For(c, w) /\ w.type = "ServerValidation"
      BY ONLY <2>3, <2>5, <2>9, <3>1, c \in Clients, WelcomeIs
    <3> QED  BY <3>1, <3>2
  <2>13. DOMAIN w.bodies = DOMAIN players /\ \A p \in DOMAIN players : Popped(w.bodies[p]) = players[p]
    BY ONLY <2>3, <2>5, WelcomeTails
  <2>14. Goes(u) /\ u.tails = players
    <3>1. w.type # "StartGame"
      BY <2>12
    <3>2. Goes(u) /\ u.tails = t.tails
      BY ONLY <2>2, <2>9, <2>11, <2>12, <3>1, Posted
    <3> QED  BY <2>11, <3>2
  <2>15. Greets(c, players, w, u)
    <3>1. u.down[c] = Append(down[c], w) /\ \A d \in Clients : d # c => u.down[d] = down[d]
      BY <2>7, <2>9
    <3>2. \A p \in DOMAIN tails : players[p] = tails[p]
      BY <1>1, <2>5
    <3> QED  BY <2>5, <2>12, <2>13, <2>14, <3>1, <3>2 DEF Greets
  <2>16. Goes(r)
    <3>1. \A d \in Clients : d = c \/ For(d, m)
      BY <2>6
    <3>2. m \in Mail
      BY <2>6
    <3> QED  BY ONLY <2>3, <2>14, <3>1, <3>2, BroadcastGoes
  <2>17. ASSUME r.ok PROVE Fits(r, up, killed, deadAtJoin')
    <3> DEFINE late == deadAtJoin'
    <3>1. late[c] = killed /\ \A d \in open : d # c => late[d] = deadAtJoin[d]
      BY <2>1, <2>9
    <3>2. players[c] # <<>> /\ Popped(m.body) = players[c]
      BY <2>4, <2>5, <2>6
    <3>3. m \in Mail /\ m.type = "NewPlayer" /\ m.who = c
      BY <2>6
    <3> HIDE DEF late
    <3>4. Fits(r, up, killed, late)
      BY ONLY IInv, Copies, <1>1, <2>3, <2>15, <2>17, <3>1, <3>2, <3>3, WelcomeFits
    <3> QED  BY <3>4 DEF late
  <2>18. /\ r.ok => Fits(r, up', killed', deadAtJoin')
         /\ open' = open /\ client' = client /\ Unborn(up', killed')
    BY <1>1, <2>1, <2>8, <2>17
  <2> QED  BY ONLY IInv, Copies, <1>1, <2>1, <2>16, <2>18, Committed
<1> QED  BY <1>3, <1>4

----------------------------------------------------------------------------
(* Steps of a client *)

\* c in r, with u still to be heard and d still to be handled, keeps to what it reports
Sound(c, r, u, d) ==
    /\ \A i \in DOMAIN u : Authentic(c, u[i], killed)
    /\ \A i \in DOMAIN d : Proper(c, d[i], killed)
    /\ \A p \in Clients \ {c} : PlayerOf(r.players, p).food = 0

\* c in r comes to what the server has of the others and of itself
Kept(c, r, u, d) ==
    /\ \A p \in Clients \ {c} : Prospect(r, d, p, tails, c \in DOMAIN tails, killed, deadAtJoin[c])
    /\ Own(c, r, u, d, tails, killed)

\* A step of c, which may connect it or end it.
LEMMA ClientCopies ==
    ASSUME IInv, Copies, crashed = "no", NEW c \in Clients, NEW r, NEW u, NEW d,
           client' = [client EXCEPT ![c] = r], up' = [up EXCEPT ![c] = u], down' = [down EXCEPT ![c] = d],
           UNCHANGED <<crashed, tails, killed, deadAtJoin>>,
           \A x : x # c => (x \in open' <=> x \in open),
           Sound(c, r, u, d), c \in open' => Kept(c, r, u, d),
           r.phase # "off", r.phase # "gone" => c \in open'
    PROVE  Copies'
<1>1. /\ Prospects(Now, killed, deadAtJoin) /\ Signed(Now, up, killed) /\ Owned(Now, up, killed)
      /\ Now.tails = tails /\ Now.down = down
  BY Before DEF Fits
<1>2. Unfed /\ Connected
  BY DEF Copies
<1>3. /\ client \in [Clients -> States] /\ up \in [Clients -> Seq(Reports)] /\ down \in [Clients -> Seq(Mail)]
      /\ open \subseteq Clients
  BY TypeIs DEF IInv, Typed, Mailed
<1>4. /\ client'[c] = r /\ up'[c] = u /\ down'[c] = d
      /\ \A x \in Clients : x # c => client'[x] = client[x] /\ up'[x] = up[x] /\ down'[x] = down[x]
  BY <1>3
<1>5. Now'.tails = tails /\ Now'.down = down' /\ killed' = killed /\ deadAtJoin' = deadAtJoin
  BY DEF Now
<1>6. \A x \in open' : x = c \/ (x # c /\ x \in open /\ x \in Clients)
  BY <1>3
<1>7. Prospects(Now, killed, deadAtJoin)'
  <2>1. ASSUME NEW x \in open', NEW p \in Clients \ {x}
        PROVE  Prospect(client'[x], down'[x], p, tails, x \in DOMAIN tails, killed, deadAtJoin[x])
    <3>1. CASE x = c
      BY <1>4, <2>1, <3>1 DEF Kept
    <3>2. CASE x # c
      <4>1. x \in open /\ x \in Clients
        BY <1>6, <3>2
      <4>2. Prospect(client[x], down[x], p, tails, x \in DOMAIN tails, killed, deadAtJoin[x])
        BY <1>1, <4>1 DEF Prospects
      <4> QED  BY <1>4, <3>2, <4>1, <4>2
    <3> QED  BY <3>1, <3>2
  <2> QED  BY <1>5, <2>1 DEF Prospects
<1>8. Signed(Now, up, killed)'
  <2>1. \A x \in Clients : \A i \in DOMAIN up'[x] : Authentic(x, up'[x][i], killed)
    BY <1>1, <1>4 DEF Signed, Sound
  <2>2. \A x \in Clients : \A i \in DOMAIN down'[x] : Proper(x, down'[x][i], killed)
    BY <1>1, <1>4 DEF Signed, Sound
  <2> QED  BY <1>1, <1>5, <2>1, <2>2 DEF Signed
<1>9. Owned(Now, up, killed)'
  <2>1. ASSUME NEW x \in open' PROVE Own(x, client'[x], up'[x], down'[x], tails, killed)
    <3>1. CASE x = c
      BY <1>4, <3>1 DEF Kept
    <3>2. CASE x # c
      <4>1. x \in open /\ x \in Clients
        BY <1>6, <3>2
      <4>2. Own(x, client[x], up[x], down[x], tails, killed)
        BY <1>1, <4>1 DEF Owned
      <4> QED  BY <1>4, <3>2, <4>1, <4>2
    <3> QED  BY <3>1, <3>2
  <2> QED  BY <1>5, <2>1 DEF Owned
<1>10. Unfed'
  BY <1>2, <1>4 DEF Unfed, Sound
<1>11. Connected'
  <2>1. ASSUME NEW x \in Clients
        PROVE  /\ client'[x].phase = "off" => up'[x] = <<>> /\ DOMAIN client'[x].players = {} /\ x \notin killed
               /\ client'[x].phase \notin {"off", "gone"} => x \in open'
    <3>1. CASE x = c
      BY <1>4, <3>1
    <3>2. CASE x # c
      BY <1>2, <1>4, <3>2 DEF Connected
    <3> QED  BY <3>1, <3>2
  <2> QED  BY <2>1 DEF Connected
<1> QED  BY <1>7, <1>8, <1>9, <1>10, <1>11 DEF Copies, Fits

\* What is known of a client that runs.
LEMMA Running ==
    ASSUME IInv, Copies, crashed = "no", NEW c \in Clients, client[c].phase \notin {"off", "gone"}
    PROVE  /\ c \in open /\ Sound(c, client[c], up[c], down[c]) /\ Kept(c, client[c], up[c], down[c])
           /\ client[c] \in States /\ up[c] \in Seq(Reports) /\ down[c] \in Seq(Mail)
           /\ client \in [Clients -> States]
           /\ up = [up EXCEPT ![c] = up[c]] /\ down = [down EXCEPT ![c] = down[c]]
<1>1. /\ Prospects(Now, killed, deadAtJoin) /\ Signed(Now, up, killed) /\ Owned(Now, up, killed)
      /\ Now.tails = tails /\ Now.down = down
  BY Before DEF Fits
<1>2. Unfed /\ Connected
  BY DEF Copies
<1>3. /\ client \in [Clients -> States] /\ up \in [Clients -> Seq(Reports)] /\ down \in [Clients -> Seq(Mail)]
  BY TypeIs DEF IInv, Typed, Mailed
<1>4. c \in open
  BY <1>2 DEF Connected
<1>5. Sound(c, client[c], up[c], down[c])
  BY <1>1, <1>2 DEF Signed, Unfed, Sound
<1>6. Kept(c, client[c], up[c], down[c])
  BY <1>1, <1>4 DEF Prospects, Owned, Kept
<1> QED  BY <1>3, <1>4, <1>5, <1>6

\* A client is accepted, before the game starts.
LEMMA AcceptCopies == ASSUME IInv, Copies, NEW c \in Clients, Accept(c) PROVE Copies'
<1> DEFINE s == client[c]
           r == [s EXCEPT !.phase = "waiting"]
           u == up[c]
           d == down[c]
<1>1. /\ crashed = "no" /\ s.phase = "off" /\ open' = open \cup {c}
      /\ client' = [client EXCEPT ![c].phase = "waiting"]
      /\ UNCHANGED <<crashed, tails, killed, deadAtJoin>> /\ UNCHANGED <<up, down>>
  BY DEF Accept
<1>2. /\ client \in [Clients -> States] /\ up \in [Clients -> Seq(Reports)] /\ down \in [Clients -> Seq(Mail)]
      /\ DOMAIN tails \subseteq conns
  BY TypeIs DEF IInv, Typed, Mailed
<1>3. s \in States /\ c \notin conns /\ d = <<>>
  BY <1>1, <1>2 DEF IInv, Roster
<1>4. u = <<>> /\ DOMAIN s.players = {} /\ c \notin killed
  BY <1>1 DEF Copies, Connected
<1>5. r.phase = "waiting" /\ r.players = s.players
  BY <1>3 DEF States
<1>6. client' = [client EXCEPT ![c] = r] /\ up' = [up EXCEPT ![c] = u] /\ down' = [down EXCEPT ![c] = d]
  BY <1>1, <1>2
<1>7. c \notin DOMAIN tails
  BY <1>2, <1>3
<1> HIDE DEF s, r, u, d
<1>8. \A p : PlayerOf(r.players, p) = DefaultPlayer
  BY <1>4, <1>5 DEF PlayerOf
<1>9. Sound(c, r, u, d)
  BY <1>3, <1>4, <1>8 DEF Sound, DefaultPlayer, NewPlayer
<1>10. Own(c, r, u, d, tails, killed)
  BY <1>3, <1>4, <1>5 DEF Own, Invited
<1>11. ASSUME NEW p \in Clients \ {c}
       PROVE  Prospect(r, d, p, tails, c \in DOMAIN tails, killed, deadAtJoin[c])
  <2> DEFINE v == View(r, p)
             known == c \in DOMAIN tails
             there == p \in DOMAIN tails
             len == TailLen(tails, p)
             dead == p \in killed
             late == p \in deadAtJoin[c]
             h == [i \in 0..0 |-> v]
  <2>1. v = [in |-> FALSE, has |-> FALSE, alive |-> TRUE, grid |-> FALSE, len |-> 0]
    <3>1. (r.phase # "waiting") = FALSE /\ (p \in DOMAIN r.players) = FALSE
      BY <1>4, <1>5
    <3>2. /\ PlayerOf(r.players, p).alive = TRUE /\ PlayerOf(r.players, p).grid = FALSE
          /\ Len(PlayerOf(r.players, p).tail) = 0
      BY <1>8 DEF DefaultPlayer, NewPlayer
    <3> QED  BY <3>1, <3>2 DEF View
  <2>2. known = FALSE
    BY <1>7
  <2> HIDE DEF v, known, there, len, dead, late
  <2>3. v \in Views /\ v.in = FALSE /\ v.has = FALSE
    BY <2>1 DEF Views
  <2>4. Len(d) = 0
    BY <1>3
  <2>5. Course(v, d, p, h)
    <3>1. h \in [0..0 -> Views] /\ h[0] = v
      BY <2>3
    <3> HIDE DEF h
    <3> QED  BY <2>4, <3>1 DEF Course
  <2>6. Drawable(v, known, late) /\ Agrees(v, known, there, len, dead, late)
    BY <2>2, <2>3 DEF Drawable, Agrees
  <2>7. h[0] = v /\ \A i \in 0..0 : h[i] = v
    OBVIOUS
  <2> HIDE DEF h
  <2>8. Leads(v, d, p, known, there, len, dead, late)
    BY <2>4, <2>5, <2>6, <2>7 DEF Leads
  <2> QED  BY <2>8 DEF Prospect, v, known, there, len, dead, late
<1>12. Kept(c, r, u, d)
  BY <1>10, <1>11 DEF Kept
<1>13. /\ \A x : x # c => (x \in open' <=> x \in open)
       /\ c \in open' /\ r.phase # "off"
  BY <1>1, <1>5
<1> QED  BY ONLY IInv, Copies, c \in Clients, <1>1, <1>6, <1>9, <1>12, <1>13, ClientCopies

\* The end of a client, whatever it had sent.
LEMMA GoneCopies == ASSUME IInv, Copies, crashed = "no", NEW c \in Clients, Gone(c) PROVE Copies'
<1> DEFINE r == [phase |-> "gone", players |-> NoFunction, powerups |-> NoPowerups, started |-> FALSE]
           d == <<>>
<1>1. /\ open' = open \ {c} /\ client' = [client EXCEPT ![c] = r] /\ down' = [down EXCEPT ![c] = d]
      /\ \E k \in 0..Len(up[c]) : up' = [up EXCEPT ![c] = SubSeq(up[c], 1, k)]
      /\ UNCHANGED <<crashed, tails, killed, deadAtJoin>>
  BY DEF Gone
<1>2. r.phase = "gone" /\ r.players = NoFunction
  OBVIOUS
<1> HIDE DEF r
<1>3. PICK k \in 0..Len(up[c]) : up' = [up EXCEPT ![c] = SubSeq(up[c], 1, k)]
  BY <1>1
<1> DEFINE w == up[c]
           u == SubSeq(w, 1, k)
<1>4. w \in Seq(Reports) /\ k \in 0..Len(w) /\ up' = [up EXCEPT ![c] = u]
  BY <1>3 DEF IInv, Mailed
<1>5. \A i \in DOMAIN w : Authentic(c, w[i], killed)
  BY Before DEF Fits, Signed
<1> HIDE DEF w
<1>6. \A i \in DOMAIN u : i \in DOMAIN w /\ u[i] = w[i]
  BY <1>4
<1> HIDE DEF u
<1>7. \A p : PlayerOf(r.players, p) = DefaultPlayer
  BY <1>2 DEF PlayerOf, NoFunction
<1>8. Sound(c, r, u, d)
  <2>1. \A i \in DOMAIN u : Authentic(c, u[i], killed)
    BY <1>5, <1>6
  <2> QED  BY <1>7, <2>1 DEF Sound, DefaultPlayer, NewPlayer
<1>9. /\ \A x : x # c => (x \in open' <=> x \in open)
      /\ c \notin open' /\ r.phase # "off" /\ r.phase = "gone"
  BY <1>1, <1>2
<1> HIDE DEF d
<1> QED  BY ONLY IInv, Copies, crashed = "no", c \in Clients, <1>1, <1>4, <1>8, <1>9, ClientCopies

\* the own snake y is x, further on or in another direction
Lives(x, y) == y.grid = x.grid /\ y.alive = x.alive /\ (y.tail = <<>> <=> x.tail = <<>>)

\* c's own snake, in its next phase.
LEMMA OwnNext ==
    ASSUME NEW c, NEW s, NEW w, NEW d, NEW t, NEW k, Own(c, s, w, d, t, k), s.phase # "waiting",
           NEW r, r.phase \in {"idle", "handling"}, Lives(s.players[c], r.players[c]),
           NEW u, r.phase = "idle" => Latest(u, t[c], r.players[c].tail)
    PROVE  Own(c, r, u, d, t, k)
<1>1. Invited(c, r, d, t)
  BY DEF Own, Invited
<1>2. Itself(c, s, w, d, t, k)
  BY DEF Own
<1>3. Itself(c, r, u, d, t, k)
  BY <1>2 DEF Itself, Lives
<1> QED  BY <1>1, <1>3 DEF Own

\* What is seen of a player stays the same.
LEMMA SameView ==
    ASSUME NEW s, NEW r, NEW p, NEW q, NEW z, s.phase # "waiting", r.phase # "waiting",
           p \in DOMAIN r.players <=> p \in DOMAIN s.players,
           q = PlayerOf(s.players, p), z = PlayerOf(r.players, p),
           z.alive = q.alive, z.grid = q.grid, Len(z.tail) = Len(q.tail)
    PROVE  View(r, p) = View(s, p)
<1> DEFINE in0 == s.phase # "waiting"
           has0 == p \in DOMAIN s.players
           in1 == r.phase # "waiting"
           has1 == p \in DOMAIN r.players
<1>1. in1 = in0 /\ has1 = has0
  OBVIOUS
<1>2. /\ View(s, p) = [in |-> in0, has |-> has0, alive |-> q.alive, grid |-> q.grid, len |-> Len(q.tail)]
      /\ View(r, p) = [in |-> in1, has |-> has1, alive |-> z.alive, grid |-> z.grid, len |-> Len(z.tail)]
  BY DEF View
<1> HIDE DEF in0, has0, in1, has1
<1> QED  BY <1>1, <1>2

\* r sees of the others what s does, and feeds none of them
SeesAll(c, s, r) ==
    \A p \in Clients \ {c} : View(r, p) = View(s, p) /\ PlayerOf(r.players, p).food = 0

\* c may come to be in r by itself, with u still to be heard
Carries(c, r, u) ==
    /\ client[c].phase \in {"entering", "idle", "handling"} /\ r.phase \in {"idle", "handling"}
    /\ SeesAll(c, client[c], r) /\ (\A i \in DOMAIN u : Authentic(c, u[i], killed))
    /\ Lives(client[c].players[c], r.players[c])
    /\ r.phase = "idle" => Latest(u, tails[c], r.players[c].tail)

\* A step of c in which it handles no message.
LEMMA OwnStepCopies ==
    ASSUME IInv, Copies, crashed = "no", NEW c \in Clients, NEW r, NEW u, Carries(c, r, u),
           UNCHANGED <<server, down>>, client' = [client EXCEPT ![c] = r], up' = [up EXCEPT ![c] = u]
    PROVE  Copies'
<1>0. /\ client[c].phase \in {"entering", "idle", "handling"} /\ r.phase \in {"idle", "handling"}
      /\ SeesAll(c, client[c], r) /\ (\A i \in DOMAIN u : Authentic(c, u[i], killed))
      /\ Lives(client[c].players[c], r.players[c])
      /\ r.phase = "idle" => Latest(u, tails[c], r.players[c].tail)
  BY DEF Carries
<1> DEFINE s == client[c]
           d == down[c]
           w == up[c]
<1>1. client[c].phase \notin {"off", "gone"}
  BY <1>0
<1>2. /\ c \in open /\ Sound(c, s, w, d) /\ Kept(c, s, w, d) /\ down = [down EXCEPT ![c] = d]
  BY <1>1, Running
<1>3. down' = [down EXCEPT ![c] = d] /\ UNCHANGED <<crashed, tails, killed, deadAtJoin>> /\ open' = open
  BY <1>2 DEF server
<1>4. /\ s.phase # "waiting" /\ SeesAll(c, s, r) /\ Lives(s.players[c], r.players[c])
  BY <1>0
<1> HIDE DEF s, d, w
<1>5. Sound(c, r, u, d)
  BY <1>0, <1>2, <1>4 DEF Sound, SeesAll
<1>6. Own(c, r, u, d, tails, killed)
  <2>1. Own(c, s, w, d, tails, killed)
    BY <1>2 DEF Kept
  <2>2. r.phase \in {"idle", "handling"} /\ (r.phase = "idle" => Latest(u, tails[c], r.players[c].tail))
    BY <1>0
  <2> QED  BY ONLY <1>4, <2>1, <2>2, OwnNext
<1>7. ASSUME NEW p \in Clients \ {c}
      PROVE  Prospect(r, d, p, tails, c \in DOMAIN tails, killed, deadAtJoin[c])
  <2>1. View(r, p) = View(s, p)
    BY <1>4 DEF SeesAll
  <2>2. Prospect(s, d, p, tails, c \in DOMAIN tails, killed, deadAtJoin[c])
    BY <1>2 DEF Kept
  <2> QED  BY <2>1, <2>2 DEF Prospect
<1>8. Kept(c, r, u, d)
  BY <1>6, <1>7 DEF Kept
<1>9. /\ \A x : x # c => (x \in open' <=> x \in open)
      /\ c \in open' /\ r.phase # "off"
  BY <1>0, <1>2, <1>3
<1> QED  BY ONLY IInv, Copies, crashed = "no", c \in Clients, client' = [client EXCEPT ![c] = r],
                 up' = [up EXCEPT ![c] = u], <1>3, <1>5, <1>8, <1>9, ClientCopies

\* One more message to the server.
LEMMA OneMore ==
    ASSUME NEW u \in Seq(Reports), NEW m \in Reports, NEW c,
           \A i \in DOMAIN u : Authentic(c, u[i], killed), Authentic(c, m, killed)
    PROVE  \A i \in DOMAIN Append(u, m) : Authentic(c, Append(u, m)[i], killed)
<1> DEFINE w == Append(u, m)
<1>1. /\ DOMAIN w = 1..(Len(u) + 1) /\ Len(u) \in Nat /\ w[Len(u) + 1] = m /\ DOMAIN u = 1..Len(u)
      /\ \A i \in DOMAIN u : w[i] = u[i]
  OBVIOUS
<1> HIDE DEF w
<1>2. \A i \in DOMAIN w : i \in DOMAIN u \/ i = Len(u) + 1
  BY <1>1
<1>3. \A i \in DOMAIN w : Authentic(c, w[i], killed)
  BY <1>1, <1>2
<1> QED  BY <1>3 DEF w

\* r is s in the next phase, with v for the own snake
LEMMA RetouchSees ==
    ASSUME NEW s \in States, NEW c \in Clients, c \in DOMAIN s.players, s.phase # "waiting", NEW v, NEW r,
           r = Retouch(s, c, v), \A p \in Clients \ {c} : PlayerOf(s.players, p).food = 0
    PROVE  SeesAll(c, s, r) /\ r.phase = "idle" /\ r.players[c] = v
<1>1. r.phase = "idle" /\ r.players = With(s.players, c, v)
  BY DEF Retouch, States
<1>2. /\ DOMAIN r.players = DOMAIN s.players \cup {c} /\ r.players[c] = v
      /\ \A p \in DOMAIN s.players : p # c => r.players[p] = s.players[p]
  BY <1>1 DEF With
<1>3. ASSUME NEW p \in Clients \ {c} PROVE View(r, p) = View(s, p) /\ PlayerOf(r.players, p).food = 0
  <2>1. (p \in DOMAIN r.players <=> p \in DOMAIN s.players) /\ PlayerOf(r.players, p) = PlayerOf(s.players, p)
    BY <1>2 DEF PlayerOf
  <2> DEFINE q == PlayerOf(s.players, p)
             z == PlayerOf(r.players, p)
  <2>2. q = PlayerOf(s.players, p) /\ z = PlayerOf(r.players, p) /\ z = q /\ r.phase # "waiting" /\ q.food = 0
    BY <1>1, <2>1
  <2> HIDE DEF q, z
  <2>3. View(r, p) = View(s, p)
    <3>1. z.alive = q.alive /\ z.grid = q.grid /\ Len(z.tail) = Len(q.tail)
      BY <2>2
    <3> QED  BY ONLY s.phase # "waiting", <2>1, <2>2, <3>1, SameView
  <2> QED  BY <2>2, <2>3
<1> QED  BY <1>1, <1>2, <1>3 DEF SeesAll

\* A key of movement.
LEMMA TurnCopies == ASSUME IInv, Copies, NEW c \in Clients, NEW d \in Direction, Turn(c, d) PROVE Copies'
<1> DEFINE s == client[c]
           o == PlayerOf(s.players, c)
           v == SetDirection(o, d)
           r == Retouch(s, c, v)
           u == up[c]
<1>1. /\ crashed = "no" /\ s.phase \in {"entering", "idle"}
      /\ client' = [client EXCEPT ![c].phase = "idle", ![c].players = With(@, c, v)]
      /\ UNCHANGED <<server, down>> /\ UNCHANGED up
  BY DEF Turn, Polling
<1>2. client[c].phase \in {"entering", "idle", "handling"} /\ client[c].phase \notin {"off", "gone"}
  BY <1>1
<1>3. /\ s \in States /\ s.players \in Maps(Snakes) /\ c \in DOMAIN s.players
      /\ client \in [Clients -> States] /\ up = [up EXCEPT ![c] = u]
  BY <1>2, ClientIs
<1>4. Sound(c, s, u, down[c]) /\ Kept(c, s, u, down[c])
  BY <1>1, <1>2, Running
<1>5. client' = [client EXCEPT ![c] = r] /\ up' = [up EXCEPT ![c] = u]
  BY <1>1, <1>3 DEF Retouch
<1>6. o \in Snakes /\ o = s.players[c]
  BY <1>3, PlayerOfType DEF PlayerOf
<1>7. s = client[c] /\ r = Retouch(s, c, v) /\ s.phase # "waiting" /\ s.phase # "handling"
  BY <1>1
<1>8. v.grid = o.grid /\ v.alive = o.alive /\ v.tail = o.tail
  <2> HIDE DEF o
  <2> QED  BY <1>6 DEF SetDirection, Snakes
<1> HIDE DEF s, o, v, r, u
<1>9. SeesAll(c, s, r) /\ r.phase = "idle" /\ r.players[c] = v
  <2>1. \A p \in Clients \ {c} : PlayerOf(s.players, p).food = 0
    BY <1>4 DEF Sound
  <2> QED  BY ONLY c \in Clients, <1>3, <1>7, <2>1, RetouchSees
<1>10. Lives(client[c].players[c], r.players[c])
  BY <1>6, <1>7, <1>8, <1>9 DEF Lives
<1>11. Latest(u, tails[c], r.players[c].tail)
  <2>1. Latest(u, tails[c], s.players[c].tail)
    BY <1>4, <1>7 DEF Kept, Own, Itself
  <2> QED  BY <1>6, <1>8, <1>9, <2>1
<1>12. /\ r.phase \in {"idle", "handling"} /\ SeesAll(c, client[c], r)
       /\ \A i \in DOMAIN u : Authentic(c, u[i], killed)
  BY <1>4, <1>7, <1>9 DEF Sound
<1>13. Carries(c, r, u)
  BY <1>2, <1>10, <1>11, <1>12 DEF Carries
<1> QED  BY ONLY IInv, Copies, c \in Clients, <1>1, <1>5, <1>13, OwnStepCopies

\* The end of a frame.
LEMMA UpdateServerCopies == ASSUME IInv, Copies, NEW c \in Clients, UpdateServer(c) PROVE Copies'
<1> DEFINE s == client[c]
           v == PlayerOf(s.players, c)
           r == Retouch(s, c, v)
           m == [type |-> "UpdatePlayer", who |-> c, direction |-> v.direction, body |-> Pushed(v.tail)]
           w == up[c]
           u == Append(w, m)
<1>1. /\ crashed = "no" /\ s.phase = "handling"
      /\ client' = [client EXCEPT ![c].phase = "idle", ![c].players = With(@, c, v)]
      /\ up' = [up EXCEPT ![c] = u] /\ UNCHANGED <<server, down>>
  BY DEF UpdateServer
<1>2. client[c].phase \in {"entering", "idle", "handling"} /\ client[c].phase \notin {"off", "gone"}
  BY <1>1
<1>3. /\ s \in States /\ s.players \in Maps(Snakes) /\ c \in DOMAIN s.players
      /\ client \in [Clients -> States] /\ w \in Seq(Reports)
  BY <1>2, ClientIs
<1>4. Sound(c, s, w, down[c]) /\ Kept(c, s, w, down[c])
  BY <1>1, <1>2, Running
<1>5. client' = [client EXCEPT ![c] = r]
  BY <1>1, <1>3 DEF Retouch
<1>6. v \in Snakes /\ v = s.players[c]
  BY <1>3, PlayerOfType DEF PlayerOf
<1>7. s = client[c] /\ r = Retouch(s, c, v) /\ s.phase # "waiting" /\ u = Append(w, m)
  BY <1>1
<1> HIDE DEF s, v, r, w
<1>8. m \in Reports /\ m.type = "UpdatePlayer" /\ m.who = c /\ Popped(m.body) = v.tail
  <2> DEFINE t == v.tail
             b == Pushed(t)
             d == v.direction
  <2>1. t \in Seq(Cells) /\ d \in Direction
    BY <1>6 DEF Snakes
  <2> HIDE DEF t, d
  <2>2. b \in Bodies /\ Popped(b) = t
    BY <2>1, BodyPushed
  <2>3. m = [type |-> "UpdatePlayer", who |-> c, direction |-> d, body |-> b]
    BY DEF t, d
  <2> HIDE DEF b, m
  <2>4. m \in Reports /\ m.type = "UpdatePlayer" /\ m.who = c /\ m.body = b
    BY <2>1, <2>2, <2>3, MailMade
  <2> QED  BY <2>2, <2>4 DEF t
<1> HIDE DEF m, u
<1>9. SeesAll(c, s, r) /\ r.phase = "idle" /\ r.players[c] = v
  <2>1. \A p \in Clients \ {c} : PlayerOf(s.players, p).food = 0
    BY <1>4 DEF Sound
  <2> QED  BY ONLY c \in Clients, <1>3, <1>7, <2>1, RetouchSees
<1>10. Lives(client[c].players[c], r.players[c])
  BY <1>6, <1>7, <1>9 DEF Lives
<1>11. Latest(u, tails[c], r.players[c].tail)
  <2>1. IsReport(m)
    BY <1>8 DEF IsReport
  <2>2. Latest(Append(w, m), tails[c], v.tail)
    BY <1>3, <1>8, <2>1, LatestSent
  <2> QED  BY <1>7, <1>9, <2>2
<1>12. \A i \in DOMAIN u : Authentic(c, u[i], killed)
  <2>1. c \notin killed => v.tail # <<>>
    BY <1>4, <1>6, <1>7 DEF Kept, Own, Itself
  <2>2. Authentic(c, m, killed)
    BY <1>8, <2>1 DEF Authentic
  <2>3. \A i \in DOMAIN w : Authentic(c, w[i], killed)
    BY <1>4 DEF Sound
  <2> QED  BY <1>3, <1>7, <1>8, <2>2, <2>3, OneMore
<1>13. r.phase \in {"idle", "handling"} /\ SeesAll(c, client[c], r)
  BY <1>7, <1>9
<1>14. Carries(c, r, u)
  BY <1>2, <1>10, <1>11, <1>12, <1>13 DEF Carries
<1> QED  BY ONLY IInv, Copies, c \in Clients, <1>1, <1>5, <1>14, OwnStepCopies

\* The key P.
LEMMA AttemptGameStartCopies == ASSUME IInv, Copies, NEW c \in Clients, AttemptGameStart(c) PROVE Copies'
<1> DEFINE s == client[c]
           r == [s EXCEPT !.phase = "idle"]
           m == [type |-> "StartGame"]
           w == up[c]
           u == Append(w, m)
<1>1. /\ crashed = "no" /\ s.phase \in {"entering", "idle"}
      /\ client' = [client EXCEPT ![c].phase = "idle"]
      /\ up' = [up EXCEPT ![c] = u] /\ UNCHANGED <<server, down>>
  BY DEF AttemptGameStart, Polling
<1>2. client[c].phase \in {"entering", "idle", "handling"} /\ client[c].phase \notin {"off", "gone"}
  BY <1>1
<1>3. /\ s \in States /\ c \in DOMAIN s.players
      /\ client \in [Clients -> States] /\ w \in Seq(Reports)
  BY <1>2, ClientIs
<1>4. Sound(c, s, w, down[c]) /\ Kept(c, s, w, down[c])
  BY <1>1, <1>2, Running
<1>5. client' = [client EXCEPT ![c] = r]
  BY <1>1, <1>3
<1>6. r.phase = "idle" /\ r.players = s.players
  BY <1>3 DEF States
<1>7. s = client[c] /\ s.phase # "waiting" /\ s.phase # "handling" /\ u = Append(w, m)
  BY <1>1
<1>8. m \in Reports /\ m.type = "StartGame"
  BY MailMade
<1> HIDE DEF s, r, w, m, u
<1>9. SeesAll(c, client[c], r)
  <2>1. \A p \in Clients \ {c} : PlayerOf(s.players, p).food = 0
    BY <1>4 DEF Sound
  <2>2. ASSUME NEW p PROVE View(r, p) = View(s, p)
    <3>1. r.phase # "waiting"
      BY <1>6
    <3> QED  BY <1>6, <1>7, <3>1, SameView
  <2> QED  BY <1>6, <1>7, <2>1, <2>2 DEF SeesAll
<1>10. Lives(client[c].players[c], r.players[c])
  BY <1>6, <1>7 DEF Lives
<1>11. Latest(u, tails[c], r.players[c].tail)
  <2>1. ~IsReport(m)
    BY <1>8 DEF IsReport
  <2>2. Latest(w, tails[c], s.players[c].tail)
    BY <1>4, <1>7 DEF Kept, Own, Itself
  <2>3. Latest(Append(w, m), tails[c], s.players[c].tail)
    BY <1>3, <1>8, <2>1, <2>2, LatestSent
  <2> QED  BY <1>6, <1>7, <2>3
<1>12. \A i \in DOMAIN u : Authentic(c, u[i], killed)
  <2>1. Authentic(c, m, killed)
    BY <1>8 DEF Authentic, IsReport
  <2>2. \A i \in DOMAIN w : Authentic(c, w[i], killed)
    BY <1>4 DEF Sound
  <2> QED  BY <1>3, <1>7, <1>8, <2>1, <2>2, OneMore
<1>13. r.phase \in {"idle", "handling"}
  BY <1>6
<1>14. Carries(c, r, u)
  BY <1>2, <1>9, <1>10, <1>11, <1>12, <1>13 DEF Carries
<1> QED  BY ONLY IInv, Copies, c \in Clients, <1>1, <1>5, <1>14, OwnStepCopies

\* What a move keeps of a snake.
LEMMA Moved ==
    ASSUME NEW q \in Snakes
    PROVE  /\ Move(q) \in Snakes /\ Lives(q, Move(q))
           /\ q.food = 0 => Move(q).food = 0 /\ Len(Move(q).tail) = Len(q.tail)
<1> DEFINE z == Move(q)
<1>1. z \in Snakes
  BY SnakeTypes
<1>2. CASE ~(q.alive /\ q.tail # <<>>)
  BY <1>1, <1>2 DEF Move, Lives
<1>3. CASE q.alive /\ q.tail # <<>>
  <2>1. z = Advanced(q) /\ z.tail # <<>>
    BY <1>3, AdvancedType DEF Move
  <2> DEFINE front == Ahead(Head(q.tail), q.direction)
             longer == <<front>> \o q.tail
             shorter == SubSeq(longer, 1, Len(q.tail))
  <2>2. q.tail \in Seq(Cells) /\ q.direction \in Direction /\ q.food \in Nat
    BY DEF Snakes
  <2>3. front \in Cells
    BY <1>3, <2>2, AheadOnGrid
  <2> HIDE DEF front
  <2>4. longer \in Seq(Cells) /\ Len(longer) = Len(q.tail) + 1
    BY <2>2, <2>3
  <2> HIDE DEF longer
  <2>5. Len(shorter) = Len(q.tail)
    BY <2>2, <2>4
  <2> HIDE DEF shorter
  <2>6. Advanced(q) = IF q.food > 0 THEN [q EXCEPT !.food = @ - 1, !.tail = longer]
                      ELSE [q EXCEPT !.tail = shorter]
    BY DEF Advanced, longer, front, shorter
  <2>7. z = [q EXCEPT !.food = @ - 1, !.tail = longer] \/ z = [q EXCEPT !.tail = shorter]
    BY <2>1, <2>6
  <2>8. z.grid = q.grid /\ z.alive = q.alive
    BY <2>7 DEF Snakes
  <2>9. q.food = 0 => z = [q EXCEPT !.tail = shorter]
    BY <2>1, <2>6
  <2>10. q.food = 0 => z.food = 0 /\ Len(z.tail) = Len(q.tail)
    BY <2>5, <2>9 DEF Snakes
  <2> QED  BY <1>1, <1>3, <2>1, <2>8, <2>10 DEF Lives
<1> QED  BY <1>2, <1>3

\* A frame moves every snake, and changes nothing of what is seen of the others.
LEMMA MovedSees ==
    ASSUME NEW s \in States, NEW c \in Clients, c \in DOMAIN s.players, s.phase # "waiting",
           NEW r, r = [s EXCEPT !.players = MoveAll(@), !.phase = "handling"],
           \A p \in Clients \ {c} : PlayerOf(s.players, p).food = 0
    PROVE  /\ SeesAll(c, s, r) /\ r \in States /\ r.phase = "handling" /\ c \in DOMAIN r.players
           /\ r.players[c] \in Snakes /\ Lives(s.players[c], r.players[c])
<1> DEFINE f == s.players
           g == MoveAll(f)
<1>1. f \in Maps(Snakes)
  BY DEF States
<1>2. r = [s EXCEPT !.players = g, !.phase = "handling"]
  OBVIOUS
<1> HIDE DEF f
<1>3. g \in Maps(Snakes) /\ DOMAIN g = DOMAIN f
  BY <1>1, MoveAllType
<1>4. \A p \in DOMAIN f : g[p] = Move(f[p]) /\ f[p] \in Snakes
  BY <1>1, MapType DEF MoveAll
<1> HIDE DEF g
<1>5. r \in States /\ r.phase = "handling" /\ r.players = g /\ s.players = f
  BY <1>2, <1>3 DEF States, f
<1>6. c \in DOMAIN f /\ g[c] \in Snakes /\ Lives(f[c], g[c])
  BY <1>4, <1>5, Moved
<1>7. ASSUME NEW p \in Clients \ {c} PROVE View(r, p) = View(s, p) /\ PlayerOf(r.players, p).food = 0
  <2> DEFINE q == PlayerOf(f, p)
             z == PlayerOf(g, p)
  <2>1. q \in Snakes /\ q.food = 0
    BY <1>1, <1>5, PlayerOfType
  <2>2. z = q \/ z = Move(q)
    BY <1>3, <1>4 DEF PlayerOf
  <2>3. q = PlayerOf(s.players, p) /\ z = PlayerOf(r.players, p)
    BY <1>5
  <2> HIDE DEF q, z
  <2>4. z.alive = q.alive /\ z.grid = q.grid /\ Len(z.tail) = Len(q.tail) /\ z.food = 0
    BY <2>1, <2>2, Moved DEF Lives
  <2>5. r.phase # "waiting" /\ (p \in DOMAIN r.players <=> p \in DOMAIN s.players)
    BY <1>3, <1>5
  <2>6. View(r, p) = View(s, p)
    BY ONLY s.phase # "waiting", <2>3, <2>4, <2>5, SameView
  <2> QED  BY <2>3, <2>4, <2>6
<1> QED  BY <1>3, <1>5, <1>6, <1>7 DEF SeesAll

\* A frame: the snakes move, and the own one may eat.
LEMMA FrameCopies == ASSUME IInv, Copies, NEW c \in Clients, Frame(c) PROVE Copies'
<1> DEFINE o == client[c]
           s == [o EXCEPT !.players = MoveAll(@), !.phase = "handling"]
           v == PlayerOf(s.players, c)
           w == up[c]
<1>1. /\ crashed = "no" /\ o.phase \in {"entering", "idle"} /\ UNCHANGED <<server, down>>
      /\ \E p \in GetHead(v.tail) :
           IF p \in Present(s.powerups)
             THEN /\ client' = [client EXCEPT ![c] = Eaten(s, c, p)]
                  /\ up' = [up EXCEPT ![c] = Append(w, At("PowerupEaten", p))]
             ELSE client' = [client EXCEPT ![c] = s] /\ UNCHANGED up
  BY DEF Frame, Polling
<1>2. client[c].phase \in {"entering", "idle", "handling"} /\ client[c].phase \notin {"off", "gone"}
  BY <1>1
<1>3. /\ o \in States /\ c \in DOMAIN o.players /\ w \in Seq(Reports) /\ up = [up EXCEPT ![c] = w]
  BY <1>2, ClientIs
<1>4. Sound(c, o, w, down[c])
  BY <1>1, <1>2, Running
<1>5. o = client[c] /\ o.phase # "waiting" /\ s = [o EXCEPT !.players = MoveAll(@), !.phase = "handling"]
  BY <1>1
<1>6. v = PlayerOf(s.players, c)
  OBVIOUS
<1> HIDE DEF o, s, v, w
<1>7. /\ SeesAll(c, o, s) /\ s \in States /\ s.phase = "handling" /\ c \in DOMAIN s.players
      /\ s.players[c] \in Snakes /\ Lives(o.players[c], s.players[c])
  <2>1. \A p \in Clients \ {c} : PlayerOf(o.players, p).food = 0
    BY <1>4 DEF Sound
  <2> QED  BY ONLY c \in Clients, <1>3, <1>5, <2>1, MovedSees
<1>8. \A i \in DOMAIN w : Authentic(c, w[i], killed)
  BY <1>4 DEF Sound
<1>9. PICK p \in GetHead(v.tail) :
        IF p \in Present(s.powerups)
          THEN /\ client' = [client EXCEPT ![c] = Eaten(s, c, p)]
               /\ up' = [up EXCEPT ![c] = Append(w, At("PowerupEaten", p))]
          ELSE client' = [client EXCEPT ![c] = s] /\ UNCHANGED up
  BY <1>1
<1>10. CASE p \notin Present(s.powerups)
  <2>1. client' = [client EXCEPT ![c] = s] /\ up' = [up EXCEPT ![c] = w]
    BY <1>3, <1>9, <1>10
  <2>2. Carries(c, s, w)
    BY <1>2, <1>5, <1>7, <1>8 DEF Carries
  <2> QED  BY ONLY IInv, Copies, c \in Clients, <1>1, <2>1, <2>2, OwnStepCopies
<1>11. CASE p \in Present(s.powerups)
  <2> DEFINE m == At("PowerupEaten", p)
             u == Append(w, m)
             x == AddLength(v, 1)
             r == Eaten(s, c, p)
  <2>1. p \in Cells
    BY <1>11 DEF Present
  <2>2. m \in Reports /\ m.type = "PowerupEaten"
    BY <2>1, MailMade DEF At
  <2>3. client' = [client EXCEPT ![c] = r] /\ up' = [up EXCEPT ![c] = u]
    BY <1>9, <1>11
  <2>4. r = [s EXCEPT !.players = With(@, c, x), !.powerups = Erased(@, p)]
    BY <1>6 DEF Eaten
  <2>5. v = s.players[c]
    BY <1>6, <1>7 DEF PlayerOf
  <2>6. x.grid = v.grid /\ x.alive = v.alive /\ x.tail = v.tail
    BY <1>7, <2>5 DEF AddLength, Snakes
  <2> HIDE DEF m, x, r
  <2>7. r.phase = "handling" /\ r.players = With(s.players, c, x)
    BY <1>7, <2>4 DEF States
  <2>8. /\ DOMAIN r.players = DOMAIN s.players /\ r.players[c] = x
        /\ \A q \in DOMAIN s.players : q # c => r.players[q] = s.players[q]
    BY <1>7, <2>7 DEF With
  <2>9. SeesAll(c, client[c], r)
    <3>1. ASSUME NEW q \in Clients \ {c} PROVE View(r, q) = View(s, q) /\ PlayerOf(r.players, q).food = 0
      <4>1. (q \in DOMAIN r.players <=> q \in DOMAIN s.players) /\ PlayerOf(r.players, q) = PlayerOf(s.players, q)
        BY <2>8 DEF PlayerOf
      <4>2. r.phase # "waiting" /\ s.phase # "waiting"
        BY <1>7, <2>7
      <4>3. View(r, q) = View(s, q)
        BY <4>1, <4>2, SameView
      <4> QED  BY <1>7, <4>1, <4>3 DEF SeesAll
    <3> QED  BY <1>5, <1>7, <3>1 DEF SeesAll
  <2>10. Lives(client[c].players[c], r.players[c])
    BY <1>5, <1>7, <2>5, <2>6, <2>8 DEF Lives
  <2>11. \A i \in DOMAIN u : Authentic(c, u[i], killed)
    <3>1. Authentic(c, m, killed)
      BY <2>2 DEF Authentic, IsReport
    <3> QED  BY <1>3, <1>8, <2>2, <3>1, OneMore
  <2> HIDE DEF u
  <2>12. Carries(c, r, u)
    BY <1>2, <2>7, <2>9, <2>10, <2>11 DEF Carries
  <2> QED  BY ONLY IInv, Copies, c \in Clients, <1>1, <2>3, <2>12, OwnStepCopies
<1> QED  BY <1>10, <1>11

\* d is m and then e
Splits(d, m, e) ==
    /\ d # <<>> /\ m = d[1] /\ 1 \in DOMAIN d /\ m = Head(d) /\ e = Tail(d)
    /\ \A i \in DOMAIN e : i + 1 \in DOMAIN d /\ e[i] = d[i + 1] /\ i + 1 # 1
    /\ \A i, j \in DOMAIN e : i + 1 = j + 1 => i = j
    /\ \A i \in DOMAIN d : i # 1 => i - 1 \in DOMAIN e /\ e[i - 1] = d[i]

\* The own snake of a client that has handled a message.
LEMMA OwnHandled ==
    ASSUME NEW c \in Clients, NEW s \in States, NEW u, NEW d, NEW t, NEW k, Own(c, s, u, d, t, k),
           s.phase \in {"waiting", "entering", "handling"}, s.phase # "waiting" => c \in DOMAIN s.players,
           NEW m \in Mail, NEW e, Splits(d, m, e), For(c, m), Proper(c, m, k),
           c \in DOMAIN t => c \in k \/ t[c] # <<>>, NEW r, r = Applied(s, m)
    PROVE  Own(c, r, u, e, t, k)
<1>1. AppliesTo(s, m, c, r)
  BY AppliedTo
<1>2. /\ m = d[1] /\ 1 \in DOMAIN d
      /\ \A i \in DOMAIN e : i + 1 \in DOMAIN d /\ e[i] = d[i + 1] /\ i + 1 # 1
      /\ \A i, j \in DOMAIN e : i + 1 = j + 1 => i = j
      /\ \A i \in DOMAIN d : i # 1 => i - 1 \in DOMAIN e /\ e[i - 1] = d[i]
  BY DEF Splits
<1>3. /\ \A i, j \in DOMAIN d : Welcomes(d[i]) /\ Welcomes(d[j]) => i = j
      /\ \A i \in DOMAIN d : Welcomes(d[i]) =>
           s.phase = "waiting" /\ c \in DOMAIN t /\ Popped(d[i].bodies[c]) = t[c]
  BY DEF Own, Invited
<1>4. \A i, j \in DOMAIN e : Welcomes(e[i]) /\ Welcomes(e[j]) => i = j
  BY <1>2, <1>3
<1>5. s.phase \in {"waiting", "entering"} => u = <<>> /\ c \notin k
  BY DEF Own
<1>6. CASE Welcomes(m)
  <2>1. s.phase = "waiting" /\ c \in DOMAIN t /\ Popped(m.bodies[c]) = t[c] /\ u = <<>> /\ c \notin k
    BY <1>2, <1>3, <1>5, <1>6
  <2>2. \A i \in DOMAIN e : ~Welcomes(e[i])
    BY <1>2, <1>3, <1>6
  <2>3. c \in DOMAIN m.bodies
    BY <1>6 DEF For, Welcomes
  <2>4. r.phase = "entering" /\ c \in DOMAIN r.players /\ PlayerOf(r.players, c) = NewPlayer(t[c])
    BY <1>1, <1>6, <2>1, <2>3 DEF AppliesTo
  <2> DEFINE me == r.players[c]
  <2>5. me = NewPlayer(t[c])
    BY <2>4 DEF PlayerOf
  <2>6. me.grid = TRUE /\ me.alive = TRUE /\ me.tail = t[c]
    BY <2>5 DEF NewPlayer
  <2> HIDE DEF me
  <2>7. t[c] # <<>>
    BY <2>1
  <2>8. Latest(u, t[c], me.tail)
    BY <2>1, <2>6 DEF Latest
  <2>9. Itself(c, r, u, e, t, k)
    BY <2>1, <2>6, <2>7, <2>8 DEF Itself, me
  <2>10. Invited(c, r, e, t)
    BY <2>2 DEF Invited
  <2> QED  BY <2>1, <2>9, <2>10 DEF Own
<1>7. CASE ~Welcomes(m)
  <2>1. r.phase = s.phase
    BY <1>1, <1>7 DEF AppliesTo
  <2>2. Invited(c, r, e, t)
    BY <1>2, <1>3, <1>4, <2>1 DEF Invited
  <2>3. ASSUME s.phase # "waiting" PROVE Itself(c, r, u, e, t, k)
    <3> DEFINE me == s.players[c]
               you == r.players[c]
    <3>1. /\ c \in DOMAIN t /\ me.grid /\ (me.alive => me.tail # <<>>)
          /\ c \notin k => me.tail # <<>>
          /\ c \in k => me.tail = <<>> \/ \E i \in DOMAIN d : Tells(d[i], "KillPlayer", c)
          /\ s.phase # "handling" => Latest(u, t[c], me.tail)
      BY <2>3 DEF Own, Itself
    <3>2. c \in DOMAIN s.players /\ me = PlayerOf(s.players, c) /\ me \in Snakes
      <4>1. c \in DOMAIN s.players /\ s.players \in Maps(Snakes)
        BY <2>3 DEF States
      <4> QED  BY <4>1, MapType DEF PlayerOf
    <3>3. Neutral(m, c) \/ Tells(m, "KillPlayer", c)
      <4>1. m.type \in {"ServerValidation", "NewPlayer", "UpdatePlayer", "RemovePlayer",
                        "KillPlayer", "NewPowerup", "PowerupEaten", "StartGame"}
        BY MailFields
      <4> QED  BY <1>7, <4>1 DEF Neutral, Tells, Proper, For, Welcomes
    <3>4. CASE Tells(m, "KillPlayer", c)
      <4>1. c \in k /\ s.phase = "handling"
        BY <1>5, <2>3, <3>4 DEF Proper, Tells
      <4>2. c \in DOMAIN r.players /\ PlayerOf(r.players, c) = Kill(PlayerOf(s.players, c))
        BY <1>1, <3>4 DEF AppliesTo
      <4>3. you = Kill(me)
        BY <3>2, <4>2 DEF PlayerOf
      <4> HIDE DEF me, you
      <4>4. you.grid = me.grid /\ you.alive = FALSE /\ you.tail = <<>>
        BY <3>2, <4>3 DEF Kill, Snakes
      <4> QED  BY <2>1, <3>1, <4>1, <4>4 DEF Itself, you
    <3>5. CASE Neutral(m, c)
      <4>1. c \in DOMAIN r.players /\ PlayerOf(r.players, c) = PlayerOf(s.players, c)
        BY <1>1, <3>2, <3>5 DEF AppliesTo
      <4>2. you = me
        BY <3>2, <4>1 DEF PlayerOf
      <4>3. (\E i \in DOMAIN d : Tells(d[i], "KillPlayer", c)) => \E i \in DOMAIN e : Tells(e[i], "KillPlayer", c)
        <5>1. ~Tells(d[1], "KillPlayer", c)
          BY <1>2, <3>5 DEF Neutral, Tells
        <5> QED  BY <1>2, <5>1
      <4> HIDE DEF me, you
      <4> QED  BY <2>1, <3>1, <4>2, <4>3 DEF Itself, you
    <3> QED  BY <3>3, <3>4, <3>5
  <2> QED  BY <1>5, <2>1, <2>2, <2>3 DEF Own
<1> QED  BY <1>6, <1>7

\* A client handles a message.
LEMMA HandleCopies == ASSUME IInv, Copies, NEW c \in Clients, Handle(c) PROVE Copies'
<1> DEFINE s == client[c]
           d == down[c]
           m == Head(d)
           e == Tail(d)
           r == Applied(s, m)
           u == up[c]
<1>1. /\ crashed = "no" /\ s.phase \in {"waiting", "entering", "handling"} /\ d # <<>>
      /\ client' = [client EXCEPT ![c] = r] /\ down' = [down EXCEPT ![c] = e]
      /\ UNCHANGED server /\ UNCHANGED up
  BY DEF Handle
<1>2. client[c].phase \notin {"off", "gone"}
  BY <1>1
<1>3. /\ c \in open /\ Sound(c, s, u, d) /\ Kept(c, s, u, d)
      /\ s \in States /\ d \in Seq(Mail) /\ up = [up EXCEPT ![c] = u]
  BY <1>1, <1>2, Running
<1>4. up' = [up EXCEPT ![c] = u] /\ open' = open /\ UNCHANGED <<crashed, tails, killed, deadAtJoin>>
  BY <1>1, <1>3 DEF server
<1>5. /\ \A i \in DOMAIN d : For(c, d[i])
      /\ s.phase # "waiting" => c \in DOMAIN s.players
  BY <1>1 DEF IInv, Mailed, Roster
<1>6. m = Head(d) /\ e = Tail(d) /\ r = Applied(s, m)
  OBVIOUS
<1> HIDE DEF s, d, m, e, r, u
<1>7. Splits(d, m, e) /\ m \in Mail
  <2>1. /\ 1 \in DOMAIN d /\ Head(d) = d[1] /\ Head(d) \in Mail /\ DOMAIN Tail(d) \subseteq Nat
        /\ \A i \in DOMAIN Tail(d) : i + 1 \in DOMAIN d /\ Tail(d)[i] = d[i + 1] /\ i + 1 # 1
        /\ \A i \in DOMAIN d : i # 1 => i - 1 \in DOMAIN Tail(d) /\ Tail(d)[i - 1] = d[i]
    BY <1>1, <1>3
  <2>2. \A i, j \in Nat : i + 1 = j + 1 => i = j
    OBVIOUS
  <2> QED  BY <1>1, <1>6, <2>1, <2>2 DEF Splits
<1>8. For(c, m) /\ Proper(c, m, killed) /\ \A i \in DOMAIN e : Proper(c, e[i], killed)
  BY <1>3, <1>5, <1>7 DEF Splits, Sound
<1>9. \A p : /\ View(r, p) = After(View(s, p), m, p)
             /\ PlayerOf(s.players, p).food = 0 => PlayerOf(r.players, p).food = 0
  BY <1>3, <1>6, <1>7, AppliedView
<1>10. Sound(c, r, u, e)
  BY <1>3, <1>8, <1>9 DEF Sound
<1>11. ASSUME NEW p \in Clients \ {c}
       PROVE  Prospect(r, e, p, tails, c \in DOMAIN tails, killed, deadAtJoin[c])
  <2> DEFINE v == View(s, p)
             known == c \in DOMAIN tails
             there == p \in DOMAIN tails
             len == TailLen(tails, p)
             dead == p \in killed
             late == p \in deadAtJoin[c]
  <2>1. Leads(v, d, p, known, there, len, dead, late)
    BY <1>3 DEF Kept, Prospect
  <2>2. View(r, p) = After(v, m, p)
    BY <1>9
  <2>3. Leads(View(r, p), e, p, known, there, len, dead, late) =>
          Prospect(r, e, p, tails, c \in DOMAIN tails, killed, deadAtJoin[c])
    BY DEF Prospect
  <2> HIDE DEF v, known, there, len, dead, late
  <2>4. Leads(After(v, Head(d), p), Tail(d), p, known, there, len, dead, late)
    BY ONLY <1>1, <1>3, <2>1, LeadsBehind
  <2> QED  BY <1>6, <2>2, <2>3, <2>4
<1>12. Own(c, r, u, e, tails, killed)
  <2>1. Own(c, s, u, d, tails, killed)
    BY <1>3 DEF Kept
  <2>2. c \in DOMAIN tails => c \in killed \/ tails[c] # <<>>
    <3>1. Signed(Now, up, killed) /\ Now.tails = tails
      BY <1>1, Before DEF Fits
    <3> QED  BY <3>1 DEF Signed
  <2> QED  BY ONLY c \in Clients, <1>1, <1>3, <1>5, <1>6, <1>7, <1>8, <2>1, <2>2, OwnHandled
<1>13. Kept(c, r, u, e)
  BY <1>11, <1>12 DEF Kept
<1>14. r.phase # "off"
  <2>1. AppliesTo(s, m, c, r)
    BY <1>3, <1>6, <1>7, AppliedTo
  <2> QED  BY <1>1, <2>1 DEF AppliesTo
<1>15. (\A x : x # c => (x \in open' <=> x \in open)) /\ c \in open'
  BY <1>3, <1>4
<1> QED  BY ONLY IInv, Copies, c \in Clients, <1>1, <1>4, <1>10, <1>13, <1>14, <1>15, ClientCopies

----------------------------------------------------------------------------
(* Theorems *)

\* Nobody is there in the beginning.
LEMMA InitCopies == Init => Copies
<1> SUFFICES ASSUME Init PROVE Copies
  OBVIOUS
<1> DEFINE s == [phase |-> "off", players |-> NoFunction, powerups |-> NoPowerups, started |-> FALSE]
<1>1. /\ open = {} /\ tails = NoFunction /\ client = [c \in Clients |-> s]
      /\ up = [c \in Clients |-> <<>>] /\ down = [c \in Clients |-> <<>>] /\ killed = {}
  BY DEF Init
<1>2. s.phase = "off" /\ s.players = NoFunction /\ DOMAIN NoFunction = {}
  BY DEF NoFunction
<1> HIDE DEF s
<1>3. \A c \in Clients : client[c] = s /\ up[c] = <<>> /\ down[c] = <<>>
  BY <1>1
<1>4. Now.tails = tails /\ Now.down = down
  BY DEF Now
<1>5. Fits(Now, up, killed, deadAtJoin)
  BY <1>1, <1>2, <1>3, <1>4 DEF Fits, Prospects, Signed, Owned
<1>6. Unfed
  <2>1. \A p : PlayerOf(NoFunction, p) = DefaultPlayer
    BY <1>2 DEF PlayerOf
  <2> QED  BY <1>2, <1>3, <2>1 DEF Unfed, DefaultPlayer, NewPlayer
<1>7. Connected
  BY <1>1, <1>2, <1>3 DEF Connected
<1> QED  BY <1>5, <1>6, <1>7 DEF Copies

\* Every step keeps the copies together.
LEMMA NextCopies == IInv /\ Copies /\ [Next]_vars => Copies'
<1> SUFFICES ASSUME IInv, Copies, [Next]_vars PROVE Copies'
  OBVIOUS
<1>1. CASE Fill
  BY <1>1, FillCopies
<1>2. ASSUME NEW c \in Clients, Accept(c) PROVE Copies'
  BY <1>2, AcceptCopies
<1>3. ASSUME NEW c \in Clients, OnClientValidated(c) PROVE Copies'
  BY <1>3, OnClientValidatedCopies
<1>4. ASSUME NEW c \in Clients, PowerupEaten(c) PROVE Copies'
  BY <1>4, PowerupEatenCopies
<1>5. ASSUME NEW c \in Clients, UpdatePlayer(c) PROVE Copies'
  BY <1>5, UpdatePlayerCopies
<1>6. ASSUME NEW c \in Clients, StartGame(c) PROVE Copies'
  BY <1>6, StartGameCopies
<1>7. ASSUME NEW c \in Clients, Handle(c) PROVE Copies'
  BY <1>7, HandleCopies
<1>8. ASSUME NEW c \in Clients, Frame(c) PROVE Copies'
  BY <1>8, FrameCopies
<1>9. ASSUME NEW c \in Clients, FrameCrash(c) \/ Leave(c) PROVE Copies'
  BY <1>9, GoneCopies DEF FrameCrash, Leave
<1>10. ASSUME NEW c \in Clients, UpdateServer(c) PROVE Copies'
  BY <1>10, UpdateServerCopies
<1>11. ASSUME NEW c \in Clients, AttemptGameStart(c) PROVE Copies'
  BY <1>11, AttemptGameStartCopies
<1>12. ASSUME NEW c \in Clients, NEW d \in Direction, Turn(c, d) PROVE Copies'
  BY <1>12, TurnCopies
<1>13. CASE UNCHANGED vars
  <2>1. UNCHANGED <<conns, open, tails, crashed, client, up, down, killed, deadAtJoin>>
    BY <1>13 DEF vars
  <2>2. Now' = Now
    BY <2>1 DEF Now
  <2>3. Fits(Now, up, killed, deadAtJoin) => Fits(Now, up, killed, deadAtJoin)'
    BY <2>1, <2>2 DEF Fits, Prospects, Signed, Owned
  <2>4. (Unfed => Unfed') /\ (Connected => Connected')
    BY <2>1 DEF Unfed, Connected
  <2> QED  BY <2>1, <2>3, <2>4 DEF Copies
<1> QED
  BY <1>1, <1>2, <1>3, <1>4, <1>5, <1>6, <1>7, <1>8, <1>9, <1>10, <1>11, <1>12, <1>13 DEF Next

\* What is under way to a client leads to what the server has of every snake, and
\* what is under way to the server leads to what a client has of its own, in every
\* state of the game, however many clients, frames, keys and departures there are.
THEOREM CopiesLead == Spec => [](IInv /\ Copies)
<1>1. Init => Copies
  BY InitCopies
<1>2. IInv /\ Copies /\ [Next]_vars => Copies'
  BY NextCopies
<1> QED  BY <1>1, <1>2, InvariantHolds, PTL DEF Spec

\* What a client that plays has of another player: it can draw it, and it is what
\* the server would tell once nothing is under way.
LEMMA Seen ==
    ASSUME IInv, Copies, crashed = "no", NEW c \in Playing, NEW p \in Clients \ {c}, NEW q,
           q = PlayerOf(client[c].players, p)
    PROVE  /\ q.alive /\ p \in DOMAIN client[c].players /\ p \notin deadAtJoin[c] => q.grid /\ Len(q.tail) # 0
           /\ down[c] = <<>> /\ p \notin DOMAIN tails /\ p \in DOMAIN client[c].players => ~q.alive /\ Len(q.tail) = 0
           /\ down[c] = <<>> /\ c \in DOMAIN tails /\ p \in DOMAIN tails =>
                /\ p \in DOMAIN client[c].players
                /\ p \notin killed => Len(q.tail) = Len(tails[p])
                /\ p \in killed => Len(q.tail) = 0 \/ Len(q.tail) = Len(tails[p])
<1> DEFINE v == View(client[c], p)
           d == down[c]
           known == c \in DOMAIN tails
           there == p \in DOMAIN tails
           len == TailLen(tails, p)
           dead == p \in killed
           late == p \in deadAtJoin[c]
           has == p \in DOMAIN client[c].players
           in == client[c].phase # "waiting"
<1>1. c \in open /\ client[c].phase # "waiting" /\ down \in [Clients -> Seq(Mail)] /\ c \in Clients
  BY DEF Playing, IInv, Mailed, TypeOK
<1>2. Leads(v, d, p, known, there, len, dead, late)
  <2>1. Prospects(Now, killed, deadAtJoin) /\ Now.tails = tails /\ Now.down = down
    BY Before DEF Fits
  <2> QED  BY <1>1, <2>1 DEF Prospects, Prospect
<1>3. v = [in |-> in, has |-> has, alive |-> q.alive, grid |-> q.grid, len |-> Len(q.tail)] /\ in = TRUE
  BY <1>1 DEF View
<1>4. there => len = Len(tails[p])
  BY DEF TailLen
<1>5. d \in Seq(Mail)
  BY <1>1
<1> HIDE DEF v, known, there, len, dead, late, has, in, d
<1>6. v.in = TRUE /\ v.has = has /\ v.alive = q.alive /\ v.grid = q.grid /\ v.len = Len(q.tail)
  BY <1>3
<1>7. PICK h : /\ Course(v, d, p, h)
               /\ \A i \in 0..Len(d) : Drawable(h[i], known, late)
               /\ Agrees(h[Len(d)], known, there, len, dead, late)
  BY <1>2 DEF Leads
<1>8. h[0] = v /\ 0 \in 0..Len(d)
  BY <1>5, <1>7 DEF Course
<1>9. Drawable(v, known, late)
  BY <1>7, <1>8
<1>10. d = <<>> => Agrees(v, known, there, len, dead, late)
  BY <1>7, <1>8
<1>11. q.alive /\ has /\ ~late => q.grid /\ Len(q.tail) # 0
  BY <1>6, <1>9 DEF Drawable
<1>12. d = <<>> /\ ~there /\ has => ~q.alive /\ Len(q.tail) = 0
  BY <1>6, <1>10 DEF Agrees
<1>13. d = <<>> /\ known /\ there =>
         /\ has /\ (~dead => Len(q.tail) = len) /\ (dead => Len(q.tail) = 0 \/ Len(q.tail) = len)
  BY <1>6, <1>10 DEF Agrees
<1> QED  BY <1>4, <1>11, <1>12, <1>13 DEF known, there, dead, late, has, d

\* What a client that plays has of itself.
LEMMA Self ==
    ASSUME IInv, Copies, crashed = "no", NEW c \in Playing
    PROVE  /\ c \in Clients /\ c \in DOMAIN client[c].players
           /\ Itself(c, client[c], up[c], down[c], tails, killed)
<1>1. c \in open /\ c \in Clients /\ client[c].phase # "waiting"
  BY DEF Playing, IInv, TypeOK
<1>2. client[c].phase \in {"off", "waiting", "entering", "idle", "handling", "gone"}
  BY <1>1, TypeIs DEF IInv, Typed, States
<1>3. c \in DOMAIN client[c].players
  BY <1>1, <1>2 DEF IInv, Roster
<1>4. Owned(Now, up, killed) /\ Now.tails = tails /\ Now.down = down
  BY Before DEF Fits
<1>5. Itself(c, client[c], up[c], down[c], tails, killed)
  BY <1>1, <1>4 DEF Owned, Own
<1> QED  BY <1>1, <1>3, <1>5

\* The players a client knows.
LEMMA Known ==
    ASSUME IInv, NEW c \in Clients
    PROVE  /\ DOMAIN client[c].players \subseteq Clients
           /\ \A p \in DOMAIN client[c].players :
                /\ client[c].players[p] = PlayerOf(client[c].players, p) /\ client[c].players[p].tail \in Seq(Cells)
                /\ client[c].players[p].tail = <<>> <=> Len(client[c].players[p].tail) = 0
<1>1. client[c].players \in Maps(Snakes)
  BY TypeIs DEF IInv, Typed, States
<1>2. DOMAIN client[c].players \subseteq Clients /\ \A p \in DOMAIN client[c].players : client[c].players[p] \in Snakes
  BY <1>1, MapType
<1>3. \A t \in Seq(Cells) : t = <<>> <=> Len(t) = 0
  OBVIOUS
<1> QED  BY <1>2, <1>3 DEF PlayerOf, Snakes

\* A client that has been heard has the server's tail of its snake.
LEMMA HeardIs ==
    ASSUME IInv, Copies, crashed = "no", NEW c \in Clients, UpToDate(c), Heard(c)
    PROVE  client[c].players[c].tail = tails[c] /\ (c \in killed => tails[c] = <<>>)
<1>1. c \in Playing /\ down[c] = <<>> /\ up[c] = <<>> /\ client[c].phase # "handling"
  BY DEF UpToDate, Heard
<1>2. Itself(c, client[c], up[c], down[c], tails, killed)
  BY <1>1, Self
<1>3. Latest(up[c], tails[c], client[c].players[c].tail)
  BY <1>1, <1>2 DEF Itself
<1>4. tails[c] = client[c].players[c].tail
  BY <1>1, <1>3 DEF Latest
<1>5. c \in killed => client[c].players[c].tail = <<>>
  BY <1>1, <1>2 DEF Itself
<1> QED  BY <1>4, <1>5

\* A client can always move the players it takes to be alive (Move,
\* Snek/player.cpp:9): none of them has lost its head or never had a grid, whoever
\* joined or left meanwhile, except those that were dead before the client came.
THEOREM LivingCanMove == Spec => []AliveCanMove
<1>1. IInv /\ Copies => AliveCanMove
  <2> SUFFICES ASSUME IInv, Copies, crashed = "no", NEW c \in Playing,
                      NEW p \in DOMAIN client[c].players \ deadAtJoin[c]
               PROVE  ~Stuck(client[c].players[p])
    BY DEF AliveCanMove
  <2>1. /\ c \in Clients /\ Itself(c, client[c], up[c], down[c], tails, killed)
    BY Self
  <2>2. /\ p \in Clients /\ client[c].players[p] = PlayerOf(client[c].players, p)
        /\ client[c].players[p].tail = <<>> <=> Len(client[c].players[p].tail) = 0
    BY <2>1, Known
  <2>3. CASE p = c
    BY <2>1, <2>3 DEF Itself, Stuck
  <2>4. CASE p # c
    <3> DEFINE q == PlayerOf(client[c].players, p)
    <3>1. q.alive /\ p \in DOMAIN client[c].players /\ p \notin deadAtJoin[c] => q.grid /\ Len(q.tail) # 0
      BY <2>2, <2>4, Seen
    <3> QED  BY <2>2, <3>1 DEF Stuck
  <2> QED  BY <2>3, <2>4
<1> QED  BY <1>1, CopiesLead, PTL

\* The server has the snake of a client it has heard, and whoever is up to date has
\* it at its length, although every client moves all of the snakes by itself between
\* two of their UpdatePlayer (Snek/main.cpp:94, Snek/snakeclient.cpp:140).
THEOREM CopiesAgree == Spec => []SnakesAgree
<1>1. IInv /\ Copies => SnakesAgree
  <2> SUFFICES ASSUME IInv, Copies, crashed = "no", NEW c \in Clients, UpToDate(c), Heard(c)
               PROVE  /\ client[c].players[c].tail = tails[c]
                      /\ \A d \in {x \in Clients : UpToDate(x)} :
                           /\ c \in DOMAIN client[d].players
                           /\ Len(client[d].players[c].tail) = Len(tails[c])
    BY DEF SnakesAgree
  <2>1. client[c].players[c].tail = tails[c] /\ (c \in killed => tails[c] = <<>>) /\ c \in DOMAIN tails
    BY HeardIs DEF UpToDate
  <2>2. c \in DOMAIN client[c].players
    BY Self DEF UpToDate
  <2>3. ASSUME NEW d \in Clients, UpToDate(d), d # c
        PROVE  c \in DOMAIN client[d].players /\ Len(client[d].players[c].tail) = Len(tails[c])
    <3>1. d \in Playing /\ d \in DOMAIN tails /\ down[d] = <<>>
      BY <2>3 DEF UpToDate
    <3> DEFINE q == PlayerOf(client[d].players, c)
    <3>2. /\ c \in DOMAIN client[d].players
          /\ c \notin killed => Len(q.tail) = Len(tails[c])
          /\ c \in killed => Len(q.tail) = 0 \/ Len(q.tail) = Len(tails[c])
      BY <2>1, <2>3, <3>1, Seen
    <3>3. q = client[d].players[c]
      BY <3>2 DEF PlayerOf
    <3>4. c \in killed => Len(tails[c]) = 0
      BY <2>1
    <3> QED  BY <3>2, <3>3, <3>4
  <2> QED  BY <2>1, <2>2, <2>3
<1> QED  BY <1>1, CopiesLead, PTL

\* A player who knows of being killed, and has said so, has no tail anywhere, and a
\* client that is up to date neither shows nor moves a player who is gone, although
\* KillPlayer (SnekServer/server.cpp:277) may come behind RemovePlayer.
THEOREM TheDeadAreGone == Spec => []DeadAreGone
<1>1. IInv /\ Copies => DeadAreGone
  <2> SUFFICES ASSUME IInv, Copies, crashed = "no", NEW c \in Clients, UpToDate(c)
               PROVE  /\ \A p \in {x \in killed : UpToDate(x) /\ Heard(x)} :
                           tails[p] = <<>> /\ client[c].players[p].tail = <<>>
                      /\ \A p \in DOMAIN client[c].players \ conns :
                           ~client[c].players[p].alive /\ client[c].players[p].tail = <<>>
    BY DEF DeadAreGone
  <2>1. c \in Playing /\ c \in open /\ c \in DOMAIN tails /\ down[c] = <<>>
    BY DEF UpToDate, Playing
  <2>2. killed \subseteq Clients /\ open \subseteq conns /\ DOMAIN tails \subseteq conns
    BY DEF IInv, TypeOK
  <2>3. ASSUME NEW p \in killed, UpToDate(p), Heard(p) PROVE tails[p] = <<>> /\ client[c].players[p].tail = <<>>
    <3>1. p \in Clients /\ p \in DOMAIN tails
      BY <2>2, <2>3 DEF UpToDate
    <3>2. tails[p] = <<>> /\ client[p].players[p].tail = tails[p]
      BY <2>3, <3>1, HeardIs
    <3>3. CASE p # c
      <4> DEFINE q == PlayerOf(client[c].players, p)
      <4>1. p \in DOMAIN client[c].players /\ (Len(q.tail) = 0 \/ Len(q.tail) = Len(tails[p]))
        BY <2>1, <3>1, <3>3, Seen
      <4>2. q = client[c].players[p] /\ (q.tail = <<>> <=> Len(q.tail) = 0)
        BY <4>1, Known
      <4>3. Len(tails[p]) = 0
        BY <3>2
      <4> QED  BY <3>2, <4>1, <4>2, <4>3
    <3> QED  BY <3>2, <3>3
  <2>4. ASSUME NEW p \in DOMAIN client[c].players \ conns
        PROVE  ~client[c].players[p].alive /\ client[c].players[p].tail = <<>>
    <3>1. p # c /\ p \notin DOMAIN tails
      BY <2>1, <2>2
    <3>2. /\ p \in Clients /\ client[c].players[p] = PlayerOf(client[c].players, p)
          /\ client[c].players[p].tail = <<>> <=> Len(client[c].players[p].tail) = 0
      BY Known
    <3> DEFINE q == PlayerOf(client[c].players, p)
    <3>3. ~q.alive /\ Len(q.tail) = 0
      BY <2>1, <3>1, <3>2, Seen
    <3> QED  BY <3>2, <3>3
  <2> QED  BY <2>3, <2>4
<1> QED  BY <1>1, CopiesLead, PTL

============================================================================
