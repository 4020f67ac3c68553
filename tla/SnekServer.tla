----------------------------- MODULE SnekServer -----------------------------
(***************************************************************************)
(* The server's sessions: net::ServerInterface (Networking/server.h) with  *)
(* the handlers of Server (SnekServer/server.cpp).                         *)
(*                                                                         *)
(* Two threads share all of this state without a lock.  The context        *)
(* thread "asio" accepts, validates, receives and closes; "main" runs      *)
(* Update and OnMessage.  Both call MessageAllClients, which calls         *)
(* OnClientDisconnect for a connection it finds closed, which calls        *)
(* MessageAllClients again.  A thread's work is a stack of calls, and one  *)
(* turn of MessageAllClients' loop is one step.                            *)
(*                                                                         *)
(* Delivery is Connection's business: view[c] is the set of players that   *)
(* client c knows once it has handled all that was sent to it so far.      *)
(***************************************************************************)
EXTENDS Naturals, Sequences, FiniteSets

CONSTANTS
    MaxClients,  \* bound: connections that are allowed, numbered from 1
    NumSpawn,    \* spawnpoints that GenerateSpawnpoints makes
    MaxMsgs,     \* bound: messages received from clients
    MaxClosed,   \* bound: connections that close
    MaxDepth     \* calls of MessageAllClients that fit on a thread's stack

ASSUME SnekServerAssumption ==
    /\ MaxClients \in Nat /\ NumSpawn \in Nat /\ MaxMsgs \in Nat
    /\ MaxClosed \in Nat /\ MaxDepth \in Nat \ {0}

Clients == 1..MaxClients

Null == 0    \* nullptr

Threads == {"asio", "main"}

VARIABLES
    conns,       \* m_deqConnections
    ids,         \* IDCounter: number of clients that were allowed
    open,        \* clients whose socket is open
    late,        \* closed clients with a read that was done before and is still to be handled
    validated,   \* clients for which OnClientValidated was called
    players,     \* keys of players
    spawnpoints, \* spawnpoints.size()
    powerups,    \* powerups.size()
    gameStarted,
    inbox,       \* m_qMessagesIn
    received,    \* number of messages received
    stack,       \* stack[t]: the calls thread t still has to make, innermost first
    crashed,     \* "no", or what ended the process
    view,        \* players as the clients see them
    killed,      \* history: players for whom KillPlayer was sent
    reports,     \* history: calls of OnClientDisconnect for each client
    raced        \* history: a handler began in the middle of the other thread's, with a
                 \* closed connection in the list

vars == <<conns, ids, open, late, validated, players, spawnpoints, powerups, gameStarted,
          inbox, received, stack, crashed, view, killed, reports, raced>>

Init ==
    /\ conns = <<>> /\ ids = 0 /\ open = {} /\ late = {} /\ validated = {}
    /\ players = {} /\ spawnpoints = NumSpawn /\ powerups = 0 /\ gameStarted = FALSE
    /\ inbox = <<>> /\ received = 0
    /\ stack = [t \in Threads |-> <<>>]
    /\ crashed = "no"
    /\ view = [c \in Clients |-> {}]
    /\ killed = {} /\ reports = [c \in Clients |-> 0] /\ raced = FALSE

----------------------------------------------------------------------------
(* Calls *)

Msg(type, c) == [type |-> type, who |-> c]

MessageAllClients(m, ignore) == [do |-> "all", msg |-> m, ignore |-> ignore]

\* the range-for of MessageAllClients; end is evaluated once
Loop(m, ignore) ==
    [do |-> "loop", msg |-> m, ignore |-> ignore,
     i |-> 1, end |-> Len(conns), invalid |-> FALSE, reporting |-> FALSE]

Call(name, arg) == [do |-> name, arg |-> arg]

Ready(t, name) == crashed = "no" /\ stack[t] # <<>> /\ Head(stack[t]).do = name

\* thread t goes on with calls in place of the one it has just finished
Continue(t, calls) == stack' = [stack EXCEPT ![t] = calls \o Tail(@)]

Crash(why) == crashed' = why /\ UNCHANGED stack

Listed == {conns[k] : k \in DOMAIN conns}

\* an idle thread takes up a handler
Start(t, calls) ==
    /\ crashed = "no" /\ stack[t] = <<>>
    /\ stack' = [stack EXCEPT ![t] = calls]
    /\ raced' = (raced \/ (/\ calls # <<>> /\ ~(Listed \subseteq open)
                          /\ \E u \in Threads : stack[u] # <<>>))

\* what the client's HandleMessages makes of players: an update creates the
\* player it does not find, and so does a kill
Applied(m, known) ==
    CASE m.type \in {"NewPlayer", "UpdatePlayer", "KillPlayer"} -> known \cup {m.who}
      [] m.type = "RemovePlayer" -> known \ {m.who}
      [] OTHER -> known

server == <<ids, open, late, validated, spawnpoints, gameStarted, inbox, received, raced>>

game == <<players, powerups, killed>>

----------------------------------------------------------------------------
(* MessageAllClients *)

Loops(t) == Cardinality({k \in DOMAIN stack[t] : stack[t][k].do = "loop"})

Enter(t) ==
    /\ Ready(t, "all")
    /\ IF Loops(t) < MaxDepth
         THEN /\ Continue(t, <<Loop(Head(stack[t]).msg, Head(stack[t]).ignore)>>)
              /\ UNCHANGED crashed
         ELSE Crash("stack overflow")
    /\ UNCHANGED <<conns, view, reports, server, game>>

\* the entry the loop is at; an erase shifts null pointers beyond the end
Entry(f) == IF f.i <= Len(conns) THEN conns[f.i] ELSE Null

\* the loop's body is about to run for entry c
AtEntry(t, c) ==
    LET f == Head(stack[t])
    IN  Ready(t, "loop") /\ ~f.reporting /\ f.i <= f.end /\ Entry(f) = c

\* a loop that stays where it is
Stay(f) == f

\* the loop goes on with its next entry
Advance(f) == [f EXCEPT !.i = @ + 1]

Skip(t) ==
    LET f == Head(stack[t])
    IN  /\ AtEntry(t, f.ignore)
        /\ Continue(t, <<Advance(f)>>)
        /\ UNCHANGED <<conns, crashed, view, reports, server, game>>

Send(t, c) ==
    LET f == Head(stack[t])
    IN  /\ AtEntry(t, c) /\ c # f.ignore /\ c \in open
        /\ Continue(t, <<Advance(f)>>)
        /\ view' = [view EXCEPT ![c] = Applied(f.msg, @)]
        /\ UNCHANGED <<conns, crashed, reports, server, game>>

\* RemovePlayer to all, the disconnected client too
TellEverybody(c) ==
    <<MessageAllClients(Msg("RemovePlayer", c), Null), Call("erase", c)>>

\* the player is deleted and nobody is told
TellNobody(c) == <<Call("erase", c)>>

\* OnClientDisconnect: RemovePlayer to all others, then players.erase
OnClientDisconnect(c) ==
    <<MessageAllClients(Msg("RemovePlayer", c), c), Call("erase", c)>>

Report(t, c) ==
    LET f == Head(stack[t])
    IN  /\ AtEntry(t, c) /\ c # f.ignore /\ c \notin open
        /\ Continue(t, OnClientDisconnect(c) \o <<[f EXCEPT !.reporting = TRUE]>>)
        /\ reports' = [reports EXCEPT ![c] = @ + 1]
        /\ UNCHANGED <<conns, crashed, view, server, game>>

\* a null entry that is not the ignored one: client->GetID() of a nullptr
ReportNull(t) ==
    /\ AtEntry(t, Null) /\ Head(stack[t]).ignore # Null
    /\ Crash("null")
    /\ UNCHANGED <<conns, view, reports, server, game>>

\* the loop forgets invalidClientExists
ValidOnly(f) == f

Invalidated(f) == [f EXCEPT !.invalid = TRUE]

\* the pointer stays in the list
NotCleared(k) == conns

\* client.reset()
Cleared(k) == IF k <= Len(conns) THEN [conns EXCEPT ![k] = Null] ELSE conns

\* OnClientDisconnect has returned
Reset(t) ==
    LET f == Head(stack[t])
    IN  /\ Ready(t, "loop") /\ f.reporting
        /\ conns' = Cleared(f.i)
        /\ Continue(t, <<[Invalidated(Advance(f)) EXCEPT !.reporting = FALSE]>>)
        /\ UNCHANGED <<crashed, view, reports, server, game>>

\* the places of the connections that were not reset
Kept == {k \in DOMAIN conns : conns[k] # Null}

\* the numbers of S in ascending order: one sequence
Ascending(S) ==
    {g \in [1..Cardinality(S) -> S] : \A i, j \in DOMAIN g : i < j => g[i] < g[j]}

\* std::remove keeps the order of what it keeps, and erase cuts off the rest
Compacted == {[i \in DOMAIN g |-> conns[g[i]]] : g \in Ascending(Kept)}

\* erase and remove of the null entries
Leave(t) ==
    LET f == Head(stack[t])
    IN  /\ Ready(t, "loop") /\ ~f.reporting /\ f.i > f.end
        /\ conns' \in IF f.invalid THEN Compacted ELSE {conns}
        /\ Continue(t, <<>>)
        /\ UNCHANGED <<crashed, view, reports, server, game>>

\* players.erase(id)
Erase(t) ==
    /\ Ready(t, "erase")
    /\ players' = players \ {Head(stack[t]).arg}
    /\ Continue(t, <<>>)
    /\ UNCHANGED <<conns, crashed, view, reports, powerups, killed, server>>

----------------------------------------------------------------------------
(* Server's handlers on the context thread *)

Allowed == spawnpoints > 0 /\ ~gameStarted

\* the counter is not advanced
SameId == ids

\* IDCounter++
NextId == ids + 1

\* the accept handler: OnClientConnect, push_back, ConnectToClient
Accept ==
    /\ Start("asio", <<>>) /\ Allowed
    /\ ids < MaxClients
    /\ ids' = NextId
    /\ conns' = Append(conns, NextId)
    /\ open' = open \cup {NextId}
    /\ UNCHANGED <<late, validated, spawnpoints, gameStarted, inbox, received, crashed, view,
                   reports, game>>

\* the new player is not stored
WithoutPlayer(c) == players

\* players[id] = player
WithPlayer(c) == players \cup {c}

\* the players in the message ServerValidation
Snapshot(c) == players \cup {c}

\* another position goes with the one that is taken
SpawnLost == IF spawnpoints > 1 THEN spawnpoints - 2 ELSE 0

\* spawnpoints.pop_back()
SpawnTaken == spawnpoints - 1

\* ReadValidation accepts the answer of c: OnClientValidated.  Its first part
\* ends with the client's snapshot on the way to it.  The answer may have come
\* before c was closed; a connection that is off the list is deleted.
OnClientValidated(c) ==
    /\ c \in (open \cup late) \ validated /\ c \in Listed
    /\ late' = late \ {c}
    /\ IF spawnpoints = 0
         THEN /\ Start("asio", <<>>) /\ crashed' = "no spawnpoint"
              /\ UNCHANGED <<validated, players, spawnpoints, view>>
         ELSE /\ Start("asio", <<MessageAllClients(Msg("NewPlayer", c), c), Call("count", c)>>)
              /\ spawnpoints' = SpawnTaken
              /\ validated' = validated \cup {c}
              /\ players' = WithPlayer(c)
              /\ view' = [view EXCEPT ![c] = @ \cup Snapshot(c)]
              /\ UNCHANGED crashed
    /\ UNCHANGED <<conns, ids, open, gameStarted, inbox, received, powerups, killed, reports>>

\* powerupCount, from the number of players at that moment
PowerupCount(n) == ((n % 2) * n) \div 2 + 1

Count(t) ==
    /\ Ready(t, "count")
    /\ Continue(t, <<Call("fill", PowerupCount(Cardinality(players)))>>)
    /\ UNCHANGED <<conns, crashed, view, reports, server, game>>

\* GeneratePowerup until there are powerupCount of them
Fill(t) ==
    LET more == powerups < Head(stack[t]).arg
    IN  /\ Ready(t, "fill")
        /\ Continue(t, IF more THEN <<Call("generate", Null), Head(stack[t])>> ELSE <<>>)
        /\ UNCHANGED <<conns, crashed, view, reports, server, game>>

Generate(t) ==
    /\ Ready(t, "generate")
    /\ powerups' = powerups + 1
    /\ Continue(t, <<MessageAllClients(Msg("NewPowerup", Null), Null)>>)
    /\ UNCHANGED <<conns, crashed, view, reports, players, killed, server>>

\* AddToIncomingMessageQueue on behalf of c, whose message may have come before
\* it was closed
Receive(c) ==
    /\ crashed = "no" /\ stack["asio"] = <<>>
    /\ c \in (open \cup late) \cap validated /\ received < MaxMsgs
    /\ late' = late \ {c}
    /\ \E type \in {"UpdatePlayer", "PowerupEaten", "StartGame"} :
         inbox' = Append(inbox, Msg(type, c))
    /\ received' = received + 1
    /\ UNCHANGED <<conns, ids, open, validated, spawnpoints, gameStarted, stack, crashed,
                   view, reports, raced, game>>

\* an operation of c fails, or its answer is wrong: the socket is closed, with
\* or without a read that is done and waits for its handler
Close(c) ==
    /\ crashed = "no" /\ stack["asio"] = <<>>
    /\ c \in open /\ ids - Cardinality(open) < MaxClosed
    /\ open' = open \ {c}
    /\ late' \in {late, late \cup {c}}
    /\ UNCHANGED <<conns, ids, validated, spawnpoints, gameStarted, inbox, received, stack,
                   crashed, view, reports, raced, game>>

----------------------------------------------------------------------------
(* Server's handlers on the main thread *)

\* OnMessage: the calls it makes for m
Handling(m) ==
    CASE m.type = "UpdatePlayer" -> <<MessageAllClients(m, m.who), Call("update", m.who)>>
      [] m.type = "PowerupEaten" -> <<Call("delete", m.who), Call("generate", Null)>>
      [] m.type = "StartGame"    -> <<MessageAllClients(m, Null)>>

\* Update: PopFront and OnMessage
OnMessage ==
    /\ inbox # <<>>
    /\ Start("main", Handling(Head(inbox)))
    /\ inbox' = Tail(inbox)
    /\ gameStarted' = (gameStarted \/ Head(inbox).type = "StartGame")
    /\ UNCHANGED <<conns, ids, open, late, validated, spawnpoints, received, crashed, view,
                   reports, game>>

SendKillMessage(c) == MessageAllClients(Msg("KillPlayer", c), Null)

\* the calls PlayerCollision may make: the head of c hits a tail, or not
PlayerCollision(c) == {<<>>, <<SendKillMessage(c)>>}

\* players.at(id) after the broadcast, then PlayerCollision
UpdatePlayer(t) ==
    LET c == Head(stack[t]).arg
    IN  /\ Ready(t, "update")
        /\ \/ /\ c \notin players
              /\ Crash("at") /\ UNCHANGED killed
           \/ /\ c \in players
              /\ \E calls \in PlayerCollision(c) :
                   /\ Continue(t, calls)
                   /\ killed' = IF calls = <<>> THEN killed ELSE killed \cup {c}
              /\ UNCHANGED crashed
        /\ UNCHANGED <<conns, view, reports, players, powerups, server>>

\* DeletePowerup: the powerup may be gone already
DeletePowerup(t) ==
    /\ Ready(t, "delete")
    /\ powerups' \in {powerups} \cup (IF powerups > 0 THEN {powerups - 1} ELSE {})
    /\ Continue(t, <<MessageAllClients(Msg("PowerupEaten", Null), Head(stack[t]).arg)>>)
    /\ UNCHANGED <<conns, crashed, view, reports, players, killed, server>>

----------------------------------------------------------------------------
Step(t) ==
    \/ Enter(t) \/ Skip(t) \/ ReportNull(t) \/ Reset(t) \/ Leave(t) \/ Erase(t)
    \/ \E c \in Clients : Send(t, c) \/ Report(t, c)
    \/ Count(t) \/ Fill(t) \/ Generate(t) \/ UpdatePlayer(t) \/ DeletePowerup(t)

Next ==
    \/ \E t \in Threads : Step(t)
    \/ Accept \/ OnMessage
    \/ \E c \in Clients : OnClientValidated(c) \/ Receive(c) \/ Close(c)

Spec == Init /\ [][Next]_vars

\* Fairness: both threads go on with the handler they are in, and main with its
\* queue.  Nobody has to connect, to answer, to send or to leave.
Fairness == (\A t \in Threads : WF_vars(Step(t))) /\ WF_vars(OnMessage)

----------------------------------------------------------------------------
(* Properties *)

\* the messages that the server sends
Messages ==
    [type : {"NewPlayer", "UpdatePlayer", "KillPlayer", "RemovePlayer", "StartGame"}, who : Clients]
        \cup [type : {"NewPowerup", "PowerupEaten"}, who : {Null}]

\* broadcasts that are called, and those that are under way
AllFrames == [do : {"all"}, msg : Messages, ignore : Clients \cup {Null}]

LoopFrames ==
    [do : {"loop"}, msg : Messages, ignore : Clients \cup {Null},
     i : Nat \ {0}, end : Nat, invalid : BOOLEAN, reporting : BOOLEAN]

\* the calls that may be on the stack of thread t: only a client that has left is
\* erased, and only main handles what a client has sent
Frames(t) ==
    AllFrames \cup LoopFrames
        \cup [do : {"erase"}, arg : (1..ids) \ open]
        \cup [do : {"count"}, arg : validated]
        \cup [do : {"fill"}, arg : Nat]
        \cup [do : {"generate"}, arg : {Null}]
        \cup [do : {"update", "delete"}, arg : IF t = "main" THEN validated ELSE {}]

\* Type invariant.
TypeOK ==
    /\ conns \in Seq((1..ids) \cup {Null})
    /\ ids \in 0..MaxClients /\ received \in 0..MaxMsgs
    /\ open \subseteq 1..ids /\ validated \subseteq 1..ids /\ late \subseteq (1..ids) \ open
    /\ players \subseteq validated /\ killed \subseteq validated
    /\ spawnpoints \in 0..NumSpawn /\ powerups \in Nat /\ gameStarted \in BOOLEAN
    /\ inbox \in Seq([type : {"UpdatePlayer", "PowerupEaten", "StartGame"}, who : validated])
    /\ DOMAIN stack = Threads /\ \A t \in Threads : stack[t] \in Seq(Frames(t))
    /\ crashed \in {"no", "stack overflow", "null", "at", "no spawnpoint"}
    /\ view \in [Clients -> SUBSET Clients]
    /\ reports \in [Clients -> Nat] /\ raced \in BOOLEAN

Quiet == crashed = "no" /\ \A t \in Threads : stack[t] = <<>>

\* Unless a handler has begun in the middle of the other thread's with a closed
\* connection in the list: between handlers the deque has no null entry left,
\* although the loops that make them nest and only the one that made it erases
\* it, and the players are exactly the validated clients that are still listed.
ListsAgree ==
    Quiet /\ ~raced => Null \notin Listed /\ players = Listed \cap validated

\* Unless a handler has begun in the middle of the other thread's with a closed
\* connection in the list: between handlers every client in the game has been
\* told of the same players as the server has, those that were killed apart,
\* whenever it joined and whoever left before.
ViewsAgree ==
    Quiet /\ ~raced => \A c \in open \cap players : view[c] \ killed = players \ killed

\* A client's disconnect is reported once ("Called when a client disconnects
\* from the game", SnekServer/server.h:25).
ReportedOnce == \A c \in Clients : reports[c] <= 1

\* As long as one connection at most has closed, MessageAllClients and
\* OnClientDisconnect call each other once and no more on each thread, also when
\* both threads have found that connection.  If no handler has begun meanwhile in
\* the middle of the other thread's, they do so for that connection only once,
\* and never for a pointer that has been reset.
OneLeavesSafely ==
    ids - Cardinality(open) <= 1 =>
        /\ \A t \in Threads : Loops(t) <= 2
        /\ crashed # "stack overflow"
        /\ raced \/ (ReportedOnce /\ crashed # "null")

\* players.at throws only for a client that has left: the player of a connected
\* client is there from its validation on, whatever was broadcast meanwhile.
ConnectedIsKnown == crashed = "at" => Head(stack["main"]).arg \notin open

\* OnClientConnect tests the spawnpoints and OnClientValidated takes one, so more
\* clients may be allowed than there are: spawnpoints.back() of an empty vector
\* needs a client more than there were spawnpoints at the start.
SpawnsSuffice == crashed = "no spawnpoint" => ids > NumSpawn

\* thread t begins a broadcast that comes to c, whose socket is closed
Finds(t, c) ==
    /\ stack[t] # <<>> /\ Head(stack[t]).do = "all" /\ Head(stack[t]).ignore # c
    /\ c \in Listed \ open

\* Only a broadcast notices that a client has left (SnekServer/server.h:25
\* "Called when a client disconnects from the game"), but the first one that is
\* not on behalf of that client does, and it is off the list then, unless a
\* handler of the other thread has begun meanwhile.
ClosedNoticed ==
    \A c \in Clients, t \in Threads :
        Finds(t, c) ~> (crashed # "no" \/ raced \/ (reports[c] > 0 /\ c \notin Listed))

\* A handler that has begun ends, unless the process does.
HandlersReturn == \A t \in Threads : []<>(stack[t] = <<>> \/ crashed # "no")

\* "At least one client has disconnected" (Networking/server.h:152): the loop
\* copes with several.
SeveralMayLeave == crashed \notin {"stack overflow", "null"}

\* "Called when server receives a msg from any client" (SnekServer/server.h:28):
\* OnMessage copes with a message whose sender has left.
AnyClientsMessage == crashed # "at"

\* "Send RemovePlayer msg to all clients" (SnekServer/server.cpp:98): between
\* handlers no client in the game has a player that has left the server.
RemovedIsForgotten ==
    Quiet => \A c \in open \cap players : view[c] \subseteq players \cup killed

============================================================================
