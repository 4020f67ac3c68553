-------------------------- MODULE SnekServerProofs --------------------------
(***************************************************************************)
(* What the server's sessions keep for every number of clients, spawn-     *)
(* points and messages, and with both threads' handlers overlapping.       *)
(***************************************************************************)
EXTENDS SnekServer, TLAPS, FiniteSetTheorems, SequenceTheorems

----------------------------------------------------------------------------
(* Calls on a stack *)

\* A call's frames replaced by the calls it makes are frames.
LEMMA Continued ==
    ASSUME NEW S, NEW s \in Seq(S), s # <<>>, NEW calls \in Seq(S)
    PROVE  calls \o Tail(s) \in Seq(S)
  OBVIOUS

\* A call that makes one call.
LEMMA One ==
    ASSUME NEW S, NEW f \in S
    PROVE  <<f>> \in Seq(S)
  OBVIOUS

\* A call that makes two.
LEMMA Two ==
    ASSUME NEW S, NEW f \in S, NEW g \in S
    PROVE  <<f, g>> \in Seq(S)
  OBVIOUS

\* Frames stay frames when there are more of them to be.
LEMMA Wider ==
    ASSUME NEW S, NEW T, S \subseteq T, NEW s \in Seq(S)
    PROVE  s \in Seq(T)
  BY SeqMonotonic

\* The frame of a handler that runs is a frame.
LEMMA Top ==
    ASSUME NEW S, NEW s \in Seq(S), s # <<>>
    PROVE  Head(s) \in S
  OBVIOUS

\* std::remove leaves a list of connections, none of them reset.
LEMMA CompactedType ==
    ASSUME TypeOK, NEW d \in Compacted
    PROVE  d \in Seq(1..ids)
<1>0. conns \in Seq((1..ids) \cup {Null}) /\ ids \in 0..MaxClients
  BY DEF TypeOK
<1>1. IsFiniteSet(Kept)
  <2>1. Kept \subseteq 1..Len(conns) /\ Len(conns) \in Nat
    BY <1>0 DEF Kept
  <2>2. IsFiniteSet(1..Len(conns))
    BY <2>1, FS_Interval
  <2> QED  BY <2>1, <2>2, FS_Subset
<1>2. Cardinality(Kept) \in Nat
  BY <1>1, FS_CardinalityType
<1>3. PICK g \in Ascending(Kept) : d = [i \in DOMAIN g |-> conns[g[i]]]
  BY DEF Compacted
<1>4. g \in [1..Cardinality(Kept) -> Kept]
  BY <1>3 DEF Ascending
<1>5. \A k \in Kept : conns[k] \in 1..ids
  BY <1>0, SnekServerAssumption DEF Kept, Null
<1>6. d \in [1..Cardinality(Kept) -> 1..ids]
  BY <1>3, <1>4, <1>5
<1> QED  BY <1>2, <1>6, SeqDef

----------------------------------------------------------------------------
(* Frames *)

StackOK == DOMAIN stack = Threads /\ \A t \in Threads : stack[t] \in Seq(Frames(t))

\* The frame of a call tells which call it is.
LEMMA Kinds ==
    ASSUME NEW t \in Threads, NEW f \in Frames(t)
    PROVE  /\ f.do = "all" => f \in AllFrames
           /\ f.do = "loop" => f \in LoopFrames
           /\ f.do = "erase" => f.arg \in (1..ids) \ open
           /\ f.do = "count" => f.arg \in validated
           /\ f.do = "fill" => f.arg \in Nat
           /\ f.do \in {"update", "delete"} => t = "main" /\ f.arg \in validated
  BY DEF Frames, AllFrames, LoopFrames

\* Calls that are frames.
LEMMA Callable ==
    ASSUME NEW t \in Threads
    PROVE  /\ \A m \in Messages, i \in Clients \cup {Null} : MessageAllClients(m, i) \in Frames(t)
           /\ \A c \in (1..ids) \ open : Call("erase", c) \in Frames(t)
           /\ \A c \in validated : Call("count", c) \in Frames(t)
           /\ \A n \in Nat : Call("fill", n) \in Frames(t)
           /\ Call("generate", Null) \in Frames(t)
           /\ t = "main" => \A c \in validated :
                Call("update", c) \in Frames(t) /\ Call("delete", c) \in Frames(t)
           /\ LoopFrames \subseteq Frames(t)
<1>1. \A m \in Messages, i \in Clients \cup {Null} : MessageAllClients(m, i) \in AllFrames
  BY DEF AllFrames, MessageAllClients
<1> QED  BY <1>1 DEF Frames, Call

\* A thread that goes on with calls has a stack of calls.
LEMMA StackStep ==
    ASSUME StackOK, UNCHANGED <<ids, open, validated>>,
           NEW t \in Threads, stack[t] # <<>>,
           NEW calls \in Seq(Frames(t)), Continue(t, calls)
    PROVE  StackOK'
<1>1. \A u \in Threads : Frames(u)' = Frames(u)
  BY DEF Frames, AllFrames, LoopFrames, Messages, Clients
<1>2. stack[t] \in Seq(Frames(t)) /\ DOMAIN stack = Threads
  BY DEF StackOK
<1>3. calls \o Tail(stack[t]) \in Seq(Frames(t))
  BY <1>2, Continued
<1>4. stack' = [stack EXCEPT ![t] = calls \o Tail(stack[t])]
  BY DEF Continue
<1>5. DOMAIN stack' = Threads
  BY <1>2, <1>4
<1>6. \A u \in Threads : stack'[u] \in Seq(Frames(u))
  BY <1>2, <1>3, <1>4 DEF StackOK
<1> QED  BY <1>1, <1>5, <1>6 DEF StackOK

----------------------------------------------------------------------------
(* The inductive invariant *)

\* The player of a connected client stays from its validation on, and every
\* validation took one spawnpoint.
IInv ==
    /\ TypeOK
    /\ open \cap validated \subseteq players
    /\ spawnpoints + Cardinality(validated) = NumSpawn
    /\ ConnectedIsKnown
    /\ SpawnsSuffice

\* What a step of a handler may change.
LEMMA Assemble ==
    ASSUME IInv, crashed = "no", UNCHANGED server,
           StackOK',
           conns' \in Seq((1..ids) \cup {Null}),
           crashed' \in {"no", "stack overflow", "null", "at"},
           view' \in [Clients -> SUBSET Clients],
           reports' \in [Clients -> Nat],
           players' \subseteq validated, open \cap validated \subseteq players',
           killed' \subseteq validated, powerups' \in Nat,
           ConnectedIsKnown'
    PROVE  IInv'
<1>1. /\ UNCHANGED <<ids, open, late, validated, spawnpoints, gameStarted, inbox, received, raced>>
      /\ SpawnsSuffice'
  BY DEF server, SpawnsSuffice
<1>2. TypeOK'
  BY <1>1 DEF IInv, TypeOK, StackOK, Clients
<1> QED  BY <1>1, <1>2 DEF IInv

\* A message that a client handles leaves it with known clients.
LEMMA AppliedType ==
    ASSUME NEW m \in Messages, NEW known \in SUBSET Clients
    PROVE  Applied(m, known) \in SUBSET Clients
  BY DEF Messages, Applied

\* The formula of OnClientValidated gives a number of powerups.
LEMMA PowerupCountType ==
    ASSUME NEW n \in Nat
    PROVE  PowerupCount(n) \in Nat
<1>1. n % 2 \in {0, 1}
  OBVIOUS
<1>2. (n % 2) * n \in Nat
  BY <1>1
<1> QED  BY <1>2 DEF PowerupCount

\* Finite sets of clients.
LEMMA Finite ==
    ASSUME TypeOK
    PROVE  /\ ids \in Nat
           /\ \A S \in SUBSET (1..ids) :
                IsFiniteSet(S) /\ Cardinality(S) \in Nat /\ Cardinality(S) <= ids
<1>1. ids \in 0..MaxClients
  BY DEF TypeOK
<1>2. ids \in Nat
  BY <1>1, SnekServerAssumption
<1>3. IsFiniteSet(1..ids) /\ Cardinality(1..ids) = ids
  BY <1>2, FS_Interval
<1> QED  BY <1>2, <1>3, FS_Subset, FS_CardinalityType

----------------------------------------------------------------------------
(* Every step keeps it *)

\* The steps of the two threads inside a handler, one by one.
LEMMA StepKeeps ==
    ASSUME IInv, NEW t \in Threads, Step(t)
    PROVE  IInv'
<1> DEFINE f == Head(stack[t])
<1>1. /\ crashed = "no" /\ stack[t] # <<>> /\ UNCHANGED server
      /\ UNCHANGED <<ids, open, validated>>
  BY DEF Step, Enter, Skip, ReportNull, Reset, Leave, Erase, Send, Report, Count, Fill, Generate,
         UpdatePlayer, DeletePowerup, AtEntry, Ready, server
<1>2. /\ StackOK /\ f \in Frames(t)
      /\ conns \in Seq((1..ids) \cup {Null}) /\ ids \in Nat
      /\ view \in [Clients -> SUBSET Clients]
      /\ reports \in [Clients -> Nat]
      /\ players \subseteq validated /\ open \cap validated \subseteq players
      /\ killed \subseteq validated /\ validated \subseteq 1..ids /\ 1..ids \subseteq Clients
      /\ powerups \in Nat
  <2>1. StackOK
    BY DEF IInv, TypeOK, StackOK
  <2>2. f \in Frames(t)
    BY <1>1, <2>1, Top DEF StackOK
  <2>3. ids \in 0..MaxClients
    BY DEF IInv, TypeOK
  <2>4. ids \in Nat /\ 1..ids \subseteq Clients
    BY <2>3, SnekServerAssumption DEF Clients
  <2> QED  BY <2>1, <2>2, <2>4 DEF IInv, TypeOK
<1>3. /\ f.do = "all" => f \in AllFrames
      /\ f.do = "loop" => f \in LoopFrames
      /\ f.do = "erase" => f.arg \in (1..ids) \ open
      /\ f.do = "count" => f.arg \in validated
      /\ f.do = "fill" => f.arg \in Nat
      /\ f.do \in {"update", "delete"} => t = "main" /\ f.arg \in validated
  BY <1>2, Kinds
<1>4. ASSUME crashed' = "no"
      PROVE  ConnectedIsKnown'
  BY <1>4 DEF ConnectedIsKnown
<1>5. ASSUME NEW calls \in Seq(Frames(t)), Continue(t, calls)
      PROVE  StackOK'
  BY <1>1, <1>2, <1>5, StackStep
<1>6. <<>> \in Seq(Frames(t))
  OBVIOUS
<1>7. ASSUME UNCHANGED stack
      PROVE  StackOK'
  BY <1>1, <1>2, <1>7 DEF StackOK, Frames, AllFrames, LoopFrames, Messages, Clients
<1>8. CASE Enter(t)
  <2>1. UNCHANGED <<conns, view, reports, players, powerups, killed>>
    BY <1>8 DEF Enter, game
  <2>2. CASE Loops(t) < MaxDepth
    <3>1. f \in AllFrames /\ Continue(t, <<Loop(f.msg, f.ignore)>>) /\ crashed' = "no"
      BY <1>1, <1>3, <1>8, <2>2 DEF Enter, Ready
    <3>2. Len(conns) \in Nat
      BY <1>2
    <3>3. Loop(f.msg, f.ignore) \in LoopFrames
      BY <3>1, <3>2 DEF Loop, AllFrames, LoopFrames
    <3>4. <<Loop(f.msg, f.ignore)>> \in Seq(Frames(t))
      BY <3>3, Callable, One
    <3> QED  BY <1>1, <1>2, <1>4, <1>5, <2>1, <3>1, <3>4, Assemble
  <2>3. CASE ~(Loops(t) < MaxDepth)
    <3>1. crashed' = "stack overflow" /\ UNCHANGED stack
      BY <1>8, <2>3 DEF Enter, Crash
    <3> QED  BY <1>1, <1>2, <1>7, <2>1, <3>1, Assemble DEF ConnectedIsKnown
  <2> QED  BY <2>2, <2>3
<1>9. CASE Skip(t)
  <2>1. UNCHANGED <<conns, crashed, view, reports, players, powerups, killed>>
    BY <1>9 DEF Skip, game
  <2>2. f \in LoopFrames /\ Continue(t, <<Advance(f)>>)
    BY <1>3, <1>9 DEF Skip, AtEntry, Ready
  <2>3. Advance(f) \in LoopFrames
    BY <2>2 DEF Advance, LoopFrames
  <2>4. <<Advance(f)>> \in Seq(Frames(t))
    BY <2>3, Callable, One
  <2> QED  BY <1>1, <1>2, <1>4, <1>5, <2>1, <2>2, <2>4, Assemble
<1>10. CASE ReportNull(t)
  <2>1. /\ UNCHANGED <<conns, view, reports, players, powerups, killed, stack>>
        /\ crashed' = "null"
    BY <1>10 DEF ReportNull, Crash, game
  <2> QED  BY <1>1, <1>2, <1>7, <2>1, Assemble DEF ConnectedIsKnown
<1>11. CASE Reset(t)
  <2> DEFINE g == [Invalidated(Advance(f)) EXCEPT !.reporting = FALSE]
  <2>1. /\ UNCHANGED <<crashed, view, reports, players, powerups, killed>>
        /\ f \in LoopFrames /\ Continue(t, <<g>>) /\ conns' = Cleared(f.i)
    BY <1>3, <1>11 DEF Reset, Ready, game
  <2>2. g \in LoopFrames
    <3>1. Advance(f) \in LoopFrames
      BY <2>1 DEF Advance, LoopFrames
    <3>2. Invalidated(Advance(f)) \in LoopFrames
      BY <3>1 DEF Invalidated, LoopFrames
    <3> QED  BY <3>2 DEF LoopFrames
  <2>3. <<g>> \in Seq(Frames(t))
    BY <2>2, Callable, One
  <2>4. f.i \in Nat \ {0}
    BY <2>1 DEF LoopFrames
  <2>5. conns' \in Seq((1..ids) \cup {Null})
    <3>1. CASE f.i <= Len(conns)
      <4>1. f.i \in 1..Len(conns) /\ conns' = [conns EXCEPT ![f.i] = Null]
        BY <1>2, <2>1, <2>4, <3>1 DEF Cleared
      <4> QED  BY <1>2, <4>1, ExceptSeq
    <3>2. CASE ~(f.i <= Len(conns))
      BY <1>2, <2>1, <3>2 DEF Cleared
    <3> QED  BY <3>1, <3>2
  <2> HIDE DEF g
  <2> QED  BY <1>1, <1>2, <1>4, <1>5, <2>1, <2>3, <2>5, Assemble
<1>12. CASE Leave(t)
  <2>1. /\ UNCHANGED <<crashed, view, reports, players, powerups, killed>>
        /\ Continue(t, <<>>) /\ conns' \in IF f.invalid THEN Compacted ELSE {conns}
    BY <1>12 DEF Leave, game
  <2>2. \A d \in Compacted : d \in Seq((1..ids) \cup {Null})
    <3>1. \A d \in Compacted : d \in Seq(1..ids)
      BY CompactedType DEF IInv
    <3> QED  BY <3>1, Wider
  <2>3. conns' \in Seq((1..ids) \cup {Null})
    BY <1>2, <2>1, <2>2
  <2> QED  BY <1>1, <1>2, <1>4, <1>5, <1>6, <2>1, <2>3, Assemble
<1>13. CASE Erase(t)
  <2>1. /\ UNCHANGED <<conns, crashed, view, reports, powerups, killed>>
        /\ Continue(t, <<>>) /\ players' = players \ {f.arg} /\ f.arg \notin open
    BY <1>3, <1>13 DEF Erase, Ready
  <2> QED  BY <1>1, <1>2, <1>4, <1>5, <1>6, <2>1, Assemble
<1>14. ASSUME NEW c \in Clients, Send(t, c)
       PROVE  IInv'
  <2>1. UNCHANGED <<conns, crashed, reports, players, powerups, killed>>
    BY <1>14 DEF Send, game
  <2>2. /\ f \in LoopFrames /\ Continue(t, <<Advance(f)>>)
        /\ view' = [view EXCEPT ![c] = Applied(f.msg, view[c])]
    BY <1>3, <1>14 DEF Send, AtEntry, Ready
  <2>3. Advance(f) \in LoopFrames
    BY <2>2 DEF Advance, LoopFrames
  <2>4. <<Advance(f)>> \in Seq(Frames(t))
    BY <2>3, Callable, One
  <2>5. f.msg \in Messages
    BY <2>2 DEF LoopFrames
  <2>6. Applied(f.msg, view[c]) \in SUBSET Clients
    BY <1>2, <2>5, AppliedType
  <2>7. view' \in [Clients -> SUBSET Clients]
    BY <1>2, <2>2, <2>6
  <2> QED  BY <1>1, <1>2, <1>4, <1>5, <2>1, <2>2, <2>4, <2>7, Assemble
<1>15. ASSUME NEW c \in Clients, Report(t, c)
       PROVE  IInv'
  <2> DEFINE g == [f EXCEPT !.reporting = TRUE]
             m == MessageAllClients(Msg("RemovePlayer", c), c)
  <2>1. /\ UNCHANGED <<conns, crashed, view, players, powerups, killed>>
        /\ f \in LoopFrames /\ Continue(t, <<m, Call("erase", c)>> \o <<g>>)
        /\ reports' = [reports EXCEPT ![c] = reports[c] + 1]
        /\ Entry(f) = c /\ c \notin open
    BY <1>3, <1>15 DEF Report, AtEntry, Ready, game, OnClientDisconnect
  <2>2. c \in 1..ids
    <3>1. f.i \in Nat \ {0} /\ c # Null
      BY <2>1 DEF LoopFrames, Clients, Null
    <3> QED  BY <1>2, <2>1, <3>1 DEF Entry
  <2>3. g \in Frames(t)
    <3>1. g \in LoopFrames
      BY <2>1 DEF LoopFrames
    <3> QED  BY <3>1, Callable
  <2>4. m \in Frames(t) /\ Call("erase", c) \in Frames(t)
    <3>1. Msg("RemovePlayer", c) \in Messages
      BY DEF Msg, Messages
    <3> QED  BY <2>1, <2>2, <3>1, Callable
  <2>5. <<m, Call("erase", c)>> \o <<g>> \in Seq(Frames(t))
    <3>1. <<m, Call("erase", c)>> \in Seq(Frames(t)) /\ <<g>> \in Seq(Frames(t))
      BY <2>3, <2>4, One, Two
    <3> QED  BY <3>1, ConcatProperties
  <2>6. reports' \in [Clients -> Nat]
    BY <1>2, <2>1
  <2> HIDE DEF g, m
  <2> QED  BY <1>1, <1>2, <1>4, <1>5, <2>1, <2>5, <2>6, Assemble
<1>16. CASE Count(t)
  <2> DEFINE g == Call("fill", PowerupCount(Cardinality(players)))
  <2>1. /\ UNCHANGED <<conns, crashed, view, reports, players, powerups, killed>>
        /\ Continue(t, <<g>>)
    BY <1>16 DEF Count, game
  <2>2. Cardinality(players) \in Nat
    BY <1>2, Finite DEF IInv
  <2>3. PowerupCount(Cardinality(players)) \in Nat
    BY <2>2, PowerupCountType
  <2>4. g \in Frames(t)
    BY <2>3, Callable
  <2>5. <<g>> \in Seq(Frames(t))
    BY <2>4, One
  <2> HIDE DEF g
  <2> QED  BY <1>1, <1>2, <1>4, <1>5, <2>1, <2>5, Assemble
<1>17. CASE Fill(t)
  <2>1. UNCHANGED <<conns, crashed, view, reports, players, powerups, killed>>
    BY <1>17 DEF Fill, game
  <2>2. Continue(t, IF powerups < f.arg THEN <<Call("generate", Null), f>> ELSE <<>>)
    BY <1>17 DEF Fill
  <2>3. <<Call("generate", Null), f>> \in Seq(Frames(t))
    BY <1>2, Callable, Two
  <2>4. (IF powerups < f.arg THEN <<Call("generate", Null), f>> ELSE <<>>) \in Seq(Frames(t))
    BY <1>6, <2>3
  <2> QED  BY <1>1, <1>2, <1>4, <1>5, <2>1, <2>2, <2>4, Assemble
<1>18. CASE Generate(t)
  <2> DEFINE m == MessageAllClients(Msg("NewPowerup", Null), Null)
  <2>1. /\ UNCHANGED <<conns, crashed, view, reports, players, killed>>
        /\ powerups' = powerups + 1 /\ Continue(t, <<m>>)
    BY <1>18 DEF Generate
  <2>2. Msg("NewPowerup", Null) \in Messages
    BY DEF Msg, Messages
  <2>3. <<m>> \in Seq(Frames(t))
    BY <2>2, Callable, One
  <2>4. powerups' \in Nat
    BY <1>2, <2>1
  <2> HIDE DEF m
  <2> QED  BY <1>1, <1>2, <1>4, <1>5, <2>1, <2>3, <2>4, Assemble
<1>19. CASE UpdatePlayer(t)
  <2>1. /\ UNCHANGED <<conns, view, reports, players, powerups>>
        /\ t = "main" /\ f.arg \in validated
    BY <1>3, <1>19 DEF UpdatePlayer, Ready
  <2>2. CASE f.arg \notin players
    <3>1. crashed' = "at" /\ UNCHANGED <<stack, killed>>
      BY <1>19, <2>2 DEF UpdatePlayer, Crash
    <3>2. ConnectedIsKnown'
      BY <1>1, <1>2, <2>1, <2>2, <3>1 DEF ConnectedIsKnown
    <3> QED  BY <1>1, <1>2, <1>7, <2>1, <3>1, <3>2, Assemble
  <2>3. CASE f.arg \in players
    <3>1. PICK calls \in PlayerCollision(f.arg) :
               /\ Continue(t, calls) /\ crashed' = crashed
               /\ killed' = IF calls = <<>> THEN killed ELSE killed \cup {f.arg}
      BY <1>19, <2>3 DEF UpdatePlayer
    <3>2. f.arg \in Clients
      BY <1>2, <2>1
    <3>3. Msg("KillPlayer", f.arg) \in Messages
      BY <3>2 DEF Msg, Messages
    <3>4. SendKillMessage(f.arg) \in Frames(t)
      BY <3>3, Callable DEF SendKillMessage
    <3>5. calls \in Seq(Frames(t))
      BY <1>6, <3>1, <3>4, One DEF PlayerCollision
    <3>6. killed' \subseteq validated
      BY <1>2, <2>1, <3>1
    <3> QED  BY <1>1, <1>2, <1>4, <1>5, <2>1, <3>1, <3>5, <3>6, Assemble
  <2> QED  BY <2>2, <2>3
<1>20. CASE DeletePowerup(t)
  <2> DEFINE m == MessageAllClients(Msg("PowerupEaten", Null), f.arg)
  <2>1. /\ UNCHANGED <<conns, crashed, view, reports, players, killed>>
        /\ Continue(t, <<m>>) /\ f.arg \in validated
        /\ powerups' \in {powerups} \cup (IF powerups > 0 THEN {powerups - 1} ELSE {})
    BY <1>3, <1>20 DEF DeletePowerup, Ready
  <2>2. Msg("PowerupEaten", Null) \in Messages /\ f.arg \in Clients
    BY <1>2, <2>1 DEF Msg, Messages
  <2>3. <<m>> \in Seq(Frames(t))
    BY <2>2, Callable, One
  <2>4. powerups' \in Nat
    BY <1>2, <2>1
  <2> HIDE DEF m
  <2> QED  BY <1>1, <1>2, <1>4, <1>5, <2>1, <2>3, <2>4, Assemble
<1> QED
  BY <1>8, <1>9, <1>10, <1>11, <1>12, <1>13, <1>14, <1>15, <1>16, <1>17, <1>18, <1>19, <1>20 DEF Step

\* Clients that join, are validated or leave keep every call on the stacks a call.
LEMMA Widened ==
    ASSUME NEW u \in Threads, ids \in Nat, open \subseteq 1..ids,
           ids' \in Nat, ids <= ids', validated \subseteq validated',
           \A c \in 1..ids : c \in open' => c \in open
    PROVE  Frames(u) \subseteq Frames(u)'
<1>1. (1..ids) \ open \subseteq ((1..ids) \ open)'
  OBVIOUS
<1>2. AllFrames' = AllFrames /\ LoopFrames' = LoopFrames
  BY DEF AllFrames, LoopFrames, Messages, Clients
<1>3. /\ [do : {"erase"}, arg : (1..ids) \ open] \subseteq [do : {"erase"}, arg : (1..ids) \ open]'
      /\ [do : {"count"}, arg : validated] \subseteq [do : {"count"}, arg : validated]'
      /\ [do : {"update", "delete"}, arg : IF u = "main" THEN validated ELSE {}]
           \subseteq [do : {"update", "delete"}, arg : IF u = "main" THEN validated ELSE {}]'
  BY <1>1
<1> QED  BY <1>2, <1>3 DEF Frames

\* The steps that start a handler, and those of the clients.
LEMMA HandlersKeep ==
    ASSUME IInv,
           Accept \/ OnMessage \/ \E c \in Clients : OnClientValidated(c) \/ Receive(c) \/ Close(c)
    PROVE  IInv'
<1>1. /\ crashed = "no"
      /\ conns \in Seq((1..ids) \cup {Null})
      /\ ids \in 0..MaxClients /\ received \in 0..MaxMsgs
      /\ open \subseteq 1..ids /\ validated \subseteq 1..ids
      /\ late \subseteq (1..ids) \ open /\ raced \in BOOLEAN
      /\ players \subseteq validated /\ killed \subseteq validated
      /\ spawnpoints \in 0..NumSpawn /\ powerups \in Nat /\ gameStarted \in BOOLEAN
      /\ inbox \in Seq([type : {"UpdatePlayer", "PowerupEaten", "StartGame"}, who : validated])
      /\ view \in [Clients -> SUBSET Clients]
      /\ reports \in [Clients -> Nat]
      /\ open \cap validated \subseteq players
      /\ spawnpoints + Cardinality(validated) = NumSpawn
  BY DEF IInv, TypeOK, Accept, OnMessage, OnClientValidated, Receive, Close, Start
<1>2. /\ ids \in Nat /\ 1..ids \subseteq Clients
      /\ DOMAIN stack = Threads /\ \A u \in Threads : stack[u] \in Seq(Frames(u))
  <2>1. ids \in Nat /\ 1..ids \subseteq Clients
    BY <1>1, SnekServerAssumption DEF Clients
  <2> QED  BY <2>1 DEF IInv, TypeOK
<1>3. ASSUME ids' \in Nat, ids <= ids', validated \subseteq validated',
             \A c \in 1..ids : c \in open' => c \in open
      PROVE  \A u \in Threads : stack[u] \in Seq(Frames(u)') /\ Frames(u) \subseteq Frames(u)'
  BY <1>1, <1>2, <1>3, Widened, Wider
<1>4. ASSUME crashed' = "no"
      PROVE  ConnectedIsKnown' /\ SpawnsSuffice'
  BY <1>4 DEF ConnectedIsKnown, SpawnsSuffice
<1>5. ASSUME NEW t \in Threads, NEW calls \in Seq(Frames(t)'), Start(t, calls),
             \A u \in Threads : stack[u] \in Seq(Frames(u)')
      PROVE  /\ DOMAIN stack' = Threads /\ \A u \in Threads : stack'[u] \in Seq(Frames(u)')
             /\ raced' \in BOOLEAN
  <2>1. stack' = [stack EXCEPT ![t] = calls] /\ raced' \in BOOLEAN
    BY <1>5 DEF Start
  <2> QED  BY <1>2, <1>5, <2>1
<1>6. CASE Accept
  <2>1. /\ ids' = ids + 1 /\ ids < MaxClients /\ conns' = Append(conns, ids + 1)
        /\ open' = open \cup {ids + 1} /\ Start("asio", <<>>)
        /\ UNCHANGED <<late, validated, spawnpoints, gameStarted, inbox, received, crashed, view,
                       reports>>
        /\ UNCHANGED <<players, powerups, killed>>
    BY <1>6 DEF Accept, NextId, game
  <2>2. /\ ids' \in Nat /\ ids <= ids' /\ ids' \in 0..MaxClients /\ 1..ids \subseteq 1..ids'
        /\ ids' \in 1..ids' /\ ids' \notin 1..ids
    BY <1>2, <2>1, SnekServerAssumption
  <2>3. \A u \in Threads : stack[u] \in Seq(Frames(u)') /\ Frames(u) \subseteq Frames(u)'
    BY <1>3, <2>1, <2>2
  <2>4. /\ DOMAIN stack' = Threads /\ \A u \in Threads : stack'[u] \in Seq(Frames(u)')
        /\ raced' \in BOOLEAN
    <3>1. <<>> \in Seq(Frames("asio")') /\ "asio" \in Threads
      BY DEF Threads
    <3> QED  BY <1>5, <2>1, <2>3, <3>1
  <2>5. conns' \in Seq((1..ids') \cup {Null})
    <3>1. conns \in Seq((1..ids') \cup {Null})
      BY <1>1, <2>2, Wider
    <3> QED  BY <2>1, <2>2, <3>1
  <2>6. /\ open' \subseteq 1..ids' /\ validated' \subseteq 1..ids' /\ open' \cap validated' \subseteq players'
        /\ late' \subseteq (1..ids') \ open'
    BY <1>1, <2>1, <2>2
  <2>7. TypeOK'
    BY <1>1, <2>1, <2>2, <2>4, <2>5, <2>6 DEF TypeOK, Clients
  <2> QED  BY <1>1, <1>4, <2>1, <2>6, <2>7 DEF IInv
<1>7. CASE OnMessage
  <2> DEFINE m == Head(inbox)
  <2>1. /\ inbox # <<>> /\ Start("main", Handling(m)) /\ inbox' = Tail(inbox)
        /\ gameStarted' = (gameStarted \/ m.type = "StartGame")
        /\ UNCHANGED <<conns, ids, open, late, validated, spawnpoints, received, crashed, view,
                       reports>>
        /\ UNCHANGED <<players, powerups, killed>>
    BY <1>7 DEF OnMessage, game
  <2>2. /\ m \in [type : {"UpdatePlayer", "PowerupEaten", "StartGame"}, who : validated]
        /\ inbox' \in Seq([type : {"UpdatePlayer", "PowerupEaten", "StartGame"}, who : validated])
    BY <1>1, <2>1, HeadTailProperties
  <2>3. m.who \in validated /\ m.who \in Clients /\ "main" \in Threads
    BY <1>1, <1>2, <2>2 DEF Threads
  <2>4. Handling(m) \in Seq(Frames("main"))
    <3>1. CASE m.type = "UpdatePlayer"
      <4>1. m \in Messages
        BY <2>2, <2>3, <3>1 DEF Messages
      <4>2. MessageAllClients(m, m.who) \in Frames("main") /\ Call("update", m.who) \in Frames("main")
        BY <2>3, <4>1, Callable
      <4>3. Handling(m) = <<MessageAllClients(m, m.who), Call("update", m.who)>>
        BY <3>1 DEF Handling
      <4> QED  BY <4>2, <4>3, Two
    <3>2. CASE m.type = "PowerupEaten"
      <4>1. Call("delete", m.who) \in Frames("main") /\ Call("generate", Null) \in Frames("main")
        BY <2>3, Callable
      <4>2. Handling(m) = <<Call("delete", m.who), Call("generate", Null)>>
        BY <3>2 DEF Handling
      <4> QED  BY <4>1, <4>2, Two
    <3>3. CASE m.type = "StartGame"
      <4>1. m \in Messages
        BY <2>2, <2>3, <3>3 DEF Messages
      <4>2. MessageAllClients(m, Null) \in Frames("main")
        BY <2>3, <4>1, Callable
      <4>3. Handling(m) = <<MessageAllClients(m, Null)>>
        BY <3>3 DEF Handling
      <4> QED  BY <4>2, <4>3, One
    <3> QED  BY <2>2, <3>1, <3>2, <3>3
  <2> HIDE DEF m
  <2>5. \A u \in Threads : stack[u] \in Seq(Frames(u)') /\ Frames(u) \subseteq Frames(u)'
    BY <1>2, <1>3, <2>1
  <2>6. Handling(m) \in Seq(Frames("main")')
    BY <2>3, <2>4, <2>5, Wider
  <2>7. /\ DOMAIN stack' = Threads /\ \A u \in Threads : stack'[u] \in Seq(Frames(u)')
        /\ raced' \in BOOLEAN
    BY <1>5, <2>1, <2>3, <2>5, <2>6
  <2>8. TypeOK'
    BY <1>1, <2>1, <2>2, <2>7 DEF TypeOK, Clients
  <2> QED  BY <1>1, <1>4, <2>1, <2>8 DEF IInv
<1>8. ASSUME NEW c \in Clients, OnClientValidated(c)
      PROVE  IInv'
  <2>1. /\ c \notin validated /\ c \in 1..ids /\ late' \subseteq (1..ids) \ open
        /\ UNCHANGED <<conns, ids, open, gameStarted, inbox, received, powerups, killed, reports>>
    BY <1>1, <1>8 DEF OnClientValidated
  <2>2. /\ IsFiniteSet(validated) /\ Cardinality(validated) \in Nat
        /\ Cardinality(validated \cup {c}) = Cardinality(validated) + 1
        /\ Cardinality(validated \cup {c}) <= ids
    <3>1. TypeOK
      BY DEF IInv
    <3>2. validated \cup {c} \subseteq 1..ids
      BY <1>1, <2>1
    <3> QED  BY <1>1, <2>1, <3>1, <3>2, Finite, FS_AddElement
  <2>3. CASE spawnpoints = 0
    <3>1. /\ Start("asio", <<>>) /\ crashed' = "no spawnpoint"
          /\ UNCHANGED <<validated, players, spawnpoints, view>>
      BY <1>8, <2>3 DEF OnClientValidated
    <3>2. \A u \in Threads : stack[u] \in Seq(Frames(u)')
      <4>1. /\ ids' \in Nat /\ ids <= ids' /\ validated \subseteq validated'
            /\ \A d \in 1..ids : d \in open' => d \in open
        <5>1. ids' = ids /\ open' = open /\ validated' = validated /\ ids \in Nat
          BY <1>2, <2>1, <3>1
        <5> QED  BY <5>1
      <4> QED  BY <1>3, <4>1
    <3>3. /\ DOMAIN stack' = Threads /\ \A u \in Threads : stack'[u] \in Seq(Frames(u)')
          /\ raced' \in BOOLEAN
      <4>1. <<>> \in Seq(Frames("asio")') /\ "asio" \in Threads
        BY DEF Threads
      <4> QED  BY <1>5, <3>1, <3>2, <4>1
    <3>4. TypeOK'
      BY <1>1, <2>1, <3>1, <3>3 DEF TypeOK, Clients
    <3>5. ids > NumSpawn
      BY <1>1, <1>2, <2>2, <2>3, SnekServerAssumption
    <3> QED  BY <1>1, <2>1, <3>1, <3>4, <3>5 DEF IInv, ConnectedIsKnown, SpawnsSuffice
  <2>4. CASE spawnpoints # 0
    <3> DEFINE calls == <<MessageAllClients(Msg("NewPlayer", c), c), Call("count", c)>>
    <3>1. /\ Start("asio", calls) /\ UNCHANGED crashed
          /\ spawnpoints' = spawnpoints - 1 /\ validated' = validated \cup {c}
          /\ players' = players \cup {c}
          /\ view' = [view EXCEPT ![c] = view[c] \cup Snapshot(c)]
      BY <1>8, <2>4 DEF OnClientValidated, SpawnTaken, WithPlayer
    <3>2. \A u \in Threads : stack[u] \in Seq(Frames(u)') /\ Frames(u) \subseteq Frames(u)'
      <4>1. /\ ids' \in Nat /\ ids <= ids' /\ validated \subseteq validated'
            /\ \A d \in 1..ids : d \in open' => d \in open
        BY <1>2, <2>1, <3>1
      <4> QED  BY <1>3, <4>1
    <3>3. calls \in Seq(Frames("asio")')
      <4>1. Msg("NewPlayer", c) \in Messages /\ "asio" \in Threads
        BY DEF Msg, Messages, Threads
      <4>2. MessageAllClients(Msg("NewPlayer", c), c) \in Frames("asio")'
        BY <3>2, <4>1, Callable
      <4>3. Call("count", c) \in Frames("asio")'
        BY <3>1 DEF Call, Frames
      <4> QED  BY <4>2, <4>3, Two
    <3> HIDE DEF calls
    <3>4. /\ DOMAIN stack' = Threads /\ \A u \in Threads : stack'[u] \in Seq(Frames(u)')
          /\ raced' \in BOOLEAN
      <4>1. "asio" \in Threads
        BY DEF Threads
      <4> QED  BY <1>5, <3>1, <3>2, <3>3, <4>1
    <3>5. /\ validated' \subseteq 1..ids' /\ players' \subseteq validated' /\ killed' \subseteq validated'
          /\ open' \cap validated' \subseteq players'
      BY <1>1, <2>1, <3>1
    <3>6. view' \in [Clients -> SUBSET Clients]
      <4>1. Snapshot(c) \subseteq Clients /\ view[c] \subseteq Clients
        BY <1>1, <1>2 DEF Snapshot
      <4> QED  BY <1>1, <3>1, <4>1
    <3>7. inbox' \in Seq([type : {"UpdatePlayer", "PowerupEaten", "StartGame"}, who : validated'])
      <4>1. [type : {"UpdatePlayer", "PowerupEaten", "StartGame"}, who : validated]
              \subseteq [type : {"UpdatePlayer", "PowerupEaten", "StartGame"}, who : validated']
        BY <3>1
      <4> QED  BY <1>1, <2>1, <4>1, Wider
    <3>8. spawnpoints' \in 0..NumSpawn /\ spawnpoints' + Cardinality(validated') = NumSpawn
      BY <1>1, <2>2, <2>4, <3>1, SnekServerAssumption
    <3>9. TypeOK'
      BY <1>1, <2>1, <3>1, <3>4, <3>5, <3>6, <3>7, <3>8 DEF TypeOK, Clients
    <3> QED  BY <1>1, <1>4, <2>1, <3>1, <3>5, <3>8, <3>9 DEF IInv
  <2> QED  BY <2>3, <2>4
<1>9. ASSUME NEW c \in Clients, Receive(c)
      PROVE  IInv'
  <2>1. /\ c \in validated /\ received < MaxMsgs /\ received' = received + 1
        /\ UNCHANGED <<conns, ids, open, validated, spawnpoints, gameStarted, stack, crashed,
                       view, reports, players, powerups, killed, raced>>
        /\ late' \subseteq (1..ids) \ open
    BY <1>1, <1>9 DEF Receive, game
  <2>2. PICK type \in {"UpdatePlayer", "PowerupEaten", "StartGame"} : inbox' = Append(inbox, Msg(type, c))
    BY <1>9 DEF Receive
  <2>3. inbox' \in Seq([type : {"UpdatePlayer", "PowerupEaten", "StartGame"}, who : validated])
    <3>1. Msg(type, c) \in [type : {"UpdatePlayer", "PowerupEaten", "StartGame"}, who : validated]
      BY <2>1 DEF Msg
    <3> QED  BY <1>1, <2>2, <3>1, AppendProperties
  <2>4. received' \in 0..MaxMsgs
    BY <1>1, <2>1, SnekServerAssumption
  <2>5. \A u \in Threads : stack'[u] \in Seq(Frames(u)')
    BY <1>2, <1>3, <2>1
  <2>6. TypeOK'
    BY <1>1, <1>2, <2>1, <2>3, <2>4, <2>5 DEF TypeOK, Clients
  <2> QED  BY <1>1, <1>4, <2>1, <2>6 DEF IInv
<1>10. ASSUME NEW c \in Clients, Close(c)
       PROVE  IInv'
  <2>1. /\ open' = open \ {c}
        /\ UNCHANGED <<conns, ids, validated, spawnpoints, gameStarted, inbox, received, stack,
                       crashed, view, reports, players, powerups, killed, raced>>
    BY <1>10 DEF Close, game
  <2>2. \A u \in Threads : stack'[u] \in Seq(Frames(u)')
    BY <1>2, <1>3, <2>1
  <2>3. /\ open' \subseteq 1..ids' /\ open' \cap validated' \subseteq players'
        /\ late' \subseteq (1..ids') \ open'
    <3>1. c \in open /\ late' \in {late, late \cup {c}}
      BY <1>10 DEF Close
    <3> QED  BY <1>1, <2>1, <3>1
  <2>4. TypeOK'
    BY <1>1, <1>2, <2>1, <2>2, <2>3 DEF TypeOK, Clients
  <2> QED  BY <1>1, <1>4, <2>1, <2>3, <2>4 DEF IInv
<1> QED  BY <1>6, <1>7, <1>8, <1>9, <1>10

----------------------------------------------------------------------------
(* The theorems *)

\* The server is constructed.
LEMMA InitIInv == Init => IInv
<1> SUFFICES ASSUME Init PROVE IInv
  OBVIOUS
<1>1. /\ spawnpoints \in 0..NumSpawn /\ received \in 0..MaxMsgs /\ ids \in 0..MaxClients
      /\ spawnpoints + Cardinality(validated) = NumSpawn
  BY SnekServerAssumption, FS_EmptySet DEF Init
<1>2. \A t \in Threads : stack[t] \in Seq(Frames(t))
  BY DEF Init
<1>3. conns \in Seq((1..ids) \cup {Null}) /\ inbox \in
        Seq([type : {"UpdatePlayer", "PowerupEaten", "StartGame"}, who : validated])
  BY DEF Init
<1>4. TypeOK
  BY <1>1, <1>2, <1>3 DEF Init, TypeOK, Threads
<1> QED  BY <1>1, <1>4 DEF Init, IInv, ConnectedIsKnown, SpawnsSuffice

\* One step of either thread or of a client.
LEMMA NextIInv == IInv /\ [Next]_vars => IInv'
<1> SUFFICES ASSUME IInv, [Next]_vars PROVE IInv'
  OBVIOUS
<1>1. CASE Next
  BY <1>1, StepKeeps, HandlersKeep DEF Next
<1>2. CASE UNCHANGED vars
  BY <1>2 DEF vars, IInv, TypeOK, ConnectedIsKnown, SpawnsSuffice, Clients, Threads, Frames,
              AllFrames, LoopFrames, Messages
<1> QED  BY <1>1, <1>2

\* The inductive invariant holds of every behaviour of the server's two threads
\* (Networking/server.h, SnekServer/server.cpp), for any number of clients.
THEOREM InvariantHolds == Spec => []IInv
  BY InitIInv, NextIInv, PTL DEF Spec

\* The server's state stays what its handlers take it for with any number of
\* clients and however the two threads overlap: ids of accepted clients in the
\* list, senders of queued messages validated, only clients that have left erased.
THEOREM TypeCorrect == Spec => []TypeOK
<1>1. IInv => TypeOK
  BY DEF IInv
<1> QED  BY <1>1, InvariantHolds, PTL

\* players.at in OnMessage (SnekServer/server.cpp) throws only for a sender that
\* has left, although the other thread erases and adds players meanwhile.
THEOREM ConnectedKnown == Spec => []ConnectedIsKnown
<1>1. IInv => ConnectedIsKnown
  BY DEF IInv
<1> QED  BY <1>1, InvariantHolds, PTL

\* spawnpoints.back() is taken of an empty vector only after more clients were
\* allowed than there were spawnpoints.
THEOREM SpawnpointsSuffice == Spec => []SpawnsSuffice
<1>1. IInv => SpawnsSuffice
  BY DEF IInv
<1> QED  BY <1>1, InvariantHolds, PTL

============================================================================
