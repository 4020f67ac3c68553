-------------------------- MODULE DepartureProofs ---------------------------
(***************************************************************************)
(* What the server makes of clients that leave, for every number of        *)
(* clients, messages and departures, until a handler begins in the middle  *)
(* of the other thread's with a closed connection in the list (raced).     *)
(* Handlers overlap freely while all that are listed are connected, and a  *)
(* client may close, connect or send in the middle of a handler of main.   *)
(*                                                                         *)
(* MessageAllClients and OnClientDisconnect call each other.  A handler's  *)
(* own broadcast may find one closed connection after the other and        *)
(* returns; the broadcast of RemovePlayer in it never does when it finds a *)
(* second one, because both are in the list until it has returned.         *)
(***************************************************************************)
EXTENDS SnekServerProofs

----------------------------------------------------------------------------
(* A thread's stack *)

\* s has no broadcast below its n-th frame, neither called nor under way
Rest(s, n) ==
    \A k \in DOMAIN s : k > n => s[k].do \in {"count", "fill", "generate", "update", "delete"}

\* the n-th frame of the stack s of t broadcasts a handler's own message: a new
\* player is listed and not told of itself, one that was killed is known to be,
\* and the player of an update is looked up next
Own(t, s, n) ==
    LET m == s[n].msg
    IN  /\ m.type # "RemovePlayer"
        /\ m.type = "NewPlayer" => t = "asio" /\ m.who \in Listed \cap validated /\ s[n].ignore = m.who
        /\ m.type = "UpdatePlayer" => t = "main" /\ n < Len(s) /\ s[n + 1] = Call("update", m.who)
        /\ m.type = "KillPlayer" => m.who \in killed

\* clients that have left and are off the list
Gone == (1..ids) \ (open \cup Listed)

\* the n-th frame is the loop of a handler's own broadcast: the entries that were
\* reset are behind it, and it will erase them
Outer(t, s, n) ==
    /\ n \in DOMAIN s /\ s[n].do = "loop" /\ Own(t, s, n) /\ Rest(s, n)
    /\ \A k \in DOMAIN conns : conns[k] = Null => k < s[n].i /\ s[n].invalid
    /\ s[n].invalid => Gone # {} /\ Null \in Listed
    /\ s[n].end <= Len(conns) /\ (t = "asio" => s[n].end = Len(conns))

\* it has found c closed
Found(t, s, n, c) ==
    /\ Outer(t, s, n) /\ s[n].reporting
    /\ s[n].i <= Len(conns) /\ conns[s[n].i] = c /\ c # s[n].ignore

\* no client has c
Unseen(c) == \A x \in open : c \notin view[x]

\* The thread is between two broadcasts, or about to begin one.
Resting(t, s) ==
    \/ Rest(s, 0)
    \/ s # <<>> /\ s[1].do = "all" /\ Own(t, s, 1) /\ Rest(s, 1)

\* The thread is in a broadcast of its own.
Sending(t, s) == Outer(t, s, 1) /\ ~s[1].reporting

\* OnClientDisconnect of c: RemovePlayer is broadcast.
Telling(t, s, c) ==
    /\ Found(t, s, 3, c) /\ s[2] = Call("erase", c)
    /\ s[1].do \in {"all", "loop"} /\ s[1].msg = Msg("RemovePlayer", c) /\ s[1].ignore = c
    /\ s[1].do = "loop" =>
         /\ ~s[1].reporting /\ ~s[1].invalid /\ s[1].end <= Len(conns)
         /\ \A k \in DOMAIN conns :
              conns[k] \in open /\ (k < s[1].i \/ s[1].end < k) => c \notin view[conns[k]]

\* It has been, and the player is to be deleted.
Erasing(t, s, c) == Found(t, s, 2, c) /\ s[1] = Call("erase", c) /\ Unseen(c)

\* OnClientDisconnect has returned.
Returned(t, s, c) == Found(t, s, 1, c) /\ Unseen(c)

----------------------------------------------------------------------------
(* The inductive invariant *)

\* Whoever is connected is listed, and listed once.
Listing ==
    /\ open \subseteq Listed
    /\ \A j, k \in DOMAIN conns : conns[j] = conns[k] /\ conns[j] # Null => j = k

\* Nobody has been reported twice, nor before being allowed.
Reporting == \A x \in Clients : reports[x] <= 1 /\ (x \notin 1..ids => reports[x] = 0)

\* the players whose reports main is relaying
Updating == {stack["main"][k].arg : k \in {j \in DOMAIN stack["main"] : stack["main"][j].do = "update"}}

\* A client has no player that the server has not, except one that was killed or
\* one whose report is being relayed: players.at comes afterwards.
Truthful ==
    \A x \in Clients :
        /\ x \in open => view[x] \subseteq players \cup killed \cup Updating
        /\ x \notin 1..ids => view[x] = {}

\* x is to get the NewPlayer of p from the context thread
Due(x, p) ==
    x # p /\ \E k \in DOMAIN stack["asio"] :
        LET f == stack["asio"][k]
        IN  /\ f.do \in {"all", "loop"} /\ f.msg = Msg("NewPlayer", p)
            /\ f.do = "loop" => \E j \in DOMAIN conns : conns[j] = x /\ f.i <= j

\* A client in the game has all players, or is about to, except those in S.
Complete(S) ==
    \A x \in open \cap validated : \A p \in players \ (killed \cup S) : p \in view[x] \/ Due(x, p)

\* Nobody is being reported.
Calm ==
    /\ \A t \in Threads : Resting(t, stack[t]) \/ Sending(t, stack[t])
    /\ Listed \subseteq open \/ \E t \in Threads : stack[t] = <<>>
    /\ Null \notin Listed \/ \E t \in Threads : Sending(t, stack[t])
    /\ players = Listed \cap validated
    /\ \A x \in Listed \cap Clients : reports[x] = 0
    /\ Complete({})

\* Thread t is reporting c, and the other one waits.
Leaving(t, c) ==
    /\ \A u \in Threads \ {t} : stack[u] = <<>>
    /\ c \in (1..ids) \ open
    /\ \/ /\ Telling(t, stack[t], c) \/ Erasing(t, stack[t], c)
          /\ players = Listed \cap validated
       \/ Returned(t, stack[t], c) /\ players = (Listed \cap validated) \ {c}
    /\ \A x \in (Listed \cap Clients) \ {c} : reports[x] = 0
    /\ Complete({c})

\* The broadcast of thread t passes over a client that has left, as RemovePlayer of
\* it does, and has another one that has left ahead of it.  It will not return: the
\* report of either comes to the other.
Doomed(t) ==
    LET f == stack[t][1]
    IN  /\ \A u \in Threads \ {t} : stack[u] = <<>>
        /\ stack[t] # <<>> /\ f.do \in {"all", "loop"}
        /\ f.ignore \in Listed \ (open \cup {Null})
        /\ \E k \in DOMAIN conns :
             /\ conns[k] \notin open \cup {Null, f.ignore}
             /\ f.do = "loop" => ~f.reporting /\ f.i <= k /\ k <= f.end

Regular ==
    /\ Listing /\ Reporting /\ Truthful
    /\ Calm \/ \E t \in Threads, c \in Clients : Leaving(t, c)

Orderly == crashed = "no" /\ ~raced => Regular \/ \E t \in Threads : Doomed(t)

----------------------------------------------------------------------------
(* What a step does to a stack *)

\* The frames of a stack whose first call is replaced by others.
LEMMA Put ==
    ASSUME NEW S, NEW s \in Seq(S), s # <<>>, NEW calls \in Seq(S)
    PROVE  /\ Len(calls \o Tail(s)) = Len(calls) + Len(s) - 1
           /\ \A k \in 1..Len(calls) : (calls \o Tail(s))[k] = calls[k]
           /\ \A k \in 2..Len(s) : (calls \o Tail(s))[Len(calls) + k - 1] = s[k]
<1>1. Len(s) \in Nat \ {0} /\ Tail(s) \in Seq(S) /\ Len(Tail(s)) = Len(s) - 1
  OBVIOUS
<1>2. \A k \in 1..(Len(s) - 1) : Tail(s)[k] = s[k + 1]
  OBVIOUS
<1>3. Len(calls) \in Nat /\ Len(calls \o Tail(s)) = Len(calls) + Len(Tail(s))
  BY <1>1
<1>4. \A k \in 1..Len(calls) : (calls \o Tail(s))[k] = calls[k]
  BY <1>1
<1>5. ASSUME NEW k \in 2..Len(s) PROVE (calls \o Tail(s))[Len(calls) + k - 1] = s[k]
  <2>1. /\ k - 1 \in 1..(Len(s) - 1) /\ (k - 1) + 1 = k
        /\ Len(calls) + k - 1 = Len(calls) + (k - 1)
    BY <1>1, <1>3
  <2>2. \A j \in 1..Len(Tail(s)) : (calls \o Tail(s))[Len(calls) + j] = Tail(s)[j]
    BY <1>1
  <2> QED  BY <1>1, <1>2, <2>1, <2>2
<1> QED  BY <1>1, <1>3, <1>4, <1>5

\* s2 is s with n calls in place of the first; the rest is as it was
Follows(s, s2, n) ==
    /\ Len(s) \in Nat \ {0} /\ Len(s2) = n + Len(s) - 1
    /\ DOMAIN s = 1..Len(s) /\ DOMAIN s2 = 1..Len(s2)
    /\ \A k \in 2..Len(s) : s2[n + k - 1] = s[k]

\* A thread that goes on with no call, and what the other one has.
LEMMA Popped ==
    ASSUME StackOK, NEW t \in Threads, stack[t] # <<>>, Continue(t, <<>>)
    PROVE  /\ Follows(stack[t], stack'[t], 0)
           /\ \A u \in Threads \ {t} : stack'[u] = stack[u]
<1>1. stack[t] \in Seq(Frames(t)) /\ <<>> \in Seq(Frames(t)) /\ DOMAIN stack = Threads
  BY DEF StackOK
<1>2. stack'[t] = <<>> \o Tail(stack[t]) /\ \A u \in Threads \ {t} : stack'[u] = stack[u]
  BY <1>1 DEF Continue
<1>3. <<>> \o Tail(stack[t]) \in Seq(Frames(t))
  BY <1>1, Continued
<1> QED  BY <1>1, <1>2, <1>3, Put DEF Follows

\* A thread that goes on with one call.
LEMMA Called ==
    ASSUME StackOK, NEW t \in Threads, stack[t] # <<>>, NEW a \in Frames(t), Continue(t, <<a>>)
    PROVE  /\ Follows(stack[t], stack'[t], 1) /\ stack'[t][1] = a
           /\ \A u \in Threads \ {t} : stack'[u] = stack[u]
<1>1. stack[t] \in Seq(Frames(t)) /\ <<a>> \in Seq(Frames(t)) /\ DOMAIN stack = Threads
  BY DEF StackOK
<1>2. stack'[t] = <<a>> \o Tail(stack[t]) /\ \A u \in Threads \ {t} : stack'[u] = stack[u]
  BY <1>1 DEF Continue
<1>3. <<a>> \o Tail(stack[t]) \in Seq(Frames(t))
  BY <1>1, Continued
<1>4. Len(<<a>>) = 1 /\ <<a>>[1] = a
  OBVIOUS
<1> QED  BY <1>1, <1>2, <1>3, <1>4, Put DEF Follows

\* A thread that goes on with two.
LEMMA CalledTwo ==
    ASSUME StackOK, NEW t \in Threads, stack[t] # <<>>,
           NEW a \in Frames(t), NEW b \in Frames(t), Continue(t, <<a, b>>)
    PROVE  /\ Follows(stack[t], stack'[t], 2) /\ stack'[t][1] = a /\ stack'[t][2] = b
           /\ \A u \in Threads \ {t} : stack'[u] = stack[u]
<1>1. stack[t] \in Seq(Frames(t)) /\ <<a, b>> \in Seq(Frames(t)) /\ DOMAIN stack = Threads
  BY DEF StackOK
<1>2. stack'[t] = <<a, b>> \o Tail(stack[t]) /\ \A u \in Threads \ {t} : stack'[u] = stack[u]
  BY <1>1 DEF Continue
<1>3. <<a, b>> \o Tail(stack[t]) \in Seq(Frames(t))
  BY <1>1, Continued
<1>4. Len(<<a, b>>) = 2 /\ <<a, b>>[1] = a /\ <<a, b>>[2] = b
  OBVIOUS
<1> QED  BY <1>1, <1>2, <1>3, <1>4, Put DEF Follows

\* A thread that goes on with three.
LEMMA CalledThree ==
    ASSUME StackOK, NEW t \in Threads, stack[t] # <<>>,
           NEW a \in Frames(t), NEW b \in Frames(t), NEW c \in Frames(t), Continue(t, <<a, b, c>>)
    PROVE  /\ Follows(stack[t], stack'[t], 3)
           /\ stack'[t][1] = a /\ stack'[t][2] = b /\ stack'[t][3] = c
           /\ \A u \in Threads \ {t} : stack'[u] = stack[u]
<1>1. stack[t] \in Seq(Frames(t)) /\ <<a, b, c>> \in Seq(Frames(t)) /\ DOMAIN stack = Threads
  BY DEF StackOK
<1>2. stack'[t] = <<a, b, c>> \o Tail(stack[t]) /\ \A u \in Threads \ {t} : stack'[u] = stack[u]
  BY <1>1 DEF Continue
<1>3. <<a, b, c>> \o Tail(stack[t]) \in Seq(Frames(t))
  BY <1>1, Continued
<1>4. Len(<<a, b, c>>) = 3 /\ <<a, b, c>>[1] = a /\ <<a, b, c>>[2] = b /\ <<a, b, c>>[3] = c
  OBVIOUS
<1> QED  BY <1>1, <1>2, <1>3, <1>4, Put DEF Follows

\* What is below a call stays below those that replace it.
LEMMA RestFollows ==
    ASSUME NEW s, NEW s2, NEW n \in Nat, Follows(s, s2, n),
           NEW m \in Nat \ {0}, Rest(s, m)
    PROVE  Rest(s2, n + m - 1)
<1> SUFFICES ASSUME NEW k \in 1..Len(s2), k > n + m - 1
             PROVE  s2[k].do \in {"count", "fill", "generate", "update", "delete"}
  BY DEF Rest, Follows
<1> DEFINE j == k - n + 1
<1>1. j \in 2..Len(s) /\ j \in DOMAIN s /\ j > m /\ n + j - 1 = k
  BY DEF Follows
<1>2. s2[k] = s[j]
  BY <1>1 DEF Follows
<1> QED  BY <1>1, <1>2 DEF Rest

\* A stack that has no broadcast.
LEMMA RestLess ==
    ASSUME NEW s, NEW n \in Nat, NEW m \in Nat, n <= m, Rest(s, n), DOMAIN s \subseteq Nat
    PROVE  Rest(s, m)
  BY DEF Rest

----------------------------------------------------------------------------
(* What the steps of a handler change *)

\* The types that the steps rest on.
LEMMA Basics ==
    ASSUME IInv
    PROVE  /\ StackOK /\ ids \in Nat /\ 1..ids \subseteq Clients /\ Null \notin Clients
           /\ conns \in Seq((1..ids) \cup {Null}) /\ Len(conns) \in Nat /\ DOMAIN conns = 1..Len(conns)
           /\ view \in [Clients -> SUBSET Clients] /\ reports \in [Clients -> Nat]
           /\ open \subseteq 1..ids /\ validated \subseteq 1..ids
           /\ players \subseteq validated /\ killed \subseteq validated
           /\ open \cap validated \subseteq players
           /\ Listed \subseteq (1..ids) \cup {Null}
<1>1. TypeOK /\ open \cap validated \subseteq players
  BY DEF IInv
<1>2. ids \in Nat /\ 1..ids \subseteq Clients /\ Null \notin Clients
  <2>1. ids \in 0..MaxClients
    BY <1>1 DEF TypeOK
  <2> QED  BY <2>1, SnekServerAssumption DEF Clients, Null
<1>3. conns \in Seq((1..ids) \cup {Null})
  BY <1>1 DEF TypeOK
<1>4. Len(conns) \in Nat /\ DOMAIN conns = 1..Len(conns) /\ Listed \subseteq (1..ids) \cup {Null}
  BY <1>3 DEF Listed
<1> QED  BY <1>1, <1>2, <1>3, <1>4 DEF TypeOK, StackOK

\* The frame that a thread works on.
LEMMA Working ==
    ASSUME IInv, NEW t \in Threads, stack[t] # <<>>
    PROVE  LET f == stack[t][1]
           IN  /\ Head(stack[t]) = f /\ f \in Frames(t) /\ 1 \in DOMAIN stack[t]
               /\ stack[t] \in Seq(Frames(t))
               /\ Len(stack[t]) \in Nat \ {0} /\ DOMAIN stack[t] = 1..Len(stack[t])
               /\ f.do = "all" => f \in AllFrames
               /\ f.do = "loop" => f \in LoopFrames /\ f.i \in Nat \ {0} /\ f.end \in Nat
               /\ f.do \in {"update", "delete"} => t = "main" /\ f.arg \in validated
<1>1. stack[t] \in Seq(Frames(t))
  BY Basics DEF StackOK
<1>2. /\ Head(stack[t]) = stack[t][1] /\ stack[t][1] \in Frames(t) /\ 1 \in DOMAIN stack[t]
      /\ Len(stack[t]) \in Nat \ {0} /\ DOMAIN stack[t] = 1..Len(stack[t])
  BY <1>1
<1>3. stack[t][1].do = "loop" => stack[t][1] \in LoopFrames
  BY <1>2, Kinds
<1>4. stack[t][1] \in LoopFrames => stack[t][1].i \in Nat \ {0} /\ stack[t][1].end \in Nat
  BY DEF LoopFrames
<1>5. /\ stack[t][1].do = "all" => stack[t][1] \in AllFrames
      /\ stack[t][1].do \in {"update", "delete"} => t = "main" /\ stack[t][1].arg \in validated
  BY <1>2, Kinds
<1> QED  BY <1>1, <1>2, <1>3, <1>4, <1>5

\* the other thread's stack is as it was
Others(t) == \A u \in Threads \ {t} : stack'[u] = stack[u]

\* t's first frame becomes g
Becomes(t, g) == Follows(stack[t], stack'[t], 1) /\ stack'[t][1] = g /\ Others(t)

\* The clients and their sockets are as they were.
Sockets == UNCHANGED <<ids, open, validated>>

\* Enter begins a loop, or ends the process.
LEMMA EnterDoes ==
    ASSUME IInv, NEW t \in Threads, Enter(t)
    PROVE  LET f == stack[t][1]
           IN  /\ f.do = "all" /\ stack[t] # <<>> /\ Sockets
               /\ UNCHANGED <<conns, view, reports, players, killed>>
               /\ \/ Loops(t) < MaxDepth /\ Becomes(t, Loop(f.msg, f.ignore)) /\ crashed' = "no"
                  \/ ~(Loops(t) < MaxDepth) /\ crashed' = "stack overflow" /\ UNCHANGED stack
<1> DEFINE f == stack[t][1]
<1>1. stack[t] # <<>>
  BY DEF Enter, Ready
<1>2. Head(stack[t]) = f /\ (f.do = "all" => f \in AllFrames)
  BY <1>1, Working
<1>3. f.do = "all" /\ crashed = "no"
  BY <1>2 DEF Enter, Ready
<1>4. Sockets /\ UNCHANGED <<conns, view, reports, players, killed>>
  BY DEF Enter, Sockets, server, game
<1>5. CASE Loops(t) < MaxDepth
  <2>1. Continue(t, <<Loop(f.msg, f.ignore)>>) /\ crashed' = "no"
    BY <1>2, <1>3, <1>5 DEF Enter
  <2>2. Loop(f.msg, f.ignore) \in LoopFrames
    BY <1>2, <1>3, Basics DEF Loop, AllFrames, LoopFrames
  <2>3. Loop(f.msg, f.ignore) \in Frames(t)
    BY <2>2, Callable
  <2>4. Becomes(t, Loop(f.msg, f.ignore))
    BY <1>1, <2>1, <2>3, Basics, Called DEF Becomes, Others
  <2> QED  BY <1>1, <1>3, <1>4, <1>5, <2>1, <2>4
<1>6. CASE ~(Loops(t) < MaxDepth)
  BY <1>1, <1>3, <1>4, <1>6 DEF Enter, Crash
<1> QED  BY <1>5, <1>6

\* the loop of t is at entry c
Visits(t, c) ==
    LET f == stack[t][1]
    IN  /\ stack[t] # <<>> /\ f.do = "loop" /\ ~f.reporting
        /\ f.i \in Nat \ {0} /\ f.end \in Nat /\ f.i <= f.end /\ Entry(f) = c

\* A loop's body runs for an entry.
LEMMA AtEntryVisits ==
    ASSUME IInv, NEW t \in Threads, NEW c, AtEntry(t, c)
    PROVE  /\ Visits(t, c) /\ stack[t][1] \in LoopFrames /\ Head(stack[t]) = stack[t][1]
           /\ crashed = "no"
<1>1. stack[t] # <<>>
  BY DEF AtEntry, Ready
<1> QED  BY <1>1, Working DEF AtEntry, Ready, Visits

\* Skip passes the ignored client.
LEMMA SkipDoes ==
    ASSUME IInv, NEW t \in Threads, Skip(t)
    PROVE  /\ Visits(t, stack[t][1].ignore) /\ Becomes(t, Advance(stack[t][1]))
           /\ Sockets /\ UNCHANGED <<conns, crashed, view, reports, players, killed>>
<1> DEFINE f == stack[t][1]
<1>1. stack[t] # <<>>
  BY DEF Skip, AtEntry, Ready
<1>2. Head(stack[t]) = f
  BY <1>1, Working
<1>3. AtEntry(t, f.ignore) /\ Continue(t, <<Advance(f)>>)
  BY <1>2 DEF Skip
<1>4. Visits(t, f.ignore) /\ f \in LoopFrames
  BY <1>3, AtEntryVisits
<1>5. Advance(f) \in LoopFrames
  BY <1>4 DEF Advance, LoopFrames
<1>6. Becomes(t, Advance(f))
  BY <1>1, <1>3, <1>5, Basics, Called, Callable DEF Becomes, Others
<1> QED  BY <1>4, <1>6 DEF Skip, Sockets, server, game

\* Send tells a connected client.
LEMMA SendDoes ==
    ASSUME IInv, NEW t \in Threads, NEW c \in Clients, Send(t, c)
    PROVE  LET f == stack[t][1]
           IN  /\ Visits(t, c) /\ Becomes(t, Advance(f)) /\ c # f.ignore /\ c \in open
               /\ view' = [view EXCEPT ![c] = Applied(f.msg, view[c])]
               /\ Sockets /\ UNCHANGED <<conns, crashed, reports, players, killed>>
<1> DEFINE f == stack[t][1]
<1>1. stack[t] # <<>>
  BY DEF Send, AtEntry, Ready
<1>2. Head(stack[t]) = f
  BY <1>1, Working
<1>3. /\ AtEntry(t, c) /\ Continue(t, <<Advance(f)>>) /\ c # f.ignore /\ c \in open
      /\ view' = [view EXCEPT ![c] = Applied(f.msg, view[c])]
  BY <1>2 DEF Send
<1>4. Visits(t, c) /\ f \in LoopFrames
  BY <1>3, AtEntryVisits
<1>5. Advance(f) \in LoopFrames
  BY <1>4 DEF Advance, LoopFrames
<1>6. Becomes(t, Advance(f))
  BY <1>1, <1>3, <1>5, Basics, Called, Callable DEF Becomes, Others
<1> QED  BY <1>3, <1>4, <1>6 DEF Send, Sockets, server, game

\* Two calls and one are three.
LEMMA TwoAndOne ==
    ASSUME NEW a, NEW b, NEW c
    PROVE  <<a, b>> \o <<c>> = <<a, b, c>>
<1> DEFINE S == {a, b, c}
           s == <<a, b>> \o <<c>>
           r == <<a, b, c>>
<1>1. <<a, b>> \in Seq(S) /\ <<c>> \in Seq(S) /\ r \in Seq(S)
  OBVIOUS
<1>2. s \in Seq(S) /\ Len(s) = 3 /\ s[1] = a /\ s[2] = b /\ s[3] = c
  BY <1>1
<1>3. Len(r) = 3 /\ r[1] = a /\ r[2] = b /\ r[3] = c
  OBVIOUS
<1> HIDE DEF s, r
<1>4. \A k \in 1..3 : s[k] = r[k]
  BY <1>2, <1>3
<1> QED  BY <1>1, <1>2, <1>3, <1>4, SeqEqual DEF s, r

\* the frame f, its client being reported
Suspended(f) == [f EXCEPT !.reporting = TRUE]

\* Report calls OnClientDisconnect.
LEMMA ReportDoes ==
    ASSUME IInv, NEW t \in Threads, NEW c \in Clients, Report(t, c)
    PROVE  LET f == stack[t][1]
           IN  /\ Visits(t, c) /\ c # f.ignore /\ c \in (1..ids) \ open /\ f.i <= Len(conns)
               /\ conns[f.i] = c /\ c \in Listed
               /\ Follows(stack[t], stack'[t], 3) /\ Others(t)
               /\ stack'[t][1] = MessageAllClients(Msg("RemovePlayer", c), c)
               /\ stack'[t][2] = Call("erase", c) /\ stack'[t][3] = Suspended(f)
               /\ reports' = [reports EXCEPT ![c] = reports[c] + 1]
               /\ Sockets /\ UNCHANGED <<conns, crashed, view, players, killed>>
<1> DEFINE f == stack[t][1]
           m == MessageAllClients(Msg("RemovePlayer", c), c)
           e == Call("erase", c)
           g == Suspended(f)
<1>1. stack[t] # <<>>
  BY DEF Report, AtEntry, Ready
<1>2. Head(stack[t]) = f
  BY <1>1, Working
<1>3. /\ AtEntry(t, c) /\ Continue(t, <<m, e>> \o <<g>>) /\ c # f.ignore /\ c \notin open
      /\ reports' = [reports EXCEPT ![c] = reports[c] + 1]
  BY <1>2 DEF Report, OnClientDisconnect, Suspended
<1>4. Visits(t, c) /\ f \in LoopFrames
  BY <1>3, AtEntryVisits
<1>5. f.i \in 1..Len(conns) /\ conns[f.i] = c
  <2>1. c # Null
    BY Basics
  <2> QED  BY <1>4, <2>1, Basics DEF Visits, Entry
<1>6. c \in (1..ids) \ open /\ c \in Listed
  BY <1>3, <1>5, Basics DEF Listed
<1>7. m \in Frames(t) /\ e \in Frames(t)
  <2>1. Msg("RemovePlayer", c) \in Messages
    BY DEF Msg, Messages
  <2> QED  BY <1>6, <2>1, Callable
<1>8. g \in Frames(t)
  <2>1. g \in LoopFrames
    BY <1>4 DEF LoopFrames, Suspended
  <2> QED  BY <2>1, Callable
<1> HIDE DEF m, e, g
<1>9. Continue(t, <<m, e, g>>)
  BY <1>3, TwoAndOne
<1>10. /\ Follows(stack[t], stack'[t], 3) /\ Others(t)
       /\ stack'[t][1] = m /\ stack'[t][2] = e /\ stack'[t][3] = g
  BY <1>1, <1>7, <1>8, <1>9, Basics, CalledThree DEF Others
<1>11. Sockets /\ UNCHANGED <<conns, crashed, view, players, killed>>
  BY DEF Report, Sockets, server, game
<1> QED  BY <1>3, <1>4, <1>5, <1>6, <1>10, <1>11, Basics DEF m, e, g

\* the frame f when the client it reported has been reset
Resumed(f) == [Invalidated(Advance(f)) EXCEPT !.reporting = FALSE]

\* Reset clears the entry.
LEMMA ResetDoes ==
    ASSUME IInv, NEW t \in Threads, Reset(t)
    PROVE  LET f == stack[t][1]
           IN  /\ stack[t] # <<>> /\ f.do = "loop" /\ f.reporting
               /\ f.i \in Nat \ {0} /\ f.end \in Nat
               /\ conns' = Cleared(f.i) /\ Becomes(t, Resumed(f))
               /\ Sockets /\ UNCHANGED <<crashed, view, reports, players, killed>>
<1> DEFINE f == stack[t][1]
           g == Resumed(f)
<1>1. stack[t] # <<>>
  BY DEF Reset, Ready
<1>2. Head(stack[t]) = f /\ (f.do = "loop" => f \in LoopFrames /\ f.i \in Nat \ {0} /\ f.end \in Nat)
  BY <1>1, Working
<1>3. f.do = "loop" /\ f.reporting /\ conns' = Cleared(f.i) /\ Continue(t, <<g>>)
  BY <1>2 DEF Reset, Ready, Resumed
<1>4. g \in LoopFrames
  <2>1. Advance(f) \in LoopFrames
    BY <1>2, <1>3 DEF Advance, LoopFrames
  <2>2. Invalidated(Advance(f)) \in LoopFrames
    BY <2>1 DEF Invalidated, LoopFrames
  <2> QED  BY <2>2 DEF Resumed, LoopFrames
<1>5. g \in Frames(t)
  BY <1>4, Callable
<1> HIDE DEF g
<1>6. Becomes(t, g)
  BY <1>1, <1>3, <1>5, Basics, Called DEF Becomes, Others
<1>7. Sockets /\ UNCHANGED <<crashed, view, reports, players, killed>>
  BY DEF Reset, Sockets, server, game
<1> QED  BY <1>1, <1>2, <1>3, <1>6, <1>7 DEF g

\* t's first frame is done
Drops(t) == Follows(stack[t], stack'[t], 0) /\ Others(t)

\* Leave ends a loop.
LEMMA LeaveDoes ==
    ASSUME IInv, NEW t \in Threads, Leave(t)
    PROVE  LET f == stack[t][1]
           IN  /\ stack[t] # <<>> /\ f.do = "loop" /\ ~f.reporting
               /\ f.i \in Nat \ {0} /\ f.end \in Nat /\ f.i > f.end
               /\ conns' \in IF f.invalid THEN Compacted ELSE {conns}
               /\ Drops(t) /\ Sockets /\ UNCHANGED <<crashed, view, reports, players, killed>>
<1> DEFINE f == stack[t][1]
<1>1. stack[t] # <<>>
  BY DEF Leave, Ready
<1>2. Head(stack[t]) = f /\ (f.do = "loop" => f.i \in Nat \ {0} /\ f.end \in Nat)
  BY <1>1, Working
<1>3. /\ f.do = "loop" /\ ~f.reporting /\ f.i > f.end
      /\ conns' \in IF f.invalid THEN Compacted ELSE {conns}
      /\ Continue(t, <<>>)
  BY <1>2 DEF Leave, Ready
<1>4. Drops(t)
  BY <1>1, <1>3, Basics, Popped DEF Drops, Others
<1>5. Sockets /\ UNCHANGED <<crashed, view, reports, players, killed>>
  BY DEF Leave, Sockets, server, game
<1> QED  BY <1>1, <1>2, <1>3, <1>4, <1>5

\* Erase deletes a player.
LEMMA EraseDoes ==
    ASSUME IInv, NEW t \in Threads, Erase(t)
    PROVE  LET f == stack[t][1]
           IN  /\ stack[t] # <<>> /\ f.do = "erase" /\ players' = players \ {f.arg}
               /\ Drops(t) /\ Sockets /\ UNCHANGED <<conns, crashed, view, reports, killed>>
<1> DEFINE f == stack[t][1]
<1>1. stack[t] # <<>>
  BY DEF Erase, Ready
<1>2. Head(stack[t]) = f
  BY <1>1, Working
<1>3. f.do = "erase" /\ players' = players \ {f.arg} /\ Continue(t, <<>>)
  BY <1>2 DEF Erase, Ready
<1>4. Drops(t)
  BY <1>1, <1>3, Basics, Popped DEF Drops, Others
<1>5. Sockets /\ UNCHANGED <<conns, crashed, view, reports, killed>>
  BY DEF Erase, Sockets, server
<1> QED  BY <1>1, <1>2, <1>3, <1>4, <1>5

----------------------------------------------------------------------------
(* The shape of a stack after a step *)

\* n calls replace the first of s, by which the k-th frame comes to be the j-th of
\* s2; it still broadcasts the same
Moved(s, k, s2, j) ==
    /\ k \in 1..Len(s) /\ j \in Nat \ {0}
    /\ \E n \in Nat : Follows(s, s2, n) /\ j = n + k - 1
    /\ s2[j].msg = s[k].msg /\ s2[j].ignore = s[k].ignore

\* two loops have the same bounds
SameBounds(f, g) == f.do = g.do /\ f.i = g.i /\ f.end = g.end /\ f.invalid = g.invalid

\* A handler's own message stays one wherever its frame moves.
LEMMA OwnMoves ==
    ASSUME NEW t, NEW s, NEW s2, NEW k, NEW j, Moved(s, k, s2, j), Own(t, s, k)
    PROVE  Own(t, s2, j)
<1>1. PICK n \in Nat : Follows(s, s2, n) /\ j = n + k - 1
  BY DEF Moved
<1>2. k \in 1..Len(s) /\ j \in Nat \ {0}
  BY DEF Moved
<1>3. k < Len(s) => j < Len(s2) /\ s2[j + 1] = s[k + 1]
  <2> SUFFICES ASSUME k < Len(s) PROVE j < Len(s2) /\ s2[j + 1] = s[k + 1]
    OBVIOUS
  <2>1. k + 1 \in 2..Len(s) /\ n + (k + 1) - 1 = j + 1 /\ j < Len(s2)
    BY <1>1, <1>2 DEF Follows
  <2> QED  BY <1>1, <2>1 DEF Follows
<1> QED  BY <1>3 DEF Own, Moved

\* What is below it stays below it.
LEMMA RestMoves ==
    ASSUME NEW s, NEW s2, NEW k, NEW j, Moved(s, k, s2, j), Rest(s, k)
    PROVE  Rest(s2, j) /\ j \in DOMAIN s2
<1>1. PICK n \in Nat : Follows(s, s2, n) /\ j = n + k - 1
  BY DEF Moved
<1>2. k \in 1..Len(s) /\ j \in Nat \ {0}
  BY DEF Moved
<1>3. k \in Nat \ {0} /\ j \in DOMAIN s2
  BY <1>1, <1>2 DEF Follows
<1> QED  BY <1>1, <1>3, RestFollows

\* So does the loop of its broadcast.
LEMMA OuterMoves ==
    ASSUME NEW t, NEW s, NEW s2, NEW k, NEW j, Moved(s, k, s2, j), SameBounds(s2[j], s[k]),
           Outer(t, s, k)
    PROVE  Outer(t, s2, j)
<1>1. Own(t, s2, j) /\ Rest(s2, j) /\ j \in DOMAIN s2
  BY OwnMoves, RestMoves DEF Outer
<1> QED  BY <1>1 DEF Outer, Moved, SameBounds

\* And a loop that is reporting stays below the calls that replace another.
LEMMA FoundMoves ==
    ASSUME NEW t, NEW s, NEW s2, NEW n \in Nat, Follows(s, s2, n), NEW c,
           NEW k \in Nat \ {0, 1}, Found(t, s, k, c)
    PROVE  Found(t, s2, n + k - 1, c)
<1> DEFINE j == n + k - 1
<1>1. k \in 1..Len(s) /\ k \in 2..Len(s) /\ j \in Nat \ {0}
  BY DEF Found, Outer, Follows
<1>2. s2[j] = s[k]
  BY <1>1 DEF Follows
<1>3. Moved(s, k, s2, j) /\ SameBounds(s2[j], s[k]) /\ Outer(t, s, k)
  BY <1>1, <1>2 DEF Moved, SameBounds, Found
<1> HIDE DEF j
<1>4. Outer(t, s2, j)
  BY <1>3, OuterMoves
<1>5. Found(t, s2, j, c)
  BY <1>2, <1>4 DEF Found
<1> QED  BY <1>5 DEF j

\* the clients in the game that are listed remain so
Held == \A x \in validated : x \in Listed => x \in Listed'

\* They do when the list is left alone.
LEMMA ListHeld == ASSUME UNCHANGED conns PROVE Held /\ Listed' = Listed
  BY DEF Held, Listed

\* A message of a handler is not affected by what another thread does.
LEMMA OwnStays ==
    ASSUME NEW t, NEW s, NEW n, Own(t, s, n), Sockets, Held, killed \subseteq killed'
    PROVE  Own(t, s, n)'
  BY DEF Own, Sockets, Call, Held

\* Neither is the loop.
LEMMA OuterStays ==
    ASSUME NEW t, NEW s, NEW n, Outer(t, s, n), Sockets, killed \subseteq killed', UNCHANGED conns
    PROVE  Outer(t, s, n)'
<1>1. Own(t, s, n)'
  BY OwnStays, ListHeld DEF Outer
<1>2. Gone' = Gone /\ Listed' = Listed
  BY ListHeld DEF Sockets, Gone
<1> QED  BY <1>1, <1>2 DEF Outer, Rest, Null

\* A thread stays where it is.
LEMMA RestingStays ==
    ASSUME NEW t, NEW s, Resting(t, s), Sockets, Held, killed \subseteq killed'
    PROVE  Resting(t, s)'
  BY OwnStays DEF Resting, Rest

\* The same in a broadcast.
LEMMA SendingStays ==
    ASSUME NEW t, NEW s, Sending(t, s), Sockets, killed \subseteq killed', UNCHANGED conns
    PROVE  Sending(t, s)'
  BY OuterStays DEF Sending

\* A thread that does nothing rests.
LEMMA IdleRests ==
    ASSUME NEW t
    PROVE  Resting(t, <<>>)
  BY DEF Resting, Rest

\* The players whose reports are relayed remain so.
LEMMA UpdatingStays ==
    ASSUME NEW t \in Threads, NEW n \in Nat, Follows(stack[t], stack'[t], n), Others(t),
           t = "main" => stack[t][1].do # "update"
    PROVE  Updating \subseteq Updating'
<1>1. CASE t # "main"
  <2>1. stack'["main"] = stack["main"]
    BY <1>1 DEF Others, Threads
  <2> QED  BY <2>1 DEF Updating
<1>2. CASE t = "main"
  <2> SUFFICES ASSUME NEW k \in DOMAIN stack["main"], stack["main"][k].do = "update"
               PROVE  stack["main"][k].arg \in Updating'
    BY DEF Updating
  <2>1. k \in 2..Len(stack["main"])
    BY <1>2 DEF Follows
  <2>2. n + k - 1 \in DOMAIN stack'["main"] /\ stack'["main"][n + k - 1] = stack["main"][k]
    BY <1>2, <2>1 DEF Follows
  <2> QED  BY <2>2 DEF Updating
<1> QED  BY <1>1, <1>2

----------------------------------------------------------------------------
(* The views *)

\* Somebody who rests without a broadcast owes nobody a NewPlayer.
LEMMA NothingDue ==
    ASSUME Rest(stack["asio"], 0), DOMAIN stack["asio"] \subseteq Nat \ {0}, NEW x, NEW p
    PROVE  ~Due(x, p)
  BY DEF Due, Rest

\* The context thread owes what it owed.
LEMMA DueStays ==
    ASSUME stack'["asio"] = stack["asio"], UNCHANGED conns, NEW x, NEW p, Due(x, p)
    PROVE  Due(x, p)'
  BY DEF Due, Msg

\* The views stay complete when they and the players are as they were.
LEMMA CompleteStays ==
    ASSUME NEW S, Complete(S), Sockets, UNCHANGED <<view, players>>, killed \subseteq killed',
           \A x \in open \cap validated : \A p \in players : Due(x, p) => Due(x, p)' \/ p \in view[x]
    PROVE  Complete(S)'
<1> SUFFICES ASSUME NEW x \in open \cap validated, NEW p \in players \ (killed' \cup S)
             PROVE  p \in view[x] \/ Due(x, p)'
  BY DEF Complete, Sockets
<1>1. p \in view[x] \/ Due(x, p)
  BY DEF Complete
<1> QED  BY <1>1

\* What nothing but a connect, a report or a reset affects.
LEMMA StandingStays ==
    ASSUME Listing, Reporting, Sockets, UNCHANGED <<conns, reports>>
    PROVE  Listing' /\ Reporting'
  BY DEF Listing, Reporting, Sockets, Listed, Null

\* Views that are not affected stay truthful.
LEMMA TruthfulStays ==
    ASSUME Truthful, Sockets, UNCHANGED view, killed \subseteq killed',
           \A p \in players \cup Updating : p \in players' \cup killed' \cup Updating'
    PROVE  Truthful'
<1> SUFFICES ASSUME NEW x \in Clients
             PROVE  /\ x \in open => view[x] \subseteq players' \cup killed' \cup Updating'
                    /\ x \notin 1..ids => view[x] = {}
  BY DEF Truthful, Sockets
<1> QED  BY DEF Truthful

----------------------------------------------------------------------------
(* Steps while nobody is being reported *)

\* A handler's steps between two broadcasts.
LEMMA CalmCalls ==
    ASSUME IInv, Regular, Calm, NEW t \in Threads, stack[t] # <<>>, Rest(stack[t], 0),
           Sockets, UNCHANGED <<conns, view, reports, players>>, killed \subseteq killed',
           Others(t), Resting(t, stack[t])',
           \A p \in Updating : p \in Updating' \cup players
    PROVE  Regular'
<1>1. Listing' /\ Reporting' /\ Truthful'
  BY StandingStays, TruthfulStays DEF Regular
<1>2. ASSUME NEW u \in Threads PROVE Resting(u, stack[u])' \/ Sending(u, stack[u])'
  <2>1. CASE u = t
    BY <2>1
  <2>2. CASE u # t
    <3>1. stack'[u] = stack[u]
      BY <2>2 DEF Others
    <3>2. Resting(u, stack[u]) \/ Sending(u, stack[u])
      BY DEF Calm
    <3>3. CASE Resting(u, stack[u])
      BY <3>1, <3>3, RestingStays, ListHeld
    <3>4. CASE Sending(u, stack[u])
      BY <3>1, <3>4, SendingStays
    <3> QED  BY <3>2, <3>3, <3>4
  <2> QED  BY <2>1, <2>2
<1>3. ~Sending(t, stack[t])
  <2>1. 1 \in DOMAIN stack[t] /\ 1 > 0
    BY Working
  <2> QED  BY <2>1 DEF Sending, Outer, Rest
<1>4. (Listed \subseteq open \/ \E u \in Threads : stack[u] = <<>>)'
  <2>1. CASE Listed \subseteq open
    BY <2>1, ListHeld DEF Sockets
  <2>2. CASE \E u \in Threads : stack[u] = <<>>
    <3>1. PICK u \in Threads : stack[u] = <<>>
      BY <2>2
    <3> QED  BY <3>1 DEF Others
  <2> QED  BY <2>1, <2>2 DEF Calm
<1>5. (Null \notin Listed \/ \E u \in Threads : Sending(u, stack[u]))'
  <2>1. CASE Null \notin Listed
    BY <2>1 DEF Listed, Null
  <2>2. CASE \E u \in Threads : Sending(u, stack[u])
    <3>1. PICK u \in Threads : Sending(u, stack[u])
      BY <2>2
    <3>2. stack'[u] = stack[u]
      BY <1>3, <3>1 DEF Others
    <3>3. Sending(u, stack[u])'
      BY <3>1, <3>2, SendingStays
    <3> QED  BY <3>3
  <2> QED  BY <2>1, <2>2 DEF Calm
<1>6. Complete({})'
  <2>1. ASSUME NEW x, NEW p, Due(x, p) PROVE Due(x, p)'
    <3>1. CASE t = "asio"
      BY <2>1, <3>1, NothingDue, Working
    <3>2. CASE t # "asio"
      BY <2>1, <3>2, DueStays DEF Others, Threads
    <3> QED  BY <3>1, <3>2
  <2> QED  BY <2>1, CompleteStays DEF Calm
<1>7. (players = Listed \cap validated)' /\ (\A x \in Listed \cap Clients : reports[x] = 0)'
  BY DEF Calm, Listed, Sockets, Clients
<1>8. Calm'
  BY <1>2, <1>4, <1>5, <1>6, <1>7 DEF Calm
<1> QED  BY <1>1, <1>8 DEF Regular

\* What a thread is at, by the frame it works on.
LEMMA CalmHead ==
    ASSUME IInv, Calm, NEW t \in Threads, stack[t] # <<>>
    PROVE  LET f == stack[t][1]
           IN  /\ f.do = "all" => Own(t, stack[t], 1) /\ Rest(stack[t], 1)
               /\ f.do = "loop" => Sending(t, stack[t])
               /\ f.do \in {"count", "fill", "generate", "update", "delete"} => Rest(stack[t], 0)
               /\ f.do # "erase"
<1>1. 1 \in DOMAIN stack[t] /\ 1 > 0
  BY Working
<1>2. Resting(t, stack[t]) \/ Sending(t, stack[t])
  BY DEF Calm
<1>3. CASE Rest(stack[t], 0)
  BY <1>1, <1>3 DEF Rest
<1>4. CASE stack[t][1].do = "all" /\ Own(t, stack[t], 1) /\ Rest(stack[t], 1)
  BY <1>4
<1>5. CASE Sending(t, stack[t])
  BY <1>5 DEF Sending, Outer
<1> QED  BY <1>2, <1>3, <1>4, <1>5 DEF Resting

\* The stack below calls that replace one.
LEMMA RestAfter ==
    ASSUME IInv, NEW t \in Threads, stack[t] # <<>>, Rest(stack[t], 0) \/ Rest(stack[t], 1),
           NEW n \in Nat, Follows(stack[t], stack'[t], n)
    PROVE  /\ Rest(stack'[t], n)
           /\ n = 1 /\ stack'[t][1].do \in {"count", "fill", "generate", "update", "delete"} =>
                Rest(stack'[t], 0)
           /\ n = 2 /\ stack'[t][1].do \in {"count", "fill", "generate", "update", "delete"}
                    /\ stack'[t][2].do \in {"count", "fill", "generate", "update", "delete"} =>
                Rest(stack'[t], 0)
           /\ stack'[t] # <<>> \/ n = 0
<1>1. Rest(stack[t], 1)
  BY Working DEF Rest
<1>2. Rest(stack'[t], n + 1 - 1) /\ n + 1 - 1 = n
  BY <1>1, RestFollows
<1>3. DOMAIN stack'[t] = 1..Len(stack'[t]) /\ Len(stack'[t]) \in Nat /\ Len(stack'[t]) >= n
  BY DEF Follows
<1>4. stack'[t] # <<>> \/ n = 0
  BY <1>3
<1> QED  BY <1>2, <1>3, <1>4 DEF Rest

\* A count of powerups, their generation and deletion, and an update.
LEMMA CalmPlain ==
    ASSUME IInv, Regular, Calm, NEW t \in Threads,
           Count(t) \/ Fill(t) \/ Generate(t) \/ UpdatePlayer(t) \/ DeletePowerup(t)
    PROVE  crashed' # "no" \/ Regular'
<1> DEFINE s == stack[t]
           f == stack[t][1]
<1>1. stack[t] # <<>> /\ crashed = "no"
  BY DEF Count, Fill, Generate, UpdatePlayer, DeletePowerup, Ready
<1>2. /\ Head(stack[t]) = f /\ f \in Frames(t)
      /\ f.do \in {"update", "delete"} => t = "main" /\ f.arg \in validated
  BY <1>1, Working
<1>3. f.do \in {"count", "fill", "generate", "update", "delete"}
  BY <1>2 DEF Count, Fill, Generate, UpdatePlayer, DeletePowerup, Ready
<1>4. Rest(stack[t], 0)
  BY <1>1, <1>3, CalmHead
<1>5. ASSUME Sockets, UNCHANGED <<conns, view, reports, players>>, killed \subseteq killed',
             NEW n \in Nat, Follows(stack[t], stack'[t], n), Others(t), Resting(t, stack[t])',
             f.do = "update" => f.arg \in players
      PROVE  Regular'
  <2>1. \A p \in Updating : p \in Updating' \cup players
    <3>1. CASE f.do # "update"
      BY <1>5, <3>1, UpdatingStays
    <3>2. CASE f.do = "update"
      <4> SUFFICES ASSUME NEW k \in DOMAIN stack["main"], stack["main"][k].do = "update", k # 1
                   PROVE  stack["main"][k].arg \in Updating'
        BY <1>2, <1>5, <3>2 DEF Updating
      <4>1. t = "main" /\ k \in 2..Len(stack["main"])
        BY <1>2, <1>5, <3>2 DEF Follows
      <4>2. n + k - 1 \in DOMAIN stack'["main"] /\ stack'["main"][n + k - 1] = stack["main"][k]
        BY <1>5, <4>1 DEF Follows
      <4> QED  BY <4>2 DEF Updating
    <3> QED  BY <3>1, <3>2
  <2> QED  BY ONLY <1>1, <1>4, <1>5, <2>1, IInv, Regular, Calm, t \in Threads, CalmCalls
<1>6. ASSUME NEW m \in Messages, NEW i \in Clients \cup {Null}, Continue(t, <<MessageAllClients(m, i)>>),
             m.type \in {"NewPowerup", "PowerupEaten"} \/ (m.type = "KillPlayer" /\ m.who \in killed')
      PROVE  Follows(stack[t], stack'[t], 1) /\ Others(t) /\ Resting(t, stack[t])'
  <2> DEFINE a == MessageAllClients(m, i)
  <2>1. a \in Frames(t)
    BY Callable
  <2>2. Follows(stack[t], stack'[t], 1) /\ Others(t) /\ stack'[t][1] = a
    BY <1>1, <1>6, <2>1, Basics, Called DEF Others
  <2>3. 1 \in Nat /\ 1 # 0
    OBVIOUS
  <2>4. Rest(stack'[t], 1) /\ stack'[t] # <<>>
    BY ONLY <1>1, <1>4, <2>2, <2>3, IInv, t \in Threads, RestAfter
  <2>5. Own(t, stack[t], 1)' /\ stack'[t][1].do = "all"
    BY <1>6, <2>2 DEF Own, MessageAllClients
  <2> QED  BY <2>2, <2>4, <2>5 DEF Resting
<1>7. CASE Count(t)
  <2> DEFINE g == Call("fill", PowerupCount(Cardinality(players)))
  <2>1. Continue(t, <<g>>) /\ Sockets /\ UNCHANGED <<conns, view, reports, players, killed>>
    BY <1>7 DEF Count, Sockets, server, game
  <2>2. g \in Frames(t)
    <3>1. Cardinality(players) \in Nat
      BY Basics, Finite DEF IInv
    <3> QED  BY <3>1, PowerupCountType, Callable
  <2>3. Follows(stack[t], stack'[t], 1) /\ Others(t) /\ stack'[t][1].do = "fill"
    BY <1>1, <2>1, <2>2, Basics, Called DEF Others, Call
  <2>4. Resting(t, stack[t])'
    BY <1>1, <1>4, <2>3, RestAfter DEF Resting
  <2>5. f.do # "update"
    BY <1>2, <1>7 DEF Count, Ready
  <2> QED  BY <1>5, <2>1, <2>3, <2>4, <2>5
<1>8. CASE Fill(t)
  <2>1. Sockets /\ UNCHANGED <<conns, view, reports, players, killed>> /\ f.do = "fill"
    BY <1>2, <1>8 DEF Fill, Sockets, server, game, Ready
  <2>2. CASE powerups < f.arg
    <3>1. Continue(t, <<Call("generate", Null), f>>)
      BY <1>2, <1>8, <2>2 DEF Fill
    <3>2. Call("generate", Null) \in Frames(t)
      BY Callable
    <3>3. /\ Follows(stack[t], stack'[t], 2) /\ Others(t)
          /\ stack'[t][1] = Call("generate", Null) /\ stack'[t][2] = f
      BY <1>1, <1>2, <3>1, <3>2, Basics, CalledTwo DEF Others
    <3>4. stack'[t][1].do = "generate" /\ stack'[t][2].do = "fill"
      BY <2>1, <3>3 DEF Call
    <3>5. Resting(t, stack[t])'
      BY <1>1, <1>4, <3>3, <3>4, RestAfter DEF Resting
    <3> QED  BY <1>5, <2>1, <3>3, <3>5
  <2>3. CASE ~(powerups < f.arg)
    <3>1. Continue(t, <<>>)
      BY <1>2, <1>8, <2>3 DEF Fill
    <3>2. Follows(stack[t], stack'[t], 0) /\ Others(t)
      BY <1>1, <3>1, Basics, Popped DEF Others
    <3>3. Resting(t, stack[t])'
      BY <1>1, <1>4, <3>2, RestAfter DEF Resting
    <3> QED  BY <1>5, <2>1, <3>2, <3>3
  <2> QED  BY <2>2, <2>3
<1>9. CASE Generate(t)
  <2> DEFINE m == Msg("NewPowerup", Null)
  <2>1. /\ Continue(t, <<MessageAllClients(m, Null)>>) /\ f.do = "generate"
        /\ Sockets /\ UNCHANGED <<conns, view, reports, players, killed>>
    BY <1>2, <1>9 DEF Generate, Sockets, server, Ready
  <2>2. m \in Messages /\ m.type = "NewPowerup"
    BY DEF Msg, Messages
  <2> HIDE DEF m
  <2>3. Follows(stack[t], stack'[t], 1) /\ Others(t) /\ Resting(t, stack[t])'
    BY <1>6, <2>1, <2>2
  <2> QED  BY <1>5, <2>1, <2>3
<1>10. CASE DeletePowerup(t)
  <2> DEFINE m == Msg("PowerupEaten", Null)
  <2>1. /\ Continue(t, <<MessageAllClients(m, f.arg)>>) /\ f.do = "delete"
        /\ Sockets /\ UNCHANGED <<conns, view, reports, players, killed>>
    BY <1>2, <1>10 DEF DeletePowerup, Sockets, server, Ready
  <2>2. m \in Messages /\ m.type = "PowerupEaten"
    BY DEF Msg, Messages
  <2>3. f.arg \in Clients
    BY <1>2, <2>1, Basics
  <2> HIDE DEF m
  <2>4. Follows(stack[t], stack'[t], 1) /\ Others(t) /\ Resting(t, stack[t])'
    BY <1>6, <2>1, <2>2, <2>3
  <2> QED  BY <1>5, <2>1, <2>4
<1>11. CASE UpdatePlayer(t)
  <2>1. /\ f.do = "update" /\ f.arg \in validated /\ t = "main"
        /\ Sockets /\ UNCHANGED <<conns, view, reports, players>>
    BY <1>2, <1>11 DEF UpdatePlayer, Sockets, server, Ready
  <2>2. CASE f.arg \notin players
    BY <1>2, <1>11, <2>2 DEF UpdatePlayer, Crash
  <2>3. CASE f.arg \in players
    <3>1. PICK calls \in PlayerCollision(f.arg) :
               /\ Continue(t, calls)
               /\ killed' = IF calls = <<>> THEN killed ELSE killed \cup {f.arg}
      BY <1>2, <1>11, <2>3 DEF UpdatePlayer
    <3>2. CASE calls = <<>>
      <4>1. Follows(stack[t], stack'[t], 0) /\ Others(t)
        BY <1>1, <3>1, <3>2, Basics, Popped DEF Others
      <4>2. Resting(t, stack[t])'
        BY <1>1, <1>4, <4>1, RestAfter DEF Resting
      <4> QED  BY <1>5, <2>1, <2>3, <3>1, <3>2, <4>1, <4>2
    <3>3. CASE calls # <<>>
      <4> DEFINE m == Msg("KillPlayer", f.arg)
      <4>1. Continue(t, <<MessageAllClients(m, Null)>>) /\ killed' = killed \cup {f.arg}
        BY <3>1, <3>3 DEF PlayerCollision, SendKillMessage
      <4>2. m \in Messages /\ m.type = "KillPlayer" /\ m.who \in killed'
        BY <2>1, <4>1, Basics DEF Msg, Messages
      <4> HIDE DEF m
      <4>3. Follows(stack[t], stack'[t], 1) /\ Others(t) /\ Resting(t, stack[t])'
        BY <1>6, <4>1, <4>2
      <4> QED  BY <1>5, <2>1, <2>3, <4>1, <4>3
    <3> QED  BY <3>2, <3>3
  <2> QED  BY <2>2, <2>3
<1> QED  BY <1>7, <1>8, <1>9, <1>10, <1>11

\* A thread that begins a broadcast has no entry to erase before it.
LEMMA CleanBefore ==
    ASSUME IInv, Calm, NEW t \in Threads, stack[t] # <<>>, ~Sending(t, stack[t])
    PROVE  Null \notin Listed
<1> SUFFICES ASSUME Null \in Listed PROVE FALSE
  OBVIOUS
<1>1. PICK u \in Threads : Sending(u, stack[u])
  BY DEF Calm
<1>2. ~(Listed \subseteq open)
  BY Basics
<1>3. PICK v \in Threads : stack[v] = <<>>
  BY <1>2 DEF Calm
<1>4. u # t /\ v # t /\ v = u
  BY <1>1, <1>3 DEF Threads
<1> QED  BY <1>1, <1>3, <1>4 DEF Sending, Outer

\* When a closed connection is listed, the thread at work is alone.
LEMMA CalmAlone ==
    ASSUME IInv, Calm, NEW t \in Threads, stack[t] # <<>>, ~(Listed \subseteq open)
    PROVE  \A u \in Threads \ {t} : stack[u] = <<>>
<1>1. PICK v \in Threads : stack[v] = <<>>
  BY DEF Calm
<1> QED  BY <1>1 DEF Threads

\* Only the frame that the context thread works on owes a NewPlayer.
LEMMA DueFirst ==
    ASSUME Rest(stack["asio"], 1), DOMAIN stack["asio"] \subseteq Nat \ {0}, NEW x, NEW p, Due(x, p)
    PROVE  LET f == stack["asio"][1]
           IN  /\ x # p /\ f.do \in {"all", "loop"} /\ f.msg = Msg("NewPlayer", p)
               /\ f.do = "loop" => \E j \in DOMAIN conns : conns[j] = x /\ f.i <= j
<1>1. PICK k \in DOMAIN stack["asio"] :
        LET f == stack["asio"][k]
        IN  /\ f.do \in {"all", "loop"} /\ f.msg = Msg("NewPlayer", p)
            /\ f.do = "loop" => \E j \in DOMAIN conns : conns[j] = x /\ f.i <= j
  BY DEF Due
<1>2. k = 1
  BY <1>1 DEF Rest
<1> QED  BY <1>1, <1>2 DEF Due

\* A turn of a handler's own broadcast.
LEMMA CalmTurns ==
    ASSUME IInv, Regular, Calm, NEW t \in Threads, stack[t] # <<>>,
           Sockets, UNCHANGED <<conns, reports, players, killed>>, Others(t),
           Sending(t, stack[t])', Truthful', Complete({})'
    PROVE  Regular'
<1>1. Listing' /\ Reporting'
  BY StandingStays DEF Regular
<1>2. ASSUME NEW u \in Threads PROVE Resting(u, stack[u])' \/ Sending(u, stack[u])'
  <2>1. CASE u # t
    <3>1. stack'[u] = stack[u]
      BY <2>1 DEF Others
    <3>2. CASE Resting(u, stack[u])
      BY <3>1, <3>2, RestingStays, ListHeld
    <3>3. CASE Sending(u, stack[u])
      BY <3>1, <3>3, SendingStays
    <3> QED  BY <3>2, <3>3 DEF Calm
  <2> QED  BY <2>1
<1>3. (Listed \subseteq open \/ \E u \in Threads : stack[u] = <<>>)'
  <2>1. CASE Listed \subseteq open
    BY <2>1, ListHeld DEF Sockets
  <2>2. CASE \E u \in Threads : stack[u] = <<>>
    <3>1. PICK u \in Threads : stack[u] = <<>>
      BY <2>2
    <3> QED  BY <3>1 DEF Others
  <2> QED  BY <2>1, <2>2 DEF Calm
<1>4. (players = Listed \cap validated)' /\ (\A x \in Listed \cap Clients : reports[x] = 0)'
  BY DEF Calm, Listed, Sockets, Clients
<1>5. Calm'
  BY <1>2, <1>3, <1>4 DEF Calm
<1> QED  BY <1>1, <1>5 DEF Regular

\* A handler begins its broadcast.
LEMMA CalmEnter ==
    ASSUME IInv, Regular, Calm, NEW t \in Threads, Enter(t)
    PROVE  crashed' # "no" \/ Regular'
<1> SUFFICES ASSUME crashed' = "no" PROVE Regular'
  OBVIOUS
<1> DEFINE f == stack[t][1]
           g == Loop(f.msg, f.ignore)
<1>1. /\ f.do = "all" /\ stack[t] # <<>> /\ Sockets
      /\ UNCHANGED <<conns, view, reports, players, killed>>
      /\ Becomes(t, g)
  BY EnterDoes
<1>2. /\ g.do = "loop" /\ g.msg = f.msg /\ g.ignore = f.ignore /\ g.i = 1 /\ g.end = Len(conns)
      /\ ~g.invalid /\ ~g.reporting
  BY DEF Loop
<1> HIDE DEF g
<1>3. Own(t, stack[t], 1) /\ Rest(stack[t], 1)
  BY <1>1, CalmHead
<1>4. Null \notin Listed
  <2>1. ~Sending(t, stack[t])
    BY <1>1 DEF Sending, Outer
  <2> QED  BY <1>1, <2>1, CleanBefore
<1>5. /\ Follows(stack[t], stack'[t], 1) /\ stack'[t][1] = g /\ Others(t)
      /\ 1 \in 1..Len(stack[t])
  BY <1>1, Working DEF Becomes
<1>6. Moved(stack[t], 1, stack'[t], 1)
  BY <1>2, <1>5 DEF Moved
<1>7. Own(t, stack'[t], 1) /\ Rest(stack'[t], 1) /\ 1 \in DOMAIN stack'[t]
  BY <1>3, <1>6, OwnMoves, RestMoves
<1>8. Outer(t, stack'[t], 1)
  BY <1>2, <1>4, <1>5, <1>7, Basics DEF Outer, Listed
<1>9. Sending(t, stack[t])'
  <2>1. Outer(t, stack[t], 1)'
    BY <1>1, <1>8, OuterStays
  <2> QED  BY <1>2, <1>5, <2>1 DEF Sending
<1>10. Truthful'
  <2>1. Updating \subseteq Updating'
    BY <1>1, <1>5, UpdatingStays
  <2> QED  BY <1>1, <2>1, TruthfulStays DEF Regular
<1>11. Complete({})'
  <2>1. ASSUME NEW x \in open \cap validated, NEW p, Due(x, p) PROVE Due(x, p)'
    <3>1. CASE t = "asio"
      <4>1. x # p /\ f.msg = Msg("NewPlayer", p)
        BY <1>3, <2>1, <3>1, DueFirst, <1>1, Working
      <4>2. PICK j \in DOMAIN conns : conns[j] = x
        BY DEF Regular, Listing, Listed
      <4>3. j \in DOMAIN conns' /\ conns'[j] = x /\ 1 <= j
        BY <1>1, <4>2, Basics
      <4>4. /\ 1 \in DOMAIN stack'["asio"] /\ stack'["asio"][1].do = "loop"
            /\ stack'["asio"][1].i = 1 /\ stack'["asio"][1].msg = Msg("NewPlayer", p)
        BY <1>2, <1>5, <1>7, <3>1, <4>1
      <4> QED  BY <4>1, <4>3, <4>4 DEF Due, Msg
    <3>2. CASE t # "asio"
      BY <1>1, <1>5, <2>1, <3>2, DueStays DEF Others, Threads
    <3> QED  BY <3>1, <3>2
  <2> QED  BY <1>1, <2>1, CompleteStays DEF Calm
<1> QED  BY <1>1, <1>5, <1>9, <1>10, <1>11, CalmTurns

\* The loop of a handler's own broadcast goes on.
LEMMA CalmAdvance ==
    ASSUME IInv, Regular, Calm, NEW t \in Threads, NEW c, Visits(t, c), c # Null,
           Becomes(t, Advance(stack[t][1])), Sockets, UNCHANGED <<conns, killed>>
    PROVE  /\ Sending(t, stack[t]) /\ Sending(t, stack[t])'
           /\ Updating \subseteq Updating'
           /\ stack[t][1].i \in DOMAIN conns /\ conns[stack[t][1].i] = c
           /\ \A x, p : Due(x, p) => Due(x, p)' \/
                (t = "asio" /\ x = c /\ x # p /\ stack[t][1].msg = Msg("NewPlayer", p))
<1> DEFINE f == stack[t][1]
           g == Advance(f)
<1>1. /\ stack[t] # <<>> /\ f.do = "loop" /\ ~f.reporting /\ f.i \in Nat \ {0} /\ f.end \in Nat
      /\ f.i <= f.end /\ Entry(f) = c
  BY DEF Visits
<1>2. f \in LoopFrames /\ 1 \in 1..Len(stack[t]) /\ DOMAIN stack[t] \subseteq Nat \ {0}
  BY <1>1, Working
<1>3. /\ g.do = "loop" /\ g.msg = f.msg /\ g.ignore = f.ignore /\ g.i = f.i + 1 /\ g.end = f.end
      /\ g.invalid = f.invalid /\ ~g.reporting
  BY <1>1, <1>2 DEF Advance, LoopFrames
<1> HIDE DEF g
<1>4. Sending(t, stack[t]) /\ Outer(t, stack[t], 1)
  BY <1>1, CalmHead DEF Sending
<1>5. Follows(stack[t], stack'[t], 1) /\ stack'[t][1] = g /\ Others(t)
  BY DEF Becomes, g
<1>6. Moved(stack[t], 1, stack'[t], 1)
  BY <1>2, <1>3, <1>5 DEF Moved
<1>7. Own(t, stack'[t], 1) /\ Rest(stack'[t], 1) /\ 1 \in DOMAIN stack'[t]
  BY <1>4, <1>6, OwnMoves, RestMoves DEF Outer
<1>8. \A k \in DOMAIN conns : conns[k] = Null => k < g.i /\ g.invalid
  BY <1>1, <1>3, <1>4, Basics DEF Outer
<1>9. Outer(t, stack'[t], 1)
  BY <1>3, <1>4, <1>5, <1>7, <1>8 DEF Outer
<1>10. Sending(t, stack[t])'
  <2>1. Outer(t, stack[t], 1)'
    BY <1>9, OuterStays
  <2> QED  BY <1>3, <1>5, <2>1 DEF Sending
<1>11. Updating \subseteq Updating'
  BY <1>1, <1>5, UpdatingStays
<1>12. f.i \in DOMAIN conns /\ conns[f.i] = c
  BY <1>1, Basics DEF Entry
<1>13. ASSUME NEW x, NEW p, Due(x, p)
       PROVE  Due(x, p)' \/ (t = "asio" /\ x = c /\ x # p /\ f.msg = Msg("NewPlayer", p))
  <2>1. CASE t # "asio"
    BY <1>5, <1>13, <2>1, DueStays DEF Others, Threads
  <2>2. CASE t = "asio"
    <3>1. Rest(stack["asio"], 1)
      BY <1>4, <2>2 DEF Outer
    <3>2. /\ x # p /\ f.msg = Msg("NewPlayer", p)
          /\ \E j \in DOMAIN conns : conns[j] = x /\ f.i <= j
      BY <1>1, <1>2, <1>13, <2>2, <3>1, DueFirst
    <3>3. PICK j \in DOMAIN conns : conns[j] = x /\ f.i <= j
      BY <3>2
    <3>4. CASE j = f.i
      BY <1>12, <2>2, <3>2, <3>3, <3>4
    <3>5. CASE j # f.i
      <4>1. j \in DOMAIN conns' /\ conns'[j] = x /\ g.i <= j
        BY <1>1, <1>3, <3>3, <3>5, Basics
      <4>2. /\ 1 \in DOMAIN stack'["asio"] /\ stack'["asio"][1].do = "loop"
            /\ stack'["asio"][1].i = g.i /\ stack'["asio"][1].msg = Msg("NewPlayer", p)
        BY <1>3, <1>5, <1>7, <2>2, <3>2
      <4> QED  BY <3>2, <4>1, <4>2 DEF Due, Msg
    <3> QED  BY <3>4, <3>5
  <2> QED  BY <2>1, <2>2
<1> QED  BY <1>4, <1>10, <1>11, <1>12, <1>13

\* It passes the client it ignores, who is the new player if there is one.
LEMMA CalmSkip ==
    ASSUME IInv, Regular, Calm, NEW t \in Threads, Skip(t)
    PROVE  Regular'
<1> DEFINE f == stack[t][1]
<1>1. /\ Visits(t, f.ignore) /\ Becomes(t, Advance(f))
      /\ Sockets /\ UNCHANGED <<conns, crashed, view, reports, players, killed>>
  BY SkipDoes
<1>2. stack[t] # <<>> /\ Sending(t, stack[t])
  BY <1>1, CalmHead DEF Visits
<1>3. f.ignore # Null
  <2>1. f.i \in 1..Len(conns) /\ conns[f.i] = f.ignore
    BY <1>1, <1>2, Basics DEF Visits, Entry, Sending, Outer
  <2>2. conns[f.i] = Null => f.i < f.i
    BY <1>2, <2>1, Basics DEF Sending, Outer
  <2> QED  BY <2>1, <2>2
<1>4. /\ Sending(t, stack[t])' /\ Updating \subseteq Updating'
      /\ \A x, p : Due(x, p) => Due(x, p)' \/
           (t = "asio" /\ x = f.ignore /\ x # p /\ f.msg = Msg("NewPlayer", p))
  BY <1>1, <1>3, CalmAdvance
<1>5. Truthful'
  BY <1>1, <1>4, TruthfulStays DEF Regular
<1>6. ASSUME NEW p, f.msg = Msg("NewPlayer", p) PROVE f.ignore = p
  BY <1>2, <1>6 DEF Sending, Outer, Own, Msg
<1>7. Complete({})'
  BY <1>1, <1>4, <1>6, CompleteStays DEF Calm
<1> QED  BY <1>1, <1>2, <1>4, <1>5, <1>7, CalmTurns DEF Becomes

\* What a message of a handler adds to a view.
LEMMA AppliedOwn ==
    ASSUME NEW m \in Messages, m.type # "RemovePlayer", NEW known
    PROVE  /\ known \subseteq Applied(m, known)
           /\ \A p \in Applied(m, known) : p \in known \/
                (p = m.who /\ m.type \in {"NewPlayer", "UpdatePlayer", "KillPlayer"})
           /\ m.type = "NewPlayer" => m.who \in Applied(m, known)
  BY DEF Applied, Messages

\* It tells a client.
LEMMA CalmSend ==
    ASSUME IInv, Regular, Calm, NEW t \in Threads, NEW c \in Clients, Send(t, c)
    PROVE  Regular'
<1> DEFINE f == stack[t][1]
           m == f.msg
<1>1. /\ Visits(t, c) /\ Becomes(t, Advance(f)) /\ c \in open
      /\ view' = [view EXCEPT ![c] = Applied(m, view[c])]
      /\ Sockets /\ UNCHANGED <<conns, crashed, reports, players, killed>>
  BY SendDoes
<1>2. stack[t] # <<>> /\ f \in LoopFrames /\ m \in Messages
  <2>1. stack[t] # <<>> /\ f.do = "loop"
    BY <1>1 DEF Visits
  <2>2. f \in LoopFrames
    BY <2>1, Working
  <2> QED  BY <2>1, <2>2 DEF LoopFrames
<1>3. /\ Sending(t, stack[t]) /\ Sending(t, stack[t])' /\ Updating \subseteq Updating'
      /\ \A x, p : Due(x, p) => Due(x, p)' \/
           (t = "asio" /\ x = c /\ x # p /\ m = Msg("NewPlayer", p))
  BY <1>1, Basics, CalmAdvance
<1>4. Own(t, stack[t], 1)
  BY <1>3 DEF Sending, Outer
<1>5. /\ view[c] \subseteq Applied(m, view[c])
      /\ \A p \in Applied(m, view[c]) : p \in view[c] \/
           (p = m.who /\ m.type \in {"NewPlayer", "UpdatePlayer", "KillPlayer"})
      /\ m.type = "NewPlayer" => m.who \in Applied(m, view[c])
  BY <1>2, <1>4, AppliedOwn DEF Own
<1>6. m.type \in {"NewPlayer", "UpdatePlayer", "KillPlayer"} => m.who \in players \cup killed \cup Updating
  <2>1. CASE m.type = "NewPlayer"
    BY <1>4, <2>1 DEF Own, Calm
  <2>2. CASE m.type = "UpdatePlayer"
    <3>1. t = "main" /\ 1 + 1 \in DOMAIN stack[t] /\ stack[t][1 + 1] = Call("update", m.who)
      BY <1>2, <1>4, <2>2, Working DEF Own
    <3> QED  BY <3>1 DEF Updating, Call
  <2>3. CASE m.type = "KillPlayer"
    BY <1>4, <2>3 DEF Own
  <2> QED  BY <2>1, <2>2, <2>3
<1>7. view'[c] = Applied(m, view[c]) /\ \A x \in Clients \ {c} : view'[x] = view[x]
  BY <1>1, Basics
<1> HIDE DEF m, f
<1>8. Truthful'
  <2> SUFFICES ASSUME NEW x \in Clients
               PROVE  /\ x \in open => view'[x] \subseteq players \cup killed \cup Updating'
                      /\ x \notin 1..ids => view'[x] = {}
    BY <1>1 DEF Truthful, Sockets, Clients
  <2>1. CASE x # c
    BY <1>3, <1>7, <2>1 DEF Regular, Truthful
  <2>2. CASE x = c
    <3>1. view[c] \subseteq players \cup killed \cup Updating
      BY <1>1 DEF Regular, Truthful
    <3>2. x \in 1..ids
      BY <1>1, <2>2, Basics
    <3> QED  BY <1>3, <1>5, <1>6, <1>7, <2>2, <3>1, <3>2
  <2> QED  BY <2>1, <2>2
<1>9. Complete({})'
  <2> SUFFICES ASSUME NEW x \in open \cap validated, NEW p \in players \ (killed \cup {})
               PROVE  p \in view'[x] \/ Due(x, p)'
    BY <1>1 DEF Complete, Sockets
  <2>1. p \in view[x] \/ Due(x, p)
    BY DEF Calm, Complete
  <2>2. x \in Clients /\ view[x] \subseteq view'[x]
    BY <1>5, <1>7, Basics
  <2>3. CASE m = Msg("NewPlayer", p) /\ x = c
    BY <1>5, <1>7, <2>3 DEF Msg
  <2> QED  BY <1>3, <2>1, <2>2, <2>3
<1> QED  BY <1>1, <1>2, <1>3, <1>8, <1>9, CalmTurns DEF Becomes

\* It finds a connection closed.
LEMMA CalmReport ==
    ASSUME IInv, Regular, Calm, NEW t \in Threads, NEW c \in Clients, Report(t, c)
    PROVE  Regular'
<1> DEFINE s == stack[t]
           f == stack[t][1]
           a == MessageAllClients(Msg("RemovePlayer", c), c)
<1>1. /\ Visits(t, c) /\ c \in (1..ids) \ open /\ f.i <= Len(conns)
      /\ conns[f.i] = c /\ c \in Listed /\ c # f.ignore
      /\ Follows(stack[t], stack'[t], 3) /\ Others(t)
      /\ stack'[t][1] = a /\ stack'[t][2] = Call("erase", c) /\ stack'[t][3] = Suspended(f)
      /\ reports' = [reports EXCEPT ![c] = reports[c] + 1]
      /\ Sockets /\ UNCHANGED <<conns, crashed, view, players, killed>>
  BY ReportDoes
<1>2. stack[t] # <<>> /\ f.do = "loop" /\ f \in LoopFrames /\ 1 \in 1..Len(stack[t])
  BY <1>1, Working DEF Visits
<1>3. Outer(t, stack[t], 1) /\ Rest(stack[t], 1)
  BY <1>2, CalmHead DEF Sending, Outer
<1>4. \A u \in Threads \ {t} : stack[u] = <<>>
  BY <1>1, <1>2, CalmAlone
<1>5. /\ Suspended(f).do = f.do /\ Suspended(f).msg = f.msg /\ Suspended(f).ignore = f.ignore
      /\ SameBounds(Suspended(f), f) /\ Suspended(f).reporting
  BY <1>2 DEF Suspended, LoopFrames, SameBounds
<1>6. Moved(stack[t], 1, stack'[t], 3)
  BY <1>1, <1>2, <1>5 DEF Moved
<1>7. Outer(t, stack'[t], 3)
  BY <1>1, <1>3, <1>5, <1>6, OuterMoves
<1>8. Found(t, stack[t], 3, c)'
  <2>1. Outer(t, stack[t], 3)'
    BY <1>1, <1>7, OuterStays
  <2> QED  BY <1>1, <1>5, <2>1 DEF Found, SameBounds
<1>9. Telling(t, stack[t], c)'
  <2>1. a.do = "all" /\ a.msg = Msg("RemovePlayer", c) /\ a.ignore = c
    BY DEF MessageAllClients
  <2> QED  BY <1>1, <1>8, <2>1 DEF Telling, Call, Msg
<1> HIDE DEF a
<1>10. Listing' /\ Reporting'
  <2>1. Listing'
    BY <1>1 DEF Regular, Listing, Sockets, Listed, Null
  <2>2. reports[c] = 0
    BY <1>1 DEF Calm
  <2>3. ASSUME NEW x \in Clients PROVE reports'[x] <= 1 /\ (x \notin 1..ids => reports'[x] = 0)
    <3>1. CASE x = c
      BY <1>1, <2>2, <3>1, Basics
    <3>2. CASE x # c
      BY <1>1, <3>2, Basics DEF Regular, Reporting
    <3> QED  BY <3>1, <3>2
  <2>4. Reporting'
    BY <1>1, <2>3 DEF Reporting, Sockets, Clients
  <2> QED  BY <2>1, <2>4
<1>11. Truthful'
  <2>1. Updating \subseteq Updating'
    BY <1>1, <1>2, UpdatingStays
  <2> QED  BY <1>1, <2>1, TruthfulStays DEF Regular
<1>12. Complete({c})'
  <2>1. Complete({c})
    BY DEF Calm, Complete
  <2>2. ASSUME NEW x, NEW p, Due(x, p) PROVE Due(x, p)'
    <3>1. CASE t = "asio"
      <4>1. /\ x # p /\ f.msg = Msg("NewPlayer", p)
            /\ \E j \in DOMAIN conns : conns[j] = x /\ f.i <= j
        BY <1>2, <1>3, <2>2, <3>1, DueFirst, Working
      <4>2. 3 \in DOMAIN stack'["asio"]
        BY <1>7, <3>1 DEF Outer
      <4>3. \E j \in DOMAIN conns' : conns'[j] = x /\ stack'["asio"][3].i <= j
        BY <1>1, <1>5, <3>1, <4>1 DEF SameBounds
      <4>4. stack'["asio"][3].do = "loop" /\ stack'["asio"][3].msg = Msg("NewPlayer", p)
        BY <1>1, <1>2, <1>5, <3>1, <4>1
      <4> QED  BY <4>1, <4>2, <4>3, <4>4 DEF Due, Msg
    <3>2. CASE t # "asio"
      BY <1>1, <2>2, <3>2, DueStays DEF Others, Threads
    <3> QED  BY <3>1, <3>2
  <2> QED  BY <1>1, <2>1, <2>2, CompleteStays
<1>13. (\A x \in (Listed \cap Clients) \ {c} : reports[x] = 0)'
  BY <1>1, Basics DEF Calm, Listed, Clients
<1>14. (players = Listed \cap validated)'
  BY <1>1 DEF Calm, Listed, Sockets
<1>15. Leaving(t, c)'
  <2>1. (\A u \in Threads \ {t} : stack[u] = <<>>)'
    BY <1>1, <1>4 DEF Others, Threads
  <2>2. (c \in (1..ids) \ open)'
    BY <1>1 DEF Sockets
  <2> QED  BY <1>9, <1>12, <1>13, <1>14, <2>1, <2>2 DEF Leaving
<1>16. (\E u \in Threads, d \in Clients : Leaving(u, d))'
  BY <1>15 DEF Clients, Threads
<1> QED  BY <1>10, <1>11, <1>16 DEF Regular

\* std::remove keeps every connection that was not reset, once.
LEMMA CompactedKeeps ==
    ASSUME IInv, Listing, NEW d \in Compacted
    PROVE  /\ {d[k] : k \in DOMAIN d} = Listed \ {Null}
           /\ \A j, k \in DOMAIN d : d[j] = d[k] => j = k
<1>0. conns \in Seq((1..ids) \cup {Null}) /\ Len(conns) \in Nat /\ DOMAIN conns = 1..Len(conns)
  BY Basics
<1>1. IsFiniteSet(Kept) /\ Cardinality(Kept) \in Nat /\ Kept \subseteq 1..Len(conns)
  <2>1. Kept \subseteq 1..Len(conns)
    BY <1>0 DEF Kept
  <2>2. IsFiniteSet(1..Len(conns))
    BY <1>0, FS_Interval
  <2> QED  BY <2>1, <2>2, FS_Subset, FS_CardinalityType
<1> DEFINE n == Cardinality(Kept)
<1>a. \A k \in Kept : k \in Nat
  <2>1. \A k \in 1..Len(conns) : k \in Nat
    BY <1>0
  <2> QED  BY <1>1, <2>1
<1>2. PICK g \in Ascending(Kept) : d = [i \in DOMAIN g |-> conns[g[i]]]
  BY DEF Compacted
<1>3. g \in [1..n -> Kept] /\ \A i, j \in 1..n : i < j => g[i] < g[j]
  BY <1>2 DEF Ascending
<1>4. ASSUME NEW i \in 1..n, NEW j \in 1..n, g[i] = g[j] PROVE i = j
  <2>1. g[i] \in Kept /\ g[j] \in Kept
    BY <1>3
  <2>2. g[i] \in Nat /\ g[j] \in Nat
    BY <1>a, <2>1
  <2>3. ~(i < j) /\ ~(j < i)
    BY <1>3, <1>4, <2>2
  <2> QED  BY <1>1, <2>3
<1>5. g \in Injection(1..n, Kept)
  BY <1>3, <1>4 DEF Injection, IsInjective
<1>6. g \in Surjection(1..n, Kept)
  <2>1. Cardinality(1..n) = n
    BY <1>1, FS_Interval
  <2> QED  BY <1>1, <1>5, <2>1, FS_Injection
<1>7. \A k \in Kept : \E i \in 1..n : g[i] = k
  BY <1>6 DEF Surjection
<1>8. DOMAIN d = 1..n /\ \A i \in 1..n : d[i] = conns[g[i]] /\ g[i] \in Kept
  BY <1>2, <1>3
<1> HIDE DEF n
<1>9. {d[k] : k \in DOMAIN d} = Listed \ {Null}
  <2>1. ASSUME NEW k \in DOMAIN d PROVE d[k] \in Listed \ {Null}
    BY <1>8 DEF Kept, Listed
  <2>2. ASSUME NEW x \in Listed \ {Null} PROVE \E k \in DOMAIN d : d[k] = x
    <3>1. PICK k \in DOMAIN conns : conns[k] = x
      BY DEF Listed
    <3>2. k \in Kept
      BY <3>1 DEF Kept
    <3> QED  BY <1>7, <1>8, <3>1, <3>2
  <2> QED  BY <2>1, <2>2
<1>10. ASSUME NEW j \in DOMAIN d, NEW k \in DOMAIN d, d[j] = d[k] PROVE j = k
  <2>1. g[j] \in DOMAIN conns /\ g[k] \in DOMAIN conns /\ conns[g[j]] = conns[g[k]] /\ conns[g[j]] # Null
    BY <1>8, <1>10 DEF Kept
  <2>2. g[j] = g[k]
    BY <2>1 DEF Listing
  <2> QED  BY <1>4, <1>8, <2>2
<1> QED  BY <1>9, <1>10

\* It ends.
LEMMA CalmLeave ==
    ASSUME IInv, Regular, Calm, NEW t \in Threads, Leave(t)
    PROVE  Regular'
<1> DEFINE f == stack[t][1]
<1>1. /\ stack[t] # <<>> /\ f.do = "loop"
      /\ f.i \in Nat \ {0} /\ f.end \in Nat /\ f.i > f.end
      /\ conns' \in IF f.invalid THEN Compacted ELSE {conns}
      /\ Drops(t) /\ Sockets /\ UNCHANGED <<crashed, view, reports, players, killed>>
  BY LeaveDoes
<1>2. Outer(t, stack[t], 1) /\ Rest(stack[t], 1)
  BY <1>1, CalmHead DEF Sending, Outer
<1>3. Follows(stack[t], stack'[t], 0) /\ Others(t)
  BY <1>1 DEF Drops
<1>4. Rest(stack'[t], 0)
  BY <1>1, <1>2, <1>3, RestAfter
<1>5. Resting(t, stack[t])'
  BY <1>4 DEF Resting, Rest
<1>6. /\ Listed' = Listed \ {Null}
      /\ \A j, k \in DOMAIN conns' : conns'[j] = conns'[k] => j = k
  <2>1. CASE f.invalid
    BY <1>1, <2>1, CompactedKeeps DEF Regular, Listed
  <2>2. CASE ~f.invalid
    <3>1. conns' = conns /\ \A k \in DOMAIN conns : conns[k] # Null
      BY <1>1, <1>2, <2>2 DEF Outer
    <3> QED  BY <3>1 DEF Regular, Listing, Listed, Null
  <2> QED  BY <2>1, <2>2
<1>7. Listing' /\ Reporting'
  <2>1. open' \subseteq Listed'
    BY <1>1, <1>6, Basics DEF Regular, Listing, Sockets
  <2>2. Reporting'
    BY <1>1 DEF Regular, Reporting, Sockets, Clients
  <2> QED  BY <1>6, <2>1, <2>2 DEF Listing
<1>8. Truthful'
  <2>1. Updating \subseteq Updating'
    BY <1>1, <1>3, UpdatingStays
  <2> QED  BY <1>1, <2>1, TruthfulStays DEF Regular
<1>9. ASSUME NEW u \in Threads PROVE Resting(u, stack[u])' \/ Sending(u, stack[u])'
  <2>1. CASE u # t
    <3>1. stack'[u] = stack[u]
      BY <1>3, <2>1 DEF Others
    <3>2. CASE Resting(u, stack[u])
      BY <1>1, <1>6, <3>1, <3>2, RestingStays, Basics DEF Held
    <3>3. CASE Sending(u, stack[u])
      <4>1. Listed \subseteq open
        BY <1>1, <2>1, <3>3, CalmAlone DEF Sending, Outer
      <4>2. ~f.invalid
        BY <1>2, <4>1, Basics DEF Outer
      <4>3. UNCHANGED conns
        BY <1>1, <4>2
      <4> QED  BY <1>1, <3>1, <3>3, <4>3, SendingStays
    <3> QED  BY <3>2, <3>3 DEF Calm
  <2> QED  BY <1>5, <2>1
<1>10. (Listed \subseteq open \/ \E u \in Threads : stack[u] = <<>>)'
  <2>1. CASE Listed \subseteq open
    BY <1>1, <1>6, <2>1 DEF Sockets
  <2>2. CASE \E u \in Threads : stack[u] = <<>>
    <3>1. PICK u \in Threads : stack[u] = <<>>
      BY <2>2
    <3> QED  BY <1>1, <1>3, <3>1 DEF Others
  <2> QED  BY <2>1, <2>2 DEF Calm
<1>11. (players = Listed \cap validated)' /\ (\A x \in Listed \cap Clients : reports[x] = 0)'
  BY <1>1, <1>6, Basics DEF Calm, Sockets, Clients
<1>12. Complete({})'
  <2>1. ASSUME NEW x \in open \cap validated, NEW p, Due(x, p) PROVE Due(x, p)'
    <3>1. CASE t = "asio"
      <4>1. \E j \in DOMAIN conns : conns[j] = x /\ f.i <= j
        BY <1>1, <1>2, <2>1, <3>1, DueFirst, Working
      <4>2. f.end = Len(conns)
        BY <1>2, <3>1 DEF Outer
      <4> QED  BY <1>1, <4>1, <4>2, Basics
    <3>2. CASE t # "asio"
      <4>1. stack'["asio"] = stack["asio"]
        BY <1>3, <3>2 DEF Others, Threads
      <4>2. CASE f.invalid
        <5>1. ~(Listed \subseteq open)
          BY <1>2, <4>2, Basics DEF Outer
        <5>2. stack["asio"] = <<>>
          BY <1>1, <3>2, <5>1, CalmAlone DEF Threads
        <5>3. Rest(stack["asio"], 0) /\ DOMAIN stack["asio"] \subseteq Nat \ {0}
          BY <5>2 DEF Rest
        <5> QED  BY <2>1, <5>3, NothingDue
      <4>3. CASE ~f.invalid
        <5>1. UNCHANGED conns
          BY <1>1, <4>3
        <5> QED  BY <2>1, <4>1, <5>1, DueStays
      <4> QED  BY <4>2, <4>3
    <3> QED  BY <3>1, <3>2
  <2> QED  BY <1>1, <2>1, CompleteStays DEF Calm
<1>13. (Null \notin Listed)'
  BY <1>6 DEF Null
<1>14. Calm'
  BY <1>9, <1>10, <1>11, <1>12, <1>13 DEF Calm
<1> QED  BY <1>7, <1>8, <1>14 DEF Regular

\* While nobody is being reported, a step of a handler keeps everything in order.
LEMMA CalmStep ==
    ASSUME IInv, Regular, Calm, NEW t \in Threads, Step(t)
    PROVE  crashed' # "no" \/ Regular'
<1>1. ASSUME Reset(t) PROVE FALSE
  BY <1>1, ResetDoes, CalmHead DEF Sending
<1>2. ASSUME Erase(t) PROVE FALSE
  BY <1>2, EraseDoes, CalmHead
<1>3. ASSUME ReportNull(t) PROVE crashed' # "no"
  BY <1>3 DEF ReportNull, Crash
<1> QED
  BY <1>1, <1>2, <1>3, CalmEnter, CalmSkip, CalmSend, CalmReport, CalmLeave, CalmPlain DEF Step

----------------------------------------------------------------------------
(* Steps while a client is being reported *)

\* Where the report is, by the frame the thread works on.
LEMMA LeavingHead ==
    ASSUME IInv, NEW t \in Threads, NEW c, Leaving(t, c)
    PROVE  LET f == stack[t][1]
           IN  /\ stack[t] # <<>> /\ f.do \in {"all", "loop", "erase"}
               /\ f.do = "all" \/ (f.do = "loop" /\ ~f.reporting) =>
                    Telling(t, stack[t], c) /\ players = Listed \cap validated
               /\ f.do = "erase" => Erasing(t, stack[t], c) /\ players = Listed \cap validated
               /\ f.do = "loop" /\ f.reporting =>
                    Returned(t, stack[t], c) /\ players = (Listed \cap validated) \ {c}
<1>1. CASE Telling(t, stack[t], c) /\ players = Listed \cap validated
  BY <1>1 DEF Telling, Found, Outer
<1>2. CASE Erasing(t, stack[t], c) /\ players = Listed \cap validated
  BY <1>2 DEF Erasing, Found, Outer, Call
<1>3. CASE Returned(t, stack[t], c) /\ players = (Listed \cap validated) \ {c}
  BY <1>3 DEF Returned, Found, Outer
<1> QED  BY <1>1, <1>2, <1>3 DEF Leaving

\* A loop that is reporting goes on to.
LEMMA FoundStays ==
    ASSUME NEW t, NEW s, NEW n, NEW c, Found(t, s, n, c), Sockets, UNCHANGED <<conns, killed>>
    PROVE  Found(t, s, n, c)'
<1>1. Outer(t, s, n)'
  BY OuterStays DEF Found
<1> QED  BY <1>1 DEF Found

\* A step above it leaves what the context thread owes.
LEMMA DueBelow ==
    ASSUME NEW t \in Threads, NEW n \in Nat, Follows(stack[t], stack'[t], n), Others(t), UNCHANGED conns,
           \A p : stack[t][1].do \in {"all", "loop"} => stack[t][1].msg # Msg("NewPlayer", p),
           NEW x, NEW p, Due(x, p)
    PROVE  Due(x, p)'
<1>1. CASE t # "asio"
  BY <1>1, DueStays DEF Others, Threads
<1>2. CASE t = "asio"
  <2>1. PICK k \in DOMAIN stack["asio"] :
          LET f == stack["asio"][k]
          IN  /\ f.do \in {"all", "loop"} /\ f.msg = Msg("NewPlayer", p)
              /\ f.do = "loop" => \E j \in DOMAIN conns : conns[j] = x /\ f.i <= j
    BY DEF Due
  <2>2. k \in 2..Len(stack["asio"])
    BY <1>2, <2>1 DEF Follows
  <2>3. n + k - 1 \in DOMAIN stack'["asio"] /\ stack'["asio"][n + k - 1] = stack["asio"][k]
    BY <1>2, <2>2 DEF Follows
  <2> QED  BY <2>1, <2>3 DEF Due, Msg
<1> QED  BY <1>1, <1>2

\* A report goes on.
LEMMA LeavingTurns ==
    ASSUME IInv, Regular, NEW t \in Threads, NEW c \in Clients, Leaving(t, c),
           Sockets, UNCHANGED <<conns, reports, killed>>, Others(t),
           Truthful', Complete({c})',
           \/ /\ Telling(t, stack[t], c)' \/ Erasing(t, stack[t], c)'
              /\ players' = Listed \cap validated
           \/ Returned(t, stack[t], c)' /\ players' = (Listed \cap validated) \ {c}
    PROVE  Regular'
<1>1. Listing' /\ Reporting'
  BY StandingStays DEF Regular
<1>2. Listed' = Listed /\ validated' = validated
  BY DEF Listed, Sockets
<1>3. (\A u \in Threads \ {t} : stack[u] = <<>>)' /\ (c \in (1..ids) \ open)'
  BY DEF Leaving, Others, Threads, Sockets
<1>4. (\A x \in (Listed \cap Clients) \ {c} : reports[x] = 0)'
  BY <1>2 DEF Leaving, Clients
<1>5. Leaving(t, c)'
  BY <1>2, <1>3, <1>4 DEF Leaving
<1>6. (\E u \in Threads, d \in Clients : Leaving(u, d))'
  BY <1>5 DEF Clients, Threads
<1> QED  BY <1>1, <1>6 DEF Regular

\* The broadcast of RemovePlayer begins.
LEMMA LeavingEnter ==
    ASSUME IInv, Regular, NEW t \in Threads, NEW c \in Clients, Leaving(t, c), Enter(t)
    PROVE  crashed' # "no" \/ Regular'
<1> SUFFICES ASSUME crashed' = "no" PROVE Regular'
  OBVIOUS
<1> DEFINE f == stack[t][1]
           g == Loop(f.msg, f.ignore)
<1>1. /\ f.do = "all" /\ stack[t] # <<>> /\ Sockets
      /\ UNCHANGED <<conns, view, reports, players, killed>>
      /\ Becomes(t, g)
  BY EnterDoes
<1>2. /\ g.do = "loop" /\ g.msg = f.msg /\ g.ignore = f.ignore /\ g.i = 1 /\ g.end = Len(conns)
      /\ ~g.invalid /\ ~g.reporting
  BY DEF Loop
<1> HIDE DEF g
<1>3. Telling(t, stack[t], c) /\ players = Listed \cap validated
  BY <1>1, LeavingHead
<1>4. /\ Follows(stack[t], stack'[t], 1) /\ stack'[t][1] = g /\ Others(t)
      /\ stack'[t][2] = stack[t][2]
  <2>1. Follows(stack[t], stack'[t], 1) /\ stack'[t][1] = g /\ Others(t)
    BY <1>1 DEF Becomes
  <2>2. 2 \in 2..Len(stack[t]) /\ 1 + 2 - 1 = 2
    BY <1>3, <2>1 DEF Telling, Found, Outer, Follows
  <2> QED  BY <2>1, <2>2 DEF Follows
<1>5. Found(t, stack'[t], 3, c)
  <2>1. 1 \in Nat /\ 3 \in Nat \ {0, 1} /\ 1 + 3 - 1 = 3 /\ Found(t, stack[t], 3, c)
    BY <1>3 DEF Telling
  <2>2. Found(t, stack'[t], 1 + 3 - 1, c)
    BY ONLY <1>4, <2>1, FoundMoves
  <2> QED  BY <2>1, <2>2
<1>6. Found(t, stack[t], 3, c)'
  BY <1>1, <1>5, FoundStays
<1>7. Telling(t, stack[t], c)'
  <2>1. (\A k \in DOMAIN conns : k < stack[t][1].i /\ conns[k] \in open => c \notin view[conns[k]])'
    BY <1>1, <1>2, <1>4, Basics
  <2> QED  BY <1>1, <1>2, <1>3, <1>4, <1>6, <2>1 DEF Telling, Call, Msg
<1>8. Truthful'
  <2>1. Updating \subseteq Updating'
    BY <1>1, <1>4, UpdatingStays
  <2> QED  BY <1>1, <2>1, TruthfulStays DEF Regular
<1>9. Complete({c})'
  <2>1. ASSUME NEW p PROVE f.msg # Msg("NewPlayer", p)
    BY <1>3 DEF Telling, Msg
  <2>2. ASSUME NEW x, NEW p, Due(x, p) PROVE Due(x, p)'
    BY <1>1, <1>4, <2>1, <2>2, DueBelow
  <2> QED  BY <1>1, <2>2, CompleteStays DEF Leaving
<1> QED  BY <1>1, <1>3, <1>4, <1>7, <1>8, <1>9, LeavingTurns

\* Its loop goes on.
LEMMA LeavingAdvance ==
    ASSUME IInv, Regular, NEW t \in Threads, NEW c \in Clients, Leaving(t, c), NEW x, Visits(t, x),
           Becomes(t, Advance(stack[t][1])), Sockets, UNCHANGED <<conns, reports, killed, players>>,
           \A y \in open : c \notin view[y] => c \notin view'[y],
           x \in open => c \notin view'[x],
           \A y \in open : view'[y] \subseteq view[y] /\ view[y] \subseteq view'[y] \cup {c},
           \A y \in Clients \ open : view'[y] = view[y]
    PROVE  Regular'
<1> DEFINE f == stack[t][1]
           g == Advance(f)
<1>1. /\ stack[t] # <<>> /\ f.do = "loop" /\ ~f.reporting /\ f.i \in Nat \ {0} /\ f.end \in Nat
      /\ f.i <= f.end /\ Entry(f) = x
  BY DEF Visits
<1>2. Telling(t, stack[t], c) /\ players = Listed \cap validated /\ f \in LoopFrames
  BY <1>1, LeavingHead, Working
<1>3. /\ g.do = "loop" /\ g.msg = f.msg /\ g.ignore = f.ignore /\ g.i = f.i + 1 /\ g.end = f.end
      /\ g.invalid = f.invalid /\ ~g.reporting
  BY <1>1, <1>2 DEF Advance, LoopFrames
<1> HIDE DEF g
<1>4. /\ Follows(stack[t], stack'[t], 1) /\ stack'[t][1] = g /\ Others(t)
      /\ stack'[t][2] = stack[t][2]
  <2>1. Follows(stack[t], stack'[t], 1) /\ stack'[t][1] = g /\ Others(t)
    BY DEF Becomes, g
  <2>2. 2 \in 2..Len(stack[t]) /\ 1 + 2 - 1 = 2
    BY <1>2, <2>1 DEF Telling, Found, Outer, Follows
  <2> QED  BY <2>1, <2>2 DEF Follows
<1>5. Found(t, stack'[t], 3, c)
  <2>1. 1 \in Nat /\ 3 \in Nat \ {0, 1} /\ 1 + 3 - 1 = 3 /\ Found(t, stack[t], 3, c)
    BY <1>2 DEF Telling
  <2>2. Found(t, stack'[t], 1 + 3 - 1, c)
    BY ONLY <1>4, <2>1, FoundMoves
  <2> QED  BY <2>1, <2>2
<1>6. Found(t, stack[t], 3, c)'
  BY <1>5, FoundStays
<1>7. /\ ~f.invalid /\ f.end <= Len(conns) /\ conns[f.i] = x
      /\ \A k \in DOMAIN conns :
           conns[k] \in open /\ (k < f.i \/ f.end < k) => c \notin view[conns[k]]
  <2>1. f.i <= Len(conns)
    BY <1>1, <1>2, Basics DEF Telling
  <2> QED  BY <1>1, <1>2, <2>1 DEF Telling, Entry
<1>8. ASSUME NEW k \in DOMAIN conns, k < g.i \/ g.end < k, conns[k] \in open
      PROVE  c \notin view'[conns[k]]
  <2>1. CASE k = f.i
    BY <1>7, <1>8, <2>1
  <2>2. CASE k # f.i
    <3>1. k < f.i \/ f.end < k
      BY <1>1, <1>3, <1>8, <2>2, Basics
    <3> QED  BY <1>7, <1>8, <3>1
  <2> QED  BY <2>1, <2>2
<1>9. Telling(t, stack[t], c)'
  <2>1. (\A k \in DOMAIN conns :
           conns[k] \in open /\ (k < stack[t][1].i \/ stack[t][1].end < k) => c \notin view[conns[k]])'
    BY <1>4, <1>8 DEF Sockets
  <2> QED  BY <1>2, <1>3, <1>4, <1>6, <1>7, <2>1 DEF Telling, Call, Msg
<1>10. Truthful'
  <2>1. Updating \subseteq Updating'
    BY <1>1, <1>4, UpdatingStays
  <2> SUFFICES ASSUME NEW y \in Clients
               PROVE  /\ y \in open => view'[y] \subseteq players \cup killed \cup Updating'
                      /\ y \notin 1..ids => view'[y] = {}
    BY DEF Truthful, Sockets, Clients
  <2>2. y \notin 1..ids => y \notin open
    BY Basics
  <2> QED  BY <2>1, <2>2 DEF Regular, Truthful
<1>11. Complete({c})'
  <2>1. ASSUME NEW p PROVE f.msg # Msg("NewPlayer", p)
    BY <1>2 DEF Telling, Msg
  <2>2. ASSUME NEW y, NEW p, Due(y, p) PROVE Due(y, p)'
    BY <1>4, <2>1, <2>2, DueBelow
  <2> SUFFICES ASSUME NEW y \in open \cap validated, NEW p \in players \ (killed \cup {c})
               PROVE  p \in view'[y] \/ Due(y, p)'
    BY DEF Complete, Sockets
  <2>3. p \in view[y] \/ Due(y, p)
    BY DEF Leaving, Complete
  <2> QED  BY <2>2, <2>3
<1> QED  BY <1>2, <1>4, <1>9, <1>10, <1>11, LeavingTurns

\* It passes the client that has left.
LEMMA LeavingSkip ==
    ASSUME IInv, Regular, NEW t \in Threads, NEW c \in Clients, Leaving(t, c), Skip(t)
    PROVE  Regular'
<1> DEFINE f == stack[t][1]
<1>1. /\ Visits(t, f.ignore) /\ Becomes(t, Advance(f))
      /\ Sockets /\ UNCHANGED <<conns, crashed, view, reports, players, killed>>
  BY SkipDoes
<1>2. f.ignore = c
  BY <1>1, LeavingHead DEF Visits, Telling
<1>3. c \notin open
  BY DEF Leaving
<1> QED  BY <1>1, <1>2, <1>3, LeavingAdvance

\* It tells another one.
LEMMA LeavingSend ==
    ASSUME IInv, Regular, NEW t \in Threads, NEW c \in Clients, Leaving(t, c),
           NEW x \in Clients, Send(t, x)
    PROVE  Regular'
<1> DEFINE f == stack[t][1]
<1>1. /\ Visits(t, x) /\ Becomes(t, Advance(f)) /\ x \in open
      /\ view' = [view EXCEPT ![x] = Applied(f.msg, view[x])]
      /\ Sockets /\ UNCHANGED <<conns, crashed, reports, players, killed>>
  BY SendDoes
<1>2. f.msg = Msg("RemovePlayer", c)
  BY <1>1, LeavingHead DEF Visits, Telling
<1>3. Applied(f.msg, view[x]) = view[x] \ {c}
  BY <1>2 DEF Applied, Msg
<1>4. view'[x] = view[x] \ {c} /\ \A y \in Clients \ {x} : view'[y] = view[y]
  BY <1>1, <1>3, Basics
<1>5. /\ \A y \in open : c \notin view[y] => c \notin view'[y]
      /\ c \notin view'[x]
      /\ \A y \in open : view'[y] \subseteq view[y] /\ view[y] \subseteq view'[y] \cup {c}
      /\ \A y \in Clients \ open : view'[y] = view[y]
  BY <1>1, <1>4, Basics
<1> QED  BY <1>1, <1>5, LeavingAdvance

\* A client that is being reported is still in the list.
LEMMA FoundListed ==
    ASSUME IInv, NEW t \in Threads, NEW n, NEW c, Found(t, stack[t], n, c)
    PROVE  /\ stack[t][n].i \in DOMAIN conns /\ conns[stack[t][n].i] = c /\ c \in Listed
           /\ stack[t][n] \in LoopFrames
<1>1. n \in DOMAIN stack[t] /\ stack[t][n].do = "loop"
  BY DEF Found, Outer
<1>2. stack[t] \in Seq(Frames(t))
  BY Basics DEF StackOK
<1>3. stack[t][n] \in Frames(t)
  BY <1>1, <1>2
<1>4. stack[t][n] \in LoopFrames
  BY <1>1, <1>3, Kinds
<1>5. stack[t][n].i \in Nat \ {0}
  BY <1>4 DEF LoopFrames
<1>6. stack[t][n].i \in DOMAIN conns
  BY <1>5, Basics DEF Found
<1> QED  BY <1>4, <1>6 DEF Found, Listed

\* It finds another one closed.
LEMMA LeavingReport ==
    ASSUME IInv, Regular, NEW t \in Threads, NEW c \in Clients, Leaving(t, c),
           NEW x \in Clients, Report(t, x)
    PROVE  Doomed(t)'
<1> DEFINE f == stack[t][1]
           a == MessageAllClients(Msg("RemovePlayer", x), x)
<1>1. /\ Visits(t, x) /\ x # f.ignore /\ x \in (1..ids) \ open /\ x \in Listed
      /\ Follows(stack[t], stack'[t], 3) /\ Others(t) /\ stack'[t][1] = a
      /\ Sockets /\ UNCHANGED <<conns, crashed, view, players, killed>>
  BY ReportDoes
<1>2. f.ignore = c /\ Found(t, stack[t], 3, c)
  BY <1>1, LeavingHead DEF Visits, Telling
<1>3. PICK k \in DOMAIN conns : conns[k] = c
  <2>1. c \in Listed
    BY ONLY IInv, t \in Threads, <1>2, FoundListed
  <2> QED  BY <2>1 DEF Listed
<1>4. c # x /\ c \notin open /\ c # Null /\ x # Null
  BY <1>1, <1>2, Basics DEF Leaving
<1>5. a.do = "all" /\ a.ignore = x
  BY DEF MessageAllClients
<1> HIDE DEF a
<1>6. (\A u \in Threads \ {t} : stack[u] = <<>>)'
  BY <1>1 DEF Leaving, Others, Threads
<1>7. stack'[t] # <<>>
  <2>1. Len(stack'[t]) \in Nat \ {0}
    BY <1>1 DEF Follows
  <2> QED  BY <2>1
<1>8. a.ignore \in Listed' \ (open' \cup {Null'})
  BY <1>1, <1>4, <1>5 DEF Listed, Sockets, Null
<1>9. k \in DOMAIN conns' /\ conns'[k] \notin open' \cup {Null', a.ignore}
  BY <1>1, <1>3, <1>4, <1>5 DEF Sockets, Null
<1> QED  BY <1>1, <1>5, <1>6, <1>7, <1>8, <1>9 DEF Doomed

\* It ends, and nobody has the player any more.
LEMMA LeavingLeave ==
    ASSUME IInv, Regular, NEW t \in Threads, NEW c \in Clients, Leaving(t, c), Leave(t)
    PROVE  Regular'
<1> DEFINE f == stack[t][1]
<1>1. /\ stack[t] # <<>> /\ f.do = "loop" /\ ~f.reporting
      /\ f.i \in Nat \ {0} /\ f.end \in Nat /\ f.i > f.end
      /\ conns' \in IF f.invalid THEN Compacted ELSE {conns}
      /\ Drops(t) /\ Sockets /\ UNCHANGED <<crashed, view, reports, players, killed>>
  BY LeaveDoes
<1>2. Telling(t, stack[t], c) /\ players = Listed \cap validated
  BY <1>1, LeavingHead
<1>3. /\ ~f.invalid /\ UNCHANGED conns
      /\ \A k \in DOMAIN conns :
           conns[k] \in open /\ (k < f.i \/ f.end < k) => c \notin view[conns[k]]
  BY <1>1, <1>2 DEF Telling
<1>4. Follows(stack[t], stack'[t], 0) /\ Others(t) /\ stack'[t][1] = Call("erase", c)
  <2>1. Follows(stack[t], stack'[t], 0) /\ Others(t)
    BY <1>1 DEF Drops
  <2>2. 2 \in 2..Len(stack[t]) /\ 0 + 2 - 1 = 1
    BY <1>2, <2>1 DEF Telling, Found, Outer, Follows
  <2> QED  BY <1>2, <2>1, <2>2 DEF Follows, Telling
<1>5. Found(t, stack'[t], 2, c)
  <2>1. 0 \in Nat /\ 3 \in Nat \ {0, 1} /\ 0 + 3 - 1 = 2 /\ Found(t, stack[t], 3, c)
    BY <1>2 DEF Telling
  <2>2. Found(t, stack'[t], 0 + 3 - 1, c)
    BY ONLY <1>4, <2>1, FoundMoves
  <2> QED  BY <2>1, <2>2
<1>6. Found(t, stack[t], 2, c)'
  BY <1>1, <1>3, <1>5, FoundStays
<1>7. Unseen(c)'
  <2> SUFFICES ASSUME NEW x \in open PROVE c \notin view[x]
    BY <1>1 DEF Unseen, Sockets
  <2>1. PICK k \in DOMAIN conns : conns[k] = x
    BY DEF Regular, Listing, Listed
  <2>2. k < f.i \/ f.end < k
    BY <1>1, <2>1, Basics
  <2> QED  BY <1>3, <2>1, <2>2
<1>8. Erasing(t, stack[t], c)'
  BY <1>4, <1>6, <1>7 DEF Erasing, Call
<1>9. Truthful'
  <2>1. Updating \subseteq Updating'
    BY <1>1, <1>4, UpdatingStays
  <2> QED  BY <1>1, <2>1, TruthfulStays DEF Regular
<1>10. Complete({c})'
  <2>1. ASSUME NEW p PROVE f.msg # Msg("NewPlayer", p)
    BY <1>2 DEF Telling, Msg
  <2>2. ASSUME NEW x, NEW p, Due(x, p) PROVE Due(x, p)'
    BY <1>3, <1>4, <2>1, <2>2, DueBelow
  <2> QED  BY <1>1, <2>2, CompleteStays DEF Leaving
<1> QED  BY <1>1, <1>2, <1>3, <1>4, <1>8, <1>9, <1>10, LeavingTurns

\* The player is deleted.
LEMMA LeavingErase ==
    ASSUME IInv, Regular, NEW t \in Threads, NEW c \in Clients, Leaving(t, c), Erase(t)
    PROVE  Regular'
<1> DEFINE f == stack[t][1]
<1>1. /\ stack[t] # <<>> /\ f.do = "erase" /\ players' = players \ {f.arg}
      /\ Drops(t) /\ Sockets /\ UNCHANGED <<conns, crashed, view, reports, killed>>
  BY EraseDoes
<1>2. Erasing(t, stack[t], c) /\ players = Listed \cap validated
  BY <1>1, LeavingHead
<1>3. players' = (Listed \cap validated) \ {c} /\ Unseen(c)
  BY <1>1, <1>2 DEF Erasing, Call
<1>4. Follows(stack[t], stack'[t], 0) /\ Others(t)
  BY <1>1 DEF Drops
<1>5. Found(t, stack'[t], 1, c)
  <2>1. 0 \in Nat /\ 2 \in Nat \ {0, 1} /\ 0 + 2 - 1 = 1 /\ Found(t, stack[t], 2, c)
    BY <1>2 DEF Erasing
  <2>2. Found(t, stack'[t], 0 + 2 - 1, c)
    BY ONLY <1>4, <2>1, FoundMoves
  <2> QED  BY <2>1, <2>2
<1>6. Found(t, stack[t], 1, c)'
  BY <1>1, <1>5, FoundStays
<1>7. Returned(t, stack[t], c)'
  BY <1>1, <1>3, <1>6 DEF Returned, Unseen, Sockets
<1>8. Truthful'
  <2>1. Updating \subseteq Updating'
    BY <1>1, <1>4, UpdatingStays
  <2> SUFFICES ASSUME NEW x \in Clients
               PROVE  /\ x \in open => view[x] \subseteq players' \cup killed \cup Updating'
                      /\ x \notin 1..ids => view[x] = {}
    BY <1>1 DEF Truthful, Sockets, Clients
  <2> QED  BY <1>2, <1>3, <2>1 DEF Regular, Truthful, Unseen
<1>9. Complete({c})'
  <2>1. ASSUME NEW x, NEW p, Due(x, p) PROVE Due(x, p)'
    <3>1. f.do \notin {"all", "loop"}
      BY <1>1
    <3> QED  BY <1>1, <1>4, <2>1, <3>1, DueBelow
  <2> SUFFICES ASSUME NEW x \in open \cap validated, NEW p \in players' \ (killed \cup {c})
               PROVE  p \in view[x] \/ Due(x, p)'
    BY <1>1 DEF Complete, Sockets
  <2>2. p \in players \ (killed \cup {c})
    BY <1>1
  <2>3. p \in view[x] \/ Due(x, p)
    BY <2>2 DEF Leaving, Complete
  <2> QED  BY <2>1, <2>3
<1> QED  BY <1>1, <1>3, <1>4, <1>7, <1>8, <1>9, LeavingTurns

\* The entry is reset, and the handler's own broadcast goes on.
LEMMA LeavingReset ==
    ASSUME IInv, Regular, NEW t \in Threads, NEW c \in Clients, Leaving(t, c), Reset(t)
    PROVE  Regular'
<1> DEFINE f == stack[t][1]
           g == Resumed(f)
<1>1. /\ stack[t] # <<>> /\ f.do = "loop" /\ f.reporting
      /\ f.i \in Nat \ {0} /\ f.end \in Nat
      /\ conns' = Cleared(f.i) /\ Becomes(t, g)
      /\ Sockets /\ UNCHANGED <<crashed, view, reports, players, killed>>
  BY ResetDoes
<1>2. Returned(t, stack[t], c) /\ players = (Listed \cap validated) \ {c}
  BY <1>1, LeavingHead
<1>3. /\ f.i \in DOMAIN conns /\ conns[f.i] = c /\ c \in Listed /\ f \in LoopFrames
      /\ Outer(t, stack[t], 1) /\ f.i <= Len(conns) /\ c # f.ignore
  BY <1>2, FoundListed DEF Returned, Found
<1>4. /\ g.do = "loop" /\ g.msg = f.msg /\ g.ignore = f.ignore /\ g.i = f.i + 1 /\ g.end = f.end
      /\ g.invalid /\ ~g.reporting
  BY <1>3 DEF Resumed, Invalidated, Advance, LoopFrames
<1> HIDE DEF g
<1>5. c \in (1..ids) \ open /\ c # Null
  BY Basics DEF Leaving
<1>6. /\ conns' = [conns EXCEPT ![f.i] = Null]
      /\ DOMAIN conns' = DOMAIN conns /\ Len(conns') = Len(conns)
      /\ conns'[f.i] = Null /\ \A k \in DOMAIN conns \ {f.i} : conns'[k] = conns[k]
  <2>1. conns' = [conns EXCEPT ![f.i] = Null]
    BY <1>1, <1>3 DEF Cleared
  <2> QED  BY <1>3, <2>1, Basics
<1>7. Listed' \ {Null} = Listed \ {c, Null}
  <2>1. ASSUME NEW k \in DOMAIN conns', conns'[k] # Null PROVE conns'[k] \in Listed \ {c, Null}
    <3>1. k \in DOMAIN conns /\ k # f.i /\ conns'[k] = conns[k]
      BY <1>6, <2>1
    <3>2. conns[k] # c
      BY <1>3, <1>5, <3>1 DEF Regular, Listing
    <3> QED  BY <2>1, <3>1, <3>2 DEF Listed
  <2>2. ASSUME NEW k \in DOMAIN conns, conns[k] \notin {c, Null} PROVE conns[k] \in Listed'
    <3>1. k # f.i /\ k \in DOMAIN conns' /\ conns'[k] = conns[k]
      BY <1>3, <1>6, <2>2
    <3> QED  BY <3>1 DEF Listed
  <2> QED  BY <2>1, <2>2 DEF Listed
<1>8. Listing' /\ Reporting'
  <2>1. open' \subseteq Listed'
    BY <1>1, <1>5, <1>7, Basics DEF Regular, Listing, Sockets
  <2>2. ASSUME NEW j \in DOMAIN conns', NEW k \in DOMAIN conns', conns'[j] = conns'[k], conns'[j] # Null
        PROVE  j = k
    <3>1. /\ j \in DOMAIN conns /\ k \in DOMAIN conns /\ conns[j] = conns'[j] /\ conns[k] = conns'[k]
      BY <1>6, <2>2
    <3> QED  BY <2>2, <3>1 DEF Regular, Listing
  <2>3. Reporting'
    BY <1>1 DEF Regular, Reporting, Sockets, Clients
  <2> QED  BY <2>1, <2>2, <2>3 DEF Listing, Null
<1>9. Follows(stack[t], stack'[t], 1) /\ stack'[t][1] = g /\ Others(t)
  BY <1>1 DEF Becomes
<1>10. Truthful'
  <2>1. Updating \subseteq Updating'
    BY <1>1, <1>9, UpdatingStays
  <2> QED  BY <1>1, <2>1, TruthfulStays DEF Regular
<1>11. 1 \in 1..Len(stack[t]) /\ DOMAIN stack[t] \subseteq Nat \ {0}
  BY <1>1, Working
<1>12. Moved(stack[t], 1, stack'[t], 1)
  BY <1>4, <1>9, <1>11 DEF Moved
<1>13. Own(t, stack'[t], 1) /\ Rest(stack'[t], 1) /\ 1 \in DOMAIN stack'[t]
  BY <1>3, <1>12, OwnMoves, RestMoves DEF Outer
<1>14. Own(t, stack[t], 1)'
  <2>1. \A x \in validated : x \in Listed /\ x # c => x \in Listed'
    BY <1>7, Basics
  <2>2. stack'[t][1].ignore # c
    BY <1>3, <1>4, <1>9
  <2> QED  BY <1>1, <1>13, <2>1, <2>2 DEF Own, Sockets, Call
<1>15. Sending(t, stack[t])'
  <2>1. ASSUME NEW k \in DOMAIN conns', conns'[k] = Null PROVE k < g.i
    <3>1. CASE k = f.i
      BY <1>1, <1>4, <3>1
    <3>2. CASE k # f.i
      <4>1. k \in DOMAIN conns /\ conns[k] = Null
        BY <1>6, <2>1, <3>2
      <4>2. k < f.i
        BY <1>3, <4>1 DEF Outer
      <4> QED  BY <1>1, <1>4, <4>1, <4>2, Basics
    <3> QED  BY <3>1, <3>2
  <2>2. c \in Gone' /\ Null \in Listed'
    BY <1>1, <1>3, <1>5, <1>6, <1>7 DEF Gone, Sockets, Listed
  <2>3. g.end <= Len(conns') /\ (t = "asio" => g.end = Len(conns'))
    BY <1>3, <1>4, <1>6 DEF Outer
  <2>4. Outer(t, stack[t], 1)'
    BY <1>4, <1>9, <1>13, <1>14, <2>1, <2>2, <2>3 DEF Outer, Rest, Null
  <2> QED  BY <1>4, <1>9, <2>4 DEF Sending
<1>16. Complete({})'
  <2>1. ASSUME NEW x \in open, NEW p, Due(x, p) PROVE Due(x, p)'
    <3>0. x # Null /\ x # c
      BY <1>5, Basics
    <3>1. CASE t # "asio"
      <4>1. stack["asio"] = <<>>
        BY <3>1 DEF Leaving, Threads
      <4>2. Rest(stack["asio"], 0) /\ DOMAIN stack["asio"] \subseteq Nat \ {0}
        BY <4>1 DEF Rest
      <4> QED  BY <2>1, <4>2, NothingDue
    <3>2. CASE t = "asio"
      <4>1. /\ x # p /\ f.msg = Msg("NewPlayer", p)
            /\ \E j \in DOMAIN conns : conns[j] = x /\ f.i <= j
        BY <1>1, <1>3, <1>11, <2>1, <3>2, DueFirst DEF Outer
      <4>2. PICK j \in DOMAIN conns : conns[j] = x /\ f.i <= j
        BY <4>1
      <4>3. j # f.i
        BY <1>3, <3>0, <4>2
      <4>4. j \in DOMAIN conns' /\ conns'[j] = x /\ g.i <= j
        BY <1>1, <1>4, <1>6, <4>2, <4>3, Basics
      <4>5. /\ 1 \in DOMAIN stack'["asio"] /\ stack'["asio"][1].do = "loop"
            /\ stack'["asio"][1].i = g.i /\ stack'["asio"][1].msg = Msg("NewPlayer", p)
        BY <1>4, <1>9, <1>13, <3>2, <4>1
      <4> QED  BY <4>1, <4>4, <4>5 DEF Due, Msg
    <3> QED  BY <3>1, <3>2
  <2> SUFFICES ASSUME NEW x \in open \cap validated, NEW p \in players \ (killed \cup {})
               PROVE  p \in view[x] \/ Due(x, p)'
    BY <1>1 DEF Complete, Sockets
  <2>2. p \in players \ (killed \cup {c})
    BY <1>2
  <2>3. p \in view[x] \/ Due(x, p)
    BY <2>2 DEF Leaving, Complete
  <2> QED  BY <2>1, <2>3
<1>17. Calm'
  <2>1. ASSUME NEW u \in Threads PROVE Resting(u, stack[u])' \/ Sending(u, stack[u])'
    <3>1. CASE u # t
      <4>1. stack'[u] = <<>>
        BY <1>9, <3>1 DEF Others, Leaving
      <4> QED  BY <4>1 DEF Resting, Rest
    <3> QED  BY <1>15, <3>1
  <2>2. (\E u \in Threads : stack[u] = <<>>)'
    BY <1>9 DEF Others, Leaving, Threads
  <2>3. (players = Listed \cap validated)' /\ (\A x \in Listed \cap Clients : reports[x] = 0)'
    <3>1. players' = Listed' \cap validated'
      BY <1>1, <1>2, <1>7, Basics DEF Sockets
    <3>2. \A x \in Listed' \cap Clients : reports'[x] = 0
      BY <1>1, <1>7, Basics DEF Leaving
    <3> QED  BY <3>1, <3>2 DEF Clients
  <2> QED  BY <1>15, <1>16, <2>1, <2>2, <2>3 DEF Calm
<1> QED  BY <1>8, <1>10, <1>17 DEF Regular

\* While a client is being reported, a step keeps everything in order unless the
\* report is caught in another one.
LEMMA LeavingStep ==
    ASSUME IInv, Regular, NEW t \in Threads, NEW c \in Clients, Leaving(t, c), NEW u \in Threads, Step(u)
    PROVE  crashed' # "no" \/ Regular' \/ Doomed(t)'
<1>1. stack[u] # <<>>
  BY DEF Step, Enter, Skip, ReportNull, Reset, Leave, Erase, Send, Report, Count, Fill, Generate,
         UpdatePlayer, DeletePowerup, AtEntry, Ready
<1>2. u = t
  BY <1>1 DEF Leaving
<1>3. stack[t][1].do \in {"all", "loop", "erase"} /\ Head(stack[t]) = stack[t][1]
  BY <1>1, <1>2, LeavingHead, Working
<1>4. ASSUME ReportNull(t) PROVE crashed' # "no"
  BY <1>4 DEF ReportNull, Crash
<1>5. ~Count(t) /\ ~Fill(t) /\ ~Generate(t) /\ ~UpdatePlayer(t) /\ ~DeletePowerup(t)
  BY <1>3 DEF Count, Fill, Generate, UpdatePlayer, DeletePowerup, Ready
<1> QED
  BY <1>2, <1>4, <1>5, LeavingEnter, LeavingSkip, LeavingSend, LeavingReport, LeavingLeave, LeavingErase,
     LeavingReset DEF Step


----------------------------------------------------------------------------
(* Steps while two clients are being reported at once *)

\* The loop of a report that has another closed connection ahead stays before it.
LEMMA DoomedStep ==
    ASSUME IInv, NEW t \in Threads, Doomed(t), NEW u \in Threads, Step(u)
    PROVE  crashed' # "no" \/ Doomed(t)'
<1> SUFFICES ASSUME crashed' = "no" PROVE Doomed(t)'
  OBVIOUS
<1> DEFINE f == stack[t][1]
<1>1. stack[u] # <<>>
  BY DEF Step, Enter, Skip, ReportNull, Reset, Leave, Erase, Send, Report, Count, Fill, Generate,
         UpdatePlayer, DeletePowerup, AtEntry, Ready
<1>2. u = t /\ stack[t] # <<>> /\ Head(stack[t]) = f /\ f.do \in {"all", "loop"}
  BY <1>1, Working DEF Doomed
<1>3. f.ignore \in Listed \ (open \cup {Null})
  BY DEF Doomed
<1>4. PICK k \in DOMAIN conns :
        /\ conns[k] \notin open \cup {Null, f.ignore}
        /\ f.do = "loop" => ~f.reporting /\ f.i <= k /\ k <= f.end
  BY DEF Doomed
<1>5. k \in 1..Len(conns) /\ Len(conns) \in Nat
  BY Basics
<1>6. ASSUME NEW g, stack'[t] # <<>>, stack'[t][1] = g, g.do \in {"all", "loop"}, Others(t), Sockets,
             UNCHANGED conns, g.ignore \in Listed \ (open \cup {Null}),
             NEW j \in DOMAIN conns, conns[j] \notin open \cup {Null, g.ignore},
             g.do = "loop" => ~g.reporting /\ g.i <= j /\ j <= g.end
      PROVE  Doomed(t)'
  <2>1. (\A v \in Threads \ {t} : stack[v] = <<>>)'
    BY <1>6 DEF Doomed, Others, Threads
  <2>2. Listed' = Listed /\ open' = open
    BY <1>6 DEF Listed, Sockets
  <2> QED  BY <1>6, <2>1, <2>2 DEF Doomed, Null
<1>7. ASSUME NEW n \in Nat \ {0}, Follows(stack[t], stack'[t], n) PROVE stack'[t] # <<>>
  <2>1. Len(stack'[t]) \in Nat \ {0}
    BY <1>7 DEF Follows
  <2> QED  BY <2>1
<1>8. ASSUME NEW x, Visits(t, x), x # Null, x \in open \cup {f.ignore}, Becomes(t, Advance(f)), Sockets,
             UNCHANGED conns
      PROVE  Doomed(t)'
  <2>1. f \in LoopFrames /\ f.do = "loop" /\ f.i \in Nat \ {0} /\ Entry(f) = x
    BY <1>2, <1>8, Working DEF Visits
  <2>2. f.i # k
    BY <1>4, <1>5, <1>8, <2>1 DEF Entry
  <2> DEFINE g == Advance(f)
  <2>3. /\ g.do = "loop" /\ g.ignore = f.ignore /\ g.i = f.i + 1 /\ g.end = f.end
        /\ g.reporting = f.reporting
    BY <2>1 DEF Advance, LoopFrames
  <2>4. stack'[t][1] = g /\ Others(t) /\ Follows(stack[t], stack'[t], 1)
    BY <1>8 DEF Becomes
  <2> HIDE DEF g
  <2>5. g.i <= k
    BY <1>4, <1>5, <2>1, <2>2, <2>3
  <2>6. stack'[t] # <<>>
    BY <1>7, <2>4
  <2> QED  BY <1>3, <1>4, <1>6, <1>8, <2>1, <2>3, <2>4, <2>5, <2>6
<1>9. CASE Enter(t)
  <2> DEFINE g == Loop(f.msg, f.ignore)
  <2>1. Becomes(t, g) /\ Sockets /\ UNCHANGED conns
    BY <1>9, EnterDoes
  <2>2. g.do = "loop" /\ g.ignore = f.ignore /\ g.i = 1 /\ g.end = Len(conns) /\ ~g.reporting
    BY DEF Loop
  <2> HIDE DEF g
  <2>3. stack'[t][1] = g /\ Others(t) /\ Follows(stack[t], stack'[t], 1)
    BY <2>1 DEF Becomes
  <2>4. stack'[t] # <<>> /\ g.i <= k /\ k <= g.end
    BY <1>5, <1>7, <2>2, <2>3
  <2> QED  BY <1>3, <1>4, <1>6, <2>1, <2>2, <2>3, <2>4
<1>10. CASE Skip(t)
  BY <1>3, <1>8, <1>10, SkipDoes
<1>11. ASSUME NEW x \in Clients, Send(t, x) PROVE Doomed(t)'
  <2>1. x # Null
    BY Basics
  <2> QED  BY <1>8, <1>11, <2>1, SendDoes
<1>12. ASSUME NEW x \in Clients, Report(t, x) PROVE Doomed(t)'
  <2> DEFINE g == MessageAllClients(Msg("RemovePlayer", x), x)
  <2>1. /\ x # f.ignore /\ x \in (1..ids) \ open /\ x \in Listed
        /\ Follows(stack[t], stack'[t], 3) /\ Others(t) /\ stack'[t][1] = g
        /\ Sockets /\ UNCHANGED conns
    BY <1>12, ReportDoes
  <2>2. x # Null
    BY Basics
  <2>3. g.do = "all" /\ g.ignore = x
    BY DEF MessageAllClients
  <2> HIDE DEF g
  <2>4. PICK j \in DOMAIN conns : conns[j] = f.ignore
    BY <1>3 DEF Listed
  <2>5. stack'[t] # <<>>
    BY <1>7, <2>1
  <2> QED  BY <1>3, <1>6, <2>1, <2>2, <2>3, <2>4, <2>5
<1>13. ~Reset(t)
  BY <1>2, <1>4 DEF Reset, Ready
<1>14. ~Leave(t)
  BY <1>4, <1>5, LeaveDoes
<1>15. ~ReportNull(t)
  BY DEF ReportNull, Crash
<1>16. ~Erase(t) /\ ~Count(t) /\ ~Fill(t) /\ ~Generate(t) /\ ~UpdatePlayer(t) /\ ~DeletePowerup(t)
  BY <1>2 DEF Erase, Count, Fill, Generate, UpdatePlayer, DeletePowerup, Ready
<1> QED  BY <1>2, <1>9, <1>10, <1>11, <1>12, <1>13, <1>14, <1>15, <1>16 DEF Step

----------------------------------------------------------------------------
(* Clients that close, connect and answer, and messages from them *)

\* Two handlers begin one beside the other only while everybody in the list is
\* connected, so none begins while a client is being reported.
LEMMA Waits ==
    ASSUME IInv, ~raced', NEW u \in Threads, NEW calls, calls # <<>>, Start(u, calls),
           Regular \/ \E t \in Threads : Doomed(t)
    PROVE  /\ Regular /\ Calm /\ stack[u] = <<>>
           /\ Listed \subseteq open \/ \A t \in Threads : stack[t] = <<>>
<1>1. stack[u] = <<>> /\ (Listed \subseteq open \/ \A t \in Threads : stack[t] = <<>>)
  BY DEF Start
<1>2. ASSUME NEW t \in Threads, Doomed(t) PROVE FALSE
  <2>1. stack[t] # <<>> /\ stack[t][1].ignore \in Listed \ (open \cup {Null})
    BY <1>2 DEF Doomed
  <2> QED  BY <1>1, <2>1
<1>3. ASSUME NEW t \in Threads, NEW c \in Clients, Leaving(t, c) PROVE FALSE
  <2>1. stack[t] # <<>>
    BY <1>3, LeavingHead
  <2>2. c \in Listed /\ c \notin open
    <3>1. PICK n : Found(t, stack[t], n, c)
      BY <1>3 DEF Leaving, Telling, Erasing, Returned
    <3>2. c \in Listed
      BY ONLY IInv, t \in Threads, <3>1, FoundListed
    <3> QED  BY <1>3, <3>2 DEF Leaving
  <2> QED  BY <1>1, <2>1, <2>2
<1> QED  BY <1>1, <1>2, <1>3 DEF Regular

\* While the context thread does nothing no client is to get a NewPlayer.
LEMMA IdleOwesNothing ==
    ASSUME stack["asio"] = <<>>, NEW x, NEW p
    PROVE  ~Due(x, p)
  BY DEF Due

\* A client that closes does not affect a broadcast of the main thread.
LEMMA OuterCloses ==
    ASSUME NEW s, NEW n, Outer("main", s, n), open' \subseteq open,
           UNCHANGED <<conns, ids, validated, killed>>
    PROVE  Outer("main", s, n)'
<1>1. Own("main", s, n)'
  BY DEF Outer, Own, Call, Listed
<1>2. Gone \subseteq Gone' /\ Listed' = Listed
  BY DEF Gone, Listed
<1> QED  BY <1>1, <1>2 DEF Outer, Rest, Null

\* Nor one that it has found closed.
LEMMA FoundCloses ==
    ASSUME NEW s, NEW n, NEW c, Found("main", s, n, c), open' \subseteq open,
           UNCHANGED <<conns, ids, validated, killed>>
    PROVE  Found("main", s, n, c)'
<1>1. Outer("main", s, n)'
  BY OuterCloses DEF Found
<1> QED  BY <1>1 DEF Found

\* Nor the calls of a handler.
LEMMA RestingCloses ==
    ASSUME NEW s, Resting("main", s), open' \subseteq open, UNCHANGED <<conns, ids, validated, killed>>
    PROVE  Resting("main", s)'
  BY DEF Resting, Own, Rest, Call, Listed

\* A client closes.
LEMMA CloseOrderly ==
    ASSUME IInv, Regular \/ \E t \in Threads : Doomed(t), NEW c \in Clients, Close(c)
    PROVE  Regular' \/ (\E t \in Threads : Doomed(t))'
<1>1. /\ stack["asio"] = <<>> /\ open' = open \ {c} /\ open' \subseteq open
      /\ UNCHANGED <<conns, ids, validated, stack, crashed, view, reports, players, killed>>
  BY DEF Close, game
<1>2. Listed' = Listed
  BY <1>1 DEF Listed
<1>3. ASSUME NEW t \in Threads, Doomed(t) PROVE (\E u \in Threads : Doomed(u))'
  <2>1. Doomed(t)'
    BY <1>1, <1>2, <1>3 DEF Doomed, Null, Threads
  <2> QED  BY <2>1
<1>4. ASSUME Regular PROVE Listing' /\ Reporting' /\ Truthful'
  <2>1. Listing' /\ Reporting'
    BY <1>1, <1>2, <1>4 DEF Regular, Listing, Reporting, Null, Clients
  <2>2. Updating' = Updating
    BY <1>1 DEF Updating
  <2> QED  BY <1>1, <1>4, <2>1, <2>2 DEF Regular, Truthful, Clients
<1>5. ASSUME NEW S, Complete(S) PROVE Complete(S)'
  <2> SUFFICES ASSUME NEW x \in open' \cap validated, NEW p \in players \ (killed \cup S)
               PROVE  p \in view[x]
    BY <1>1 DEF Complete
  <2>1. x \in open \cap validated
    BY <1>1
  <2>2. p \in view[x] \/ Due(x, p)
    BY <1>5, <2>1 DEF Complete
  <2> QED  BY <1>1, <2>2, IdleOwesNothing
<1>6. ASSUME Regular, Calm PROVE Regular'
  <2>1. ASSUME NEW t \in Threads PROVE /\ Resting(t, stack[t]) => Resting(t, stack[t])'
                                       /\ Sending(t, stack[t]) => Sending(t, stack[t])'
    <3>1. CASE t = "asio"
      <4>1. stack'[t] = <<>> /\ stack[t] = <<>>
        BY <1>1, <3>1
      <4> QED  BY <4>1 DEF Resting, Rest, Sending, Outer
    <3>2. CASE t # "asio"
      <4>1. t = "main" /\ stack'[t] = stack[t]
        BY <1>1, <3>2 DEF Threads
      <4>2. Resting("main", stack[t]) => Resting("main", stack[t])'
        BY <1>1, <4>1, RestingCloses
      <4>3. Outer("main", stack[t], 1) => Outer("main", stack[t], 1)'
        BY <1>1, <4>1, OuterCloses
      <4> QED  BY <4>1, <4>2, <4>3 DEF Sending
    <3> QED  BY <3>1, <3>2
  <2>2. (\A t \in Threads : Resting(t, stack[t]) \/ Sending(t, stack[t]))'
    BY <1>6, <2>1 DEF Calm, Threads
  <2>3. (Listed \subseteq open \/ \E t \in Threads : stack[t] = <<>>)'
    BY <1>1 DEF Threads
  <2>4. (Null \notin Listed \/ \E t \in Threads : Sending(t, stack[t]))'
    BY <1>2, <1>6, <2>1 DEF Calm, Threads, Null
  <2>5. (players = Listed \cap validated)' /\ (\A x \in Listed \cap Clients : reports[x] = 0)'
    BY <1>1, <1>2, <1>6 DEF Calm, Clients
  <2>6. Complete({})'
    BY <1>5, <1>6 DEF Calm
  <2>7. Calm'
    BY <2>2, <2>3, <2>4, <2>5, <2>6 DEF Calm
  <2> QED  BY <1>4, <1>6, <2>7 DEF Regular
<1>7. ASSUME Regular, NEW t \in Threads, NEW d \in Clients, Leaving(t, d) PROVE Regular'
  <2>1. t = "main" /\ stack'[t] = stack[t]
    <3>1. stack[t] # <<>>
      BY <1>7, LeavingHead
    <3> QED  BY <1>1, <3>1 DEF Threads
  <2>2. ASSUME NEW n, Found(t, stack[t], n, d) PROVE Found(t, stack[t], n, d)'
    BY <1>1, <2>1, <2>2, FoundCloses
  <2>3. Telling(t, stack[t], d) => Telling(t, stack[t], d)'
    BY <1>1, <2>1, <2>2 DEF Telling, Call, Msg
  <2>4. Erasing(t, stack[t], d) => Erasing(t, stack[t], d)'
    BY <1>1, <2>1, <2>2 DEF Erasing, Call, Unseen
  <2>5. Returned(t, stack[t], d) => Returned(t, stack[t], d)'
    BY <1>1, <2>1, <2>2 DEF Returned, Unseen
  <2>6. (\A u \in Threads \ {t} : stack[u] = <<>>)' /\ (d \in (1..ids) \ open)'
    BY <1>1, <1>7 DEF Leaving, Threads
  <2>7. (\A x \in (Listed \cap Clients) \ {d} : reports[x] = 0)' /\ Complete({d})'
    BY <1>1, <1>2, <1>5, <1>7 DEF Leaving, Clients
  <2>8. Leaving(t, d)'
    BY <1>1, <1>2, <1>7, <2>3, <2>4, <2>5, <2>6, <2>7 DEF Leaving
  <2>9. (\E u \in Threads, x \in Clients : Leaving(u, x))'
    BY <2>8 DEF Clients, Threads
  <2> QED  BY <1>4, <1>7, <2>9 DEF Regular
<1> QED  BY <1>3, <1>6, <1>7 DEF Regular

\* the list has one more entry, for a new client n
Joins(n) ==
    /\ n = ids + 1 /\ n \in Clients \ (1..ids) /\ ids' = n /\ n # Null
    /\ n \notin Listed \cup validated \cup open
    /\ 1..ids' = (1..ids) \cup {n} /\ open' = open \cup {n} /\ Listed' = Listed \cup {n}
    /\ Len(conns') = Len(conns) + 1 /\ conns'[Len(conns) + 1] = n
    /\ DOMAIN conns' = DOMAIN conns \cup {Len(conns) + 1} /\ Len(conns) + 1 \notin DOMAIN conns
    /\ \A k \in DOMAIN conns : conns'[k] = conns[k]
    /\ \A t \in Threads : stack'[t] = stack[t]
    /\ stack["asio"] = <<>>
    /\ UNCHANGED <<validated, crashed, view, reports, players, killed>>

\* A client connects.
LEMMA AcceptJoins == ASSUME IInv, Accept PROVE Joins(ids + 1)
<1> DEFINE n == ids + 1
<1>1. /\ ids < MaxClients /\ ids' = n /\ conns' = Append(conns, n) /\ open' = open \cup {n}
      /\ stack' = [stack EXCEPT !["asio"] = <<>>] /\ stack["asio"] = <<>> /\ "asio" \in Threads
      /\ UNCHANGED <<validated, crashed, view, reports, players, killed>>
  BY DEF Accept, NextId, game, Start, Threads
<1>2. \A t \in Threads : stack'[t] = stack[t]
  BY <1>1, Basics DEF StackOK
<1>3. n \in Clients /\ n \notin 1..ids /\ 1..n = (1..ids) \cup {n} /\ n # Null
  BY <1>1, SnekServerAssumption, Basics DEF Clients, Null
<1>4. /\ Len(conns') = Len(conns) + 1 /\ DOMAIN conns' = 1..(Len(conns) + 1)
      /\ conns'[Len(conns) + 1] = n /\ \A k \in DOMAIN conns : conns'[k] = conns[k]
  BY <1>1, Basics
<1>5. DOMAIN conns' = DOMAIN conns \cup {Len(conns) + 1} /\ Len(conns) + 1 \notin DOMAIN conns
  BY <1>4, Basics
<1> HIDE DEF n
<1>6. Listed' = Listed \cup {n}
  <2>1. ASSUME NEW k \in DOMAIN conns' PROVE conns'[k] \in Listed \cup {n}
    BY <1>4, <1>5 DEF Listed
  <2>2. ASSUME NEW k \in DOMAIN conns PROVE conns[k] \in Listed'
    BY <1>4, <1>5 DEF Listed
  <2>3. n \in Listed'
    BY <1>4, <1>5 DEF Listed
  <2> QED  BY <2>1, <2>2, <2>3 DEF Listed
<1>7. n \notin Listed \cup validated \cup open
  BY <1>3, Basics
<1> QED  BY <1>1, <1>2, <1>3, <1>4, <1>5, <1>6, <1>7 DEF Joins, n

\* A broadcast of the main thread is not affected, nor is one that it calls.
LEMMA OuterJoins ==
    ASSUME NEW n, Joins(n), NEW s, NEW j, Len(conns) \in Nat
    PROVE  /\ Resting("main", s) => Resting("main", s)'
           /\ Outer("main", s, j) /\ s[j].end \in Nat => Outer("main", s, j)'
<1>1. ASSUME NEW k PROVE Own("main", s, k)' <=> Own("main", s, k)
  BY DEF Own, Call, Joins
<1>2. ASSUME NEW k PROVE Rest(s, k)' <=> Rest(s, k)
  BY DEF Rest
<1>3. Resting("main", s) => Resting("main", s)'
  BY <1>1, <1>2 DEF Resting
<1>4. Gone' = Gone
  BY DEF Gone, Joins
<1>5. ASSUME Outer("main", s, j), s[j].end \in Nat PROVE Outer("main", s, j)'
  <2>1. s[j].invalid => (Gone # {})' /\ (Null \in Listed)'
    BY <1>4, <1>5 DEF Outer, Joins, Null
  <2>2. s[j].end <= Len(conns)'
    BY <1>5 DEF Outer, Joins
  <2>3. \A k \in DOMAIN conns' : conns'[k] = Null => k < s[j].i /\ s[j].invalid
    BY <1>5 DEF Outer, Joins
  <2> QED  BY <1>1, <1>2, <1>5, <2>1, <2>2, <2>3 DEF Outer, Null
<1> QED  BY <1>3, <1>5

\* Who is in the game has all players still: the new client is not in it.
LEMMA JoinsComplete ==
    ASSUME NEW n, Joins(n), NEW S, Complete(S)
    PROVE  Complete(S)'
<1> SUFFICES ASSUME NEW x \in open' \cap validated', NEW p \in players' \ (killed' \cup S)
             PROVE  p \in view'[x]
  BY DEF Complete
<1>1. /\ x \in open \cap validated /\ p \in players \ (killed \cup S) /\ view' = view
      /\ stack["asio"] = <<>>
  BY DEF Joins
<1>2. p \in view[x] \/ Due(x, p)
  BY <1>1 DEF Complete
<1> QED  BY <1>1, <1>2, IdleOwesNothing

\* A thread that will not return does not because of it.
LEMMA JoinsDoomed ==
    ASSUME NEW n, Joins(n), NEW t \in Threads, Doomed(t)
    PROVE  Doomed(t)'
<1> DEFINE f == stack[t][1]
<1>1. /\ \A u \in Threads \ {t} : stack'[u] = <<>>
      /\ stack'[t] = stack[t] /\ stack[t] # <<>> /\ f.do \in {"all", "loop"}
      /\ f.ignore \in Listed' \ (open' \cup {Null})
  BY DEF Doomed, Joins
<1>2. PICK k \in DOMAIN conns :
        /\ conns[k] \notin open \cup {Null, f.ignore}
        /\ f.do = "loop" => ~f.reporting /\ f.i <= k /\ k <= f.end
  BY DEF Doomed
<1>3. k \in DOMAIN conns' /\ conns'[k] = conns[k] /\ conns[k] \notin open'
  BY <1>2 DEF Joins, Listed
<1> QED  BY <1>1, <1>2, <1>3 DEF Doomed, Null, Threads

\* Nobody is being reported, and a client connects.
LEMMA CalmJoins ==
    ASSUME IInv, NEW n, Joins(n), Regular, Calm
    PROVE  Calm'
<1>1. ASSUME NEW t \in Threads PROVE /\ Resting(t, stack[t]) => Resting(t, stack[t])'
                                     /\ Sending(t, stack[t]) => Sending(t, stack[t])'
  <2>1. CASE t = "asio"
    <3>1. stack'[t] = <<>> /\ stack[t] = <<>>
      BY <2>1 DEF Joins
    <3> QED  BY <3>1 DEF Resting, Rest, Sending, Outer
  <2>2. CASE t # "asio"
    <3>1. t = "main" /\ stack'[t] = stack[t]
      BY <2>2 DEF Threads, Joins
    <3>2. ASSUME Sending(t, stack[t]) PROVE stack[t][1].end \in Nat /\ Outer("main", stack[t], 1)
      <4>1. stack[t] # <<>> /\ stack[t][1].do = "loop"
        BY <3>2 DEF Sending, Outer
      <4> QED  BY <3>1, <3>2, <4>1, Working DEF Sending
    <3>3. /\ Resting("main", stack[t]) => Resting("main", stack[t])'
          /\ Outer("main", stack[t], 1) /\ stack[t][1].end \in Nat => Outer("main", stack[t], 1)'
      <4>1. PICK s : s = stack[t]
        OBVIOUS
      <4>2. /\ Resting("main", s) => Resting("main", s)'
            /\ Outer("main", s, 1) /\ s[1].end \in Nat => Outer("main", s, 1)'
        BY OuterJoins, Basics
      <4>3. s = stack'[t]
        BY <3>1, <4>1
      <4> QED  BY <4>1, <4>2, <4>3
    <3> QED  BY <3>1, <3>2, <3>3 DEF Sending
  <2> QED  BY <2>1, <2>2
<1>2. (\A t \in Threads : Resting(t, stack[t]) \/ Sending(t, stack[t]))'
  BY <1>1 DEF Calm, Threads
<1>3. (Listed \subseteq open \/ \E t \in Threads : stack[t] = <<>>)'
  BY DEF Threads, Joins
<1>4. (Null \notin Listed \/ \E t \in Threads : Sending(t, stack[t]))'
  BY <1>1 DEF Calm, Threads, Null, Joins
<1>5. (players = Listed \cap validated)' /\ (\A x \in Listed \cap Clients : reports[x] = 0)'
  BY DEF Calm, Clients, Regular, Reporting, Joins
<1>6. Complete({})'
  BY JoinsComplete DEF Calm
<1> QED  BY <1>2, <1>3, <1>4, <1>5, <1>6 DEF Calm

\* One is being reported, and a client connects: it does not know that one.
LEMMA LeavingJoins ==
    ASSUME IInv, NEW n, Joins(n), Regular, NEW t \in Threads, NEW c \in Clients, Leaving(t, c)
    PROVE  Leaving(t, c)'
<1>1. stack[t] # <<>>
  BY LeavingHead
<1>2. t = "main" /\ stack'[t] = stack[t]
  BY <1>1 DEF Threads, Joins
<1>3. PICK s : s = stack[t]
  OBVIOUS
<1>4. s = stack'[t]
  BY <1>2, <1>3
<1>5. view[n] = {}
  BY DEF Regular, Truthful, Joins
<1>6. Unseen(c) => Unseen(c)'
  BY <1>5 DEF Unseen, Joins
<1>7. ASSUME NEW j \in DOMAIN s, Found("main", s, j, c) PROVE Found("main", s, j, c)'
  <2>1. s[j].i \in Nat \ {0} /\ s[j].end \in Nat
    <3>1. s \in Seq(Frames(t)) /\ s[j].do = "loop"
      BY <1>3, <1>7, Basics DEF StackOK, Found, Outer
    <3>2. s[j] \in Frames(t)
      BY <3>1
    <3> QED  BY <3>1, <3>2 DEF Frames, LoopFrames, AllFrames
  <2>2. s[j].i \in DOMAIN conns /\ conns'[s[j].i] = c /\ s[j].i <= Len(conns')
    BY <1>7, <2>1, Basics DEF Found, Joins
  <2>3. Outer("main", s, j)'
    BY <1>7, <2>1, OuterJoins, Basics DEF Found
  <2> QED  BY <1>7, <2>2, <2>3 DEF Found
<1>8. Telling("main", s, c) => Telling("main", s, c)'
  <2> SUFFICES ASSUME Telling("main", s, c) PROVE Telling("main", s, c)'
    OBVIOUS
  <2>1. Found("main", s, 3, c)'
    BY <1>7 DEF Telling, Found, Outer
  <2>2. ASSUME s[1].do = "loop"
        PROVE  /\ s[1].end <= Len(conns')
               /\ \A k \in DOMAIN conns' :
                    conns'[k] \in open' /\ (k < s[1].i \/ s[1].end < k) => c \notin view[conns'[k]]
    <3>1. s[1].end \in Nat
      BY <1>1, <1>3, <2>2, Working
    <3>2. s[1].end <= Len(conns')
      BY <2>2, <3>1, Basics DEF Telling, Joins
    <3>3. ASSUME NEW k \in DOMAIN conns', conns'[k] \in open', k < s[1].i \/ s[1].end < k
          PROVE  c \notin view[conns'[k]]
      <4>1. CASE k = Len(conns) + 1
        BY <1>5, <4>1 DEF Joins
      <4>2. CASE k # Len(conns) + 1
        <5>1. k \in DOMAIN conns /\ conns'[k] = conns[k] /\ conns[k] # n
          BY <3>3, <4>2 DEF Joins, Listed
        <5>2. conns[k] \in open
          BY <3>3, <5>1 DEF Joins
        <5> QED  BY <2>2, <3>3, <5>1, <5>2 DEF Telling
      <4> QED  BY <4>1, <4>2
    <3> QED  BY <3>2, <3>3
  <2>3. s[2] = Call("erase", c) /\ s[1].do \in {"all", "loop"} /\ s[1].msg = Msg("RemovePlayer", c)
        /\ s[1].ignore = c /\ (s[1].do = "loop" => ~s[1].reporting /\ ~s[1].invalid)
    BY DEF Telling
  <2>4. view' = view
    BY DEF Joins
  <2> QED  BY <2>1, <2>2, <2>3, <2>4 DEF Telling, Call, Msg
<1>9. Erasing("main", s, c) => Erasing("main", s, c)'
  BY <1>6, <1>7 DEF Erasing, Found, Outer, Call
<1>10. Returned("main", s, c) => Returned("main", s, c)'
  BY <1>6, <1>7 DEF Returned, Found, Outer
<1>11. /\ \A u \in Threads \ {t} : stack'[u] = <<>>
       /\ c \in (1..ids') \ open'
  BY DEF Leaving, Joins
<1>12. /\ Listed' \cap validated' = Listed \cap validated
       /\ \A x \in (Listed' \cap Clients) \ {c} : reports'[x] = 0
  BY DEF Leaving, Regular, Reporting, Joins
<1>13. Complete({c})'
  BY JoinsComplete DEF Leaving
<1>14. \/ (Telling(t, stack[t], c) \/ Erasing(t, stack[t], c))' /\ (players = Listed \cap validated)'
       \/ Returned(t, stack[t], c)' /\ (players = (Listed \cap validated) \ {c})'
  BY <1>2, <1>3, <1>4, <1>8, <1>9, <1>10, <1>12 DEF Leaving, Joins
<1> QED  BY <1>11, <1>12, <1>13, <1>14 DEF Leaving, Clients, Threads

\* Whatever was so of the list and of the clients is so with a new client.
LEMMA AcceptOrderly ==
    ASSUME IInv, Regular \/ \E t \in Threads : Doomed(t), Accept
    PROVE  /\ Regular' \/ (\E t \in Threads : Doomed(t))'
           /\ \A t \in Threads : Doomed(t) => Doomed(t)'
<1> PICK n : n = ids + 1
  OBVIOUS
<1>1. Joins(n)
  BY AcceptJoins
<1>2. ASSUME NEW t \in Threads, Doomed(t) PROVE Doomed(t)'
  BY <1>1, <1>2, JoinsDoomed
<1>3. ASSUME Regular PROVE Listing' /\ Reporting' /\ Truthful'
  <2>1. open' \subseteq Listed'
    BY <1>1, <1>3 DEF Regular, Listing, Joins
  <2>2. \A j, k \in DOMAIN conns : conns[j] = conns[k] /\ conns[j] # Null => j = k
    BY <1>3 DEF Regular, Listing
  <2>3. \A k \in DOMAIN conns : conns'[k] # n
    BY <1>1 DEF Joins, Listed
  <2>4. \A j, k \in DOMAIN conns' : conns'[j] = conns'[k] /\ conns'[j] # Null => j = k
    BY <1>1, <2>2, <2>3 DEF Joins
  <2>5. Listing'
    BY <2>1, <2>4 DEF Listing, Null
  <2>6. Reporting'
    BY <1>1, <1>3 DEF Regular, Reporting, Clients, Joins
  <2>7. Updating' = Updating
    BY <1>1 DEF Updating, Threads, Joins
  <2>8. ASSUME NEW x \in Clients PROVE /\ x \in open' => view[x] \subseteq players \cup killed \cup Updating
                                       /\ x \notin 1..ids' => view[x] = {}
    BY <1>1, <1>3 DEF Regular, Truthful, Joins
  <2>9. UNCHANGED <<view, players, killed>>
    BY <1>1 DEF Joins
  <2> QED  BY <2>5, <2>6, <2>7, <2>8, <2>9 DEF Truthful, Clients
<1>4. ASSUME Regular PROVE Regular'
  <2>1. CASE Calm
    BY <1>1, <1>3, <1>4, <2>1, CalmJoins DEF Regular
  <2>2. ASSUME NEW t \in Threads, NEW c \in Clients, Leaving(t, c) PROVE Regular'
    <3>1. Leaving(t, c)'
      BY <1>1, <1>4, <2>2, LeavingJoins
    <3>2. (\E u \in Threads, x \in Clients : Leaving(u, x))'
      BY <3>1 DEF Threads, Clients
    <3> QED  BY <1>3, <1>4, <3>2 DEF Regular
  <2> QED  BY <1>4, <2>1, <2>2 DEF Regular
<1> QED  BY <1>2, <1>4 DEF Threads

\* A handler begins on one thread; the other one goes on with what it does.
LEMMA CalmBegins ==
    ASSUME IInv, Calm, NEW t \in Threads, NEW calls, Start(t, calls),
           Listed \subseteq open \/ \A u \in Threads : stack[u] = <<>>,
           UNCHANGED <<conns, ids, open, killed>>,
           t = "main" => UNCHANGED validated,
           Resting(t, calls)'
    PROVE  /\ stack'[t] = calls /\ Others(t) /\ stack[t] = <<>>
           /\ (\A u \in Threads : Resting(u, stack[u]) \/ Sending(u, stack[u]))'
           /\ (Listed \subseteq open \/ \E u \in Threads : stack[u] = <<>>)'
           /\ (Null \notin Listed \/ \E u \in Threads : Sending(u, stack[u]))'
<1>1. stack'[t] = calls /\ Others(t) /\ stack[t] = <<>>
  BY Basics DEF Start, StackOK, Others
<1>2. ~Sending(t, stack[t])
  BY <1>1 DEF Sending, Outer
<1>3. ASSUME NEW u \in Threads \ {t} PROVE /\ Resting(u, stack[u]) => Resting(u, stack[u])'
                                           /\ Sending(u, stack[u]) => Sending(u, stack[u])'
  <2>1. stack'[u] = stack[u] /\ (t = "main" \/ u = "main")
    BY <1>1 DEF Others, Threads
  <2>2. ASSUME NEW s, NEW j PROVE Own(u, s, j)' <=> Own(u, s, j)
    BY <2>1, ListHeld DEF Own, Call
  <2>3. ASSUME NEW s, NEW j PROVE Rest(s, j)' <=> Rest(s, j)
    BY DEF Rest
  <2>4. Resting(u, stack[u]) => Resting(u, stack[u])'
    BY <2>1, <2>2, <2>3 DEF Resting
  <2>5. Gone' = Gone /\ Listed' = Listed
    BY ListHeld DEF Gone
  <2>6. Outer(u, stack[u], 1) => Outer(u, stack[u], 1)'
    BY <2>1, <2>2, <2>3, <2>5 DEF Outer, Null
  <2> QED  BY <2>1, <2>4, <2>6 DEF Sending
<1>4. (\A u \in Threads : Resting(u, stack[u]) \/ Sending(u, stack[u]))'
  BY <1>1, <1>3 DEF Calm, Threads
<1>5. (Listed \subseteq open \/ \E u \in Threads : stack[u] = <<>>)'
  BY <1>1, ListHeld DEF Others, Threads
<1>6. (Null \notin Listed \/ \E u \in Threads : Sending(u, stack[u]))'
  BY <1>2, <1>3 DEF Calm, Threads, Null, Listed
<1> QED  BY <1>1, <1>4, <1>5, <1>6

\* A client answers, and is in the game.
LEMMA ValidatedOrderly ==
    ASSUME IInv, ~raced', Regular \/ \E t \in Threads : Doomed(t),
           NEW c \in Clients, OnClientValidated(c)
    PROVE  crashed' # "no" \/ Regular'
<1> SUFFICES ASSUME crashed' = "no" PROVE Regular'
  OBVIOUS
<1> DEFINE a == MessageAllClients(Msg("NewPlayer", c), c)
           b == Call("count", c)
<1>1. /\ c \in Listed \ validated /\ Start("asio", <<a, b>>) /\ "asio" \in Threads
      /\ validated' = validated \cup {c} /\ players' = players \cup {c}
      /\ view' = [view EXCEPT ![c] = view[c] \cup players \cup {c}]
      /\ UNCHANGED <<conns, ids, open, killed, reports>>
  BY DEF OnClientValidated, WithPlayer, Snapshot, Threads
<1>2. /\ Regular /\ Calm /\ stack["asio"] = <<>>
      /\ Listed \subseteq open \/ \A t \in Threads : stack[t] = <<>>
  <2>1. <<a, b>> # <<>>
    OBVIOUS
  <2> QED  BY <1>1, <2>1, Waits
<1>3. /\ a.do = "all" /\ a.msg = Msg("NewPlayer", c) /\ a.msg.type = "NewPlayer" /\ a.msg.who = c
      /\ a.ignore = c /\ b.do = "count"
  BY DEF MessageAllClients, Msg, Call
<1> HIDE DEF a, b
<1> DEFINE s == <<a, b>>
<1>4. s # <<>> /\ DOMAIN s = 1..2 /\ s[1] = a /\ s[2] = b
  OBVIOUS
<1> HIDE DEF s
<1>5. Resting("asio", s)'
  <2>1. Rest(s, 1)
    BY <1>3, <1>4 DEF Rest
  <2>2. Own("asio", s, 1)'
    BY <1>1, <1>3, <1>4, ListHeld DEF Own
  <2>3. s[1].do = "all"
    BY <1>3, <1>4
  <2> QED  BY <1>4, <2>1, <2>2, <2>3 DEF Resting, Rest
<1>6. Start("asio", s)
  BY <1>1 DEF s
<1>7. /\ stack'["asio"] = s /\ Others("asio")
      /\ (\A u \in Threads : Resting(u, stack[u]) \/ Sending(u, stack[u]))'
      /\ (Listed \subseteq open \/ \E u \in Threads : stack[u] = <<>>)'
      /\ (Null \notin Listed \/ \E u \in Threads : Sending(u, stack[u]))'
  BY <1>1, <1>2, <1>5, <1>6, CalmBegins
<1>8. Listed' = Listed /\ c \in Listed
  BY <1>1, <1>2 DEF Listed, Regular, Listing
<1>9. /\ view'[c] = view[c] \cup players \cup {c}
      /\ \A x \in Clients \ {c} : view'[x] = view[x]
  BY <1>1, Basics
<1>10. Listing' /\ Reporting'
  BY <1>1, <1>2, <1>8 DEF Regular, Listing, Reporting, Null, Clients
<1>11. Truthful'
  <2>1. Updating' = Updating
    BY <1>7 DEF Updating, Others, Threads
  <2>2. ASSUME NEW x \in Clients PROVE /\ x \in open => view'[x] \subseteq players' \cup killed \cup Updating
                                       /\ x \notin 1..ids => view'[x] = {}
    <3>1. CASE x = c
      BY <1>1, <1>2, <1>9, <3>1, Basics DEF Regular, Truthful
    <3>2. CASE x # c
      BY <1>1, <1>2, <1>9, <3>2 DEF Regular, Truthful
    <3> QED  BY <3>1, <3>2
  <2> QED  BY <1>1, <2>1, <2>2 DEF Truthful, Clients
<1>12. Complete({})'
  <2> SUFFICES ASSUME NEW x \in open \cap validated', NEW p \in players' \ (killed \cup {})
               PROVE  p \in view'[x] \/ Due(x, p)'
    BY <1>1 DEF Complete
  <2>1. CASE x = c
    BY <1>1, <1>9, <2>1
  <2>2. CASE x # c /\ p = c
    <3>1. x # p /\ 1 \in DOMAIN stack'["asio"] /\ stack'["asio"][1] = a
      BY <1>4, <1>7, <2>2
    <3>2. stack'["asio"][1].do = "all" /\ stack'["asio"][1].msg = Msg("NewPlayer", p)
      BY <1>3, <2>2, <3>1
    <3> QED  BY <3>1, <3>2 DEF Due, Msg
  <2>3. CASE x # c /\ p # c
    <3>1. x \in open \cap validated /\ p \in players \ (killed \cup {}) /\ x \in Clients
      BY <1>1, <2>3, Basics
    <3>2. p \in view[x] \/ Due(x, p)
      BY <1>2, <3>1 DEF Calm, Complete
    <3> QED  BY <1>2, <1>9, <2>3, <3>1, <3>2, IdleOwesNothing
  <2> QED  BY <2>1, <2>2, <2>3
<1>13. (players = Listed \cap validated)' /\ (\A x \in Listed \cap Clients : reports[x] = 0)'
  BY <1>1, <1>2, <1>8 DEF Calm, Clients
<1>14. Calm'
  BY <1>7, <1>12, <1>13 DEF Calm
<1> QED  BY <1>10, <1>11, <1>14 DEF Regular

\* The main thread takes a message from the queue.
LEMMA MessageOrderly ==
    ASSUME IInv, ~raced', Regular \/ \E t \in Threads : Doomed(t), OnMessage
    PROVE  Regular'
<1> PICK m : m = Head(inbox)
  OBVIOUS
<1> PICK s : s = Handling(m)
  OBVIOUS
<1>1. /\ inbox # <<>> /\ Start("main", s) /\ "main" \in Threads /\ Sockets
      /\ UNCHANGED <<conns, view, reports, players, killed>>
  BY DEF OnMessage, game, Sockets, Threads
<1>2. m.type \in {"UpdatePlayer", "PowerupEaten", "StartGame"}
  <2>1. inbox \in Seq([type : {"UpdatePlayer", "PowerupEaten", "StartGame"}, who : validated])
    BY DEF IInv, TypeOK
  <2>2. m \in [type : {"UpdatePlayer", "PowerupEaten", "StartGame"}, who : validated]
    BY <1>1, <2>1, HeadTailProperties
  <2> QED  BY <2>2
<1>3. /\ Regular /\ Calm /\ stack["main"] = <<>>
      /\ Listed \subseteq open \/ \A t \in Threads : stack[t] = <<>>
  <2>1. s # <<>>
    BY <1>2 DEF Handling
  <2> QED  BY <1>1, <2>1, Waits
<1>4. Resting("main", s)'
  <2>1. CASE m.type = "UpdatePlayer"
    <3> DEFINE a == MessageAllClients(m, m.who)
               b == Call("update", m.who)
    <3>1. s = <<a, b>>
      BY <2>1 DEF Handling
    <3>2. a.do = "all" /\ a.msg = m /\ b.do = "update"
      BY DEF MessageAllClients, Call
    <3> HIDE DEF a
    <3>3. s # <<>> /\ DOMAIN s = 1..2 /\ Len(s) = 2 /\ s[1] = a /\ s[2] = Call("update", m.who)
      BY <3>1
    <3> HIDE DEF b
    <3>4. Rest(s, 1) /\ s[1].do = "all"
      BY <3>2, <3>3 DEF Rest, b
    <3>5. Own("main", s, 1)'
      BY <2>1, <3>2, <3>3 DEF Own, Call
    <3> QED  BY <3>3, <3>4, <3>5 DEF Resting, Rest
  <2>2. CASE m.type = "PowerupEaten"
    <3> DEFINE a == Call("delete", m.who)
               b == Call("generate", Null)
    <3>1. s = <<a, b>>
      BY <2>2 DEF Handling
    <3>2. a.do = "delete" /\ b.do = "generate"
      BY DEF Call
    <3> HIDE DEF a, b
    <3>3. DOMAIN s = 1..2 /\ s[1] = a /\ s[2] = b
      BY <3>1
    <3>4. Rest(s, 0)
      BY <3>2, <3>3 DEF Rest
    <3> QED  BY <3>4 DEF Resting, Rest
  <2>3. CASE m.type = "StartGame"
    <3> DEFINE a == MessageAllClients(m, Null)
    <3>1. s = <<a>>
      BY <2>3 DEF Handling
    <3>2. a.do = "all" /\ a.msg = m
      BY DEF MessageAllClients
    <3> HIDE DEF a
    <3>3. s # <<>> /\ DOMAIN s = 1..1 /\ s[1] = a
      BY <3>1
    <3>4. Rest(s, 1) /\ s[1].do = "all"
      BY <3>2, <3>3 DEF Rest
    <3>5. Own("main", s, 1)'
      BY <2>3, <3>2, <3>3 DEF Own
    <3> QED  BY <3>3, <3>4, <3>5 DEF Resting, Rest
  <2> QED  BY <1>2, <2>1, <2>2, <2>3
<1>5. /\ Others("main")
      /\ (\A u \in Threads : Resting(u, stack[u]) \/ Sending(u, stack[u]))'
      /\ (Listed \subseteq open \/ \E u \in Threads : stack[u] = <<>>)'
      /\ (Null \notin Listed \/ \E u \in Threads : Sending(u, stack[u]))'
  BY <1>1, <1>3, <1>4, CalmBegins DEF Sockets
<1>6. Listing' /\ Reporting'
  BY <1>1, <1>3, StandingStays DEF Regular
<1>7. Truthful'
  <2>1. Updating = {}
    BY <1>3 DEF Updating
  <2> QED  BY <1>1, <1>3, <2>1, TruthfulStays DEF Regular
<1>8. Complete({})'
  <2>1. stack'["asio"] = stack["asio"]
    BY <1>5 DEF Others, Threads
  <2> QED  BY <1>1, <1>3, <2>1, DueStays, CompleteStays DEF Calm
<1>9. (players = Listed \cap validated)' /\ (\A x \in Listed \cap Clients : reports[x] = 0)'
  BY <1>1, <1>3 DEF Calm, Clients, Listed, Sockets
<1>10. Calm'
  BY <1>5, <1>8, <1>9 DEF Calm
<1> QED  BY <1>6, <1>7, <1>10 DEF Regular

\* the state that the invariant is about
Parts == <<conns, ids, open, validated, players, stack, crashed, view, killed, reports>>

\* A step that leaves all that alone.
LEMMA NothingHappens ==
    ASSUME UNCHANGED Parts, Regular \/ \E t \in Threads : Doomed(t)
    PROVE  Regular' \/ (\E t \in Threads : Doomed(t))'
<1>1. /\ Sockets /\ UNCHANGED <<conns, ids, open, validated, players, stack, crashed, view, killed, reports>>
      /\ Listed' = Listed
  BY DEF Parts, Sockets, Listed
<1>2. ASSUME NEW t \in Threads, Doomed(t) PROVE Doomed(t)'
  BY <1>1, <1>2 DEF Doomed, Threads, Null
<1>3. ASSUME Regular PROVE Listing' /\ Reporting' /\ Truthful'
  <2>1. Updating' = Updating
    BY <1>1 DEF Updating
  <2> QED  BY <1>1, <1>3, <2>1, StandingStays, TruthfulStays DEF Regular
<1>4. ASSUME NEW S, Complete(S) PROVE Complete(S)'
  BY <1>1, <1>4, DueStays, CompleteStays
<1>5. ASSUME Regular, Calm PROVE Calm'
  <2>1. ASSUME NEW t PROVE /\ Resting(t, stack[t]) => Resting(t, stack[t])'
                           /\ Sending(t, stack[t]) => Sending(t, stack[t])'
    <3>1. ASSUME NEW s PROVE (Resting(t, s) => Resting(t, s)') /\ (Sending(t, s) => Sending(t, s)')
      BY <1>1, RestingStays, SendingStays, ListHeld
    <3> QED  BY <1>1, <3>1
  <2> QED  BY <1>1, <1>4, <1>5, <2>1 DEF Calm, Null, Clients, Threads
<1>6. ASSUME Regular, NEW t \in Threads, NEW c \in Clients, Leaving(t, c) PROVE Leaving(t, c)'
  <2>1. ASSUME NEW n, Found(t, stack[t], n, c) PROVE Found(t, stack[t], n, c)'
    <3>1. ASSUME NEW s, Found(t, s, n, c) PROVE Found(t, s, n, c)'
      BY <1>1, <3>1, FoundStays
    <3> QED  BY <1>1, <2>1, <3>1
  <2>2. Telling(t, stack[t], c) => Telling(t, stack[t], c)'
    BY <1>1, <2>1 DEF Telling, Call, Msg
  <2>3. Erasing(t, stack[t], c) => Erasing(t, stack[t], c)'
    BY <1>1, <2>1 DEF Erasing, Call, Unseen
  <2>4. Returned(t, stack[t], c) => Returned(t, stack[t], c)'
    BY <1>1, <2>1 DEF Returned, Unseen
  <2> QED  BY <1>1, <1>4, <1>6, <2>2, <2>3, <2>4 DEF Leaving, Clients, Threads
<1>7. ASSUME Regular PROVE Regular'
  <2>1. CASE Calm
    BY <1>3, <1>5, <1>7, <2>1 DEF Regular
  <2>2. ASSUME NEW t \in Threads, NEW c \in Clients, Leaving(t, c) PROVE Regular'
    <3>1. (\E u \in Threads, x \in Clients : Leaving(u, x))'
      BY <1>6, <1>7, <2>2 DEF Threads, Clients
    <3> QED  BY <1>3, <1>7, <3>1 DEF Regular
  <2> QED  BY <1>7, <2>1, <2>2 DEF Regular
<1> QED  BY <1>2, <1>7 DEF Threads

----------------------------------------------------------------------------
(* The invariant *)

\* The server starts with nobody connected.
LEMMA InitOrderly == Init => Orderly
<1> SUFFICES ASSUME Init PROVE Regular
  BY DEF Orderly
<1>1. /\ conns = <<>> /\ ids = 0 /\ open = {} /\ validated = {} /\ players = {} /\ killed = {}
      /\ view = [c \in Clients |-> {}] /\ reports = [c \in Clients |-> 0]
      /\ \A t \in Threads : stack[t] = <<>>
  BY DEF Init
<1>2. Listed = {}
  BY <1>1 DEF Listed
<1>3. Listing /\ Reporting /\ Truthful
  BY <1>1, <1>2 DEF Listing, Reporting, Truthful
<1>4. \A t \in Threads : Resting(t, stack[t])
  BY <1>1, IdleRests
<1>5. Calm
  BY <1>1, <1>2, <1>4 DEF Calm, Complete, Threads
<1> QED  BY <1>3, <1>5 DEF Regular

\* What a handler has begun in the middle of is not forgotten.
LEMMA RacedStays == ASSUME Next, ~raced' PROVE ~raced
<1>1. ASSUME NEW t, NEW calls, Start(t, calls) PROVE ~raced
  BY <1>1 DEF Start
<1>2. ASSUME UNCHANGED raced PROVE ~raced
  BY <1>2
<1>3. ASSUME NEW t \in Threads, Step(t) PROVE UNCHANGED raced
  BY <1>3 DEF Step, Enter, Skip, ReportNull, Reset, Leave, Erase, Send, Report, Count, Fill, Generate,
              UpdatePlayer, DeletePowerup, server
<1>4. ASSUME NEW c \in Clients, Receive(c) \/ Close(c) PROVE UNCHANGED raced
  BY <1>4 DEF Receive, Close
<1>5. ASSUME NEW c \in Clients, OnClientValidated(c) PROVE ~raced
  BY <1>1, <1>5 DEF OnClientValidated
<1>6. ASSUME Accept \/ OnMessage PROVE ~raced
  BY <1>1, <1>6 DEF Accept, OnMessage
<1> QED  BY <1>2, <1>3, <1>4, <1>5, <1>6 DEF Next

\* One step of either thread or of a client.
LEMMA NextOrderly ==
    IInv /\ Orderly /\ [Next]_vars => Orderly'
<1> SUFFICES ASSUME IInv, Orderly, [Next]_vars, crashed' = "no", ~raced'
             PROVE  Regular' \/ (\E t \in Threads : Doomed(t))'
  BY DEF Orderly
<1>1. ASSUME UNCHANGED vars PROVE Regular' \/ (\E t \in Threads : Doomed(t))'
  <2>1. UNCHANGED Parts /\ crashed = "no" /\ ~raced
    BY <1>1 DEF vars, Parts
  <2> QED  BY <2>1, NothingHappens DEF Orderly
<1> SUFFICES ASSUME Next PROVE Regular' \/ (\E t \in Threads : Doomed(t))'
  BY <1>1
<1>2. crashed = "no" /\ ~raced
  <2>1. crashed = "no"
    BY DEF Next, Step, Enter, Skip, ReportNull, Reset, Leave, Erase, Send, Report, Count, Fill, Generate,
           UpdatePlayer, DeletePowerup, AtEntry, Ready, Accept, OnMessage, OnClientValidated, Receive,
           Close, Start
  <2> QED  BY <2>1, RacedStays
<1>3. Regular \/ \E t \in Threads : Doomed(t)
  BY <1>2 DEF Orderly
<1>4. ASSUME NEW u \in Threads, Step(u) PROVE Regular' \/ (\E t \in Threads : Doomed(t))'
  <2>1. CASE Regular /\ Calm
    BY <1>4, <2>1, CalmStep
  <2>2. ASSUME Regular, NEW t \in Threads, NEW c \in Clients, Leaving(t, c)
        PROVE  Regular' \/ (\E v \in Threads : Doomed(v))'
    <3>1. Regular' \/ Doomed(t)'
      BY <1>4, <2>2, LeavingStep
    <3> QED  BY <3>1 DEF Threads
  <2>3. ASSUME NEW t \in Threads, Doomed(t) PROVE (\E v \in Threads : Doomed(v))'
    <3>1. Doomed(t)'
      BY <1>4, <2>3, DoomedStep
    <3> QED  BY <3>1 DEF Threads
  <2> QED  BY <1>3, <2>1, <2>2, <2>3 DEF Regular
<1>5. ASSUME NEW c \in Clients, Receive(c) PROVE Regular' \/ (\E t \in Threads : Doomed(t))'
  <2>1. UNCHANGED Parts
    BY <1>5 DEF Receive, Parts, game
  <2> QED  BY <1>3, <2>1, NothingHappens
<1>6. ASSUME NEW c \in Clients, Close(c) PROVE Regular' \/ (\E t \in Threads : Doomed(t))'
  BY <1>3, <1>6, CloseOrderly
<1>7. ASSUME NEW c \in Clients, OnClientValidated(c) PROVE Regular'
  BY <1>3, <1>7, ValidatedOrderly
<1>8. ASSUME Accept PROVE Regular' \/ (\E t \in Threads : Doomed(t))'
  BY <1>3, <1>8, AcceptOrderly
<1>9. ASSUME OnMessage PROVE Regular'
  BY <1>3, <1>9, MessageOrderly
<1> QED  BY <1>4, <1>5, <1>6, <1>7, <1>8, <1>9 DEF Next

\* While no handler runs nobody is being reported.
LEMMA QuietIsCalm ==
    ASSUME IInv, Orderly, Quiet, ~raced
    PROVE  Regular /\ Calm
<1>1. crashed = "no" /\ \A t \in Threads : stack[t] = <<>>
  BY DEF Quiet
<1>2. ASSUME NEW t \in Threads PROVE ~Doomed(t)
  BY <1>1 DEF Doomed
<1>3. ASSUME NEW t \in Threads, NEW c \in Clients PROVE ~Leaving(t, c)
  BY <1>1, LeavingHead
<1> QED  BY <1>1, <1>2, <1>3 DEF Orderly, Regular

\* Then the list and the players are the same clients.
LEMMA QuietLists == IInv /\ Orderly => ListsAgree
<1> SUFFICES ASSUME IInv, Orderly, Quiet, ~raced PROVE Null \notin Listed /\ players = Listed \cap validated
  BY DEF ListsAgree
<1>1. Calm
  BY QuietIsCalm
<1>2. ASSUME NEW t \in Threads PROVE ~Sending(t, stack[t])
  BY DEF Quiet, Sending, Outer
<1> QED  BY <1>1, <1>2 DEF Calm

\* And every client in the game has been told of them.
LEMMA QuietViews == IInv /\ Orderly => ViewsAgree
<1> SUFFICES ASSUME IInv, Orderly, Quiet, ~raced, NEW c \in open \cap players
             PROVE  view[c] \ killed = players \ killed
  BY DEF ViewsAgree
<1>1. Regular /\ Calm
  BY QuietIsCalm
<1>2. stack["asio"] = <<>> /\ stack["main"] = <<>>
  BY DEF Quiet, Threads
<1>3. c \in Clients /\ c \in open \cap validated
  BY Basics
<1>4. Updating = {}
  BY <1>2 DEF Updating
<1>5. view[c] \subseteq players \cup killed
  BY <1>1, <1>3, <1>4 DEF Regular, Truthful
<1>6. ASSUME NEW p \in players \ killed PROVE p \in view[c]
  <2>1. p \in view[c] \/ Due(c, p)
    BY <1>1, <1>3 DEF Calm, Complete
  <2> QED  BY <1>2, <2>1, IdleOwesNothing
<1> QED  BY <1>5, <1>6

\* The inductive invariant: until a handler begins in the middle of the other
\* thread's with a closed connection in the list, the broadcasts of the server
\* (MessageAllClients, Networking/server.h, and OnClientDisconnect,
\* SnekServer/server.cpp) are in one of three conditions, whatever number of
\* clients leaves and whenever it does: nobody is being reported, one is, or two
\* are and the broadcast will not return.
THEOREM DeparturesAreOrderly == Spec => []Orderly
  BY InitOrderly, NextOrderly, InvariantHolds, PTL DEF Spec

\* Unless a handler has begun in the middle of the other thread's with a closed
\* connection in the list (both threads call MessageAllClients without a lock):
\* between handlers m_deqConnections has no null entry left, although the loops of
\* MessageAllClients that reset entries nest and only the one that did erases
\* them (Networking/server.h), and players holds the validated clients in it: for
\* any number of clients, of departures and of messages.
THEOREM ListsAreTheSame == Spec => []ListsAgree
  BY QuietLists, InvariantHolds, DeparturesAreOrderly, PTL

\* Under the same condition every client in the game has been told, between
\* handlers, of the players that the server has, whenever it was validated (the
\* snapshot and the NewPlayer of OnClientValidated, SnekServer/server.cpp) and
\* whoever left before.
THEOREM ViewsAreTheSame == Spec => []ViewsAgree
  BY QuietViews, InvariantHolds, DeparturesAreOrderly, PTL

----------------------------------------------------------------------------
(* One connection at most has closed *)

\* Two that have left are two that are not open.
LEMMA TwoClosed ==
    ASSUME IInv, NEW x \in (1..ids) \ open, NEW y \in (1..ids) \ open, x # y
    PROVE  ~(ids - Cardinality(open) <= 1)
<1> DEFINE S == 1..ids
<1>1. ids \in Nat /\ open \subseteq S
  BY Basics
<1>2. IsFiniteSet(S) /\ Cardinality(S) = ids
  <2>1. 1 \in Int /\ ids \in Int /\ (1 > ids => ids = 0) /\ ids - 1 + 1 = ids
    BY <1>1
  <2> QED  BY <2>1, FS_Interval
<1> HIDE DEF S
<1>3. x \in S /\ y \in S \ {x}
  BY DEF S
<1>4. IsFiniteSet(S \ {x}) /\ Cardinality(S \ {x}) = ids - 1
  BY <1>2, <1>3, FS_RemoveElement
<1>5. IsFiniteSet((S \ {x}) \ {y}) /\ Cardinality((S \ {x}) \ {y}) = (ids - 1) - 1
  BY <1>3, <1>4, FS_RemoveElement
<1>6. open \subseteq (S \ {x}) \ {y}
  BY <1>1
<1>7. IsFiniteSet(open) /\ Cardinality(open) <= Cardinality((S \ {x}) \ {y})
  BY <1>5, <1>6, FS_Subset
<1>8. Cardinality(open) \in Nat
  BY <1>7, FS_CardinalityType
<1> QED  BY <1>1, <1>5, <1>7, <1>8

\* A thread that is doomed has found two.
LEMMA DoomedFoundTwo ==
    ASSUME IInv, NEW t \in Threads, Doomed(t)
    PROVE  ~(ids - Cardinality(open) <= 1)
<1>1. stack[t][1].ignore \in Listed \ (open \cup {Null})
  BY DEF Doomed
<1>2. PICK k \in DOMAIN conns : conns[k] \notin open \cup {Null, stack[t][1].ignore}
  BY DEF Doomed
<1>3. conns[k] \in Listed
  BY <1>2 DEF Listed
<1>4. stack[t][1].ignore \in (1..ids) \ open /\ conns[k] \in (1..ids) \ open
  BY <1>1, <1>2, <1>3, Basics
<1> QED  BY <1>2, <1>4, TwoClosed

\* the loops of a thread's broadcasts
LoopsIn(t) == {k \in DOMAIN stack[t] : stack[t][k].do = "loop"}

\* A stack whose loops are known has that many.
LEMMA LoopsAmong ==
    ASSUME NEW t, NEW a, NEW b
    PROVE  /\ LoopsIn(t) = {} => Loops(t) = 0
           /\ LoopsIn(t) \subseteq {a} => Loops(t) \in 0..1
           /\ LoopsIn(t) \subseteq {a, b} => Loops(t) \in 0..2
<1>1. Loops(t) = Cardinality(LoopsIn(t))
  BY DEF Loops, LoopsIn
<1>2. IsFiniteSet({}) /\ Cardinality({}) = 0
  BY FS_EmptySet
<1>3. IsFiniteSet({a}) /\ Cardinality({a}) = 1
  BY FS_Singleton
<1>4. IsFiniteSet({a} \cup {b}) /\ Cardinality({a} \cup {b}) \in 1..2
  <2>1. /\ IsFiniteSet({a} \cup {b})
        /\ Cardinality({a} \cup {b}) = Cardinality({a}) \/ Cardinality({a} \cup {b}) = Cardinality({a}) + 1
    BY <1>3, FS_AddElement
  <2> QED  BY <1>3, <2>1
<1>5. {a, b} = {a} \cup {b}
  OBVIOUS
<1>6. ASSUME NEW S, IsFiniteSet(S), LoopsIn(t) \subseteq S
      PROVE  Cardinality(LoopsIn(t)) \in Nat /\ Cardinality(LoopsIn(t)) <= Cardinality(S)
    BY <1>6, FS_Subset, FS_CardinalityType
<1>7. ASSUME LoopsIn(t) \subseteq {a} PROVE Loops(t) \in 0..1
  BY <1>1, <1>3, <1>6, <1>7
<1>8. ASSUME LoopsIn(t) \subseteq {a, b} PROVE Loops(t) \in 0..2
  <2>1. LoopsIn(t) \subseteq {a} \cup {b}
    BY <1>5, <1>8
  <2>2. Cardinality(LoopsIn(t)) \in Nat /\ Cardinality(LoopsIn(t)) <= Cardinality({a} \cup {b})
    BY <1>4, <1>6, <2>1
  <2> QED  BY <1>1, <1>4, <2>2
<1>9. ASSUME LoopsIn(t) = {} PROVE Loops(t) = 0
  BY <1>1, <1>2, <1>9
<1> QED  BY <1>7, <1>8, <1>9

\* a frame broadcasts, or is about to
Casts(f) == f.do \in {"all", "loop"}

\* Below a broadcast of the stack s there is none, or only the one that has called
\* OnClientDisconnect, for a client that has left and that it passes over.
Shallow(s) ==
    \/ Rest(s, 0)
    \/ 1 \in DOMAIN s /\ Casts(s[1]) /\ Rest(s, 1)
    \/ 2 \in DOMAIN s /\ s[1].do = "erase" /\ s[2].do = "loop" /\ Rest(s, 2)
    \/ /\ 3 \in DOMAIN s /\ Casts(s[1]) /\ s[1].ignore \in (1..ids) \ open
       /\ s[2].do = "erase" /\ s[3].do = "loop" /\ Rest(s, 3)

\* This holds of both threads while one connection at most has closed, whatever
\* the other thread does to the list.
Flat == ids - Cardinality(open) <= 1 => \A t \in Threads : Shallow(stack[t])

\* Such a stack has two loops at most, and one below a broadcast that is called.
LEMMA ShallowLoops ==
    ASSUME IInv, NEW t \in Threads, Shallow(stack[t])
    PROVE  /\ Loops(t) \in 0..2
           /\ stack[t] # <<>> /\ stack[t][1].do = "all" => Loops(t) \in 0..1
<1>1. DOMAIN stack[t] = 1..Len(stack[t]) /\ Len(stack[t]) \in Nat
  <2>1. stack[t] \in Seq(Frames(t))
    BY Basics DEF StackOK
  <2> QED  BY <2>1
<1>2. ASSUME NEW n \in Nat, Rest(stack[t], n) PROVE \A k \in LoopsIn(t) : k \in 1..n /\ stack[t][k].do = "loop"
  BY <1>1, <1>2 DEF Rest, LoopsIn
<1>3. CASE Rest(stack[t], 0)
  <2>1. LoopsIn(t) = {}
    BY <1>2, <1>3
  <2> QED  BY <2>1, LoopsAmong
<1>4. CASE Rest(stack[t], 1)
  <2>1. LoopsIn(t) \subseteq {1}
    BY <1>2, <1>4
  <2>2. Loops(t) \in 0..1
    BY <2>1, LoopsAmong
  <2> QED  BY <2>2
<1>5. CASE stack[t][1].do = "erase" /\ Rest(stack[t], 2)
  <2>1. \A k \in LoopsIn(t) : k \in 1..2 /\ k # 1
    BY <1>2, <1>5
  <2>2. LoopsIn(t) \subseteq {2}
    BY <2>1
  <2>3. Loops(t) \in 0..1
    BY <2>2, LoopsAmong
  <2> QED  BY <2>3
<1>6. CASE stack[t][2].do = "erase" /\ Rest(stack[t], 3)
  <2>1. \A k \in LoopsIn(t) : k \in 1..3 /\ k # 2 /\ stack[t][k].do = "loop"
    BY <1>2, <1>6
  <2>2. LoopsIn(t) \subseteq {1, 3}
    BY <2>1
  <2>3. stack[t][1].do = "all" => LoopsIn(t) \subseteq {3}
    BY <2>1
  <2> QED  BY <2>2, <2>3, LoopsAmong
<1> QED  BY <1>3, <1>4, <1>5, <1>6 DEF Shallow

\* Which of the four a stack is, its first call says.
LEMMA ShallowHead ==
    ASSUME IInv, NEW t \in Threads, stack[t] # <<>>, Shallow(stack[t])
    PROVE  LET s == stack[t]
           IN  /\ s[1].do \in {"count", "fill", "generate", "update", "delete"} => Rest(s, 0)
               /\ s[1].do = "erase" => 2 \in DOMAIN s /\ s[2].do = "loop" /\ Rest(s, 2)
               /\ Casts(s[1]) =>
                    \/ Rest(s, 1)
                    \/ /\ 3 \in DOMAIN s /\ s[1].ignore \in (1..ids) \ open
                       /\ s[2].do = "erase" /\ s[3].do = "loop" /\ Rest(s, 3)
<1>1. 1 \in DOMAIN stack[t] /\ 1 > 0
  BY Working
<1> QED  BY <1>1 DEF Shallow, Casts, Rest

\* A broadcast that is called, or goes on, is where it was.
LEMMA ShallowCasts ==
    ASSUME IInv, NEW t \in Threads, stack[t] # <<>>, Shallow(stack[t]), Casts(stack[t][1]),
           NEW g, Becomes(t, g), Casts(g), g.ignore = stack[t][1].ignore, Sockets
    PROVE  Shallow(stack[t])'
<1> PICK s : s = stack[t]
  OBVIOUS
<1> PICK s2 : s2 = stack'[t]
  OBVIOUS
<1>1. Follows(s, s2, 1) /\ s2[1] = g
  BY DEF Becomes
<1>2. Len(s) \in Nat \ {0} /\ Len(s2) = Len(s) /\ DOMAIN s = 1..Len(s) /\ DOMAIN s2 = 1..Len(s)
  BY <1>1 DEF Follows
<1>3. \A k \in 2..Len(s) : s2[k] = s[k]
  <2>1. \A k \in 2..Len(s) : s2[1 + k - 1] = s[k] /\ 1 + k - 1 = k
    BY <1>1, <1>2 DEF Follows
  <2> QED  BY <2>1
<1>4. ASSUME NEW m \in 1..3, Rest(s, m) PROVE Rest(s2, m)
  BY <1>2, <1>3, <1>4 DEF Rest
<1>5. CASE Rest(s, 1)
  BY <1>1, <1>2, <1>4, <1>5 DEF Shallow
<1>6. CASE /\ 3 \in DOMAIN s /\ s[1].ignore \in (1..ids) \ open
           /\ s[2].do = "erase" /\ s[3].do = "loop" /\ Rest(s, 3)
  <2>1. 3 \in DOMAIN s2 /\ s2[2].do = "erase" /\ s2[3].do = "loop" /\ Rest(s2, 3)
    BY <1>2, <1>3, <1>4, <1>6
  <2>2. s2[1].ignore \in (1..ids') \ open'
    BY <1>1, <1>6 DEF Sockets
  <2> QED  BY <1>1, <2>1, <2>2 DEF Shallow
<1> QED  BY <1>5, <1>6, ShallowHead

\* OnClientDisconnect is called, for one that has left: by a handler's own
\* broadcast, as the one that it calls itself passes over the only one.
LEMMA ShallowReport ==
    ASSUME IInv, ids - Cardinality(open) <= 1, NEW t \in Threads, Shallow(stack[t]),
           NEW c \in Clients, Report(t, c)
    PROVE  Shallow(stack[t])'
<1> DEFINE f == stack[t][1]
<1>1. /\ stack[t] # <<>> /\ f.do = "loop" /\ c # f.ignore /\ c \in (1..ids) \ open
      /\ Follows(stack[t], stack'[t], 3)
      /\ stack'[t][1] = MessageAllClients(Msg("RemovePlayer", c), c)
      /\ stack'[t][2] = Call("erase", c) /\ stack'[t][3] = Suspended(f) /\ Sockets
  BY ReportDoes DEF Visits
<1>2. Rest(stack[t], 1)
  BY <1>1, ShallowHead, TwoClosed DEF Casts
<1>3. Rest(stack'[t], 3)
  <2>1. Rest(stack'[t], 3 + 1 - 1)
    BY <1>1, <1>2, RestFollows
  <2> QED  BY <2>1
<1>4. 3 \in DOMAIN stack'[t]
  BY <1>1 DEF Follows
<1>5. f \in LoopFrames
  BY <1>1, Working
<1>6. /\ stack'[t][1].do = "all" /\ stack'[t][1].ignore = c
      /\ stack'[t][2].do = "erase" /\ stack'[t][3].do = "loop"
  BY <1>1, <1>5 DEF MessageAllClients, Call, Suspended, LoopFrames
<1>7. c \in (1..ids') \ open'
  BY <1>1 DEF Sockets
<1> QED  BY <1>3, <1>4, <1>6, <1>7 DEF Shallow, Casts

\* A broadcast returns, or the player is erased.
LEMMA ShallowReturns ==
    ASSUME IInv, NEW t \in Threads, Shallow(stack[t]), Leave(t) \/ Erase(t)
    PROVE  Shallow(stack[t])'
<1> PICK s : s = stack[t]
  OBVIOUS
<1> PICK s2 : s2 = stack'[t]
  OBVIOUS
<1>1. stack[t] # <<>> /\ s[1].do \in {"loop", "erase"} /\ Follows(s, s2, 0)
  BY LeaveDoes, EraseDoes DEF Drops
<1>2. /\ Len(s) \in Nat \ {0} /\ Len(s2) = Len(s) - 1 /\ DOMAIN s = 1..Len(s) /\ DOMAIN s2 = 1..(Len(s) - 1)
      /\ \A k \in 2..Len(s) : s2[k - 1] = s[k]
  <2>1. \A k \in 2..Len(s) : s2[0 + k - 1] = s[k] /\ 0 + k - 1 = k - 1
    BY <1>1 DEF Follows
  <2> QED  BY <1>1, <2>1 DEF Follows
<1>3. ASSUME NEW m \in 1..3, Rest(s, m) PROVE Rest(s2, m - 1)
  <2>1. Rest(s2, 0 + m - 1) /\ 0 + m - 1 = m - 1
    BY <1>1, <1>3, RestFollows
  <2> QED  BY <2>1
<1>4. CASE Rest(s, 1)
  BY <1>3, <1>4 DEF Shallow
<1>5. CASE 2 \in DOMAIN s /\ s[2].do = "loop" /\ Rest(s, 2)
  <2>1. 1 \in DOMAIN s2 /\ s2[1] = s[2]
    <3>1. 2 \in 2..Len(s) /\ 2 - 1 = 1
      BY <1>2, <1>5
    <3> QED  BY <1>2, <3>1
  <2>2. Rest(s2, 1)
    <3>1. Rest(s2, 2 - 1) /\ 2 - 1 = 1
      BY <1>3, <1>5
    <3> QED  BY <3>1
  <2> QED  BY <1>5, <2>1, <2>2 DEF Shallow, Casts
<1>6. CASE 3 \in DOMAIN s /\ s[2].do = "erase" /\ s[3].do = "loop" /\ Rest(s, 3)
  <2>1. 2 \in DOMAIN s2 /\ s2[1] = s[2] /\ s2[2] = s[3]
    <3>1. 2 \in 2..Len(s) /\ 2 - 1 = 1 /\ 3 \in 2..Len(s) /\ 3 - 1 = 2
      BY <1>2, <1>6
    <3>2. 2 \in DOMAIN s2
      BY <1>2, <3>1
    <3> QED  BY <1>2, <3>1, <3>2
  <2>2. Rest(s2, 2)
    <3>1. Rest(s2, 3 - 1) /\ 3 - 1 = 2
      BY <1>3, <1>6
    <3> QED  BY <3>1
  <2> QED  BY <1>6, <2>1, <2>2 DEF Shallow
<1> QED  BY <1>1, <1>4, <1>5, <1>6, ShallowHead DEF Casts

\* The handlers' other steps, which have no broadcast below them.
LEMMA ShallowPlain ==
    ASSUME IInv, NEW t \in Threads, Shallow(stack[t]),
           Count(t) \/ Fill(t) \/ Generate(t) \/ UpdatePlayer(t) \/ DeletePowerup(t)
    PROVE  Shallow(stack[t])' /\ Others(t)
<1> DEFINE f == stack[t][1]
<1>1. stack[t] # <<>>
  BY DEF Count, Fill, Generate, UpdatePlayer, DeletePowerup, Ready
<1>2. /\ Head(stack[t]) = f /\ f \in Frames(t)
      /\ f.do \in {"update", "delete"} => f.arg \in validated
  BY <1>1, Working
<1>3. f.do \in {"count", "fill", "generate", "update", "delete"}
  BY <1>2 DEF Count, Fill, Generate, UpdatePlayer, DeletePowerup, Ready
<1>4. Rest(stack[t], 0)
  BY <1>1, <1>3, ShallowHead
<1>5. ASSUME Continue(t, <<>>) PROVE Shallow(stack[t])' /\ Others(t)
  <2>1. Follows(stack[t], stack'[t], 0) /\ Others(t)
    BY <1>1, <1>5, Basics, Popped DEF Others
  <2>2. Rest(stack'[t], 0)
    BY <1>1, <1>4, <2>1, RestAfter
  <2> QED  BY <2>1, <2>2 DEF Shallow
<1>6. ASSUME NEW m \in Messages, NEW i \in Clients \cup {Null}, Continue(t, <<MessageAllClients(m, i)>>)
      PROVE  Shallow(stack[t])' /\ Others(t)
  <2> DEFINE a == MessageAllClients(m, i)
  <2>1. a \in Frames(t)
    BY Callable
  <2>2. Follows(stack[t], stack'[t], 1) /\ Others(t) /\ stack'[t][1] = a
    BY <1>1, <1>6, <2>1, Basics, Called DEF Others
  <2>3. 1 \in Nat /\ 1 # 0
    OBVIOUS
  <2>4. Rest(stack'[t], 1) /\ stack'[t] # <<>>
    BY ONLY <1>1, <1>4, <2>2, <2>3, IInv, t \in Threads, RestAfter
  <2>5. 1 \in DOMAIN stack'[t] /\ stack'[t][1].do = "all"
    BY <2>2 DEF MessageAllClients, Follows
  <2> QED  BY <2>2, <2>4, <2>5 DEF Shallow, Casts
<1>7. CASE Count(t)
  <2> DEFINE g == Call("fill", PowerupCount(Cardinality(players)))
  <2>1. Continue(t, <<g>>)
    BY <1>7 DEF Count
  <2>2. g \in Frames(t)
    <3>1. Cardinality(players) \in Nat
      BY Basics, Finite DEF IInv
    <3> QED  BY <3>1, PowerupCountType, Callable
  <2>3. Follows(stack[t], stack'[t], 1) /\ Others(t) /\ stack'[t][1].do = "fill"
    BY <1>1, <2>1, <2>2, Basics, Called DEF Others, Call
  <2> QED  BY <1>1, <1>4, <2>3, RestAfter DEF Shallow
<1>8. CASE Fill(t)
  <2>1. f.do = "fill"
    BY <1>2, <1>8 DEF Fill, Ready
  <2>2. CASE powerups < f.arg
    <3>1. Continue(t, <<Call("generate", Null), f>>)
      BY <1>2, <1>8, <2>2 DEF Fill
    <3>2. Call("generate", Null) \in Frames(t)
      BY Callable
    <3>3. /\ Follows(stack[t], stack'[t], 2) /\ Others(t)
          /\ stack'[t][1] = Call("generate", Null) /\ stack'[t][2] = f
      BY <1>1, <1>2, <3>1, <3>2, Basics, CalledTwo DEF Others
    <3>4. stack'[t][1].do = "generate" /\ stack'[t][2].do = "fill"
      BY <2>1, <3>3 DEF Call
    <3> QED  BY <1>1, <1>4, <3>3, <3>4, RestAfter DEF Shallow
  <2>3. CASE ~(powerups < f.arg)
    BY <1>2, <1>5, <1>8, <2>3 DEF Fill
  <2> QED  BY <2>2, <2>3
<1>9. CASE Generate(t)
  <2>1. Continue(t, <<MessageAllClients(Msg("NewPowerup", Null), Null)>>)
    BY <1>9 DEF Generate
  <2>2. Msg("NewPowerup", Null) \in Messages
    BY DEF Msg, Messages
  <2> QED  BY <1>6, <2>1, <2>2
<1>10. CASE DeletePowerup(t)
  <2>1. Continue(t, <<MessageAllClients(Msg("PowerupEaten", Null), f.arg)>>) /\ f.do = "delete"
    BY <1>2, <1>10 DEF DeletePowerup, Ready
  <2>2. Msg("PowerupEaten", Null) \in Messages
    BY DEF Msg, Messages
  <2>3. f.arg \in Clients
    BY <1>2, <2>1, Basics
  <2> QED  BY <1>6, <2>1, <2>2, <2>3
<1>11. CASE UpdatePlayer(t)
  <2>1. f.do = "update" /\ f.arg \in validated
    BY <1>2, <1>11 DEF UpdatePlayer, Ready
  <2>2. CASE f.arg \notin players
    <3>1. \A u \in Threads : stack'[u] = stack[u]
      BY <1>2, <1>11, <2>2 DEF UpdatePlayer, Crash
    <3>2. PICK s : s = stack[t]
      OBVIOUS
    <3>3. Rest(s, 0)'
      BY <1>4, <3>2 DEF Rest
    <3>4. s = stack'[t]
      BY <3>1, <3>2
    <3> QED  BY <3>1, <3>3, <3>4 DEF Shallow, Others
  <2>3. CASE f.arg \in players
    <3>1. PICK calls \in PlayerCollision(f.arg) : Continue(t, calls)
      BY <1>2, <1>11, <2>3 DEF UpdatePlayer
    <3>2. CASE calls = <<>>
      BY <1>5, <3>1, <3>2
    <3>3. CASE calls # <<>>
      <4>1. Continue(t, <<MessageAllClients(Msg("KillPlayer", f.arg), Null)>>)
        BY <3>1, <3>3 DEF PlayerCollision, SendKillMessage
      <4>2. Msg("KillPlayer", f.arg) \in Messages
        BY <2>1, Basics DEF Msg, Messages
      <4> QED  BY <1>6, <4>1, <4>2
    <3> QED  BY <3>2, <3>3
  <2> QED  BY <2>2, <2>3
<1> QED  BY <1>7, <1>8, <1>9, <1>10, <1>11

\* A stack that is not touched is as shallow, while nobody comes back.
LEMMA ShallowStays ==
    ASSUME NEW t \in Threads, Shallow(stack[t]), stack'[t] = stack[t],
           (1..ids) \ open \subseteq (1..ids') \ open'
    PROVE  Shallow(stack[t])'
<1> PICK s : s = stack[t]
  OBVIOUS
<1>1. s = stack'[t]
  OBVIOUS
<1>2. Shallow(s)'
  BY DEF Shallow, Casts, Rest
<1> QED  BY <1>1, <1>2

\* A step of thread u.
LEMMA ShallowStep ==
    ASSUME IInv, ids - Cardinality(open) <= 1, \A t \in Threads : Shallow(stack[t]),
           NEW u \in Threads, Step(u)
    PROVE  (\A t \in Threads : Shallow(stack[t]))'
<1> DEFINE f == stack[u][1]
<1>1. Sockets
  BY DEF Step, Enter, Skip, ReportNull, Reset, Leave, Erase, Send, Report, Count, Fill, Generate,
         UpdatePlayer, DeletePowerup, server, Sockets
<1>2. ASSUME Shallow(stack[u])', Others(u) PROVE (\A t \in Threads : Shallow(stack[t]))'
  <2>1. ASSUME NEW t \in Threads PROVE Shallow(stack[t])'
    <3>1. CASE t = u
      BY <1>2, <3>1
    <3>2. CASE t # u
      BY <1>1, <1>2, <3>2, ShallowStays DEF Others, Sockets
    <3> QED  BY <3>1, <3>2
  <2> QED  BY <2>1 DEF Threads
<1>3. ASSUME \A t \in Threads : stack'[t] = stack[t] PROVE (\A t \in Threads : Shallow(stack[t]))'
  <2>1. ASSUME NEW t \in Threads PROVE Shallow(stack[t])'
    BY <1>1, <1>3, ShallowStays DEF Sockets
  <2> QED  BY <2>1 DEF Threads
<1>4. ASSUME NEW g, stack[u] # <<>>, Casts(f), Becomes(u, g), Casts(g), g.ignore = f.ignore
      PROVE  (\A t \in Threads : Shallow(stack[t]))'
  <2>1. Shallow(stack[u])'
    BY <1>1, <1>4, ShallowCasts
  <2> QED  BY <1>2, <1>4, <2>1 DEF Becomes
<1>5. CASE Enter(u)
  <2>1. CASE Loops(u) < MaxDepth
    <3>1. stack[u] # <<>> /\ f.do = "all" /\ Becomes(u, Loop(f.msg, f.ignore))
      BY <1>5, <2>1, EnterDoes
    <3>2. PICK g : g = Loop(f.msg, f.ignore)
      OBVIOUS
    <3>3. Casts(g) /\ g.ignore = f.ignore /\ Casts(f)
      BY <3>1, <3>2 DEF Loop, Casts
    <3> QED  BY <1>4, <3>1, <3>2, <3>3
  <2>2. CASE ~(Loops(u) < MaxDepth)
    BY <1>3, <1>5, <2>2, EnterDoes
  <2> QED  BY <2>1, <2>2
<1>6. ASSUME Skip(u) \/ \E c \in Clients : Send(u, c) PROVE (\A t \in Threads : Shallow(stack[t]))'
  <2>1. stack[u] # <<>> /\ f.do = "loop" /\ Becomes(u, Advance(f))
    BY <1>6, SkipDoes, SendDoes DEF Visits
  <2>2. f \in LoopFrames
    BY <2>1, Working
  <2>3. PICK g : g = Advance(f)
    OBVIOUS
  <2>4. Casts(g) /\ g.ignore = f.ignore /\ Casts(f)
    BY <2>1, <2>2, <2>3 DEF Advance, Casts, LoopFrames
  <2> QED  BY <1>4, <2>1, <2>3, <2>4
<1>7. CASE Reset(u)
  <2>1. stack[u] # <<>> /\ f.do = "loop" /\ Becomes(u, Resumed(f))
    BY <1>7, ResetDoes
  <2>2. f \in LoopFrames
    BY <2>1, Working
  <2>3. PICK g : g = Resumed(f)
    OBVIOUS
  <2>4. Casts(g) /\ g.ignore = f.ignore /\ Casts(f)
    BY <2>1, <2>2, <2>3 DEF Advance, Resumed, Invalidated, Casts, LoopFrames
  <2> QED  BY <1>4, <2>1, <2>3, <2>4
<1>8. CASE ReportNull(u)
  BY <1>3, <1>8 DEF ReportNull, Crash
<1>9. CASE Leave(u) \/ Erase(u)
  <2>1. Others(u)
    BY <1>9, LeaveDoes, EraseDoes DEF Drops
  <2>2. Shallow(stack[u])'
    BY <1>9, ShallowReturns
  <2> QED  BY <1>2, <2>1, <2>2
<1>10. ASSUME NEW c \in Clients, Report(u, c) PROVE (\A t \in Threads : Shallow(stack[t]))'
  <2>1. Others(u)
    BY <1>10, ReportDoes
  <2>2. Shallow(stack[u])'
    BY <1>10, ShallowReport
  <2> QED  BY <1>2, <2>1, <2>2
<1>11. CASE Count(u) \/ Fill(u) \/ Generate(u) \/ UpdatePlayer(u) \/ DeletePowerup(u)
  <2>1. Shallow(stack[u])' /\ Others(u)
    BY <1>11, ShallowPlain
  <2> QED  BY <1>2, <2>1
<1> QED  BY <1>5, <1>6, <1>7, <1>8, <1>9, <1>10, <1>11 DEF Step

\* A handler that begins has one broadcast at most.
LEMMA HandlersShallow ==
    ASSUME NEW t, NEW m, NEW c
    PROVE  Shallow(<<>>) /\ Shallow(<<MessageAllClients(m, c), Call("count", t)>>)
           /\ (m.type \in {"UpdatePlayer", "PowerupEaten", "StartGame"} => Shallow(Handling(m)))
<1>1. ASSUME NEW a, NEW b, a.do = "all", b.do \in {"count", "update"} PROVE Shallow(<<a, b>>)
  <2> DEFINE s == <<a, b>>
  <2>1. DOMAIN s = 1..2 /\ s[1] = a /\ s[2] = b
    OBVIOUS
  <2> HIDE DEF s
  <2>2. Shallow(s)
    BY <1>1, <2>1 DEF Shallow, Casts, Rest
  <2> QED  BY <2>2 DEF s
<1>2. ASSUME NEW a, a.do = "all" PROVE Shallow(<<a>>)
  <2> DEFINE s == <<a>>
  <2>1. DOMAIN s = 1..1 /\ s[1] = a
    OBVIOUS
  <2> HIDE DEF s
  <2>2. Shallow(s)
    BY <1>2, <2>1 DEF Shallow, Casts, Rest
  <2> QED  BY <2>2 DEF s
<1>3. ASSUME NEW a, NEW b, a.do = "delete", b.do = "generate" PROVE Shallow(<<a, b>>)
  <2> DEFINE s == <<a, b>>
  <2>1. DOMAIN s = 1..2 /\ s[1] = a /\ s[2] = b
    OBVIOUS
  <2> HIDE DEF s
  <2>2. Shallow(s)
    BY <1>3, <2>1 DEF Shallow, Rest
  <2> QED  BY <2>2 DEF s
<1>4. Shallow(<<>>)
  BY DEF Shallow, Rest
<1>5. \A i : MessageAllClients(m, i).do = "all"
  BY DEF MessageAllClients
<1>6. \A x, i : Call(x, i).do = x
  BY DEF Call
<1>7. Shallow(<<MessageAllClients(m, c), Call("count", t)>>)
  BY <1>1, <1>5, <1>6
<1>8. CASE m.type = "UpdatePlayer"
  <2>1. Handling(m) = <<MessageAllClients(m, m.who), Call("update", m.who)>>
    BY <1>8 DEF Handling
  <2> QED  BY <1>1, <1>4, <1>5, <1>6, <1>7, <2>1
<1>9. CASE m.type = "PowerupEaten"
  <2>1. Handling(m) = <<Call("delete", m.who), Call("generate", Null)>>
    BY <1>9 DEF Handling
  <2> QED  BY <1>3, <1>4, <1>6, <1>7, <2>1
<1>10. CASE m.type = "StartGame"
  <2>1. Handling(m) = <<MessageAllClients(m, Null)>>
    BY <1>10 DEF Handling
  <2> QED  BY <1>2, <1>4, <1>5, <1>7, <2>1
<1> QED  BY <1>4, <1>7, <1>8, <1>9, <1>10

\* A step of anybody.
LEMMA NextFlat == IInv /\ Flat /\ [Next]_vars => Flat'
<1> SUFFICES ASSUME IInv, Flat, [Next]_vars, (ids - Cardinality(open) <= 1)'
             PROVE  (\A t \in Threads : Shallow(stack[t]))'
  BY DEF Flat
<1>1. ids \in Nat /\ IsFiniteSet(open) /\ Cardinality(open) \in Nat /\ open \subseteq 1..ids
  <2>1. ids \in Nat /\ open \subseteq 1..ids
    BY Basics
  <2>2. IsFiniteSet(1..ids)
    BY <2>1, FS_Interval
  <2> QED  BY <2>1, <2>2, FS_Subset, FS_CardinalityType
<1>2. ASSUME ids - Cardinality(open) <= 1, (1..ids) \ open \subseteq (1..ids') \ open',
             NEW u \in Threads, NEW calls, Start(u, calls), Shallow(calls)'
      PROVE  (\A t \in Threads : Shallow(stack[t]))'
  <2>1. stack'[u] = calls /\ \A t \in Threads \ {u} : stack'[t] = stack[t]
    BY <1>2, Basics DEF Start, StackOK
  <2>2. ASSUME NEW t \in Threads PROVE Shallow(stack[t])'
    <3>1. CASE t = u
      BY <1>2, <2>1, <3>1
    <3>2. CASE t # u
      BY <1>2, <2>1, <3>2, ShallowStays DEF Flat
    <3> QED  BY <3>1, <3>2
  <2> QED  BY <2>2 DEF Threads
<1>3. ASSUME ids - Cardinality(open) <= 1, (1..ids) \ open \subseteq (1..ids') \ open', UNCHANGED stack
      PROVE  (\A t \in Threads : Shallow(stack[t]))'
  <2>1. ASSUME NEW t \in Threads PROVE Shallow(stack[t])'
    BY <1>3, ShallowStays DEF Flat
  <2> QED  BY <2>1 DEF Threads
<1>4. ASSUME UNCHANGED <<ids, open>> PROVE /\ ids - Cardinality(open) <= 1
                                           /\ (1..ids) \ open \subseteq (1..ids') \ open'
  BY <1>4
<1>5. ASSUME NEW u \in Threads, Step(u) PROVE (\A t \in Threads : Shallow(stack[t]))'
  <2>1. UNCHANGED <<ids, open>>
    BY <1>5 DEF Step, Enter, Skip, ReportNull, Reset, Leave, Erase, Send, Report, Count, Fill, Generate,
                UpdatePlayer, DeletePowerup, server
  <2> QED  BY <1>4, <1>5, <2>1, ShallowStep DEF Flat
<1>6. ASSUME Accept PROVE (\A t \in Threads : Shallow(stack[t]))'
  <2>1. Start("asio", <<>>) /\ "asio" \in Threads /\ ids' = ids + 1 /\ open' = open \cup {ids + 1}
    BY <1>6 DEF Accept, NextId, Threads
  <2>2. Cardinality(open') = Cardinality(open) + 1
    <3>1. ids + 1 \notin open
      BY <1>1
    <3> QED  BY <1>1, <2>1, <3>1, FS_AddElement
  <2>3. ids - Cardinality(open) <= 1 /\ (1..ids) \ open \subseteq (1..ids') \ open'
    BY <1>1, <2>1, <2>2
  <2>4. Shallow(<<>>)'
    BY DEF Shallow, Rest
  <2> QED  BY <1>2, <2>1, <2>3, <2>4
<1>7. ASSUME OnMessage PROVE (\A t \in Threads : Shallow(stack[t]))'
  <2>1. PICK m : m = Head(inbox)
    OBVIOUS
  <2>2. inbox # <<>> /\ Start("main", Handling(m)) /\ UNCHANGED <<ids, open>> /\ "main" \in Threads
    BY <1>7, <2>1 DEF OnMessage, Threads
  <2>3. m.type \in {"UpdatePlayer", "PowerupEaten", "StartGame"}
    <3>1. inbox \in Seq([type : {"UpdatePlayer", "PowerupEaten", "StartGame"}, who : validated])
      BY DEF IInv, TypeOK
    <3>2. m \in [type : {"UpdatePlayer", "PowerupEaten", "StartGame"}, who : validated]
      BY <2>1, <2>2, <3>1, HeadTailProperties
    <3> QED  BY <3>2
  <2>4. PICK calls : calls = Handling(m)
    OBVIOUS
  <2>5. Shallow(calls)
    BY <2>3, <2>4, HandlersShallow
  <2>6. Shallow(calls)'
    BY <2>2, <2>5 DEF Shallow, Casts, Rest
  <2> QED  BY <1>2, <1>4, <2>2, <2>4, <2>6
<1>8. ASSUME NEW c \in Clients, OnClientValidated(c) PROVE (\A t \in Threads : Shallow(stack[t]))'
  <2>1. UNCHANGED <<ids, open>> /\ "asio" \in Threads
    BY <1>8 DEF OnClientValidated, Threads
  <2>2. PICK calls \in {<<>>, <<MessageAllClients(Msg("NewPlayer", c), c), Call("count", c)>>} :
          Start("asio", calls)
    BY <1>8 DEF OnClientValidated
  <2>3. Shallow(calls)
    BY <2>2, HandlersShallow
  <2>4. Shallow(calls)'
    BY <2>1, <2>3 DEF Shallow, Casts, Rest
  <2> QED  BY <1>2, <1>4, <2>1, <2>2, <2>4
<1>9. ASSUME NEW c \in Clients, Receive(c) PROVE (\A t \in Threads : Shallow(stack[t]))'
  <2>1. UNCHANGED <<ids, open, stack>>
    BY <1>9 DEF Receive
  <2> QED  BY <1>3, <1>4, <2>1
<1>10. ASSUME NEW c \in Clients, Close(c) PROVE (\A t \in Threads : Shallow(stack[t]))'
  <2>1. UNCHANGED <<ids, stack>> /\ open' = open \ {c} /\ c \in open
    BY <1>10 DEF Close
  <2>2. Cardinality(open') = Cardinality(open) - 1
    BY <1>1, <2>1, FS_RemoveElement
  <2>3. ids - Cardinality(open) <= 1 /\ (1..ids) \ open \subseteq (1..ids') \ open'
    BY <1>1, <2>1, <2>2
  <2> QED  BY <1>3, <2>1, <2>3
<1>11. ASSUME UNCHANGED vars PROVE (\A t \in Threads : Shallow(stack[t]))'
  <2>1. UNCHANGED <<ids, open, stack>>
    BY <1>11 DEF vars
  <2> QED  BY <1>3, <1>4, <2>1
<1> QED  BY <1>5, <1>6, <1>7, <1>8, <1>9, <1>10, <1>11 DEF Next

\* The threads start with nothing to do.
LEMMA InitFlat == Init => Flat
  BY DEF Init, Flat, Shallow, Rest

\* the process has not ended
Running == crashed = "no"

\* As long as it runs, one departure is reported from one broadcast, and once unless
\* the threads have raced.
LEMMA RunsSafely == IInv /\ Orderly /\ Flat /\ Running => OneLeavesSafely
<1> SUFFICES ASSUME IInv, Orderly, Flat, Running, ids - Cardinality(open) <= 1
             PROVE  /\ \A t \in Threads : Loops(t) <= 2
                    /\ crashed \notin {"stack overflow", "null"}
                    /\ raced \/ ReportedOnce
  BY DEF OneLeavesSafely
<1>1. ASSUME ~raced PROVE ReportedOnce
  <2>1. Regular
    BY <1>1, DoomedFoundTwo DEF Orderly, Running
  <2> QED  BY <2>1 DEF Regular, Reporting, ReportedOnce
<1>2. ASSUME NEW t \in Threads PROVE Loops(t) <= 2
  <2>1. Loops(t) \in 0..2
    BY ShallowLoops DEF Flat
  <2> QED  BY <2>1
<1> QED  BY <1>1, <1>2 DEF Running

\* There is room on the stack for the broadcast that tells of one client.
LEMMA RoomForOne ==
    ASSUME MaxDepth > 1, IInv, Flat, ids - Cardinality(open) <= 1, NEW t \in Threads, Enter(t)
    PROVE  crashed' = "no"
<1>1. stack[t] # <<>> /\ stack[t][1].do = "all" /\ (crashed' = "no" \/ ~(Loops(t) < MaxDepth))
  BY EnterDoes
<1>2. Loops(t) \in 0..1
  BY <1>1, ShallowLoops DEF Flat
<1>3. Loops(t) < MaxDepth
  BY <1>2, SnekServerAssumption
<1> QED  BY <1>1, <1>3

\* No loop comes to an entry that was reset.
LEMMA NoNullForOne ==
    ASSUME IInv, Orderly, Running, ~raced, ids - Cardinality(open) <= 1,
           NEW t \in Threads, ReportNull(t)
    PROVE  FALSE
<1> DEFINE f == stack[t][1]
<1>1. Regular
  BY DoomedFoundTwo DEF Orderly, Running
<1>2. Visits(t, Null) /\ stack[t] # <<>> /\ f.do = "loop" /\ ~f.reporting
  BY AtEntryVisits DEF ReportNull, Visits
<1>3. f.i \in Nat \ {0} /\ f.end \in Nat /\ f.i <= f.end /\ Entry(f) = Null
  BY <1>2 DEF Visits
<1>4. CASE Calm
  <2>1. Outer(t, stack[t], 1)
    BY <1>2, <1>4, CalmHead DEF Sending
  <2>2. f.end <= Len(conns) /\ \A k \in DOMAIN conns : conns[k] = Null => k < f.i
    BY <2>1 DEF Outer
  <2>3. f.i \in DOMAIN conns /\ conns[f.i] = Null
    BY <1>3, <2>2, Basics DEF Entry
  <2> QED  BY <1>3, <2>2, <2>3
<1>5. ASSUME NEW u \in Threads, NEW c \in Clients, Leaving(u, c) PROVE FALSE
  <2>1. t = u
    BY <1>2, <1>5 DEF Leaving
  <2>2. Telling(t, stack[t], c)
    BY <1>2, <1>5, <2>1, LeavingHead
  <2>3. f.end <= Len(conns) /\ Found(t, stack[t], 3, c)
    BY <1>2, <2>2 DEF Telling
  <2>4. f.i \in DOMAIN conns /\ conns[f.i] = Null
    BY <1>3, <2>3, Basics DEF Entry
  <2>5. Gone # {}
    BY <2>3, <2>4 DEF Found, Outer
  <2>6. c \in Listed
    BY ONLY IInv, t \in Threads, <2>3, FoundListed
  <2>7. PICK d : d \in Gone
    BY <2>5
  <2>8. d \in (1..ids) \ open /\ d # c
    BY <2>6, <2>7 DEF Gone
  <2>9. c \in (1..ids) \ open
    BY <1>5 DEF Leaving
  <2> QED  BY <2>8, <2>9, TwoClosed
<1> QED  BY <1>1, <1>4, <1>5 DEF Regular

\* A step that ends the process ends it for another reason.
LEMMA EndsSafely ==
    ASSUME MaxDepth > 1
    PROVE  IInv /\ Orderly /\ Flat /\ OneLeavesSafely /\ [Next]_vars => Running' \/ OneLeavesSafely'
<1> SUFFICES ASSUME IInv, Orderly, Flat, OneLeavesSafely, [Next]_vars, crashed' # "no"
             PROVE  OneLeavesSafely'
  BY DEF Running
<1>1. ASSUME \A t \in Threads : stack'[t] = stack[t], UNCHANGED <<ids, open, reports>>, ~raced' => ~raced,
             ids - Cardinality(open) <= 1 => crashed' # "stack overflow" /\ (raced \/ crashed' # "null")
      PROVE  OneLeavesSafely'
  <2>1. \A t \in Threads : Loops(t)' = Loops(t)
    BY <1>1 DEF Loops
  <2>2. ReportedOnce' <=> ReportedOnce
    BY <1>1 DEF ReportedOnce, Clients
  <2> QED  BY <1>1, <2>1, <2>2 DEF OneLeavesSafely, Threads
<1>2. ASSUME UNCHANGED vars PROVE OneLeavesSafely'
  <2>1. (\A t \in Threads : stack'[t] = stack[t]) /\ UNCHANGED <<ids, open, reports, crashed, raced>>
    BY <1>2 DEF vars
  <2> QED  BY <1>1, <2>1 DEF OneLeavesSafely
<1>3a. ASSUME Next PROVE ~raced' => ~raced
  BY <1>3a, RacedStays
<1>3. ASSUME Next PROVE Running
  BY <1>3 DEF Next, Step, Enter, Skip, ReportNull, Reset, Leave, Erase, Send, Report, Count, Fill, Generate,
         UpdatePlayer, DeletePowerup, AtEntry, Ready, Accept, OnMessage, OnClientValidated, Receive,
         Close, Start, Running
<1>4. ASSUME NEW t \in Threads, Next, Enter(t), Running PROVE OneLeavesSafely'
  <2>1. UNCHANGED <<stack, ids, open, reports>> /\ crashed' = "stack overflow"
    BY <1>4, EnterDoes DEF Sockets
  <2>2. ~(ids - Cardinality(open) <= 1)
    BY <1>4, <2>1, RoomForOne
  <2> QED  BY <1>1, <1>4, <1>3a, <2>1, <2>2
<1>5. ASSUME NEW t \in Threads, Next, ReportNull(t), Running PROVE OneLeavesSafely'
  <2>1. UNCHANGED <<stack, ids, open, reports>> /\ crashed' = "null"
    BY <1>5 DEF ReportNull, Crash, server
  <2>2. raced \/ ~(ids - Cardinality(open) <= 1)
    BY <1>5, NoNullForOne
  <2> QED  BY <1>1, <1>5, <1>3a, <2>1, <2>2
<1>6. ASSUME NEW t \in Threads, Next, UpdatePlayer(t), Running PROVE OneLeavesSafely'
  <2>1. UNCHANGED <<stack, ids, open, reports>> /\ crashed' = "at"
    BY <1>6 DEF UpdatePlayer, Crash, server, Running
  <2> QED  BY <1>1, <1>6, <1>3a, <2>1
<1>7. ASSUME NEW c \in Clients, Next, OnClientValidated(c), Running PROVE OneLeavesSafely'
  <2>1. UNCHANGED <<ids, open, reports>> /\ crashed' = "no spawnpoint" /\ Start("asio", <<>>)
    BY <1>7 DEF OnClientValidated, Running
  <2>2. \A t \in Threads : stack'[t] = stack[t]
    BY <2>1, Basics DEF Start, StackOK
  <2> QED  BY <1>1, <1>7, <1>3a, <2>1, <2>2
<1>8. ASSUME NEW t \in Threads, Step(t), Running PROVE Enter(t) \/ ReportNull(t) \/ UpdatePlayer(t)
  BY <1>8 DEF Step, Skip, Reset, Leave, Erase, Send, Report, Count, Fill, Generate, DeletePowerup, Running
<1>9. ASSUME Running PROVE ~Accept /\ ~OnMessage /\ \A c \in Clients : ~Receive(c) /\ ~Close(c)
  BY <1>9 DEF Accept, OnMessage, Receive, Close, Running
<1> QED  BY <1>2, <1>3, <1>4, <1>5, <1>6, <1>7, <1>8, <1>9 DEF Next

\* As long as one connection at most has closed, MessageAllClients
\* (Networking/server.h:152 "At least one client has disconnected") is called once
\* by OnClientDisconnect on each thread, however the handlers of the two threads
\* overlap.  Unless a handler has begun in the middle of the other thread's with
\* that connection still in the list, it calls OnClientDisconnect once for it, and
\* no loop comes to a pointer that was reset.  This holds for any number of
\* clients and messages, if the stack has room for two broadcasts.
THEOREM OneDepartureIsSafe ==
    ASSUME MaxDepth > 1
    PROVE  Spec => []OneLeavesSafely
<1>1. Init => Running
  BY DEF Init, Running
<1> QED  BY <1>1, InitIInv, InitOrderly, InitFlat, NextFlat, RunsSafely, EndsSafely, InvariantHolds,
            DeparturesAreOrderly, PTL DEF Spec

----------------------------------------------------------------------------
(* Two departures *)

\* once a report is caught in another one, it stays caught until the process ends
\* or the other thread begins a handler
CaughtForGood == \A t \in Threads : Running /\ Doomed(t) => Doomed(t)' \/ ~Running' \/ raced'

\* What is taken from the queue is handled by a call at least.
LEMMA MessageHandled == ASSUME IInv, inbox # <<>> PROVE Handling(Head(inbox)) # <<>>
<1>1. inbox \in Seq([type : {"UpdatePlayer", "PowerupEaten", "StartGame"}, who : validated])
  BY DEF IInv, TypeOK
<1>2. PICK m : m = Head(inbox)
  OBVIOUS
<1>3. m \in [type : {"UpdatePlayer", "PowerupEaten", "StartGame"}, who : validated]
  BY <1>1, <1>2, HeadTailProperties
<1>4. Handling(m) # <<>>
  BY <1>3 DEF Handling
<1> QED  BY <1>2, <1>4

\* A step of anybody leaves a doomed thread so.
LEMMA NextCaught ==
    IInv /\ [Next]_vars => CaughtForGood
<1> SUFFICES ASSUME IInv, [Next]_vars, NEW t \in Threads, Doomed(t), Running, Running', ~raced'
             PROVE  Doomed(t)'
  BY DEF CaughtForGood
<1>1. /\ stack[t] # <<>> /\ stack[t][1].ignore \in Listed \ open
  BY DEF Doomed
<1>2. ASSUME NEW u \in Threads, NEW calls, calls # <<>>, Start(u, calls) PROVE FALSE
  BY <1>1, <1>2 DEF Start
<1>3. ASSUME open' \subseteq open, UNCHANGED <<conns, stack>> PROVE Doomed(t)'
  <2>1. Listed' = Listed
    BY <1>3 DEF Listed
  <2> QED  BY <1>3, <2>1 DEF Doomed, Null, Threads
<1>4. ASSUME NEW u \in Threads, Step(u) PROVE Doomed(t)'
  BY <1>4, DoomedStep DEF Running
<1>5. ~OnMessage /\ \A c \in Clients : ~OnClientValidated(c)
  <2>1. ASSUME OnMessage PROVE FALSE
    <3>1. PICK m : m = Head(inbox)
      OBVIOUS
    <3>2. inbox # <<>> /\ Start("main", Handling(m)) /\ "main" \in Threads
      BY <2>1, <3>1 DEF OnMessage, Threads
    <3>3. Handling(m) # <<>>
      BY <3>1, <3>2, MessageHandled
    <3> QED  BY <1>2, <3>2, <3>3
  <2>2. ASSUME NEW c \in Clients, OnClientValidated(c) PROVE FALSE
    <3>1. Start("asio", <<MessageAllClients(Msg("NewPlayer", c), c), Call("count", c)>>)
      BY <2>2 DEF OnClientValidated, Running
    <3> QED  BY <1>2, <3>1 DEF Threads
  <2> QED  BY <2>1, <2>2
<1>6. ASSUME NEW c \in Clients, Receive(c) \/ Close(c) PROVE Doomed(t)'
  BY <1>3, <1>6 DEF Receive, Close
<1>7. ASSUME UNCHANGED vars PROVE Doomed(t)'
  BY <1>3, <1>7 DEF vars
<1>8. ASSUME Accept PROVE Doomed(t)'
  BY <1>8, AcceptOrderly
<1> QED  BY <1>4, <1>5, <1>6, <1>7, <1>8 DEF Next

\* "At least one client has disconnected" (Networking/server.h:152), but
\* MessageAllClients does not return any more once it passes over one closed
\* connection, as for OnClientDisconnect it does, and has another one ahead of it:
\* the report of either comes to the other, whoever connects or closes meanwhile,
\* until the process ends or the other thread begins a handler (raced).
THEOREM TwoDeparturesNeverReturn == Spec => [][CaughtForGood]_vars
  BY NextCaught, InvariantHolds, PTL DEF Spec
=============================================================================
