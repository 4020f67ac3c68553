-------------------------- MODULE ConnectionProofs --------------------------
(***************************************************************************)
(* What the two Connection objects keep for any messages of any length,    *)
(* any number of them and any failure.                                     *)
(*                                                                         *)
(* The cells that one end writes are a stream: the handshake value is its  *)
(* first cell, and the messages given to Send follow, header and body.     *)
(* The argument is that the wire always holds a piece of that stream, and  *)
(* that the writer's and the reader's chains of operations each know where *)
(* in it they are.  Once a write has mixed with the one of WriteValidation *)
(* only the writer's queues keep their place, and nothing is said of what  *)
(* the reader finds; that the client's writes never mix is proved.         *)
(***************************************************************************)
EXTENDS Connection, TLAPS, SequenceTheorems

----------------------------------------------------------------------------
(* The stream of the messages S *)

\* what can be given to Send
SendMsgs ==
    {m \in [id : {n.id : n \in Known}, size : Nat, body : Seq(Bytes)] : Header(m) \in Cells}

\* off[k] is the number of cells up to the end of the k-th message
Offsets(S) ==
    {off \in [0..Len(S) -> Nat] :
        /\ off[0] = 1
        /\ \A k \in 1..Len(S) : off[k] = off[k - 1] + 1 + Len(S[k].body)
        /\ \A i, j \in 0..Len(S) : i < j => off[i] < off[j]}

\* the cells of a message: the header is number 0
Cell(m, j) == IF j = 0 THEN Header(m) ELSE m.body[j]

\* cells holds the messages' cells of the stream from number R + 1 on
Holds(S, off, R, cells) ==
    /\ R + Len(cells) <= off[Len(S)]
    /\ \A i \in 1..Len(cells), k \in 1..Len(S) : \A j \in 0..Len(S[k].body) :
         R + i = off[k - 1] + 1 + j => cells[i] = Cell(S[k], j)

\* w messages of S were written and popped, qOut and posted are the next ones;
\* nothing is posted behind the lambda of Disconnect
Outgoing(S, w, posted, qOut) ==
    /\ w + Len(qOut) <= Len(S)
    /\ \A i \in 1..Len(qOut) : qOut[i] = S[w + i]
    /\ \A i \in 1..Len(posted) :
         IF posted[i] = CloseSocket THEN i = Len(posted)
         ELSE w + Len(qOut) + i <= Len(S) /\ posted[i] = S[w + Len(qOut) + i]

\* all that was given to Send is accounted for
Complete(S, w, posted, qOut) ==
    /\ w + Len(qOut) + Len(posted) = Len(S)
    /\ \A i \in 1..Len(posted) : posted[i] # CloseSocket

\* number of cells an open socket has taken from a writer in message w + 1
Reached(off, w, writing) ==
    CASE writing = "idle"   -> off[w]
      [] writing = "header" -> off[w] + 1
      [] writing = "body"   -> off[w + 1]

\* a reader that has delivered qIn and got R cells is where its pending read says
Reads(S, off, R, listening, reading, msgIn, qIn) ==
    /\ Len(qIn) <= Len(S)
    /\ \A i \in 1..Len(qIn) : Seen(qIn[i]) = S[i]
    /\ listening => R = off[Len(qIn)]
    /\ reading = "body" =>
         /\ Len(qIn) < Len(S) /\ R = off[Len(qIn)] + 1
         /\ msgIn.id = S[Len(qIn) + 1].id /\ msgIn.size = S[Len(qIn) + 1].size

----------------------------------------------------------------------------
(* The inductive invariant *)

\* e may still give messages to Send
More(e) == e = "client" => phase \in {"waiting", "run"}

\* the client has not answered the handshake
Silent(e) == e = "client" /\ conn[e].reading \in {"connect", "validation"}

\* p has not read the handshake value
Expecting(p) == conn[p].reading \in {"connect", "validation"} \/ (p = "server" /\ listed \in {"no", "denied"})

\* p reads headers, or is the client that will after its answer is written
Listening(p) == conn[p].reading = "header" \/ (p = "client" /\ conn[p].validating)

AllWellFormed(S) == \A i \in DOMAIN S : WellFormed(S[i])

\* no two writes of e have mixed
Clean(e) == e \notin mixed

\* cells, on their way from c to d, are the stream of S from number R + 1 on, of
\* which c has written w messages
Placed(S, cells, c, d, silent, expecting, listening, off, w, R) ==
    /\ Holds(S, off, R, cells)
    /\ c.open => R + Len(cells) = IF silent THEN 0 ELSE Reached(off, w, c.writing)
    /\ expecting => R = 0
    /\ AllWellFormed(S) => Reads(S, off, R, listening, d.reading, d.msgIn, d.qIn)

\* of a stream on which writes have mixed, only the queues of its writer are known
Fits(S, cells, c, d, more, silent, expecting, listening, clean, off, w, R) ==
    /\ Outgoing(S, w, c.posted, c.qOut)
    /\ more => Complete(S, w, c.posted, c.qOut)
    /\ clean => Placed(S, cells, c, d, silent, expecting, listening, off, w, R)

Linked(S, cells, c, d, more, silent, expecting, listening, clean) ==
    \E off \in Offsets(S) : \E w \in 0..Len(S), R \in 0..off[Len(S)] :
        Fits(S, cells, c, d, more, silent, expecting, listening, clean, off, w, R)

\* The wire to p holds a piece of the stream its peer writes.
Carried(p) ==
    Linked(sent[Peer(p)], wire[p], conn[Peer(p)], conn[p],
           More(Peer(p)), Silent(Peer(p)), Expecting(p), Listening(p), Clean(Peer(p)))

\* number of cells the pending read of e asks for
Asked(e) == IF conn[e].reading = "body" THEN conn[e].msgIn.size ELSE 1

\* messages the programs could have built, whatever their headers announce
Legible == [id : {n.id : n \in Known}, size : Nat, body : Seq(Bytes)]

\* What the two ends are given, and what the server makes of it.
Given ==
    /\ sent["client"] \in Seq(ClientMsgs) /\ sent["server"] \in Seq(SendMsgs)
    /\ conn["server"].msgIn.body \in Seq(Bytes)
    /\ conn["server"].qIn \in Seq(Legible)
    /\ listed \in {"yes", "dropped"} => conn["server"].handshake \in Handshakes
    /\ Clean("client")

\* The handshake goes before everything else.
Shaking ==
    /\ listed \in {"no", "denied"} =>
         /\ conn["server"] = Fresh /\ wire["client"] = <<>> /\ wire["server"] = <<>>
         /\ sent["server"] = <<>> /\ verdict = "none" /\ Clean("server")
         /\ conn["client"].reading \in {"connect", "validation", "idle"} /\ ~conn["client"].validating
    /\ Silent("client") => wire["server"] = <<>>
    /\ conn["client"].validating => conn["client"].reading = "idle"
    /\ Silent("client") \/ conn["client"].validating => conn["client"].qIn = <<>>
    /\ conn["client"].qIn = <<>> => phase = "waiting"
    /\ phase = "waiting" => sent["client"] = <<>> /\ conn["client"].writing = "idle"
    /\ conn["server"].reading = "validation" => conn["server"].qIn = <<>>
    /\ conn["server"].reading # "connect"
    /\ Silent("client") /\ wire["client"] # <<>> /\ Clean("server") =>
         Head(wire["client"]) = Validation(conn["server"].handshake)
    /\ Silent("client") /\ ~Clean("server") => wire["client"] # <<>> /\ Head(wire["client"]) = Mix
    /\ conn["server"].reading = "validation" /\ wire["server"] # <<>> =>
         /\ Head(wire["server"]) = Validation(conn["client"].handshake)
         /\ snek /\ Clean("server") => conn["client"].handshake = Scramble(conn["server"].handshake)

\* The kernel completes a read only when its cells are there.
Arrived == \A e \in End : "read" \in conn[e].done => Len(wire[e]) >= Asked(e)

\* ReadBody is called only for a body.
Announced == \A e \in End : conn[e].reading = "body" => conn[e].msgIn.size > 0

IInv ==
    /\ TypeOK /\ Given /\ Shaking /\ Arrived /\ Announced /\ WriteChain /\ SnekAdmitted
    /\ \A p \in End : Carried(p)

----------------------------------------------------------------------------
(* Streams *)

\* What was given to Send is messages, with headers that are cells.
LEMMA SentType ==
    ASSUME NEW S \in Seq(SendMsgs)
    PROVE  /\ Len(S) \in Nat
           /\ \A k \in 1..Len(S) :
                /\ S[k] \in [id : {n.id : n \in Known}, size : Nat, body : Seq(Bytes)]
                /\ Header(S[k]) \in Cells
                /\ S[k].body \in Seq(Bytes) /\ Len(S[k].body) \in Nat
<1>1. \A k \in 1..Len(S) : S[k] \in SendMsgs
  OBVIOUS
<1>2. \A m \in SendMsgs : m.body \in Seq(Bytes) /\ Len(m.body) \in Nat
  BY DEF SendMsgs
<1> QED  BY <1>1, <1>2 DEF SendMsgs

\* The facts that Offsets states.
LEMMA OffsetsType ==
    ASSUME NEW S \in Seq(SendMsgs), NEW off \in Offsets(S)
    PROVE  /\ \A k \in 0..Len(S) : off[k] \in Nat
           /\ off[0] = 1
           /\ \A k \in 1..Len(S) : off[k] = off[k - 1] + 1 + Len(S[k].body)
           /\ \A i, j \in 0..Len(S) : i < j => off[i] < off[j]
  BY DEF Offsets

\* Where message w + 1 begins and ends.
LEMMA OffsetsAt ==
    ASSUME NEW S \in Seq(SendMsgs), NEW off \in Offsets(S), NEW w \in 0..(Len(S) - 1)
    PROVE  /\ off[w] \in Nat /\ off[w + 1] \in Nat /\ off[Len(S)] \in Nat
           /\ off[w + 1] = off[w] + 1 + Len(S[w + 1].body)
           /\ off[w + 1] <= off[Len(S)]
<1>1. Len(S) \in Nat /\ w \in 0..Len(S) /\ w + 1 \in 1..Len(S) /\ w + 1 \in 0..Len(S)
  BY SentType
<1>2. /\ off[w] \in Nat /\ off[w + 1] \in Nat /\ off[Len(S)] \in Nat
      /\ w + 1 < Len(S) => off[w + 1] < off[Len(S)]
  BY <1>1, OffsetsType
<1>3. off[w + 1] = off[(w + 1) - 1] + 1 + Len(S[w + 1].body) /\ (w + 1) - 1 = w
  BY <1>1, OffsetsType
<1> QED  BY <1>1, <1>2, <1>3

\* The cells of one message lie between its offsets, so a cell of the stream
\* belongs to one message only.
LEMMA CellOfOne ==
    ASSUME NEW S \in Seq(SendMsgs), NEW off \in Offsets(S),
           NEW k \in 1..Len(S), NEW j \in 0..Len(S[k].body), NEW w \in 0..(Len(S) - 1),
           off[w] < off[k - 1] + 1 + j, off[k - 1] + 1 + j <= off[w + 1]
    PROVE  k = w + 1
<1>1. /\ Len(S) \in Nat /\ Len(S[k].body) \in Nat
      /\ k - 1 \in 0..Len(S) /\ k \in 0..Len(S) /\ w \in 0..Len(S) /\ w + 1 \in 0..Len(S)
  BY SentType
<1>2. /\ off[k - 1] \in Nat /\ off[k] \in Nat /\ off[w] \in Nat /\ off[w + 1] \in Nat
      /\ off[k] = off[k - 1] + 1 + Len(S[k].body)
  BY <1>1, OffsetsType
<1>3. CASE k < w + 1
  <2>1. k < w => off[k] < off[w]
    BY <1>1, OffsetsType
  <2>2. off[k] <= off[w]
    BY <1>1, <1>2, <1>3, <2>1
  <2>3. j \in Nat /\ j <= Len(S[k].body)
    BY <1>1
  <2>4. off[k - 1] + 1 + j <= off[k]
    BY <1>1, <1>2, <2>3
  <2> QED  BY <1>2, <2>2, <2>3, <2>4
<1>4. CASE k > w + 1
  <2>1. w + 1 < k - 1 => off[w + 1] < off[k - 1]
    BY <1>1, OffsetsType
  <2>2. off[w + 1] <= off[k - 1]
    BY <1>1, <1>2, <1>4, <2>1
  <2> QED  BY <1>1, <1>2, <2>2
<1> QED  BY <1>1, <1>3, <1>4

\* A writer between two messages writes a header.
LEMMA HoldsHeader ==
    ASSUME NEW S \in Seq(SendMsgs), NEW off \in Offsets(S), NEW R \in Nat,
           NEW cells \in Seq(Cells), Holds(S, off, R, cells),
           NEW w \in 0..(Len(S) - 1), R + Len(cells) = off[w]
    PROVE  Holds(S, off, R, cells \o <<Header(S[w + 1])>>)
<1> DEFINE new == cells \o <<Header(S[w + 1])>>
<1>1. off[w] \in Nat /\ off[w + 1] \in Nat /\ off[Len(S)] \in Nat /\ off[w + 1] <= off[Len(S)]
  BY OffsetsAt
<1>2. off[w] + 1 <= off[w + 1]
  BY OffsetsAt, SentType
<1>3. Len(new) = Len(cells) + 1 /\ Len(cells) \in Nat
  OBVIOUS
<1>4. \A i \in 1..Len(cells) : new[i] = cells[i]
  OBVIOUS
<1>5. new[Len(cells) + 1] = Header(S[w + 1])
  OBVIOUS
<1> HIDE DEF new
<1>6. R + Len(new) <= off[Len(S)]
  BY <1>1, <1>2, <1>3
<1>7. ASSUME NEW i \in 1..Len(new), NEW k \in 1..Len(S), NEW j \in 0..Len(S[k].body),
             R + i = off[k - 1] + 1 + j
      PROVE  new[i] = Cell(S[k], j)
  <2>1. CASE i \in 1..Len(cells)
    BY <1>4, <1>7, <2>1 DEF Holds
  <2>2. CASE i = Len(cells) + 1
    <3>1. off[k - 1] + 1 + j = off[w] + 1
      BY <1>1, <1>3, <1>7, <2>2
    <3>2. k = w + 1
      <4>1. off[w] < off[k - 1] + 1 + j /\ off[k - 1] + 1 + j <= off[w + 1]
        BY <1>1, <1>2, <3>1
      <4> QED  BY <4>1, CellOfOne
    <3>3. j = 0
      BY <1>1, <3>1, <3>2
    <3> QED  BY <1>5, <2>2, <3>2, <3>3 DEF Cell
  <2> QED  BY <1>3, <2>1, <2>2
<1>8. Holds(S, off, R, new)
  BY <1>6, <1>7 DEF Holds
<1> QED  BY <1>8 DEF new

\* Behind a header the writer writes the body.
LEMMA HoldsBody ==
    ASSUME NEW S \in Seq(SendMsgs), NEW off \in Offsets(S), NEW R \in Nat,
           NEW cells \in Seq(Cells), Holds(S, off, R, cells),
           NEW w \in 0..(Len(S) - 1), R + Len(cells) = off[w] + 1
    PROVE  /\ Holds(S, off, R, cells \o S[w + 1].body)
           /\ R + Len(cells \o S[w + 1].body) = off[w + 1]
<1> DEFINE body == S[w + 1].body
           new == cells \o body
<1>1. off[w] \in Nat /\ off[w + 1] \in Nat /\ off[Len(S)] \in Nat /\ off[w + 1] <= off[Len(S)]
  BY OffsetsAt
<1>2. off[w + 1] = off[w] + 1 + Len(body) /\ body \in Seq(Bytes)
  BY OffsetsAt, SentType
<1> HIDE DEF body
<1>3. Len(new) = Len(cells) + Len(body) /\ Len(cells) \in Nat /\ Len(body) \in Nat
  BY <1>2
<1>4. \A i \in 1..Len(cells) : new[i] = cells[i]
  BY <1>2
<1>5. \A j \in 1..Len(body) : new[Len(cells) + j] = body[j]
  BY <1>2
<1> HIDE DEF new
<1>6. R + Len(new) = off[w + 1]
  BY <1>1, <1>2, <1>3
<1>7. ASSUME NEW i \in 1..Len(new), NEW k \in 1..Len(S), NEW j \in 0..Len(S[k].body),
             R + i = off[k - 1] + 1 + j
      PROVE  new[i] = Cell(S[k], j)
  <2>1. CASE i \in 1..Len(cells)
    BY <1>4, <1>7, <2>1 DEF Holds
  <2>2. CASE i > Len(cells)
    <3>1. off[w] < off[k - 1] + 1 + j /\ off[k - 1] + 1 + j <= off[w + 1]
      BY <1>1, <1>3, <1>6, <1>7, <2>2, SMTT(60)
    <3>2. k = w + 1
      BY <3>1, CellOfOne
    <3>3. i = Len(cells) + j
      <4>1. k - 1 = w /\ j \in Int
        BY <3>2
      <4>2. R + i = off[w] + 1 + j
        BY <1>7, <4>1
      <4>3. i \in Int /\ Len(cells) \in Int /\ R + Len(cells) = off[w] + 1 /\ off[w] \in Int
        BY <1>1, <1>3
      <4>4. R + i = (R + Len(cells)) + j
        BY <4>2, <4>3
      <4> QED  BY <4>1, <4>3, <4>4
    <3>4. j \in 1..Len(body)
      BY <1>3, <2>2, <3>2, <3>3 DEF body
    <3>5. new[i] = body[j] /\ j # 0
      BY <1>5, <3>3, <3>4
    <3> QED  BY <3>2, <3>5 DEF Cell, body
  <2> QED  BY <1>3, <2>1, <2>2
<1>8. R + Len(new) <= off[Len(S)]
  BY <1>1, <1>6
<1>9. Holds(S, off, R, new)
  BY <1>7, <1>8 DEF Holds
<1> QED  BY <1>6, <1>9 DEF new, body

\* The handshake value is the first cell, before every message.
LEMMA HoldsFirst ==
    ASSUME NEW S \in Seq(SendMsgs), NEW off \in Offsets(S), NEW v
    PROVE  Holds(S, off, 0, <<v>>)
<1>1. Len(S) \in Nat /\ 0 \in 0..Len(S) /\ Len(S) \in 0..Len(S)
  BY SentType
<1>2. off[0] = 1 /\ off[Len(S)] \in Nat /\ 0 < Len(S) => off[0] < off[Len(S)]
  BY <1>1, OffsetsType
<1>3. 1 <= off[Len(S)]
  BY <1>1, <1>2, OffsetsType
<1>4. ASSUME NEW k \in 1..Len(S), NEW j \in 0..Len(S[k].body)
      PROVE  1 < off[k - 1] + 1 + j
  <2>1. k - 1 \in 0..Len(S)
    BY <1>1
  <2>2. off[k - 1] \in Nat /\ (0 < k - 1 => off[0] < off[k - 1])
    BY <1>1, <2>1, OffsetsType
  <2>3. off[k - 1] >= 1
    BY <1>2, <2>1, <2>2, OffsetsType
  <2> QED  BY <2>2, <2>3
<1>5. Len(<<v>>) = 1
  OBVIOUS
<1> QED  BY <1>3, <1>4, <1>5 DEF Holds

\* A reader takes n cells off.
LEMMA HoldsConsumed ==
    ASSUME NEW S \in Seq(SendMsgs), NEW off \in Offsets(S), NEW R \in Nat,
           NEW cells \in Seq(Cells), Holds(S, off, R, cells), NEW n \in 0..Len(cells)
    PROVE  /\ Holds(S, off, R + n, SubSeq(cells, n + 1, Len(cells)))
           /\ R + n + Len(SubSeq(cells, n + 1, Len(cells))) = R + Len(cells)
<1> DEFINE rest == SubSeq(cells, n + 1, Len(cells))
<1>1. Len(cells) \in Nat /\ Len(rest) = Len(cells) - n
  OBVIOUS
<1>2. \A i \in 1..Len(rest) : rest[i] = cells[n + i]
  BY <1>1
<1> HIDE DEF rest
<1>3. R + n + Len(rest) = R + Len(cells)
  BY <1>1
<1>4. ASSUME NEW i \in 1..Len(rest), NEW k \in 1..Len(S), NEW j \in 0..Len(S[k].body),
             (R + n) + i = off[k - 1] + 1 + j
      PROVE  rest[i] = Cell(S[k], j)
  <2>1. n + i \in 1..Len(cells) /\ R + (n + i) = off[k - 1] + 1 + j
    BY <1>1, <1>4
  <2>2. cells[n + i] = Cell(S[k], j)
    BY <2>1 DEF Holds
  <2> QED  BY <1>2, <2>2
<1>5. R + n + Len(rest) <= off[Len(S)]
  BY <1>3 DEF Holds
<1>6. Holds(S, off, R + n, rest)
  BY <1>4, <1>5 DEF Holds
<1> QED  BY <1>3, <1>6 DEF rest

\* Send is given another message: nothing of it is on the wire.
LEMMA OffsetsExtended ==
    ASSUME NEW S \in Seq(SendMsgs), NEW off \in Offsets(S), NEW m \in SendMsgs
    PROVE  \E new \in Offsets(Append(S, m)) : \A k \in 0..Len(S) : new[k] = off[k]
<1> DEFINE n == Len(S) + 1
           T == Append(S, m)
           new == [k \in 0..n |-> IF k = n THEN off[Len(S)] + 1 + Len(m.body) ELSE off[k]]
<1>1. Len(S) \in Nat /\ n \in Nat /\ Len(S) \in 0..Len(S) /\ 0 \in 0..Len(S)
  BY SentType
<1>2. Len(T) = n /\ T[n] = m /\ \A k \in 1..Len(S) : T[k] = S[k]
  OBVIOUS
<1>3. Len(m.body) \in Nat
  BY DEF SendMsgs
<1>4. (\A k \in 0..Len(S) : off[k] \in Nat) /\ off[0] = 1 /\ off[Len(S)] \in Nat
  BY <1>1, OffsetsType
<1>5. \A k \in 1..Len(S) : off[k] = off[k - 1] + 1 + Len(S[k].body)
  BY OffsetsType
<1>6. \A i, j \in 0..Len(S) : i < j => off[i] < off[j]
  BY OffsetsType
<1>7. \A k \in 0..Len(S) : new[k] = off[k]
  BY <1>1
<1>8. new[n] = off[Len(S)] + 1 + Len(m.body)
  BY <1>1
<1>9. new \in [0..n -> Nat]
  BY <1>1, <1>3, <1>4
<1> HIDE DEF new, n, T
<1>10. ASSUME NEW k \in 1..n
       PROVE  new[k] = new[k - 1] + 1 + Len(T[k].body)
  <2>1. CASE k = n
    <3>1. k - 1 = Len(S)
      BY <1>1, <2>1 DEF n
    <3> QED  BY <1>1, <1>2, <1>7, <1>8, <2>1, <3>1
  <2>2. CASE k # n
    <3>1. k \in 1..Len(S) /\ k \in 0..Len(S) /\ k - 1 \in 0..Len(S)
      BY <1>1, <2>2 DEF n
    <3> QED  BY <1>2, <1>5, <1>7, <3>1
  <2> QED  BY <2>1, <2>2
<1>11. ASSUME NEW i \in 0..n, NEW j \in 0..n, i < j
       PROVE  new[i] < new[j]
  <2>1. i \in 0..Len(S)
    BY <1>1, <1>11 DEF n
  <2>2. CASE j = n
    <3>1. off[i] <= off[Len(S)] /\ off[i] \in Nat
      BY <1>1, <1>4, <1>6, <2>1
    <3>2. new[i] = off[i] /\ new[j] = off[Len(S)] + 1 + Len(m.body)
      BY <1>7, <1>8, <2>1, <2>2
    <3> QED  BY <1>3, <1>4, <3>1, <3>2
  <2>3. CASE j # n
    <3>1. j \in 0..Len(S)
      BY <1>1, <2>3 DEF n
    <3> QED  BY <1>6, <1>7, <1>11, <2>1, <3>1
  <2> QED  BY <2>2, <2>3
<1>12. new[0] = 1
  BY <1>1, <1>4, <1>7
<1>13. new \in Offsets(T)
  BY <1>2, <1>9, <1>10, <1>11, <1>12 DEF Offsets
<1> QED  BY <1>7, <1>13 DEF T

\* A message given to Send lengthens the stream and changes none of its cells.
LEMMA HoldsExtended ==
    ASSUME NEW S \in Seq(SendMsgs), NEW off \in Offsets(S), NEW m \in SendMsgs,
           NEW new \in Offsets(Append(S, m)), \A k \in 0..Len(S) : new[k] = off[k],
           NEW R \in Nat, NEW cells \in Seq(Cells), Holds(S, off, R, cells)
    PROVE  Holds(Append(S, m), new, R, cells)
<1> DEFINE T == Append(S, m)
           n == Len(S) + 1
<1>1. Len(S) \in Nat /\ Len(S) \in 0..Len(S) /\ Len(cells) \in Nat
  BY SentType
<1>2. Len(T) = n /\ T[n] = m /\ \A k \in 1..Len(S) : T[k] = S[k]
  OBVIOUS
<1>3. T \in Seq(SendMsgs)
  OBVIOUS
<1> HIDE DEF T
<1>4. new[Len(S)] = off[Len(S)] /\ off[Len(S)] \in Nat
  BY <1>1, OffsetsType
<1>5. new[Len(S)] < new[n] /\ new[n] \in Nat
  <2>1. Len(S) \in 0..Len(T) /\ n \in 0..Len(T) /\ Len(S) < n
    BY <1>1, <1>2
  <2>2. new \in Offsets(T)
    BY DEF T
  <2> QED  BY <1>3, <2>1, <2>2, OffsetsType
<1>6. R + Len(cells) <= off[Len(S)]
  BY DEF Holds
<1>7. R + Len(cells) <= new[Len(T)]
  BY <1>1, <1>2, <1>4, <1>5, <1>6
<1>8. ASSUME NEW i \in 1..Len(cells), NEW k \in 1..Len(T), NEW j \in 0..Len(T[k].body),
             R + i = new[k - 1] + 1 + j
      PROVE  cells[i] = Cell(T[k], j)
  <2>1. CASE k = n
    <3>1. k - 1 = Len(S) /\ j >= 0 /\ j \in Int
      BY <1>1, <2>1
    <3>2. R + i = off[Len(S)] + 1 + j
      BY <1>4, <1>8, <3>1
    <3> QED  BY <1>1, <1>4, <1>6, <3>1, <3>2
  <2>2. CASE k # n
    <3>1. k \in 1..Len(S) /\ k - 1 \in 0..Len(S)
      BY <1>1, <1>2, <2>2
    <3>2. T[k] = S[k] /\ new[k - 1] = off[k - 1]
      BY <1>2, <3>1
    <3>3. j \in 0..Len(S[k].body) /\ R + i = off[k - 1] + 1 + j
      BY <1>8, <3>2
    <3>4. cells[i] = Cell(S[k], j)
      BY <3>1, <3>3 DEF Holds
    <3> QED  BY <3>2, <3>4
  <2> QED  BY <2>1, <2>2
<1>9. Holds(T, new, R, cells)
  BY <1>7, <1>8 DEF Holds
<1> QED  BY <1>9 DEF T

\* A reader between two messages finds a header.
LEMMA FindsHeader ==
    ASSUME NEW S \in Seq(SendMsgs), NEW off \in Offsets(S), NEW R \in Nat,
           NEW cells \in Seq(Cells), Holds(S, off, R, cells), cells # <<>>,
           NEW r \in 0..Len(S), R = off[r]
    PROVE  r < Len(S) /\ Head(cells) = Header(S[r + 1])
<1>1. Len(S) \in Nat /\ Len(cells) \in Nat /\ 1 \in 1..Len(cells) /\ Head(cells) = cells[1]
  BY SentType
<1>2. R + Len(cells) <= off[Len(S)]
  BY DEF Holds
<1>3. off[Len(S)] \in Nat
  BY <1>1, OffsetsType
<1>4. r # Len(S)
  BY <1>1, <1>2, <1>3
<1>5. r + 1 \in 1..Len(S) /\ (r + 1) - 1 = r /\ 0 \in 0..Len(S[r + 1].body)
  BY <1>1, <1>4, SentType
<1>6. R + 1 = off[(r + 1) - 1] + 1 + 0
  BY <1>5
<1>7. cells[1] = Cell(S[r + 1], 0)
  BY <1>1, <1>5, <1>6 DEF Holds
<1> QED  BY <1>1, <1>4, <1>7 DEF Cell

\* Behind it, it finds the body.
LEMMA FindsBody ==
    ASSUME NEW S \in Seq(SendMsgs), NEW off \in Offsets(S), NEW R \in Nat,
           NEW cells \in Seq(Cells), Holds(S, off, R, cells),
           NEW r \in 0..(Len(S) - 1), R = off[r] + 1,
           NEW n \in 0..Len(cells), n <= Len(S[r + 1].body)
    PROVE  \A j \in 1..n : cells[j] = S[r + 1].body[j]
<1> SUFFICES ASSUME NEW j \in 1..n PROVE cells[j] = S[r + 1].body[j]
  OBVIOUS
<1>1. Len(S) \in Nat /\ Len(cells) \in Nat /\ r + 1 \in 1..Len(S) /\ Len(S[r + 1].body) \in Nat
  BY SentType
<1>2. j \in 0..Len(S[r + 1].body) /\ j \in 1..Len(cells) /\ j # 0
  BY <1>1
<1>3. off[r] \in Nat /\ (r + 1) - 1 = r
  BY OffsetsAt
<1>4. R + j = off[(r + 1) - 1] + 1 + j
  BY <1>3
<1>5. cells[j] = Cell(S[r + 1], j)
  BY <1>1, <1>2, <1>4 DEF Holds
<1> QED  BY <1>2, <1>5 DEF Cell

----------------------------------------------------------------------------
(* The queues of the writer *)

\* No message is taken for the lambda of Disconnect.
LEMMA NotClose ==
    ASSUME NEW m, m \in SendMsgs \/ m \in Messages
    PROVE  m # CloseSocket
  BY ConnectionAssumption DEF SendMsgs, Messages, CloseSocket

\* Send posts the next message of the stream.
LEMMA OutgoingPosted ==
    ASSUME NEW S \in Seq(SendMsgs), NEW w \in 0..Len(S), NEW m \in SendMsgs,
           NEW posted \in Seq(Messages \cup {CloseSocket}), NEW qOut \in Seq(Messages),
           Outgoing(S, w, posted, qOut), Complete(S, w, posted, qOut)
    PROVE  /\ Outgoing(Append(S, m), w, Append(posted, m), qOut)
           /\ Complete(Append(S, m), w, Append(posted, m), qOut)
<1> DEFINE T == Append(S, m)
           P == Append(posted, m)
<1>1. Len(S) \in Nat /\ Len(posted) \in Nat /\ Len(qOut) \in Nat
  OBVIOUS
<1>2. Len(T) = Len(S) + 1 /\ Len(P) = Len(posted) + 1
  OBVIOUS
<1>3. (\A i \in 1..Len(S) : T[i] = S[i]) /\ (\A i \in 1..Len(posted) : P[i] = posted[i])
  OBVIOUS
<1>4. T[Len(S) + 1] = m /\ P[Len(posted) + 1] = m
  OBVIOUS
<1> HIDE DEF T, P
<1>5. w + Len(qOut) <= Len(S) /\ w + Len(qOut) + Len(posted) = Len(S)
  BY DEF Outgoing, Complete
<1>6. ASSUME NEW i \in 1..Len(qOut) PROVE qOut[i] = T[w + i]
  <2>1. w + i \in 1..Len(S)
    BY <1>1, <1>5
  <2> QED  BY <1>3, <2>1 DEF Outgoing
<1>7. ASSUME NEW i \in 1..Len(P)
      PROVE  P[i] # CloseSocket /\ w + Len(qOut) + i <= Len(T) /\ P[i] = T[w + Len(qOut) + i]
  <2>1. CASE i = Len(posted) + 1
    <3>1. w + Len(qOut) + i = Len(S) + 1
      BY <1>1, <1>5, <2>1
    <3> QED  BY <1>1, <1>2, <1>4, <2>1, <3>1, NotClose
  <2>2. CASE i # Len(posted) + 1
    <3>1. i \in 1..Len(posted) /\ w + Len(qOut) + i \in 1..Len(S)
      BY <1>1, <1>2, <1>5, <2>2
    <3>2. posted[i] # CloseSocket /\ posted[i] = S[w + Len(qOut) + i]
      BY <3>1 DEF Outgoing, Complete
    <3> QED  BY <1>1, <1>2, <1>3, <3>1, <3>2
  <2> QED  BY <2>1, <2>2
<1>8. w + Len(qOut) <= Len(T) /\ w + Len(qOut) + Len(P) = Len(T)
  BY <1>1, <1>2, <1>5
<1>9. Outgoing(T, w, P, qOut) /\ Complete(T, w, P, qOut)
  BY <1>6, <1>7, <1>8 DEF Outgoing, Complete
<1> QED  BY <1>9 DEF T, P

\* Its lambda moves it from the posted ones to m_qMessagesOut.
LEMMA OutgoingSent ==
    ASSUME NEW S \in Seq(SendMsgs), NEW w \in 0..Len(S),
           NEW posted \in Seq(Messages \cup {CloseSocket}), NEW qOut \in Seq(Messages),
           Outgoing(S, w, posted, qOut), posted # <<>>, Head(posted) # CloseSocket
    PROVE  /\ Outgoing(S, w, Tail(posted), Append(qOut, Head(posted)))
           /\ Complete(S, w, posted, qOut) => Complete(S, w, Tail(posted), Append(qOut, Head(posted)))
<1> DEFINE P == Tail(posted)
           Q == Append(qOut, Head(posted))
<1>1. Len(S) \in Nat /\ Len(posted) \in Nat /\ Len(qOut) \in Nat /\ Len(posted) > 0
  OBVIOUS
<1>2. Len(P) = Len(posted) - 1 /\ Len(Q) = Len(qOut) + 1
  OBVIOUS
<1>3. (\A i \in 1..Len(P) : P[i] = posted[i + 1]) /\ (\A i \in 1..Len(qOut) : Q[i] = qOut[i])
  OBVIOUS
<1>4. Q[Len(qOut) + 1] = posted[1] /\ posted[1] # CloseSocket
  OBVIOUS
<1> HIDE DEF P, Q
<1>5. 1 \in 1..Len(posted)
  BY <1>1
<1>6. w + Len(qOut) + 1 <= Len(S) /\ posted[1] = S[w + Len(qOut) + 1]
  BY <1>4, <1>5 DEF Outgoing
<1>7. ASSUME NEW i \in 1..Len(Q) PROVE Q[i] = S[w + i]
  <2>1. CASE i = Len(qOut) + 1
    <3>1. w + i = w + Len(qOut) + 1
      BY <1>1, <2>1
    <3> QED  BY <1>4, <1>6, <2>1, <3>1
  <2>2. CASE i # Len(qOut) + 1
    <3>1. i \in 1..Len(qOut)
      BY <1>1, <1>2, <2>2
    <3> QED  BY <1>3, <3>1 DEF Outgoing
  <2> QED  BY <2>1, <2>2
<1>8. ASSUME NEW i \in 1..Len(P)
      PROVE  IF P[i] = CloseSocket THEN i = Len(P)
             ELSE w + Len(Q) + i <= Len(S) /\ P[i] = S[w + Len(Q) + i]
  <2>1. i + 1 \in 1..Len(posted) /\ P[i] = posted[i + 1] /\ w + Len(Q) + i = w + Len(qOut) + (i + 1)
    BY <1>1, <1>2, <1>3, SMTT(60)
  <2>2. i + 1 = Len(posted) => i = Len(P)
    BY <1>1, <1>2
  <2>3. IF posted[i + 1] = CloseSocket THEN i + 1 = Len(posted)
        ELSE w + Len(qOut) + (i + 1) <= Len(S) /\ posted[i + 1] = S[w + Len(qOut) + (i + 1)]
    BY <2>1 DEF Outgoing
  <2> QED  BY <2>1, <2>2, <2>3
<1>9. w + Len(Q) <= Len(S)
  BY <1>1, <1>2, <1>6
<1>10. Outgoing(S, w, P, Q)
  BY <1>7, <1>8, <1>9 DEF Outgoing
<1>11. ASSUME Complete(S, w, posted, qOut) PROVE Complete(S, w, P, Q)
  <2>1. w + Len(Q) + Len(P) = Len(S)
    <3>1. w + Len(qOut) + Len(posted) = Len(S)
      BY <1>11 DEF Complete
    <3> QED  BY <1>1, <1>2, <3>1
  <2>2. \A i \in 1..Len(P) : P[i] # CloseSocket
    <3> SUFFICES ASSUME NEW i \in 1..Len(P) PROVE P[i] # CloseSocket
      OBVIOUS
    <3>1. i + 1 \in 1..Len(posted) /\ P[i] = posted[i + 1]
      BY <1>1, <1>2, <1>3
    <3> QED  BY <1>11, <3>1 DEF Complete
  <2> QED  BY <2>1, <2>2 DEF Complete
<1> QED  BY <1>10, <1>11 DEF P, Q

\* PopFront, when the message is written.
LEMMA OutgoingPopped ==
    ASSUME NEW S \in Seq(SendMsgs), NEW w \in 0..Len(S),
           NEW posted \in Seq(Messages \cup {CloseSocket}), NEW qOut \in Seq(Messages),
           Outgoing(S, w, posted, qOut), qOut # <<>>
    PROVE  /\ w + 1 \in 0..Len(S) /\ w \in 0..(Len(S) - 1) /\ Head(qOut) = S[w + 1]
           /\ Outgoing(S, w + 1, posted, Tail(qOut))
           /\ Complete(S, w, posted, qOut) => Complete(S, w + 1, posted, Tail(qOut))
<1> DEFINE Q == Tail(qOut)
<1>1. Len(S) \in Nat /\ Len(posted) \in Nat /\ Len(qOut) \in Nat /\ Len(qOut) > 0
  OBVIOUS
<1>2. Len(Q) = Len(qOut) - 1 /\ Head(qOut) = qOut[1]
  OBVIOUS
<1>3. \A i \in 1..Len(Q) : Q[i] = qOut[i + 1]
  OBVIOUS
<1> HIDE DEF Q
<1>4. w + Len(qOut) <= Len(S) /\ 1 \in 1..Len(qOut)
  BY <1>1 DEF Outgoing
<1>5. w + 1 \in 0..Len(S) /\ w \in 0..(Len(S) - 1) /\ w + 1 + Len(Q) = w + Len(qOut)
  BY <1>1, <1>2, <1>4
<1>6. Head(qOut) = S[w + 1]
  BY <1>2, <1>4 DEF Outgoing
<1>7. ASSUME NEW i \in 1..Len(Q) PROVE Q[i] = S[(w + 1) + i]
  <2>1. i + 1 \in 1..Len(qOut) /\ w + (i + 1) = (w + 1) + i
    BY <1>1, <1>2
  <2>2. qOut[i + 1] = S[w + (i + 1)]
    BY <2>1 DEF Outgoing
  <2> QED  BY <1>3, <2>1, <2>2
<1>8. \A i \in 1..Len(posted) :
         IF posted[i] = CloseSocket THEN i = Len(posted)
         ELSE w + Len(qOut) + i <= Len(S) /\ posted[i] = S[w + Len(qOut) + i]
  BY DEF Outgoing
<1>9. (w + 1) + Len(Q) <= Len(S)
  BY <1>4, <1>5
<1>10. Outgoing(S, w + 1, posted, Q)
  BY <1>5, <1>7, <1>8, <1>9 DEF Outgoing
<1>11. Complete(S, w, posted, qOut) => Complete(S, w + 1, posted, Q)
  BY <1>5 DEF Complete
<1> QED  BY <1>5, <1>6, <1>10, <1>11 DEF Q

\* The lambda of Disconnect is posted, and is the last one to run.
LEMMA OutgoingClosing ==
    ASSUME NEW S \in Seq(SendMsgs), NEW w \in 0..Len(S),
           NEW posted \in Seq(Messages \cup {CloseSocket}), NEW qOut \in Seq(Messages),
           Outgoing(S, w, posted, qOut)
    PROVE  /\ Complete(S, w, posted, qOut) => Outgoing(S, w, Append(posted, CloseSocket), qOut)
           /\ posted # <<>> /\ Head(posted) = CloseSocket =>
                Tail(posted) = <<>> /\ Outgoing(S, w, Tail(posted), qOut)
                                    /\ ~Complete(S, w, posted, qOut)
<1>1. Len(S) \in Nat /\ Len(posted) \in Nat /\ Len(qOut) \in Nat
  OBVIOUS
<1>2. ASSUME Complete(S, w, posted, qOut) PROVE Outgoing(S, w, Append(posted, CloseSocket), qOut)
  <2> DEFINE P == Append(posted, CloseSocket)
  <2>1. Len(P) = Len(posted) + 1 /\ \A i \in 1..Len(posted) : P[i] = posted[i]
    OBVIOUS
  <2>2. P[Len(posted) + 1] = CloseSocket
    OBVIOUS
  <2> HIDE DEF P
  <2>3. ASSUME NEW i \in 1..Len(P)
        PROVE  IF P[i] = CloseSocket THEN i = Len(P)
               ELSE w + Len(qOut) + i <= Len(S) /\ P[i] = S[w + Len(qOut) + i]
    <3>1. CASE i = Len(P)
      BY <1>1, <2>1, <2>2, <3>1
    <3>2. CASE i # Len(P)
      <4>1. i \in 1..Len(posted) /\ P[i] = posted[i]
        BY <1>1, <2>1, <3>2
      <4> QED  BY <1>2, <4>1 DEF Outgoing, Complete
    <3> QED  BY <3>1, <3>2
  <2>4. Outgoing(S, w, P, qOut)
    BY <2>3 DEF Outgoing
  <2> QED  BY <2>4 DEF P
<1>3. ASSUME posted # <<>>, Head(posted) = CloseSocket
      PROVE  Tail(posted) = <<>> /\ Outgoing(S, w, Tail(posted), qOut) /\ ~Complete(S, w, posted, qOut)
  <2>1. 1 \in 1..Len(posted) /\ posted[1] = CloseSocket
    BY <1>3
  <2>2. Len(posted) = 1
    BY <2>1 DEF Outgoing
  <2>3. Tail(posted) = <<>> /\ Len(Tail(posted)) = 0
    <3>1. Tail(posted) \in Seq(Messages \cup {CloseSocket}) /\ Len(Tail(posted)) = Len(posted) - 1
      BY <1>3, HeadTailProperties
    <3>2. Len(Tail(posted)) = 0
      BY <2>2, <3>1
    <3> QED  BY <3>1, <3>2, EmptySeq
  <2> QED  BY <2>1, <2>3 DEF Outgoing, Complete
<1> QED  BY <1>2, <1>3

----------------------------------------------------------------------------
(* Links *)

\* What Linked says exists.
LEMMA Linkage ==
    ASSUME NEW S \in Seq(SendMsgs), NEW cells \in Seq(Cells),
           NEW c, NEW d, NEW more, NEW silent, NEW expecting, NEW listening, NEW clean,
           Linked(S, cells, c, d, more, silent, expecting, listening, clean)
    PROVE  \E off \in Offsets(S), w \in 0..Len(S), R \in Nat :
              /\ R \in 0..off[Len(S)]
              /\ Fits(S, cells, c, d, more, silent, expecting, listening, clean, off, w, R)
<1>1. PICK off \in Offsets(S) : \E w \in 0..Len(S), R \in 0..off[Len(S)] :
        Fits(S, cells, c, d, more, silent, expecting, listening, clean, off, w, R)
  BY DEF Linked
<1>2. PICK w \in 0..Len(S), R \in 0..off[Len(S)] :
        Fits(S, cells, c, d, more, silent, expecting, listening, clean, off, w, R)
  BY <1>1
<1>3. R \in Nat
  BY <1>2
<1> QED  BY <1>1, <1>2, <1>3

\* The end of what the wire holds is within the stream.
LEMMA Within ==
    ASSUME NEW S \in Seq(SendMsgs), NEW off \in Offsets(S), NEW R \in Nat,
           NEW cells \in Seq(Cells), Holds(S, off, R, cells)
    PROVE  R \in 0..off[Len(S)]
<1>1. Len(cells) \in Nat /\ Len(S) \in 0..Len(S)
  BY SentType
<1>2. off[Len(S)] \in Nat
  BY <1>1, OffsetsType
<1>3. R + Len(cells) <= off[Len(S)]
  BY DEF Holds
<1> QED  BY <1>1, <1>2, <1>3

\* What an operation that neither writes nor reads cells may change.
LEMMA LinkKept ==
    ASSUME NEW S \in Seq(SendMsgs), NEW cells \in Seq(Cells),
           NEW c, NEW d, NEW more, NEW silent, NEW expecting, NEW listening, NEW clean,
           NEW c2, NEW d2, NEW more2, NEW silent2, NEW expecting2, NEW listening2,
           Linked(S, cells, c, d, more, silent, expecting, listening, clean),
           c2.posted = c.posted, c2.qOut = c.qOut, d2.qIn = d.qIn,
           c2.open => c.open /\ c2.writing = c.writing /\ (silent2 <=> silent),
           d2.reading = "body" => d.reading = "body" /\ d2.msgIn = d.msgIn,
           more2 => more, expecting2 => expecting, listening2 => listening
    PROVE  Linked(S, cells, c2, d2, more2, silent2, expecting2, listening2, clean)
<1>1. PICK off \in Offsets(S), w \in 0..Len(S), R \in Nat :
        /\ R \in 0..off[Len(S)]
        /\ Fits(S, cells, c, d, more, silent, expecting, listening, clean, off, w, R)
  BY Linkage
<1>2. Outgoing(S, w, c2.posted, c2.qOut) /\ (more2 => Complete(S, w, c2.posted, c2.qOut))
  BY <1>1 DEF Fits
<1>3. clean => (c2.open => R + Len(cells) = IF silent2 THEN 0 ELSE Reached(off, w, c2.writing))
  BY <1>1 DEF Fits, Placed
<1>4. clean /\ AllWellFormed(S) => Reads(S, off, R, listening2, d2.reading, d2.msgIn, d2.qIn)
  BY <1>1 DEF Fits, Placed, Reads
<1>5. clean => Holds(S, off, R, cells) /\ (expecting2 => R = 0)
  BY <1>1 DEF Fits, Placed
<1>6. Fits(S, cells, c2, d2, more2, silent2, expecting2, listening2, clean, off, w, R)
  BY <1>2, <1>3, <1>4, <1>5 DEF Fits, Placed
<1> QED  BY <1>1, <1>6 DEF Linked

\* The same, where nothing else changes either.
LEMMA LinkSame ==
    ASSUME NEW S \in Seq(SendMsgs), NEW cells \in Seq(Cells),
           NEW c, NEW d, NEW more, NEW silent, NEW expecting, NEW listening, NEW clean, NEW c2, NEW d2,
           Linked(S, cells, c, d, more, silent, expecting, listening, clean),
           c2.posted = c.posted, c2.qOut = c.qOut, d2.qIn = d.qIn,
           c2.open => c.open /\ c2.writing = c.writing,
           d2.reading = "body" => d.reading = "body" /\ d2.msgIn = d.msgIn
    PROVE  Linked(S, cells, c2, d2, more, silent, expecting, listening, clean)
  BY LinkKept

\* Send posts a message.
LEMMA LinkPosted ==
    ASSUME NEW S \in Seq(SendMsgs), NEW cells \in Seq(Cells), NEW m \in SendMsgs,
           NEW c \in Connections, NEW d \in Connections,
           NEW silent, NEW expecting, NEW listening, NEW clean,
           Linked(S, cells, c, d, TRUE, silent, expecting, listening, clean),
           c.writing # "idle" => c.qOut # <<>>,
           NEW c2, c2.posted = Append(c.posted, m), c2.qOut = c.qOut, c2.open = c.open, c2.writing = c.writing
    PROVE  Linked(Append(S, m), cells, c2, d, TRUE, silent, expecting, listening, clean)
<1> DEFINE T == Append(S, m)
<1>1. PICK off \in Offsets(S), w \in 0..Len(S), R \in Nat :
        /\ R \in 0..off[Len(S)]
        /\ Fits(S, cells, c, d, TRUE, silent, expecting, listening, clean, off, w, R)
  BY Linkage
<1>2. PICK new \in Offsets(T) : \A k \in 0..Len(S) : new[k] = off[k]
  BY OffsetsExtended
<1>3. /\ Len(S) \in Nat /\ Len(T) = Len(S) + 1 /\ T \in Seq(SendMsgs) /\ w \in 0..Len(T)
      /\ \A k \in 1..Len(S) : T[k] = S[k]
  BY SentType
<1>4. clean => Holds(T, new, R, cells)
  BY <1>1, <1>2, HoldsExtended DEF Fits, Placed
<1>5. Outgoing(T, w, c2.posted, c2.qOut) /\ Complete(T, w, c2.posted, c2.qOut)
  <2>1. c.posted \in Seq(Messages \cup {CloseSocket}) /\ c.qOut \in Seq(Messages)
    BY DEF Connections
  <2>2. Outgoing(S, w, c.posted, c.qOut) /\ Complete(S, w, c.posted, c.qOut)
    BY <1>1 DEF Fits
  <2> QED  BY <2>1, <2>2, OutgoingPosted
<1> HIDE DEF T
<1>6. Reached(new, w, c.writing) = Reached(off, w, c.writing)
  <2>1. w + Len(c.qOut) <= Len(S)
    BY <1>1 DEF Fits, Outgoing
  <2>2. c.qOut \in Seq(Messages) /\ c.writing \in {"idle", "header", "body"}
    BY DEF Connections
  <2>3. c.writing # "idle" => w + 1 \in 0..Len(S)
    BY <1>3, <2>1, <2>2
  <2>4. new[w] = off[w] /\ (c.writing # "idle" => new[w + 1] = off[w + 1])
    BY <1>2, <2>3
  <2> QED  BY <2>2, <2>4 DEF Reached
<1>7. ASSUME clean, AllWellFormed(T) PROVE Reads(T, new, R, listening, d.reading, d.msgIn, d.qIn)
  <2>1. AllWellFormed(S)
    <3>1. \A i \in DOMAIN S : i \in DOMAIN T /\ T[i] = S[i]
      BY <1>3
    <3> QED  BY <1>7, <3>1 DEF AllWellFormed
  <2>2. Reads(S, off, R, listening, d.reading, d.msgIn, d.qIn)
    BY <1>1, <1>7, <2>1 DEF Fits, Placed
  <2>3. Len(d.qIn) <= Len(S) /\ \A i \in 1..Len(d.qIn) : Seen(d.qIn[i]) = S[i]
    BY <2>2 DEF Reads
  <2>4. Len(d.qIn) \in Nat
    BY DEF Connections
  <2>5. Len(d.qIn) <= Len(T) /\ \A i \in 1..Len(d.qIn) : Seen(d.qIn[i]) = T[i]
    BY <1>3, <2>3, <2>4
  <2>6. Len(d.qIn) \in 0..Len(S)
    BY <1>3, <2>3, <2>4
  <2>7. listening => R = new[Len(d.qIn)]
    BY <1>2, <2>2, <2>6 DEF Reads
  <2>8. ASSUME d.reading = "body"
        PROVE  /\ Len(d.qIn) < Len(T) /\ R = new[Len(d.qIn)] + 1
               /\ d.msgIn.id = T[Len(d.qIn) + 1].id /\ d.msgIn.size = T[Len(d.qIn) + 1].size
    <3>1. /\ Len(d.qIn) < Len(S) /\ R = off[Len(d.qIn)] + 1
          /\ d.msgIn.id = S[Len(d.qIn) + 1].id /\ d.msgIn.size = S[Len(d.qIn) + 1].size
      BY <2>2, <2>8 DEF Reads
    <3>2. Len(d.qIn) + 1 \in 1..Len(S)
      BY <1>3, <2>4, <3>1
    <3> QED  BY <1>2, <1>3, <2>4, <2>6, <3>1, <3>2
  <2> QED  BY <2>5, <2>7, <2>8 DEF Reads
<1>8. Fits(T, cells, c2, d, TRUE, silent, expecting, listening, clean, new, w, R)
  BY <1>1, <1>4, <1>5, <1>6, <1>7 DEF Fits, Placed
<1>9. R \in 0..new[Len(T)]
  <2>1. /\ R <= off[Len(S)] /\ off[Len(S)] \in Nat /\ new[Len(S)] = off[Len(S)]
        /\ new[Len(T)] \in Nat /\ new[Len(S)] < new[Len(T)]
    <3>1. Len(S) \in 0..Len(S) /\ Len(S) \in 0..Len(T) /\ Len(T) \in 0..Len(T) /\ Len(S) < Len(T)
      BY <1>3
    <3>2. off[Len(S)] \in Nat
      BY <3>1, OffsetsType
    <3>3. new[Len(T)] \in Nat /\ new[Len(S)] < new[Len(T)]
      BY <1>2, <1>3, <3>1, OffsetsType
    <3> QED  BY <1>1, <1>2, <3>1, <3>2, <3>3
  <2> QED  BY <1>1, <2>1
<1> QED  BY <1>2, <1>3, <1>8, <1>9 DEF Linked, T

\* The lambda that Send posted runs.
LEMMA LinkSent ==
    ASSUME NEW S \in Seq(SendMsgs), NEW cells \in Seq(Cells),
           NEW c \in Connections, NEW d, NEW more, NEW silent, NEW expecting, NEW listening, NEW clean,
           Linked(S, cells, c, d, more, silent, expecting, listening, clean),
           c.posted # <<>>, Head(c.posted) # CloseSocket, c.open => ~silent,
           c.writing # "idle" => c.qOut # <<>>,
           NEW c2, c2.posted = Tail(c.posted), c2.qOut = Append(c.qOut, Head(c.posted)),
           c2.open = c.open, c2.writing = IF c.qOut = <<>> THEN "header" ELSE c.writing,
           NEW cells2,
           cells2 = IF c.open /\ c.qOut = <<>> THEN cells \o <<Header(Head(c.posted))>> ELSE cells
    PROVE  Linked(S, cells2, c2, d, more, silent, expecting, listening, clean)
<1>1. PICK off \in Offsets(S), w \in 0..Len(S), R \in Nat :
        /\ R \in 0..off[Len(S)]
        /\ Fits(S, cells, c, d, more, silent, expecting, listening, clean, off, w, R)
  BY Linkage
<1>2. c.posted \in Seq(Messages \cup {CloseSocket}) /\ c.qOut \in Seq(Messages)
  BY DEF Connections
<1>3. /\ Outgoing(S, w, c2.posted, c2.qOut)
      /\ more => Complete(S, w, c2.posted, c2.qOut)
  BY <1>1, <1>2, OutgoingSent DEF Fits
<1>4. CASE clean /\ c.open /\ c.qOut = <<>>
  <2>1. c.writing = "idle" /\ ~silent /\ c2.writing = "header"
    BY <1>4
  <2>2. R + Len(cells) = off[w]
    BY <1>1, <1>4, <2>1 DEF Fits, Placed, Reached
  <2>3. w \in 0..(Len(S) - 1) /\ Head(c.posted) = S[w + 1]
    <3>1. 1 \in 1..Len(c.posted) /\ Head(c.posted) = c.posted[1] /\ Len(c.qOut) = 0
      BY <1>2, <1>4
    <3>2. w + Len(c.qOut) + 1 <= Len(S) /\ c.posted[1] = S[w + Len(c.qOut) + 1]
      BY <1>1, <3>1 DEF Fits, Outgoing
    <3>3. Len(S) \in Nat /\ w + Len(c.qOut) + 1 = w + 1
      BY <3>1
    <3> QED  BY <3>1, <3>2, <3>3
  <2>4. cells2 = cells \o <<Header(S[w + 1])>>
    BY <1>4, <2>3
  <2>5. Holds(S, off, R, cells2)
    BY <1>1, <1>4, <2>2, <2>3, <2>4, HoldsHeader DEF Fits, Placed
  <2>6. R + Len(cells2) = off[w] + 1
    <3>1. Len(cells2) = Len(cells) + 1 /\ Len(cells) \in Nat
      BY <2>4
    <3> QED  BY <2>2, <3>1
  <2>7. Fits(S, cells2, c2, d, more, silent, expecting, listening, clean, off, w, R)
    BY <1>1, <1>3, <1>4, <2>1, <2>5, <2>6 DEF Fits, Placed, Reached
  <2> QED  BY <1>1, <2>7 DEF Linked
<1>5. CASE ~(clean /\ c.open /\ c.qOut = <<>>)
  <2>1. Fits(S, cells2, c2, d, more, silent, expecting, listening, clean, off, w, R)
    BY <1>1, <1>3, <1>5 DEF Fits, Placed
  <2> QED  BY <1>1, <2>1 DEF Linked
<1> QED  BY <1>4, <1>5

\* A header is written and a body follows it.
LEMMA LinkBody ==
    ASSUME NEW S \in Seq(SendMsgs), NEW cells \in Seq(Cells),
           NEW c \in Connections, NEW d, NEW more, NEW silent, NEW expecting, NEW listening, NEW clean,
           Linked(S, cells, c, d, more, silent, expecting, listening, clean),
           c.writing = "header", c.qOut # <<>>, c.open => ~silent,
           NEW c2, c2.posted = c.posted, c2.qOut = c.qOut, c2.open = c.open, c2.writing = "body",
           NEW cells2, cells2 = IF c.open THEN cells \o Head(c.qOut).body ELSE cells
    PROVE  Linked(S, cells2, c2, d, more, silent, expecting, listening, clean)
<1>1. PICK off \in Offsets(S), w \in 0..Len(S), R \in Nat :
        /\ R \in 0..off[Len(S)]
        /\ Fits(S, cells, c, d, more, silent, expecting, listening, clean, off, w, R)
  BY Linkage
<1>2. c.posted \in Seq(Messages \cup {CloseSocket}) /\ c.qOut \in Seq(Messages)
  BY DEF Connections
<1>3. w \in 0..(Len(S) - 1) /\ Head(c.qOut) = S[w + 1]
  BY <1>1, <1>2, OutgoingPopped DEF Fits
<1>4. CASE clean /\ c.open
  <2>1. R + Len(cells) = off[w] + 1
    BY <1>1, <1>4 DEF Fits, Placed, Reached
  <2>2. cells2 = cells \o S[w + 1].body
    BY <1>3, <1>4
  <2>3. Holds(S, off, R, cells2) /\ R + Len(cells2) = off[w + 1]
    BY <1>1, <1>3, <1>4, <2>1, <2>2, HoldsBody DEF Fits, Placed
  <2>4. Fits(S, cells2, c2, d, more, silent, expecting, listening, clean, off, w, R)
    BY <1>1, <1>4, <2>3 DEF Fits, Placed, Reached
  <2> QED  BY <1>1, <2>4 DEF Linked
<1>5. CASE ~(clean /\ c.open)
  <2>1. Fits(S, cells2, c2, d, more, silent, expecting, listening, clean, off, w, R)
    BY <1>1, <1>5 DEF Fits, Placed
  <2> QED  BY <1>1, <2>1 DEF Linked
<1> QED  BY <1>4, <1>5

\* A message is written: PopFront, and the header of the next one.
LEMMA LinkNext ==
    ASSUME NEW S \in Seq(SendMsgs), NEW cells \in Seq(Cells),
           NEW c \in Connections, NEW d, NEW more, NEW expecting, NEW listening, NEW clean,
           Linked(S, cells, c, d, more, FALSE, expecting, listening, clean),
           NEW m, m = Head(c.qOut), c.writing # "idle", c.writing = "header" => m.body = <<>>,
           c.qOut # <<>>,
           NEW rest, rest = Tail(c.qOut),
           NEW c2, c2.posted = c.posted, c2.qOut = rest, c2.open = c.open,
           rest = <<>> => c2.writing = "idle", rest # <<>> => c2.writing = "header",
           NEW cells2,
           c.open /\ rest # <<>> => cells2 = cells \o <<Header(Head(rest))>>,
           ~c.open \/ rest = <<>> => cells2 = cells
    PROVE  Linked(S, cells2, c2, d, more, FALSE, expecting, listening, clean)
<1>1. PICK off \in Offsets(S), w \in 0..Len(S), R \in Nat :
        /\ R \in 0..off[Len(S)]
        /\ Fits(S, cells, c, d, more, FALSE, expecting, listening, clean, off, w, R)
  BY Linkage
<1>2. c.posted \in Seq(Messages \cup {CloseSocket}) /\ c.qOut \in Seq(Messages)
  BY DEF Connections
<1>3. /\ w + 1 \in 0..Len(S) /\ w \in 0..(Len(S) - 1) /\ Head(c.qOut) = S[w + 1]
      /\ Outgoing(S, w + 1, c2.posted, c2.qOut)
      /\ more => Complete(S, w + 1, c2.posted, c2.qOut)
  BY <1>1, <1>2, OutgoingPopped DEF Fits
<1>4. CASE clean /\ c.open
  <2>1. R + Len(cells) = off[w + 1]
    <3>1. CASE c.writing = "body"
      BY <1>1, <1>4, <3>1 DEF Fits, Placed, Reached
    <3>2. CASE c.writing = "header"
      <4>1. R + Len(cells) = off[w] + 1
        BY <1>1, <1>4, <3>2 DEF Fits, Placed, Reached
      <4>2. Len(S[w + 1].body) = 0
        <5>1. S[w + 1].body = <<>>
          BY <1>3, <3>2
        <5> QED  BY <5>1
      <4>3. off[w + 1] = off[w] + 1 + Len(S[w + 1].body) /\ off[w] \in Nat
        BY <1>3, OffsetsAt
      <4> QED  BY <4>1, <4>2, <4>3
    <3>3. c.writing \in {"idle", "header", "body"}
      BY DEF Connections
    <3> QED  BY <3>1, <3>2, <3>3
  <2>2. CASE Tail(c.qOut) = <<>>
    <3>1. Fits(S, cells2, c2, d, more, FALSE, expecting, listening, clean, off, w + 1, R)
      BY <1>1, <1>3, <1>4, <2>1, <2>2 DEF Fits, Placed, Reached
    <3> QED  BY <1>1, <1>3, <3>1 DEF Linked
  <2>3. CASE Tail(c.qOut) # <<>>
    <3>1. Tail(c.qOut) \in Seq(Messages)
      BY <1>2
    <3>2. w + 1 \in 0..(Len(S) - 1) /\ Head(Tail(c.qOut)) = S[(w + 1) + 1]
      BY <1>2, <1>3, <2>3, <3>1, OutgoingPopped
    <3>3. cells2 = cells \o <<Header(S[(w + 1) + 1])>>
      BY <1>4, <2>3, <3>2
    <3>4. Holds(S, off, R, cells2)
      BY <1>1, <1>4, <2>1, <3>2, <3>3, HoldsHeader DEF Fits, Placed
    <3>5. R + Len(cells2) = off[w + 1] + 1
      <4>1. Len(cells2) = Len(cells) + 1 /\ Len(cells) \in Nat
        BY <3>3
      <4>2. off[w + 1] \in Nat
        BY <1>3, OffsetsAt
      <4>3. R + Len(cells2) = (R + Len(cells)) + 1
        BY <4>1
      <4> QED  BY <2>1, <4>2, <4>3
    <3>6. Fits(S, cells2, c2, d, more, FALSE, expecting, listening, clean, off, w + 1, R)
      BY <1>1, <1>3, <1>4, <2>3, <3>4, <3>5 DEF Fits, Placed, Reached
    <3> QED  BY <1>1, <1>3, <3>6 DEF Linked
  <2> QED  BY <2>2, <2>3
<1>5. CASE ~(clean /\ c.open)
  <2>1. Fits(S, cells2, c2, d, more, FALSE, expecting, listening, clean, off, w + 1, R)
    BY <1>1, <1>3, <1>5 DEF Fits, Placed
  <2> QED  BY <1>1, <1>3, <2>1 DEF Linked
<1> QED  BY <1>4, <1>5

\* Disconnect posts its lambda: nothing can be sent any more.
LEMMA LinkClosing ==
    ASSUME NEW S \in Seq(SendMsgs), NEW cells \in Seq(Cells),
           NEW c \in Connections, NEW d, NEW silent, NEW expecting, NEW listening, NEW clean,
           Linked(S, cells, c, d, TRUE, silent, expecting, listening, clean),
           NEW c2, c2.qOut = c.qOut, c2.open = c.open, c2.writing = c.writing,
           c2.posted = Append(c.posted, CloseSocket)
    PROVE  Linked(S, cells, c2, d, FALSE, silent, expecting, listening, clean)
<1>1. PICK off \in Offsets(S), w \in 0..Len(S), R \in Nat :
        /\ R \in 0..off[Len(S)]
        /\ Fits(S, cells, c, d, TRUE, silent, expecting, listening, clean, off, w, R)
  BY Linkage
<1>2. c.posted \in Seq(Messages \cup {CloseSocket}) /\ c.qOut \in Seq(Messages)
  BY DEF Connections
<1>3. Outgoing(S, w, c2.posted, c2.qOut)
  BY <1>1, <1>2, OutgoingClosing DEF Fits
<1>4. Fits(S, cells, c2, d, FALSE, silent, expecting, listening, clean, off, w, R)
  BY <1>1, <1>3 DEF Fits, Placed
<1> QED  BY <1>1, <1>4 DEF Linked

\* The lambda of Disconnect runs.
LEMMA LinkClosed ==
    ASSUME NEW S \in Seq(SendMsgs), NEW cells \in Seq(Cells),
           NEW c \in Connections, NEW d, NEW more, NEW silent, NEW expecting, NEW listening, NEW clean,
           Linked(S, cells, c, d, more, silent, expecting, listening, clean),
           NEW c2, c2.qOut = c.qOut, ~c2.open,
           c.posted # <<>>, Head(c.posted) = CloseSocket, c2.posted = Tail(c.posted)
    PROVE  Linked(S, cells, c2, d, more, silent, expecting, listening, clean)
<1>1. PICK off \in Offsets(S), w \in 0..Len(S), R \in Nat :
        /\ R \in 0..off[Len(S)]
        /\ Fits(S, cells, c, d, more, silent, expecting, listening, clean, off, w, R)
  BY Linkage
<1>2. c.posted \in Seq(Messages \cup {CloseSocket}) /\ c.qOut \in Seq(Messages)
  BY DEF Connections
<1>3. Outgoing(S, w, c2.posted, c2.qOut) /\ ~more
  BY <1>1, <1>2, OutgoingClosing DEF Fits
<1>4. Fits(S, cells, c2, d, more, silent, expecting, listening, clean, off, w, R)
  BY <1>1, <1>3 DEF Fits, Placed
<1> QED  BY <1>1, <1>4 DEF Linked

\* The client answers: the first cell it writes.
LEMMA LinkAnswered ==
    ASSUME NEW c, NEW d, NEW more, NEW expecting, NEW listening, NEW clean,
           Linked(<<>>, <<>>, c, d, more, TRUE, expecting, listening, clean),
           NEW c2, c2.posted = c.posted, c2.qOut = c.qOut, c2.open = c.open, c2.writing = "idle",
           NEW v \in Cells
    PROVE  Linked(<<>>, IF c.open THEN <<v>> ELSE <<>>, c2, d, more, FALSE, expecting, listening, clean)
<1>1. <<>> \in Seq(SendMsgs) /\ <<>> \in Seq(Cells) /\ Len(<<>>) = 0
  OBVIOUS
<1>2. PICK off \in Offsets(<<>>), w \in 0..Len(<<>>), R \in Nat :
        /\ R \in 0..off[Len(<<>>)]
        /\ Fits(<<>>, <<>>, c, d, more, TRUE, expecting, listening, clean, off, w, R)
  BY <1>1, Linkage
<1>3. w = 0 /\ off[0] = 1
  <2>1. off[0] = 1
    BY <1>1, <1>2, OffsetsType
  <2>2. w \in 0..0
    BY <1>1
  <2> QED  BY <2>1, <2>2
<1>4. CASE clean /\ c.open
  <2>1. R = 0
    BY <1>1, <1>2, <1>4 DEF Fits, Placed
  <2>2. Holds(<<>>, off, R, <<v>>)
    BY <1>1, <1>2, <2>1, HoldsFirst
  <2>3. R + Len(<<v>>) = Reached(off, w, "idle")
    BY <1>3, <2>1 DEF Reached
  <2>4. Fits(<<>>, <<v>>, c2, d, more, FALSE, expecting, listening, clean, off, w, R)
    BY <1>2, <1>4, <2>2, <2>3 DEF Fits, Placed
  <2> QED  BY <1>2, <1>4, <2>4 DEF Linked
<1>5. CASE ~(clean /\ c.open)
  <2>1. Fits(<<>>, IF c.open THEN <<v>> ELSE <<>>, c2, d, more, FALSE, expecting, listening, clean, off, w, R)
    BY <1>2, <1>5 DEF Fits, Placed
  <2> QED  BY <1>2, <2>1 DEF Linked
<1> QED  BY <1>4, <1>5

\* A connection on which nothing was given to Send.
LEMMA LinkEmpty ==
    ASSUME NEW c, NEW d, NEW more, NEW silent, NEW expecting, NEW clean, NEW cells \in Seq(Cells),
           c.posted = <<>>, c.qOut = <<>>, d.qIn = <<>>, d.reading # "body", Len(cells) <= 1,
           c.open => IF silent THEN Len(cells) = 0 ELSE c.writing = "idle" /\ Len(cells) = 1
    PROVE  Linked(<<>>, cells, c, d, more, silent, expecting, FALSE, clean)
<1> DEFINE off == [k \in 0..0 |-> 1]
<1>1. <<>> \in Seq(SendMsgs) /\ Len(<<>>) = 0 /\ off[0] = 1
  OBVIOUS
<1>2. off \in Offsets(<<>>)
  BY <1>1 DEF Offsets
<1> HIDE DEF off
<1>3. Holds(<<>>, off, 0, cells)
  BY <1>1 DEF Holds
<1>4. Outgoing(<<>>, 0, c.posted, c.qOut) /\ Complete(<<>>, 0, c.posted, c.qOut)
  BY <1>1 DEF Outgoing, Complete
<1>5. c.open => 0 + Len(cells) = IF silent THEN 0 ELSE Reached(off, 0, c.writing)
  BY <1>1 DEF Reached
<1>6. Reads(<<>>, off, 0, FALSE, d.reading, d.msgIn, d.qIn)
  BY <1>1 DEF Reads
<1>7. Fits(<<>>, cells, c, d, more, silent, expecting, FALSE, clean, off, 0, 0)
  BY <1>3, <1>4, <1>5, <1>6 DEF Fits, Placed
<1>8. 0 \in 0..Len(<<>>) /\ 0 \in 0..off[Len(<<>>)]
  BY <1>1
<1> QED  BY <1>2, <1>7, <1>8 DEF Linked

\* A read takes n cells off the wire, and its handler knows what they were.
LEMMA LinkRead ==
    ASSUME NEW S \in Seq(SendMsgs), NEW cells \in Seq(Cells), NEW n \in 0..Len(cells),
           NEW c, NEW d, NEW more, NEW silent, NEW expecting, NEW listening, NEW clean,
           Linked(S, cells, c, d, more, silent, expecting, listening, clean),
           NEW c2, c2.posted = c.posted, c2.qOut = c.qOut, c2.open = c.open, c2.writing = c.writing,
           NEW d2, NEW listening2,
           \A off \in Offsets(S), R \in Nat :
              /\ clean /\ Holds(S, off, R, cells) /\ (expecting => R = 0) /\ AllWellFormed(S)
              /\ Reads(S, off, R, listening, d.reading, d.msgIn, d.qIn)
              => Reads(S, off, R + n, listening2, d2.reading, d2.msgIn, d2.qIn)
    PROVE  Linked(S, SubSeq(cells, n + 1, Len(cells)), c2, d2, more, silent, FALSE, listening2, clean)
<1> DEFINE rest == SubSeq(cells, n + 1, Len(cells))
<1>1. PICK off \in Offsets(S), w \in 0..Len(S), R \in Nat :
        /\ R \in 0..off[Len(S)]
        /\ Fits(S, cells, c, d, more, silent, expecting, listening, clean, off, w, R)
  BY Linkage
<1>2. clean => Holds(S, off, R + n, rest) /\ R + n + Len(rest) = R + Len(cells)
  BY <1>1, HoldsConsumed DEF Fits, Placed
<1>3. rest \in Seq(Cells) /\ R + n \in Nat
  <2>1. R + n \in Nat
    OBVIOUS
  <2>2. n + 1 \in Int /\ Len(cells) \in Int /\ \A i \in (n + 1)..Len(cells) : cells[i] \in Cells
    OBVIOUS
  <2> QED  BY <2>1, <2>2, SubSeqProperties
<1> HIDE DEF rest
<1>4. clean /\ AllWellFormed(S) => Reads(S, off, R + n, listening2, d2.reading, d2.msgIn, d2.qIn)
  BY <1>1 DEF Fits, Placed
<1>5. ASSUME clean PROVE Linked(S, rest, c2, d2, more, silent, FALSE, listening2, clean)
  <2>1. Fits(S, rest, c2, d2, more, silent, FALSE, listening2, clean, off, w, R + n)
    BY <1>1, <1>2, <1>4, <1>5 DEF Fits, Placed
  <2>2. R + n \in 0..off[Len(S)]
    BY <1>2, <1>3, <1>5, Within
  <2> QED  BY <1>1, <2>1, <2>2 DEF Linked
<1>6. ASSUME ~clean PROVE Linked(S, rest, c2, d2, more, silent, FALSE, listening2, clean)
  <2>1. Fits(S, rest, c2, d2, more, silent, FALSE, listening2, clean, off, w, R)
    BY <1>1, <1>6 DEF Fits
  <2> QED  BY <1>1, <2>1 DEF Linked
<1>7. Linked(S, rest, c2, d2, more, silent, FALSE, listening2, clean)
  BY <1>5, <1>6
<1> QED  BY <1>7 DEF rest

\* Where writes mix, nothing but the queues of the writer is known any more.
LEMMA LinkMixed ==
    ASSUME NEW S \in Seq(SendMsgs), NEW cells \in Seq(Cells), NEW cells2,
           NEW c, NEW d, NEW more, NEW silent, NEW expecting, NEW listening, NEW clean,
           Linked(S, cells, c, d, more, silent, expecting, listening, clean)
    PROVE  Linked(S, cells2, c, d, more, silent, expecting, listening, FALSE)
<1>1. PICK off \in Offsets(S), w \in 0..Len(S), R \in Nat :
        /\ R \in 0..off[Len(S)]
        /\ Fits(S, cells, c, d, more, silent, expecting, listening, clean, off, w, R)
  BY Linkage
<1>2. Fits(S, cells2, c, d, more, silent, expecting, listening, FALSE, off, w, R)
  BY <1>1 DEF Fits
<1> QED  BY <1>1, <1>2 DEF Linked

\* A message with another body.
LEMMA WithBody ==
    ASSUME NEW i, NEW n, NEW b, NEW m, m = [id |-> i, size |-> n, body |-> b], NEW part
    PROVE  [m EXCEPT !.body = part] = [id |-> m.id, size |-> m.size, body |-> part]
  OBVIOUS

\* What a reader who trusts the header sees, field by field.
LEMMA SeenFields ==
    ASSUME NEW i, NEW n, NEW b, NEW m, m = [id |-> i, size |-> n, body |-> b]
    PROVE  Seen(m) = [id |-> m.id, size |-> m.size, body |-> SubSeq(m.body, 1, m.size)]
<1> DEFINE part == SubSeq(m.body, 1, m.size)
<1>1. Seen(m) = [m EXCEPT !.body = part]
  BY DEF Seen
<1> HIDE DEF part
<1>2. Seen(m) = [id |-> m.id, size |-> m.size, body |-> part]
  BY <1>1, WithBody
<1> QED  BY <1>2 DEF part

\* The handler of ReadHeader makes of the cell what was sent.
LEMMA ReadsHeader ==
    ASSUME NEW S \in Seq(SendMsgs), NEW off \in Offsets(S), NEW R \in Nat,
           NEW cells \in Seq(Cells), Holds(S, off, R, cells), cells # <<>>, AllWellFormed(S),
           NEW d \in Connections, Reads(S, off, R, TRUE, d.reading, d.msgIn, d.qIn),
           NEW h \in HeaderOf(Head(cells)), NEW m, m = ReadInto(d, h), NEW d2,
           m.size > 0 => d2.reading = "body" /\ d2.msgIn = m /\ d2.qIn = d.qIn,
           ~(m.size > 0) => d2.reading # "body" /\ d2.qIn = Append(d.qIn, m)
    PROVE  Reads(S, off, R + 1, d2.reading = "header", d2.reading, d2.msgIn, d2.qIn)
<1> DEFINE r == Len(d.qIn)
<1>1. d.qIn \in Seq(Messages) /\ r \in Nat /\ d.msgIn \in Messages /\ d.msgIn.body \in Seq(Cells)
  BY DEF Connections, Messages
<1>2. r <= Len(S) /\ R = off[r] /\ \A i \in 1..r : Seen(d.qIn[i]) = S[i]
  BY DEF Reads
<1>3. r \in 0..Len(S) /\ Len(S) \in Nat
  BY <1>1, <1>2, SentType
<1>4. r < Len(S) /\ Head(cells) = Header(S[r + 1])
  BY <1>2, <1>3, FindsHeader
<1>5. r + 1 \in 1..Len(S) /\ r \in 0..(Len(S) - 1)
  BY <1>1, <1>3, <1>4
<1>6. /\ S[r + 1] \in [id : {n.id : n \in Known}, size : Nat, body : Seq(Bytes)]
      /\ S[r + 1].size = Len(S[r + 1].body)
  BY <1>5, SentType DEF AllWellFormed, WellFormed
<1>7. h = <<S[r + 1].id, S[r + 1].size>>
  BY <1>4 DEF HeaderOf, Header
<1>8. m = [id |-> S[r + 1].id, size |-> S[r + 1].size, body |-> d.msgIn.body]
  BY <1>7 DEF ReadInto
<1>9. off[r + 1] = off[r] + 1 + Len(S[r + 1].body) /\ off[r] \in Nat
  BY <1>5, OffsetsAt
<1>10. CASE m.size > 0
  <2>1. d2.reading = "body" /\ d2.msgIn = m /\ d2.qIn = d.qIn
    BY <1>10
  <2>2. m.id = S[r + 1].id /\ m.size = S[r + 1].size
    BY <1>8
  <2> QED  BY <1>2, <1>4, <2>1, <2>2 DEF Reads
<1>11. CASE ~(m.size > 0)
  <2>1. d2.reading # "body" /\ d2.qIn = Append(d.qIn, m)
    BY <1>11
  <2>2. m.size = 0 /\ S[r + 1].size = 0 /\ S[r + 1].body = <<>>
    <3>1. m.size = S[r + 1].size /\ S[r + 1].size \in Nat
      BY <1>6, <1>8
    <3>2. S[r + 1].size = 0 /\ m.size = 0
      BY <1>11, <3>1
    <3>3. S[r + 1].body \in Seq(Bytes) /\ Len(S[r + 1].body) = 0
      BY <1>6, <3>2
    <3> QED  BY <3>2, <3>3, EmptySeq
  <2>3. Seen(m) = S[r + 1]
    <3>1. SubSeq(m.body, 1, m.size) = <<>>
      BY <2>2
    <3>2. Seen(m) = [id |-> m.id, size |-> m.size, body |-> SubSeq(m.body, 1, m.size)]
      BY ONLY <1>8, SeenFields
    <3>3. S[r + 1] = [id |-> S[r + 1].id, size |-> S[r + 1].size, body |-> S[r + 1].body]
      BY <1>6
    <3> QED  BY <1>8, <2>2, <3>1, <3>2, <3>3
  <2>4. Len(d2.qIn) = r + 1 /\ d2.qIn[r + 1] = m /\ \A i \in 1..r : d2.qIn[i] = d.qIn[i]
    BY <1>1, <2>1
  <2>5. \A i \in 1..(r + 1) : Seen(d2.qIn[i]) = S[i]
    BY <1>1, <1>2, <2>3, <2>4, SMTT(60)
  <2>6. R + 1 = off[r + 1]
    BY <1>2, <1>9, <2>2
  <2>7. Len(d2.qIn) <= Len(S)
    BY <1>5, <2>4
  <2> QED  BY <2>1, <2>4, <2>5, <2>6, <2>7 DEF Reads
<1> QED  BY <1>10, <1>11

\* The handler of ReadBody completes the message that was sent.
LEMMA ReadsBody ==
    ASSUME NEW S \in Seq(SendMsgs), NEW off \in Offsets(S), NEW R \in Nat,
           NEW cells \in Seq(Cells), Holds(S, off, R, cells), AllWellFormed(S),
           NEW d \in Connections, d.reading = "body", d.msgIn.size <= Len(cells), NEW listening,
           Reads(S, off, R, listening, d.reading, d.msgIn, d.qIn),
           NEW d2, NEW listening2, d2.reading # "body",
           d2.qIn = Append(d.qIn, [d.msgIn EXCEPT !.body = SubSeq(cells, 1, d.msgIn.size)])
    PROVE  Reads(S, off, R + d.msgIn.size, listening2, d2.reading, d2.msgIn, d2.qIn)
<1> DEFINE r == Len(d.qIn)
           sz == d.msgIn.size
           part == SubSeq(cells, 1, sz)
           m == [d.msgIn EXCEPT !.body = part]
<1>1. d.qIn \in Seq(Messages) /\ r \in Nat /\ d.msgIn \in Messages /\ sz \in Nat
  BY DEF Connections, Messages
<1>2. /\ r < Len(S) /\ R = off[r] + 1 /\ \A i \in 1..r : Seen(d.qIn[i]) = S[i]
      /\ d.msgIn.id = S[r + 1].id /\ sz = S[r + 1].size
  BY DEF Reads
<1>3. r + 1 \in 1..Len(S) /\ r \in 0..(Len(S) - 1)
  BY <1>1, <1>2, SentType
<1>4. /\ S[r + 1] \in [id : {n.id : n \in Known}, size : Nat, body : Seq(Bytes)]
      /\ S[r + 1].size = Len(S[r + 1].body)
  <2>1. S[r + 1] \in [id : {n.id : n \in Known}, size : Nat, body : Seq(Bytes)]
    BY <1>3, SentType
  <2>2. WellFormed(S[r + 1])
    BY <1>3 DEF AllWellFormed
  <2> QED  BY <2>1, <2>2 DEF WellFormed
<1>5. \A j \in 1..sz : cells[j] = S[r + 1].body[j]
  <2>1. sz \in 0..Len(cells) /\ sz <= Len(S[r + 1].body)
    BY <1>1, <1>2, <1>4
  <2> QED  BY <1>2, <1>3, <2>1, FindsBody
<1>6. part = S[r + 1].body
  <2>1. part = [j \in 1..sz |-> cells[j]]
    BY <1>1
  <2>2. S[r + 1].body = [j \in 1..sz |-> S[r + 1].body[j]]
    BY <1>2, <1>4
  <2> HIDE DEF part
  <2> QED  BY <1>5, <2>1, <2>2
<1>7. Seen(m) = S[r + 1]
  <2>1. m = [id |-> d.msgIn.id, size |-> sz, body |-> part]
    <3>1. d.msgIn = [id |-> d.msgIn.id, size |-> d.msgIn.size, body |-> d.msgIn.body]
      BY <1>1 DEF Messages
    <3> HIDE DEF part
    <3> QED  BY <3>1, WithBody
  <2> HIDE DEF m, part
  <2>2. m.size = sz /\ m.body = S[r + 1].body /\ m.id = S[r + 1].id
    BY <1>2, <1>6, <2>1
  <2>3. SubSeq(m.body, 1, m.size) = S[r + 1].body
    BY <1>1, <1>2, <1>4, <2>2
  <2>4. Seen(m) = [id |-> S[r + 1].id, size |-> sz, body |-> S[r + 1].body]
    <3>1. Seen(m) = [id |-> m.id, size |-> m.size, body |-> SubSeq(m.body, 1, m.size)]
      BY ONLY <2>1, SeenFields, ZenonT(60)
    <3> QED  BY <2>2, <2>3, <3>1
  <2> QED  BY <1>2, <1>4, <2>4
<1>8. d2.qIn = Append(d.qIn, m)
  OBVIOUS
<1> HIDE DEF m
<1>9. Len(d2.qIn) = r + 1 /\ d2.qIn[r + 1] = m /\ \A i \in 1..r : d2.qIn[i] = d.qIn[i]
  BY <1>1, <1>8
<1>10. ASSUME NEW i \in 1..(r + 1) PROVE Seen(d2.qIn[i]) = S[i]
  <2>1. CASE i = r + 1
    BY <1>7, <1>9, <2>1
  <2>2. CASE i \in 1..r
    BY <1>2, <1>9, <2>2
  <2> QED  BY <1>1, <2>1, <2>2
<1>11. R + sz = off[r + 1]
  <2>1. off[r + 1] = off[r] + 1 + Len(S[r + 1].body) /\ off[r] \in Nat
    BY <1>3, OffsetsAt
  <2> QED  BY <1>1, <1>2, <1>4, <2>1
<1>12. Len(d2.qIn) <= Len(S)
  BY <1>3, <1>9
<1> QED  BY <1>9, <1>10, <1>11, <1>12 DEF Reads

----------------------------------------------------------------------------
(* Steps *)

\* There are two ends, and each is the other's peer.
LEMMA Ends ==
    ASSUME NEW e \in End
    PROVE  Peer(e) \in End /\ Peer(Peer(e)) = e /\ Peer(e) # e /\ (\A p \in End : p = e \/ p = Peer(e))
  BY DEF End, Peer

\* One end's Connection changes.
LEMMA Changed ==
    ASSUME TypeOK, NEW e \in End, NEW c2 \in Connections, conn' = [conn EXCEPT ![e] = c2]
    PROVE  /\ conn' \in [End -> Connections]
           /\ conn[e] \in Connections /\ conn'[e] = c2
           /\ conn[Peer(e)] \in Connections /\ conn'[Peer(e)] = conn[Peer(e)]
  BY Ends DEF TypeOK

\* What was sent can be sent.
LEMMA Sendable ==
    /\ Known \subseteq SendMsgs
    /\ ClientMsgs \subseteq SendMsgs /\ ServerMsgs \subseteq SendMsgs /\ Welcome \in SendMsgs
    /\ Given => \A e \in End : sent[e] \in Seq(SendMsgs)
<1>1. Known \subseteq SendMsgs
  BY ConnectionAssumption DEF SendMsgs, Cells
<1>2. ClientMsgs \subseteq SendMsgs /\ ServerMsgs \subseteq SendMsgs /\ Welcome \in SendMsgs
  BY <1>1 DEF Known
<1>3. Given => \A e \in End : sent[e] \in Seq(SendMsgs)
  BY <1>2, SeqMonotonic DEF Given, End
<1> QED  BY <1>1, <1>2, <1>3

\* A message can be read, whatever was sent.
LEMMA Readable == SendMsgs \subseteq Messages
<1>1. Bytes \subseteq Cells
  BY DEF Cells
<1>2. Seq(Bytes) \subseteq Seq(Cells)
  BY <1>1, SeqMonotonic
<1> QED  BY <1>2 DEF SendMsgs, Messages

\* Steps that neither write nor read cells nor send.
LEMMA CarriedKept ==
    ASSUME IInv, UNCHANGED <<wire, mixed, sent>>,
           \A e \in End :
              /\ conn'[e].posted = conn[e].posted /\ conn'[e].qOut = conn[e].qOut
              /\ conn'[e].qIn = conn[e].qIn
              /\ conn'[e].open =>
                   conn[e].open /\ conn'[e].writing = conn[e].writing /\ (Silent(e)' <=> Silent(e))
              /\ conn'[e].reading = "body" => conn[e].reading = "body" /\ conn'[e].msgIn = conn[e].msgIn
              /\ More(e)' => More(e)
              /\ Expecting(e)' => Expecting(e)
              /\ Listening(e)' => Listening(e)
    PROVE  \A p \in End : Carried(p)'
<1> SUFFICES ASSUME NEW p \in End PROVE Carried(p)'
  OBVIOUS
<1> DEFINE e == Peer(p)
<1>1. e \in End /\ e' = e
  BY Ends DEF Peer
<1>2. sent[e] \in Seq(SendMsgs) /\ wire[p] \in Seq(Cells)
  BY <1>1, Sendable DEF IInv, TypeOK
<1>3. Linked(sent[e], wire[p], conn[e], conn[p], More(e), Silent(e), Expecting(p), Listening(p), Clean(e))
  BY DEF IInv, Carried
<1> HIDE DEF e
<1>4. Linked(sent[e], wire[p], conn'[e], conn'[p], More(e)', Silent(e)', Expecting(p)', Listening(p)', Clean(e))
  BY <1>1, <1>2, <1>3, LinkKept
<1>5. Clean(e)' = Clean(e)
  BY <1>1 DEF Clean
<1> QED  BY <1>1, <1>4, <1>5 DEF Carried, e

\* The kernel completes an operation.
LEMMA KernelDoneKeeps ==
    ASSUME IInv, NEW e \in End, KernelDone(e)
    PROVE  IInv'
<1> DEFINE c == conn[e]
<1>1. /\ TypeOK /\ Given /\ Shaking /\ Arrived /\ Announced /\ WriteChain /\ SnekAdmitted
      /\ c \in Connections /\ UNCHANGED <<wire, mixed, up, snek, listed, verdict, taken, phase, sent>>
  BY DEF IInv, TypeOK, KernelDone, app, stream
<1>2. PICK op \in {"write", "validate", "read"} :
        /\ \/ op = "write" /\ c.writing # "idle"
           \/ op = "validate" /\ c.validating
           \/ op = "read" /\ c.reading \notin {"idle", "connect"} /\ Len(wire[e]) >= Asked(e)
        /\ conn' = [conn EXCEPT ![e] = [c EXCEPT !.done = c.done \cup {op}]]
  <2> DEFINE finished == {op \in {"write", "validate", "read"} :
                            \/ op = "write" /\ c.writing # "idle"
                            \/ op = "validate" /\ c.validating
                            \/ op = "read" /\ c.reading \notin {"idle", "connect"}
                                           /\ Len(wire[e]) >= Asked(e)}
  <2>1. \E op \in finished \ c.done : conn' = [conn EXCEPT ![e].done = @ \cup {op}]
    BY DEF KernelDone, Asked
  <2>2. PICK op \in finished : conn' = [conn EXCEPT ![e].done = @ \cup {op}]
    BY <2>1
  <2>3. conn' = [conn EXCEPT ![e] = [c EXCEPT !.done = c.done \cup {op}]]
    BY <2>2
  <2> QED  BY <2>2, <2>3
<1> DEFINE c2 == [c EXCEPT !.done = c.done \cup {op}]
<1>3. /\ c2 \in Connections /\ c2.done = c.done \cup {op}
      /\ c2.open = c.open /\ c2.posted = c.posted /\ c2.qOut = c.qOut /\ c2.writing = c.writing
      /\ c2.validating = c.validating /\ c2.reading = c.reading /\ c2.msgIn = c.msgIn
      /\ c2.qIn = c.qIn /\ c2.handshake = c.handshake
  BY <1>1, <1>2 DEF Connections
<1>4. conn' = [conn EXCEPT ![e] = c2]
  BY <1>2
<1> HIDE DEF c2
<1>5. conn' \in [End -> Connections] /\ conn'[e] = c2 /\ conn'[Peer(e)] = conn[Peer(e)]
  BY <1>1, <1>3, <1>4, Changed
<1>6. \A f \in End :
        /\ conn'[f].open = conn[f].open /\ conn'[f].posted = conn[f].posted
        /\ conn'[f].qOut = conn[f].qOut /\ conn'[f].writing = conn[f].writing
        /\ conn'[f].validating = conn[f].validating /\ conn'[f].reading = conn[f].reading
        /\ conn'[f].msgIn = conn[f].msgIn /\ conn'[f].qIn = conn[f].qIn
        /\ conn'[f].handshake = conn[f].handshake
        /\ conn'[f].done \subseteq conn[f].done \cup (IF f = e THEN {op} ELSE {})
  BY <1>3, <1>5, Ends
<1>7. TypeOK'
  <2>1. \A f \in End : conn'[f].done \subseteq Pending(f)'
    BY <1>1, <1>2, <1>6 DEF TypeOK, Pending
  <2>2. taken' \in 0..Len(conn'["server"].qIn)
    BY <1>1, <1>6 DEF TypeOK, End
  <2> QED  BY <1>1, <1>5, <2>1, <2>2 DEF TypeOK
<1>8. Given'
  BY <1>1, <1>6 DEF Given, End, Clean
<1>9. Shaking'
  <2>1. listed \notin {"no", "denied"} \/ e = "client"
    BY <1>1, <1>2 DEF Shaking, Fresh, End
  <2>2. conn'["server"] = conn["server"] \/ listed \notin {"no", "denied"}
    BY <1>5, <2>1 DEF Peer
  <2> QED  BY <1>1, <1>6, <2>2 DEF Shaking, Silent, End, Clean
<1>10. Arrived'
  BY <1>1, <1>2, <1>6 DEF Arrived, Asked
<1>11. WriteChain' /\ SnekAdmitted' /\ Announced'
  BY <1>1, <1>6 DEF WriteChain, SnekAdmitted, Announced
<1>12. \A p \in End : Carried(p)'
  BY <1>1, <1>6, CarriedKept DEF More, Silent, Expecting, Listening, End
<1> QED  BY <1>7, <1>8, <1>9, <1>10, <1>11, <1>12 DEF IInv

\* Steps that write, read, send and receive nothing: handlers of failed
\* operations, the ends of the handshake, and the users of the connections.
LEMMA StillKeeps ==
    ASSUME IInv, UNCHANGED <<wire, mixed, sent, snek, verdict, taken>>,
           conn' \in [End -> Connections], up' \in BOOLEAN,
           listed' = listed \/ (listed = "no" /\ listed' = "denied"),
           phase' \in {"waiting", "run", "leaving", "stopped", "exited"},
           phase' = "waiting" => phase = "waiting",
           phase' = "run" => phase \in {"waiting", "run"},
           conn["client"].qIn = <<>> => phase' = phase,
           listed \in {"no", "denied"} => conn'["server"] = conn["server"],
           \A e \in End :
              /\ conn'[e].posted = conn[e].posted /\ conn'[e].qOut = conn[e].qOut
              /\ conn'[e].qIn = conn[e].qIn /\ conn'[e].msgIn = conn[e].msgIn
              /\ conn'[e].handshake = conn[e].handshake
              /\ conn'[e].open => conn[e].open
              /\ conn'[e].validating => conn[e].validating
              /\ conn'[e].writing = conn[e].writing \/ (conn'[e].writing = "idle" /\ ~conn'[e].open)
              /\ \/ conn'[e].reading = conn[e].reading
                 \/ conn'[e].reading = "idle" /\ ~conn'[e].open
                 \/ e = "client" /\ conn[e].reading = "connect" /\ conn'[e].reading = "validation"
                 \/ e = "client" /\ conn[e].validating /\ ~conn'[e].validating /\ conn'[e].reading = "header"
              /\ conn'[e].done \subseteq conn[e].done
              /\ "write" \in conn'[e].done => conn'[e].writing # "idle"
              /\ "validate" \in conn'[e].done => conn'[e].validating
              /\ "read" \in conn'[e].done => conn'[e].reading = conn[e].reading
    PROVE  IInv'
<1>1. TypeOK /\ Given /\ Shaking /\ Arrived /\ Announced /\ WriteChain /\ SnekAdmitted
  BY DEF IInv
<1>2. "client" \in End /\ "server" \in End
  BY DEF End
<1>3. TypeOK'
  <2>1. \A e \in End : conn'[e].done \subseteq Pending(e)'
    BY <1>1 DEF TypeOK, Pending, Connections
  <2>2. taken' \in 0..Len(conn'["server"].qIn)
    BY <1>1, <1>2 DEF TypeOK
  <2>3. wire' \in [End -> Seq(Cells)] /\ sent' \in [End -> Seq(Messages)]
    BY <1>1 DEF TypeOK
  <2>4. /\ mixed' \subseteq End /\ snek' \in BOOLEAN
        /\ verdict' \in {"none", "validated", "rejected"} /\ listed' \in {"no", "yes", "denied", "dropped"}
    BY <1>1 DEF TypeOK
  <2> QED  BY <2>1, <2>2, <2>3, <2>4 DEF TypeOK
<1>4. Given'
  BY <1>1, <1>2 DEF Given, Clean
<1>5. conn["client"].validating => conn["client"].reading = "idle"
  BY <1>1 DEF Shaking
<1>6. Silent("client")' => Silent("client")
  BY <1>2 DEF Silent
<1>7. Shaking'
  <2>1. listed' \in {"no", "denied"} => listed \in {"no", "denied"}
    OBVIOUS
  <2>2. listed' \in {"no", "denied"} =>
         /\ conn'["server"] = Fresh /\ wire'["client"] = <<>> /\ wire'["server"] = <<>>
         /\ sent'["server"] = <<>> /\ verdict' = "none" /\ Clean("server")'
    BY <1>1, <2>1 DEF Shaking, Clean
  <2>3. listed' \in {"no", "denied"} =>
         /\ conn'["client"].reading \in {"connect", "validation", "idle"} /\ ~conn'["client"].validating
    BY <1>1, <1>2, <2>1 DEF Shaking
  <2>4. /\ Silent("client")' => wire'["server"] = <<>>
        /\ Silent("client")' /\ wire'["client"] # <<>> /\ Clean("server")' =>
             Head(wire'["client"]) = Validation(conn'["server"].handshake)
        /\ Silent("client")' /\ ~Clean("server")' =>
             wire'["client"] # <<>> /\ Head(wire'["client"]) = Mix
    BY <1>1, <1>2, <1>6 DEF Shaking, Clean
  <2>5. conn'["client"].validating => conn'["client"].reading = "idle"
    BY <1>2, <1>5
  <2>6. Silent("client")' \/ conn'["client"].validating => conn'["client"].qIn = <<>>
    BY <1>1, <1>2, <1>6 DEF Shaking
  <2>7. conn'["client"].qIn = <<>> => phase' = "waiting"
    BY <1>1, <1>2 DEF Shaking
  <2>8. phase' = "waiting" => sent'["client"] = <<>> /\ conn'["client"].writing = "idle"
    BY <1>1, <1>2 DEF Shaking
  <2>9. /\ conn'["server"].reading = "validation" => conn'["server"].qIn = <<>>
        /\ conn'["server"].reading # "connect"
    BY <1>1, <1>2 DEF Shaking
  <2>10. conn'["server"].reading = "validation" /\ wire'["server"] # <<>> =>
           /\ Head(wire'["server"]) = Validation(conn'["client"].handshake)
           /\ snek' /\ Clean("server")' => conn'["client"].handshake = Scramble(conn'["server"].handshake)
    <3>1. conn'["server"].reading = "validation" => conn["server"].reading = "validation"
      BY <1>2
    <3> QED  BY <1>1, <1>2, <3>1 DEF Shaking, Clean
  <2> QED  BY <2>2, <2>3, <2>4, <2>5, <2>6, <2>7, <2>8, <2>9, <2>10 DEF Shaking
<1>8. Arrived'
  BY <1>1 DEF Arrived, Asked
<1>9. WriteChain' /\ SnekAdmitted' /\ Announced'
  BY <1>1 DEF WriteChain, SnekAdmitted, Announced
<1>10. \A p \in End : Carried(p)'
  <2>1. \A e \in End :
          /\ conn'[e].open => (Silent(e)' <=> Silent(e))
          /\ More(e)' => More(e)
          /\ Expecting(e)' => Expecting(e)
          /\ Listening(e)' => Listening(e)
    BY <1>5 DEF Silent, More, Expecting, Listening
  <2>2. \A e \in End : conn'[e].open => conn'[e].writing = conn[e].writing
    OBVIOUS
  <2>3. \A e \in End : conn'[e].reading = "body" => conn[e].reading = "body" /\ conn'[e].msgIn = conn[e].msgIn
    OBVIOUS
  <2> QED  BY <2>1, <2>2, <2>3, CarriedKept
<1> QED  BY <1>3, <1>4, <1>7, <1>8, <1>9, <1>10 DEF IInv

\* The kernel has completed only what is pending.
LEMMA DoneIsPending ==
    ASSUME TypeOK, NEW e \in End
    PROVE  /\ conn[e] \in Connections
           /\ "write" \in conn[e].done => conn[e].writing # "idle"
           /\ "validate" \in conn[e].done => conn[e].validating
           /\ "read" \in conn[e].done => conn[e].reading # "idle"
  BY DEF TypeOK, Pending

\* StillKeeps for a step of one end.
LEMMA StillEnd ==
    ASSUME IInv, UNCHANGED <<wire, mixed, app>>, up' \in BOOLEAN, NEW e \in End, NEW c2 \in Connections,
           conn' = [conn EXCEPT ![e] = c2],
           conn[e].writing # "idle" \/ conn[e].validating \/ conn[e].reading # "idle",
           c2.posted = conn[e].posted, c2.qOut = conn[e].qOut, c2.qIn = conn[e].qIn,
           c2.msgIn = conn[e].msgIn, c2.handshake = conn[e].handshake,
           c2.open => conn[e].open, c2.validating => conn[e].validating,
           c2.writing = conn[e].writing \/ (c2.writing = "idle" /\ ~c2.open),
           \/ c2.reading = conn[e].reading
           \/ c2.reading = "idle" /\ ~c2.open
           \/ e = "client" /\ conn[e].reading = "connect" /\ c2.reading = "validation"
           \/ e = "client" /\ conn[e].validating /\ ~c2.validating /\ c2.reading = "header",
           c2.done \subseteq conn[e].done,
           "write" \in c2.done => c2.writing # "idle",
           "validate" \in c2.done => c2.validating,
           "read" \in c2.done => c2.reading = conn[e].reading
    PROVE  IInv'
<1>1. TypeOK /\ Shaking
  BY DEF IInv
<1>2. conn' \in [End -> Connections] /\ conn'[e] = c2 /\ conn'[Peer(e)] = conn[Peer(e)]
  BY <1>1, Changed
<1>3. UNCHANGED <<snek, listed, verdict, taken, phase, sent>>
  BY DEF app
<1>4. phase' \in {"waiting", "run", "leaving", "stopped", "exited"}
  BY <1>1, <1>3 DEF TypeOK
<1>5. listed \in {"no", "denied"} => conn'["server"] = conn["server"]
  <2>1. listed \in {"no", "denied"} => e = "client"
    BY <1>1 DEF Shaking, Fresh, End
  <2> QED  BY <1>2, <2>1 DEF Peer
<1>6. \A f \in End :
         /\ "write" \in conn[f].done => conn[f].writing # "idle"
         /\ "validate" \in conn[f].done => conn[f].validating
  BY <1>1, DoneIsPending
<1>7. \A f \in End : f = e \/ f = Peer(e)
  BY Ends
<1> QED  BY <1>2, <1>3, <1>4, <1>5, <1>6, <1>7, StillKeeps

\* WriteHeader or WriteBody, with an error.
LEMMA WriteFailedKeeps ==
    ASSUME IInv, NEW e \in End, WriteFailed(e)
    PROVE  IInv'
<1> DEFINE c2 == Closing(Wrote(conn[e]))
<1>1. TypeOK /\ conn[e] \in Connections
  BY DEF IInv, TypeOK
<1>2. /\ c2 \in Connections /\ c2.writing = "idle" /\ c2.done = conn[e].done \ {"write"} /\ ~c2.open
      /\ c2.posted = conn[e].posted /\ c2.qOut = conn[e].qOut /\ c2.qIn = conn[e].qIn
      /\ c2.msgIn = conn[e].msgIn /\ c2.handshake = conn[e].handshake
      /\ c2.validating = conn[e].validating /\ c2.reading = conn[e].reading
  BY <1>1 DEF Connections, Closing, Wrote
<1>3. /\ conn' = [conn EXCEPT ![e] = c2] /\ up' = FALSE /\ UNCHANGED <<wire, mixed, app>>
      /\ conn[e].writing # "idle"
  BY DEF WriteFailed, Close, stream
<1>4. "validate" \in c2.done => c2.validating
  BY <1>1, <1>2, DoneIsPending
<1> HIDE DEF c2
<1> QED  BY <1>2, <1>3, <1>4, StillEnd

\* Any read, with an error.
LEMMA ReadFailedKeeps ==
    ASSUME IInv, NEW e \in End, ReadFailed(e)
    PROVE  IInv'
<1> DEFINE c2 == Closing(Listen(conn[e], "idle"))
<1>1. TypeOK /\ conn[e] \in Connections
  BY DEF IInv, TypeOK
<1>2. /\ c2 \in Connections /\ c2.reading = "idle" /\ c2.done = conn[e].done \ {"read"} /\ ~c2.open
      /\ c2.posted = conn[e].posted /\ c2.qOut = conn[e].qOut /\ c2.qIn = conn[e].qIn
      /\ c2.msgIn = conn[e].msgIn /\ c2.handshake = conn[e].handshake
      /\ c2.validating = conn[e].validating /\ c2.writing = conn[e].writing
  BY <1>1 DEF Connections, Closing, Listen
<1>3. /\ conn' = [conn EXCEPT ![e] = c2] /\ up' = FALSE /\ UNCHANGED <<wire, mixed, app>>
      /\ conn[e].reading # "idle"
  BY DEF ReadFailed, Close, stream
<1>4. ("validate" \in c2.done => c2.validating) /\ ("write" \in c2.done => c2.writing # "idle")
  BY <1>1, <1>2, DoneIsPending
<1> HIDE DEF c2
<1> QED  BY <1>2, <1>3, <1>4, StillEnd

\* WriteValidation, with an error.
LEMMA ValidationFailedKeeps ==
    ASSUME IInv, NEW e \in End, ValidationFailed(e)
    PROVE  IInv'
<1> DEFINE c2 == Closing([conn[e] EXCEPT !.validating = FALSE])
<1>1. TypeOK /\ conn[e] \in Connections
  BY DEF IInv, TypeOK
<1>2. /\ c2 \in Connections /\ c2.reading = conn[e].reading /\ c2.done = conn[e].done /\ ~c2.open
      /\ c2.posted = conn[e].posted /\ c2.qOut = conn[e].qOut /\ c2.qIn = conn[e].qIn
      /\ c2.msgIn = conn[e].msgIn /\ c2.handshake = conn[e].handshake
      /\ c2.validating = FALSE /\ c2.writing = conn[e].writing
  BY <1>1 DEF Connections, Closing
<1>3. /\ conn' = [conn EXCEPT ![e] = c2] /\ up' = FALSE /\ UNCHANGED <<wire, mixed, app>>
      /\ conn[e].validating /\ "validate" \notin conn[e].done
  BY DEF ValidationFailed, Close, stream, Failing
<1>4. "write" \in c2.done => c2.writing # "idle"
  BY <1>1, <1>2, DoneIsPending
<1> HIDE DEF c2
<1> QED  BY <1>2, <1>3, <1>4, StillEnd

\* WriteValidation: the client goes on to ReadHeader.
LEMMA ValidationWrittenKeeps ==
    ASSUME IInv, NEW e \in End, ValidationWritten(e)
    PROVE  IInv'
<1> DEFINE c1 == [conn[e] EXCEPT !.validating = FALSE, !.done = @ \ {"validate"}]
           c2 == IF e = "client" THEN Listen(c1, "header") ELSE c1
<1>1. TypeOK /\ conn[e] \in Connections
  BY DEF IInv, TypeOK
<1>2. /\ c2 \in Connections /\ c2.reading = (IF e = "client" THEN "header" ELSE conn[e].reading)
      /\ c2.done = conn[e].done \ (IF e = "client" THEN {"validate", "read"} ELSE {"validate"})
      /\ c2.posted = conn[e].posted /\ c2.qOut = conn[e].qOut /\ c2.qIn = conn[e].qIn
      /\ c2.msgIn = conn[e].msgIn /\ c2.handshake = conn[e].handshake
      /\ c2.validating = FALSE /\ c2.writing = conn[e].writing /\ c2.open = conn[e].open
  BY <1>1 DEF Connections, Listen
<1>3. /\ conn' = [conn EXCEPT ![e] = c2] /\ UNCHANGED <<wire, mixed, up, app>> /\ conn[e].validating
  BY DEF ValidationWritten, stream
<1>4. ("write" \in c2.done => c2.writing # "idle") /\ up' \in BOOLEAN
  BY <1>1, <1>2, <1>3, DoneIsPending DEF TypeOK
<1> HIDE DEF c2
<1> QED  BY <1>2, <1>3, <1>4, StillEnd

\* The handler of async_connect.
LEMMA ConnectedKeeps ==
    ASSUME IInv, Connected
    PROVE  IInv'
<1> DEFINE c == conn["client"]
           c2 == Listen(c, "validation")
<1>1. TypeOK /\ c \in Connections /\ "client" \in End
  BY DEF IInv, TypeOK, End
<1>2. /\ c2 \in Connections /\ c2.reading = "validation" /\ c2.done = c.done \ {"read"} /\ c2.open = c.open
      /\ c2.posted = c.posted /\ c2.qOut = c.qOut /\ c2.qIn = c.qIn
      /\ c2.msgIn = c.msgIn /\ c2.handshake = c.handshake
      /\ c2.validating = c.validating /\ c2.writing = c.writing
  BY <1>1 DEF Connections, Listen
<1>3. /\ conn' = [conn EXCEPT !["client"] = c2] /\ up' \in BOOLEAN /\ UNCHANGED <<wire, mixed, app>>
      /\ c.reading = "connect"
  BY <1>1 DEF Connected, TypeOK, stream
<1>4. ("validate" \in c2.done => c2.validating) /\ ("write" \in c2.done => c2.writing # "idle")
  BY <1>1, <1>2, DoneIsPending
<1> HIDE DEF c2
<1> QED  BY <1>1, <1>2, <1>3, <1>4, StillEnd

\* Steps that change one end's flags, the phase of main or the network.
LEMMA SetupKeeps ==
    ASSUME IInv, Deny \/ EnterGame \/ StopContext \/ Exit \/ Break
    PROVE  IInv'
<1>1. TypeOK /\ Shaking /\ "client" \in End /\ conn \in [End -> Connections] /\ "server" \in End
  BY DEF IInv, TypeOK, End
<1>2. \A e \in End :
         /\ "write" \in conn[e].done => conn[e].writing # "idle"
         /\ "validate" \in conn[e].done => conn[e].validating
  BY <1>1, DoneIsPending
<1>3. conn["client"].qIn = <<>> => phase = "waiting"
  BY <1>1 DEF Shaking
<1>4. up \in BOOLEAN /\ phase \in {"waiting", "run", "leaving", "stopped", "exited"}
  BY <1>1 DEF TypeOK
<1>5. CASE Exit
  <2> DEFINE c == conn["client"]
             c2 == Closing(c)
  <2>1. /\ c2 \in Connections /\ ~c2.open /\ c2.reading = c.reading /\ c2.done = c.done
        /\ c2.posted = c.posted /\ c2.qOut = c.qOut /\ c2.qIn = c.qIn
        /\ c2.msgIn = c.msgIn /\ c2.handshake = c.handshake
        /\ c2.validating = c.validating /\ c2.writing = c.writing
    BY <1>1, ZenonT(60) DEF Connections, Closing
  <2>2. /\ conn' = [conn EXCEPT !["client"] = c2] /\ phase = "stopped" /\ phase' = "exited" /\ up' = FALSE
        /\ UNCHANGED <<wire, mixed, snek, listed, verdict, taken, sent>>
    BY <1>5 DEF Exit, stream
  <2> HIDE DEF c2
  <2>3. conn' \in [End -> Connections] /\ conn'["client"] = c2 /\ conn'["server"] = conn["server"]
    BY <1>1, <2>1, <2>2 DEF End
  <2>4. \A e \in End : e = "client" \/ e = "server"
    BY DEF End
  <2> QED  BY <1>2, <1>3, <2>1, <2>2, <2>3, <2>4, StillKeeps
<1>6. CASE Deny \/ Break
  <2>1. conn' = conn /\ up' = FALSE /\ UNCHANGED <<wire, mixed, sent, snek, verdict, taken, phase>>
    BY <1>6 DEF Deny, Break, app, stream
  <2>2. listed' = listed \/ (listed = "no" /\ listed' = "denied")
    BY <1>6 DEF Deny, Break, app
  <2> QED  BY <1>1, <1>2, <1>4, <2>1, <2>2, StillKeeps
<1>7. CASE EnterGame \/ StopContext
  <2>1. conn' = conn /\ UNCHANGED <<wire, mixed, up, sent, snek, verdict, taken, listed>>
    BY <1>7 DEF EnterGame, StopContext, stream
  <2>2. \/ phase = "waiting" /\ phase' = "run" /\ conn["client"].qIn # <<>>
        \/ phase = "leaving" /\ phase' = "stopped"
    BY <1>7 DEF EnterGame, StopContext, Joined
  <2> QED  BY <1>1, <1>2, <1>3, <1>4, <2>1, <2>2, StillKeeps
<1> QED  BY <1>5, <1>6, <1>7

----------------------------------------------------------------------------
(* Steps that write *)

\* Nothing was given to Send and nothing is posted: nothing is there to write.
LEMMA NothingSent ==
    ASSUME NEW S, S = <<>>, NEW cells \in Seq(Cells), NEW c \in Connections, NEW d \in Connections,
           NEW more, NEW silent, NEW expecting, NEW listening, NEW clean,
           Linked(S, cells, c, d, more, silent, expecting, listening, clean)
    PROVE  c.qOut = <<>> /\ (clean => d.qIn = <<>>) /\ (more => c.posted = <<>>)
<1>1. S \in Seq(SendMsgs) /\ Len(S) = 0
  OBVIOUS
<1>2. PICK off \in Offsets(S), w \in 0..Len(S), R \in Nat :
        /\ R \in 0..off[Len(S)]
        /\ Fits(S, cells, c, d, more, silent, expecting, listening, clean, off, w, R)
  BY <1>1, Linkage
<1>3. /\ c.qOut \in Seq(Messages) /\ d.qIn \in Seq(Messages)
      /\ c.posted \in Seq(Messages \cup {CloseSocket})
  BY DEF Connections
<1>4. w + Len(c.qOut) <= Len(S) /\ (more => w + Len(c.qOut) + Len(c.posted) = Len(S))
  BY <1>2 DEF Fits, Outgoing, Complete
<1>5. AllWellFormed(S)
  BY <1>1 DEF AllWellFormed
<1>6. clean => Len(d.qIn) <= Len(S)
  BY <1>2, <1>5 DEF Fits, Placed, Reads
<1>7. Len(c.qOut) \in Nat /\ Len(d.qIn) \in Nat /\ Len(c.posted) \in Nat /\ w = 0
  BY <1>1, <1>3
<1>8. Len(c.qOut) = 0 /\ (clean => Len(d.qIn) = 0)
  BY <1>1, <1>4, <1>6, <1>7
<1>9. ASSUME more PROVE Len(c.posted) = 0
  <2>1. 0 + 0 + Len(c.posted) = 0
    BY <1>1, <1>4, <1>7, <1>8, <1>9
  <2> QED  BY <1>7, <2>1
<1> QED  BY <1>3, <1>8, <1>9, EmptySeq

\* The handshake value is on its way to whoever expects it.
LEMMA FirstThere ==
    ASSUME NEW S \in Seq(SendMsgs), NEW cells \in Seq(Cells), NEW c \in Connections,
           NEW d, NEW more, NEW listening,
           Linked(S, cells, c, d, more, FALSE, TRUE, listening, TRUE),
           c.open, c.writing # "idle" => c.qOut # <<>>
    PROVE  cells # <<>>
<1>1. PICK off \in Offsets(S), w \in 0..Len(S), R \in Nat :
        /\ R \in 0..off[Len(S)]
        /\ Fits(S, cells, c, d, more, FALSE, TRUE, listening, TRUE, off, w, R)
  BY Linkage
<1>2. 0 + Len(cells) = Reached(off, w, c.writing) /\ w + Len(c.qOut) <= Len(S)
  BY <1>1 DEF Fits, Placed, Outgoing
<1>3. c.qOut \in Seq(Messages) /\ c.writing \in {"idle", "header", "body"}
  BY DEF Connections
<1>4. Len(S) \in Nat /\ (c.writing # "idle" => w + 1 \in 0..Len(S)) /\ 0 \in 0..Len(S)
  BY <1>2, <1>3
<1>5. /\ off[w] \in Nat /\ (0 < w => off[0] < off[w]) /\ off[0] = 1
      /\ c.writing # "idle" => off[w + 1] \in Nat /\ off[0] < off[w + 1]
  <2>1. /\ \A k \in 0..Len(S) : off[k] \in Nat
        /\ off[0] = 1 /\ \A i, j \in 0..Len(S) : i < j => off[i] < off[j]
    BY OffsetsType
  <2>2. 0 < w + 1
    OBVIOUS
  <2> QED  BY <1>4, <2>1, <2>2
<1>6. off[w] >= 1
  BY <1>5
<1>7. Reached(off, w, c.writing) >= 1
  BY <1>3, <1>5, <1>6 DEF Reached
<1> QED  BY <1>2, <1>7

\* An end that has something to write has read the handshake value.
LEMMA Sending ==
    ASSUME IInv, NEW e \in End,
           conn[e].posted # <<>> \/ conn[e].writing # "idle" \/ (e = "client" /\ phase # "waiting")
    PROVE  /\ listed \in {"yes", "dropped"} /\ ~Silent(e)
           /\ e = "client" => phase # "waiting"
           /\ e = "client" => conn["client"].qIn # <<>>
<1>1. /\ TypeOK /\ Given /\ Shaking /\ "client" \in End /\ "server" \in End
      /\ conn["server"] \in Connections /\ conn["client"] \in Connections
  BY DEF IInv, TypeOK, End
<1>2. /\ sent["client"] \in Seq(SendMsgs) /\ sent["server"] \in Seq(SendMsgs)
      /\ wire["client"] \in Seq(Cells) /\ wire["server"] \in Seq(Cells)
  BY <1>1, Sendable DEF TypeOK
<1>3. /\ Linked(sent["client"], wire["server"], conn["client"], conn["server"],
                More("client"), Silent("client"), Expecting("server"), Listening("server"), Clean("client"))
      /\ Linked(sent["server"], wire["client"], conn["server"], conn["client"],
                More("server"), Silent("server"), Expecting("client"), Listening("client"), Clean("server"))
  BY <1>1 DEF IInv, Carried, Peer
<1>4. listed \in {"no", "denied"} => conn["client"].qIn = <<>> /\ conn["server"] = Fresh
  <2>1. listed \in {"no", "denied"} => sent["server"] = <<>> /\ conn["server"] = Fresh /\ Clean("server")
    BY <1>1 DEF Shaking
  <2> QED  BY <1>1, <1>2, <1>3, <2>1, NothingSent
<1>5. phase = "waiting" => conn["client"].posted = <<>> /\ conn["client"].writing = "idle"
  <2>1. phase = "waiting" => sent["client"] = <<>> /\ conn["client"].writing = "idle"
    BY <1>1 DEF Shaking
  <2>2. phase = "waiting" => More("client")
    BY DEF More
  <2> QED  BY <1>1, <1>2, <1>3, <2>1, <2>2, NothingSent
<1>6. conn["client"].qIn = <<>> => phase = "waiting"
  BY <1>1 DEF Shaking
<1>7. e = "client" => phase # "waiting" /\ conn["client"].qIn # <<>>
  BY <1>5, <1>6
<1>8. listed \notin {"no", "denied"}
  <2>1. e = "server" => conn["server"] # Fresh
    BY DEF Fresh
  <2> QED  BY <1>4, <1>7, <2>1 DEF End
<1>9. ~Silent(e)
  BY <1>1, <1>7 DEF Silent, Shaking
<1> QED  BY <1>1, <1>7, <1>8, <1>9 DEF TypeOK

\* what e writes goes to the end of the stream, or is mixed with WriteValidation
Written(e, cells) ==
    \/ wire' = [wire EXCEPT ![Peer(e)] = @ \o cells] /\ mixed' = mixed
    \/ Mixes(e, cells)

\* What a write does to the streams: only the server's writes mix, and a stream on
\* which none did has been appended to.
LEMMA WrittenStream ==
    ASSUME IInv, NEW e \in End, e = "client" => phase # "waiting",
           NEW cells \in Seq(Cells), Written(e, cells)
    PROVE  /\ wire' \in [End -> Seq(Cells)] /\ wire'[e] = wire[e]
           /\ Len(wire'[Peer(e)]) >= Len(wire[Peer(e)])
           /\ mixed' \subseteq End /\ Clean("client")' /\ Clean(Peer(e))' = Clean(Peer(e))
           /\ Clean(e)' => Clean(e) /\ wire'[Peer(e)] = wire[Peer(e)] \o cells
           /\ ~Clean(e)' => \/ wire'[Peer(e)] # <<>> /\ Head(wire'[Peer(e)]) = Mix
                            \/ ~Clean(e) /\ wire'[Peer(e)] = wire[Peer(e)] \o cells
<1> DEFINE q == Peer(e)
<1>1. TypeOK /\ Given /\ Shaking /\ q \in End /\ q # e /\ e \in End
  BY Ends DEF IInv
<1>2. /\ wire \in [End -> Seq(Cells)] /\ wire[q] \in Seq(Cells) /\ wire[e] \in Seq(Cells)
      /\ mixed \subseteq End /\ "client" \notin mixed
  BY <1>1 DEF TypeOK, Given, Clean
<1> HIDE DEF q
<1>3. ASSUME wire' = [wire EXCEPT ![q] = @ \o cells], mixed' = mixed
      PROVE  /\ wire' \in [End -> Seq(Cells)] /\ wire'[e] = wire[e] /\ wire'[q] = wire[q] \o cells
             /\ Len(wire'[q]) >= Len(wire[q])
  BY <1>1, <1>2, <1>3
<1>4. ASSUME Mixes(e, cells)
      PROVE  /\ wire' \in [End -> Seq(Cells)] /\ wire'[e] = wire[e]
             /\ Len(wire'[q]) >= Len(wire[q]) /\ wire'[q] # <<>> /\ Head(wire'[q]) = Mix
             /\ mixed' = mixed \cup {e} /\ e = "server" /\ q = "client"
  <2> DEFINE n == Len(wire[q]) + Len(cells)
             new == [i \in 1..n |-> Mix]
  <2>1. /\ wire' = [wire EXCEPT ![q] = [i \in 1..(Len(@) + Len(cells)) |-> Mix]]
        /\ mixed' = mixed \cup {e} /\ conn[e].validating /\ wire[q] # <<>>
    BY <1>4 DEF Mixes, HalfValidated, q
  <2>2. wire' = [wire EXCEPT ![q] = new]
    BY <1>1, <1>2, <2>1
  <2>3. Len(wire[q]) \in Nat \ {0} /\ Len(cells) \in Nat /\ n \in Nat /\ n >= Len(wire[q]) /\ n > 0
    BY <1>2, <2>1
  <2> HIDE DEF n
  <2>4. Mix \in Cells
    BY DEF Cells
  <2>5. new \in Seq(Cells) /\ Len(new) = n /\ new[1] = Mix
    BY <2>3, <2>4
  <2> HIDE DEF new
  <2>6. new # <<>> /\ Head(new) = Mix
    BY <2>3, <2>5
  <2>7. wire' \in [End -> Seq(Cells)] /\ wire'[e] = wire[e] /\ wire'[q] = new
    BY <1>1, <1>2, <2>2, <2>5
  <2>8. e = "server" /\ q = "client"
    <3>1. e # "client"
      BY <1>1, <2>1 DEF Shaking
    <3> QED  BY <3>1 DEF End, q, Peer
  <2> QED  BY <2>1, <2>3, <2>5, <2>6, <2>7, <2>8
<1>5. ASSUME wire' = [wire EXCEPT ![q] = @ \o cells], mixed' = mixed
      PROVE  /\ mixed' \subseteq End /\ Clean("client")' /\ Clean(q)' = Clean(q) /\ Clean(e)' = Clean(e)
  BY <1>2, <1>5 DEF Clean
<1>6. ASSUME Mixes(e, cells)
      PROVE  /\ mixed' \subseteq End /\ Clean("client")' /\ Clean(q)' = Clean(q) /\ ~Clean(e)'
  BY <1>1, <1>2, <1>4, <1>6 DEF Clean
<1>7. (wire' = [wire EXCEPT ![q] = @ \o cells] /\ mixed' = mixed) \/ Mixes(e, cells)
  BY DEF Written, q
<1>8. CASE Mixes(e, cells)
  BY ONLY <1>4, <1>6, <1>8 DEF q
<1>9. CASE wire' = [wire EXCEPT ![q] = @ \o cells] /\ mixed' = mixed
  BY ONLY <1>3, <1>5, <1>9 DEF q
<1> QED  BY <1>7, <1>8, <1>9

\* What a step of a writer that may send, write, close or leave has to show.
LEMMA WriterKeeps ==
    ASSUME IInv, NEW e \in End, NEW c2 \in Connections, conn' = [conn EXCEPT ![e] = c2],
           NEW cells \in Seq(Cells), Written(e, cells),
           cells # <<>> => conn[e].open,
           listed \in {"yes", "dropped"}, listed' \in {"yes", "dropped"}, ~Silent(e),
           UNCHANGED <<snek, verdict>>, up' \in BOOLEAN,
           taken' \in 0..Len(conn["server"].qIn),
           phase' \in {"waiting", "run", "leaving", "stopped", "exited"},
           phase' = "waiting" <=> phase = "waiting", e = "server" => phase' = phase,
           e = "client" => phase # "waiting",
           NEW S \in Seq(SendMsgs), sent' = [sent EXCEPT ![e] = S],
           e = "client" => S \in Seq(ClientMsgs),
           c2.qIn = conn[e].qIn, c2.msgIn = conn[e].msgIn, c2.handshake = conn[e].handshake,
           c2.validating = conn[e].validating, c2.reading = conn[e].reading,
           c2.done \subseteq conn[e].done, "write" \in c2.done => c2.writing # "idle",
           c2.open /\ c2.qOut # <<>> => c2.writing # "idle",
           c2.writing # "idle" => c2.qOut # <<>>,
           Linked(S, wire'[Peer(e)], c2, conn[Peer(e)],
                  More(e)', FALSE, Expecting(Peer(e)), Listening(Peer(e)), Clean(e)')
    PROVE  IInv'
<1> DEFINE c == conn[e]
           q == Peer(e)
<1>1. /\ TypeOK /\ Given /\ Shaking /\ Arrived /\ Announced /\ WriteChain /\ SnekAdmitted
      /\ c \in Connections /\ conn[q] \in Connections
  BY Ends DEF IInv, TypeOK
<1>2. conn' \in [End -> Connections] /\ conn'[e] = c2 /\ conn'[q] = conn[q]
  BY <1>1, Changed
<1>3. /\ q \in End /\ Peer(q) = e /\ q # e /\ (\A f \in End : f = e \/ f = q)
      /\ "client" \in End /\ "server" \in End
  BY Ends DEF End
<1>4. /\ wire' \in [End -> Seq(Cells)] /\ wire'[e] = wire[e] /\ Len(wire'[q]) >= Len(wire[q])
      /\ mixed' \subseteq End /\ Clean("client")' /\ Clean(q)' = Clean(q)
      /\ Clean(e)' => Clean(e) /\ wire'[q] = wire[q] \o cells
      /\ ~Clean(e)' => \/ wire'[q] # <<>> /\ Head(wire'[q]) = Mix
                       \/ ~Clean(e) /\ wire'[q] = wire[q] \o cells
      /\ wire[q] \in Seq(Cells) /\ wire[e] \in Seq(Cells)
  <2>1. wire[q] \in Seq(Cells) /\ wire[e] \in Seq(Cells)
    BY <1>1, <1>3 DEF TypeOK
  <2> QED  BY ONLY IInv, e \in End, e = "client" => phase # "waiting", cells \in Seq(Cells), Written(e, cells),
              <2>1, WrittenStream
<1>5. sent' \in [End -> Seq(Messages)] /\ sent'[e] = S /\ sent'[q] = sent[q]
  <2>1. S \in Seq(Messages)
    BY Readable, SeqMonotonic
  <2> QED  BY <1>1, <1>3, <2>1 DEF TypeOK
<1> HIDE DEF q
<1>6. \A f \in End :
        /\ conn'[f].validating = conn[f].validating /\ conn'[f].reading = conn[f].reading
        /\ conn'[f].msgIn = conn[f].msgIn /\ conn'[f].qIn = conn[f].qIn
        /\ conn'[f].handshake = conn[f].handshake /\ conn'[f].done \subseteq conn[f].done
        /\ "write" \in conn'[f].done => conn'[f].writing # "idle"
  <2>1. "write" \in conn[q].done => conn[q].writing # "idle"
    BY <1>1, <1>3, DoneIsPending
  <2> QED  BY <1>2, <1>3, <2>1
<1>7. TypeOK'
  <2>1. \A f \in End : conn'[f].done \subseteq Pending(f)'
    <3>1. ASSUME NEW f \in End
          PROVE  /\ conn'[f].done \subseteq {"write", "validate", "read"}
                 /\ "validate" \in conn'[f].done => conn'[f].validating
                 /\ "read" \in conn'[f].done => conn'[f].reading # "idle"
      <4>1. conn[f].done \subseteq {"write", "validate", "read"}
        BY <1>1 DEF TypeOK, Connections
      <4> QED  BY <1>1, <1>6, <4>1, DoneIsPending
    <3> QED  BY <1>6, <3>1 DEF Pending
  <2>2. taken' \in 0..Len(conn'["server"].qIn)
    BY <1>3, <1>6
  <2>3. snek' \in BOOLEAN /\ verdict' \in {"none", "validated", "rejected"}
    BY <1>1 DEF TypeOK
  <2> QED  BY <1>2, <1>4, <1>5, <2>1, <2>2, <2>3 DEF TypeOK
<1>8. Given'
  <2>1. sent["client"] \in Seq(ClientMsgs) /\ sent["server"] \in Seq(SendMsgs)
    BY <1>1 DEF Given
  <2>2. sent'["client"] \in Seq(ClientMsgs) /\ sent'["server"] \in Seq(SendMsgs)
    BY <1>3, <1>5, <2>1
  <2> QED  BY <1>1, <1>3, <1>4, <1>6, <2>2 DEF Given
<1>9. \A f \in End :
        /\ Silent(f)' = Silent(f)
        /\ Expecting(f)' = Expecting(f)
        /\ Listening(f)' = Listening(f)
  BY <1>6 DEF Silent, Expecting, Listening
<1>10. More(q)' = More(q)
  BY <1>3 DEF More, End, q, Peer
<1>11. Linked(sent[e], wire[q], c, conn[q], More(e), Silent(e), Expecting(q), Listening(q), Clean(e))
  BY <1>3 DEF IInv, Carried
<1>12. Linked(sent[q], wire[e], conn[q], c, More(q), Silent(q), Expecting(e), Listening(e), Clean(q))
  BY <1>3 DEF IInv, Carried, q
<1>13. sent[e] \in Seq(SendMsgs) /\ sent[q] \in Seq(SendMsgs)
  BY <1>1, <1>3, Sendable
<1>14. Clean(e)' /\ Expecting(q) /\ cells # <<>> => wire[q] # <<>>
  <2>1. c.writing # "idle" => c.qOut # <<>>
    BY <1>1 DEF WriteChain
  <2> SUFFICES ASSUME Clean(e)', Expecting(q), cells # <<>> PROVE wire[q] # <<>>
    OBVIOUS
  <2>2. c.open
    OBVIOUS
  <2>3. Silent(e) = FALSE /\ Expecting(q) = TRUE /\ Clean(e) = TRUE
    BY <1>4 DEF Silent, Expecting, Clean
  <2>4. Linked(sent[e], wire[q], c, conn[q], More(e), FALSE, TRUE, Listening(q), TRUE)
    BY <1>11, <2>3
  <2> QED  BY <1>1, <1>4, <1>13, <2>1, <2>2, <2>4, FirstThere
<1>15. Clean(e)' /\ Expecting(q) /\ wire'[q] # <<>> => wire[q] # <<>> /\ Head(wire'[q]) = Head(wire[q])
  <2>1. wire[q] # <<>> => Head(wire[q] \o cells) = Head(wire[q])
    BY <1>4
  <2>2. Clean(e)' /\ cells = <<>> => wire'[q] = wire[q]
    BY <1>4
  <2> QED  BY <1>4, <1>14, <2>1, <2>2
<1>16. \A f \in End :
         Clean(Peer(f))' /\ Expecting(f) /\ wire'[f] # <<>> => wire[f] # <<>> /\ Head(wire'[f]) = Head(wire[f])
  BY <1>3, <1>4, <1>15
<1>17. Shaking'
  <2>1. Clean("server")' => Clean("server")
    BY <1>3, <1>4
  <2>2. Silent("client")' => wire'["server"] = <<>>
    <3>1. Silent("client") => e = "server"
      BY <1>3 DEF End
    <3> QED  BY <1>1, <1>3, <1>4, <1>9, <3>1 DEF Shaking
  <2>3. Silent("client")' /\ wire'["client"] # <<>> /\ Clean("server")' =>
             Head(wire'["client"]) = Validation(conn'["server"].handshake)
    <3>1. (Silent("client") => Expecting("client")) /\ Peer("client") = "server"
      BY DEF Silent, Expecting, Peer
    <3> QED  BY <1>1, <1>3, <1>6, <1>9, <1>16, <2>1, <3>1 DEF Shaking
  <2>4. Silent("client")' /\ ~Clean("server")' => wire'["client"] # <<>> /\ Head(wire'["client"]) = Mix
    <3> SUFFICES ASSUME Silent("client"), ~Clean("server")'
                 PROVE  wire'["client"] # <<>> /\ Head(wire'["client"]) = Mix
      BY <1>3, <1>9
    <3>1. e = "server" /\ q = "client"
      BY <1>3 DEF End, q, Peer
    <3>2. ~Clean("server") => wire["client"] # <<>> /\ Head(wire["client"]) = Mix
      BY <1>1 DEF Shaking
    <3>3. wire[q] # <<>> => wire[q] \o cells # <<>> /\ Head(wire[q] \o cells) = Head(wire[q])
      BY <1>4
    <3> QED  BY <1>4, <3>1, <3>2, <3>3
  <2>5. /\ conn'["client"].validating => conn'["client"].reading = "idle"
        /\ Silent("client")' \/ conn'["client"].validating => conn'["client"].qIn = <<>>
        /\ conn'["client"].qIn = <<>> => phase' = "waiting"
    BY <1>1, <1>3, <1>6, <1>9 DEF Shaking
  <2>6. phase' = "waiting" => sent'["client"] = <<>> /\ conn'["client"].writing = "idle"
    <3>1. phase' = "waiting" => e = "server" /\ q = "client"
      BY <1>3 DEF End, q, Peer
    <3> QED  BY <1>1, <1>2, <1>5, <3>1 DEF Shaking
  <2>7. /\ conn'["server"].reading = "validation" => conn'["server"].qIn = <<>>
        /\ conn'["server"].reading # "connect"
    BY <1>1, <1>3, <1>6 DEF Shaking
  <2>8. conn'["server"].reading = "validation" /\ wire'["server"] # <<>> =>
           /\ Head(wire'["server"]) = Validation(conn'["client"].handshake)
           /\ snek' /\ Clean("server")' => conn'["client"].handshake = Scramble(conn'["server"].handshake)
    <3>1. (conn["server"].reading = "validation" => Expecting("server")) /\ Peer("server") = "client"
      BY DEF Expecting, Peer
    <3> QED  BY <1>1, <1>3, <1>4, <1>6, <1>16, <2>1, <3>1 DEF Shaking
  <2>9. listed' \notin {"no", "denied"}
    OBVIOUS
  <2> QED  BY <2>2, <2>3, <2>5, <2>6, <2>7, <2>8, <2>9, <2>4 DEF Shaking
<1>18. Arrived'
  <2>1. \A f \in End : Len(wire'[f]) >= Len(wire[f]) /\ Len(wire[f]) \in Nat /\ Len(wire'[f]) \in Nat
    <3>1. wire'[e] \in Seq(Cells) /\ wire'[q] \in Seq(Cells)
      BY <1>3, <1>4
    <3>2. Len(wire'[e]) \in Nat /\ Len(wire'[q]) \in Nat /\ Len(wire[e]) \in Nat /\ Len(wire[q]) \in Nat
      BY <1>4, <3>1
    <3>3. Len(wire'[e]) >= Len(wire[e])
      BY <1>4, <3>2
    <3> QED  BY <1>3, <1>4, <3>2, <3>3
  <2>2. \A f \in End : Asked(f)' = Asked(f) /\ Asked(f) \in Nat
    BY <1>1, <1>6, ZenonT(60) DEF Asked, TypeOK, Connections, Messages
  <2>3. \A f \in End : "read" \in conn'[f].done => Len(wire[f]) >= Asked(f)
    BY <1>1, <1>6 DEF Arrived
  <2> QED  BY <2>1, <2>2, <2>3 DEF Arrived
<1>19. WriteChain' /\ SnekAdmitted' /\ Announced'
  <2>1. WriteChain' /\ SnekAdmitted'
    <3>1. Clean("server")' => Clean("server")
      BY <1>3, <1>4
    <3> QED  BY <1>1, <1>2, <1>3, <3>1 DEF WriteChain, SnekAdmitted, Clean
  <2>2. Announced'
    BY <1>1, <1>6 DEF Announced
  <2> QED  BY <2>1, <2>2
<1>20. Carried(q)'
  <2>1. Linked(S, wire'[q], c2, conn[q], More(e)', Silent(e)', Expecting(q)', Listening(q)', Clean(e)')
    <3>1. Linked(S, wire'[q], c2, conn[q], More(e)', FALSE, Expecting(q), Listening(q), Clean(e)')
      BY DEF q
    <3>2. Silent(e) = FALSE
      BY DEF Silent
    <3>3. Silent(e)' = Silent(e) /\ Expecting(q)' = Expecting(q) /\ Listening(q)' = Listening(q)
      BY <1>3, <1>9
    <3> QED  BY <3>1, <3>2, <3>3
  <2> QED  BY <1>2, <1>3, <1>5, <2>1 DEF Carried, q
<1>21. Carried(e)'
  <2>1. Linked(sent[q], wire[e], conn[q], c2, More(q)', Silent(q)', Expecting(e)', Listening(e)', Clean(q)')
    <3>1. /\ Clean(q)' = Clean(q) /\ Silent(q)' = Silent(q) /\ Expecting(e)' = Expecting(e)
          /\ Listening(e)' = Listening(e) /\ More(q)' = More(q)
      BY <1>3, <1>4, <1>9, <1>10
    <3>2. Linked(sent[q], wire[e], conn[q], c2, More(q), Silent(q), Expecting(e), Listening(e), Clean(q))
      BY <1>4, <1>12, <1>13, LinkSame
    <3> QED  BY <3>1, <3>2
  <2> QED  BY <1>2, <1>3, <1>4, <1>5, <2>1 DEF Carried, q
<1> QED  BY <1>3, <1>7, <1>8, <1>17, <1>18, <1>19, <1>20, <1>21 DEF IInv

\* Where an end that writes starts from.
LEMMA WriterLink ==
    ASSUME IInv, NEW e \in End, ~Silent(e)
    PROVE  /\ sent[e] \in Seq(SendMsgs) /\ wire[Peer(e)] \in Seq(Cells)
           /\ conn[e] \in Connections /\ conn[Peer(e)] \in Connections
           /\ conn[e].writing # "idle" => conn[e].qOut # <<>>
           /\ conn[e].open /\ conn[e].qOut # <<>> => conn[e].writing # "idle"
           /\ Linked(sent[e], wire[Peer(e)], conn[e], conn[Peer(e)],
                     More(e), FALSE, Expecting(Peer(e)), Listening(Peer(e)), Clean(e))
<1>1. TypeOK /\ Given /\ WriteChain
  BY DEF IInv
<1>2. /\ sent[e] \in Seq(SendMsgs) /\ wire[Peer(e)] \in Seq(Cells)
      /\ conn[e] \in Connections /\ conn[Peer(e)] \in Connections
  BY <1>1, Ends, Sendable DEF TypeOK
<1>3. Silent(e) = FALSE
  BY DEF Silent
<1>4. Linked(sent[e], wire[Peer(e)], conn[e], conn[Peer(e)],
             More(e), Silent(e), Expecting(Peer(e)), Listening(Peer(e)), Clean(e))
  BY Ends DEF IInv, Carried
<1> QED  BY <1>1, <1>2, <1>3, <1>4 DEF WriteChain

\* What an end has to write can be sent.
LEMMA Writable ==
    ASSUME NEW S \in Seq(SendMsgs), NEW cells \in Seq(Cells), NEW c \in Connections,
           NEW d, NEW more, NEW silent, NEW expecting, NEW listening, NEW clean,
           Linked(S, cells, c, d, more, silent, expecting, listening, clean)
    PROVE  /\ c.posted # <<>> /\ Head(c.posted) # CloseSocket => Head(c.posted) \in SendMsgs
           /\ \A i \in 1..Len(c.qOut) : c.qOut[i] \in SendMsgs
<1>1. PICK off \in Offsets(S), w \in 0..Len(S), R \in Nat :
        /\ R \in 0..off[Len(S)]
        /\ Fits(S, cells, c, d, more, silent, expecting, listening, clean, off, w, R)
  BY Linkage
<1>2. Outgoing(S, w, c.posted, c.qOut)
  BY <1>1 DEF Fits
<1>3. c.posted \in Seq(Messages \cup {CloseSocket}) /\ c.qOut \in Seq(Messages)
  BY DEF Connections
<1>4. Len(S) \in Nat /\ Len(c.qOut) \in Nat /\ Len(c.posted) \in Nat /\ w + Len(c.qOut) <= Len(S)
  BY <1>2, <1>3 DEF Outgoing
<1>5. \A k \in 1..Len(S) : S[k] \in SendMsgs
  OBVIOUS
<1>6. ASSUME NEW i \in 1..Len(c.qOut) PROVE c.qOut[i] \in SendMsgs
  <2>1. w + i \in 1..Len(S)
    BY <1>4
  <2> QED  BY <1>2, <1>5, <2>1 DEF Outgoing
<1>7. ASSUME c.posted # <<>>, Head(c.posted) # CloseSocket PROVE Head(c.posted) \in SendMsgs
  <2>1. 1 \in 1..Len(c.posted) /\ Head(c.posted) = c.posted[1]
    BY <1>3, <1>7
  <2>2. w + Len(c.qOut) + 1 <= Len(S) /\ c.posted[1] = S[w + Len(c.qOut) + 1]
    BY <1>2, <1>7, <2>1 DEF Outgoing
  <2>3. w + Len(c.qOut) + 1 \in 1..Len(S)
    BY <1>4, <2>2
  <2> QED  BY <1>5, <2>1, <2>2, <2>3
<1> QED  BY <1>6, <1>7

\* What Put writes, as an update of the wire.
LEMMA PutCells ==
    ASSUME TypeOK, NEW e \in End, NEW c2, NEW new \in Seq(Cells), Put(e, c2, new)
    PROVE  /\ conn' = [conn EXCEPT ![e] = c2]
           /\ Written(e, IF c2.open THEN new ELSE <<>>)
           /\ Clean(e)' => wire'[Peer(e)] = IF c2.open THEN wire[Peer(e)] \o new ELSE wire[Peer(e)]
<1>1. wire \in [End -> Seq(Cells)] /\ Peer(e) \in End
  BY Ends DEF TypeOK
<1>2. wire[Peer(e)] \in Seq(Cells)
  BY <1>1
<1>3. wire[Peer(e)] \o <<>> = wire[Peer(e)]
  BY <1>2
<1>4. CASE c2.open
  <2>1. conn' = [conn EXCEPT ![e] = c2] /\ Written(e, new)
    BY <1>4 DEF Put, Written
  <2>2. Clean(e)' => wire' = [wire EXCEPT ![Peer(e)] = @ \o new]
    BY <2>1 DEF Written, Mixes, Clean
  <2> QED  BY <1>1, <1>4, <2>1, <2>2
<1>5. CASE ~c2.open
  <2>1. wire' = wire /\ mixed' = mixed /\ conn' = [conn EXCEPT ![e] = c2]
    BY <1>5 DEF Put
  <2>2. [wire EXCEPT ![Peer(e)] = @ \o <<>>] = wire
    BY <1>1, <1>3
  <2> QED  BY <1>5, <2>1, <2>2 DEF Written
<1> QED  BY <1>4, <1>5

\* The header of what can be sent is a cell.
LEMMA HeaderIsCell ==
    ASSUME NEW m \in SendMsgs
    PROVE  <<Header(m)>> \in Seq(Cells)
  BY DEF SendMsgs

\* What a handler that writes has to show.
LEMMA PutKeeps ==
    ASSUME IInv, NEW e \in End, NEW c2 \in Connections, NEW new \in Seq(Cells), Put(e, c2, new),
           UNCHANGED <<up, app>>, conn[e].posted # <<>> \/ conn[e].writing # "idle",
           c2.open = conn[e].open,
           c2.qIn = conn[e].qIn, c2.msgIn = conn[e].msgIn, c2.handshake = conn[e].handshake,
           c2.validating = conn[e].validating, c2.reading = conn[e].reading,
           c2.done \subseteq conn[e].done, "write" \in c2.done => c2.writing # "idle",
           c2.open /\ c2.qOut # <<>> => c2.writing # "idle",
           c2.writing # "idle" => c2.qOut # <<>>,
           Linked(sent[e], IF conn[e].open THEN wire[Peer(e)] \o new ELSE wire[Peer(e)],
                  c2, conn[Peer(e)], More(e), FALSE, Expecting(Peer(e)), Listening(Peer(e)), Clean(e))
    PROVE  IInv'
<1> DEFINE q == Peer(e)
           cells == IF conn[e].open THEN new ELSE <<>>
<1>1. TypeOK /\ Given /\ UNCHANGED <<up, snek, listed, verdict, taken, phase, sent>>
  BY DEF IInv, app
<1>2. /\ conn' = [conn EXCEPT ![e] = c2]
      /\ Written(e, IF c2.open THEN new ELSE <<>>)
      /\ Clean(e)' => wire'[q] = IF c2.open THEN wire[q] \o new ELSE wire[q]
  BY <1>1, PutCells
<1>3. cells \in Seq(Cells) /\ (cells # <<>> => conn[e].open) /\ Written(e, cells)
  BY <1>2
<1> HIDE DEF cells
<1>4. listed \in {"yes", "dropped"} /\ ~Silent(e) /\ (e = "client" => phase # "waiting")
  BY Sending
<1>5. More(e)' = More(e)
  BY <1>1 DEF More
<1>6. Linked(sent[e], wire'[q], c2, conn[q], More(e)', FALSE, Expecting(q), Listening(q), Clean(e)')
  <2>1. Linked(sent[e], IF conn[e].open THEN wire[q] \o new ELSE wire[q],
               c2, conn[q], More(e), FALSE, Expecting(q), Listening(q), Clean(e))
    OBVIOUS
  <2>2. /\ wire[q] \in Seq(Cells) /\ wire'[q] \in Seq(Cells) /\ sent[e] \in Seq(SendMsgs)
        /\ Clean(e)' => Clean(e)
    <3>1. q \in End /\ wire' \in [End -> Seq(Cells)] /\ (Clean(e)' => Clean(e))
      BY ONLY IInv, e \in End, <1>3, <1>4, WrittenStream, Ends
    <3> QED  BY <1>1, <3>1, Sendable DEF TypeOK
  <2>3. CASE Clean(e)'
    <3>1. Clean(e)' = Clean(e)
      BY <2>2, <2>3
    <3> QED  BY <1>2, <1>5, <2>1, <2>3, <3>1
  <2>4. CASE ~Clean(e)'
    <3>1. Clean(e)' = FALSE
      BY <2>4
    <3>2. (IF conn[e].open THEN wire[q] \o new ELSE wire[q]) \in Seq(Cells)
      BY <2>2
    <3>3. Linked(sent[e], wire'[q], c2, conn[q], More(e), FALSE, Expecting(q), Listening(q), FALSE)
      <4> HIDE DEF q
      <4> QED  BY ONLY <2>1, <2>2, <3>2, LinkMixed
    <3> QED  BY <1>5, <3>1, <3>3
  <2> QED  BY <2>3, <2>4
<1>7. sent[e] \in Seq(SendMsgs) /\ (e = "client" => sent[e] \in Seq(ClientMsgs))
  BY <1>1, Sendable DEF Given
<1>8. /\ sent' = [sent EXCEPT ![e] = sent[e]]
      /\ up' \in BOOLEAN /\ taken' \in 0..Len(conn["server"].qIn)
      /\ phase' \in {"waiting", "run", "leaving", "stopped", "exited"}
  BY <1>1 DEF TypeOK
<1> QED  BY <1>1, <1>2, <1>3, <1>4, <1>6, <1>7, <1>8, WriterKeeps

\* The lambda that Send posted.
LEMMA RunSendKeeps ==
    ASSUME IInv, NEW e \in End, RunSend(e)
    PROVE  IInv'
<1> DEFINE c == conn[e]
           m == Head(c.posted)
           q == Peer(e)
           c2 == [c EXCEPT !.posted = Tail(c.posted), !.qOut = Append(c.qOut, m),
                           !.writing = IF c.qOut = <<>> THEN "header" ELSE c.writing]
           new == IF c.qOut = <<>> THEN <<Header(m)>> ELSE <<>>
<1>1. c.posted # <<>> /\ m # CloseSocket /\ UNCHANGED <<up, snek, listed, verdict, taken, phase, sent>>
  BY DEF RunSend, app
<1>2. TypeOK /\ Given
  BY DEF IInv
<1>3. listed \in {"yes", "dropped"} /\ ~Silent(e) /\ (e = "client" => phase # "waiting")
  BY <1>1, Sending
<1>4. /\ sent[e] \in Seq(SendMsgs) /\ wire[q] \in Seq(Cells) /\ c \in Connections /\ conn[q] \in Connections
      /\ c.writing # "idle" => c.qOut # <<>>
      /\ c.open /\ c.qOut # <<>> => c.writing # "idle"
      /\ Linked(sent[e], wire[q], c, conn[q], More(e), FALSE, Expecting(q), Listening(q), Clean(e))
  BY <1>3, WriterLink
<1>5. m \in SendMsgs
  BY <1>1, <1>4, Writable
<1>6. m \in Messages /\ new \in Seq(Cells)
  BY <1>5, Readable, HeaderIsCell
<1>7. /\ c.posted \in Seq(Messages \cup {CloseSocket}) /\ c.qOut \in Seq(Messages)
      /\ c.writing \in {"idle", "header", "body"}
  BY <1>4 DEF Connections
<1>8. /\ Tail(c.posted) \in Seq(Messages \cup {CloseSocket}) /\ Append(c.qOut, m) \in Seq(Messages)
      /\ Append(c.qOut, m) # <<>> /\ (c.qOut = <<>> => Head(Append(c.qOut, m)) = m)
  BY <1>1, <1>6, <1>7
<1>9. Put(e, c2, new)
  <2>1. CASE c.qOut = <<>>
    <3>1. Put(e, [[c EXCEPT !.posted = Tail(c.posted), !.qOut = Append(c.qOut, m)]
                    EXCEPT !.writing = "header"],
              <<Header(Head([c EXCEPT !.posted = Tail(c.posted), !.qOut = Append(c.qOut, m)].qOut))>>)
      BY <2>1 DEF RunSend, Idle
    <3>2. [c EXCEPT !.posted = Tail(c.posted), !.qOut = Append(c.qOut, m)].qOut = Append(c.qOut, m)
      BY <1>4 DEF Connections
    <3>3. [[c EXCEPT !.posted = Tail(c.posted), !.qOut = Append(c.qOut, m)] EXCEPT !.writing = "header"] = c2
      BY <1>4, <2>1 DEF Connections
    <3> QED  BY <1>8, <2>1, <3>1, <3>2, <3>3
  <2>2. CASE c.qOut # <<>>
    <3>1. Put(e, [c EXCEPT !.posted = Tail(c.posted), !.qOut = Append(c.qOut, m)], <<>>)
      BY <2>2 DEF RunSend, Idle
    <3>2. [c EXCEPT !.posted = Tail(c.posted), !.qOut = Append(c.qOut, m)] = c2
      BY <1>4, <2>2 DEF Connections
    <3> QED  BY <2>2, <3>1, <3>2
  <2> QED  BY <2>1, <2>2
<1>10. /\ c2 \in Connections /\ c2.posted = Tail(c.posted) /\ c2.qOut = Append(c.qOut, m)
       /\ c2.writing = (IF c.qOut = <<>> THEN "header" ELSE c.writing)
       /\ c2.open = c.open /\ c2.validating = c.validating /\ c2.reading = c.reading
       /\ c2.done = c.done /\ c2.msgIn = c.msgIn /\ c2.qIn = c.qIn /\ c2.handshake = c.handshake
  BY <1>4, <1>7, <1>8 DEF Connections
<1> HIDE DEF c2
<1>11. Linked(sent[e], IF c.open THEN wire[q] \o new ELSE wire[q], c2, conn[q],
              More(e), FALSE, Expecting(q), Listening(q), Clean(e))
  <2> DEFINE cells2 == IF c.open THEN wire[q] \o new ELSE wire[q]
  <2>1. cells2 = IF c.open /\ c.qOut = <<>> THEN wire[q] \o <<Header(m)>> ELSE wire[q]
    <3>1. wire[q] \o <<>> = wire[q]
      BY <1>4
    <3> QED  BY <3>1
  <2> HIDE DEF cells2
  <2>2. Linked(sent[e], cells2, c2, conn[q], More(e), FALSE, Expecting(q), Listening(q), Clean(e))
    BY <1>1, <1>4, <1>10, <2>1, LinkSent
  <2> QED  BY <2>2 DEF cells2
<1>12. /\ "write" \in c2.done => c2.writing # "idle"
       /\ c2.open /\ c2.qOut # <<>> => c2.writing # "idle"
       /\ c2.writing # "idle" => c2.qOut # <<>>
  <2>1. "write" \in c.done => c.writing # "idle"
    BY <1>2, DoneIsPending
  <2> QED  BY <1>4, <1>8, <1>10, <2>1
<1> HIDE DEF new
<1> QED  BY <1>1, <1>6, <1>9, <1>10, <1>11, <1>12, PutKeeps DEF app

\* PopFront, and WriteHeader of the next message.
LEMMA NextMessageKeeps ==
    ASSUME IInv, NEW e \in End, NextMessage(e), UNCHANGED <<up, app>>,
           \/ conn[e].writing = "body"
           \/ conn[e].writing = "header" /\ Head(conn[e].qOut).body = <<>>
    PROVE  IInv'
<1> DEFINE c == conn[e]
           q == Peer(e)
           rest == Tail(c.qOut)
           c2 == [c EXCEPT !.qOut = rest, !.done = c.done \ {"write"},
                           !.writing = IF rest = <<>> THEN "idle" ELSE "header"]
           new == IF rest = <<>> THEN <<>> ELSE <<Header(Head(rest))>>
<1>1. c.writing # "idle" /\ TypeOK
  BY DEF IInv
<1>2. ~Silent(e)
  BY <1>1, Sending
<1>3. /\ sent[e] \in Seq(SendMsgs) /\ wire[q] \in Seq(Cells) /\ c \in Connections /\ conn[q] \in Connections
      /\ c.qOut # <<>>
      /\ Linked(sent[e], wire[q], c, conn[q], More(e), FALSE, Expecting(q), Listening(q), Clean(e))
  BY <1>1, <1>2, WriterLink
<1>4. c.qOut \in Seq(Messages)
  BY <1>3 DEF Connections
<1>5. rest \in Seq(Messages) /\ (rest # <<>> => Head(rest) = c.qOut[2] /\ 2 \in 1..Len(c.qOut))
  BY <1>3, <1>4
<1>6. rest # <<>> => Head(rest) \in SendMsgs
  BY <1>3, <1>5, Writable
<1>7. new \in Seq(Cells)
  <2>1. <<>> \in Seq(Cells)
    OBVIOUS
  <2> QED  BY <1>6, <2>1, HeaderIsCell
<1>8. Put(e, c2, new)
  <2> DEFINE w == [Wrote(c) EXCEPT !.qOut = Tail(@)]
  <2>1. /\ w = [c EXCEPT !.qOut = rest, !.done = c.done \ {"write"}, !.writing = "idle"]
        /\ w.qOut = rest
    BY <1>3 DEF Wrote, Connections
  <2>2. IF w.qOut = <<>> THEN Put(e, w, <<>>)
        ELSE Put(e, [w EXCEPT !.writing = "header"], <<Header(Head(w.qOut))>>)
    BY DEF NextMessage
  <2>3. IF rest = <<>> THEN w = c2 ELSE [w EXCEPT !.writing = "header"] = c2
    BY <1>3, <2>1 DEF Connections
  <2> HIDE DEF w, c2
  <2> QED  BY <2>1, <2>2, <2>3
<1>9. /\ c2 \in Connections /\ c2.posted = c.posted /\ c2.qOut = rest
      /\ c2.writing = (IF rest = <<>> THEN "idle" ELSE "header")
      /\ c2.open = c.open /\ c2.validating = c.validating /\ c2.reading = c.reading
      /\ c2.done = c.done \ {"write"} /\ c2.msgIn = c.msgIn /\ c2.qIn = c.qIn /\ c2.handshake = c.handshake
  BY <1>3, <1>5 DEF Connections
<1> HIDE DEF c2
<1>10. Linked(sent[e], IF c.open THEN wire[q] \o new ELSE wire[q], c2, conn[q],
              More(e), FALSE, Expecting(q), Listening(q), Clean(e))
  <2> DEFINE cells2 == IF c.open THEN wire[q] \o new ELSE wire[q]
  <2>1. cells2 = IF c.open /\ rest # <<>> THEN wire[q] \o <<Header(Head(rest))>> ELSE wire[q]
    <3>1. wire[q] \o <<>> = wire[q]
      BY <1>3
    <3> QED  BY <3>1
  <2> HIDE DEF cells2
  <2>2. Linked(sent[e], cells2, c2, conn[q], More(e), FALSE, Expecting(q), Listening(q), Clean(e))
    <3>1. c.writing # "idle" /\ (c.writing = "header" => Head(c.qOut).body = <<>>)
      OBVIOUS
    <3>2. rest = Tail(c.qOut)
      OBVIOUS
    <3>3. /\ c.open /\ rest # <<>> => cells2 = wire[q] \o <<Header(Head(rest))>>
          /\ ~c.open \/ rest = <<>> => cells2 = wire[q]
      BY <2>1
    <3>4. (rest = <<>> => c2.writing = "idle") /\ (rest # <<>> => c2.writing = "header")
      BY <1>9
    <3> DEFINE m == Head(c.qOut)
    <3>5. m = Head(c.qOut) /\ (c.writing = "header" => m.body = <<>>)
      BY <3>1
    <3> HIDE DEF rest, m, c, q
    <3> QED  BY ONLY <1>3, <1>9, <3>1, <3>2, <3>3, <3>4, <3>5, LinkNext, ZenonT(60)
  <2> QED  BY <2>2 DEF cells2
<1> HIDE DEF new
<1> QED  BY <1>1, <1>7, <1>8, <1>9, <1>10, PutKeeps

\* The handler of WriteHeader.
LEMMA HeaderWrittenKeeps ==
    ASSUME IInv, NEW e \in End, HeaderWritten(e)
    PROVE  IInv'
<1> DEFINE c == conn[e]
           q == Peer(e)
           body == Head(c.qOut).body
           c2 == [c EXCEPT !.writing = "body", !.done = c.done \ {"write"}]
<1>1. c.writing = "header" /\ UNCHANGED <<up, app>> /\ TypeOK
  BY DEF HeaderWritten, IInv
<1>2. CASE body = <<>>
  BY <1>1, <1>2, NextMessageKeeps DEF HeaderWritten
<1>3. CASE body # <<>>
  <2>1. ~Silent(e)
    BY <1>1, Sending
  <2>2. /\ sent[e] \in Seq(SendMsgs) /\ wire[q] \in Seq(Cells) /\ c \in Connections /\ conn[q] \in Connections
        /\ c.qOut # <<>>
        /\ Linked(sent[e], wire[q], c, conn[q], More(e), FALSE, Expecting(q), Listening(q), Clean(e))
    BY <1>1, <2>1, WriterLink
  <2>3. Head(c.qOut) \in SendMsgs
    <3>1. c.qOut \in Seq(Messages)
      BY <2>2 DEF Connections
    <3>2. 1 \in 1..Len(c.qOut) /\ Head(c.qOut) = c.qOut[1]
      BY <2>2, <3>1
    <3> QED  BY <2>2, <3>2, Writable
  <2>4. body \in Seq(Cells)
    BY <2>3, Readable DEF Messages
  <2>5. Put(e, c2, body)
    <3>1. Put(e, [Wrote(c) EXCEPT !.writing = "body"], body)
      BY <1>3 DEF HeaderWritten
    <3>2. [Wrote(c) EXCEPT !.writing = "body"] = c2
      BY <2>2 DEF Wrote, Connections
    <3> QED  BY <3>1, <3>2
  <2>6. /\ c2 \in Connections /\ c2.posted = c.posted /\ c2.qOut = c.qOut /\ c2.writing = "body"
        /\ c2.open = c.open /\ c2.validating = c.validating /\ c2.reading = c.reading
        /\ c2.done = c.done \ {"write"} /\ c2.msgIn = c.msgIn /\ c2.qIn = c.qIn /\ c2.handshake = c.handshake
    BY <2>2 DEF Connections
  <2> HIDE DEF c2
  <2>7. Linked(sent[e], IF c.open THEN wire[q] \o body ELSE wire[q], c2, conn[q],
               More(e), FALSE, Expecting(q), Listening(q), Clean(e))
    BY <1>1, <2>2, <2>6, LinkBody
  <2> HIDE DEF body
  <2> QED  BY <1>1, <2>2, <2>4, <2>5, <2>6, <2>7, PutKeeps
<1> QED  BY <1>2, <1>3

\* The handler of WriteBody.
LEMMA BodyWrittenKeeps ==
    ASSUME IInv, NEW e \in End, BodyWritten(e)
    PROVE  IInv'
  BY NextMessageKeeps DEF BodyWritten

\* Writing no cells leaves the stream as it is.
LEMMA SameWire ==
    ASSUME TypeOK, NEW e \in End, wire' = wire, mixed' = mixed
    PROVE  Written(e, <<>>) /\ <<>> \in Seq(Cells) /\ Clean(e)' = Clean(e)
<1>1. wire \in [End -> Seq(Cells)] /\ Peer(e) \in End
  BY Ends DEF TypeOK
<1>2. wire[Peer(e)] \o <<>> = wire[Peer(e)]
  BY <1>1
<1>3. wire' = [wire EXCEPT ![Peer(e)] = @ \o <<>>]
  BY <1>1, <1>2
<1>4. Clean(e)' = Clean(e)
  BY DEF Clean
<1>5. Written(e, <<>>)
  BY <1>3 DEF Written
<1>6. <<>> \in Seq(Cells)
  OBVIOUS
<1> QED  BY <1>4, <1>5, <1>6

\* The lambda that Connection::Disconnect posted.
LEMMA RunCloseKeeps ==
    ASSUME IInv, NEW e \in End, RunClose(e)
    PROVE  IInv'
<1> DEFINE c == conn[e]
           q == Peer(e)
           c2 == Closing([c EXCEPT !.posted = Tail(@)])
<1>1. /\ c.posted # <<>> /\ Head(c.posted) = CloseSocket /\ up' = FALSE
      /\ conn' = [conn EXCEPT ![e] = c2]
      /\ UNCHANGED <<wire, mixed, snek, listed, verdict, taken, phase, sent>>
  BY DEF RunClose, Close, app, stream
<1>2. TypeOK /\ Given
  BY DEF IInv
<1>3. listed \in {"yes", "dropped"} /\ ~Silent(e) /\ (e = "client" => phase # "waiting")
  BY <1>1, Sending
<1>4. /\ sent[e] \in Seq(SendMsgs) /\ wire[q] \in Seq(Cells) /\ c \in Connections /\ conn[q] \in Connections
      /\ c.writing # "idle" => c.qOut # <<>>
      /\ Linked(sent[e], wire[q], c, conn[q], More(e), FALSE, Expecting(q), Listening(q), Clean(e))
  BY <1>3, WriterLink
<1>5. Tail(c.posted) \in Seq(Messages \cup {CloseSocket})
  <2>1. c.posted \in Seq(Messages \cup {CloseSocket})
    BY <1>4 DEF Connections
  <2> QED  BY <1>1, <2>1
<1>6. /\ c2 \in Connections /\ c2.posted = Tail(c.posted) /\ c2.qOut = c.qOut /\ c2.writing = c.writing
      /\ ~c2.open /\ c2.validating = c.validating /\ c2.reading = c.reading
      /\ c2.done = c.done /\ c2.msgIn = c.msgIn /\ c2.qIn = c.qIn /\ c2.handshake = c.handshake
  BY <1>4, <1>5 DEF Connections, Closing
<1> HIDE DEF c2
<1>7. Linked(sent[e], wire[q], c2, conn[q], More(e), FALSE, Expecting(q), Listening(q), Clean(e))
  <2> HIDE DEF c, q
  <2> QED  BY ONLY <1>1, <1>4, <1>6, LinkClosed
<1>8. Written(e, <<>>) /\ <<>> \in Seq(Cells) /\ Clean(e)' = Clean(e)
  BY <1>1, <1>2, SameWire
<1>9. Linked(sent[e], wire'[q], c2, conn[q], More(e)', FALSE, Expecting(q), Listening(q), Clean(e)')
  <2>1. More(e)' = More(e)
    BY <1>1 DEF More
  <2> QED  BY <1>1, <1>7, <1>8, <2>1
<1>10. sent' = [sent EXCEPT ![e] = sent[e]] /\ (e = "client" => sent[e] \in Seq(ClientMsgs))
  BY <1>1, <1>2 DEF TypeOK, Given
<1>11. /\ up' \in BOOLEAN /\ taken' \in 0..Len(conn["server"].qIn)
       /\ phase' \in {"waiting", "run", "leaving", "stopped", "exited"}
  BY <1>1, <1>2 DEF TypeOK
<1>12. "write" \in c2.done => c2.writing # "idle"
  BY <1>2, <1>6, DoneIsPending
<1> QED  BY <1>1, <1>3, <1>4, <1>6, <1>9, <1>8, <1>10, <1>11, <1>12, WriterKeeps

\* ClientInterface::Disconnect posts it.
LEMMA DisconnectKeeps ==
    ASSUME IInv, Disconnect
    PROVE  IInv'
<1> DEFINE c == conn["client"]
           c2 == [c EXCEPT !.posted = Append(@, CloseSocket)]
<1>1. phase = "run" /\ phase' = "leaving" /\ UNCHANGED <<wire, mixed, up, snek, listed, verdict, taken, sent>>
  BY DEF Disconnect, stream
<1>2. TypeOK /\ Given /\ "client" \in End /\ "server" = Peer("client") /\ conn \in [End -> Connections]
  BY DEF IInv, End, Peer, TypeOK
<1>3. listed \in {"yes", "dropped"} /\ ~Silent("client") /\ c.qIn # <<>>
  BY <1>1, <1>2, Sending
<1>4. /\ sent["client"] \in Seq(SendMsgs) /\ wire["server"] \in Seq(Cells)
      /\ c \in Connections /\ conn["server"] \in Connections
      /\ c.writing # "idle" => c.qOut # <<>>
      /\ c.open /\ c.qOut # <<>> => c.writing # "idle"
      /\ Linked(sent["client"], wire["server"], c, conn["server"],
                More("client"), FALSE, Expecting("server"), Listening("server"), Clean("client"))
  BY <1>2, <1>3, WriterLink
<1>5. CASE c.open
  <2>1. conn' = [conn EXCEPT !["client"] = c2]
    BY <1>5 DEF Disconnect, Post
  <2>2. Append(c.posted, CloseSocket) \in Seq(Messages \cup {CloseSocket})
    BY <1>4 DEF Connections
  <2>3. /\ c2 \in Connections /\ c2.posted = Append(c.posted, CloseSocket) /\ c2.qOut = c.qOut
        /\ c2.writing = c.writing /\ c2.open = c.open /\ c2.validating = c.validating
        /\ c2.reading = c.reading /\ c2.done = c.done /\ c2.msgIn = c.msgIn /\ c2.qIn = c.qIn
        /\ c2.handshake = c.handshake
    BY <1>4, <2>2 DEF Connections
  <2> HIDE DEF c2
  <2>4. Linked(sent["client"], wire["server"], c2, conn["server"],
               FALSE, FALSE, Expecting("server"), Listening("server"), Clean("client"))
    <3>1. More("client") = TRUE
      BY <1>1 DEF More
    <3>2. Linked(sent["client"], wire["server"], c, conn["server"],
                 TRUE, FALSE, Expecting("server"), Listening("server"), Clean("client"))
      BY <1>4, <3>1
    <3> HIDE DEF c
    <3> QED  BY ONLY <1>4, <2>3, <3>2, LinkClosing
  <2>5. Written("client", <<>>) /\ <<>> \in Seq(Cells) /\ Clean("client")' = Clean("client")
    BY <1>1, <1>2, SameWire
  <2>6. Linked(sent["client"], wire'["server"], c2, conn["server"],
               More("client")', FALSE, Expecting("server"), Listening("server"), Clean("client")')
    <3>1. More("client")' = FALSE
      BY <1>1 DEF More
    <3> QED  BY <1>1, <2>4, <2>5, <3>1
  <2>7. sent' = [sent EXCEPT !["client"] = sent["client"]] /\ sent["client"] \in Seq(ClientMsgs)
    BY <1>1, <1>2 DEF TypeOK, Given
  <2>8. up' \in BOOLEAN /\ taken' \in 0..Len(conn["server"].qIn)
    BY <1>1, <1>2 DEF TypeOK
  <2>9. "write" \in c2.done => c2.writing # "idle"
    BY <1>2, <2>3, DoneIsPending
  <2>10. /\ phase' \in {"waiting", "run", "leaving", "stopped", "exited"}
         /\ phase' = "waiting" <=> phase = "waiting"
         /\ listed' \in {"yes", "dropped"} /\ UNCHANGED <<snek, verdict>>
         /\ "client" # "server" /\ phase # "waiting"
    BY <1>1, <1>3
  <2>11. /\ c2.done \subseteq c.done
         /\ c2.open /\ c2.qOut # <<>> => c2.writing # "idle"
         /\ c2.writing # "idle" => c2.qOut # <<>>
    BY <1>4, <2>3
  <2>12. Linked(sent["client"], wire'[Peer("client")], c2, conn[Peer("client")],
                More("client")', FALSE, Expecting(Peer("client")), Listening(Peer("client")), Clean("client")')
    BY <1>2, <2>6
  <2> QED  BY ONLY IInv, <1>2, <1>3, <1>4, <2>1, <2>3, <2>5, <2>7, <2>8, <2>9, <2>10, <2>11, <2>12,
                   WriterKeeps, ZenonT(60) DEF c
<1>6. CASE ~c.open
  <2>1. conn' = conn
    BY <1>6 DEF Disconnect
  <2>2. \A f \in End :
         /\ "write" \in conn[f].done => conn[f].writing # "idle"
         /\ "validate" \in conn[f].done => conn[f].validating
    BY <1>2, DoneIsPending
  <2>3. up' \in BOOLEAN
    BY <1>1, <1>2 DEF TypeOK
  <2> QED  BY <1>1, <1>2, <1>3, <2>1, <2>2, <2>3, StillKeeps
<1> QED  BY <1>5, <1>6

\* Send, at either end.
LEMMA PostKeeps ==
    ASSUME IInv, NEW e \in End, NEW m \in SendMsgs,
           conn' = [conn EXCEPT ![e] = Post(conn[e], m)],
           sent' = [sent EXCEPT ![e] = Append(sent[e], m)],
           UNCHANGED <<wire, mixed, up, snek, verdict, phase>>,
           listed \in {"yes", "dropped"}, listed' \in {"yes", "dropped"}, ~Silent(e),
           taken' \in 0..Len(conn["server"].qIn),
           e = "client" => phase = "run" /\ m \in ClientMsgs
    PROVE  IInv'
<1> DEFINE c == conn[e]
           q == Peer(e)
           c2 == Post(c, m)
           S == Append(sent[e], m)
<1>1. TypeOK /\ Given
  BY DEF IInv
<1>2. /\ sent[e] \in Seq(SendMsgs) /\ wire[q] \in Seq(Cells) /\ c \in Connections /\ conn[q] \in Connections
      /\ c.writing # "idle" => c.qOut # <<>>
      /\ c.open /\ c.qOut # <<>> => c.writing # "idle"
      /\ Linked(sent[e], wire[q], c, conn[q], More(e), FALSE, Expecting(q), Listening(q), Clean(e))
  BY WriterLink
<1>3. Append(c.posted, m) \in Seq(Messages \cup {CloseSocket})
  <2>1. c.posted \in Seq(Messages \cup {CloseSocket})
    BY <1>2 DEF Connections
  <2>2. m \in Messages
    BY Readable
  <2> QED  BY <2>1, <2>2
<1>4. /\ c2 \in Connections /\ c2.posted = Append(c.posted, m) /\ c2.qOut = c.qOut
      /\ c2.writing = c.writing /\ c2.open = c.open /\ c2.validating = c.validating
      /\ c2.reading = c.reading /\ c2.done = c.done /\ c2.msgIn = c.msgIn /\ c2.qIn = c.qIn
      /\ c2.handshake = c.handshake
  BY <1>2, <1>3 DEF Connections, Post
<1>5. conn' = [conn EXCEPT ![e] = c2]
  OBVIOUS
<1> HIDE DEF c2
<1>6. More(e) = TRUE /\ More(e)' = TRUE
  BY DEF More
<1>7. Linked(S, wire[q], c2, conn[q], TRUE, FALSE, Expecting(q), Listening(q), Clean(e))
  <2>1. Linked(sent[e], wire[q], c, conn[q], TRUE, FALSE, Expecting(q), Listening(q), Clean(e))
    BY <1>2, <1>6
  <2> HIDE DEF c, q
  <2> QED  BY ONLY <1>2, <1>4, <2>1, m \in SendMsgs, LinkPosted
<1>8. Written(e, <<>>) /\ <<>> \in Seq(Cells) /\ Clean(e)' = Clean(e)
  BY <1>1, SameWire
<1>9. Linked(S, wire'[q], c2, conn[q], More(e)', FALSE, Expecting(q), Listening(q), Clean(e)')
  BY <1>6, <1>7, <1>8
<1>10. S \in Seq(SendMsgs) /\ (e = "client" => S \in Seq(ClientMsgs)) /\ sent' = [sent EXCEPT ![e] = S]
  BY <1>1, <1>2 DEF Given
<1>11. up' \in BOOLEAN /\ phase' \in {"waiting", "run", "leaving", "stopped", "exited"}
  BY <1>1 DEF TypeOK
<1>12. "write" \in c2.done => c2.writing # "idle"
  BY <1>1, <1>4, DoneIsPending
<1>13. /\ UNCHANGED <<snek, verdict>> /\ phase' = phase /\ (e = "client" => phase # "waiting")
       /\ listed \in {"yes", "dropped"} /\ listed' \in {"yes", "dropped"} /\ ~Silent(e)
       /\ taken' \in 0..Len(conn["server"].qIn)
  OBVIOUS
<1> HIDE DEF S
<1> QED  BY ONLY IInv, e \in End, <1>2, <1>4, <1>5, <1>9, <1>8, <1>10, <1>11, <1>12, <1>13, WriterKeeps

\* What the server received is what the client gave to Send, as far as a header
\* tells.
LEMMA ReceivedUpstream ==
    ASSUME IInv
    PROVE  /\ Len(conn["server"].qIn) <= Len(sent["client"])
           /\ \A i \in 1..Len(conn["server"].qIn) : Seen(conn["server"].qIn[i]) = sent["client"][i]
<1> DEFINE S == sent["client"]
<1>1. TypeOK /\ Given /\ "server" \in End /\ Peer("server") = "client" /\ S \in Seq(ClientMsgs)
  BY DEF IInv, End, Peer, Given
<1>2. S \in Seq(SendMsgs) /\ wire["server"] \in Seq(Cells)
  BY <1>1, Sendable DEF TypeOK, End
<1>3. Linked(S, wire["server"], conn["client"], conn["server"],
             More("client"), Silent("client"), Expecting("server"), Listening("server"), Clean("client"))
  BY <1>1 DEF IInv, Carried
<1>4. AllWellFormed(S)
  BY <1>1, ConnectionAssumption DEF AllWellFormed, WellFormed, Known
<1> HIDE DEF S
<1>5. PICK off \in Offsets(S), w \in 0..Len(S), R \in Nat :
        Fits(S, wire["server"], conn["client"], conn["server"], More("client"), Silent("client"),
             Expecting("server"), Listening("server"), Clean("client"), off, w, R)
  BY <1>2, <1>3, Linkage
<1>6. Reads(S, off, R, Listening("server"), conn["server"].reading, conn["server"].msgIn, conn["server"].qIn)
  BY <1>1, <1>4, <1>5 DEF Fits, Placed, Given
<1> QED  BY <1>6 DEF Reads, S

\* What the server received can be sent back.
LEMMA Returnable ==
    ASSUME IInv, NEW i \in 1..Len(conn["server"].qIn)
    PROVE  conn["server"].qIn[i] \in SendMsgs
<1> DEFINE m == conn["server"].qIn[i]
           k == sent["client"][i]
<1>1. m \in [id : {n.id : n \in Known}, size : Nat, body : Seq(Bytes)]
  <2>1. conn["server"].qIn \in Seq(Legible)
    BY DEF IInv, Given
  <2>2. m \in Legible
    BY <2>1
  <2> QED  BY <2>2 DEF Legible
<1>2. Seen(m) = k /\ Len(conn["server"].qIn) <= Len(sent["client"])
  BY ReceivedUpstream
<1>3. Len(conn["server"].qIn) \in Nat /\ sent["client"] \in Seq(ClientMsgs)
  BY DEF IInv, Given
<1>4. i \in 1..Len(sent["client"])
  BY <1>2, <1>3
<1>5. k \in Known
  BY <1>3, <1>4 DEF Known
<1> HIDE DEF m, k
<1>6. m = [id |-> m.id, size |-> m.size, body |-> m.body]
  BY <1>1
<1>7. Seen(m) = [id |-> m.id, size |-> m.size, body |-> SubSeq(m.body, 1, m.size)]
  BY <1>6, SeenFields
<1>8. k.id = m.id /\ k.size = m.size
  BY <1>2, <1>7
<1>9. Header(m) \in Cells
  BY <1>5, <1>8 DEF Header, Cells
<1>10. m \in SendMsgs
  BY <1>1, <1>9 DEF SendMsgs
<1> QED  BY <1>10 DEF m

\* Update takes a message that is not sent on, or the list drops the connection.
LEMMA IdleKeeps ==
    ASSUME IInv, UNCHANGED <<conn, wire, mixed, up, snek, verdict, phase, sent>>,
           listed \in {"yes", "dropped"}, listed' \in {"yes", "dropped"},
           taken' \in 0..Len(conn["server"].qIn)
    PROVE  IInv'
<1> DEFINE c2 == conn["server"]
           S == sent["server"]
<1>1. TypeOK /\ Given /\ "server" \in End /\ Peer("server") = "client" /\ ~Silent("server")
  BY DEF IInv, End, Peer, Silent
<1>2. /\ S \in Seq(SendMsgs) /\ c2 \in Connections
      /\ c2.writing # "idle" => c2.qOut # <<>>
      /\ c2.open /\ c2.qOut # <<>> => c2.writing # "idle"
      /\ Linked(S, wire["client"], c2, conn["client"],
                More("server"), FALSE, Expecting("client"), Listening("client"), Clean("server"))
  BY <1>1, WriterLink
<1>3. Written("server", <<>>) /\ <<>> \in Seq(Cells) /\ Clean("server")' = Clean("server")
  BY <1>1, SameWire
<1>4. Linked(S, wire'["client"], c2, conn["client"],
             More("server")', FALSE, Expecting("client"), Listening("client"), Clean("server")')
  <2>1. More("server")' = More("server")
    BY DEF More
  <2> QED  BY <1>2, <1>3, <2>1
<1>5. conn' = [conn EXCEPT !["server"] = c2] /\ sent' = [sent EXCEPT !["server"] = S]
  BY <1>1 DEF TypeOK
<1>6. up' \in BOOLEAN /\ phase' \in {"waiting", "run", "leaving", "stopped", "exited"}
  BY <1>1 DEF TypeOK
<1>7. "write" \in c2.done => c2.writing # "idle"
  BY <1>1, DoneIsPending
<1>8. /\ UNCHANGED <<snek, verdict>> /\ phase' = phase
      /\ listed \in {"yes", "dropped"} /\ listed' \in {"yes", "dropped"}
      /\ taken' \in 0..Len(conn["server"].qIn)
  OBVIOUS
<1>9. /\ c2.qIn = conn["server"].qIn /\ c2.msgIn = conn["server"].msgIn
      /\ c2.handshake = conn["server"].handshake /\ c2.done \subseteq conn["server"].done
      /\ c2.validating = conn["server"].validating /\ c2.reading = conn["server"].reading
  OBVIOUS
<1> HIDE DEF c2, S
<1> QED  BY ONLY IInv, <1>1, <1>2, <1>4, <1>3, <1>5, <1>6, <1>7, <1>8, <1>9, WriterKeeps

\* MessageAllClients sends a message that can be sent.
LEMMA MessageKeeps ==
    ASSUME IInv, listed = "yes", NEW m \in SendMsgs, Message(m),
           UNCHANGED <<wire, mixed, up, snek, verdict, phase>>,
           taken' \in 0..Len(conn["server"].qIn)
    PROVE  IInv'
<1>1. "server" \in End /\ ~Silent("server")
  BY DEF End, Silent
<1>2. CASE conn["server"].open
  <2>1. /\ conn' = [conn EXCEPT !["server"] = Post(conn["server"], m)]
        /\ sent' = [sent EXCEPT !["server"] = Append(sent["server"], m)]
        /\ listed' = "yes"
    BY <1>2 DEF Message
  <2> QED  BY <1>1, <2>1, PostKeeps
<1>3. CASE ~conn["server"].open
  BY <1>3, IdleKeeps DEF Message
<1> QED  BY <1>2, <1>3

\* A broadcast on behalf of other clients.
LEMMA BroadcastKeeps ==
    ASSUME IInv, Broadcast
    PROVE  IInv'
<1>1. PICK m \in ServerMsgs : Message(m)
  BY DEF Broadcast
<1>2. m \in SendMsgs
  BY Sendable
<1>3. taken' \in 0..Len(conn["server"].qIn)
  BY DEF Broadcast, IInv, TypeOK
<1> QED  BY <1>1, <1>2, <1>3, MessageKeeps DEF Broadcast, stream

\* Update: StartGame goes back with the body it came with.
LEMMA HandleKeeps ==
    ASSUME IInv, Handle
    PROVE  IInv'
<1> DEFINE m == conn["server"].qIn[taken + 1]
<1>1. /\ taken \in Nat /\ taken < Len(conn["server"].qIn) /\ taken' = taken + 1
      /\ Len(conn["server"].qIn) \in Nat /\ UNCHANGED <<wire, mixed, up, snek, verdict, phase>>
  BY DEF Handle, IInv, TypeOK, End, Connections, stream
<1>2. taken + 1 \in 1..Len(conn["server"].qIn) /\ taken' \in 0..Len(conn["server"].qIn)
  BY <1>1
<1>3. m \in SendMsgs
  BY <1>2, Returnable
<1>4. listed \in {"yes", "dropped"}
  <2>1. listed \in {"no", "denied"} => Len(conn["server"].qIn) = 0
    BY DEF IInv, Shaking, Fresh
  <2> QED  BY <1>1, <2>1 DEF IInv, TypeOK
<1>5. CASE m.id = StartGame.id /\ listed = "yes"
  <2>1. Message(m)
    BY <1>5 DEF Handle
  <2> HIDE DEF m
  <2> QED  BY <1>1, <1>2, <1>3, <1>5, <2>1, MessageKeeps
<1>6. CASE ~(m.id = StartGame.id /\ listed = "yes")
  <2>1. UNCHANGED <<conn, sent, listed>>
    BY <1>6 DEF Handle
  <2> QED  BY <1>1, <1>2, <1>4, <2>1, IdleKeeps
<1> QED  BY <1>5, <1>6

\* ClientInterface::Send.
LEMMA ClientSendKeeps ==
    ASSUME IInv, ClientSend
    PROVE  IInv'
<1>1. PICK m \in ClientMsgs :
        /\ conn' = [conn EXCEPT !["client"] = Post(conn["client"], m)]
        /\ sent' = [sent EXCEPT !["client"] = Append(sent["client"], m)]
  BY DEF ClientSend
<1>2. phase = "run" /\ UNCHANGED <<wire, mixed, up, snek, listed, verdict, taken, phase>> /\ "client" \in End
  BY DEF ClientSend, End, stream
<1>3. listed \in {"yes", "dropped"} /\ ~Silent("client")
  BY <1>2, Sending
<1>4. m \in SendMsgs /\ taken' \in 0..Len(conn["server"].qIn)
  BY <1>2, Sendable DEF IInv, TypeOK
<1> QED  BY <1>1, <1>2, <1>3, <1>4, PostKeeps

----------------------------------------------------------------------------
(* Steps that read *)

\* What the handler of a read of a header or a body has to show.
LEMMA ReceiveKeeps ==
    ASSUME IInv, NEW e \in End, NEW c2 \in Connections, conn' = [conn EXCEPT ![e] = c2],
           NEW n \in 0..Len(wire[e]),
           wire' = [wire EXCEPT ![e] = SubSeq(wire[e], n + 1, Len(wire[e]))],
           UNCHANGED <<up, snek, listed, verdict, taken, phase, sent, mixed>>,
           conn[e].reading \in {"header", "body"}, c2.reading \in {"header", "body"},
           c2.posted = conn[e].posted, c2.qOut = conn[e].qOut, c2.open = conn[e].open,
           c2.writing = conn[e].writing, c2.validating = conn[e].validating,
           c2.handshake = conn[e].handshake, c2.done = conn[e].done \ {"read"},
           c2.reading = "body" => c2.msgIn.size > 0,
           NEW m, c2.qIn = conn[e].qIn \/ c2.qIn = Append(conn[e].qIn, m),
           e = "server" =>
             /\ c2.msgIn.body \in Seq(Bytes)
             /\ c2.qIn \in Seq(Legible),
           Linked(sent[Peer(e)], SubSeq(wire[e], n + 1, Len(wire[e])), conn[Peer(e)], c2,
                  More(Peer(e)), Silent(Peer(e)), FALSE, c2.reading = "header", Clean(Peer(e)))
    PROVE  IInv'
<1> DEFINE c == conn[e]
           q == Peer(e)
           rest == SubSeq(wire[e], n + 1, Len(wire[e]))
<1>1. /\ TypeOK /\ Given /\ Shaking /\ Arrived /\ Announced /\ WriteChain /\ SnekAdmitted
      /\ c \in Connections /\ conn[q] \in Connections
  BY Ends DEF IInv, TypeOK
<1>2. conn' \in [End -> Connections] /\ conn'[e] = c2 /\ conn'[q] = conn[q]
  BY <1>1, Changed
<1>3. /\ q \in End /\ Peer(q) = e /\ q # e /\ (\A f \in End : f = e \/ f = q)
      /\ "client" \in End /\ "server" \in End
  BY Ends DEF End
<1>4. \A f \in End : Clean(f)' = Clean(f)
  BY DEF Clean
<1>5. /\ wire[q] \in Seq(Cells) /\ wire[e] \in Seq(Cells) /\ wire \in [End -> Seq(Cells)]
      /\ sent[e] \in Seq(SendMsgs) /\ sent[q] \in Seq(SendMsgs)
  BY <1>1, <1>3, Sendable DEF TypeOK
<1>6. rest \in Seq(Cells) /\ (wire[e] = <<>> => rest = <<>>)
  <2>1. n + 1 \in Int /\ Len(wire[e]) \in Int /\ \A i \in (n + 1)..Len(wire[e]) : wire[e][i] \in Cells
    BY <1>5
  <2>2. rest \in Seq(Cells)
    BY <2>1, SubSeqProperties
  <2>3. wire[e] = <<>> => rest = <<>>
    BY <1>5
  <2> QED  BY <2>2, <2>3
<1> HIDE DEF q, rest
<1>7. wire' \in [End -> Seq(Cells)] /\ wire'[e] = rest /\ wire'[q] = wire[q]
  <2>1. wire' = [wire EXCEPT ![e] = rest]
    BY DEF rest
  <2> QED  BY <1>3, <1>5, <1>6, <2>1
<1>8. \A f \in End :
        /\ conn'[f].validating = conn[f].validating /\ conn'[f].handshake = conn[f].handshake
        /\ conn'[f].open = conn[f].open /\ conn'[f].writing = conn[f].writing /\ conn'[f].qOut = conn[f].qOut
        /\ conn'[f].done \subseteq conn[f].done
  BY <1>2, <1>3
<1>9. /\ c.qIn \in Seq(Messages) /\ Len(c2.qIn) >= Len(c.qIn) /\ Len(c2.qIn) \in Nat
      /\ (c2.qIn = <<>> => c.qIn = <<>>)
  <2>1. c.qIn \in Seq(Messages) /\ c2.qIn \in Seq(Messages)
    BY <1>1 DEF Connections
  <2> QED  BY <2>1
<1>10. e = "client" => ~c.validating
  BY <1>1 DEF Shaking
<1>11. listed \in {"yes", "dropped"}
  <2>1. listed \notin {"no", "denied"}
    <3>1. listed \in {"no", "denied"} => conn["server"].reading = "idle"
      BY <1>1 DEF Shaking, Fresh
    <3>2. listed \in {"no", "denied"} => conn["client"].reading \notin {"header", "body"}
      BY <1>1 DEF Shaking
    <3> QED  BY <3>1, <3>2 DEF End
  <2> QED  BY <1>1, <2>1 DEF TypeOK
<1>12. TypeOK'
  <2>1. \A f \in End : conn'[f].done \subseteq Pending(f)'
    <3>1. conn'[e].done \subseteq Pending(e)'
      <4>1. /\ c.done \subseteq {"write", "validate", "read"}
            /\ "write" \in c.done => c.writing # "idle"
            /\ "validate" \in c.done => c.validating
        BY <1>1, DoneIsPending DEF Connections
      <4> QED  BY <1>2, <4>1 DEF Pending
    <3>2. conn'[q].done \subseteq Pending(q)'
      BY <1>1, <1>2, <1>3 DEF TypeOK, Pending
    <3> QED  BY <1>3, <3>1, <3>2
  <2>2. taken' \in 0..Len(conn'["server"].qIn)
    <3>1. taken \in 0..Len(conn["server"].qIn)
      BY <1>1 DEF TypeOK
    <3>2. CASE e = "server"
      BY <1>2, <1>9, <3>1, <3>2
    <3>3. CASE e = "client"
      BY <1>2, <1>3, <3>1, <3>3
    <3> QED  BY <3>2, <3>3 DEF End
  <2> QED  BY <1>1, <1>2, <1>7, <2>1, <2>2 DEF TypeOK
<1>13. Given'
  <2>1. CASE e = "server"
    BY <1>1, <1>2, <1>3, <1>4, <2>1 DEF Given
  <2>2. CASE e = "client"
    BY <1>1, <1>2, <1>3, <1>4, <2>2 DEF Given
  <2> QED  BY <2>1, <2>2 DEF End
<1>14. ~Silent(e) /\ Silent(e)' = FALSE /\ Silent(q)' = Silent(q)
  BY <1>2 DEF Silent
<1>15. Shaking'
  <2>1. Silent("client")' => Silent("client")
    BY <1>3, <1>14
  <2>2. Silent("client")' => wire'["server"] = <<>>
    BY <1>1, <1>3, <1>6, <1>7, <2>1 DEF Shaking
  <2>3. conn'["client"].validating => conn'["client"].reading = "idle"
    BY <1>1, <1>2, <1>3, <1>8, <1>10 DEF Shaking
  <2>4. Silent("client")' \/ conn'["client"].validating => conn'["client"].qIn = <<>>
    BY <1>1, <1>2, <1>3, <1>8, <1>10, <1>14 DEF Shaking
  <2>5. conn'["client"].qIn = <<>> => phase' = "waiting"
    BY <1>1, <1>2, <1>3, <1>9 DEF Shaking
  <2>6. phase' = "waiting" => sent'["client"] = <<>> /\ conn'["client"].writing = "idle"
    BY <1>1, <1>3, <1>8 DEF Shaking
  <2>7. /\ conn'["server"].reading = "validation" => conn'["server"].qIn = <<>>
        /\ conn'["server"].reading # "connect"
    BY <1>1, <1>2, <1>3 DEF Shaking
  <2>8. /\ Silent("client")' /\ wire'["client"] # <<>> /\ Clean("server")' =>
             Head(wire'["client"]) = Validation(conn'["server"].handshake)
        /\ Silent("client")' /\ ~Clean("server")' => wire'["client"] # <<>> /\ Head(wire'["client"]) = Mix
    BY <1>1, <1>3, <1>7, <1>8, <1>14, <1>4 DEF Shaking
  <2>9. conn'["server"].reading = "validation" /\ wire'["server"] # <<>> =>
           /\ Head(wire'["server"]) = Validation(conn'["client"].handshake)
           /\ snek' /\ Clean("server")' => conn'["client"].handshake = Scramble(conn'["server"].handshake)
    BY <1>1, <1>2, <1>3, <1>7, <1>8, <1>4 DEF Shaking
  <2> QED  BY <1>11, <2>2, <2>3, <2>4, <2>5, <2>6, <2>7, <2>8, <2>9 DEF Shaking
<1>16. Arrived'
  <2>1. "read" \notin conn'[e].done
    BY <1>2
  <2>2. "read" \in conn'[q].done => Len(wire'[q]) >= Asked(q)'
    BY <1>1, <1>2, <1>3, <1>7 DEF Arrived, Asked
  <2> QED  BY <1>3, <2>1, <2>2 DEF Arrived
<1>17. WriteChain' /\ SnekAdmitted' /\ Announced'
  <2>1. WriteChain' /\ SnekAdmitted'
    BY <1>1, <1>8 DEF WriteChain, SnekAdmitted
  <2>2. Announced'
    BY <1>1, <1>2, <1>3 DEF Announced
  <2> QED  BY <2>1, <2>2
<1>18. Carried(e)'
  <2>1. More(q)' = More(q) /\ Expecting(e)' = FALSE /\ Listening(e)' = (c2.reading = "header")
    BY <1>2, <1>8, <1>10, <1>11 DEF More, Expecting, Listening
  <2>2. Linked(sent[q], wire'[e], conn'[q], conn'[e],
               More(q), Silent(q), FALSE, c2.reading = "header", Clean(q))
    BY <1>2, <1>7 DEF q, rest
  <2>3. Linked(sent[q], wire'[e], conn'[q], conn'[e],
               More(q)', Silent(q)', Expecting(e)', Listening(e)', Clean(q)')
    BY <1>3, <1>14, <1>4, <2>1, <2>2
  <2> QED  BY <2>3 DEF Carried, q
<1>19. Carried(q)'
  <2>1. /\ More(e)' = More(e) /\ Expecting(q)' = Expecting(q) /\ Listening(q)' = Listening(q)
        /\ Silent(e)' = Silent(e)
    BY <1>2, <1>8, <1>14 DEF More, Expecting, Listening, Silent
  <2>2. Linked(sent[e], wire[q], c, conn[q], More(e), Silent(e), Expecting(q), Listening(q), Clean(e))
    BY <1>3 DEF IInv, Carried
  <2>3. Linked(sent[e], wire[q], c2, conn[q], More(e), Silent(e), Expecting(q), Listening(q), Clean(e))
    <3>1. /\ c2.posted = c.posted /\ c2.qOut = c.qOut
          /\ c2.open => c.open /\ c2.writing = c.writing
      OBVIOUS
    <3> HIDE DEF c
    <3> QED  BY ONLY <1>5, <2>2, <3>1, LinkSame
  <2>4. Linked(sent[e], wire'[q], conn'[e], conn'[q],
               More(e)', Silent(e)', Expecting(q)', Listening(q)', Clean(e)')
    BY <1>2, <1>7, <1>4, <2>1, <2>3
  <2> QED  BY <1>3, <2>4 DEF Carried
<1> QED  BY <1>3, <1>12, <1>13, <1>15, <1>16, <1>17, <1>18, <1>19 DEF IInv

\* Where an end that reads starts from.
LEMMA ReaderLink ==
    ASSUME IInv, NEW e \in End
    PROVE  /\ sent[Peer(e)] \in Seq(SendMsgs) /\ wire[e] \in Seq(Cells)
           /\ conn[e] \in Connections /\ conn[Peer(e)] \in Connections
           /\ Linked(sent[Peer(e)], wire[e], conn[Peer(e)], conn[e],
                     More(Peer(e)), Silent(Peer(e)), Expecting(e), Listening(e), Clean(Peer(e)))
  BY Ends, Sendable DEF IInv, TypeOK, Carried

\* What a reader finds when the other end sends what its headers announce.
LEMMA ReaderFinds ==
    ASSUME IInv, NEW e \in End, NEW S, S = sent[Peer(e)], AllWellFormed(S), Clean(Peer(e))
    PROVE  /\ conn[e].reading = "header" /\ wire[e] # <<>> =>
                \E k \in 1..Len(S) : Head(wire[e]) = Header(S[k])
           /\ conn[e].reading = "body" =>
                \E k \in 1..Len(S) :
                  /\ conn[e].msgIn.id = S[k].id
                  /\ \A j \in 1..Len(wire[e]) :
                       j <= conn[e].msgIn.size => j \in 1..Len(S[k].body) /\ wire[e][j] = S[k].body[j]
<1> DEFINE c == conn[e]
           r == Len(c.qIn)
<1>1. S \in Seq(SendMsgs) /\ wire[e] \in Seq(Cells) /\ c \in Connections
  BY ReaderLink
<1>2. Linked(S, wire[e], conn[Peer(e)], c,
             More(Peer(e)), Silent(Peer(e)), Expecting(e), Listening(e), Clean(Peer(e)))
  BY ReaderLink
<1>3. PICK off \in Offsets(S), w \in 0..Len(S), R \in Nat :
        Fits(S, wire[e], conn[Peer(e)], c,
             More(Peer(e)), Silent(Peer(e)), Expecting(e), Listening(e), Clean(Peer(e)), off, w, R)
  BY <1>1, <1>2, Linkage
<1>4. Holds(S, off, R, wire[e]) /\ Reads(S, off, R, Listening(e), c.reading, c.msgIn, c.qIn)
  BY <1>3 DEF Fits, Placed
<1>5. Len(S) \in Nat /\ r \in Nat /\ c.msgIn.size \in Nat
  BY <1>1, SentType DEF Connections, Messages
<1>6. r <= Len(S)
  BY <1>4 DEF Reads
<1>7. ASSUME c.reading = "header", wire[e] # <<>> PROVE \E k \in 1..Len(S) : Head(wire[e]) = Header(S[k])
  <2>1. R = off[r]
    BY <1>4, <1>7 DEF Reads, Listening
  <2>2. r \in 0..Len(S)
    BY <1>5, <1>6
  <2>3. r < Len(S) /\ Head(wire[e]) = Header(S[r + 1])
    BY <1>1, <1>4, <1>7, <2>1, <2>2, FindsHeader, SMTT(60)
  <2>4. r + 1 \in 1..Len(S)
    BY <1>5, <2>3
  <2> QED  BY <2>3, <2>4
<1>8. ASSUME c.reading = "body"
      PROVE  \E k \in 1..Len(S) :
               /\ c.msgIn.id = S[k].id
               /\ \A j \in 1..Len(wire[e]) :
                    j <= c.msgIn.size => j \in 1..Len(S[k].body) /\ wire[e][j] = S[k].body[j]
  <2>1. r < Len(S) /\ R = off[r] + 1 /\ c.msgIn.id = S[r + 1].id /\ c.msgIn.size = S[r + 1].size
    BY <1>4, <1>8 DEF Reads
  <2>2. r + 1 \in 1..Len(S) /\ r \in 0..(Len(S) - 1)
    BY <1>5, <2>1
  <2>3. S[r + 1].size = Len(S[r + 1].body)
    BY <2>2 DEF AllWellFormed, WellFormed
  <2>4. ASSUME NEW j \in 1..Len(wire[e]), j <= c.msgIn.size
        PROVE  j \in 1..Len(S[r + 1].body) /\ wire[e][j] = S[r + 1].body[j]
    <3>1. Len(S[r + 1].body) \in Nat /\ Len(wire[e]) \in Nat /\ j \in 0..Len(wire[e])
      <4>1. \A k \in 1..Len(S) : Len(S[k].body) \in Nat
        BY ONLY <1>1, SentType
      <4> QED  BY <1>1, <2>2, <4>1
    <3>2. j <= Len(S[r + 1].body)
      BY <2>1, <2>3, <2>4
    <3>3. \A i \in 1..j : wire[e][i] = S[r + 1].body[i]
      BY <1>1, <1>4, <2>1, <2>2, <3>1, <3>2, FindsBody, ZenonT(60)
    <3> QED  BY <3>1, <3>2, <3>3
  <2> QED  BY <2>1, <2>2, <2>4
<1> QED  BY <1>7, <1>8

\* What a handler of ReadHeader can make of a cell.
LEMMA HeaderOfCell ==
    ASSUME NEW cell \in Cells, NEW h \in HeaderOf(cell)
    PROVE  h[1] \in {n.id : n \in Known} \cup {"none", "garbage"} /\ h[2] \in Nat
<1>1. CASE cell \in {Header(m) : m \in Known}
  <2>1. PICK m \in Known : cell = Header(m)
    BY <1>1
  <2>2. h = <<m.id, m.size>>
    BY <2>1 DEF HeaderOf, Header
  <2>3. m.size \in Nat
    BY ConnectionAssumption
  <2> QED  BY <2>2, <2>3
<1>2. CASE cell \in {"val"} \X Values \/ cell \in Bytes \/ cell = Mix
  <2>1. cell[1] # "hdr"
    BY <1>2 DEF Bytes, Mix
  <2>2. h \in {"garbage"} \X (0..MaxBody)
    BY <2>1 DEF HeaderOf
  <2> QED  BY <2>2, ConnectionAssumption
<1> QED  BY <1>1, <1>2 DEF Cells

\* All that a client sends is as long as its header says.
LEMMA ClientsWellFormed ==
    ASSUME IInv
    PROVE  AllWellFormed(sent["client"])
  BY ConnectionAssumption DEF IInv, Given, AllWellFormed, WellFormed, Known

\* The handler of ReadHeader.
LEMMA HeaderReadKeeps ==
    ASSUME IInv, NEW e \in End, HeaderRead(e)
    PROVE  IInv'
<1> DEFINE c == conn[e]
           q == Peer(e)
           S == sent[q]
<1>1. /\ c.reading = "header" /\ "read" \in c.done
      /\ UNCHANGED <<up, snek, listed, verdict, taken, phase, sent, mixed>>
      /\ wire' = [wire EXCEPT ![e] = SubSeq(wire[e], 1 + 1, Len(wire[e]))]
  BY DEF HeaderRead, Consume, app
<1>2. PICK h \in HeaderOf(Head(wire[e])) :
        conn' = [conn EXCEPT ![e] =
                   IF ReadInto(c, h).size > 0
                     THEN [Listen(c, "body") EXCEPT !.msgIn = ReadInto(c, h)]
                     ELSE Deliver(c, ReadInto(c, h))]
  BY DEF HeaderRead
<1> DEFINE m == ReadInto(c, h)
           c2 == IF m.size > 0 THEN [Listen(c, "body") EXCEPT !.msgIn = m] ELSE Deliver(c, m)
<1>3. /\ S \in Seq(SendMsgs) /\ wire[e] \in Seq(Cells) /\ c \in Connections /\ conn[q] \in Connections
      /\ Linked(S, wire[e], conn[q], c, More(q), Silent(q), Expecting(e), Listening(e), Clean(q))
  BY ReaderLink
<1>4. wire[e] # <<>> /\ 1 \in 0..Len(wire[e]) /\ Head(wire[e]) \in Cells
  <2>1. Len(wire[e]) >= 1
    BY <1>1 DEF IInv, Arrived, Asked
  <2> QED  BY <1>3, <2>1
<1>5. c.msgIn \in Messages /\ c.msgIn.body \in Seq(Cells) /\ c.qIn \in Seq(Messages)
  BY <1>3 DEF Connections, Messages
<1>6. m = [id |-> h[1], size |-> h[2], body |-> c.msgIn.body]
  BY DEF ReadInto
<1>7. m \in Messages /\ m.size \in Nat
  <2>1. h[1] \in {n.id : n \in Known} \cup {"none", "garbage"} /\ h[2] \in Nat
    BY <1>4, HeaderOfCell
  <2> HIDE DEF m
  <2> QED  BY <1>5, <1>6, <2>1 DEF Messages
<1> HIDE DEF m
<1>8. Append(c.qIn, m) \in Seq(Messages)
  BY <1>5, <1>7
<1>9. /\ c2 \in Connections /\ c2.msgIn = m
      /\ m.size > 0 => c2.reading = "body" /\ c2.qIn = c.qIn
      /\ ~(m.size > 0) => c2.reading = "header" /\ c2.qIn = Append(c.qIn, m)
      /\ c2.posted = c.posted /\ c2.qOut = c.qOut /\ c2.open = c.open /\ c2.writing = c.writing
      /\ c2.validating = c.validating /\ c2.handshake = c.handshake /\ c2.done = c.done \ {"read"}
  <2>1. CASE m.size > 0
    <3>1. c2 = [Listen(c, "body") EXCEPT !.msgIn = m]
      BY <2>1
    <3> HIDE DEF c2
    <3> QED  BY <1>3, <1>7, <2>1, <3>1 DEF Connections, Listen
  <2>2. CASE ~(m.size > 0)
    <3>1. c2 = Deliver(c, m)
      BY <2>2
    <3> HIDE DEF c2
    <3> QED  BY <1>3, <1>7, <1>8, <2>2, <3>1 DEF Connections, Listen, Deliver
  <2> QED  BY <2>1, <2>2
<1>10. conn' = [conn EXCEPT ![e] = c2]
  BY <1>2 DEF m
<1> HIDE DEF c2
<1>11. Linked(S, SubSeq(wire[e], 1 + 1, Len(wire[e])), conn[q], c2,
              More(q), Silent(q), FALSE, c2.reading = "header", Clean(q))
  <2>1. Listening(e) = TRUE
    BY <1>1 DEF Listening
  <2>2. Linked(S, wire[e], conn[q], c, More(q), Silent(q), Expecting(e), TRUE, Clean(q))
    BY <1>3, <2>1
  <2>3. ASSUME NEW off \in Offsets(S), NEW R \in Nat, Clean(q), Holds(S, off, R, wire[e]), AllWellFormed(S),
               Reads(S, off, R, TRUE, c.reading, c.msgIn, c.qIn)
        PROVE  Reads(S, off, R + 1, c2.reading = "header", c2.reading, c2.msgIn, c2.qIn)
    <3>1. /\ m.size > 0 => c2.reading = "body" /\ c2.msgIn = m /\ c2.qIn = c.qIn
          /\ ~(m.size > 0) => c2.reading # "body" /\ c2.qIn = Append(c.qIn, m)
      BY <1>9
    <3>2. m = ReadInto(c, h)
      BY DEF m
    <3> HIDE DEF c, S, q
    <3> QED  BY <1>2, <1>3, <1>4, <2>3, <3>1, <3>2, ReadsHeader
  <2> HIDE DEF c, S, q
  <2> QED  BY <1>3, <1>4, <2>2, <2>3, LinkRead
<1>12. e = "server" =>
         /\ c2.msgIn.body \in Seq(Bytes)
         /\ c2.qIn \in Seq(Legible)
  <2> SUFFICES ASSUME e = "server"
               PROVE  /\ c2.msgIn.body \in Seq(Bytes)
                      /\ c2.qIn \in Seq(Legible)
    OBVIOUS
  <2>1. c.msgIn.body \in Seq(Bytes) /\ c.qIn \in Seq(Legible)
    BY DEF IInv, Given
  <2>2. m.body = c.msgIn.body /\ m.id = h[1]
    BY <1>6
  <2>3. S = sent["client"] /\ AllWellFormed(S) /\ S \in Seq(ClientMsgs) /\ Clean(Peer(e))
    BY ClientsWellFormed DEF Peer, IInv, Given
  <2>4. PICK k \in 1..Len(S) : Head(wire[e]) = Header(S[k])
    BY <1>1, <1>4, <2>3, ReaderFinds
  <2>5. h[1] = S[k].id
    BY <1>2, <2>4 DEF HeaderOf, Header
  <2>6. S[k] \in Known
    BY <2>3 DEF Known
  <2>7. m \in Legible
    <3>1. m.id \in {n.id : n \in Known}
      BY <2>2, <2>5, <2>6
    <3> QED  BY <1>6, <1>7, <2>1, <2>2, <3>1 DEF Legible
  <2>8. c2.qIn \in Seq(Legible)
    <3>1. c2.qIn = c.qIn \/ c2.qIn = Append(c.qIn, m)
      BY <1>9
    <3>2. Append(c.qIn, m) \in Seq(Legible)
      BY <2>1, <2>7
    <3> QED  BY <2>1, <3>1, <3>2
  <2> QED  BY <1>9, <2>1, <2>2, <2>8
<1>13. c2.reading = "body" => c2.msgIn.size > 0
  BY <1>9
<1>14. c2.qIn = c.qIn \/ c2.qIn = Append(c.qIn, m)
  BY <1>9
<1>15. c2.reading \in {"header", "body"}
  BY <1>9
<1>16. c.reading \in {"header", "body"}
  BY <1>1
<1>17. PICK n \in 0..Len(wire[e]) : n = 1
  BY <1>4
<1>18. /\ wire' = [wire EXCEPT ![e] = SubSeq(wire[e], n + 1, Len(wire[e]))]
       /\ Linked(S, SubSeq(wire[e], n + 1, Len(wire[e])), conn[q], c2,
                 More(q), Silent(q), FALSE, c2.reading = "header", Clean(q))
  BY <1>1, <1>11, <1>17
<1> HIDE DEF c, q, S
<1>19. IInv'
  BY ONLY IInv, e \in End, <1>1, <1>9, <1>10, <1>12, <1>13, <1>14, <1>15, <1>16, <1>17, <1>18,
     ReceiveKeeps, ZenonT(60) DEF c, q, S
<1> QED  BY <1>19

\* The handler of ReadBody.
LEMMA BodyReadKeeps ==
    ASSUME IInv, NEW e \in End, BodyRead(e)
    PROVE  IInv'
<1> DEFINE c == conn[e]
           q == Peer(e)
           S == sent[q]
           n == c.msgIn.size
           part == SubSeq(wire[e], 1, n)
           m == [c.msgIn EXCEPT !.body = part]
           c2 == Deliver(c, m)
<1>1. /\ c.reading = "body" /\ "read" \in c.done
      /\ UNCHANGED <<up, snek, listed, verdict, taken, phase, sent, mixed>>
      /\ wire' = [wire EXCEPT ![e] = SubSeq(wire[e], n + 1, Len(wire[e]))]
      /\ conn' = [conn EXCEPT ![e] = c2]
  BY DEF BodyRead, Consume, app
<1>2. /\ S \in Seq(SendMsgs) /\ wire[e] \in Seq(Cells) /\ c \in Connections /\ conn[q] \in Connections
      /\ Linked(S, wire[e], conn[q], c, More(q), Silent(q), Expecting(e), Listening(e), Clean(q))
  BY ReaderLink
<1>3. c.msgIn \in Messages /\ c.qIn \in Seq(Messages) /\ n \in Nat
  BY <1>2 DEF Connections, Messages
<1>4. n \in 0..Len(wire[e])
  <2>1. Len(wire[e]) >= n
    BY <1>1 DEF IInv, Arrived, Asked
  <2> QED  BY <1>2, <1>3, <2>1
<1>5. part \in Seq(Cells) /\ Len(part) = n /\ \A j \in 1..n : part[j] = wire[e][j]
  BY <1>2, <1>3, <1>4
<1>6. m = [id |-> c.msgIn.id, size |-> n, body |-> part]
  <2>1. c.msgIn = [id |-> c.msgIn.id, size |-> c.msgIn.size, body |-> c.msgIn.body]
    BY <1>3 DEF Messages
  <2> HIDE DEF part
  <2> QED  BY <2>1, WithBody
<1>7. m \in Messages
  <2> HIDE DEF part, m
  <2> QED  BY <1>3, <1>5, <1>6 DEF Messages
<1> HIDE DEF m
<1>8. Append(c.qIn, m) \in Seq(Messages)
  BY <1>3, <1>7
<1>9. /\ c2 \in Connections /\ c2.msgIn = m /\ c2.reading = "header" /\ c2.qIn = Append(c.qIn, m)
      /\ c2.posted = c.posted /\ c2.qOut = c.qOut /\ c2.open = c.open /\ c2.writing = c.writing
      /\ c2.validating = c.validating /\ c2.handshake = c.handshake /\ c2.done = c.done \ {"read"}
  BY <1>2, <1>7, <1>8 DEF Connections, Listen, Deliver
<1> HIDE DEF c2
<1>10. Linked(S, SubSeq(wire[e], n + 1, Len(wire[e])), conn[q], c2,
              More(q), Silent(q), FALSE, c2.reading = "header", Clean(q))
  <2>1. ASSUME NEW off \in Offsets(S), NEW R \in Nat, Clean(q), Holds(S, off, R, wire[e]), AllWellFormed(S),
               Reads(S, off, R, Listening(e), c.reading, c.msgIn, c.qIn)
        PROVE  Reads(S, off, R + n, c2.reading = "header", c2.reading, c2.msgIn, c2.qIn)
    <3>1. c2.qIn = Append(c.qIn, [c.msgIn EXCEPT !.body = SubSeq(wire[e], 1, c.msgIn.size)])
      BY <1>9 DEF m
    <3>2. c.msgIn.size <= Len(wire[e]) /\ c2.reading # "body"
      BY <1>4, <1>9
    <3> HIDE DEF c, S, q
    <3> QED  BY <1>1, <1>2, <2>1, <3>1, <3>2, ReadsBody
  <2> HIDE DEF c, S, q, n
  <2> QED  BY <1>2, <1>4, <2>1, LinkRead
<1>11. e = "server" => c2.msgIn.body \in Seq(Bytes) /\ c2.qIn \in Seq(Legible)
  <2> SUFFICES ASSUME e = "server" PROVE c2.msgIn.body \in Seq(Bytes) /\ c2.qIn \in Seq(Legible)
    OBVIOUS
  <2>1. c.qIn \in Seq(Legible)
    BY DEF IInv, Given
  <2>2. S = sent["client"] /\ AllWellFormed(S) /\ S \in Seq(ClientMsgs) /\ Clean(Peer(e))
    BY ClientsWellFormed DEF Peer, IInv, Given
  <2>3. PICK k \in 1..Len(S) :
          /\ c.msgIn.id = S[k].id
          /\ \A j \in 1..Len(wire[e]) : j <= n => j \in 1..Len(S[k].body) /\ wire[e][j] = S[k].body[j]
    BY <1>1, <2>2, ReaderFinds
  <2>4. S[k] \in Known /\ S[k].body \in Seq(Bytes)
    BY <1>2, <2>2, SentType DEF Known
  <2>5. \A j \in 1..n : part[j] \in Bytes
    <3> SUFFICES ASSUME NEW j \in 1..n PROVE part[j] \in Bytes
      OBVIOUS
    <3>1. j \in 1..Len(wire[e]) /\ j <= n
      BY <1>2, <1>4
    <3>2. wire[e][j] = S[k].body[j] /\ j \in 1..Len(S[k].body)
      BY <2>3, <3>1
    <3> HIDE DEF part
    <3> QED  BY <1>5, <2>4, <3>2
  <2> HIDE DEF part
  <2>6. part \in Seq(Bytes)
    <3>1. part = [j \in 1..n |-> part[j]]
      BY <1>5
    <3>2. part \in [1..n -> Bytes]
      BY <2>5, <3>1
    <3> QED  BY <1>3, <3>2, SeqDef
  <2>7. m \in Legible
    <3>1. c.msgIn.id \in {z.id : z \in Known}
      BY <2>3, <2>4
    <3> QED  BY <1>3, <1>6, <2>6, <3>1 DEF Legible
  <2>8. m.body = part
    BY <1>6
  <2>9. Append(c.qIn, m) \in Seq(Legible)
    BY <2>1, <2>7
  <2> QED  BY <1>9, <2>6, <2>8, <2>9
<1>12. /\ c2.reading = "body" => c2.msgIn.size > 0
       /\ c2.qIn = c.qIn \/ c2.qIn = Append(c.qIn, m)
       /\ c2.reading \in {"header", "body"} /\ c.reading \in {"header", "body"}
  BY <1>1, <1>9
<1> HIDE DEF c, q, S, n
<1>13. PICK l \in 0..Len(wire[e]) : l = n
  BY <1>4
<1>14. /\ wire' = [wire EXCEPT ![e] = SubSeq(wire[e], l + 1, Len(wire[e]))]
       /\ Linked(S, SubSeq(wire[e], l + 1, Len(wire[e])), conn[q], c2,
                 More(q), Silent(q), FALSE, c2.reading = "header", Clean(q))
  BY <1>1, <1>10, <1>13
<1>15. IInv'
  BY ONLY IInv, e \in End, <1>1, <1>9, <1>11, <1>12, <1>13, <1>14, ReceiveKeeps, ZenonT(60) DEF c, q, S
<1> QED  BY <1>15

----------------------------------------------------------------------------
(* The handshake *)

\* What the reader of the handshake value knows.
LEMMA ReadsFirst ==
    ASSUME NEW S \in Seq(SendMsgs), NEW off \in Offsets(S), NEW listening, NEW listening2, NEW d, NEW d2,
           Reads(S, off, 0, listening, d.reading, d.msgIn, d.qIn),
           d.qIn = <<>>, d2.qIn = <<>>, d2.reading # "body"
    PROVE  Reads(S, off, 0 + 1, listening2, d2.reading, d2.msgIn, d2.qIn)
<1>1. off[0] = 1 /\ Len(d2.qIn) = 0 /\ Len(S) \in Nat
  BY OffsetsType, SentType
<1> QED  BY <1>1 DEF Reads

\* A read of the handshake value takes it off the wire.
LEMMA LinkFirst ==
    ASSUME NEW S \in Seq(SendMsgs), NEW cells \in Seq(Cells), cells # <<>>,
           NEW c, NEW d, NEW more, NEW silent, NEW listening, NEW clean,
           Linked(S, cells, c, d, more, silent, TRUE, listening, clean),
           NEW d2, NEW listening2, d.qIn = <<>>, d2.qIn = <<>>, d2.reading # "body"
    PROVE  Linked(S, SubSeq(cells, 2, Len(cells)), c, d2, more, silent, FALSE, listening2, clean)
<1>1. PICK n \in 0..Len(cells) : n = 1
  OBVIOUS
<1>2. ASSUME NEW off \in Offsets(S), NEW R \in Nat, clean, Holds(S, off, R, cells), R = 0, AllWellFormed(S),
             Reads(S, off, R, listening, d.reading, d.msgIn, d.qIn)
      PROVE  Reads(S, off, R + n, listening2, d2.reading, d2.msgIn, d2.qIn)
  BY <1>1, <1>2, ReadsFirst
<1>3. Linked(S, SubSeq(cells, n + 1, Len(cells)), c, d2, more, silent, FALSE, listening2, clean)
  BY <1>2, LinkRead
<1>4. n + 1 = 2
  BY <1>1
<1> QED  BY <1>3, <1>4

\* What every step of the handshake has to show.
LEMMA ShakeKeeps ==
    ASSUME IInv, NEW e \in End, NEW c2 \in Connections, conn' = [conn EXCEPT ![e] = c2],
           wire' \in [End -> Seq(Cells)], sent' \in [End -> Seq(Messages)],
           UNCHANGED <<snek, taken, phase, mixed>>, up' \in BOOLEAN,
           listed' \in {"no", "yes", "denied", "dropped"},
           verdict' \in {"none", "validated", "rejected"},
           "write" \in c2.done => c2.writing # "idle",
           "validate" \in c2.done => c2.validating, "read" \notin c2.done,
           c2.qIn = conn[e].qIn, c2.reading # "body",
           Len(wire'[Peer(e)]) >= Len(wire[Peer(e)]),
           c2.writing = conn[e].writing, c2.qOut = conn[e].qOut,
           c2.open => conn[e].open \/ c2.qOut = <<>>,
           Given', Shaking', SnekAdmitted', Carried(e)', Carried(Peer(e))'
    PROVE  IInv'
<1> DEFINE q == Peer(e)
<1>1. TypeOK /\ Arrived /\ Announced /\ WriteChain
  BY DEF IInv
<1>2. conn' \in [End -> Connections] /\ conn'[e] = c2 /\ conn'[q] = conn[q] /\ conn[q] \in Connections
  BY <1>1, Changed
<1>3. q \in End /\ (\A f \in End : f = e \/ f = q) /\ "server" \in End
  BY Ends DEF End
<1>4. wire[q] \in Seq(Cells) /\ wire'[q] \in Seq(Cells)
  BY <1>1, <1>3 DEF TypeOK
<1> HIDE DEF q
<1>5. TypeOK'
  <2>1. c2.done \subseteq Pending(e)'
    <3>1. c2.done \subseteq {"write", "validate", "read"}
      BY DEF Connections
    <3> QED  BY <1>2, <3>1 DEF Pending
  <2>2. conn[q].done \subseteq Pending(q)'
    BY <1>1, <1>2, <1>3, SMTT(60) DEF TypeOK, Pending
  <2>3. \A f \in End : conn'[f].done \subseteq Pending(f)'
    BY <1>2, <1>3, <2>1, <2>2
  <2>4. conn'["server"].qIn = conn["server"].qIn
    BY <1>2, <1>3
  <2>5. /\ taken' \in 0..Len(conn'["server"].qIn) /\ snek' \in BOOLEAN
        /\ phase' \in {"waiting", "run", "leaving", "stopped", "exited"}
    BY <1>1, <2>4 DEF TypeOK
  <2> QED  BY <1>1, <1>2, <2>3, <2>5 DEF TypeOK
<1>6. Arrived'
  <2>1. "read" \in conn[q].done => Len(wire[q]) >= Asked(q)
    BY <1>1, <1>3 DEF Arrived
  <2>2. Asked(q)' = Asked(q) /\ Asked(q) \in Nat
    BY <1>2, SMTT(60) DEF Asked, Connections, Messages
  <2>3. Len(wire'[q]) >= Len(wire[q])
    BY DEF q
  <2>4. "read" \in conn[q].done => Len(wire'[q]) >= Asked(q)'
    BY <1>4, <2>1, <2>2, <2>3
  <2> QED  BY <1>2, <1>3, <2>4 DEF Arrived
<1>7. Announced' /\ WriteChain'
  BY <1>1, <1>2, <1>3 DEF Announced, WriteChain
<1>8. \A p \in End : Carried(p)'
  BY <1>3 DEF q
<1> QED  BY <1>5, <1>6, <1>7, <1>8 DEF IInv

\* A function over the two ends, given as a record.
LEMMA Pair ==
    ASSUME NEW T, NEW a \in T, NEW b \in T, NEW f, f = [client |-> a, server |-> b]
    PROVE  f \in [End -> T] /\ f["client"] = a /\ f["server"] = b
<1>1. f["client"] = a /\ f["server"] = b
  OBVIOUS
<1>2. f \in [{"client", "server"} -> T]
  OBVIOUS
<1>3. End = {"client", "server"}
  BY DEF End
<1> QED  BY <1>1, <1>2, <1>3

\* The client's ReadValidation.
LEMMA AnswerValidationKeeps ==
    ASSUME IInv, AnswerValidation
    PROVE  IInv'
<1> DEFINE c == conn["client"]
           d == conn["server"]
           W == wire["client"]
<1>1. /\ c.reading = "validation" /\ "read" \in c.done
      /\ UNCHANGED <<up, snek, listed, verdict, taken, phase, sent, mixed>>
  BY DEF AnswerValidation, app
<1>2. PICK v \in Answers(Head(W)) :
        /\ conn' = [conn EXCEPT !["client"] =
                      [Listen(c, "idle") EXCEPT !.validating = TRUE, !.handshake = v]]
        /\ wire' = [client |-> Tail(W),
                    server |-> wire["server"] \o
                       (IF [Listen(c, "idle") EXCEPT !.validating = TRUE, !.handshake = v].open
                          THEN <<Validation(v)>> ELSE <<>>)]
  BY DEF AnswerValidation
<1> DEFINE c2 == [Listen(c, "idle") EXCEPT !.validating = TRUE, !.handshake = v]
           new == IF c.open THEN <<Validation(v)>> ELSE <<>>
<1>3. /\ TypeOK /\ Given /\ Shaking /\ Arrived /\ SnekAdmitted /\ "client" \in End /\ "server" \in End
      /\ Peer("client") = "server" /\ Peer("server") = "client"
  BY DEF IInv, End, Peer
<1>4. /\ sent["server"] \in Seq(SendMsgs) /\ W \in Seq(Cells) /\ c \in Connections /\ d \in Connections
      /\ Linked(sent["server"], W, d, c,
                More("server"), Silent("server"), Expecting("client"), Listening("client"), Clean("server"))
  BY <1>3, ReaderLink
<1>5. /\ Linked(sent["client"], wire["server"], c, d,
                More("client"), Silent("client"), Expecting("server"), Listening("server"), Clean("client"))
  BY <1>3, ReaderLink
<1>6. W # <<>> /\ Head(W) \in Cells
  <2>1. Len(W) >= 1
    BY <1>1, <1>3 DEF Arrived, Asked
  <2> QED  BY <1>4, <2>1
<1>7. /\ Silent("client") = TRUE /\ wire["server"] = <<>> /\ c.qIn = <<>> /\ phase = "waiting"
      /\ sent["client"] = <<>> /\ c.writing = "idle"
      /\ Clean("server") => Head(W) = Validation(d.handshake)
      /\ ~Clean("server") => Head(W) = Mix
  <2>1. Silent("client") = TRUE
    BY <1>1 DEF Silent
  <2> QED  BY <1>3, <1>6, <2>1 DEF Shaking
<1>8. listed \in {"yes", "dropped"} /\ d.handshake \in Handshakes
  <2>1. listed \in {"yes", "dropped"}
    BY <1>3, <1>6 DEF Shaking, TypeOK
  <2> QED  BY <1>3, <2>1 DEF Given
<1>9. v \in Values /\ (snek /\ Clean("server") => v = Scramble(d.handshake))
  <2>1. CASE ~snek
    BY <1>2, <2>1 DEF Answers, Values
  <2>2. CASE snek /\ Clean("server")
    <3>1. Head(W) = Validation(d.handshake) /\ Head(W)[2] = d.handshake /\ Head(W)[1] # Mix[1]
      BY <1>7, <2>2 DEF Validation, Mix
    <3>2. v = Scramble(d.handshake)
      BY <1>2, <2>2, <3>1 DEF Answers
    <3> QED  BY <1>8, <3>2 DEF Values
  <2>3. CASE snek /\ ~Clean("server")
    BY <1>2, <1>7, <2>3 DEF Answers
  <2> QED  BY <2>1, <2>2, <2>3
<1>10. /\ c2 \in Connections /\ c2.reading = "idle" /\ c2.validating = TRUE /\ c2.handshake = v
       /\ c2.done = c.done \ {"read"} /\ c2.posted = c.posted /\ c2.qOut = c.qOut /\ c2.open = c.open
       /\ c2.writing = c.writing /\ c2.msgIn = c.msgIn /\ c2.qIn = c.qIn
  BY <1>4, <1>9 DEF Connections, Listen
<1>11. conn' = [conn EXCEPT !["client"] = c2] /\ wire' = [client |-> Tail(W), server |-> wire["server"] \o new]
  BY <1>2, <1>10
<1> HIDE DEF c2
<1>12. Validation(v) \in Cells
  BY <1>9 DEF Validation, Cells
<1>13. new \in Seq(Cells) /\ wire["server"] \o new = new /\ (new # <<>> => Head(new) = Validation(v))
  <2>1. new \in Seq(Cells) /\ (new # <<>> => Head(new) = Validation(v))
    BY <1>12
  <2> HIDE DEF new
  <2> QED  BY <1>7, <2>1
<1> HIDE DEF new
<1>14. /\ wire' \in [End -> Seq(Cells)] /\ wire'["client"] = Tail(W) /\ wire'["server"] = new
       /\ Tail(W) = SubSeq(W, 2, Len(W))
  <2>1. Tail(W) \in Seq(Cells) /\ Tail(W) = SubSeq(W, 2, Len(W))
    BY <1>4, <1>6
  <2>2. wire' = [client |-> Tail(W), server |-> new]
    BY <1>11, <1>13
  <2> HIDE DEF W
  <2> QED  BY <1>13, <2>1, <2>2, Pair
<1>15. conn'["client"] = c2 /\ conn'["server"] = d
  BY <1>3, <1>10, <1>11, Changed
<1>16. Clean("client")' = Clean("client") /\ Clean("server")' = Clean("server")
  BY <1>1 DEF Clean
<1>17. Given' /\ SnekAdmitted'
  BY <1>1, <1>3, <1>15, <1>16 DEF Given, SnekAdmitted
<1>18. Silent("client")' = FALSE
  BY <1>10, <1>15 DEF Silent
<1>19. Shaking'
  <2>1. /\ conn'["client"].reading = "idle" /\ conn'["client"].qIn = <<>> /\ phase' = "waiting"
        /\ sent'["client"] = <<>> /\ conn'["client"].writing = "idle"
    BY <1>1, <1>7, <1>10, <1>15
  <2>2. /\ conn'["server"].reading = "validation" => conn'["server"].qIn = <<>>
        /\ conn'["server"].reading # "connect"
    BY <1>3, <1>15 DEF Shaking
  <2>3. wire'["server"] # <<>> =>
          /\ Head(wire'["server"]) = Validation(conn'["client"].handshake)
          /\ snek' /\ Clean("server")' => conn'["client"].handshake = Scramble(conn'["server"].handshake)
    BY <1>1, <1>9, <1>10, <1>13, <1>14, <1>15, <1>16
  <2>4. listed' \notin {"no", "denied"}
    BY <1>1, <1>8
  <2> QED  BY <1>18, <2>1, <2>2, <2>3, <2>4 DEF Shaking
<1>20. Carried("client")'
  <2>1. Expecting("client") = TRUE /\ Expecting("client")' = FALSE /\ Listening("client")' = TRUE
    BY <1>1, <1>10, <1>15 DEF Expecting, Listening
  <2>2. Linked(sent["server"], W, d, c,
               More("server"), Silent("server"), TRUE, Listening("client"), Clean("server"))
    BY <1>4, <2>1
  <2>3. Linked(sent["server"], SubSeq(W, 2, Len(W)), d, c2,
               More("server"), Silent("server"), FALSE, TRUE, Clean("server"))
    <3>1. c.qIn = <<>> /\ c2.qIn = <<>> /\ c2.reading # "body"
      BY <1>7, <1>10
    <3> HIDE DEF c, d, W
    <3> QED  BY ONLY <1>4, <1>6, <2>2, <3>1, LinkFirst
  <2>4. More("server")' = More("server") /\ Silent("server")' = Silent("server")
    BY DEF More, Silent
  <2>5. Linked(sent'["server"], wire'["client"], conn'["server"], conn'["client"],
               More("server")', Silent("server")', Expecting("client")', Listening("client")', Clean("server")')
    BY <1>1, <1>14, <1>15, <1>16, <2>1, <2>3, <2>4
  <2> QED  BY <1>3, <2>5 DEF Carried
<1>21. Carried("server")'
  <2>1. Linked(<<>>, <<>>, c, d,
               More("client"), TRUE, Expecting("server"), Listening("server"), Clean("client"))
    BY <1>5, <1>7
  <2>2. Linked(<<>>, IF c.open THEN <<Validation(v)>> ELSE <<>>, c2, d,
               More("client"), FALSE, Expecting("server"), Listening("server"), Clean("client"))
    <3>1. c2.writing = "idle" /\ c2.posted = c.posted /\ c2.qOut = c.qOut /\ c2.open = c.open
      BY <1>7, <1>10
    <3> HIDE DEF c, d
    <3> QED  BY ONLY <1>12, <2>1, <3>1, LinkAnswered
  <2>3. /\ More("client")' = More("client") /\ Expecting("server")' = Expecting("server")
        /\ Listening("server")' = Listening("server")
    BY <1>1, <1>15 DEF More, Expecting, Listening
  <2>4. Linked(sent'["client"], wire'["server"], conn'["client"], conn'["server"],
               More("client")', Silent("client")', Expecting("server")', Listening("server")', Clean("client")')
    BY <1>1, <1>7, <1>14, <1>15, <1>18, <1>16, <2>2, <2>3 DEF new
  <2> QED  BY <1>3, <2>4 DEF Carried
<1>22. Len(wire'["server"]) >= Len(wire["server"])
  <2>1. Len(wire["server"]) = 0 /\ Len(new) \in Nat
    BY <1>7, <1>13
  <2> QED  BY <1>14, <2>1
<1>23. /\ "write" \in c2.done => c2.writing # "idle"
       /\ "validate" \in c2.done => c2.validating
       /\ "read" \notin c2.done /\ c2.reading # "body"
  BY <1>3, <1>10, DoneIsPending
<1>24. /\ up' \in BOOLEAN /\ listed' \in {"no", "yes", "denied", "dropped"}
       /\ verdict' \in {"none", "validated", "rejected"} /\ sent' \in [End -> Seq(Messages)]
  BY <1>1, <1>3 DEF TypeOK
<1> QED  BY ONLY IInv, <1>1, <1>3, <1>10, <1>11, <1>14, <1>17, <1>19, <1>20, <1>21, <1>22, <1>23,
            <1>24, ShakeKeeps

\* What the server knows when it has read the answer.
LEMMA AnswerRead ==
    ASSUME IInv, conn["server"].reading = "validation", "read" \in conn["server"].done
    PROVE  /\ listed \in {"yes", "dropped"} /\ conn["server"].qIn = <<>> /\ wire["server"] # <<>>
           /\ ~Silent("client") /\ Silent("server") = FALSE /\ Expecting("server") = TRUE
           /\ Head(wire["server"]) = Validation(conn["client"].handshake)
           /\ snek /\ Clean("server") => conn["client"].handshake = Scramble(conn["server"].handshake)
           /\ SubSeq(wire["server"], 2, Len(wire["server"])) \in Seq(Cells)
           /\ wire \in [End -> Seq(Cells)]
<1>1. TypeOK /\ Shaking /\ Arrived /\ "server" \in End
  BY DEF IInv, End
<1>2. wire["server"] \in Seq(Cells) /\ wire \in [End -> Seq(Cells)]
  BY <1>1 DEF TypeOK
<1>3. Len(wire["server"]) >= 1
  BY <1>1 DEF Arrived, Asked
<1>4. wire["server"] # <<>> /\ SubSeq(wire["server"], 2, Len(wire["server"])) \in Seq(Cells)
  BY <1>2, <1>3
<1>5. listed \in {"yes", "dropped"}
  BY <1>1, <1>4 DEF Shaking, TypeOK
<1>6. /\ conn["server"].qIn = <<>> /\ ~Silent("client")
      /\ Head(wire["server"]) = Validation(conn["client"].handshake)
      /\ snek /\ Clean("server") => conn["client"].handshake = Scramble(conn["server"].handshake)
  BY <1>1, <1>4 DEF Shaking
<1>7. Silent("server") = FALSE /\ Expecting("server") = TRUE
  BY DEF Silent, Expecting
<1> QED  BY <1>2, <1>4, <1>5, <1>6, <1>7

\* The server's ReadValidation, the answer right.
LEMMA ValidateKeeps ==
    ASSUME IInv, Validate
    PROVE  IInv'
<1> DEFINE c == conn["server"]
           d == conn["client"]
           W == wire["server"]
           S == sent["server"]
           c2 == Post(Listen(c, "header"), Welcome)
           rest == SubSeq(W, 2, Len(W))
<1>1. /\ c.reading = "validation" /\ "read" \in c.done /\ verdict' = "validated"
      /\ UNCHANGED <<up, snek, listed, taken, phase, mixed>>
      /\ conn' = [conn EXCEPT !["server"] = c2] /\ sent' = [sent EXCEPT !["server"] = Append(S, Welcome)]
      /\ wire' = [wire EXCEPT !["server"] = rest]
  BY DEF Validate, Consume
<1>2. /\ TypeOK /\ Given /\ Shaking /\ "client" \in End /\ "server" \in End
      /\ Peer("client") = "server" /\ Peer("server") = "client"
  BY DEF IInv, End, Peer
<1>3. /\ listed \in {"yes", "dropped"} /\ c.qIn = <<>> /\ W # <<>> /\ ~Silent("client")
      /\ Silent("server") = FALSE /\ Expecting("server") = TRUE /\ rest \in Seq(Cells)
      /\ wire \in [End -> Seq(Cells)]
  BY <1>1, AnswerRead
<1>4. /\ sent["client"] \in Seq(SendMsgs) /\ W \in Seq(Cells) /\ c \in Connections /\ d \in Connections
      /\ Linked(sent["client"], W, d, c,
                More("client"), Silent("client"), TRUE, Listening("server"), Clean("client"))
  <2>1. /\ sent["client"] \in Seq(SendMsgs) /\ W \in Seq(Cells) /\ c \in Connections /\ d \in Connections
        /\ Linked(sent["client"], W, d, c,
                  More("client"), Silent("client"), Expecting("server"), Listening("server"), Clean("client"))
    BY <1>2, ReaderLink
  <2> QED  BY <1>3, <2>1
<1>5. /\ S \in Seq(SendMsgs) /\ wire["client"] \in Seq(Cells)
      /\ c.writing # "idle" => c.qOut # <<>>
      /\ Linked(S, wire["client"], c, d, TRUE, FALSE, Expecting("client"), Listening("client"), Clean("server"))
  <2>1. /\ S \in Seq(SendMsgs) /\ wire["client"] \in Seq(Cells)
        /\ c.writing # "idle" => c.qOut # <<>>
        /\ Linked(S, wire["client"], c, d,
                  More("server"), FALSE, Expecting("client"), Listening("client"), Clean("server"))
    BY <1>2, <1>3, WriterLink
  <2>2. More("server") = TRUE
    BY DEF More
  <2> QED  BY <2>1, <2>2
<1>6. Welcome \in SendMsgs /\ Welcome \in Messages
  BY Sendable, Readable
<1>7. Append(c.posted, Welcome) \in Seq(Messages \cup {CloseSocket})
  <2>1. c.posted \in Seq(Messages \cup {CloseSocket})
    BY <1>4 DEF Connections
  <2> QED  BY <1>6, <2>1
<1>8. /\ c2 \in Connections /\ c2.reading = "header" /\ c2.validating = c.validating
      /\ c2.handshake = c.handshake /\ c2.done = c.done \ {"read"}
      /\ c2.posted = Append(c.posted, Welcome) /\ c2.qOut = c.qOut /\ c2.open = c.open
      /\ c2.writing = c.writing /\ c2.msgIn = c.msgIn /\ c2.qIn = c.qIn
  BY <1>4, <1>7 DEF Connections, Listen, Post
<1> HIDE DEF c2, rest
<1>9. wire' \in [End -> Seq(Cells)] /\ wire'["client"] = wire["client"] /\ wire'["server"] = rest
  BY <1>1, <1>2, <1>3
<1>10. conn'["server"] = c2 /\ conn'["client"] = d
  BY <1>1, <1>2, <1>8, Changed
<1>11. /\ Append(S, Welcome) \in Seq(SendMsgs) /\ sent' \in [End -> Seq(Messages)]
       /\ sent'["server"] = Append(S, Welcome) /\ sent'["client"] = sent["client"]
  <2>1. Append(S, Welcome) \in Seq(SendMsgs)
    BY <1>5, <1>6
  <2>2. Append(S, Welcome) \in Seq(Messages)
    BY <2>1, Readable, SeqMonotonic
  <2> QED  BY <1>1, <1>2, <2>1, <2>2 DEF TypeOK, End
<1>12. Clean("client")' = Clean("client") /\ Clean("server")' = Clean("server")
  BY <1>1 DEF Clean
<1>13. Given'
  BY <1>1, <1>2, <1>8, <1>10, <1>11, <1>12 DEF Given
<1>14. Silent("client")' = FALSE /\ Silent("client") = FALSE
  BY <1>3, <1>10 DEF Silent
<1>15. Shaking'
  <2>1. listed' \notin {"no", "denied"} /\ conn'["server"].reading = "header"
    BY <1>1, <1>3, <1>8, <1>10
  <2>2. /\ conn'["client"].validating => conn'["client"].reading = "idle"
        /\ conn'["client"].validating => conn'["client"].qIn = <<>>
        /\ conn'["client"].qIn = <<>> => phase' = "waiting"
        /\ phase' = "waiting" => sent'["client"] = <<>> /\ conn'["client"].writing = "idle"
    BY <1>1, <1>2, <1>10, <1>11 DEF Shaking
  <2> QED  BY <1>14, <2>1, <2>2 DEF Shaking
<1>16. Carried("server")'
  <2>1. Linked(sent["client"], rest, d, c2, More("client"), Silent("client"), FALSE, TRUE, Clean("client"))
    <3>1. c.qIn = <<>> /\ c2.qIn = <<>> /\ c2.reading # "body"
      BY <1>3, <1>8
    <3>2. W # <<>>
      BY <1>3
    <3>3. Linked(sent["client"], SubSeq(W, 2, Len(W)), d, c2,
                 More("client"), Silent("client"), FALSE, TRUE, Clean("client"))
      <4> HIDE DEF c, d, W, S
      <4> QED  BY ONLY <1>4, <3>1, <3>2, LinkFirst
    <3> QED  BY <3>3 DEF rest
  <2>2. /\ More("client")' = More("client") /\ Expecting("server")' = FALSE /\ Listening("server")' = TRUE
    BY <1>1, <1>3, <1>8, <1>10 DEF More, Expecting, Listening
  <2>3. Linked(sent'["client"], wire'["server"], conn'["client"], conn'["server"],
               More("client")', Silent("client")', Expecting("server")', Listening("server")', Clean("client")')
    BY <1>9, <1>10, <1>11, <1>14, <1>12, <2>1, <2>2
  <2> QED  BY <1>2, <2>3 DEF Carried
<1>17. Carried("client")'
  <2>1. Linked(Append(S, Welcome), wire["client"], c2, d, TRUE, FALSE, Expecting("client"),
               Listening("client"), Clean("server"))
    <3> HIDE DEF c, d, S
    <3> QED  BY ONLY <1>4, <1>5, <1>6, <1>8, LinkPosted
  <2>2. /\ More("server")' = TRUE /\ Silent("server")' = FALSE
        /\ Expecting("client")' = Expecting("client") /\ Listening("client")' = Listening("client")
    BY <1>10 DEF More, Silent, Expecting, Listening
  <2>3. Linked(sent'["server"], wire'["client"], conn'["server"], conn'["client"],
               More("server")', Silent("server")', Expecting("client")', Listening("client")', Clean("server")')
    BY <1>9, <1>10, <1>11, <1>12, <2>1, <2>2
  <2> QED  BY <1>2, <2>3 DEF Carried
<1>18. /\ "write" \in c2.done => c2.writing # "idle"
       /\ "validate" \in c2.done => c2.validating
       /\ "read" \notin c2.done /\ c2.reading # "body"
  BY <1>2, <1>8, DoneIsPending
<1>19. /\ up' \in BOOLEAN /\ listed' \in {"no", "yes", "denied", "dropped"}
       /\ verdict' \in {"none", "validated", "rejected"} /\ SnekAdmitted'
  BY <1>1, <1>2 DEF TypeOK, SnekAdmitted
<1>20. Len(wire'["client"]) >= Len(wire["client"])
  BY <1>5, <1>9
<1> QED  BY ONLY IInv, <1>1, <1>2, <1>8, <1>9, <1>11, <1>13, <1>15, <1>16, <1>17, <1>18, <1>19,
            <1>20, ShakeKeeps

\* The server's ReadValidation, the answer wrong.
LEMMA RejectKeeps ==
    ASSUME IInv, Reject
    PROVE  IInv'
<1> DEFINE c == conn["server"]
           d == conn["client"]
           W == wire["server"]
           c2 == Closing(Listen(c, "idle"))
           rest == SubSeq(W, 2, Len(W))
<1>1. /\ c.reading = "validation" /\ "read" \in c.done /\ verdict' = "rejected" /\ up' = FALSE
      /\ UNCHANGED <<snek, listed, taken, phase, sent, mixed>> /\ Head(W)[2] # Scramble(c.handshake)
      /\ conn' = [conn EXCEPT !["server"] = c2] /\ wire' = [wire EXCEPT !["server"] = rest]
  BY DEF Reject, Consume, HandshakeCheck
<1>2. /\ TypeOK /\ Given /\ Shaking /\ "client" \in End /\ "server" \in End
      /\ Peer("client") = "server" /\ Peer("server") = "client"
  BY DEF IInv, End, Peer
<1>3. /\ listed \in {"yes", "dropped"} /\ c.qIn = <<>> /\ W # <<>> /\ ~Silent("client")
      /\ Silent("server") = FALSE /\ Expecting("server") = TRUE /\ rest \in Seq(Cells)
      /\ wire \in [End -> Seq(Cells)]
  BY <1>1, AnswerRead
<1>4. /\ sent["client"] \in Seq(SendMsgs) /\ W \in Seq(Cells) /\ c \in Connections /\ d \in Connections
      /\ Linked(sent["client"], W, d, c,
                More("client"), Silent("client"), TRUE, Listening("server"), Clean("client"))
  <2>1. /\ sent["client"] \in Seq(SendMsgs) /\ W \in Seq(Cells) /\ c \in Connections /\ d \in Connections
        /\ Linked(sent["client"], W, d, c,
                  More("client"), Silent("client"), Expecting("server"), Listening("server"), Clean("client"))
    BY <1>2, ReaderLink
  <2> QED  BY <1>3, <2>1
<1>5. /\ sent["server"] \in Seq(SendMsgs) /\ wire["client"] \in Seq(Cells)
      /\ Linked(sent["server"], wire["client"], c, d,
                More("server"), FALSE, Expecting("client"), Listening("client"), Clean("server"))
  BY <1>2, <1>3, WriterLink
<1>6. /\ c2 \in Connections /\ c2.reading = "idle" /\ c2.validating = c.validating
      /\ c2.handshake = c.handshake /\ c2.done = c.done \ {"read"}
      /\ c2.posted = c.posted /\ c2.qOut = c.qOut /\ c2.open = FALSE
      /\ c2.writing = c.writing /\ c2.msgIn = c.msgIn /\ c2.qIn = c.qIn
  BY <1>4 DEF Connections, Listen, Closing
<1>7. SnekAdmitted'
  <2>1. /\ Head(W) = Validation(d.handshake)
        /\ snek /\ Clean("server") => d.handshake = Scramble(c.handshake)
    BY <1>1, AnswerRead
  <2>2. Head(W)[2] = d.handshake
    BY <2>1 DEF Validation
  <2> QED  BY <1>1, <2>1, <2>2 DEF SnekAdmitted, Clean
<1> HIDE DEF c2, rest
<1>8. wire' \in [End -> Seq(Cells)] /\ wire'["client"] = wire["client"] /\ wire'["server"] = rest
  BY <1>1, <1>2, <1>3
<1>9. conn'["server"] = c2 /\ conn'["client"] = d
  BY <1>1, <1>2, <1>6, Changed
<1>10. Clean("client")' = Clean("client") /\ Clean("server")' = Clean("server")
  BY <1>1 DEF Clean
<1>11. Given'
  BY <1>1, <1>2, <1>6, <1>9, <1>10 DEF Given
<1>12. Silent("client")' = FALSE /\ Silent("client") = FALSE
  BY <1>3, <1>9 DEF Silent
<1>13. Shaking'
  <2>1. listed' \notin {"no", "denied"} /\ conn'["server"].reading = "idle"
    BY <1>1, <1>3, <1>6, <1>9
  <2>2. /\ conn'["client"].validating => conn'["client"].reading = "idle"
        /\ conn'["client"].validating => conn'["client"].qIn = <<>>
        /\ conn'["client"].qIn = <<>> => phase' = "waiting"
        /\ phase' = "waiting" => sent'["client"] = <<>> /\ conn'["client"].writing = "idle"
    BY <1>1, <1>2, <1>9 DEF Shaking
  <2> QED  BY <1>12, <2>1, <2>2 DEF Shaking
<1>14. Carried("server")'
  <2>1. Linked(sent["client"], rest, d, c2, More("client"), Silent("client"), FALSE, FALSE, Clean("client"))
    <3>1. c.qIn = <<>> /\ c2.qIn = <<>> /\ c2.reading # "body"
      BY <1>3, <1>6
    <3>2. W # <<>>
      BY <1>3
    <3>3. Linked(sent["client"], SubSeq(W, 2, Len(W)), d, c2,
                 More("client"), Silent("client"), FALSE, FALSE, Clean("client"))
      <4> HIDE DEF c, d, W
      <4> QED  BY ONLY <1>4, <3>1, <3>2, LinkFirst
    <3> QED  BY <3>3 DEF rest
  <2>2. /\ More("client")' = More("client") /\ Expecting("server")' = FALSE /\ Listening("server")' = FALSE
    BY <1>1, <1>3, <1>6, <1>9 DEF More, Expecting, Listening
  <2>3. Linked(sent'["client"], wire'["server"], conn'["client"], conn'["server"],
               More("client")', Silent("client")', Expecting("server")', Listening("server")', Clean("client")')
    BY <1>1, <1>8, <1>9, <1>12, <1>10, <2>1, <2>2
  <2> QED  BY <1>2, <2>3 DEF Carried
<1>15. Carried("client")'
  <2>1. Linked(sent["server"], wire["client"], c2, d,
               More("server"), FALSE, Expecting("client"), Listening("client"), Clean("server"))
    <3>1. c2.posted = c.posted /\ c2.qOut = c.qOut /\ (c2.open => c.open /\ c2.writing = c.writing)
      BY <1>6
    <3> HIDE DEF c, d
    <3> QED  BY ONLY <1>5, <3>1, LinkSame
  <2>2. /\ More("server")' = More("server") /\ Silent("server")' = FALSE
        /\ Expecting("client")' = Expecting("client") /\ Listening("client")' = Listening("client")
    BY <1>9 DEF More, Silent, Expecting, Listening
  <2>3. Linked(sent'["server"], wire'["client"], conn'["server"], conn'["client"],
               More("server")', Silent("server")', Expecting("client")', Listening("client")', Clean("server")')
    BY <1>1, <1>8, <1>9, <1>10, <2>1, <2>2
  <2> QED  BY <1>2, <2>3 DEF Carried
<1>16. /\ "write" \in c2.done => c2.writing # "idle"
       /\ "validate" \in c2.done => c2.validating
       /\ "read" \notin c2.done /\ c2.reading # "body"
  BY <1>2, <1>6, DoneIsPending
<1>17. /\ up' \in BOOLEAN /\ listed' \in {"no", "yes", "denied", "dropped"}
       /\ verdict' \in {"none", "validated", "rejected"} /\ sent' \in [End -> Seq(Messages)]
  BY <1>1, <1>2 DEF TypeOK
<1>18. Len(wire'["client"]) >= Len(wire["client"])
  BY <1>5, <1>8
<1> QED  BY ONLY IInv, <1>1, <1>2, <1>6, <1>7, <1>8, <1>11, <1>13, <1>14, <1>15, <1>16, <1>17, <1>18, ShakeKeeps

\* The server's Connection before and after ConnectToClient.
LEMMA Accepted ==
    ASSUME NEW v \in Handshakes
    PROVE  /\ Fresh \in Connections /\ ConnectToClient(v) \in Connections
           /\ Fresh.posted = <<>> /\ Fresh.qOut = <<>> /\ Fresh.qIn = <<>> /\ Fresh.reading = "idle"
           /\ Fresh.writing = "idle" /\ Fresh.validating = FALSE /\ Fresh.msgIn.body = <<>>
           /\ ConnectToClient(v).posted = <<>> /\ ConnectToClient(v).qOut = <<>>
           /\ ConnectToClient(v).qIn = <<>> /\ ConnectToClient(v).reading = "validation"
           /\ ConnectToClient(v).writing = "idle" /\ ConnectToClient(v).open = TRUE
           /\ ConnectToClient(v).msgIn.body = <<>> /\ ConnectToClient(v).handshake = v
           /\ ConnectToClient(v).done = {}
<1>1. Fresh.msgIn \in Messages
  BY DEF Fresh, Messages
<1>2. /\ <<>> \in Seq(Messages \cup {CloseSocket}) /\ <<>> \in Seq(Messages)
      /\ v \in Values \cup {Unset}
  BY DEF Values
<1>3. Fresh \in Connections
  BY <1>1, <1>2 DEF Fresh, Connections
<1>4. ConnectToClient(v) \in Connections
  BY <1>1, <1>2 DEF Fresh, Connections, ConnectToClient
<1> QED  BY <1>3, <1>4 DEF Fresh, ConnectToClient

\* The server accepts, ConnectToClient writes the handshake value.
LEMMA AcceptKeeps ==
    ASSUME IInv, Accept
    PROVE  IInv'
<1> DEFINE c == conn["server"]
           d == conn["client"]
<1>1. /\ listed = "no" /\ listed' = "yes"
      /\ UNCHANGED <<up, snek, verdict, taken, phase, sent>>
  BY DEF Accept
<1>2. PICK v \in Handshakes : Put("server", ConnectToClient(v), <<Validation(v)>>)
  BY DEF Accept
<1> DEFINE c2 == ConnectToClient(v)
           new == <<Validation(v)>>
<1>3. /\ TypeOK /\ Given /\ Shaking /\ SnekAdmitted /\ "client" \in End /\ "server" \in End
      /\ Peer("client") = "server" /\ Peer("server") = "client"
  BY DEF IInv, End, Peer
<1>4. /\ c = Fresh /\ wire["client"] = <<>> /\ wire["server"] = <<>> /\ sent["server"] = <<>>
      /\ Clean("server") /\ verdict = "none" /\ d.reading \in {"connect", "validation", "idle"}
      /\ d.validating = FALSE
  <2>1. d \in Connections
    BY <1>3 DEF TypeOK
  <2>2. d.validating \in BOOLEAN
    BY <2>1 DEF Connections
  <2> QED  BY <1>1, <1>3, <2>2 DEF Shaking
<1>5. /\ c2 \in Connections /\ c2.posted = <<>> /\ c2.qOut = <<>> /\ c2.qIn = <<>>
      /\ c2.reading = "validation" /\ c2.writing = "idle" /\ c2.open = TRUE /\ c2.msgIn.body = <<>>
      /\ c2.handshake = v /\ c2.done = {}
  BY <1>2, Accepted
<1>6. c.posted = <<>> /\ c.qOut = <<>> /\ c.qIn = <<>> /\ c.reading = "idle" /\ c.writing = "idle"
  BY <1>2, <1>4, Accepted
<1> HIDE DEF c2
<1>7. new \in Seq(Cells) /\ Len(new) = 1 /\ Head(new) = Validation(v) /\ <<>> \o new = new
  <2>1. Validation(v) \in Cells
    BY <1>2 DEF Validation, Cells, Values
  <2> HIDE DEF new
  <2> QED  BY <2>1 DEF new
<1>8. Put("server", c2, new)
  BY <1>2 DEF c2
<1> HIDE DEF new
<1>9. /\ conn' = [conn EXCEPT !["server"] = c2] /\ wire' = [wire EXCEPT !["client"] = <<>> \o new]
      /\ mixed' = mixed
  <2>1. ~HalfValidated("server")
    BY <1>3, <1>4 DEF HalfValidated
  <2>2. /\ conn' = [conn EXCEPT !["server"] = c2] /\ mixed' = mixed
        /\ wire' = [wire EXCEPT ![Peer("server")] = @ \o new]
    BY <1>5, <1>8, <2>1 DEF Put, Mixes
  <2> QED  BY <1>3, <1>4, <2>2
<1>10. Clean("client")' = Clean("client") /\ Clean("server")' = Clean("server")
  BY <1>9 DEF Clean
<1>11. /\ wire' \in [End -> Seq(Cells)] /\ wire'["client"] = new /\ wire'["server"] = <<>>
  BY <1>3, <1>4, <1>7, <1>9 DEF TypeOK
<1>12. conn'["server"] = c2 /\ conn'["client"] = d
  BY <1>3, <1>5, <1>9, Changed
<1>13. /\ sent["client"] \in Seq(SendMsgs) /\ d \in Connections /\ c \in Connections
       /\ Linked(sent["client"], wire["server"], d, c,
                 More("client"), Silent("client"), Expecting("server"), Listening("server"), Clean("client"))
  BY <1>3, ReaderLink
<1>14. d.qIn = <<>>
  <2>1. Linked(sent["server"], wire["client"], c, d,
               More("server"), Silent("server"), Expecting("client"), Listening("client"), Clean("server"))
    BY <1>3, ReaderLink
  <2>2. wire["client"] \in Seq(Cells)
    BY <1>3 DEF TypeOK
  <2> HIDE DEF c, d
  <2> QED  BY ONLY <1>4, <1>13, <2>1, <2>2, NothingSent
<1>15. Given' /\ SnekAdmitted'
  <2>1. SnekAdmitted'
    BY <1>1, <1>4 DEF SnekAdmitted
  <2>2. /\ conn'["server"].msgIn.body = <<>> /\ conn'["server"].qIn = <<>>
        /\ conn'["server"].handshake \in Handshakes
    BY <1>2, <1>5, <1>12
  <2>3. conn'["server"].msgIn.body \in Seq(Bytes) /\ conn'["server"].qIn \in Seq(Legible)
    BY <2>2
  <2> QED  BY <1>1, <1>3, <1>10, <2>1, <2>2, <2>3 DEF Given
<1>16. Silent("client")' = Silent("client")
  BY <1>12 DEF Silent
<1>17. Shaking'
  <2>1. listed' = "yes" /\ wire'["server"] = <<>> /\ conn'["client"].qIn = <<>>
    BY <1>1, <1>11, <1>12, <1>14
  <2>2. /\ conn'["client"].validating = FALSE /\ conn'["server"].qIn = <<>>
        /\ conn'["server"].reading = "validation"
    BY <1>4, <1>5, <1>12
  <2>3. Head(wire'["client"]) = Validation(conn'["server"].handshake)
    BY <1>5, <1>7, <1>11, <1>12
  <2>4. phase' = "waiting" /\ sent'["client"] = <<>> /\ conn'["client"].writing = "idle"
    BY <1>1, <1>3, <1>12, <1>14 DEF Shaking
  <2>5. Clean("server")'
    BY <1>4, <1>10
  <2> QED  BY <2>1, <2>2, <2>3, <2>4, <2>5 DEF Shaking
<1>18. Carried("server")'
  <2>1. Linked(sent["client"], wire["server"], d, c2,
               More("client"), Silent("client"), Expecting("server"), Listening("server"), Clean("client"))
    <3>1. c2.qIn = c.qIn /\ c2.reading # "body" /\ wire["server"] \in Seq(Cells)
      BY <1>3, <1>5, <1>6 DEF TypeOK
    <3> HIDE DEF c, d
    <3> QED  BY ONLY <1>13, <3>1, LinkSame
  <2>2. /\ More("client")' = More("client") /\ Expecting("server")' = TRUE /\ Expecting("server") = TRUE
        /\ Listening("server")' = FALSE /\ Listening("server") = FALSE
    BY <1>1, <1>5, <1>6, <1>12 DEF More, Expecting, Listening
  <2>3. Linked(sent'["client"], wire'["server"], conn'["client"], conn'["server"],
               More("client")', Silent("client")', Expecting("server")', Listening("server")', Clean("client")')
    BY <1>1, <1>4, <1>11, <1>12, <1>16, <1>10, <2>1, <2>2
  <2> QED  BY <1>3, <2>3 DEF Carried
<1>19. Carried("client")'
  <2>1. \A x, y, z : Linked(<<>>, new, c2, d, x, FALSE, y, FALSE, z)
    <3>1. d.reading # "body" /\ Len(new) <= 1 /\ c2.writing = "idle" /\ Len(new) = 1
      BY <1>4, <1>5, <1>7
    <3>2. c2.open => IF FALSE THEN Len(new) = 0 ELSE c2.writing = "idle" /\ Len(new) = 1
      BY <3>1
    <3> HIDE DEF c, d
    <3> QED  BY ONLY <1>5, <1>7, <1>14, <3>1, <3>2, LinkEmpty
  <2>2. Silent("server")' = FALSE /\ Listening("client")' = FALSE
    BY <1>4, <1>12 DEF Silent, Listening
  <2>3. Linked(sent'["server"], wire'["client"], conn'["server"], conn'["client"],
               More("server")', Silent("server")', Expecting("client")', Listening("client")', Clean("server")')
    BY <1>1, <1>4, <1>11, <1>12, <2>1, <2>2
  <2> QED  BY <1>3, <2>3 DEF Carried
<1>20. /\ "write" \in c2.done => c2.writing # "idle"
       /\ "validate" \in c2.done => c2.validating
       /\ "read" \notin c2.done /\ c2.reading # "body"
       /\ c2.qIn = c.qIn /\ c2.writing = c.writing /\ c2.qOut = c.qOut /\ c2.qOut = <<>>
  BY <1>5, <1>6
<1>21. /\ up' \in BOOLEAN /\ listed' \in {"no", "yes", "denied", "dropped"}
       /\ verdict' \in {"none", "validated", "rejected"} /\ sent' \in [End -> Seq(Messages)]
  BY <1>1, <1>3 DEF TypeOK
<1>22. Len(wire'["client"]) >= Len(wire["client"])
  <2>1. Len(wire["client"]) = 0 /\ Len(new) = 1
    BY <1>4, <1>7
  <2> QED  BY <1>11, <2>1
<1> QED  BY ONLY IInv, <1>1, <1>3, <1>5, <1>9, <1>11, <1>15, <1>17, <1>18, <1>19, <1>20, <1>21,
            <1>22, ShakeKeeps

----------------------------------------------------------------------------
(* Every behaviour *)

\* ClientInterface::Connect has returned, nothing else has happened.
LEMMA InitIInv ==
    ASSUME Init
    PROVE  IInv
<1> DEFINE d == [Fresh EXCEPT !.open = TRUE, !.reading = "connect"]
<1>1. /\ wire = [e \in End |-> <<>>] /\ up = TRUE /\ snek \in BOOLEAN /\ listed = "no" /\ verdict = "none"
      /\ mixed = {} /\ taken = 0 /\ phase = "waiting" /\ sent = [e \in End |-> <<>>]
      /\ conn = [client |-> d, server |-> Fresh]
  BY DEF Init
<1>2. Fresh.msgIn \in Messages
  BY DEF Fresh, Messages
<1>3. /\ Fresh \in Connections /\ Fresh.posted = <<>> /\ Fresh.qOut = <<>> /\ Fresh.qIn = <<>>
      /\ Fresh.reading = "idle" /\ Fresh.writing = "idle" /\ Fresh.validating = FALSE
      /\ Fresh.msgIn.body = <<>> /\ Fresh.open = FALSE /\ Fresh.done = {}
  <2>1. <<>> \in Seq(Messages \cup {CloseSocket}) /\ <<>> \in Seq(Messages)
    OBVIOUS
  <2> QED  BY <1>2, <2>1 DEF Fresh, Connections
<1>4. /\ d \in Connections /\ d.posted = <<>> /\ d.qOut = <<>> /\ d.qIn = <<>> /\ d.reading = "connect"
      /\ d.writing = "idle" /\ d.validating = FALSE /\ d.done = {}
  BY <1>3 DEF Connections
<1> HIDE DEF d
<1>5. conn \in [End -> Connections] /\ conn["client"] = d /\ conn["server"] = Fresh
  BY <1>1, <1>3, <1>4, Pair
<1>6. /\ "client" \in End /\ "server" \in End /\ (\A e \in End : e = "client" \/ e = "server")
      /\ Peer("client") = "server" /\ Peer("server") = "client"
  BY DEF End, Peer
<1>7. \A e \in End : wire[e] = <<>> /\ sent[e] = <<>>
  BY <1>1
<1>8. TypeOK
  <2>1. wire \in [End -> Seq(Cells)] /\ sent \in [End -> Seq(Messages)]
    BY <1>1
  <2>2. \A e \in End : conn[e].done \subseteq Pending(e)
    BY <1>3, <1>4, <1>5, <1>6
  <2>3. taken \in 0..Len(conn["server"].qIn)
    BY <1>1, <1>3, <1>5
  <2> QED  BY <1>1, <1>5, <2>1, <2>2, <2>3 DEF TypeOK
<1>9. Given
  <2>1. \A T : <<>> \in Seq(T)
    OBVIOUS
  <2>2. conn["server"].msgIn.body \in Seq(Bytes) /\ conn["server"].qIn \in Seq(Legible)
    BY <1>3, <1>5, <2>1
  <2>3. sent["client"] \in Seq(ClientMsgs) /\ sent["server"] \in Seq(SendMsgs)
    BY <1>6, <1>7, <2>1
  <2> QED  BY <1>1, <2>2, <2>3 DEF Given, Clean
<1>10. Shaking
  BY <1>1, <1>3, <1>4, <1>5, <1>6, <1>7 DEF Shaking, Silent, Clean
<1>11. Arrived /\ Announced /\ WriteChain /\ SnekAdmitted
  BY <1>1, <1>3, <1>4, <1>5, <1>6 DEF Arrived, Announced, WriteChain, SnekAdmitted
<1>12. <<>> \in Seq(Cells) /\ Len(<<>>) = 0
  OBVIOUS
<1>13. Carried("server")
  <2>1. d.open => IF TRUE THEN Len(<<>>) = 0 ELSE d.writing = "idle" /\ Len(<<>>) = 1
    BY <1>12
  <2>2. Fresh.reading # "body" /\ Len(<<>>) <= 1
    BY <1>3, <1>12
  <2>3. \A x, y, z : Linked(<<>>, <<>>, d, Fresh, x, TRUE, y, FALSE, z)
    BY ONLY <1>3, <1>4, <1>12, <2>1, <2>2, LinkEmpty
  <2>4. Silent("client") = TRUE /\ Listening("server") = FALSE
    BY <1>3, <1>4, <1>5 DEF Silent, Listening
  <2> QED  BY <1>5, <1>6, <1>7, <2>3, <2>4 DEF Carried
<1>14. Carried("client")
  <2>1. Fresh.open => IF FALSE THEN Len(<<>>) = 0 ELSE Fresh.writing = "idle" /\ Len(<<>>) = 1
    BY <1>3
  <2>2. d.reading # "body" /\ Len(<<>>) <= 1
    BY <1>4, <1>12
  <2>3. \A x, y, z : Linked(<<>>, <<>>, Fresh, d, x, FALSE, y, FALSE, z)
    BY ONLY <1>3, <1>4, <1>12, <2>1, <2>2, LinkEmpty
  <2>4. Silent("server") = FALSE /\ Listening("client") = FALSE
    BY <1>3, <1>4, <1>5 DEF Silent, Listening
  <2> QED  BY <1>5, <1>6, <1>7, <2>3, <2>4 DEF Carried
<1> QED  BY <1>6, <1>8, <1>9, <1>10, <1>11, <1>13, <1>14 DEF IInv

\* A step of nobody.
LEMMA StutterKeeps ==
    ASSUME IInv, UNCHANGED vars
    PROVE  IInv'
<1>1. /\ conn' = conn /\ wire' = wire /\ up' = up /\ snek' = snek /\ listed' = listed
      /\ verdict' = verdict /\ taken' = taken /\ phase' = phase /\ sent' = sent /\ mixed' = mixed
  BY DEF vars
<1>2. TypeOK' /\ Given' /\ Shaking'
  BY <1>1 DEF IInv, TypeOK, Given, Shaking, Silent, Clean, Pending
<1>3. Arrived' /\ Announced' /\ WriteChain' /\ SnekAdmitted'
  BY <1>1 DEF IInv, Arrived, Asked, Announced, WriteChain, SnekAdmitted
<1>4. \A p \in End : Carried(p)'
  BY <1>1, CarriedKept DEF Silent, More, Expecting, Listening, Clean
<1> QED  BY <1>2, <1>3, <1>4 DEF IInv

\* One step, whoever takes it.
LEMMA NextIInv ==
    ASSUME IInv, [Next]_vars
    PROVE  IInv'
<1>1. ASSUME NEW e \in End, KernelDone(e) \/ Handlers(e) PROVE IInv'
  BY <1>1, KernelDoneKeeps, RunSendKeeps, RunCloseKeeps, HeaderWrittenKeeps, BodyWrittenKeeps,
     WriteFailedKeeps, HeaderReadKeeps, BodyReadKeeps, ReadFailedKeeps, ValidationWrittenKeeps,
     ValidationFailedKeeps DEF Handlers
<1>2. CASE Handshake
  BY <1>2, ConnectedKeeps, AnswerValidationKeeps, ValidateKeeps, RejectKeeps DEF Handshake
<1>3. CASE Accepting
  BY <1>3, AcceptKeeps, SetupKeeps DEF Accepting
<1>4. CASE Users
  BY <1>4, BroadcastKeeps, ClientSendKeeps, DisconnectKeeps, SetupKeeps DEF Users
<1>5. CASE Handle \/ EnterGame \/ Leaving
  BY <1>5, HandleKeeps, SetupKeeps DEF Leaving
<1>6. CASE UNCHANGED vars
  BY <1>6, StutterKeeps
<1> QED  BY <1>1, <1>2, <1>3, <1>4, <1>5, <1>6 DEF Next

\* The inductive invariant holds of every behaviour of the two connections
\* (Networking/connection.h), for any messages and any number of them.
THEOREM InvariantHolds == Spec => []IInv
<1>1. Init => IInv
  BY InitIInv
<1>2. IInv /\ [Next]_vars => IInv'
  BY NextIInv
<1> QED  BY <1>1, <1>2, PTL DEF Spec

\* The state keeps its type: m_qMessagesOut, m_msgTemporaryIn and the pending
\* operations of both connections, whatever is read (Networking/connection.h).
THEOREM TypeCorrect == Spec => []TypeOK
<1>1. IInv => TypeOK
  BY DEF IInv
<1> QED  BY <1>1, InvariantHolds, PTL

\* A queue of an open socket is being written, and a write that is under way
\* has a message in the queue (Send, WriteHeader and WriteBody,
\* Networking/connection.h).
THEOREM QueueIsWritten == Spec => []WriteChain
<1>1. IInv => WriteChain
  BY DEF IInv
<1> QED  BY <1>1, InvariantHolds, PTL

\* ReadValidation turns away a client that runs this code only if the write of
\* WriteValidation was mixed with one of Send (Networking/connection.h).
THEOREM HandshakeAdmits == Spec => []SnekAdmitted
<1>1. IInv => SnekAdmitted
  BY DEF IInv
<1> QED  BY <1>1, InvariantHolds, PTL

\* Whoever reads the handshake value finds one, unless it was mixed.
LEMMA FindsValidation ==
    ASSUME IInv, NEW e \in End, conn[e].reading = "validation", wire[e] # <<>>, Clean(Peer(e))
    PROVE  Head(wire[e])[1] = "val"
<1>1. Shaking
  BY DEF IInv
<1>2. CASE e = "client"
  <2>1. Silent("client") /\ wire["client"] # <<>> /\ Clean("server")
    BY <1>2 DEF Silent, Peer
  <2>2. Head(wire[e]) = Validation(conn["server"].handshake)
    BY <1>1, <1>2, <2>1 DEF Shaking
  <2> QED  BY <2>2 DEF Validation
<1>3. CASE e = "server"
  <2>1. Head(wire[e]) = Validation(conn["client"].handshake)
    BY <1>1, <1>3 DEF Shaking
  <2> QED  BY <2>1 DEF Validation
<1> QED  BY <1>2, <1>3 DEF End

\* Every read of a stream on which no writes mixed finds the cell it is for.
LEMMA ReadsAligned ==
    ASSUME IInv, NEW e \in End, AllWellFormed(sent[Peer(e)]), Clean(Peer(e))
    PROVE  Aligned(e)
<1> DEFINE S == sent[Peer(e)]
           W == wire[e]
           c == conn[e]
<1> SUFFICES ASSUME W # <<>>
             PROVE  /\ c.reading = "validation" => Head(W)[1] = "val"
                    /\ c.reading = "header" => Head(W)[1] = "hdr"
                    /\ c.reading = "body" => Head(W)[1] = "byte"
  BY DEF Aligned
<1>1. S \in Seq(SendMsgs) /\ W \in Seq(Cells) /\ c \in Connections
  BY ReaderLink
<1>2. c.reading = "validation" => Head(W)[1] = "val"
  BY FindsValidation
<1>3. c.reading = "header" => Head(W)[1] = "hdr"
  <2>1. c.reading = "header" => \E k \in 1..Len(S) : Head(W) = Header(S[k])
    BY ReaderFinds
  <2> QED  BY <2>1 DEF Header
<1>4. ASSUME c.reading = "body" PROVE Head(W)[1] = "byte"
  <2>1. c.msgIn.size > 0 /\ c.msgIn.size \in Nat
    BY <1>1, <1>4 DEF IInv, Announced, Connections, Messages
  <2>2. 1 <= c.msgIn.size /\ 1 \in 1..Len(W) /\ Head(W) = W[1]
    BY <1>1, <2>1
  <2>3. PICK k \in 1..Len(S) : 1 \in 1..Len(S[k].body) /\ W[1] = S[k].body[1]
    BY <1>4, <2>2, ReaderFinds
  <2>4. S[k].body \in Seq(Bytes)
    BY <1>1, SentType
  <2>5. W[1] \in Bytes
    BY <2>3, <2>4
  <2> QED  BY <2>2, <2>5 DEF Bytes
<1> QED  BY <1>2, <1>3, <1>4

\* As long as the other end sends what its headers announce, ReadValidation,
\* ReadHeader and ReadBody find the handshake value, a header and a body, for
\* messages of any length, unless WriteValidation's write was mixed with one of
\* Send; and that happens to the server's writes only (Networking/connection.h).
THEOREM StreamAligned == Spec => []FramesAligned
<1>1. IInv => FramesAligned
  <2>1. ASSUME IInv PROVE "client" \notin mixed
    BY <2>1 DEF IInv, Given, Clean
  <2>2. ASSUME IInv, NEW e \in End, AllWellFormed(sent[Peer(e)]) PROVE Peer(e) \in mixed \/ Aligned(e)
    BY <2>2, ReadsAligned DEF Clean
  <2> QED  BY <2>1, <2>2 DEF FramesAligned, AllWellFormed
<1> QED  BY <1>1, InvariantHolds, PTL

----------------------------------------------------------------------------
(* The channel from the clients to the server *)

\* what the server's program has received
Rcvd == [i \in DOMAIN conn["server"].qIn |-> Seen(conn["server"].qIn[i])]

\* a step the two programs cannot see
Unseen ==
    conn'["server"].qIn = conn["server"].qIn /\ sent'["client"] = sent["client"]

\* A handler that changes one connection and delivers nothing.
LEMMA UnseenChange ==
    ASSUME IInv, NEW e \in End, NEW c2, conn' = [conn EXCEPT ![e] = c2], c2.qIn = conn[e].qIn,
           sent'["client"] = sent["client"]
    PROVE  Unseen
<1>1. conn \in [End -> Connections] /\ "server" \in End
  BY DEF IInv, TypeOK, End
<1> QED  BY <1>1 DEF Unseen

\* The handlers that write.
LEMMA WritingUnseen ==
    ASSUME IInv, NEW e \in End,
           RunSend(e) \/ RunClose(e) \/ HeaderWritten(e) \/ BodyWritten(e) \/ WriteFailed(e)
    PROVE  Unseen
<1> DEFINE c == conn[e]
<1>1. c \in Connections
  BY DEF IInv, TypeOK
<1>2. sent' = sent
  BY DEF RunSend, RunClose, HeaderWritten, BodyWritten, WriteFailed, Close, app
<1>3. CASE RunSend(e)
  <2> DEFINE d == [c EXCEPT !.posted = Tail(@), !.qOut = Append(@, Head(c.posted))]
  <2>1. \/ conn' = [conn EXCEPT ![e] = [d EXCEPT !.writing = "header"]]
        \/ conn' = [conn EXCEPT ![e] = d]
    BY <1>3 DEF RunSend, Put
  <2>2. d.qIn = c.qIn /\ [d EXCEPT !.writing = "header"].qIn = c.qIn
    BY <1>1 DEF Connections
  <2> HIDE DEF d
  <2> QED  BY <1>2, <2>1, <2>2, UnseenChange
<1>4. CASE RunClose(e) \/ WriteFailed(e)
  <2> DEFINE d1 == Closing([c EXCEPT !.posted = Tail(@)])
             d2 == Closing(Wrote(c))
  <2>1. conn' = [conn EXCEPT ![e] = d1] \/ conn' = [conn EXCEPT ![e] = d2]
    BY <1>4 DEF RunClose, WriteFailed, Close
  <2>2. d1.qIn = c.qIn /\ d2.qIn = c.qIn
    BY <1>1 DEF Connections, Closing, Wrote
  <2> HIDE DEF d1, d2
  <2> QED  BY <1>2, <2>1, <2>2, UnseenChange
<1>5. CASE HeaderWritten(e) \/ BodyWritten(e)
  <2> DEFINE d1 == [Wrote(c) EXCEPT !.writing = "body"]
             d2 == [Wrote(c) EXCEPT !.qOut = Tail(@)]
             d3 == [d2 EXCEPT !.writing = "header"]
  <2>1. \/ conn' = [conn EXCEPT ![e] = d1] \/ conn' = [conn EXCEPT ![e] = d2]
        \/ conn' = [conn EXCEPT ![e] = d3]
    BY <1>5 DEF HeaderWritten, BodyWritten, NextMessage, Put
  <2>2. d1.qIn = c.qIn /\ d2.qIn = c.qIn /\ d3.qIn = c.qIn
    BY <1>1 DEF Connections, Wrote
  <2> HIDE DEF d1, d2, d3
  <2> QED  BY <1>2, <2>1, <2>2, UnseenChange
<1> QED  BY <1>3, <1>4, <1>5

\* The handlers that neither write messages nor deliver.
LEMMA OthersUnseen ==
    ASSUME IInv, NEW e \in End,
           KernelDone(e) \/ ReadFailed(e) \/ ValidationWritten(e) \/ ValidationFailed(e)
    PROVE  Unseen
<1> DEFINE c == conn[e]
<1>1. c \in Connections
  BY DEF IInv, TypeOK
<1>2. sent' = sent
  BY DEF KernelDone, ReadFailed, ValidationWritten, ValidationFailed, Close, app
<1>3. CASE KernelDone(e)
  <2>1. PICK op \in {"write", "validate", "read"} :
          conn' = [conn EXCEPT ![e] = [c EXCEPT !.done = @ \cup {op}]]
    BY <1>3 DEF KernelDone
  <2> DEFINE d == [c EXCEPT !.done = @ \cup {op}]
  <2>2. conn' = [conn EXCEPT ![e] = d] /\ d.qIn = c.qIn
    BY <1>1, <2>1 DEF Connections
  <2> HIDE DEF d
  <2> QED  BY <1>2, <2>2, UnseenChange
<1>4. CASE ReadFailed(e) \/ ValidationFailed(e)
  <2> DEFINE d1 == Closing(Listen(c, "idle"))
             d2 == Closing([c EXCEPT !.validating = FALSE])
  <2>1. conn' = [conn EXCEPT ![e] = d1] \/ conn' = [conn EXCEPT ![e] = d2]
    BY <1>4 DEF ReadFailed, ValidationFailed, Close
  <2>2. d1.qIn = c.qIn /\ d2.qIn = c.qIn
    BY <1>1 DEF Connections, Closing, Listen
  <2> HIDE DEF d1, d2
  <2> QED  BY <1>2, <2>1, <2>2, UnseenChange
<1>5. CASE ValidationWritten(e)
  <2> DEFINE d1 == [c EXCEPT !.validating = FALSE, !.done = @ \ {"validate"}]
             d2 == Listen(d1, "header")
  <2>1. conn' = [conn EXCEPT ![e] = d1] \/ conn' = [conn EXCEPT ![e] = d2]
    BY <1>5 DEF ValidationWritten
  <2>2. d1.qIn = c.qIn /\ d2.qIn = c.qIn
    BY <1>1 DEF Connections, Listen
  <2> HIDE DEF d1, d2
  <2> QED  BY <1>2, <2>1, <2>2, UnseenChange
<1> QED  BY <1>3, <1>4, <1>5

\* The handshake, the acceptor and the programs deliver nothing.
LEMMA HandshakeUnseen ==
    ASSUME IInv, Handshake \/ Accept
    PROVE  Unseen
<1>1. /\ conn["client"] \in Connections /\ conn["server"] \in Connections
      /\ "client" \in End /\ "server" \in End /\ sent \in [End -> Seq(Messages)]
  BY DEF IInv, TypeOK, End
<1>2. sent'["client"] = sent["client"]
  BY <1>1 DEF Handshake, Connected, AnswerValidation, Validate, Reject, Accept, app, End
<1>3. CASE Connected
  <2> DEFINE d == Listen(conn["client"], "validation")
  <2>1. conn' = [conn EXCEPT !["client"] = d] /\ d.qIn = conn["client"].qIn
    BY <1>1, <1>3 DEF Connected, Listen, Connections
  <2> HIDE DEF d
  <2> QED  BY <1>1, <1>2, <2>1, UnseenChange
<1>4. CASE AnswerValidation
  <2>1. PICK v : conn' = [conn EXCEPT !["client"] =
                    [Listen(conn["client"], "idle") EXCEPT !.validating = TRUE, !.handshake = v]]
    BY <1>4 DEF AnswerValidation
  <2> DEFINE d == [Listen(conn["client"], "idle") EXCEPT !.validating = TRUE, !.handshake = v]
  <2>2. conn' = [conn EXCEPT !["client"] = d] /\ d.qIn = conn["client"].qIn
    BY <1>1, <2>1 DEF Listen, Connections
  <2> HIDE DEF d
  <2> QED  BY <1>1, <1>2, <2>2, UnseenChange
<1>5. CASE Validate \/ Reject
  <2> DEFINE d1 == Post(Listen(conn["server"], "header"), Welcome)
             d2 == Closing(Listen(conn["server"], "idle"))
  <2>1. conn' = [conn EXCEPT !["server"] = d1] \/ conn' = [conn EXCEPT !["server"] = d2]
    BY <1>5 DEF Validate, Reject
  <2>2. d1.qIn = conn["server"].qIn /\ d2.qIn = conn["server"].qIn
    BY <1>1 DEF Post, Closing, Listen, Connections
  <2> HIDE DEF d1, d2
  <2> QED  BY <1>1, <1>2, <2>1, <2>2, UnseenChange
<1>6. CASE Accept
  <2>1. PICK v \in Handshakes : conn' = [conn EXCEPT !["server"] = ConnectToClient(v)]
    BY <1>6 DEF Accept, Put
  <2>2. conn["server"] = Fresh
    BY <1>6 DEF Accept, IInv, Shaking
  <2>3. ConnectToClient(v).qIn = conn["server"].qIn
    BY <2>2, Accepted
  <2> QED  BY <1>1, <1>2, <2>1, <2>3, UnseenChange
<1> QED  BY <1>3, <1>4, <1>5, <1>6 DEF Handshake

\* The programs, apart from the client's Send, and the network.
LEMMA UsersUnseen ==
    ASSUME IInv,
           \/ Deny \/ Broadcast \/ Handle \/ EnterGame \/ Disconnect
           \/ StopContext \/ Exit \/ Break \/ UNCHANGED vars
    PROVE  Unseen
<1>1. /\ conn["client"] \in Connections /\ conn["server"] \in Connections
      /\ "client" \in End /\ "server" \in End /\ sent \in [End -> Seq(Messages)]
  BY DEF IInv, TypeOK, End
<1>2. ASSUME NEW m, Message(m) PROVE Unseen
  <2> DEFINE d == Post(conn["server"], m)
  <2>1. \/ conn' = conn /\ sent' = sent
        \/ conn' = [conn EXCEPT !["server"] = d] /\ sent' = [sent EXCEPT !["server"] = Append(@, m)]
    BY <1>2 DEF Message
  <2>2. d.qIn = conn["server"].qIn
    BY <1>1 DEF Post, Connections
  <2>3. sent'["client"] = sent["client"]
    BY <1>1, <2>1
  <2> HIDE DEF d
  <2> QED  BY <1>1, <2>1, <2>2, <2>3, UnseenChange DEF Unseen
<1>3. CASE Deny \/ EnterGame \/ StopContext \/ Break \/ UNCHANGED vars
  BY <1>3 DEF Deny, EnterGame, StopContext, Break, app, vars, Unseen
<1>4. CASE Broadcast
  BY <1>2, <1>4 DEF Broadcast
<1>5. CASE Handle
  <2>1. Message(conn["server"].qIn[taken + 1]) \/ (conn' = conn /\ sent' = sent)
    BY <1>5 DEF Handle
  <2> QED  BY <1>2, <2>1 DEF Unseen
<1>6. CASE Disconnect \/ Exit
  <2> DEFINE d1 == Post(conn["client"], CloseSocket)
             d2 == Closing(conn["client"])
  <2>1. /\ sent' = sent
        /\ \/ conn' = conn \/ conn' = [conn EXCEPT !["client"] = d1]
           \/ conn' = [conn EXCEPT !["client"] = d2]
    BY <1>6 DEF Disconnect, Exit
  <2>2. d1.qIn = conn["client"].qIn /\ d2.qIn = conn["client"].qIn
    BY <1>1 DEF Post, Closing, Connections
  <2> HIDE DEF d1, d2
  <2> QED  BY <1>1, <2>1, <2>2, UnseenChange DEF Unseen
<1> QED  BY <1>3, <1>4, <1>5, <1>6

\* The server's ReadHeader and ReadBody deliver one message, or none.
LEMMA ReadingSeen ==
    ASSUME IInv, NEW e \in End, HeaderRead(e) \/ BodyRead(e)
    PROVE  \/ Unseen
           \/ /\ sent'["client"] = sent["client"]
              /\ \E m : conn'["server"].qIn = Append(conn["server"].qIn, m)
<1> DEFINE c == conn[e]
<1>1. c \in Connections /\ conn \in [End -> Connections] /\ "server" \in End
  BY DEF IInv, TypeOK, End
<1>2. sent' = sent
  BY DEF HeaderRead, BodyRead, app
<1>3. ASSUME NEW m, conn' = [conn EXCEPT ![e] = Deliver(c, m)]
      PROVE  \/ Unseen
             \/ conn'["server"].qIn = Append(conn["server"].qIn, m)
  <2> DEFINE d == Deliver(c, m)
  <2>1. d.qIn = Append(c.qIn, m)
    BY <1>1 DEF Deliver, Listen, Connections
  <2>2. conn' = [conn EXCEPT ![e] = d]
    BY <1>3
  <2> HIDE DEF d
  <2>3. e = "server" => conn'["server"] = d
    BY <1>1, <2>2
  <2>4. e # "server" => conn'["server"] = conn["server"]
    BY <1>1, <2>2
  <2> QED  BY <1>2, <2>1, <2>3, <2>4 DEF Unseen
<1>4. CASE HeaderRead(e)
  <2>1. PICK m : \/ conn' = [conn EXCEPT ![e] = [Listen(c, "body") EXCEPT !.msgIn = m]]
                 \/ conn' = [conn EXCEPT ![e] = Deliver(c, m)]
    BY <1>4 DEF HeaderRead
  <2> DEFINE d == [Listen(c, "body") EXCEPT !.msgIn = m]
  <2>2. d.qIn = c.qIn
    BY <1>1 DEF Listen, Connections
  <2>3. conn' = [conn EXCEPT ![e] = d] \/ conn' = [conn EXCEPT ![e] = Deliver(c, m)]
    BY <2>1
  <2> HIDE DEF d
  <2>4. CASE conn' = [conn EXCEPT ![e] = d]
    BY <1>2, <2>2, <2>4, UnseenChange
  <2> QED  BY <1>2, <1>3, <2>3, <2>4
<1>5. CASE BodyRead(e)
  <2>1. PICK m : conn' = [conn EXCEPT ![e] = Deliver(c, m)]
    BY <1>5 DEF BodyRead
  <2> QED  BY <1>2, <1>3, <2>1
<1> QED  BY <1>4, <1>5

\* What the programs can see of a step: nothing, a Send or a message received.
LEMMA StepSeen ==
    ASSUME IInv, [Next]_vars
    PROVE  \/ Unseen
           \/ /\ conn'["server"].qIn = conn["server"].qIn
              /\ \E m \in ClientMsgs : sent'["client"] = Append(sent["client"], m)
           \/ /\ sent'["client"] = sent["client"]
              /\ \E m : conn'["server"].qIn = Append(conn["server"].qIn, m)
<1>1. ASSUME NEW e \in End, KernelDone(e) \/ Handlers(e)
      PROVE  \/ Unseen
             \/ /\ sent'["client"] = sent["client"]
                /\ \E m : conn'["server"].qIn = Append(conn["server"].qIn, m)
  <2>1. CASE HeaderRead(e) \/ BodyRead(e)
    BY <2>1, ReadingSeen
  <2>2. CASE RunSend(e) \/ RunClose(e) \/ HeaderWritten(e) \/ BodyWritten(e) \/ WriteFailed(e)
    BY <2>2, WritingUnseen
  <2>3. CASE KernelDone(e) \/ ReadFailed(e) \/ ValidationWritten(e) \/ ValidationFailed(e)
    BY <2>3, OthersUnseen
  <2> QED  BY <1>1, <2>1, <2>2, <2>3 DEF Handlers
<1>2. CASE ClientSend
  <2>1. PICK m \in ClientMsgs :
          /\ conn' = [conn EXCEPT !["client"] = Post(@, m)]
          /\ sent' = [sent EXCEPT !["client"] = Append(@, m)]
    BY <1>2 DEF ClientSend
  <2>2. conn \in [End -> Connections] /\ sent \in [End -> Seq(Messages)] /\ "client" \in End /\ "server" \in End
    BY DEF IInv, TypeOK, End
  <2>3. conn'["server"].qIn = conn["server"].qIn /\ sent'["client"] = Append(sent["client"], m)
    BY <2>1, <2>2
  <2> QED  BY <2>3
<1>3. CASE Handshake \/ Accepting
  BY <1>3, HandshakeUnseen, UsersUnseen DEF Accepting
<1>4. CASE Broadcast \/ Disconnect \/ Break \/ Handle \/ EnterGame \/ Leaving \/ UNCHANGED vars
  BY <1>4, UsersUnseen DEF Leaving
<1> QED  BY <1>1, <1>2, <1>3, <1>4 DEF Next, Users

\* The server has received a beginning of what was sent.
LEMMA RcvdIsPrefix ==
    ASSUME IInv
    PROVE  /\ conn["server"].qIn \in Seq(Messages) /\ sent["client"] \in Seq(ClientMsgs)
           /\ Rcvd = [i \in 1..Len(conn["server"].qIn) |-> sent["client"][i]]
           /\ Len(conn["server"].qIn) <= Len(sent["client"])
<1>1. conn["server"].qIn \in Seq(Messages) /\ sent["client"] \in Seq(ClientMsgs)
  BY DEF IInv, TypeOK, Given, End, Connections
<1>2. DOMAIN conn["server"].qIn = 1..Len(conn["server"].qIn)
  BY <1>1
<1> QED  BY <1>1, <1>2, ReceivedUpstream DEF Rcvd

\* The same as an implication, which also holds of the next state.
LEMMA RcvdAlways ==
    IInv => /\ Rcvd = [i \in 1..Len(conn["server"].qIn) |-> sent["client"][i]]
            /\ Len(conn["server"].qIn) <= Len(sent["client"])
  BY RcvdIsPrefix

\* A step of the connections is a step of the channel, or none.
LEMMA StepOfChannel ==
    ASSUME IInv, IInv', [Next]_vars
    PROVE  [Upstream!Next]_<<sent["client"], Rcvd>>
<1> DEFINE q == conn["server"].qIn
           S == sent["client"]
           qq == conn'["server"].qIn
<1>1. q \in Seq(Messages) /\ S \in Seq(ClientMsgs) /\ Len(q) \in Nat /\ Len(S) \in Nat
  BY RcvdIsPrefix
<1>2. Rcvd = [i \in 1..Len(q) |-> S[i]]
  BY RcvdIsPrefix
<1>3. /\ Rcvd' = [i \in 1..Len(qq) |-> sent'["client"][i]]
      /\ Len(qq) <= Len(sent'["client"])
  <2>1. (/\ Rcvd = [i \in 1..Len(conn["server"].qIn) |-> sent["client"][i]]
         /\ Len(conn["server"].qIn) <= Len(sent["client"]))'
    BY RcvdAlways, PTL
  <2> QED  BY <2>1
<1>4. CASE Unseen
  <2>1. Rcvd' = Rcvd
    BY <1>4 DEF Unseen, Rcvd
  <2> QED  BY <1>4, <2>1 DEF Unseen
<1>5. CASE qq = q /\ \E m \in ClientMsgs : sent'["client"] = Append(S, m)
  <2>1. Rcvd' = Rcvd
    BY <1>5 DEF Rcvd
  <2> QED  BY <1>5, <2>1 DEF Upstream!Next, Upstream!Send, Rcvd
<1>6. CASE sent'["client"] = S /\ \E m : qq = Append(q, m)
  <2>1. Len(qq) = Len(q) + 1
    BY <1>1, <1>6
  <2>2. Rcvd' = [i \in 1..(Len(q) + 1) |-> S[i]] /\ Len(q) + 1 <= Len(S)
    BY <1>3, <1>6, <2>1
  <2>3. Len(Rcvd) = Len(q)
    BY <1>1, <1>2
  <2>4. Rcvd' = Append(Rcvd, S[Len(Rcvd) + 1]) /\ Len(Rcvd) < Len(S)
    BY <1>1, <1>2, <2>2, <2>3
  <2> QED  BY <1>6, <2>4 DEF Upstream!Next, Upstream!Receive, Rcvd
<1> QED  BY <1>4, <1>5, <1>6, StepSeen

\* What a client gives to Send reaches OnMessage of the server in order, once
\* and unaltered, whatever fails: the connection implements a FIFO channel
\* (Send, ReadHeader, ReadBody and AddToIncomingMessageQueue,
\* Networking/connection.h), for messages of any length and any number of them.
THEOREM UpstreamIsFifo == Spec => FifoUpstream
<1>1. Init => Upstream!Init
  <2> SUFFICES ASSUME Init PROVE Upstream!Init
    OBVIOUS
  <2>1. IInv
    BY InitIInv
  <2>2. sent["client"] = <<>>
    BY DEF Init, End
  <2>3. conn["server"].qIn = <<>>
    BY <2>1 DEF Init, IInv, Shaking, Fresh
  <2>4. Rcvd = <<>>
    BY <2>3 DEF Rcvd
  <2> QED  BY <2>2, <2>4 DEF Upstream!Init, Rcvd
<1>2. IInv /\ IInv' /\ [Next]_vars => [Upstream!Next]_<<sent["client"], Rcvd>>
  BY StepOfChannel
<1> QED  BY <1>1, <1>2, InvariantHolds, PTL DEF Spec, FifoUpstream, Upstream!Spec, Rcvd

============================================================================
