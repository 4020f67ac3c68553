----------------------------- MODULE Connection -----------------------------
(***************************************************************************)
(* One link between two net::Connection objects (Networking/connection.h): *)
(* the server's, which ServerInterface lists and drops                     *)
(* (Networking/server.h), and the client's, which ClientInterface owns     *)
(* (Networking/client.h).                                                  *)
(*                                                                         *)
(* Every asynchronous operation is three things: its start (in the handler *)
(* that calls async_read or async_write), its completion in the kernel     *)
(* (KernelDone) and its handler on the context's one thread.  close()      *)
(* aborts the operations the kernel has not completed, and their handlers  *)
(* still run, later, with an error.                                        *)
(*                                                                         *)
(* The stream is cut into cells, the unit a read asks for: a handshake     *)
(* value, a header, or one piece of a body.  A write of one call is whole  *)
(* on it, unless two calls overlap (Mixes).                                *)
(***************************************************************************)
EXTENDS Naturals, Sequences, FiniteSets

CONSTANTS
    Handshakes,   \* values m_handshakeOut of the server can take
    Unset,        \* m_handshakeOut before it is set
    Scramble(_),  \* Connection::Scramble
    ClientMsgs,   \* what a client gives to Send
    ServerMsgs,   \* what the server gives to Send, apart from the next two
    Welcome,      \* the message ServerValidation
    StartGame,    \* the message StartGame, which the server sends back
    MaxBody,      \* bound: size of a body that garbage can announce
    MaxSend,      \* bound: messages the client gives to Send
    MaxBroadcast  \* bound: messages the server broadcasts to an open connection

\* the messages the two programs build
Known == ClientMsgs \cup ServerMsgs \cup {Welcome, StartGame}

\* the pieces of their bodies
Bytes == {<<"byte", m.id>> : m \in Known}

\* operator<< keeps header.size at the size of the body (Networking/message.h)
ASSUME ConnectionAssumption ==
    /\ \A m \in Known :
         /\ m \in [id : {n.id : n \in Known}, size : Nat, body : Seq(Bytes)]
         /\ m.size = Len(m.body)
         /\ m.id \notin {"none", "garbage", "close"}
    /\ MaxBody \in Nat /\ MaxSend \in Nat /\ MaxBroadcast \in Nat

End == {"server", "client"}

Peer(e) == IF e = "server" THEN "client" ELSE "server"

\* stands for the lambda Disconnect posts, among the messages to send
CloseSocket == [id |-> "close", size |-> 0, body |-> <<>>]

VARIABLES
    conn,    \* the two Connection objects
    wire,    \* wire[e]: the cells on their way to e
    up,      \* FALSE once the TCP connection has been shut by an end or a failure
    snek,    \* TRUE iff the peer runs Connection's code, FALSE iff it answers anything
    listed,  \* the server's pointer: "no", "yes", "denied", "dropped"
    verdict, \* of the server's ReadValidation: "none", "validated", "rejected"
    taken,   \* number of messages Update has handled
    phase,   \* of the client's main: "waiting", "run", "leaving", "stopped", "exited"
    sent,    \* history: sent[e] is what e gave to Send
    mixed    \* history: the ends of which two writes overlapped and mixed

vars == <<conn, wire, up, snek, listed, verdict, taken, phase, sent, mixed>>

app == <<snek, listed, verdict, taken, phase, sent>>

stream == <<wire, mixed>>

Fresh == [open |-> FALSE,         \* m_socket.is_open()
          posted |-> <<>>,        \* lambdas posted to the context, not yet run
          qOut |-> <<>>,          \* m_qMessagesOut
          writing |-> "idle",     \* pending write: "header" or "body"
          validating |-> FALSE,   \* pending write of WriteValidation
          reading |-> "idle",     \* pending "connect", "validation", "header", "body"
          done |-> {},            \* pending operations the kernel has completed
          msgIn |-> [id |-> "none", size |-> 0, body |-> <<>>], \* m_msgTemporaryIn
          qIn |-> <<>>,           \* all that AddToIncomingMessageQueue pushed
          handshake |-> Unset]   \* m_handshakeOut

\* ClientInterface::Connect has returned: async_connect is under way
Init ==
    /\ conn = [server |-> Fresh,
               client |-> [Fresh EXCEPT !.open = TRUE, !.reading = "connect"]]
    /\ wire = [e \in End |-> <<>>]
    /\ up = TRUE
    /\ snek \in BOOLEAN
    /\ listed = "no" /\ verdict = "none" /\ taken = 0 /\ phase = "waiting"
    /\ sent = [e \in End |-> <<>>]
    /\ mixed = {}

----------------------------------------------------------------------------
(* The stream *)

Validation(v) == <<"val", v>>

Header(m) == <<"hdr", m.id, m.size>>

\* eight bytes of which some belong to another write
Mix == <<"mix">>

\* what m_msgTemporaryIn.header holds after a read of cell
HeaderOf(cell) ==
    IF cell[1] = "hdr" THEN {<<cell[2], cell[3]>>} ELSE {"garbage"} \X (0..MaxBody)

\* the write of WriteValidation may be half done: it is pending, and no read has
\* got its value
HalfValidated(e) ==
    LET cells == wire[Peer(e)]
    IN  /\ conn[e].validating /\ "validate" \notin conn[e].done
        /\ cells # <<>>
        /\ \/ cells[Len(cells)] = Mix
           \/ cells[Len(cells)][1] = "val" /\ "read" \notin conn[Peer(e)].done

\* async_write sends its bytes in one or several calls of async_write_some.
\* What is written while WriteValidation is half done goes between its bytes;
\* the number of bytes stays the same, and a handshake value is as long as a header.
Mixes(e, cells) ==
    /\ HalfValidated(e) /\ cells # <<>>
    /\ wire' = [wire EXCEPT ![Peer(e)] = [i \in 1..(Len(@) + Len(cells)) |-> Mix]]
    /\ mixed' = mixed \cup {e}

\* e, now in state c, has written cells; a closed socket takes none
Put(e, c, cells) ==
    /\ conn' = [conn EXCEPT ![e] = c]
    /\ \/ /\ wire' = IF c.open THEN [wire EXCEPT ![Peer(e)] = @ \o cells] ELSE wire
          /\ UNCHANGED mixed
       \/ c.open /\ Mixes(e, cells)

\* an error handler that returns without m_socket.close()
StaysOpen(c) == c

\* what an operation that fails leaves behind: the socket closed
Closing(c) == [c EXCEPT !.open = FALSE]

Close(e, c) ==
    /\ conn' = [conn EXCEPT ![e] = Closing(c)]
    /\ up' = FALSE
    /\ UNCHANGED <<stream, app>>

\* the context's thread runs handlers until ClientInterface stops the context
Runs(e) == e = "client" => phase \in {"waiting", "run", "leaving"}

Failing(e, op) == op \notin conn[e].done /\ (~conn[e].open \/ ~up)

\* the kernel completes a pending operation of an open socket
KernelDone(e) ==
    LET c == conn[e]
        cells == IF c.reading = "body" THEN c.msgIn.size ELSE 1
        finished == {op \in {"write", "validate", "read"} :
                       \/ op = "write" /\ c.writing # "idle"
                       \/ op = "validate" /\ c.validating
                       \/ op = "read" /\ c.reading \notin {"idle", "connect"}
                                      /\ Len(wire[e]) >= cells}
    IN  /\ c.open
        /\ \E op \in finished \ c.done :
               conn' = [conn EXCEPT ![e].done = @ \cup {op}]
        /\ UNCHANGED <<stream, up, app>>

----------------------------------------------------------------------------
(* Send *)

\* posted lambdas run in the opposite order
PostFront(c, m) == [c EXCEPT !.posted = <<m>> \o @]

\* asio::post of the lambda that sends m
Post(c, m) == [c EXCEPT !.posted = Append(@, m)]

\* the test is made after the message is in the queue: it is never empty
IdleAfterPush(c) == FALSE

\* every Send starts a write of its own
AlwaysIdle(c) == TRUE

\* !writingMessage
Idle(c) == c.qOut = <<>>

\* the lambda Send posted
RunSend(e) ==
    LET c == [conn[e] EXCEPT !.posted = Tail(@), !.qOut = Append(@, Head(conn[e].posted))]
    IN  /\ Runs(e) /\ conn[e].posted # <<>> /\ Head(conn[e].posted) # CloseSocket
        /\ IF Idle(conn[e])
             THEN Put(e, [c EXCEPT !.writing = "header"], <<Header(Head(c.qOut))>>)
             ELSE Put(e, c, <<>>)
        /\ UNCHANGED <<up, app>>

\* the lambda Connection::Disconnect posted
RunClose(e) ==
    /\ Runs(e) /\ conn[e].posted # <<>> /\ Head(conn[e].posted) = CloseSocket
    /\ Close(e, [conn[e] EXCEPT !.posted = Tail(@)])

Wrote(c) == [c EXCEPT !.writing = "idle", !.done = @ \ {"write"}]

\* PopFront, then WriteHeader of the next message, if any
NextMessage(e) ==
    LET c == [Wrote(conn[e]) EXCEPT !.qOut = Tail(@)]
    IN  IF c.qOut = <<>> THEN Put(e, c, <<>>)
        ELSE Put(e, [c EXCEPT !.writing = "header"], <<Header(Head(c.qOut))>>)

\* the handler of WriteHeader: the body follows if the vector is not empty,
\* whatever the header announces
HeaderWritten(e) ==
    LET body == Head(conn[e].qOut).body
    IN  /\ Runs(e) /\ conn[e].writing = "header" /\ "write" \in conn[e].done
        /\ IF body # <<>>
             THEN Put(e, [Wrote(conn[e]) EXCEPT !.writing = "body"], body)
             ELSE NextMessage(e)
        /\ UNCHANGED <<up, app>>

\* the handler of WriteBody
BodyWritten(e) ==
    /\ Runs(e) /\ conn[e].writing = "body" /\ "write" \in conn[e].done
    /\ NextMessage(e)
    /\ UNCHANGED <<up, app>>

\* either handler, with an error
WriteFailed(e) ==
    /\ Runs(e) /\ conn[e].writing # "idle" /\ Failing(e, "write")
    /\ Close(e, Wrote(conn[e]))

----------------------------------------------------------------------------
(* Receive *)

\* an operation starts as if the kernel had already completed it
ListenStale(c, what) == [c EXCEPT !.reading = what]

Listen(c, what) == [c EXCEPT !.reading = what, !.done = @ \ {"read"}]

\* async_read into m_msgTemporaryIn.header; body keeps what the last read left
ReadInto(c, h) == [id |-> h[1], size |-> h[2], body |-> c.msgIn.body]

\* AddToIncomingMessageQueue that does not listen for the next message
DeliverLast(c, m) == [Listen(c, "idle") EXCEPT !.msgIn = m, !.qIn = Append(@, m)]

\* AddToIncomingMessageQueue, and the next ReadHeader
Deliver(c, m) == [Listen(c, "header") EXCEPT !.msgIn = m, !.qIn = Append(@, m)]

Consume(e, n) == wire' = [wire EXCEPT ![e] = SubSeq(@, n + 1, Len(@))]

\* the handler of ReadHeader
HeaderRead(e) ==
    /\ Runs(e) /\ conn[e].reading = "header" /\ "read" \in conn[e].done
    /\ \E h \in HeaderOf(Head(wire[e])) :
         LET m == ReadInto(conn[e], h)
         IN  conn' = [conn EXCEPT ![e] =
                 IF m.size > 0 THEN [Listen(@, "body") EXCEPT !.msgIn = m] ELSE Deliver(@, m)]
    /\ Consume(e, 1)
    /\ UNCHANGED <<up, app, mixed>>

\* the handler of ReadBody
BodyRead(e) ==
    LET m == conn[e].msgIn
    IN  /\ Runs(e) /\ conn[e].reading = "body" /\ "read" \in conn[e].done
        /\ conn' = [conn EXCEPT ![e] =
               Deliver(@, [m EXCEPT !.body = SubSeq(wire[e], 1, m.size)])]
        /\ Consume(e, m.size)
        /\ UNCHANGED <<up, app, mixed>>

\* the handler of any read, with an error
ReadFailed(e) ==
    /\ Runs(e) /\ conn[e].reading \notin {"idle", "connect"} /\ Failing(e, "read")
    /\ Close(e, Listen(conn[e], "idle"))

----------------------------------------------------------------------------
(* Connecting and validating *)

\* the handler of async_connect listens for the handshake, error or not
Connected ==
    /\ Runs("client") /\ conn["client"].reading = "connect"
    /\ conn' = [conn EXCEPT !["client"] = Listen(@, "validation")]
    /\ up' \in IF listed = "no" THEN {up, FALSE} ELSE {up}
    /\ UNCHANGED <<stream, app>>

\* ConnectToClient: WriteValidation and ReadValidation
ConnectToClient(v) ==
    [Fresh EXCEPT !.open = TRUE, !.handshake = v, !.validating = TRUE, !.reading = "validation"]

\* WaitForClientConnection's handler, the client allowed by OnClientConnect
Accept ==
    /\ listed = "no" /\ up
    /\ \E v \in Handshakes : Put("server", ConnectToClient(v), <<Validation(v)>>)
    /\ listed' = "yes"
    /\ UNCHANGED <<up, snek, verdict, taken, phase, sent>>

\* the same, the client denied: the last pointer goes, the socket with it
Deny ==
    /\ listed = "no" /\ up
    /\ listed' = "denied"
    /\ up' = FALSE
    /\ UNCHANGED <<conn, stream, snek, verdict, taken, phase, sent>>

\* the handler of WriteValidation
ValidationWritten(e) ==
    LET c == [conn[e] EXCEPT !.validating = FALSE, !.done = @ \ {"validate"}]
    IN  /\ Runs(e) /\ conn[e].validating /\ "validate" \in conn[e].done
        /\ conn' = [conn EXCEPT ![e] = IF e = "client" THEN Listen(c, "header") ELSE c]
        /\ UNCHANGED <<stream, up, app>>

\* the same, with an error
ValidationFailed(e) ==
    /\ Runs(e) /\ conn[e].validating /\ Failing(e, "validate")
    /\ Close(e, [conn[e] EXCEPT !.validating = FALSE])

\* the values there are
Values == Handshakes \cup {Scramble(v) : v \in Handshakes}

\* what m_handshakeOut of the client can become after a read of cell; of a value
\* whose highest byte alone is wrong Scramble makes the right one
Answers(cell) ==
    CASE ~snek      -> Handshakes
      [] cell = Mix -> Values
      [] OTHER      -> {Scramble(cell[2])}

\* the client's ReadValidation: the value goes back scrambled
AnswerValidation ==
    LET c == Listen(conn["client"], "idle")
    IN  /\ Runs("client")
        /\ conn["client"].reading = "validation" /\ "read" \in conn["client"].done
        /\ \E v \in Answers(Head(wire["client"])) :
             LET d == [c EXCEPT !.validating = TRUE, !.handshake = v]
             IN  /\ conn' = [conn EXCEPT !["client"] = d]
                 /\ wire' = [client |-> Tail(wire["client"]),
                             server |-> wire["server"] \o
                                        (IF d.open THEN <<Validation(v)>> ELSE <<>>)]
        /\ UNCHANGED <<up, app, mixed>>

\* the constructor forgets to scramble
Unscrambled(v) == v

\* m_handshakeCheck
HandshakeCheck(v) == Scramble(v)

\* the server's ReadValidation: the answer is right, OnClientValidated sends
\* the game's state, ReadHeader
Validate ==
    LET c == conn["server"]
    IN  /\ c.reading = "validation" /\ "read" \in c.done
        /\ Head(wire["server"])[2] = HandshakeCheck(c.handshake)
        /\ conn' = [conn EXCEPT !["server"] = Post(Listen(@, "header"), Welcome)]
        /\ sent' = [sent EXCEPT !["server"] = Append(@, Welcome)]
        /\ verdict' = "validated"
        /\ Consume("server", 1)
        /\ UNCHANGED <<up, snek, listed, taken, phase, mixed>>

\* the answer is wrong
Reject ==
    LET c == conn["server"]
    IN  /\ c.reading = "validation" /\ "read" \in c.done
        /\ Head(wire["server"])[2] # HandshakeCheck(c.handshake)
        /\ conn' = [conn EXCEPT !["server"] = Closing(Listen(@, "idle"))]
        /\ verdict' = "rejected" /\ up' = FALSE
        /\ Consume("server", 1)
        /\ UNCHANGED <<snek, listed, taken, phase, sent, mixed>>

----------------------------------------------------------------------------
(* The users of the two connections *)

\* what MessageAllClients does about this connection
Message(m) ==
    IF conn["server"].open
      THEN /\ conn' = [conn EXCEPT !["server"] = Post(@, m)]
           /\ sent' = [sent EXCEPT !["server"] = Append(@, m)]
           /\ UNCHANGED listed
      ELSE /\ listed' = "dropped"
           /\ UNCHANGED <<conn, sent>>

\* the broadcasts that were sent here
Broadcasts == {i \in DOMAIN sent["server"] : sent["server"][i] \in ServerMsgs}

\* a broadcast of the server, on behalf of other clients
Broadcast ==
    /\ listed = "yes" /\ (conn["server"].open => Cardinality(Broadcasts) < MaxBroadcast)
    /\ \E m \in ServerMsgs : Message(m)
    /\ UNCHANGED <<stream, up, snek, verdict, taken, phase>>

\* Update: OnMessage of the next message; StartGame goes back as it came
Handle ==
    /\ taken < Len(conn["server"].qIn)
    /\ taken' = taken + 1
    /\ LET m == conn["server"].qIn[taken + 1]
       IN  IF m.id = StartGame.id /\ listed = "yes" THEN Message(m)
           ELSE UNCHANGED <<conn, sent, listed>>
    /\ UNCHANGED <<stream, up, snek, verdict, phase>>

\* the first message is taken for ServerValidation, and nothing else is
JoinedFirst == conn["client"].qIn # <<>> /\ Head(conn["client"].qIn).id = Welcome.id

\* HandleMessages finds the client's ID in the queue
Joined == \E i \in DOMAIN conn["client"].qIn : conn["client"].qIn[i].id = Welcome.id

\* main's loop that waits for the ID; it handles messages only while connected
EnterGame ==
    /\ phase = "waiting" /\ conn["client"].open /\ Joined
    /\ phase' = "run"
    /\ UNCHANGED <<conn, stream, up, snek, listed, verdict, taken, sent>>

\* ClientInterface::Send; the game sends only once it knows its ID
ClientSend ==
    /\ phase = "run" /\ conn["client"].open
    /\ Len(sent["client"]) < MaxSend
    /\ \E m \in ClientMsgs :
         /\ conn' = [conn EXCEPT !["client"] = Post(@, m)]
         /\ sent' = [sent EXCEPT !["client"] = Append(@, m)]
    /\ UNCHANGED <<stream, up, snek, listed, verdict, taken, phase>>

\* ClientInterface::Disconnect up to m_context.stop
Disconnect ==
    /\ phase = "run"
    /\ phase' = "leaving"
    /\ conn' = IF conn["client"].open
                 THEN [conn EXCEPT !["client"] = Post(@, CloseSocket)] ELSE conn
    /\ UNCHANGED <<stream, up, snek, listed, verdict, taken, sent>>

\* m_context.stop and join: no handler runs any more
StopContext ==
    /\ phase = "leaving"
    /\ phase' = "stopped"
    /\ UNCHANGED <<conn, stream, up, snek, listed, verdict, taken, sent>>

\* the process ends; m_connection was released, so the system closes the socket
Exit ==
    /\ phase = "stopped"
    /\ phase' = "exited" /\ up' = FALSE
    /\ conn' = [conn EXCEPT !["client"] = Closing(@)]
    /\ UNCHANGED <<stream, snek, listed, verdict, taken, sent>>

\* the network or the other process fails, and TCP reports it
Break ==
    /\ up /\ up' = FALSE
    /\ UNCHANGED <<conn, stream, app>>

----------------------------------------------------------------------------
Handlers(e) ==
    \/ RunSend(e) \/ RunClose(e)
    \/ HeaderWritten(e) \/ BodyWritten(e) \/ WriteFailed(e)
    \/ HeaderRead(e) \/ BodyRead(e) \/ ReadFailed(e)
    \/ ValidationWritten(e) \/ ValidationFailed(e)

Handshake == Connected \/ AnswerValidation \/ Validate \/ Reject

Accepting == Accept \/ Deny

Users == Broadcast \/ ClientSend \/ Disconnect \/ Break

Leaving == StopContext \/ Exit

Next ==
    \/ \E e \in End : KernelDone(e) \/ Handlers(e)
    \/ Handshake \/ Accepting \/ Users \/ Handle \/ EnterGame \/ Leaving

Spec == Init /\ [][Next]_vars

(***************************************************************************)
(* Fairness: the kernel completes what it can, the context threads run     *)
(* their handlers, the server accepts and handles, the client's main goes  *)
(* on waiting for its ID, and a client that has begun to leave exits.      *)
(* Nobody is obliged to send, to leave or to fail.                         *)
(***************************************************************************)
Fairness ==
    /\ \A e \in End : WF_vars(KernelDone(e)) /\ WF_vars(Handlers(e))
    /\ WF_vars(Handshake) /\ WF_vars(Accepting) /\ WF_vars(Handle)
    /\ WF_vars(EnterGame) /\ WF_vars(Leaving)

----------------------------------------------------------------------------
(* Properties *)

Cells == ({"val"} \X Values) \cup {Header(m) : m \in Known} \cup Bytes \cup {Mix}

\* what a read can make of the stream
Messages == [id : {m.id : m \in Known} \cup {"none", "garbage"}, size : Nat, body : Seq(Cells)]

Connections ==
    [open : BOOLEAN,
     posted : Seq(Messages \cup {CloseSocket}),
     qOut : Seq(Messages),
     writing : {"idle", "header", "body"},
     validating : BOOLEAN,
     reading : {"idle", "connect", "validation", "header", "body"},
     done : SUBSET {"write", "validate", "read"},
     msgIn : Messages,
     qIn : Seq(Messages),
     handshake : Values \cup {Unset}]

Pending(e) ==
    {op \in {"post", "write", "validate", "read"} :
        \/ op = "post" /\ conn[e].posted # <<>>
        \/ op = "write" /\ conn[e].writing # "idle"
        \/ op = "validate" /\ conn[e].validating
        \/ op = "read" /\ conn[e].reading # "idle"}

\* Type invariant; the kernel has completed only what is pending.
TypeOK ==
    /\ conn \in [End -> Connections]
    /\ \A e \in End : conn[e].done \subseteq Pending(e)
    /\ wire \in [End -> Seq(Cells)]
    /\ sent \in [End -> Seq(Messages)] /\ mixed \subseteq End
    /\ up \in BOOLEAN /\ snek \in BOOLEAN
    /\ listed \in {"no", "yes", "denied", "dropped"}
    /\ verdict \in {"none", "validated", "rejected"}
    /\ taken \in 0..Len(conn["server"].qIn)
    /\ phase \in {"waiting", "run", "leaving", "stopped", "exited"}

\* m_qMessagesOut and the chain WriteHeader, WriteBody agree: a queue with
\* messages is being written as long as the socket is open (Send starts a write
\* only when it finds the queue empty, so a stalled queue would stay stalled),
\* and the handlers call Front and PopFront only on a queue with messages.
WriteChain ==
    \A e \in End :
        /\ conn[e].open /\ conn[e].qOut # <<>> => conn[e].writing # "idle"
        /\ conn[e].writing # "idle" => conn[e].qOut # <<>>

WellFormed(m) == m.size = Len(m.body)

\* The next cell that e reads is the cell its pending read is for.
Aligned(e) ==
    wire[e] # <<>> =>
        CASE conn[e].reading = "validation" -> Head(wire[e])[1] = "val"
          [] conn[e].reading = "header"     -> Head(wire[e])[1] = "hdr"
          [] conn[e].reading = "body"       -> Head(wire[e])[1] = "byte"
          [] OTHER -> TRUE

\* As long as every message given to Send has as many bytes as its header says,
\* each read finds what it expects: the handshake comes first although messages
\* may be sent to a client before it is validated, and the writes of one queue
\* never mix.  Only the write of WriteValidation can mix with another one, and
\* only on the way to the client; of a stream where it did nothing is claimed.
FramesAligned ==
    \A e \in End :
        /\ (\A i \in DOMAIN sent[Peer(e)] : WellFormed(sent[Peer(e)][i])) =>
              Peer(e) \in mixed \/ Aligned(e)
        /\ "client" \notin mixed

\* A client that runs this code is turned away by the handshake only if the value
\* it was sent had been mixed with a broadcast.
SnekAdmitted == verdict = "rejected" => ~snek \/ "server" \in mixed

\* What a reader of the message that trusts its header sees.
Seen(m) == [m EXCEPT !.body = SubSeq(@, 1, m.size)]

Upstream ==
    INSTANCE Channel WITH
        Msgs <- ClientMsgs, sent <- sent["client"],
        rcvd <- [i \in DOMAIN conn["server"].qIn |-> Seen(conn["server"].qIn[i])]

\* What the clients send reaches the server as a FIFO channel would carry it:
\* nothing out of order, twice, altered or made up, whatever fails.
FifoUpstream == Upstream!Spec

\* What was given to Send has been received, again and again: no message stays
\* in a queue or on the stream for good, unless the connection goes down, or a
\* malformed message or a mixed write has shifted the stream.
Delivered ==
    \A e \in End :
        []<>(\/ Len(conn[Peer(e)].qIn) >= Len(sent[e])
             \/ ~up \/ e \in mixed
             \/ \E i \in DOMAIN sent[e] : ~WellFormed(sent[e][i]))

\* A client that runs this code and was accepted gets into the game, unless the
\* connection goes down or the handshake was mixed with a broadcast: main waits for
\* the ID without a timeout, and broadcasts of the game may come before it.
Admitted ==
    []<>(listed = "yes" /\ snek => phase # "waiting" \/ ~up \/ "server" \in mixed)

\* When the connection goes down, whoever does it, the server's socket is closed
\* and all of its handlers come to an end; MessageAllClients relies on the
\* first to report a disconnected client.
CloseNoticed == []<>(~up => ~conn["server"].open /\ Pending("server") = {})

\* "Read header from incoming message" (Networking/connection.h:137): what
\* ReadHeader reads is a header.
HeaderIsHeader ==
    \A e \in End : conn[e].reading = "header" /\ wire[e] # <<>> => Head(wire[e])[1] = "hdr"

\* "The program must ensure that the stream performs no other write operations
\* (such as async_write ...) until this operation completes"
\* (lib/asio-1.28.0/include/asio/write.hpp:736): WriteValidation and WriteHeader or
\* WriteBody of one socket are never under way together.
OneWriteAtATime ==
    \A e \in End :
        conn[e].validating /\ conn[e].writing # "idle" =>
            conn[e].done \cap {"validate", "write"} # {}

\* The Connection object is gone: the server's list has dropped it and no
\* message in the queue refers to it.
Freed == listed = "dropped" /\ taken = Len(conn["server"].qIn)

\* "Since client is no longer connected, delete it" (Networking/server.h:149):
\* a deleted connection has no handler left that would use it.
DeletedIsUnused == Freed => Pending("server") = {}

============================================================================
