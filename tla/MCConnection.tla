---------------------------- MODULE MCConnection ----------------------------
(***************************************************************************)
(* Connection with the real Scramble and three kinds of messages: one      *)
(* without a body, one with a body of one piece and one of two.            *)
(***************************************************************************)
EXTENDS Connection, Scramble

Msg(name, n) == [id |-> name, size |-> n, body |-> [i \in 1..n |-> <<"byte", name>>]]

MCStartGame == Msg("StartGame", 0)
MCWelcome   == Msg("ServerValidation", 1)
MCClient    == {MCStartGame, Msg("UpdatePlayer", 2)}
MCServer    == {Msg("NewPowerup", 1)}

\* a reading of system_clock; a foreign peer sends it back as it is
MCHandshakes == {<<0, 0, 0, 8, 13, 4, 7, 2, 1, 15, 0, 10, 6, 3, 9, 5>>}
MCUnset == [i \in 1..16 |-> 0]

\* bound: two messages in all that the client or a broadcast sends
Within == Len(sent["client"]) + Cardinality(Broadcasts) <= 2

MCSpec == Init /\ [][Next /\ Within']_vars /\ Fairness

============================================================================
