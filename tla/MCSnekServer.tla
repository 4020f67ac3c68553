---------------------------- MODULE MCSnekServer ----------------------------
(***************************************************************************)
(* SnekServer with one bound for the messages and the departures together. *)
(***************************************************************************)
EXTENDS SnekServer

\* bound: messages that are received and connections that close
Within == received + (ids - Cardinality(open)) <= 2

MCSpec == Init /\ [][Next /\ Within']_vars /\ Fairness

============================================================================
