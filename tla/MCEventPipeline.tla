--------------------------- MODULE MCEventPipeline ---------------------------
(***************************************************************************)
(* An instance of EventPipeline for TLC: three messages, fed as one list   *)
(* and another of one; m1 and m2 concern the same entity (the second is a  *)
(* correction with other data), m3 one of its own.  The vectors, and the   *)
(* queries, are of two lengths.                                            *)
(***************************************************************************)
EXTENDS EventPipeline

CONSTANTS m1, m2, m3

MCMessages == {m1, m2, m3}
MCBatches == {<<m1, m3>>, <<m2>>}
MCFirst == [id |-> "a", vector |-> <<0, 2>>]
MCAgain == [id |-> "a", vector |-> <<1>>]
MCOther == [id |-> "b", vector |-> <<1, 1>>]
MCEntities == {MCFirst, MCAgain, MCOther}
MCEntityOf == m1 :> MCFirst @@ m2 :> MCAgain @@ m3 :> MCOther
MCQueries == {<<0, 2>>, <<1, 1>>, <<1>>}
=============================================================================
