-------------------------- MODULE MCEventTxExecutor --------------------------
(***************************************************************************)
(* Two events that share a sender; the first uses both senders, the second *)
(* catches the errors of its calls.  The onFail hook calls with the sender *)
(* that they share.                                                        *)
(***************************************************************************)
EXTENDS EventTxExecutor

MCEvents == {"first", "second", "onFail"}
MCSenders == {"s1", "s2"}
MCOrder == <<"first", "second">>
MCCallsBy == [e \in MCEvents |->
  CASE e = "first" -> <<"s1", "s2">> [] e = "second" -> <<"s1", "s1">> [] OTHER -> <<"s1">>]
=============================================================================
