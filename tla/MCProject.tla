----------------------------- MODULE MCProject -----------------------------
(***************************************************************************)
(* A module "pair" that uses "base", both exported in either order; a      *)
(* network that is named by its chain id, as migrated files are, where     *)
(* truffle has deployed a contract of "base"; and one without accounts.    *)
(***************************************************************************)
EXTENDS Project

MCOwn == [m \in {"base", "pair"} |-> IF m = "base" THEN <<"a", "b">> ELSE <<"c">>]
MCUses == [m \in {"base", "pair"} |-> IF m = "base" THEN <<>> ELSE <<"base">>]
MCArgs == [x \in {"a", "b", "c"} |-> IF x = "a" THEN {} ELSE IF x = "b" THEN {"a"} ELSE {"b"}]
MCExports == {<<"base", "pair">>, <<"pair", "base">>}
MCElsewhere == [n \in {"1", "dev", "bare"} |-> IF n = "1" THEN <<"a">> ELSE <<>>]
MCTruffleBuilds ==
  {[contract |-> "a", at |-> {<<"1", 1>>}], [contract |-> "b", at |-> {}]}
MCHardhatBuilds ==
  {[contract |-> "a", address |-> 1, complete |-> TRUE],
   [contract |-> "b", address |-> 2, complete |-> FALSE]}
=============================================================================
