---------------------------- MODULE MCDeployment ----------------------------
(***************************************************************************)
(* A contract A; C, built from A, with an event before its deployment; and *)
(* B, built from A and C, with an event before and one after.  All hooks   *)
(* call A, so the progress of A is shared.  Any of the three can be left   *)
(* out by the module config: then a hook calls what is not deployed (A),   *)
(* an argument is missing (C), or a dependency (B).                        *)
(***************************************************************************)
EXTENDS Deployment

MCBindings == {"A", "B", "C"}
MCEvents == {"beforeC", "beforeB", "afterB", "onSuccess"}
MCOrder == <<"A", "beforeC", "C", "beforeB", "B", "afterB", "onSuccess">>
MCArgs == [b \in MCBindings |->
  CASE b = "A" -> {} [] b = "C" -> {"A"} [] OTHER -> {"A", "C"}]
MCDeps == [e \in MCEvents |->
  CASE e = "beforeC" -> {"C"} [] e = "onSuccess" -> {} [] OTHER -> {"B"}]
MCAfterDeploy == {"afterB"}
MCScript == [e \in MCEvents |->
  CASE e = "beforeC" -> <<"A", "A">> [] e = "afterB" -> <<"B", "A">> [] OTHER -> <<"A">>]

MCModuleHooks == {"onSuccess"}
=============================================================================
