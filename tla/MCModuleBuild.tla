---------------------------- MODULE MCModuleBuild ----------------------------
EXTENDS ModuleBuild

MCContracts == {"A", "B", "C"}
MCInputs ==
  [n \in MCContracts |-> CASE n = "A" -> <<>> [] n = "B" -> <<Type("int", 8)>>
                           [] n = "C" -> <<Type("address", 160)>>]
MCLinks == [n \in MCContracts |-> IF n = "B" THEN <<"A">> ELSE <<>>]

Allowed(b, e, m, u, s, d, literals, libraries) ==
  [bindings |-> b, events |-> e, moduleEvents |-> m, subModules |-> u, settings |-> s, edits |-> d,
   literals |-> literals, libraries |-> libraries]

\* Hooks; libraries; module events; sub-modules; templates and settings; numbers; edits,
\* with hooks and of arguments.
MCBudgets ==
  {Allowed(2, 2, 0, 0, 0, 0, {}, {}),
   Allowed(3, 1, 0, 0, 0, 0, {Number(127)}, {"C"}),
   Allowed(2, 1, 1, 0, 0, 0, {Digits(5)}, {}),
   Allowed(2, 1, 0, 2, 1, 0, {}, {}),
   Allowed(2, 0, 0, 0, 2, 0, {Number(127)}, {}),
   Allowed(2, 0, 0, 0, 1, 0, {Number(127), Number(128), Number(-128)}, {}),
   Allowed(2, 1, 0, 0, 1, 1, {Number(5)}, {"A"}),
   Allowed(2, 0, 0, 0, 1, 1, {Number(5), Digits(5)}, {})}
=============================================================================
