--------------------------- MODULE MCCommandLine ----------------------------
(***************************************************************************)
(* Every line of up to MaxLine characters, with a PATH that finds nothing; *)
(* every PATH of up to MaxPath characters, with two commands to find.      *)
(***************************************************************************)
EXTENDS CommandLine

CONSTANTS MaxLine, MaxPath

\* Characters, those typed, and lines; some are looked up with every PATH.
MCTyped == {"a", Space, Quote, "&", "|"}
MCChars == MCTyped \cup {"b", "x", ":", "/"}
MCLookups ==
  {<<"a">>, <<Quote, "a", Quote, "&">>, <<"a", Space, "|", Space, "b">>,
   <<"a", Space, "|", Space, "|", Space, "b">>, <<"|", Space, "a", Space, "|", Space, "b">>}
MCLines == (SeqOf(MCTyped, MaxLine) \ {<<>>}) \cup MCLookups
\* The PATH of the other lines, all paths, and the files they may lead to.
MCPath == <<"x">>
MCPaths == SeqOf({"x", ":"}, MaxPath)
MCFiles ==
  {<<"/", "a">>, <<"x", "/", "a">>, <<"/", "b">>, <<"x", "x", "/", "b">>, <<"x", "/", "|">>}
MCFileSets == SUBSET MCFiles

\* A line meets every PATH only if it is looked up.
MCInit ==
  /\ Init
  /\ \/ PATH = MCPath /\ files = {}
     \/ line \in MCLookups

MCSpec == MCInit /\ [][Next]_vars

=============================================================================
