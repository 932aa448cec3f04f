---------------------------- MODULE MCDispatcher ----------------------------
(***************************************************************************)
(* Small instances of module Dispatcher.                                   *)
(***************************************************************************)
EXTENDS Dispatcher, TLC

CONSTANTS j1, j2

\* One job has the higher priority and leaves MaxAttempts unset.
MCPriority    == [j \in Jobs |-> IF j = j2 THEN 2 ELSE 1]
MCMaxAttempts == [j \in Jobs |-> IF j = j2 THEN 0 ELSE 2]
MCType        == [j \in Jobs |-> IF j = j2 THEN "report" ELSE "email"]
MCOneType     == [j \in Jobs |-> "email"]
MCBackoff     == <<1, 2>>
Symmetry      == Permutations(Workers)
=============================================================================
