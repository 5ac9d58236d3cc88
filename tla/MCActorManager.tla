--------------------------- MODULE MCActorManager ---------------------------
(***************************************************************************)
(* ActorManager for a few module names, and the sets of commands,          *)
(* configurations and libraries the runs choose from.                      *)
(***************************************************************************)
EXTENDS ActorManager, TLC

ReloadAny == [type : {"reload"}, arg : Names \cup {All}]
RemoveAny == [type : {"remove"}, arg : Names]

AnyCommand == ReloadAny \cup RemoveAny
NamedCommand == [type : {"reload"}, arg : Names] \cup RemoveAny

\* Every reload names the same module: enough for the liveness run to reload a
\* module that was removed, that runs, or that is next to one that was removed.
ReloadOne == [type : {"reload"}, arg : {CHOOSE n \in Names : TRUE}] \cup RemoveAny

\* The configuration file and the libraries may change at any time ...
AnySubset == SUBSET Names

\* ... or stay as they are.
Unchanging == {Names}

\* Module names are interchangeable.
Symmetry == Permutations(Names)

=============================================================================
