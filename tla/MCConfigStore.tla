---------------------------- MODULE MCConfigStore ----------------------------
(* Model-checking instance of ConfigStore: two typed names besides the     *)
(* empty one, two field values, four ghost identities.  The Externals tab  *)
(* has one builder; the Processes tab a builder that creates as a create   *)
(* (Filter stands for the eight others) and EntwineBuilder.                *)
EXTENDS ConfigStore

CONSTANTS n1, n2, empty, v0, v1, none

MCNames == {empty, n1, n2}
MCVals == {v0, v1}
MCBuildersExternals == [c \in {"externals"} |-> {"External"}]
MCBuildersProcesses == [c \in {"processes"} |-> {"Filter", "Entwine"}]
=============================================================================
