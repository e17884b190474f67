--------------------------- MODULE MCRemediation ---------------------------
(* A checkout with one self-sufficient descriptor and the binding. *)
EXTENDS Remediation, TLC

CONSTANTS debug, old, new, stdlib, other

OneModule == {debug}
BothContents == {old, new}
BothLibraries == {stdlib, other}
MCSourceOf == [p \in Paths |-> debug]
OneSibling == {stdlib}
\* The second import of "new" only MNCS_LIBRARY_PATH or an entry supplies.
MCNeeded == (old :> {stdlib}) @@ (new :> {stdlib, other})
\* A named directory that does not exist counts for nothing, as if none were named.
MCPaths == {{other}}
\* A run may find three items, and one of them may fail in every run.
MCBudgets == {1}
MCHints == {Paths, {1}}

=============================================================================
