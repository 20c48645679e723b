------------------------ MODULE MCWorkspaceVariables ------------------------
(* The instances of WorkspaceVariables that TLC checks.                     *)
EXTENDS WorkspaceVariables

CONSTANTS k, p, w

\* Set w of the Workspace overrides variable y of the Project's set p.
Specs == [s \in Sets |->
    IF s = p THEN {<<From("x", k, FALSE), From("y", k, FALSE)>>,
                   <<From("x", k, TRUE), Inline("y", "1")>>}
             ELSE {<<Inline("y", "2")>>}]
First == [s \in Sets |-> IF s = p THEN <<From("x", k, FALSE), From("y", k, FALSE)>>
                                  ELSE <<Inline("y", "2")>>]

Project   == {<<p>>, <<>>}
OnlyP     == {<<p>>}
ProjectsP == <<p>>
Own       == <<w>>
=============================================================================
