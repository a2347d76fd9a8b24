------------------------------ MODULE MCConfigEdit ------------------------------
EXTENDS ConfigEdit, TLC

\* `engines.default` has a default, `managed.image` has none.
CONSTANTS image, v1, v2, bad

Defaults == [f \in Field |-> IF f = image THEN Unset ELSE v1]
LegalValues == [f \in Field |-> Value \ {bad}]

\* No edit has a part of its own.
Symmetry == Permutations(Editor)
=============================================================================
