-------------------------- MODULE MCSchemaTemplates --------------------------
EXTENDS SchemaTemplates, TLC
CONSTANTS x1, x2, y1

\* Two templates of the property event and one of another.
Events == {"property", "alarm"}
Events2 == [x \in {x1, x2, y1} |-> IF x = y1 THEN "alarm" ELSE "property"]

Slots == Permutations(Admin) \cup Permutations({x1, x2})
=============================================================================
