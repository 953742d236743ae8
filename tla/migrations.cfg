SPECIFICATION Spec
INVARIANTS SchemaOfRevision OnlyTheFirstFails
