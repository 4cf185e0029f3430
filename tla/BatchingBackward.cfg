CONSTANT Calls <- VmapBackward
SPECIFICATION Spec
INVARIANTS ExamplesApart
