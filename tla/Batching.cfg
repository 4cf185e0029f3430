CONSTANT Calls <- RightCalls
SPECIFICATION Spec
INVARIANTS ExamplesApart KeysSummed
