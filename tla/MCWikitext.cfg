SPECIFICATION Spec
CONSTANTS
  Words <- MCWords
  Nesting = 3
  Deepest = 3
  Inputs <- MCInputs
INVARIANT ViewsNest
INVARIANT WordsKept
INVARIANT FailsAsKnown
PROPERTY NearsTheEnd
