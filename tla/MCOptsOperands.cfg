\* An operand written before the marker reaches the workbench.
CONSTANTS
  Text = {"a", "b"}
  Rules <- req_opts
  MaxWords = 4
SPECIFICATION Spec
INVARIANT OnlyBehindMarker
