SPECIFICATION Spec
CONSTANTS
  MaxColumns = 5
  MaxDressed = 2
  Contexts = {1, 2}
  Styles = {"unified", "equals", "context", "old", "old_star"}
INVARIANT TypeOK
INVARIANT Converts
INVARIANT Accepts
