SPECIFICATION Spec
CONSTANTS
  MaxColumns = 3
  MaxDressed = 0
  Contexts = {0}
  Styles = {"unified"}
INVARIANT ShowsEveryChange
