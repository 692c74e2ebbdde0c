SPECIFICATION Spec
CONSTANTS
  MaxWords = 3
  Blanks = {"space"}
  Inhibits = {{}, {"left"}, {"right"}, {"common"}, {"left", "right"}, {"left", "common"}, {"right", "common"}, {"left", "right", "common"}}
  Terms = {{}}
  Users = {{}}
  Overstrikes = {"none"}
  Shrinks = {FALSE}
INVARIANT TypeOK
INVARIANT TextIntact
INVARIANT StatisticsAgree
INVARIANT StatusTellsScript
PROPERTY ShowsComparison
