SPECIFICATION FairSpec
CONSTANTS
  MaxWords = 2
  Blanks = {"newline"}
  Inhibits = {{}}
  Terms = {{"delete_start", "delete_end"}}
  Users = {{}, {"delete_start", "delete_end", "insert_start", "insert_end"}}
  Overstrikes = {"none", "less"}
  Shrinks = {TRUE}
INVARIANT EmphasisTellsTruth
INVARIANT LinesEndPlain
PROPERTY Terminates
