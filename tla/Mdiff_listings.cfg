CONSTANTS
    Alnums = {1, 2}
    Delimiters = {3}
    Blanks = {4}
    MaxInputs = 3
    MaxItems = 4
    MaxWords = 5
    MaxRepeats = 9
    Corpus <- SmallCorpus
    Commands <- AllCommands
SPECIFICATION Spec
INVARIANTS MembersAreRepeats Restores BracesTell AssertionsHold
PROPERTY Terminates
