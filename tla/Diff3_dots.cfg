CONSTANTS
    MaxLines = 1
    CommonTexts <- NoLines
    Comparisons <- AllComparisons
SPECIFICATION Spec
INVARIANT ActsLikeEd
