CONSTANTS
    MaxLines = 2
    CommonTexts <- Five
    Comparisons <- AllComparisons
SPECIFICATION Spec
INVARIANTS BlocksInOrder ListingRestores ActsMostlyLikeEd TakesChanges
