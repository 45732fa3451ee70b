SPECIFICATION FairSpec
CONSTANTS
    N = 3
    Id <- MCId
    Names <- MCNames
    Lower <- MCLower
    Plans <- MCPlans
    Places <- MCPlaces
INVARIANTS NoWriteRace SkippedForAStop OneResultPerCall
PROPERTIES ExecutedOnceAuthorized NothingStartsAfterStop BatchReturns
