SPECIFICATION Spec
CONSTANTS
    WorldRows <- MCWorldRows
    FortuneRows <- MCFortuneRows
    Numbers = {1, 2}
    Texts <- MCTexts
    NotANumber = NotANumber
    Junk = {9}
    MaxRecord = 3
    MaxTokens = 6
INVARIANTS
    ValidUnlessFlawed
    FluentMeaning
    JsonRoundTrip
    ListsWellFormed
    GroupsComplete
CHECK_DEADLOCK FALSE
