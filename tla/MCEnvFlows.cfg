SPECIFICATION Spec
CONSTANTS
    Products = {"p1", "p2", "p3"}
    Queries = {"many", "one", "none"}
    Values = {"red", "m", "l"}
    Names = 2
    Options <- MCOptions
    Results <- MCResults
    Window = 2
    Good = {"p1", "p3"}
    GoalOptions <- MCGoalOptions
    MaxSteps <- MCMaxSteps
    GameTurns = 4
    Question = "question"
    Texts <- MCTexts
    MaxCalls = 2
INVARIANTS
    PromptIsCurrent
    ListedActionsWork
    OptionsOfProduct
    RewardWhereEarned
    HistoryOfGame
    PassagesOnce
