SPECIFICATION CoreSpec
CONSTANTS
    LearningSteps <- MCLearningSteps
    RelearningSteps <- MCRelearningSteps
    BoxInterval <- MCBoxes
    RelapsePenalty = 2
    VerifiedGateBox = 2
    Jitters <- MCJitters
    Waits <- MCWaits
    MaxAnswers = 10
    MaxTime = 8
    None = None
    Prompts <- MCPrompts
    Pools <- MCPools
    OptionCounts = {4, 5}
    Formats = {"mcq", "cloze_mcq"}
    Contexts <- MCContexts
    States = {"new", "learning", "review", "relearning"}
    Times = {0, 4, 1439, 1441}
    Texts <- MCTexts
    Answers <- MCAnswers
    Policies <- MCPolicies
    Scripts = {"Latn"}
    Counts = {0, 1, 5, 13, 60}
    Plans <- MCPlans
    Horizons = {1, 2, 21, 90}
    Deadlines = {0, 1, 3, 40}
    Budgets = {0, 1, 3}
INVARIANTS QuestionsSound SelectionOpens GradesAgree ForecastAgrees
PROPERTIES PromotionEarned StepsInARow DemonstratedInterval
CHECK_DEADLOCK FALSE
