SPECIFICATION FairSpec
CONSTANTS
    Procs = {p1, p2, p3}
    Releases <- MCReleases
    Torn = Torn
    None = None
    MaxStarts = 2
    MaxKills = 1
INVARIANTS
    OneInstance
    ProgramSurvives
    AnswerIsShown
PROPERTIES
    SomeoneTakesOver
CHECK_DEADLOCK FALSE
