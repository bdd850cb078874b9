SPECIFICATION MCSpec
CONSTANTS
    Device = {1, 2}
    Goal = {1}
    Baseline = {1, 2}
    Score <- MCScore
    ProbeTotal = 5
    MinPoints = 1
    None = None
    Form <- MCForm
    Misspelt = {"#1"}
    Percent = {"20"}
    Bound <- DomainBound
    Nothing = Nothing
    DaysInWeek = 2
    Required = 2
    Criterion = 80
    BaselineValue = 30
    Malformed = Malformed
    QuarterlyWindow = 2
    MinScoredPoints = 3
    MinInstructionalWeeks = 2
    FourPoint = 2
    Entry = {1, 2, 3, 4}
    Palette <- MCPalette
    Observing = {"mastery"}
    Calendar <- MCCalendar
    Room <- MCRoom
    Goals <- MCGoals
    PeriodOf <- MCPeriodOf
    Material = {1, 2}
    Support = {1, 2}
    SupportedGoal = {"g1", "g2"}
    Student = {"s1"}
    Time = {1, 2}
    Input <- MCInput
    Patch <- MCPatch
    CatalogSeed <- MCCatalogSeed
    Filter <- MCFilter
    Template <- MCTemplate
    MaxWrites = 3
INVARIANTS RecordsExplainThemselves CaseloadIsWhole
    MasteryIsSustained AveragesAgree WeekAgrees NoDataIsAGap
    RevisionsExplainMaterials ViewsAgree
PROPERTIES RemovalSticks ScoresStay ValidatedIsNotOffered
CHECK_DEADLOCK FALSE
