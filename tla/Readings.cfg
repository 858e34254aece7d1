SPECIFICATION RefreshSpec
CONSTANTS
    Nil = Nil
    Bad = Bad
    Credentials <- MCCredentials
    Bodies <- MCBodies
    Statuses = {403, 500}
    Now = 100
    Tolerance = 5
    MaxLate = 2
    Ends <- MCEnds
    MaxRefreshes = 2
PROPERTIES
    AnswersDecide
    GrantsStand
    WindowsSteady
CHECK_DEADLOCK FALSE
