CONSTANTS
    a = a
    b = b
    s1 = s1
    s2 = s2
    s3 = s3
    Web = Web
    Nobody = Nobody
    Machines = {a, b}
    Switches = {s2, s3}
    Origins <- Mixed
    NoSync = {}
    PromptCommits = TRUE
    MaxIsDate = FALSE
    MaxSecond = 2
    MaxFailures <- NoFailures
SPECIFICATION FairSpec
PROPERTY PausesReachEveryone
