CONSTANTS
    a = a
    b = b
    s1 = s1
    s2 = s2
    s3 = s3
    Web = Web
    Nobody = Nobody
    Machines = {a, b}
    Switches = {s1, s2, s3}
    Origins <- MachinesOrWeb
    NoSync = {s1}
    PromptCommits = TRUE
    MaxIsDate = FALSE
    MaxSecond = 2
    MaxFailures <- OneIfMachines
    Requests = {"h", "s"}
    Stdio = {"s"}
    Signals = {"INT", "TERM"}
    MaxRows = 2
    NFeatures = 3
    Texts = {"small", "big", "bad"}
    Size <- EntrySize
    Header = 1
    Footer = 1
    Reservation = 1
    MaxIndexBytes = 8
    Tasks = {1, 2}
    MaxClock = 4
    Ids = {1, 2, 3, 4}
    Limit = 1
    Reads = {1, 2}
    LastSecond = 3
    MaxEvents = 2
    MaxLines = 3
    MaxTrouble = 2
SPECIFICATION BackgroundSpec
INVARIANTS NoSyncStaysLocal  ClosedDbIsQuiet FeaturesAreTold ReadersMissNothing
 
CHECK_DEADLOCK FALSE
