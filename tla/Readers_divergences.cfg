\* What the documents or comments say and the code does not do. TLC stops at the first property it
\* finds violated: comment that line out for the next one.
CONSTANTS
    Wide = {"wide"}
    SnippetMax = 4
    SummaryMax = 2
    DetailMax = 4
    MatchCap = 3
    RecentMax = 3
    RecentBytes = 6
    SeedMax = 5
    TitleMax = 3
    MaxDiffLines = 9
    MaxEdit = 7
    MaxText = 8
    MaxLog = 4
    Offers <- MCOffers
    Tradeoffs = {0, 10, 20}
    Answers <- MCAnswers
    WorkflowRun = {"r"}
    Workers = {"v", "w"}
    Failures <- MCFailures
    MaxWrites = 6
    SkillCall = {1, 2, 3}
    Versions = {0, 9}
    FileLengths <- MCFileLengths
    Adopter = {1, 2}
    MaxEdits = 3
    TailEvents = 2
    MaxScan = 20
    NULL = NULL
    MaxFiles = 2
    MaxFileBytes = 2
    MaxTotalBytes = 3
SPECIFICATION ReadersSpec
CHECK_DEADLOCK FALSE
INVARIANT DownloadNeverStitched
INVARIANT GroupIsEnsured
INVARIANT NoSessionInDeletedGroup
INVARIANT SkillNeverHalfUpdated
INVARIANT SkillNotOverwritten
INVARIANT RoutedWorkerAble
