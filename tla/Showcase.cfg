SPECIFICATION ShowcaseSpec
CONSTANTS
    a = a
    b = b
    h = h
    NoHost = NoHost
    UnknownHost = UnknownHost
    HostOf <- Hosts
    ModelFindings <- Said
    Runbooks <- Books
    Circumstances <- Cases
    Seed <- SeedAssets
    Replies <- SomeReplies
    NotShipped = NotShipped
    Reanalysed <- FirstRuns
    Gap = 1
    MaxRead = 1
    MaxLater = 2
    Systems <- Models
    MaxScored = 0
    Hour = 2
    MostItems = 1
    Unknown = Unknown
    NoTime = NoTime
    IPv4 <- Both
    Lines <- SomeLines
    GenericBase <- OneRule
    ZkThresholds <- ZkRules
    MaxLines = 1
    MinFailures = 2
    FailureWindow = 1
    SuccessWindow = 1
    MinErrors = 2
    ErrorWindow = 1
    CbsVolume = 2
    Often = 2
    ZkMany = 2
    ZkSome = 1
    Questions <- MCQuestions
PROPERTY
    AskingIsReading
CHECK_DEADLOCK FALSE
