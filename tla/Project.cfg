SPECIFICATION Spec
CONSTANTS
    Lines = {1, 2}
    Codes = {"A", "B"}
    Tokens = {"A", "B", "KNQ001", "KNQ002", "KNQ003", "all"}
    StartsWith <- MCStartsWith
    AliasOf <- MCAliasOf
    Exempt = {}
    NoComment = NoComment
    Files <- MCFiles
    Raw <- MCRaw
    OptIn = {"B"}
    Defaults <- MCDefaults
    Documents <- MCDocuments
    CommandLines <- MCCommandLines
    OldReports <- MCOldReports
    MaxCommands = 3
    MaxEdits = 1
PROPERTIES
    ReportsAsLinted
    ExitTells
    ReportComplete
    CleanSparesProject
    InitKeepsSettings
CHECK_DEADLOCK FALSE
