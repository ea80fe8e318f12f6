SPECIFICATION FairSpec
CONSTANTS
    Newline = "n"
    Return = "r"
    Marked = "a"
    Byte = {"n", "r", "a"}
    MaxLength = 3
    Contents <- Texts
    Setups <- Tight
    Planned = "planned"
    Other = "other"
    Written = {"n"}
    MaxChanges = 1
INVARIANTS
    RecordsTile
    AccountsAgree
    CompletionHonest
    ReasonsAccount
    StopsPromptly
PROPERTY
    Terminates
