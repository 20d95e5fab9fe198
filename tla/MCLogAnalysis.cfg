SPECIFICATION Spec
CONSTANTS
    LogFiles <- MCLogFiles
    ScriptFiles <- MCScriptFiles
    OldOutputs <- MCOldOutputs
    MaxLogs = 2
    MaxScripts = 2

INVARIANTS
    AnalysisIsSound
    TrueMeansComplete

PROPERTIES
    OutputsAreKept

CHECK_DEADLOCK FALSE
