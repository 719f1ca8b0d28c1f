SPECIFICATION Spec
CONSTANTS
    Process = {p1, p2}
    TenantId <- MCTenantId
    Lines <- MCLines
    Size <- MCSize
    MaxVisible = 1
    MaxCommands = 2
CHECK_DEADLOCK FALSE
INVARIANTS FileIsWhole SelectedExists WindowHoldsCursor HighlightedIsSaved
PROPERTY FileChangesAtRename
