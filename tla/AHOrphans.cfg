SPECIFICATION HandlersSpec
CONSTANTS
    Doc = {1, 2, 3}
    AskedDoc = {1, 3}
    Kind = {"module", "domain"}
    MaxCalls = 2
    MaxOthers = 1
    MaxLeadChanges = 1
CHECK_DEADLOCK FALSE
INVARIANT DeletedIsEmpty
