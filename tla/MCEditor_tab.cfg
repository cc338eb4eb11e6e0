SPECIFICATION FairEditorSpec
CONSTANTS
    original = original
    Request = {m1, m2, m3, o1}
    Mine = {m1, m2, m3}
    MaxActs = 3
    Field = {"content"}
    Value = {original, v1, v2}
    Blank <- BlankText
    Creation = Creation NoText = NoText
INVARIANTS BaselineIsAVersion SelfConflictNeedsASlip SavedIsSaved
PROPERTIES ConflictStopsSaving SavedOrTold
CHECK_DEADLOCK FALSE
