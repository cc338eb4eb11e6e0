SPECIFICATION Spec
CONSTANTS
    original = original
    Request = {r1, r2, r3}
    Field = {"title", "content"}
    Value = {original, v1}
    Blank <- BlankText
    Creation = Creation NoText = NoText
SYMMETRY Symmetric
INVARIANTS StampNamesText AnswersTellTheTruth
PROPERTIES OverwritesAreInformedOrRaced DeletedIsFrozen
CHECK_DEADLOCK FALSE
