SPECIFICATION Spec
CONSTANTS
    t1 = t1
    t2 = t2
    plan = plan
    report = report
    Turns = {t1, t2}
    PromptTexts = {"short"}
    ReplyTexts = {plan}
    Creations <- AllCreations
    Payloads <- AllFlags
    HistoryLoad = 6
    HistoryLimit = 2
    AutosaveLoad = 6
    LinkedLoad = 6
    MaxMessages = 4
    MaxStamps = 2
    MaxTime = 0
    MaxDeletes = 2
CONSTRAINT Deletions
SYMMETRY TurnSymmetry
INVARIANTS PolicyCoherent PurgeLeavesOnlyInFlight LateSnapshotsBounded RepliesHavePrompts RetentionBound
PROPERTIES DeletedSessionFrozen
CHECK_DEADLOCK FALSE
