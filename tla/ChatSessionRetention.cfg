SPECIFICATION Spec
CONSTANTS
    t1 = t1
    t2 = t2
    plan = plan
    report = report
    Turns = {t1, t2}
    PromptTexts = {"short"}
    ReplyTexts = {plan, report}
    Creations <- SavingCreations
    Payloads <- RetentionChanges
    HistoryLoad = 0
    HistoryLimit = 2
    AutosaveLoad = 6
    LinkedLoad = 2
    MaxMessages = 6
    MaxStamps = 3
    MaxTime = 2
    MaxDeletes = 0
CONSTRAINT Budget
SYMMETRY TurnAndTextSymmetry
INVARIANTS RetentionBound DuplicatesBounded
PROPERTIES PrunedOnlyWhenDue
CHECK_DEADLOCK FALSE
