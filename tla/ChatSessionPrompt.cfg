SPECIFICATION Spec
CONSTANTS
    t1 = t1
    t2 = t2
    plan = plan
    report = report
    Turns = {t1}
    PromptTexts = {"short"}
    ReplyTexts = {plan, report, "blank"}
    Creations <- AllCreations
    Payloads = {}
    HistoryLoad = 2
    HistoryLimit = 2
    AutosaveLoad = 6
    LinkedLoad = 6
    MaxMessages = 4
    MaxStamps = 3
    MaxTime = 0
    MaxDeletes = 0
INVARIANT PromptReachesProvider
CHECK_DEADLOCK FALSE
