SPECIFICATION ExportsSpec
CONSTANTS
    Tasks = {t1, t2}
    Consumers = {p1}
    Calls = {c1, c2}
    Prefetch = 1
    MaxAttempts = 2
    MaxRetries = 2
    MaxFaults = 1
    NoRun = NoRun
    NoTask = NoTask
    t1 = t1
    t2 = t2
    c1 = c1
    c2 = c2
    p1 = p1
INVARIANTS ResultsHaveFiles AnswersWereSent
PROPERTY MessagesSettle
CHECK_DEADLOCK FALSE
