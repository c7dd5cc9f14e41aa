CONSTANTS
    t1 = t1
    t2 = t2
    NoThread = NoThread
    Threads = {t1, t2}
    Kinds = {"module", "feature"}
    NDeps = 2
    Requests <- MCRequests
    MaxChanges = 1
SPECIFICATION FairSpec
INVARIANTS HonestAnswers NoReprobe
PROPERTIES CallReturns
