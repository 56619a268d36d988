\* Three racing deploys, two reconciler ticks.
SPECIFICATION FairSpec
CONSTANTS
    w1 = w1
    w2 = w2
    w3 = w3
    t1 = t1
    t2 = t2
    Writers = {w1, w2, w3}
    Reconcilers = {t1, t2}
    MaxAttempts = 3
INVARIANT NoneLost
PROPERTIES ImplementsHistory EveryRecordReturns
CHECK_DEADLOCK FALSE
