SPECIFICATION FairPoolSpec
CONSTANTS
    Workers = {w1, w2, w3}
    Main = Main
    Tasks = {k1, k2, k3}
    None = None
INVARIANT SchedulerInv
PROPERTIES WaitMeansIdle AllTasksRun OwnerReturns
CHECK_DEADLOCK FALSE
