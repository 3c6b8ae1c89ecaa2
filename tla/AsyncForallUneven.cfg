SPECIFICATION Spec
CONSTANTS
    Workers = {w1, w2}
    Main = Main
    None = None
    NoThread = NoThread
    Tasks <- Iterations
    AsyncTokens <- Iterations
    lb = 0
    ub = 5
    step = 2
INVARIANT JoinMeansDone
