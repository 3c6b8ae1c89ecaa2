SPECIFICATION FairSpec
CONSTANTS
    Workers = {w1, w2}
    Main = Main
    None = None
    NoThread = NoThread
    Tasks <- Iterations
    AsyncTokens <- Iterations
    lb = 0
    ub = 6
    step = 2
INVARIANTS RuntimeInv JoinMeansDone AllReleased
PROPERTY Terminates
