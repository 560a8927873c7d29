CONSTANTS
    Size = 2
    MaxTransient = 1
    Nodes <- MCNodes
    Root = 0
    NoNode = NoNode
    w1 = w1
    w2 = w2
    Workers = {w1, w2}
    Graphs <- Dags
    Signals = 1
SPECIFICATION FairSpec
PROPERTY Terminates
CHECK_DEADLOCK FALSE
