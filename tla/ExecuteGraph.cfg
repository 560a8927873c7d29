CONSTANTS
    Size = 3
    MaxTransient = 2
    Nodes <- MCNodes
    Root = 0
    NoNode = NoNode
    w1 = w1
    w2 = w2
    Workers = {w1, w2}
    Graphs <- Digraphs
    Signals = 1
SYMMETRY Symmetry
SPECIFICATION Spec
INVARIANTS
    DependencyOrder
    NoDoubleWork
    SuccessIsComplete
    ErrorsAreContained
    ListsConsistent
