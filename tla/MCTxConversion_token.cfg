CONSTANTS
    OutShapes <- MCOutShapesToken
    InShapes <- MCInShapes
    MaxOuts = 3
    MaxIns = 2
SPECIFICATION Spec
INVARIANT TokenRecordPerTokenOutput
