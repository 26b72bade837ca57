SPECIFICATION Spec
CONSTANTS
    MaxBodySize = 2
    c1 = c1
    c2 = c2
    b1 = b1
    b2 = b2
    Conns = {c1, c2}
    Requests = 2
    Buffers = {b1, b2}
    Answers <- MCAnswers
SYMMETRY Symmetry
INVARIANTS
    Aligned
    EchoedBack
    BuffersApart
