SPECIFICATION Spec
CONSTANTS
    a = a
    b = b
    c = c
    d = d
    leaf = leaf
    NoValue = NoValue
    Currency = {1}
    Priced = {1, 2}
    Peer = {a, b}
    Paych = {c, d}
    Piece = {a, b}
    Max = {"unlimited", "limited"}
    Duration = {"long"}
    Terms = {"free", "charged"}
    Price = {"cheap", "dear"}
    Addr = {"here", "there"}
    Proof = {"old", "new"}
    MaxRecords = 2
    Links <- MCLinks
    Importer = {c, d}
    Retirement = {a, b}
    User = {c, d}
INVARIANTS ListedApplies CacheIsStore TouchReaches PieceReadable
PROPERTY ImplementsTable
