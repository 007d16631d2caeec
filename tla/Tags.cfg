CONSTANTS
    n1 = n1  v1 = v1  v2 = v2  u1 = u1  d1 = d1  d2 = d2
    None = None
    Name = {n1}
    Value = {v1, v2}
    UserKey = {u1}
    TagLists <- Lists
    Doc = {d1, d2}
    Retagged <- ByHand
    PageSize = 3
SPECIFICATION Spec
INVARIANTS ListsOwnOnly ListsAllOwn ChecksumTells
