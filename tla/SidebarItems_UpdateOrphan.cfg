CONSTANTS
    u1 = u1
    u2 = u2
    u3 = u3
    u4 = u4
    Urls <- MCUrls
    CallsFail = FALSE
SPECIFICATION Spec
INVARIANT ModelItemsRemovable
