CONSTANTS
    u1 = u1
    u2 = u2
    u3 = u3
    u4 = u4
    Urls <- MCUrls
    CallsFail = TRUE
SPECIFICATION Spec
INVARIANT NothingCachedBeforeModel
INVARIANT CachedWithoutItemOnlyAfterFailure
