SPECIFICATION FairSpec
CONSTANTS
    t1 = t1
    t2 = t2
    v1 = v1
    v2 = v2
    Requests = {p1, p2, w1, w2}
    Reports = {p1, p2}
    Capacity = 2
    Texts = {t1, t2}
    Values = {v1, v2}
    NewChat = NewChat
    None = None
    Wanted <- MCWanted
INVARIANTS
    ConnectionsAccountedFor
    TitleIsOpening
    DuplicatesExplained
    SettingAudited
PROPERTIES
    NothingIsUndone
    RequestsEnd
CHECK_DEADLOCK FALSE
