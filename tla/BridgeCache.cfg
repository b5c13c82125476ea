SPECIFICATION Spec
CONSTANTS
    small = small
    latest = latest
    embed = embed
    llama = llama
    nomic = nomic
    ChatModels = {small, latest}
    EmbeddingModels = {embed}
    Rank <- MCRank
    Base <- MCBase
    Latest <- MCLatest
    Default = small
    AutoModel = auto
    Requests = {q1, q2}
    Asked = {llama, latest}
    ChangeBound = 2
    None = None
SYMMETRY Symmetry
INVARIANTS
    SupportedToolsAreKept
CHECK_DEADLOCK FALSE
