SPECIFICATION Spec
CONSTANTS
    latest = latest
    other = other
    embed = embed
    bareEmbed = bareEmbed
    Models = {latest, other, embed}
    Names = {latest, other, embed, bareEmbed}
    Tag <- Tags
    StandIns <- TagsOfOne
    EmbeddingModels = {embed}
    Embedding = bareEmbed
    Default = latest
    Requests = {q1, q2}
    None = None
SYMMETRY Symmetry
INVARIANTS
    TypeOK
    AuditIsExact
    PulledIsRegistered
CHECK_DEADLOCK FALSE
