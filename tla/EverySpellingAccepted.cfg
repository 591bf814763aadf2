SPECIFICATION DataSpec
CONSTANTS
    Requests = {r1, r2}
    Workloads <- MCWorkloads
    SchemaKeys <- MCSchemaKeys
    Config <- MCConfig
    CreateKeys <- MCCreateKeys
    Example <- MCExample
    CardKeywords <- MCCard
    RedactKeywords <- MCRedact
    PartialKeywords <- MCPartial
    ShortKeywords <- MCShort
    KeyAffixes <- MCAffixes
    SubValues <- MCSubValues
    Depth = 3
    MaxFragment = 2
    PanMin = 3
    PanMax = 4
    BinDigits = 1
    LastDigits = 1
    CacheMax = 12
INVARIANT EverySpellingAccepted
