SPECIFICATION MCSpec
CONSTANTS
    MaxRdnf = 64
    MaxDepth = 16
    TyCons <- MCTyCons
    Queries <- MCAssumedQueries
    Values <- MCValues
    Unions <- MCUnions
    Concat <- ConcatRule
    Product <- ProductRule
    ToRdnf <- RdnfRule
    Substitute <- SubstituteRule
    Disjoint <- DisjointRule
    Spine <- SpineRule
    IsAtomSubtype <- AtomRule
    IsSubtype <- SubtypeRule
    HasType <- MeaningRule
    Boolean <- BooleanRule
INVARIANTS
    Sound
CHECK_DEADLOCK FALSE
