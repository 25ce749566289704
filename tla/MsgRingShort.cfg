\* A caller may commit fewer words than it reserved, as ProducerGrant::commit
\* permits.
CONSTANTS
    Capacity = 8
    MaxRecord = 4
    IdSpan = 4
    ShortCommits = TRUE
SPECIFICATION Spec
INVARIANT ConsumerNeverPanics
