\* Two manifests and four indices, nested up to three deep.
CONSTANTS
    amd64 = amd64
    arm64 = arm64
    m1 = m1
    m2 = m2
    inner = inner
    outer = outer
    empty = empty
    broken = broken
    junk = junk
    Docs <- MCDocs
    Index <- MCIndex
    Images = {m1, m2, inner}
    Rank <- MCRank
    Platforms = {amd64, arm64}
    Tag = Tag
    Invalid = Invalid
SPECIFICATION Spec
INVARIANTS
    TypeOK
    ChainIsVerified
    NoIndexTwice
