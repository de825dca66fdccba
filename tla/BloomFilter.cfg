CONSTANTS
    cat = cat
    dog = dog
    Words = {cat, dog}
    NumBits = 14
    NumHashes = 2
    Hash <- MCHash
    Header <- MCHeader
    MaxFile = 8
CHECK_DEADLOCK FALSE
SPECIFICATION Spec
INVARIANTS TypeOK FirstBuildFound
