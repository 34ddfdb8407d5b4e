CONSTANT LaneBits = 2
SPECIFICATION CfuSpec
INVARIANTS ProductsExact AmulSplitsPmul LanewiseSums
