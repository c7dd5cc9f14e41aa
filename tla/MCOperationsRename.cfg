CONSTANTS
    Paths <- MCPaths
    Leaks <- MCLeaks
    TwiceFreed <- MCTwiceFreed
    LateRefusal <- MCLateRefusal
    Partial <- MCPartial
SPECIFICATION Spec
INVARIANT PoolsNamed
