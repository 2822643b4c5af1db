SPECIFICATION Spec
CONSTANTS
    Kinds <- MCKinds
    Leftovers <- MCLeftovers
    MaxLen = 3
INVARIANTS
    NoEscape
    NoFalseAlarm
    ComparesOwnTraces
    ArtefactsKept
