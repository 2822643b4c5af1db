SPECIFICATION Spec
CONSTANTS
    Regs <- MCRegs
    Scenarios <- MCScenarios
    Length <- MCLength
INVARIANTS
    AssemblesAndReturns
    Spacing
    LabelsForward
PROPERTIES
    AccessInRegion
    ReadsWritten
