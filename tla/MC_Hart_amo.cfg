CONSTANT XLEN = 8
CONSTANT Regs = {0, 1, 2, 3}
CONSTANT SP = 2
CONSTANT StackTop = 240
CONSTANT MemAddrs <- Window
CONSTANT ExcNone = 0
CONSTANT ExcMisaligned = 1
CONSTANT ExcHalt = 99
CONSTANT Programs <- AmoPrograms
CONSTANT InitMems <- ZeroMem
CONSTANT ResetPCs = {0, 88}
CONSTANT CallbackResetPCs = {}
CONSTANT StepArgs = {0, 1, 3}
CONSTANT MaxCycle = 24
CONSTANT CycleMod = 65536
CONSTANT JitBuild = FALSE
SPECIFICATION Spec
PROPERTY ImplementsArch
