CONSTANTS
  Emitters <- SafeEmitters
  Imm32s <- EdgeImm32s
  Imm64s <- EdgeImm64s
  Imm8s <- EdgeImm8s
  RvRegs = {0, 1, 31}
  PtrPC <- MCPtrPC
  PtrX <- MCPtrX
  MaxCalls = 2
SPECIFICATION Spec
PROPERTY ImplementsAsm
CHECK_DEADLOCK FALSE
