CONSTANT XLEN = 8
CONSTANT Operands <- AllWords
CONSTANT FpOperands <- FpSample
SPECIFICATION Spec
INVARIANT AluMatchesIsa
CHECK_DEADLOCK FALSE
