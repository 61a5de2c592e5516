SPECIFICATION Spec
CONSTANTS
    WordBits = 8
    BitXor <- MCBitXor
    IV <- MCIV
    Inputs <- MCInputs
INVARIANTS TypeOK WindowsAgree EveryWordEnters
