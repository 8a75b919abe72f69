SPECIFICATION Spec
CONSTANTS
    DigitBit = 4
    MultThreshold = 4
    Precision = 6
    FractionBits = 6
    MaxExponent = 10
    Numbers <- MCNumbers
    Operands <- MCOperands
    Texts <- MCTexts
    Radixes = {2, 10, 16}
INVARIANTS ResultsAreExact Canonical DivModLaw ComparesValues ReadsBack
CHECK_DEADLOCK FALSE
