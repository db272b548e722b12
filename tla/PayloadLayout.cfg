\* Messages below and above 4 fields (16 bytes), and the array of sizes; 64 values
\* of a product.
CONSTANTS
    Modulus = 64
    NumSizes = 2
    SizeArgs = {0, 1, 3, 4, 5, 8, 12}
    MaxNumPer = 3
    MaxRounds = 3
    UserId = 7

SPECIFICATION Spec

INVARIANTS
    AssertSequence
    KeysUnique
