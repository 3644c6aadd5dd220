CONSTANTS
    Operands <- MCOperands
    Choose = "Choose..."
SPECIFICATION Spec
INVARIANT TypeOK WellFormedRoundTrips
