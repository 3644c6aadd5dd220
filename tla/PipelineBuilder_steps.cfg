CONSTANTS
    MaxSteps = 3
    MaxIds = 4
SPECIFICATION Spec
INVARIANT StepsArePermutation
