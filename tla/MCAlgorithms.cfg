\* Every law on every input.
SPECIFICATION Spec
CONSTANTS
    None = None
    Bad = Bad
INVARIANTS
    ConditionsAreRight
    MethodsAreConsistent
    ReportsAreExact
    PropertiesAreKept
