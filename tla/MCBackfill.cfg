CONSTANTS
    Products = {p1, p2}
    Target = 3
SPECIFICATION SchemaSpec
INVARIANTS
    BackfillIsDone
