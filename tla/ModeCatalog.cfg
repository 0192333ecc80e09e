SPECIFICATION Spec
CONSTANTS
    exact = exact  own = own
    Keys = {exact, own}
    Config = {exact}
    Requests = {r1, r2}
    MaxBookings = 2
    None = None
SYMMETRY MCSymmetry
INVARIANTS CompleteRows NoInheritance
PROPERTY FieldsKept
