\* An update of the code alone against a move to another class.
SPECIFICATION Spec
SYMMETRY CallerSymmetry
CONSTANTS
    Null = Null  Initial = Initial
    o1 = o1  o2 = o2  o3 = o3  o4 = o4  p1 = p1  p2 = p2  p3 = p3  p4 = p4
    A = A  B = B  k1 = k1  k2 = k2  k3 = k3  u1 = u1  u2 = u2
    Callers = {o1, o2, o3}
    Persons = {p1, p2, p3, p4}
    Classes = {A, B}
    Codes = {k1, k2, k3}
    Users = {u1, u2}
    Requests <- FieldRequests
    Account0 <- Accounts
    Staff0 = {p4}
    Enrol0 <- Enrolments
    Capacity = 1
    Lifetime = 1
    MaxTime = 1
PROPERTY
    OtherFieldKept
