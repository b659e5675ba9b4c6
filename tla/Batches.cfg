\* Two forms of one class and semester: the batches, whole or in part, and
\* the notifications that every return and hand-over stores.
SPECIFICATION Spec
CONSTANTS
    Null = Null
    f1 = f1  f2 = f2  c1 = c1  h1 = h1  h2 = h2
    Forms = {f1, f2}
    Classes = {c1}
    Semesters = {h1}
    ClassOf <- SameClass
    SemesterOf <- SameSemester
    Handlers = {w1, w2}
    Sections = {s1}
    SectionPoints = {0}
    Criteria = {k1}
    CriterionPoints = {25}
    MaxScore <- HalfEach
    DirectScores = {90}
    Evidence = {}
    MaxVersion = 100
SYMMETRY FormSymmetry
VIEW VersionlessView
PROPERTIES
    ImplementsLifecycle
    HandoverNotified
