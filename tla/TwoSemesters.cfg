\* Two semesters and a form of the same student in each, two requests in flight.
SPECIFICATION Spec
CONSTANTS
    Null = Null
    f1 = f1  f2 = f2  c1 = c1  h1 = h1  h2 = h2
    Forms = {f1, f2}
    Classes = {c1}
    Semesters = {h1, h2}
    ClassOf <- SameClass
    SemesterOf <- OneEach
    Handlers = {w1, w2}
    Sections = {s1}
    SectionPoints = {0}
    Criteria = {k1}
    CriterionPoints = {25}
    MaxScore <- HalfEach
    DirectScores = {90}
    Evidence = {}
    MaxVersion = 100
SYMMETRY HandlerSymmetry
VIEW VersionlessView
INVARIANTS
    OpenSemesterUnlocked
PROPERTIES
    ImplementsLifecycle
    ImplementsSwitch
