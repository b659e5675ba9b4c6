\* A form created in a closed semester while another is open.
SPECIFICATION Spec
CONSTANTS
    Null = Null
    f1 = f1  f2 = f2  c1 = c1  h1 = h1  h2 = h2
    Forms = {f1, f2}
    Classes = {c1}
    Semesters = {h1, h2}
    ClassOf <- SameClass
    SemesterOf <- OneEach
    Handlers = {w1}
    Sections = {s1}
    SectionPoints = {0}
    Criteria = {k1}
    CriterionPoints = {25}
    MaxScore <- HalfEach
    DirectScores = {90}
    Evidence = {}
    MaxVersion = 6
INVARIANT LockMatchesActive
