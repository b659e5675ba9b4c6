\* One form in one semester, two requests in flight, every column in play.
SPECIFICATION Spec
CONSTANTS
    Null = Null
    f1 = f1  f2 = f2  c1 = c1  h1 = h1  h2 = h2
    Forms = {f1}
    Classes = {c1}
    Semesters = {h1}
    ClassOf <- SameClass
    SemesterOf <- SameSemester
    Handlers = {w1, w2}
    Sections = {s1, s2}
    SectionPoints = {0, 25}
    Criteria = {k1, k2}
    CriterionPoints = {0, 40, 60}
    MaxScore <- HalfEach
    DirectScores = {90}
    Evidence = {e1}
    MaxVersion = 100
SYMMETRY HandlerSymmetry
VIEW VersionlessView
INVARIANTS
    TypeOK
    SnapshotCoherent
    SignaturesMatchStage
    ScoresMatchStage
    RankMatchesStage
    ClassScoreIsSheetTotal
    StudentTotalConsistent
    TotalsOnScale
PROPERTIES
    StudentWorkFrozen
    FinalizedSealed
    LoserStaysOut
