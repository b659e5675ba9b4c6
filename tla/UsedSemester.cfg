\* One administrator renames a semester while a student creates its first form.
SPECIFICATION Spec
CONSTANTS
    Null = Null  Unset = Unset
    y1 = y1  y2 = y2  t1 = t1  t2 = t2  s1 = s1  s2 = s2
    Semesters = {s1, s2}
    Years = {y1, y2}
    Terms = {t1, t2}
    Days = {1, 2}
    Creations <- SomeCreations
    Updates <- SomeUpdates
    Editors = {e1}
    Switchers = {}
PROPERTY UsedSemesterKept
