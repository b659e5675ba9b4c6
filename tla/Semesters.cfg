\* Two semesters; one administrator edits them while another opens and closes
\* them, and students create forms.  The deadlines are left to ClearedDeadline.cfg.
SPECIFICATION Spec
CONSTANTS
    Null = Null  Unset = Unset
    y1 = y1  y2 = y2  t1 = t1  t2 = t2
    s1 = s1  s2 = s2
    Semesters = {s1, s2}
    Years = {y1, y2}
    Terms = {t1, t2}
    Days = {1, 2}
    Creations <- UndatedCreations
    Updates <- Updating
    Editors = {e1}
    Switchers = {w1}
INVARIANTS
    AtMostOneActive
    NoOverlap
PROPERTIES
    ImplementsSwitch
    NoticesMatchSwitches
SYMMETRY Interchangeable
