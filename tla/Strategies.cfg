SPECIFICATION PutsSpec
CONSTANT Put = {p1, p2, p3, p4}
PROPERTY ReplacesWhatItSaw
SYMMETRY Symmetry
CHECK_DEADLOCK FALSE
