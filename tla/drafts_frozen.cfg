SPECIFICATION Spec
CONSTANTS
    Drafts = {d1, d2}
    Callers = {u1, u2}
    Texts = {x1, x2}
    Blank = Blank
    Fingerprints = {f1, f2}
    NoBatch = NoBatch
    MaxRevision = 3
    MaxRestarts = 1
SYMMETRY Symmetry
CHECK_DEADLOCK FALSE
PROPERTIES FrozenAfterApproval
