SPECIFICATION Spec
CONSTANTS
    Configurations = {t1, t2}
    Garbage = garbage
    Cut = cut
    NoFile = nofile
INVARIANT ReplacementPersists
CHECK_DEADLOCK FALSE
