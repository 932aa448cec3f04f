SPECIFICATION Spec
CONSTANTS
    Topics = {t1, t2}
    Channels = {c1, c2}
    Publishers = {p1}
    BufSize = 1
    MaxPublish = 1
INVARIANT
    NeverPanics
CHECK_DEADLOCK FALSE
