\* Two rules in a table of two slots, two web threads; three times, of
\* which one is longer than the histogram and one is refused; the percentile
\* is two thirds.  Numbers are binary; the last digit may be missing.
CONSTANTS
    Ids = {a, b}
    AlertMax = 2
    Web = {w1, w2}
    Times = {1, 4, 9}
    MaxTime = 4
    Buckets = 3
    Den = 3
    ULongMax = 1000
    Tens = {1, 2}
    MaxSamples = 3
SPECIFICATION Spec
SYMMETRY Symmetry
INVARIANTS
    OneRule
    Balanced
    ReportsTrue
