SPECIFICATION Spec
CONSTANTS
    h1 = h1  r1 = r1  r2 = r2  w1 = w1  w2 = w2  mA = mA  mB = mB
    HotkeyThreads = {h1}
    Recorders = {r1, r2}
    Workers = {w1, w2}
    Modes = {mA}
    DefaultMode = mA
    None = None
    Overlap = TRUE
INVARIANTS AudioSentOnce NeverAbandoned
SYMMETRY MCSymmetry
VIEW MCView
