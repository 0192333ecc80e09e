\* Two workers: a recovery and the sending of the next recording.  Two blink
\* threads: one that has not noticed its end, and the next.  Reloads of the
\* hotkeys of two modes, with the backend before.
SPECIFICATION MCSpec
CONSTANTS
    Workers = {w1, w2}
    BlinkThreads = {b1, b2}
    MAX_IN_TRAY = 2
    Callback = callback
    None = None
    Modes = {m1, m2}
    Combos = {k1}
    Backends = {old, new}
    Nothing = Nothing
SYMMETRY MCSymmetry
INVARIANTS IconIsHonest ClipboardIsLent KeysFollowConfig ConfiguredKeysWork
PROPERTY HotkeysComeBack
