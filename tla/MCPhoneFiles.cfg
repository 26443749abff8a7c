CONSTANTS
    Folders = {sub}
    Root = Root
    None = None
    Edits = {2}
    MaxDrafts = 1
    MaxChanges = 1
    MaxBreaks = 1
    MaxSent = 2

SPECIFICATION Spec

INVARIANT TypeOK
INVARIANT ScreensAreCurrent
INVARIANT ShownWasHeld

CHECK_DEADLOCK FALSE
