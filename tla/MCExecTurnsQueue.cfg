CONSTANTS
    MaxMessages = 3
    MaxStops = 0

SPECIFICATION PromptSpec

PROPERTY EachGoesOut

CHECK_DEADLOCK FALSE
