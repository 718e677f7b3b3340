SPECIFICATION Spec
CONSTANTS
    ScreenWidth = 2
    ScreenHeight = 2
    MAX_SCALE = 2
    SCROLLBACK_LINES = 2
    INITIAL_SCALE = 2
    CONSOLE_WIDTH = 3
    CONSOLE_HEIGHT = 2
    Letters <- MCLetters
    Colors <- MCColors
    Scales <- MCScales
    Calls = {"kputc", "rescale"}
    Failures = {"shadow"}
    MaxText = 3
INVARIANTS
    FreedIsNotUsed
\* Text is bounded, and a console that leaves its buffers is not followed.
CHECK_DEADLOCK FALSE
