SPECIFICATION Spec
\* The model stops when the paper is used up.
CHECK_DEADLOCK FALSE
CONSTANTS
    VGA_COLS = 3
    VGA_ROWS = 2
    KBD_BREAK_BIT = 5
    g_scancode_ascii <- MCTable
    Cells <- MCCells
    Glyphs <- MCGlyphs
    Banner <- MCBanner
    Prompt <- MCPrompt
    LineMax = 3
    MaxPaper = 3
    MaxTyped = 5
INVARIANTS
    ScreenIsWindow
    ScreenShowsLine
    LineIsTyped
