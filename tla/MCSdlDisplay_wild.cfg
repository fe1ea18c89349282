\* A 3 x 2 screen, a 2 x 1 source bitmap and 2 x 1 glyphs: every routine
\* on every on-screen rectangle, edges included.
CONSTANTS
    W = 3
    H = 2
    BW = 2
    BH = 1
    GlyphW = 2
    GlyphH = 1
    MaxGlyphs = 2
SPECIFICATION Spec
\* A crash stops the kernel.
CHECK_DEADLOCK FALSE
INVARIANT
    NoWriteOutsideSurface
