------------------------------ MODULE SdlDisplay ------------------------------
(***************************************************************************)
(* The SDL display backend of src/kernel/sdl.cpp: win32k_sdl_t::init and  *)
(* fini, and the drawing routines behind sdl_device_context_t (set_pixel, *)
(* rectangle, polypatblt, bitblt, exttextout) with their 16 bpp loops.     *)
(*                                                                         *)
(* The surface is W x H pixels of 16 bits, so a row is pitch/2 = W cells  *)
(* and pixel (x, y) is cell y * W + x of screen->pixels.  Colours are     *)
(* data and are left out: the state keeps, for the last drawing call, the *)
(* set of cells it wrote.  A cell outside 0 .. W*H-1 is memory after (or  *)
(* before) the pixel buffer.  Glyph bitmaps are GlyphW x GlyphH, with     *)
(* FreeType's left/top bearings taken as 0.                               *)
(***************************************************************************)
EXTENDS Integers, FiniteSets, FiniteSetsExt

CONSTANTS
    W, H,              \* screen->w, screen->h (640 x 480 in set_mode)
    BW, BH,            \* the size of the bitmap selected in a source dc
    GlyphW, GlyphH,    \* the size of a glyph bitmap of vgasys.fon
    MaxGlyphs          \* bound on the glyphs drawn by one exttextout

ASSUME W \in Nat \ {0} /\ H \in Nat \ {0} /\ MaxGlyphs \in Nat

VARIABLES
    inited,    \* SDL_WasInit(SDL_INIT_VIDEO)
    ftlib,     \* FT_Init_FreeType has succeeded: "ready", else "none"
    sleeper,   \* ::sleeper: "default" until init installs sdl_sleeper
    written,   \* the cells the last drawing call wrote
    fault      \* "none" or the crash that stopped the kernel

vars == <<inited, ftlib, sleeper, written, fault>>

\* Coordinates on the screen: pixels, and rectangle edges, which may be
\* the exclusive right and bottom edges.  These are the calls a caller
\* that clips to the screen still makes.
PixelXs == 0 .. W - 1
PixelYs == 0 .. H - 1
Xs == 0 .. W
Ys == 0 .. H

\* The cells of the pixel buffer.
Surface == 0 .. W * H - 1

\* set_pixel_l: (Uint16 *)screen->pixels + y*screen->pitch/2 + x.
Offset(x, y) == y * W + x

TypeOK ==
    /\ inited \in BOOLEAN
    /\ ftlib \in {"none", "ready"}
    /\ sleeper \in {"default", "sdl"}
    /\ written \subseteq Int
    /\ fault \in {"none", "null_screen", "ft_uninit"}

-----------------------------------------------------------------------------
(* The drawing routines: the cells each one writes.                       *)

\* rectangle_l: the top line left..right, then the rows while
\* top < bottom - 1, each with a pen cell at left, brush cells
\* left+1 .. right-2 and a pen cell where the brush loop stopped, then the
\* bottom line on the row after the last one.
RectangleL(left, top, right, bottom) ==
    LET rows == top + 1 .. bottom - 2
        lastrow == IF top + 1 < bottom - 1 THEN bottom - 1 ELSE top + 1
        border == IF left + 1 < right - 1 THEN right - 1 ELSE left + 1
    IN  {Offset(c, top) : c \in left .. right}
        \cup {Offset(c, r) : c \in {left, border} \cup (left + 1 .. right - 2), r \in rows}
        \cup {Offset(c, lastrow) : c \in left .. right}

\* win32k_sdl_t::rectangle: order the corners (swap), clamp top and left
\* to 0 and right and bottom to the last column and row, then rectangle_l.
Rectangle(l, t, r, b) ==
    LET left == Max({0, Min({l, r})})
        top == Max({0, Min({t, b})})
        right == Min({W - 1, Max({l, r})})
        bottom == Min({H - 1, Max({t, b})})
    IN  RectangleL(left, top, right, bottom)

\* polypatblt_l: each row top .. bottom-1 is filled left .. right-1, and the
\* "right border" cell is written where the fill loop stopped.
PolyPatBltL(left, top, right, bottom) ==
    LET border == IF left < right THEN right ELSE left IN
    {Offset(c, r) : c \in (left .. right - 1) \cup {border}, r \in top .. bottom - 1}

\* win32k_sdl_t::polypatblt: clamp to 0 and to screen->w, screen->h.
PolyPatBlt(l, t, r, b) ==
    PolyPatBltL(Max({l, 0}), Max({t, 0}), Min({W, r}), Min({H, b}))

\* bitblt_l: copy cx x cy pixels to (xDest + j, yDest + i) with set_pixel_l.
BitBltL(xd, yd, cx, cy) ==
    {Offset(xd + j, yd + i) : i \in 0 .. cy - 1, j \in 0 .. cx - 1}

\* win32k_sdl_t::bitblt: keep the destination on the screen, then the
\* source on the bitmap, then bitblt_l.
BitBlt(xd, yd, cx, cy, xs, ys) ==
    LET x == Max({xd, 0})
        y == Max({yd, 0})
        cx1 == IF x + cx > W THEN W - x ELSE cx
        cy1 == IF y + cy > H THEN H - y ELSE cy
        sx == Max({xs, 0})
        sy == Max({ys, 0})
        cx2 == IF sx + cx1 > BW THEN BW - sx ELSE cx1
        cy2 == IF sy + cy1 > BH THEN BH - sy ELSE cy1
    IN  BitBltL(x, y, cx2, cy2)

\* freetype_bitblt: every pixel of the glyph bitmap goes through set_pixel
\* at (x + column, y + row), unclipped.
FreetypeBitblt(x, y) ==
    {Offset(j, i) : i \in y .. y + GlyphH - 1, j \in x .. x + GlyphW - 1}

\* exttextout: the glyphs that load are drawn side by side, dx advancing
\* by each one's width (a glyph that fails to load is skipped).
ExtTextOutCells(x, y, m) ==
    UNION {FreetypeBitblt(x + k * GlyphW, y) : k \in 0 .. m - 1}

-----------------------------------------------------------------------------
(* The backend's operations.                                              *)

Init ==
    /\ inited = FALSE
    /\ ftlib = "none"
    /\ sleeper = "default"
    /\ written = {}
    /\ fault = "none"

\* win32k_sdl_t::init when SDL video is not yet initialised (otherwise it
\* returns TRUE at once, a stuttering step, as is a failing SDL_Init).
\* set_mode's SDL_SetVideoMode may return NULL, which the background
\* rectangle dereferences.  FT_Init_FreeType may fail after the screen is
\* up: init returns FALSE without installing the sdl sleeper, and a later
\* init returns TRUE at once.
Win32kInit ==
    /\ fault = "none" /\ ~inited
    /\ inited' = TRUE
    /\ \/ /\ fault' = "null_screen"
          /\ UNCHANGED <<ftlib, sleeper, written>>
       \/ /\ written' = Rectangle(0, 0, W, H)
          /\ \E ok \in BOOLEAN :
                /\ ftlib' = IF ok THEN "ready" ELSE "none"
                /\ sleeper' = IF ok THEN "sdl" ELSE sleeper
          /\ UNCHANGED fault

\* win32k_sdl_t::fini: FT_Done_FreeType and SDL_Quit, if SDL was set up.
Win32kFini ==
    /\ fault = "none" /\ inited
    /\ inited' = FALSE /\ ftlib' = "none" /\ written' = {}
    /\ UNCHANGED <<sleeper, fault>>

\* A drawing call reaches the screen only while SDL is set up.
Drawing == fault = "none" /\ inited

\* sdl_device_context_t::set_pixel -> win32k_sdl_t::set_pixel.
SetPixel(x, y) ==
    /\ Drawing
    /\ written' = {Offset(x, y)}
    /\ UNCHANGED <<inited, ftlib, sleeper, fault>>

\* sdl_device_context_t::rectangle: FALSE without a selected brush.
DcRectangle(l, t, r, b, brush) ==
    /\ Drawing
    /\ written' = IF brush THEN Rectangle(l, t, r, b) ELSE {}
    /\ UNCHANGED <<inited, ftlib, sleeper, fault>>

\* sdl_device_context_t::polypatblt -> win32k_sdl_t::polypatblt.
DcPolyPatBlt(l, t, r, b) ==
    /\ Drawing
    /\ written' = PolyPatBlt(l, t, r, b)
    /\ UNCHANGED <<inited, ftlib, sleeper, fault>>

\* win32k_sdl_t::bitblt from a dc: FALSE when it has no selected bitmap.
DcBitBlt(xd, yd, cx, cy, xs, ys, bitmap) ==
    /\ Drawing
    /\ written' = IF bitmap THEN BitBlt(xd, yd, cx, cy, xs, ys) ELSE {}
    /\ UNCHANGED <<inited, ftlib, sleeper, fault>>

\* sdl_device_context_t::exttextout -> win32k_sdl_t::exttextout: the face
\* is opened on every call; opening fails (FALSE) if the font is missing.
\* With FT_Init_FreeType failed, ftlib is uninitialised: FT_Open_Face on
\* it fails or crashes.
DcExtTextOut(x, y, m) ==
    /\ Drawing
    /\ \/ written' = {} /\ UNCHANGED fault
       \/ ftlib = "ready" /\ written' = ExtTextOutCells(x, y, m) /\ UNCHANGED fault
       \/ ftlib = "none" /\ fault' = "ft_uninit" /\ UNCHANGED written
    /\ UNCHANGED <<inited, ftlib, sleeper>>

Next ==
    \/ Win32kInit \/ Win32kFini
    \/ \E x \in PixelXs, y \in PixelYs : SetPixel(x, y)
    \/ \E l, r \in Xs, t, b \in Ys, brush \in BOOLEAN : DcRectangle(l, t, r, b, brush)
    \/ \E l, r \in Xs, t, b \in Ys : DcPolyPatBlt(l, t, r, b)
    \/ \E xd, cx \in Xs, yd, cy \in Ys, xs \in 0 .. BW, ys \in 0 .. BH, bitmap \in BOOLEAN :
          DcBitBlt(xd, yd, cx, cy, xs, ys, bitmap)
    \/ \E x \in PixelXs, y \in PixelYs, m \in 0 .. MaxGlyphs : DcExtTextOut(x, y, m)

Spec == Init /\ [][Next]_vars

-----------------------------------------------------------------------------
(* Properties *)

\* No drawing call writes outside the pixel buffer, whatever on-screen
\* coordinates it is given: every routine clips its rectangle to the
\* screen before its 16 bpp loop, and the kernel memory around the buffer
\* is never written.
NoWriteOutsideSurface == written \subseteq Surface

=============================================================================
