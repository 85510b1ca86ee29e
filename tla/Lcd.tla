-------------------------------- MODULE Lcd --------------------------------
(***************************************************************************)
(* The LCD: the files of /dev/lcd (devlcd.c) and the console the driver    *)
(* draws into the frame buffer (lcd.c).  putc() is in no critical region:  *)
(* its reads and writes of consX are steps between which another writer    *)
(* may run.  A pixel is a background colour, a point <<c, y, x>> of a      *)
(* glyph, or a point of a picture; what the font has there, and fg, are    *)
(* left out.                                                               *)
(***************************************************************************)
EXTENDS Integers, FiniteSets

CONSTANTS
  xsize, ysize,          \* LCD_XSIZE, LCD_YSIZE
  consFontH, consFontW,  \* PROFONT_FONT_HEIGHT, PROFONT_FONT_WIDTH
  consTabSpc,
  Writers,               \* who has cons open
  ConsChars,                 \* what they write: printable or CR, LF, TAB, BS, FF
  Greys, Colours,        \* backgrounds whose three parts are equal, or not
  MaxTyped               \* bound: characters written

LcdAssumption ==
  /\ {xsize, ysize, consFontH, consFontW, consTabSpc} \subseteq Nat \ {0}
  /\ consFontW <= xsize /\ consFontH <= ysize
  /\ MaxTyped \in Nat /\ Greys \cap Colours = {} /\ Greys # {}

VARIABLES
  fb,      \* the frame buffer, by pixel
  consX, bg,
  putStep, \* where a writer is in putc(): idle, advance, check, home
  beyond,  \* pixels have been written outside the frame buffer
  text,    \* what the screen should show, in cells
  written    \* how many characters were written

lcdVars == <<fb, consX, bg, putStep, beyond, text, written>>

consY  == ysize - consFontH      \* where k70LcdClear() puts it, for good
Pixels == 0..(xsize * ysize - 1)

(* What fits on the screen: the top row may be cut. *)
Rows == (ysize + consFontH - 1) \div consFontH
Cols == xsize \div consFontW
console == INSTANCE Terminal WITH TabSpc <- consTabSpc

Background == Greys \cup Colours

(* What each variable may hold; consX is below the edge by a tab at most. *)
LcdTypeOK ==
  /\ DOMAIN fb = Pixels
  /\ consX \in 0..(xsize + consTabSpc * consFontW)
  /\ bg \in Background
  /\ putStep \in [Writers -> {"idle", "advance", "check", "home"}]
  /\ beyond \in BOOLEAN
-----------------------------------------------------------------------------
(* k70LcdClear(). *)
cleared == [i \in Pixels |-> console!Blank(bg)]

(* k70LcdScroll(): memmove of consY rows up by the height of a character,
   then the last rows are cleared; where from depends on the colour. *)
clearFromMutant == (consY + 1) * xsize
clearFrom == IF bg \in Greys THEN consY * xsize ELSE consY + xsize

k70LcdScroll ==
  [i \in Pixels |-> IF i >= clearFrom THEN console!Blank(bg)
                    ELSE IF i < consY * xsize THEN fb[i + consFontH * xsize]
                    ELSE fb[i]]

(* The pixels of character c, by their place in memory. *)
glyph(c) ==
  [i \in {(y + consY) * xsize + x + consX : y \in 0..(consFontH - 1), x \in 0..(consFontW - 1)} |->
     LET off == i - consX - consY * xsize IN <<c, off \div xsize, off % xsize>>]

GoTo(w, step) == putStep' = [putStep EXCEPT ![w] = step]

tab == consTabSpc * consFontW

(* putc() of a control character, up to the end of the switch. *)
control(c) ==
  CASE c = "CR"  -> consX' = 0 /\ UNCHANGED fb
    [] c = "LF"  -> fb' = k70LcdScroll /\ UNCHANGED consX
    [] c = "TAB" -> consX' = ((consX + tab) \div tab) * tab /\ UNCHANGED fb
    [] c = "BS"  -> consX' = (IF consX >= consFontW THEN consX - consFontW ELSE consX) /\ UNCHANGED fb
    [] c = "FF"  -> fb' = cleared /\ consX' = 0

Controls == {"CR", "LF", "TAB", "BS", "FF"}

(* writeLcd() of one character to cons: the switch of k70LcdPutc(). *)
begin(w, c) ==
  /\ putStep[w] = "idle" /\ written < MaxTyped
  /\ written' = written + 1
  /\ text' = console!typed(text, c, bg)

putControl(w, c) ==
  /\ c \in Controls
  /\ begin(w, c)
  /\ control(c)
  /\ GoTo(w, "check")
  /\ UNCHANGED <<bg, beyond>>

putGlyph(w, c) ==
  /\ c \notin Controls
  /\ begin(w, c)
  /\ LET g == glyph(c) IN
     /\ fb' = [i \in Pixels |-> IF i \in DOMAIN g THEN g[i] ELSE fb[i]]
     /\ beyond' = (beyond \/ ~(DOMAIN g \subseteq Pixels))
  /\ GoTo(w, "advance")
  /\ UNCHANGED <<consX, bg>>

putAdvance(w) ==
  /\ putStep[w] = "advance"
  /\ consX' = consX + consFontW
  /\ GoTo(w, "check")
  /\ UNCHANGED <<fb, bg, beyond, text, written>>

(* The end of putc(): a cursor too near the edge scrolls and goes home. *)
atEdge == consX > xsize - consFontW

putCheck(w) ==
  /\ putStep[w] = "check"
  /\ fb' = IF atEdge THEN k70LcdScroll ELSE fb
  /\ GoTo(w, IF atEdge THEN "home" ELSE "idle")
  /\ UNCHANGED <<consX, bg, beyond, text, written>>

putHome(w) ==
  /\ putStep[w] = "home"
  /\ consX' = 0
  /\ GoTo(w, "idle")
  /\ UNCHANGED <<fb, bg, beyond, text, written>>

(* The other files of /dev/lcd, written while no putc() is going on: bg
   (fg changes no pixel that is there), clear and blit. *)
AllIdle == \A w \in Writers : putStep[w] = "idle"

writeBg(b) ==
  /\ AllIdle /\ written < MaxTyped
  /\ b # bg /\ bg' = b
  /\ UNCHANGED <<fb, consX, putStep, beyond, text, written>>

writeClear ==
  /\ AllIdle /\ written < MaxTyped
  /\ fb' = cleared /\ consX' = 0
  /\ text' = console!empty(bg)
  /\ UNCHANGED <<bg, putStep, beyond, written>>

(* k70LcdBlit(): the whole buffer, whatever the size of the write. *)
writeBlit ==
  /\ AllIdle /\ written < MaxTyped
  /\ fb' = [i \in Pixels |-> <<"picture", i>>]
  /\ text' = [text EXCEPT !.cells = console!picture]
  /\ UNCHANGED <<consX, bg, putStep, beyond, written>>

(* k70LcdEnable(): white, then clear. *)
LcdInit ==
  /\ bg = CHOOSE b \in Greys : TRUE
  /\ fb = cleared
  /\ consX = 0 /\ beyond = FALSE
  /\ putStep = [w \in Writers |-> "idle"]
  /\ text = console!empty(bg) /\ written = 0

LcdNext ==
  \/ \E w \in Writers : \/ \E c \in ConsChars : putControl(w, c) \/ putGlyph(w, c)
                        \/ putAdvance(w) \/ putCheck(w) \/ putHome(w)
  \/ \E b \in Background : writeBg(b)
  \/ writeClear \/ writeBlit

LcdSpec == LcdInit /\ [][LcdNext]_lcdVars
-----------------------------------------------------------------------------
(* The pixel of a screen that shows the cells of t. *)
drawn(t, i) ==
  LET up   == ysize - 1 - i \div xsize        \* pixel rows below this one
      x    == i % xsize
      row  == up \div consFontH
      cell == t.cells[row][x \div consFontW]
  IN  CASE cell[1] = "blank"   -> cell
        [] cell[1] = "picture" -> <<"picture", i + (row - cell[2]) * consFontH * xsize>>
        [] OTHER -> <<cell[2], consFontH - 1 - (up % consFontH), x % consFontW>>

(* Between two characters the frame buffer shows, pixel by pixel, what a
   terminal of Rows lines and Cols columns would, the cut row at the top
   included, and the cursor is at its column (lcd.c:172-229). *)
ShowsText ==
  AllIdle => /\ \A i \in Pixels : fb[i] = drawn(text, i)
             /\ consX = text.col * consFontW

(* Nothing is drawn outside LCD_XSIZE * LCD_YSIZE pixels, behind which the
   allocator's bitmap lies (mk70f12.h:45-55; lcd.c:216-220). *)
DrawsInside == ~beyond

(* The screen shows what was typed, and nothing but the screen is drawn on. *)
ScreenShowsText == LcdTypeOK /\ ShowsText /\ DrawsInside
=============================================================================
