-------------------------------- MODULE Display --------------------------------
(***************************************************************************)
(* Drawing: display/display_manager.c and font/freetype.c of tiny_tv, for  *)
(* the panel's one bit per pixel.  A buffer is an array of bytes, a byte a *)
(* function from its bits; a drawing function gives the buffer after it.   *)
(* What FreeType says of a character is the constant Face.                 *)
(***************************************************************************)
EXTENDS Integers, Sequences

CONSTANTS XRES, YRES,   \* pixels
          BITS,         \* bits of a byte, 8
          Face          \* Face[size][char]: left, top, width, rows, advance, and the
                        \* set ink of the <<column, row>> that are set

ASSUME ResAssumption == XRES \in Nat \ {0} /\ YRES \in Nat \ {0}
ASSUME ByteAssumption == BITS \in Nat \ {0} /\ XRES % BITS = 0

Bytes == 0 .. ((XRES * YRES) \div BITS) - 1
Blank == [i \in Bytes |-> [b \in 0 .. BITS - 1 |-> 0]]

\* The byte and the bit of a pixel; x is not compared with the width.
Base(x, y) == ((y * XRES) \div BITS) + (x \div BITS)

\* Mutant: the pixels of a byte run from its low bit up, as in show_ascii.c.
BitLowFirst(x) == x % BITS

Bit(x) == BITS - 1 - (x % BITS)

\* put_pixel_buffer for each of some pixels; any color but 0 lights them.
PutPixels(buffer, pixels, color) ==
    [i \in Bytes |-> [b \in 0 .. BITS - 1 |->
        IF \E p \in pixels : Base(p[1], p[2]) = i /\ Bit(p[1]) = b
        THEN IF color = 0 THEN 0 ELSE 1
        ELSE buffer[i][b]]]

\* A region is <<x, y, width, height>>.
Inside(region) == (region[1] .. region[1] + region[3] - 1)
                      \X (region[2] .. region[2] + region[4] - 1)

draw_rectangle(buffer, region, color) == PutPixels(buffer, Inside(region), color)

\* Turns each pixel of a region that is on the screen.
inversion_buffer(buffer, region) ==
    [i \in Bytes |-> [b \in 0 .. BITS - 1 |->
        IF \E p \in Inside(region) : Base(p[1], p[2]) = i /\ Bit(p[1]) = b
        THEN 1 - buffer[i][b] ELSE buffer[i][b]]]

\* The pixels of bitmaps, without those that are off the screen.
OnScreen(pixels) == pixels \cap ((0 .. XRES - 1) \X (0 .. YRES - 1))

draw_font_bitmap(buffer, pixels, color) == PutPixels(buffer, OnScreen(pixels), color)

-------------------------------------------------------------------------------
\* Text.

\* The origin of each character of a text that starts at x.
Pens(str, size, x) ==
    LET pen[i \in 1 .. Len(str)] ==
            IF i = 1 THEN x ELSE pen[i - 1] + Face[size][str[i - 1]].advance
    IN  pen

MinOf(S) == CHOOSE m \in S : \A n \in S : m <= n
MaxOf(S) == CHOOSE m \in S : \A n \in S : m >= n

\* Width and height of the box around a text.
StrBox(str, size) ==
    LET pen == Pens(str, size, 0)
        glyph(i) == Face[size][str[i]]
        I == 1 .. Len(str)
        top == MaxOf({glyph(i).top : i \in I})
        bottom == MinOf({glyph(i).top - glyph(i).rows : i \in I})
        left == MinOf({pen[i] + glyph(i).left : i \in I})
        right == MaxOf({pen[i] + glyph(i).left + glyph(i).width : i \in I})
    IN  [width |-> right - left + 1, height |-> top - bottom + 1]

\* Half of n, towards 0.
Half(n) == IF n >= 0 THEN n \div 2 ELSE -((-n) \div 2)

\* The size that is asked for, or, for 0, the one that fits the region.
FontSize(str, region, size) ==
    IF size # 0 THEN size
    ELSE LET fits == region[3] \div (2 * Len(str))
         IN  IF fits > region[4] THEN region[4] ELSE fits

\* The pixels of one bitmap: FreeType measures y upwards, the screen downwards.
GetFontBitMap(char, size, x, y) ==
    LET glyph == Face[size][char]
    IN  {<<x + glyph.left + q[1], (y - glyph.top) + q[2]>> : q \in glyph.ink}

\* The pixels of a text in the middle of a region, those off the screen included.
TextPixels(str, region, font_size) ==
    LET size == FontSize(str, region, font_size)
        box == StrBox(str, size)
        pen == Pens(str, size, Half(2 * region[1] + region[3] - box.width))
        y == Half(2 * region[2] + region[4] + box.height)
    IN  UNION {GetFontBitMap(str[i], size, pen[i], y) : i \in 1 .. Len(str)}

draw_text_at_center(buffer, str, region, color, font_size) ==
    draw_font_bitmap(buffer, TextPixels(str, region, font_size), color)

===============================================================================
