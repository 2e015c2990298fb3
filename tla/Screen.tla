--------------------------------- MODULE Screen ---------------------------------
(***************************************************************************)
(* From a page of tiny_tv to the glass: the application draws into a       *)
(* buffer of its own and copies it into the mapped frame buffer, byte by   *)
(* byte (display/framebuffer.c); a kernel thread of drivers/               *)
(* oled_framebuffer/oled_drv.c turns the frame buffer, byte by byte,      *)
(* into the columns of the panel, sends them, and sleeps; nobody locks     *)
(* anything.  The test program show_ascii.c writes the frame buffer itself.*)
(***************************************************************************)
EXTENDS Display

CONSTANTS Regions, Texts,   \* what the application draws
          MaxDraw           \* and how often, at most

FbPages == YRES \div BITS

\* The lines fill the pages of the chip.
ASSUME PagesAssumption == YRES % BITS = 0 /\ FbPages \in 1 .. 8

Chip == INSTANCE Panel WITH WIDTH <- XRES, PAGES <- FbPages

VARIABLES
    app,    \* pc; buffer: the page's; n: bytes copied; drawn: drawings so far; and
            \* the pixels that are lit in the picture these have made
    fb,     \* the frame buffer
    thread  \* pc; n: columns converted or pages sent; data: data_buf; panel

screen == <<app, fb, thread>>

-------------------------------------------------------------------------------
\* The application.

\* framebuffer_init and defaultdev_init; without the device the first drawing is
\* through a null pointer.
Start(opened) == /\ app.pc = "start"
                 /\ app' = [app EXCEPT !.pc = IF opened THEN "drawn" ELSE "fault"]
                 /\ UNCHANGED <<fb, thread>>

\* Drawings go on in the buffer, and each page ends them with a flush.
Draws(buffer, picture) ==
    /\ app.pc \in {"idle", "drawn"} /\ app.drawn < MaxDraw
    /\ app' = [app EXCEPT !.pc = "drawn", !.drawn = @ + 1,
                          !.buffer = buffer, !.picture = picture]
    /\ UNCHANGED <<fb, thread>>

DrawRectangle(r) == Draws(draw_rectangle(app.buffer, r, 1), app.picture \cup Inside(r))

EraseRectangle(r) == Draws(draw_rectangle(app.buffer, r, 0), app.picture \ Inside(r))

Invert(r) == Draws(inversion_buffer(app.buffer, r),
                   (app.picture \ Inside(r)) \cup (Inside(r) \ app.picture))

DrawText(str, r, size) ==
    Draws(draw_text_at_center(app.buffer, str, r, 1, size),
          app.picture \cup OnScreen(TextPixels(str, r, size)))

FlushDisplayRegion == /\ app.pc = "drawn"
                      /\ app' = [app EXCEPT !.pc = "flush", !.n = 0]
                      /\ UNCHANGED <<fb, thread>>

\* strcmp of the buffers from a byte on, although they hold pixels: it looks as far as
\* the first byte that differs or is 0 in both.  What it may find past their end makes
\* no difference to a byte that is equal.
StringsDiffer(n) == \E k \in Bytes :
                        /\ k >= n /\ fb[k] # app.buffer[k]
                        /\ \A j \in n .. k - 1 : fb[j] = app.buffer[j] /\ fb[j] # Blank[j]

\* The region is ignored; a byte is copied if the strings that begin with it differ.
FlushByte == /\ app.pc = "flush"
             /\ fb' = IF StringsDiffer(app.n) THEN [fb EXCEPT ![app.n] = app.buffer[app.n]]
                      ELSE fb
             /\ app' = [app EXCEPT !.n = @ + 1,
                                   !.pc = IF app.n + 1 \in Bytes THEN "flush" ELSE "idle"]
             /\ UNCHANGED thread

-------------------------------------------------------------------------------
\* show_ascii: clears the screen and puts one character in its middle, row by row,
\* with the bits of a byte in the other order.

fontdata_8x16 == Face[1]["A"].ink
fontrows == Face[1]["A"].rows    \* 16

lcd_put_pixel(frame, x, y, color) ==
    [frame EXCEPT ![Base(x, y)][x % BITS] = IF color = 0 THEN 0 ELSE 1]

lcd_put_ascii(frame, x, y, row) ==
    LET put[b \in 0 .. BITS] ==
            IF b = 0 THEN frame
            ELSE lcd_put_pixel(put[b - 1], x + (b - 1), y + row,
                               IF <<b - 1, row>> \in fontdata_8x16 THEN 1 ELSE 0)
    IN  put[BITS]

\* Where the driver shows a pixel of show_ascii: mirrored within its byte.
Mirrored(x) == x + (BITS - 1) - (2 * (x % BITS))

Clear == /\ app.pc = "ascii"
         /\ fb' = Blank
         /\ app' = [app EXCEPT !.pc = "put", !.n = 0, !.picture = {}]
         /\ UNCHANGED thread

PutRow == /\ app.pc = "put"
          /\ fb' = lcd_put_ascii(fb, XRES \div 2, YRES \div 2, app.n)
          /\ app' = [app EXCEPT
                  !.n = @ + 1,
                  !.pc = IF app.n + 1 < fontrows THEN "put" ELSE "ended",
                  !.picture = @ \cup {<<Mirrored((XRES \div 2) + q[1]), (YRES \div 2) + app.n>> :
                                         q \in {q \in fontdata_8x16 : q[2] = app.n}}]
          /\ UNCHANGED thread

-------------------------------------------------------------------------------
\* The driver.

get_pixel(x, y) == fb[(y * (XRES \div BITS)) + (x \div BITS)][BITS - 1 - (x % BITS)]

\* convert_fb_to_oled, a column of a page at a time: its pixels from the top into
\* the bits of a byte from the low one.
Convert == /\ thread.pc = "convert"
           /\ LET x == thread.n % XRES
                  page == thread.n \div XRES
                  last == thread.n + 1 \notin Bytes
              IN  thread' = [thread EXCEPT
                      !.data[thread.n] = [bit \in 0 .. BITS - 1 |-> get_pixel(x, (page * BITS) + bit)],
                      !.n = IF last THEN 0 ELSE @ + 1,
                      !.pc = IF last THEN "send" ELSE "convert"]
           /\ UNCHANGED <<app, fb>>

\* The driver's copies of the functions that talk to the chip.
FbSetPos(panel, x, y) == Chip!OLED_DIsp_Set_Pos(panel, x, y)
FbWriteDatas(panel, bytes) == Chip!oled_write_datas(panel, bytes)
FbHardwareInit(panel) == Chip!oled_hardware_init(panel)

\* A page of data_buf; only the thread talks to the panel.
SendPage == /\ thread.pc = "send"
            /\ LET y == thread.n
                   columns == [c \in 1 .. XRES |-> thread.data[y * XRES + (c - 1)]]
               IN  thread' = [thread EXCEPT
                       !.panel = FbWriteDatas(FbSetPos(@, 0, y), columns),
                       !.n = IF y = FbPages - 1 THEN 0 ELSE y + 1,
                       !.pc = IF y = FbPages - 1 THEN "sleep" ELSE "send"]
            /\ UNCHANGED <<app, fb>>

\* After a tick; kthread_should_stop is never true.
WakeUp == /\ thread.pc = "sleep"
          /\ thread' = [thread EXCEPT !.pc = "convert"]
          /\ UNCHANGED <<app, fb>>

oled_thread == Convert \/ SendPage \/ WakeUp

\* OLED_DIsp_Clear here: the upper four pages dark, the lower lit.
ProbeClears(panel) ==
    Chip!Filled(panel, [y \in 0 .. FbPages - 1 |->
                            [b \in 0 .. BITS - 1 |-> IF y < 4 THEN 0 ELSE 1]])

\* The memory of the frame buffer and of the panel holds anything, here all alike.
InitScreen(pc, noise) ==
    /\ app = [pc |-> pc, buffer |-> Blank, n |-> 0, drawn |-> 0, picture |-> {}]
    /\ fb = [i \in Bytes |-> [b \in 0 .. BITS - 1 |-> noise]]
    /\ thread = [pc |-> "convert", n |-> 0, data |-> Blank,
               panel |-> ProbeClears(FbHardwareInit(
                             Chip!PoweredOn([b \in 0 .. BITS - 1 |-> noise])))]

TvSteps == \/ \E opened \in BOOLEAN : Start(opened)
           \/ \E r \in Regions : DrawRectangle(r) \/ EraseRectangle(r) \/ Invert(r)
           \/ \E text \in Texts : DrawText(text.str, text.region, text.size)
           \/ FlushDisplayRegion \/ FlushByte

AsciiSteps == Clear \/ PutRow

ScreenNext == TvSteps \/ AsciiSteps \/ oled_thread

\* A process that is in the middle of its work goes on, and so does the thread.
AppGoesOn == FlushDisplayRegion \/ FlushByte \/ AsciiSteps

-------------------------------------------------------------------------------
Shown(x, y) == thread.panel.ram[y \div BITS][x][y % BITS] = 1

\* When the application has drawn and flushed what it wants and draws no more, the
\* panel comes to show that picture, pixel for pixel, and shows it from then on,
\* although neither the copy into the frame buffer nor the thread that reads it
\* waits for the other, and every pixel changes its byte and bit twice on the way.
PictureReachesPanel ==
    <>[](app.pc \in {"idle", "ended"}) =>
        <>[](thread.panel.on /\ \A x \in 0 .. XRES - 1, y \in 0 .. YRES - 1 :
                                  Shown(x, y) <=> <<x, y>> \in app.picture)

===============================================================================
