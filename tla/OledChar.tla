------------------------------- MODULE OledChar -------------------------------
(***************************************************************************)
(* The OLED as a character device: drivers/OLED/oled_drv.c.  One process   *)
(* calls ioctl; each call is a sequence of SPI transfers, and the driver   *)
(* takes no lock around it.  A call's x and y are on the panel.            *)
(***************************************************************************)
EXTENDS Panel

CONSTANTS Xs,       \* the columns of the calls
          Datas,    \* the data of the calls
          MaxCalls

\* A column is a byte, and a call's data are a page at most.
ASSUME CallAssumption == /\ WIDTH <= 256 /\ Xs \subseteq Columns
                         /\ \A datas \in Datas :
                                datas \in Seq(0 .. 255) /\ Len(datas) \in 1 .. WIDTH

VARIABLE oled   \* panel; todo: the transfers the call still makes; calls; and what
                \* the calls have asked for: picture, and the place x, y of the next byte

OLED_DIsp_Clear(panel) == Filled(panel, [y \in Pages |-> 0])

\* After probe, which finds anything in the panel's memory.
InitOled(noise) ==
    oled = [panel |-> OLED_DIsp_Clear(oled_hardware_init(PoweredOn(noise))),
            todo |-> <<>>, calls |-> 0,
            picture |-> PoweredOn(0).ram, x |-> 0, y |-> PAGES - 1]

Transfers(dc, bytes) == [i \in 1 .. Len(bytes) |-> <<dc, bytes[i]>>]
MovesTo(x, y) == Transfers(FALSE, SetPos(x, y))

\* The picture with the data from x, y to the right; a page goes on at its start.
Written(x, y, datas) ==
    [oled.picture EXCEPT ![y] = [c \in Columns |->
        LET i == 1 + ((c - x) % WIDTH) IN  IF i <= Len(datas) THEN datas[i] ELSE @[c]]]

Calls(x, y, datas, transfers) ==
    /\ oled.todo = <<>> /\ oled.calls < MaxCalls
    /\ oled' = [oled EXCEPT !.todo = transfers, !.calls = @ + 1,
                            !.picture = Written(x, y, datas),
                            !.x = (x + Len(datas)) % WIDTH, !.y = y]

OLED_SET_XY(x, y) == Calls(x, y, <<>>, MovesTo(x, y))

OLED_SET_XY_WRITE_DATA(x, y, data) ==
    Calls(x, y, <<data>>, MovesTo(x, y) \o Transfers(TRUE, <<data>>))

OLED_SET_XY_WRITE_DATAS(x, y, datas) ==
    Calls(x, y, datas, MovesTo(x, y) \o Transfers(TRUE, datas))

\* The data go where the last call ended.
OLED_SET_DATAS(datas) == Calls(oled.x, oled.y, datas, Transfers(TRUE, datas))

Transfer == /\ oled.todo # <<>>
            /\ oled' = [oled EXCEPT !.todo = Tail(@),
                                    !.panel = oled_write_cmd_data(@, Head(oled.todo)[2],
                                                                  Head(oled.todo)[1])]

OledNext == \/ \E x \in Xs, y \in Pages :
                  \/ OLED_SET_XY(x, y)
                  \/ \E datas \in Datas : \/ OLED_SET_XY_WRITE_DATAS(x, y, datas)
                                          \/ OLED_SET_XY_WRITE_DATA(x, y, datas[1])
            \/ \E datas \in Datas : OLED_SET_DATAS(datas)
            \/ Transfer

-------------------------------------------------------------------------------
\* Between two calls of one process the panel is on and shows what the calls have
\* asked for, from the cleared screen on and whatever was in its memory before: a
\* position goes out in halves, and a call without one goes on where the panel,
\* not the driver, remembers that the last one ended.
PanelShowsCalls == oled.todo = <<>> => oled.panel.on /\ oled.panel.ram = oled.picture

===============================================================================
