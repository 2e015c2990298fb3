--------------------------------- MODULE Panel ---------------------------------
(***************************************************************************)
(* The OLED module as the two drivers see it: the SSD1306 chip behind SPI  *)
(* and the dc pin, in the page addressing mode it starts in, and the       *)
(* functions of drivers/OLED/oled_drv.c and drivers/oled_framebuffer/      *)
(* oled_drv.c that talk to it.  A panel is a record; the functions give    *)
(* the panel after a transfer.                                             *)
(***************************************************************************)
EXTENDS Integers, Sequences

CONSTANTS WIDTH,  \* columns, 128
          PAGES   \* rows of bytes, 8

ASSUME PanelAssumption == WIDTH \in Nat \ {0} /\ PAGES \in 1 .. 8

Columns == 0 .. WIDTH - 1
Pages == 0 .. PAGES - 1

\* page and col: where the next byte of data goes; args: the bytes the last command
\* still expects.
PoweredOn(noise) == [ram |-> [p \in Pages |-> [c \in Columns |-> noise]],
                     page |-> 0, col |-> 0, args |-> 0, on |-> FALSE]

\* The commands that take an argument, among those the drivers send.
TwoByte == {129, 168, 211, 213, 217, 218, 219, 141}

Command(panel, byte) ==
    CASE panel.args > 0 -> [panel EXCEPT !.args = 0]
      [] panel.args = 0 /\ byte \in TwoByte -> [panel EXCEPT !.args = 1]
      [] panel.args = 0 /\ byte \in 0 .. 15 -> [panel EXCEPT !.col = (16 * (@ \div 16)) + byte]
      [] panel.args = 0 /\ byte \in 16 .. 31 -> [panel EXCEPT !.col = (@ % 16) + (16 * (byte - 16))]
      [] panel.args = 0 /\ byte \in 176 .. 183 -> [panel EXCEPT !.page = byte - 176]
      [] panel.args = 0 /\ byte \in {174, 175} -> [panel EXCEPT !.on = (byte = 175)]
      [] OTHER -> panel

\* A byte of data, and the next column; after the last one the first of the page.
Data(panel, byte) == [panel EXCEPT !.ram[panel.page][panel.col] = byte,
                                   !.col = (@ + 1) % WIDTH]

oled_write_cmd_data(panel, byte, isData) ==
    IF isData THEN Data(panel, byte) ELSE Command(panel, byte)

Commands(panel, bytes) ==
    LET after[i \in 0 .. Len(bytes)] ==
            IF i = 0 THEN panel ELSE oled_write_cmd_data(after[i - 1], bytes[i], FALSE)
    IN  after[Len(bytes)]

\* As many bytes of data as a page has columns, or fewer.
oled_write_datas(panel, bytes) ==
    [panel EXCEPT !.ram[panel.page] = [c \in Columns |->
                      LET i == 1 + ((c - panel.col) % WIDTH)
                      IN  IF i <= Len(bytes) THEN bytes[i] ELSE @[c]],
                  !.col = (@ + Len(bytes)) % WIDTH]

oled_hardware_init(panel) ==
    Commands(panel, <<174, 0, 16, 64, 176, 129, 102, 161, 166, 168, 63, 200, 211, 0,
                      213, 128, 217, 31, 218, 18, 219, 48, 141, 20, 175>>)

\* Mutant: the high half of the column is left as it was.
SetPosLowOnly(x, y) == <<176 + y, x % 16>>

\* The page, and the two halves of the column.
SetPos(x, y) == <<176 + y, x % 16, 16 + ((x % 256) \div 16)>>

OLED_DIsp_Set_Pos(panel, x, y) == Commands(panel, SetPos(x, y))

\* The panel filled with of[y] in page y.
Filled(panel, of) ==
    LET after[y \in 0 .. PAGES] ==
            IF y = 0 THEN panel
            ELSE oled_write_datas(OLED_DIsp_Set_Pos(after[y - 1], 0, y - 1),
                                  [c \in 1 .. WIDTH |-> of[y - 1]])
    IN  after[PAGES]

===============================================================================
