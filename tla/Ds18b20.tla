-------------------------------- MODULE Ds18b20 --------------------------------
(***************************************************************************)
(* drivers/ds18b20/ds18b20_drv.c and 05_drivers_from_template1/07_ds18b20/ *)
(* gpio_drv.c: the thermometer on one wire.  A read resets the chip and    *)
(* starts a measurement, sleeps, and resets the chip again to read its     *)
(* scratchpad of nine bytes.  Each of the two halves runs with the         *)
(* interrupts off; write and ioctl, which send single bytes, do not.       *)
(*                                                                         *)
(* Pulses and bits are abstracted to the bytes they carry.  The chip       *)
(* understands what the drivers use of it: skip ROM, measure, and read     *)
(* scratchpad; anything else leaves it idle until the next reset.          *)
(***************************************************************************)
EXTENDS Integers, Sequences, SequencesExt

CONSTANTS Users,        \* the processes
          Settings,     \* what is measured and by whom: records of line, raw (sixteenths
                        \* of a degree), noisy, readers and senders
          Noises,       \* sets of bits <<byte, bit>> a noisy transfer gets wrong
          MaxStarts     \* bound of the model: measurements started

VARIABLES
    wire,       \* the line, and the chip: its mode, its measurements and their value
    dev,        \* which driver, and the setting
    user        \* the processes

dsvars == <<wire, dev, user>>

Failed == <<-1000, 0>>

-------------------------------------------------------------------------------
\* Arithmetic.

\* Exclusive or of two bytes, bit by bit.
Xor[a, b \in 0 .. 255] == IF a + b = 0 THEN 0
                          ELSE 2 * Xor[a \div 2, b \div 2] + ((a + b) % 2)

\* calcrc_1byte: one turn of its loop on crc_1byte and abyte; for every byte; and
\* calcrc_bytes.
CrcTurn(s) == << IF (s[1] + s[2]) % 2 = 1 THEN (Xor[s[1], 24] \div 2) + 128 ELSE s[1] \div 2,
                 s[2] \div 2 >>
Crc1 == LET turns == [i \in 1 .. 8 |-> i]
            crc(byte) == FoldLeft(LAMBDA s, i : CrcTurn(s), <<0, byte>>, turns)[1]
        IN  FoldLeft(LAMBDA table, n : Append(table, crc(n - 1)), <<>>, [n \in 1 .. 256 |-> n])

Crc(bytes) == FoldLeft(LAMBDA crc, byte : Crc1[Xor[crc, byte] + 1], 0, bytes)

Decimal(low) == (((low % 16) * 10) \div 16) * 10 + ((((low % 16) * 100) \div 16) % 10)

\* Mutant: a negative number is complemented without adding 1.
CalcNoCarry(low, high) ==
    IF high > 127 THEN << -(16 * (255 - high) + (255 - low) \div 16), Decimal(255 - low) >>
    ELSE <<16 * high + low \div 16, Decimal(low)>>

\* ds18b20_calc_value; the carry of the low byte does not reach the high one.
Calc(low, high) ==
    IF high > 127 THEN LET neg == (256 - low) % 256
                       IN  << -(16 * (255 - high) + neg \div 16), Decimal(neg) >>
    ELSE <<16 * high + low \div 16, Decimal(low)>>

\* ds18b20_calc_val of 07_ds18b20.
CalcTemplate(low, high) ==
    IF high > 127 THEN <<16 * ((256 - high) % 256) + (255 - low) \div 16, Decimal(255 - low)>>
    ELSE <<16 * high + low \div 16, Decimal(low)>>

\* What the chip's two bytes hold; what a result says and what a temperature is,
\* in hundredths, cut off.
Raws == {raw \in Int : -32768 <= raw /\ raw <= 32767}
Says(result) == 100 * result[1] + IF result[1] < 0 THEN -result[2] ELSE result[2]
Hundredths(raw) == IF raw < 0 THEN -((-raw * 100) \div 16) ELSE (raw * 100) \div 16

-------------------------------------------------------------------------------
\* The line and the chip.

\* How often the driver must look until the line is low after a reset, and then
\* until it is high again: with a chip, a late one, none, and a line stuck low.
Polls == [chip |-> <<60, 200>>, late |-> <<100, 200>>, none |-> <<1000, 0>>, low |-> <<0, 1000>>]
HasChip == wire.line \in {"chip", "late"}

ASSUME SettingAssumption ==
    \A s \in Settings : /\ s.line \in DOMAIN Polls /\ s.raw \in Raws
                        /\ s.readers \subseteq Users /\ s.senders \subseteq Users

\* A wait for the line counts past its limit when it gives up, and the result is
\* compared with the limit.
Count(polls, limit) == IF polls > limit THEN limit + 1 ELSE polls
ChipInitFails == \/ Count(Polls[wire.line][1], 100) = 100
                 \/ Count(Polls[wire.line][2], 300) = 300

\* 07_ds18b20 counts from the limit down, past 0 when it gives up.
Left(polls, limit) == IF polls > limit THEN -1 ELSE limit - polls
TemplateResetFails == \/ Left(Polls[wire.line][1], 100) = 0
                      \/ Left(Polls[wire.line][2], 300) = 0

ResetFails == IF dev.kind = "ds18b20" THEN ChipInitFails ELSE TemplateResetFails

Bytes(raw) == LET data == <<raw % 256, (raw \div 256) % 256, 75, 70, 127, 255, 12, 16>>
              IN  Append(data, Crc(data))
Flip(byte, i, flips) ==
    FoldSet(LAMBDA flip, b : IF flip[1] = i THEN Xor[b, 2 ^ flip[2]] ELSE b, byte, flips)

\* The nine bytes of the chip with some bits wrong, and the check of the last one.
Damaged(raw, flips) == LET sent == Bytes(raw) IN [i \in 1 .. 9 |-> Flip(sent[i], i, flips)]
Checked(data) == Crc(SubSeq(data, 1, 8)) = data[9]

\* The nine bytes a read transfers.
Transfer(flips) == IF HasChip THEN Damaged(dev.raw, flips)
                   ELSE [i \in 1 .. 9 |-> IF wire.line = "none" THEN 255 ELSE 0]

\* What the checksum is for: it tells a line without a chip, and of the noise that
\* the model has whatever gets a bit of the temperature wrong.
ASSUME ChecksumAssumption ==
    /\ ~Checked([i \in 1 .. 9 |-> 255])
    /\ \A s \in Settings : s.line = "chip" /\ s.noisy => \A flips \in Noises :
           LET data == Damaged(s.raw, flips)
           IN  Checked(data) => data[1] = s.raw % 256 /\ data[2] = (s.raw \div 256) % 256

\* Measure: a measurement starts; one that is running goes on or is started anew.
Started(w) == IF w.line \in {"chip", "late"}
              THEN {[w EXCEPT !.starts = @ + 1, !.conv = w.starts + 1, !.mode = "idle"]}
                   \cup (IF w.conv = 0 THEN {} ELSE {[w EXCEPT !.starts = @ + 1, !.mode = "idle"]})
              ELSE {[w EXCEPT !.starts = @ + 1]}

Measured == /\ wire.conv # 0
            /\ wire' = [wire EXCEPT !.held = wire.conv, !.conv = 0]
            /\ UNCHANGED <<dev, user>>

\* The chip hears a byte: 0xCC after a reset, then 0x44, or anything else.
Heard(w, byte) ==
    IF byte = 204 /\ w.mode = "rom" THEN {[w EXCEPT !.mode = "function"]}
    ELSE IF byte = 68 /\ w.mode = "function" THEN Started(w)
    ELSE {[w EXCEPT !.mode = "idle"]}

-------------------------------------------------------------------------------
\* The processes.

\* The others asleep will find a measurement that is not theirs.
Disturb(p, mine) == [q \in Users |->
    IF q = p THEN mine ELSE [user[q] EXCEPT !.disturbed = @ \/ user[q].pc = "sleep"]]

Init == \E s \in Settings, kind \in {"ds18b20", "template"} :
            /\ wire = [line |-> s.line, mode |-> "idle", starts |-> 0, conv |-> 0, held |-> 0]
            /\ dev = [kind |-> kind, raw |-> s.raw, noisy |-> s.noisy,
                       readers |-> s.readers, senders |-> s.senders]
            /\ user = [p \in Users |-> [pc |-> "user", cut |-> FALSE, disturbed |-> FALSE, own |-> 0,
                                        until |-> 0, got |-> 0, result |-> Failed, todo |-> <<>>]]

\* The first half of read, with the interrupts off.
Start(p) ==
    /\ user[p].pc = "user" /\ wire.starts < MaxStarts
    /\ IF ResetFails THEN UNCHANGED wire /\ user' = [user EXCEPT ![p].result = Failed]
       ELSE \E w \in Started([wire EXCEPT !.mode = "function"]) :
                /\ wire' = w
                /\ user' = Disturb(p, [user[p] EXCEPT !.pc = "sleep", !.cut = FALSE,
                                           !.disturbed = wire.conv # 0, !.own = w.starts,
                                           !.until = w.conv, !.result = Failed])
    /\ UNCHANGED dev

\* The second half: another reset, and the scratchpad is read, checked and converted.
Fetch(p, cut) ==
    \E flips \in IF dev.noisy THEN Noises ELSE {{}} :
        LET data == Transfer(flips)
            good == ~ResetFails /\ Checked(data)
            value == IF dev.kind = "ds18b20" THEN Calc(data[1], data[2])
                     ELSE CalcTemplate(data[1], data[2])
        IN  /\ user' = [user EXCEPT ![p] = [@ EXCEPT !.pc = "user", !.cut = cut, !.got = wire.held,
                                                     !.result = IF good THEN value ELSE Failed]]
            /\ wire' = [wire EXCEPT !.mode = "idle"]
            /\ UNCHANGED dev

\* Mutant: the sleep is shorter than a measurement.
WakeEarly(p) == user[p].pc = "sleep" /\ Fetch(p, FALSE)

\* A whole second has passed, longer than a measurement takes.
Wake(p) == /\ user[p].pc = "sleep"
           /\ wire.conv # 0 => wire.conv # user[p].until
           /\ Fetch(p, FALSE)

\* A signal ends the sleep early, and read goes on.
Signal(p) == user[p].pc = "sleep" /\ Fetch(p, TRUE)

ReadSteps(p) == Start(p) \/ Wake(p) \/ Signal(p)
TemplateReadSteps(p) == ReadSteps(p)

\* ioctl(CMD_INIT); the other commands, each of which falls through to those that
\* follow it; and write.  The bytes go out with the interrupts on.
Commands == <<240, 51, 85, 204, 236, 190, 72, 184, 180>>
Writes == {<<204, 68, 0, 0, 0, 0, 0, 0>>}
IoctlInit(p) == /\ user[p].pc = "user"
                /\ wire' = [wire EXCEPT !.mode = IF HasChip THEN "rom" ELSE "idle"]
                /\ UNCHANGED <<dev, user>>

Ioctl(p) == /\ user[p].pc = "user"
            /\ \E c \in DOMAIN Commands :
                   user' = [user EXCEPT ![p].pc = "send", ![p].todo = SubSeq(Commands, c, Len(Commands))]
            /\ UNCHANGED <<wire, dev>>

Write(p) == /\ user[p].pc = "user"
            /\ \E bytes \in Writes :
                   user' = [user EXCEPT ![p].pc = "send", ![p].todo = bytes]
            /\ UNCHANGED <<wire, dev>>

WriteByte(p) ==
    /\ user[p].pc = "send" /\ wire.starts < MaxStarts
    /\ LET todo == user[p].todo
           sent == [user[p] EXCEPT !.todo = Tail(todo), !.pc = IF Len(todo) = 1 THEN "user" ELSE "send"]
       IN  \E w \in Heard(wire, Head(todo)) :
               /\ wire' = w
               /\ user' = IF w.starts = wire.starts THEN [user EXCEPT ![p] = sent]
                          ELSE Disturb(p, sent)
    /\ UNCHANGED dev

SendSteps(p) == IoctlInit(p) \/ Ioctl(p) \/ Write(p) \/ WriteByte(p)

\* The template's driver has read only.
OwnSteps(p) == /\ dev.kind = "ds18b20"
               /\ \/ p \in dev.readers /\ ReadSteps(p)
                  \/ p \in dev.senders /\ SendSteps(p)

Next == \/ Measured
        \/ \E p \in Users : OwnSteps(p)
        \/ \E p \in dev.readers : dev.kind = "template" /\ TemplateReadSteps(p)

-------------------------------------------------------------------------------
\* A read that succeeds returns the measurement it started itself, whatever other
\* processes send to the chip meanwhile, unless they start a measurement too, or
\* a signal cuts its sleep short.
OwnConversion ==
    \A p \in Users : LET u == user[p] IN
        u.pc = "user" /\ u.result # Failed /\ HasChip /\ ~u.cut /\ ~u.disturbed => u.got = u.own

\* A success means the temperature of the chip, whatever bits the transfer got
\* wrong; no chip is an error.  The exceptions are what the code gets wrong: a line
\* that is stuck low reads as 0.00; the first driver loses 16 degrees at negative
\* multiples of 16 degrees and the sign between -1 and 0; the template's driver
\* is right only above zero.
TrueTemperature ==
    \A p \in Users : LET u == user[p] IN
        u.pc = "user" /\ u.result # Failed =>
            \/ wire.line = "low" /\ u.result = <<0, 0>>
            \/ HasChip /\ \/ Says(u.result) = Hundredths(dev.raw)
                          \/ dev.raw < 0 /\ dev.kind = "template"
                          \/ dev.raw < 0 /\ (dev.raw > -16 \/ dev.raw % 256 = 0)

===============================================================================
