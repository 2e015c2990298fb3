-------------------------- MODULE WireDrivers_proofs --------------------------
(***************************************************************************)
(* Proofs about the drivers that speak bit by bit, for any number of bits, *)
(* slots, keys, bursts, processes and settings: a frame of the infrared    *)
(* remote that arrives whole is understood, damage does not make up a      *)
(* code, and a thermometer's read returns its own measurement and the      *)
(* truth.  That the checksum detects the model's noise is an assumption,   *)
(* which TLC evaluates: the fold that computes it is beyond the provers.   *)
(***************************************************************************)
EXTENDS MCWireDrivers, SequenceTheorems, TLAPS

-------------------------------------------------------------------------------
\* The invariant of the thermometers.

UserFields == {"pc", "cut", "disturbed", "own", "until", "got", "result", "todo"}
WireFields == {"line", "mode", "starts", "conv", "held"}

ConversionTypes ==
    /\ DOMAIN wire = WireFields /\ wire.starts \in Nat
    /\ DOMAIN user = Users /\ \A p \in Users : DOMAIN user[p] = UserFields
    /\ dev.readers \subseteq Users /\ dev.senders \subseteq Users

\* A sleeper nobody has disturbed waits for the measurement that runs, or that has
\* been the last to end: its own.
Awaits(u) == u.own > 0 /\ u.until = u.own /\ (wire.conv = u.own \/ (wire.conv = 0 /\ wire.held = u.own))
SleepersAwaitTheirOwn ==
    \A p \in Users : user[p].pc = "sleep" /\ HasChip /\ ~user[p].disturbed => Awaits(user[p])

\* What a process got by its last read stays as long as it does not read again.
Got(u) == u.result # Failed /\ ~u.cut /\ ~u.disturbed => u.got = u.own
AwakeGotTheirOwn ==
    \A p \in Users : user[p].pc # "sleep" /\ HasChip => Got(user[p])

ConversionInv == ConversionTypes /\ SleepersAwaitTheirOwn /\ AwakeGotTheirOwn

-------------------------------------------------------------------------------
\* The invariant of the infrared receiver.

ByteSet == [0 .. BITS - 1 -> {0, 1}]
CodeSet == ByteSet \X ByteSet
WireSet == [frame : BOOLEAN, code : CodeSet, pos : Nat, since : Int, clean : BOOLEAN,
            sent : SUBSET CodeSet, before : Nat, bursts : Nat, lost : Nat, noise : Nat]
DriverSet == [gaps : Seq(Int), data : CodeSet, r : 0 .. SLOTS - 1, w : 0 .. SLOTS - 1, heard : Nat,
              rings : BOOLEAN, slot : [0 .. SLOTS - 1 -> CodeSet]]
ReaderSet == [pc : {"user", "wait"}, cut : BOOLEAN, code : CodeSet]

ReceiverTypes == /\ wire \in WireSet /\ dev \in DriverSet /\ user \in ReaderSet
                 /\ wire.pos <= Hs0038!Edges
                 /\ Len(dev.gaps) < Hs0038!Frame

\* The time before edge i of the burst on its way.
Gap(i) == IF wire.frame THEN Hs0038!FrameGap(wire.code, i) ELSE Hs0038!RepeatGap[i]

\* The clock: the next edge is never overdue, and no noise is left at the end.
Clock == wire.since >= IF wire.pos < Hs0038!Edges THEN -Hs0038!NextGap ELSE 0

Undamaged == wire.lost = 0 /\ wire.noise = 0

\* As long as nothing has happened to a burst, what is stored is what has come.
OnTime == 0 < wire.pos /\ wire.pos < Hs0038!Edges =>
              /\ wire.since = 0 /\ Len(dev.gaps) = wire.pos
              /\ \A i \in 2 .. wire.pos : dev.gaps[i] = Gap(i)
Exact == wire.clean \/ Undamaged => OnTime

\* As long as nothing has happened at all, nothing is stored between the bursts.
Quiet == Undamaged /\ wire.pos \in {0, Hs0038!Edges} => wire.since = 0 /\ dev.gaps = <<>>

CleanFrame == wire.clean =>
    /\ wire.frame /\ wire.since >= 0
    /\ wire.pos < Hs0038!Edges => dev.heard = wire.before
    /\ wire.pos = Hs0038!Edges => dev.heard = wire.before + 1 /\ dev.data = wire.code

\* No noise at all, or a single edge of it and nothing lost.
Mild == wire.noise = 0 \/ (wire.noise = 1 /\ wire.lost = 0)

\* The long pauses that are stored where a bit is read are long ones of the frame.
Honest(gaps) == \A i \in 5 .. Len(gaps) :
    i % 2 = 1 /\ gaps[i] > 10 => Hs0038!FrameGap(wire.code, i) > 10

\* The next edge comes so late that it starts anew.
Clears == wire.since + Hs0038!NextGap > 300

\* How the edges stored keep up with those of the burst, after mild damage: what
\* was left over is about to go, or an edge is missing, or none, or one is extra.
Behind == Len(dev.gaps) < wire.pos
Level == Len(dev.gaps) = wire.pos /\ wire.pos > 0 /\ wire.since = 0 /\ Honest(dev.gaps)
Ahead == Len(dev.gaps) = wire.pos + 1 /\ wire.since <= 0 /\ wire.noise = 1 /\ Honest(dev.gaps)
Keeping == Mild /\ wire.pos < Hs0038!Edges =>
              \/ Clears
              \/ wire.frame /\ (Behind \/ Level \/ Ahead)
              \/ ~wire.frame /\ Len(dev.gaps) <= wire.pos + 1

Slots == {dev.slot[i] : i \in 0 .. SLOTS - 1}
OnlySent == /\ wire.frame => wire.code \in wire.sent
            /\ Mild => dev.data \in wire.sent /\ user.code \in wire.sent /\ Slots \subseteq wire.sent

ReceiverInv == /\ ReceiverTypes /\ Clock /\ Exact /\ Quiet /\ CleanFrame /\ Keeping /\ OnlySent

WireInv == /\ drv \in {"hs0038", "parse_only", "ds18b20"}
           /\ IsHs0038 => ReceiverInv
           /\ drv = "ds18b20" => ConversionInv

-------------------------------------------------------------------------------
\* The thermometers.

\* The second half of a read: only the process itself and the chip's mode change,
\* and what it got is what the chip holds.
LEMMA FetchFields ==
    ASSUME ConversionTypes, NEW p \in Users, NEW cut \in BOOLEAN, Fetch(p, cut)
    PROVE  /\ ConversionTypes'
           /\ wire'.conv = wire.conv /\ wire'.held = wire.held /\ (HasChip' <=> HasChip)
           /\ user'[p].pc = "user" /\ user'[p].cut = cut /\ user'[p].got = wire.held
           /\ user'[p].own = user[p].own /\ user'[p].disturbed = user[p].disturbed
           /\ \A q \in Users \ {p} : user'[q] = user[q]
  <1>1. PICK result :
          /\ user' = [user EXCEPT ![p] = [@ EXCEPT !.pc = "user", !.cut = cut, !.got = wire.held,
                                                   !.result = result]]
          /\ wire' = [wire EXCEPT !.mode = "idle"] /\ UNCHANGED dev
    BY Zenon DEF Fetch
  <1>2. user'[p] = [user[p] EXCEPT !.pc = "user", !.cut = cut, !.got = wire.held, !.result = result]
    BY <1>1 DEF ConversionTypes
  <1>3. DOMAIN user' = Users /\ \A q \in Users \ {p} : user'[q] = user[q]
    BY <1>1 DEF ConversionTypes
  <1>4. DOMAIN user[p] = UserFields
    BY DEF ConversionTypes
  <1>5. /\ DOMAIN user'[p] = UserFields
        /\ user'[p].pc = "user" /\ user'[p].cut = cut /\ user'[p].got = wire.held
        /\ user'[p].own = user[p].own /\ user'[p].disturbed = user[p].disturbed
    BY <1>2, <1>4 DEF UserFields
  <1>6. /\ DOMAIN wire' = WireFields /\ wire'.starts = wire.starts /\ wire'.line = wire.line
        /\ wire'.conv = wire.conv /\ wire'.held = wire.held
    BY <1>1 DEF ConversionTypes, WireFields
  <1> QED
    BY <1>1, <1>3, <1>5, <1>6 DEF ConversionTypes, HasChip

\* A step that changes neither the measurements nor what a process knows of its
\* own, and wakes nobody, keeps the invariant of the measurements.
LEMMA SameMeasurements ==
    ASSUME ConversionInv, ConversionTypes',
           wire'.conv = wire.conv, wire'.held = wire.held, HasChip' <=> HasChip,
           \A p \in Users : \/ user'[p] = user[p]
                            \/ /\ user'[p].pc # "sleep" /\ user[p].pc # "sleep"
                               /\ user'[p].own = user[p].own /\ user'[p].got = user[p].got
                               /\ user'[p].cut = user[p].cut /\ user'[p].result = user[p].result
                               /\ user'[p].disturbed = user[p].disturbed
    PROVE  ConversionInv'
  BY Zenon DEF ConversionInv, SleepersAwaitTheirOwn, AwakeGotTheirOwn, Awaits, Got

\* A wake-up keeps the invariant: a process that has slept its second, and was not
\* disturbed, finds its own measurement in the chip.
LEMMA WakeKeeps ==
    ASSUME ConversionInv, NEW p \in Users, Wake(p) \/ Signal(p)
    PROVE  ConversionInv'
  <1>1. PICK cut \in BOOLEAN : Fetch(p, cut) /\ (~cut /\ wire.conv # 0 => wire.conv # user[p].until)
    BY Zenon DEF Wake, Signal
  <1>2. user[p].pc = "sleep"
    BY DEF Wake, Signal
  <1>3. /\ ConversionTypes'
        /\ wire'.conv = wire.conv /\ wire'.held = wire.held /\ (HasChip' <=> HasChip)
        /\ user'[p].pc = "user" /\ user'[p].cut = cut /\ user'[p].got = wire.held
        /\ user'[p].own = user[p].own /\ user'[p].disturbed = user[p].disturbed
        /\ \A q \in Users \ {p} : user'[q] = user[q]
    BY <1>1, FetchFields DEF ConversionInv
  <1>4. HasChip /\ ~cut /\ ~user[p].disturbed => wire.held = user[p].own
    BY <1>1, <1>2 DEF ConversionInv, SleepersAwaitTheirOwn, Awaits
  <1>5. SleepersAwaitTheirOwn'
    BY <1>3 DEF ConversionInv, SleepersAwaitTheirOwn, Awaits
  <1>6. AwakeGotTheirOwn'
    BY <1>3, <1>4 DEF ConversionInv, AwakeGotTheirOwn, Got
  <1> QED
    BY <1>3, <1>5, <1>6 DEF ConversionInv

\* A measurement that starts is noted, and runs if no other does.
LEMMA StartedFields ==
    ASSUME ConversionTypes, NEW w, NEW v, w \in Started(v),
           v = wire \/ v = [wire EXCEPT !.mode = "function"]
    PROVE  /\ DOMAIN w = WireFields /\ w.line = wire.line /\ w.starts = wire.starts + 1
           /\ HasChip /\ wire.conv = 0 => w.conv = w.starts
  <1>1. /\ DOMAIN v = WireFields /\ v.line = wire.line /\ v.starts = wire.starts
        /\ v.conv = wire.conv
    BY DEF ConversionTypes, WireFields
  <1>2. CASE v.line \in {"chip", "late"}
    <2>1. \/ w = [v EXCEPT !.starts = @ + 1, !.conv = v.starts + 1, !.mode = "idle"]
          \/ v.conv # 0 /\ w = [v EXCEPT !.starts = @ + 1, !.mode = "idle"]
      BY <1>2 DEF Started
    <2> QED
      BY <1>1, <2>1 DEF ConversionTypes, WireFields
  <1>3. CASE v.line \notin {"chip", "late"}
    <2>1. w = [v EXCEPT !.starts = @ + 1]
      BY <1>3 DEF Started
    <2> QED
      BY <1>1, <1>3, <2>1 DEF ConversionTypes, WireFields, HasChip
  <1> QED
    BY <1>2, <1>3

\* A measurement somebody else starts disturbs the sleepers.
LEMMA DisturbFields ==
    ASSUME ConversionTypes, NEW p \in Users, NEW mine, user' = Disturb(p, mine), DOMAIN mine = UserFields
    PROVE  /\ DOMAIN user' = Users /\ \A q \in Users : DOMAIN user'[q] = UserFields
           /\ user'[p] = mine
           /\ \A q \in Users \ {p} :
                  /\ user'[q].pc = user[q].pc /\ user'[q].own = user[q].own
                  /\ user'[q].got = user[q].got /\ user'[q].cut = user[q].cut
                  /\ user'[q].result = user[q].result
                  /\ ~user'[q].disturbed => ~user[q].disturbed /\ user[q].pc # "sleep"
  <1>1. DOMAIN user' = Users /\ user'[p] = mine
    BY DEF Disturb
  <1>2. ASSUME NEW q \in Users \ {p}
        PROVE  /\ user'[q] = [user[q] EXCEPT !.disturbed = @ \/ user[q].pc = "sleep"]
               /\ DOMAIN user[q] = UserFields
    BY DEF Disturb, ConversionTypes
  <1>3. ASSUME NEW q \in Users \ {p}
        PROVE  /\ DOMAIN user'[q] = UserFields
               /\ user'[q].pc = user[q].pc /\ user'[q].own = user[q].own
               /\ user'[q].got = user[q].got /\ user'[q].cut = user[q].cut
               /\ user'[q].result = user[q].result
               /\ user'[q].disturbed = (user[q].disturbed \/ user[q].pc = "sleep")
    BY <1>2 DEF UserFields
  <1> QED
    BY <1>1, <1>3

\* The first half of a read keeps the invariant: the process waits for the
\* measurement it starts, or is disturbed from the outset.
LEMMA StartKeeps ==
    ASSUME ConversionInv, NEW p \in Users, Start(p)
    PROVE  ConversionInv'
  <1> USE DEF ConversionInv
  <1>1. DOMAIN user[p] = UserFields
    BY DEF ConversionTypes
  <1>2. CASE ResetFails
    <2>1. UNCHANGED <<wire, dev>> /\ user[p].pc = "user" /\ user' = [user EXCEPT ![p].result = Failed]
      BY <1>2 DEF Start
    <2>2. user'[p] = [user[p] EXCEPT !.result = Failed] /\ DOMAIN user' = Users
      BY <2>1 DEF ConversionTypes
    <2>3. \A q \in Users \ {p} : user'[q] = user[q]
      BY <2>1 DEF ConversionTypes
    <2>4. user'[p].pc = "user" /\ user'[p].result = Failed /\ DOMAIN user'[p] = UserFields
      BY <1>1, <2>1, <2>2 DEF UserFields
    <2>5. ConversionTypes'
      BY <2>1, <2>2, <2>3, <2>4 DEF ConversionTypes
    <2>6. SleepersAwaitTheirOwn'
      BY <2>1, <2>3, <2>4 DEF SleepersAwaitTheirOwn, HasChip, Awaits
    <2>7. AwakeGotTheirOwn'
      BY <2>1, <2>3, <2>4 DEF AwakeGotTheirOwn, HasChip, Got
    <2> QED
      BY <2>5, <2>6, <2>7
  <1>3. CASE ~ResetFails
    <2>1. PICK w \in Started([wire EXCEPT !.mode = "function"]) :
            /\ wire' = w /\ UNCHANGED dev
            /\ user' = Disturb(p, [user[p] EXCEPT !.pc = "sleep", !.cut = FALSE,
                                       !.disturbed = wire.conv # 0, !.own = w.starts,
                                       !.until = w.conv, !.result = Failed])
      BY <1>3 DEF Start
    <2> DEFINE mine == [user[p] EXCEPT !.pc = "sleep", !.cut = FALSE, !.disturbed = wire.conv # 0,
                                       !.own = w.starts, !.until = w.conv, !.result = Failed]
    <2>2. /\ DOMAIN wire' = WireFields /\ wire'.line = wire.line /\ wire'.starts = wire.starts + 1
          /\ HasChip /\ wire.conv = 0 => wire'.conv = wire'.starts
      BY <2>1, StartedFields
    <2>3. /\ DOMAIN mine = UserFields /\ mine.pc = "sleep" /\ mine.own = w.starts /\ mine.until = w.conv
          /\ mine.disturbed = (wire.conv # 0)
      BY <1>1 DEF UserFields
    <2>4. user' = Disturb(p, mine)
      BY <2>1
    <2> HIDE DEF mine
    <2>5. /\ DOMAIN user' = Users /\ \A q \in Users : DOMAIN user'[q] = UserFields
          /\ user'[p] = mine
          /\ \A q \in Users \ {p} :
                 /\ user'[q].pc = user[q].pc /\ user'[q].own = user[q].own
                 /\ user'[q].got = user[q].got /\ user'[q].cut = user[q].cut
                 /\ user'[q].result = user[q].result
                 /\ ~user'[q].disturbed => ~user[q].disturbed /\ user[q].pc # "sleep"
      BY <2>3, <2>4, DisturbFields
    <2>6. ConversionTypes'
      BY <2>1, <2>2, <2>5 DEF ConversionTypes
    <2>7. HasChip' <=> HasChip
      BY <2>2 DEF HasChip
    <2>8. ASSUME HasChip, ~mine.disturbed
          PROVE  mine.own > 0 /\ mine.until = mine.own /\ wire'.conv = mine.own
      <3>1. wire.conv = 0
        BY <2>3, <2>8
      <3>2. wire'.conv = wire'.starts /\ wire'.starts > 0
        BY <2>2, <2>8, <3>1 DEF ConversionTypes
      <3>3. mine.own = wire'.starts /\ mine.until = wire'.conv
        BY <2>1, <2>3
      <3> QED
        BY <3>2, <3>3
    <2>9. SleepersAwaitTheirOwn'
      BY <2>5, <2>7, <2>8 DEF SleepersAwaitTheirOwn, Awaits
    <2>10. AwakeGotTheirOwn'
      BY <2>3, <2>5, <2>7 DEF AwakeGotTheirOwn, Got
    <2> QED
      BY <2>6, <2>9, <2>10
  <1> QED
    BY <1>2, <1>3

\* A byte somebody sends keeps the invariant: if it starts a measurement, the
\* sleepers are disturbed.
LEMMA SendKeeps ==
    ASSUME ConversionInv, NEW p \in Users, SendSteps(p)
    PROVE  ConversionInv'
  <1> USE DEF ConversionInv
  <1>1. DOMAIN user[p] = UserFields
    BY DEF ConversionTypes
  <1>2. CASE IoctlInit(p)
    <2>1. /\ DOMAIN wire' = WireFields /\ wire'.starts = wire.starts /\ wire'.line = wire.line
          /\ wire'.conv = wire.conv /\ wire'.held = wire.held /\ UNCHANGED <<dev, user>>
      BY <1>2 DEF IoctlInit, ConversionTypes, WireFields
    <2>2. ConversionTypes' /\ (HasChip' <=> HasChip)
      BY <2>1 DEF ConversionTypes, HasChip
    <2> QED
      BY <2>1, <2>2, SameMeasurements
  <1>3. CASE Ioctl(p) \/ Write(p)
    <2>1. PICK bytes : /\ user[p].pc = "user" /\ UNCHANGED <<wire, dev>>
                       /\ user' = [user EXCEPT ![p].pc = "send", ![p].todo = bytes]
      BY <1>3 DEF Ioctl, Write
    <2>2. user'[p] = [user[p] EXCEPT !.pc = "send", !.todo = bytes] /\ DOMAIN user' = Users
      BY <2>1 DEF ConversionTypes
    <2>3. \A q \in Users \ {p} : user'[q] = user[q]
      BY <2>1 DEF ConversionTypes
    <2>4. /\ user'[p].pc = "send" /\ DOMAIN user'[p] = UserFields
          /\ user'[p].own = user[p].own /\ user'[p].got = user[p].got
          /\ user'[p].cut = user[p].cut /\ user'[p].result = user[p].result
          /\ user'[p].disturbed = user[p].disturbed
      BY <1>1, <2>2 DEF UserFields
    <2>5. ConversionTypes' /\ (HasChip' <=> HasChip)
      BY <2>1, <2>2, <2>3, <2>4 DEF ConversionTypes, HasChip
    <2> QED
      BY <2>1, <2>3, <2>4, <2>5, SameMeasurements
  <1>4. CASE WriteByte(p)
    <2> DEFINE pc == IF Len(user[p].todo) = 1 THEN "user" ELSE "send"
               sent == [user[p] EXCEPT !.todo = Tail(user[p].todo), !.pc = pc]
    <2>1. PICK w \in Heard(wire, Head(user[p].todo)) :
            /\ user[p].pc = "send" /\ wire' = w /\ UNCHANGED dev
            /\ user' = IF w.starts = wire.starts THEN [user EXCEPT ![p] = sent]
                       ELSE Disturb(p, sent)
      BY <1>4 DEF WriteByte
    <2>2. /\ DOMAIN sent = UserFields /\ sent.pc = pc
          /\ sent.own = user[p].own /\ sent.got = user[p].got
          /\ sent.cut = user[p].cut /\ sent.result = user[p].result
          /\ sent.disturbed = user[p].disturbed
      BY <1>1 DEF UserFields
    <2>3. pc # "sleep"
      OBVIOUS
    <2> HIDE DEF pc, sent
    <2>4. \/ w = [wire EXCEPT !.mode = "function"] \/ w = [wire EXCEPT !.mode = "idle"]
          \/ w \in Started(wire)
      BY <2>1 DEF Heard
    <2>5. CASE w = [wire EXCEPT !.mode = "function"] \/ w = [wire EXCEPT !.mode = "idle"]
      <3>1. /\ DOMAIN wire' = WireFields /\ wire'.starts = wire.starts /\ wire'.line = wire.line
            /\ wire'.conv = wire.conv /\ wire'.held = wire.held
        BY <2>1, <2>5 DEF ConversionTypes, WireFields
      <3>2. user' = [user EXCEPT ![p] = sent]
        BY <2>1, <3>1
      <3>3. DOMAIN user' = Users /\ user'[p] = sent /\ \A q \in Users \ {p} : user'[q] = user[q]
        BY <3>2 DEF ConversionTypes
      <3>4. ConversionTypes' /\ (HasChip' <=> HasChip)
        BY <2>1, <2>2, <3>1, <3>3 DEF ConversionTypes, HasChip
      <3> QED
        BY <2>1, <2>2, <2>3, <3>1, <3>3, <3>4, SameMeasurements
    <2>6. CASE w \in Started(wire)
      <3>1. DOMAIN wire' = WireFields /\ wire'.line = wire.line /\ wire'.starts = wire.starts + 1
        BY <2>1, <2>6, StartedFields
      <3>2. user' = Disturb(p, sent)
        BY <2>1, <3>1 DEF ConversionTypes
      <3>3. /\ DOMAIN user' = Users /\ \A q \in Users : DOMAIN user'[q] = UserFields
            /\ user'[p] = sent
            /\ \A q \in Users \ {p} :
                   /\ user'[q].pc = user[q].pc /\ user'[q].own = user[q].own
                   /\ user'[q].got = user[q].got /\ user'[q].cut = user[q].cut
                   /\ user'[q].result = user[q].result
                   /\ ~user'[q].disturbed => ~user[q].disturbed /\ user[q].pc # "sleep"
        BY <2>2, <3>2, DisturbFields
      <3>4. ConversionTypes' /\ (HasChip' <=> HasChip)
        BY <2>1, <3>1, <3>3 DEF ConversionTypes, HasChip
      <3>5. SleepersAwaitTheirOwn'
        BY <2>2, <2>3, <3>3 DEF SleepersAwaitTheirOwn
      <3>6. AwakeGotTheirOwn'
        BY <2>1, <2>2, <3>3, <3>4 DEF AwakeGotTheirOwn, Got
      <3> QED
        BY <3>4, <3>5, <3>6
    <2> QED
      BY <2>4, <2>5, <2>6
  <1> QED
    BY <1>2, <1>3, <1>4 DEF SendSteps

\* The end of a measurement keeps the invariant: whoever awaits it finds it held.
LEMMA MeasuredKeeps ==
    ASSUME ConversionInv, Measured
    PROVE  ConversionInv'
  <1> USE DEF ConversionInv
  <1>1. /\ DOMAIN wire' = WireFields /\ wire'.starts = wire.starts /\ wire'.line = wire.line
        /\ wire.conv # 0 /\ wire'.conv = 0 /\ wire'.held = wire.conv
    BY DEF Measured, ConversionTypes, WireFields
  <1>2. UNCHANGED <<dev, user>>
    BY DEF Measured
  <1>3. ConversionTypes' /\ (HasChip' <=> HasChip)
    BY <1>1, <1>2 DEF ConversionTypes, HasChip
  <1>4. SleepersAwaitTheirOwn'
    BY <1>1, <1>2, <1>3 DEF SleepersAwaitTheirOwn, Awaits
  <1>5. AwakeGotTheirOwn'
    BY <1>2, <1>3 DEF AwakeGotTheirOwn, Got
  <1> QED
    BY <1>3, <1>4, <1>5

\* The invariant of the thermometers holds at first.
LEMMA ConversionInit ==
    ASSUME Init
    PROVE  ConversionInv
  <1>1. PICK s \in Settings, kind \in {"ds18b20", "template"} :
            /\ wire = [line |-> s.line, mode |-> "idle", starts |-> 0, conv |-> 0, held |-> 0]
            /\ dev = [kind |-> kind, raw |-> s.raw, noisy |-> s.noisy,
                       readers |-> s.readers, senders |-> s.senders]
            /\ user = [p \in Users |-> [pc |-> "user", cut |-> FALSE, disturbed |-> FALSE, own |-> 0,
                                        until |-> 0, got |-> 0, result |-> Failed, todo |-> <<>>]]
    BY Zenon DEF Init
  <1>2. s.readers \subseteq Users /\ s.senders \subseteq Users
    BY SettingAssumption
  <1>3. DOMAIN wire = WireFields /\ wire.starts \in Nat
    BY <1>1 DEF WireFields
  <1>4. dev.readers \subseteq Users /\ dev.senders \subseteq Users
    BY <1>1, <1>2
  <1>5. \A p \in Users : user[p].pc = "user" /\ user[p].result = Failed /\ DOMAIN user[p] = UserFields
    BY <1>1 DEF UserFields
  <1>6. DOMAIN user = Users
    BY <1>1
  <1> QED
    BY <1>3, <1>4, <1>5, <1>6
    DEF ConversionInv, ConversionTypes, SleepersAwaitTheirOwn, AwakeGotTheirOwn, Got

\* Every step of the thermometers keeps their invariant.
LEMMA ConversionStep ==
    ASSUME ConversionInv, Next
    PROVE  ConversionInv'
  <1>1. dev.readers \subseteq Users /\ dev.senders \subseteq Users
    BY DEF ConversionInv, ConversionTypes
  <1>2. CASE Measured
    BY <1>2, MeasuredKeeps
  <1>3. CASE \E p \in Users : ReadSteps(p)
    BY <1>3, StartKeeps, WakeKeeps DEF ReadSteps
  <1>4. CASE \E p \in Users : SendSteps(p)
    BY <1>4, SendKeeps
  <1> QED
    BY <1>1, <1>2, <1>3, <1>4, Zenon DEF Next, OwnSteps, TemplateReadSteps

-------------------------------------------------------------------------------
\* The frame.

\* Where a number lies between multiples of another.
LEMMA DivMod ==
    ASSUME NEW n \in Nat \ {0}, NEW k \in Nat, NEW j \in 0 .. n - 1
    PROVE  (k * n + j) \div n = k /\ (k * n + j) % n = j
  OBVIOUS

\* A frame is four edges longer than its bits' edges.
LEMMA FrameLength == Hs0038!Frame \in Nat /\ Hs0038!Frame = 4 + 8 * BITS /\ Hs0038!Frame >= 12
  BY CodeAssumption DEF Hs0038!Frame

\* The times before the edges of a frame.
LEMMA FrameGaps ==
    ASSUME NEW code, NEW i \in Nat \ {0}
    PROVE  /\ Hs0038!FrameGap(code, i) \in Nat
           /\ i = 1 => Hs0038!FrameGap(code, i) = 420
           /\ i = 2 => Hs0038!FrameGap(code, i) = 90
           /\ i = 3 => Hs0038!FrameGap(code, i) = 45
           /\ i > 3 /\ i % 2 = 0 => Hs0038!FrameGap(code, i) = 6
           /\ i > 3 => Hs0038!FrameGap(code, i) \in {6, 17}
  BY DEF Hs0038!FrameGap, Hs0038!Silence

\* A bit of a frame is a long pause exactly if it is 1, where the driver looks for it.
LEMMA BitGap ==
    ASSUME NEW code, NEW k \in 0 .. 3, NEW j \in 0 .. BITS - 1
    PROVE  LET i == 5 + 2 * (k * BITS + j)
           IN  /\ i \in 5 .. Hs0038!Frame - 1 /\ i % 2 = 1
               /\ Hs0038!FrameGap(code, i) > 10 <=> Hs0038!ByteOf(code, k)[j] = 1
  <1> DEFINE n == k * BITS + j
             i == 5 + 2 * n
  <1>1. n \in Nat /\ n <= 4 * BITS - 1
    BY CodeAssumption
  <1>2. n \div BITS = k /\ n % BITS = j
    BY CodeAssumption, DivMod
  <1> HIDE DEF n
  <1>3. i \in 5 .. Hs0038!Frame - 1 /\ i % 2 = 1 /\ (i - 5) \div 2 = n
    BY <1>1, FrameLength, CodeAssumption
  <1> HIDE DEF i
  <1>4. Hs0038!FrameGap(code, i) = IF Hs0038!ByteOf(code, n \div BITS)[n % BITS] = 1 THEN 17 ELSE 6
    BY <1>3 DEF Hs0038!FrameGap
  <1>5. Hs0038!FrameGap(code, i) > 10 <=> Hs0038!ByteOf(code, k)[j] = 1
    BY <1>2, <1>4
  <1> QED
    BY <1>3, <1>5 DEF i, n

\* The code the driver makes of the edges it has stored.
CodeOf(gaps) == <<Hs0038!Byte(gaps, 0), Hs0038!Byte(gaps, 2)>>

\* Whatever is stored, a code is two bytes.
LEMMA CodeOfIsCode ==
    ASSUME NEW gaps
    PROVE  CodeOf(gaps) \in CodeSet
  BY DEF CodeOf, CodeSet, ByteSet, Hs0038!Byte

\* The four bytes of a code are its two, and their complements.
LEMMA BytesOfCode ==
    ASSUME NEW code \in CodeSet, NEW j \in 0 .. BITS - 1
    PROVE  /\ code = <<code[1], code[2]>> /\ code[1] \in ByteSet /\ code[2] \in ByteSet
           /\ Hs0038!ByteOf(code, 0)[j] = code[1][j] /\ Hs0038!ByteOf(code, 1)[j] = 1 - code[1][j]
           /\ Hs0038!ByteOf(code, 2)[j] = code[2][j] /\ Hs0038!ByteOf(code, 3)[j] = 1 - code[2][j]
           /\ code[1][j] \in {0, 1} /\ code[2][j] \in {0, 1}
  <1>1. code = <<code[1], code[2]>> /\ code[1] \in ByteSet /\ code[2] \in ByteSet
    BY DEF CodeSet
  <1>2. code[1][j] \in {0, 1} /\ code[2][j] \in {0, 1}
    BY <1>1 DEF ByteSet
  <1>3. 0 % 2 = 0 /\ 1 % 2 = 1 /\ 2 % 2 = 0 /\ 3 % 2 = 1
        /\ 0 \div 2 = 0 /\ 1 \div 2 = 0 /\ 2 \div 2 = 1 /\ 3 \div 2 = 1
    OBVIOUS
  <1>4. Hs0038!ByteOf(code, 0)[j] = code[1][j] /\ Hs0038!ByteOf(code, 2)[j] = code[2][j]
    BY <1>3 DEF Hs0038!ByteOf
  <1>5. Hs0038!ByteOf(code, 1)[j] = 1 - code[1][j] /\ Hs0038!ByteOf(code, 3)[j] = 1 - code[2][j]
    BY <1>3 DEF Hs0038!ByteOf
  <1> QED
    BY <1>1, <1>2, <1>4, <1>5

\* Both checks of the complements pass, and every long pause is a true one: then
\* every bit is right.  A bit that has become a 0 would lack its complement.
LEMMA HonestIsTrue ==
    ASSUME NEW code \in CodeSet, NEW gaps \in Seq(Int), Len(gaps) = Hs0038!Frame,
           \A i \in 5 .. Len(gaps) :
               i % 2 = 1 /\ gaps[i] > 10 => Hs0038!FrameGap(code, i) > 10,
           Hs0038!Intact(gaps)
    PROVE  CodeOf(gaps) = code
  <1>1. ASSUME NEW k \in 0 .. 3, NEW j \in 0 .. BITS - 1
        PROVE  /\ Hs0038!Byte(gaps, k)[j] \in {0, 1}
               /\ Hs0038!Byte(gaps, k)[j] = 1 => Hs0038!ByteOf(code, k)[j] = 1
    <2> DEFINE i == 5 + 2 * (k * BITS + j)
    <2>1. /\ i \in 5 .. Hs0038!Frame - 1 /\ i % 2 = 1
          /\ Hs0038!FrameGap(code, i) > 10 <=> Hs0038!ByteOf(code, k)[j] = 1
      BY BitGap, Zenon
    <2>2. Hs0038!Byte(gaps, k)[j] = IF gaps[i] > 10 THEN 1 ELSE 0
      BY DEF Hs0038!Byte
    <2> HIDE DEF i
    <2>3. i \in 5 .. Len(gaps)
      BY <2>1, FrameLength
    <2> QED
      BY <2>1, <2>2, <2>3
  <1>2. ASSUME NEW j \in 0 .. BITS - 1
        PROVE  /\ Hs0038!Byte(gaps, 0)[j] # Hs0038!Byte(gaps, 1)[j]
               /\ Hs0038!Byte(gaps, 2)[j] # Hs0038!Byte(gaps, 3)[j]
    BY DEF Hs0038!Intact, Hs0038!Opposite
  <1>3. ASSUME NEW j \in 0 .. BITS - 1
        PROVE  Hs0038!Byte(gaps, 0)[j] = code[1][j] /\ Hs0038!Byte(gaps, 2)[j] = code[2][j]
    <2>1. /\ Hs0038!Byte(gaps, 0)[j] \in {0, 1} /\ Hs0038!Byte(gaps, 1)[j] \in {0, 1}
          /\ Hs0038!Byte(gaps, 2)[j] \in {0, 1} /\ Hs0038!Byte(gaps, 3)[j] \in {0, 1}
          /\ Hs0038!Byte(gaps, 0)[j] = 1 => Hs0038!ByteOf(code, 0)[j] = 1
          /\ Hs0038!Byte(gaps, 1)[j] = 1 => Hs0038!ByteOf(code, 1)[j] = 1
          /\ Hs0038!Byte(gaps, 2)[j] = 1 => Hs0038!ByteOf(code, 2)[j] = 1
          /\ Hs0038!Byte(gaps, 3)[j] = 1 => Hs0038!ByteOf(code, 3)[j] = 1
      BY <1>1
    <2>2. /\ Hs0038!ByteOf(code, 0)[j] = code[1][j] /\ Hs0038!ByteOf(code, 1)[j] = 1 - code[1][j]
          /\ Hs0038!ByteOf(code, 2)[j] = code[2][j] /\ Hs0038!ByteOf(code, 3)[j] = 1 - code[2][j]
          /\ code[1][j] \in {0, 1} /\ code[2][j] \in {0, 1}
      BY BytesOfCode
    <2> QED
      BY <1>2, <2>1, <2>2
  <1>4. /\ DOMAIN Hs0038!Byte(gaps, 0) = 0 .. BITS - 1 /\ DOMAIN Hs0038!Byte(gaps, 2) = 0 .. BITS - 1
        /\ Hs0038!Byte(gaps, 0) = [j \in 0 .. BITS - 1 |-> Hs0038!Byte(gaps, 0)[j]]
        /\ Hs0038!Byte(gaps, 2) = [j \in 0 .. BITS - 1 |-> Hs0038!Byte(gaps, 2)[j]]
    BY DEF Hs0038!Byte
  <1>5. code = <<code[1], code[2]>> /\ code[1] \in ByteSet /\ code[2] \in ByteSet
    BY DEF CodeSet
  <1>6. /\ code[1] = [j \in 0 .. BITS - 1 |-> code[1][j]]
        /\ code[2] = [j \in 0 .. BITS - 1 |-> code[2][j]]
    BY <1>5 DEF ByteSet
  <1>7. Hs0038!Byte(gaps, 0) = code[1] /\ Hs0038!Byte(gaps, 2) = code[2]
    BY <1>3, <1>4, <1>6
  <1> QED
    BY <1>5, <1>7 DEF CodeOf

\* The edges of a whole frame pass both checks and give its code.
LEMMA WholeIsTrue ==
    ASSUME NEW code \in CodeSet, NEW gaps \in Seq(Int), Len(gaps) = Hs0038!Frame,
           \A i \in 2 .. Len(gaps) : gaps[i] = Hs0038!FrameGap(code, i)
    PROVE  Hs0038!Intact(gaps) /\ CodeOf(gaps) = code
  <1>1. ASSUME NEW k \in 0 .. 3, NEW j \in 0 .. BITS - 1
        PROVE  Hs0038!Byte(gaps, k)[j] = IF Hs0038!ByteOf(code, k)[j] = 1 THEN 1 ELSE 0
    <2> DEFINE i == 5 + 2 * (k * BITS + j)
    <2>1. /\ i \in 5 .. Hs0038!Frame - 1
          /\ Hs0038!FrameGap(code, i) > 10 <=> Hs0038!ByteOf(code, k)[j] = 1
      BY BitGap, Zenon
    <2>2. Hs0038!Byte(gaps, k)[j] = IF gaps[i] > 10 THEN 1 ELSE 0
      BY DEF Hs0038!Byte
    <2> HIDE DEF i
    <2>3. gaps[i] = Hs0038!FrameGap(code, i)
      BY <2>1, FrameLength
    <2> QED
      BY <2>1, <2>2, <2>3
  <1>2. ASSUME NEW j \in 0 .. BITS - 1
        PROVE  /\ Hs0038!Byte(gaps, 0)[j] # Hs0038!Byte(gaps, 1)[j]
               /\ Hs0038!Byte(gaps, 2)[j] # Hs0038!Byte(gaps, 3)[j]
    <2>1. /\ Hs0038!ByteOf(code, 0)[j] = code[1][j] /\ Hs0038!ByteOf(code, 1)[j] = 1 - code[1][j]
          /\ Hs0038!ByteOf(code, 2)[j] = code[2][j] /\ Hs0038!ByteOf(code, 3)[j] = 1 - code[2][j]
          /\ code[1][j] \in {0, 1} /\ code[2][j] \in {0, 1}
      BY BytesOfCode
    <2>2. /\ Hs0038!Byte(gaps, 0)[j] = IF Hs0038!ByteOf(code, 0)[j] = 1 THEN 1 ELSE 0
          /\ Hs0038!Byte(gaps, 1)[j] = IF Hs0038!ByteOf(code, 1)[j] = 1 THEN 1 ELSE 0
          /\ Hs0038!Byte(gaps, 2)[j] = IF Hs0038!ByteOf(code, 2)[j] = 1 THEN 1 ELSE 0
          /\ Hs0038!Byte(gaps, 3)[j] = IF Hs0038!ByteOf(code, 3)[j] = 1 THEN 1 ELSE 0
      BY <1>1
    <2> QED
      BY <2>1, <2>2
  <1>3. Hs0038!Intact(gaps)
    BY <1>2 DEF Hs0038!Intact, Hs0038!Opposite
  <1> QED
    BY <1>3, FrameLength, HonestIsTrue

-------------------------------------------------------------------------------
\* The driver.

\* put_data keeps the ring a ring, and puts nothing there but the code.
LEMMA PutCode ==
    ASSUME NEW d \in DriverSet, NEW code \in CodeSet
    PROVE  LET e == Hs0038!Out(d, code)
           IN  /\ e \in DriverSet
               /\ e.gaps = d.gaps /\ e.data = d.data /\ e.heard = d.heard
               /\ \A i \in 0 .. SLOTS - 1 : e.slot[i] \in {d.slot[i], code}
  <1> DEFINE next == (d.w + 1) % SLOTS
             e == [d EXCEPT !.slot[d.w] = code, !.w = next]
  <1>1. d.w \in 0 .. SLOTS - 1
    BY DEF DriverSet
  <1>2. next \in 0 .. SLOTS - 1
    BY <1>1, CodeAssumption
  <1>3. Hs0038!Out(d, code) \in {d, e}
    BY DEF Hs0038!Out, Hs0038!PutData
  <1> HIDE DEF next
  <1>4. d.slot \in [0 .. SLOTS - 1 -> CodeSet]
    BY DEF DriverSet
  <1>5. [d.slot EXCEPT ![d.w] = code] \in [0 .. SLOTS - 1 -> CodeSet]
    BY <1>4
  <1>6. e = [d EXCEPT !.slot = [d.slot EXCEPT ![d.w] = code], !.w = next]
    BY Zenon
  <1> DEFINE slots == [d.slot EXCEPT ![d.w] = code]
  <1>7. \A i \in 0 .. SLOTS - 1 : slots[i] \in {d.slot[i], code}
    BY <1>4
  <1> HIDE DEF slots
  <1>8. /\ e \in DriverSet /\ e.slot = slots
        /\ e.gaps = d.gaps /\ e.data = d.data /\ e.heard = d.heard
    BY <1>2, <1>5, <1>6 DEF DriverSet, slots
  <1> HIDE DEF e
  <1> QED
    BY <1>3, <1>7, <1>8

\* What the driver has stored once an edge is appended to it.
Stored(gap) == Append(dev.gaps, IF dev.gaps = <<>> THEN 0 ELSE gap)

\* What the handler does of an edge: it starts anew, reports a repeat code, waits
\* for more, or has a frame, whose code it reports if it is intact.
Restarts(gap) == Hs0038!TimedOut(gap) /\ dev' = [dev EXCEPT !.gaps = <<0>>]
Repeats(gap) ==
    /\ Hs0038!IsRepeat(Stored(gap))
    /\ dev'.gaps = <<>> /\ dev'.data = dev.data /\ dev'.heard = dev.heard + 1
    /\ \A i \in 0 .. SLOTS - 1 : dev'.slot[i] \in {dev.slot[i], dev.data}
Waits(gap) == /\ ~Hs0038!IsRepeat(Stored(gap)) /\ Len(Stored(gap)) < Hs0038!Frame
              /\ dev' = [dev EXCEPT !.gaps = Stored(gap)]
Drops(gap) == /\ Len(Stored(gap)) = Hs0038!Frame /\ ~Hs0038!Intact(Stored(gap))
              /\ dev' = [dev EXCEPT !.gaps = <<>>]
Understands(gap) ==
    /\ Len(Stored(gap)) = Hs0038!Frame /\ Hs0038!Intact(Stored(gap))
    /\ dev'.gaps = <<>> /\ dev'.data = CodeOf(Stored(gap)) /\ dev'.heard = dev.heard + 1
    /\ \A i \in 0 .. SLOTS - 1 : dev'.slot[i] \in {dev.slot[i], CodeOf(Stored(gap))}

\* The edge appended.
LEMMA StoredFacts ==
    ASSUME dev \in DriverSet, Len(dev.gaps) < Hs0038!Frame, NEW gap \in Int
    PROVE  /\ Stored(gap) \in Seq(Int) /\ Len(Stored(gap)) = Len(dev.gaps) + 1
           /\ Len(Stored(gap)) <= Hs0038!Frame
           /\ \A i \in 1 .. Len(dev.gaps) : Stored(gap)[i] = dev.gaps[i]
           /\ dev.gaps # <<>> => Stored(gap)[Len(dev.gaps) + 1] = gap
           /\ dev.gaps = <<>> => Stored(gap) = <<0>>
  <1> DEFINE gaps == dev.gaps
             last == IF gaps = <<>> THEN 0 ELSE gap
  <1>1. gaps \in Seq(Int) /\ last \in Int
    BY DEF DriverSet
  <1>2. gaps # <<>> => last = gap
    OBVIOUS
  <1>3. gaps = <<>> => Append(gaps, last) = <<0>>
    OBVIOUS
  <1>4. Stored(gap) = Append(gaps, last)
    BY DEF Stored
  <1>5. Len(gaps) \in Nat /\ Len(gaps) < Hs0038!Frame
    BY <1>1
  <1> HIDE DEF gaps, last
  <1>6. /\ Append(gaps, last) \in Seq(Int) /\ Len(Append(gaps, last)) = Len(gaps) + 1
        /\ \A i \in 1 .. Len(gaps) : Append(gaps, last)[i] = gaps[i]
        /\ Append(gaps, last)[Len(gaps) + 1] = last
    BY <1>1, AppendProperties
  <1>7. Len(gaps) + 1 <= Hs0038!Frame
    BY <1>5, FrameLength
  <1> QED
    BY <1>2, <1>3, <1>4, <1>6, <1>7 DEF gaps

\* Reporting a code drops the edges and counts the code.
LEMMA ReportedFacts ==
    ASSUME NEW e \in DriverSet
    PROVE  LET f == Hs0038!Reported(e)
           IN  /\ f \in DriverSet /\ f.gaps = <<>> /\ f.data = e.data
               /\ f.heard = e.heard + 1 /\ f.slot = e.slot
  <1> DEFINE d == Hs0038!Forget(e)
             f == [d EXCEPT !.heard = @ + 1]
  <1>1. <<>> \in Seq(Int)
    OBVIOUS
  <1>2. d \in DriverSet /\ d.gaps = <<>> /\ d.data = e.data /\ d.heard = e.heard /\ d.slot = e.slot
    BY <1>1 DEF DriverSet, Hs0038!Forget
  <1>3. Hs0038!Reported(e) = f
    BY DEF Hs0038!Reported
  <1> HIDE DEF d
  <1>4. d.heard + 1 \in Nat
    BY <1>2 DEF DriverSet
  <1>5. f \in DriverSet /\ f.gaps = d.gaps /\ f.data = d.data /\ f.heard = d.heard + 1 /\ f.slot = d.slot
    BY <1>2, <1>4 DEF DriverSet
  <1> HIDE DEF f
  <1> QED
    BY <1>2, <1>3, <1>5

\* The handler does one of the five.
LEMMA IsrCases ==
    ASSUME dev \in DriverSet, Len(dev.gaps) < Hs0038!Frame, NEW gap \in Int, Hs0038!Isr(gap)
    PROVE  /\ dev' \in DriverSet /\ Len(dev'.gaps) < Hs0038!Frame
           /\ \/ Restarts(gap)
              \/ ~Hs0038!TimedOut(gap) /\ (Repeats(gap) \/ Waits(gap) \/ Drops(gap) \/ Understands(gap))
  <1>1. CASE Hs0038!TimedOut(gap)
    <2>1. dev' = [dev EXCEPT !.gaps = <<0>>]
      BY <1>1 DEF Hs0038!Isr
    <2>2. <<0>> \in Seq(Int) /\ Len(<<0>>) = 1
      OBVIOUS
    <2>3. dev' \in DriverSet /\ dev'.gaps = <<0>>
      BY <2>1, <2>2 DEF DriverSet
    <2>4. Len(dev'.gaps) < Hs0038!Frame
      BY <2>2, <2>3, FrameLength
    <2> QED
      BY <1>1, <2>1, <2>3, <2>4 DEF Restarts
  <1>2. CASE ~Hs0038!TimedOut(gap)
    <2> DEFINE g == Stored(gap)
               d == [dev EXCEPT !.gaps = g]
    <2>1. g \in Seq(Int) /\ Len(g) \in Nat /\ Len(g) <= Hs0038!Frame
      BY StoredFacts
    <2>2. dev' = Hs0038!Parse(d)
      BY <1>2 DEF Hs0038!Isr, Stored
    <2> HIDE DEF g
    <2>3. /\ d \in DriverSet /\ d.gaps = g /\ d.data = dev.data /\ d.heard = dev.heard
          /\ d.slot = dev.slot
      BY <2>1 DEF DriverSet
    <2>4. /\ <<>> \in Seq(Int) /\ Len(<<>>) = 0
      OBVIOUS
    <2>5. 0 < Hs0038!Frame
      BY FrameLength
    <2>6. CASE Hs0038!IsRepeat(g)
      <3> DEFINE e == Hs0038!Out(d, d.data)
      <3>1. dev' = Hs0038!Reported(e)
        BY <2>2, <2>3, <2>6 DEF Hs0038!Parse
      <3>2. dev.data \in CodeSet
        BY DEF DriverSet
      <3>3. /\ e \in DriverSet /\ e.gaps = g /\ e.data = dev.data /\ e.heard = dev.heard
            /\ \A i \in 0 .. SLOTS - 1 : e.slot[i] \in {dev.slot[i], dev.data}
        BY <2>3, <3>2, PutCode
      <3> HIDE DEF e
      <3>4. /\ dev' \in DriverSet /\ dev'.gaps = <<>> /\ dev'.data = e.data
            /\ dev'.heard = e.heard + 1 /\ dev'.slot = e.slot
        BY <3>1, <3>3, ReportedFacts
      <3>5. Repeats(gap)
        BY <2>6, <3>3, <3>4 DEF Repeats, g
      <3> QED
        BY <1>2, <2>4, <2>5, <3>4, <3>5
    <2>7. CASE ~Hs0038!IsRepeat(g) /\ Len(g) < Hs0038!Frame
      <3>1. dev' = d
        BY <2>2, <2>3, <2>7 DEF Hs0038!Parse
      <3>2. Waits(gap)
        BY <2>7, <3>1 DEF Waits, g
      <3> QED
        BY <1>2, <2>3, <2>7, <3>1, <3>2
    <2>8. CASE Len(g) = Hs0038!Frame
      <3>1. ~Hs0038!IsRepeat(g) /\ ~(Len(g) < Hs0038!Frame)
        BY <2>8, FrameLength DEF Hs0038!IsRepeat
      <3>2. CASE ~Hs0038!Intact(g)
        <4>1. dev' = Hs0038!Forget(d)
          BY <2>2, <2>3, <3>1, <3>2 DEF Hs0038!Parse
        <4>2. dev' = [dev EXCEPT !.gaps = <<>>]
          BY <4>1 DEF Hs0038!Forget
        <4>3. dev' \in DriverSet /\ dev'.gaps = <<>>
          BY <2>4, <4>2 DEF DriverSet
        <4>4. Drops(gap)
          BY <2>8, <3>2, <4>2 DEF Drops, g
        <4> QED
          BY <1>2, <2>4, <2>5, <4>3, <4>4
      <3>3. CASE Hs0038!Intact(g)
        <4> DEFINE code == CodeOf(g)
                   c == [d EXCEPT !.data = code]
                   e == Hs0038!Out(c, code)
        <4>1. dev' = Hs0038!Reported(e)
          BY <2>2, <2>3, <3>1, <3>3 DEF Hs0038!Parse, CodeOf
        <4>2. code \in CodeSet
          BY CodeOfIsCode
        <4> HIDE DEF code
        <4>3. /\ c \in DriverSet /\ c.gaps = g /\ c.data = code /\ c.heard = dev.heard
              /\ c.slot = dev.slot
          BY <2>3, <4>2 DEF DriverSet
        <4> HIDE DEF c
        <4>4. /\ e \in DriverSet /\ e.gaps = g /\ e.data = code /\ e.heard = dev.heard
              /\ \A i \in 0 .. SLOTS - 1 : e.slot[i] \in {dev.slot[i], code}
          BY <4>2, <4>3, PutCode
        <4> HIDE DEF e
        <4>5. /\ dev' \in DriverSet /\ dev'.gaps = <<>> /\ dev'.data = e.data
              /\ dev'.heard = e.heard + 1 /\ dev'.slot = e.slot
          BY <4>1, <4>4, ReportedFacts
        <4>6. Understands(gap)
          BY <2>8, <3>3, <4>4, <4>5 DEF Understands, g, code
        <4> QED
          BY <1>2, <2>4, <2>5, <4>5, <4>6
      <3> QED
        BY <3>2, <3>3
    <2>9. Len(g) < Hs0038!Frame \/ Len(g) = Hs0038!Frame
      BY <2>1, FrameLength
    <2> QED
      BY <2>6, <2>7, <2>8, <2>9
  <1> QED
    BY <1>1, <1>2

-------------------------------------------------------------------------------
\* The light.

\* The times before the edges of a burst: the first comes late, the others soon.
LEMMA GapBounds ==
    ASSUME NEW w \in WireSet,
           w.pos < IF w.frame THEN Hs0038!Frame ELSE 4
    PROVE  LET gap == IF w.frame THEN Hs0038!FrameGap(w.code, w.pos + 1) ELSE Hs0038!RepeatGap[w.pos + 1]
           IN  /\ gap \in Nat /\ gap >= 6
               /\ w.pos = 0 => gap >= 420
               /\ w.pos > 0 => gap <= 90
  <1>1. w.pos \in Nat /\ w.pos + 1 \in Nat \ {0}
    BY DEF WireSet
  <1>2. CASE w.frame
    <2>1. /\ Hs0038!FrameGap(w.code, w.pos + 1) \in Nat
          /\ w.pos + 1 = 1 => Hs0038!FrameGap(w.code, w.pos + 1) = 420
          /\ w.pos + 1 = 2 => Hs0038!FrameGap(w.code, w.pos + 1) = 90
          /\ w.pos + 1 = 3 => Hs0038!FrameGap(w.code, w.pos + 1) = 45
          /\ w.pos + 1 > 3 => Hs0038!FrameGap(w.code, w.pos + 1) \in {6, 17}
      BY <1>1, FrameGaps
    <2> QED
      BY <1>1, <1>2, <2>1
  <1>3. CASE ~w.frame
    <2>1. w.pos \in 0 .. 3
      BY <1>1, <1>3
    <2> QED
      BY <1>3, <2>1 DEF Hs0038!RepeatGap
  <1> QED
    BY <1>2, <1>3

\* The length of the burst on its way, and the time until its next edge.
LEMMA NextGapFacts ==
    ASSUME wire \in WireSet
    PROVE  /\ Hs0038!Edges \in Nat /\ Hs0038!Edges >= 4 /\ Hs0038!Edges <= Hs0038!Frame
           /\ wire.frame => Hs0038!Edges = Hs0038!Frame
           /\ ~wire.frame => Hs0038!Edges = 4
           /\ Hs0038!NextGap = Gap(wire.pos + 1)
           /\ wire.pos < Hs0038!Edges =>
                  /\ Hs0038!NextGap \in Nat /\ Hs0038!NextGap >= 6
                  /\ wire.pos = 0 => Hs0038!NextGap >= 420
                  /\ wire.pos > 0 => Hs0038!NextGap <= 90
  <1>1. wire.frame \in BOOLEAN
    BY DEF WireSet
  <1>2. /\ Hs0038!Edges \in Nat /\ Hs0038!Edges >= 4 /\ Hs0038!Edges <= Hs0038!Frame
        /\ wire.frame => Hs0038!Edges = Hs0038!Frame
        /\ ~wire.frame => Hs0038!Edges = 4
    BY <1>1, FrameLength DEF Hs0038!Edges
  <1>3. Hs0038!NextGap = Gap(wire.pos + 1)
    BY DEF Hs0038!NextGap, Gap
  <1>4. wire.pos < Hs0038!Edges =>
            /\ Hs0038!NextGap \in Nat /\ Hs0038!NextGap >= 6
            /\ wire.pos = 0 => Hs0038!NextGap >= 420
            /\ wire.pos > 0 => Hs0038!NextGap <= 90
    BY GapBounds, Zenon DEF Hs0038!NextGap, Hs0038!Edges
  <1> QED
    BY <1>2, <1>3, <1>4

\* The same after a step.
LEMMA NextGapFactsPrime ==
    ASSUME wire' \in WireSet
    PROVE  /\ Hs0038!Edges' \in Nat /\ Hs0038!Edges' >= 4 /\ Hs0038!Edges' <= Hs0038!Frame
           /\ wire'.pos < Hs0038!Edges' =>
                  /\ Hs0038!NextGap' \in Nat /\ Hs0038!NextGap' >= 6
                  /\ wire'.pos = 0 => Hs0038!NextGap' >= 420
  <1>1. wire'.frame \in BOOLEAN
    BY DEF WireSet
  <1>2. Hs0038!Edges' \in Nat /\ Hs0038!Edges' >= 4 /\ Hs0038!Edges' <= Hs0038!Frame
    BY <1>1, FrameLength DEF Hs0038!Edges
  <1>3. wire'.pos < Hs0038!Edges' =>
            /\ Hs0038!NextGap' \in Nat /\ Hs0038!NextGap' >= 6
            /\ wire'.pos = 0 => Hs0038!NextGap' >= 420
    BY GapBounds, Zenon DEF Hs0038!NextGap, Hs0038!Edges
  <1> QED
    BY <1>2, <1>3

\* A burst on its way stays the same one.
SameBurst ==
    /\ wire' \in WireSet
    /\ wire'.frame = wire.frame /\ wire'.code = wire.code /\ wire'.sent = wire.sent
    /\ wire'.before = wire.before

\* What depends on the burst alone.
LEMMA SameBurstFacts ==
    ASSUME SameBurst
    PROVE  /\ Hs0038!Edges' = Hs0038!Edges
           /\ \A i : Gap(i)' = Gap(i)
           /\ \A gaps : Honest(gaps)' <=> Honest(gaps)
  <1>1. Hs0038!Edges' = Hs0038!Edges
    BY DEF SameBurst, Hs0038!Edges
  <1>2. \A i : Gap(i)' = Gap(i)
    BY DEF SameBurst, Gap
  <1>3. \A gaps : Honest(gaps)' <=> Honest(gaps)
    BY DEF SameBurst, Honest
  <1> QED
    BY <1>1, <1>2, <1>3

\* An edge that comes.
LEMMA EdgeFields ==
    ASSUME ReceiverTypes, Hs0038!Edge
    PROVE  /\ SameBurst /\ wire.pos < Hs0038!Edges
           /\ wire'.pos = wire.pos + 1 /\ wire'.since = 0 /\ wire'.clean = wire.clean
           /\ wire'.lost = wire.lost /\ wire'.noise = wire.noise /\ user' = user
           /\ Hs0038!Isr(wire.since + Hs0038!NextGap) /\ wire.since + Hs0038!NextGap \in Int
  <1> DEFINE pos == wire.pos + 1
             since == 0
  <1>1. wire' = [wire EXCEPT !.pos = pos, !.since = since]
    BY DEF Hs0038!Edge
  <1>2. wire \in WireSet /\ pos \in Nat /\ since \in Int
    BY DEF ReceiverTypes, WireSet
  <1> HIDE DEF pos, since
  <1>3. /\ wire' \in WireSet /\ wire'.frame = wire.frame /\ wire'.code = wire.code
        /\ wire'.sent = wire.sent /\ wire'.before = wire.before
        /\ wire'.pos = pos /\ wire'.since = since /\ wire'.clean = wire.clean
        /\ wire'.lost = wire.lost /\ wire'.noise = wire.noise
    BY <1>1, <1>2 DEF WireSet
  <1>4. wire.since \in Int
    BY <1>2 DEF WireSet
  <1>5. wire.pos < Hs0038!Edges /\ Hs0038!Isr(wire.since + Hs0038!NextGap) /\ user' = user
    BY DEF Hs0038!Edge
  <1>6. Hs0038!NextGap \in Nat
    BY <1>2, <1>5, NextGapFacts
  <1> QED
    BY <1>3, <1>4, <1>5, <1>6 DEF SameBurst, pos, since

\* An edge that is lost.
LEMMA MissedFields ==
    ASSUME ReceiverTypes, Hs0038!Missed
    PROVE  /\ SameBurst /\ wire.pos < Hs0038!Edges
           /\ wire'.pos = wire.pos + 1 /\ wire'.since = wire.since + Hs0038!NextGap
           /\ wire'.clean = FALSE /\ wire'.lost = wire.lost + 1 /\ wire'.noise = wire.noise
           /\ dev' = dev /\ user' = user
  <1> DEFINE since == wire.since + Hs0038!NextGap
             lost == wire.lost + 1
  <1>1. wire' = [wire EXCEPT !.pos = wire.pos + 1, !.since = since, !.lost = lost, !.clean = FALSE]
    BY DEF Hs0038!Missed
  <1>2. wire \in WireSet /\ wire.pos + 1 \in Nat /\ wire.since \in Int /\ lost \in Nat
    BY DEF ReceiverTypes, WireSet
  <1>3. wire.pos < Hs0038!Edges /\ dev' = dev /\ user' = user
    BY DEF Hs0038!Missed
  <1>4. since \in Int
    BY <1>2, <1>3, NextGapFacts
  <1> HIDE DEF since, lost
  <1>5. /\ wire' \in WireSet /\ wire'.frame = wire.frame /\ wire'.code = wire.code
        /\ wire'.sent = wire.sent /\ wire'.before = wire.before
        /\ wire'.pos = wire.pos + 1 /\ wire'.since = since /\ wire'.clean = FALSE
        /\ wire'.lost = lost /\ wire'.noise = wire.noise
    BY <1>1, <1>2, <1>4 DEF WireSet
  <1> QED
    BY <1>3, <1>5 DEF SameBurst, since, lost

\* An edge that is none.
LEMMA NoiseFields ==
    ASSUME ReceiverTypes, Hs0038!Noise
    PROVE  \E a \in {3, Hs0038!NextGap - 3} :
           /\ SameBurst /\ wire.pos < Hs0038!Edges /\ wire.since >= 0
           /\ wire'.pos = wire.pos /\ wire'.since = -a /\ wire'.clean = FALSE
           /\ wire'.lost = wire.lost /\ wire'.noise = wire.noise + 1 /\ user' = user
           /\ Hs0038!Isr(wire.since + a) /\ wire.since + a \in Int
  <1>1. PICK a \in {3, Hs0038!NextGap - 3} :
            /\ Hs0038!Isr(wire.since + a)
            /\ wire' = [wire EXCEPT !.since = -a, !.noise = wire.noise + 1, !.clean = FALSE]
    BY DEF Hs0038!Noise
  <1>2. wire.pos < Hs0038!Edges /\ wire.since >= 0 /\ user' = user
    BY DEF Hs0038!Noise
  <1>3. wire \in WireSet /\ wire.since \in Int /\ wire.noise + 1 \in Nat
    BY DEF ReceiverTypes, WireSet
  <1>4. a \in Int
    BY <1>2, <1>3, NextGapFacts
  <1> DEFINE since == -a
             noise == wire.noise + 1
  <1>5. since \in Int /\ noise \in Nat
    BY <1>3, <1>4
  <1>6. wire' = [wire EXCEPT !.since = since, !.noise = noise, !.clean = FALSE]
    BY <1>1
  <1> HIDE DEF since, noise
  <1>7. /\ wire' \in WireSet /\ wire'.frame = wire.frame /\ wire'.code = wire.code
        /\ wire'.sent = wire.sent /\ wire'.before = wire.before
        /\ wire'.pos = wire.pos /\ wire'.since = since /\ wire'.clean = FALSE
        /\ wire'.lost = wire.lost /\ wire'.noise = noise
    BY <1>3, <1>5, <1>6 DEF WireSet
  <1>8. wire.since + a \in Int
    BY <1>3, <1>4
  <1> WITNESS a \in {3, Hs0038!NextGap - 3}
  <1> QED
    BY <1>1, <1>2, <1>7, <1>8 DEF SameBurst, since, noise

\* A burst that starts.
LEMMA BurstFields ==
    ASSUME ReceiverTypes, NEW frame \in BOOLEAN, NEW code \in Codes,
           Hs0038!BurstStarts(frame, code)
    PROVE  /\ wire' \in WireSet /\ wire.pos = Hs0038!Edges
           /\ wire'.frame = frame /\ wire'.code = code /\ wire'.pos = 0 /\ wire'.since = wire.since
           /\ wire'.clean = frame /\ wire'.before = dev.heard
           /\ wire'.lost = wire.lost /\ wire'.noise = wire.noise
           /\ wire.sent \subseteq wire'.sent /\ (frame => code \in wire'.sent)
           /\ dev' = dev /\ user' = user
  <1> DEFINE sent == IF frame THEN wire.sent \cup {code} ELSE wire.sent
             bursts == wire.bursts + 1
  <1>1. /\ wire' = [wire EXCEPT !.frame = frame, !.code = code, !.pos = 0, !.clean = frame,
                                !.before = dev.heard, !.bursts = bursts, !.sent = sent]
        /\ wire.pos = Hs0038!Edges /\ dev' = dev /\ user' = user
    BY DEF Hs0038!BurstStarts
  <1>2. wire \in WireSet /\ dev.heard \in Nat /\ bursts \in Nat /\ wire.sent \subseteq CodeSet
    BY DEF ReceiverTypes, WireSet, DriverSet
  <1>3. code \in CodeSet
    BY CodeAssumption DEF CodeSet, ByteSet
  <1>4. sent \in SUBSET CodeSet /\ wire.sent \subseteq sent /\ (frame => code \in sent)
    BY <1>2, <1>3
  <1> HIDE DEF sent, bursts
  <1>5. /\ wire' \in WireSet
        /\ wire'.frame = frame /\ wire'.code = code /\ wire'.pos = 0 /\ wire'.since = wire.since
        /\ wire'.clean = frame /\ wire'.before = dev.heard /\ wire'.sent = sent
        /\ wire'.lost = wire.lost /\ wire'.noise = wire.noise
    BY <1>1, <1>2, <1>3, <1>4 DEF WireSet
  <1> QED
    BY <1>1, <1>4, <1>5

\* The fields of the state.
LEMMA StateFields ==
    ASSUME ReceiverTypes
    PROVE  /\ wire \in WireSet /\ dev \in DriverSet /\ user \in ReaderSet
           /\ wire.pos \in Nat /\ wire.since \in Int /\ wire.lost \in Nat /\ wire.noise \in Nat
           /\ wire.code \in CodeSet /\ wire.clean \in BOOLEAN /\ wire.frame \in BOOLEAN
           /\ wire.pos <= Hs0038!Edges
           /\ dev.gaps \in Seq(Int) /\ Len(dev.gaps) \in Nat /\ Len(dev.gaps) < Hs0038!Frame
           /\ dev.heard \in Nat
  <1>1. wire \in WireSet /\ dev \in DriverSet /\ user \in ReaderSet
    BY DEF ReceiverTypes
  <1>2. /\ wire.pos \in Nat /\ wire.since \in Int /\ wire.lost \in Nat /\ wire.noise \in Nat
        /\ wire.code \in CodeSet /\ wire.clean \in BOOLEAN /\ wire.frame \in BOOLEAN
    BY <1>1 DEF WireSet
  <1>3. dev.gaps \in Seq(Int) /\ dev.heard \in Nat
    BY <1>1 DEF DriverSet
  <1>4. Len(dev.gaps) \in Nat
    BY <1>3, LenProperties
  <1> QED
    BY <1>1, <1>2, <1>3, <1>4 DEF ReceiverTypes

\* The types after a step of a burst on its way.
LEMMA TypesKeep ==
    ASSUME SameBurst, dev' \in DriverSet, Len(dev'.gaps) < Hs0038!Frame, user' \in ReaderSet,
           wire'.pos <= Hs0038!Edges
    PROVE  ReceiverTypes'
  BY SameBurstFacts DEF ReceiverTypes, SameBurst, Hs0038!Frame

\* An edge that comes late, or the first one, is all that is stored then.
LEMMA LateEdge ==
    ASSUME ReceiverTypes, NEW gap \in Int, Hs0038!Isr(gap), gap > 300 \/ dev.gaps = <<>>
    PROVE  /\ dev'.gaps = <<0>> /\ Len(dev'.gaps) = 1 /\ dev'.heard = dev.heard
           /\ dev'.data = dev.data /\ dev'.slot = dev.slot
  <1>1. dev \in DriverSet /\ Len(dev.gaps) < Hs0038!Frame
    BY DEF ReceiverTypes
  <1>2. CASE Restarts(gap)
    BY <1>1, <1>2 DEF Restarts, DriverSet
  <1>3. CASE ~Hs0038!TimedOut(gap)
    <2>1. dev.gaps = <<>>
      BY <1>3 DEF Hs0038!TimedOut
    <2>2. Stored(gap) = <<0>> /\ Len(<<0>>) = 1
      BY <1>1, <2>1, StoredFacts
    <2>3. ~Hs0038!IsRepeat(Stored(gap)) /\ Len(Stored(gap)) # Hs0038!Frame
      BY <2>2, FrameLength DEF Hs0038!IsRepeat
    <2>4. Waits(gap)
      BY <1>1, <1>3, <2>3, IsrCases DEF Restarts, Repeats, Drops, Understands
    <2> QED
      BY <1>1, <2>2, <2>4 DEF Waits, DriverSet
  <1> QED
    BY <1>1, <1>2, <1>3, IsrCases

\* An edge in time is stored, or nothing is any more.
LEMMA TimelyEdge ==
    ASSUME ReceiverTypes, NEW gap \in Int, Hs0038!Isr(gap), gap <= 300
    PROVE  /\ ~Hs0038!TimedOut(gap)
           /\ dev'.gaps = <<>> \/ dev'.gaps = Stored(gap)
           /\ Len(dev'.gaps) <= Len(dev.gaps) + 1
  <1>1. dev \in DriverSet /\ Len(dev.gaps) < Hs0038!Frame
    BY DEF ReceiverTypes
  <1>2. ~Hs0038!TimedOut(gap)
    BY DEF Hs0038!TimedOut
  <1>3. Repeats(gap) \/ Waits(gap) \/ Drops(gap) \/ Understands(gap)
    BY <1>1, <1>2, IsrCases DEF Restarts
  <1>4. dev'.gaps = <<>> \/ dev'.gaps = Stored(gap)
    BY <1>1, <1>3 DEF Repeats, Waits, Drops, Understands, DriverSet
  <1>5. Len(Stored(gap)) = Len(dev.gaps) + 1 /\ Len(dev.gaps) \in Nat
    BY <1>1, StoredFacts, StateFields
  <1>6. Len(<<>>) = 0
    OBVIOUS
  <1> QED
    BY <1>2, <1>4, <1>5, <1>6

\* What an edge leaves of what the driver knows, when all it could understand is a
\* code that has been sent.
LEMMA StillSent ==
    ASSUME ReceiverInv, NEW gap \in Int, Hs0038!Isr(gap), Mild,
           wire.sent \subseteq wire'.sent, user' = user,
           Understands(gap) /\ ~Hs0038!TimedOut(gap) => CodeOf(Stored(gap)) \in wire.sent
    PROVE  dev'.data \in wire'.sent /\ user'.code \in wire'.sent /\ Slots' \subseteq wire'.sent
  <1>1. dev.data \in wire.sent /\ user.code \in wire.sent /\ Slots \subseteq wire.sent
    BY DEF ReceiverInv, OnlySent
  <1>2. dev \in DriverSet /\ Len(dev.gaps) < Hs0038!Frame
    BY DEF ReceiverInv, ReceiverTypes
  <1>3. \A i \in 0 .. SLOTS - 1 : dev.slot[i] \in wire.sent
    BY <1>1 DEF Slots
  <1>4. CASE Restarts(gap) \/ Waits(gap) \/ Drops(gap)
    <2>1. dev'.data = dev.data /\ dev'.slot = dev.slot
      BY <1>2, <1>4 DEF Restarts, Waits, Drops, DriverSet
    <2> QED
      BY <1>1, <1>3, <2>1 DEF Slots
  <1>5. CASE Repeats(gap)
    <2>1. dev'.data = dev.data /\ \A i \in 0 .. SLOTS - 1 : dev'.slot[i] \in {dev.slot[i], dev.data}
      BY <1>5 DEF Repeats
    <2> QED
      BY <1>1, <1>3, <2>1 DEF Slots
  <1>6. CASE Understands(gap) /\ ~Hs0038!TimedOut(gap)
    <2> DEFINE code == CodeOf(Stored(gap))
    <2>1. dev'.data = code /\ \A i \in 0 .. SLOTS - 1 : dev'.slot[i] \in {dev.slot[i], code}
      BY <1>6 DEF Understands
    <2>2. code \in wire.sent
      BY <1>6
    <2> HIDE DEF code
    <2> QED
      BY <1>1, <1>3, <2>1, <2>2 DEF Slots
  <1> QED
    BY <1>2, <1>4, <1>5, <1>6, IsrCases

\* An edge of a burst nothing has happened to: what is stored stays what has come,
\* until the burst is whole and understood.
LEMMA EdgeExact ==
    ASSUME ReceiverInv, Hs0038!Edge, wire.clean \/ Undamaged
    PROVE  /\ OnTime'
           /\ wire'.pos < Hs0038!Edges => dev'.heard = dev.heard
           /\ wire'.pos = Hs0038!Edges =>
                  /\ dev'.gaps = <<>>
                  /\ wire.frame => dev'.heard = dev.heard + 1 /\ dev'.data = wire.code
  <1> DEFINE gap == wire.since + Hs0038!NextGap
             g == Stored(gap)
  <1>1. /\ SameBurst /\ wire.pos < Hs0038!Edges
        /\ wire'.pos = wire.pos + 1 /\ wire'.since = 0 /\ wire'.clean = wire.clean
        /\ wire'.lost = wire.lost /\ wire'.noise = wire.noise /\ user' = user
        /\ Hs0038!Isr(gap) /\ gap \in Int
    BY EdgeFields DEF ReceiverInv
  <1>2. Hs0038!Edges' = Hs0038!Edges /\ \A i : Gap(i)' = Gap(i)
    BY <1>1, SameBurstFacts
  <1>3. ReceiverTypes
    BY DEF ReceiverInv
  <1>4. wire \in WireSet /\ dev \in DriverSet /\ wire.pos \in Nat /\ wire.frame \in BOOLEAN
        /\ wire.code \in CodeSet /\ Len(dev.gaps) \in Nat /\ Len(dev.gaps) < Hs0038!Frame
    BY <1>3, StateFields
  <1>5. /\ Hs0038!Edges \in Nat /\ Hs0038!Edges >= 4 /\ Hs0038!Edges <= Hs0038!Frame
        /\ wire.frame => Hs0038!Edges = Hs0038!Frame
        /\ ~wire.frame => Hs0038!Edges = 4
        /\ Hs0038!NextGap = Gap(wire.pos + 1)
        /\ Hs0038!NextGap \in Nat
        /\ wire.pos = 0 => Hs0038!NextGap >= 420
        /\ wire.pos > 0 => Hs0038!NextGap <= 90
    BY <1>1, <1>4, NextGapFacts
  <1>6. CASE wire.pos = 0
    <2>1. wire.since >= 0
      BY <1>6 DEF ReceiverInv, CleanFrame, Quiet
    <2>2. gap > 300
      BY <1>4, <1>5, <1>6, <2>1, StateFields, <1>3
    <2> HIDE DEF gap
    <2>3. dev'.gaps = <<0>> /\ Len(dev'.gaps) = 1 /\ dev'.heard = dev.heard
      BY <1>1, <1>3, <2>2, LateEdge
    <2>4. wire'.pos = 1 /\ wire'.pos < Hs0038!Edges
      BY <1>1, <1>5, <1>6
    <2>5. OnTime'
      BY <1>1, <2>3, <2>4 DEF OnTime
    <2> QED
      BY <1>5, <2>3, <2>4, <2>5
  <1>7. CASE wire.pos > 0
    <2>1. /\ wire.since = 0 /\ Len(dev.gaps) = wire.pos
          /\ \A i \in 2 .. wire.pos : dev.gaps[i] = Gap(i)
      BY <1>1, <1>7 DEF ReceiverInv, Exact, OnTime
    <2>2. gap = Hs0038!NextGap /\ gap <= 300
      BY <1>5, <1>7, <2>1
    <2>3. dev.gaps # <<>>
      BY <1>7, <2>1
    <2> HIDE DEF gap
    <2>4. ~Hs0038!TimedOut(gap)
      BY <1>1, <1>3, <2>2, TimelyEdge
    <2>5. /\ g \in Seq(Int) /\ Len(g) = wire.pos + 1
          /\ \A i \in 1 .. wire.pos : g[i] = dev.gaps[i]
          /\ g[wire.pos + 1] = gap
      BY <1>1, <1>4, <2>1, <2>3, StoredFacts
    <2>6. \A i \in 2 .. wire.pos + 1 : g[i] = Gap(i)
      <3>1. \A i \in 2 .. wire.pos : g[i] = Gap(i)
        BY <1>4, <2>1, <2>5
      <3>2. g[wire.pos + 1] = Gap(wire.pos + 1)
        BY <1>5, <2>2, <2>5
      <3> QED
        BY <1>4, <3>1, <3>2
    <2>7. Repeats(gap) \/ Waits(gap) \/ Drops(gap) \/ Understands(gap)
      BY <1>1, <1>4, <2>4, IsrCases DEF Restarts
    <2>8. CASE wire.pos + 1 < Hs0038!Edges
      <3>1. ~Hs0038!IsRepeat(g)
        <4>1. CASE wire.pos + 1 = 4
          <5>1. wire.frame
            BY <1>4, <1>5, <2>8, <4>1
          <5>2. g[3] = 45
            BY <2>6, <4>1, <5>1, FrameGaps DEF Gap
          <5> QED
            BY <5>2 DEF Hs0038!IsRepeat
        <4>2. CASE wire.pos + 1 # 4
          BY <2>5, <4>2 DEF Hs0038!IsRepeat
        <4> QED
          BY <4>1, <4>2
      <3>2. Len(g) # Hs0038!Frame
        BY <1>4, <1>5, <2>5, <2>8, FrameLength
      <3>3. Waits(gap)
        BY <2>7, <3>1, <3>2 DEF Repeats, Drops, Understands
      <3>4. dev'.gaps = g /\ dev'.heard = dev.heard
        BY <1>4, <3>3 DEF Waits, DriverSet
      <3> HIDE DEF g
      <3>5. OnTime'
        BY <1>1, <1>2, <2>5, <2>6, <3>4 DEF OnTime
      <3> QED
        BY <1>1, <1>5, <2>8, <3>4, <3>5
    <2>9. CASE wire.pos + 1 = Hs0038!Edges
      <3>1. OnTime'
        BY <1>1, <1>2, <1>5, <2>9 DEF OnTime
      <3>2. CASE wire.frame
        <4>1. Len(g) = Hs0038!Frame /\ \A i \in 2 .. Len(g) : g[i] = Hs0038!FrameGap(wire.code, i)
          BY <1>5, <2>5, <2>6, <2>9, <3>2 DEF Gap
        <4>2. Hs0038!Intact(g) /\ CodeOf(g) = wire.code
          BY <1>4, <2>5, <4>1, WholeIsTrue
        <4>3. ~Hs0038!IsRepeat(g)
          BY <4>1, FrameLength DEF Hs0038!IsRepeat
        <4>4. ~(Len(g) < Hs0038!Frame)
          BY <4>1, FrameLength
        <4>5. Understands(gap)
          BY <2>7, <4>2, <4>3, <4>4 DEF Repeats, Drops, Waits
        <4> QED
          BY <1>1, <1>5, <2>9, <3>1, <4>2, <4>5 DEF Understands
      <3>3. CASE ~wire.frame
        <4>1. wire.pos = 3
          BY <1>4, <1>5, <2>9, <3>3
        <4>2. Len(g) = 4 /\ g[2] = 90 /\ g[3] = 22
          BY <2>5, <2>6, <3>3, <4>1 DEF Gap, Hs0038!RepeatGap
        <4>3. Hs0038!IsRepeat(g)
          BY <4>2 DEF Hs0038!IsRepeat
        <4>4. Len(g) # Hs0038!Frame
          BY <4>2, FrameLength
        <4>5. Repeats(gap)
          BY <2>7, <4>3, <4>4 DEF Drops, Waits, Understands
        <4> QED
          BY <1>1, <1>5, <2>9, <3>1, <3>3, <4>5 DEF Repeats
      <3> QED
        BY <1>4, <3>2, <3>3
    <2> QED
      BY <1>1, <1>4, <1>5, <2>8, <2>9
  <1> QED
    BY <1>4, <1>6, <1>7

\* The number before an odd one is even.
LEMMA Parity ==
    ASSUME NEW n \in Nat, (n + 1) % 2 = 1
    PROVE  n % 2 = 0
  OBVIOUS

\* One more edge in time leaves no pause that is longer than the frame's own, where
\* a bit is read: level with the frame it is the frame's, and one ahead it is the
\* short one before.
LEMMA HonestEdge ==
    ASSUME ReceiverInv, wire.pos < Hs0038!Edges, wire.frame, Level \/ Ahead,
           wire.since + Hs0038!NextGap \in Int
    PROVE  LET g == Stored(wire.since + Hs0038!NextGap)
           IN  g \in Seq(Int) /\ Len(g) = Len(dev.gaps) + 1 /\ Honest(g)
  <1> DEFINE gap == wire.since + Hs0038!NextGap
             g == Stored(gap)
  <1>1. ReceiverTypes
    BY DEF ReceiverInv
  <1>2. wire \in WireSet /\ dev \in DriverSet /\ wire.pos \in Nat /\ wire.since \in Int
        /\ Len(dev.gaps) \in Nat /\ Len(dev.gaps) < Hs0038!Frame /\ dev.gaps \in Seq(Int)
    BY <1>1, StateFields
  <1>3. Hs0038!NextGap = Hs0038!FrameGap(wire.code, wire.pos + 1) /\ Hs0038!NextGap \in Nat
    BY <1>2, NextGapFacts DEF Gap
  <1>4. dev.gaps # <<>> /\ Honest(dev.gaps)
    BY <1>2 DEF Level, Ahead
  <1>5. /\ g \in Seq(Int) /\ Len(g) = Len(dev.gaps) + 1
        /\ \A i \in 1 .. Len(dev.gaps) : g[i] = dev.gaps[i]
        /\ g[Len(dev.gaps) + 1] = gap
    BY <1>2, <1>4, StoredFacts
  <1> HIDE DEF g
  <1>6. ASSUME NEW i \in 5 .. Len(g), i % 2 = 1, g[i] > 10
        PROVE  Hs0038!FrameGap(wire.code, i) > 10
    <2>1. CASE i <= Len(dev.gaps)
      <3>1. g[i] = dev.gaps[i] /\ i \in 5 .. Len(dev.gaps)
        BY <1>2, <1>5, <2>1
      <3> QED
        BY <1>4, <1>6, <3>1 DEF Honest
    <2>2. CASE i = Len(dev.gaps) + 1
      <3>1. g[i] = gap
        BY <1>5, <2>2
      <3>2. CASE Level
        <4>1. i = wire.pos + 1 /\ gap = Hs0038!NextGap
          BY <1>3, <2>2, <3>2 DEF Level
        <4> QED
          BY <1>3, <1>6, <3>1, <4>1
      <3>3. CASE Ahead
        <4>1. i = wire.pos + 2 /\ wire.since <= 0
          BY <1>2, <2>2, <3>3 DEF Ahead
        <4>2. wire.pos + 1 \in Nat \ {0} /\ wire.pos + 1 > 3 /\ (wire.pos + 1) % 2 = 0
          <5>1. i = (wire.pos + 1) + 1 /\ wire.pos + 1 \in Nat \ {0} /\ wire.pos + 1 > 3
            <6>1. wire.pos \in Nat /\ i = wire.pos + 2 /\ i >= 5
              BY <1>2, <4>1
            <6> QED
              BY <6>1
          <5> QED
            BY <1>6, <5>1, Parity
        <4>3. Hs0038!FrameGap(wire.code, wire.pos + 1) = 6
          BY <4>2, FrameGaps
        <4>4. gap <= 6
          BY <1>2, <1>3, <4>1, <4>3
        <4> QED
          BY <1>6, <3>1, <4>4
      <3> QED
        BY <3>2, <3>3
    <2> QED
      BY <1>2, <1>5, <2>1, <2>2
  <1>7. Honest(g)
    BY <1>6 DEF Honest
  <1> QED
    BY <1>5, <1>7 DEF g

\* A code the driver understands, after mild damage, is the one on its way.
LEMMA UnderstandsOnlySent ==
    ASSUME ReceiverInv, wire.frame, NEW gaps \in Seq(Int), Len(gaps) = Hs0038!Frame, Honest(gaps),
           Hs0038!Intact(gaps)
    PROVE  CodeOf(gaps) \in wire.sent
  <1>1. wire.code \in CodeSet
    BY StateFields DEF ReceiverInv
  <1>2. CodeOf(gaps) = wire.code
    BY <1>1, HonestIsTrue DEF Honest
  <1> QED
    BY <1>2 DEF ReceiverInv, OnlySent

\* An edge keeps the invariant.
LEMMA EdgeKeeps ==
    ASSUME ReceiverInv, Hs0038!Edge
    PROVE  ReceiverInv'
  <1> DEFINE gap == wire.since + Hs0038!NextGap
             g == Stored(gap)
  <1>1. /\ SameBurst /\ wire.pos < Hs0038!Edges
        /\ wire'.pos = wire.pos + 1 /\ wire'.since = 0 /\ wire'.clean = wire.clean
        /\ wire'.lost = wire.lost /\ wire'.noise = wire.noise /\ user' = user
        /\ Hs0038!Isr(gap) /\ gap \in Int
    BY EdgeFields DEF ReceiverInv
  <1>2. /\ Hs0038!Edges' = Hs0038!Edges /\ \A i : Gap(i)' = Gap(i)
        /\ \A gaps : Honest(gaps)' <=> Honest(gaps)
    BY <1>1, SameBurstFacts
  <1>3. ReceiverTypes
    BY DEF ReceiverInv
  <1>4. wire \in WireSet /\ dev \in DriverSet /\ user \in ReaderSet
        /\ wire.pos \in Nat /\ wire.frame \in BOOLEAN /\ wire.code \in CodeSet /\ wire.since \in Int
        /\ Len(dev.gaps) \in Nat /\ Len(dev.gaps) < Hs0038!Frame /\ dev.heard \in Nat
    BY <1>3, StateFields
  <1>5. /\ Hs0038!Edges \in Nat /\ Hs0038!Edges >= 4 /\ Hs0038!Edges <= Hs0038!Frame
        /\ wire.frame => Hs0038!Edges = Hs0038!Frame
        /\ ~wire.frame => Hs0038!Edges = 4
        /\ Hs0038!NextGap \in Nat
    BY <1>1, <1>4, NextGapFacts
  <1>6. dev' \in DriverSet /\ Len(dev'.gaps) < Hs0038!Frame
    BY <1>1, <1>4, IsrCases
  <1>7. ReceiverTypes'
    BY <1>1, <1>4, <1>5, <1>6, TypesKeep
  <1>8. wire' \in WireSet /\ wire'.frame = wire.frame /\ wire'.code = wire.code
        /\ wire'.sent = wire.sent /\ wire'.before = wire.before
    BY <1>1 DEF SameBurst
  <1>9. Clock'
    <2>1. wire'.pos < Hs0038!Edges' => Hs0038!NextGap' \in Nat
      BY <1>8, NextGapFactsPrime
    <2> QED
      BY <1>1, <2>1 DEF Clock
  <1>10. Undamaged' <=> Undamaged
    BY <1>1 DEF Undamaged
  <1>11. Exact'
    BY <1>1, <1>10, EdgeExact DEF Exact
  <1>12. Quiet'
    BY <1>1, <1>2, <1>4, <1>10, EdgeExact DEF Quiet
  <1>13. CleanFrame'
    <2> SUFFICES ASSUME wire'.clean
                 PROVE  /\ wire'.frame /\ wire'.since >= 0
                        /\ wire'.pos < Hs0038!Edges' => dev'.heard = wire'.before
                        /\ wire'.pos = Hs0038!Edges' =>
                               dev'.heard = wire'.before + 1 /\ dev'.data = wire'.code
      BY DEF CleanFrame
    <2>1. wire.clean /\ wire.frame /\ dev.heard = wire.before
      BY <1>1 DEF ReceiverInv, CleanFrame
    <2>2. /\ wire'.pos < Hs0038!Edges => dev'.heard = dev.heard
          /\ wire'.pos = Hs0038!Edges => dev'.heard = dev.heard + 1 /\ dev'.data = wire.code
      BY <2>1, EdgeExact
    <2> QED
      BY <1>1, <1>2, <1>8, <2>1, <2>2
  <1>14. Clears <=> gap > 300
    BY DEF Clears
  <1>15. Keeping'
    <2> SUFFICES ASSUME Mild', wire'.pos < Hs0038!Edges'
                 PROVE  \/ Clears'
                        \/ wire'.frame /\ (Behind' \/ Level' \/ Ahead')
                        \/ ~wire'.frame /\ Len(dev'.gaps) <= wire'.pos + 1
      BY DEF Keeping
    <2>1. Mild
      BY <1>1 DEF Mild
    <2>2. CASE gap > 300
      <3>1. dev'.gaps = <<0>> /\ Len(dev'.gaps) = 1
        BY <1>1, <1>3, <2>2, LateEdge
      <3>2. CASE wire.pos = 0
        <4>1. Honest(dev.gaps)'
          BY <3>1 DEF Honest
        <4>2. Level'
          BY <1>1, <3>1, <3>2, <4>1 DEF Level
        <4> QED
          BY <1>1, <1>8, <1>4, <3>1, <3>2, <4>2
      <3>3. CASE wire.pos > 0
        <4>1. Behind'
          BY <1>1, <1>4, <3>1, <3>3 DEF Behind
        <4> QED
          BY <1>1, <1>8, <1>4, <3>1, <3>3, <4>1
      <3> QED
        BY <1>4, <3>2, <3>3
    <2>3. CASE gap <= 300
      <3>1. /\ dev'.gaps = <<>> \/ dev'.gaps = g
            /\ Len(dev'.gaps) <= Len(dev.gaps) + 1
        BY <1>1, <1>3, <2>3, TimelyEdge
      <3>2. Len(dev'.gaps) \in Nat
        BY <1>6, LenProperties DEF DriverSet
      <3>3. CASE ~wire.frame
        <4>1. Len(dev.gaps) <= wire.pos + 1
          BY <1>1, <1>14, <2>1, <2>3, <3>3 DEF ReceiverInv, Keeping
        <4> QED
          BY <1>1, <1>4, <1>8, <3>1, <3>2, <3>3, <4>1
      <3>4. CASE wire.frame
        <4>1. Behind \/ Level \/ Ahead
          BY <1>1, <1>14, <2>1, <2>3, <3>4 DEF ReceiverInv, Keeping
        <4>2. CASE Behind
          BY <1>1, <1>4, <1>8, <3>1, <3>2, <3>4, <4>2 DEF Behind
        <4>3. CASE dev'.gaps = <<>>
          <5>1. Len(dev'.gaps) = 0
            BY <4>3
          <5>2. Behind'
            BY <1>1, <1>4, <5>1 DEF Behind
          <5> QED
            BY <1>8, <3>4, <5>2
        <4>4. CASE (Level \/ Ahead) /\ dev'.gaps = g
          <5>1. g \in Seq(Int) /\ Len(g) = Len(dev.gaps) + 1 /\ Honest(g)
            BY <1>1, <3>4, <4>4, HonestEdge
          <5> HIDE DEF g
          <5>2. Honest(dev.gaps)'
            BY <1>8, <4>4, <5>1 DEF Honest
          <5>3. Level' \/ Ahead'
            BY <1>1, <1>4, <4>4, <5>1, <5>2 DEF Level, Ahead
          <5> QED
            BY <1>8, <3>4, <5>3
        <4> QED
          BY <3>1, <4>1, <4>2, <4>3, <4>4
      <3> QED
        BY <1>4, <3>3, <3>4
    <2> QED
      BY <1>1, <2>2, <2>3
  <1>16. OnlySent'
    <2>1. wire'.frame => wire'.code \in wire'.sent
      BY <1>8 DEF ReceiverInv, OnlySent
    <2>2. ASSUME Mild, Understands(gap), ~Hs0038!TimedOut(gap)
          PROVE  CodeOf(g) \in wire.sent
      <3>1. Len(g) = Hs0038!Frame /\ Len(g) = Len(dev.gaps) + 1 /\ Hs0038!Intact(g)
        BY <1>1, <1>4, <2>2, StoredFacts DEF Understands
      <3>2. Len(dev.gaps) = Hs0038!Frame - 1 /\ Len(dev.gaps) >= 11
        BY <1>4, <3>1, FrameLength
      <3>3. dev.gaps # <<>>
        BY <3>2
      <3>4. gap <= 300
        BY <1>1, <2>2, <3>3 DEF Hs0038!TimedOut
      <3>5. \/ wire.frame /\ (Behind \/ Level \/ Ahead)
            \/ ~wire.frame /\ Len(dev.gaps) <= wire.pos + 1
        BY <1>1, <1>14, <2>2, <3>4 DEF ReceiverInv, Keeping
      <3>6. wire.frame /\ (Level \/ Ahead)
        <4>1. ~(~wire.frame /\ Len(dev.gaps) <= wire.pos + 1)
          BY <1>1, <1>4, <1>5, <3>2
        <4>2. ~(wire.frame /\ Behind)
          BY <1>1, <1>4, <1>5, <3>2, FrameLength DEF Behind
        <4> QED
          BY <3>5, <4>1, <4>2
      <3>7. g \in Seq(Int) /\ Honest(g)
        BY <1>1, <3>6, HonestEdge
      <3> QED
        BY <3>1, <3>6, <3>7, UnderstandsOnlySent
    <2>3. Mild' => Mild
      BY <1>1 DEF Mild
    <2>4. Mild => dev'.data \in wire'.sent /\ user'.code \in wire'.sent /\ Slots' \subseteq wire'.sent
      BY <1>1, <1>8, <2>2, StillSent
    <2> QED
      BY <2>1, <2>3, <2>4 DEF OnlySent
  <1> QED
    BY <1>7, <1>9, <1>11, <1>12, <1>13, <1>15, <1>16 DEF ReceiverInv

\* A lost edge keeps the invariant: after it what is stored lags behind.
LEMMA MissedKeeps ==
    ASSUME ReceiverInv, Hs0038!Missed
    PROVE  ReceiverInv'
  <1>1. /\ SameBurst /\ wire.pos < Hs0038!Edges
        /\ wire'.pos = wire.pos + 1 /\ wire'.since = wire.since + Hs0038!NextGap
        /\ wire'.clean = FALSE /\ wire'.lost = wire.lost + 1 /\ wire'.noise = wire.noise
        /\ dev' = dev /\ user' = user
    BY MissedFields DEF ReceiverInv
  <1>2. Hs0038!Edges' = Hs0038!Edges /\ Slots' = Slots
    BY <1>1, SameBurstFacts DEF Slots
  <1>3. ReceiverTypes
    BY DEF ReceiverInv
  <1>4. wire \in WireSet /\ dev \in DriverSet /\ user \in ReaderSet
        /\ wire.pos \in Nat /\ wire.frame \in BOOLEAN /\ wire.since \in Int
        /\ wire.lost \in Nat /\ wire.noise \in Nat
        /\ Len(dev.gaps) \in Nat /\ Len(dev.gaps) < Hs0038!Frame
    BY <1>3, StateFields
  <1>5. Hs0038!Edges \in Nat /\ Hs0038!NextGap \in Nat
    BY <1>1, <1>4, NextGapFacts
  <1>6. ReceiverTypes'
    BY <1>1, <1>4, <1>5, TypesKeep
  <1>7. wire' \in WireSet /\ wire'.frame = wire.frame /\ wire'.code = wire.code /\ wire'.sent = wire.sent
    BY <1>1 DEF SameBurst
  <1>8. wire'.pos < Hs0038!Edges' => Hs0038!NextGap' \in Nat
    BY <1>7, NextGapFactsPrime
  <1>9. wire'.since >= 0
    BY <1>1, <1>4, <1>5 DEF ReceiverInv, Clock
  <1>10. Clock'
    BY <1>1, <1>4, <1>5, <1>8, <1>9 DEF Clock
  <1>11. ~Undamaged' /\ ~wire'.clean
    BY <1>1, <1>4 DEF Undamaged
  <1>12. Exact' /\ Quiet' /\ CleanFrame'
    BY <1>11 DEF Exact, Quiet, CleanFrame
  <1>13. Mild' => Mild /\ wire.noise # 1
    BY <1>1, <1>4 DEF Mild
  <1>14. Keeping'
    <2> SUFFICES ASSUME Mild', wire'.pos < Hs0038!Edges'
                 PROVE  \/ Clears'
                        \/ wire'.frame /\ (Behind' \/ Level' \/ Ahead')
                        \/ ~wire'.frame /\ Len(dev'.gaps) <= wire'.pos + 1
      BY DEF Keeping
    <2>1. \/ Clears
          \/ wire.frame /\ (Behind \/ Level \/ Ahead)
          \/ ~wire.frame /\ Len(dev.gaps) <= wire.pos + 1
      BY <1>1, <1>13 DEF ReceiverInv, Keeping
    <2>2. CASE Clears
      BY <1>1, <1>4, <1>5, <1>8, <2>2 DEF Clears
    <2>3. CASE wire.frame /\ (Behind \/ Level \/ Ahead)
      <3>1. Len(dev.gaps) <= wire.pos
        BY <1>4, <1>13, <2>3 DEF Behind, Level, Ahead
      <3>2. Behind'
        BY <1>1, <1>4, <3>1 DEF Behind
      <3> QED
        BY <1>7, <2>3, <3>2
    <2>4. CASE ~wire.frame /\ Len(dev.gaps) <= wire.pos + 1
      BY <1>1, <1>4, <1>7, <2>4
    <2> QED
      BY <2>1, <2>2, <2>3, <2>4
  <1>15. OnlySent'
    BY <1>1, <1>2, <1>7, <1>13 DEF ReceiverInv, OnlySent
  <1> QED
    BY <1>6, <1>10, <1>12, <1>14, <1>15 DEF ReceiverInv

\* An edge that is none, the first damage at all, is one ahead of the frame; if it
\* stands where a bit is read and is a long pause, the frame's own pause is longer.
LEMMA HonestNoise ==
    ASSUME ReceiverInv, wire.pos < Hs0038!Edges, wire.frame, Undamaged,
           NEW a \in {3, Hs0038!NextGap - 3}, wire.since + a \in Int
    PROVE  LET g == Stored(wire.since + a)
           IN  g \in Seq(Int) /\ Len(g) = wire.pos + 1 /\ Honest(g)
  <1> DEFINE gap == wire.since + a
             g == Stored(gap)
  <1>0. gap \in Int
    OBVIOUS
  <1>1. wire \in WireSet /\ dev \in DriverSet /\ wire.pos \in Nat
        /\ Len(dev.gaps) \in Nat /\ Len(dev.gaps) < Hs0038!Frame
    BY StateFields DEF ReceiverInv
  <1>2. Hs0038!NextGap = Hs0038!FrameGap(wire.code, wire.pos + 1) /\ Hs0038!NextGap \in Nat
    BY <1>1, NextGapFacts DEF Gap
  <1>3. CASE wire.pos = 0
    <2>1. dev.gaps = <<>>
      BY <1>3 DEF ReceiverInv, Quiet
    <2> HIDE DEF gap
    <2>2. g = <<0>>
      BY <1>0, <1>1, <2>1, StoredFacts
    <2> HIDE DEF g
    <2>3. g \in Seq(Int) /\ Len(g) = 1
      BY <2>2
    <2> QED
      BY <1>3, <2>3 DEF Honest, g, gap
  <1>4. CASE wire.pos > 0
    <2>1. /\ wire.since = 0 /\ Len(dev.gaps) = wire.pos
          /\ \A i \in 2 .. wire.pos : dev.gaps[i] = Hs0038!FrameGap(wire.code, i)
      BY <1>4 DEF ReceiverInv, Exact, OnTime, Gap
    <2>2. dev.gaps # <<>>
      BY <1>4, <2>1
    <2>3. gap = 3 \/ gap = Hs0038!NextGap - 3
      BY <1>2, <2>1
    <2> HIDE DEF gap
    <2>4. /\ g \in Seq(Int) /\ Len(g) = wire.pos + 1
          /\ \A i \in 1 .. wire.pos : g[i] = dev.gaps[i]
          /\ g[wire.pos + 1] = gap
      <3>1. /\ g \in Seq(Int) /\ Len(g) = Len(dev.gaps) + 1
            /\ \A i \in 1 .. Len(dev.gaps) : g[i] = dev.gaps[i]
            /\ g[Len(dev.gaps) + 1] = gap
        BY <1>0, <1>1, <2>2, StoredFacts
      <3> QED
        BY <2>1, <3>1
    <2> HIDE DEF g
    <2>5. ASSUME NEW i \in 5 .. Len(g), g[i] > 10
          PROVE  Hs0038!FrameGap(wire.code, i) > 10
      <3>1. CASE i <= wire.pos
        <4>1. g[i] = Hs0038!FrameGap(wire.code, i)
          BY <1>1, <2>1, <2>4, <3>1
        <4> QED
          BY <2>5, <4>1
      <3>2. CASE i = wire.pos + 1
        BY <1>2, <2>3, <2>4, <2>5, <3>2
      <3> QED
        BY <1>1, <2>4, <3>1, <3>2
    <2>6. Honest(g)
      BY <2>5 DEF Honest
    <2> QED
      BY <2>4, <2>6 DEF g, gap
  <1> QED
    BY <1>1, <1>3, <1>4

\* An added edge keeps the invariant.
LEMMA NoiseKeeps ==
    ASSUME ReceiverInv, Hs0038!Noise
    PROVE  ReceiverInv'
  <1>1. PICK a \in {3, Hs0038!NextGap - 3} :
           /\ SameBurst /\ wire.pos < Hs0038!Edges /\ wire.since >= 0
           /\ wire'.pos = wire.pos /\ wire'.since = -a /\ wire'.clean = FALSE
           /\ wire'.lost = wire.lost /\ wire'.noise = wire.noise + 1 /\ user' = user
           /\ Hs0038!Isr(wire.since + a) /\ wire.since + a \in Int
    BY NoiseFields DEF ReceiverInv
  <1> DEFINE gap == wire.since + a
             g == Stored(gap)
  <1>2. Hs0038!Edges' = Hs0038!Edges
    BY <1>1, SameBurstFacts
  <1>3. ReceiverTypes
    BY DEF ReceiverInv
  <1>4. wire \in WireSet /\ dev \in DriverSet /\ user \in ReaderSet
        /\ wire.pos \in Nat /\ wire.frame \in BOOLEAN /\ wire.since \in Int
        /\ wire.lost \in Nat /\ wire.noise \in Nat
        /\ Len(dev.gaps) \in Nat /\ Len(dev.gaps) < Hs0038!Frame
    BY <1>3, StateFields
  <1>5. /\ Hs0038!Edges \in Nat /\ Hs0038!Edges <= Hs0038!Frame
        /\ ~wire.frame => Hs0038!Edges = 4
        /\ Hs0038!NextGap \in Nat /\ Hs0038!NextGap >= 6
        /\ wire.pos > 0 => Hs0038!NextGap <= 90
    BY <1>1, <1>4, NextGapFacts
  <1>6. a \in Int /\ a <= Hs0038!NextGap /\ a >= 3 /\ (wire.pos > 0 => a <= 90)
    BY <1>5
  <1>7. dev' \in DriverSet /\ Len(dev'.gaps) < Hs0038!Frame
    BY <1>1, <1>4, IsrCases
  <1>8. ReceiverTypes'
    BY <1>1, <1>4, <1>5, <1>7, TypesKeep
  <1>9. wire' \in WireSet /\ wire'.frame = wire.frame /\ wire'.code = wire.code /\ wire'.sent = wire.sent
    BY <1>1 DEF SameBurst
  <1>10. Hs0038!NextGap' = Hs0038!NextGap
    BY <1>1, <1>9 DEF Hs0038!NextGap
  <1>11. Clock'
    BY <1>1, <1>2, <1>5, <1>6, <1>10 DEF Clock
  <1>12. ~Undamaged' /\ ~wire'.clean
    BY <1>1, <1>4 DEF Undamaged
  <1>13. Exact' /\ Quiet' /\ CleanFrame'
    BY <1>12 DEF Exact, Quiet, CleanFrame
  <1>14. Mild' => Mild /\ Undamaged /\ wire'.noise = 1
    BY <1>1, <1>4 DEF Mild, Undamaged
  <1>15. Undamaged /\ wire.pos > 0 => wire.since = 0 /\ Len(dev.gaps) = wire.pos /\ dev.gaps # <<>>
    BY <1>1 DEF ReceiverInv, Exact, OnTime
  <1>16. Undamaged /\ wire.pos = 0 => wire.since = 0 /\ dev.gaps = <<>>
    BY DEF ReceiverInv, Quiet
  <1>17. Keeping'
    <2> SUFFICES ASSUME Mild', wire'.pos < Hs0038!Edges'
                 PROVE  \/ Clears'
                        \/ wire'.frame /\ (Behind' \/ Level' \/ Ahead')
                        \/ ~wire'.frame /\ Len(dev'.gaps) <= wire'.pos + 1
      BY DEF Keeping
    <2>1. CASE wire.pos = 0
      <3>1. dev'.gaps = <<0>> /\ Len(dev'.gaps) = 1
        BY <1>1, <1>3, <1>14, <1>16, <2>1, LateEdge
      <3>2. Honest(dev.gaps)'
        BY <3>1 DEF Honest
      <3>3. Ahead'
        BY <1>1, <1>6, <1>14, <2>1, <3>1, <3>2 DEF Ahead
      <3>4. ~wire'.frame => Len(dev'.gaps) <= wire'.pos + 1
        BY <1>1, <2>1, <3>1
      <3> QED
        BY <1>4, <1>9, <3>3, <3>4
    <2>2. CASE wire.pos > 0
      <3>1. gap <= 300 /\ Len(dev.gaps) = wire.pos
        BY <1>6, <1>14, <1>15, <2>2
      <3>2. /\ dev'.gaps = <<>> \/ dev'.gaps = g
            /\ Len(dev'.gaps) <= Len(dev.gaps) + 1
        BY <1>1, <1>3, <3>1, TimelyEdge
      <3>3. CASE ~wire.frame
        BY <1>1, <1>9, <3>1, <3>2, <3>3
      <3>4. CASE wire.frame /\ dev'.gaps = <<>>
        <4>1. Len(dev'.gaps) = 0
          BY <3>4
        <4>2. Behind'
          BY <1>1, <2>2, <4>1 DEF Behind
        <4> QED
          BY <1>9, <3>4, <4>2
      <3>5. CASE wire.frame /\ dev'.gaps = g
        <4>1. g \in Seq(Int) /\ Len(g) = wire.pos + 1 /\ Honest(g)
          BY <1>1, <1>14, <3>5, HonestNoise
        <4> HIDE DEF g
        <4>2. Honest(dev.gaps)'
          BY <1>9, <3>5, <4>1 DEF Honest
        <4>3. Ahead'
          BY <1>1, <1>6, <1>14, <3>5, <4>1, <4>2 DEF Ahead
        <4> QED
          BY <1>9, <3>5, <4>3
      <3> QED
        BY <1>4, <3>2, <3>3, <3>4, <3>5
    <2> QED
      BY <1>4, <2>1, <2>2
  <1>18. OnlySent'
    <2>1. wire'.frame => wire'.code \in wire'.sent
      BY <1>9 DEF ReceiverInv, OnlySent
    <2>2. ASSUME Undamaged, Understands(gap)
          PROVE  CodeOf(g) \in wire.sent
      <3>1. Len(g) = Hs0038!Frame /\ Len(g) = Len(dev.gaps) + 1 /\ Hs0038!Intact(g)
        BY <1>1, <1>4, <2>2, StoredFacts DEF Understands
      <3>2. Len(dev.gaps) >= 11
        BY <1>4, <3>1, FrameLength
      <3>3. Len(dev.gaps) = wire.pos
        <4>1. Len(<<>>) = 0
          OBVIOUS
        <4> QED
          BY <1>4, <1>15, <1>16, <2>2, <3>2, <4>1
      <3>4. wire.frame
        BY <1>1, <1>4, <1>5, <3>2, <3>3
      <3>5. g \in Seq(Int) /\ Honest(g)
        BY <1>1, <2>2, <3>4, HonestNoise
      <3> QED
        BY <3>1, <3>4, <3>5, UnderstandsOnlySent
    <2>3. Mild /\ Undamaged =>
              dev'.data \in wire'.sent /\ user'.code \in wire'.sent /\ Slots' \subseteq wire'.sent
      BY <1>1, <1>9, <2>2, StillSent
    <2> QED
      BY <1>14, <2>1, <2>3 DEF OnlySent
  <1> QED
    BY <1>8, <1>11, <1>13, <1>17, <1>18 DEF ReceiverInv

\* A burst that starts keeps the invariant: its first edge will come late.
LEMMA BurstKeeps ==
    ASSUME ReceiverInv, NEW frame \in BOOLEAN, NEW code \in Codes,
           Hs0038!BurstStarts(frame, code)
    PROVE  ReceiverInv'
  <1>1. /\ wire' \in WireSet /\ wire.pos = Hs0038!Edges
        /\ wire'.frame = frame /\ wire'.code = code /\ wire'.pos = 0 /\ wire'.since = wire.since
        /\ wire'.clean = frame /\ wire'.before = dev.heard
        /\ wire'.lost = wire.lost /\ wire'.noise = wire.noise
        /\ wire.sent \subseteq wire'.sent /\ (frame => code \in wire'.sent)
        /\ dev' = dev /\ user' = user
    BY BurstFields DEF ReceiverInv
  <1>2. ReceiverTypes
    BY DEF ReceiverInv
  <1>3. wire \in WireSet /\ dev \in DriverSet /\ user \in ReaderSet /\ wire.since \in Int
        /\ Len(dev.gaps) < Hs0038!Frame
    BY <1>2, StateFields
  <1>4. Hs0038!Edges \in Nat /\ Hs0038!Edges >= 4
    BY <1>3, NextGapFacts
  <1>5. /\ Hs0038!Edges' \in Nat /\ Hs0038!Edges' >= 4
        /\ Hs0038!NextGap' \in Nat /\ Hs0038!NextGap' >= 420
    BY <1>1, NextGapFactsPrime
  <1>6. wire.since >= 0
    BY <1>1, <1>4 DEF ReceiverInv, Clock
  <1>7. ReceiverTypes'
    BY <1>1, <1>3, <1>5 DEF ReceiverTypes, Hs0038!Frame
  <1>8. Clock'
    BY <1>1, <1>3, <1>5, <1>6 DEF Clock
  <1>9. Exact'
    BY <1>1 DEF Exact, OnTime
  <1>10. Quiet'
    <2>1. Undamaged' => wire.since = 0 /\ dev.gaps = <<>>
      BY <1>1 DEF ReceiverInv, Quiet, Undamaged
    <2> QED
      BY <1>1, <2>1 DEF Quiet
  <1>11. CleanFrame'
    BY <1>1, <1>5, <1>6 DEF CleanFrame
  <1>12. Clears'
    BY <1>1, <1>3, <1>5, <1>6 DEF Clears
  <1>13. Keeping'
    BY <1>12 DEF Keeping
  <1>14. OnlySent'
    BY <1>1 DEF ReceiverInv, OnlySent, Mild, Slots
  <1> QED
    BY <1>7, <1>8, <1>9, <1>10, <1>11, <1>13, <1>14 DEF ReceiverInv

\* The process that reads keeps the invariant: it changes neither what is stored
\* nor the codes.
LEMMA ReaderKeeps ==
    ASSUME ReceiverInv, Hs0038!Call \/ Hs0038!Signal \/ Hs0038!Return
    PROVE  ReceiverInv'
  <1>1. wire \in WireSet /\ dev \in DriverSet /\ user \in ReaderSet
    BY DEF ReceiverInv, ReceiverTypes
  <1> DEFINE next == (dev.r + 1) % SLOTS
  <1>2. dev.r \in 0 .. SLOTS - 1
    BY <1>1 DEF DriverSet
  <1>3. next \in 0 .. SLOTS - 1
    BY <1>2, CodeAssumption
  <1>4. /\ wire' = wire
        /\ \/ /\ dev' = dev
              /\ \/ user' = [user EXCEPT !.pc = "wait"]
                 \/ user' = [user EXCEPT !.pc = "user", !.cut = TRUE]
           \/ /\ dev' = [dev EXCEPT !.r = next]
              /\ user' = [user EXCEPT !.pc = "user", !.code = dev.slot[dev.r]]
    BY DEF Hs0038!Call, Hs0038!Signal, Hs0038!Return
  <1> HIDE DEF next
  <1>5. /\ dev' \in DriverSet /\ dev'.gaps = dev.gaps /\ dev'.data = dev.data
        /\ dev'.heard = dev.heard /\ dev'.slot = dev.slot
    BY <1>1, <1>3, <1>4 DEF DriverSet
  <1>6. dev.slot[dev.r] \in CodeSet /\ dev.slot[dev.r] \in Slots
    BY <1>1, <1>2 DEF DriverSet, Slots
  <1>7. user' \in ReaderSet /\ (user'.code = user.code \/ user'.code \in Slots)
    BY <1>1, <1>4, <1>6 DEF ReaderSet
  <1>8. Hs0038!Edges' = Hs0038!Edges /\ Hs0038!NextGap' = Hs0038!NextGap
    BY <1>4 DEF Hs0038!Edges, Hs0038!NextGap
  <1>9. ReceiverTypes'
    BY <1>4, <1>5, <1>7, <1>8 DEF ReceiverInv, ReceiverTypes, Hs0038!Frame
  <1>10. Clock'
    BY <1>4, <1>8 DEF ReceiverInv, Clock
  <1>11. OnTime' <=> OnTime
    BY <1>4, <1>5, <1>8 DEF OnTime, Gap
  <1>12. Exact' /\ Quiet' /\ CleanFrame'
    BY <1>4, <1>5, <1>8, <1>11 DEF ReceiverInv, Exact, Quiet, CleanFrame, Undamaged
  <1>13. Keeping'
    BY <1>4, <1>5, <1>8
    DEF ReceiverInv, Keeping, Mild, Clears, Behind, Level, Ahead, Honest
  <1>14. OnlySent'
    BY <1>4, <1>5, <1>7 DEF ReceiverInv, OnlySent, Mild, Slots
  <1> QED
    BY <1>9, <1>10, <1>12, <1>13, <1>14 DEF ReceiverInv

\* The invariant of the receiver holds at first.
LEMMA ReceiverInit ==
    ASSUME NEW rings \in BOOLEAN, Hs0038!Init(rings)
    PROVE  ReceiverInv
  <1>1. /\ wire = [frame |-> FALSE, code |-> Hs0038!NoCode, pos |-> 4, since |-> 0, clean |-> FALSE,
                   sent |-> {Hs0038!NoCode}, before |-> 0, bursts |-> 0, lost |-> 0, noise |-> 0]
        /\ dev = [gaps |-> <<>>, data |-> Hs0038!NoCode, r |-> 0, w |-> 0, heard |-> 0, rings |-> rings,
                  slot |-> [i \in 0 .. SLOTS - 1 |-> Hs0038!NoCode]]
        /\ user = [pc |-> "user", cut |-> FALSE, code |-> Hs0038!NoCode]
    BY DEF Hs0038!Init
  <1>2. Hs0038!NoCode \in CodeSet
    BY DEF Hs0038!NoCode, Hs0038!Zero, CodeSet, ByteSet
  <1>3. 0 \in 0 .. SLOTS - 1 /\ <<>> \in Seq(Int) /\ Len(<<>>) = 0
    BY CodeAssumption
  <1> DEFINE slots == [i \in 0 .. SLOTS - 1 |-> Hs0038!NoCode]
  <1>4. slots \in [0 .. SLOTS - 1 -> CodeSet]
    BY <1>2
  <1>5. wire \in WireSet /\ user \in ReaderSet
    BY <1>1, <1>2 DEF WireSet, ReaderSet
  <1>6. dev = [gaps |-> <<>>, data |-> Hs0038!NoCode, r |-> 0, w |-> 0, heard |-> 0, rings |-> rings,
               slot |-> slots]
    BY <1>1
  <1>7. \A i \in 0 .. SLOTS - 1 : slots[i] = Hs0038!NoCode
    OBVIOUS
  <1> HIDE DEF slots
  <1>8. dev \in DriverSet /\ dev.gaps = <<>> /\ dev.slot = slots /\ dev.data = Hs0038!NoCode
    BY <1>2, <1>3, <1>4, <1>6 DEF DriverSet
  <1>9. /\ wire.frame = FALSE /\ wire.pos = 4 /\ wire.since = 0 /\ wire.clean = FALSE
        /\ wire.sent = {Hs0038!NoCode} /\ user.code = Hs0038!NoCode
    BY <1>1
  <1>10. Hs0038!Edges = 4
    BY <1>9 DEF Hs0038!Edges
  <1>11. ReceiverTypes
    BY <1>3, <1>5, <1>8, <1>9, <1>10, FrameLength DEF ReceiverTypes
  <1>12. Clock /\ Exact /\ Quiet /\ CleanFrame /\ Keeping
    BY <1>8, <1>9, <1>10 DEF Clock, Exact, OnTime, Quiet, CleanFrame, Keeping
  <1>13. OnlySent
    BY <1>7, <1>8, <1>9 DEF OnlySent, Slots
  <1> QED
    BY <1>11, <1>12, <1>13 DEF ReceiverInv

\* Every step of the receiver keeps its invariant.
LEMMA ReceiverStep ==
    ASSUME ReceiverInv, Hs0038!InputNext \/ Hs0038!ParseOnlyNext
    PROVE  ReceiverInv'
  BY EdgeKeeps, MissedKeeps, NoiseKeeps, BurstKeeps, ReaderKeeps
  DEF Hs0038!InputNext, Hs0038!ParseOnlyNext, Hs0038!Light

-------------------------------------------------------------------------------
\* The temperatures.

\* The two bytes of a temperature, and when the first driver loses some of it.
Low(raw) == raw % 256
High(raw) == (raw \div 256) % 256
Below(raw) == raw < 0
Loses(raw) == raw > -16 \/ raw % 256 = 0
SaysSo(raw, value) == Says(value) = Hundredths(raw)

\* A number and its lowest byte.
LEMMA LowByte ==
    ASSUME NEW raw \in Int
    PROVE  raw = 256 * (raw \div 256) + (raw % 256) /\ raw % 256 \in 0 .. 255 /\ raw \div 256 \in Int
  <1>1. raw = 256 * (raw \div 256) + (raw % 256)
    OBVIOUS
  <1>2. raw % 256 \in 0 .. 255
    OBVIOUS
  <1>3. raw \div 256 \in Int
    OBVIOUS
  <1> QED
    BY <1>1, <1>2, <1>3

\* The high byte of a number that is negative.
LEMMA ColdByte ==
    ASSUME NEW raw \in Int, raw >= -32768, raw < 0
    PROVE  raw \div 256 \in -128 .. -1 /\ (raw \div 256) % 256 = 256 + (raw \div 256)
  <1>1. raw \div 256 \in -128 .. -1
    OBVIOUS
  <1>2. \A k \in -128 .. -1 : k % 256 = 256 + k
    OBVIOUS
  <1> DEFINE high == raw \div 256
  <1>3. high \in -128 .. -1
    BY <1>1
  <1> HIDE DEF high
  <1>4. high \in -128 .. -1 /\ high % 256 = 256 + high
    BY <1>2, <1>3
  <1> QED
    BY <1>4 DEF high

\* A number of sixteenths in hundredths, cut off, and the same in two parts.
Byte == 0 .. 255
CutOff(high, low) == ((256 * high + low) * 100) \div 16
InParts(high, low) == 100 * (16 * high + (low \div 16)) + Decimal(low)

\* The two parts of a conversion add up: nothing is cut off twice (Decimal).
LEMMA SixteenthsAre ==
    ASSUME NEW high \in Byte, NEW low \in Byte
    PROVE  CutOff(high, low) = InParts(high, low)
  <1>1. \A n \in 0 .. 15 : ((n * 10) \div 16) * 10 + (((n * 100) \div 16) % 10) = (n * 100) \div 16
    OBVIOUS
  <1> USE DEF Byte
  <1>2. low % 16 \in 0 .. 15
    OBVIOUS
  <1>3. Decimal(low) = ((low % 16) * 100) \div 16
    BY <1>1, <1>2 DEF Decimal
  <1>4. ((256 * high + low) * 100) \div 16
            = 100 * (16 * high + (low \div 16)) + (((low % 16) * 100) \div 16)
    OBVIOUS
  <1> QED
    BY <1>3, <1>4 DEF CutOff, InParts

\* What the last four bits say is a number.
LEMMA DecimalIsNat == ASSUME NEW low \in 0 .. 255 PROVE Decimal(low) \in Nat /\ low \div 16 \in 0 .. 15
  <1>1. low % 16 \in 0 .. 15
    OBVIOUS
  <1>2. \A n \in 0 .. 15 : ((n * 10) \div 16) * 10 + (((n * 100) \div 16) % 10) \in Nat
    OBVIOUS
  <1>3. low \div 16 \in 0 .. 15
    OBVIOUS
  <1> QED
    BY <1>1, <1>2, <1>3 DEF Decimal

\* A temperature is a number of two bytes.
LEMMA RawsAre == ASSUME NEW raw \in Raws PROVE raw \in Int /\ raw >= -32768 /\ raw <= 32767
  BY DEF Raws

\* Both conversions tell a temperature that is not below zero.
LEMMA WarmIsTrue ==
    ASSUME NEW raw \in Raws, ~Below(raw)
    PROVE  /\ SaysSo(raw, Calc(Low(raw), High(raw)))
           /\ SaysSo(raw, CalcTemplate(Low(raw), High(raw)))
  <1>1. raw \in Int /\ raw >= 0 /\ raw <= 32767
    BY RawsAre DEF Below
  <1>2. raw \in Nat
    BY <1>1
  <1> DEFINE low == raw % 256
             high == raw \div 256
             value == <<16 * high + (low \div 16), Decimal(low)>>
  <1>3. /\ raw = 256 * high + low /\ low \in 0 .. 255
        /\ high \in 0 .. 127
    <2>1. raw \div 256 >= 0
      BY <1>1
    <2>2. raw \div 256 <= 127
      BY <1>1
    <2>3. raw = 256 * high + low /\ low \in 0 .. 255 /\ high \in Int
      BY <1>2, LowByte
    <2> QED
      BY <2>1, <2>2, <2>3
  <1> HIDE DEF low, high
  <1>4. ~(high > 127)
    BY <1>3
  <1>5. Calc(low, high) = value /\ CalcTemplate(low, high) = value
    BY <1>4 DEF Calc, CalcTemplate
  <1>6. (raw * 100) \div 16 = 100 * (16 * high + (low \div 16)) + Decimal(low)
    <2>1. CutOff(high, low) = InParts(high, low)
      <3>1. high \in Byte /\ low \in Byte
        BY <1>3 DEF Byte
      <3> QED
        BY <3>1, SixteenthsAre
    <2> QED
      BY <1>3, <2>1 DEF CutOff, InParts
  <1>7. 16 * high + (low \div 16) \in Nat /\ ~(raw < 0)
    BY <1>2, <1>3, DecimalIsNat
  <1>8. Says(value) = Hundredths(raw)
    <2>1. Hundredths(raw) = 100 * (16 * high + (low \div 16)) + Decimal(low)
      BY <1>6, <1>7 DEF Hundredths
    <2>2. value[1] = 16 * high + (low \div 16) /\ value[2] = Decimal(low)
      OBVIOUS
    <2> HIDE DEF value
    <2>3. ~(value[1] < 0)
      BY <1>7, <2>2
    <2>4. Says(value) = 100 * value[1] + value[2]
      BY <2>3 DEF Says
    <2> QED
      BY <2>1, <2>2, <2>4
  <1>9. high % 256 = high
    BY <1>3
  <1>10. /\ Says(Calc(low, high % 256)) = Hundredths(raw)
         /\ Says(CalcTemplate(low, high % 256)) = Hundredths(raw)
    BY <1>5, <1>8, <1>9
  <1> QED
    BY <1>10 DEF low, high, Low, High, SaysSo

\* The first driver's tells one below zero, if it loses neither its sign nor a carry.
LEMMA ColdIsTrue ==
    ASSUME NEW raw \in Raws, Below(raw), ~Loses(raw)
    PROVE  SaysSo(raw, Calc(Low(raw), High(raw)))
  <1>1. raw \in Int /\ raw >= -32768 /\ raw <= -16
    BY RawsAre DEF Loses
  <1>2. raw \in Int /\ raw >= -32768 /\ raw < 0
    BY <1>1
  <1>3. raw % 256 # 0
    BY DEF Loses
  <1> DEFINE low == raw % 256
             high == (raw \div 256) % 256
             neg == 256 - low
             q == 255 - high
             value == << -(16 * q + (neg \div 16)), Decimal(neg) >>
  <1>4. low \in 1 .. 255 /\ high \in 128 .. 255 /\ raw = 256 * (high - 256) + low
    <2>1. raw \div 256 \in -128 .. -1 /\ high = 256 + (raw \div 256)
      BY <1>2, ColdByte
    <2>2. raw = 256 * (raw \div 256) + low /\ low \in 0 .. 255
      BY <1>2, LowByte
    <2> QED
      BY <1>3, <2>1, <2>2
  <1> HIDE DEF low, high
  <1>5. neg \in 1 .. 255 /\ q \in 0 .. 127 /\ -raw = 256 * q + neg /\ high > 127
    BY <1>1, <1>4
  <1>6. (256 - low) % 256 = neg
    BY <1>5
  <1>7. Calc(low, high) = value
    BY <1>5, <1>6 DEF Calc
  <1> HIDE DEF neg, q
  <1>8. (-raw * 100) \div 16 = 100 * (16 * q + (neg \div 16)) + Decimal(neg)
    <2>1. CutOff(q, neg) = InParts(q, neg)
      <3>1. q \in Byte /\ neg \in Byte
        BY <1>5 DEF Byte
      <3> QED
        BY <3>1, SixteenthsAre
    <2>2. -raw * 100 = (256 * q + neg) * 100
      BY <1>1, <1>5
    <2> QED
      BY <2>1, <2>2 DEF CutOff, InParts
  <1>9. Decimal(neg) \in Nat /\ neg \div 16 \in 0 .. 15
    BY <1>5, DecimalIsNat
  <1>10. -(16 * q + (neg \div 16)) < 0
    <2>1. CASE q >= 1
      BY <1>5, <1>9, <2>1
    <2>2. CASE q = 0
      <3>1. neg >= 16
        BY <1>1, <1>5, <2>2
      <3>2. neg \div 16 >= 1
        BY <1>5, <3>1
      <3> QED
        BY <1>9, <2>2, <3>2
    <2> QED
      BY <1>5, <2>1, <2>2
  <1>11. Says(value) = Hundredths(raw)
    BY <1>2, <1>5, <1>8, <1>9, <1>10 DEF Says, Hundredths
  <1> QED
    BY <1>7, <1>11 DEF low, high, Low, High, SaysSo

\* Bytes that no noise damages arrive as they were sent.
LEMMA NoFlip == ASSUME NEW b, NEW i PROVE Flip(b, i, {}) = b
  BY DEF Flip, FoldSet, MapThenFoldSet

\* What the drivers make of a temperature's two bytes: the truth, but for a first
\* driver's result that has lost its sign or 16 degrees, and for everything below
\* zero in the template's.
LEMMA Conversions ==
    ASSUME NEW raw \in Raws
    PROVE  /\ ~Below(raw) => /\ SaysSo(raw, Calc(Low(raw), High(raw)))
                             /\ SaysSo(raw, CalcTemplate(Low(raw), High(raw)))
           /\ Below(raw) /\ ~Loses(raw) => SaysSo(raw, Calc(Low(raw), High(raw)))
  BY WarmIsTrue, ColdIsTrue

\* The temperatures are those of a setting, and what a process has read is true.
SettingRuns == \E s \in Settings : wire.line = s.line /\ dev.raw = s.raw /\ dev.noisy = s.noisy
IsTrue(result) ==
    \/ wire.line = "low" /\ result = <<0, 0>>
    \/ HasChip /\ \/ SaysSo(dev.raw, result)
                  \/ Below(dev.raw) /\ (dev.kind = "template" \/ Loses(dev.raw))
TemperatureInv == /\ SettingRuns /\ dev.kind \in {"ds18b20", "template"}
                  /\ \A p \in Users : user[p].result # Failed => IsTrue(user[p].result)

\* What a driver makes of the nine bytes.
Value(data) == IF dev.kind = "ds18b20" THEN Calc(data[1], data[2]) ELSE CalcTemplate(data[1], data[2])

\* A setting's line is one of four, and its temperature has two bytes.
LEMMA SettingFacts ==
    ASSUME NEW s \in Settings
    PROVE  s.line \in {"chip", "late", "none", "low"} /\ s.raw \in Raws
  <1>1. s.line \in DOMAIN Polls /\ s.raw \in Raws
    BY SettingAssumption, Zenon
  <1>2. DOMAIN Polls = {"chip", "late", "none", "low"}
    BY DEF Polls
  <1> QED
    BY <1>1, <1>2

\* The first two bytes of a chip's scratchpad that passes its check are the two of
\* the temperature.
LEMMA ChipSends ==
    ASSUME SettingRuns, wire.line = "chip", NEW flips \in IF dev.noisy THEN Noises ELSE {{}},
           Checked(Transfer(flips))
    PROVE  /\ dev.raw \in Raws
           /\ Transfer(flips)[1] = Low(dev.raw) /\ Transfer(flips)[2] = High(dev.raw)
  <1>1. PICK s \in Settings : wire.line = s.line /\ dev.raw = s.raw /\ dev.noisy = s.noisy
    BY DEF SettingRuns
  <1>2. dev.raw \in Raws
    BY <1>1, SettingFacts
  <1>3. Transfer(flips) = Damaged(dev.raw, flips)
    BY DEF Transfer, HasChip
  <1>4. CASE dev.noisy
    <2>1. flips \in Noises
      BY <1>4
    <2>2. s.line = "chip" /\ s.noisy /\ Checked(Damaged(s.raw, flips))
      BY <1>1, <1>3, <1>4
    <2>3. Damaged(s.raw, flips)[1] = Low(s.raw) /\ Damaged(s.raw, flips)[2] = High(s.raw)
      BY <2>1, <2>2, ChecksumAssumption, Zenon DEF Low, High
    <2> QED
      BY <1>1, <1>2, <1>3, <2>3
  <1>5. CASE ~dev.noisy
    <2>1. flips = {}
      BY <1>5
    <2>2. /\ Damaged(dev.raw, flips)[1] = Flip(Bytes(dev.raw)[1], 1, flips)
          /\ Damaged(dev.raw, flips)[2] = Flip(Bytes(dev.raw)[2], 2, flips)
      BY DEF Damaged
    <2>3. Bytes(dev.raw)[1] = Low(dev.raw) /\ Bytes(dev.raw)[2] = High(dev.raw)
      BY DEF Bytes, Low, High
    <2>4. /\ Flip(Bytes(dev.raw)[1], 1, flips) = Bytes(dev.raw)[1]
          /\ Flip(Bytes(dev.raw)[2], 2, flips) = Bytes(dev.raw)[2]
      BY <2>1, NoFlip
    <2> QED
      BY <1>2, <1>3, <2>2, <2>3, <2>4
  <1> QED
    BY <1>4, <1>5

\* A read that gets through says the truth: a reset tells a chip that is late, and
\* the check a line without one.
LEMMA ReadIsTrue ==
    ASSUME SettingRuns, dev.kind \in {"ds18b20", "template"},
           NEW flips \in IF dev.noisy THEN Noises ELSE {{}},
           ~ResetFails, Checked(Transfer(flips))
    PROVE  IsTrue(Value(Transfer(flips)))
  <1>1. wire.line \in {"chip", "late", "none", "low"}
    BY SettingFacts DEF SettingRuns
  <1>2. CASE wire.line = "chip"
    <2>1. /\ dev.raw \in Raws
          /\ Transfer(flips)[1] = Low(dev.raw) /\ Transfer(flips)[2] = High(dev.raw)
      BY <1>2, ChipSends
    <2>2. /\ ~Below(dev.raw) => /\ SaysSo(dev.raw, Calc(Low(dev.raw), High(dev.raw)))
                                /\ SaysSo(dev.raw, CalcTemplate(Low(dev.raw), High(dev.raw)))
          /\ Below(dev.raw) /\ ~Loses(dev.raw) => SaysSo(dev.raw, Calc(Low(dev.raw), High(dev.raw)))
      BY <2>1, Conversions
    <2>3. Value(Transfer(flips)) = IF dev.kind = "ds18b20" THEN Calc(Low(dev.raw), High(dev.raw))
                                   ELSE CalcTemplate(Low(dev.raw), High(dev.raw))
      BY <2>1 DEF Value
    <2>4. HasChip
      BY <1>2 DEF HasChip
    <2> QED
      BY <2>2, <2>3, <2>4 DEF IsTrue
  <1>3. CASE wire.line = "late"
    BY <1>3 DEF ResetFails, ChipInitFails, TemplateResetFails, Count, Left, Polls
  <1>4. CASE wire.line = "none"
    <2>1. Transfer(flips) = [i \in 1 .. 9 |-> 255]
      BY <1>4 DEF Transfer, HasChip
    <2> QED
      BY <2>1, ChecksumAssumption
  <1>5. CASE wire.line = "low"
    <2>1. Transfer(flips)[1] = 0 /\ Transfer(flips)[2] = 0
      BY <1>5 DEF Transfer, HasChip
    <2>2. Calc(0, 0) = <<0, 0>> /\ CalcTemplate(0, 0) = <<0, 0>>
      BY DEF Calc, CalcTemplate, Decimal
    <2>3. Value(Transfer(flips)) = <<0, 0>>
      BY <2>1, <2>2 DEF Value
    <2> QED
      BY <1>5, <2>3 DEF IsTrue
  <1> QED
    BY <1>1, <1>2, <1>3, <1>4, <1>5

\* A step after which a process has what it had, or has read the truth or nothing.
LEMMA SameTemperature ==
    ASSUME TemperatureInv, UNCHANGED dev, wire'.line = wire.line,
           \A p \in Users : \/ user'[p].result = user[p].result
                            \/ user'[p].result = Failed
                            \/ IsTrue(user'[p].result)
    PROVE  TemperatureInv'
  <1>1. \A result : IsTrue(result) => IsTrue(result)'
    BY DEF IsTrue, HasChip
  <1>2. ASSUME NEW p \in Users, user'[p].result # Failed PROVE IsTrue(user'[p].result)
    BY <1>2 DEF TemperatureInv
  <1>3. ASSUME NEW p \in Users, user'[p].result # Failed PROVE IsTrue(user[p].result)'
    BY <1>2, <1>3 DEF IsTrue, HasChip
  <1>4. SettingRuns' /\ dev'.kind \in {"ds18b20", "template"}
    BY DEF TemperatureInv, SettingRuns
  <1> QED
    BY <1>3, <1>4 DEF TemperatureInv

\* The second half of a read.
LEMMA FetchIsTrue ==
    ASSUME ConversionTypes, TemperatureInv, NEW p \in Users, NEW cut \in BOOLEAN, Fetch(p, cut)
    PROVE  TemperatureInv'
  <1>1. PICK flips \in IF dev.noisy THEN Noises ELSE {{}} :
            /\ user' = [user EXCEPT ![p] = [@ EXCEPT !.pc = "user", !.cut = cut, !.got = wire.held,
                            !.result = IF ~ResetFails /\ Checked(Transfer(flips))
                                       THEN Value(Transfer(flips)) ELSE Failed]]
            /\ wire' = [wire EXCEPT !.mode = "idle"] /\ UNCHANGED dev
    BY Zenon DEF Fetch, Value
  <1> DEFINE result == IF ~ResetFails /\ Checked(Transfer(flips)) THEN Value(Transfer(flips)) ELSE Failed
  <1>2. result = Failed \/ IsTrue(result)
    BY ReadIsTrue DEF TemperatureInv
  <1> HIDE DEF result
  <1>3. user' = [user EXCEPT ![p] = [@ EXCEPT !.pc = "user", !.cut = cut, !.got = wire.held,
                                              !.result = result]]
    BY <1>1 DEF result
  <1>4. user'[p] = [user[p] EXCEPT !.pc = "user", !.cut = cut, !.got = wire.held, !.result = result]
    BY <1>3 DEF ConversionTypes
  <1>5. \A q \in Users \ {p} : user'[q] = user[q]
    BY <1>3 DEF ConversionTypes
  <1>6. DOMAIN user[p] = UserFields
    BY DEF ConversionTypes
  <1>7. user'[p].result = result
    BY <1>4, <1>6 DEF UserFields
  <1>8. wire'.line = wire.line
    BY <1>1 DEF ConversionTypes, WireFields
  <1> QED
    BY <1>1, <1>2, <1>5, <1>7, <1>8, SameTemperature

\* The first half of a read leaves no result.
LEMMA StartKeepsTruth ==
    ASSUME ConversionTypes, TemperatureInv, NEW p \in Users, Start(p)
    PROVE  TemperatureInv'
  <1>1. DOMAIN user[p] = UserFields
    BY DEF ConversionTypes
  <1>2. CASE ResetFails
    <2>1. UNCHANGED <<wire, dev>> /\ user' = [user EXCEPT ![p].result = Failed]
      BY <1>2 DEF Start
    <2>2. user'[p] = [user[p] EXCEPT !.result = Failed]
      BY <2>1 DEF ConversionTypes
    <2>3. \A q \in Users \ {p} : user'[q] = user[q]
      BY <2>1 DEF ConversionTypes
    <2>4. user'[p].result = Failed
      BY <1>1, <2>2 DEF UserFields
    <2> QED
      BY <2>1, <2>3, <2>4, SameTemperature
  <1>3. CASE ~ResetFails
    <2>1. PICK w \in Started([wire EXCEPT !.mode = "function"]) :
            /\ wire' = w /\ UNCHANGED dev
            /\ user' = Disturb(p, [user[p] EXCEPT !.pc = "sleep", !.cut = FALSE,
                                       !.disturbed = wire.conv # 0, !.own = w.starts,
                                       !.until = w.conv, !.result = Failed])
      BY <1>3 DEF Start
    <2> DEFINE mine == [user[p] EXCEPT !.pc = "sleep", !.cut = FALSE, !.disturbed = wire.conv # 0,
                                       !.own = w.starts, !.until = w.conv, !.result = Failed]
    <2>2. wire'.line = wire.line
      BY <2>1, StartedFields
    <2>3. DOMAIN mine = UserFields /\ mine.result = Failed
      BY <1>1 DEF UserFields
    <2>4. user' = Disturb(p, mine)
      BY <2>1
    <2> HIDE DEF mine
    <2>5. user'[p] = mine /\ \A q \in Users \ {p} : user'[q].result = user[q].result
      BY <2>3, <2>4, DisturbFields
    <2> QED
      BY <2>1, <2>2, <2>3, <2>5, SameTemperature
  <1> QED
    BY <1>2, <1>3

\* Whoever sends bytes keeps what it has read before.
LEMMA SendKeepsTruth ==
    ASSUME ConversionTypes, TemperatureInv, NEW p \in Users, SendSteps(p)
    PROVE  TemperatureInv'
  <1>1. DOMAIN user[p] = UserFields
    BY DEF ConversionTypes
  <1>2. CASE IoctlInit(p)
    <2>1. wire'.line = wire.line /\ UNCHANGED <<dev, user>>
      BY <1>2 DEF IoctlInit, ConversionTypes, WireFields
    <2> QED
      BY <2>1, SameTemperature
  <1>3. CASE Ioctl(p) \/ Write(p)
    <2>1. PICK bytes : /\ UNCHANGED <<wire, dev>>
                       /\ user' = [user EXCEPT ![p].pc = "send", ![p].todo = bytes]
      BY <1>3 DEF Ioctl, Write
    <2>2. user'[p] = [user[p] EXCEPT !.pc = "send", !.todo = bytes]
      BY <2>1 DEF ConversionTypes
    <2>3. \A q \in Users \ {p} : user'[q] = user[q]
      BY <2>1 DEF ConversionTypes
    <2>4. user'[p].result = user[p].result
      BY <1>1, <2>2 DEF UserFields
    <2> QED
      BY <2>1, <2>3, <2>4, SameTemperature
  <1>4. CASE WriteByte(p)
    <2> DEFINE pc == IF Len(user[p].todo) = 1 THEN "user" ELSE "send"
               sent == [user[p] EXCEPT !.todo = Tail(user[p].todo), !.pc = pc]
    <2>1. PICK w \in Heard(wire, Head(user[p].todo)) :
            /\ wire' = w /\ UNCHANGED dev
            /\ user' = IF w.starts = wire.starts THEN [user EXCEPT ![p] = sent]
                       ELSE Disturb(p, sent)
      BY <1>4 DEF WriteByte
    <2>2. DOMAIN sent = UserFields /\ sent.result = user[p].result
      BY <1>1 DEF UserFields
    <2> HIDE DEF pc, sent
    <2>3. \/ w = [wire EXCEPT !.mode = "function"] \/ w = [wire EXCEPT !.mode = "idle"]
          \/ w \in Started(wire)
      BY <2>1 DEF Heard
    <2>4. wire'.line = wire.line
      <3>1. CASE w \in Started(wire)
        BY <2>1, <3>1, StartedFields
      <3>2. CASE w = [wire EXCEPT !.mode = "function"] \/ w = [wire EXCEPT !.mode = "idle"]
        BY <2>1, <3>2 DEF ConversionTypes, WireFields
      <3> QED
        BY <2>3, <3>1, <3>2
    <2>5. CASE user' = [user EXCEPT ![p] = sent]
      <3>1. user'[p] = sent /\ \A q \in Users \ {p} : user'[q] = user[q]
        BY <2>5 DEF ConversionTypes
      <3> QED
        BY <2>1, <2>2, <2>4, <3>1, SameTemperature
    <2>6. CASE user' = Disturb(p, sent)
      <3>1. user'[p] = sent /\ \A q \in Users \ {p} : user'[q].result = user[q].result
        BY <2>2, <2>6, DisturbFields
      <3> QED
        BY <2>1, <2>2, <2>4, <3>1, SameTemperature
    <2> QED
      BY <2>1, <2>5, <2>6
  <1> QED
    BY <1>2, <1>3, <1>4 DEF SendSteps

\* At first nobody has read anything.
LEMMA TemperatureInit ==
    ASSUME Init
    PROVE  TemperatureInv
  <1>1. PICK s \in Settings, kind \in {"ds18b20", "template"} :
            /\ wire = [line |-> s.line, mode |-> "idle", starts |-> 0, conv |-> 0, held |-> 0]
            /\ dev = [kind |-> kind, raw |-> s.raw, noisy |-> s.noisy,
                       readers |-> s.readers, senders |-> s.senders]
            /\ user = [p \in Users |-> [pc |-> "user", cut |-> FALSE, disturbed |-> FALSE, own |-> 0,
                                        until |-> 0, got |-> 0, result |-> Failed, todo |-> <<>>]]
    BY Zenon DEF Init
  <1>2. wire.line = s.line /\ dev.raw = s.raw /\ dev.noisy = s.noisy /\ dev.kind = kind
    BY <1>1
  <1>3. \A p \in Users : user[p].result = Failed
    BY <1>1
  <1> QED
    BY <1>2, <1>3 DEF TemperatureInv, SettingRuns

\* Every step of the thermometers keeps what has been read true.
LEMMA TemperatureStep ==
    ASSUME ConversionTypes, TemperatureInv, Next
    PROVE  TemperatureInv'
  <1>1. dev.readers \subseteq Users /\ dev.senders \subseteq Users
    BY DEF ConversionTypes
  <1>2. CASE Measured
    <2>1. wire'.line = wire.line /\ UNCHANGED <<dev, user>>
      BY <1>2 DEF Measured, ConversionTypes, WireFields
    <2> QED
      BY <2>1, SameTemperature
  <1>3. ASSUME NEW p \in Users, ReadSteps(p)
        PROVE  TemperatureInv'
    <2>1. CASE Start(p)
      BY <2>1, StartKeepsTruth
    <2>2. CASE Wake(p) \/ Signal(p)
      <3>1. PICK cut \in BOOLEAN : Fetch(p, cut)
        BY <2>2, Zenon DEF Wake, Signal
      <3> QED
        BY <3>1, FetchIsTrue
    <2> QED
      BY <1>3, <2>1, <2>2 DEF ReadSteps
  <1>4. ASSUME NEW p \in Users, SendSteps(p)
        PROVE  TemperatureInv'
    BY <1>4, SendKeepsTruth
  <1> QED
    BY <1>1, <1>2, <1>3, <1>4, Zenon DEF Next, OwnSteps, TemplateReadSteps

-------------------------------------------------------------------------------
\* The theorems.

\* The invariant of both drivers.
THEOREM WireInvariant == Spec => []WireInv
  <1>1. MCInit => WireInv
    BY ReceiverInit, ConversionInit DEF MCInit, WireInv, IsHs0038
  <1>2. WireInv /\ [MCNext]_<<wire, dev, user, drv>> => WireInv'
    <2> SUFFICES ASSUME WireInv, [MCNext]_<<wire, dev, user, drv>>
                 PROVE  WireInv'
      OBVIOUS
    <2>1. CASE MCNext
      <3>1. drv' = drv
        BY <2>1 DEF MCNext
      <3>2. CASE IsHs0038
        <4>1. ReceiverInv'
          BY <2>1, <3>2, ReceiverStep DEF MCNext, WireInv, IsHs0038
        <4> QED
          BY <3>1, <3>2, <4>1 DEF WireInv, IsHs0038
      <3>3. CASE drv = "ds18b20"
        <4>1. ConversionInv'
          BY <2>1, <3>3, ConversionStep DEF MCNext, WireInv
        <4> QED
          BY <3>1, <3>3, <4>1 DEF WireInv, IsHs0038
      <3> QED
        BY <3>2, <3>3 DEF WireInv, IsHs0038
    <2>2. CASE UNCHANGED <<wire, dev, user, drv>>
      <3>1. ConversionInv' <=> ConversionInv
        BY <2>2 DEF ConversionInv, ConversionTypes, SleepersAwaitTheirOwn, AwakeGotTheirOwn,
                    HasChip, Awaits, Got
      <3>2. ReceiverInv' <=> ReceiverInv
        BY <2>2 DEF ReceiverInv, ReceiverTypes, Clock, Exact, OnTime, Undamaged, Quiet, CleanFrame,
                    Keeping, Mild, Clears, Behind, Level, Ahead, Honest, OnlySent, Slots, Gap,
                    Hs0038!Edges, Hs0038!NextGap, Hs0038!Frame
      <3> QED
        BY <2>2, <3>1, <3>2 DEF WireInv, IsHs0038
    <2> QED
      BY <2>1, <2>2
  <1> QED
    BY <1>1, <1>2, PTL DEF Spec

\* A frame without loss or noise is understood, once and with its code, whatever
\* edges were left over (hs0038_isr and hs0038_parse_data).
THEOREM FramesAreHeard == Spec => []FrameHeard
  <1>1. WireInv => FrameHeard
    BY DEF WireInv, FrameHeard, ReceiverInv, CleanFrame, Hs0038!FrameHeard
  <1> QED
    BY <1>1, WireInvariant, PTL

\* Lost edges, or a single added one, never make up a code, and the times of a frame
\* fit their array (hs0038_parse_data's two checks of the complements).
THEOREM CodesAreSent == Spec => []CodesWereSent
  <1>1. WireInv => CodesWereSent
    <2> SUFFICES ASSUME ReceiverInv
                 PROVE  Hs0038!CodesWereSent
      BY DEF WireInv, CodesWereSent
    <2>1. wire.noise = 0 \/ wire.noise + wire.lost = 1 => Mild
      BY StateFields DEF ReceiverInv, Mild
    <2>2. Len(dev.gaps) < Hs0038!Frame
      BY DEF ReceiverInv, ReceiverTypes
    <2>3. Mild => dev.data \in wire.sent /\ user.code \in wire.sent /\ Slots \subseteq wire.sent
      BY DEF ReceiverInv, OnlySent
    <2> QED
      BY <2>1, <2>2, <2>3 DEF Hs0038!CodesWereSent, Slots
  <1> QED
    BY <1>1, WireInvariant, PTL

\* A read of the thermometer returns the measurement it started itself, whatever
\* bytes other processes send, unless they start one too or a signal cuts its sleep
\* (ds18b20_read, with the interrupts off in each half only).
THEOREM OwnConversions == Spec => []OwnConversionHolds
  <1>1. WireInv => OwnConversionHolds
    BY DEF WireInv, OwnConversionHolds, OwnConversion, ConversionInv, AwakeGotTheirOwn, Got
  <1> QED
    BY <1>1, WireInvariant, PTL

\* A success of a read means the temperature of the chip, or one of the three lapses
\* of the code: on any number of processes, at any temperature, with any noise that
\* the checksum detects (ds18b20_read and its two conversions).
THEOREM TemperaturesAreTrue == Spec => []TrueTemperatureHolds
  <1> DEFINE Inv == drv = "ds18b20" => TemperatureInv
  <1>1. MCInit => Inv
    BY TemperatureInit DEF MCInit
  <1>2. WireInv /\ Inv /\ [MCNext]_<<wire, dev, user, drv>> => Inv'
    <2> SUFFICES ASSUME WireInv, Inv, [MCNext]_<<wire, dev, user, drv>>, drv' = "ds18b20"
                 PROVE  TemperatureInv'
      OBVIOUS
    <2>1. CASE MCNext
      <3>1. drv = "ds18b20" /\ Next
        BY <2>1 DEF MCNext
      <3>2. ConversionTypes /\ TemperatureInv
        BY <3>1 DEF WireInv, ConversionInv
      <3> QED
        BY <3>1, <3>2, TemperatureStep
    <2>2. CASE UNCHANGED <<wire, dev, user, drv>>
      BY <2>2 DEF TemperatureInv, SettingRuns, IsTrue, HasChip
    <2> QED
      BY <2>1, <2>2
  <1>3. Inv => TrueTemperatureHolds
    <2> SUFFICES ASSUME drv = "ds18b20", TemperatureInv
                 PROVE  TrueTemperature
      BY DEF TrueTemperatureHolds
    <2> QED
      BY DEF TrueTemperature, TemperatureInv, IsTrue, SaysSo, Below, Loses
  <1> QED
    BY <1>1, <1>2, <1>3, WireInvariant, PTL DEF Spec

===============================================================================
