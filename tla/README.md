# Formal models of the multilevel OLED menu

The repository holds a small appliance: `projects/tiny_tv`, a program that shows
a menu and plays films on a 128 x 64 OLED, and under `drivers/` the Linux kernel
drivers of the board's sensors, motors, infrared receiver and display. The board
is a 32-bit ARM with one core.

This directory holds TLA+ models translated from the C sources, the
configurations with which TLC checks them, and proofs that TLAPS checks.
`PROJECT.json` maps every definition to the lines it stands for.

## The system

### tiny_tv

| Part | State | Operations | Hard because | Correct when |
|---|---|---|---|---|
| input manager (`input/input_manager.c`) | ring of events, two indices, mutex, condition variable, one thread per device | put by device threads; `GetInputEvent`, `GetInputEvent_unblock` by the pages | one reader keeps the mutex on one path, the other takes no lock; the wait has no loop | a FIFO: nothing lost but on overflow, nothing twice, no torn slot; a sleeper is woken |
| remote (`input/remote.c`) | time of the last accepted input | read and debounce one kernel event | a 32-bit difference of times; which inputs restart the interval | presses keep their distance, none is lost without a reason |
| network (`input/net.c`) | a socket | receive a datagram | reports success without data | see input manager |
| list menu (`list/list_manager.c`) | selected and topmost entry; page and screen buffers | draw, 16-frame roll animation | coordinates without any check; two ends with different off-by-ones; state updated after the animation | the selection is visible, copies stay in the buffers, the animation ends where the next page starts |
| pages (`page/*.c`) | the call stack of `Run`s, a static list and buffers per page | keys: enter, back, up, down | a page runs inside another page's key handler; static data | the screen shows the page that waits, buffers follow the stack, a list is found as it was left |
| video player (`page/video_list.c`) | frame counter, playing or paused | play, pause, jump, quit | keys change the counter between bound check and use | frames stay in the buffer, pausing shows where playing resumes, films end |
| display, framebuffer, fonts (`display/`, `font/`) | the page's buffer, the mapped frame buffer | draw, invert, text in the middle of a region, flush | every pixel changes its byte and its bit on the way; the copy and the driver's thread do not wait for each other | what was drawn and flushed comes to be on the panel, pixel for pixel |

How they interact: `main()` (in `unittest/page_test.c`) initialises the display
and the fonts, calls `input_init` and `input_device_init`, which start the
device threads, registers the pages and calls the main page's `Run`. From then on
the main thread is always in some page. A page calls `GetInputEvent`, and the
player `GetInputEvent_unblock`; a list page calls the list menu, which draws
with the display manager; the list menu's `list_press` callbacks call another
page's `Run` or the player. The remote's events come from the `hs0038_input`
driver through the kernel's input layer.

### drivers

Most drivers are character devices made from the template in
`drivers/04_template1_gpio_drv`: an interrupt or timer handler puts into a ring
without a lock, `read` sleeps until the ring has something. Many exist twice,
once on their own and once under `05_drivers_from_template1`, with differences
that matter.

| Part | State | Hard because | Correct when |
|---|---|---|---|
| GPIO template (`04_template1_gpio_drv`), SR501 (two versions) | ring of 128, a debounce timer per pin | bounces restart the timer; a handler puts while a process gets | the ring is a FIFO; the last report is the level of the pin |
| SR04 (four versions) | ring, time of the rising edge, timeout timer | late echo against timeout, lost edges | a time is that of one echo; a waiting read returns |
| HS0038 (`hs0038_input`, `hs0038_parse_data_ok`) | edge times and their count, last code, ring of 8 | lost and extra edges, repeat codes, interrupts before and after the device's life | only codes that were sent come out; a whole frame is understood whatever came before |
| irda | edge times, timer, ring holding pairs | the timer restarted after a complete frame; its handler resets the count behind the back of the interrupt; half a pair dropped | pairs stay whole; a key after a silence is heard, but for the reset |
| DHT11 (two versions) | edge times, flags, timer | timeout against the last edges, reads cut short by a signal | a read returns the measurement made during it, or an error |
| DS18B20 (two versions) | the wire, a spinlock | off-by-one in bounded waits, the lock released during the conversion | a success is this read's own measurement and the chip's temperature |
| OLED (two drivers), `show_ascii` | frame buffer, refresh thread, the chip's position | drawing during a refresh; a position sent in halves | the panel shows what the calls asked for |
| motors (two), 4988, LED | phase index | wrap-around in both directions, changes of direction | the rotor follows every step |
| loading and unloading, all twenty | what init and the calls of processes have acquired | handlers run between two calls of init or exit, and after a load that failed; a read takes a pin and gives it back | no handler runs without what it touches; unloading gives everything back |

The hazards this leads to are listed, each at its line, in `PROJECT.json`.

## The modules

**EventQueue** is what the pages may rely on: a queue of bounded length, `Put`
and `Get`. **InputManager** is the code. Its state is the C file's: `g_iRead`,
`g_iWrite`, `g_atInputEvents`, the owner of `g_tMutex`, the state of the one
waiter of `g_tConVar`; for each device thread its place in the loop (`pc`) and
its local event (`temp`), for the main thread the same (`mpc`, `mtemp`). One
action is one access to shared state, in the order of the program: a put is
`PutCheck`, `PutWrite`, `PutAdvance` between `DeviceLock` and `DeviceUnlock`; a get is
a test (`CheckFast`, `RecheckFinds`, `CheckUnblock`), `GetCopy` and `GetBump`. `via`
remembers which of the three paths called `GetInputEventFromBuffer`, since only
one of them unlocks afterwards. Any call pattern of the pages is allowed
(`CallGetInputEvent`, `CallUnblock`), and `InitDone` may come before every device
has its thread. **MCInputManager** gives the constants values.

That accesses take effect in program order is a fact about the build, not the
language: the variables are plain `int`s. The shipped binary stores `g_iWrite`
after the copy into the slot and `g_iRead` after the copy out of it, and the board
has one core.

**RemoteInput** is `remote_getinputevent`. Instead of two clock values it keeps
`gap`, the age of `last_time`, so that the clock itself is not bounded. `ToLong`
is the 32-bit conversion. **MCRemoteInput** counts time in ticks of 32 us, which
keeps every number of the program an integer of TLC's.

**ListGeometry** is the arithmetic of `list_manager.c`, **ListMenu** the drawing:
`Redrawn` is `generate_list_screen_buffer`, `FrameAt(list, direction, i)` is
frame `i` of `roll_animation`, both reduced to the first line copied from the
page, the y of the selection box and the y of the scroll bar. `Roll`, `DrawFrame`
and `Finish` are the beginning, the loop and the end of `roll_animation`.

**VideoPlayer** is `video_play`: `Play`, `Rest` and `Over` are the loop up to the
poll, `NoKey`, `RemoteKey` and `Quit` the rest of it.

**Pages** composes the three pages with **VideoPlayer** and **ListGeometry**.
`stack` is the C call stack of `Run`s, `lists` the static `page_list`s, `heap` the
buffers allocated, `screen` what was flushed last. One action handles one event.
`Run`, `Return`, `Redraw` are the three ways a handler ends. A page waits in
`GetInputEvent`, which may deliver any event: here the pages are checked apart
from the input manager.

**Ring** says what a ring of slots with two indexes holds: the contents that
InputManager and KeyDriver map to their abstract queues.

**InputManager_proofs**, **RemoteInput_proofs**, **ListMenu_proofs**,
**Pages_proofs**, **KeyDrivers_proofs**, **WireDrivers_proofs** and **Outputs_proofs**
hold the theorems, **Ring_proofs** the lemmas about rings that two of them share.

### The drivers made from the template

**KeyDriver** is what they share: `ring` (the C file's `g_keys`, `r`, `w`), `timer`,
the process (`reader`) with `Call`, `Wake`, `Signal` and the two accesses of
`get_key`, `Fetch` and `Bump`. `ring.at` is a put that an interrupt has cut in two.
The board has one processor, so there are three levels: a process may be
interrupted anywhere, the timer's softirq by an interrupt only, an interrupt by
nothing; `At` and the guards on `ring.at` say so. `dev` is a record of the driver's own.
**LossyQueue** is the queue the ring implements for its one reader: a key may be
lost while it is put, never afterwards.

The four modules that extend it each add a sensor and the handlers: **GpioKeys** (`Edge`, `Isr`,
`Tick`, `Expire`, and `MotionIsr` for the SR501), **Sr04** (`Pulse` and `Arm` are the ioctl,
before and after the point where it may be interrupted; `EchoRises`, `EchoFalls`, `NoEcho` the
sensor; `Expire` and `PutTimeout` the timer's handler in two halves), **Irda** (`BurstStarts`,
`Edge`, `Lose`; `Expire` starts the timer's softirq and `HandleTimeout` is its handler, between
which an edge may come) and **Dht11** (`Pulse`, `Listen`, `Answer`, `Missed`, `Expire`;
`RingReturns` and `FlagsReturn` are the ways the two versions answer). **MCKeyDrivers** runs one
of eight drivers per behaviour; they share variables, so one run has the sum of their states and
not the product.

### The drivers that speak bit by bit

**Hs0038**: `wire` is the light with the frame on its way, `dev` the driver's edge
times and ring. `FrameGap` is the protocol the remote sends, written from the
protocol and not from the driver; `Isr` and `Parse` are the driver. `Missed` and
`Noise` damage the light. **Ds18b20**: the chip's scratchpad with its CRC, the reset
handshake as the number of looks each wait needs (`Polls`), `Start`, `Wake`, `Signal` and `Fetch`
for a read, `Ioctl`, `Write` and `WriteByte` for the calls that take no lock, any
number of processes. **MCWireDrivers** runs one of the two per behaviour.

### Outputs and loading

**DriverLoad** describes each of the twenty drivers as a record: the calls of its init (or init
and probe) in order with the way each failure is handled, those of its exit (or remove), what
each handler touches (the pins it drives among it), which handlers arm or stop which timers,
and, where a call of a process acquires or starts things, that call step by step: a DHT11's read
requests its pin, drives it, frees it. `InitStep`, `FailStep`, `ExitStep` interleave with `Isr`,
`Expire`, `Open`, `CallStarts`, `CallStep`, `CallFails` and the rest. The kernel may refuse
anything that is asked for; `refused` remembers what, and a load that fails goes on as what it
leaves behind. **Motor** is the index, the tables and the writes, with a rotor that follows a
pattern only from a neighbouring one. **Panel** is the display chip as both OLED drivers command
it, **OledChar** the ioctls of `OLED/oled_drv.c`, transfer by transfer. **Display** is tiny_tv's
drawing on bytes and bits; **Screen** puts it together: the application's buffer, the copy into
the frame buffer byte by byte (`FlushByte`, which copies a byte if `strcmp` finds that the
strings from it on differ, `StringsDiffer`), the driver's thread that converts it column by
column (`Convert`) and sends it page by page (`SendPage`), and `show_ascii`, which writes the
frame buffer itself. **MCOutputs** runs one of the four parts per behaviour.

Operators marked *Mutant* in a module are deliberate mistakes, used by nothing:
each, put in the place of the definition after it, makes one of the checks below fail.

## What is checked

| Run | Shows |
|---|---|
| `input_safety` | mutual exclusion of the puts (`LockDiscipline`), no slot read while written although one reader takes no lock (`NoDataRace`), a signalled wait finds data (`SignalMeansData`), the inductive invariant `IInv`, and that the ring implements `EventQueue` (`ImplementsQueue`) |
| `input_liveness` | a page asleep while the ring holds an event gets back to work (`WaiterIsServed`); a device thread gets its mutex unless `GetInputEvent` returned with it (`DeviceServed`) |
| `input_lock_leak` | **violated**: a call made while there is data returns (`DataReturns`) |
| `remote_debounce` | two reports are never closer than the interval (`Debounced`), and after a lost press the next one is reported (`DroppedOnce`) |
| `remote_overflow` | **violated**: a press after more than the interval is reported (`PressReported`) |
| `video_player` | pausing shows the frame that playing resumes with (`PausedFrame`), playing skips no frame (`ShowsEveryFrame`), only fast forward leaves the buffer (`OnlyForwardOverruns`), a film left alone ends (`FilmEnds`) |
| `video_overrun` | **violated**: the frames shown are the film's (`ShownInFilm`) |
| `list_menu` | the selection is visible, copies and boxes stay in their buffers, scroll bar and separators on the screen, and nothing jumps from one picture to the next |
| `pages` | the screen shows the page that waits, allocated buffers are those of the pages in use, no page is entered twice, a list is found as it was left |
| `key_drivers` | the ring is a `LossyQueue` for its reader although nobody locks it (`RingIsQueue`); after bounces the last report is the level of the pin, and it comes after a quiet time (`SettledReport`); a distance is computed from two edges of one ping (`TrueEcho`); infrared bytes stay in pairs (`PairsWhole`), and a key after a silence is reported unless the timer's handler wipes its first edges (`PressHeard`); a DHT11 read returns the measurement made during it, as long as no signal has cut one short (`FreshAnswer`); a read that waits for an armed timer or an answer returns (`ReadReturns`) |
| `wire_drivers` | only codes that were sent come out of a damaged light (`CodesWereSent`), a whole frame is understood once (`FrameHeard`); a read of the thermometer returns its own conversion (`OwnConversionHolds`) and every temperature right, but for the exceptions the property names (`TrueTemperatureHolds`) |
| `outputs` | no handler or call of a module that loads, serves or unloads, is gone or has failed to load lacks what it touches, but for what the kernel refused and the exposures the property names (`Equipped`); unloading gives back everything that init and the calls took, whatever was refused (`UnloadedIsGone`); the rotor follows every step (`StepsKept`); the OLED shows what its calls asked for (`PanelShowsCalls`), and what a page drew (`PictureReachesPanel`) |

A type invariant is checked where types are in question, in the input modules;
the invariants proved of `VideoPlayer` and `ListMenu` contain theirs.

A property that the code does not quite keep says so in itself: it names the
cases in which the code does otherwise, so that everything else stays checked.
These cases are the next section.

### What the violated runs show

* `input_manager.c:114-119`: when `GetInputEvent` finds an event at once it
  returns without `pthread_mutex_unlock`. The next call locks the mutex its own
  thread owns and never returns, and every device thread stops at its next put.
  A page meets this as soon as a key arrives while the page is not waiting,
  for instance during the 119 ms of `roll_animation`.
* `remote.c:43`: the time difference overflows a 32-bit `long` after 2147 s, so a
  press that comes 36 to 71 minutes after `last_time` is dropped. The
  dropped press restarts the interval, so the next one counts (`DroppedOnce`).
* `video_list.c:66,78-79`: fast forward shows frame `v + 90` before the bound is
  tested; close to the end the flush reads up to 87 frames past the buffer.

### What the code gets wrong, seen while modelling

Each of these is a behaviour of the modules above, excepted by name in the
property that would otherwise forbid it. Those that contradict a comment of the
source are among the findings of `PROJECT.json`.

* *SR04*: the timer's handler and the echo can both answer one trigger (the handler has begun
  when `del_timer` is called, or the echo comes between the pulse and `mod_timer`). Nothing
  empties the ring before the next trigger: every later read is one answer behind. Init requests
  the interrupt, whose handler deletes the timer, before it sets the timer up. The version
  without a timer (`03_sr04`) never returns from a read if the echo or an edge is lost, which is
  why `ReadReturns` is about the others.
* *irda*: the timer started again after a complete frame reports an error pair
  100 ms after every good one. That timer's handler resets the count of edges in the softirq
  (`gpio_drv.c:95`): an edge that comes after the timer has fired and before that is wiped, and
  its frame is not understood. With one place left in the ring a pair is cut in two.
* *DHT11*: a signal ends the wait unnoticed. The flags' version then returns the
  measurement before (or zeros), the ring's returns zeros now and is one answer
  behind afterwards; both leave their timer armed, which may outlive the module.
* *HS0038*: a repeat code after a frame that was not understood reports the key
  before it, or 0 if there was none. Two added edges, or one added and one lost, a byte
  apart can make up a key; one of them alone cannot. The interrupt is there before its input
  device and after it.
* *DS18B20*: a missing chip is taken for present and one that answers at the
  hundredth look for missing; a line stuck low reads as 0.00 degrees with a
  correct CRC. Negative multiples of 16 degrees are reported 16 too high, and
  temperatures between -1 and 0 without their sign; the template's version gets
  every negative one wrong. The cases of `ioctl` fall through.
* *Motors*: the tables of `motor` and `05_motor` turn opposite ways under the same
  comment; the 4988 ignores negative counts.
* *OLED*: `remove` of the frame buffer's driver stops no thread. The character device can be
  opened before its dc pin is there. `show_ascii` mirrors each byte.
* *test_drv/sr04_drv.c*: exit frees the interrupt of the pin init did not request it for;
  the ioctl drives the second pin (line 138), where init requests the first.
* *Pins driven without a request*: that one; those of the keys in the template's `write`
  (`04_template1_gpio_drv/gpio_drv.c:137`); the DHT11's in `06_dht11/gpio_drv.c:120`, after the
  read has freed it. They are `Unrequested` in DriverLoad.
* *The template's drivers*: when `class_create` fails, init returns and leaves its
  interrupts, timers and pins behind; when the last request is refused, init returns its error
  at the end, with everything else in place, the device included. The kernel frees the
  module under both: the handlers that may then run are `Stranded`, driver by driver. An
  `err` of `request_irq` that the loop keeps is overwritten by the next one.

### Bounds

* Input: two devices as in `input_init`, a ring of 3 slots instead of 20, two
  remote events and one message. Three slots are the fewest in which the ring is
  empty, partly full and full, and wraps. The proofs cover every length from 2 on
  and any number of devices. For the liveness runs each device has one event.
* Remote: pauses on both sides of every comparison (the interval, half of 2^32
  us, 2^32 us), at most 3 inputs in a row that leave `last_time` alone (`MaxStale`);
  a single pause can already wrap the range. Signed overflow is undefined in C;
  the shipped binary multiplies and compares modulo 2^32, and so does `ToLong`.
* Film: the real 1867 frames and jumps of 90. In `pages` a film of 8 frames with
  jumps of 3: the player's behaviour is not the question there.
* Lists: five entries, as both lists of the program. Proved for every length.
* Template drivers: a ring of 4 slots (3 places, an odd number as 127 is), a
  debounce time of 2 ticks, 3 pings and at most 2 lost edges (a stale rising time
  needs one ping to be left, another to be confused with it, a third to recover), frames
  of 6 edges (longer than a repeat code), 3 bursts and one lost edge, 2
  measurements of the DHT11 (one to be left behind, one to be mistaken for it).
* HS0038: the real times, 2 bits to a byte (20 edges to a frame), two keys that
  differ in every bit of their second byte, 3 bursts (so that any two kinds may precede a
  frame), 2 damaged edges. DS18B20: the real CRC and scratchpad, every
  temperature from -55 to 125 degrees in sixteenths, any one wrong bit of the nine bytes or two of
  the temperature's, two processes and two measurements.
* Outputs: every driver with its real sequence of calls, every call failing or not.
  Motors: the real tables, writes of up to 3 steps within 10 of the start, which is
  more than the table of 8. `OledChar`: 18 columns, more than the 16 of the low half, and 2 pages.
  Screen: 4 by 4 pixels, bytes of 2 bits, two drawings: two pages of two bytes per row, so that a
  rectangle crosses bytes and pages, and the last pixel is drawn.

### Deadlock

It is checked except in the input runs, where the program really stops (see
above), in `pages`, where the main page's exit key ends the program, and in the
three driver runs: a process may wait for a sensor that says nothing more, a
module is unloaded, and the sensors and callers stop at their bounds.

### Fairness

`InputManager!Fairness`: every thread that can run gets to run (weak fairness of
the main thread's steps and of each device thread's), and a thread that wants
the mutex gets it if it is free again and again (strong fairness of the two
places where the main thread locks and the one where a device thread does). The
mutex is a default pthread mutex under the kernel's fair scheduler; all threads
have the same priority. Nothing is assumed about the environment: devices need
not report, pages need not call, waits need not end spuriously.
`VideoPlayer!FairSpec`: the player's thread runs. `FilmEnds` is about a film that is
left alone and playing.
`MCKeyDrivers!Fairness`: a handler that was started finishes, an expired timer's
handler runs, a process that can run runs, and the DHT11 sends an answer it has begun.
Nothing is assumed of echoes, signals or callers. `MCOutputs!Fairness`: an
application in the middle of a flush or of `show_ascii` goes on, and so does the
driver's thread.

## What is proved

**Input manager**, for every `BUFFER_LEN >= 2`, set of devices and set of events,
assuming that `input_init` registers a device once (`BufferAssumption`,
`DeviceAssumption`, `EventAssumption`). The invariant is

    IInv == TypeOK /\ LockDiscipline /\ ReaderSlot /\ WriterSlot /\ CondInv /\ InitInv

`LockDiscipline` alone would do for the producers, but the reader may run without
the mutex. `ReaderSlot` says that between its test and its store the reader's
slot stays full, `WriterSlot` that a writer's slot stays free: each holds because
the other side can only move the ring away from it. Together they give
`NoDataRace`. `CondInv` follows a signal from the put to the waiter. It needs that
no unlocked reader runs while the main thread waits, which is so because the
reader and the waiter are one thread. `InitInv` keeps start-up from restarting a
device's thread that is already in a put. `QueueImplemented` shows the
refinement: the store of `g_iWrite` is `Put`, the store of `g_iRead` is `Get`, every
other step is invisible. It rests on the lemmas of Ring_proofs about the contents of a
ring when an index moves or a slot is written (`PushContents`, `PopContents`,
`WriteKeeps`) and on `CopyInv`, that the copy the reader took is still the slot's
value when it moves on.

**Remote control**, for every interval, every width of the time difference and any
pauses (`TimeAssumption`): `GapInv` says that `last_time` is at least as young as the
last report, so a report that comes too early is refused (`Debounced`); `DropInv`
that a press which was not reported has refreshed `last_time`, so the next one counts
(`DroppedOnce`). That the conversion never makes a time longer (`ToLongShortens`)
is all that is used of it.

**List menu**, for every list of at least `LIST_NUM` entries (`ListAssumption`): the
invariant adds to `SelectionVisible` that an animation runs only where the list
goes on (`RollInv`) and that the screen shows the frame drawn last (`ShownInv`).
From it `DrawnInBounds` and, as action properties, `PageMovesByLines` and
`BarMovesByLines`; the latter needs that a block of the bar is at most 16 lines high,
which is so because the list fills the screen, and that the rounding of a sixteenth
of it moves by a line at most (`SixteenthOfBlock`). `BarOnScreen` holds for just the lists
with `64 % list_num >= 2` (`BarFits`), the five entries of both of the program's among
them: for others the first separator is drawn on line -1.

**Video player** (in Pages_proofs), for every number of frames and every jump
(`FilmAssumption`): the invariant is `TypeOK /\ PausedFrame /\ OnlyForwardOverruns /\ FrameInv`,
where `FrameInv` ties the frame last flushed to the counter at each place of the loop.
`ShowsEveryFrame` follows from it as an action property.

**Pages**, for films and jumps of every length: the pages call each other in one order
only, so the call stack is one of four (`StackInv`), and a film runs under the last
of them. With `ScreenShowsPage` and `HeapMatchesStack` that is inductive: each of the
ways a handler ends is a lemma (`RunKeeps`, `ReturnKeeps`, `RedrawKeeps`, ...).
`NoReentry` and `PlaceKept` follow. Every handler is a step of the player or leaves the
film alone (`FilmsArePlayed`), so what is proved of the player holds under the pages.

**Template drivers**, all eight of them as the run composes them, for every ring length
and debounce time, every bound of the run and a frame of any length beyond a repeat code
(`RingAssumption`, `FrameAssumption`, `KeyAssumption`, `BoundAssumption`). `DriversInv` is
what all of them share, `RingInv`, and a part for each:

* `RingIsQueue` needs two facts about places where the code holds no lock. `CopyInv`: the key
  that `get_key` has read is still in its slot when `r` moves. `AtInv`: a put that
  an interrupt has cut in two finds its slot still free, or filled by the other put, and
  then as the last one. Only the ultrasonic driver's puts can be cut; that the other
  seven never have one (`ring.at = None`) is part of `DriversInv`.
* `SettledReport` (template, motion sensor): what was reported last is the level, or an
  interrupt or the timer is pending (`SaidInv`); a timer that has run long enough saw no
  edge (`QuietInv`).
* `TrueEcho` (ultrasonic): with at most one edge lost, a rising time left by an earlier
  ping is replaced or gone before a falling edge can be paired with it (`PingInv`,
  `RiseInv`), so the ring holds only true distances and timeouts (`EchoInv`).
  Which trigger they answer is not said: the code lets a read get an earlier one's.
* `PairsWhole` (infrared): what the reader has so far, followed by the ring's content,
  is whole pairs, and where it is in the pair says how many keys it has (`PairInv`). As the
  property says, it ends where the ring drops one byte of a pair or a signal ends a wait.
  `PressHeard`: the edges of a frame that began in silence are all stored
  (`CleanInv`), unless one came while the timer's handler was about to reset the count; the
  property does not speak of that frame (`dev.clean`).
* `FreshAnswer` (DHT11): at each place of the read, what the interrupt, the timer and the
  ring (`RingFresh`) or the three flags (`FlagsFresh`) hold is about this request. It ends, as
  the property says, with the first read that a signal cuts short. The
  version with the ring needs a ring that holds more than one entry (`BUF_LEN > 2`, 128 in
  the code): with one place, half of the answer would be dropped.

**Infrared receiver (HS0038)**, for bytes and rings of every length, any set of codes, any
number of bursts and any damage (`CodeAssumption`). `ReceiverInv` relates what the driver has
stored to how much of the burst has come, whatever was left over from the light before:

* As long as nothing has happened to a burst, the times stored are its own (`Exact`), so
  both checks of the complements pass (`WholeIsTrue`) and `FrameHeard` follows. The first
  edge comes later than 30 ms and starts anew, which needs that no time is left negative
  between bursts (`Clock`).
* After lost edges only, or a single added one, the driver is behind the frame, level with
  it or one edge ahead (`Keeping`). Behind it never has 68 edges. Level or ahead, every
  long pause where a bit is read is a long one of the frame too (`Honest`): one ahead, the
  driver reads the short pause before each bit. So a bit can only change from 1 to
  0, and then the same bit of the complement would have to be 0 as well: a code that passes
  both checks is the one on its way (`HonestIsTrue`). That is `CodesWereSent`.

**Thermometer (DS18B20)**, for any processes, temperatures, lines and damaged transfers
(`SettingAssumption`): a sleeper nobody has disturbed waits for the measurement that runs or
the one the chip holds, which is its own (`SleepersAwaitTheirOwn`); one that
wakes after its second therefore reads its own (`OwnConversionHolds`). In `TemperatureInv` a
process's last result is the truth as long as it keeps it (`IsTrue`), and for
`TrueTemperatureHolds` a read is followed from the line to the result (`ReadIsTrue`): the
reset tells a chip that answers late, the checksum a line that stays high, and nothing one
that stays low; what passes holds the chip's two bytes (`ChipSends`), and both
conversions are exact for each of the 32768 temperatures that are not below zero
(`WarmIsTrue`), the first driver's also below, but for the exceptions
the property names (`ColdIsTrue`). `ChecksumAssumption` is all that is taken of the CRC: that
it fails for nine bytes of ones and detects the damage in `Noises` when that hits the
temperature. Its definition is a fold over bits, which the provers cannot evaluate; TLC
evaluates the assumption in the run, for every damage and noisy setting. A transfer
without noise needs no assumption (`NoFlip`).

**Stepper motors**, for writes of every length and any number of them: in `MotorInv` the
index follows the steps sent modulo eight, in the direction of the table, and the coils
hold the rotor at the pattern just before or after it (`CoilsInv`). The patterns around the
rotor are the bits of the two tables (`PatternAngle`), so whichever pattern comes next,
the first of a write in the other direction and the one across the end of the table
included, is beside the rotor (`FollowsPattern`). The 4988 counts a pulse as it
rises (`PulseInv`). `StepsKept` follows.

**Loading and unloading**, for all twenty drivers, whatever is refused. What a driver
has asked for at a step of its `init`, its `exit` or a call is told by the lists alone
(`Taken`, `Left`). A driver is `InOrder` if at every step of `init`, when it is up, where it
may fail, at every step of `exit` and after it, each handler that may run, and each
step of a call, has been asked for what it touches or is on the list of exposures; if
`exit` stops whatever arms a timer before it deletes the timer; and if `exit` and the
calls give back what is not leaked. That is a fact about the lists, proved driver by
driver (`DriversInOrder`). The invariant is

    LoadInv == LoadType /\ Progress /\ Holdings /\ Running

`Holdings` says that what is held has been asked for, and that what has been asked for is
held or was refused, but for the number, which a load without a class gives back;
`Running` that the timers that run are those something may arm, and none that `exit` has
deleted; `Progress` where a load may fail, and that a process is inside only while
it may be. `Equipped` and `UnloadedIsGone` follow for every driver that is in order: the
proof names what a new driver's lists would have to satisfy.

**OLED as a character device**, for panels of every size a byte can address, all data and
positions (`PanelAssumption`, `CallAssumption`: a call's data are at most a page, for
which the column wraps at the page's end). The invariant looks ahead: the
picture that the calls so far have asked for is the panel's memory with the bytes still
queued written over it, from the column that the queued commands are setting
(`Queued`, `Aimed`, `Painted`). Each byte sent moves one from the queue to the
panel (`TransferKeeps`), and with an empty queue `PanelShowsCalls` is left. That it holds at
the start is a proof about the 25 commands of `oled_hardware_init` and the loops of
`OLED_DIsp_Clear` (`HardwareInit`, `OledStart`). `Commands` and `Filled` are recursive
functions: their values are found by `UpTo`, an induction over a set of numbers, from
the library's theorem that `<` is well founded.

**From a page to the glass**, for screens of every size whose rows fill whole bytes and whose
lines fill whole pages of the chip (`ResAssumption`, `ByteAssumption`, `PagesAssumption`),
any texts and faces, and any rectangles on the screen (`RegionsOnScreen`, a hypothesis of
the theorems and not an assumption of the module: `list_manager.c` does draw a separator
above the screen for some lengths of a list, and `BarFits` says for which):

* In `ScreenInv` the page's buffer lights just the pixels of the picture its drawings have
  made (`PictureInBuffer`), which holds because no two pixels share a bit (`PixelsApart`),
  and a flush has copied the bytes before `n` (`FlushedSoFar`): a byte that `strcmp` leaves
  alone is equal, as two strings that begin with different bytes differ. The driver finds a pixel by
  another formula than `put_pixel_buffer`; the two agree (`PixelPlace`), so between two
  drawings it finds the picture in the frame buffer (`PicturesAreFlushed`).
* In `ThreadInv` the panel waits at the start of a page for a command, and the pages before
  `n` show what was converted. Both drivers have functions of their own for the chip; the
  lemmas about commands, pages and the filled panel hold for both (`CommandsGive`,
  `PageWritten`, `FillingSteps`).
* A round of the thread that has read the frame buffer as it is ends with the picture on
  the glass (`RoundsShowPictures`); no step spoils such a round while the frame buffer
  is left alone, and once the panel shows the frame buffer it goes on to do so
  (`RoundsStayTrue`). That is the safety half of `PictureReachesPanel`: only that the rounds
  end is left to fairness. Two rounds may be needed, as one that is under way when the flush
  ends may have read old bytes.
* `show_ascii` writes the frame buffer itself, with the bits of a byte in the other order: a dot
  lands in the mirror image of its place within its byte (`DotIs`, `MirrorPlace`), which is
  where the model's picture has it. `CharacterInv` says that the driver finds the rows put so
  far there and that the lines after them are dark, and `RoundsShowCharacters` takes it to the
  glass. The hypothesis is `CharacterFits`: the font's dots are in the columns of a byte, and
  right of the screen's middle and below it there is room for a byte and for the font's rows.
  The frames between the dots of a row exist by `UpTo` (`RowGoesOn`), and by `UpTo` each has its
  dots (`RowIs`).

### Only model-checked

* The liveness properties: fairness is beyond the prover (`ReadReturns`, `WaiterIsServed`,
  `DeviceServed`, `FilmEnds`, `PictureReachesPanel`). For the last one the safety half is proved.
* That the CRC detects the damage of the thermometer's model: an assumption (`ChecksumAssumption`)
  TLC evaluates.
* The violated runs, whose properties are false.

## What is not modelled

* What a character looks like (the FreeType library computes it; the box and the
  place of a text are modelled), formats other than one bit per pixel, which
  nothing selects, and the registries of fonts and displays, which hold one entry.
* Horizontal positions in the list menu, which depend on the width of names in the font,
  and the text of network messages.
* Failures of `calloc`, `mmap` and `fopen`, which the program does not handle: a null
  pointer ends it. `open` of the frame buffer failing is `Start(FALSE)`.
* A second process reading one template device or HS0038, or writing one motor or OLED,
  at the same time. `get_key` and the index have no lock against it; nothing in the repository
  starts one.
* What reading and setting a single pin does (LED, the template's `write`): one register access,
  no state. Whether the pin was requested is in DriverLoad. The length of pulses and the delays
  between bits.
* The driver test programs and tiny_tv's unit tests, which call and print;
  `page_test.c`'s start-up order is in `InputManager` and `Pages`.

The components list in `PROJECT.json` gives the reason for each.

## What could be added

Compositions: Pages on top of InputManager, where a key during an animation
freezes the user interface; Hs0038 with RemoteInput, where the events of a key press
and the receiver's repeat codes meet the debounce.
