------------------------------ MODULE DriverLoad ------------------------------
(***************************************************************************)
(* Loading and unloading the drivers of drivers/: the init or probe of     *)
(* each acquires what its handlers use, one call after the other, while    *)
(* the handlers that are installed already may run; exit or remove gives   *)
(* it back.  A driver is a record of its two sequences, of what keeps it   *)
(* open to processes, of what each handler touches, and of the call of a   *)
(* process that acquires or starts things.  A handler touches the pins it  *)
(* drives; to read a level takes nothing.                                  *)
(*                                                                         *)
(* The kernel may refuse what init asks for.  A step says what the driver  *)
(* does then: "get" ignores it, "err" keeps it in err, which init returns  *)
(* at its end, "must" returns at once, "class" unregisters the character   *)
(* device and returns.  "set" cannot fail, nor can "arm", which sets a     *)
(* timer up and starts it; "put" gives back.  A call of a process ignores  *)
(* what its "get"s are refused; it may also "use" a pin or "start" a timer *)
(* that it has not set up.                                                 *)
(***************************************************************************)
EXTENDS Naturals, Sequences, FiniteSets

VARIABLE mod    \* drv: the driver; phase; n: the next step of init or exit; err; held: what
                \* is acquired; refused: what it asked for in vain; armed: the timers that
                \* run; open: a process has the device open; at: the next step of its call,
                \* or 0

-------------------------------------------------------------------------------
\* The sequences the files share.

Set(r) == <<"set", r>>
Arm(r) == <<"arm", r>>
Get(r) == <<"get", r>>
Keep(r) == <<"err", r>>
Must(r) == <<"must", r>>
PutBack(r) == <<"put", r>>
Use(r) == <<"use", r>>
Start(r) == <<"start", r>>

CharDevice == <<Get("chrdev"), <<"class", "class">>, Get("node")>>
Unregister == <<PutBack("node"), PutBack("class"), PutBack("chrdev")>>
Door == {"chrdev", "node"}

\* Each handler is named by what lets it run: its interrupt, its armed timer, its
\* thread, or "file", a call of a process.
Driver(init, exit, uses) ==
    [init |-> init, exit |-> exit, uses |-> uses, door |-> Door,
     arms |-> {}, stops |-> {}, call |-> <<>>]

Uses(handler) == IF handler \in DOMAIN mod.drv.uses THEN mod.drv.uses[handler] ELSE {}

-------------------------------------------------------------------------------
\* The drivers.

\* Mutant: exit deletes the timers before it frees the interrupts that start them.
TemplateTimersFirst ==
    [Driver(<<Arm("timer0"), Keep("irq0"), Arm("timer1"), Keep("irq1")>> \o CharDevice,
            Unregister \o <<PutBack("timer0"), PutBack("irq0"), PutBack("timer1"), PutBack("irq1")>>,
            [irq0 |-> {"timer0"}, irq1 |-> {"timer1"}, file |-> {"gpio0", "gpio1"}])
     EXCEPT !.arms = {<<"irq0", "timer0">>, <<"irq1", "timer1">>}]

\* A write drives the pins of the keys, which nobody requests.
Template ==
    [Driver(<<Arm("timer0"), Keep("irq0"), Arm("timer1"), Keep("irq1")>> \o CharDevice,
            Unregister \o <<PutBack("irq0"), PutBack("timer0"), PutBack("irq1"), PutBack("timer1")>>,
            [irq0 |-> {"timer0"}, irq1 |-> {"timer1"}, file |-> {"gpio0", "gpio1"}])
     EXCEPT !.arms = {<<"irq0", "timer0">>, <<"irq1", "timer1">>}]

\* The second of the two pins is GPIO 0: the array has one entry that is filled in.
Sr501 == Driver(<<Keep("irq0"), Keep("irq1")>> \o CharDevice,
                Unregister \o <<PutBack("irq0"), PutBack("irq1")>>, [file |-> {}])

TemplateSr501 == Sr501

\* 0 is the trigger, 1 the echo.  The ioctl arms the timer, the handler stops it.
Sr04 == [Driver(<<Keep("gpio0"), Keep("irq1"), Set("timer1")>> \o CharDevice,
                Unregister \o <<PutBack("gpio0"), PutBack("irq1"), PutBack("timer1")>>,
                [irq1 |-> {"timer1"}, file |-> {"gpio0"}])
         EXCEPT !.stops = {<<"irq1", "timer1">>}, !.call = <<Start("timer1")>>]

ImprovedSr04 == Sr04

\* The version without a timeout.
UntimedSr04 == Driver(<<Keep("gpio0"), Keep("irq1")>> \o CharDevice,
                      Unregister \o <<PutBack("gpio0"), PutBack("irq1")>>,
                      [file |-> {"gpio0"}])

\* Requests the first pin and its interrupt, drives the second and frees the interrupt
\* of that.
BenchSr04 == Driver(<<Keep("gpio0"), Keep("irq0"), Set("timer1")>> \o CharDevice,
                    Unregister \o <<PutBack("gpio0"), PutBack("irq1"), PutBack("timer1")>>,
                    [file |-> {"gpio1"}])

Irda == [Driver(<<Set("timer0"), Keep("irq0")>> \o CharDevice,
                Unregister \o <<PutBack("irq0"), PutBack("timer0")>>,
                [irq0 |-> {"timer0"}])
         EXCEPT !.arms = {<<"irq0", "timer0">>}]

\* Init sets the pin and gives it back.  A read requests the pin, gives it back and
\* drives it again, requests the interrupt and starts the timer, and waits for one of
\* them or for a signal; then it frees the interrupt and sets the pin as init does.
RingDht11 ==
    [Driver(<<Keep("gpio0"), PutBack("gpio0"), Set("timer0")>> \o CharDevice, Unregister,
            [irq0 |-> {"timer0"}])
     EXCEPT !.stops = {<<"irq0", "timer0">>},
            !.call = <<Get("gpio0"), Use("gpio0"), PutBack("gpio0"), Use("gpio0"),
                       Get("irq0"), Start("timer0"), PutBack("irq0"),
                       Get("gpio0"), Use("gpio0"), PutBack("gpio0")>>]

\* Mutant: a read that forgets to free its pin.
FlagsDht11KeepsPin ==
    [RingDht11 EXCEPT !.call = <<Get("gpio0"), Use("gpio0"), Get("irq0"), Start("timer0"),
                                 PutBack("irq0"), Use("gpio0")>>]

\* A read keeps the pin while it waits.
FlagsDht11 ==
    [RingDht11 EXCEPT !.call = <<Get("gpio0"), Use("gpio0"), Get("irq0"), Start("timer0"),
                                 PutBack("irq0"), Use("gpio0"), PutBack("gpio0")>>]

Ds18b20 == Driver(<<Set("lock"), Keep("gpio0")>> \o CharDevice,
                  Unregister \o <<PutBack("gpio0")>>, [file |-> {"lock", "gpio0"}])

TemplateDs18b20 == Ds18b20

\* The module's init and the probe it calls; remove and the module's exit.
Hs0038(input, uses) ==
    Driver(<<Get("chrdev"), <<"class", "class">>, Set("wq")>>
               \o <<Get("pin"), Get("irq0"), Get("node")>> \o input,
           [i \in 1 .. Len(input) |-> PutBack(input[i][2])]
               \o <<PutBack("node"), PutBack("irq0"), PutBack("pin"), PutBack("class"),
                    PutBack("chrdev")>>,
           uses)

\* The handler wakes readers and reports to the input device.
InputHs0038 == Hs0038(<<Get("input")>>, [irq0 |-> {"wq", "input"}, file |-> {"wq"}])

\* The handler keeps what it has understood.
CharHs0038 == Hs0038(<<>>, [file |-> {}])

Pin == <<"gpio0", "gpio1", "gpio2", "gpio3">>
Requests(n) == [i \in 1 .. n |-> Keep(Pin[i])]
Frees(n) == [i \in 1 .. n |-> PutBack(Pin[i])]
Pins(n) == {Pin[i] : i \in 1 .. n}

Motor == Driver(Requests(4) \o CharDevice, Unregister \o Frees(4), [file |-> Pins(4)])

TemplateMotor == Motor

Stepper4988 == Driver(Requests(2) \o CharDevice, Unregister \o Frees(2), [file |-> Pins(2)])

\* A pin that cannot be had ends init; those before it stay requested.
Led == Driver([i \in 1 .. 2 |-> Must(Pin[i])] \o CharDevice, Unregister \o Frees(2),
              [file |-> Pins(2)])

\* The result of class_create is not looked at.
Oled == Driver(<<Get("chrdev"), Get("class"), Get("node"), Get("dc")>>,
               Unregister \o <<PutBack("dc")>>, [file |-> {"dc"}])

\* Remove leaves the thread, its two buffers and the fb_info.
OledFramebuffer ==
    [Driver(<<Get("info"), Get("screen"), Get("fb"), Get("dc"), Get("data"), Set("thread")>>,
            <<PutBack("fb"), PutBack("dc")>>,
            [thread |-> {"info", "screen", "dc", "data"}, file |-> {"screen"}])
     EXCEPT !.door = {"fb"}]

Drivers == [template |-> Template, sr501 |-> Sr501, sr501_t |-> TemplateSr501,
            sr04 |-> Sr04, sr04_i |-> ImprovedSr04, sr04_u |-> UntimedSr04,
            sr04_b |-> BenchSr04, irda |-> Irda, dht11_t |-> RingDht11,
            dht11 |-> FlagsDht11, ds18b20 |-> Ds18b20, ds18b20_t |-> TemplateDs18b20,
            hs0038 |-> InputHs0038, hs0038_c |-> CharHs0038, motor |-> Motor,
            motor_t |-> TemplateMotor, a4988 |-> Stepper4988, led |-> Led,
            oled |-> Oled, oled_fb |-> OledFramebuffer]

-------------------------------------------------------------------------------
\* insmod, its steps and the ways they fail.

InitMod(d) == mod = [name |-> d, drv |-> Drivers[d], phase |-> "init", n |-> 1,
                     err |-> FALSE, held |-> {}, refused |-> {}, armed |-> {},
                     open |-> FALSE, at |-> 0]

Ended(seq) == mod.n > Len(seq)

Kind == mod.drv.init[mod.n][1]
Wanted == mod.drv.init[mod.n][2]

InitStep == /\ mod.phase = "init" /\ ~Ended(mod.drv.init)
            /\ mod' = [mod EXCEPT !.n = @ + 1,
                                  !.err = IF Kind = "err" THEN FALSE ELSE @,
                                  !.held = IF Kind = "put" THEN @ \ {Wanted}
                                           ELSE @ \cup {Wanted},
                                  !.armed = IF Kind = "arm" THEN @ \cup {Wanted} ELSE @]

FailStep == /\ mod.phase = "init" /\ ~Ended(mod.drv.init)
            /\ \/ /\ Kind \in {"get", "err"}
                  /\ mod' = [mod EXCEPT !.n = @ + 1, !.refused = @ \cup {Wanted},
                                        !.err = IF Kind = "err" THEN TRUE ELSE @]
               \/ /\ Kind = "must"
                  /\ mod' = [mod EXCEPT !.phase = "failed"]
               \/ /\ Kind = "class"
                  /\ mod' = [mod EXCEPT !.phase = "failed", !.held = @ \ {"chrdev"}]

\* The kernel frees a module whose init has failed, whatever it holds.
InitEnds == /\ mod.phase = "init" /\ Ended(mod.drv.init)
            /\ mod' = [mod EXCEPT !.phase = IF mod.err THEN "failed" ELSE "up"]

\* rmmod is refused while a process has the device open.
Unload == /\ mod.phase = "up" /\ ~mod.open
          /\ mod' = [mod EXCEPT !.phase = "exit", !.n = 1]

\* A timer that is deleted no longer runs.
ExitStep == /\ mod.phase = "exit" /\ ~Ended(mod.drv.exit)
            /\ LET r == mod.drv.exit[mod.n][2]
               IN  mod' = [mod EXCEPT !.n = @ + 1, !.held = @ \ {r}, !.armed = @ \ {r}]

ExitEnds == /\ mod.phase = "exit" /\ Ended(mod.drv.exit)
            /\ mod' = [mod EXCEPT !.phase = "gone"]

-------------------------------------------------------------------------------
\* The processes and the handlers meanwhile.

\* A module that is being unloaded cannot be opened; one that is freed can, if it has
\* left its way in.
Open == /\ mod.phase \in {"init", "up", "failed"} /\ ~mod.open /\ mod.drv.door \subseteq mod.held
        /\ mod' = [mod EXCEPT !.open = TRUE]

\* A call inside the driver keeps the file open.
Close == /\ mod.open /\ mod.at = 0
         /\ mod' = [mod EXCEPT !.open = FALSE]

\* One call at a time; what it does at its next step, and to what.
CallStarts == /\ mod.open /\ mod.at = 0 /\ mod.drv.call # <<>>
              /\ mod' = [mod EXCEPT !.at = 1]

Does == mod.drv.call[mod.at][1]
Its == mod.drv.call[mod.at][2]
After == IF mod.at = Len(mod.drv.call) THEN 0 ELSE mod.at + 1

CallStep == /\ mod.at # 0
            /\ mod' = [mod EXCEPT !.at = After,
                                  !.held = CASE Does = "get" -> @ \cup {Its}
                                             [] Does = "put" -> @ \ {Its}
                                             [] OTHER -> @,
                                  !.refused = IF Does = "get" THEN @ \ {Its} ELSE @,
                                  !.armed = IF Does = "start" THEN @ \cup {Its} ELSE @]

CallFails == /\ mod.at # 0 /\ Does = "get"
             /\ mod' = [mod EXCEPT !.at = After, !.refused = @ \cup {Its}]

Isr(irq) == /\ irq \in mod.held
            /\ LET starts == {p[2] : p \in {p \in mod.drv.arms : p[1] = irq}}
                   stops == {p[2] : p \in {p \in mod.drv.stops : p[1] = irq}}
               IN  mod' = [mod EXCEPT !.armed = (@ \cup starts) \ stops]

Expire(timer) == /\ timer \in mod.armed
                 /\ mod' = [mod EXCEPT !.armed = @ \ {timer}]

Next == \/ InitStep \/ FailStep \/ InitEnds
        \/ Unload \/ ExitStep \/ ExitEnds
        \/ Open \/ Close \/ CallStarts \/ CallStep \/ CallFails
        \/ \E irq \in {"irq0", "irq1"} : Isr(irq)
        \/ \E timer \in {"timer0", "timer1"} : Expire(timer)

-------------------------------------------------------------------------------
\* The handlers that may run now.  Their code is there until the module is.
Running == {h \in {"irq0", "irq1", "thread"} : h \in mod.held} \cup mod.armed
               \cup (IF mod.open THEN {"file"} ELSE {})

\* A process touches the thing of the call's step, too.
Touched(handler) ==
    Uses(handler) \cup (IF handler = "file" /\ mod.at # 0 /\ Does \in {"use", "start"}
                        THEN {Its} ELSE {})

\* What the kernel refused is missing for a reason the driver was told of.
Missing(handler) ==
    ((Touched(handler) \ mod.held) \ mod.refused)
        \cup (IF mod.phase \in {"init", "up", "exit"} THEN {} ELSE {"code"})

\* The handlers that a load which fails leaves behind when the kernel frees the module:
\* init returns what its last request was told, or that there is no class, and gives back
\* neither interrupts nor pins nor, in the first case, the device.
Stranded == [template |-> {"irq0", "irq1", "timer0", "timer1", "file"},
             sr501 |-> {"irq0", "irq1", "file"}, sr501_t |-> {"irq0", "irq1", "file"},
             sr04 |-> {"irq1", "timer1", "file"}, sr04_i |-> {"irq1", "timer1", "file"},
             sr04_u |-> {"irq1", "file"}, sr04_b |-> {"irq0", "file"},
             irda |-> {"irq0", "timer0", "file"}, dht11 |-> {"irq0", "timer0", "file"},
             dht11_t |-> {"irq0", "timer0", "file"}, ds18b20 |-> {"file"},
             ds18b20_t |-> {"file"}, motor |-> {"file"}, motor_t |-> {"file"},
             a4988 |-> {"file"}]

\* What the order of init and exit exposes: <<driver, phase, handler, what it lacks>>.
\*   SR04: request_irq comes before setup_timer, and the handler deletes the timer.
\*   hs0038_input: the interrupt is requested before its input device is there, and
\*     the input device goes before the interrupt.
\*   OLED: the device can be opened before its dc pin is there.
\*   oled_framebuffer: nobody stops the thread.
\*   test_drv: exit frees the wrong interrupt.
\*   DHT11: a read that a signal ends leaves its timer running.
OutOfOrder ==
    {<<d, "init", "irq1", "timer1">> : d \in {"sr04", "sr04_i"}}
        \cup ({"hs0038"} \X {"init", "exit"} \X {"irq0"} \X {"input"})
        \cup {<<"oled", "init", "file", "dc">>}
        \cup ({"oled_fb"} \X {"exit", "gone"} \X {"thread"} \X {"dc", "code"})
        \cup {<<"sr04_b", "gone", "irq0", "code">>}
        \cup {<<d, "gone", "timer0", "code">> : d \in {"dht11", "dht11_t"}}

\* The pins that file operations drive and nobody has requested: those of the keys, the
\* second of test_drv, and the one that a read of dht11_t has given back.
Unrequested == [template |-> {"gpio0", "gpio1"}, sr04_b |-> {"gpio1"}, dht11_t |-> {"gpio0"}]

\* All that the code exposes.
Driven == UNION {{d} \X {"init", "up", "failed"} \X {"file"} \X Unrequested[d] :
                    d \in DOMAIN Unrequested}
Freed == UNION {{d} \X {"failed"} \X Stranded[d] \X {"code"} : d \in DOMAIN Stranded}
Exposed == OutOfOrder \cup Driven \cup Freed

\* While a module loads, serves and unloads, after it, and after a load that failed, no
\* handler runs without what it touches, the module's code included, but for what the
\* kernel refused and for the exposures listed.  Init has to set up what a handler
\* touches before it lets the handler in, and exit to stop it before it takes that
\* away.
Equipped == \A h \in Running : \A r \in Missing(h) : <<mod.name, mod.phase, h, r>> \in Exposed

\* What a module keeps for ever.
Leaked == [oled_fb |-> {"info", "screen", "data", "thread"}, sr04_b |-> {"irq0"}]

\* A module that is unloaded has given back every pin, interrupt, number, class and node
\* that its init, its probe and the calls of processes took, whatever was refused
\* meanwhile, but for those of the two drivers that leak; a timer that is set up takes
\* nothing.
UnloadedIsGone ==
    mod.phase = "gone" =>
        mod.held \ {"timer0", "timer1", "lock", "wq"}
            \subseteq (IF mod.name \in DOMAIN Leaked THEN Leaked[mod.name] ELSE {})

===============================================================================
