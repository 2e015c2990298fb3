----------------------------- MODULE InputManager -----------------------------
(***************************************************************************)
(* projects/tiny_tv/input/input_manager.c: a ring of input events filled   *)
(* by one thread per input device and emptied by the main thread, which    *)
(* runs the pages.  A mutex and a condition variable guard the ring, except *)
(* that GetInputEvent keeps the mutex when it finds an event at once, and  *)
(* that GetInputEvent_unblock takes no lock at all.                        *)
(*                                                                         *)
(* One step is one access to what the threads share: g_iRead, g_iWrite, a  *)
(* slot of g_atInputEvents, the mutex or the condition variable.  The      *)
(* threads' accesses take effect in program order.                         *)
(***************************************************************************)
EXTENDS Ring, Sequences

CONSTANTS
    BUFFER_LEN,     \* slots of the ring
    Device,         \* the input devices
    RegisterOrder,  \* the order in which input_init registers them
    NetDevices,     \* those whose device_getinputevent always returns 0
    InputEvent,     \* the values of an inputevent
    Blank,          \* an inputevent nobody has written yet
    Reports,        \* Reports[d]: the events device d can report
    Main,           \* the main thread, as the owner of the mutex
    Free            \* no owner

ASSUME BufferAssumption == BUFFER_LEN \in Nat /\ BUFFER_LEN >= 2
\* input_init registers each device once.
ASSUME DeviceAssumption == /\ RegisterOrder \in Seq(Device)
                           /\ \A i, j \in 1 .. Len(RegisterOrder) :
                                  RegisterOrder[i] = RegisterOrder[j] => i = j
                           /\ NetDevices \subseteq Device
                           /\ Main \notin Device
                           /\ Free \notin Device \cup {Main}
ASSUME EventAssumption == /\ Blank \in InputEvent
                          /\ Reports \in [Device -> SUBSET InputEvent]

VARIABLES
    g_iRead, g_iWrite, g_atInputEvents, \* the ring
    g_tMutex,   \* the owner of the mutex
    g_tConVar,  \* the main thread on the condition variable: "none", "waiting",
                \* or why it was woken: "signalled" or "spurious"
    ptemp,      \* input_device_init's place in the list of devices
    pc,         \* pc[d]: where the thread of device d is; "none" before pthread_create
    temp,       \* temp[d]: the local inputevent of that thread
    mpc,        \* where the main thread is; "app" outside the input manager
    via,        \* the path that called GetInputEventFromBuffer
    mtemp,      \* the local inputevent of GetInputEvent and GetInputEvent_unblock
    event       \* *ptinputevent, the page's inputevent

ring == <<g_iRead, g_iWrite, g_atInputEvents>>
sync == <<g_tMutex, g_tConVar>>
device == <<pc, temp>>
main == <<ptemp, mpc, via, mtemp, event>>
vars == <<ring, sync, device, main>>

Index == 0 .. BUFFER_LEN - 1
DevicePc == {"none", "read", "lock", "check", "write", "advance", "signal", "unlock"}
MainPc == {"init", "app", "lock", "check", "wait", "recheck", "check_unblock",
           "copy", "bump", "unlock"}

-------------------------------------------------------------------------------
\* The ring.

\* Mutants of the two helpers: an index that never wraps, and full tests that
\* miss by one slot in either direction.
SuccNoWrap(i) == i + 1
FullNever == FALSE
FullAsEmpty == g_iRead = g_iWrite

Succ(i) == (i + 1) % BUFFER_LEN
Full == g_iRead = Succ(g_iWrite)
Empty == g_iRead = g_iWrite

-------------------------------------------------------------------------------
\* Start-up: input_init pushes every device on the front of the list, then
\* input_device_init walks the list on the main thread.

\* The k-th device of the list headed by pinput_dev.
ListedDevice(k) == RegisterOrder[Len(RegisterOrder) + 1 - k]

Init == /\ g_iRead = 0 /\ g_iWrite = 0
        /\ g_atInputEvents = [i \in Index |-> Blank]
        /\ g_tMutex = Free /\ g_tConVar = "none"
        /\ ptemp = 1
        /\ pc = [d \in Device |-> "none"]
        /\ temp = [d \in Device |-> Blank]
        /\ mpc = "init" /\ via = "unblock"
        /\ mtemp = Blank /\ event = Blank

\* device_init and pthread_create succeed: the device's thread is running.
InitDevice == /\ mpc = "init" /\ ptemp <= Len(RegisterOrder)
              /\ pc' = [pc EXCEPT ![ListedDevice(ptemp)] = "read"]
              /\ ptemp' = ptemp + 1
              /\ UNCHANGED <<ring, sync, temp, mpc, via, mtemp, event>>

\* The end of the list, or an early return because device_init or
\* pthread_create failed.  main() ignores what input_device_init returns.
InitDone == /\ mpc = "init"
            /\ mpc' = "app"
            /\ UNCHANGED <<ring, sync, device, ptemp, via, mtemp, event>>

-------------------------------------------------------------------------------
\* inputdev_thread_func, the thread of device d.

Goto(d, label) == pc' = [pc EXCEPT ![d] = label]

\* device_getinputevent returns 0.  The network device does so even when
\* recvfrom failed or delivered nothing: temp then keeps its last event.
\* (A return of -1 changes nothing.)
DeviceRead(d) == /\ pc[d] = "read"
                 /\ \/ \E e \in Reports[d] : temp' = [temp EXCEPT ![d] = e]
                    \/ d \in NetDevices /\ UNCHANGED temp
                 /\ Goto(d, "lock")
                 /\ UNCHANGED <<ring, sync, main>>

\* Mutant: the put does not take the mutex.
DeviceNoLock(d) == /\ pc[d] = "lock"
                   /\ Goto(d, "check")
                   /\ UNCHANGED <<ring, sync, temp, main>>

DeviceLock(d) == /\ pc[d] = "lock" /\ g_tMutex = Free
                 /\ g_tMutex' = d
                 /\ Goto(d, "check")
                 /\ UNCHANGED <<ring, g_tConVar, temp, main>>

\* PutInputEventToBuffer is three accesses: the test of g_iRead, the copy into
\* the slot, the store of g_iWrite.  A full ring drops the event.
PutCheck(d) == /\ pc[d] = "check"
               /\ Goto(d, IF Full THEN "signal" ELSE "write")
               /\ UNCHANGED <<ring, sync, temp, main>>

PutWrite(d) == /\ pc[d] = "write"
               /\ g_atInputEvents' = [g_atInputEvents EXCEPT ![g_iWrite] = temp[d]]
               /\ Goto(d, "advance")
               /\ UNCHANGED <<g_iRead, g_iWrite, sync, temp, main>>

PutAdvance(d) == /\ pc[d] = "advance"
                 /\ g_iWrite' = Succ(g_iWrite)
                 /\ Goto(d, "signal")
                 /\ UNCHANGED <<g_iRead, g_atInputEvents, sync, temp, main>>

\* Mutant: the thread forgets to signal.
DeviceNoSignal(d) == /\ pc[d] = "signal"
                     /\ Goto(d, "unlock")
                     /\ UNCHANGED <<ring, sync, temp, main>>

DeviceSignal(d) == /\ pc[d] = "signal"
                   /\ g_tConVar' = IF g_tConVar = "waiting" THEN "signalled" ELSE g_tConVar
                   /\ Goto(d, "unlock")
                   /\ UNCHANGED <<ring, g_tMutex, temp, main>>

\* Mutant: the thread goes back to its device with the mutex held.
DeviceNoUnlock(d) == /\ pc[d] = "unlock"
                     /\ Goto(d, "read")
                     /\ UNCHANGED <<ring, sync, temp, main>>

DeviceUnlock(d) == /\ pc[d] = "unlock"
                   /\ g_tMutex' = Free
                   /\ Goto(d, "read")
                   /\ UNCHANGED <<ring, g_tConVar, temp, main>>

-------------------------------------------------------------------------------
\* The main thread.

CallGetInputEvent == /\ mpc = "app"
                     /\ mpc' = "lock"
                     /\ UNCHANGED <<ring, sync, device, ptemp, via, mtemp, event>>

CallUnblock == /\ mpc = "app"
               /\ mpc' = "check_unblock"
               /\ UNCHANGED <<ring, sync, device, ptemp, via, mtemp, event>>

\* The mutex is not recursive: the main thread waits for itself if it owns it.
MainLock == /\ mpc = "lock" /\ g_tMutex = Free
            /\ g_tMutex' = Main /\ mpc' = "check"
            /\ UNCHANGED <<ring, g_tConVar, device, ptemp, via, mtemp, event>>

\* isInputBufferEmpty at label, on behalf of path.
FindsEvent(label, path) == /\ mpc = label /\ ~Empty
                           /\ mpc' = "copy" /\ via' = path
                           /\ UNCHANGED <<ring, g_tMutex, device, ptemp, mtemp, event>>

\* Data at once: GetInputEvent reads it and returns, still holding the mutex.
CheckFast == FindsEvent("check", "fast") /\ UNCHANGED g_tConVar

\* pthread_cond_wait releases the mutex and waits in one step.
CheckWait == /\ mpc = "check" /\ Empty
             /\ g_tMutex' = Free /\ g_tConVar' = "waiting" /\ mpc' = "wait"
             /\ UNCHANGED <<ring, device, ptemp, via, mtemp, event>>

\* A wait may end without a signal.
SpuriousWakeup == /\ g_tConVar = "waiting"
                  /\ g_tConVar' = "spurious"
                  /\ UNCHANGED <<ring, g_tMutex, device, main>>

Relock == /\ mpc = "wait" /\ g_tConVar \in {"signalled", "spurious"}
          /\ g_tMutex = Free
          /\ g_tMutex' = Main /\ mpc' = "recheck"
          /\ UNCHANGED <<ring, g_tConVar, device, ptemp, via, mtemp, event>>

\* After the wait the ring is tested once more, and only once.
RecheckFinds == FindsEvent("recheck", "woken") /\ g_tConVar' = "none"

RecheckFails == /\ mpc = "recheck" /\ Empty
                /\ g_tConVar' = "none" /\ mpc' = "unlock"
                /\ UNCHANGED <<ring, g_tMutex, device, ptemp, via, mtemp, event>>

\* GetInputEvent_unblock tests the ring without the mutex.
CheckUnblock == FindsEvent("check_unblock", "unblock") /\ UNCHANGED g_tConVar

UnblockFails == /\ mpc = "check_unblock" /\ Empty
                /\ mpc' = "app"
                /\ UNCHANGED <<ring, sync, device, ptemp, via, mtemp, event>>

\* GetInputEventFromBuffer's other two accesses: the slot, then g_iRead.
GetCopy == /\ mpc = "copy"
           /\ mtemp' = g_atInputEvents[g_iRead]
           /\ mpc' = "bump"
           /\ UNCHANGED <<ring, sync, device, ptemp, via, event>>

\* Only the woken path unlocks.
GetBump == /\ mpc = "bump"
           /\ g_iRead' = Succ(g_iRead)
           /\ event' = mtemp
           /\ mpc' = IF via = "woken" THEN "unlock" ELSE "app"
           /\ UNCHANGED <<g_iWrite, g_atInputEvents, sync, device, ptemp, via, mtemp>>

MainUnlock == /\ mpc = "unlock"
              /\ g_tMutex' = Free /\ mpc' = "app"
              /\ UNCHANGED <<ring, g_tConVar, device, ptemp, via, mtemp, event>>

-------------------------------------------------------------------------------
DeviceStep(d) == \/ DeviceLock(d) \/ PutCheck(d) \/ PutWrite(d) \/ PutAdvance(d)
                 \/ DeviceSignal(d) \/ DeviceUnlock(d)

MainStep == \/ InitDevice \/ InitDone \/ MainLock \/ CheckFast \/ CheckWait
            \/ Relock \/ RecheckFinds \/ RecheckFails
            \/ CheckUnblock \/ UnblockFails \/ GetCopy \/ GetBump \/ MainUnlock

Next == \/ MainStep \/ SpuriousWakeup \/ CallGetInputEvent \/ CallUnblock
        \/ \E d \in Device : DeviceRead(d) \/ DeviceStep(d)

Spec == Init /\ [][Next]_vars

\* Every thread that can run gets to run, and one that wants the mutex gets it
\* if it is free time and again.  Devices need not report, the pages need not
\* call, and wakeups need not be spurious.
Fairness == /\ WF_vars(MainStep)
            /\ SF_vars(MainLock) /\ SF_vars(Relock)
            /\ \A d \in Device : WF_vars(DeviceStep(d)) /\ SF_vars(DeviceLock(d))

FairSpec == Spec /\ Fairness

-------------------------------------------------------------------------------
\* What must be true of it.

WritingThread == {"check", "write", "advance", "signal", "unlock"}

\* The main thread is in a part of GetInputEvent the code runs under the mutex.
InLockedPart == \/ mpc \in {"check", "recheck", "unlock"}
                \/ mpc \in {"copy", "bump"} /\ via # "unblock"

\* Every variable keeps its type; the ring's indices stay inside the ring.
TypeOK == /\ g_iRead \in Index /\ g_iWrite \in Index
          /\ g_atInputEvents \in [Index -> InputEvent]
          /\ g_tMutex \in Device \cup {Main, Free}
          /\ g_tConVar \in {"none", "waiting", "signalled", "spurious"}
          /\ ptemp \in Nat \ {0}
          /\ pc \in [Device -> DevicePc]
          /\ temp \in [Device -> InputEvent]
          /\ mpc \in MainPc /\ via \in {"fast", "woken", "unblock"}
          /\ mtemp \in InputEvent /\ event \in InputEvent

\* The mutex does its work for the producers: a thread inside
\* PutInputEventToBuffer, or between it and the unlock, is the owner, so the
\* device threads never interleave there, and the main thread owns the mutex
\* through the locked parts of GetInputEvent and has given it up when it sleeps.
LockDiscipline ==
    /\ \A d \in Device : pc[d] \in WritingThread <=> g_tMutex = d
    /\ InLockedPart => g_tMutex = Main
    /\ mpc = "wait" => g_tMutex # Main

\* GetInputEvent_unblock reads the ring while a device thread may be writing
\* it, but the two are never in the same slot: what separates them is the slot
\* that isInputBufferFull keeps free.
NoDataRace == \A d \in Device : mpc = "copy" /\ pc[d] = "write" => g_iRead # g_iWrite

\* GetInputEvent tests the ring only once after its wait, with no loop around
\* pthread_cond_wait.  That is enough when the wait ended by a signal: it
\* returns -1 only after a spurious wakeup.
SignalMeansData == mpc = "recheck" /\ g_tConVar = "signalled" => ~Empty

\* Why these hold.  The reader has seen the slot it empties as full and the
\* writer has seen the slot it fills as free, and nobody else can change that;
\* a thread about to signal a sleeper leaves an event behind.
ReaderSlot == mpc \in {"copy", "bump"} => ~Empty
WriterSlot == \A d \in Device : pc[d] \in {"write", "advance"} => ~Full
CondInv ==
    /\ g_tConVar # "none" <=> mpc \in {"wait", "recheck"}
    /\ g_tConVar = "waiting" => mpc = "wait"
    /\ g_tConVar = "signalled" => ~Empty
    /\ \A d \in Device : pc[d] = "signal" /\ g_tConVar = "waiting" => ~Empty

\* A device that input_device_init has yet to reach has no thread.
InitInv == \A k \in 1 .. Len(RegisterOrder) : k >= ptemp => pc[ListedDevice(k)] = "none"

\* The inductive invariant: TypeOK and LockDiscipline with the reasons above.
IInv == TypeOK /\ LockDiscipline /\ ReaderSlot /\ WriterSlot /\ CondInv /\ InitInv

\* The events in the ring, oldest first.
Contents == ContentsOf(BUFFER_LEN, g_iRead, g_iWrite, g_atInputEvents)

Queue == INSTANCE EventQueue WITH Capacity <- BUFFER_LEN - 1, queue <- Contents

\* Locked or not, the pages get the events that were put, each once, unchanged
\* and in order, and at most BUFFER_LEN - 1 are pending.
ImplementsQueue == Queue!Spec

\* No wakeup is lost: a page asleep in GetInputEvent while the ring holds an
\* event gets back to work.
WaiterIsServed == (mpc = "wait" /\ ~Empty) ~> (mpc = "app")

\* The main thread is back in a page, or asking for the next event, and owns
\* the mutex all the same: GetInputEvent found data at once and kept it.
Leaked == g_tMutex = Main /\ ~InLockedPart

\* Nothing but a mutex kept by the main thread can hold up a device thread: it
\* gets to put its event, or GetInputEvent has returned with the mutex.
DeviceServed == \A d \in Device : (pc[d] = "lock") ~> (pc[d] # "lock" \/ Leaked)

\* What the comment at GetInputEvent's first test says ("there is data: read it
\* and return"): a call made while the ring holds an event returns.
DataReturns == (mpc = "lock" /\ ~Empty) ~> (mpc = "app")

===============================================================================
