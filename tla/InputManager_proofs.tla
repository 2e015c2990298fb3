-------------------------- MODULE InputManager_proofs --------------------------
(***************************************************************************)
(* The safety of the input manager for every ring length, every set of     *)
(* devices and every set of events: IInv is inductive, and what the runs   *)
(* check of InputManager's states follows from it.  The last part shows    *)
(* that it implements EventQueue: the lemmas of Ring_proofs tell what the  *)
(* ring's contents become when a slot is written or an index moves, and    *)
(* each action is mapped to one of the queue or to a stutter.              *)
(***************************************************************************)
EXTENDS InputManager, Ring_proofs

\* Succ stays in the ring.
LEMMA SuccType == ASSUME NEW i \in Index PROVE Succ(i) \in Index
  BY BufferAssumption, SMT DEF Succ, Index

\* Succ steps around the ring: it has no fixed point.
LEMMA SuccMoves == ASSUME NEW i \in Index PROVE Succ(i) # i
  BY BufferAssumption, SMT DEF Succ, Index

\* Succ without the modulus.
LEMMA SuccValue == ASSUME NEW i \in Index
                   PROVE Succ(i) = IF i + 1 = BUFFER_LEN THEN 0 ELSE i + 1
  BY BufferAssumption, SMT DEF Succ, Index

\* Succ takes no index twice.
LEMMA SuccInjective == ASSUME NEW i \in Index, NEW j \in Index, Succ(i) = Succ(j)
                       PROVE i = j
  BY SuccValue, BufferAssumption, SMT DEF Index

\* The list of devices holds devices.
LEMMA ListedType == ASSUME NEW k \in 1 .. Len(RegisterOrder)
                    PROVE ListedDevice(k) \in Device
  BY DeviceAssumption, SMT DEF ListedDevice

\* input_device_init meets each device once.
LEMMA ListedOnce == ASSUME NEW k \in 1 .. Len(RegisterOrder),
                           NEW m \in 1 .. Len(RegisterOrder),
                           ListedDevice(k) = ListedDevice(m)
                    PROVE k = m
<1> DEFINE n == Len(RegisterOrder)
<1>1. n \in Nat
  BY DeviceAssumption, SMT
<1>2. n + 1 - k \in 1 .. n /\ n + 1 - m \in 1 .. n
  BY <1>1, SMT
<1>3. n + 1 - k = n + 1 - m
  BY <1>2, DeviceAssumption DEF ListedDevice
<1> QED BY <1>1, <1>3, SMT

-------------------------------------------------------------------------------

\* The state at start-up has its types.
LEMMA TypeInit == Init => TypeOK
  BY BufferAssumption, DeviceAssumption, EventAssumption, SMT
  DEF Init, TypeOK, Index, DevicePc, MainPc

\* So has the state after every step.
LEMMA TypeStep == TypeOK /\ [Next]_vars => TypeOK'
<1> SUFFICES ASSUME TypeOK, [Next]_vars PROVE TypeOK'
  OBVIOUS
<1> USE DEF TypeOK, ring, sync, device, main
<1>1. CASE InitDevice
  BY <1>1, ListedType, SMT DEF InitDevice, DevicePc
<1>2. CASE InitDone
  BY <1>2 DEF InitDone, MainPc
<1>3. CASE CallGetInputEvent \/ CallUnblock \/ CheckWait \/ UnblockFails
  BY <1>3 DEF CallGetInputEvent, CallUnblock, CheckWait, UnblockFails, MainPc
<1>4. CASE MainLock \/ Relock \/ MainUnlock \/ SpuriousWakeup \/ RecheckFails
  BY <1>4 DEF MainLock, Relock, MainUnlock, SpuriousWakeup, RecheckFails, MainPc
<1>5. CASE CheckFast \/ RecheckFinds \/ CheckUnblock
  BY <1>5 DEF CheckFast, RecheckFinds, CheckUnblock, FindsEvent, MainPc
<1>6. CASE GetCopy
  BY <1>6 DEF GetCopy, MainPc
<1>7. CASE GetBump
  BY <1>7, SuccType DEF GetBump, MainPc
<1>8. ASSUME NEW d \in Device, DeviceRead(d) PROVE TypeOK'
  BY <1>8, EventAssumption DEF DeviceRead, Goto, DevicePc
<1>9. ASSUME NEW d \in Device, DeviceLock(d) \/ DeviceSignal(d) \/ DeviceUnlock(d)
      PROVE TypeOK'
  BY <1>9 DEF DeviceLock, DeviceSignal, DeviceUnlock, Goto, DevicePc
<1>10. ASSUME NEW d \in Device, PutCheck(d) PROVE TypeOK'
  BY <1>10 DEF PutCheck, Goto, DevicePc
<1>11. ASSUME NEW d \in Device, PutWrite(d) PROVE TypeOK'
  BY <1>11 DEF PutWrite, Goto, DevicePc
<1>12. ASSUME NEW d \in Device, PutAdvance(d) PROVE TypeOK'
  BY <1>12, SuccType DEF PutAdvance, Goto, DevicePc
<1>13. CASE UNCHANGED vars
  BY <1>13 DEF vars
<1> QED
  BY <1>1, <1>2, <1>3, <1>4, <1>5, <1>6, <1>7, <1>8, <1>9, <1>10, <1>11, <1>12, <1>13
  DEF Next, MainStep, DeviceStep

\* Every variable keeps its type and the ring's indices stay inside
\* g_atInputEvents, whatever BUFFER_LEN and however the threads interleave.
THEOREM TypeCorrect == Spec => []TypeOK
  BY TypeInit, TypeStep, PTL DEF Spec

-------------------------------------------------------------------------------
\* The mutex.  Only a thread that finds it free takes it, and only its owner
\* gives it up.
LEMMA LockInit == Init => LockDiscipline
  BY DeviceAssumption DEF Init, LockDiscipline, WritingThread, InLockedPart

\* Every step keeps the discipline of the mutex.
LEMMA LockStep == IInv /\ [Next]_vars => LockDiscipline'
<1> SUFFICES ASSUME IInv, [Next]_vars PROVE LockDiscipline'
  OBVIOUS
<1> USE DeviceAssumption
    DEF IInv, TypeOK, LockDiscipline, WritingThread, InLockedPart, ring, sync, device, main
<1>1. CASE InitDevice
  <2>1. ptemp \in 1 .. Len(RegisterOrder)
    BY <1>1, SMT DEF InitDevice
  <2>2. pc[ListedDevice(ptemp)] = "none"
    BY <2>1, SMT DEF InitInv
  <2> QED
    BY <1>1, <2>2 DEF InitDevice
<1>2. CASE InitDone \/ CallGetInputEvent \/ CallUnblock \/ UnblockFails
  BY <1>2 DEF InitDone, CallGetInputEvent, CallUnblock, UnblockFails
<1>3. CASE MainLock \/ Relock
  BY <1>3 DEF MainLock, Relock
<1>4. CASE CheckWait \/ MainUnlock
  BY <1>4 DEF CheckWait, MainUnlock
<1>5. CASE SpuriousWakeup \/ RecheckFails
  BY <1>5 DEF SpuriousWakeup, RecheckFails
<1>6. CASE CheckFast \/ RecheckFinds \/ CheckUnblock
  BY <1>6 DEF CheckFast, RecheckFinds, CheckUnblock, FindsEvent
<1>7. CASE GetCopy \/ GetBump
  BY <1>7 DEF GetCopy, GetBump
<1>8. ASSUME NEW d \in Device, DeviceRead(d) PROVE LockDiscipline'
  BY <1>8 DEF DeviceRead, Goto
<1>9. ASSUME NEW d \in Device, DeviceLock(d) PROVE LockDiscipline'
  BY <1>9 DEF DeviceLock, Goto
<1>10. ASSUME NEW d \in Device, PutCheck(d) \/ PutWrite(d) \/ PutAdvance(d) \/ DeviceSignal(d)
       PROVE LockDiscipline'
  BY <1>10 DEF PutCheck, PutWrite, PutAdvance, DeviceSignal, Goto
<1>11. ASSUME NEW d \in Device, DeviceUnlock(d) PROVE LockDiscipline'
  BY <1>11 DEF DeviceUnlock, Goto
<1>12. CASE UNCHANGED vars
  BY <1>12 DEF vars
<1> QED
  BY <1>1, <1>2, <1>3, <1>4, <1>5, <1>6, <1>7, <1>8, <1>9, <1>10, <1>11, <1>12
  DEF Next, MainStep, DeviceStep

-------------------------------------------------------------------------------
\* The ring between its reader and its writer.  The reader's test stays true
\* because a writer only ever makes the ring less empty, and the writer's
\* because the reader only ever makes it less full.
LEMMA RingStep == IInv /\ [Next]_vars => ReaderSlot' /\ WriterSlot'
<1> SUFFICES ASSUME IInv, [Next]_vars PROVE ReaderSlot' /\ WriterSlot'
  OBVIOUS
<1> USE DEF IInv, TypeOK, ReaderSlot, WriterSlot, Empty, Full, ring, sync, device, main
<1>1. CASE InitDevice
  BY <1>1, ListedType, SMT DEF InitDevice
<1>2. CASE InitDone \/ CallGetInputEvent \/ CallUnblock \/ UnblockFails
  BY <1>2 DEF InitDone, CallGetInputEvent, CallUnblock, UnblockFails
<1>3. CASE MainLock \/ Relock \/ CheckWait \/ MainUnlock \/ SpuriousWakeup \/ RecheckFails
  BY <1>3 DEF MainLock, Relock, CheckWait, MainUnlock, SpuriousWakeup, RecheckFails
<1>4. CASE CheckFast \/ RecheckFinds \/ CheckUnblock
  BY <1>4 DEF CheckFast, RecheckFinds, CheckUnblock, FindsEvent
<1>5. CASE GetCopy
  BY <1>5 DEF GetCopy
<1>6. CASE GetBump
  <2>1. Succ(g_iRead) # Succ(g_iWrite)
    BY <1>6, SuccInjective DEF GetBump
  <2> QED
    BY <1>6, <2>1 DEF GetBump, Succ
<1>7. ASSUME NEW d \in Device,
             DeviceRead(d) \/ DeviceLock(d) \/ PutCheck(d) \/ DeviceSignal(d) \/ DeviceUnlock(d)
      PROVE ReaderSlot' /\ WriterSlot'
  BY <1>7 DEF DeviceRead, DeviceLock, PutCheck, DeviceSignal, DeviceUnlock, Goto
<1>8. ASSUME NEW d \in Device, PutWrite(d) PROVE ReaderSlot' /\ WriterSlot'
  BY <1>8 DEF PutWrite, Goto
<1>9. ASSUME NEW d \in Device, PutAdvance(d) PROVE ReaderSlot' /\ WriterSlot'
  <2>1. ReaderSlot'
    BY <1>9 DEF PutAdvance
  <2>2. \A e \in Device : pc'[e] \notin {"write", "advance"}
    BY <1>9, DeviceAssumption DEF PutAdvance, Goto, LockDiscipline, WritingThread
  <2> QED
    BY <2>1, <2>2
<1>10. CASE UNCHANGED vars
  BY <1>10 DEF vars
<1> QED
  BY <1>1, <1>2, <1>3, <1>4, <1>5, <1>6, <1>7, <1>8, <1>9, <1>10
  DEF Next, MainStep, DeviceStep

\* The condition variable.  A thread that reaches pthread_cond_signal while the
\* main thread sleeps leaves the ring with an event, its own or those that kept
\* it from adding one, and a sleeper empties nothing.
LEMMA CondStep == IInv /\ [Next]_vars => CondInv'
<1> SUFFICES ASSUME IInv, [Next]_vars PROVE CondInv'
  OBVIOUS
<1> USE DEF IInv, TypeOK, CondInv, Empty, ring, sync, device, main
<1>1. CASE InitDevice
  BY <1>1, ListedType, SMT DEF InitDevice
<1>2. CASE InitDone \/ CallGetInputEvent \/ CallUnblock \/ UnblockFails \/ MainLock
           \/ Relock \/ MainUnlock \/ SpuriousWakeup \/ RecheckFails \/ GetCopy \/ GetBump
  BY <1>2 DEF InitDone, CallGetInputEvent, CallUnblock, UnblockFails, MainLock,
              Relock, MainUnlock, SpuriousWakeup, RecheckFails, GetCopy, GetBump
<1>3. CASE CheckWait
  BY <1>3, DeviceAssumption DEF CheckWait, LockDiscipline, WritingThread, InLockedPart
<1>4. CASE CheckFast \/ RecheckFinds \/ CheckUnblock
  BY <1>4 DEF CheckFast, RecheckFinds, CheckUnblock, FindsEvent
<1>5. ASSUME NEW d \in Device,
             DeviceRead(d) \/ DeviceLock(d) \/ PutWrite(d) \/ DeviceSignal(d) \/ DeviceUnlock(d)
      PROVE CondInv'
  BY <1>5 DEF DeviceRead, DeviceLock, PutWrite, DeviceSignal, DeviceUnlock, Goto
<1>6. ASSUME NEW d \in Device, PutCheck(d) PROVE CondInv'
  <2>1. Full => ~Empty
    BY SuccMoves DEF Full
  <2> QED
    BY <1>6, <2>1 DEF PutCheck, Goto
<1>7. ASSUME NEW d \in Device, PutAdvance(d) PROVE CondInv'
  <2>1. g_iRead' # g_iWrite'
    BY <1>7 DEF PutAdvance, WriterSlot, Full
  <2> QED
    BY <1>7, <2>1 DEF PutAdvance
<1>8. CASE UNCHANGED vars
  BY <1>8 DEF vars
<1> QED
  BY <1>1, <1>2, <1>3, <1>4, <1>5, <1>6, <1>7, <1>8
  DEF Next, MainStep, DeviceStep

-------------------------------------------------------------------------------
\* Start-up.  A thread starts only when input_device_init reaches its device,
\* which is then behind ptemp for good.
LEMMA InitStep == IInv /\ [Next]_vars => InitInv'
<1> SUFFICES ASSUME IInv, [Next]_vars, NEW k \in 1 .. Len(RegisterOrder), k >= ptemp'
             PROVE pc'[ListedDevice(k)] = "none"
  BY DEF InitInv
<1> USE DEF IInv, TypeOK, InitInv, device
<1>1. Len(RegisterOrder) \in Nat /\ ListedDevice(k) \in Device
  BY DeviceAssumption, ListedType
<1>2. CASE InitDevice
  <2>1. ptemp \in 1 .. Len(RegisterOrder) /\ k > ptemp
    BY <1>1, <1>2, SMT DEF InitDevice
  <2>2. ListedDevice(k) # ListedDevice(ptemp)
    BY <1>1, <2>1, ListedOnce, SMT
  <2>3. pc[ListedDevice(k)] = "none"
    BY <1>1, <2>1, SMT
  <2> QED
    BY <1>1, <1>2, <2>2, <2>3 DEF InitDevice
<1>3. CASE UNCHANGED <<ptemp, pc>>
  BY <1>3
<1>4. ASSUME NEW d \in Device, DeviceRead(d) \/ DeviceStep(d)
      PROVE pc'[ListedDevice(k)] = "none"
  <2>1. ptemp' = ptemp /\ pc[d] # "none" /\ \A e \in Device : e # d => pc'[e] = pc[e]
    BY <1>4 DEF DeviceStep, DeviceRead, DeviceLock, PutCheck, PutWrite, PutAdvance,
                DeviceSignal, DeviceUnlock, Goto, main
  <2> QED
    BY <1>1, <2>1
<1>5. MainStep \/ SpuriousWakeup \/ CallGetInputEvent \/ CallUnblock
      => InitDevice \/ UNCHANGED <<ptemp, pc>>
  BY DEF MainStep, SpuriousWakeup, CallGetInputEvent, CallUnblock, InitDone, MainLock,
         CheckFast, CheckWait, Relock, RecheckFinds, RecheckFails, CheckUnblock,
         UnblockFails, GetCopy, GetBump, MainUnlock, FindsEvent, main
<1>6. UNCHANGED vars => UNCHANGED <<ptemp, pc>>
  BY DEF vars, main
<1> QED
  BY <1>2, <1>3, <1>4, <1>5, <1>6 DEF Next

-------------------------------------------------------------------------------
\* Nothing is pending and no thread runs at start-up.
LEMMA IInvInit == Init => IInv
<1> SUFFICES ASSUME Init PROVE IInv
  OBVIOUS
<1>1. ReaderSlot /\ WriterSlot /\ CondInv
  BY DEF Init, ReaderSlot, WriterSlot, CondInv
<1>2. InitInv
  BY ListedType DEF Init, InitInv
<1> QED
  BY <1>1, <1>2, TypeInit, LockInit DEF IInv

\* The invariant is inductive.
THEOREM InductiveInvariant == Spec => []IInv
<1>1. IInv /\ [Next]_vars => IInv'
  BY TypeStep, LockStep, RingStep, CondStep, InitStep DEF IInv
<1> QED
  BY IInvInit, <1>1, PTL DEF Spec

\* The device threads exclude each other wherever they touch the ring, and the
\* main thread owns the mutex in the locked parts of GetInputEvent, even though
\* one of its returns keeps the mutex and one reader never takes it.
THEOREM LocksCorrect == Spec => []LockDiscipline
  BY InductiveInvariant, PTL DEF IInv

\* The unlocked GetInputEvent_unblock never reads the slot being written.
THEOREM RaceFree == Spec => []NoDataRace
<1>1. IInv => NoDataRace
  BY DEF IInv, ReaderSlot, Empty, NoDataRace
<1> QED
  BY <1>1, InductiveInvariant, PTL

\* One test of the ring after a signalled wait is enough.
THEOREM SignalsCarryData == Spec => []SignalMeansData
<1>1. IInv => SignalMeansData
  BY DEF IInv, CondInv, SignalMeansData
<1> QED
  BY <1>1, InductiveInvariant, PTL

-------------------------------------------------------------------------------
\* What the ring holds after a put, after a get, and while an event is written.
LEMMA ContentsChange ==
    ASSUME NEW r \in Index, NEW w \in Index, NEW f \in [Index -> InputEvent]
    PROVE  /\ r # Succ(w) =>
                  /\ ContentsOf(BUFFER_LEN, r, Succ(w), f)
                        = Append(ContentsOf(BUFFER_LEN, r, w, f), f[w])
                  /\ Len(ContentsOf(BUFFER_LEN, r, w, f)) < BUFFER_LEN - 1
           /\ r # w =>
                  /\ ContentsOf(BUFFER_LEN, r, w, f) # <<>>
                  /\ Head(ContentsOf(BUFFER_LEN, r, w, f)) = f[r]
                  /\ Tail(ContentsOf(BUFFER_LEN, r, w, f)) = ContentsOf(BUFFER_LEN, Succ(r), w, f)
           /\ \A e \in InputEvent :
                  ContentsOf(BUFFER_LEN, r, w, [f EXCEPT ![w] = e]) = ContentsOf(BUFFER_LEN, r, w, f)
<1>1. /\ BUFFER_LEN \in Nat /\ BUFFER_LEN > 1
      /\ r \in 0 .. BUFFER_LEN - 1 /\ w \in 0 .. BUFFER_LEN - 1
      /\ f \in [0 .. BUFFER_LEN - 1 -> InputEvent]
  BY BufferAssumption DEF Index
<1>2. Succ(w) = NextSlot(BUFFER_LEN, w) /\ Succ(r) = NextSlot(BUFFER_LEN, r)
  BY DEF Succ, NextSlot
<1>3. ASSUME r # Succ(w)
      PROVE  /\ ContentsOf(BUFFER_LEN, r, Succ(w), f)
                   = Append(ContentsOf(BUFFER_LEN, r, w, f), f[w])
             /\ Len(ContentsOf(BUFFER_LEN, r, w, f)) < BUFFER_LEN - 1
  BY <1>1, <1>2, <1>3, PushContents
<1>4. ASSUME r # w
      PROVE  /\ ContentsOf(BUFFER_LEN, r, w, f) # <<>>
             /\ Head(ContentsOf(BUFFER_LEN, r, w, f)) = f[r]
             /\ Tail(ContentsOf(BUFFER_LEN, r, w, f)) = ContentsOf(BUFFER_LEN, Succ(r), w, f)
  <2>1. /\ ContentsOf(BUFFER_LEN, r, w, f) # <<>>
        /\ Head(ContentsOf(BUFFER_LEN, r, w, f)) = f[r]
        /\ Tail(ContentsOf(BUFFER_LEN, r, w, f))
              = ContentsOf(BUFFER_LEN, NextSlot(BUFFER_LEN, r), w, f)
    BY <1>1, <1>4, PopContents, Zenon
  <2>2. QED
    BY <2>1, <1>2, Zenon
<1>5. ASSUME NEW e \in InputEvent
      PROVE ContentsOf(BUFFER_LEN, r, w, [f EXCEPT ![w] = e]) = ContentsOf(BUFFER_LEN, r, w, f)
  <2> DEFINE g == [f EXCEPT ![w] = e]
  <2>1. \A i \in 0 .. BUFFER_LEN - 1 : i # w => g[i] = f[i]
    BY <1>1
  <2> HIDE DEF g
  <2>2. ContentsOf(BUFFER_LEN, r, w, g) = ContentsOf(BUFFER_LEN, r, w, f)
    BY <1>1, <2>1, WriteKeeps
  <2> USE DEF g
  <2>3. QED
    BY <2>2, Zenon
<1>6. QED
  BY <1>3, <1>4, <1>5

-------------------------------------------------------------------------------
\* Between its two accesses the reader has a copy of the slot g_iRead still
\* points to.
CopyInv == mpc = "bump" => mtemp = g_atInputEvents[g_iRead]

\* The reader starts with no copy.
LEMMA CopyInit == Init => CopyInv
  BY DEF Init, CopyInv

\* No writer touches the slot the reader has copied.
LEMMA CopyStep == IInv /\ CopyInv /\ [Next]_vars => CopyInv'
<1> SUFFICES ASSUME IInv, CopyInv, [Next]_vars PROVE CopyInv'
  OBVIOUS
<1> USE DEF CopyInv, ring, sync, device, main
<1>1. CASE GetCopy
  BY <1>1 DEF GetCopy
<1>2. ASSUME NEW d \in Device, PutWrite(d) PROVE CopyInv'
  BY <1>2 DEF PutWrite, IInv, ReaderSlot, Empty, TypeOK
<1>3. ASSUME NEW d \in Device, DeviceRead(d) \/ DeviceLock(d) \/ PutCheck(d) \/ PutAdvance(d)
                                \/ DeviceSignal(d) \/ DeviceUnlock(d)
      PROVE CopyInv'
  BY <1>3 DEF DeviceRead, DeviceLock, PutCheck, PutAdvance, DeviceSignal, DeviceUnlock
<1>4. CASE InitDevice \/ InitDone \/ MainLock \/ CheckFast \/ CheckWait \/ Relock
           \/ RecheckFinds \/ RecheckFails \/ CheckUnblock \/ UnblockFails \/ GetBump
           \/ MainUnlock \/ SpuriousWakeup \/ CallGetInputEvent \/ CallUnblock
  BY <1>4 DEF InitDevice, InitDone, MainLock, CheckFast, CheckWait, Relock, RecheckFinds,
              RecheckFails, CheckUnblock, UnblockFails, GetBump, MainUnlock, SpuriousWakeup,
              CallGetInputEvent, CallUnblock, FindsEvent
<1>5. CASE UNCHANGED vars
  BY <1>5 DEF vars
<1> QED
  BY <1>1, <1>2, <1>3, <1>4, <1>5 DEF Next, MainStep, DeviceStep

-------------------------------------------------------------------------------
\* An empty ring is the empty queue.
LEMMA QueueInit == Init => Queue!Init
<1> SUFFICES ASSUME Init PROVE Contents = <<>> /\ event \in InputEvent
  BY DEF Queue!Init
<1>1. 0 \in Index
  BY BufferAssumption, SMT DEF Index
<1>2. CountOf(BUFFER_LEN, 0, 0) = 0
  BY <1>1, CountValue, BufferAssumption DEF Index
<1> QED
  BY <1>2, EventAssumption DEF Init, Contents, ContentsOf

\* The put is the store of g_iWrite, the get is the store of g_iRead, and every
\* other step of a thread is invisible.
LEMMA QueueStep == IInv /\ CopyInv /\ [Next]_vars => [Queue!Next]_<<Contents, event>>
<1> SUFFICES ASSUME IInv, CopyInv, [Next]_vars
             PROVE [Queue!Next]_<<Contents, event>>
  OBVIOUS
<1>1. /\ g_iRead \in Index /\ g_iWrite \in Index
      /\ g_atInputEvents \in [Index -> InputEvent]
  BY DEF IInv, TypeOK
<1> USE DEF ring, sync, device, main
<1>2. CASE GetBump
  <2>1. g_iRead # g_iWrite /\ mtemp = g_atInputEvents[g_iRead]
    BY <1>2 DEF GetBump, IInv, ReaderSlot, Empty, CopyInv
  <2>2. Contents # <<>> /\ event' = Head(Contents) /\ Contents' = Tail(Contents)
    BY <1>1, <1>2, <2>1, ContentsChange DEF GetBump, Contents
  <2> QED
    BY <2>2 DEF Queue!Next, Queue!Get
<1>3. ASSUME NEW d \in Device, PutAdvance(d) PROVE [Queue!Next]_<<Contents, event>>
  <2>1. g_iRead # Succ(g_iWrite)
    BY <1>3 DEF PutAdvance, IInv, WriterSlot, Full
  <2> DEFINE e == g_atInputEvents[g_iWrite]
  <2>2. /\ e \in InputEvent /\ Len(Contents) < BUFFER_LEN - 1
        /\ Contents' = Append(Contents, e) /\ event' = event
    BY <1>1, <1>3, <2>1, ContentsChange DEF PutAdvance, Contents
  <2> QED
    BY <2>2 DEF Queue!Next, Queue!Put
<1>4. ASSUME NEW d \in Device, PutWrite(d) PROVE [Queue!Next]_<<Contents, event>>
  <2>1. temp[d] \in InputEvent
    BY DEF IInv, TypeOK
  <2>2. Contents' = Contents /\ event' = event
    BY <1>1, <1>4, <2>1, ContentsChange DEF PutWrite, Contents
  <2> QED
    BY <2>2
<1>5. CASE UNCHANGED <<ring, event>>
  BY <1>5 DEF Contents
<1>6. ASSUME NEW d \in Device, DeviceRead(d) \/ DeviceLock(d) \/ PutCheck(d)
                                \/ DeviceSignal(d) \/ DeviceUnlock(d)
      PROVE UNCHANGED <<ring, event>>
  BY <1>6 DEF DeviceRead, DeviceLock, PutCheck, DeviceSignal, DeviceUnlock
<1>7. MainStep \/ SpuriousWakeup \/ CallGetInputEvent \/ CallUnblock
      => GetBump \/ UNCHANGED <<ring, event>>
  BY DEF MainStep, SpuriousWakeup, CallGetInputEvent, CallUnblock, InitDevice, InitDone,
         MainLock, CheckFast, CheckWait, Relock, RecheckFinds, RecheckFails, CheckUnblock,
         UnblockFails, GetCopy, MainUnlock, FindsEvent
<1>8. UNCHANGED vars => UNCHANGED <<ring, event>>
  BY DEF vars
<1> QED
  BY <1>2, <1>3, <1>4, <1>5, <1>6, <1>7, <1>8 DEF Next, DeviceStep

\* The pages get the events that were put, each once, unchanged and in order,
\* through the locked and the unlocked readers alike.
THEOREM QueueImplemented == Spec => ImplementsQueue
<1>1. IInv /\ CopyInv /\ [Next]_vars => CopyInv'
  BY CopyStep
<1>2. Spec => []CopyInv
  BY <1>1, CopyInit, InductiveInvariant, PTL DEF Spec
<1> QED
  BY <1>2, QueueInit, QueueStep, InductiveInvariant, PTL DEF Spec, ImplementsQueue, Queue!Spec

===============================================================================
