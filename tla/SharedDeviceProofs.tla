------------------------- MODULE SharedDeviceProofs -------------------------
(***************************************************************************)
(* Proofs about SharedDevice, for any number of processes, any timeouts    *)
(* and any values of the back-off constants.                               *)
(***************************************************************************)
EXTENDS SharedDevice, TLAPS

-----------------------------------------------------------------------------
(* What the two saturating updates of libhoth_claim_device() compute.      *)

\* The running total never wraps around: it grows by the wait or stays at
\* UINT32_MAX, and while it is below UINT32_MAX it is exact.
LEMMA AddWaitingSaturates ==
    ASSUME NEW total \in 0 .. Uint32Max, NEW wait \in 0 .. MaxSleep
    PROVE  /\ AddWaiting(total, wait) \in 0 .. Uint32Max
           /\ AddWaiting(total, wait) <= total + wait
           /\ AddWaiting(total, wait) < Uint32Max =>
                 AddWaiting(total, wait) = total + wait
  BY DeviceAssumption DEF AddWaiting

\* The back-off never asks usleep() for more than MAX_SINGLE_SLEEP_US.
LEMMA BackOffBounded ==
    ASSUME NEW wait \in 0 .. MaxSleep
    PROVE  BackOff(wait) \in 0 .. MaxSleep
  BY DeviceAssumption DEF BackOff

\* How the RoT is attached never changes: all the processes use the same
\* transport's functions.
LEMMA TransportKept ==
    ASSUME NEW p \in Procs, ProcNext(p)
    PROVE  UNCHANGED transport
  BY DEF ProcNext, ClaimAttempt, ClaimGranted, ClaimTimedOut, ClaimBusy,
         ClaimError, ClaimFailed, Sleep, OpenDevice, OpenMtd,
         ReclaimAfterYield, ReconnectUsb, EnterClaim, SetUp, SetUpFails,
         Close, Die, Gone, StartConsole, ReleaseAndYield, ReadConsole,
         WriteConsole, ReconnectNoOp, MoveTo, ReconnectUsbFails

-----------------------------------------------------------------------------
(* Type correctness                                                        *)

\* Every step of every process keeps the variables in their types.
THEOREM TypeCorrect == Spec => []TypeOK
<1>1. Init => TypeOK
  BY DeviceAssumption DEF Init, TypeOK, Places, Commanding, Callers, Results, Transports
<1>2. TypeOK /\ [Next]_vars => TypeOK'
  <2> SUFFICES ASSUME TypeOK, [Next]_vars
               PROVE  TypeOK'
    OBVIOUS
  <2> USE DeviceAssumption
      DEF TypeOK, Places, Commanding, Callers, Results, Transports,
          claimVars
  <2>1. ASSUME NEW p \in Procs, NEW who \in Callers, NEW t \in Timeouts,
               EnterClaim(p, who, t),
               handle' \in [Procs -> BOOLEAN],
               lock' \in Procs \union {None}
        PROVE  TypeOK'
    BY <2>1 DEF EnterClaim
  <2>2. ASSUME NEW p \in Procs, NEW place \in Places, MoveTo(p, place)
        PROVE  TypeOK'
    BY <2>2 DEF MoveTo
  <2>3. ASSUME NEW p \in Procs, NEW err \in Results, ClaimFailed(p, err)
        PROVE  TypeOK'
    BY <2>3 DEF ClaimFailed, Unlocked
  <2>4. ASSUME NEW p \in Procs, Gone(p)
        PROVE  TypeOK'
    BY <2>4 DEF Gone, Unlocked
  <2>5. ASSUME NEW p \in Procs, ProcNext(p)
        PROVE  TypeOK'
    <3> USE <2>5
    <3>1. CASE ClaimGranted(p)
      BY <3>1 DEF ClaimGranted, AfterClaim
    <3>2. CASE ClaimTimedOut(p) \/ ClaimError(p)
      BY <3>2, <2>3 DEF ClaimTimedOut, ClaimError
    <3>3. CASE ClaimBusy(p)
      BY <3>3 DEF ClaimBusy
    <3>4. CASE Sleep(p)
      <4>1. /\ total_waiting_us[p] \in 0 .. Uint32Max
            /\ wait_us[p] \in 0 .. MaxSleep
            /\ slept[p] \in Nat
        OBVIOUS
      <4>2. AddWaiting(total_waiting_us[p], wait_us[p]) \in 0 .. Uint32Max
        BY <4>1, AddWaitingSaturates
      <4>3. BackOff(wait_us[p]) \in 0 .. MaxSleep
        BY <4>1, BackOffBounded
      <4>4. slept[p] + wait_us[p] \in Nat
        BY <4>1
      <4>5. QED
        BY <3>4, <4>2, <4>3, <4>4 DEF Sleep
    <3>5. CASE \E t \in Timeouts : OpenDevice(p, t)
      BY <3>5, <2>1 DEF OpenDevice
    <3>6. CASE \E t \in Timeouts : OpenMtd(p, t)
      <4> PICK t \in Timeouts : OpenMtd(p, t)
        BY <3>6
      <4>1. /\ lock' \in Procs \union {None}
            /\ handle' \in [Procs -> BOOLEAN]
            /\ transport' \in Transports
        BY DEF OpenMtd
      <4>2. /\ pc' \in [Procs -> Places]
            /\ result' \in [Procs -> Results]
        BY DEF OpenMtd
      <4>3. /\ caller' \in [Procs -> Callers]
            /\ timeout_us' \in [Procs -> 0 .. Uint32Max]
            /\ wait_us' \in [Procs -> 0 .. MaxSleep]
            /\ total_waiting_us' \in [Procs -> 0 .. Uint32Max]
            /\ slept' \in [Procs -> Nat]
        BY DEF OpenMtd
      <4>4. QED
        BY <4>1, <4>2, <4>3
    <3>7. CASE \E t \in Timeouts : ReclaimAfterYield(p, t)
      BY <3>7, <2>1 DEF ReclaimAfterYield
    <3>8. CASE \E t \in Timeouts : ReconnectUsb(p, t)
      BY <3>8, <2>1 DEF ReconnectUsb, Unlocked
    <3>9. CASE SetUp(p)
      BY <3>9 DEF SetUp
    <3>10. CASE SetUpFails(p)
      BY <3>10 DEF SetUpFails, Unlocked
    <3>11. CASE Close(p) \/ Die(p)
      BY <3>11, <2>4 DEF Close, Die
    <3>12. CASE StartConsole(p) \/ ReadConsole(p) \/ WriteConsole(p)
                \/ ReconnectNoOp(p)
      BY <3>12, <2>2 DEF StartConsole, ReadConsole, WriteConsole,
                         ReconnectNoOp
    <3>13. CASE ReleaseAndYield(p)
      BY <3>13 DEF ReleaseAndYield, Unlocked
    <3>14. CASE ReconnectUsbFails(p)
      BY <3>14 DEF ReconnectUsbFails, Unlocked
    <3>15. QED
      BY <2>5, <3>1, <3>2, <3>3, <3>4, <3>5, <3>6, <3>7, <3>8, <3>9, <3>10,
         <3>11, <3>12, <3>13, <3>14 DEF ProcNext, ClaimAttempt
  <2>6. CASE UNCHANGED vars
    BY <2>6 DEF vars
  <2>7. QED
    BY <2>5, <2>6 DEF Next
<1>3. QED
  BY <1>1, <1>2, PTL DEF Spec

-----------------------------------------------------------------------------
(* Safety.  The invariant is a conjunction of facts about one process each; *)
(* a step of p keeps the facts about another process q because it leaves    *)
(* q's variables alone and never takes the lock from q.                     *)

LocalInv(q) ==
    /\ pc[q] \in Commanding => lock = q
    /\ pc[q] \notin {"closed", "reconnect"} => handle[q]
    /\ pc[q] = "setup" => caller[q] # "console"
    /\ transport # "usb" => /\ caller[q] # "reconnect"
                            /\ pc[q] # "closed" => handle[q]
    /\ total_waiting_us[q] <= slept[q]
    /\ total_waiting_us[q] < Uint32Max => slept[q] = total_waiting_us[q]
    /\ pc[q] = "sleep" => total_waiting_us[q] < timeout_us[q]
    /\ pc[q] \in {"claim", "sleep"} =>
          slept[q] = 0 \/ slept[q] < timeout_us[q] + MaxSleep
    /\ result[q] = "busy" => \/ slept[q] >= timeout_us[q]
                             \/ transport = "mtd" /\ caller[q] = "open"

\* What a step of another process leaves of q.
Untouched(q) ==
    /\ pc'[q] = pc[q]
    /\ caller'[q] = caller[q]
    /\ handle'[q] = handle[q]
    /\ timeout_us'[q] = timeout_us[q]
    /\ total_waiting_us'[q] = total_waiting_us[q]
    /\ slept'[q] = slept[q]
    /\ result'[q] = result[q]
    /\ lock = q => lock' = q

\* The inductive invariant is the type invariant and LocalInv of every process.
LEMMA IInvIsLocal == IInv <=> TypeOK /\ \A q \in Procs : LocalInv(q)
  BY DEF IInv, LocalInv, CommandsUnderClaim, HandleIsOpenWhenUsed,
         HandleIsKept, CounterTracksSleep, SleepBudget, NoEarlyGiveUp

\* No step of p takes the lock from q or changes q's handle or counters.
LEMMA OthersUntouched ==
    ASSUME TypeOK, NEW p \in Procs, ProcNext(p), NEW q \in Procs, q # p
    PROVE  Untouched(q)
<1> USE DeviceAssumption DEF TypeOK, Untouched, claimVars
<1>1. CASE ClaimAttempt(p) \/ ClaimError(p)
  BY <1>1 DEF ClaimAttempt, ClaimGranted, ClaimTimedOut, ClaimError, ClaimBusy,
              ClaimFailed, Grantable, Unlocked
<1>2. CASE Sleep(p) \/ SetUp(p) \/ SetUpFails(p)
  BY <1>2 DEF Sleep, SetUp, SetUpFails, Unlocked
<1>3. CASE \E t \in Timeouts : OpenDevice(p, t) \/ ReclaimAfterYield(p, t)
  BY <1>3 DEF OpenDevice, ReclaimAfterYield, EnterClaim
<1>4. CASE \E t \in Timeouts : OpenMtd(p, t)
  <2> PICK t \in Timeouts : OpenMtd(p, t)
    BY <1>4
  <2>1. lock = q => lock' = q
    BY DEF OpenMtd, Grantable
  <2>2. pc'[q] = pc[q] /\ handle'[q] = handle[q] /\ result'[q] = result[q]
    BY DEF OpenMtd
  <2>3. QED
    BY <2>1, <2>2 DEF OpenMtd
<1>5. CASE \E t \in Timeouts : ReconnectUsb(p, t)
  BY <1>5 DEF ReconnectUsb, EnterClaim, Unlocked
<1>6. CASE Close(p) \/ Die(p)
  BY <1>6 DEF Close, Die, Gone, Unlocked
<1>7. CASE StartConsole(p) \/ ReadConsole(p) \/ WriteConsole(p)
           \/ ReconnectNoOp(p)
  BY <1>7 DEF StartConsole, ReadConsole, WriteConsole, ReconnectNoOp, MoveTo
<1>8. CASE ReleaseAndYield(p) \/ ReconnectUsbFails(p)
  BY <1>8 DEF ReleaseAndYield, ReconnectUsbFails, Unlocked
<1>9. QED
  BY <1>1, <1>2, <1>3, <1>4, <1>5, <1>6, <1>7, <1>8 DEF ProcNext

\* A step of p keeps LocalInv of p itself, action by action.
LEMMA OwnStep ==
    ASSUME TypeOK, TypeOK', NEW p \in Procs, LocalInv(p), ProcNext(p)
    PROVE  LocalInv(p)'
<1>0. UNCHANGED transport
  BY TransportKept
<1> USE DeviceAssumption, <1>0 DEF TypeOK, LocalInv, claimVars, Commanding, Callers
<1>1. CASE ClaimGranted(p)
  BY <1>1 DEF ClaimGranted, AfterClaim
<1>2. CASE ClaimTimedOut(p)
  BY <1>2 DEF ClaimTimedOut, ClaimFailed
<1>3. CASE ClaimError(p)
  BY <1>3 DEF ClaimError, ClaimFailed
<1>4. CASE ClaimBusy(p)
  BY <1>4 DEF ClaimBusy
<1>5. CASE Sleep(p)
  <2>1. /\ total_waiting_us[p] \in 0 .. Uint32Max
        /\ wait_us[p] \in 0 .. MaxSleep
        /\ timeout_us[p] \in 0 .. Uint32Max
        /\ slept[p] \in Nat
    OBVIOUS
  <2>2. slept[p] = total_waiting_us[p] /\ slept[p] < timeout_us[p]
    BY <1>5, <2>1 DEF Sleep
  <2>3. /\ total_waiting_us'[p] = AddWaiting(total_waiting_us[p], wait_us[p])
        /\ slept'[p] = slept[p] + wait_us[p]
        /\ timeout_us'[p] = timeout_us[p]
        /\ pc'[p] = "claim"
    BY <1>5 DEF Sleep
  <2>4. /\ total_waiting_us'[p] <= slept'[p]
        /\ total_waiting_us'[p] < Uint32Max =>
              slept'[p] = total_waiting_us'[p]
    BY <2>1, <2>2, <2>3, AddWaitingSaturates
  <2>5. slept'[p] < timeout_us'[p] + MaxSleep
    BY <2>1, <2>2, <2>3
  <2>6. result'[p] = "busy" =>
          \/ slept[p] >= timeout_us[p]
          \/ transport = "mtd" /\ caller[p] = "open"
    BY <1>5 DEF Sleep
  <2>7. handle'[p] /\ caller'[p] = caller[p]
    BY <1>5 DEF Sleep
  <2>8. QED
    BY <2>1, <2>2, <2>3, <2>4, <2>5, <2>6, <2>7
<1>6. CASE \E t \in Timeouts : OpenDevice(p, t) \/ ReclaimAfterYield(p, t)
                                \/ ReconnectUsb(p, t)
  BY <1>6 DEF OpenDevice, ReclaimAfterYield, ReconnectUsb, EnterClaim
<1>7. CASE \E t \in Timeouts : OpenMtd(p, t)
  <2> PICK t \in Timeouts : OpenMtd(p, t)
    BY <1>7
  <2>1. /\ transport = "mtd" /\ total_waiting_us'[p] = 0 /\ slept'[p] = 0
        /\ caller'[p] = "open"
    BY DEF OpenMtd
  <2>2. \/ pc'[p] = "closed"
        \/ pc'[p] = "run" /\ lock' = p /\ handle'[p]
    BY DEF OpenMtd
  <2>3. QED
    BY <2>1, <2>2
<1>8. CASE SetUp(p)
  BY <1>8 DEF SetUp
<1>9. CASE SetUpFails(p)
  BY <1>9 DEF SetUpFails
<1>10. CASE Close(p) \/ Die(p)
  BY <1>10 DEF Close, Die, Gone
<1>11. CASE StartConsole(p) \/ ReadConsole(p) \/ WriteConsole(p)
           \/ ReconnectNoOp(p)
  BY <1>11 DEF StartConsole, ReadConsole, WriteConsole, ReconnectNoOp, MoveTo
<1>12. CASE ReleaseAndYield(p) \/ ReconnectUsbFails(p)
  BY <1>12 DEF ReleaseAndYield, ReconnectUsbFails
<1>13. QED
  <2> HIDE DEF TypeOK, LocalInv
  <2> QED
    BY <1>1, <1>2, <1>3, <1>4, <1>5, <1>6, <1>7, <1>8, <1>9, <1>10, <1>11,
       <1>12 DEF ProcNext, ClaimAttempt

\* The invariant holds in every reachable state.
THEOREM Invariance == Spec => []IInv
<1>1. Init => IInv
  <2> SUFFICES ASSUME Init PROVE IInv
    OBVIOUS
  <2>1. TypeOK
    BY DeviceAssumption DEF Init, TypeOK, Places, Commanding, Callers, Results, Transports
  <2>2. \A q \in Procs : LocalInv(q)
    BY DeviceAssumption DEF Init, LocalInv, Commanding
  <2>3. QED
    BY <2>1, <2>2, IInvIsLocal
<1>2. IInv /\ TypeOK' /\ [Next]_vars => IInv'
  <2> SUFFICES ASSUME IInv, TypeOK', [Next]_vars
               PROVE  IInv'
    OBVIOUS
  <2>1. TypeOK /\ \A q \in Procs : LocalInv(q)
    BY IInvIsLocal
  <2>2. ASSUME NEW q \in Procs PROVE LocalInv(q)'
    <3>1. CASE UNCHANGED vars
      BY <2>1, <3>1 DEF vars, LocalInv
    <3>2. ASSUME NEW p \in Procs, ProcNext(p), p # q
          PROVE  LocalInv(q)'
      <4>1. Untouched(q) /\ UNCHANGED transport
        BY <2>1, <3>2, OthersUntouched, TransportKept
      <4>2. QED
        BY <2>1, <4>1 DEF LocalInv, Untouched, Commanding
    <3>3. CASE ProcNext(q)
      BY <2>1, <3>3, OwnStep
    <3>4. QED
      BY <3>1, <3>2, <3>3 DEF Next
  <2>3. QED
    BY <2>2 DEF LocalInv, IInv, CommandsUnderClaim, HandleIsOpenWhenUsed,
                HandleIsKept, CounterTracksSleep, SleepBudget, NoEarlyGiveUp
<1>3. QED
  BY <1>1, <1>2, TypeCorrect, PTL DEF Spec

\* Whatever the number of processes, host commands are exchanged only under
\* the transport's lock.
THEOREM ExclusiveCommands == Spec => []CommandsUnderClaim
  BY Invariance, PTL DEF IInv

\* No release, claim or host command runs on a closed handle.
THEOREM OpenHandles == Spec => []HandleIsOpenWhenUsed
  BY Invariance, PTL DEF IInv

\* One claim never sleeps longer than timeout_us plus one maximal sleep.
THEOREM BoundedSleep == Spec => []SleepBudget
  BY Invariance, PTL DEF IInv

\* A busy interface is reported only after timeout_us, but for the single
\* attempt of libhoth_mtd_open().
THEOREM FullBudget == Spec => []NoEarlyGiveUp
  BY Invariance, PTL DEF IInv
=============================================================================
