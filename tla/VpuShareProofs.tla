--------------------------- MODULE VpuShareProofs ---------------------------
(***************************************************************************)
(* Proofs about VpuShare, for every number of processes, decoders and      *)
(* instances, and whether or not calls are made while processes share:     *)
(* what is said of a process holds while it is the only one.               *)
(***************************************************************************)
EXTENDS VpuShare, TLAPS

USE ProcAssumption, NoneAssumption

-----------------------------------------------------------------------------
(* Types, one part at a time: the provers lose their way in the whole.     *)

LEMMA ForgetType ==
  ASSUME NEW p, NEW S, NEW f \in [Clients -> S], NEW v \in S
  PROVE  Forget(p, f, v) \in [Clients -> S]
BY DEF Forget

LEMMA TypeInit == Init => TypeOK
<1> SUFFICES ASSUME Init PROVE TypeOK
    OBVIOUS
<1>1. SharedTypes
      BY DEF Init, SharedTypes
<1>2. DeviceTypes
      BY DEF Init, DeviceTypes
<1>3. HwTypes
      BY DEF Init, HwTypes, HwIdle, HwStates
<1>4. FlagTypes
      BY DEF Init, FlagTypes
<1>5. CallTypes /\ StreamTypes
      BY DEF Init, CallTypes, StreamTypes
<1> QED BY <1>1, <1>2, <1>3, <1>4, <1>5 DEF TypeOK

LEMMA SharedTypesNext == TypeOK /\ [Next]_vars => SharedTypes'
<1> SUFFICES ASSUME TypeOK, [Next]_vars PROVE SharedTypes'
    OBVIOUS
<1> USE DEF TypeOK, SharedTypes, CallTypes, Goto, Fail, Command,
        shm, device, machine, stream, history
<1>1. CASE HwRaise \/ UNCHANGED vars
      BY <1>1 DEF HwRaise, vars
<1>2. ASSUME NEW p \in Procs, DevAttach(p) PROVE SharedTypes'
      BY <1>2 DEF DevAttach
<1>3. ASSUME NEW p \in Procs, Kill(p) PROVE SharedTypes'
      BY <1>3, ForgetType DEF Kill
<1>4. ASSUME NEW p \in Procs, DeviceStep(p) \/ DevClose(p), ~DevAttach(p) PROVE SharedTypes'
      BY <1>4 DEF DeviceStep, DevZero, DevMap, DevMapFails, DevBoot, DevBootFails, DevJoin,
         DevClose
<1>5. ASSUME NEW c \in Clients, ClientStep(c), ~CallStep(c) PROVE SharedTypes'
      BY <1>5 DEF ClientStep, Call, Seek, PlayBack, PlayFunctionTool, Enter
<1>6. ASSUME NEW c \in Clients, CallStep(c) PROVE SharedTypes'
  <2>1. CASE OpenInstance(c) \/ OpenFull(c) \/ DsiRefused(c) \/ Dsi(c)
        BY <2>1 DEF OpenInstance, OpenFull, DsiRefused, Dsi, ClearInterrupt
  <2>2. CASE CloseInstance(c)
        BY <2>2 DEF CloseInstance, MarkAfterClose, Valid
  <2>3. CASE \/ CloseNothing(c) \/ DecodeBegin(c) \/ FlushRefused(c) \/ Flush(c)
             \/ HeaderBad(c) \/ HeaderGood(c) \/ Leave(c)
        BY <2>3 DEF CloseNothing, DecodeBegin, FlushRefused, Flush, HeaderBad, HeaderGood,
           Leave
  <2>4. CASE StartField(c) \/ StartRefused(c) \/ StartFree(c) \/ StartIssue(c)
        BY <2>4 DEF StartField, StartRefused, StartFree, StartIssue, Issue, MarkAtStart,
           ClearInterrupt
  <2>5. CASE WaitField(c) \/ WaitPicture(c) \/ WaitTimeout(c) \/ Reset(c)
        BY <2>5 DEF WaitField, WaitPicture, WaitTimeout, Reset, ClearInterrupt
  <2>6. CASE Output(c)
    <3>1. CASE reuse[c]
          BY <2>6, <3>1 DEF Output
    <3>2. ASSUME NEW again \in BOOLEAN, reuse' = [reuse EXCEPT ![c] = again] PROVE SharedTypes'
          BY <2>6, <3>2 DEF Output
    <3> QED BY <2>6, <3>1, <3>2 DEF Output
  <2> QED BY <1>6, <2>1, <2>2, <2>3, <2>4, <2>5, <2>6 DEF CallStep
<1> QED BY <1>1, <1>2, <1>3, <1>4, <1>5, <1>6 DEF Next, DeviceStep, ClientStep

LEMMA DeviceTypesNext == TypeOK /\ [Next]_vars => DeviceTypes'
<1> SUFFICES ASSUME TypeOK, [Next]_vars PROVE DeviceTypes'
    OBVIOUS
<1> USE DEF TypeOK, DeviceTypes, Goto, Fail, Command,
        shm, device, machine, stream, history
<1>1. CASE HwRaise \/ UNCHANGED vars
      BY <1>1 DEF HwRaise, vars
<1>2. ASSUME NEW p \in Procs, DevAttach(p) PROVE DeviceTypes'
      BY <1>2 DEF DevAttach
<1>3. ASSUME NEW p \in Procs, Kill(p) PROVE DeviceTypes'
      BY <1>3, ForgetType DEF Kill
<1>4. ASSUME NEW p \in Procs, DeviceStep(p) \/ DevClose(p), ~DevAttach(p) PROVE DeviceTypes'
      BY <1>4 DEF DeviceStep, DevZero, DevMap, DevMapFails, DevBoot, DevBootFails, DevJoin,
         DevClose
<1>5. ASSUME NEW c \in Clients, ClientStep(c), ~CallStep(c) PROVE DeviceTypes'
      BY <1>5 DEF ClientStep, Call, Seek, PlayBack, PlayFunctionTool, Enter
<1>6. ASSUME NEW c \in Clients, CallStep(c) PROVE DeviceTypes'
  <2>1. CASE OpenInstance(c) \/ OpenFull(c) \/ DsiRefused(c) \/ Dsi(c)
        BY <2>1 DEF OpenInstance, OpenFull, DsiRefused, Dsi, ClearInterrupt
  <2>2. CASE CloseInstance(c)
        BY <2>2 DEF CloseInstance, MarkAfterClose, Valid
  <2>3. CASE \/ CloseNothing(c) \/ DecodeBegin(c) \/ FlushRefused(c) \/ Flush(c)
             \/ HeaderBad(c) \/ HeaderGood(c) \/ Leave(c)
        BY <2>3 DEF CloseNothing, DecodeBegin, FlushRefused, Flush, HeaderBad, HeaderGood,
           Leave
  <2>4. CASE StartField(c) \/ StartRefused(c) \/ StartFree(c) \/ StartIssue(c)
        BY <2>4 DEF StartField, StartRefused, StartFree, StartIssue, Issue, MarkAtStart,
           ClearInterrupt
  <2>5. CASE WaitField(c) \/ WaitPicture(c) \/ WaitTimeout(c) \/ Reset(c)
        BY <2>5 DEF WaitField, WaitPicture, WaitTimeout, Reset, ClearInterrupt
  <2>6. CASE Output(c)
    <3>1. CASE reuse[c]
          BY <2>6, <3>1 DEF Output
    <3>2. ASSUME NEW again \in BOOLEAN, reuse' = [reuse EXCEPT ![c] = again] PROVE DeviceTypes'
          BY <2>6, <3>2 DEF Output
    <3> QED BY <2>6, <3>1, <3>2 DEF Output
  <2> QED BY <1>6, <2>1, <2>2, <2>3, <2>4, <2>5, <2>6 DEF CallStep
<1> QED BY <1>1, <1>2, <1>3, <1>4, <1>5, <1>6 DEF Next, DeviceStep, ClientStep

LEMMA HwTypesNext == TypeOK /\ [Next]_vars => HwTypes'
<1> SUFFICES ASSUME TypeOK, [Next]_vars PROVE HwTypes'
    OBVIOUS
<1> USE DEF TypeOK, HwTypes, CallTypes, HwStates, HwIdle, Goto, Fail, Command,
        shm, device, machine, stream, history
<1>1. CASE HwRaise \/ UNCHANGED vars
      BY <1>1 DEF HwRaise, vars
<1>2. ASSUME NEW p \in Procs, DevAttach(p) PROVE HwTypes'
      BY <1>2 DEF DevAttach
<1>3. ASSUME NEW p \in Procs, Kill(p) PROVE HwTypes'
      BY <1>3, ForgetType DEF Kill
<1>4. ASSUME NEW p \in Procs, DeviceStep(p) \/ DevClose(p), ~DevAttach(p) PROVE HwTypes'
      BY <1>4 DEF DeviceStep, DevZero, DevMap, DevMapFails, DevBoot, DevBootFails, DevJoin,
         DevClose
<1>5. ASSUME NEW c \in Clients, ClientStep(c), ~CallStep(c) PROVE HwTypes'
      BY <1>5 DEF ClientStep, Call, Seek, PlayBack, PlayFunctionTool, Enter
<1>6. ASSUME NEW c \in Clients, CallStep(c) PROVE HwTypes'
  <2>1. CASE OpenInstance(c) \/ OpenFull(c) \/ DsiRefused(c) \/ Dsi(c)
        BY <2>1 DEF OpenInstance, OpenFull, DsiRefused, Dsi, ClearInterrupt
  <2>2. CASE CloseInstance(c)
        BY <2>2 DEF CloseInstance, MarkAfterClose, Valid
  <2>3. CASE \/ CloseNothing(c) \/ DecodeBegin(c) \/ FlushRefused(c) \/ Flush(c)
             \/ HeaderBad(c) \/ HeaderGood(c) \/ Leave(c)
        BY <2>3 DEF CloseNothing, DecodeBegin, FlushRefused, Flush, HeaderBad, HeaderGood,
           Leave
  <2>4. CASE StartField(c) \/ StartRefused(c) \/ StartFree(c) \/ StartIssue(c)
        BY <2>4 DEF StartField, StartRefused, StartFree, StartIssue, Issue, MarkAtStart,
           ClearInterrupt
  <2>5. CASE WaitField(c) \/ WaitPicture(c) \/ WaitTimeout(c) \/ Reset(c)
        BY <2>5 DEF WaitField, WaitPicture, WaitTimeout, Reset, ClearInterrupt
  <2>6. CASE Output(c)
    <3>1. CASE reuse[c]
          BY <2>6, <3>1 DEF Output
    <3>2. ASSUME NEW again \in BOOLEAN, reuse' = [reuse EXCEPT ![c] = again] PROVE HwTypes'
          BY <2>6, <3>2 DEF Output
    <3> QED BY <2>6, <3>1, <3>2 DEF Output
  <2> QED BY <1>6, <2>1, <2>2, <2>3, <2>4, <2>5, <2>6 DEF CallStep
<1> QED BY <1>1, <1>2, <1>3, <1>4, <1>5, <1>6 DEF Next, DeviceStep, ClientStep

LEMMA FlagTypesNext == TypeOK /\ [Next]_vars => FlagTypes'
<1> SUFFICES ASSUME TypeOK, [Next]_vars PROVE FlagTypes'
    OBVIOUS
<1> USE DEF TypeOK, FlagTypes, Goto, Fail, Command,
        shm, device, machine, stream, history
<1>1. CASE HwRaise \/ UNCHANGED vars
      BY <1>1 DEF HwRaise, vars
<1>2. ASSUME NEW p \in Procs, DevAttach(p) PROVE FlagTypes'
      BY <1>2 DEF DevAttach
<1>3. ASSUME NEW p \in Procs, Kill(p) PROVE FlagTypes'
      BY <1>3, ForgetType DEF Kill
<1>4. ASSUME NEW p \in Procs, DeviceStep(p) \/ DevClose(p), ~DevAttach(p) PROVE FlagTypes'
      BY <1>4 DEF DeviceStep, DevZero, DevMap, DevMapFails, DevBoot, DevBootFails, DevJoin,
         DevClose
<1>5. ASSUME NEW c \in Clients, ClientStep(c), ~CallStep(c) PROVE FlagTypes'
      BY <1>5 DEF ClientStep, Call, Seek, PlayBack, PlayFunctionTool, Enter
<1>6. ASSUME NEW c \in Clients, CallStep(c) PROVE FlagTypes'
  <2>1. CASE OpenInstance(c) \/ OpenFull(c) \/ DsiRefused(c) \/ Dsi(c)
        BY <2>1 DEF OpenInstance, OpenFull, DsiRefused, Dsi, ClearInterrupt
  <2>2. CASE CloseInstance(c)
        BY <2>2 DEF CloseInstance, MarkAfterClose, Valid
  <2>3. CASE \/ CloseNothing(c) \/ DecodeBegin(c) \/ FlushRefused(c) \/ Flush(c)
             \/ HeaderBad(c) \/ HeaderGood(c) \/ Leave(c)
        BY <2>3 DEF CloseNothing, DecodeBegin, FlushRefused, Flush, HeaderBad, HeaderGood,
           Leave
  <2>4. CASE StartField(c) \/ StartRefused(c) \/ StartFree(c) \/ StartIssue(c)
        BY <2>4 DEF StartField, StartRefused, StartFree, StartIssue, Issue, MarkAtStart,
           ClearInterrupt
  <2>5. CASE WaitField(c) \/ WaitPicture(c) \/ WaitTimeout(c) \/ Reset(c)
        BY <2>5 DEF WaitField, WaitPicture, WaitTimeout, Reset, ClearInterrupt
  <2>6. CASE Output(c)
    <3>1. CASE reuse[c]
          BY <2>6, <3>1 DEF Output
    <3>2. ASSUME NEW again \in BOOLEAN, reuse' = [reuse EXCEPT ![c] = again] PROVE FlagTypes'
          BY <2>6, <3>2 DEF Output
    <3> QED BY <2>6, <3>1, <3>2 DEF Output
  <2> QED BY <1>6, <2>1, <2>2, <2>3, <2>4, <2>5, <2>6 DEF CallStep
<1> QED BY <1>1, <1>2, <1>3, <1>4, <1>5, <1>6 DEF Next, DeviceStep, ClientStep

LEMMA CallTypesNext == TypeOK /\ [Next]_vars => CallTypes'
<1> SUFFICES ASSUME TypeOK, [Next]_vars PROVE CallTypes'
    OBVIOUS
<1> USE DEF TypeOK, CallTypes, Goto, Fail, Command,
        shm, device, machine, stream, history
<1>1. CASE HwRaise \/ UNCHANGED vars
      BY <1>1 DEF HwRaise, vars
<1>2. ASSUME NEW p \in Procs, DevAttach(p) PROVE CallTypes'
      BY <1>2 DEF DevAttach
<1>3. ASSUME NEW p \in Procs, Kill(p) PROVE CallTypes'
      BY <1>3, ForgetType DEF Kill
<1>4. ASSUME NEW p \in Procs, DeviceStep(p) \/ DevClose(p), ~DevAttach(p) PROVE CallTypes'
      BY <1>4 DEF DeviceStep, DevZero, DevMap, DevMapFails, DevBoot, DevBootFails, DevJoin,
         DevClose
<1>5. ASSUME NEW c \in Clients, ClientStep(c), ~CallStep(c) PROVE CallTypes'
      BY <1>5 DEF ClientStep, Call, Seek, PlayBack, PlayFunctionTool, Enter
<1>6. ASSUME NEW c \in Clients, CallStep(c) PROVE CallTypes'
  <2>1. CASE OpenInstance(c) \/ OpenFull(c) \/ DsiRefused(c) \/ Dsi(c)
        BY <2>1 DEF OpenInstance, OpenFull, DsiRefused, Dsi, ClearInterrupt
  <2>2. CASE CloseInstance(c)
        BY <2>2 DEF CloseInstance, MarkAfterClose, Valid
  <2>3. CASE \/ CloseNothing(c) \/ DecodeBegin(c) \/ FlushRefused(c) \/ Flush(c)
             \/ HeaderBad(c) \/ HeaderGood(c) \/ Leave(c)
        BY <2>3 DEF CloseNothing, DecodeBegin, FlushRefused, Flush, HeaderBad, HeaderGood,
           Leave
  <2>4. CASE StartField(c) \/ StartRefused(c) \/ StartFree(c) \/ StartIssue(c)
        BY <2>4 DEF StartField, StartRefused, StartFree, StartIssue, Issue, MarkAtStart,
           ClearInterrupt
  <2>5. CASE WaitField(c) \/ WaitPicture(c) \/ WaitTimeout(c) \/ Reset(c)
        BY <2>5 DEF WaitField, WaitPicture, WaitTimeout, Reset, ClearInterrupt
  <2>6. CASE Output(c)
    <3>1. CASE reuse[c]
          BY <2>6, <3>1 DEF Output
    <3>2. ASSUME NEW again \in BOOLEAN, reuse' = [reuse EXCEPT ![c] = again] PROVE CallTypes'
          BY <2>6, <3>2 DEF Output
    <3> QED BY <2>6, <3>1, <3>2 DEF Output
  <2> QED BY <1>6, <2>1, <2>2, <2>3, <2>4, <2>5, <2>6 DEF CallStep
<1> QED BY <1>1, <1>2, <1>3, <1>4, <1>5, <1>6 DEF Next, DeviceStep, ClientStep

LEMMA StreamTypesNext == TypeOK /\ [Next]_vars => StreamTypes'
<1> SUFFICES ASSUME TypeOK, [Next]_vars PROVE StreamTypes'
    OBVIOUS
<1> USE DEF TypeOK, StreamTypes, Goto, Fail, Command,
        shm, device, machine, stream, history
<1>1. CASE HwRaise \/ UNCHANGED vars
      BY <1>1 DEF HwRaise, vars
<1>2. ASSUME NEW p \in Procs, DevAttach(p) PROVE StreamTypes'
      BY <1>2 DEF DevAttach
<1>3. ASSUME NEW p \in Procs, Kill(p) PROVE StreamTypes'
      BY <1>3, ForgetType DEF Kill
<1>4. ASSUME NEW p \in Procs, DeviceStep(p) \/ DevClose(p), ~DevAttach(p) PROVE StreamTypes'
      BY <1>4 DEF DeviceStep, DevZero, DevMap, DevMapFails, DevBoot, DevBootFails, DevJoin,
         DevClose
<1>5. ASSUME NEW c \in Clients, ClientStep(c), ~CallStep(c) PROVE StreamTypes'
      BY <1>5 DEF ClientStep, Call, Seek, PlayBack, PlayFunctionTool, Enter
<1>6. ASSUME NEW c \in Clients, CallStep(c) PROVE StreamTypes'
  <2>1. CASE OpenInstance(c) \/ OpenFull(c) \/ DsiRefused(c) \/ Dsi(c)
        BY <2>1 DEF OpenInstance, OpenFull, DsiRefused, Dsi, ClearInterrupt
  <2>2. CASE CloseInstance(c)
        BY <2>2 DEF CloseInstance, MarkAfterClose, Valid
  <2>3. CASE \/ CloseNothing(c) \/ DecodeBegin(c) \/ FlushRefused(c) \/ Flush(c)
             \/ HeaderBad(c) \/ HeaderGood(c) \/ Leave(c)
        BY <2>3 DEF CloseNothing, DecodeBegin, FlushRefused, Flush, HeaderBad, HeaderGood,
           Leave
  <2>4. CASE StartField(c) \/ StartRefused(c) \/ StartFree(c) \/ StartIssue(c)
        BY <2>4 DEF StartField, StartRefused, StartFree, StartIssue, Issue, MarkAtStart,
           ClearInterrupt
  <2>5. CASE WaitField(c) \/ WaitPicture(c) \/ WaitTimeout(c) \/ Reset(c)
        BY <2>5 DEF WaitField, WaitPicture, WaitTimeout, Reset, ClearInterrupt
  <2>6. CASE Output(c)
    <3>1. CASE reuse[c]
          BY <2>6, <3>1 DEF Output
    <3>2. ASSUME NEW again \in BOOLEAN, reuse' = [reuse EXCEPT ![c] = again] PROVE StreamTypes'
          BY <2>6, <3>2 DEF Output
    <3> QED BY <2>6, <3>1, <3>2 DEF Output
  <2> QED BY <1>6, <2>1, <2>2, <2>3, <2>4, <2>5, <2>6 DEF CallStep
<1> QED BY <1>1, <1>2, <1>3, <1>4, <1>5, <1>6 DEF Next, DeviceStep, ClientStep

LEMMA TypeNext == TypeOK /\ [Next]_vars => TypeOK'
BY SharedTypesNext, DeviceTypesNext, HwTypesNext, FlagTypesNext, CallTypesNext,
   StreamTypesNext DEF TypeOK

(***************************************************************************)
(* The variables of the decoders, the shared memory and the hardware keep  *)
(* their types.                                                            *)
(***************************************************************************)
THEOREM VpuTypeSafe == Spec => []TypeOK
BY TypeInit, TypeNext, PTL DEF Spec

-----------------------------------------------------------------------------
(***************************************************************************)
(* Who may act: the kernel counts the processes whose device object is not *)
(* closed, one of them while nothing is shared; a decoder inside a call    *)
(* holds the mutex of its process, whose device is open.                   *)
(***************************************************************************)
Counted == attached = {p \in Procs : dev[p] # "down"}
Alone == ~shared => \A p, q \in Procs : dev[p] # "down" /\ dev[q] # "down" => p = q
Locked == \A c \in Clients : InCall(c) <=> mutex[ProcOf[c]] = c
DeviceOpen == \A c \in Clients : pc[c] # "closed" => dev[ProcOf[c]] = "up"
Exclusion == Counted /\ Alone /\ Locked /\ DeviceOpen

LEMMA ExclusionInit == Init => Exclusion
BY DEF Init, Exclusion, Counted, Alone, Locked, DeviceOpen, InCall, Rest

LEMMA ExclusionNext == TypeOK /\ Exclusion /\ [Next]_vars => Exclusion'
<1> SUFFICES ASSUME TypeOK, Exclusion, [Next]_vars PROVE Exclusion'
    OBVIOUS
<1> USE DEF TypeOK, SharedTypes, DeviceTypes, CallTypes, Exclusion, Counted, Alone, Locked,
        DeviceOpen, InCall, Rest, Goto, Fail, At, shm, device, machine, stream, history
<1>1. CASE HwRaise \/ UNCHANGED vars
      BY <1>1 DEF HwRaise, vars
<1>2. ASSUME NEW p \in Procs, DevAttach(p) PROVE Exclusion'
  <2>1. Counted'
        BY <1>2 DEF DevAttach
  <2>2. ~shared' => \A q \in Procs : dev[q] = "down"
    <3>1. ~shared' => attached = {}
          BY <1>2, Zenon DEF DevAttach
    <3> QED BY <3>1
  <2>3. Alone'
        BY <1>2, <2>2 DEF DevAttach
  <2>4. Locked' /\ DeviceOpen'
        BY <1>2 DEF DevAttach
  <2> QED BY <2>1, <2>3, <2>4
<1>3. ASSUME NEW p \in Procs, Kill(p) PROVE Exclusion'
      BY <1>3 DEF Kill, Forget
<1>4. ASSUME NEW p \in Procs, DeviceStep(p) \/ DevClose(p), ~DevAttach(p) PROVE Exclusion'
  <2>1. Counted' /\ Alone'
        BY <1>4 DEF DeviceStep, DevZero, DevMap, DevMapFails, DevBoot, DevBootFails, DevJoin,
           DevClose
  <2>2. Locked' /\ DeviceOpen'
        BY <1>4 DEF DeviceStep, DevZero, DevMap, DevMapFails, DevBoot, DevBootFails, DevJoin,
           DevClose
  <2> QED BY <2>1, <2>2
<1>5. ASSUME NEW c \in Clients, ClientStep(c), ~CallStep(c) PROVE Exclusion'
      BY <1>5 DEF ClientStep, Call, Seek, PlayBack, PlayFunctionTool, Enter
<1>6. ASSUME NEW c \in Clients, Leave(c) PROVE Exclusion'
      BY <1>6 DEF Leave
\* Every other step of a call stays inside it.
<1>7. ASSUME NEW c \in Clients, CallStep(c), ~Leave(c) PROVE Exclusion'
  <2>1. /\ InCall(c) /\ UNCHANGED <<attached, shared, dev, mutex>>
        /\ \E l \in {"header", "start", "issue", "wait", "reset", "output", "leave"} : Goto(c, l)
    <3>1. CASE OpenInstance(c) \/ OpenFull(c) \/ DsiRefused(c) \/ Dsi(c)
          BY <3>1 DEF OpenInstance, OpenFull, DsiRefused, Dsi
    <3>2. CASE CloseInstance(c) \/ CloseNothing(c)
          BY <3>2 DEF CloseInstance, CloseNothing
    <3>3. CASE DecodeBegin(c) \/ FlushRefused(c) \/ Flush(c) \/ HeaderBad(c) \/ HeaderGood(c)
          BY <3>3 DEF DecodeBegin, FlushRefused, Flush, HeaderBad, HeaderGood
    <3>4. CASE StartField(c) \/ StartRefused(c) \/ StartFree(c) \/ StartIssue(c)
          BY <3>4 DEF StartField, StartRefused, StartFree, StartIssue
    <3>5. CASE WaitField(c) \/ WaitPicture(c) \/ WaitTimeout(c) \/ Reset(c) \/ Output(c)
          BY <3>5 DEF WaitField, WaitPicture, WaitTimeout, Reset, Output
    <3> QED BY <1>7, <3>1, <3>2, <3>3, <3>4, <3>5 DEF CallStep
  <2> QED BY <2>1
<1> QED BY <1>1, <1>2, <1>3, <1>4, <1>5, <1>6, <1>7 DEF Next, DeviceStep, ClientStep

LEMMA CallStepInCall == ASSUME NEW d \in Clients, CallStep(d) PROVE InCall(d)
<1> USE DEF InCall, Rest, At
<1>1. CASE OpenInstance(d) \/ OpenFull(d) \/ DsiRefused(d) \/ Dsi(d) \/ Leave(d)
      BY <1>1 DEF OpenInstance, OpenFull, DsiRefused, Dsi, Leave
<1>2. CASE \/ CloseInstance(d) \/ CloseNothing(d) \/ DecodeBegin(d) \/ FlushRefused(d)
           \/ Flush(d) \/ HeaderBad(d) \/ HeaderGood(d)
      BY <1>2 DEF CloseInstance, CloseNothing, DecodeBegin, FlushRefused, Flush, HeaderBad,
         HeaderGood
<1>3. CASE \/ StartField(d) \/ StartRefused(d) \/ StartFree(d) \/ StartIssue(d)
           \/ WaitField(d) \/ WaitPicture(d) \/ WaitTimeout(d) \/ Reset(d) \/ Output(d)
      BY <1>3 DEF StartField, StartRefused, StartFree, StartIssue, WaitField, WaitPicture,
         WaitTimeout, Reset, Output
<1> QED BY <1>1, <1>2, <1>3 DEF CallStep

\* While nothing is shared, one decoder at a time is inside a call.
LEMMA Solo ==
  ASSUME TypeOK, Exclusion, ~shared, NEW c \in Clients, InCall(c), NEW d \in Clients, InCall(d)
  PROVE  c = d
<1>1. dev[ProcOf[c]] = "up" /\ dev[ProcOf[d]] = "up"
      BY DEF Exclusion, DeviceOpen, InCall, Rest
<1>2. ProcOf[c] \in Procs /\ ProcOf[d] \in Procs
      OBVIOUS
<1>3. ProcOf[c] = ProcOf[d]
      BY <1>1, <1>2 DEF Exclusion, Alone
<1> QED BY <1>3 DEF Exclusion, Locked

\* While nothing is shared and a decoder is inside a call, the steps are its
\* own, the hardware's, the ones of others outside their calls, or the end
\* of its process.
LEMMA OnlyMine ==
  ASSUME TypeOK, Exclusion, [Next]_vars, ~shared, ~shared', NEW c \in Clients, InCall(c)
  PROVE  \/ HwRaise \/ UNCHANGED vars \/ CallStep(c) \/ Kill(ProcOf[c])
         \/ \E d \in Clients : ClientStep(d) /\ ~CallStep(d)
<1> USE DEF TypeOK, SharedTypes, DeviceTypes, CallTypes, Exclusion
<1>1. ProcOf[c] \in Procs /\ dev[ProcOf[c]] = "up" /\ ProcOf[c] \in attached
      BY DEF Counted, DeviceOpen, InCall, Rest
<1>2. \A p \in Procs : dev[p] # "down" => p = ProcOf[c]
      BY <1>1 DEF Alone
<1>3. ASSUME NEW p \in Procs, DevAttach(p) PROVE FALSE
  <2>1. attached = {}
        BY <1>3, Zenon DEF DevAttach
  <2> QED BY <1>1, <2>1
<1>4. ASSUME NEW p \in Procs, DeviceStep(p) PROVE FALSE
      BY <1>1, <1>2, <1>3, <1>4 DEF DeviceStep, DevZero, DevMap, DevMapFails, DevBoot,
         DevBootFails, DevJoin
<1>5. ASSUME NEW p \in Procs, DevClose(p) PROVE FALSE
      BY <1>1, <1>2, <1>5 DEF DevClose, InCall, Rest
<1>6. ASSUME NEW p \in Procs, Kill(p) PROVE p = ProcOf[c]
      BY <1>2, <1>6 DEF Kill
<1>7. ASSUME NEW d \in Clients, CallStep(d) PROVE d = c
      BY <1>7, CallStepInCall, Solo
<1> QED BY <1>4, <1>5, <1>6, <1>7 DEF Next

\* Of the decoders' steps, those outside a call change only where a decoder
\* waits and its wish to seek.
LEMMA OutsideCall ==
  ASSUME NEW d \in Clients, ClientStep(d), ~CallStep(d)
  PROVE  /\ ~InCall(d)  \/ pc[d] = "entered"
         /\ UNCHANGED <<inUse, pending, hw, spoiled, handle, phase, lastField, shared, dirty,
                        appCount, leaked, dev, attached>>
         /\ pc' = pc \/ \E l \in {"lock", "entered"} : Goto(d, l)
BY DEF ClientStep, Call, Seek, PlayBack, PlayFunctionTool, Enter, InCall, Rest, Goto, shm, machine, device, stream, history

(***************************************************************************)
(* A decoder that waits for the instance with the mutex in its hand waits  *)
(* until its process ends.                                                 *)
(***************************************************************************)
LEMMA SpinNext ==
  TypeOK /\ Exclusion /\ [Next]_vars
  => \A c \in Clients : Spinning(c) /\ ~shared /\ ~shared' /\ Live(ProcOf[c])' => Spinning(c)'
<1> SUFFICES ASSUME TypeOK, Exclusion, [Next]_vars, NEW c \in Clients,
                    Spinning(c), ~shared, ~shared', Live(ProcOf[c])'
             PROVE  Spinning(c)'
    OBVIOUS
<1> USE DEF Spinning, Valid
<1>1. InCall(c) /\ pc[c] = "start"
      BY DEF InCall, Rest
<1>2. CASE HwRaise \/ UNCHANGED vars
      BY <1>2 DEF HwRaise, vars, shm, machine, stream
<1>3. CASE CallStep(c)
      BY <1>1, <1>3 DEF CallStep, OpenInstance, OpenFull, DsiRefused, Dsi, CloseInstance,
         CloseNothing, DecodeBegin, FlushRefused, Flush, HeaderBad, HeaderGood, StartField,
         StartRefused, StartFree, StartIssue, WaitField, WaitPicture, WaitTimeout, Reset,
         Output, Leave, At
<1>4. CASE Kill(ProcOf[c])
      BY <1>4 DEF Kill, Live, TypeOK, DeviceTypes
<1>5. ASSUME NEW d \in Clients, ClientStep(d), ~CallStep(d) PROVE Spinning(c)'
  <2>1. d # c
        BY <1>1, <1>5, OutsideCall DEF InCall, Rest
  <2> QED BY <1>1, <1>5, <2>1, OutsideCall DEF TypeOK, CallTypes, Goto
<1> QED BY <1>1, <1>2, <1>3, <1>4, <1>5, OnlyMine

(***************************************************************************)
(* Nobody else touches the hardware, its registers or the mark between the *)
(* start of a picture and the end of the wait for it.                      *)
(***************************************************************************)
LEMMA UndisturbedNext ==
  TypeOK /\ Exclusion /\ [Next]_vars
  => \A c \in Clients : pc[c] \in {"wait", "reset"} /\ pc'[c] = pc[c] /\ ~shared /\ ~shared'
       => spoiled' = spoiled /\ pending' = pending /\ hw'.job = hw.job
<1> SUFFICES ASSUME TypeOK, Exclusion, [Next]_vars, NEW c \in Clients,
                    pc[c] \in {"wait", "reset"}, pc'[c] = pc[c], ~shared, ~shared'
             PROVE  spoiled' = spoiled /\ pending' = pending /\ hw'.job = hw.job
    OBVIOUS
<1> USE DEF TypeOK, CallTypes, DeviceTypes, HwTypes, HwStates
<1>1. InCall(c)
      BY DEF InCall, Rest
<1>2. CASE HwRaise \/ UNCHANGED vars
      BY <1>2 DEF HwRaise, vars, shm, machine
<1>3. CASE CallStep(c)
  <2>1. CASE WaitField(c)
        BY <2>1 DEF WaitField, ClearInterrupt, shm
  <2>2. CASE Reset(c) \/ WaitPicture(c) \/ WaitTimeout(c)
        BY <2>2 DEF Reset, WaitPicture, WaitTimeout, Fail, Goto
  <2> QED BY <1>3, <2>1, <2>2 DEF CallStep, OpenInstance, OpenFull, DsiRefused, Dsi,
         CloseInstance, CloseNothing, DecodeBegin, FlushRefused, Flush, HeaderBad, HeaderGood,
         StartField, StartRefused, StartFree, StartIssue, Output, Leave, At
<1>4. CASE Kill(ProcOf[c])
      BY <1>4 DEF Kill, Forget
<1>5. ASSUME NEW d \in Clients, ClientStep(d), ~CallStep(d)
      PROVE  spoiled' = spoiled /\ pending' = pending /\ hw'.job = hw.job
      BY <1>5, OutsideCall
<1> QED BY <1>1, <1>2, <1>3, <1>4, <1>5, OnlyMine

(***************************************************************************)
(* SpinForever: START_DEC never ends its wait for the instance while the   *)
(* process is the only one.  Undisturbed: the mutex keeps a picture whole  *)
(* from its start to the end of its wait.                                  *)
(***************************************************************************)
THEOREM SpinsForever == Spec => SpinForever
<1>1. Spec => [](TypeOK /\ Exclusion)
      BY TypeInit, TypeNext, ExclusionInit, ExclusionNext, PTL DEF Spec
<1>2. TypeOK /\ Exclusion /\ [Next]_vars
      => [\A c \in Clients : Spinning(c) /\ ~shared /\ ~shared' /\ Live(ProcOf[c])'
            => Spinning(c)']_vars
      BY SpinNext
<1> QED BY <1>1, <1>2, PTL DEF Spec, SpinForever

THEOREM PictureUndisturbed == Spec => Undisturbed
<1>1. Spec => [](TypeOK /\ Exclusion)
      BY TypeInit, TypeNext, ExclusionInit, ExclusionNext, PTL DEF Spec
<1>2. TypeOK /\ Exclusion /\ [Next]_vars
      => [\A c \in Clients : pc[c] \in {"wait", "reset"} /\ pc'[c] = pc[c] /\ ~shared /\ ~shared'
            => spoiled' = spoiled /\ pending' = pending /\ hw'.job = hw.job]_vars
      BY UndisturbedNext
<1> QED BY <1>1, <1>2, PTL DEF Spec, Undisturbed

-----------------------------------------------------------------------------
(***************************************************************************)
(* What a decoder knows of its own handle, and the hardware of its job;    *)
(* true however the VPU is shared.                                         *)
(***************************************************************************)
Decoding == {"header", "start", "issue", "wait", "reset", "output"}
Local(c) ==
  /\ pc[c] = "closed" => handle[c] = None
  /\ op[c] = "open" /\ pc[c] \in {"lock", "entered"} => handle[c] = None
  /\ op[c] = "close" /\ pc[c] = "leave" => handle[c] = None
  /\ pc[c] \in Decoding => op[c] = "decode"
  /\ pc[c] = "issue" => handle[c] # None
LocalInv == \A c \in Clients : Local(c)
HwShape == hw.job = None <=> hw.st = "idle"

LEMMA LocalInit == Init => LocalInv /\ HwShape
BY DEF Init, LocalInv, Local, Decoding, HwShape, HwIdle

\* A step of one decoder leaves the others alone.
LEMMA LocalStep ==
  ASSUME TypeOK, NEW c \in Clients, ClientStep(c)
  PROVE  \A d \in Clients \ {c} : pc'[d] = pc[d] /\ op'[d] = op[d] /\ handle'[d] = handle[d]
<1> USE DEF TypeOK, CallTypes, Goto, Fail
<1>1. CASE ~CallStep(c)
      BY <1>1 DEF ClientStep, Call, Seek, PlayBack, PlayFunctionTool, Enter
<1>2. CASE OpenInstance(c) \/ OpenFull(c) \/ DsiRefused(c) \/ Dsi(c) \/ Leave(c)
      BY <1>2 DEF OpenInstance, OpenFull, DsiRefused, Dsi, Leave
<1>3. CASE \/ CloseInstance(c) \/ CloseNothing(c) \/ DecodeBegin(c) \/ FlushRefused(c)
           \/ Flush(c) \/ HeaderBad(c) \/ HeaderGood(c)
      BY <1>3 DEF CloseInstance, CloseNothing, DecodeBegin, FlushRefused, Flush, HeaderBad,
         HeaderGood
<1>4. CASE \/ StartField(c) \/ StartRefused(c) \/ StartFree(c) \/ StartIssue(c)
           \/ WaitField(c) \/ WaitPicture(c) \/ WaitTimeout(c) \/ Reset(c) \/ Output(c)
      BY <1>4 DEF StartField, StartRefused, StartFree, StartIssue, WaitField, WaitPicture,
         WaitTimeout, Reset, Output
<1> QED BY <1>1, <1>2, <1>3, <1>4 DEF ClientStep, CallStep

LEMMA LocalNext == TypeOK /\ LocalInv /\ [Next]_vars => LocalInv'
<1> SUFFICES ASSUME TypeOK, LocalInv, [Next]_vars PROVE LocalInv'
    OBVIOUS
<1> USE DEF TypeOK, CallTypes, LocalInv, Local, Decoding, Goto, Fail, At
<1>1. CASE HwRaise \/ UNCHANGED vars
      BY <1>1 DEF HwRaise, vars
<1>2. ASSUME NEW p \in Procs, DeviceStep(p) \/ DevClose(p) PROVE LocalInv'
      BY <1>2 DEF DeviceStep, DevAttach, DevZero, DevMap, DevMapFails, DevBoot, DevBootFails,
         DevJoin, DevClose
<1>3. ASSUME NEW p \in Procs, Kill(p) PROVE LocalInv'
      BY <1>3 DEF Kill, Forget
<1>4. ASSUME NEW c \in Clients, ClientStep(c) PROVE LocalInv'
  <2>1. Local(c)'
    <3>1. CASE ~CallStep(c)
          BY <1>4, <3>1 DEF ClientStep, Call, Seek, PlayBack, PlayFunctionTool, Enter
    <3>2. CASE OpenInstance(c) \/ OpenFull(c) \/ DsiRefused(c) \/ Dsi(c) \/ Leave(c)
          BY <3>2 DEF OpenInstance, OpenFull, DsiRefused, Dsi, Leave
    <3>3. CASE \/ CloseInstance(c) \/ CloseNothing(c) \/ DecodeBegin(c) \/ FlushRefused(c)
               \/ Flush(c) \/ HeaderBad(c) \/ HeaderGood(c)
          BY <3>3 DEF CloseInstance, CloseNothing, DecodeBegin, FlushRefused, Flush, HeaderBad,
             HeaderGood
    <3>4. CASE \/ StartField(c) \/ StartRefused(c) \/ StartFree(c) \/ StartIssue(c)
          BY <3>4 DEF StartField, StartRefused, StartFree, StartIssue, Valid
    <3>5. CASE WaitField(c) \/ WaitPicture(c) \/ WaitTimeout(c) \/ Reset(c) \/ Output(c)
          BY <3>5 DEF WaitField, WaitPicture, WaitTimeout, Reset, Output
    <3> QED BY <1>4, <3>1, <3>2, <3>3, <3>4, <3>5 DEF CallStep
  <2>2. \A d \in Clients \ {c} : Local(d)'
        BY <1>4, LocalStep
  <2> QED BY <2>1, <2>2
<1> QED BY <1>1, <1>2, <1>3, <1>4 DEF Next

LEMMA HwShapeNext == TypeOK /\ LocalInv /\ HwShape /\ [Next]_vars => HwShape'
<1> SUFFICES ASSUME TypeOK, LocalInv, HwShape, [Next]_vars PROVE HwShape'
    OBVIOUS
<1> USE DEF TypeOK, HwTypes, HwStates, HwShape, HwIdle, Command, ClearInterrupt, machine
<1>1. CASE HwRaise \/ UNCHANGED vars
      BY <1>1 DEF HwRaise, vars
<1>2. ASSUME NEW p \in Procs, DeviceStep(p) \/ DevClose(p) \/ Kill(p) PROVE HwShape'
  <2>1. CASE DevBoot(p)
        BY <2>1 DEF DevBoot
  <2>2. CASE Kill(p)
        BY <2>2 DEF Kill
  <2>3. CASE ~DevBoot(p) /\ ~Kill(p)
        BY <1>2, <2>3 DEF DeviceStep, DevAttach, DevZero, DevMap, DevMapFails, DevBootFails,
           DevJoin, DevClose
  <2> QED BY <2>1, <2>2, <2>3
<1>3. ASSUME NEW c \in Clients, ClientStep(c), ~CallStep(c) PROVE HwShape'
      BY <1>3, OutsideCall
<1>4. ASSUME NEW c \in Clients, CallStep(c) PROVE HwShape'
  <2>1. CASE OpenInstance(c) \/ OpenFull(c) \/ DsiRefused(c) \/ Dsi(c) \/ Leave(c)
        BY <2>1 DEF OpenInstance, OpenFull, DsiRefused, Dsi, Leave
  <2>2. CASE \/ CloseInstance(c) \/ CloseNothing(c) \/ DecodeBegin(c) \/ FlushRefused(c)
             \/ Flush(c) \/ HeaderBad(c) \/ HeaderGood(c)
        BY <2>2 DEF CloseInstance, CloseNothing, DecodeBegin, FlushRefused, Flush, HeaderBad,
           HeaderGood
  <2>3. CASE StartField(c) \/ StartRefused(c) \/ StartFree(c) \/ StartIssue(c)
        BY <2>3 DEF StartField, StartRefused, StartFree, StartIssue, Issue, LocalInv, Local
  <2>4. CASE WaitField(c) \/ WaitPicture(c) \/ WaitTimeout(c) \/ Reset(c) \/ Output(c)
        BY <2>4 DEF WaitField, WaitPicture, WaitTimeout, Reset, Output
  <2> QED BY <1>4, <2>1, <2>2, <2>3, <2>4 DEF CallStep
<1> QED BY <1>1, <1>2, <1>3, <1>4 DEF Next

-----------------------------------------------------------------------------
(***************************************************************************)
(* The memory a process finds when it opens the device alone, and the pool *)
(* while it is the only one.                                               *)
(***************************************************************************)
Clean == appCount = 0 /\ pending = None /\ leaked = {} /\ \A i \in Inst : ~inUse[i]
Distinct == \A c, d \in Clients : handle[c] # None /\ handle[c] = handle[d] => c = d
Taken == \A i \in Inst : inUse[i] <=> i \in leaked \/ \E c \in Clients : handle[c] = i
NotLost == \A c \in Clients : handle[c] \notin leaked
Marked == pending # None => \E c \in Clients : handle[c] = pending
Pool == appCount = 1 /\ Distinct /\ Taken /\ NotLost /\ Marked
PoolInv ==
  ~shared => \A p \in Procs :
               /\ dev[p] # "join"
               /\ dev[p] \in {"zeroed", "boot"} => Clean
               /\ Live(p) => Pool

\* Only an attachment changes who is said to share.
LEMMA SharedKept ==
  ASSUME [Next]_vars, ~\E q \in Procs : DevAttach(q)
  PROVE  shared' = shared
BY DEF Next, DeviceStep, ClientStep, CallStep, HwRaise, DevZero, DevMap, DevMapFails, DevBoot,
   DevBootFails, DevJoin, DevClose, Kill, Call, Seek, PlayBack, PlayFunctionTool, Enter, vars, history,
   OpenInstance, OpenFull, DsiRefused, Dsi, CloseInstance,
         CloseNothing, DecodeBegin, FlushRefused, Flush, HeaderBad, HeaderGood, StartField,
         StartRefused, StartFree, StartIssue, WaitField, WaitPicture, WaitTimeout, Reset,
         Output, Leave

LEMMA PoolInit == Init => PoolInv
BY DEF Init, PoolInv, Live

\* Of the steps of a call, five reach the pool or the mark.
LEMMA PoolCall ==
  ASSUME TypeOK, Exclusion, LocalInv, ~shared, NEW c \in Clients, CallStep(c), Pool
  PROVE  Pool'
<1> USE DEF TypeOK, SharedTypes, FlagTypes, CallTypes, At
<1>1. CASE OpenInstance(c)
  <2>1. handle[c] = None
        BY <1>1 DEF OpenInstance, LocalInv, Local
  <2>2. PICK i \in Inst :
          /\ ~inUse[i] /\ inUse' = [inUse EXCEPT ![i] = TRUE]
          /\ \/ handle' = [handle EXCEPT ![c] = i] /\ UNCHANGED leaked
             \/ leaked' = leaked \cup {i} /\ UNCHANGED handle
        BY <1>1 DEF OpenInstance, FirstFree
  <2>3. UNCHANGED <<appCount, pending>>
        BY <1>1 DEF OpenInstance
  <2>4. CASE handle' = [handle EXCEPT ![c] = i] /\ UNCHANGED leaked
        BY <2>1, <2>2, <2>3, <2>4 DEF Pool, Distinct, Taken, NotLost, Marked
  <2>5. CASE leaked' = leaked \cup {i} /\ UNCHANGED handle
        BY <2>2, <2>3, <2>5 DEF Pool, Distinct, Taken, NotLost, Marked
  <2> QED BY <2>2, <2>4, <2>5
<1>2. CASE CloseInstance(c)
  <2>1. Valid(c) /\ handle[c] # None /\ handle[c] \in Inst
        BY <1>2 DEF CloseInstance, Valid, Pool, Taken
  <2>2. handle' = [handle EXCEPT ![c] = None] /\ pending' = None /\ appCount' = appCount
        BY <1>2, <2>1 DEF CloseInstance, MarkAfterClose
  <2>3. CASE inUse' = [inUse EXCEPT ![handle[c]] = FALSE] /\ UNCHANGED leaked
        BY <2>1, <2>2, <2>3 DEF Pool, Distinct, Taken, NotLost, Marked
  <2>4. CASE leaked' = leaked \cup {handle[c]} /\ UNCHANGED inUse
        BY <2>1, <2>2, <2>4 DEF Pool, Distinct, Taken, NotLost, Marked, Valid
  <2> QED BY <1>2, <2>1, <2>3, <2>4 DEF CloseInstance
<1>3. CASE StartIssue(c)
      BY <1>3 DEF StartIssue, MarkAtStart, Pool, Distinct, Taken, NotLost, Marked, history
<1>4. CASE Reset(c) \/ Output(c)
      BY <1>4 DEF Reset, Output, Pool, Distinct, Taken, NotLost, Marked, history
<1>5. CASE UNCHANGED <<appCount, inUse, pending, handle, leaked>>
      BY <1>5 DEF Pool, Distinct, Taken, NotLost, Marked
<1>6. CASE OpenFull(c) \/ DsiRefused(c) \/ Dsi(c) \/ CloseNothing(c) \/ Leave(c)
      BY <1>5, <1>6 DEF OpenFull, DsiRefused, Dsi, CloseNothing, Leave, shm, history
<1>7. CASE DecodeBegin(c) \/ FlushRefused(c) \/ Flush(c) \/ HeaderBad(c) \/ HeaderGood(c)
      BY <1>5, <1>7 DEF DecodeBegin, FlushRefused, Flush, HeaderBad, HeaderGood, shm, history
<1>8. CASE \/ StartField(c) \/ StartRefused(c) \/ StartFree(c)
           \/ WaitField(c) \/ WaitPicture(c) \/ WaitTimeout(c)
      BY <1>5, <1>8 DEF StartField, StartRefused, StartFree, WaitField, WaitPicture,
         WaitTimeout, shm, history
<1> QED BY <1>1, <1>2, <1>3, <1>4, <1>6, <1>7, <1>8 DEF CallStep

LEMMA PoolNext ==
  TypeOK /\ Exclusion /\ Exclusion' /\ LocalInv /\ PoolInv /\ [Next]_vars => PoolInv'
<1> SUFFICES ASSUME TypeOK, Exclusion, Exclusion', LocalInv, PoolInv, [Next]_vars, ~shared',
                    NEW p \in Procs, (dev[p] # "down")'
             PROVE  /\ dev'[p] # "join"
                    /\ dev'[p] \in {"zeroed", "boot"} => Clean'
                    /\ Live(p)' => Pool'
    BY DEF PoolInv, Live
<1> DEFINE Goal == /\ dev'[p] # "join"
                   /\ dev'[p] \in {"zeroed", "boot"} => Clean'
                   /\ Live(p)' => Pool'
<1> USE DEF TypeOK, DeviceTypes, Live
\* A process that appears, changes or goes is p itself, or the memory is shared.
<1>1. ASSUME NEW q \in Procs, DevAttach(q) PROVE Goal
  <2>1. dev'[q] = "attached"
        BY <1>1 DEF DevAttach
  <2>2. q = p
        BY <2>1 DEF Exclusion, Alone
  <2> QED BY <2>1, <2>2
<1>2. CASE ~shared
  <2>1. ASSUME NEW q \in Procs, DeviceStep(q), ~DevAttach(q) PROVE Goal
    <3>1. dev[q] \notin {"down", "up"}
          BY <2>1 DEF DeviceStep, DevZero, DevMap, DevMapFails, DevBoot, DevBootFails, DevJoin
    <3>2. /\ dev[p] # "down" => p = q
          /\ \A c \in Clients : pc[c] = "closed"
          BY <1>2, <3>1 DEF Exclusion, Alone, DeviceOpen
    <3>3. p = q
          BY <2>1, <3>2 DEF DeviceStep, DevZero, DevMap, DevMapFails, DevBoot, DevBootFails,
             DevJoin
    <3>4. CASE DevZero(q)
      <4>1. attached = {q}
            BY <1>2, <3>1 DEF Exclusion, Counted, Alone
      <4>2. Clean'
            BY <3>4, <4>1 DEF DevZero, Sole, Clean
      <4>3. dev'[p] = "zeroed"
            BY <3>3, <3>4 DEF DevZero
      <4> QED BY <4>2, <4>3
    <3>5. CASE DevMap(q)
      <4>1. Clean /\ Clean'
            BY <1>2, <3>5 DEF DevMap, PoolInv, Clean, shm, history
      <4>2. dev'[p] = "boot"
            BY <3>3, <3>5, <4>1 DEF DevMap, Clean
      <4> QED BY <4>1, <4>2
    <3>6. CASE DevBoot(q)
      <4>1. Clean /\ dev'[p] = "up"
            BY <1>2, <3>3, <3>6 DEF DevBoot, PoolInv
      <4>2. \A c \in Clients : handle[c] = None
            BY <3>2 DEF LocalInv, Local
      <4>3. Pool'
            BY <3>6, <4>1, <4>2 DEF DevBoot, Clean, Pool, Distinct, Taken, NotLost, Marked
      <4> QED BY <4>1, <4>3
    <3>7. CASE DevMapFails(q) \/ DevBootFails(q)
          BY <3>3, <3>7 DEF DevMapFails, DevBootFails
    <3>8. ~DevJoin(q)
          BY <1>2 DEF DevJoin, PoolInv
    <3> QED BY <2>1, <3>4, <3>5, <3>6, <3>7, <3>8 DEF DeviceStep
  <2>2. ASSUME NEW q \in Procs, DevClose(q) PROVE Goal
        BY <1>2, <2>2 DEF DevClose, Exclusion, Alone
  <2>3. ASSUME NEW q \in Procs, Kill(q) PROVE Goal
    <3>1. dev[q] # "down" /\ dev' = [dev EXCEPT ![q] = "down"]
          BY <2>3 DEF Kill
    <3> QED BY <1>2, <3>1 DEF Exclusion, Alone
  <2>4. CASE UNCHANGED <<dev, appCount, inUse, pending, handle, leaked>>
        BY <1>2, <2>4 DEF PoolInv, Pool, Clean, Distinct, Taken, NotLost, Marked
  <2>5. CASE HwRaise \/ UNCHANGED vars
        BY <2>4, <2>5 DEF HwRaise, vars, shm, device, history
  <2>6. ASSUME NEW c \in Clients, ClientStep(c), ~CallStep(c) PROVE Goal
        BY <2>4, <2>6, OutsideCall
  <2>7. ASSUME NEW c \in Clients, CallStep(c) PROVE Goal
    <3>1. InCall(c)
          BY <2>7, CallStepInCall
    <3>2. ProcOf[c] \in Procs /\ dev[ProcOf[c]] = "up"
          BY <3>1 DEF Exclusion, DeviceOpen, InCall, Rest
    <3>3. Pool
          BY <1>2, <3>2 DEF PoolInv
    <3>4. dev' = dev
          BY <2>7 DEF CallStep, device, OpenInstance, OpenFull, DsiRefused, Dsi, CloseInstance,
         CloseNothing, DecodeBegin, FlushRefused, Flush, HeaderBad, HeaderGood, StartField,
         StartRefused, StartFree, StartIssue, WaitField, WaitPicture, WaitTimeout, Reset,
         Output, Leave
    <3>5. p = ProcOf[c]
          BY <1>2, <3>2, <3>4 DEF Exclusion, Alone
    <3>6. Pool'
          BY <1>2, <2>7, <3>3, PoolCall
    <3> QED BY <3>2, <3>4, <3>5, <3>6
  <2> QED BY <1>1, <2>1, <2>2, <2>3, <2>5, <2>6, <2>7 DEF Next, ClientStep
<1>3. CASE shared /\ ~\E q \in Procs : DevAttach(q)
      BY <1>3, SharedKept
<1> QED BY <1>1, <1>2, <1>3

-----------------------------------------------------------------------------
(***************************************************************************)
(* The mark and the hardware: nothing is pending when a decoder is about   *)
(* to start, and the hardware is idle when one fetches its picture.        *)
(***************************************************************************)
Guarded == \A p \in Procs : Live(p) /\ ~dirty => hw.job \in {None, pending}
Unmarked == \A c \in Clients : pc[c] = "issue" => pending = None
Fetched == \A c \in Clients : pc[c] = "output" => hw.job = None
MarkInv == ~shared => Guarded /\ Unmarked /\ Fetched

LEMMA MarkInit == Init => MarkInv
BY DEF Init, MarkInv, Guarded, Unmarked, Fetched, Live

\* The decoder that acts is the only one inside a call.
LEMMA MarkCall ==
  ASSUME TypeOK, Exclusion, LocalInv, PoolInv, ~shared, MarkInv, NEW c \in Clients, CallStep(c)
  PROVE  Guarded' /\ Unmarked' /\ Fetched'
<1> USE DEF TypeOK, HwTypes, CallTypes, HwIdle, Command, ClearInterrupt, Goto, Fail, At,
        shm, machine, device
<1>1. InCall(c) /\ ProcOf[c] \in Procs /\ dev[ProcOf[c]] = "up"
      BY CallStepInCall DEF Exclusion, DeviceOpen, InCall, Rest
<1>2. dev' = dev
      BY DEF CallStep, OpenInstance, OpenFull, DsiRefused, Dsi, CloseInstance,
         CloseNothing, DecodeBegin, FlushRefused, Flush, HeaderBad, HeaderGood, StartField,
         StartRefused, StartFree, StartIssue, WaitField, WaitPicture, WaitTimeout, Reset,
         Output, Leave
<1>3. \A d \in Clients \ {c} : pc'[d] = pc[d] /\ pc[d] \notin {"issue", "output"}
      BY <1>1, LocalStep, Solo DEF ClientStep, InCall, Rest
<1>4. ~dirty => hw.job \in {None, pending}
      BY <1>1 DEF MarkInv, Guarded, Live
<1>5. SUFFICES /\ ~dirty' => hw'.job \in {None, pending'}
               /\ pc'[c] = "issue" => pending' = None
               /\ pc'[c] = "output" => hw'.job = None
      BY <1>2, <1>3 DEF Guarded, Unmarked, Fetched, Live
<1>6. CASE OpenInstance(c) \/ OpenFull(c) \/ DsiRefused(c) \/ Dsi(c)
      BY <1>4, <1>6 DEF OpenInstance, OpenFull, DsiRefused, Dsi, history
<1>7. CASE CloseInstance(c)
  <2>1. Valid(c)
        BY <1>1, <1>7 DEF CloseInstance, Valid, PoolInv, Pool, Taken, Live
  <2>2. pc'[c] = "leave" /\ pending' = None
        BY <1>7, <2>1 DEF CloseInstance, MarkAfterClose
  <2>3. ~dirty' => hw'.job = None
    <3>1. CASE hw' = (IF phase[c] = "none" THEN hw ELSE HwIdle) /\ dirty' = (dirty \/ hw.job # None)
      <4>1. ~dirty' => hw.job = None
            BY <3>1, Zenon
      <4> QED BY <3>1, <4>1
    <3>2. CASE dirty' = TRUE
          BY <3>2
    <3> QED BY <1>7, <2>1, <3>1, <3>2 DEF CloseInstance
  <2> QED BY <2>2, <2>3
<1>8. CASE CloseNothing(c) \/ Leave(c) \/ DecodeBegin(c) \/ FlushRefused(c) \/ Flush(c)
      BY <1>4, <1>8 DEF CloseNothing, Leave, DecodeBegin, FlushRefused, Flush, history
<1>9. CASE \/ HeaderBad(c) \/ HeaderGood(c) \/ StartField(c) \/ StartRefused(c) \/ StartFree(c)
      BY <1>4, <1>9 DEF HeaderBad, HeaderGood, StartField, StartRefused, StartFree, history
<1>10. CASE StartIssue(c)
  <2>1. pending = None
        BY <1>10 DEF StartIssue, MarkInv, Unmarked
  <2> QED BY <1>4, <1>10, <2>1 DEF StartIssue, MarkAtStart, Issue, history
<1>11. CASE WaitField(c) \/ WaitPicture(c) \/ WaitTimeout(c)
      BY <1>4, <1>11 DEF WaitField, WaitPicture, WaitTimeout, history
<1>12. CASE Reset(c)
      BY <1>4, <1>12 DEF Reset
<1>13. CASE Output(c)
      BY <1>4, <1>13 DEF Output, MarkInv, Fetched
<1> QED BY <1>6, <1>7, <1>8, <1>9, <1>10, <1>11, <1>12, <1>13 DEF CallStep

LEMMA MarkNext ==
  /\ TypeOK /\ TypeOK' /\ Exclusion /\ Exclusion' /\ LocalInv /\ PoolInv /\ MarkInv
  /\ [Next]_vars
  => MarkInv'
<1> SUFFICES ASSUME TypeOK, TypeOK', Exclusion, Exclusion', LocalInv, PoolInv, MarkInv,
                    [Next]_vars, ~shared'
             PROVE  Guarded' /\ Unmarked' /\ Fetched'
    BY DEF MarkInv
<1> USE DEF TypeOK, DeviceTypes, CallTypes, Live
\* Without a device that is up there is no decoder either.
<1>1. ASSUME \A q \in Procs : ~Live(q)' PROVE Guarded' /\ Unmarked' /\ Fetched'
      BY <1>1 DEF Guarded, Unmarked, Fetched, Exclusion, DeviceOpen
<1>2. ASSUME NEW p \in Procs, DevAttach(p) PROVE Guarded' /\ Unmarked' /\ Fetched'
  <2>1. dev'[p] = "attached"
        BY <1>2 DEF DevAttach
  <2>2. \A q \in Procs : ~Live(q)'
        BY <2>1 DEF Exclusion, Alone
  <2> QED BY <1>1, <2>2
<1>3. CASE ~shared
  <2>1. ASSUME NEW p \in Procs, DeviceStep(p), ~DevAttach(p)
        PROVE  Guarded' /\ Unmarked' /\ Fetched'
    <3>1. dev[p] \notin {"down", "up"}
          BY <2>1 DEF DeviceStep, DevZero, DevMap, DevMapFails, DevBoot, DevBootFails, DevJoin
    <3>2. \A q \in Procs : dev[q] # "down" => p = q
          BY <1>3, <3>1 DEF Exclusion, Alone
    <3>3. \A c \in Clients : pc[c] = "closed"
          BY <3>1, <3>2 DEF Exclusion, DeviceOpen
    <3>4. CASE DevBoot(p)
          BY <3>3, <3>4 DEF DevBoot, HwIdle, Guarded, Unmarked, Fetched
    <3>5. ~DevJoin(p)
          BY <1>3 DEF DevJoin, PoolInv
    <3>6. CASE ~DevBoot(p)
      <4>1. \A q \in Procs : ~Live(q)'
            BY <2>1, <3>2, <3>5, <3>6 DEF DeviceStep, DevZero, DevMap, DevMapFails, DevBootFails
      <4> QED BY <1>1, <4>1
    <3> QED BY <3>4, <3>6
  <2>2. ASSUME NEW p \in Procs, DevClose(p) \/ Kill(p) PROVE Guarded' /\ Unmarked' /\ Fetched'
    <3>1. dev[p] # "down" /\ dev' = [dev EXCEPT ![p] = "down"]
          BY <2>2 DEF DevClose, Kill
    <3>2. \A q \in Procs : ~Live(q)'
          BY <1>3, <3>1 DEF Exclusion, Alone
    <3> QED BY <1>1, <3>2
  <2>3. CASE HwRaise
    <3>1. hw'.job = hw.job
          BY <2>3 DEF HwRaise, HwTypes
    <3> QED BY <1>3, <2>3, <3>1 DEF HwRaise, MarkInv, Guarded, Unmarked, Fetched, device, history, shm
  <2>4. CASE UNCHANGED vars
        BY <1>3, <2>4 DEF vars, MarkInv, Guarded, Unmarked, Fetched, device, history, shm, machine
  <2>5. ASSUME NEW c \in Clients, ClientStep(c), ~CallStep(c)
        PROVE  Guarded' /\ Unmarked' /\ Fetched'
        BY <1>3, <2>5, OutsideCall DEF MarkInv, Guarded, Unmarked, Fetched, Goto
  <2>6. ASSUME NEW c \in Clients, CallStep(c) PROVE Guarded' /\ Unmarked' /\ Fetched'
        BY <1>3, <2>6, MarkCall
  <2> QED BY <1>2, <2>1, <2>2, <2>3, <2>4, <2>5, <2>6 DEF Next, ClientStep
<1>4. CASE shared /\ ~\E q \in Procs : DevAttach(q)
      BY <1>4, SharedKept
<1> QED BY <1>2, <1>3, <1>4

-----------------------------------------------------------------------------
Safe == TypeOK /\ Exclusion /\ LocalInv /\ HwShape /\ PoolInv /\ MarkInv

LEMMA SafeAlways == Spec => []Safe
<1>1. Init => Safe
      BY TypeInit, ExclusionInit, LocalInit, PoolInit, MarkInit DEF Safe
<1>2. Safe /\ [Next]_vars => Safe'
  <2> SUFFICES ASSUME Safe, [Next]_vars PROVE Safe'
      OBVIOUS
  <2>1. TypeOK' /\ Exclusion'
        BY TypeNext, ExclusionNext DEF Safe
  <2>2. LocalInv' /\ HwShape'
        BY LocalNext, HwShapeNext DEF Safe
  <2>3. PoolInv'
        BY <2>1, PoolNext DEF Safe
  <2>4. MarkInv'
        BY <2>1, MarkNext DEF Safe
  <2> QED BY <2>1, <2>2, <2>3, <2>4 DEF Safe
<1> QED BY <1>1, <1>2, PTL DEF Spec

(***************************************************************************)
(* The pool's marks are exactly the instances held and those that were     *)
(* lost, and no instance has two holders (GetCodecInstance, VPU_DecClose). *)
(***************************************************************************)
THEOREM PoolIsExact == Spec => []PoolExact
<1>1. Safe => PoolExact
  <2> SUFFICES ASSUME Safe, ~shared, NEW p \in Procs, Live(p)
               PROVE  /\ \A c, d \in Clients : handle[c] # None /\ handle[c] = handle[d] => c = d
                      /\ {i \in Inst : inUse[i]} = Handles \cup leaked
                      /\ Handles \cap leaked = {}
      BY DEF PoolExact
  <2>1. Pool
        BY DEF Safe, PoolInv
  <2>2. handle \in [Clients -> Inst \cup {None}] /\ leaked \subseteq Inst
        BY DEF Safe, TypeOK, CallTypes, SharedTypes
  <2>3. {i \in Inst : inUse[i]} = Handles \cup leaked
        BY <2>1, <2>2 DEF Pool, Taken, Handles
  <2>4. Handles \cap leaked = {}
        BY <2>1 DEF Pool, NotLost, Handles
  <2> QED BY <2>1, <2>3, <2>4 DEF Pool, Distinct
<1> QED BY <1>1, SafeAlways, PTL

(***************************************************************************)
(* A pending mark always has a decoder that holds the instance, and so can *)
(* still take the mark away (VPU_DecClose, VPU_DecGetOutputInfo).          *)
(***************************************************************************)
THEOREM PendingIsHeld == Spec => []PendingHeld
<1>1. Safe => PendingHeld
      BY DEF Safe, PoolInv, Pool, Marked, PendingHeld, Handles
<1> QED BY <1>1, SafeAlways, PTL

(***************************************************************************)
(* The hardware works under the mark of the decoder whose picture it is,   *)
(* unless it timed out or a close dropped the mark.                        *)
(***************************************************************************)
THEOREM PictureGuarded == Spec => []MarkGuardsPicture
<1>1. Safe => MarkGuardsPicture
      BY DEF Safe, MarkInv, Guarded, MarkGuardsPicture
<1> QED BY <1>1, SafeAlways, PTL

(***************************************************************************)
(* Whatever a killed process left in the shared memory and the hardware,   *)
(* the next one that opens the device alone starts from a clean VPU.       *)
(***************************************************************************)
THEOREM CrashRecovered == Spec => []FreshAfterCrash
<1>1. Safe => FreshAfterCrash
  <2> SUFFICES ASSUME Safe, NEW p \in Procs, ~shared, Live(p), Handles = {}
               PROVE  /\ appCount = 1 /\ pending = None
                      /\ {i \in Inst : inUse[i]} = leaked
                      /\ ~dirty => hw = HwIdle
      BY DEF FreshAfterCrash
  <2>1. Pool
        BY DEF Safe, PoolInv
  <2>2. handle \in [Clients -> Inst \cup {None}] /\ leaked \subseteq Inst
        BY DEF Safe, TypeOK, CallTypes, SharedTypes
  <2>3. \A c \in Clients : handle[c] = None
        BY DEF Handles
  <2>4. pending = None /\ appCount = 1
        BY <2>1, <2>3 DEF Pool, Marked
  <2>5. {i \in Inst : inUse[i]} = leaked
        BY <2>1, <2>2, <2>3 DEF Pool, Taken
  <2>6. ~dirty => hw = HwIdle
    <3>1. ~dirty => hw.job = None
          BY <2>4 DEF Safe, MarkInv, Guarded
    <3> QED BY <3>1 DEF Safe, HwShape, HwIdle, TypeOK, HwTypes
  <2> QED BY <2>4, <2>5, <2>6
<1> QED BY <1>1, SafeAlways, PTL

-----------------------------------------------------------------------------
\* A decoder in the middle of a seek it cannot make, one step later.
LEMMA SeekNext ==
  Safe /\ [Next]_vars
  => \A c \in Clients : HalfSeek(c) /\ ~shared /\ ~shared'
       => HalfSeek(c)' \/ DropsAnyMark \/ GivenUp(c)
<1> SUFFICES ASSUME Safe, [Next]_vars, NEW c \in Clients, HalfSeek(c), ~shared, ~shared'
             PROVE  HalfSeek(c)' \/ DropsAnyMark \/ GivenUp(c)
    OBVIOUS
<1> DEFINE Stays == HalfSeek(c)' \/ DropsAnyMark \/ GivenUp(c)
<1> USE DEF Safe, TypeOK, CallTypes, FlagTypes, StreamTypes, At, Goto, Fail
<1>1. /\ handle[c] \in Inst /\ handle[c] # None /\ inUse[handle[c]] /\ pending = handle[c]
      /\ rand[c] /\ lastField[c] /\ pc[c] \in {"opened", "lock", "entered", "leave"}
      BY DEF HalfSeek, Owns, Valid
<1>2. ProcOf[c] \in Procs /\ dev[ProcOf[c]] = "up" /\ ProcOf[c] \in attached
      BY <1>1 DEF Exclusion, Counted, DeviceOpen
<1>3. \A p \in Procs : dev[p] # "down" => p = ProcOf[c]
      BY <1>2 DEF Exclusion, Alone
<1>4. Pool /\ \A d \in Clients : pc[d] = "issue" => pending = None
      BY <1>2 DEF PoolInv, MarkInv, Unmarked, Live
<1>5. ASSUME pc'[c] \in {"opened", "lock", "entered", "leave"}, UNCHANGED <<pending, handle>>,
             inUse'[handle[c]], lastField'[c], rand'[c]
      PROVE  Stays
      BY <1>1, <1>5 DEF HalfSeek, Owns, Valid
<1>6. CASE HwRaise \/ UNCHANGED vars
      BY <1>1, <1>5, <1>6 DEF HwRaise, vars, shm, stream
<1>7. ASSUME NEW p \in Procs, DeviceStep(p) PROVE Stays
  <2>1. ~DevAttach(p)
    <3>1. attached # {}
          BY <1>2
    <3> QED BY <3>1, Zenon DEF DevAttach
  <2> QED BY <1>2, <1>3, <1>7, <2>1 DEF DeviceStep, DevZero, DevMap, DevMapFails, DevBoot,
             DevBootFails, DevJoin
<1>8. ASSUME NEW p \in Procs, DevClose(p) PROVE Stays
      BY <1>1, <1>2, <1>3, <1>8 DEF DevClose
<1>9. ASSUME NEW p \in Procs, Kill(p) PROVE Stays
  <2>1. p = ProcOf[c] /\ handle' = Forget(p, handle, None)
        BY <1>3, <1>9 DEF Kill
  <2>2. handle'[c] = None
        BY <2>1 DEF Forget
  <2> QED BY <1>1, <2>2 DEF DropsAnyMark
<1>10. ASSUME NEW d \in Clients, ClientStep(d), ~CallStep(d) PROVE Stays
  <2>1. rand'[c] \/ GivenUp(c)
        BY <1>1, <1>10 DEF ClientStep, Call, Seek, PlayBack, PlayFunctionTool, Enter, stream, GivenUp
  <2>2. pc'[c] \in {"opened", "lock", "entered", "leave"}
        BY <1>1, <1>10, OutsideCall
  <2>3. UNCHANGED <<pending, handle, inUse, lastField>>
        BY <1>10, OutsideCall
  <2> QED BY <1>1, <1>5, <2>1, <2>2, <2>3
\* Its own calls: a flush and a sequence header are refused, a close ends it.
<1>11. CASE CallStep(c)
  <2>1. CASE OpenInstance(c) \/ OpenFull(c) \/ CloseNothing(c)
        BY <1>1, <2>1 DEF OpenInstance, OpenFull, CloseNothing, LocalInv, Local
  <2>2. CASE DsiRefused(c) \/ FlushRefused(c)
        BY <1>1, <1>5, <2>2 DEF DsiRefused, FlushRefused, shm, stream
  <2>3. CASE CloseInstance(c)
        BY <1>1, <2>3 DEF CloseInstance, DropsAnyMark
  <2>4. CASE Leave(c)
        BY <1>1, <1>5, <2>4 DEF Leave, LocalInv, Local, shm, stream
  <2> QED BY <1>1, <1>11, <2>1, <2>2, <2>3, <2>4 DEF CallStep, Dsi, Flush, DecodeBegin,
             HeaderBad, HeaderGood, StartField, StartRefused, StartFree, StartIssue, WaitField,
             WaitPicture, WaitTimeout, Reset, Output
\* The calls of others leave the mark alone, or drop it.
<1>12. ASSUME NEW d \in Clients, d # c, CallStep(d) PROVE Stays
  <2>1. pc'[c] = pc[c] /\ handle'[c] = handle[c]
        BY <1>12, LocalStep DEF ClientStep
  <2>2. ASSUME inUse'[handle[c]], pending' = pending, lastField'[c] = lastField[c],
               rand'[c] = rand[c]
        PROVE  Stays
        BY <1>1, <2>1, <2>2 DEF HalfSeek, Owns, Valid
  <2>3. CASE CloseInstance(d) \/ Reset(d)
        BY <2>3 DEF CloseInstance, Reset, DropsAnyMark
  <2>4. CASE OpenInstance(d)
        BY <1>1, <2>2, <2>4 DEF OpenInstance, stream
  <2>5. CASE OpenFull(d) \/ DsiRefused(d) \/ CloseNothing(d) \/ Leave(d)
        BY <1>1, <2>2, <2>5 DEF OpenFull, DsiRefused, CloseNothing, Leave, shm, stream
  <2>6. CASE DecodeBegin(d) \/ FlushRefused(d) \/ HeaderBad(d) \/ HeaderGood(d)
        BY <1>1, <1>12, <2>2, <2>6 DEF DecodeBegin, FlushRefused, HeaderBad, HeaderGood,
           shm, stream
  <2>7. CASE StartField(d) \/ StartRefused(d) \/ WaitField(d) \/ WaitPicture(d) \/ WaitTimeout(d)
        BY <1>1, <1>12, <2>2, <2>7 DEF StartField, StartRefused, WaitField, WaitPicture,
           WaitTimeout, shm, stream
  <2>8. CASE Output(d)
    <3>1. ~Owns(d)
          BY <1>1, <1>4, <1>12 DEF Owns, Pool, Distinct
    <3> QED BY <1>1, <1>12, <2>2, <2>8, <3>1 DEF Output
  <2> QED BY <1>1, <1>4, <1>12, <2>3, <2>4, <2>5, <2>6, <2>7, <2>8 DEF CallStep, Dsi, Flush,
             StartFree, StartIssue
<1> QED BY <1>6, <1>7, <1>8, <1>9, <1>10, <1>11, <1>12 DEF Next, ClientStep

(***************************************************************************)
(* A seek asked for between two fields is refused until a decoder of the   *)
(* process is closed, the hardware is reset, the process ends or the       *)
(* player gives the seek up.                                               *)
(***************************************************************************)
THEOREM SeekStaysRefused == Spec => SeekRefused
<1>1. Safe /\ [Next]_vars
      => [\A c \in Clients : HalfSeek(c) /\ ~shared /\ ~shared'
            => HalfSeek(c)' \/ DropsAnyMark \/ GivenUp(c)]_vars
      BY SeekNext
<1> QED BY <1>1, SafeAlways, PTL DEF Spec, SeekRefused

-----------------------------------------------------------------------------
(***************************************************************************)
(* How far a call has still to go.  The jump back to CHUNK_REUSE is paid   *)
(* for by m_reUseChunk, which it clears; the loop of the wait by the       *)
(* interrupts the picture can still raise.                                 *)
(***************************************************************************)
LEMMA InterruptsBound ==
  /\ \A h : InterruptsLeft(h) \in 0..3
  /\ \A h : h.st \in {"field", "paused"} => InterruptsLeft(h) = 2
  /\ \A h : h.st = "second" => InterruptsLeft(h) = 1
BY DEF InterruptsLeft

LEMMA StageBound ==
  ASSUME NEW c \in Clients
  PROVE  /\ Stage(c) \in 0..9
         /\ pc[c] \in Decoding => Stage(c) >= 1
         /\ pc[c] = "wait" => Stage(c) \in 2..5
BY InterruptsBound DEF Stage, Decoding

LEMMA LowerStage ==
  ASSUME TypeOK, NEW c \in Clients, pc[c] # "leave",
         reuse'[c] = reuse[c] \/ pc'[c] = "leave",
         Stage(c)' \in Int, Stage(c)' < Stage(c)
  PROVE  StepsLeft(c)' < StepsLeft(c)
BY StageBound DEF StepsLeft, TypeOK, StreamTypes

\* A failure goes back to the label with m_reUseChunk cleared, or leaves.
LEMMA FailShortens ==
  ASSUME TypeOK, NEW c \in Clients, Fail(c), pc[c] \in Decoding
  PROVE  StepsLeft(c)' < StepsLeft(c)
<1>1. /\ reuse'[c] = FALSE
      /\ pc'[c] = IF reuse[c] THEN "header" ELSE "leave"
      BY DEF Fail, Goto, TypeOK, CallTypes, StreamTypes
<1>2. Stage(c)' = IF reuse[c] THEN 8 ELSE 0
      BY <1>1 DEF Stage
<1>3. StepsLeft(c)' = IF reuse[c] THEN 8 ELSE 0
      BY <1>1, <1>2 DEF StepsLeft
<1> QED BY <1>3, StageBound DEF StepsLeft, Decoding

LEMMA CallShortens ==
  ASSUME TypeOK, NEW c \in Clients, CallStep(c), InCall(c)'
  PROVE  StepsLeft(c)' < StepsLeft(c)
<1> USE DEF TypeOK, CallTypes, StreamTypes, Goto, At
\* What the stages of the counter are, before and after the step.
<1>1. /\ pc[c] = "entered" => Stage(c) = 9
      /\ pc[c] = "header" => Stage(c) = 8
      /\ pc[c] = "start" => Stage(c) = 7
      /\ pc[c] = "issue" => Stage(c) = 6
      /\ pc[c] = "output" => Stage(c) = 1
      BY DEF Stage
<1>2. /\ pc'[c] = "header" => Stage(c)' = 8
      /\ pc'[c] = "start" => Stage(c)' = 7
      /\ pc'[c] = "issue" => Stage(c)' = 6
      /\ pc'[c] = "wait" => Stage(c)' = 2 + InterruptsLeft(hw')
      /\ pc'[c] \in {"reset", "output"} => Stage(c)' = 1
      /\ pc'[c] = "leave" => Stage(c)' = 0
      BY DEF Stage
<1>3. InterruptsLeft(hw') \in 0..3
      BY InterruptsBound
<1>4. CASE \/ OpenInstance(c) \/ OpenFull(c) \/ DsiRefused(c) \/ Dsi(c)
           \/ CloseInstance(c) \/ CloseNothing(c) \/ FlushRefused(c)
  <2>1. pc[c] = "entered" /\ pc'[c] = "leave"
        BY <1>4 DEF OpenInstance, OpenFull, DsiRefused, Dsi, CloseInstance, CloseNothing,
           FlushRefused
  <2> QED BY <2>1, <1>1, <1>2, LowerStage
<1>5. CASE DecodeBegin(c) \/ Flush(c)
  <2>1. pc[c] = "entered" /\ pc'[c] \in {"header", "leave"} /\ reuse'[c] = reuse[c]
        BY <1>5 DEF DecodeBegin, Flush, stream
  <2> QED BY <2>1, <1>1, <1>2, LowerStage
<1>6. CASE HeaderBad(c) \/ StartRefused(c) \/ Reset(c)
  <2>1. Fail(c) /\ pc[c] \in Decoding
        BY <1>6 DEF HeaderBad, StartRefused, Reset, Decoding
  <2> QED BY <2>1, FailShortens
<1>7. CASE HeaderGood(c) \/ StartFree(c)
  <2>1. /\ \/ pc[c] = "header" /\ pc'[c] = "start"
           \/ pc[c] = "start" /\ pc'[c] = "issue"
        /\ reuse'[c] = reuse[c]
        BY <1>7 DEF HeaderGood, StartFree, stream
  <2> QED BY <2>1, <1>1, <1>2, LowerStage
<1>8. CASE StartField(c) \/ StartIssue(c)
  <2>1. pc[c] \in {"start", "issue"} /\ pc'[c] = "wait" /\ reuse'[c] = reuse[c]
        BY <1>8 DEF StartField, StartIssue, stream
  <2> QED BY <2>1, <1>1, <1>2, <1>3, LowerStage
<1>9. CASE WaitField(c)
  <2>1. CASE Fail(c)
        BY <1>9, <2>1, FailShortens DEF WaitField, Decoding
  <2>2. CASE ~Fail(c)
    <3>1. /\ pc[c] = "wait" /\ pc'[c] = "wait" /\ reuse'[c] = reuse[c]
          /\ hw.st = "field" /\ hw'.st = "second"
          BY <1>9, <2>2 DEF WaitField, ClearInterrupt, HwTypes
    <3>2. Stage(c) = 4 /\ Stage(c)' = 3
          BY <3>1, <1>2, InterruptsBound DEF Stage
    <3> QED BY <3>1, <3>2, LowerStage
  <2> QED BY <2>1, <2>2
<1>10. CASE WaitPicture(c) \/ WaitTimeout(c)
  <2>1. pc[c] = "wait" /\ pc'[c] \in {"reset", "output"} /\ reuse'[c] = reuse[c]
        BY <1>10 DEF WaitPicture, WaitTimeout, stream
  <2> QED BY <2>1, <1>2, StageBound, LowerStage
<1>11. CASE Output(c)
  <2>1. CASE reuse[c]
        BY <1>11, <2>1, FailShortens DEF Output, Decoding
  <2>2. CASE ~reuse[c]
        BY <1>11, <2>2, <1>1, <1>2, LowerStage DEF Output
  <2> QED BY <2>1, <2>2
<1>12. CASE Leave(c)
       BY <1>12 DEF Leave, InCall, Rest
<1> QED BY <1>4, <1>5, <1>6, <1>7, <1>8, <1>9, <1>10, <1>11, <1>12 DEF CallStep

\* The hardware raises interrupts and takes none back.
LEMMA HwRaiseShortens ==
  ASSUME TypeOK, NEW c \in Clients, HwRaise
  PROVE  StepsLeft(c)' <= StepsLeft(c)
<1>1. pc' = pc /\ reuse' = reuse
      BY DEF HwRaise, stream
<1>2. InterruptsLeft(hw') <= InterruptsLeft(hw)
      BY DEF HwRaise, InterruptsLeft, TypeOK, HwTypes, HwStates
<1>3. Stage(c)' = IF pc[c] = "wait" THEN 2 + InterruptsLeft(hw') ELSE Stage(c)
      BY <1>1 DEF Stage
<1>4. Stage(c)' <= Stage(c) /\ Stage(c)' \in Int
      BY <1>2, <1>3, StageBound, InterruptsBound DEF Stage
<1> QED BY <1>1, <1>4, StageBound DEF StepsLeft

LEMMA ShortenNext ==
  TypeOK /\ Exclusion /\ [Next]_vars
  => \A c \in Clients : InCall(c) /\ InCall(c)' =>
       /\ CallStep(c) => StepsLeft(c)' < StepsLeft(c)
       /\ ~shared /\ ~shared' => StepsLeft(c)' <= StepsLeft(c)
<1> SUFFICES ASSUME TypeOK, Exclusion, [Next]_vars, NEW c \in Clients, InCall(c), InCall(c)'
             PROVE  /\ CallStep(c) => StepsLeft(c)' < StepsLeft(c)
                    /\ ~shared /\ ~shared' => StepsLeft(c)' <= StepsLeft(c)
    OBVIOUS
<1>0. StepsLeft(c) \in Int
      BY StageBound DEF StepsLeft
<1>1. CallStep(c) => StepsLeft(c)' < StepsLeft(c)
      BY CallShortens
<1>2. ASSUME ~shared, ~shared' PROVE StepsLeft(c)' <= StepsLeft(c)
  <2>1. CASE CallStep(c)
    <3>1. StepsLeft(c)' \in Int
      <4>1. Stage(c)' \in Int
            BY InterruptsBound DEF Stage
      <4> QED BY <4>1 DEF StepsLeft
    <3> QED BY <1>0, <1>1, <2>1, <3>1
  <2>2. CASE HwRaise
        BY <2>2, HwRaiseShortens
  <2>3. CASE UNCHANGED vars
    <3>1. pc' = pc /\ hw' = hw /\ reuse' = reuse
          BY <2>3 DEF vars, machine, stream
    <3>2. StepsLeft(c)' = StepsLeft(c)
          BY <3>1 DEF StepsLeft, Stage
    <3> QED BY <1>0, <3>2
  <2>4. CASE Kill(ProcOf[c])
    <3>1. pc'[c] = "closed"
          BY <2>4 DEF Kill, Forget
    <3> QED BY <3>1 DEF InCall, Rest
  <2>5. ASSUME NEW d \in Clients, ClientStep(d), ~CallStep(d)
        PROVE  StepsLeft(c)' <= StepsLeft(c)
    <3>1. hw' = hw /\ reuse' = reuse
          BY <2>5, OutsideCall DEF ClientStep, Call, Seek, PlayBack, PlayFunctionTool, Enter, stream
    <3>2. pc'[c] = pc[c]
      <4>1. CASE d = c
            BY <2>5, <4>1 DEF ClientStep, Call, Seek, PlayBack, PlayFunctionTool, Enter, InCall, Rest
      <4>2. CASE d # c
            BY <2>5, <4>2, LocalStep
      <4> QED BY <4>1, <4>2
    <3>3. StepsLeft(c)' = StepsLeft(c)
          BY <3>1, <3>2 DEF StepsLeft, Stage
    <3> QED BY <1>0, <3>3
  <2> QED BY <1>2, <2>1, <2>2, <2>3, <2>4, <2>5, OnlyMine
<1> QED BY <1>1, <1>2

(***************************************************************************)
(* A call takes at most seventeen steps of its own: the wait for           *)
(* interrupts and the jump back to CHUNK_REUSE cannot go on for ever.      *)
(***************************************************************************)
THEOREM CallsAreShort == Spec => CallsShorten
<1>1. Spec => [](TypeOK /\ Exclusion)
      BY TypeInit, TypeNext, ExclusionInit, ExclusionNext, PTL DEF Spec
<1>2. TypeOK /\ Exclusion /\ [Next]_vars
      => [\A c \in Clients : InCall(c) /\ InCall(c)' =>
            /\ CallStep(c) => StepsLeft(c)' < StepsLeft(c)
            /\ ~shared /\ ~shared' => StepsLeft(c)' <= StepsLeft(c)]_vars
      BY ShortenNext
<1> QED BY <1>1, <1>2, PTL DEF Spec, CallsShorten
=============================================================================
