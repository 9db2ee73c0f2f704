------------------------------ MODULE VpuShare ------------------------------
(***************************************************************************)
(* The video decoders that share the one VPU of the board: the device      *)
(* object of each process (mmp_vpu_dev_shm.cpp) on one shared memory, the  *)
(* instance pool and the pending instance of the vendor API (vpuapi.c)     *)
(* inside that memory, and the decoders (MmpDecoderVpuIF.cpp) that hold    *)
(* the external mutex of their process for the whole of a call.            *)
(*                                                                         *)
(* The mutex is a pthread mutex in the heap of the process, so processes   *)
(* exclude each other in no way; the locks of the vendor code do nothing   *)
(* in this build.  SEQ_INIT, SEQ_END and the flush are issued and waited   *)
(* for inside one call and are one step here; the decoding of a picture,   *)
(* which may outlive its call, is several.                                 *)
(***************************************************************************)
EXTENDS Integers, FiniteSets

CONSTANTS Procs,      \* processes that link libmme
          Clients,    \* decoder objects
          ProcOf,     \* the process of each decoder
          NInst,      \* VPU_MAX_NUM_INSTANCE
          MaxApps,    \* bound of the model on app_count, in both directions
          Overlap,    \* bound of the model: calls are made while two processes share
          None        \* no instance, no decoder

Inst == 1..NInst

ASSUME ProcAssumption == ProcOf \in [Clients -> Procs]
ASSUME InstAssumption == NInst \in Nat \ {0}
ASSUME BoundAssumption == MaxApps \in Nat /\ Overlap \in BOOLEAN
ASSUME NoneAssumption == None \notin Inst /\ None \notin Clients

VARIABLES
  attached,   \* processes attached to the shared memory, as the kernel counts
  appCount,   \* vdi_shm.app_count
  inUse,      \* CodecInst.inUse
  pending,    \* vpu_instance_pool_t.pendingInstIdxPlus1 - 1
  dev,        \* progress of mmp_vpu_dev_shm::open in each process
  mutex,      \* holder of m_p_mutex_external_cs of each process
  hw,         \* the picture the hardware works on
  spoiled,    \* another decoder wrote the stream registers of its picture, or let it go on
  pc, op,     \* where a decoder is, and in which call
  handle,     \* m_DecHandle
  phase,      \* how far DecodeDSI came
  lastField,  \* m_last_int_reason has INT_BIT_DEC_FIELD
  rand,       \* m_randomaccess # MMP_PLAY_BACK
  reuse,      \* m_reUseChunk
  shared,     \* history: two processes were attached since the memory was unused
  dirty,      \* history: the hardware timed out, or a close dropped a mark it worked under
  leaked      \* history: instances in use whose handle was lost

shm     == <<attached, appCount, inUse, pending>>
device  == dev
machine == <<hw, spoiled>>
stream  == <<phase, lastField, rand, reuse>>
history == <<shared, dirty, leaked>>
vars == <<shm, device, mutex, machine, pc, op, handle, stream, history>>

Rest == {"closed", "opened"}
HwStates == {"idle", "run", "field", "paused", "second", "pic"}
HwIdle == [job |-> None, st |-> "idle"]

InCall(c) == pc[c] \notin Rest \cup {"lock"}
Owns(c) == pending = handle[c]
Valid(c) == handle[c] # None /\ inUse[handle[c]]
Goto(c, l) == pc' = [pc EXCEPT ![c] = l]

-----------------------------------------------------------------------------
(* The hardware.                                                           *)

(* It raises an interrupt after the first field of a picture or at its end *)
(* and stops after a field until the host clears the reason.               *)
HwRaise ==
  /\ \/ hw.st = "run" /\ \E s \in {"field", "pic"} : hw' = [hw EXCEPT !.st = s]
     \/ hw.st = "second" /\ hw' = [hw EXCEPT !.st = "pic"]
  /\ UNCHANGED <<shm, device, mutex, spoiled, pc, op, handle, stream, history>>

(* VPU_ClearInterrupt tells the firmware to go on.                         *)
ClearInterrupt(h) == IF h.st \in {"field", "paused"} THEN [h EXCEPT !.st = "second"] ELSE h

(* BitIssueCommand of a picture: nothing looks whether the hardware is at  *)
(* work; if it is, either picture may be the one that goes on.             *)
Issue(i) ==
  /\ \/ hw' = [job |-> i, st |-> "run"]
     \/ hw.job # None /\ UNCHANGED hw

(* A command waited for on the spot: it ends, or it times out.             *)
Command(ends) ==
  IF ends THEN hw' = HwIdle /\ UNCHANGED dirty
          ELSE UNCHANGED hw /\ dirty' = TRUE

-----------------------------------------------------------------------------
(* The device object of a process.                                         *)

(* shmget and shmat; the kernel counts the attachment.                     *)
DevAttach(p) ==
  /\ dev[p] = "down"
  /\ Overlap \/ attached = {} \/ \A c \in Clients : pc[c] \in Rest
  /\ attached' = attached \cup {p}
  /\ shared' = (attached # {})
  /\ dev' = [dev EXCEPT ![p] = "attached"]
  /\ UNCHANGED <<appCount, inUse, pending, mutex, machine, pc, op, handle, stream, dirty, leaked>>

(* shm_nattch counts this process too.                                     *)
SoleMutant(p) == attached = {}
Sole(p) == attached = {p}

(* IPC_STAT; the only process attached zeroes whatever the last ones left. *)
DevZero(p) ==
  /\ dev[p] = "attached"
  /\ dev' = [dev EXCEPT ![p] = "zeroed"]
  /\ IF Sole(p)
     THEN /\ appCount' = 0
          /\ inUse' = [i \in Inst |-> FALSE]
          /\ pending' = None
          /\ leaked' = {}
     ELSE UNCHANGED <<appCount, inUse, pending, leaked>>
  /\ UNCHANGED <<attached, mutex, machine, pc, op, handle, stream, shared, dirty>>

(* No driver, registers or common buffer: create_instance calls close,     *)
(* which takes back a count that was never given.  The process goes on     *)
(* without a device: for the others it is as good as gone.                 *)
DevMapFails(p) ==
  /\ dev[p] = "zeroed" /\ appCount > 1 - MaxApps
  /\ appCount' = appCount - 1
  /\ attached' = attached \ {p}
  /\ dev' = [dev EXCEPT ![p] = "down"]
  /\ UNCHANGED <<inUse, pending, mutex, machine, pc, op, handle, stream, history>>

DevMap(p) ==
  /\ dev[p] = "zeroed"
  /\ dev' = [dev EXCEPT ![p] = IF appCount = 0 THEN "boot" ELSE "join"]
  /\ UNCHANGED <<shm, mutex, machine, pc, op, handle, stream, history>>

(* VPU_Init resets the hardware, drops the pending instance and loads the  *)
(* firmware; the pool keeps its entries.                                   *)
DevBoot(p) ==
  /\ dev[p] = "boot"
  /\ hw' = HwIdle
  /\ pending' = None
  /\ appCount' = appCount + 1
  /\ dirty' = FALSE
  /\ dev' = [dev EXCEPT ![p] = "up"]
  /\ UNCHANGED <<attached, inUse, mutex, spoiled, pc, op, handle, stream, shared, leaked>>

(* The firmware does not answer: the count is given and taken back.        *)
DevBootFails(p) ==
  /\ dev[p] = "boot"
  /\ pending' = None
  /\ dirty' = TRUE
  /\ attached' = attached \ {p}
  /\ dev' = [dev EXCEPT ![p] = "down"]
  /\ UNCHANGED <<appCount, inUse, mutex, machine, pc, op, handle, stream, shared, leaked>>

(* VPU_Init_Shm only maps what another process has initialised.            *)
DevJoin(p) ==
  /\ dev[p] = "join" /\ appCount < MaxApps
  /\ appCount' = appCount + 1
  /\ dev' = [dev EXCEPT ![p] = "up"]
  /\ UNCHANGED <<attached, inUse, pending, mutex, machine, pc, op, handle, stream, history>>

(* The process ends after its decoders were closed.                        *)
DevClose(p) ==
  /\ dev[p] = "up"
  /\ \A c \in Clients : ProcOf[c] = p => pc[c] = "closed"
  /\ attached' = attached \ {p}
  /\ appCount' = appCount - 1
  /\ dev' = [dev EXCEPT ![p] = "down"]
  /\ UNCHANGED <<inUse, pending, mutex, machine, pc, op, handle, stream, history>>

(* The process is killed: the kernel detaches the memory and frees the     *)
(* heap, everything in the shared memory and the hardware stays.           *)
Forget(p, f, v) == [c \in Clients |-> IF ProcOf[c] = p THEN v ELSE f[c]]

Kill(p) ==
  /\ dev[p] # "down"
  /\ attached' = attached \ {p}
  /\ dev' = [dev EXCEPT ![p] = "down"]
  /\ mutex' = [mutex EXCEPT ![p] = None]
  /\ pc' = Forget(p, pc, "closed")
  /\ op' = Forget(p, op, "none")
  /\ handle' = Forget(p, handle, None)
  /\ phase' = Forget(p, phase, "none")
  /\ lastField' = Forget(p, lastField, FALSE)
  /\ rand' = Forget(p, rand, FALSE)
  /\ reuse' = Forget(p, reuse, FALSE)
  /\ UNCHANGED <<appCount, inUse, pending, machine, history>>

-----------------------------------------------------------------------------
(* Calls of a decoder.                                                     *)

(* Open needs the device; a decoder that has a handle can be used.         *)
Call(c, o) ==
  /\ Overlap \/ ~shared
  /\ \/ pc[c] = "closed" /\ o = "open" /\ dev[ProcOf[c]] = "up"
     \/ pc[c] = "opened" /\ o \in {"dsi", "decode"} /\ handle[c] # None
     \/ pc[c] = "opened" /\ o = "close"
  /\ Goto(c, "lock")
  /\ op' = [op EXCEPT ![c] = o]
  /\ UNCHANGED <<shm, device, mutex, machine, handle, stream, history>>

(* Play_Function_Tool writes m_randomaccess without the mutex.  A call     *)
(* looks at it once, so a write during the rest of it is one after it.     *)
PlayFunctionTool(c, seek) ==
  /\ pc[c] \in {"opened", "lock", "entered"} /\ handle[c] # None
  /\ rand' = [rand EXCEPT ![c] = seek]
  /\ UNCHANGED <<shm, device, mutex, machine, pc, op, handle, phase, lastField, reuse, history>>

(* Forward, rewind and random access ask for a flush; MMP_PLAY_BACK, which *)
(* is normal playing, takes that back.                                     *)
Seek(c) == PlayFunctionTool(c, TRUE)
PlayBack(c) == PlayFunctionTool(c, FALSE)

EnterMutant(c) ==
  /\ pc[c] = "lock"
  /\ mutex' = [mutex EXCEPT ![ProcOf[c]] = c]
  /\ Goto(c, "entered")
  /\ UNCHANGED <<shm, device, machine, op, handle, stream, history>>

Enter(c) ==
  /\ pc[c] = "lock"
  /\ mutex[ProcOf[c]] = None
  /\ mutex' = [mutex EXCEPT ![ProcOf[c]] = c]
  /\ Goto(c, "entered")
  /\ UNCHANGED <<shm, device, machine, op, handle, stream, history>>

(* A decoder whose Open failed is closed at once; a closed one is deleted. *)
Leave(c) ==
  /\ pc[c] = "leave"
  /\ mutex' = [mutex EXCEPT ![ProcOf[c]] = None]
  /\ IF op[c] = "open" /\ handle[c] = None
     THEN Goto(c, "lock") /\ op' = [op EXCEPT ![c] = "close"]
     ELSE /\ Goto(c, IF op[c] = "close" THEN "closed" ELSE "opened")
          /\ op' = [op EXCEPT ![c] = "none"]
  /\ UNCHANGED <<shm, device, machine, handle, stream, history>>

At(c, o) == pc[c] = "entered" /\ op[c] = o

(* GetCodecInstance takes the first free entry; a missing work buffer      *)
(* loses the handle and not the entry.  BIT_RD_PTR, BIT_WR_PTR and the     *)
(* stream parameters are written at once, pending picture or not.          *)
FirstFreeMutant(i) == \A j \in Inst : j < i => inUse[j]
FirstFree(i) == ~inUse[i] /\ \A j \in Inst : j < i => inUse[j]

OpenInstance(c) ==
  /\ At(c, "open")
  /\ \E i \in Inst :
       /\ FirstFree(i)
       /\ inUse' = [inUse EXCEPT ![i] = TRUE]
       /\ \/ handle' = [handle EXCEPT ![c] = i] /\ UNCHANGED leaked
             /\ spoiled' = (spoiled \/ pending # None)
          \/ leaked' = leaked \cup {i} /\ UNCHANGED <<handle, spoiled>>
  /\ Goto(c, "leave")
  /\ UNCHANGED <<attached, appCount, pending, device, mutex, hw, op, stream, shared, dirty>>

OpenFull(c) ==
  /\ At(c, "open")
  /\ \A i \in Inst : inUse[i]
  /\ Goto(c, "leave")
  /\ UNCHANGED <<shm, device, mutex, machine, op, handle, stream, history>>

(* The header cannot be made or written; or an instance is pending, and    *)
(* even then the interrupt reason is cleared.                              *)
DsiRefused(c) ==
  /\ At(c, "dsi")
  /\ \/ UNCHANGED machine
     \/ /\ pending # None /\ Valid(c)
        /\ hw' = ClearInterrupt(hw)
        /\ spoiled' = (spoiled \/ hw.st = "paused")
  /\ Goto(c, "leave")
  /\ UNCHANGED <<shm, device, mutex, op, handle, stream, history>>

(* SEQ_INIT and the frame buffers.                                         *)
Dsi(c) ==
  /\ At(c, "dsi")
  /\ pending = None /\ Valid(c)
  /\ \E ends \in BOOLEAN, reached \in {"none", "seq", "ready"} :
       /\ ~ends => reached = "none"
       /\ Command(ends)
       /\ phase' = [phase EXCEPT ![c] = IF @ = "none" THEN reached ELSE @]
  /\ Goto(c, "leave")
  /\ UNCHANGED <<shm, device, mutex, spoiled, op, handle, lastField, rand, reuse, shared, leaked>>

(* VPU_DecClose makes itself pending without asking who is, sends SEQ_END  *)
(* if it had sent SEQ_INIT, and frees the entry unless that timed out.     *)
MarkAfterCloseMutant(c) == handle[c]
MarkAfterClose(c) == None

CloseInstance(c) ==
  /\ At(c, "close")
  /\ handle[c] # None
  /\ IF Valid(c)
     THEN /\ pending' = MarkAfterClose(c)
          /\ \/ /\ hw' = IF phase[c] = "none" THEN hw ELSE HwIdle
                /\ dirty' = (dirty \/ hw.job # None)
                /\ inUse' = [inUse EXCEPT ![handle[c]] = FALSE]
                /\ UNCHANGED leaked
             \/ /\ phase[c] # "none" /\ Command(FALSE)
                /\ leaked' = leaked \cup {handle[c]}
                /\ UNCHANGED inUse
     ELSE UNCHANGED <<pending, hw, dirty, inUse, leaked>>
  /\ handle' = [handle EXCEPT ![c] = None]
  /\ phase' = [phase EXCEPT ![c] = "none"]
  /\ lastField' = [lastField EXCEPT ![c] = FALSE]
  /\ rand' = [rand EXCEPT ![c] = FALSE]
  /\ reuse' = [reuse EXCEPT ![c] = FALSE]
  /\ Goto(c, "leave")
  /\ UNCHANGED <<attached, appCount, device, mutex, spoiled, op, shared>>

CloseNothing(c) ==
  /\ At(c, "close")
  /\ handle[c] = None
  /\ Goto(c, "leave")
  /\ UNCHANGED <<shm, device, mutex, machine, op, handle, stream, history>>

-----------------------------------------------------------------------------
(* DecodeAu_PinEnd, under the mutex from entry to return.                  *)

(* A failure between the label CHUNK_REUSE and the end of the call goes    *)
(* back to the label once when the last chunk was to be used again.        *)
FailMutant(c) ==
  /\ Goto(c, IF reuse[c] THEN "header" ELSE "leave")
  /\ UNCHANGED reuse

Fail(c) ==
  /\ Goto(c, IF reuse[c] THEN "header" ELSE "leave")
  /\ reuse' = [reuse EXCEPT ![c] = FALSE]

DecodeBegin(c) ==
  /\ At(c, "decode") /\ ~rand[c]
  /\ Goto(c, "header")
  /\ UNCHANGED <<shm, device, mutex, machine, op, handle, stream, history>>

FlushRefused(c) ==
  /\ At(c, "decode") /\ rand[c]
  /\ pending # None \/ ~Valid(c)
  /\ Goto(c, "leave")
  /\ UNCHANGED <<shm, device, mutex, machine, op, handle, stream, history>>

FlushMutant(c) ==
  /\ At(c, "decode") /\ rand[c]
  /\ pending = None \/ Owns(c)
  /\ Valid(c)
  /\ \E ends \in BOOLEAN :
       /\ Command(ends)
       /\ rand' = [rand EXCEPT ![c] = ~ends]
       /\ Goto(c, IF ends THEN "header" ELSE "leave")
  /\ UNCHANGED <<shm, device, mutex, spoiled, op, handle, phase, lastField, reuse, shared, leaked>>

Flush(c) ==
  /\ At(c, "decode") /\ rand[c]
  /\ pending = None /\ Valid(c)
  /\ \E ends \in BOOLEAN :
       /\ Command(ends)
       /\ rand' = [rand EXCEPT ![c] = ~ends]
       /\ Goto(c, IF ends THEN "header" ELSE "leave")
  /\ UNCHANGED <<shm, device, mutex, spoiled, op, handle, phase, lastField, reuse, shared, leaked>>

(* The chunk has no header that can be made, or does not fit: the call     *)
(* fails and forgets that a field was being waited for.                    *)
HeaderBad(c) ==
  /\ pc[c] = "header"
  /\ lastField' = [lastField EXCEPT ![c] = FALSE]
  /\ Fail(c)
  /\ UNCHANGED <<shm, device, mutex, machine, op, handle, phase, rand, history>>

(* The chunk is written; VPU_DecSetRdPtr and the writes after it leave the *)
(* registers alone while another instance is pending.                      *)
HeaderGood(c) ==
  /\ pc[c] = "header"
  /\ Goto(c, "start")
  /\ UNCHANGED <<shm, device, mutex, machine, op, handle, stream, history>>

(* The second field: the firmware is told to go on.                        *)
StartField(c) ==
  /\ pc[c] = "start" /\ lastField[c]
  /\ hw' = ClearInterrupt(hw)
  /\ Goto(c, "wait")
  /\ UNCHANGED <<shm, device, mutex, spoiled, op, handle, stream, history>>

StartRefused(c) ==
  /\ pc[c] = "start" /\ ~lastField[c]
  /\ ~Valid(c) \/ phase[c] # "ready"
  /\ Fail(c)
  /\ UNCHANGED <<shm, device, mutex, machine, op, handle, phase, lastField, rand, history>>

(* VPU_DecStartOneFrame looks for a pending instance; START_DEC tries      *)
(* again for as long as there is one, which changes nothing.               *)
StartFreeMutant(c) ==
  /\ pc[c] = "start" /\ ~lastField[c]
  /\ Valid(c) /\ phase[c] = "ready"
  /\ Goto(c, "issue")
  /\ UNCHANGED <<shm, device, mutex, machine, op, handle, stream, history>>

StartFree(c) ==
  /\ pc[c] = "start" /\ ~lastField[c]
  /\ Valid(c) /\ phase[c] = "ready"
  /\ pending = None
  /\ Goto(c, "issue")
  /\ UNCHANGED <<shm, device, mutex, machine, op, handle, stream, history>>

MarkAtStartForgotten(c) == pending
MarkAtStart(c) == handle[c]

StartIssue(c) ==
  /\ pc[c] = "issue"
  /\ pending' = MarkAtStart(c)
  /\ spoiled' = FALSE
  /\ Issue(handle[c])
  /\ Goto(c, "wait")
  /\ UNCHANGED <<attached, appCount, inUse, device, mutex, op, handle, stream, history>>

(* INT_BIT_DEC_FIELD: the chunk holds the other field, or the next will.   *)
WaitField(c) ==
  /\ pc[c] = "wait" /\ hw.st = "field"
  /\ \/ /\ hw' = ClearInterrupt(hw)
        /\ UNCHANGED <<pc, lastField, reuse>>
     \/ /\ hw' = [hw EXCEPT !.st = "paused"]
        /\ lastField' = [lastField EXCEPT ![c] = TRUE]
        /\ Fail(c)
  /\ UNCHANGED <<shm, device, mutex, spoiled, op, handle, phase, rand, history>>

WaitPicture(c) ==
  /\ pc[c] = "wait" /\ hw.st = "pic"
  /\ hw' = HwIdle
  /\ lastField' = [lastField EXCEPT ![c] = FALSE]
  /\ Goto(c, "output")
  /\ UNCHANGED <<shm, device, mutex, spoiled, op, handle, phase, rand, reuse, history>>

WaitTimeoutMutant(c) ==
  /\ pc[c] = "wait" /\ hw.job = None
  /\ Goto(c, "reset")
  /\ UNCHANGED <<shm, device, mutex, machine, op, handle, stream, history>>

WaitTimeout(c) ==
  /\ pc[c] = "wait" /\ hw.st \notin {"field", "pic"}
  /\ Goto(c, "reset")
  /\ UNCHANGED <<shm, device, mutex, machine, op, handle, stream, history>>

(* VPU_SWReset drops whoever is pending.  It can time out itself, and an   *)
(* interrupt that came after the timeout stays with the driver.            *)
Reset(c) ==
  /\ pc[c] = "reset"
  /\ pending' = None
  /\ \/ hw.st \notin {"field", "pic"} /\ hw' = HwIdle /\ UNCHANGED dirty
     \/ dirty' = TRUE /\ UNCHANGED hw
  /\ lastField' = [lastField EXCEPT ![c] = FALSE]
  /\ Fail(c)
  /\ UNCHANGED <<attached, appCount, inUse, device, mutex, spoiled, op, handle, phase, rand, shared, leaked>>

(* VPU_DecGetOutputInfo answers the pending instance only.  The picture    *)
(* may ask for the same chunk again in the next call.                      *)
Output(c) ==
  /\ pc[c] = "output"
  /\ pending' = IF Owns(c) /\ Valid(c) THEN None ELSE pending
  /\ IF reuse[c]
     THEN Fail(c)
     ELSE /\ Goto(c, "leave")
          /\ \E again \in BOOLEAN : /\ again => Owns(c) /\ Valid(c)
                                    /\ reuse' = [reuse EXCEPT ![c] = again]
  /\ UNCHANGED <<attached, appCount, inUse, device, mutex, machine, op, handle,
                 phase, lastField, rand, history>>

-----------------------------------------------------------------------------
DeviceStep(p) ==
  \/ DevAttach(p) \/ DevZero(p) \/ DevMap(p) \/ DevMapFails(p)
  \/ DevBoot(p) \/ DevBootFails(p) \/ DevJoin(p)

(* The steps a decoder takes inside a call, all of them its own.           *)
CallStep(c) ==
  \/ OpenInstance(c) \/ OpenFull(c) \/ DsiRefused(c) \/ Dsi(c)
  \/ CloseInstance(c) \/ CloseNothing(c)
  \/ DecodeBegin(c) \/ FlushRefused(c) \/ Flush(c) \/ HeaderBad(c) \/ HeaderGood(c)
  \/ StartField(c) \/ StartRefused(c) \/ StartFree(c) \/ StartIssue(c)
  \/ WaitField(c) \/ WaitPicture(c) \/ WaitTimeout(c) \/ Reset(c) \/ Output(c)
  \/ Leave(c)

ClientStep(c) ==
  \/ \E o \in {"open", "dsi", "decode", "close"} : Call(c, o)
  \/ Seek(c) \/ PlayBack(c) \/ Enter(c) \/ CallStep(c)

Next ==
  \/ HwRaise
  \/ \E p \in Procs : DeviceStep(p) \/ DevClose(p) \/ Kill(p)
  \/ \E c \in Clients : ClientStep(c)

Init ==
  /\ attached = {} /\ appCount = 0
  /\ inUse = [i \in Inst |-> FALSE] /\ pending = None
  /\ dev = [p \in Procs |-> "down"]
  /\ mutex = [p \in Procs |-> None]
  /\ hw = HwIdle /\ spoiled = FALSE
  /\ pc = [c \in Clients |-> "closed"] /\ op = [c \in Clients |-> "none"]
  /\ handle = [c \in Clients |-> None] /\ phase = [c \in Clients |-> "none"]
  /\ lastField = [c \in Clients |-> FALSE] /\ rand = [c \in Clients |-> FALSE]
  /\ reuse = [c \in Clients |-> FALSE]
  /\ shared = FALSE /\ dirty = FALSE /\ leaked = {}

Spec == Init /\ [][Next]_vars

(* A thread that holds the mutex goes on: no step of a call waits but for  *)
(* the interrupt, and that wait has a timeout.                             *)
FairSpec == Spec /\ \A c \in Clients : WF_vars(CallStep(c))
-----------------------------------------------------------------------------
SharedTypes ==
  /\ attached \subseteq Procs
  /\ appCount \in Int
  /\ pending \in Inst \cup {None}
  /\ leaked \subseteq Inst
DeviceTypes ==
  /\ dev \in [Procs -> {"down", "attached", "zeroed", "boot", "join", "up"}]
  /\ mutex \in [Procs -> Clients \cup {None}]
HwTypes == hw \in [job : Inst \cup {None}, st : HwStates]
FlagTypes ==
  /\ inUse \in [Inst -> BOOLEAN]
  /\ spoiled \in BOOLEAN /\ shared \in BOOLEAN /\ dirty \in BOOLEAN
CallTypes ==
  /\ pc \in [Clients -> {"closed", "opened", "lock", "entered", "header", "start", "issue",
                         "wait", "reset", "output", "leave"}]
  /\ op \in [Clients -> {"none", "open", "dsi", "decode", "close"}]
  /\ handle \in [Clients -> Inst \cup {None}]
StreamTypes ==
  /\ phase \in [Clients -> {"none", "seq", "ready"}]
  /\ lastField \in [Clients -> BOOLEAN]
  /\ rand \in [Clients -> BOOLEAN]
  /\ reuse \in [Clients -> BOOLEAN]
TypeOK == SharedTypes /\ DeviceTypes /\ HwTypes /\ FlagTypes /\ CallTypes /\ StreamTypes

Live(p) == dev[p] = "up"
Handles == {handle[c] : c \in Clients} \ {None}

(* As long as one process at a time uses the VPU, no two decoders hold the *)
(* same instance, and the pool's marks are exactly the instances held plus *)
(* those that Open or Close lost (GetCodecInstance, VPU_DecClose).         *)
PoolExact ==
  ~shared => \A p \in Procs : Live(p) =>
    /\ \A c, d \in Clients : handle[c] # None /\ handle[c] = handle[d] => c = d
    /\ {i \in Inst : inUse[i]} = Handles \cup leaked
    /\ Handles \cap leaked = {}

(* The pending instance is always one a decoder still holds: a pending     *)
(* mark on a freed instance would stop every decoder of the board          *)
(* (VPU_DecClose, VPU_SWReset, VPU_DecGetOutputInfo clear it).             *)
PendingHeld ==
  ~shared => \A p \in Procs : Live(p) => pending \in Handles \cup {None}

(* The hardware works on a picture under the mark of the decoder that      *)
(* started it: a decoder that finds nothing pending never commands a busy  *)
(* VPU, and an interrupt belongs to the pending instance.  Only a timeout  *)
(* or VPU_DecClose, which drops any mark, ends that (VPU_DecStartOneFrame, *)
(* VPU_DecGetOutputInfo, VPU_SWReset).                                     *)
MarkGuardsPicture ==
  \A p \in Procs : Live(p) /\ ~shared /\ ~dirty => hw.job \in {None, pending}

(* Whatever processes were killed before and however they had shared the   *)
(* memory, the next process to open the device alone starts from a clean   *)
(* one: a count of one, nothing pending, no instance taken, hardware idle; *)
(* and it is back there whenever all its decoders are closed.              *)
FreshAfterCrash ==
  \A p \in Procs :
    ~shared /\ Live(p) /\ Handles = {}
    => /\ appCount = 1 /\ pending = None
       /\ {i \in Inst : inUse[i]} = leaked
       /\ ~dirty => hw = HwIdle

(* Between the start of a picture and the return of the call no other      *)
(* decoder of the process touches the stream registers or the hardware;    *)
(* only a picture that waits for its second field can be disturbed.        *)
Undisturbed ==
  [][\A c \in Clients : pc[c] \in {"wait", "reset"} /\ pc'[c] = pc[c] /\ ~shared /\ ~shared'
       => spoiled' = spoiled /\ pending' = pending /\ hw'.job = hw.job]_vars

(* START_DEC waits for the instance with the mutex in its hand, and the    *)
(* decoder it waits for needs that mutex: within one process the wait      *)
(* never ends, it lasts until the process is killed.                       *)
Spinning(c) == pc[c] = "start" /\ ~lastField[c] /\ Valid(c) /\ phase[c] = "ready" /\ pending # None

SpinForever ==
  [][\A c \in Clients : Spinning(c) /\ ~shared /\ ~shared' /\ Live(ProcOf[c])'
       => Spinning(c)']_vars

(* A seek asked for between the two fields of a picture is refused call    *)
(* after call, by the decoder's own pending mark, whatever the calls of    *)
(* the decoders do: only what drops any mark ends it, the closing of one   *)
(* of them, a reset of the hardware or the end of the process, or the      *)
(* player, which goes back to normal playing and gives the seek up.        *)
HalfSeek(c) == rand[c] /\ lastField[c] /\ Owns(c) /\ Valid(c)
               /\ pc[c] \in {"opened", "lock", "entered", "leave"}

DropsAnyMark ==
  \E d \in Clients :
    \/ handle[d] # None /\ handle'[d] = None
    \/ pc[d] = "reset" /\ pc'[d] # "reset"

GivenUp(c) == ~rand'[c] /\ pc' = pc

SeekRefused ==
  [][\A c \in Clients : HalfSeek(c) /\ ~shared /\ ~shared'
       => HalfSeek(c)' \/ DropsAnyMark \/ GivenUp(c)]_vars

(* A call is short: each step a decoder takes inside it brings the end     *)
(* nearer, through the loop of the wait over interrupts and the jump back  *)
(* to CHUNK_REUSE, and while one process at a time uses the VPU neither    *)
(* the hardware nor another decoder sets it back.                          *)
InterruptsLeft(h) == CASE h.st = "run" -> 3
                       [] h.st \in {"field", "paused"} -> 2
                       [] h.st = "second" -> 1
                       [] OTHER -> 0
Stage(c) == CASE pc[c] = "entered" -> 9
              [] pc[c] = "header" -> 8
              [] pc[c] = "start" -> 7
              [] pc[c] = "issue" -> 6
              [] pc[c] = "wait" -> 2 + InterruptsLeft(hw)
              [] pc[c] \in {"reset", "output"} -> 1
              [] OTHER -> 0
StepsLeft(c) == Stage(c) + (IF reuse[c] /\ pc[c] # "leave" THEN 8 ELSE 0)

CallsShorten ==
  [][\A c \in Clients : InCall(c) /\ InCall(c)' =>
       /\ CallStep(c) => StepsLeft(c)' < StepsLeft(c)
       /\ ~shared /\ ~shared' => StepsLeft(c)' <= StepsLeft(c)]_vars

(* Every call ends, with a picture or a failure, or it is the one that     *)
(* spins: waits for the hardware are bounded by timeouts and resets.       *)
CallsEnd == \A c \in Clients : InCall(c) ~> (~InCall(c) \/ Spinning(c))
=============================================================================
