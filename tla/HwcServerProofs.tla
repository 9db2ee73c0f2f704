-------------------------- MODULE HwcServerProofs ---------------------------
(***************************************************************************)
(* Proofs about HwcServer, for every number of clients and every outcome   *)
(* of the device calls.  None of them assumes mutual exclusion, which the  *)
(* server does not have (PrepareExclusive).                                *)
(***************************************************************************)
EXTENDS HwcServer, TLAPS

USE ClientAssumption

\* The names of the threads that always exist are not clients.
LEMMA ThreadFacts ==
  /\ "main" \in Thread /\ "commit" \in Thread /\ "vsync" \in Thread
  /\ \A c \in Client :
       c \in Thread /\ c # "main" /\ c # "commit" /\ c # "vsync"
BY DEF Thread

-----------------------------------------------------------------------------
LEMMA TypeInit == Init => TypeOK
BY DEF Init, TypeOK, Label, Request, FenceValue, Thread

LEMMA TypeNext == TypeOK /\ [Next]_vars => TypeOK'
<1> SUFFICES ASSUME TypeOK, [Next]_vars PROVE TypeOK'
    OBVIOUS
<1> USE ThreadFacts, OutcomeAssumption DEF TypeOK, Label, Request, FenceValue, Goto,
        locks, flags, device, work
<1>1. CASE Main
      BY <1>1 DEF Main, MainOpen, MainStart, TimerLock, TimerCheck,
         TimerUnlock, TimerWait, TimerRelock, TimerUnlockVsync, LockOv,
         UnlockOv, LockVsync, UnlockVsync
<1>2. CASE CommitThread
      BY <1>2 DEF CommitThread, CommitInit, CommitWait, CommitRelock,
         CommitSkip, CommitBegin, CommitSlot, CommitEnd, CommitUnlock,
         BufferSync, LockOv, UnlockOv
<1>3. CASE VsyncThread
      BY <1>3 DEF VsyncThread, VsyncInit, VsyncLock, VsyncTest, VsyncClose,
         VsyncSync, VsyncClear, VsyncSignal, VsyncUnlock, BufferSync,
         LockVsync, UnlockVsync
<1>4. CASE SpuriousWakeup
      BY <1>4 DEF SpuriousWakeup
<1>5. ASSUME NEW c \in Client,
             ClientConnect(c) \/ ClientHangup(c) \/ ClientReceive(c)
      PROVE  TypeOK'
      BY <1>5 DEF ClientConnect, ClientHangup, ClientReceive
<1>6. ASSUME NEW c \in Client, Serve(c) PROVE TypeOK'
      BY <1>6 DEF Serve, ClientLock, ClientHandle, ClientLockVsync,
         ClientReply, ClientUnlockVsync, ClientFinish, ClientUnlock,
         LockOv, UnlockOv, LockVsync, UnlockVsync
<1>7. CASE Dead \/ UNCHANGED vars
      BY <1>7 DEF Dead, vars
<1> QED BY <1>1, <1>2, <1>3, <1>4, <1>5, <1>6, <1>7 DEF Next

(***************************************************************************)
(* The server's variables keep their types.                                *)
(***************************************************************************)
THEOREM ServerTypeSafe == Spec => []TypeOK
BY TypeInit, TypeNext, PTL DEF Spec

-----------------------------------------------------------------------------
(***************************************************************************)
(* NoLostRequest is inductive: ClientFinish sets is_update only after      *)
(* ClientHandle changed the registry, and CommitBegin clears it in the     *)
(* step that puts every slot ahead of the pass.                            *)
(***************************************************************************)
LEMMA LostInit == Init => NoLostRequest
BY DEF Init, NoLostRequest

LEMMA LostNext == TypeOK /\ NoLostRequest /\ [Next]_vars => NoLostRequest'
<1> SUFFICES ASSUME TypeOK, NoLostRequest, [Next]_vars PROVE NoLostRequest'
    OBVIOUS
<1> USE ThreadFacts DEF TypeOK, NoLostRequest, Goto, locks, flags, device, work
\* The other threads move no client and leave is_update and the pass alone.
<1>1. CASE Main
      BY <1>1 DEF Main, MainOpen, MainStart, TimerLock, TimerCheck,
         TimerUnlock, TimerWait, TimerRelock, TimerUnlockVsync
<1>2. CASE VsyncThread
      BY <1>2 DEF VsyncThread, VsyncInit, VsyncLock, VsyncTest, VsyncClose,
         VsyncSync, VsyncClear, VsyncSignal, VsyncUnlock
<1>3. CASE SpuriousWakeup
      BY <1>3 DEF SpuriousWakeup
<1>4. CASE CommitBegin
      BY <1>4 DEF CommitBegin
<1>5. ASSUME NEW c \in Client, CommitSlot(c) PROVE NoLostRequest'
      BY <1>5 DEF CommitSlot
<1>6. CASE CommitInit \/ CommitWait \/ CommitRelock \/ CommitSkip
             \/ CommitEnd \/ CommitUnlock
      BY <1>6 DEF CommitInit, CommitWait, CommitRelock, CommitSkip, CommitEnd,
         CommitUnlock
<1>7. ASSUME NEW c \in Client,
             ClientConnect(c) \/ ClientHangup(c) \/ ClientReceive(c)
      PROVE  NoLostRequest'
      BY <1>7 DEF ClientConnect, ClientHangup, ClientReceive
<1>8. ASSUME NEW c \in Client, Serve(c) PROVE NoLostRequest'
      BY <1>8 DEF Serve, ClientLock, ClientHandle, ClientLockVsync,
         ClientReply, ClientUnlockVsync, ClientFinish, ClientUnlock
<1>9. CASE Dead \/ UNCHANGED vars
      BY <1>9 DEF Dead, vars
<1> QED BY <1>1, <1>2, <1>3, <1>4, <1>5, <1>6, <1>7, <1>8, <1>9
    DEF Next, CommitThread

(***************************************************************************)
(* A change of the registry always has a commit pass still to come.        *)
(***************************************************************************)
THEOREM RequestsNotLost == Spec => []NoLostRequest
BY TypeInit, TypeNext, LostInit, LostNext, PTL DEF Spec

-----------------------------------------------------------------------------
(***************************************************************************)
(* Until main starts them, the other threads do not run.                   *)
(***************************************************************************)
StartInv == pc["main"] \in {"open", "start"} =>
              pc["commit"] = "unborn" /\ pc["vsync"] = "unborn"

LEMMA StartInit == Init => StartInv
BY ThreadFacts DEF Init, StartInv

LEMMA StartNext == TypeOK /\ StartInv /\ [Next]_vars => StartInv'
<1> SUFFICES ASSUME TypeOK, StartInv, [Next]_vars PROVE StartInv'
    OBVIOUS
<1> USE ThreadFacts DEF TypeOK, Goto, StartInv
<1>1. CASE Main
      BY <1>1 DEF Main, MainOpen, MainStart, TimerLock, TimerCheck,
         TimerUnlock, TimerWait, TimerRelock, TimerUnlockVsync
<1>2. CASE CommitThread
      BY <1>2 DEF CommitThread, CommitInit, CommitWait, CommitRelock,
         CommitSkip, CommitBegin, CommitSlot, CommitEnd, CommitUnlock
<1>3. CASE VsyncThread
      BY <1>3 DEF VsyncThread, VsyncInit, VsyncLock, VsyncTest, VsyncClose,
         VsyncSync, VsyncClear, VsyncSignal, VsyncUnlock
<1>4. CASE SpuriousWakeup
      BY <1>4 DEF SpuriousWakeup
<1>5. ASSUME NEW c \in Client,
             ClientConnect(c) \/ ClientHangup(c) \/ ClientReceive(c)
      PROVE  StartInv'
      BY <1>5 DEF ClientConnect, ClientHangup, ClientReceive
<1>6. ASSUME NEW c \in Client, Serve(c) PROVE StartInv'
      BY <1>6 DEF Serve, ClientLock, ClientHandle, ClientLockVsync,
         ClientReply, ClientUnlockVsync, ClientFinish, ClientUnlock
<1>7. CASE Dead \/ UNCHANGED vars
      BY <1>7 DEF Dead, vars
<1> QED BY <1>1, <1>2, <1>3, <1>4, <1>5, <1>6, <1>7 DEF Next

-----------------------------------------------------------------------------
(***************************************************************************)
(* The locks.  A step that takes a thread out of a critical section clears *)
(* the lock word, so a set word always has a thread behind it.             *)
(***************************************************************************)
LEMMA StuckInit == Init => NoStuckLock
BY DEF Init, NoStuckLock

LEMMA StuckNext ==
  TypeOK /\ StartInv /\ NoStuckLock /\ [Next]_vars => NoStuckLock'
<1> SUFFICES ASSUME TypeOK, StartInv, NoStuckLock, [Next]_vars
             PROVE  NoStuckLock'
    OBVIOUS
<1> USE ThreadFacts DEF TypeOK, Goto, locks, flags, device, work
<1>1. CASE Main
      <2> USE DEF LockOv, UnlockOv, LockVsync, UnlockVsync, NoStuckLock,
              HoldsOv, HoldsVsync
      <2>1. CASE MainOpen \/ MainStart
            BY <2>1 DEF MainOpen, MainStart, StartInv
      <2>2. CASE TimerLock \/ TimerUnlock
            BY <2>2 DEF TimerLock, TimerUnlock
      <2>3. CASE TimerCheck
            BY <2>3 DEF TimerCheck
      <2>4. CASE TimerWait \/ TimerRelock \/ TimerUnlockVsync
            BY <2>4 DEF TimerWait, TimerRelock, TimerUnlockVsync
      <2> QED BY <1>1, <2>1, <2>2, <2>3, <2>4 DEF Main
<1>2. CASE CommitThread
      BY <1>2 DEF CommitThread, CommitInit, CommitWait, CommitRelock,
         CommitSkip, CommitBegin, CommitSlot, CommitEnd, CommitUnlock,
         LockOv, UnlockOv, NoStuckLock, HoldsOv, HoldsVsync
<1>3. CASE VsyncThread
      BY <1>3 DEF VsyncThread, VsyncInit, VsyncLock, VsyncTest, VsyncClose,
         VsyncSync, VsyncClear, VsyncSignal, VsyncUnlock, LockVsync,
         UnlockVsync, NoStuckLock, HoldsOv, HoldsVsync
<1>4. CASE SpuriousWakeup
      BY <1>4 DEF SpuriousWakeup, NoStuckLock, HoldsOv, HoldsVsync
<1>5. ASSUME NEW c \in Client,
             ClientConnect(c) \/ ClientHangup(c) \/ ClientReceive(c)
      PROVE  NoStuckLock'
      BY <1>5 DEF ClientConnect, ClientHangup, ClientReceive, NoStuckLock,
         HoldsOv, HoldsVsync
<1>6. ASSUME NEW c \in Client, Serve(c) PROVE NoStuckLock'
      BY <1>6 DEF Serve, ClientLock, ClientHandle, ClientLockVsync,
         ClientReply, ClientUnlockVsync, ClientFinish, ClientUnlock,
         LockOv, UnlockOv, LockVsync, UnlockVsync, NoStuckLock, HoldsOv,
         HoldsVsync
<1>7. CASE Dead \/ UNCHANGED vars
      BY <1>7 DEF Dead, vars, NoStuckLock, HoldsOv, HoldsVsync
<1> QED BY <1>1, <1>2, <1>3, <1>4, <1>5, <1>6, <1>7 DEF Next

(***************************************************************************)
(* Whatever pthread_cond_wait unlocks by mistake, a lock that is set has a *)
(* thread in its critical section that will release it.                    *)
(***************************************************************************)
THEOREM LocksNotStuck == Spec => []NoStuckLock
BY TypeInit, TypeNext, StartInit, StartNext, StuckInit, StuckNext, PTL
DEF Spec

-----------------------------------------------------------------------------
(***************************************************************************)
(* The fence.  Before the commit thread has made the first fence there was *)
(* no commit, so vsync_check is clear and the vsync thread is not renewing *)
(* the fence.                                                              *)
(***************************************************************************)
FenceInv ==
  /\ FenceOwner
  /\ pc["commit"] \in {"unborn", "init"} =>
       /\ fence \in {"none", "zero"}
       /\ ~vsyncCheck
       /\ pc["vsync"] \notin {"close", "sync", "clear"}

LEMMA FenceInit == Init => FenceInv
BY ThreadFacts DEF Init, FenceInv, FenceOwner

LEMMA FenceNext == TypeOK /\ StartInv /\ FenceInv /\ [Next]_vars => FenceInv'
<1> SUFFICES ASSUME TypeOK, StartInv, FenceInv, [Next]_vars PROVE FenceInv'
    OBVIOUS
<1> USE ThreadFacts DEF TypeOK, Goto, locks, flags, device, work, StartInv,
        FenceInv, FenceOwner
<1>1. CASE Main
      BY <1>1 DEF Main, MainOpen, MainStart, TimerLock, TimerCheck,
         TimerUnlock, TimerWait, TimerRelock, TimerUnlockVsync
<1>2. CASE CommitThread
      BY <1>2 DEF CommitThread, CommitInit, CommitWait, CommitRelock,
         CommitSkip, CommitBegin, CommitSlot, CommitEnd, CommitUnlock,
         BufferSync
<1>3. CASE VsyncThread
      BY <1>3 DEF VsyncThread, VsyncInit, VsyncLock, VsyncTest, VsyncClose,
         VsyncSync, VsyncClear, VsyncSignal, VsyncUnlock, BufferSync
<1>4. CASE SpuriousWakeup
      BY <1>4 DEF SpuriousWakeup
<1>5. ASSUME NEW c \in Client,
             ClientConnect(c) \/ ClientHangup(c) \/ ClientReceive(c)
      PROVE  FenceInv'
      BY <1>5 DEF ClientConnect, ClientHangup, ClientReceive
<1>6. ASSUME NEW c \in Client, Serve(c) PROVE FenceInv'
      BY <1>6 DEF Serve, ClientLock, ClientHandle, ClientLockVsync,
         ClientReply, ClientUnlockVsync, ClientFinish, ClientUnlock
<1>7. CASE Dead \/ UNCHANGED vars
      BY <1>7 DEF Dead, vars
<1> QED BY <1>1, <1>2, <1>3, <1>4, <1>5, <1>6, <1>7 DEF Next

(***************************************************************************)
(* The commit thread's first fence overwrites no fence, and the cleared    *)
(* context's 0 is gone once the commit thread serves requests.             *)
(***************************************************************************)
THEOREM FenceOwned == Spec => []FenceOwner
<1>1. FenceInv => FenceOwner
      BY DEF FenceInv
<1> QED BY <1>1, TypeInit, TypeNext, StartInit, StartNext, FenceInit, FenceNext,
           PTL DEF Spec

-----------------------------------------------------------------------------
(***************************************************************************)
(* The null reply.  The fence is missing only where NullReplyWindow says,  *)
(* and a process that crashed has stopped where it was.                    *)
(***************************************************************************)
NoFence == \/ pc["commit"] \in {"unborn", "init"}
           \/ pc["vsync"] = "sync"
           \/ SyncFails
           \/ ~fbOpen
WindowInv == /\ fence = "none" => NoFence
             /\ pc["main"] \in {"open", "start"} =>
                  \A c \in Client : pc[c] = "off"
             /\ pc["commit"] = "unborn" => pc["main"] \in {"open", "start"}
             /\ NullReplyWindow

LEMMA WindowInit == Init => WindowInv
BY ThreadFacts DEF Init, WindowInv, NullReplyWindow

LEMMA WindowNext ==
  TypeOK /\ StartInv /\ WindowInv /\ [Next]_vars => WindowInv'
<1> SUFFICES ASSUME TypeOK, StartInv, WindowInv, [Next]_vars PROVE WindowInv'
    OBVIOUS
<1> USE ThreadFacts DEF TypeOK, Goto, locks, flags, device, work, StartInv,
        WindowInv, NoFence, NullReplyWindow, HoldsVsync
<1>1. CASE Main
      BY <1>1 DEF Main, MainOpen, MainStart, TimerLock, TimerCheck,
         TimerUnlock, TimerWait, TimerRelock, TimerUnlockVsync
<1>2. CASE CommitThread
      BY <1>2 DEF CommitThread, CommitInit, CommitWait, CommitRelock,
         CommitSkip, CommitBegin, CommitSlot, CommitEnd, CommitUnlock,
         BufferSync
<1>3. CASE VsyncThread
      BY <1>3 DEF VsyncThread, VsyncInit, VsyncLock, VsyncTest, VsyncClose,
         VsyncSync, VsyncClear, VsyncSignal, VsyncUnlock, BufferSync
<1>4. CASE SpuriousWakeup
      BY <1>4 DEF SpuriousWakeup
<1>5. ASSUME NEW c \in Client,
             ClientConnect(c) \/ ClientHangup(c) \/ ClientReceive(c)
      PROVE  WindowInv'
      BY <1>5 DEF ClientConnect, ClientHangup, ClientReceive
<1>6. ASSUME NEW c \in Client, Serve(c) PROVE WindowInv'
      BY <1>6 DEF Serve, ClientLock, ClientHandle, ClientLockVsync,
         ClientReply, ClientUnlockVsync, ClientFinish, ClientUnlock
<1>7. CASE Dead \/ UNCHANGED vars
      BY <1>7 DEF Dead, vars
<1> QED BY <1>1, <1>2, <1>3, <1>4, <1>5, <1>6, <1>7 DEF Next

(***************************************************************************)
(* The server crashes in PLAY only in the two windows named, or when the   *)
(* device refused a fence, for any number of clients.                      *)
(***************************************************************************)
THEOREM NullReplyOnlyThere == Spec => []NullReplyWindow
<1>1. WindowInv => NullReplyWindow
      BY DEF WindowInv
<1> QED BY <1>1, TypeInit, TypeNext, StartInit, StartNext, WindowInit,
           WindowNext, PTL DEF Spec

-----------------------------------------------------------------------------
(***************************************************************************)
(* No deadlock.  ov_lock comes before vsync_lock: who has vsync_lock needs *)
(* nothing more, and who has ov_lock needs vsync_lock at most.             *)
(***************************************************************************)
LEMMA HolderRuns == TypeOK /\ NoStuckLock => NoCircularWait
<1> SUFFICES ASSUME TypeOK, NoStuckLock, NEW t \in Thread, Blocked(t)
             PROVE  \E u \in Thread : (HoldsOv(u) \/ HoldsVsync(u)) /\ ~Blocked(u)
    BY DEF NoCircularWait
<1>1. ASSUME vsyncLock
      PROVE  \E u \in Thread : HoldsVsync(u) /\ ~Blocked(u)
      <2>1. PICK u \in Thread : HoldsVsync(u)
            BY <1>1 DEF NoStuckLock
      <2>2. ~Blocked(u)
            BY <2>1, ThreadFacts DEF HoldsVsync, Blocked, NeedsOv, NeedsVsync
      <2> QED BY <2>1, <2>2
<1>2. ASSUME ~vsyncLock
      PROVE  \E u \in Thread : HoldsOv(u) /\ ~Blocked(u)
      <2>1. ovLock
            BY <1>2 DEF Blocked
      <2>2. PICK u \in Thread : HoldsOv(u)
            BY <2>1 DEF NoStuckLock
      <2>3. ~Blocked(u)
            BY <1>2, <2>2, ThreadFacts DEF HoldsOv, Blocked, NeedsOv
      <2> QED BY <2>2, <2>3
<1> QED BY <1>1, <1>2

(***************************************************************************)
(* The server's threads never all wait for each other.                     *)
(***************************************************************************)
THEOREM ServerNotDeadlocked == Spec => []NoCircularWait
BY HolderRuns, ServerTypeSafe, LocksNotStuck, PTL
=============================================================================
