----------------------------- MODULE HwcServer ------------------------------
(***************************************************************************)
(* The threads of the display server (apps/display/hwcomposer/             *)
(* hwcomposer.c, libs/libhwc/hwc_vsync.c) and the state they share: the    *)
(* main thread, which starts the others and then runs timer_handler, the   *)
(* commit thread, the vsync thread, and one thread per connected client.   *)
(* The overlay registry itself is module HwcOverlay; here it is the set of *)
(* requests that no commit has looked at yet.                              *)
(*                                                                         *)
(* ov_lock and vsync_lock are default pthread mutexes.  commit_thread and  *)
(* timer_handler call pthread_cond_wait on a mutex they do not hold: the C *)
(* library then clears the lock word whoever holds it, so a lock here is   *)
(* one bit without an owner and every unlock, also the one inside          *)
(* pthread_cond_wait, clears it.                                           *)
(*                                                                         *)
(* A definition named ...Mutant is the one that follows it with a bug put  *)
(* in; no specification uses it.  It shows that some property can fail.    *)
(***************************************************************************)
EXTENDS Naturals, FiniteSets

CONSTANTS
  Client,     \* connections
  FbOpens,    \* possible outcomes (BOOLEAN) of open_framebuffer_device
  NodeOpens,  \* possible outcomes (BOOLEAN) of opening the vsync node
  SyncFails   \* whether GDMFB_BUFFER_SYNC may fail on an open device

ASSUME OutcomeAssumption == /\ FbOpens \subseteq BOOLEAN
                            /\ NodeOpens \subseteq BOOLEAN
                            /\ SyncFails \in BOOLEAN
ASSUME ClientAssumption == Client \cap {"main", "commit", "vsync"} = {}

Thread == {"main", "commit", "vsync"} \cup Client

\* Requests by what their handler does with the locks.
Request == {"SET", "UNSET", "PLAY", "DISPLAY_COMMIT", "OTHER"}

VARIABLES
  pc,          \* where every thread is
  req,         \* the request a client thread works on
  ovLock,      \* the lock words
  vsyncLock,
  isUpdate,    \* hwc_context_t.is_update
  vsyncCheck,  \* hwc_context_t.vsync_check
  fence,       \* hwc_context_t.release_fence
  fbOpen,      \* open_framebuffer_device succeeded
  todo,        \* the slots the current commit pass has still to look at
  dirty,       \* ghost: the clients whose slot changed since a commit saw it
  crashed      \* the process died

vars == <<pc, req, ovLock, vsyncLock, isUpdate, vsyncCheck, fence,
          fbOpen, todo, dirty, crashed>>
locks == <<ovLock, vsyncLock>>
flags == <<isUpdate, vsyncCheck>>
device == <<fence, fbOpen>>
work == <<todo, dirty>>

(***************************************************************************)
(* release_fence: -1, the 0 of a cleared context, or an open descriptor.   *)
(***************************************************************************)
FenceValue == {"none", "zero", "live"}

Init ==
  /\ pc = [t \in Thread |-> CASE t = "main" -> "open"
                              [] t \in {"commit", "vsync"} -> "unborn"
                              [] OTHER -> "off"]
  /\ req = [c \in Client |-> "OTHER"]
  /\ ovLock = FALSE
  /\ vsyncLock = FALSE
  /\ isUpdate = FALSE
  /\ vsyncCheck = FALSE
  /\ fence = "zero"
  /\ fbOpen = FALSE
  /\ todo = {}
  /\ dirty = {}
  /\ crashed = FALSE

Goto(t, from, to) == /\ ~crashed
                     /\ pc[t] = from
                     /\ pc' = [pc EXCEPT ![t] = to]

\* pthread_mutex_lock and pthread_mutex_unlock.
LockOv == ~ovLock /\ ovLock' = TRUE
UnlockOv == ovLock' = FALSE
LockVsync == ~vsyncLock /\ vsyncLock' = TRUE
UnlockVsync == vsyncLock' = FALSE

-----------------------------------------------------------------------------
(***************************************************************************)
(* main: the result of open_framebuffer_device is not looked at.           *)
(***************************************************************************)
MainOpen ==
  /\ Goto("main", "open", "start")
  /\ fbOpen' \in FbOpens
  /\ fence' = IF fbOpen' THEN "none" ELSE fence
  /\ UNCHANGED <<req, locks, flags, work, crashed>>

MainStart ==
  /\ ~crashed
  /\ pc["main"] = "start"
  /\ pc' = [pc EXCEPT !["main"] = "lock", !["commit"] = "init",
                      !["vsync"] = "init"]
  /\ UNCHANGED <<req, locks, flags, device, work, crashed>>

(***************************************************************************)
(* timer_handler, over and over.  With an update pending it signals the    *)
(* commit thread and waits for a vsync.                                    *)
(***************************************************************************)
TimerLock ==
  /\ Goto("main", "lock", "check")
  /\ LockOv
  /\ UNCHANGED <<req, vsyncLock, flags, device, work, crashed>>

\* pthread_cond_signal(commit_cond) is lost unless the commit thread waits.
TimerCheckMutant ==
  /\ Goto("main", "check", IF isUpdate THEN "unlockWait" ELSE "unlock")
  /\ UNCHANGED <<req, locks, flags, device, work, crashed>>
TimerCheck ==
  /\ ~crashed
  /\ pc["main"] = "check"
  /\ pc' = [pc EXCEPT
       !["main"] = IF isUpdate THEN "unlockWait" ELSE "unlock",
       !["commit"] = IF isUpdate /\ @ = "waiting" THEN "relock" ELSE @]
  /\ UNCHANGED <<req, locks, isUpdate, vsyncCheck, device, work, crashed>>

TimerUnlock ==
  /\ Goto("main", "unlock", "lock") \/ Goto("main", "unlockWait", "wait")
  /\ UnlockOv
  /\ UNCHANGED <<req, vsyncLock, flags, device, work, crashed>>

\* pthread_cond_wait(vsync_cond, vsync_lock) without holding vsync_lock.
TimerWait ==
  /\ Goto("main", "wait", "waiting")
  /\ UnlockVsync
  /\ UNCHANGED <<req, ovLock, flags, device, work, crashed>>

TimerRelock ==
  /\ Goto("main", "relock", "unlockVsync")
  /\ LockVsync
  /\ UNCHANGED <<req, ovLock, flags, device, work, crashed>>

TimerUnlockVsync ==
  /\ Goto("main", "unlockVsync", "lock")
  /\ UnlockVsync
  /\ UNCHANGED <<req, ovLock, flags, device, work, crashed>>

-----------------------------------------------------------------------------
(***************************************************************************)
(* GDMFB_BUFFER_SYNC stores a new fence in release_fence, or leaves it.    *)
(***************************************************************************)
BufferSync ==
  \/ fbOpen /\ fence' = "live"
  \/ (~fbOpen \/ SyncFails) /\ fence' = "none"

\* commit_thread up to its loop, without a lock.
CommitInit ==
  /\ Goto("commit", "init", "wait")
  /\ BufferSync
  /\ UNCHANGED <<req, locks, flags, fbOpen, work, crashed>>

\* pthread_cond_wait(commit_cond, ov_lock) without holding ov_lock.
CommitWait ==
  /\ Goto("commit", "wait", "waiting")
  /\ UnlockOv
  /\ UNCHANGED <<req, vsyncLock, flags, device, work, crashed>>

CommitRelock ==
  /\ Goto("commit", "relock", "check")
  /\ LockOv
  /\ UNCHANGED <<req, vsyncLock, flags, device, work, crashed>>

\* Nothing to do: unlock and wait again.
CommitSkip ==
  /\ Goto("commit", "check", "wait")
  /\ ~isUpdate
  /\ UnlockOv
  /\ UNCHANGED <<req, vsyncLock, flags, device, work, crashed>>

CommitBegin ==
  /\ Goto("commit", "check", "apply")
  /\ isUpdate
  /\ isUpdate' = FALSE
  /\ todo' = Client
  /\ UNCHANGED <<req, locks, vsyncCheck, device, dirty, crashed>>

\* The pass over the overlay slots, one slot at a time.
CommitSlot(c) ==
  /\ ~crashed
  /\ pc["commit"] = "apply"
  /\ c \in todo
  /\ todo' = todo \ {c}
  /\ dirty' = dirty \ {c}
  /\ UNCHANGED <<pc, req, locks, flags, device, crashed>>

CommitEndMutant ==
  /\ Goto("commit", "apply", "unlock")
  /\ todo = {}
  /\ vsyncCheck' = TRUE
  /\ isUpdate' = FALSE
  /\ UNCHANGED <<req, locks, device, work, crashed>>
CommitEnd ==
  /\ Goto("commit", "apply", "unlock")
  /\ todo = {}
  /\ vsyncCheck' = TRUE
  /\ UNCHANGED <<req, locks, isUpdate, device, work, crashed>>

\* Unlock, then flip the framebuffer (FBIOPUT_VSCREENINFO).
CommitUnlock ==
  /\ Goto("commit", "unlock", "wait")
  /\ UnlockOv
  /\ UNCHANGED <<req, vsyncLock, flags, device, work, crashed>>

-----------------------------------------------------------------------------
(***************************************************************************)
(* vsync_loop: without the vsync node it only sleeps, for ever.            *)
(***************************************************************************)
VsyncInit ==
  /\ \E ok \in NodeOpens : Goto("vsync", "init", IF ok THEN "poll" ELSE "fake")
  /\ UNCHANGED <<req, locks, flags, device, work, crashed>>

\* A vsync event: vsync_func takes vsync_lock ...
VsyncLock ==
  /\ Goto("vsync", "poll", "check")
  /\ LockVsync
  /\ UNCHANGED <<req, ovLock, flags, device, work, crashed>>

\* ... replaces the fence when a commit has happened ...
VsyncTestMutant ==
  /\ Goto("vsync", "check", "close")
  /\ UNCHANGED <<req, locks, flags, device, work, crashed>>
VsyncTest ==
  /\ Goto("vsync", "check", IF vsyncCheck THEN "close" ELSE "signal")
  /\ UNCHANGED <<req, locks, flags, device, work, crashed>>

VsyncClose ==
  /\ Goto("vsync", "close", "sync")
  /\ fence' = "none"
  /\ UNCHANGED <<req, locks, flags, fbOpen, work, crashed>>

VsyncSyncMutant ==
  /\ Goto("vsync", "sync", "clear")
  /\ UNCHANGED <<req, locks, flags, device, work, crashed>>
VsyncSync ==
  /\ Goto("vsync", "sync", "clear")
  /\ BufferSync
  /\ UNCHANGED <<req, locks, flags, fbOpen, work, crashed>>

VsyncClear ==
  /\ Goto("vsync", "clear", "signal")
  /\ vsyncCheck' = FALSE
  /\ UNCHANGED <<req, locks, isUpdate, device, work, crashed>>

\* ... and wakes the timer.
VsyncSignal ==
  /\ ~crashed
  /\ pc["vsync"] = "signal"
  /\ pc' = [pc EXCEPT
       !["vsync"] = "unlock",
       !["main"] = IF @ = "waiting" THEN "relock" ELSE @]
  /\ UNCHANGED <<req, locks, flags, device, work, crashed>>

VsyncUnlock ==
  /\ Goto("vsync", "unlock", "poll")
  /\ UnlockVsync
  /\ UNCHANGED <<req, ovLock, flags, device, work, crashed>>

\* pthread_cond_wait may return without a signal.
SpuriousWakeup ==
  /\ \E t \in {"main", "commit"} : Goto(t, "waiting", "relock")
  /\ UNCHANGED <<req, locks, flags, device, work, crashed>>

-----------------------------------------------------------------------------
(***************************************************************************)
(* server_loop accepts a connection and starts client_thread, which sends  *)
(* its greeting and polls.                                                 *)
(***************************************************************************)
ClientConnect(c) ==
  /\ pc["main"] \notin {"open", "start"}
  /\ Goto(c, "off", "poll")
  /\ UNCHANGED <<req, locks, flags, device, work, crashed>>

\* POLLERR or POLLHUP: the thread leaves; the slot stays as it is.
ClientHangup(c) ==
  /\ Goto(c, "poll", "off")
  /\ UNCHANGED <<req, locks, flags, device, work, crashed>>

ClientReceive(c) ==
  /\ Goto(c, "poll", "lock")
  /\ \E r \in Request : req' = [req EXCEPT ![c] = r]
  /\ UNCHANGED <<locks, flags, device, work, crashed>>

ClientLock(c) ==
  /\ Goto(c, "lock", "handle")
  /\ LockOv
  /\ UNCHANGED <<req, vsyncLock, flags, device, work, crashed>>

\* The part of the handler that changes the registry; PLAY and DISPLAY_COMMIT
\* go on to reply with the release fence.
ClientHandle(c) ==
  /\ Goto(c, "handle", IF req[c] \in {"PLAY", "DISPLAY_COMMIT"}
                         THEN "lockVsync" ELSE "finish")
  /\ dirty' = IF req[c] \in {"SET", "PLAY", "UNSET"} THEN dirty \cup {c}
                                                     ELSE dirty
  /\ UNCHANGED <<req, locks, flags, device, todo, crashed>>

ClientLockVsync(c) ==
  /\ Goto(c, "lockVsync", "fence")
  /\ LockVsync
  /\ UNCHANGED <<req, ovLock, flags, device, work, crashed>>

\* The reply.  release_fence == -1: PLAY's reply has no room for a descriptor
\* but the handler stores one through its null pointer.
ClientReply(c) ==
  /\ Goto(c, "fence", "unlockVsync")
  /\ crashed' = (fence = "none" /\ req[c] = "PLAY")
  /\ UNCHANGED <<req, locks, flags, device, work>>

ClientUnlockVsync(c) ==
  /\ Goto(c, "unlockVsync", "finish")
  /\ UnlockVsync
  /\ UNCHANGED <<req, ovLock, flags, device, work, crashed>>

ClientFinish(c) ==
  /\ Goto(c, "finish", "unlock")
  /\ isUpdate' = TRUE
  /\ UNCHANGED <<req, locks, vsyncCheck, device, work, crashed>>

\* Unlock; after UNSET the thread closes the connection and ends.
ClientUnlockMutant(c) ==
  /\ Goto(c, "unlock", IF req[c] = "UNSET" THEN "off" ELSE "poll")
  /\ ovLock' = (ovLock /\ req[c] = "UNSET")
  /\ req' = [req EXCEPT ![c] = "OTHER"]
  /\ UNCHANGED <<vsyncLock, flags, device, work, crashed>>
ClientUnlockRepeat(c) ==
  /\ Goto(c, "unlock", "lock")
  /\ UnlockOv
  /\ UNCHANGED <<req, vsyncLock, flags, device, work, crashed>>
ClientUnlock(c) ==
  /\ Goto(c, "unlock", IF req[c] = "UNSET" THEN "off" ELSE "poll")
  /\ UnlockOv
  /\ req' = [req EXCEPT ![c] = "OTHER"]
  /\ UNCHANGED <<vsyncLock, flags, device, work, crashed>>

\* The process is gone.
Dead == crashed /\ UNCHANGED vars

-----------------------------------------------------------------------------
Main == MainOpen \/ MainStart \/ TimerLock \/ TimerCheck \/ TimerUnlock
          \/ TimerWait \/ TimerRelock \/ TimerUnlockVsync
CommitThread == \/ CommitInit \/ CommitWait \/ CommitRelock \/ CommitSkip
                \/ CommitBegin \/ (\E c \in Client : CommitSlot(c))
                \/ CommitEnd \/ CommitUnlock
VsyncThread == VsyncInit \/ VsyncLock \/ VsyncTest \/ VsyncClose
                 \/ VsyncSync \/ VsyncClear \/ VsyncSignal \/ VsyncUnlock
\* What a client thread does by itself once it has a request.
Serve(c) == ClientLock(c) \/ ClientHandle(c) \/ ClientLockVsync(c)
              \/ ClientReply(c) \/ ClientUnlockVsync(c) \/ ClientFinish(c)
              \/ ClientUnlock(c)

Next == \/ Main \/ CommitThread \/ VsyncThread \/ SpuriousWakeup \/ Dead
        \/ \E c \in Client : ClientConnect(c) \/ ClientHangup(c)
                               \/ ClientReceive(c) \/ Serve(c)

Spec == Init /\ [][Next]_vars

(***************************************************************************)
(* Every thread keeps running and, since every critical section is short   *)
(* and ends, gets a mutex it keeps asking for; the display keeps sending   *)
(* vsync events.  Clients need not send anything.                          *)
(***************************************************************************)
Fairness == /\ SF_vars(Main)
            /\ SF_vars(CommitThread)
            /\ SF_vars(VsyncThread)
            /\ \A c \in Client : SF_vars(Serve(c))

FairSpec == Spec /\ Fairness

-----------------------------------------------------------------------------
(***************************************************************************)
(* Properties.                                                             *)
(***************************************************************************)
Label == {"open", "start", "unborn", "off", "init", "lock", "check", "unlock",
          "wait", "waiting", "relock", "unlockVsync", "apply", "poll", "fake",
          "unlockWait", "close", "sync", "clear", "signal", "handle", "lockVsync",
          "fence", "finish"}

\* The variables keep their types.
TypeOK ==
  /\ pc \in [Thread -> Label]
  /\ req \in [Client -> Request]
  /\ ovLock \in BOOLEAN /\ vsyncLock \in BOOLEAN
  /\ isUpdate \in BOOLEAN /\ vsyncCheck \in BOOLEAN
  /\ fence \in FenceValue
  /\ fbOpen \in BOOLEAN
  /\ todo \subseteq Client
  /\ dirty \subseteq Client
  /\ crashed \in BOOLEAN

\* The threads that believe they hold ov_lock, or vsync_lock.
HoldsOv(t) ==
  \/ t = "main" /\ pc[t] \in {"check", "unlock", "unlockWait"}
  \/ t = "commit" /\ pc[t] \in {"check", "apply", "unlock"}
  \/ t \in Client /\ pc[t] \in {"handle", "lockVsync", "fence", "unlockVsync",
                               "finish", "unlock"}
HoldsVsync(t) ==
  \/ t = "main" /\ pc[t] = "unlockVsync"
  \/ t = "vsync" /\ pc[t] \in {"check", "close", "sync", "clear", "signal",
                               "unlock"}
  \/ t \in Client /\ pc[t] \in {"fence", "unlockVsync"}

(***************************************************************************)
(* A locked mutex is always held by a thread inside its critical section:  *)
(* however many stray unlocks happen, no lock word is left set for ever.   *)
(***************************************************************************)
NoStuckLock == /\ ovLock => \E t \in Thread : HoldsOv(t)
               /\ vsyncLock => \E t \in Thread : HoldsVsync(t)

(***************************************************************************)
(* A change of the registry is never forgotten, with or without mutual     *)
(* exclusion: until a commit has looked at the slot, the handler has still *)
(* to set is_update, or is_update is set, or the slot is still ahead of    *)
(* the running pass (client_thread sets is_update after the change,        *)
(* commit_thread clears it before the pass).                               *)
(***************************************************************************)
NoLostRequest ==
  \A c \in dirty :
    \/ isUpdate
    \/ c \in todo
    \/ pc[c] \in {"lockVsync", "fence", "unlockVsync", "finish"}

(***************************************************************************)
(* The fence is replaced only by the vsync thread and only after the       *)
(* commit thread has made the first one, so no fence descriptor is leaked  *)
(* by CommitInit and the context's initial 0 is never closed or kept.      *)
(***************************************************************************)
FenceOwner == /\ pc["commit"] = "init" => fence \in {"none", "zero"}
              /\ fence = "zero" => pc["commit"] \in {"unborn", "init"}

(***************************************************************************)
(* PLAY's reply brings the process down only where there is no fence to    *)
(* send: a client is served before the commit thread has made the first    *)
(* one; or, with a mutex unlocked by a thread that does not hold it, while *)
(* the vsync thread is between closing a fence and making the next; or     *)
(* GDMFB_BUFFER_SYNC failed.                                               *)
(***************************************************************************)
NullReplyWindow ==
  crashed => \/ pc["commit"] = "init"
             \/ /\ pc["vsync"] = "sync"
                /\ \E c \in Client : HoldsVsync(c)
             \/ SyncFails
             \/ ~fbOpen

(***************************************************************************)
(* Nobody waits for everybody: as long as the process lives, whenever a    *)
(* thread finds a mutex taken, a thread inside a critical section can go   *)
(* on.                                                                     *)
(***************************************************************************)
NeedsOv(t) == pc[t] = "lock" \/ (t = "commit" /\ pc[t] = "relock")
NeedsVsync(t) == \/ t = "main" /\ pc[t] = "relock"
                 \/ t = "vsync" /\ pc[t] = "poll"
                 \/ t \in Client /\ pc[t] = "lockVsync"
Blocked(t) == (NeedsOv(t) /\ ovLock) \/ (NeedsVsync(t) /\ vsyncLock)
NoCircularWait ==
  (\E t \in Thread : Blocked(t))
    => \E t \in Thread : (HoldsOv(t) \/ HoldsVsync(t)) /\ ~Blocked(t)

\* The vsync node could not be opened: vsync_loop only sleeps and never calls
\* vsync_func, for which timer_handler waits after its first signal.
NoVsync == pc["vsync"] = "fake"

\* Every request that changed the registry is taken up by a commit, whatever
\* the framebuffer and its fences do, as long as there is a vsync.
RequestCommitted ==
  \A c \in Client : (c \in dirty) ~> (c \notin dirty \/ crashed \/ NoVsync)

\* A client thread that has received a request comes back to its poll or ends,
\* also while the timer waits for a vsync that never comes.
RequestHandled ==
  \A c \in Client : (pc[c] = "lock") ~> (pc[c] \in {"poll", "off"} \/ crashed)

(***************************************************************************)
(* What comments of the code say.                                          *)
(***************************************************************************)
\* hwcomposer.c: the commented-out pthread_mutex_lock at "prepare" and the
\* unlock before "commit": the pass over the slots runs under ov_lock.
PrepareExclusive ==
  pc["commit"] = "apply" => \A t \in Thread : HoldsOv(t) => t = "commit"

\* hwcomposer.c, DISPLAY_COMMIT: without a fence the reply's descriptor is
\* not written (the line is commented out); PLAY does the same.
NoNullReply == ~crashed
=============================================================================
