----------------------------- MODULE HwcOverlay -----------------------------
(***************************************************************************)
(* The overlay registry of the display server (apps/display/hwcomposer/    *)
(* hwcomposer.c): which application owns which overlay slot, the two frame *)
(* buffers (front, back) of every slot, the file descriptors received over *)
(* the message socket that those buffers hold, and the overlay ids the     *)
(* display driver has handed out.                                          *)
(*                                                                         *)
(* Every action is a whole handler of client_thread, or one pass of        *)
(* commit_thread, taken as one step, as the code intends by running them   *)
(* under ov_lock.  HwcServer examines that intent thread by thread.        *)
(*                                                                         *)
(* Slots have the index they have in memory: vid_cfg[0..NV-1], then        *)
(* gfx_cfg[0..NG-1], then fb_cfg (struct hwc_context_t).                   *)
(*                                                                         *)
(* A definition named ...Mutant is the one that follows it with a bug put  *)
(* in; no specification uses it.  It shows that some property can fail.    *)
(***************************************************************************)
EXTENDS Integers, FiniteSets

CONSTANTS
  NV,       \* MAX_VID_OVERLAY
  NG,       \* MAX_GFX_OVERLAY
  App,      \* the APP_ID_... values the clients use
  NoApp,    \* application_id = 0, an empty slot
  Fd,       \* bound: the descriptors the server process can have open
  MaxPlane, \* bound: planes of one frame (the code allows 3)
  MaxOv,    \* overlays the display driver can allocate
  MayFail   \* whether the driver may refuse a SET or PLAY ioctl

ASSUME SlotAssumption == NV \in Nat /\ NG \in Nat
ASSUME AppAssumption == NoApp \notin App
ASSUME OvAssumption == MaxOv \in Nat \ {0}
ASSUME FailAssumption == /\ MayFail \in BOOLEAN
                         /\ ~MayFail => MaxOv >= NV + NG

FbSlot == NV + NG
Slot == 0 .. FbSlot
GfxSlot == NV .. (FbSlot - 1)
VidSlot == 0 .. (NV - 1)

\* GDMFB_NEW_REQUEST: the id of an overlay the driver has not allocated yet.
NewRequest == -1
OvId == 0 .. (MaxOv - 1)

PipeType == {"VIDEO", "GFX", "FB"}
PipeSlot(p) == CASE p = "VIDEO" -> VidSlot
                 [] p = "GFX" -> GfxSlot
                 [] p = "FB" -> {FbSlot}

(***************************************************************************)
(* struct gdm_dss_overlay_data: the descriptors of its planes and of the   *)
(* rotation destination.  A memory_id of -1 or 0 is no descriptor.         *)
(***************************************************************************)
Frame == [planes : SUBSET Fd, dst : SUBSET Fd]
NoFrame == [planes |-> {}, dst |-> {}]
FdsOf(f) == f.planes \cup f.dst

VARIABLES
  app,       \* application_id of every slot
  upd,       \* its is_update: a configuration waits for the next commit
  newd,      \* its is_new_data: the back buffer waits for the next commit
  cfgId,     \* its ov_cfg.id
  ovId,      \* its ov_id
  bad,       \* its status is not 0: an ioctl for it failed
  front,     \* its ov_data_front
  back,      \* its ov_data_back
  isUpdate,  \* hwc_context_t.is_update: some request waits for a commit
  hw,        \* the overlay ids allocated by the driver
  open,      \* the received descriptors that are open in the server
  lost,      \* ghost: the open descriptors that no slot records any more
  pending    \* ghost: the latest frame of every slot that no commit has taken

slotVars == <<app, upd, newd, cfgId, ovId, bad, front, back>>
vars == <<app, upd, newd, cfgId, ovId, bad, front, back, isUpdate, hw, open,
          lost, pending>>

Held(s) == FdsOf(front[s]) \cup FdsOf(back[s])

-----------------------------------------------------------------------------
(***************************************************************************)
(* find_registered_overlay and find_empty_overlay: the first slot in       *)
(* memory order.                                                           *)
(***************************************************************************)
IsRegistered(s, a) == /\ app[s] = a
                      /\ \A t \in Slot : t < s => app[t] # a

RegisteredVidOnlyMutant(a) == \E s \in VidSlot : app[s] = a
Registered(a) == \E s \in Slot : app[s] = a

IsEmptyFor(s, p) == /\ s \in PipeSlot(p)
                    /\ app[s] = NoApp
                    /\ \A t \in PipeSlot(p) : t < s => app[t] # NoApp

\* open_framebuffer_device, after the context was cleared by main.
Init ==
  /\ app = [s \in Slot |-> NoApp]
  /\ upd = [s \in Slot |-> FALSE]
  /\ newd = [s \in Slot |-> FALSE]
  /\ cfgId = [s \in Slot |-> 0]
  /\ ovId = [s \in Slot |-> 0]
  /\ bad = [s \in Slot |-> FALSE]
  /\ front = [s \in Slot |-> NoFrame]
  /\ back = [s \in Slot |-> NoFrame]
  /\ isUpdate = FALSE
  /\ hw = {}
  /\ open = {}
  /\ lost = {}
  /\ pending = [s \in Slot |-> NoFrame]

-----------------------------------------------------------------------------
(***************************************************************************)
(* GDMFB_OVERLAY_SET: register_overlay_cfg.  A known application changes   *)
(* the configuration of its slot, whatever the pipe type; a new one gets   *)
(* the first empty slot of the pipe type, or is refused.                   *)
(***************************************************************************)
Reconfigure(a) ==
  \E s \in Slot :
    /\ IsRegistered(s, a)
    /\ cfgId' = [cfgId EXCEPT ![s] = ovId[s]]
    /\ upd' = [upd EXCEPT ![s] = TRUE]
    /\ isUpdate' = TRUE
    /\ UNCHANGED <<app, newd, ovId, bad, front, back, hw, open, lost, pending>>

Register(a, p) ==
  /\ ~Registered(a)
  /\ \E s \in Slot :
       /\ IsEmptyFor(s, p)
       /\ app' = [app EXCEPT ![s] = a]
       /\ cfgId' = [cfgId EXCEPT ![s] = NewRequest]
       /\ ovId' = [ovId EXCEPT ![s] = NewRequest]
       /\ upd' = [upd EXCEPT ![s] = TRUE]
  /\ isUpdate' = TRUE
  /\ UNCHANGED <<newd, bad, front, back, hw, open, lost, pending>>

RegisterRefused(a, p) ==
  /\ ~Registered(a)
  /\ \A s \in PipeSlot(p) : app[s] # NoApp
  /\ isUpdate' = TRUE
  /\ UNCHANGED <<slotVars, hw, open, lost, pending>>

(***************************************************************************)
(* GDMFB_OVERLAY_PLAY: register_overlay_data.  The kernel installs the     *)
(* descriptors of the message before the handler runs, so they are fresh.  *)
(* The handler closes what the back buffer still holds and stores the new  *)
(* frame there.  Without a registered slot it returns and the descriptors  *)
(* stay open with nobody to close them.                                    *)
(***************************************************************************)
Received(f) == /\ f.planes \cap f.dst = {}
               /\ f.planes # {}
               /\ Cardinality(f.planes) <= MaxPlane
               /\ Cardinality(f.dst) <= 1
               /\ FdsOf(f) \cap open = {}

\* What PLAY closes: planes and destination of the back buffer.
ClosedByPlayMutant(s) == back[s].planes
ClosedByPlay(s) == FdsOf(back[s])

Play(a, f) ==
  /\ Received(f)
  /\ \E s \in Slot :
       /\ IsRegistered(s, a)
       /\ open' = (open \ ClosedByPlay(s)) \cup FdsOf(f)
       /\ back' = [back EXCEPT ![s] = f]
       /\ newd' = [newd EXCEPT ![s] = TRUE]
       /\ pending' = [pending EXCEPT ![s] = f]
  /\ isUpdate' = TRUE
  /\ UNCHANGED <<app, upd, cfgId, ovId, bad, front, hw, lost>>

PlayUnregistered(a, f) ==
  /\ Received(f)
  /\ ~Registered(a)
  /\ open' = open \cup FdsOf(f)
  /\ lost' = lost \cup FdsOf(f)
  /\ isUpdate' = TRUE
  /\ UNCHANGED <<slotVars, hw, pending>>

(***************************************************************************)
(* GDMFB_OVERLAY_UNSET: unregister_overlay_cfg releases the driver's       *)
(* overlay and clears the slot with memset, descriptors included.          *)
(***************************************************************************)
Unset(a) ==
  /\ \E s \in Slot :
       /\ IsRegistered(s, a)
       /\ hw' = hw \ {ovId[s]}
       /\ app' = [app EXCEPT ![s] = NoApp]
       /\ upd' = [upd EXCEPT ![s] = FALSE]
       /\ newd' = [newd EXCEPT ![s] = FALSE]
       /\ cfgId' = [cfgId EXCEPT ![s] = 0]
       /\ ovId' = [ovId EXCEPT ![s] = 0]
       /\ bad' = [bad EXCEPT ![s] = FALSE]
       /\ front' = [front EXCEPT ![s] = NoFrame]
       /\ back' = [back EXCEPT ![s] = NoFrame]
       /\ lost' = lost \cup Held(s)
       /\ pending' = [pending EXCEPT ![s] = NoFrame]
  /\ isUpdate' = TRUE
  /\ UNCHANGED open

\* Every other request (NR_PEAKING, PP1, PP2, OVERLAY_GET, DISPLAY_COMMIT, an
\* UNSET of an application without a slot) only asks for a commit.
OtherRequest ==
  /\ isUpdate' = TRUE
  /\ UNCHANGED <<slotVars, hw, open, lost, pending>>

-----------------------------------------------------------------------------
(***************************************************************************)
(* One pass of commit_thread over the video and graphics slots; fb_cfg is  *)
(* never committed.  The driver's answers during the pass are a record d:  *)
(* the slots whose SET and whose PLAY ioctl it refuses, and the ids of the *)
(* overlays it creates.                                                    *)
(***************************************************************************)
Active(s) == s # FbSlot /\ app[s] # NoApp

\* gdss_io_set_overlay is called ...
SetTried(s) == Active(s) /\ upd[s] /\ ~bad[s]
\* ... and fails: the driver refuses it, or does not know the id.
SetFails(s, setFail) ==
  SetTried(s) /\ (s \in setFail \/ cfgId[s] \notin hw \cup {NewRequest})
Allocates(s, setFail) ==
  SetTried(s) /\ ~SetFails(s, setFail) /\ cfgId[s] = NewRequest
Allocating(setFail) == {s \in Slot : Allocates(s, setFail)}

\* status, application_id, ov_cfg.id and ov_id after the SET stage of a slot.
BadAfterSet(s, d) == bad[s] \/ SetFails(s, d.setFail)
AppAfterSet(s, d) == IF SetFails(s, d.setFail) THEN NoApp ELSE app[s]
CfgIdAfterSet(s, d) ==
  IF Allocates(s, d.setFail) THEN d.alloc[s] ELSE cfgId[s]
OvIdAfterSet(s, d) ==
  IF Active(s) /\ upd[s] THEN CfgIdAfterSet(s, d) ELSE ovId[s]
HwAfterSet(d) == hw \cup {d.alloc[s] : s \in Allocating(d.setFail)}

\* The back buffer is taken; gdss_io_overlay_queue is called only while the
\* slot's status is 0, and fails when the driver refuses or lacks the overlay.
Taken(s) == Active(s) /\ newd[s] /\ back[s].planes # {}
Queued(s, d) == Taken(s) /\ ~BadAfterSet(s, d)
NewDataAfterMutant(s, d) == newd[s] /\ ~Queued(s, d)
NewDataAfter(s, d) == newd[s] /\ ~Taken(s)
QueueFails(s, d) ==
  s \in d.queueFail \/ OvIdAfterSet(s, d) \notin HwAfterSet(d)

(***************************************************************************)
(* Where the result of overlay_queue is stored: a video slot stores its    *)
(* own; graphics slot i stores it in vid_cfg[i].status, the slot NV below, *)
(* which the pass has already dealt with.                                  *)
(***************************************************************************)
BadAfterCommit(s, d) ==
  IF s + NV \in GfxSlot /\ Queued(s + NV, d)
    THEN QueueFails(s + NV, d)
    ELSE \/ BadAfterSet(s, d)
         \/ s \in VidSlot /\ Queued(s, d) /\ QueueFails(s, d)

\* "previous buffer close": the planes of the front buffer, not its dst.
FrontClosed(s) == IF Taken(s) THEN [front[s] EXCEPT !.planes = {}]
                              ELSE front[s]
ClosedPlanes == UNION {front[s].planes : s \in {t \in Slot : Taken(t)}}

\* The buffers of every slot that is still registered change places.
Swapped(s, d) == Active(s) /\ AppAfterSet(s, d) # NoApp
FrontAfter(s, d) == IF Swapped(s, d) THEN back[s] ELSE FrontClosed(s)
BackAfterMutant(s, d) == back[s]
BackAfter(s, d) == IF Swapped(s, d) THEN FrontClosed(s) ELSE back[s]

CommitWith(d) ==
  /\ isUpdate
  /\ isUpdate' = FALSE
  /\ app' = [s \in Slot |-> AppAfterSet(s, d)]
  /\ cfgId' = [s \in Slot |-> CfgIdAfterSet(s, d)]
  /\ ovId' = [s \in Slot |-> OvIdAfterSet(s, d)]
  /\ bad' = [s \in Slot |-> BadAfterCommit(s, d)]
  /\ upd' = [s \in Slot |-> upd[s] /\ ~Active(s)]
  /\ newd' = [s \in Slot |-> NewDataAfter(s, d)]
  /\ front' = [s \in Slot |-> FrontAfter(s, d)]
  /\ back' = [s \in Slot |-> BackAfter(s, d)]
  /\ open' = open \ ClosedPlanes
  /\ hw' = HwAfterSet(d)
  /\ pending' = [s \in Slot |-> IF Taken(s) THEN NoFrame ELSE pending[s]]
  /\ UNCHANGED lost

Refusals(S) == IF MayFail THEN SUBSET S ELSE {{}}

\* The driver gives every new overlay an id of its own that is not in use.
Injective(f) == \A x, y \in DOMAIN f : f[x] = f[y] => x = y

\* The driver's answers when it refuses the configurations setFail.
Answer(setFail) ==
  [setFail : {setFail},
   queueFail : Refusals({s \in Slot : Taken(s)}),
   alloc : {f \in [Allocating(setFail) -> OvId \ hw] : Injective(f)}]

Commit ==
  \E setFail \in Refusals({s \in Slot : SetTried(s)}) :
    \E d \in Answer(setFail) : CommitWith(d)

\* client_thread: one request of a client.
Request ==
  \/ \E a \in App :
       \/ Reconfigure(a)
       \/ \E p \in PipeType : Register(a, p) \/ RegisterRefused(a, p)
       \/ \E f \in Frame : Play(a, f) \/ PlayUnregistered(a, f)
       \/ Unset(a)
  \/ OtherRequest

Next == Request \/ Commit

Spec == Init /\ [][Next]_vars

-----------------------------------------------------------------------------
(***************************************************************************)
(* Properties.                                                             *)
(***************************************************************************)

\* The variables keep their types.
TypeOK ==
  /\ app \in [Slot -> App \cup {NoApp}]
  /\ upd \in [Slot -> BOOLEAN]
  /\ newd \in [Slot -> BOOLEAN]
  /\ cfgId \in [Slot -> OvId \cup {NewRequest}]
  /\ ovId \in [Slot -> OvId \cup {NewRequest}]
  /\ bad \in [Slot -> BOOLEAN]
  /\ front \in [Slot -> Frame]
  /\ back \in [Slot -> Frame]
  /\ isUpdate \in BOOLEAN
  /\ hw \subseteq OvId
  /\ open \subseteq Fd
  /\ lost \subseteq Fd
  /\ pending \in [Slot -> Frame]

(***************************************************************************)
(* Every descriptor a slot records is recorded in one place only: in one   *)
(* slot, in one of its two buffers, as a plane or as the destination.  So  *)
(* no sequence of SET, PLAY, UNSET and commits makes register_overlay_data *)
(* or commit_thread close a descriptor twice, or close one that another    *)
(* slot still uses.                                                        *)
(***************************************************************************)
NoSharedFd ==
  \A s \in Slot :
    /\ front[s].planes \cap front[s].dst = {}
    /\ back[s].planes \cap back[s].dst = {}
    /\ FdsOf(front[s]) \cap FdsOf(back[s]) = {}
    /\ \A t \in Slot : t # s => Held(s) \cap Held(t) = {}

(***************************************************************************)
(* Descriptors are conserved: the open ones are those a slot records and   *)
(* those dropped by an UNSET or by a PLAY without a slot, and these are    *)
(* apart.  SET, PLAY and commit never leak a descriptor and never leave a  *)
(* slot with a closed one, through any number of buffer swaps.             *)
(***************************************************************************)
FdConservation ==
  /\ open = lost \cup (UNION {Held(s) : s \in Slot})
  /\ \A s \in Slot : Held(s) \cap lost = {}

(***************************************************************************)
(* An application has at most one slot, so find_registered_overlay cannot  *)
(* hide one behind another, and two registered slots never share a driver  *)
(* overlay, which the driver has allocated: an UNSET of one application    *)
(* cannot take away the overlay of another.                                *)
(***************************************************************************)
OverlayExclusive ==
  \A s \in Slot : app[s] # NoApp =>
    /\ ovId[s] \in hw \cup {NewRequest}
    /\ \A t \in Slot : s # t /\ app[t] # NoApp =>
         /\ app[t] # app[s]
         /\ ovId[t] = ovId[s] => ovId[s] = NewRequest

(***************************************************************************)
(* The back buffer that a commit will take holds the frame of the latest   *)
(* PLAY of its slot, which no commit has taken before: neither the swaps   *)
(* nor a skipped ioctl make a commit show a frame twice or an older one.   *)
(***************************************************************************)
FreshFrame ==
  \A s \in Slot : newd[s] => back[s] = pending[s] /\ back[s].planes # {}

(***************************************************************************)
(* As long as the driver refuses nothing, it has allocated the overlays of *)
(* the registered slots and no others: no overlay is lost, whether a slot  *)
(* is given up before or after its first commit.                           *)
(***************************************************************************)
OverlaysConserved ==
  ~MayFail => hw = {ovId[s] : s \in {t \in Slot : app[t] # NoApp}} \ {NewRequest}
=============================================================================
