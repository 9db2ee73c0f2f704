-------------------------- MODULE HwcOverlayProofs --------------------------
(***************************************************************************)
(* Proofs about HwcOverlay, for every number of slots, applications,       *)
(* descriptors and driver overlays, and for every pattern of driver        *)
(* failures: descriptors, overlays and frames, and with the history        *)
(* variable of HwcOverlayShown, what is on display.                        *)
(***************************************************************************)
EXTENDS HwcOverlayShown, TLAPS

USE SlotAssumption, AppAssumption, OvAssumption DEF NewRequest

(***************************************************************************)
(* The arithmetic of slot indices and ids, so that the steps below can     *)
(* leave Slot and OvId unexpanded.                                         *)
(***************************************************************************)
LEMMA SlotFacts ==
  /\ Slot \subseteq Int
  /\ FbSlot \in Slot
  /\ 0 \in OvId
  /\ NewRequest \notin OvId
  /\ \A p \in PipeType : PipeSlot(p) \subseteq Slot
BY DEF Slot, FbSlot, OvId, PipeType, PipeSlot, VidSlot, GfxSlot

\* An empty frame is a frame, and holds nothing.
LEMMA NoFrameFacts == NoFrame \in Frame /\ FdsOf(NoFrame) = {}
                        /\ NoFrame.planes = {} /\ NoFrame.dst = {}
BY DEF NoFrame, Frame, FdsOf

\* A frame whose planes were closed is a frame that keeps its destination.
LEMMA FrontClosedFacts ==
  ASSUME TypeOK, NEW s \in Slot
  PROVE  /\ FrontClosed(s) \in Frame
         /\ FrontClosed(s).dst = front[s].dst
         /\ FrontClosed(s).planes = IF Taken(s) THEN {} ELSE front[s].planes
BY DEF FrontClosed, TypeOK, Frame

-----------------------------------------------------------------------------
(***************************************************************************)
(* The type invariant.                                                     *)
(***************************************************************************)
LEMMA TypeInit == Init => TypeOK
<1> SUFFICES ASSUME Init PROVE TypeOK
    OBVIOUS
<1>1. cfgId \in [Slot -> OvId \cup {NewRequest}]
      /\ ovId \in [Slot -> OvId \cup {NewRequest}]
      BY SlotFacts DEF Init
<1>2. front \in [Slot -> Frame] /\ back \in [Slot -> Frame]
      /\ pending \in [Slot -> Frame]
      BY NoFrameFacts DEF Init
<1> QED BY <1>1, <1>2 DEF Init, TypeOK

LEMMA TypeCommit == TypeOK /\ Commit => TypeOK'
<1> SUFFICES ASSUME TypeOK, Commit PROVE TypeOK'
    OBVIOUS
<1>1. PICK setFail : \E d \in Answer(setFail) : CommitWith(d)
      BY DEF Commit
<1>2. PICK d \in Answer(setFail) : CommitWith(d)
      BY <1>1
<1>3. /\ CommitWith(d) /\ d.setFail = setFail
      /\ d.alloc \in [Allocating(setFail) -> OvId \ hw]
      BY <1>2 DEF Answer
<1>4. \A s \in Slot : CfgIdAfterSet(s, d) \in OvId \cup {NewRequest}
      BY <1>3 DEF CfgIdAfterSet, Allocating, TypeOK
<1>5. \A s \in Slot : OvIdAfterSet(s, d) \in OvId \cup {NewRequest}
      BY <1>4 DEF OvIdAfterSet, TypeOK
<1>6. HwAfterSet(d) \subseteq OvId
      BY <1>3 DEF HwAfterSet, TypeOK
<1>7. \A s \in Slot : AppAfterSet(s, d) \in App \cup {NoApp}
      BY DEF AppAfterSet, TypeOK
<1>8. \A s \in Slot : BadAfterCommit(s, d) \in BOOLEAN
      BY DEF BadAfterCommit, QueueFails, BadAfterSet, Queued
<1>9. \A s \in Slot : FrontClosed(s) \in Frame /\ back[s] \in Frame
      BY FrontClosedFacts DEF TypeOK
<1>10. \A s \in Slot : (upd[s] /\ ~Active(s)) \in BOOLEAN
                       /\ NewDataAfter(s, d) \in BOOLEAN
      BY DEF Active, Taken, NewDataAfter
<1>11. open \ ClosedPlanes \subseteq Fd
      BY DEF TypeOK
<1> QED
    BY <1>3, <1>4, <1>5, <1>6, <1>7, <1>8, <1>9, <1>10, <1>11, NoFrameFacts
    DEF CommitWith, FrontAfter, BackAfter, TypeOK

LEMMA TypeNext == TypeOK /\ [Next]_vars => TypeOK'
<1> SUFFICES ASSUME TypeOK, [Next]_vars PROVE TypeOK'
    OBVIOUS
<1>1. ASSUME NEW a \in App, Reconfigure(a) PROVE TypeOK'
      BY <1>1 DEF Reconfigure, TypeOK
<1>2. ASSUME NEW a \in App, NEW p \in PipeType, Register(a, p) PROVE TypeOK'
      BY <1>2 DEF Register, TypeOK
<1>3. ASSUME NEW a \in App, NEW p \in PipeType, RegisterRefused(a, p)
      PROVE TypeOK'
      BY <1>3 DEF RegisterRefused, slotVars, TypeOK
<1>4. ASSUME NEW a \in App, NEW f \in Frame, Play(a, f) PROVE TypeOK'
      <2>1. FdsOf(f) \subseteq Fd
            BY DEF FdsOf, Frame
      <2> QED BY <1>4, <2>1 DEF Play, TypeOK
<1>5. ASSUME NEW a \in App, NEW f \in Frame, PlayUnregistered(a, f)
      PROVE TypeOK'
      <2>1. FdsOf(f) \subseteq Fd
            BY DEF FdsOf, Frame
      <2> QED BY <1>5, <2>1 DEF PlayUnregistered, slotVars, TypeOK
<1>6. ASSUME NEW a \in App, Unset(a) PROVE TypeOK'
      <2>1. \A s \in Slot : Held(s) \subseteq Fd
            BY DEF Held, FdsOf, Frame, TypeOK
      <2> QED BY <1>6, <2>1, SlotFacts, NoFrameFacts DEF Unset, TypeOK
<1>7. CASE OtherRequest
      BY <1>7 DEF OtherRequest, slotVars, TypeOK
<1>8. CASE Commit
      BY <1>8, TypeCommit
<1>9. CASE UNCHANGED vars
      BY <1>9 DEF vars, TypeOK
<1> QED BY <1>1, <1>2, <1>3, <1>4, <1>5, <1>6, <1>7, <1>8, <1>9
    DEF Next, Request

(***************************************************************************)
(* The variables of the overlay registry always have their types.          *)
(***************************************************************************)
THEOREM TypeSafe == Spec => []TypeOK
BY TypeInit, TypeNext, PTL DEF Spec

-----------------------------------------------------------------------------
(***************************************************************************)
(* The descriptors.  NoSharedFd and FdConservation are inductive together: *)
(* a handler closes exactly what one buffer holds, which is neither held   *)
(* elsewhere (NoSharedFd) nor already closed (FdConservation).             *)
(***************************************************************************)
FdInv == TypeOK /\ NoSharedFd /\ FdConservation

LEMMA FdInit == Init => FdInv
<1> SUFFICES ASSUME Init PROVE FdInv
    OBVIOUS
<1>1. \A s \in Slot : front[s] = NoFrame /\ back[s] = NoFrame
      BY DEF Init
<1>2. \A s \in Slot : Held(s) = {}
      BY <1>1, NoFrameFacts DEF Held
<1>3. NoSharedFd
      BY <1>1, <1>2, NoFrameFacts DEF NoSharedFd
<1>4. FdConservation
      BY <1>2 DEF FdConservation, Init
<1> QED BY <1>3, <1>4, TypeInit DEF FdInv

\* Steps that touch neither the buffers nor the descriptors.
LEMMA FdUnchanged ==
  ASSUME FdInv, TypeOK', UNCHANGED <<front, back, open, lost>>
  PROVE  FdInv'
BY DEF FdInv, NoSharedFd, FdConservation, Held, FdsOf

LEMMA FdPlay ==
  ASSUME FdInv, TypeOK', NEW a \in App, NEW f \in Frame, Play(a, f)
  PROVE  FdInv'
<1>1. PICK s \in Slot :
        /\ open' = (open \ FdsOf(back[s])) \cup FdsOf(f)
        /\ back' = [back EXCEPT ![s] = f]
        /\ UNCHANGED <<front, lost>>
      BY DEF Play, ClosedByPlay
<1>2. /\ front' = front
      /\ back'[s] = f
      /\ \A t \in Slot : t # s => back'[t] = back[t]
      BY <1>1 DEF FdInv, TypeOK
<1>3. /\ Held(s)' = FdsOf(front[s]) \cup FdsOf(f)
      /\ \A t \in Slot : t # s => Held(t)' = Held(t)
      BY <1>2 DEF Held
<1>4. /\ FdsOf(f) \cap open = {}
      /\ f.planes \cap f.dst = {}
      BY DEF Play, Received
<1>5. /\ \A t \in Slot : Held(t) \subseteq open /\ Held(t) \cap lost = {}
      /\ lost \subseteq open
      /\ \A x \in open : x \in lost \/ \E t \in Slot : x \in Held(t)
      BY DEF FdInv, FdConservation
<1>6. /\ Held(s) = FdsOf(front[s]) \cup FdsOf(back[s])
      /\ FdsOf(front[s]) \cap FdsOf(back[s]) = {}
      /\ \A t, u \in Slot : t # u => Held(t) \cap Held(u) = {}
      BY DEF FdInv, NoSharedFd, Held
<1>7. NoSharedFd'
      <2> SUFFICES ASSUME NEW t \in Slot
                   PROVE  /\ front'[t].planes \cap front'[t].dst = {}
                          /\ back'[t].planes \cap back'[t].dst = {}
                          /\ FdsOf(front'[t]) \cap FdsOf(back'[t]) = {}
                          /\ \A u \in Slot :
                               u # t => Held(t)' \cap Held(u)' = {}
          BY DEF NoSharedFd
      <2>1. front'[t].planes \cap front'[t].dst = {}
            BY <1>2 DEF FdInv, NoSharedFd
      <2>2. back'[t].planes \cap back'[t].dst = {}
            BY <1>2, <1>4 DEF FdInv, NoSharedFd
      <2>3. FdsOf(front'[t]) \cap FdsOf(back'[t]) = {}
            <3>1. CASE t = s
                  BY <3>1, <1>2, <1>4, <1>5, <1>6
            <3>2. CASE t # s
                  BY <3>2, <1>2 DEF FdInv, NoSharedFd
            <3> QED BY <3>1, <3>2
      <2>4. \A u \in Slot : u # t => Held(t)' \cap Held(u)' = {}
            BY <1>3, <1>4, <1>5, <1>6
      <2> QED BY <2>1, <2>2, <2>3, <2>4
<1>8. FdConservation'
      <2>1. \A t \in Slot : Held(t)' \cap lost' = {}
            BY <1>1, <1>3, <1>4, <1>5, <1>6
      <2>2. \A x : x \in open' <=> x \in lost \/ \E t \in Slot : x \in Held(t)'
            <3>1. ASSUME NEW x \in open'
                  PROVE  x \in lost \/ \E t \in Slot : x \in Held(t)'
                  BY <3>1, <1>1, <1>3, <1>5, <1>6
            <3>2. ASSUME NEW x \in lost PROVE x \in open'
                  BY <3>2, <1>1, <1>5, <1>6
            <3>3. ASSUME NEW t \in Slot, NEW x \in Held(t)' PROVE x \in open'
                  BY <3>3, <1>1, <1>3, <1>5, <1>6
            <3> QED BY <3>1, <3>2, <3>3
      <2> QED BY <2>1, <2>2, <1>1 DEF FdConservation
<1> QED BY <1>7, <1>8 DEF FdInv

LEMMA FdPlayUnregistered ==
  ASSUME FdInv, TypeOK', NEW a \in App, NEW f \in Frame,
         PlayUnregistered(a, f)
  PROVE  FdInv'
<1>1. /\ UNCHANGED <<front, back>>
      /\ open' = open \cup FdsOf(f)
      /\ lost' = lost \cup FdsOf(f)
      /\ FdsOf(f) \cap open = {}
      BY DEF PlayUnregistered, slotVars, Received
<1>2. \A s \in Slot : Held(s)' = Held(s) /\ Held(s) \subseteq open
      BY <1>1 DEF Held, FdInv, FdConservation
<1>3. NoSharedFd'
      BY <1>1, <1>2 DEF FdInv, NoSharedFd
<1>4. FdConservation'
      BY <1>1, <1>2 DEF FdInv, FdConservation
<1> QED BY <1>3, <1>4 DEF FdInv

LEMMA FdUnset ==
  ASSUME FdInv, TypeOK', NEW a \in App, Unset(a)
  PROVE  FdInv'
<1>1. PICK s \in Slot :
        /\ front' = [front EXCEPT ![s] = NoFrame]
        /\ back' = [back EXCEPT ![s] = NoFrame]
        /\ lost' = lost \cup Held(s)
        /\ open' = open
      BY DEF Unset
<1>2. /\ front'[s] = NoFrame /\ back'[s] = NoFrame
      /\ \A t \in Slot : t # s => front'[t] = front[t] /\ back'[t] = back[t]
      BY <1>1 DEF FdInv, TypeOK
<1>3. /\ Held(s)' = {}
      /\ \A t \in Slot : t # s => Held(t)' = Held(t)
      BY <1>2, NoFrameFacts DEF Held
<1>4. NoSharedFd'
      BY <1>2, <1>3, NoFrameFacts DEF FdInv, NoSharedFd
<1>5. FdConservation'
      <2>1. \A t, u \in Slot : t # u => Held(t) \cap Held(u) = {}
            BY DEF FdInv, NoSharedFd
      <2>2. \A t \in Slot : Held(t)' \cap lost' = {}
            BY <1>1, <1>3, <2>1 DEF FdInv, FdConservation
      <2>3. \A x : x \in open' <=> x \in lost' \/ \E t \in Slot : x \in Held(t)'
            BY <1>1, <1>3 DEF FdInv, FdConservation
      <2> QED BY <2>2, <2>3 DEF FdConservation
<1> QED BY <1>4, <1>5 DEF FdInv

\* What a commit leaves in a slot: both buffers, in either order, without the
\* planes it closed.
Dropped(s) == IF Taken(s) THEN front[s].planes ELSE {}

LEMMA FdCommit ==
  ASSUME FdInv, TypeOK', Commit
  PROVE  FdInv'
<1>1. PICK d :
        /\ \A s \in Slot : Swapped(s, d) \in BOOLEAN
        /\ front' = [s \in Slot |->
                       IF Swapped(s, d) THEN back[s] ELSE FrontClosed(s)]
        /\ back' = [s \in Slot |->
                      IF Swapped(s, d) THEN FrontClosed(s) ELSE back[s]]
        /\ open' = open \ ClosedPlanes
        /\ lost' = lost
      BY DEF Commit, CommitWith, Swapped, FrontAfter, BackAfter
<1>2. \A s \in Slot :
        /\ FdsOf(FrontClosed(s)) = FdsOf(front[s]) \ Dropped(s)
        /\ FrontClosed(s).planes \cap FrontClosed(s).dst = {}
      BY FrontClosedFacts DEF FdInv, NoSharedFd, FdsOf, Dropped
<1>3. \A s \in Slot : Dropped(s) \subseteq FdsOf(front[s])
      BY DEF Dropped, FdsOf
<1>4. /\ \A s, t \in Slot : s # t => Held(s) \cap Held(t) = {}
      /\ \A s \in Slot : /\ Held(s) = FdsOf(front[s]) \cup FdsOf(back[s])
                         /\ FdsOf(front[s]) \cap FdsOf(back[s]) = {}
                         /\ back[s].planes \cap back[s].dst = {}
      BY DEF FdInv, NoSharedFd, Held
<1>5. \A s \in Slot : Held(s)' = Held(s) \ Dropped(s)
      <2> SUFFICES ASSUME NEW s \in Slot PROVE Held(s)' = Held(s) \ Dropped(s)
          OBVIOUS
      <2>1. Held(s)' = FdsOf(FrontClosed(s)) \cup FdsOf(back[s])
            BY <1>1 DEF Held
      <2> QED BY <2>1, <1>2, <1>3, <1>4
<1>6. NoSharedFd'
      <2> SUFFICES ASSUME NEW s \in Slot
                   PROVE  /\ front'[s].planes \cap front'[s].dst = {}
                          /\ back'[s].planes \cap back'[s].dst = {}
                          /\ FdsOf(front'[s]) \cap FdsOf(back'[s]) = {}
                          /\ \A t \in Slot :
                               t # s => Held(s)' \cap Held(t)' = {}
          BY DEF NoSharedFd
      <2>1. \/ front'[s] = back[s] /\ back'[s] = FrontClosed(s)
            \/ front'[s] = FrontClosed(s) /\ back'[s] = back[s]
            BY <1>1
      <2>2. \A t \in Slot : t # s => Held(s)' \cap Held(t)' = {}
            BY <1>4, <1>5
      <2> QED BY <2>1, <2>2, <1>2, <1>4
<1>7. FdConservation'
      <2>1. \A x : x \in ClosedPlanes <=> \E s \in Slot : x \in Dropped(s)
            BY DEF ClosedPlanes, Dropped
      <2>2. /\ \A s \in Slot : Held(s) \cap lost = {}
            /\ \A x : x \in open <=> x \in lost \/ \E s \in Slot : x \in Held(s)
            BY DEF FdInv, FdConservation
      <2>3. \A s, t \in Slot : \A x : x \in Held(s) /\ x \in Dropped(t) => s = t
            BY <1>3, <1>4
      <2>4. \A x : x \in open' <=> x \in lost \/ \E s \in Slot : x \in Held(s)'
            <3>1. ASSUME NEW x, x \in open'
                  PROVE  x \in lost \/ \E s \in Slot : x \in Held(s)'
                  BY <3>1, <1>1, <1>5, <2>1, <2>2
            <3>2. ASSUME NEW x, x \in lost PROVE x \in open'
                  <4>1. \A s \in Slot : x \notin Dropped(s)
                        BY <3>2, <2>2, <1>3, <1>4
                  <4> QED BY <4>1, <3>2, <1>1, <2>1, <2>2
            <3>3. ASSUME NEW s \in Slot, NEW x, x \in Held(s)'
                  PROVE  x \in open'
                  BY <3>3, <1>1, <1>5, <2>1, <2>2, <2>3
            <3> QED BY <3>1, <3>2, <3>3
      <2>5. \A s \in Slot : Held(s)' \cap lost' = {}
            BY <1>1, <1>5, <2>2
      <2> QED BY <2>4, <2>5, <1>1 DEF FdConservation
<1> QED BY <1>6, <1>7 DEF FdInv

LEMMA FdNext == FdInv /\ [Next]_vars => FdInv'
<1> SUFFICES ASSUME FdInv, [Next]_vars PROVE FdInv'
    OBVIOUS
<1>0. TypeOK'
      BY TypeNext DEF FdInv
<1>1. ASSUME NEW a \in App, Reconfigure(a) PROVE FdInv'
      BY <1>0, <1>1, FdUnchanged DEF Reconfigure
<1>2. ASSUME NEW a \in App, NEW p \in PipeType,
             Register(a, p) \/ RegisterRefused(a, p)
      PROVE  FdInv'
      BY <1>0, <1>2, FdUnchanged DEF Register, RegisterRefused, slotVars
<1>3. ASSUME NEW a \in App, NEW f \in Frame,
             Play(a, f) \/ PlayUnregistered(a, f)
      PROVE  FdInv'
      BY <1>0, <1>3, FdPlay, FdPlayUnregistered
<1>4. ASSUME NEW a \in App, Unset(a) PROVE FdInv'
      BY <1>0, <1>4, FdUnset
<1>5. CASE OtherRequest
      BY <1>0, <1>5, FdUnchanged DEF OtherRequest, slotVars
<1>6. CASE Commit
      BY <1>0, <1>6, FdCommit
<1>7. CASE UNCHANGED vars
      BY <1>0, <1>7, FdUnchanged DEF vars
<1> QED BY <1>1, <1>2, <1>3, <1>4, <1>5, <1>6, <1>7 DEF Next, Request

(***************************************************************************)
(* No descriptor is ever recorded in two places: register_overlay_data and *)
(* commit_thread never close a descriptor twice or under another slot.     *)
(***************************************************************************)
THEOREM FdsNotShared == Spec => []NoSharedFd
<1>1. FdInv => NoSharedFd
      BY DEF FdInv
<1> QED BY <1>1, FdInit, FdNext, PTL DEF Spec

(***************************************************************************)
(* The open descriptors are exactly those that the slots record and those  *)
(* that an UNSET or an unregistered PLAY dropped.                          *)
(***************************************************************************)
THEOREM FdsConserved == Spec => []FdConservation
<1>1. FdInv => FdConservation
      BY DEF FdInv
<1> QED BY <1>1, FdInit, FdNext, PTL DEF Spec

-----------------------------------------------------------------------------
(***************************************************************************)
(* The overlays.  Between two steps the configuration of a registered slot *)
(* carries the slot's own id (register_overlay_cfg copies ov_id into it),  *)
(* so a commit either keeps an id or takes one the driver has just made.   *)
(***************************************************************************)
SameId == \A s \in Slot : app[s] # NoApp => cfgId[s] = ovId[s]
OvInv == TypeOK /\ SameId /\ OverlayExclusive

LEMMA OvInit == Init => OvInv
BY TypeInit DEF Init, OvInv, SameId, OverlayExclusive

\* Steps that leave the registration and the overlays alone.
LEMMA OvUnchanged ==
  ASSUME OvInv, TypeOK', UNCHANGED <<app, cfgId, ovId, hw>>
  PROVE  OvInv'
BY DEF OvInv, SameId, OverlayExclusive

LEMMA OvRegister ==
  ASSUME OvInv, TypeOK', NEW a \in App, NEW p \in PipeType, Register(a, p)
  PROVE  OvInv'
<1>1. PICK s \in Slot :
        /\ app' = [app EXCEPT ![s] = a]
        /\ cfgId' = [cfgId EXCEPT ![s] = NewRequest]
        /\ ovId' = [ovId EXCEPT ![s] = NewRequest]
        /\ hw' = hw
      BY DEF Register
<1>2. \A t \in Slot : app[t] # a
      BY DEF Register, Registered
<1>3. /\ app'[s] = a /\ cfgId'[s] = NewRequest /\ ovId'[s] = NewRequest
      /\ \A t \in Slot : t # s => /\ app'[t] = app[t]
                                  /\ cfgId'[t] = cfgId[t]
                                  /\ ovId'[t] = ovId[t]
      BY <1>1 DEF OvInv, TypeOK
<1>4. SameId'
      BY <1>3 DEF OvInv, SameId
<1>5. OverlayExclusive'
      BY <1>1, <1>2, <1>3 DEF OvInv, OverlayExclusive
<1> QED BY <1>4, <1>5 DEF OvInv

LEMMA OvUnset ==
  ASSUME OvInv, TypeOK', NEW a \in App, Unset(a)
  PROVE  OvInv'
<1>1. PICK s \in Slot :
        /\ app[s] = a
        /\ app' = [app EXCEPT ![s] = NoApp]
        /\ cfgId' = [cfgId EXCEPT ![s] = 0]
        /\ ovId' = [ovId EXCEPT ![s] = 0]
        /\ hw' = hw \ {ovId[s]}
      BY DEF Unset, IsRegistered
<1>2. /\ app[s] # NoApp /\ app'[s] = NoApp
      /\ \A t \in Slot : t # s => /\ app'[t] = app[t]
                                  /\ cfgId'[t] = cfgId[t]
                                  /\ ovId'[t] = ovId[t]
      BY <1>1 DEF OvInv, TypeOK
<1>3. SameId'
      BY <1>2 DEF OvInv, SameId
<1>4. OverlayExclusive'
      BY <1>1, <1>2 DEF OvInv, OverlayExclusive
<1> QED BY <1>3, <1>4 DEF OvInv

LEMMA OvCommit ==
  ASSUME OvInv, TypeOK', Commit
  PROVE  OvInv'
<1>1. PICK setFail : \E d \in Answer(setFail) : CommitWith(d)
      BY DEF Commit
<1>2. PICK d \in Answer(setFail) : CommitWith(d)
      BY <1>1
<1> DEFINE alloc == d.alloc
<1>3. /\ CommitWith(d) /\ d.setFail = setFail /\ d.alloc = alloc
      /\ alloc \in [Allocating(setFail) -> OvId \ hw]
      /\ Injective(alloc)
      BY <1>2 DEF Answer
<1> HIDE DEF alloc
<1>4. /\ \A s \in Slot : /\ app'[s] = AppAfterSet(s, d)
                         /\ cfgId'[s] = CfgIdAfterSet(s, d)
                         /\ ovId'[s] = OvIdAfterSet(s, d)
      /\ hw' = HwAfterSet(d)
      BY <1>3 DEF CommitWith
<1>5. \A s \in Slot : app'[s] # NoApp => app[s] = app'[s]
      BY <1>4 DEF AppAfterSet
\* An allocating slot is active and has an update; the others keep their id.
<1>6. \A s \in Slot : app'[s] # NoApp =>
        /\ cfgId'[s] = ovId'[s]
        /\ ovId'[s] = IF Allocates(s, setFail) THEN alloc[s] ELSE ovId[s]
      BY <1>3, <1>4, <1>5
      DEF CfgIdAfterSet, OvIdAfterSet, Allocates, SetTried, OvInv, SameId
<1>7. \A s \in Slot : Allocates(s, setFail) =>
        /\ alloc[s] \in hw' /\ alloc[s] \notin hw /\ alloc[s] # NewRequest
        /\ \A t \in Slot : Allocates(t, setFail) /\ alloc[t] = alloc[s] => s = t
      BY <1>2, <1>3, <1>4, SlotFacts DEF Allocating, HwAfterSet, Injective
<1>8. hw \subseteq hw'
      BY <1>4 DEF HwAfterSet
<1>9. SameId'
      BY <1>6 DEF SameId
<1>10. OverlayExclusive'
      <2> SUFFICES ASSUME NEW s \in Slot, app'[s] # NoApp
                   PROVE  /\ ovId'[s] \in hw' \cup {NewRequest}
                          /\ \A t \in Slot : s # t /\ app'[t] # NoApp =>
                               /\ app'[t] # app'[s]
                               /\ ovId'[t] = ovId'[s] => ovId'[s] = NewRequest
          BY DEF OverlayExclusive
      <2>1. ovId'[s] \in hw' \cup {NewRequest}
            BY <1>5, <1>6, <1>7, <1>8 DEF OvInv, OverlayExclusive
      <2>2. ASSUME NEW t \in Slot, s # t, app'[t] # NoApp
            PROVE  /\ app'[t] # app'[s]
                   /\ ovId'[t] = ovId'[s] => ovId'[s] = NewRequest
            <3>1. /\ app[t] # app[s]
                  /\ ovId[t] = ovId[s] => ovId[s] = NewRequest
                  /\ ovId[s] \in hw \cup {NewRequest}
                  /\ ovId[t] \in hw \cup {NewRequest}
                  BY <2>2, <1>5 DEF OvInv, OverlayExclusive
            <3> QED BY <3>1, <2>2, <1>5, <1>6, <1>7
      <2> QED BY <2>1, <2>2
<1> QED BY <1>9, <1>10 DEF OvInv

LEMMA OvNext == OvInv /\ [Next]_vars => OvInv'
<1> SUFFICES ASSUME OvInv, [Next]_vars PROVE OvInv'
    OBVIOUS
<1>0. TypeOK'
      BY TypeNext DEF OvInv
<1>1. ASSUME NEW a \in App, Reconfigure(a) PROVE OvInv'
      BY <1>0, <1>1
      DEF Reconfigure, OvInv, TypeOK, SameId, OverlayExclusive
<1>2. ASSUME NEW a \in App, NEW p \in PipeType,
             Register(a, p) \/ RegisterRefused(a, p)
      PROVE  OvInv'
      BY <1>0, <1>2, OvRegister, OvUnchanged DEF RegisterRefused, slotVars
<1>3. ASSUME NEW a \in App, NEW f \in Frame,
             Play(a, f) \/ PlayUnregistered(a, f)
      PROVE  OvInv'
      BY <1>0, <1>3, OvUnchanged DEF Play, PlayUnregistered, slotVars
<1>4. ASSUME NEW a \in App, Unset(a) PROVE OvInv'
      BY <1>0, <1>4, OvUnset
<1>5. CASE OtherRequest
      BY <1>0, <1>5, OvUnchanged DEF OtherRequest, slotVars
<1>6. CASE Commit
      BY <1>0, <1>6, OvCommit
<1>7. CASE UNCHANGED vars
      BY <1>0, <1>7, OvUnchanged DEF vars
<1> QED BY <1>1, <1>2, <1>3, <1>4, <1>5, <1>6, <1>7 DEF Next, Request

(***************************************************************************)
(* An application has one slot at most and no two registered slots share a *)
(* driver overlay, whatever SETs the driver refuses.                       *)
(***************************************************************************)
THEOREM OverlaysExclusive == Spec => []OverlayExclusive
<1>1. OvInv => OverlayExclusive
      BY DEF OvInv
<1> QED BY <1>1, OvInit, OvNext, PTL DEF Spec

-----------------------------------------------------------------------------
LEMMA FreshInit == Init => FreshFrame
BY DEF Init, FreshFrame

LEMMA FreshNext == TypeOK /\ FreshFrame /\ [Next]_vars => FreshFrame'
<1> SUFFICES ASSUME TypeOK, FreshFrame, [Next]_vars PROVE FreshFrame'
    OBVIOUS
<1>1. ASSUME UNCHANGED <<newd, back, pending>> PROVE FreshFrame'
      BY <1>1 DEF FreshFrame
<1>2. ASSUME NEW a \in App, NEW f \in Frame, Play(a, f) PROVE FreshFrame'
      BY <1>2 DEF Play, Received, TypeOK, FreshFrame
<1>3. ASSUME NEW a \in App, Unset(a) PROVE FreshFrame'
      BY <1>3 DEF Unset, TypeOK, FreshFrame
<1>4. CASE Commit
      <2>1. PICK d : CommitWith(d)
            BY <1>4 DEF Commit
      <2> SUFFICES ASSUME NEW s \in Slot, newd'[s]
                   PROVE  back'[s] = pending'[s] /\ back'[s].planes # {}
          BY DEF FreshFrame
      <2>2. newd[s] /\ ~Taken(s)
            BY <2>1 DEF CommitWith, NewDataAfter
      <2>3. ~Active(s)
            BY <2>2 DEF Taken, FreshFrame
      <2>4. back'[s] = back[s] /\ pending'[s] = pending[s]
            BY <2>1, <2>2, <2>3 DEF CommitWith, BackAfter, Swapped
      <2> QED BY <2>2, <2>4 DEF FreshFrame
<1> QED BY <1>1, <1>2, <1>3, <1>4
    DEF Next, Request, Reconfigure, Register, RegisterRefused,
        PlayUnregistered, OtherRequest, slotVars, vars

(***************************************************************************)
(* A commit never shows a frame twice or an older frame than the latest.   *)
(***************************************************************************)
THEOREM FramesFresh == Spec => []FreshFrame
BY TypeInit, TypeNext, FreshInit, FreshNext, PTL DEF Spec

-----------------------------------------------------------------------------
(***************************************************************************)
(* The overlays of a driver that refuses nothing.  Overlay exclusion is    *)
(* needed twice: the id an UNSET gives back is no other slot's, and the id *)
(* a commit configures is one the driver knows, so that no SET fails.      *)
(***************************************************************************)
Kept == {ovId[s] : s \in {t \in Slot : app[t] # NoApp}} \ {NewRequest}

LEMMA KeptMember ==
  \A x : x \in Kept <=> /\ x # NewRequest
                        /\ \E s \in Slot : app[s] # NoApp /\ ovId[s] = x
BY DEF Kept

LEMMA KeptMemberNext ==
  \A x : x \in Kept' <=> /\ x # NewRequest
                         /\ \E s \in Slot : app'[s] # NoApp /\ ovId'[s] = x
BY DEF Kept

LEMMA ConservedInit == Init => OverlaysConserved
<1> SUFFICES ASSUME Init PROVE hw = Kept
    BY DEF OverlaysConserved, Kept
<1>1. hw = {} /\ \A s \in Slot : app[s] = NoApp
      BY DEF Init
<1> QED BY <1>1, KeptMember

LEMMA ConservedRegister ==
  ASSUME OvInv, hw = Kept, NEW a \in App, NEW p \in PipeType, Register(a, p)
  PROVE  hw' = Kept'
<1>1. PICK s \in Slot :
        /\ app[s] = NoApp
        /\ app' = [app EXCEPT ![s] = a]
        /\ ovId' = [ovId EXCEPT ![s] = NewRequest]
        /\ hw' = hw
      BY DEF Register, IsEmptyFor
<1>2. /\ ovId'[s] = NewRequest
      /\ \A t \in Slot : t # s => app'[t] = app[t] /\ ovId'[t] = ovId[t]
      BY <1>1 DEF OvInv, TypeOK
<1>3. \A x : x \in Kept' <=> x \in Kept
      BY <1>1, <1>2, KeptMember, KeptMemberNext
<1> QED BY <1>1, <1>3

LEMMA ConservedUnset ==
  ASSUME OvInv, hw = Kept, NEW a \in App, Unset(a)
  PROVE  hw' = Kept'
<1>1. PICK s \in Slot :
        /\ app[s] = a
        /\ app' = [app EXCEPT ![s] = NoApp]
        /\ ovId' = [ovId EXCEPT ![s] = 0]
        /\ hw' = hw \ {ovId[s]}
      BY DEF Unset, IsRegistered
<1>2. /\ app[s] # NoApp /\ app'[s] = NoApp
      /\ \A t \in Slot : t # s => app'[t] = app[t] /\ ovId'[t] = ovId[t]
      BY <1>1 DEF OvInv, TypeOK
\* No other registered slot has the id that the driver takes back.
<1>3. \A t \in Slot : t # s /\ app[t] # NoApp /\ ovId[t] = ovId[s] =>
                        ovId[s] = NewRequest
      BY <1>2 DEF OvInv, OverlayExclusive
<1>4. \A x : x \in Kept' <=> x \in Kept /\ x # ovId[s]
      BY <1>2, <1>3, KeptMember, KeptMemberNext
<1> QED BY <1>1, <1>4

LEMMA ConservedCommit ==
  ASSUME OvInv, ~MayFail, hw = Kept, Commit
  PROVE  hw' = Kept'
<1>1. \E d \in Answer({}) : CommitWith(d)
      BY DEF Commit, Refusals
<1>2. PICK d \in Answer({}) : CommitWith(d)
      BY <1>1
<1> DEFINE alloc == d.alloc
<1>3. /\ CommitWith(d) /\ d.setFail = {} /\ d.alloc = alloc
      /\ alloc \in [Allocating({}) -> OvId \ hw]
      BY <1>2 DEF Answer
<1> HIDE DEF alloc
<1>4. \A s \in Slot : ~SetFails(s, {})
      BY DEF SetFails, SetTried, Active, OvInv, SameId, OverlayExclusive
<1>5. \A s \in Slot : app'[s] = app[s]
      BY <1>3, <1>4 DEF CommitWith, AppAfterSet
<1>6. \A s \in Slot : Allocates(s, {}) => /\ Active(s) /\ upd[s]
                                          /\ app[s] # NoApp
                                          /\ ovId[s] = NewRequest
      BY DEF Allocates, SetTried, Active, OvInv, SameId
<1>7. \A s \in Slot : app[s] # NoApp =>
        ovId'[s] = IF Allocates(s, {}) THEN alloc[s] ELSE ovId[s]
      BY <1>3 DEF CommitWith, OvIdAfterSet, CfgIdAfterSet, Allocates,
                  SetTried, OvInv, SameId
<1>8. \A x : x \in hw' <=> \/ x \in hw
                           \/ \E s \in Slot : Allocates(s, {}) /\ x = alloc[s]
      BY <1>3 DEF CommitWith, HwAfterSet, Allocating
<1>9. \A s \in Slot : Allocates(s, {}) => alloc[s] # NewRequest
      BY <1>3, SlotFacts DEF Allocating
<1>10. \A x : x \in hw' <=> x \in Kept'
       BY <1>5, <1>6, <1>7, <1>8, <1>9, KeptMember, KeptMemberNext
<1> QED BY <1>10

LEMMA ConservedNext ==
  OvInv /\ OverlaysConserved /\ [Next]_vars => OverlaysConserved'
<1> SUFFICES ASSUME OvInv, OverlaysConserved, [Next]_vars, ~MayFail
             PROVE  hw' = Kept'
    BY DEF OverlaysConserved, Kept
<1>0. hw = Kept
      BY DEF OverlaysConserved, Kept
<1>1. ASSUME UNCHANGED <<app, ovId, hw>> PROVE hw' = Kept'
      BY <1>0, <1>1 DEF Kept
<1>2. ASSUME NEW a \in App, NEW p \in PipeType, Register(a, p)
      PROVE  hw' = Kept'
      BY <1>0, <1>2, ConservedRegister
<1>3. ASSUME NEW a \in App, Unset(a) PROVE hw' = Kept'
      BY <1>0, <1>3, ConservedUnset
<1>4. CASE Commit
      BY <1>0, <1>4, ConservedCommit
<1> QED BY <1>1, <1>2, <1>3, <1>4
    DEF Next, Request, Reconfigure, RegisterRefused, Play, PlayUnregistered,
        OtherRequest, slotVars, vars

(***************************************************************************)
(* A driver that refuses nothing holds the overlays of the registered      *)
(* slots and no others.                                                    *)
(***************************************************************************)
THEOREM OverlaysAreConserved == Spec => []OverlaysConserved
BY OvInit, OvNext, ConservedInit, ConservedNext, PTL DEF Spec

-----------------------------------------------------------------------------
(***************************************************************************)
(* What is on display.  The planes the driver displays for a slot are in   *)
(* one of its two buffers, and so open, until a PLAY brings the next frame *)
(* of the slot or a commit takes a frame that the driver does not accept:  *)
(* the buffers lose planes only to that PLAY and to the commit that takes  *)
(* its frame.                                                              *)
(***************************************************************************)
ShownHeld ==
  \A s \in Slot : shown[s] \subseteq Held(s) \/ newd[s] \/ refused[s]

LEMMA ShownHeldInit == ShownInit => ShownHeld
BY DEF ShownInit, ShownHeld

LEMMA ShownHeldRequest ==
  ASSUME TypeOK, ShownHeld, ShownRequest
  PROVE  ShownHeld'
<1> SUFFICES ASSUME NEW s \in Slot, ~newd'[s], ~refused'[s]
             PROVE  shown'[s] \subseteq Held(s)'
    BY DEF ShownHeld
<1>1. \/ shown'[s] = {}
      \/ /\ shown'[s] = shown[s]
         /\ shown[s] \subseteq Held(s) \/ newd[s]
      BY DEF ShownRequest, ShownHeld
<1>2. ASSUME UNCHANGED <<front, back, newd>>
      PROVE  shown'[s] \subseteq Held(s)'
      BY <1>1, <1>2 DEF Held
<1>3. ASSUME NEW a \in App, NEW f \in Frame, Play(a, f)
      PROVE  shown'[s] \subseteq Held(s)'
      <2>1. PICK t \in Slot :
              /\ front' = front
              /\ back' = [back EXCEPT ![t] = f]
              /\ newd' = [newd EXCEPT ![t] = TRUE]
            BY <1>3 DEF Play
      <2>2. s # t /\ newd'[s] = newd[s] /\ back'[s] = back[s]
            BY <2>1 DEF TypeOK
      <2> QED BY <1>1, <2>1, <2>2 DEF Held
<1>4. ASSUME NEW a \in App, Unset(a)
      PROVE  shown'[s] \subseteq Held(s)'
      <2>1. PICK t \in Slot :
              /\ app' = [app EXCEPT ![t] = NoApp]
              /\ front' = [front EXCEPT ![t] = NoFrame]
              /\ back' = [back EXCEPT ![t] = NoFrame]
              /\ newd' = [newd EXCEPT ![t] = FALSE]
            BY <1>4 DEF Unset
      <2>2. CASE s = t
            BY <2>1, <2>2 DEF ShownRequest, TypeOK
      <2>3. CASE s # t
            <3>1. /\ newd'[s] = newd[s]
                  /\ front'[s] = front[s] /\ back'[s] = back[s]
                  BY <2>1, <2>3 DEF TypeOK
            <3> QED BY <1>1, <3>1 DEF Held
      <2> QED BY <2>2, <2>3
<1>5. Request
      BY DEF ShownRequest
<1> QED BY <1>2, <1>3, <1>4, <1>5
    DEF Request, Reconfigure, Register, RegisterRefused, PlayUnregistered,
        OtherRequest, slotVars

LEMMA ShownHeldCommit ==
  ASSUME TypeOK, ShownHeld, ShownCommit
  PROVE  ShownHeld'
<1> SUFFICES ASSUME NEW s \in Slot, ~newd'[s], ~refused'[s]
             PROVE  shown'[s] \subseteq Held(s)'
    BY DEF ShownHeld
<1>1. PICK d : ShownCommitWith(d)
      BY DEF ShownCommit
<1>2. CommitWith(d)
      BY <1>1 DEF ShownCommitWith
<1>3. /\ newd[s] => Taken(s)
      /\ \/ front'[s] = back[s] /\ back'[s] = FrontClosed(s)
         \/ front'[s] = FrontClosed(s) /\ back'[s] = back[s]
      BY <1>2 DEF CommitWith, NewDataAfter, FrontAfter, BackAfter
<1>4. back[s].planes \subseteq Held(s)'
      BY <1>3 DEF Held, FdsOf
\* A commit that keeps the display and is not a refusal took no frame.
<1>5. \/ shown'[s] = {}
      \/ shown'[s] = back[s].planes
      \/ shown'[s] = shown[s] /\ ~Taken(s) /\ ~refused[s]
      BY <1>1 DEF ShownCommitWith
<1>6. ASSUME ~Taken(s), ~refused[s], shown'[s] = shown[s]
      PROVE  shown'[s] \subseteq Held(s)'
      <2>1. FrontClosed(s) = front[s]
            BY <1>6 DEF FrontClosed
      <2>2. Held(s)' = Held(s)
            BY <1>3, <2>1 DEF Held
      <2> QED BY <1>3, <1>6, <2>2 DEF ShownHeld
<1> QED BY <1>4, <1>5, <1>6

LEMMA ShownHeldNext ==
  TypeOK /\ ShownHeld /\ [ShownNext]_<<vars, shown, refused>> => ShownHeld'
<1>1. ASSUME ShownHeld, UNCHANGED <<vars, shown, refused>> PROVE ShownHeld'
      BY <1>1 DEF vars, Held, ShownHeld
<1> QED BY <1>1, ShownHeldRequest, ShownHeldCommit DEF ShownNext

(***************************************************************************)
(* The planes on display are closed early only when the next frame of the  *)
(* slot has arrived or a frame since then was taken without success: for   *)
(* an application's slot, the run HwcOverlayShown meets the first of the   *)
(* only two ways.                                                          *)
(***************************************************************************)
THEOREM ShownUntilReplaced == ShownSpec => []ShownUntilNext
<1>1. ShownInit => Init
      BY DEF ShownInit
<1>2. [ShownNext]_<<vars, shown, refused>> => [Next]_vars
      <2>1. ShownRequest => Request
            BY DEF ShownRequest
      <2>2. ShownCommit => Commit
            BY DEF ShownCommit, ShownCommitWith, Commit
      <2> QED BY <2>1, <2>2 DEF ShownNext, Next, vars
<1>3. FdInv /\ ShownHeld => ShownUntilNext
      <2> SUFFICES ASSUME FdInv, ShownHeld, NEW s \in Slot,
                          ~newd[s], ~refused[s]
                   PROVE  shown[s] \subseteq open
          BY DEF ShownUntilNext
      <2>1. Held(s) \subseteq open
            BY DEF FdInv, FdConservation
      <2> QED BY <2>1 DEF ShownHeld
<1>4. FdInv => TypeOK
      BY DEF FdInv
<1> QED BY <1>1, <1>2, <1>3, <1>4, FdInit, FdNext, ShownHeldInit,
           ShownHeldNext, PTL DEF ShownSpec
=============================================================================
