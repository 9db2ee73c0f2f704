--------------------------- MODULE HwcOverlayShown ---------------------------
(***************************************************************************)
(* HwcOverlay with two history variables: what the driver displays for     *)
(* every slot, and whether a later frame of the slot did not reach it.     *)
(***************************************************************************)
EXTENDS HwcOverlay

VARIABLES
  shown,    \* the planes of the frame of the slot that the driver accepted last
  refused   \* since then commit_thread took a frame that it did not accept

\* gdss_io_overlay_queue is called for the frame and succeeds.  A frame that
\* is taken but skipped, because the slot's status is bad, is not accepted.
Accepted(s, d) == Queued(s, d) /\ ~QueueFails(s, d)

ShownInit == /\ Init
             /\ shown = [s \in Slot |-> {}]
             /\ refused = [s \in Slot |-> FALSE]

\* A slot that is given up displays nothing for its application any more.
ShownRequest ==
  /\ Request
  /\ shown' = [s \in Slot |-> IF app'[s] = NoApp THEN {} ELSE shown[s]]
  /\ refused' = [s \in Slot |-> refused[s] /\ app'[s] # NoApp]

ShownCommitWith(d) ==
  /\ CommitWith(d)
  /\ shown' = [s \in Slot |->
                 CASE app'[s] = NoApp -> {}
                   [] app'[s] # NoApp /\ Accepted(s, d) -> back[s].planes
                   [] OTHER -> shown[s]]
  /\ refused' = [s \in Slot |->
                   /\ app'[s] # NoApp
                   /\ ~Accepted(s, d)
                   /\ refused[s] \/ Taken(s)]

ShownCommit ==
  \E setFail \in Refusals({s \in Slot : SetTried(s)}) :
    \E d \in Answer(setFail) : ShownCommitWith(d)

ShownNext == ShownRequest \/ ShownCommit

ShownSpec == ShownInit /\ [][ShownNext]_<<vars, shown, refused>>

(***************************************************************************)
(* commit_thread closes the previous buffer after the next one is queued   *)
(* ("previous buffer close"): while the application is registered, the     *)
(* buffer on display is open until the driver has its replacement.         *)
(***************************************************************************)
ShownStaysOpen == \A s \in Slot : shown[s] \subseteq open

(***************************************************************************)
(* It is not open all the time, but it is closed early for two reasons     *)
(* only.  An extra swap has moved it to the back buffer, and the PLAY that *)
(* overwrites it there has brought the next frame, which the next commit   *)
(* takes.  Or commit_thread took a frame whose overlay_queue call failed   *)
(* or was skipped: it closes the previous buffer all the same, although    *)
(* the driver has nothing to show instead.                                 *)
(***************************************************************************)
ShownUntilNext == \A s \in Slot : shown[s] \subseteq open \/ newd[s] \/ refused[s]
=============================================================================
