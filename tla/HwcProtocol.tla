---------------------------- MODULE HwcProtocol -----------------------------
(***************************************************************************)
(* One connection between a client and its client_thread in the display    *)
(* server (hwcomposer.c), over the messages of libs/libmsgio/gdm-msgio.c.  *)
(* The client is the camera application (apps/isp/display.c) or the video  *)
(* renderer of the players (MmpRenderer_OdyClientEx2.cpp).                 *)
(*                                                                         *)
(* The socket is a byte stream: one gdm_recvmsg returns everything that is *)
(* queued, but never anything behind the first message that carries file   *)
(* descriptors.  Neither side marks where a message ends or which request  *)
(* a reply belongs to.  The camera never reads the reply to SET and waits  *)
(* a second at most; the renderer reads every reply, and waits without an  *)
(* end.                                                                    *)
(*                                                                         *)
(* A definition named ...Mutant is the one that follows it with a bug put  *)
(* in; no specification uses it.  It shows that some property can fail.    *)
(***************************************************************************)
EXTENDS Integers, Sequences, FiniteSetsExt

CONSTANTS
  Clients,      \* the kinds of client: "camera", "renderer"
  MaxFrames,    \* bound: frames the client sends
  MaxSets,      \* bound: SET requests of the client
  MaxTimeouts,  \* bound: timeouts of the client
  FenceFails    \* whether release_fence may be -1 (GDMFB_BUFFER_SYNC failed)

ASSUME BoundAssumption == /\ Clients \subseteq {"camera", "renderer"}
                          /\ MaxFrames \in Nat
                          /\ MaxSets \in Nat
                          /\ MaxTimeouts \in Nat
                          /\ FenceFails \in BOOLEAN

VARIABLES
  client,     \* the kind of client; it never changes
  cpc,        \* where the client is
  spc,        \* where its server thread is
  toServer,   \* queued messages, oldest first
  toClient,
  batch,      \* messages of the current gdm_recvmsg still to handle
  heap,       \* cmd_msg: "ok", "dangling" (freed, still used) or "corrupt"
  slot,       \* the application has a registered overlay
  sent,       \* frames sent
  sets,       \* SET requests sent
  timeouts,   \* timeouts so far
  releaseFd   \* what the last read of the client gave it

vars == <<client, cpc, spc, toServer, toClient, batch, heap, slot, sent, sets,
          timeouts, releaseFd>>
server == <<spc, batch, heap, slot>>
counters == <<client, sent, sets, timeouts>>

Frame == 0..MaxFrames
Request == [cmd : {"SET", "PLAY", "UNSET"}, frame : Frame]
Reply == [cmd : {"GREETING", "SET", "PLAY"}, frame : Frame]

\* fds[0] after a read: -1 (timeout), a fence, or the 0 of the cleared buffer.
Minus1 == [kind |-> "-1", frame |-> 0]
Zero == [kind |-> "0", frame |-> 0]
Fence(n) == [kind |-> "fence", frame |-> n]
FdValue == {Minus1, Zero} \cup {Fence(n) : n \in Frame}

\* The messages that carry descriptors.
HasFds(m) == m.cmd \in {"PLAY", "GREETING"}

\* How many of the queued messages one gdm_recvmsg returns.
Received(q) ==
  LET withFds == {i \in DOMAIN q : HasFds(q[i])}
  IN  IF withFds = {} THEN Len(q) ELSE Min(withFds)
Rest(q) == SubSeq(q, Received(q) + 1, Len(q))

Init ==
  /\ client \in Clients
  /\ cpc = "off"
  /\ spc = "off"
  /\ toServer = <<>>
  /\ toClient = <<>>
  /\ batch = <<>>
  /\ heap = "ok"
  /\ slot = FALSE
  /\ sent = 0
  /\ sets = 0
  /\ timeouts = 0
  /\ releaseFd = Minus1

HungUp == cpc \in {"closed", "exited"}

-----------------------------------------------------------------------------
(***************************************************************************)
(* The client.  The renderer's mutex lets one of its requests at a time    *)
(* run from the send to the end of the read.                               *)
(***************************************************************************)
\* GDispOpen connects, the server accepts and starts the thread; GDispOpen
\* then waits for the greeting.  The renderer's Open begins the same way.
GDispOpen ==
  /\ cpc = "off"
  /\ cpc' = "opening"
  /\ spc' = "greet"
  /\ UNCHANGED <<toServer, toClient, batch, heap, slot, counters, releaseFd>>

GDispSetFormat ==
  /\ client = "camera"
  /\ cpc = "idle"
  /\ spc # "dead"
  /\ sets < MaxSets
  /\ sets' = sets + 1
  /\ toServer' = Append(toServer, [cmd |-> "SET", frame |-> 0])
  /\ UNCHANGED <<client, cpc, server, toClient, sent, timeouts, releaseFd>>

\* The end of the renderer's Open, SetFirstRenderer, and a Render that turns
\* the picture send SET and read its reply.
SetOverlayMutant ==
  /\ client = "renderer"
  /\ cpc \in {"opened", "idle", "waiting"}
  /\ spc # "dead"
  /\ sets < MaxSets
  /\ sets' = sets + 1
  /\ toServer' = Append(toServer, [cmd |-> "SET", frame |-> 0])
  /\ cpc' = "setting"
  /\ UNCHANGED <<client, server, toClient, sent, timeouts, releaseFd>>
SetOverlay ==
  /\ client = "renderer"
  /\ cpc \in {"opened", "idle"}
  /\ spc # "dead"
  /\ sets < MaxSets
  /\ sets' = sets + 1
  /\ toServer' = Append(toServer, [cmd |-> "SET", frame |-> 0])
  /\ cpc' = "setting"
  /\ UNCHANGED <<client, server, toClient, sent, timeouts, releaseFd>>

\* The first half of GDispSendFrame: dss_overlay_queue.  The second half is
\* GetFence or an alternative of it; sync_wait and close change nothing here.
\* The renderer's Render does the same.
GDispSendFrame ==
  /\ cpc = "idle"
  /\ spc # "dead"
  /\ sent < MaxFrames
  /\ sent' = sent + 1
  /\ toServer' = Append(toServer, [cmd |-> "PLAY", frame |-> sent'])
  /\ cpc' = "waiting"
  /\ releaseFd' = Minus1
  /\ UNCHANGED <<client, server, toClient, sets, timeouts>>

\* dss_get_fence_fd: the descriptor is looked for at fds[0] also when the
\* message carried none; the buffer was cleared, so it then reads 0.
FdOf(msgs) ==
  IF HasFds(msgs[Len(msgs)]) THEN Fence(msgs[Len(msgs)].frame) ELSE Zero

\* The camera looks for a hang-up first; the renderer reads what is queued.
GetFence ==
  /\ cpc \in {"opening", "waiting"}
  /\ client = "camera" => spc # "dead"
  /\ toClient # <<>>
  /\ releaseFd' = FdOf(SubSeq(toClient, 1, Received(toClient)))
  /\ toClient' = Rest(toClient)
  /\ cpc' = IF client = "renderer" /\ cpc = "opening" THEN "opened" ELSE "idle"
  /\ UNCHANGED <<server, toServer, counters>>

\* dss_get_response of the renderer: the descriptors are not looked at.
GetResponse ==
  /\ cpc = "setting"
  /\ toClient # <<>>
  /\ toClient' = Rest(toClient)
  /\ cpc' = "idle"
  /\ UNCHANGED <<server, toServer, counters, releaseFd>>

\* The server is gone and nothing is queued: the renderer's read returns an
\* empty message, whose fds[0] is the 0 of the cleared buffer.
ReadNothing ==
  /\ client = "renderer"
  /\ cpc \in {"opening", "waiting", "setting"}
  /\ spc = "dead"
  /\ toClient = <<>>
  /\ releaseFd' = IF cpc = "setting" THEN releaseFd ELSE Zero
  /\ cpc' = IF cpc = "opening" THEN "opened" ELSE "idle"
  /\ UNCHANGED <<server, toServer, toClient, counters>>

\* No message within a second.
GetFenceTimeout ==
  /\ client = "camera"
  /\ cpc \in {"opening", "waiting"}
  /\ spc # "dead"
  /\ toClient = <<>>
  /\ timeouts < MaxTimeouts
  /\ timeouts' = timeouts + 1
  /\ cpc' = "idle"
  /\ releaseFd' = Minus1
  /\ UNCHANGED <<client, server, toServer, toClient, sent, sets>>

\* The socket was hung up: the camera exits, whatever is still queued.
GetFenceHangup ==
  /\ client = "camera"
  /\ cpc \in {"opening", "waiting"}
  /\ spc = "dead"
  /\ cpc' = "exited"
  /\ UNCHANGED <<server, toServer, toClient, counters, releaseFd>>

\* GDispClose, and Close of the renderer, send UNSET and close the socket at
\* once.
GDispClose ==
  /\ cpc = "idle"
  /\ spc # "dead"
  /\ toServer' = Append(toServer, [cmd |-> "UNSET", frame |-> 0])
  /\ cpc' = "closing"
  /\ UNCHANGED <<server, toClient, counters, releaseFd>>

CloseSocket ==
  /\ cpc = "closing"
  /\ cpc' = "closed"
  /\ UNCHANGED <<server, toServer, toClient, counters, releaseFd>>

\* The process is killed; SIGPIPE does it when it writes to a dead server.
ClientKilled ==
  /\ cpc \in {"opening", "opened", "idle", "setting", "waiting", "closing"}
  /\ cpc' = "exited"
  /\ UNCHANGED <<server, toServer, toClient, counters, releaseFd>>

Client ==
  \/ GDispOpen \/ GDispSetFormat \/ SetOverlay \/ GDispSendFrame \/ GetFence
  \/ GetResponse \/ ReadNothing \/ GetFenceTimeout \/ GetFenceHangup
  \/ GDispClose \/ CloseSocket \/ ClientKilled

-----------------------------------------------------------------------------
(***************************************************************************)
(* The server thread.  SIGPIPE is ignored: a reply to a client that went   *)
(* away is lost.                                                           *)
(***************************************************************************)
Send(cmd, n) ==
  toClient' = IF HungUp THEN toClient
              ELSE Append(toClient, [cmd |-> cmd, frame |-> n])

\* The greeting carries release_fence; sendmsg refuses the descriptor -1.
Greet ==
  /\ spc = "greet"
  /\ Send("GREETING", 0) \/ (FenceFails /\ UNCHANGED toClient)
  /\ spc' = "poll"
  /\ UNCHANGED <<cpc, toServer, batch, heap, slot, counters, releaseFd>>

\* A hang-up is looked at before the queued messages.
PollHangupMutant ==
  /\ spc = "poll"
  /\ HungUp
  /\ toServer = <<>>
  /\ spc' = "ended"
  /\ UNCHANGED <<cpc, toServer, toClient, batch, heap, slot, counters,
                 releaseFd>>
PollHangup ==
  /\ spc = "poll"
  /\ HungUp
  /\ spc' = "ended"
  /\ UNCHANGED <<cpc, toServer, toClient, batch, heap, slot, counters,
                 releaseFd>>

Recv ==
  /\ spc = "poll"
  /\ ~HungUp
  /\ toServer # <<>>
  /\ batch' = SubSeq(toServer, 1, Received(toServer))
  /\ toServer' = Rest(toServer)
  /\ spc' = "loop"
  /\ UNCHANGED <<cpc, toClient, heap, slot, counters, releaseFd>>

\* The end of an iteration: gdm_free_msghdr(cmd_msg) inside the loop over the
\* messages that cmd_msg holds.
FreeMsg ==
  /\ batch' = Tail(batch)
  /\ spc' = IF batch' = <<>> THEN "poll" ELSE "loop"
  /\ heap' = CASE heap # "ok" -> "corrupt"
               [] batch' # <<>> -> "dangling"
               [] OTHER -> "ok"

Handling(cmd) == /\ spc = "loop"
                 /\ Head(batch).cmd = cmd

HandleSet ==
  /\ Handling("SET")
  /\ slot' \in BOOLEAN          \* register_overlay_cfg may find no slot
  /\ slot => slot'
  /\ Send("SET", 0)
  /\ FreeMsg
  /\ UNCHANGED <<cpc, toServer, counters, releaseFd>>

HandlePlayTwiceMutant ==
  /\ Handling("PLAY")
  /\ LET r == [cmd |-> "PLAY", frame |-> Head(batch).frame]
     IN  toClient' = IF HungUp THEN toClient ELSE toClient \o <<r, r>>
  /\ FreeMsg
  /\ UNCHANGED <<cpc, toServer, slot, counters, releaseFd>>
HandlePlayMutant ==
  /\ Handling("PLAY")
  /\ IF slot THEN Send("PLAY", Head(batch).frame) ELSE UNCHANGED toClient
  /\ FreeMsg
  /\ UNCHANGED <<cpc, toServer, slot, counters, releaseFd>>
HandlePlay ==
  /\ Handling("PLAY")
  /\ Send("PLAY", Head(batch).frame)
  /\ FreeMsg
  /\ UNCHANGED <<cpc, toServer, slot, counters, releaseFd>>

\* With release_fence = -1 the reply is built through a null pointer.
HandlePlayCrash ==
  /\ Handling("PLAY")
  /\ FenceFails
  /\ spc' = "dead"
  /\ UNCHANGED <<cpc, toServer, toClient, batch, heap, slot, counters,
                 releaseFd>>

HandleUnsetMutant ==
  /\ Handling("UNSET")
  /\ spc' = "ended"
  /\ batch' = <<>>
  /\ UNCHANGED <<cpc, toServer, toClient, slot, heap, counters, releaseFd>>
\* UNSET also ends the thread.
HandleUnset ==
  /\ Handling("UNSET")
  /\ slot' = FALSE
  /\ spc' = "ended"
  /\ batch' = <<>>
  /\ heap' = IF heap = "ok" THEN "ok" ELSE "corrupt"
  /\ UNCHANGED <<cpc, toServer, toClient, counters, releaseFd>>

(***************************************************************************)
(* What follows the first message of a receive is read from memory that    *)
(* has been freed.  The reads may still see it intact (the actions above), *)
(* see a command that is none (the message is skipped), or fault.          *)
(***************************************************************************)
ReadGarbage ==
  /\ spc = "loop"
  /\ heap # "ok"
  /\ FreeMsg
  /\ UNCHANGED <<cpc, toServer, toClient, slot, counters, releaseFd>>

HeapFault ==
  /\ heap # "ok"
  /\ spc \in {"loop", "poll"}
  /\ spc' = "dead"
  /\ UNCHANGED <<cpc, toServer, toClient, batch, heap, slot, counters,
                 releaseFd>>

Server ==
  \/ Greet \/ PollHangup \/ Recv \/ HandleSet \/ HandlePlay
  \/ HandlePlayCrash \/ HandleUnset \/ ReadGarbage \/ HeapFault

\* A thread of another connection brings the server process down, by its own
\* HandlePlayCrash or HeapFault.
ServerCrash ==
  /\ spc \in {"greet", "poll", "loop"}
  /\ spc' = "dead"
  /\ UNCHANGED <<cpc, toServer, toClient, batch, heap, slot, counters,
                 releaseFd>>

Next == Client \/ Server \/ ServerCrash
Spec == Init /\ [][Next]_vars

(***************************************************************************)
(* A thread with something to read is scheduled, and the server thread     *)
(* gets the locks its handlers take (HwcServer shows that it does).        *)
(***************************************************************************)
FairSpec == /\ Spec
            /\ WF_vars(GetFence \/ GetFenceHangup \/ GetResponse \/ ReadNothing)
            /\ WF_vars(Server)

-----------------------------------------------------------------------------
\* The variables keep their types: in particular no message names a frame that
\* was not sent.
TypeOK ==
  /\ client \in Clients
  /\ cpc \in {"off", "opening", "opened", "idle", "setting", "waiting",
              "closing", "closed", "exited"}
  /\ spc \in {"off", "greet", "poll", "loop", "ended", "dead"}
  /\ toServer \in Seq(Request)
  /\ toClient \in Seq(Reply)
  /\ batch \in Seq(Request)
  /\ heap \in {"ok", "dangling", "corrupt"}
  /\ slot \in BOOLEAN
  /\ sent \in Frame
  /\ sets \in 0..MaxSets
  /\ timeouts \in 0..MaxTimeouts
  /\ releaseFd \in FdValue

\* Replies carry no frame number and unread ones stay queued, so the fence
\* GDispSendFrame waits on belongs to an earlier frame.  It never lags by
\* more than one frame for each timeout and each SET reply nobody read, and
\* descriptor 0 is taken for a fence only if there was such a SET, or the
\* server is gone.
FenceLag ==
  cpc = "idle" =>
    /\ releaseFd.kind = "fence" => sent - releaseFd.frame <= timeouts + sets
    /\ releaseFd = Zero => sets > 0 \/ spc = "dead"

\* The renderer reads one reply for each request and shares its socket under a
\* mutex, so it keeps in step with the server for ever: the fence is that of
\* the frame just sent, and its requests never meet in one receive, the case
\* that spoils the server's heap.  Only when the server is gone does it take
\* descriptor 0 for a fence.
InStep ==
  client = "renderer" =>
    /\ heap = "ok"
    /\ cpc = "idle" => \/ releaseFd = Fence(sent)
                       \/ releaseFd = Zero /\ spc = "dead"

(***************************************************************************)
(* To the renderer the connection is a procedure call: the request under   *)
(* way is the one it waits for, and it is answered when the reply to that  *)
(* very request is in the socket.  (Not so to the camera, whose reads take *)
(* the reply to an earlier request.)                                       *)
(***************************************************************************)
NoCall == [cmd |-> "NONE", frame |-> 0]
UnderWay == CASE cpc = "opening" -> [cmd |-> "GREETING", frame |-> 0]
              [] cpc = "setting" -> [cmd |-> "SET", frame |-> 0]
              [] cpc = "waiting" -> [cmd |-> "PLAY", frame |-> sent]
              [] OTHER -> NoCall

Connection == INSTANCE RemoteCall WITH
  Request <- Reply,
  Idle <- NoCall,
  Answer <- [m \in {r \in Reply : HasFds(r)} |-> Fence(m.frame)],
  Unknown <- Minus1,
  Broken <- Zero,
  call <- UnderWay,
  answered <- toClient = <<UnderWay>>,
  up <- spc # "dead",
  result <- releaseFd

RendererCalls ==
  /\ client = "renderer" => Connection!CallInit
  /\ [][client = "renderer" => Connection!CallNext]_vars

\* Two requests in one receive, which spoil the server's heap, need a SET whose
\* reply nobody waited for.
SpoiledBySet == heap # "ok" => client = "camera" /\ sets > 0

\* No request and no reply is lost: while a client waits for its reply, its
\* server thread runs, and the request is in the socket or in the thread's
\* hands, or there is something to read; whatever else timed out, was left
\* unread or failed before.
RequestUnderWay ==
  cpc \in {"setting", "waiting"} /\ spc # "dead" /\ heap = "ok" =>
    /\ spc \in {"greet", "poll", "loop"}
    /\ \/ toClient # <<>>
       \/ \E i \in DOMAIN toServer : toServer[i] = UnderWay
       \/ \E i \in DOMAIN batch : batch[i] = UnderWay

\* A server thread that ended has unregistered the overlay, unless the hang-up
\* overtook an UNSET still in the socket, the client never sent one, or the
\* thread read it from freed memory.
SlotReleased ==
  spc = "ended" /\ slot
    => \/ cpc = "exited"
       \/ heap # "ok"
       \/ \E i \in DOMAIN toServer : toServer[i].cmd = "UNSET"

\* A client that waits for the reply to a frame or a format is answered even if
\* no timeout fires, whether its overlay is registered or not, as long as the
\* server's heap is intact.
WaitEnds ==
  cpc \in {"waiting", "setting"} ~> (cpc \notin {"waiting", "setting"} \/ heap # "ok")

\* The thread of a client that went away ends.
ThreadEnds == HungUp ~> spc \in {"off", "ended", "dead"}

\* hwcomposer.c loops over the messages of one receive; gdm_free_msghdr
\* asserts that the header it is given still holds its buffer.
FreeOnce == heap # "corrupt"
=============================================================================
