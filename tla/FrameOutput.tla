---------------------------- MODULE FrameOutput ----------------------------
(***************************************************************************)
(* How a running title's frames reach the page: after each guest slice     *)
(* (guestRunOptions of render360-browser-modern-content-bridge.mjs, with   *)
(* the Xenos WebGPU play path of render360-webgpu-play.mjs or the software *)
(* renderer's front buffer) and after each pump (inspectRuntime, with the  *)
(* frame presenter of render360-webgpu-runtime.mjs).  The two canvases of  *)
(* render360-title-frontbuffer.mjs lie over each other, the WebGPU one on  *)
(* top.  A picture is the number of the guest frame it shows.              *)
(* inspectRuntime is modelled without a play path (with one, both          *)
(* configure the same canvas for a device of their own).                   *)
(***************************************************************************)
EXTENDS Naturals

CONSTANTS
    MaxFrames,      \* bound on guest frames (VdSwap calls)
    MaxGenerations, \* bound on front buffer snapshots
    MaxPending,     \* maxPendingWords of the play path (4M)
    SliceWords,     \* bound on the words a slice records
    MaxWords        \* bound on the words that are told apart

ASSUME OutputAssumption ==
    /\ MaxFrames \in Nat /\ MaxGenerations \in Nat /\ MaxPending \in Nat
    /\ SliceWords \in Nat /\ MaxWords \in Nat /\ MaxWords > MaxPending + SliceWords

VARIABLE output

NothingShown == [shown |-> FALSE, picture |-> 0]

OutputInit ==
    output = [requested |-> FALSE,  \* webGpuPlayPathRequested
              path |-> "none",      \* the play path: none, pending, ready, lost, failed
              recording |-> FALSE,  \* r360_gpu_set_mode(1), rasterizing off
              words |-> 0,          \* r360_gpu_stream_words
              frames |-> 0,         \* r360_title_gpu_vd_swap_calls
              lastFrames |-> 0,     \* those onFrame was called for
              drawn |-> 0,          \* frame the software renderer has left in guest memory
              generation |-> 0,     \* front buffer snapshots
              at |-> "slice",       \* or inspect, presenter: awaiting in inspectRuntime
              lastSwaps |-> 0,      \* state.lastSwapCount
              presenter |-> FALSE,  \* state.webgpuPresenter
              presented |-> 0,      \* presentation.generation
              captured |-> TRUE,    \* history: the last front buffer asked for was decoded
              soft |-> NothingShown,\* titleFrameCanvas
              gpu |-> NothingShown] \* titleFrameWebGPUCanvas

\* What the player sees.
Visible(o) == IF o.gpu.shown THEN o.gpu.picture ELSE IF o.soft.shown THEN o.soft.picture ELSE 0

\* guestRunOptions asks for the play path before the title runs.
RequestPath ==
    /\ output.path = "none" /\ output.frames = 0
    /\ output' = [output EXCEPT !.requested = TRUE, !.path = "pending"]

\* createXenosWebGpuPlayPath ends: no adapter, no recorder, or the core records.
PathCreated ==
    /\ output.path = "pending"
    /\ \/ output' = [output EXCEPT !.path = "failed"]
       \/ output' = [output EXCEPT !.path = "ready", !.recording = TRUE]

\* device.lost
PathLost ==
    /\ output.path = "ready"
    /\ output' = [output EXCEPT !.path = "lost"]

-----------------------------------------------------------------------------
(* One slice.                                                              *)

\* The guest runs: perhaps another frame, recorded or drawn.
AfterGuest(o, n, w) ==
    [o EXCEPT !.frames = @ + n,
              !.words = IF ~o.recording THEN @ ELSE IF @ + w > MaxWords THEN MaxWords ELSE @ + w,
              !.drawn = IF o.recording THEN @ ELSE o.frames + n]

\* The play path's slice(): replays a stream that has grown.
Replayed(o) == IF o.path = "ready" /\ o.words > MaxPending THEN [o EXCEPT !.words = 0] ELSE o

\* frame(): replays, shows the WebGPU canvas and presents.
PathFrame(o) == [o EXCEPT !.words = 0, !.gpu = [shown |-> TRUE, picture |-> o.frames]]

\* captureTitleFrontbuffer: decodes what is in guest memory now.
Snapshot(o, ok) == [o EXCEPT !.generation = IF ok THEN @ + 1 ELSE @, !.captured = ok]

FaultyOnSoft(o) == [o EXCEPT !.soft = [shown |-> TRUE, picture |-> o.drawn]]

\* presentTitleFrontbuffer: the frame on the 2D canvas, the other one hidden.
OnSoft(o) == [o EXCEPT !.soft = [shown |-> TRUE, picture |-> o.drawn], !.gpu.shown = FALSE]

\* onFrame of guestRunOptions.
OnFrame(o, ok) ==
    IF o.path = "ready" THEN PathFrame([o EXCEPT !.captured = TRUE])
    ELSE IF ok THEN OnSoft(Snapshot(o, ok)) ELSE Snapshot(o, ok)

\* onGuestSlice: the stream first, then every new frame.
GuestSlice ==
    /\ output.at = "slice"
    /\ \E n \in 0 .. 1, w \in 0 .. SliceWords, ok \in BOOLEAN :
        LET o == Replayed(AfterGuest(output, n, w))
        IN  /\ o.frames <= MaxFrames /\ o.generation < MaxGenerations
            /\ output' = IF o.frames # o.lastFrames
                         THEN [OnFrame(o, ok) EXCEPT !.lastFrames = o.frames]
                         ELSE o

-----------------------------------------------------------------------------
(* inspectRuntime, after a pump.                                           *)

\* showTitleWebGPUCanvas and present: the other canvas hidden.
OnGpu(o) == [o EXCEPT !.gpu = [shown |-> TRUE, picture |-> o.drawn], !.soft.shown = FALSE,
                      !.presented = o.generation]

\* The 2D canvas takes a frame that no presenter took.
SoftFallback(o) ==
    IF o.presented # o.generation THEN [OnSoft(o) EXCEPT !.presented = o.generation] ELSE o

InspectEnds(o) == [o EXCEPT !.at = "slice", !.lastSwaps = o.frames]

\* Up to the presenter: nothing new, not decoded, one there already, or one wanted.
Inspect ==
    /\ output.at = "slice" /\ output.path \in {"none", "failed"}
    /\ \E force, ok, webgl2 \in BOOLEAN :
        LET o == Snapshot(output, ok)
        IN  IF output.frames = 0 \/ (~force /\ output.frames = output.lastSwaps)
            THEN output' = InspectEnds(output)
            ELSE /\ o.generation <= MaxGenerations
                 /\ output' = IF ~ok THEN InspectEnds(o)
                              ELSE IF webgl2 THEN InspectEnds(SoftFallback(o))
                              ELSE IF o.presenter THEN InspectEnds(OnGpu(o))
                              ELSE [o EXCEPT !.at = "presenter", !.gpu.shown = TRUE, !.soft.shown = FALSE]

\* createRgbaFramePresenter ends.
PresenterCreated ==
    /\ output.at = "presenter"
    /\ \/ output' = InspectEnds(OnGpu([output EXCEPT !.presenter = TRUE]))
       \/ output' = InspectEnds(SoftFallback(output))

\* hideTitleFrontbuffer, of a run that ends.
HideFrames ==
    /\ output.at = "slice" /\ (output.gpu.shown \/ output.soft.shown)
    /\ output' = [output EXCEPT !.gpu.shown = FALSE, !.soft.shown = FALSE,
                                !.captured = FALSE, !.presenter = FALSE, !.presented = 0]

OutputNext ==
    \/ RequestPath \/ PathCreated \/ PathLost
    \/ GuestSlice \/ Inspect \/ PresenterCreated \/ HideFrames

OutputSpec == OutputInit /\ [][OutputNext]_output

-----------------------------------------------------------------------------
(* Properties                                                              *)

Settled == output.at = "slice" /\ output.captured /\ output.frames > 0

\* Whichever canvas took the last frame, it is the one the player sees, and it
\* shows the newest frame: neither covers the other with an old one
\* (render360-title-frontbuffer.mjs:83-124, content bridge :196-216).
NewestIsVisible ==
    Settled /\ ~output.recording => Visible(output) = output.frames

\* The recorded stream is replayed before it outgrows the bound, also when
\* the title shows no frames (render360-webgpu-play.mjs:32-38).
StreamStaysBounded == output.path = "ready" => output.words <= MaxPending

\* The player sees the newest frame, and what no frame takes does not pile up.
OutputKeepsUp == NewestIsVisible /\ StreamStaysBounded
=============================================================================
