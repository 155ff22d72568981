----------------------------- MODULE CameraBridge -----------------------------
(***************************************************************************)
(* RealSenseCameraBridgeNode of go2_bridge/camera_bridge.py, with a color  *)
(* and a depth stream: the constructor and the retry timer look for the    *)
(* camera, the frame timer publishes its images with the intrinsics that   *)
(* were read when its pipeline was started.  The camera is unplugged and   *)
(* plugged in meanwhile.  Images and intrinsics are left out: what matters *)
(* of an intrinsic is whether it is of the pipeline that is set.           *)
(***************************************************************************)
EXTENDS Naturals

CONSTANT MaxGlitches     \* bound: calls of the library that fail though the camera is there

ASSUME CameraAssumption == MaxGlitches \in Nat

VARIABLES
    camera_node,  \* main(): "new" in the constructor, "spin", "closing" or "ended"
    required,     \* _required
    library,      \* cv_bridge, pyrealsense2 and numpy could be imported
    plugged,      \* the camera is plugged in
    glitches,     \* calls that have failed though it was
    ensure,       \* where _ensure_pipeline is, "idle" outside
    pipeline,     \* _pipeline is set
    streaming,    \* a pipeline of this process has the camera
    started,      \* _started
    warned,       \* _warned_unavailable
    color_info,   \* _color_intrinsics: "none", "current", or "stale" of an earlier pipeline
    depth_info,   \* _depth_intrinsics
    shown,        \* the intrinsics that went with the last image
    stop_raised   \* history: stop() of a pipeline that had the camera raised

cameraVars == <<camera_node, required, library, plugged, glitches, ensure, pipeline, streaming, started,
                warned, color_info, depth_info, shown, stop_raised>>

Info == {"none", "stale", "current"}
NodePlace == {"new", "spin", "closing", "ended"}
AttemptPlace == {"idle", "query", "open", "color", "depth", "except"}

CameraTypeOK ==
    /\ camera_node \in NodePlace
    /\ required \in BOOLEAN /\ library \in BOOLEAN /\ plugged \in BOOLEAN
    /\ glitches \in 0 .. MaxGlitches
    /\ ensure \in AttemptPlace
    /\ pipeline \in BOOLEAN /\ streaming \in BOOLEAN /\ started \in BOOLEAN
    /\ warned \in BOOLEAN /\ stop_raised \in BOOLEAN
    /\ color_info \in Info /\ depth_info \in Info /\ shown \in Info

CameraInit ==
    /\ camera_node = "new"
    /\ required \in BOOLEAN /\ library \in BOOLEAN /\ plugged \in BOOLEAN
    /\ glitches = 0
    /\ ensure = "idle"
    /\ pipeline = FALSE /\ streaming = FALSE /\ started = FALSE
    /\ warned = FALSE /\ stop_raised = FALSE
    /\ color_info = "none" /\ depth_info = "none" /\ shown = "none"

infoVars == <<color_info, depth_info, shown>>
worldVars == <<required, library, plugged>>
-----------------------------------------------------------------------------
(* _ensure_pipeline, of the constructor and of the retry timer              *)

\* An attempt that fails ends the node when the camera is required: nobody
\* catches the error of the constructor, and that of the timer ends spin().
Unavailable ==
    IF required
    THEN camera_node' = (IF camera_node = "new" THEN "ended" ELSE "closing") /\ UNCHANGED warned
    ELSE camera_node' = "spin" /\ warned' = TRUE

\* Mutant of EnsureBegin: no attempt is made after the warning
EnsureBeginUnwarned ==
    /\ camera_node \in {"new", "spin"} /\ ensure = "idle" /\ ~started /\ ~warned
    /\ IF library
       THEN ensure' = "query" /\ UNCHANGED <<camera_node, warned>>
       ELSE Unavailable /\ UNCHANGED ensure
    /\ UNCHANGED <<worldVars, glitches, pipeline, streaming, started, infoVars, stop_raised>>

EnsureBegin ==
    /\ camera_node \in {"new", "spin"} /\ ensure = "idle" /\ ~started
    /\ IF library
       THEN ensure' = "query" /\ UNCHANGED <<camera_node, warned>>
       ELSE Unavailable /\ UNCHANGED ensure
    /\ UNCHANGED <<worldVars, glitches, pipeline, streaming, started, infoVars, stop_raised>>

\* a call of the library raises: the camera is not there, or for no such reason
LibraryRaises(expected) ==
    /\ ensure' = "except"
    /\ \/ expected /\ UNCHANGED glitches
       \/ ~expected /\ glitches < MaxGlitches /\ glitches' = glitches + 1

\* query_devices()
EnsureQuery ==
    /\ ensure = "query"
    /\ \/ plugged /\ ensure' = "open" /\ UNCHANGED glitches
       \/ LibraryRaises(~plugged)
    /\ UNCHANGED <<camera_node, worldVars, pipeline, streaming, started, warned, infoVars, stop_raised>>

OfEarlier(info) == IF info = "none" THEN "none" ELSE "stale"

\* a new pipeline, and its start(): it fails while another has the camera
EnsureOpen ==
    /\ ensure = "open"
    /\ pipeline' = TRUE
    /\ color_info' = OfEarlier(color_info) /\ depth_info' = OfEarlier(depth_info)
    /\ \/ plugged /\ ~streaming /\ streaming' = TRUE /\ ensure' = "color" /\ UNCHANGED glitches
       \/ LibraryRaises(~plugged \/ streaming) /\ UNCHANGED streaming
    /\ UNCHANGED <<camera_node, worldVars, started, warned, shown, stop_raised>>

\* _capture_intrinsics: those of the color stream ...
EnsureColor ==
    /\ ensure = "color"
    /\ \/ color_info' = "current" /\ ensure' = "depth" /\ UNCHANGED glitches
       \/ LibraryRaises(~plugged) /\ UNCHANGED color_info
    /\ UNCHANGED <<camera_node, worldVars, pipeline, streaming, started, warned, depth_info, shown,
                   stop_raised>>

\* ... and those of the depth stream; then the node has a camera
EnsureDepth ==
    /\ ensure = "depth"
    /\ \/ /\ depth_info' = "current" /\ ensure' = "idle" /\ started' = TRUE
          /\ warned' = FALSE /\ camera_node' = "spin" /\ UNCHANGED glitches
       \/ LibraryRaises(~plugged) /\ UNCHANGED <<camera_node, started, warned, depth_info>>
    /\ UNCHANGED <<worldVars, pipeline, streaming, color_info, shown, stop_raised>>

\* stop() of a pipeline: it raises when there is nothing to stop, and when it
\* fails, after which the camera may be free or not
StopPipeline ==
    \/ streaming' = FALSE /\ UNCHANGED stop_raised
    \/ streaming /\ streaming' \in BOOLEAN /\ stop_raised' = TRUE

\* Mutant of EnsureExcept: the pipeline is forgotten and not stopped
EnsureExceptForgets ==
    /\ ensure = "except"
    /\ ensure' = "idle"
    /\ pipeline' = FALSE /\ started' = FALSE
    /\ Unavailable
    /\ UNCHANGED <<worldVars, glitches, streaming, infoVars, stop_raised>>

EnsureExcept ==
    /\ ensure = "except"
    /\ ensure' = "idle"
    /\ IF pipeline THEN StopPipeline ELSE UNCHANGED <<streaming, stop_raised>>
    /\ pipeline' = FALSE /\ started' = FALSE
    /\ Unavailable
    /\ UNCHANGED <<worldVars, glitches, infoVars>>

Ensure == EnsureBegin \/ EnsureQuery \/ EnsureOpen \/ EnsureColor \/ EnsureDepth \/ EnsureExcept
-----------------------------------------------------------------------------
\* _publish_frames: an image with the intrinsics of its stream; an error of
\* the library or of a conversion ends spin()
PublishFrames ==
    /\ camera_node = "spin" /\ ensure = "idle" /\ started
    /\ \/ plugged /\ shown' \in {color_info, depth_info} /\ UNCHANGED camera_node
       \/ camera_node' = "closing" /\ UNCHANGED shown
    /\ UNCHANGED <<worldVars, glitches, ensure, pipeline, streaming, started, warned, color_info,
                   depth_info, stop_raised>>

\* an interrupt, wherever the node is: of the constructor there is no node left
CameraInterrupt ==
    /\ camera_node \in {"new", "spin"}
    /\ camera_node' = IF camera_node = "new" THEN "ended" ELSE "closing"
    /\ ensure' = "idle"
    /\ UNCHANGED <<worldVars, glitches, pipeline, streaming, started, warned, infoVars, stop_raised>>

\* shutdown() of the node; the end of the process frees the camera
Close ==
    /\ camera_node = "closing"
    /\ camera_node' = "ended"
    /\ IF started /\ pipeline THEN StopPipeline ELSE UNCHANGED <<streaming, stop_raised>>
    /\ started' = FALSE
    /\ UNCHANGED <<worldVars, glitches, ensure, pipeline, warned, infoVars>>

\* somebody at the plug
Plug ==
    /\ camera_node # "ended"
    /\ plugged' = ~plugged
    /\ UNCHANGED <<camera_node, required, library, glitches, ensure, pipeline, streaming, started, warned,
                   infoVars, stop_raised>>

CameraNext == Ensure \/ PublishFrames \/ CameraInterrupt \/ Close \/ Plug

CameraSpec == CameraInit /\ [][CameraNext]_cameraVars
-----------------------------------------------------------------------------
(* Properties                                                               *)

\* While the node runs, whatever attempt has failed half-way, the camera is
\* held only by the attempt that goes on or by the pipeline that publishes:
\* a pipeline nobody owns would keep every later attempt out
\* (_ensure_pipeline).
CameraOwned ==
    camera_node \in {"new", "spin"} /\ streaming =>
        stop_raised \/ (pipeline /\ (started \/ ensure \in {"color", "depth", "except"}))

\* No image is published with the intrinsics of another pipeline, though an
\* attempt that failed may leave its own behind (_capture_intrinsics,
\* _publish_frames).
IntrinsicsMatch == shown # "stale"

\* A node that requires the camera spins only after an attempt to find it has
\* gone through to its end: it has a pipeline, and the intrinsics are those of
\* that pipeline; an attempt that fails, wherever, never leaves it running
\* (_ensure_pipeline).  This does not say that the camera is there still:
\* _started stays set when it is unplugged.
RequiredWasFound ==
    required /\ camera_node = "spin" =>
        started /\ pipeline /\ color_info = "current" /\ depth_info = "current"

\* A camera that stays plugged in is found, however often it was not before,
\* unless the library could not stop a pipeline (the retry timer).
CameraFound ==
    <>[]plugged => <>(started \/ stop_raised \/ ~library \/ camera_node \in {"closing", "ended"})
=============================================================================
