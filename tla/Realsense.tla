------------------------------ MODULE Realsense ------------------------------
(***************************************************************************)
(* RealsenseCameraService of src/sensors/realsense_camera.py: start() and  *)
(* stop(), which the application calls once each, and the thread that      *)
(* polls frames.  Frames, intrinsics and the text of errors are left out.  *)
(***************************************************************************)
EXTENDS Naturals

VARIABLES
    device,                  \* the camera: a started pipeline holds it
    pipeline,                \* _pipeline is set
    service,                 \* where start() or stop() is
    running,                 \* _running
    available, status,       \* _available and _status
    poll,                    \* the polling thread
    stopEvent,               \* _stop_event
    stopRaised               \* history: pipeline.stop() raised

realsenseVars == <<device, pipeline, service, running, available, status, poll, stopEvent, stopRaised>>

RealsenseTypeOK ==
    /\ device \in {"closed", "open"}
    /\ service \in {"new", "opened", "first", "failing", "failed", "disabled",
                    "serving", "join", "close", "stopped"}
    /\ status \in {"waiting_to_start", "disabled", "failed", "streaming", "stream_error", "stopped"}
    /\ poll \in {"none", "wait", "wake", "capture", "ended"}
    /\ {pipeline, running, available, stopEvent, stopRaised} \subseteq BOOLEAN

RealsenseInit ==
    /\ device = "closed" /\ service = "new" /\ status = "waiting_to_start" /\ poll = "none"
    /\ pipeline = FALSE /\ running = FALSE /\ available = FALSE
    /\ stopEvent = FALSE /\ stopRaised = FALSE

(* _set_status(), and with a failure what the caller falls back to. *)
Report(s, a) == status' = s /\ available' = a

(* Disabled by the configuration; or no streams, or no library. *)
StartRefused ==
    /\ service = "new"
    /\ \/ service' = "disabled" /\ Report("disabled", FALSE)
       \/ service' = "failed" /\ Report("failed", FALSE)
    /\ UNCHANGED <<device, pipeline, running, poll, stopEvent, stopRaised>>

(* pipeline.start() *)
StartOpen ==
    /\ service = "new"
    /\ \/ device' = "open" /\ service' = "opened"
       \/ service' = "failing" /\ UNCHANGED device
    /\ UNCHANGED <<pipeline, running, available, status, poll, stopEvent, stopRaised>>

(* align() may raise before the pipeline is published. *)
StartPublish ==
    /\ service = "opened"
    /\ \/ service' = "first" /\ pipeline' = TRUE
       \/ service' = "failing" /\ UNCHANGED pipeline
    /\ UNCHANGED <<device, running, available, status, poll, stopEvent, stopRaised>>

(* The first capture; then the thread starts. *)
StartStreams ==
    /\ service = "first"
    /\ \/ /\ service' = "serving" /\ running' = TRUE /\ Report("streaming", TRUE)
          /\ stopEvent' = FALSE /\ poll' = "wait"
       \/ service' = "failing" /\ UNCHANGED <<running, available, status, stopEvent, poll>>
    /\ UNCHANGED <<device, pipeline, stopRaised>>

(* pipeline.stop() *)
ReleaseDevice ==
    \/ device' = "closed" /\ UNCHANGED stopRaised
    \/ stopRaised' = TRUE /\ UNCHANGED device

\* Mutant of StartFails: the pipeline is only forgotten.
StartFailsOpen ==
    /\ service = "failing" /\ service' = "failed"
    /\ pipeline' = FALSE /\ running' = FALSE /\ Report("failed", FALSE)
    /\ UNCHANGED <<device, poll, stopEvent, stopRaised>>

StartFails ==
    /\ service = "failing" /\ service' = "failed"
    /\ ReleaseDevice
    /\ pipeline' = FALSE /\ running' = FALSE /\ Report("failed", FALSE)
    /\ UNCHANGED <<poll, stopEvent>>

(* stop(): under the lock everything is forgotten, the frames in flight are not. *)
StopForget ==
    /\ service \in {"failed", "disabled", "serving"}
    /\ service' = IF poll # "none" THEN "join" ELSE IF pipeline THEN "close" ELSE "stopped"
    /\ pipeline' = FALSE /\ running' = FALSE /\ stopEvent' = TRUE
    /\ Report(IF service = "disabled" THEN "disabled" ELSE "stopped", FALSE)
    /\ UNCHANGED <<device, poll, stopRaised>>

(* join(timeout=1.5): a capture may wait for frames for longer. *)
StopJoin ==
    /\ service = "join" /\ service' = "close"
    /\ UNCHANGED <<device, pipeline, running, available, status, poll, stopEvent, stopRaised>>

StopClose ==
    /\ service = "close" /\ service' = "stopped"
    /\ ReleaseDevice
    /\ UNCHANGED <<pipeline, running, available, status, poll, stopEvent>>

(* _run(): the event is asked first, the pipeline later. *)
PollWakes ==
    /\ poll = "wait" /\ poll' = IF stopEvent THEN "ended" ELSE "wake"
    /\ UNCHANGED <<device, pipeline, service, running, available, status, stopEvent, stopRaised>>

(* A pipeline forgotten in between is an error of the stream. *)
PollFrame ==
    /\ poll = "wake"
    /\ \/ pipeline /\ poll' = "capture" /\ UNCHANGED <<available, status>>
       \/ ~pipeline /\ poll' = "wait" /\ Report("stream_error", FALSE)
    /\ UNCHANGED <<device, pipeline, service, running, stopEvent, stopRaised>>

FrameArrives ==
    /\ poll = "capture" /\ poll' = "wait"
    /\ \/ Report("streaming", TRUE)
       \/ Report("stream_error", FALSE)
    /\ UNCHANGED <<device, pipeline, service, running, stopEvent, stopRaised>>

RealsenseNext ==
    \/ StartRefused \/ StartOpen \/ StartPublish \/ StartStreams \/ StartFails
    \/ StopForget \/ StopJoin \/ StopClose \/ PollWakes \/ PollFrame \/ FrameArrives

RealsenseSpec == RealsenseInit /\ [][RealsenseNext]_realsenseVars

(* Another program can open the camera after a failed start and after a stop:
   whoever leaves it open is on the way to close it, unless the library could
   not. *)
CameraReleased ==
    device = "open" =>
        stopRaised \/ service \in {"opened", "first", "failing", "serving", "join", "close"}
=============================================================================
