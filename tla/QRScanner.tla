----------------------------- MODULE QRScanner -----------------------------
(***************************************************************************)
(* The camera of the check-in screen (components/operario/qr-scanner.tsx):  *)
(* a component that remembers one Html5Qrcode object in scannerRef and      *)
(* starts and stops it asynchronously.  The library's stop throws unless    *)
(* the object is running and not being stopped already; the component       *)
(* swallows that.                                                           *)
(***************************************************************************)
CONSTANTS
    Scanner,    \* Html5Qrcode objects, one per start
    NoScanner   \* scannerRef.current = null

ScannerAssumption == NoScanner \notin Scanner

VARIABLES
    mounted,
    scannerRef,
    scanning,       \* which of its two faces the button shows
    cameraError,
    camera,         \* what each object's camera does
    scans,          \* objects that have reported a code
    hasty           \* history: objects that were started while another one was being
                    \* stopped, or during whose start the component started or stopped one

vars == <<mounted, scannerRef, scanning, cameraError, camera, scans, hasty>>

Starting == {s \in Scanner : camera[s] = "starting"}
Running == {s \in Scanner : camera[s] = "running"}
Stopping == {s \in Scanner : camera[s] = "stopping"}

Init ==
    /\ mounted = TRUE
    /\ scannerRef = NoScanner
    /\ scanning = FALSE
    /\ cameraError = FALSE
    /\ camera = [s \in Scanner |-> "unused"]
    /\ scans = {}
    /\ hasty = {}

\* startScanning up to its await: the reference is overwritten.
StartScanning(s) ==
    /\ mounted /\ ~scanning
    /\ camera[s] = "unused"
    /\ cameraError' = FALSE
    /\ scannerRef' = s
    /\ camera' = [camera EXCEPT ![s] = "starting"]
    /\ hasty' = hasty \cup Starting \cup {t \in {s} : Stopping # {}}
    /\ UNCHANGED <<mounted, scanning, scans>>

\* start resolves, whether or not the component is still there.
Started(s) ==
    /\ camera[s] = "starting"
    /\ camera' = [camera EXCEPT ![s] = "running"]
    /\ scanning' = TRUE
    /\ UNCHANGED <<mounted, scannerRef, cameraError, scans, hasty>>

\* No permission, or no camera; the reference stays.
StartFails(s) ==
    /\ camera[s] = "starting"
    /\ camera' = [camera EXCEPT ![s] = "failed"]
    /\ cameraError' = TRUE
    /\ UNCHANGED <<mounted, scannerRef, scanning, scans, hasty>>

\* The reference forgotten before stop is called.
StopScanningForgets ==
    /\ scannerRef' = NoScanner
    /\ scanning' = FALSE
    /\ hasty' = hasty \cup Starting
    /\ UNCHANGED camera

\* stopScanning up to its await; when stop throws, it goes on at once.
StopScanning ==
    /\ hasty' = hasty \cup Starting
    /\ IF scannerRef # NoScanner /\ camera[scannerRef] = "running"
       THEN /\ camera' = [camera EXCEPT ![scannerRef] = "stopping"]
            /\ UNCHANGED <<scannerRef, scanning>>
       ELSE /\ scannerRef' = NoScanner
            /\ scanning' = FALSE
            /\ UNCHANGED camera

\* The button, while it reads "Detener cámara".
StopButton ==
    /\ mounted /\ scanning
    /\ StopScanning
    /\ UNCHANGED <<mounted, cameraError, scans>>

\* A code in view: the page is told, then the camera is stopped.
Scan(s) ==
    /\ camera[s] = "running"
    /\ scans' = scans \cup {s}
    /\ StopScanning
    /\ UNCHANGED <<mounted, cameraError>>

\* stop resolves.  clear acts on the object scannerRef has by now, or throws.
Stopped(s) ==
    /\ camera[s] = "stopping"
    /\ camera' = [camera EXCEPT ![s] = "stopped"]
    /\ scannerRef' = NoScanner
    /\ scanning' = FALSE
    /\ UNCHANGED <<mounted, cameraError, scans, hasty>>

\* A result is shown, or the tab or the page is left: the effect's cleanup.
Unmount ==
    /\ mounted
    /\ mounted' = FALSE
    /\ StopScanning
    /\ UNCHANGED <<cameraError, scans>>

Next ==
    \/ \E s \in Scanner : StartScanning(s) \/ Started(s) \/ StartFails(s) \/ Scan(s) \/ Stopped(s)
    \/ StopButton \/ Unmount

Spec == Init /\ [][Next]_vars

\* The library's promises settle.
FairSpec == Spec /\ \A s \in Scanner : WF_vars(Started(s) \/ StartFails(s)) /\ WF_vars(Stopped(s))

-----------------------------------------------------------------------------
TypeOK ==
    /\ mounted \in BOOLEAN
    /\ scannerRef \in Scanner \cup {NoScanner}
    /\ scanning \in BOOLEAN
    /\ cameraError \in BOOLEAN
    /\ camera \in [Scanner -> {"unused", "starting", "running", "failed", "stopping", "stopped"}]
    /\ scans \subseteq Scanner /\ hasty \subseteq Scanner

\* A camera that starts or runs is the one scannerRef has and the button switches off,
\* so there is one at most.  One whose start was cut into may run beside it, out of reach:
\* stop throws while it starts, and the reference is gone when it runs.
OneCamera == Starting \cup Running \subseteq {scannerRef} \cup hasty

\* The button never offers to stop a camera that is off, and hides none that runs, even
\* if a scan, the button and the unmount stop it twice over; but for hasty starts again.
ButtonIsTrue ==
    /\ scanning => Running \cup Stopping # {}
    /\ ~scanning => Running \subseteq hasty

\* An unmounted scanner lets go of the camera, unless it was left during a start.
CameraReleased == ~mounted ~> Running \cup Stopping \subseteq hasty

\* The inductive invariant: one camera at a time, but for hasty starts, is also what makes
\* the answer of a stop clear no other camera's reference.
IInv ==
    /\ TypeOK
    /\ OneCamera
    /\ ButtonIsTrue
    /\ Stopping # {} => Starting \cup Running \subseteq hasty
    /\ ~mounted => Starting \cup Running \subseteq hasty
=============================================================================
