---------------------------- MODULE EntryScreen -----------------------------
(***************************************************************************)
(* frontend/src/pages/VehicleEntryPage.tsx and CameraScannerDialog.tsx.    *)
(***************************************************************************)
EXTENDS DeskTab

CONSTANTS
    MaxPending,     \* bound: permissions the user has not answered yet
    Overlay         \* bound: if FALSE, the camera dialog is only opened while the
                    \* page waits for no answer

ASSUME CameraAssumption == MaxPending \in Nat /\ Overlay \in BOOLEAN

VARIABLES
    saving,     \* the form is being saved
    camera      \* the camera dialog

entryScreenVars == <<saving, camera>>

(* asked: the permission of the open dialog is awaited; before: those of   *)
(* dialogs closed since.  live: the stream is held.                        *)
NoCamera == [open |-> FALSE, asked |-> FALSE, live |-> FALSE, before |-> 0, scanning |-> FALSE]

Camera == [open : BOOLEAN, asked : BOOLEAN, live : BOOLEAN, before : 0 .. MaxPending, scanning : BOOLEAN]

EntryScreenTypeOK == saving \in BOOLEAN /\ camera \in Camera

EntryScreenInit == saving = FALSE /\ camera = NoCamera

(* Nothing covers the form. *)
AtForm == view = "entry" /\ ~ReceiptOpen /\ ~camera.open

TypeEntry(v) ==
    /\ AtForm
    /\ field' = v /\ v # field
    /\ Watch(v)
    /\ UNCHANGED <<serverVars, view, shown, receipt, entryScreenVars>>

(* submit. *)
Submit(c, advance) ==
    /\ AtForm /\ field # None /\ ~saving
    /\ saving' = TRUE
    /\ call' = Send(call, c, "create", field, None, advance)
    /\ UNCHANGED <<now, tariff, entry, tabVars, camera>>

Saved(c) ==
    /\ Done(c, "create")
    /\ saving' = FALSE
    /\ field' = None
    /\ Watch(None)
    /\ MaybeLoadReceipt(call[c].entry)
    /\ call' = Heard(c)
    /\ UNCHANGED <<now, tariff, entry, view, shown, camera>>

SaveFailed(c) ==
    /\ Failed(c, "create")
    /\ saving' = FALSE
    /\ call' = GivenUp(c)
    /\ UNCHANGED <<now, tariff, entry, tabVars, camera>>

-----------------------------------------------------------------------------
(* CameraScannerDialog: the effect on open, and its clean-up. *)

OpenCamera ==
    /\ AtForm /\ camera.before < MaxPending
    /\ Overlay \/ (Free = Call /\ asked = {})
    /\ camera' = [camera EXCEPT !.open = TRUE, !.asked = TRUE]
    /\ UNCHANGED <<serverVars, tabVars, saving>>

(* The dialog is closed: the stream is stopped, or will be when granted. *)
Closed(cam) ==
    [cam EXCEPT !.open = FALSE, !.asked = FALSE, !.live = FALSE,
                !.before = IF cam.asked THEN @ + 1 ELSE @]

CloseCamera ==
    /\ camera.open
    /\ camera' = Closed(camera)
    /\ UNCHANGED <<serverVars, tabVars, saving>>

PermissionAnswered(granted) ==
    /\ camera.asked
    /\ camera' = [camera EXCEPT !.asked = FALSE, !.live = granted]
    /\ UNCHANGED <<serverVars, tabVars, saving>>

(* Mutant: the stream is kept whether or not the dialog is still open. *)
LateStreamKept ==
    /\ camera.before > 0
    /\ camera' = [camera EXCEPT !.before = @ - 1, !.live = TRUE]
    /\ UNCHANGED <<serverVars, tabVars, saving>>

(* A permission is answered after its dialog was closed. *)
LatePermission ==
    /\ camera.before > 0
    /\ camera' = [camera EXCEPT !.before = @ - 1]
    /\ UNCHANGED <<serverVars, tabVars, saving>>

(* captureImage; the image goes into the form. *)
CaptureImage ==
    /\ camera.live
    /\ camera' = Closed(camera)
    /\ UNCHANGED <<serverVars, tabVars, saving>>

(* scanQr. *)
ScanQr ==
    /\ camera.open /\ ~camera.scanning
    /\ camera' = [camera EXCEPT !.scanning = TRUE]
    /\ UNCHANGED <<serverVars, tabVars, saving>>

(* A code that is found closes the dialog, as it is open by then. *)
Scanned(found) ==
    /\ camera.scanning
    /\ camera' = [IF found THEN Closed(camera) ELSE camera EXCEPT !.scanning = FALSE]
    /\ UNCHANGED <<serverVars, tabVars, saving>>

EntryScreenStep ==
    \/ \E v \in Plate \cup {None} : TypeEntry(v)
    \/ \E c \in Free, a \in Advance : Submit(c, a)
    \/ \E c \in Call : Saved(c) \/ SaveFailed(c)
    \/ OpenCamera \/ CloseCamera \/ LatePermission \/ CaptureImage \/ ScanQr
    \/ \E b \in BOOLEAN : PermissionAnswered(b) \/ Scanned(b)
=============================================================================
