---------------------------- MODULE DeskScreens -----------------------------
(***************************************************************************)
(* A till of the web client: the entry page, the log of open entries and   *)
(* the exit page, between which the operator moves, over the endpoints     *)
(* they call.                                                              *)
(***************************************************************************)
EXTENDS EntryScreen, ExitScreen

vars == <<serverVars, tabVars, entryScreenVars, exitScreenVars>>

Init == ServerInit /\ TabInit /\ EntryScreenInit /\ ExitScreenInit

(* The pages' own state goes with them; the camera dialog's clean-up stops *)
(* its stream, and one that is granted later.                              *)
Unmounted ==
    /\ saving' = FALSE
    /\ camera' = NoCamera
    /\ due' = None /\ paid' = 0 /\ exiting' = FALSE

Navigate(screen) ==
    /\ screen # view
    /\ Mount(screen, Abandoned)
    /\ loading' = FALSE
    /\ Unmounted

(* The Exit link of a vehicle in the log: the exit page selects it.        *)
ExitFromLog(e) ==
    /\ view = "log" /\ e \in Listed
    /\ \E c \in Call :
        /\ Abandoned[c] = NoCall
        /\ Mount("exit", Send(Abandoned, c, "select", None, e, 0))
    /\ loading' = TRUE
    /\ Unmounted

TabStep ==
    \/ TypingPaused
    \/ RetryReceipt \/ CloseReceipt
    \/ \E v \in Plate : MembershipAnswered(v)
    \/ \E e \in Entry : ReceiptAnswered(e) \/ ReceiptFailed(e)

Next ==
    \/ ServerNext /\ UNCHANGED <<tabVars, entryScreenVars, exitScreenVars>>
    \/ TabStep /\ UNCHANGED <<entryScreenVars, exitScreenVars>>
    \/ EntryScreenStep /\ UNCHANGED exitScreenVars
    \/ ExitScreenStep /\ UNCHANGED entryScreenVars
    \/ \E screen \in {"entry", "exit", "log"} : Navigate(screen)
    \/ \E e \in Entry : ExitFromLog(e)

Spec == Init /\ [][Next]_vars

-----------------------------------------------------------------------------
(* Pages, dialogs and documents hold values of the types the code gives    *)
(* them.                                                                   *)
TypeOK ==
    /\ ServerTypeOK /\ TabTypeOK
    /\ EntryScreenTypeOK /\ ExitScreenTypeOK

(* A visit that ends costs what the tariff of its own admission says of    *)
(* its stay, to the rounding of the tax, all of it collected and none of   *)
(* it twice: whatever balance a page showed, whatever amount the operator  *)
(* typed, whenever the rate was changed.                                   *)
RightMinutes(e, m) ==
    /\ m >= 1
    /\ m * TicksPerMinute >= now - entry[e].at
    /\ m = 1 \/ (m - 1) * TicksPerMinute < now - entry[e].at

RightPrice(total, slab) ==
    LET gross == 10000 * slab.amount + slab.amount * slab.gst
    IN  10000 * total - gross <= 5000 /\ gross - 10000 * total < 5000

RightSettlement(e, settled) ==
    /\ \E m \in 1 .. now + 1, i \in DOMAIN Rate[entry[e].slabs] :
        LET slab == Rate[entry[e].slabs][i] IN
        /\ RightMinutes(e, m)
        /\ slab.from <= m /\ (slab.to # None => m < slab.to)
        /\ RightPrice(settled.total, slab)
    /\ settled.applied <= entry[e].advance
    /\ settled.applied + settled.paid = settled.total

SettledAtItsPrice ==
    [][\A e \in Entry :
        entry[e].status = "open" /\ entry'[e].status = "closed" => RightSettlement(e, entry'[e])]_vars

(* The endpoints as the pages see them keep what the desk promises: a      *)
(* vehicle is let in at most once before it leaves, and leaves once, keeps *)
(* its number, and never comes back under the same entry.  The desk call   *)
(* by call (ParkingSystem) implements the same promise; here a visit is    *)
(* settled by the exit that is kept in the entry's place.                  *)
Visits ==
    INSTANCE ParkingVisits WITH
        Visit <- Entry, Settlement <- Entry, NoValue <- None,
        inside <- {e \in Entry : entry[e].status = "open"},
        left <- {e \in Entry : entry[e].status = "closed"},
        plate <- [e \in Entry |-> entry[e].plate],
        settledBy <- [e \in Entry |-> IF entry[e].status = "closed" THEN e ELSE None]

ServesVisits == Visits!VisitSpec

(* Once its lookups are answered, a page shows the pass of the vehicle it  *)
(* is about or none, however fast numbers were typed and entries           *)
(* retrieved, and in whatever order the answers came.                      *)
MembershipSettles == ~typing /\ Subject \notin asked => member \in {None, Subject}

(* The dialog shows the receipt it was last opened for, and one that loads *)
(* waits for an answer still to come.                                      *)
ReceiptIsLatest ==
    /\ receipt.shown # None => receipt.shown = receipt.for
    /\ receipt.loading => receipt.for \in receipt.asked

(* A button that is disabled while something is under way is enabled       *)
(* again: its page has a call whose answer or failure does it.  A form is  *)
(* submitted once at a time.                                               *)
Pending(ops) == {c \in Call : call[c].heard /\ call[c].op \in ops}

BusyHasCause ==
    /\ loading => Pending({"lookup", "charge", "recover", "select"}) # {}
    /\ Cardinality(Pending({"exit"})) = IF exiting THEN 1 ELSE 0
    /\ Cardinality(Pending({"create"})) = IF saving THEN 1 ELSE 0

(* The camera is on only while its dialog is open, whenever the permission *)
(* is given and however often the dialog was opened before.                *)
CameraOffWhenClosed == camera.live => camera.open
=============================================================================
