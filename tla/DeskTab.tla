------------------------------ MODULE DeskTab -------------------------------
(***************************************************************************)
(* What the entry and the exit page of a till have in common: the vehicle  *)
(* number that is typed, the monthly pass shown for it, the receipt        *)
(* dialog, and which page is mounted.  A page that is left forgets its     *)
(* state; its calls go on at the server and their answers find nobody.     *)
(***************************************************************************)
EXTENDS DeskServer

VARIABLES
    view,       \* the page that is mounted
    field,      \* the vehicle number typed; None while it is too short
    shown,      \* the entry on the exit page
    member,     \* the vehicle whose pass, or lack of one, is displayed
    typing,     \* whether the entry page waits for a pause in the typing
    asked,      \* vehicles whose pass is being looked up
    receipt     \* the receipt dialog

tabVars == <<view, field, shown, member, typing, asked, receipt>>

NoReceipt == [for |-> None, loading |-> FALSE, shown |-> None, failed |-> FALSE, asked |-> {}]

Receipt == [for : Entry \cup {None}, loading : BOOLEAN, shown : Entry \cup {None},
            failed : BOOLEAN, asked : SUBSET Entry]

TabTypeOK ==
    /\ view \in {"entry", "exit", "log"}
    /\ field \in Plate \cup {None}
    /\ shown \in Entry \cup {None}
    /\ member \in Plate \cup {None}
    /\ typing \in BOOLEAN
    /\ asked \subseteq Plate
    /\ receipt \in Receipt

TabInit ==
    /\ view = "entry"
    /\ field = None
    /\ shown = None
    /\ member = None
    /\ typing = FALSE
    /\ asked = {}
    /\ receipt = NoReceipt

-----------------------------------------------------------------------------
(* Calls. *)

Send(calls, c, op, v, e, sum) ==
    [calls EXCEPT ![c] = [op |-> op, status |-> "sent", heard |-> TRUE,
                          plate |-> v, entry |-> e, sum |-> sum]]

Done(c, op) == call[c].op = op /\ call[c].heard /\ call[c].status = "ok"

(* The answer of a call that reads arrives. *)
Answers(c, op) == call[c].op = op

(* A call failed for the page: refused, unreachable or not answered in     *)
(* time; the server may have served it, and one that writes may yet be.    *)
Failed(c, op) == call[c].op = op /\ call[c].heard

Heard(c) == [call EXCEPT ![c] = NoCall]

GivenUp(c) ==
    IF call[c].status = "sent" /\ call[c].op \in {"create", "exit"}
    THEN [call EXCEPT ![c].heard = FALSE]
    ELSE Heard(c)

Abandoned ==
    [c \in Call |-> IF call[c].status = "sent" /\ call[c].op \in {"create", "exit"}
                    THEN [call[c] EXCEPT !.heard = FALSE]
                    ELSE NoCall]

-----------------------------------------------------------------------------
(* The pass of the vehicle the page is about: the entry on the exit page,  *)
(* or else the number that is typed.                                       *)

(* What a list of open entries may show: entries open when it was loaded.  *)
Listed == {e \in Entry : entry[e].status # "none"}

(* The vehicle once e is the entry shown and v the number typed. *)
SubjectOf(e, v) == IF e # None THEN entry[e].plate ELSE v

Subject == SubjectOf(shown, field)

(* The effect on the vehicle number, run by the render after every action. *)
(* The entry page waits for a pause in the typing.  Lookups of a vehicle   *)
(* the page is no longer about go on; two of one vehicle are told apart by *)
(* nothing.                                                                *)
Watch(v) ==
    IF v = Subject
    THEN UNCHANGED <<member, typing, asked>>
    ELSE /\ member' = IF v = None THEN None ELSE member
         /\ typing' = (v # None /\ view = "entry")
         /\ asked' = IF v = None \/ view = "entry" THEN asked ELSE asked \cup {v}

TypingPaused ==
    /\ typing
    /\ typing' = FALSE
    /\ asked' = asked \cup {field}
    /\ UNCHANGED <<serverVars, view, field, shown, member, receipt>>

(* Mutant: the answer is shown whatever the page is about by now. *)
MembershipShown(v) ==
    /\ v \in asked
    /\ asked' = asked \ {v}
    /\ member' \in {v, None}
    /\ UNCHANGED <<serverVars, view, field, shown, typing, receipt>>

(* A pass is shown, or cleared when the lookup failed, unless the effect   *)
(* that looked it up has been cleaned up.                                  *)
MembershipAnswered(v) ==
    /\ v \in asked
    /\ asked' = asked \ {v}
    /\ member' \in IF v = Subject /\ ~typing THEN {v, None} ELSE {member}
    /\ UNCHANGED <<serverVars, view, field, shown, typing, receipt>>

-----------------------------------------------------------------------------
(* ParkingReceiptDialog. *)

ReceiptOpen == receipt.loading \/ receipt.failed \/ receipt.shown # None

(* loadReceipt, after an entry or an exit when the company's switch has it *)
(* open by itself, and from Retry.                                         *)
LoadReceipt(e) ==
    receipt' = [receipt EXCEPT !.for = e, !.loading = TRUE, !.failed = FALSE, !.shown = None,
                               !.asked = @ \cup {e}]

MaybeLoadReceipt(e) == LoadReceipt(e) \/ UNCHANGED receipt

ReceiptAnswered(e) ==
    /\ e \in receipt.asked
    /\ receipt' = [receipt EXCEPT !.asked = @ \ {e}, !.shown = e, !.loading = FALSE]
    /\ UNCHANGED <<serverVars, view, field, shown, member, typing, asked>>

ReceiptFailed(e) ==
    /\ e \in receipt.asked
    /\ receipt' = [receipt EXCEPT !.asked = @ \ {e}, !.failed = TRUE, !.loading = FALSE]
    /\ UNCHANGED <<serverVars, view, field, shown, member, typing, asked>>

RetryReceipt ==
    /\ receipt.failed /\ ~receipt.loading /\ receipt.for # None
    /\ LoadReceipt(receipt.for)
    /\ UNCHANGED <<serverVars, view, field, shown, member, typing, asked>>

(* Mutant: the dialog closes while it loads. *)
CloseAtOnce ==
    /\ ReceiptOpen
    /\ receipt' = [NoReceipt EXCEPT !.asked = receipt.asked]
    /\ UNCHANGED <<serverVars, view, field, shown, member, typing, asked>>

CloseReceipt ==
    /\ ReceiptOpen /\ ~receipt.loading
    /\ receipt' = [NoReceipt EXCEPT !.asked = receipt.asked]
    /\ UNCHANGED <<serverVars, view, field, shown, member, typing, asked>>

-----------------------------------------------------------------------------
(* Another page is mounted.  The exit page opened from the log asks for    *)
(* the entry it was opened for.                                            *)
Mount(screen, calls) ==
    /\ view' = screen
    /\ field' = None /\ shown' = None
    /\ member' = None /\ typing' = FALSE /\ asked' = {}
    /\ receipt' = NoReceipt
    /\ call' = calls
    /\ UNCHANGED <<now, tariff, entry>>
=============================================================================
