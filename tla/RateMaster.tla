---------------------------- MODULE RateMaster ------------------------------
(***************************************************************************)
(* The rate master: the page that lists rates and opens the dialog         *)
(* (frontend/src/pages/ParkingRateMasterPage.tsx) over the rate endpoints  *)
(* (backend/app/application/rates/service.py), which other pages and other *)
(* clients of the API use as well.                                         *)
(***************************************************************************)
EXTENDS RateForm

CONSTANTS
    Rate,       \* the rates that may be created
    Key,        \* vehicle types with effective dates
    Ends,       \* ends a user types, and None for an empty field
    Foreign,    \* slabs sent by other clients
    MaxSlabs,   \* rows a request may have
    MaxRows     \* bound: rows of the form

ASSUME MasterAssumption ==
    /\ None \notin Rate \cup Key /\ Key # {} /\ Ends \subseteq Nat \cup {None}
    /\ MaxSlabs \in Nat \ {0} /\ MaxRows \in Nat
    /\ \A slabs \in Foreign :
        slabs \in Seq([from : Nat, to : Nat \cup {None}, amount : BOOLEAN, gst : BOOLEAN])

VARIABLES
    rate,       \* parking_rates
    form,       \* the dialog; rate is None when it creates one
    save        \* the dialog's call

vars == <<rate, form, save>>

NoRate == [status |-> "none", key |-> None, slabs |-> <<>>]

NoForm == [open |-> FALSE, rate |-> None, key |-> None, mode |-> "hourly", slabs |-> HourlySlabs]

(* pc: sent, or answered.  heard is FALSE once the page gave the call up.  *)
NoSave == [pc |-> "idle", heard |-> FALSE, rate |-> None, key |-> None, slabs |-> <<>>]

(* The collection, the dialog and its call hold values of the types the    *)
(* code gives them; the form has a row at least, and a stored rate no      *)
(* empty amount or GST.                                                    *)
TypeOK ==
    /\ \A r \in Rate : rate[r] = NoRate \/
        /\ rate[r].status \in {"active", "inactive"}
        /\ rate[r].key \in Key
        /\ \A i \in DOMAIN rate[r].slabs :
            rate[r].slabs[i] \in [from : Nat, to : Nat \cup {None}, amount : {TRUE}, gst : {TRUE}]
    /\ form.rate \in Rate \cup {None} /\ form.key \in Key \cup {None}
    /\ form.mode \in {"hourly", "single", "custom"}
    /\ form.slabs # <<>>
    /\ \A i \in DOMAIN form.slabs :
        form.slabs[i] \in [from : Nat, to : Nat \cup {None}, amount : BOOLEAN, gst : BOOLEAN]
    /\ save.pc \in {"idle", "sent", "ok", "refused"} /\ save.heard \in BOOLEAN

Init ==
    /\ rate = [r \in Rate |-> NoRate]
    /\ form = NoForm
    /\ save = NoSave

-----------------------------------------------------------------------------
(* The dialog.  Its effect on open and rate loads the rate it is given. *)

Create ==
    /\ ~form.open
    /\ form' = [NoForm EXCEPT !.open = TRUE, !.key = CHOOSE k \in Key : TRUE]
    /\ UNCHANGED <<rate, save>>

Opened(r) ==
    [open |-> TRUE, rate |-> r, key |-> rate[r].key, mode |-> ModeFor(rate[r].slabs), slabs |-> rate[r].slabs]

Edit(r) ==
    /\ ~form.open /\ rate[r] # NoRate
    /\ form' = Opened(r)
    /\ UNCHANGED <<rate, save>>

Cancel ==
    /\ form.open
    /\ form' = NoForm
    /\ UNCHANGED <<rate, save>>

Rewrite(slabs) ==
    /\ form.open
    /\ form' = [form EXCEPT !.slabs = slabs]
    /\ UNCHANGED <<rate, save>>

ChooseKey(k) ==
    /\ form.open
    /\ form' = [form EXCEPT !.key = k]
    /\ UNCHANGED <<rate, save>>

ChooseMode(mode) ==
    /\ form.open /\ mode # form.mode
    /\ form' = [form EXCEPT !.mode = mode, !.slabs = SlabsIn(mode, form.slabs)]
    /\ UNCHANGED <<rate, save>>

(* A row's amount is filled in or emptied. *)
TypeAmount(i) ==
    /\ i \in DOMAIN form.slabs
    /\ Rewrite(UpdateSlab(form.slabs, i, [form.slabs[i] EXCEPT !.amount = ~form.slabs[i].amount]))

(* Its GST, or in the hourly grid that of all rows, is. *)
TypeGst(i) ==
    /\ i \in DOMAIN form.slabs
    /\ LET gst == ~form.slabs[i].gst IN
       Rewrite(IF form.mode = "hourly" THEN ApplyGstToAll(form.slabs, gst)
               ELSE UpdateSlab(form.slabs, i, [form.slabs[i] EXCEPT !.gst = gst]))

TypeEnd(i, end) ==
    /\ form.mode = "custom" /\ i \in DOMAIN form.slabs
    /\ Rewrite(UpdateSlab(form.slabs, i, [form.slabs[i] EXCEPT !.to = end]))

AddHour ==
    /\ form.mode = "hourly" /\ Len(form.slabs) < MaxRows
    /\ Rewrite(AddHourlyRow(form.slabs))

AddRow ==
    /\ form.mode = "custom" /\ Len(form.slabs) < MaxRows
    /\ CanAddCustom(form.slabs)
    /\ Rewrite(AddCustomSlab(form.slabs))

(* Mutant: the last row goes too. *)
RemoveAnyRow(i) ==
    /\ form.mode = "custom" /\ i \in DOMAIN form.slabs
    /\ Rewrite(RemoveSlab(form.slabs, i))

RemoveRow(i) ==
    /\ form.mode = "custom" /\ i \in DOMAIN form.slabs /\ Len(form.slabs) > 1
    /\ Rewrite(RemoveSlab(form.slabs, i))

(* Save rate, disabled while the last save of the dialog is under way,     *)
(* even if it was made for another rate.                                   *)
Submit ==
    /\ form.open /\ save = NoSave
    /\ Submittable(form.mode, form.slabs)
    /\ save' = [pc |-> "sent", heard |-> TRUE, rate |-> form.rate, key |-> form.key,
                slabs |-> Payload(form.slabs)]
    /\ UNCHANGED <<rate, form>>

(* onSaved, onClose: whatever the dialog shows by now is closed. *)
SaveDone ==
    /\ save.pc = "ok" /\ save.heard
    /\ save' = NoSave
    /\ form' = NoForm
    /\ UNCHANGED rate

SaveFailed ==
    /\ save.pc # "idle" /\ save.heard
    /\ save' = IF save.pc = "sent" THEN [save EXCEPT !.heard = FALSE] ELSE NoSave
    /\ UNCHANGED <<rate, form>>

-----------------------------------------------------------------------------
(* The endpoints.  The index on vehicle type and date covers every status. *)

Vacant(k, r) == \A q \in Rate \ {r} : rate[q].key # k

Stored(k, slabs, status) == [status |-> status, key |-> k, slabs |-> slabs]

(* What a request's model takes: as many rows as allowed, amounts and GST  *)
(* rates that are numbers, and validate_duration_slabs.                    *)
Acceptable(slabs) ==
    /\ Len(slabs) <= MaxSlabs
    /\ \A i \in DOMAIN slabs : slabs[i].amount /\ slabs[i].gst
    /\ ValidSlabs(slabs)

Answer(pc) == save' = IF save.heard THEN [save EXCEPT !.pc = pc] ELSE NoSave

(* create and update, of what the dialog sent. *)
Serve(r) ==
    /\ save.pc = "sent"
    /\ IF save.rate = None THEN rate[r] = NoRate ELSE r = save.rate
    /\ Acceptable(save.slabs) /\ Vacant(save.key, r)
    /\ rate' = [rate EXCEPT ![r] = Stored(save.key, save.slabs, "active")]
    /\ Answer("ok")
    /\ UNCHANGED form

Refuse ==
    /\ save.pc = "sent"
    /\ ~Acceptable(save.slabs) \/ ~Vacant(save.key, save.rate)
    /\ Answer("refused")
    /\ UNCHANGED <<rate, form>>

(* The same endpoints, from elsewhere. *)
Receive(r, k, slabs) ==
    /\ Acceptable(slabs) /\ Vacant(k, r)
    /\ rate' = [rate EXCEPT ![r] = Stored(k, slabs, "active")]
    /\ UNCHANGED <<form, save>>

(* deactivate, from this page or another. *)
Deactivate(r) ==
    /\ rate[r].status = "active"
    /\ rate' = [rate EXCEPT ![r].status = "inactive"]
    /\ UNCHANGED <<form, save>>

Next ==
    \/ Create \/ Cancel \/ AddHour \/ AddRow \/ Submit \/ SaveDone \/ SaveFailed \/ Refuse
    \/ \E k \in Key : ChooseKey(k)
    \/ \E mode \in {"hourly", "single", "custom"} : ChooseMode(mode)
    \/ \E i \in 1 .. MaxRows :
        \/ RemoveRow(i) \/ TypeAmount(i) \/ TypeGst(i)
        \/ \E end \in Ends : TypeEnd(i, end)
    \/ \E r \in Rate :
        \/ Edit(r) \/ Serve(r) \/ Deactivate(r)
        \/ \E k \in Key, slabs \in Foreign : Receive(r, k, slabs)

Spec == Init /\ [][Next]_vars

-----------------------------------------------------------------------------
(* The rows the dialog sends begin at zero, adjoin and ascend, as          *)
(* validate_duration_slabs asks, and have their amounts, in whatever order *)
(* they were added, removed, retyped and switched between modes; and their *)
(* GST rates are all there, or the grid's one field was emptied and none   *)
(* is.  That the server takes them is not claimed: the dialog prevents     *)
(* neither the empty GST nor more rows than MaxSlabs, and both are refused.*)
FormAccepted ==
    save.pc # "idle" =>
        /\ ValidSlabs(save.slabs)
        /\ \A i \in DOMAIN save.slabs : save.slabs[i].amount
        /\ \A i, j \in DOMAIN save.slabs : save.slabs[i].gst = save.slabs[j].gst

(* Any stored rate, whoever stored it, can be opened and saved again: the  *)
(* dialog lets it through, what it sends is what was stored, and the       *)
(* server takes it.                                                        *)
Editable ==
    \A r \in Rate : rate[r] # NoRate =>
        /\ Submittable(Opened(r).mode, Opened(r).slabs)
        /\ Payload(Opened(r).slabs) = rate[r].slabs
        /\ Acceptable(rate[r].slabs)

(* A stay falls into one slab of a stored rate, and into none only when    *)
(* the last slab has an end and the stay reaches it: no minute is charged  *)
(* twice or left out.                                                      *)
EveryStayOnce ==
    \A r \in Rate : rate[r] # NoRate =>
        \A m \in 1 .. 3 * Hour :
            LET end == rate[r].slabs[Len(rate[r].slabs)].to IN
            Cardinality(Fitting(rate[r].slabs, m)) = IF end # None /\ m >= end THEN 0 ELSE 1
=============================================================================
