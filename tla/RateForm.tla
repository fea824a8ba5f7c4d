----------------------------- MODULE RateForm -------------------------------
(***************************************************************************)
(* The rate dialog (frontend/src/features/rates/ParkingRateFormDialog.tsx):*)
(* its three ways of entering duration slabs, what the browser's own       *)
(* validation lets through, and what is sent.  Of a rate's other fields,   *)
(* the vehicle type and effective date, by which rates are distinguished,  *)
(* are one value, and the status is not used here.  An amount or a GST     *)
(* rate is filled in or not: an amount of more digits than the server      *)
(* takes is not told apart.  Ends beyond a year are refused by the browser *)
(* and the server alike, and are left out.                                 *)
(***************************************************************************)
EXTENDS Tariff

CONSTANTS
    Hour,       \* minutes of a row of the hourly grid
    GridRows    \* rows of a new hourly grid

ASSUME FormAssumption == Hour \in Nat \ {0} /\ GridRows \in Nat \ {0}

Slab(from, to, amount, gst) == [from |-> from, to |-> to, amount |-> amount, gst |-> gst]

(* hourlySlabs. *)
HourlySlabs ==
    [i \in 1 .. GridRows |-> Slab((i - 1) * Hour, IF i = GridRows THEN None ELSE i * Hour, FALSE, TRUE)]

(* Mutant: rows keep the start they had. *)
AsTheyStart(slabs) == slabs

(* rebaseSlabs: a row starts where the one above ends. *)
RebaseSlabs(slabs) ==
    [i \in DOMAIN slabs |->
        [slabs[i] EXCEPT !.from = IF i = 1 \/ slabs[i - 1].to = None THEN 0 ELSE slabs[i - 1].to]]

(* isHourlyGrid. *)
IsHourlyGrid(slabs) ==
    /\ Len(slabs) > 1
    /\ \A i \in DOMAIN slabs :
        /\ slabs[i].from = (i - 1) * Hour
        /\ slabs[i].to = IF i = Len(slabs) THEN None ELSE i * Hour

(* modeFor. *)
ModeFor(slabs) ==
    IF Len(slabs) = 1 /\ slabs[1].to = None THEN "single"
    ELSE IF IsHourlyGrid(slabs) THEN "hourly" ELSE "custom"

-----------------------------------------------------------------------------
(* What the user does to the rows, in each mode. *)

(* updateSlab. *)
UpdateSlab(slabs, i, slab) == RebaseSlabs([slabs EXCEPT ![i] = slab])

(* applyGstToAll: the hourly grid has one field for the GST of its rows. *)
ApplyGstToAll(slabs, gst) == [i \in DOMAIN slabs |-> [slabs[i] EXCEPT !.gst = gst]]

(* chooseMode. *)
SlabsIn(mode, slabs) ==
    LET first == slabs[1] IN
    IF mode = "hourly" THEN HourlySlabs
    ELSE IF mode = "single" THEN <<Slab(0, None, first.amount, first.gst)>>
    ELSE IF Len(slabs) > 1 THEN RebaseSlabs(slabs)
    ELSE <<Slab(0, Hour, first.amount, first.gst), Slab(Hour, None, first.amount, first.gst)>>

(* addHourlyRow. *)
AddHourlyRow(slabs) ==
    LET last == slabs[Len(slabs)]
        end == last.from + Hour
    IN  [slabs EXCEPT ![Len(slabs)].to = end] \o <<Slab(end, None, FALSE, last.gst)>>

(* addCustomSlab: the last row needs an end. *)
CanAddCustom(slabs) ==
    LET last == slabs[Len(slabs)] IN last.to # None /\ last.to > last.from

AddCustomSlab(slabs) ==
    LET last == slabs[Len(slabs)] IN Append(slabs, Slab(last.to, None, TRUE, last.gst))

(* removeSlab. *)
RemoveSlab(slabs, i) ==
    RebaseSlabs(SubSeq(slabs, 1, i - 1) \o SubSeq(slabs, i + 1, Len(slabs)))

-----------------------------------------------------------------------------
(* Mutant: every row needs an end. *)
EndedRow(slabs, i) ==
    slabs[i].amount /\ slabs[i].gst /\ slabs[i].to # None /\ slabs[i].to > slabs[i].from

(* CustomRateRow: the attributes the browser validates. *)
CompleteRow(slabs, i) ==
    /\ slabs[i].amount /\ slabs[i].gst
    /\ slabs[i].to = None => i = Len(slabs)
    /\ slabs[i].to # None => slabs[i].to > slabs[i].from

(* The form may be submitted.  The hourly grid and the single price have   *)
(* no field for a row's end, and the grid's GST may be left empty.         *)
Submittable(mode, slabs) ==
    /\ \A i \in DOMAIN slabs : slabs[i].amount
    /\ mode = "custom" => \A i \in DOMAIN slabs : CompleteRow(slabs, i)
    /\ mode = "single" => \A i \in DOMAIN slabs : slabs[i].gst

(* submit. *)
Payload(slabs) == RebaseSlabs(slabs)
=============================================================================
