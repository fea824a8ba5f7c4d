----------------------------- MODULE ExitScreen -----------------------------
(***************************************************************************)
(* frontend/src/pages/VehicleExitPage.tsx.                                 *)
(***************************************************************************)
EXTENDS DeskTab

CONSTANT Typed      \* amounts an operator types over the one proposed

ASSUME TypedAssumption == Typed \subseteq Nat

VARIABLES
    due,        \* the balance of the calculation on the page; None without one
    paid,       \* the amount in the payment field
    loading,    \* an entry is being retrieved
    exiting     \* an exit is being completed

exitScreenVars == <<due, paid, loading, exiting>>

ExitScreenTypeOK ==
    /\ due \in Nat \cup {None}
    /\ paid \in Nat
    /\ loading \in BOOLEAN
    /\ exiting \in BOOLEAN

ExitScreenInit == due = None /\ paid = 0 /\ loading = FALSE /\ exiting = FALSE

AtDesk == view = "exit" /\ ~ReceiptOpen

TypeSearch(v) ==
    /\ AtDesk
    /\ field' = v /\ v # field
    /\ Watch(SubjectOf(shown, v))
    /\ UNCHANGED <<serverVars, view, shown, receipt, exitScreenVars>>

(* retrieve: from the button, which needs a number and waits for the last  *)
(* retrieval, or by Enter in the field, which does neither.                *)
Retrieve(c) ==
    /\ AtDesk
    /\ loading' = TRUE
    /\ shown' = None /\ due' = None
    /\ Watch(field)
    /\ call' = Send(call, c, "lookup", field, None, 0)
    /\ UNCHANGED <<now, tariff, entry, view, field, receipt, paid, exiting>>

(* The entry is found, and its charge is asked for. *)
Found(c, e) ==
    /\ Answers(c, "lookup") /\ e \in Parked(call[c].plate)
    /\ shown' = e
    /\ Watch(SubjectOf(e, field))
    /\ call' = Send(call, c, "charge", None, e, 0)
    /\ UNCHANGED <<now, tariff, entry, view, field, receipt, exitScreenVars>>

(* The calculation of e is shown, and its balance proposed as payment. *)
Propose(e) ==
    /\ Chargeable(e)
    /\ due' = Balance(e) /\ paid' = Balance(e)

Charged(c) ==
    /\ Answers(c, "charge") /\ Propose(call[c].entry)
    /\ loading' = FALSE
    /\ call' = Heard(c)
    /\ UNCHANGED <<now, tariff, entry, tabVars, exiting>>

(* Mutant: the page stops showing that it loads and never lists. *)
RetrieveDropped(c) ==
    /\ Failed(c, "lookup") \/ Failed(c, "charge")
    /\ call' = GivenUp(c)
    /\ UNCHANGED <<now, tariff, entry, tabVars, exitScreenVars>>

(* An error: the open entries are listed before the page stops loading. *)
RetrieveFailed(c) ==
    /\ Failed(c, "lookup") \/ Failed(c, "charge")
    /\ call' = Send(call, c, "recover", None, None, 0)
    /\ UNCHANGED <<now, tariff, entry, tabVars, exitScreenVars>>

Recovered(c) ==
    /\ call[c].op = "recover"
    /\ loading' = FALSE
    /\ call' = Heard(c)
    /\ UNCHANGED <<now, tariff, entry, view, field, shown, member, typing, asked, receipt,
                   due, paid, exiting>>

(* selectEntry, from the list of open entries, which may be out of date. *)
Select(c, e) ==
    /\ AtDesk /\ shown = None /\ e \in Listed /\ ~loading
    /\ loading' = TRUE
    /\ call' = Send(call, c, "select", None, e, 0)
    /\ UNCHANGED <<now, tariff, entry, tabVars, due, paid, exiting>>

Selected(c) ==
    /\ Answers(c, "select") /\ Propose(call[c].entry)
    /\ shown' = call[c].entry
    /\ Watch(SubjectOf(call[c].entry, field))
    /\ loading' = FALSE
    /\ call' = Heard(c)
    /\ UNCHANGED <<now, tariff, entry, view, field, receipt, exiting>>

SelectFailed(c) ==
    /\ Failed(c, "select")
    /\ loading' = FALSE
    /\ call' = Heard(c)
    /\ UNCHANGED <<now, tariff, entry, tabVars, due, paid, exiting>>

(* Recalculate current charge: never disabled, its failure is not shown. *)
Recalculate(c) ==
    /\ AtDesk /\ shown # None /\ due # None
    /\ call' = Send(call, c, "recalculate", None, shown, 0)
    /\ UNCHANGED <<now, tariff, entry, tabVars, exitScreenVars>>

Recalculated(c) ==
    /\ Answers(c, "recalculate") /\ Propose(call[c].entry)
    /\ call' = Heard(c)
    /\ UNCHANGED <<now, tariff, entry, tabVars, loading, exiting>>

RecalculateFailed(c) ==
    /\ Failed(c, "recalculate")
    /\ call' = Heard(c)
    /\ UNCHANGED <<now, tariff, entry, tabVars, exitScreenVars>>

Pay(amount) ==
    /\ AtDesk /\ shown # None /\ due # None
    /\ paid' = amount
    /\ UNCHANGED <<serverVars, tabVars, due, loading, exiting>>

(* exitVehicle: the button wants the balance shown to be covered. *)
ExitVehicle(c) ==
    /\ AtDesk /\ shown # None /\ due # None
    /\ paid >= due /\ ~exiting
    /\ exiting' = TRUE
    /\ call' = Send(call, c, "exit", None, shown, paid)
    /\ UNCHANGED <<now, tariff, entry, tabVars, due, paid, loading>>

(* Whatever the page shows by now is cleared. *)
Exited(c) ==
    /\ Done(c, "exit")
    /\ exiting' = FALSE
    /\ shown' = None /\ due' = None /\ field' = None /\ paid' = 0
    /\ Watch(None)
    /\ MaybeLoadReceipt(call[c].entry)
    /\ call' = Heard(c)
    /\ UNCHANGED <<now, tariff, entry, view, loading>>

ExitFailed(c) ==
    /\ Failed(c, "exit")
    /\ exiting' = FALSE
    /\ call' = GivenUp(c)
    /\ UNCHANGED <<now, tariff, entry, tabVars, due, paid, loading>>

ExitScreenStep ==
    \/ \E v \in Plate \cup {None} : TypeSearch(v)
    \/ \E a \in Typed : Pay(a)
    \/ \E c \in Free :
        \/ Retrieve(c) \/ Recalculate(c) \/ ExitVehicle(c)
        \/ \E e \in Entry : Select(c, e)
    \/ \E c \in Call :
        \/ Charged(c) \/ RetrieveFailed(c) \/ Recovered(c)
        \/ Selected(c) \/ SelectFailed(c) \/ Recalculated(c) \/ RecalculateFailed(c)
        \/ Exited(c) \/ ExitFailed(c)
        \/ \E e \in Entry : Found(c, e)
=============================================================================
