----------------------------- MODULE DeskServer -----------------------------
(***************************************************************************)
(* The entry and exit endpoints as a page sees them: each call is served   *)
(* at one moment between its sending and its answer, which is what         *)
(* ParkingOperations implements call by call.  Time passes, tariffs are    *)
(* changed and other tills close visits meanwhile.                         *)
(***************************************************************************)
EXTENDS Tariff

CONSTANTS
    Plate, Entry,   \* vehicles; the entries that may be inserted
    Call,           \* the calls a page has under way
    Rate,           \* the tariffs the rate master makes active, in this order
    Advance,        \* advances paid at entry
    Moment          \* bound: the ticks at which anything happens

Slab == [from : Nat, to : Nat \cup {None}, amount : Nat, gst : Nat]

ASSUME DeskAssumption ==
    /\ None \notin Plate \cup Entry
    /\ 0 \in Moment /\ Moment \subseteq Nat /\ Advance \subseteq Nat
    /\ Rate \in Seq(Seq(Slab)) /\ Rate # <<>>
    /\ \A r \in DOMAIN Rate : ValidSlabs(Rate[r])

VARIABLES
    now,        \* the server's clock
    tariff,     \* the active rate of the vehicles' type
    entry,      \* vehicle_entries, each with the exit that closed it
    call        \* the calls under way

serverVars == <<now, tariff, entry, call>>

(* A closed entry keeps its settlement; what it was computed from is not   *)
(* read again.                                                             *)
NoEntry == [status |-> "none", plate |-> None, at |-> 0, slabs |-> 0, advance |-> 0,
            total |-> 0, applied |-> 0, paid |-> 0]

(* sum: the advance or the amount paid.                                    *)
(* heard: whether the page that made the call is there to hear its answer. *)
NoCall == [op |-> "none", status |-> "idle", heard |-> FALSE, plate |-> None, entry |-> None, sum |-> 0]

EntryDoc ==
    [status : {"none", "open", "closed"}, plate : Plate \cup {None}, at : Moment,
     slabs : {0} \cup DOMAIN Rate, advance : Nat,
     total : Nat, applied : Nat, paid : Nat]

Operation == {"create", "lookup", "charge", "select", "recalculate", "exit", "recover"}

CallDoc ==
    [op : Operation \cup {"none"}, status : {"idle", "sent", "ok", "refused"}, heard : BOOLEAN,
     plate : Plate \cup {None}, entry : Entry \cup {None}, sum : Nat]

ServerTypeOK ==
    /\ now \in Moment
    /\ tariff \in DOMAIN Rate
    /\ entry \in [Entry -> EntryDoc]
    /\ call \in [Call -> CallDoc]

ServerInit ==
    /\ now = 0
    /\ tariff = 1
    /\ entry = [e \in Entry |-> NoEntry]
    /\ call = [c \in Call |-> NoCall]

Open == {e \in Entry : entry[e].status = "open"}

Free == {c \in Call : call[c] = NoCall}

-----------------------------------------------------------------------------
(* _calculation_for_entry. *)

(* Mutant: the tariff of the day of exit, not the entry's snapshot. *)
TodaysSlabs(e) == Rate[tariff]

Snapshot(e) == Rate[entry[e].slabs]

Minutes(e) == DurationMinutes(now - entry[e].at)

(* calculate_exit answers the balance of a chargeable open entry. *)
Chargeable(e) == e \in Open /\ Fitting(Snapshot(e), Minutes(e)) # {}

Total(e) == TotalAmount(SlabFor(Snapshot(e), Minutes(e)))

(* Mutant: an advance above the charge is applied whole. *)
ApplyAll(e) == entry[e].advance

Applied(e) == IF entry[e].advance < Total(e) THEN entry[e].advance ELSE Total(e)

Balance(e) == Total(e) - Applied(e)

(* The exit document, in the place of the entry it closes. *)
ExitDocument(e, paid) ==
    [NoEntry EXCEPT !.status = "closed", !.plate = entry[e].plate,
                    !.total = Total(e), !.applied = Applied(e), !.paid = paid]

(* create_exit: what was paid is exactly the balance of this moment. *)
Close(e, paid) ==
    /\ Chargeable(e) /\ paid = Balance(e)
    /\ entry' = [entry EXCEPT ![e] = ExitDocument(e, paid)]

-----------------------------------------------------------------------------
(* Calls that write are served in between; an answer nobody waits for is   *)
(* dropped.  A call that reads is served as its answer arrives: what it    *)
(* read ages on the page from then on.                                     *)

Reply(c, status, e) ==
    call' = [call EXCEPT ![c] = IF call[c].heard
                                THEN [@ EXCEPT !.status = status, !.entry = e]
                                ELSE NoCall]

Sent(c, op) == call[c].op = op /\ call[c].status = "sent"

Refuse(c) == Reply(c, "refused", call[c].entry) /\ UNCHANGED <<now, tariff, entry>>

(* Mutant: an entry of an earlier moment does not stop the next one. *)
ParkedNow(v) == {e \in Open : entry[e].plate = v /\ entry[e].at = now}

(* lookup_open_entry. *)
Parked(v) == {e \in Open : entry[e].plate = v}

(* create_entry: the rate's slabs are copied into the entry. *)
CreateEntry(c, e) ==
    /\ Sent(c, "create") /\ Parked(call[c].plate) = {} /\ entry[e].status = "none"
    /\ entry' = [entry EXCEPT ![e] = [NoEntry EXCEPT !.status = "open", !.plate = call[c].plate,
                                        !.at = now, !.slabs = tariff, !.advance = call[c].sum]]
    /\ Reply(c, "ok", e)
    /\ UNCHANGED <<now, tariff>>

EntryRefused(c) == Sent(c, "create") /\ Parked(call[c].plate) # {} /\ Refuse(c)

CreateExit(c) ==
    /\ Sent(c, "exit") /\ Close(call[c].entry, call[c].sum)
    /\ Reply(c, "ok", call[c].entry)
    /\ UNCHANGED <<now, tariff>>

ExitRefused(c) ==
    LET e == call[c].entry IN
    /\ Sent(c, "exit")
    /\ ~(Chargeable(e) /\ call[c].sum = Balance(e))
    /\ Refuse(c)

-----------------------------------------------------------------------------
Tick ==
    /\ now' \in {t \in Moment : t > now}
    /\ UNCHANGED <<tariff, entry, call>>

(* The rate master's active rate is replaced. *)
ChangeRate ==
    /\ tariff < Len(Rate)
    /\ tariff' = tariff + 1
    /\ UNCHANGED <<now, entry, call>>

(* The vehicle leaves through another till. *)
OtherTill(e) ==
    /\ Close(e, Balance(e))
    /\ UNCHANGED <<now, tariff, call>>

ServerNext ==
    \/ Tick \/ ChangeRate
    \/ \E e \in Entry : OtherTill(e)
    \/ \E c \in Call :
        \/ EntryRefused(c) \/ CreateExit(c) \/ ExitRefused(c)
        \/ \E e \in Entry : CreateEntry(c, e)
=============================================================================
