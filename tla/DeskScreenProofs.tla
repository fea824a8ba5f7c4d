-------------------------- MODULE DeskScreenProofs ---------------------------
(***************************************************************************)
(* A till keeps its promises for any number of vehicles, entries and calls *)
(* and for any tariffs: a visit costs what its tariff says, whatever a     *)
(* page showed; a page that waits has a reason to; passes, receipts and    *)
(* the camera belong to what is on the screen.                             *)
(***************************************************************************)
EXTENDS DeskScreens, TariffProofs

(* The calls that read; their answers are always waited for. *)
Reads == {"lookup", "charge", "select", "recalculate", "recover"}

(* A visit under way is charged by a tariff that was active, and began     *)
(* before now.                                                             *)
VisitInv ==
    /\ now \in Moment /\ tariff \in DOMAIN Rate /\ entry \in [Entry -> EntryDoc]
    /\ \A e \in Entry :
        /\ entry[e].status # "none" => entry[e].plate \in Plate
        /\ entry[e].status = "open" => entry[e].slabs \in DOMAIN Rate /\ entry[e].at <= now

(* What a call is about exists, and who waits for its answer is the page   *)
(* that made it.                                                           *)
CallInv ==
    /\ call \in [Call -> CallDoc]
    /\ \A c \in Call :
        /\ call[c].op \in Reads => call[c].heard
        /\ call[c].op \in {"charge", "select", "recalculate", "exit"} => call[c].entry \in Entry
        /\ call[c].op \in {"charge", "select", "recalculate", "exit"} => entry[call[c].entry].status # "none"
        /\ call[c].op = "create" => call[c].plate \in Plate
        /\ call[c].op = "create" /\ call[c].status = "ok" => call[c].entry \in Entry
        /\ call[c].heard => view = IF call[c].op = "create" THEN "entry" ELSE "exit"

(* A page that waits has a call that ends its waiting, and one that saves  *)
(* or completes has one only.                                              *)
Waits(c, op) == call[c].heard /\ call[c].op = op

BusyInv ==
    /\ saving \in BOOLEAN /\ loading \in BOOLEAN /\ exiting \in BOOLEAN
    /\ loading => \E c \in Call : call[c].heard /\ call[c].op \in {"lookup", "charge", "recover", "select"}
    /\ saving <=> \E c \in Call : Waits(c, "create")
    /\ exiting <=> \E c \in Call : Waits(c, "exit")
    /\ \A c, d \in Call :
        \/ Waits(c, "create") /\ Waits(d, "create")
        \/ Waits(c, "exit") /\ Waits(d, "exit")
        => c = d

(* The vehicle a page is about exists; only the entry page waits for a     *)
(* pause in the typing.                                                    *)
PageInv ==
    /\ view \in {"entry", "exit", "log"} /\ field \in Plate \cup {None} /\ shown \in Entry \cup {None}
    /\ member \in Plate \cup {None} /\ typing \in BOOLEAN /\ asked \subseteq Plate
    /\ shown # None => view = "exit" /\ entry[shown].status # "none"
    /\ typing => view = "entry" /\ field # None
    /\ MembershipSettles

(* One receipt is asked for at a time; the dialog keeps the form from      *)
(* being submitted.                                                        *)
ReceiptInv ==
    /\ receipt \in Receipt
    /\ receipt.asked = IF receipt.loading THEN {receipt.for} ELSE {}
    /\ receipt.loading => receipt.for # None
    /\ receipt.shown # None => receipt.shown = receipt.for
    /\ saving \/ exiting => ~ReceiptOpen

(* A permission is awaited, and the stream held, in an open dialog only.   *)
CameraInv ==
    /\ camera \in Camera
    /\ camera.asked => camera.open /\ camera.before < MaxPending
    /\ camera.live => camera.open

(* The inductive invariant. *)
ScreenInv ==
    /\ VisitInv /\ CallInv /\ BusyInv
    /\ PageInv /\ ReceiptInv /\ CameraInv
    /\ due \in Nat \cup {None} /\ paid \in Nat

-----------------------------------------------------------------------------
(* Initially the till is idle, on the entry page. *)
LEMMA InitScreenInv == Init => ScreenInv
<1> SUFFICES ASSUME Init PROVE ScreenInv
  OBVIOUS
<1> USE TariffAssumption, DeskAssumption, CameraAssumption
    DEF Init, ServerInit, TabInit, EntryScreenInit, ExitScreenInit
<1>1. VisitInv
  BY DEF VisitInv, EntryDoc, NoEntry
<1>2. CallInv
  BY DEF CallInv, CallDoc, NoCall, Operation, Reads
<1>3. BusyInv
  BY DEF BusyInv, Waits, NoCall
<1>4. PageInv
  BY DEF PageInv, MembershipSettles, Subject, SubjectOf
<1>5. ReceiptInv
  BY DEF ReceiptInv, Receipt, NoReceipt, ReceiptOpen
<1>6. CameraInv
  BY DEF CameraInv, Camera, NoCamera
<1> QED BY <1>1, <1>2, <1>3, <1>4, <1>5, <1>6 DEF ScreenInv

-----------------------------------------------------------------------------
(* What a visit costs. *)

(* A tariff is a list of slabs, and what it charges is an amount. *)
LEMMA RateIsSlabs ==
    ASSUME NEW r \in DOMAIN Rate
    PROVE  /\ IsSlabs(Rate[r]) /\ ValidSlabs(Rate[r])
           /\ \A i \in DOMAIN Rate[r] : Rate[r][i] \in Slab
<1>1. Rate[r] \in Seq(Slab) /\ ValidSlabs(Rate[r])
  BY DeskAssumption
<1>2. \A i \in DOMAIN Rate[r] : Rate[r][i] \in Slab
  BY <1>1
<1>3. \A slab \in Slab : slab.from \in Nat /\ slab.to \in Nat \cup {None}
  BY DEF Slab
<1> QED BY <1>1, <1>2, <1>3 DEF IsSlabs

(* The total is the price with its tax, to the nearest unit. *)
LEMMA TaxRounded ==
    ASSUME NEW slab \in Slab
    PROVE  TotalAmount(slab) \in Nat /\ RightPrice(TotalAmount(slab), slab)
<1> DEFINE tax == slab.amount * slab.gst
<1>1. slab.amount \in Nat /\ slab.gst \in Nat /\ tax \in Nat
  BY DEF Slab
<1>2. TotalAmount(slab) = slab.amount + Money(tax, 10000)
  BY DEF TotalAmount
<1>3. /\ Money(tax, 10000) \in Nat
      /\ 10000 * Money(tax, 10000) <= tax + 5000 /\ tax + 5000 < 10000 * Money(tax, 10000) + 10000
  <2> HIDE DEF tax
  <2> QED BY <1>1 DEF Money
<1> DEFINE total == TotalAmount(slab)
           gross == 10000 * slab.amount + tax
<1>4. RightPrice(total, slab) <=> 10000 * total - gross <= 5000 /\ gross - 10000 * total < 5000
  BY DEF RightPrice
<1>5. /\ total \in Nat /\ gross \in Nat
      /\ 10000 * total - gross <= 5000 /\ gross - 10000 * total < 5000
  <2> HIDE DEF tax
  <2> QED BY <1>1, <1>2, <1>3
<1> QED BY <1>4, <1>5

(* A visit that can be charged is charged by a slab of its own tariff that *)
(* its started minutes fall into.                                          *)
LEMMA ChargedBySlab ==
    ASSUME VisitInv, NEW e \in Entry, Chargeable(e)
    PROVE  /\ Minutes(e) \in 1 .. now + 1 /\ RightMinutes(e, Minutes(e))
           /\ \E i \in DOMAIN Rate[entry[e].slabs] :
                LET slab == Rate[entry[e].slabs][i] IN
                /\ Fits(slab, Minutes(e)) /\ slab \in Slab
                /\ Total(e) = TotalAmount(slab)
<1> DEFINE r == entry[e].slabs  m == Minutes(e)  t == now - entry[e].at
<1>1. entry[e].status = "open" /\ Fitting(Rate[r], m) # {}
  BY DEF Chargeable, Open, Snapshot
<1>2. r \in DOMAIN Rate /\ entry[e].at <= now /\ entry[e].at \in Nat /\ now \in Nat
  BY <1>1, DeskAssumption DEF VisitInv, EntryDoc
<1>3. t \in Nat /\ t <= now /\ m = DurationMinutes(t)
  BY <1>2 DEF Minutes
<1>4. /\ m \in Nat /\ m >= 1 /\ m <= t + 1
      /\ m * TicksPerMinute >= t
      /\ m = 1 \/ (m - 1) * TicksPerMinute < t
  BY <1>3, MinutesStarted
<1>5. PICK i \in Fitting(Rate[r], m) : SlabFor(Rate[r], m) = Rate[r][i]
  BY <1>1, <1>2, <1>4, RateIsSlabs, ChosenSlab
<1>6. i \in DOMAIN Rate[r] /\ Fits(Rate[r][i], m)
  BY <1>5 DEF Fitting
<1>7. Rate[r][i] \in Slab
  BY <1>2, <1>6, RateIsSlabs
<1>8. Total(e) = TotalAmount(Rate[r][i])
  BY <1>5 DEF Total, Snapshot
<1>9. RightMinutes(e, m)
  BY <1>4 DEF RightMinutes
<1>10. m \in 1 .. now + 1
  BY <1>2, <1>3, <1>4
<1> QED BY <1>6, <1>7, <1>8, <1>9, <1>10

(* The balance completes what is applied of the advance to the total. *)
LEMMA BalanceCompletes ==
    ASSUME VisitInv, NEW e \in Entry, Chargeable(e)
    PROVE  /\ Total(e) \in Nat /\ Applied(e) \in Nat /\ Balance(e) \in Nat
           /\ Applied(e) <= entry[e].advance /\ Applied(e) + Balance(e) = Total(e)
<1>1. Total(e) \in Nat
  BY ChargedBySlab, TaxRounded
<1>2. entry[e].advance \in Nat
  BY DEF VisitInv, EntryDoc
<1> QED BY <1>1, <1>2 DEF Applied, Balance

(* What create_exit stores is what the visit costs. *)
LEMMA CloseIsRight ==
    ASSUME VisitInv, NEW e \in Entry, NEW amount, Close(e, amount)
    PROVE  RightSettlement(e, ExitDocument(e, amount))
<1>1. Chargeable(e) /\ amount = Balance(e)
  BY DEF Close
<1>2. /\ ExitDocument(e, amount).total = Total(e) /\ ExitDocument(e, amount).applied = Applied(e)
      /\ ExitDocument(e, amount).paid = amount
  BY DEF ExitDocument, NoEntry
<1>3. PICK i \in DOMAIN Rate[entry[e].slabs] :
        LET slab == Rate[entry[e].slabs][i] IN
        /\ Fits(slab, Minutes(e)) /\ slab \in Slab
        /\ Total(e) = TotalAmount(slab)
  BY <1>1, ChargedBySlab
<1>4. Minutes(e) \in 1 .. now + 1 /\ RightMinutes(e, Minutes(e))
  BY <1>1, ChargedBySlab
<1>5. LET slab == Rate[entry[e].slabs][i] IN
      /\ slab.from <= Minutes(e) /\ (slab.to # None => Minutes(e) < slab.to)
      /\ RightPrice(Total(e), slab)
  BY <1>3, TaxRounded DEF Fits
<1>6. Applied(e) <= entry[e].advance /\ Applied(e) + Balance(e) = Total(e)
  BY <1>1, BalanceCompletes
<1> QED BY <1>1, <1>2, <1>4, <1>5, <1>6 DEF RightSettlement

-----------------------------------------------------------------------------
(* Steps of the server. *)

(* A document that is stored is never removed, and keeps its plate. *)
Stays ==
    \A e \in Entry :
        entry[e].status # "none" => entry'[e].status # "none" /\ entry'[e].plate = entry[e].plate

(* A vehicle is admitted. *)
Admits(e) ==
    /\ entry[e].status = "none"
    /\ \E v \in Plate, advance \in Nat :
        entry' = [entry EXCEPT ![e] = [NoEntry EXCEPT !.status = "open", !.plate = v,
                                         !.at = now, !.slabs = tariff, !.advance = advance]]

(* An admission, and the end of a visit, by this page or another till. *)
LEMMA AdmittedVisitInv ==
    ASSUME VisitInv, NEW e \in Entry, Admits(e), UNCHANGED <<now, tariff>>
    PROVE  VisitInv' /\ Stays /\ \A o \in Entry : entry[o].status = "open" => entry'[o].status = "open"
<1> PICK v \in Plate, advance \in Nat :
        entry' = [entry EXCEPT ![e] = [NoEntry EXCEPT !.status = "open", !.plate = v,
                                         !.at = now, !.slabs = tariff, !.advance = advance]]
  BY DEF Admits
<1> DEFINE doc == [NoEntry EXCEPT !.status = "open", !.plate = v,
                                  !.at = now, !.slabs = tariff, !.advance = advance]
<1>1. /\ doc \in EntryDoc /\ doc.status = "open" /\ doc.plate = v
      /\ doc.slabs = tariff /\ doc.at = now
  BY DeskAssumption DEF VisitInv, EntryDoc, NoEntry
<1>2. entry' = [entry EXCEPT ![e] = doc]
  OBVIOUS
<1> HIDE DEF doc
<1>3. entry'[e] = doc /\ \A o \in Entry \ {e} : entry'[o] = entry[o]
  BY <1>2 DEF VisitInv
<1>4. entry' \in [Entry -> EntryDoc]
  BY <1>1, <1>2 DEF VisitInv
<1>5. now \in Nat
  BY DeskAssumption DEF VisitInv
<1>6. entry[e].status = "none"
  BY DEF Admits
<1>7. VisitInv'
  BY <1>1, <1>3, <1>4, <1>5 DEF VisitInv
<1>8. Stays
  BY <1>3, <1>6 DEF Stays
<1> QED BY <1>1, <1>3, <1>7, <1>8

(* Ending a visit settles it and leaves the others alone. *)
LEMMA ClosedVisitInv ==
    ASSUME VisitInv, NEW e \in Entry, NEW amount, Close(e, amount), UNCHANGED <<now, tariff>>
    PROVE  /\ VisitInv' /\ Stays
           /\ \A o \in Entry :
                entry[o].status = "open" /\ entry'[o].status = "closed" => RightSettlement(o, entry'[o])
<1>1. /\ Chargeable(e) /\ entry[e].status = "open"
      /\ entry' = [entry EXCEPT ![e] = ExitDocument(e, amount)]
  BY DEF Close, Chargeable, Open
<1>2. Total(e) \in Nat /\ Applied(e) \in Nat /\ amount \in Nat
  BY BalanceCompletes DEF Close
<1>3. entry[e].plate \in Plate
  BY <1>1 DEF VisitInv
<1>4. /\ ExitDocument(e, amount) \in EntryDoc /\ ExitDocument(e, amount).status = "closed"
      /\ ExitDocument(e, amount).plate = entry[e].plate
  BY <1>2, <1>3, DeskAssumption DEF ExitDocument, NoEntry, EntryDoc
<1>5. entry'[e] = ExitDocument(e, amount) /\ \A o \in Entry \ {e} : entry'[o] = entry[o]
  BY <1>1 DEF VisitInv
<1>6. entry' \in [Entry -> EntryDoc]
  BY <1>1, <1>4 DEF VisitInv
<1>7. RightSettlement(e, entry'[e])
  BY <1>5, CloseIsRight
<1>8. VisitInv'
  BY <1>3, <1>4, <1>5, <1>6 DEF VisitInv
<1>9. Stays
  BY <1>4, <1>5 DEF Stays
<1> QED BY <1>5, <1>7, <1>8, <1>9

(* What the server does to a call it serves: it is answered, or dropped if *)
(* nobody waits for it.                                                    *)
Served(c) ==
    /\ call[c].op \in {"create", "exit"}
    /\ \/ ~call[c].heard /\ call' = [call EXCEPT ![c] = NoCall]
       \/ /\ call[c].heard
          /\ \E status \in {"ok", "refused"}, e \in Entry \cup {None} :
                /\ call' = [call EXCEPT ![c] = [call[c] EXCEPT !.status = status, !.entry = e]]
                /\ call[c].op = "create" /\ status = "ok" => e \in Entry
                /\ call[c].op = "exit" => e = call[c].entry

(* An answer to a call that writes serves it. *)
LEMMA ReplyServes ==
    ASSUME CallInv, NEW c \in Call, NEW status \in {"ok", "refused"}, NEW e \in Entry \cup {None},
           Reply(c, status, e), call[c].op \in {"create", "exit"},
           call[c].op = "create" /\ status = "ok" => e \in Entry,
           call[c].op = "exit" => e = call[c].entry
    PROVE  Served(c)
<1>1. CASE call[c].heard
  <2>1. call' = [call EXCEPT ![c] = [call[c] EXCEPT !.status = status, !.entry = e]]
    BY <1>1 DEF Reply, CallInv
  <2> QED BY <1>1, <2>1 DEF Served
<1>2. CASE ~call[c].heard
  BY <1>2 DEF Reply, Served
<1> QED BY <1>1, <1>2

(* Serving a call leaves the pages waiting as they did. *)
LEMMA ServedCalls ==
    ASSUME CallInv, BusyInv, NEW c \in Call, Served(c), Stays, UNCHANGED <<view, saving, loading, exiting>>
    PROVE  CallInv' /\ BusyInv'
<1>1. /\ \A d \in Call \ {c} : call'[d] = call[d]
      /\ call' \in [Call -> CallDoc]
      /\ \/ call'[c] = NoCall /\ ~call[c].heard
         \/ /\ call'[c].op = call[c].op /\ call'[c].heard = call[c].heard
            /\ call'[c].plate = call[c].plate
            /\ call[c].op = "create" /\ call'[c].status = "ok" => call'[c].entry \in Entry
            /\ call[c].op = "exit" => call'[c].entry = call[c].entry
  <2>1. CASE ~call[c].heard
    <3>1. NoCall \in CallDoc
      BY DEF NoCall, CallDoc
    <3>2. call' = [call EXCEPT ![c] = NoCall]
      BY <2>1 DEF Served
    <3> QED BY <2>1, <3>1, <3>2 DEF CallInv
  <2>2. CASE call[c].heard
    <3>1. PICK status \in {"ok", "refused"}, e \in Entry \cup {None} :
            /\ call' = [call EXCEPT ![c] = [call[c] EXCEPT !.status = status, !.entry = e]]
            /\ call[c].op = "create" /\ status = "ok" => e \in Entry
            /\ call[c].op = "exit" => e = call[c].entry
      BY <2>2 DEF Served
    <3> DEFINE answer == [call[c] EXCEPT !.status = status, !.entry = e]
    <3>2. /\ answer \in CallDoc /\ answer.op = call[c].op /\ answer.heard = call[c].heard
          /\ answer.plate = call[c].plate /\ answer.status = status /\ answer.entry = e
      BY DEF CallInv, CallDoc
    <3>3. call' = [call EXCEPT ![c] = answer]
      BY <3>1
    <3> HIDE DEF answer
    <3> QED BY <3>1, <3>2, <3>3 DEF CallInv
  <2> QED BY <2>1, <2>2
<1>2. call[c].op \in {"create", "exit"}
  BY DEF Served
<1>3. NoCall.op = "none" /\ ~NoCall.heard
  BY DEF NoCall
<1>4. CallInv'
  <2> SUFFICES ASSUME NEW d \in Call
               PROVE  /\ call'[d].op \in Reads => call'[d].heard
                      /\ call'[d].op \in {"charge", "select", "recalculate", "exit"} =>
                            call'[d].entry \in Entry /\ entry'[call'[d].entry].status # "none"
                      /\ call'[d].op = "create" => call'[d].plate \in Plate
                      /\ call'[d].op = "create" /\ call'[d].status = "ok" => call'[d].entry \in Entry
                      /\ call'[d].heard => view = IF call'[d].op = "create" THEN "entry" ELSE "exit"
    BY <1>1 DEF CallInv
  <2>1. CASE d # c
    BY <1>1, <2>1 DEF CallInv, Stays
  <2>2. CASE d = c
    BY <1>1, <1>2, <1>3, <2>2 DEF CallInv, Stays, Reads
  <2> QED BY <2>1, <2>2
<1>5. BusyInv'
  <2>1. \A d \in Call : call'[d].heard = call[d].heard /\ (call[d].heard => call'[d].op = call[d].op)
    BY <1>1, <1>3 DEF CallInv, CallDoc
  <2> QED BY <2>1 DEF BusyInv, Waits
<1> QED BY <1>4, <1>5

(* The vehicle shown stays the vehicle shown. *)
LEMMA ServedPage ==
    ASSUME PageInv, Stays, UNCHANGED tabVars
    PROVE  PageInv'
BY DEF PageInv, Stays, tabVars, MembershipSettles, Subject, SubjectOf

(* An open entry that closes is settled as it should be. *)
RightlyClosed ==
    \A e \in Entry :
        entry[e].status = "open" /\ entry'[e].status = "closed" => RightSettlement(e, entry'[e])

(* No step of the server breaks what the pages rely on. *)
LEMMA ServerStep ==
    ASSUME ScreenInv, ServerNext, UNCHANGED <<tabVars, entryScreenVars, exitScreenVars>>
    PROVE  ScreenInv' /\ RightlyClosed
<1> USE DEF ScreenInv
<1>1. PageInv' /\ CallInv' /\ BusyInv' /\ VisitInv' /\ RightlyClosed => ScreenInv' /\ RightlyClosed
  BY DEF tabVars, entryScreenVars, exitScreenVars, ReceiptInv, CameraInv, ReceiptOpen
<1>2. UNCHANGED <<view, saving, loading, exiting>>
  BY DEF tabVars, entryScreenVars, exitScreenVars
<1>3. CASE UNCHANGED <<entry, call>> /\ now' \in Moment /\ now' >= now /\ tariff' \in DOMAIN Rate
  <2>1. Stays /\ RightlyClosed
    BY <1>3 DEF Stays, RightlyClosed
  <2>2. now \in Nat /\ now' \in Nat
    BY <1>3, DeskAssumption DEF VisitInv
  <2>3. VisitInv'
    <3>1. \A e \in Entry : entry[e].at \in Nat
      BY DeskAssumption DEF VisitInv, EntryDoc
    <3> QED BY <1>3, <2>2, <3>1 DEF VisitInv
  <2>4. CallInv' /\ BusyInv'
    BY <1>2, <1>3 DEF CallInv, BusyInv, Waits
  <2> QED BY <1>1, <2>1, <2>3, <2>4, ServedPage
<1>4. CASE Tick
  <2>1. now \in Nat /\ now' \in Nat
    BY <1>4, DeskAssumption DEF Tick, VisitInv
  <2> QED BY <1>3, <1>4, <2>1 DEF Tick, VisitInv
<1>5. CASE ChangeRate
  <2>1. now \in Nat
    BY DeskAssumption DEF VisitInv
  <2>2. tariff' \in DOMAIN Rate
    BY <1>5, DeskAssumption DEF ChangeRate, VisitInv
  <2> QED BY <1>3, <1>5, <2>1, <2>2 DEF ChangeRate, VisitInv
<1>6. ASSUME NEW e \in Entry, OtherTill(e)
      PROVE  ScreenInv' /\ RightlyClosed
  <2>1. VisitInv' /\ Stays /\ RightlyClosed
    BY <1>6, ClosedVisitInv DEF OtherTill, RightlyClosed
  <2>2. CallInv' /\ BusyInv'
    BY <1>2, <1>6, <2>1 DEF OtherTill, CallInv, BusyInv, Waits, Stays
  <2> QED BY <1>1, <2>1, <2>2, ServedPage
<1>7. ASSUME NEW c \in Call, EntryRefused(c) \/ ExitRefused(c)
      PROVE  ScreenInv' /\ RightlyClosed
  <2>1. /\ Reply(c, "refused", call[c].entry) /\ UNCHANGED <<now, tariff, entry>>
        /\ call[c].op \in {"create", "exit"}
    BY <1>7 DEF EntryRefused, ExitRefused, Refuse, Sent
  <2>2. call[c].entry \in Entry \cup {None}
    BY DEF CallInv, CallDoc
  <2>3. Served(c)
    BY <2>1, <2>2, ReplyServes
  <2>4. Stays /\ RightlyClosed /\ VisitInv'
    BY <2>1 DEF Stays, RightlyClosed, VisitInv
  <2> QED BY <1>1, <1>2, <2>3, <2>4, ServedCalls, ServedPage
<1>8. ASSUME NEW c \in Call, CreateExit(c)
      PROVE  ScreenInv' /\ RightlyClosed
  <2> DEFINE e == call[c].entry
  <2>1. /\ Close(e, call[c].sum) /\ Reply(c, "ok", e) /\ UNCHANGED <<now, tariff>>
        /\ call[c].op = "exit"
    BY <1>8 DEF CreateExit, Sent
  <2>2. e \in Entry
    BY <2>1 DEF CallInv
  <2>3. VisitInv' /\ Stays /\ RightlyClosed
    BY <2>1, <2>2, ClosedVisitInv DEF RightlyClosed
  <2>4. Served(c)
    BY <2>1, <2>2, ReplyServes
  <2> QED BY <1>1, <1>2, <2>3, <2>4, ServedCalls, ServedPage
<1>9. ASSUME NEW c \in Call, NEW e \in Entry, CreateEntry(c, e)
      PROVE  ScreenInv' /\ RightlyClosed
  <2>1. call[c].op = "create" /\ Reply(c, "ok", e) /\ UNCHANGED <<now, tariff>>
    BY <1>9 DEF CreateEntry, Sent
  <2>2. call[c].plate \in Plate /\ call[c].sum \in Nat
    BY <2>1 DEF CallInv, CallDoc
  <2>3. Admits(e)
    BY <1>9, <2>2 DEF CreateEntry, Admits
  <2>4. VisitInv' /\ Stays /\ RightlyClosed
    BY <2>1, <2>3, AdmittedVisitInv DEF RightlyClosed
  <2>5. Served(c)
    BY <2>1, ReplyServes
  <2> QED BY <1>1, <1>2, <2>4, <2>5, ServedCalls, ServedPage
<1> QED BY <1>4, <1>5, <1>6, <1>7, <1>8, <1>9 DEF ServerNext

-----------------------------------------------------------------------------
(* Calls as pages make and end them. *)

(* A call that is sent replaces one that is free, or one that waits. *)
LEMMA SentCall ==
    ASSUME CallInv, NEW c \in Call, NEW op \in Operation, NEW v \in Plate \cup {None},
           NEW e \in Entry \cup {None}, NEW sum \in Nat, call' = Send(call, c, op, v, e, sum)
    PROVE  /\ call' \in [Call -> CallDoc]
           /\ \A d \in Call \ {c} : call'[d] = call[d]
           /\ call'[c].op = op /\ call'[c].status = "sent" /\ call'[c].heard
           /\ call'[c].plate = v /\ call'[c].entry = e
BY DEF CallInv, CallDoc, Send

(* A call that has been answered is free again. *)
LEMMA HeardCall ==
    ASSUME CallInv, NEW c \in Call, call' = Heard(c)
    PROVE  /\ call' \in [Call -> CallDoc]
           /\ \A d \in Call \ {c} : call'[d] = call[d]
           /\ call'[c].op = "none" /\ ~call'[c].heard
BY DEF CallInv, CallDoc, Heard, NoCall

(* A call that is given up is waited for no more; one that writes goes on. *)
LEMMA GivenUpCall ==
    ASSUME CallInv, NEW c \in Call, call' = GivenUp(c)
    PROVE  /\ call' \in [Call -> CallDoc]
           /\ \A d \in Call \ {c} : call'[d] = call[d]
           /\ ~call'[c].heard
           /\ \/ call'[c].op = "none"
              \/ /\ call[c].op \in {"create", "exit"} /\ call'[c].op = call[c].op
                 /\ call'[c].status = "sent" /\ call'[c].plate = call[c].plate
                 /\ call'[c].entry = call[c].entry
<1>1. CASE call[c].status = "sent" /\ call[c].op \in {"create", "exit"}
  <2> DEFINE dropped == [call[c] EXCEPT !.heard = FALSE]
  <2>1. call' = [call EXCEPT ![c] = dropped]
    BY <1>1 DEF GivenUp
  <2>2. /\ dropped \in CallDoc /\ ~dropped.heard /\ dropped.op = call[c].op
        /\ dropped.status = call[c].status /\ dropped.plate = call[c].plate /\ dropped.entry = call[c].entry
    BY DEF CallInv, CallDoc
  <2> HIDE DEF dropped
  <2> QED BY <1>1, <2>1, <2>2 DEF CallInv
<1>2. CASE ~(call[c].status = "sent" /\ call[c].op \in {"create", "exit"})
  BY <1>2, HeardCall DEF GivenUp
<1> QED BY <1>1, <1>2

(* A page that is left has nobody who waits. *)
LEMMA AbandonedCalls ==
    ASSUME CallInv, NEW c \in Call
    PROVE  /\ Abandoned \in [Call -> CallDoc] /\ ~Abandoned[c].heard
           /\ \/ Abandoned[c].op = "none"
              \/ /\ call[c].op \in {"create", "exit"} /\ Abandoned[c].op = call[c].op
                 /\ Abandoned[c].status = "sent" /\ Abandoned[c].plate = call[c].plate
                 /\ Abandoned[c].entry = call[c].entry
<1>1. ASSUME NEW d \in Call
      PROVE  /\ [call[d] EXCEPT !.heard = FALSE] \in CallDoc
             /\ [call[d] EXCEPT !.heard = FALSE].op = call[d].op
             /\ [call[d] EXCEPT !.heard = FALSE].status = call[d].status
             /\ [call[d] EXCEPT !.heard = FALSE].plate = call[d].plate
             /\ [call[d] EXCEPT !.heard = FALSE].entry = call[d].entry
             /\ ~[call[d] EXCEPT !.heard = FALSE].heard
  BY DEF CallInv, CallDoc
<1>2. NoCall \in CallDoc /\ NoCall.op = "none" /\ ~NoCall.heard
  BY DEF CallDoc, NoCall
<1>3. Abandoned \in [Call -> CallDoc]
  BY <1>1, <1>2 DEF Abandoned
<1> QED BY <1>1, <1>2, <1>3 DEF Abandoned

(* The calls, and what the pages wait for. *)
CallsInv == CallInv /\ BusyInv

(* A page sends a call, and waits as the operation has it. *)
LEMMA SentCallsInv ==
    ASSUME CallsInv, NEW c \in Call, NEW op \in Operation, NEW v \in Plate \cup {None},
           NEW e \in Entry \cup {None}, NEW sum \in Nat, call' = Send(call, c, op, v, e, sum),
           UNCHANGED <<view, entry>>,
           view = IF op = "create" THEN "entry" ELSE "exit",
           op = "create" => v \in Plate,
           op \in {"charge", "select", "recalculate", "exit"} => e \in Entry /\ entry[e].status # "none",
           call[c].op \in Reads \cup {"none"} /\ (call[c].op = "none" => ~call[c].heard),
           saving' = (saving \/ op = "create") /\ (op = "create" => ~saving),
           exiting' = (exiting \/ op = "exit") /\ (op = "exit" => ~exiting),
           loading' = (loading \/ op \in {"lookup", "select"}),
           op \in {"create", "exit", "recalculate"} => call[c].op = "none"
    PROVE  CallsInv'
<1> USE DEF CallsInv
<1>1. /\ call' \in [Call -> CallDoc]
      /\ \A d \in Call \ {c} : call'[d] = call[d]
      /\ call'[c].op = op /\ call'[c].status = "sent" /\ call'[c].heard
      /\ call'[c].plate = v /\ call'[c].entry = e
  BY SentCall
<1>2. CallInv'
  <2> SUFFICES ASSUME NEW d \in Call
               PROVE  /\ call'[d].op \in Reads => call'[d].heard
                      /\ call'[d].op \in {"charge", "select", "recalculate", "exit"} =>
                            call'[d].entry \in Entry /\ entry[call'[d].entry].status # "none"
                      /\ call'[d].op = "create" => call'[d].plate \in Plate
                      /\ call'[d].op = "create" /\ call'[d].status = "ok" => call'[d].entry \in Entry
                      /\ call'[d].heard => view = IF call'[d].op = "create" THEN "entry" ELSE "exit"
    BY <1>1 DEF CallInv
  <2>1. CASE d # c
    BY <1>1, <2>1 DEF CallInv
  <2>2. CASE d = c
    BY <1>1, <2>2 DEF CallInv
  <2> QED BY <2>1, <2>2
<1>3. BusyInv'
  <2>1. /\ Waits(c, "create")' <=> op = "create"
        /\ Waits(c, "exit")' <=> op = "exit"
        /\ ~Waits(c, "create") /\ ~Waits(c, "exit")
        /\ \A d \in Call \ {c} :
              /\ Waits(d, "create")' <=> Waits(d, "create")
              /\ Waits(d, "exit")' <=> Waits(d, "exit")
    BY <1>1 DEF Waits, Reads
  <2>2. /\ saving' \in BOOLEAN /\ loading' \in BOOLEAN /\ exiting' \in BOOLEAN
        /\ saving' <=> \E d \in Call : Waits(d, "create")'
        /\ exiting' <=> \E d \in Call : Waits(d, "exit")'
        /\ \A d, f \in Call :
              \/ Waits(d, "create")' /\ Waits(f, "create")'
              \/ Waits(d, "exit")' /\ Waits(f, "exit")'
              => d = f
    BY <2>1 DEF BusyInv
  <2>3. loading' => \E d \in Call :
          call'[d].heard /\ call'[d].op \in {"lookup", "charge", "recover", "select"}
    <3>1. CASE op \in {"lookup", "charge", "recover", "select"}
      BY <1>1, <3>1
    <3>2. CASE op \notin {"lookup", "charge", "recover", "select"}
      BY <1>1, <3>2 DEF BusyInv, Operation
    <3> QED BY <3>1, <3>2
  <2> QED BY <2>2, <2>3 DEF BusyInv, Waits
<1> QED BY <1>2, <1>3

(* A call ends, or is given up: nobody waits for it any more. *)
LEMMA EndedCallsInv ==
    ASSUME CallsInv, NEW c \in Call, call[c].heard, call' = Heard(c) \/ call' = GivenUp(c),
           UNCHANGED <<view, entry>>,
           saving' = IF call[c].op = "create" THEN FALSE ELSE saving,
           exiting' = IF call[c].op = "exit" THEN FALSE ELSE exiting,
           \/ loading' = FALSE
           \/ loading' = loading /\ call[c].op \in {"create", "exit", "recalculate"}
    PROVE  CallsInv'
<1> USE DEF CallsInv
<1>1. /\ call' \in [Call -> CallDoc]
      /\ \A d \in Call \ {c} : call'[d] = call[d]
      /\ ~call'[c].heard
      /\ \/ call'[c].op = "none"
         \/ /\ call[c].op \in {"create", "exit"} /\ call'[c].op = call[c].op
            /\ call'[c].status = "sent" /\ call'[c].plate = call[c].plate
            /\ call'[c].entry = call[c].entry
  BY HeardCall, GivenUpCall
<1>2. CallInv'
  <2> SUFFICES ASSUME NEW d \in Call
               PROVE  /\ call'[d].op \in Reads => call'[d].heard
                      /\ call'[d].op \in {"charge", "select", "recalculate", "exit"} =>
                            call'[d].entry \in Entry /\ entry[call'[d].entry].status # "none"
                      /\ call'[d].op = "create" => call'[d].plate \in Plate
                      /\ call'[d].op = "create" /\ call'[d].status = "ok" => call'[d].entry \in Entry
                      /\ call'[d].heard => view = IF call'[d].op = "create" THEN "entry" ELSE "exit"
    BY <1>1 DEF CallInv
  <2>1. CASE d # c
    BY <1>1, <2>1 DEF CallInv
  <2>2. CASE d = c
    BY <1>1, <2>2 DEF CallInv, Reads
  <2> QED BY <2>1, <2>2
<1>3. BusyInv'
  <2>1. /\ ~Waits(c, "create")' /\ ~Waits(c, "exit")'
        /\ \A d \in Call \ {c} :
              /\ Waits(d, "create")' <=> Waits(d, "create")
              /\ Waits(d, "exit")' <=> Waits(d, "exit")
    BY <1>1 DEF Waits
  <2>2. /\ Waits(c, "create") <=> call[c].op = "create"
        /\ Waits(c, "exit") <=> call[c].op = "exit"
    BY DEF Waits
  <2>3. /\ saving' \in BOOLEAN /\ loading' \in BOOLEAN /\ exiting' \in BOOLEAN
        /\ saving' <=> \E d \in Call : Waits(d, "create")'
        /\ exiting' <=> \E d \in Call : Waits(d, "exit")'
        /\ \A d, f \in Call :
              \/ Waits(d, "create")' /\ Waits(f, "create")'
              \/ Waits(d, "exit")' /\ Waits(f, "exit")'
              => d = f
    BY <2>1, <2>2 DEF BusyInv
  <2>4. loading' => \E d \in Call :
          call'[d].heard /\ call'[d].op \in {"lookup", "charge", "recover", "select"}
    BY <1>1 DEF BusyInv
  <2> QED BY <2>3, <2>4 DEF BusyInv, Waits
<1> QED BY <1>2, <1>3

-----------------------------------------------------------------------------
(* The vehicle a page is about. *)

(* The effect on the vehicle number runs after a step of the page.         *)
LEMMA WatchKeepsPage ==
    ASSUME VisitInv, PageInv, NEW v \in Plate \cup {None}, Watch(v), UNCHANGED <<entry, view>>,
           view \in {"entry", "exit"},
           field' \in Plate \cup {None}, shown' \in Entry \cup {None},
           shown' # None => view = "exit" /\ entry[shown'].status # "none",
           v = SubjectOf(shown', field')
    PROVE  PageInv'
<1>1. Subject' = v
  BY DEF Subject, SubjectOf
<1>2. CASE v = Subject
  <2>1. UNCHANGED <<member, typing, asked>>
    BY <1>2 DEF Watch
  <2>2. typing => view = "entry" /\ shown = None /\ field # None
    BY DEF PageInv
  <2>3. typing => field' # None
    BY <1>2, <2>2 DEF Subject, SubjectOf
  <2>4. MembershipSettles'
    BY <1>1, <1>2, <2>1 DEF PageInv, MembershipSettles
  <2> QED BY <2>1, <2>2, <2>3, <2>4 DEF PageInv
<1>3. CASE v # Subject
  <2>1. /\ member' = IF v = None THEN None ELSE member
        /\ typing' = (v # None /\ view = "entry")
        /\ asked' = IF v = None \/ view = "entry" THEN asked ELSE asked \cup {v}
    BY <1>3 DEF Watch
  <2>2. typing' => field' # None
    BY <2>1 DEF SubjectOf
  <2>3. MembershipSettles'
    BY <1>1, <2>1 DEF MembershipSettles
  <2>4. asked' \subseteq Plate /\ member' \in Plate \cup {None} /\ typing' \in BOOLEAN
    BY <2>1 DEF PageInv
  <2> QED BY <2>1, <2>2, <2>3, <2>4 DEF PageInv
<1> QED BY <1>2, <1>3

(* The page the operator has moved to is about nothing yet. *)
LEMMA MountedPage ==
    ASSUME NEW screen \in {"entry", "exit", "log"}, NEW calls, Mount(screen, calls)
    PROVE  PageInv'
BY DEF Mount, PageInv, MembershipSettles, Subject, SubjectOf

(* The pause in the typing has the pass of the number looked up. *)
LEMMA PausedPage ==
    ASSUME PageInv, TypingPaused
    PROVE  PageInv'
<1>1. /\ typing /\ typing' = FALSE /\ asked' = asked \cup {field}
      /\ UNCHANGED <<view, field, shown, member, entry>>
  BY DEF TypingPaused, serverVars, PageInv
<1>2. field \in Plate /\ shown = None
  BY <1>1 DEF PageInv
<1>3. Subject' = field
  BY <1>1, <1>2 DEF Subject, SubjectOf
<1>4. Subject' \in asked'
  BY <1>1, <1>3
<1>5. MembershipSettles'
  BY <1>4 DEF MembershipSettles
<1> QED BY <1>1, <1>2, <1>5 DEF PageInv

(* An answer about a vehicle the page has left changes nothing shown. *)
LEMMA AnsweredPage ==
    ASSUME PageInv, NEW v \in Plate, MembershipAnswered(v)
    PROVE  PageInv'
<1>1. /\ asked' = asked \ {v}
      /\ UNCHANGED <<view, field, shown, typing, entry>>
  BY DEF MembershipAnswered, serverVars
<1>2. Subject' = Subject
  BY <1>1 DEF Subject, SubjectOf
<1>3. CASE v = Subject /\ ~typing
  <2>1. member' \in {v, None}
    BY <1>3 DEF MembershipAnswered
  <2> QED BY <1>1, <1>2, <1>3, <2>1 DEF PageInv, MembershipSettles
<1>4. CASE ~(v = Subject /\ ~typing)
  <2>1. member' = member
    BY <1>4 DEF MembershipAnswered
  <2> QED BY <1>1, <1>2, <1>4, <2>1 DEF PageInv, MembershipSettles
<1> QED BY <1>3, <1>4

-----------------------------------------------------------------------------
(* The receipt dialog. *)

(* The dialog loads one receipt, and has none other on its way. *)
LEMMA LoadedReceipt ==
    ASSUME ReceiptInv, NEW e \in Entry, LoadReceipt(e), ~receipt.loading,
           ~saving', ~exiting'
    PROVE  ReceiptInv'
<1>1. /\ receipt' \in Receipt
      /\ receipt'.for = e /\ receipt'.loading /\ ~receipt'.failed /\ receipt'.shown = None
      /\ receipt'.asked = {e}
  BY DEF LoadReceipt, ReceiptInv, Receipt
<1> QED BY <1>1, DeskAssumption DEF ReceiptInv

(* It may open by itself after an entry or an exit. *)
LEMMA MaybeLoadedReceipt ==
    ASSUME ReceiptInv, NEW e \in Entry, MaybeLoadReceipt(e), saving \/ exiting,
           ~saving', ~exiting'
    PROVE  ReceiptInv'
<1>1. ~receipt.loading
  BY DEF ReceiptInv, ReceiptOpen
<1>2. CASE LoadReceipt(e)
  BY <1>1, <1>2, LoadedReceipt
<1>3. CASE UNCHANGED receipt
  BY <1>3 DEF ReceiptInv
<1> QED BY <1>2, <1>3 DEF MaybeLoadReceipt

(* The answer that arrives is the one that is waited for. *)
LEMMA AnsweredReceipt ==
    ASSUME ReceiptInv, NEW e \in Entry, ReceiptAnswered(e) \/ ReceiptFailed(e), UNCHANGED <<saving, exiting>>
    PROVE  ReceiptInv'
<1>1. receipt.loading /\ receipt.for = e /\ receipt.asked \ {e} = {}
  BY DEF ReceiptInv, ReceiptAnswered, ReceiptFailed
<1>2. ~saving /\ ~exiting
  BY <1>1 DEF ReceiptInv, ReceiptOpen
<1>3. /\ receipt' \in Receipt /\ ~receipt'.loading /\ receipt'.asked = {}
      /\ receipt'.for = e /\ receipt'.shown \in {receipt.shown, e}
  BY <1>1 DEF ReceiptInv, Receipt, ReceiptAnswered, ReceiptFailed
<1> QED BY <1>1, <1>2, <1>3 DEF ReceiptInv

(* A dialog that closes has nothing on its way. *)
LEMMA ClosedReceipt ==
    ASSUME ReceiptInv, CloseReceipt, UNCHANGED <<saving, exiting>>
    PROVE  ReceiptInv'
<1>1. receipt' = [NoReceipt EXCEPT !.asked = receipt.asked] /\ receipt.asked = {}
  BY DEF CloseReceipt, ReceiptInv
<1>2. /\ receipt' \in Receipt /\ ~receipt'.loading /\ ~receipt'.failed
      /\ receipt'.shown = None /\ receipt'.asked = {}
  BY <1>1 DEF NoReceipt, Receipt
<1> QED BY <1>2 DEF ReceiptInv, ReceiptOpen

(* A page that is opened has no dialog. *)
LEMMA MountedReceipt ==
    ASSUME NEW screen, NEW calls, Mount(screen, calls)
    PROVE  ReceiptInv'
BY DEF Mount, ReceiptInv, ReceiptOpen, Receipt, NoReceipt

-----------------------------------------------------------------------------
(* The camera dialog. *)
LEMMA ClosedCamera ==
    ASSUME CameraInv
    PROVE  /\ Closed(camera) \in Camera
           /\ ~Closed(camera).asked /\ ~Closed(camera).live
<1> DEFINE left == IF camera.asked THEN camera.before + 1 ELSE camera.before
<1>1. camera \in Camera /\ left \in 0 .. MaxPending
  BY CameraAssumption DEF CameraInv, Camera
<1>2. Closed(camera) = [camera EXCEPT !.open = FALSE, !.asked = FALSE, !.live = FALSE, !.before = left]
  BY <1>1 DEF Closed, Camera
<1> HIDE DEF left
<1> QED BY <1>1, <1>2 DEF Camera

(* Its clean-up stops the stream, and those granted later never start. *)
LEMMA CameraStep ==
    ASSUME CameraInv,
           \/ OpenCamera \/ CloseCamera \/ LatePermission \/ CaptureImage \/ ScanQr
           \/ \E b \in BOOLEAN : PermissionAnswered(b) \/ Scanned(b)
    PROVE  CameraInv'
<1> USE CameraAssumption
<1>1. CASE OpenCamera
  BY <1>1 DEF CameraInv, Camera, OpenCamera, AtForm
<1>2. CASE CloseCamera \/ CaptureImage
  BY <1>2, ClosedCamera DEF CameraInv, CloseCamera, CaptureImage
<1>3. CASE LatePermission
  BY <1>3 DEF CameraInv, Camera, LatePermission
<1>4. CASE ScanQr
  BY <1>4 DEF CameraInv, Camera, ScanQr
<1>5. ASSUME NEW b \in BOOLEAN, PermissionAnswered(b) PROVE CameraInv'
  BY <1>5 DEF CameraInv, Camera, PermissionAnswered
<1>6. ASSUME NEW b \in BOOLEAN, Scanned(b) PROVE CameraInv'
  <2>1. CASE b
    <3>1. camera' = [Closed(camera) EXCEPT !.scanning = FALSE]
      BY <1>6, <2>1 DEF Scanned
    <3> QED BY <3>1, ClosedCamera DEF CameraInv, Camera
  <2>2. CASE ~b
    <3>1. camera' = [camera EXCEPT !.scanning = FALSE]
      BY <1>6, <2>2 DEF Scanned
    <3> QED BY <3>1 DEF CameraInv, Camera
  <2> QED BY <2>1, <2>2
<1> QED BY <1>1, <1>2, <1>3, <1>4, <1>5, <1>6

-----------------------------------------------------------------------------
(* Nothing but the server changes a visit. *)
LEMMA VisitsStand ==
    ASSUME VisitInv, UNCHANGED <<now, tariff, entry>>
    PROVE  VisitInv' /\ RightlyClosed
BY DEF VisitInv, RightlyClosed

(* Steps that touch neither the calls nor the waiting keep them right. *)
LEMMA CallsStand ==
    ASSUME CallsInv, UNCHANGED <<entry, call, view, saving, loading, exiting>>
    PROVE  CallsInv'
BY DEF CallsInv, CallInv, BusyInv, Waits

(* The same for the vehicle, *)
LEMMA PageStands ==
    ASSUME PageInv, UNCHANGED <<entry, view, field, shown, member, typing, asked>>
    PROVE  PageInv'
BY DEF PageInv, MembershipSettles, Subject, SubjectOf

(* the receipt *)
LEMMA ReceiptStands ==
    ASSUME ReceiptInv, UNCHANGED receipt, saving' \/ exiting' => saving \/ exiting \/ ~ReceiptOpen
    PROVE  ReceiptInv'
BY DEF ReceiptInv, ReceiptOpen

(* and the camera. *)
LEMMA CameraStands == ASSUME CameraInv, UNCHANGED camera PROVE CameraInv'
BY DEF CameraInv

(* The fields of the exit page's calculation. *)
DueInv == due \in Nat \cup {None} /\ paid \in Nat

(* The balance that is proposed is an amount. *)
LEMMA ProposedDue ==
    ASSUME VisitInv, NEW e \in Entry, Propose(e)
    PROVE  DueInv'
BY BalanceCompletes DEF Propose, DueInv

(* Steps both pages have in common. *)
LEMMA TabStepInv ==
    ASSUME ScreenInv, TabStep, UNCHANGED <<entryScreenVars, exitScreenVars>>
    PROVE  ScreenInv' /\ RightlyClosed
<1> USE DEF ScreenInv
<1>1. UNCHANGED <<saving, camera, due, paid, loading, exiting>>
  BY DEF entryScreenVars, exitScreenVars
<1>2. UNCHANGED <<now, tariff, entry, call, view>>
  BY DEF TabStep, TypingPaused, RetryReceipt, CloseReceipt, MembershipAnswered, ReceiptAnswered,
         ReceiptFailed, serverVars
<1>3. VisitInv' /\ RightlyClosed /\ CallsInv' /\ CameraInv'
  BY <1>1, <1>2, VisitsStand, CallsStand, CameraStands DEF CallsInv
<1>4. PageInv' /\ ReceiptInv'
  <2>1. CASE TypingPaused
    <3>1. UNCHANGED receipt
      BY <2>1 DEF TypingPaused
    <3> QED BY <1>1, <2>1, <3>1, PausedPage, ReceiptStands
  <2>2. ASSUME NEW v \in Plate, MembershipAnswered(v) PROVE PageInv' /\ ReceiptInv'
    <3>1. UNCHANGED receipt
      BY <2>2 DEF MembershipAnswered
    <3> QED BY <1>1, <2>2, <3>1, AnsweredPage, ReceiptStands
  <2>3. CASE RetryReceipt
    <3>1. UNCHANGED <<field, shown, member, typing, asked>>
      BY <2>3 DEF RetryReceipt
    <3>2. receipt.for \in Entry /\ ~receipt.loading /\ LoadReceipt(receipt.for) /\ ~saving /\ ~exiting
      BY <2>3 DEF RetryReceipt, ReceiptInv, ReceiptOpen, Receipt
    <3> QED BY <1>1, <1>2, <3>1, <3>2, PageStands, LoadedReceipt
  <2>4. CASE CloseReceipt
    <3>1. UNCHANGED <<field, shown, member, typing, asked>>
      BY <2>4 DEF CloseReceipt
    <3> QED BY <1>1, <1>2, <2>4, <3>1, PageStands, ClosedReceipt
  <2>5. ASSUME NEW e \in Entry, ReceiptAnswered(e) \/ ReceiptFailed(e) PROVE PageInv' /\ ReceiptInv'
    <3>1. UNCHANGED <<field, shown, member, typing, asked>>
      BY <2>5 DEF ReceiptAnswered, ReceiptFailed
    <3> QED BY <1>1, <1>2, <2>5, <3>1, PageStands, AnsweredReceipt
  <2> QED BY <2>1, <2>2, <2>3, <2>4, <2>5 DEF TabStep
<1> QED BY <1>1, <1>3, <1>4 DEF CallsInv

(* Steps of the entry page. *)
LEMMA EntryScreenStepInv ==
    ASSUME ScreenInv, EntryScreenStep, UNCHANGED exitScreenVars
    PROVE  ScreenInv' /\ RightlyClosed
<1> USE DEF ScreenInv
<1>1. UNCHANGED <<due, paid, loading, exiting>>
  BY DEF exitScreenVars
<1>2. UNCHANGED <<now, tariff, entry, view>>
  BY DEF EntryScreenStep, TypeEntry, Submit, Saved, SaveFailed, OpenCamera, CloseCamera,
         LatePermission, CaptureImage, ScanQr, PermissionAnswered, Scanned, serverVars, tabVars
<1>3. VisitInv' /\ RightlyClosed
  BY <1>2, VisitsStand
<1>4. CASE \/ OpenCamera \/ CloseCamera \/ LatePermission \/ CaptureImage \/ ScanQr
           \/ \E b \in BOOLEAN : PermissionAnswered(b) \/ Scanned(b)
  <2>1. UNCHANGED <<call, saving, field, shown, member, typing, asked, receipt>>
    BY <1>4 DEF OpenCamera, CloseCamera, LatePermission, CaptureImage, ScanQr,
                PermissionAnswered, Scanned, serverVars, tabVars
  <2> QED BY <1>1, <1>2, <1>3, <1>4, <2>1, CallsStand, PageStands, ReceiptStands, CameraStep DEF CallsInv
<1>5. ASSUME NEW v \in Plate \cup {None}, TypeEntry(v) PROVE ScreenInv' /\ RightlyClosed
  <2>1. /\ view = "entry" /\ field' = v /\ Watch(v)
        /\ UNCHANGED <<call, shown, receipt, saving, camera>>
    BY <1>5 DEF TypeEntry, AtForm, serverVars, entryScreenVars
  <2>2. shown = None /\ v = SubjectOf(shown', field')
    BY <2>1 DEF PageInv, SubjectOf
  <2>3. PageInv'
    BY <1>2, <2>1, <2>2, WatchKeepsPage
  <2> QED BY <1>1, <1>2, <1>3, <2>1, <2>3, CallsStand, ReceiptStands, CameraStands DEF CallsInv
<1>6. ASSUME NEW c \in Free, NEW a \in Advance, Submit(c, a) PROVE ScreenInv' /\ RightlyClosed
  <2>1. /\ view = "entry" /\ ~ReceiptOpen /\ field \in Plate /\ ~saving /\ saving'
        /\ saving' = TRUE
        /\ call' = Send(call, c, "create", field, None, a)
        /\ UNCHANGED <<field, shown, member, typing, asked, receipt, camera>>
    BY <1>6 DEF Submit, AtForm, tabVars, PageInv
  <2>2. c \in Call /\ call[c].op = "none" /\ ~call[c].heard
    BY DEF Free, NoCall
  <2>3. a \in Nat
    BY DeskAssumption
  <2>4. CallsInv'
    BY <1>1, <1>2, <2>1, <2>2, <2>3, SentCallsInv DEF Operation, CallsInv, BusyInv
  <2> QED BY <1>1, <1>2, <1>3, <2>1, <2>4, PageStands, ReceiptStands, CameraStands DEF CallsInv
<1>7. ASSUME NEW c \in Call, Saved(c) PROVE ScreenInv' /\ RightlyClosed
  <2>1. /\ call[c].op = "create" /\ call[c].heard /\ call[c].status = "ok"
        /\ saving' = FALSE /\ field' = None /\ Watch(None)
        /\ MaybeLoadReceipt(call[c].entry) /\ call' = Heard(c)
        /\ UNCHANGED <<shown, camera>>
    BY <1>7 DEF Saved, Done
  <2>2. view = "entry" /\ shown = None /\ call[c].entry \in Entry
    BY <2>1 DEF CallInv, PageInv
  <2>3. saving /\ ~exiting
    BY <2>1, <2>2 DEF BusyInv, Waits, CallInv
  <2>4. PageInv'
    BY <1>2, <2>1, <2>2, WatchKeepsPage DEF SubjectOf
  <2>5. ReceiptInv'
    BY <1>1, <2>1, <2>2, <2>3, MaybeLoadedReceipt
  <2>6. CallsInv'
    BY <1>1, <1>2, <2>1, EndedCallsInv DEF CallsInv
  <2> QED BY <1>1, <1>3, <2>1, <2>4, <2>5, <2>6, CameraStands DEF CallsInv
<1>8. ASSUME NEW c \in Call, SaveFailed(c) PROVE ScreenInv' /\ RightlyClosed
  <2>1. /\ call[c].op = "create" /\ call[c].heard /\ saving' = FALSE /\ call' = GivenUp(c)
        /\ UNCHANGED <<field, shown, member, typing, asked, receipt, camera>>
    BY <1>8 DEF SaveFailed, Failed, tabVars
  <2>2. CallsInv'
    BY <1>1, <1>2, <2>1, EndedCallsInv DEF CallsInv
  <2> QED BY <1>1, <1>2, <1>3, <2>1, <2>2, PageStands, ReceiptStands, CameraStands DEF CallsInv
<1> QED BY <1>4, <1>5, <1>6, <1>7, <1>8 DEF EntryScreenStep

(* Steps of the exit page. *)
LEMMA ExitScreenStepInv ==
    ASSUME ScreenInv, ExitScreenStep, UNCHANGED entryScreenVars
    PROVE  ScreenInv' /\ RightlyClosed
<1> USE DEF ScreenInv
<1>1. UNCHANGED <<saving, camera>>
  BY DEF entryScreenVars
<1>2. UNCHANGED <<now, tariff, entry, view>>
  BY DEF ExitScreenStep, TypeSearch, Pay, Retrieve, Recalculate, ExitVehicle, Select, Charged,
         RetrieveFailed, Recovered, Selected, SelectFailed, Recalculated, RecalculateFailed, Exited,
         ExitFailed, Found, serverVars, tabVars
<1>3. VisitInv' /\ RightlyClosed /\ CameraInv'
  BY <1>1, <1>2, VisitsStand, CameraStands
<1>4. CallsInv' /\ PageInv' /\ ReceiptInv' /\ DueInv' => ScreenInv' /\ RightlyClosed
  BY <1>3 DEF CallsInv, DueInv
<1>5. \A c \in Free : c \in Call /\ call[c].op = "none" /\ ~call[c].heard
  BY DEF Free, NoCall
<1>6. ASSUME NEW v \in Plate \cup {None}, TypeSearch(v) PROVE ScreenInv' /\ RightlyClosed
  <2>1. /\ view = "exit" /\ field' = v /\ Watch(SubjectOf(shown, v))
        /\ UNCHANGED <<call, shown, receipt, due, paid, loading, exiting>>
    BY <1>6 DEF TypeSearch, AtDesk, serverVars, exitScreenVars
  <2>2. SubjectOf(shown, v) \in Plate \cup {None} /\ SubjectOf(shown, v) = SubjectOf(shown', field')
    BY <1>2, <2>1 DEF PageInv, VisitInv, SubjectOf
  <2>3. PageInv'
    BY <1>2, <2>1, <2>2, WatchKeepsPage DEF PageInv
  <2> QED BY <1>1, <1>2, <1>4, <2>1, <2>3, CallsStand, ReceiptStands DEF CallsInv, DueInv
<1>7. ASSUME NEW a \in Typed, Pay(a) PROVE ScreenInv' /\ RightlyClosed
  <2>1. /\ paid' = a
        /\ UNCHANGED <<call, field, shown, member, typing, asked, receipt, due, loading, exiting>>
    BY <1>7 DEF Pay, serverVars, tabVars
  <2>2. DueInv'
    BY <2>1, TypedAssumption DEF DueInv
  <2> QED BY <1>1, <1>2, <1>4, <2>1, <2>2, CallsStand, PageStands, ReceiptStands DEF CallsInv
<1>8. ASSUME NEW c \in Free, Retrieve(c) PROVE ScreenInv' /\ RightlyClosed
  <2>1. /\ view = "exit" /\ loading' = TRUE /\ shown' = None /\ due' = None /\ Watch(field)
        /\ call' = Send(call, c, "lookup", field, None, 0)
        /\ UNCHANGED <<field, receipt, paid, exiting>>
    BY <1>8 DEF Retrieve, AtDesk
  <2>2. field \in Plate \cup {None} /\ field = SubjectOf(shown', field')
    BY <2>1 DEF PageInv, SubjectOf
  <2>3. PageInv'
    BY <1>2, <2>1, <2>2, WatchKeepsPage
  <2>4. CallsInv'
    BY <1>1, <1>2, <1>5, <2>1, <2>2, SentCallsInv DEF Operation, CallsInv, BusyInv
  <2> QED BY <1>1, <1>4, <2>1, <2>3, <2>4, ReceiptStands DEF DueInv
<1>9. ASSUME NEW c \in Free, Recalculate(c) PROVE ScreenInv' /\ RightlyClosed
  <2>1. /\ view = "exit" /\ shown \in Entry /\ entry[shown].status # "none"
        /\ call' = Send(call, c, "recalculate", None, shown, 0)
        /\ UNCHANGED <<field, shown, member, typing, asked, receipt, due, paid, loading, exiting>>
    BY <1>9 DEF Recalculate, AtDesk, tabVars, exitScreenVars, PageInv
  <2>2. CallsInv'
    BY <1>1, <1>2, <1>5, <2>1, SentCallsInv DEF Operation, CallsInv, BusyInv
  <2> QED BY <1>1, <1>2, <1>4, <2>1, <2>2, PageStands, ReceiptStands DEF DueInv
<1>10. ASSUME NEW c \in Free, ExitVehicle(c) PROVE ScreenInv' /\ RightlyClosed
  <2>1. /\ view = "exit" /\ ~ReceiptOpen /\ shown \in Entry /\ entry[shown].status # "none"
        /\ ~exiting /\ exiting' = TRUE
        /\ call' = Send(call, c, "exit", None, shown, paid)
        /\ UNCHANGED <<field, shown, member, typing, asked, receipt, due, paid, loading>>
    BY <1>10 DEF ExitVehicle, AtDesk, tabVars, PageInv
  <2>2. CallsInv'
    BY <1>1, <1>2, <1>5, <2>1, SentCallsInv DEF Operation, CallsInv, BusyInv
  <2> QED BY <1>1, <1>2, <1>4, <2>1, <2>2, PageStands, ReceiptStands DEF DueInv
<1>11. ASSUME NEW c \in Free, NEW e \in Entry, Select(c, e) PROVE ScreenInv' /\ RightlyClosed
  <2>1. /\ view = "exit" /\ entry[e].status # "none" /\ loading' = TRUE
        /\ call' = Send(call, c, "select", None, e, 0)
        /\ UNCHANGED <<field, shown, member, typing, asked, receipt, due, paid, exiting>>
    BY <1>11 DEF Select, AtDesk, Listed, tabVars
  <2>2. CallsInv'
    BY <1>1, <1>2, <1>5, <2>1, SentCallsInv DEF Operation, CallsInv, BusyInv
  <2> QED BY <1>1, <1>2, <1>4, <2>1, <2>2, PageStands, ReceiptStands DEF DueInv
<1>12. ASSUME NEW c \in Call, NEW e \in Entry, Found(c, e) PROVE ScreenInv' /\ RightlyClosed
  <2>1. /\ call[c].op = "lookup" /\ entry[e].status = "open" /\ shown' = e
        /\ Watch(SubjectOf(e, field))
        /\ call' = Send(call, c, "charge", None, e, 0)
        /\ UNCHANGED <<field, receipt, due, paid, loading, exiting>>
    BY <1>12 DEF Found, Answers, Parked, Open, exitScreenVars
  <2>2. view = "exit" /\ e # None
    BY <2>1, DeskAssumption DEF CallInv, Reads
  <2>3. SubjectOf(e, field) \in Plate \cup {None} /\ SubjectOf(e, field) = SubjectOf(shown', field')
    BY <1>2, <2>1, <2>2 DEF VisitInv, SubjectOf
  <2>4. PageInv'
    BY <1>2, <2>1, <2>2, <2>3, WatchKeepsPage DEF PageInv
  <2>5. CallsInv'
    BY <1>1, <1>2, <2>1, <2>2, SentCallsInv DEF Operation, Reads, CallsInv, BusyInv
  <2> QED BY <1>1, <1>4, <2>1, <2>4, <2>5, ReceiptStands DEF DueInv
<1>13. ASSUME NEW c \in Call, RetrieveFailed(c) PROVE ScreenInv' /\ RightlyClosed
  <2>1. /\ call[c].op \in {"lookup", "charge"}
        /\ call' = Send(call, c, "recover", None, None, 0)
        /\ UNCHANGED <<field, shown, member, typing, asked, receipt, due, paid, loading, exiting>>
    BY <1>13 DEF RetrieveFailed, Failed, tabVars, exitScreenVars
  <2>2. view = "exit"
    BY <2>1 DEF CallInv, Reads
  <2>3. CallsInv'
    BY <1>1, <1>2, <2>1, <2>2, SentCallsInv DEF Operation, Reads, CallsInv, BusyInv
  <2> QED BY <1>1, <1>2, <1>4, <2>1, <2>3, PageStands, ReceiptStands DEF DueInv
<1>14. ASSUME NEW c \in Call, Charged(c) \/ Recalculated(c) PROVE ScreenInv' /\ RightlyClosed
  <2>1. /\ call[c].op \in {"charge", "recalculate"} /\ Propose(call[c].entry) /\ call' = Heard(c)
        /\ loading' = FALSE \/ (loading' = loading /\ call[c].op = "recalculate")
        /\ UNCHANGED <<field, shown, member, typing, asked, receipt, exiting>>
    BY <1>14 DEF Charged, Recalculated, Answers, tabVars
  <2>2. call[c].entry \in Entry /\ call[c].heard
    BY <2>1 DEF CallInv, Reads
  <2>3. CallsInv'
    BY <1>1, <1>2, <2>1, <2>2, EndedCallsInv DEF CallsInv
  <2>4. DueInv'
    BY <2>1, <2>2, ProposedDue
  <2> QED BY <1>1, <1>2, <1>4, <2>1, <2>3, <2>4, PageStands, ReceiptStands
<1>15. ASSUME NEW c \in Call, Recovered(c) \/ SelectFailed(c) \/ RecalculateFailed(c)
       PROVE  ScreenInv' /\ RightlyClosed
  <2>1. /\ call[c].op \in {"recover", "select", "recalculate"} /\ call' = Heard(c)
        /\ loading' = FALSE \/ (loading' = loading /\ call[c].op = "recalculate")
        /\ UNCHANGED <<field, shown, member, typing, asked, receipt, due, paid, exiting>>
    BY <1>15 DEF Recovered, SelectFailed, RecalculateFailed, Failed, tabVars, exitScreenVars
  <2>2. call[c].heard
    BY <2>1 DEF CallInv, Reads
  <2>3. CallsInv'
    BY <1>1, <1>2, <2>1, <2>2, EndedCallsInv DEF CallsInv
  <2> QED BY <1>1, <1>2, <1>4, <2>1, <2>3, PageStands, ReceiptStands DEF DueInv
<1>16. ASSUME NEW c \in Call, Selected(c) PROVE ScreenInv' /\ RightlyClosed
  <2> DEFINE e == call[c].entry
  <2>1. /\ call[c].op = "select" /\ Propose(e) /\ shown' = e
        /\ Watch(SubjectOf(e, field)) /\ loading' = FALSE /\ call' = Heard(c)
        /\ UNCHANGED <<field, receipt, exiting>>
    BY <1>16 DEF Selected, Answers
  <2>2. view = "exit" /\ e \in Entry /\ entry[e].status # "none" /\ e # None /\ call[c].heard
    BY <2>1, DeskAssumption DEF CallInv, Reads
  <2> HIDE DEF e
  <2>3. SubjectOf(e, field) \in Plate \cup {None} /\ SubjectOf(e, field) = SubjectOf(shown', field')
    BY <1>2, <2>1, <2>2 DEF VisitInv, SubjectOf
  <2>4. PageInv'
    BY <1>2, <2>1, <2>2, <2>3, WatchKeepsPage DEF PageInv
  <2>5. CallsInv'
    BY <1>1, <1>2, <2>1, <2>2, EndedCallsInv DEF CallsInv
  <2>6. DueInv'
    BY <2>1, <2>2, ProposedDue
  <2> QED BY <1>1, <1>4, <2>1, <2>4, <2>5, <2>6, ReceiptStands
<1>17. ASSUME NEW c \in Call, Exited(c) PROVE ScreenInv' /\ RightlyClosed
  <2>1. /\ call[c].op = "exit" /\ call[c].heard /\ exiting' = FALSE
        /\ shown' = None /\ due' = None /\ field' = None /\ paid' = 0
        /\ Watch(None) /\ MaybeLoadReceipt(call[c].entry) /\ call' = Heard(c)
        /\ UNCHANGED loading
    BY <1>17 DEF Exited, Done
  <2>2. view = "exit" /\ call[c].entry \in Entry
    BY <2>1 DEF CallInv
  <2>3. exiting /\ ~saving
    BY <2>1, <2>2 DEF BusyInv, Waits, CallInv
  <2>4. PageInv'
    BY <1>2, <2>1, <2>2, WatchKeepsPage DEF SubjectOf
  <2>5. ReceiptInv'
    BY <1>1, <2>1, <2>2, <2>3, MaybeLoadedReceipt
  <2>6. CallsInv'
    BY <1>1, <1>2, <2>1, EndedCallsInv DEF CallsInv
  <2> QED BY <1>4, <2>1, <2>4, <2>5, <2>6 DEF DueInv
<1>18. ASSUME NEW c \in Call, ExitFailed(c) PROVE ScreenInv' /\ RightlyClosed
  <2>1. /\ call[c].op = "exit" /\ call[c].heard /\ exiting' = FALSE /\ call' = GivenUp(c)
        /\ UNCHANGED <<field, shown, member, typing, asked, receipt, due, paid, loading>>
    BY <1>18 DEF ExitFailed, Failed, tabVars
  <2>2. CallsInv'
    BY <1>1, <1>2, <2>1, EndedCallsInv DEF CallsInv
  <2> QED BY <1>1, <1>2, <1>4, <2>1, <2>2, PageStands, ReceiptStands DEF DueInv
<1> QED BY <1>6, <1>7, <1>8, <1>9, <1>10, <1>11, <1>12, <1>13, <1>14, <1>15, <1>16, <1>17, <1>18
        DEF ExitScreenStep

-----------------------------------------------------------------------------
(* The operator moves to another page. *)

(* Nobody waits for a call that is left; one may be sent from the new page. *)
LEMMA MovedCalls ==
    ASSUME CallsInv, NEW screen \in {"entry", "exit", "log"}, UNCHANGED entry, view' = screen,
           saving' = FALSE, exiting' = FALSE,
           \/ call' = Abandoned /\ loading' = FALSE
           \/ /\ screen = "exit" /\ loading' = TRUE
              /\ \E c \in Call, e \in Entry :
                    entry[e].status # "none" /\ call' = Send(Abandoned, c, "select", None, e, 0)
    PROVE  CallsInv'
<1> USE DEF CallsInv
<1>1. \A c \in Call :
        /\ ~Abandoned[c].heard
        /\ Abandoned[c].op \in {"create", "exit", "none"}
        /\ Abandoned[c].op = "exit" => Abandoned[c].entry \in Entry /\ entry[Abandoned[c].entry].status # "none"
        /\ Abandoned[c].op = "create" => Abandoned[c].plate \in Plate /\ Abandoned[c].status # "ok"
  BY AbandonedCalls DEF CallInv
<1>2. Abandoned \in [Call -> CallDoc]
  <2>1. NoCall \in CallDoc /\ \A c \in Call : [call[c] EXCEPT !.heard = FALSE] \in CallDoc
    BY DEF CallInv, CallDoc, NoCall
  <2> QED BY <2>1 DEF Abandoned
<1>3. CASE call' = Abandoned /\ loading' = FALSE
  <2>1. CallInv'
    BY <1>1, <1>2, <1>3 DEF CallInv, Reads
  <2>2. BusyInv'
    BY <1>1, <1>3 DEF BusyInv, Waits
  <2> QED BY <2>1, <2>2
<1>4. CASE /\ screen = "exit" /\ loading' = TRUE
           /\ \E c \in Call, e \in Entry :
                 entry[e].status # "none" /\ call' = Send(Abandoned, c, "select", None, e, 0)
  <2> PICK c \in Call, e \in Entry :
         entry[e].status # "none" /\ call' = Send(Abandoned, c, "select", None, e, 0)
    BY <1>4
  <2>1. /\ call' \in [Call -> CallDoc]
        /\ \A d \in Call \ {c} : call'[d] = Abandoned[d]
        /\ call'[c].op = "select" /\ call'[c].heard /\ call'[c].entry = e
    BY <1>2 DEF Send, CallDoc, Operation
  <2>2. CallInv'
    <3> SUFFICES ASSUME NEW d \in Call
                 PROVE  /\ call'[d].op \in Reads => call'[d].heard
                        /\ call'[d].op \in {"charge", "select", "recalculate", "exit"} =>
                              call'[d].entry \in Entry /\ entry[call'[d].entry].status # "none"
                        /\ call'[d].op = "create" => call'[d].plate \in Plate
                        /\ call'[d].op = "create" /\ call'[d].status = "ok" => call'[d].entry \in Entry
                        /\ call'[d].heard => screen = IF call'[d].op = "create" THEN "entry" ELSE "exit"
      BY <2>1 DEF CallInv
    <3>1. CASE d # c
      BY <1>1, <2>1, <3>1 DEF Reads
    <3>2. CASE d = c
      BY <1>4, <2>1, <3>2
    <3> QED BY <3>1, <3>2
  <2>3. BusyInv'
    BY <1>1, <1>4, <2>1 DEF BusyInv, Waits
  <2> QED BY <2>2, <2>3
<1> QED BY <1>3, <1>4

(* What a page leaves behind keeps every promise. *)
LEMMA MovedInv ==
    ASSUME ScreenInv, NEW screen \in {"entry", "exit", "log"}, NEW calls, Mount(screen, calls), Unmounted,
           CallsInv'
    PROVE  ScreenInv' /\ RightlyClosed
<1>1. VisitInv' /\ RightlyClosed
  BY VisitsStand DEF Mount, ScreenInv
<1>2. CameraInv'
  BY CameraAssumption DEF Unmounted, CameraInv, Camera, NoCamera
<1>3. due' \in Nat \cup {None} /\ paid' \in Nat
  BY DEF Unmounted
<1> QED BY <1>1, <1>2, <1>3, MountedPage, MountedReceipt DEF ScreenInv, CallsInv

(* Every step keeps the invariant, and settles what it closes. *)
LEMMA NextScreenInv ==
    ASSUME ScreenInv, [Next]_vars
    PROVE  ScreenInv' /\ RightlyClosed
<1>1. CASE ServerNext /\ UNCHANGED <<tabVars, entryScreenVars, exitScreenVars>>
  BY <1>1, ServerStep
<1>2. CASE TabStep /\ UNCHANGED <<entryScreenVars, exitScreenVars>>
  BY <1>2, TabStepInv
<1>3. CASE EntryScreenStep /\ UNCHANGED exitScreenVars
  BY <1>3, EntryScreenStepInv
<1>4. CASE ExitScreenStep /\ UNCHANGED entryScreenVars
  BY <1>4, ExitScreenStepInv
<1>5. ASSUME NEW screen \in {"entry", "exit", "log"}, Navigate(screen)
      PROVE  ScreenInv' /\ RightlyClosed
  <2>1. /\ Mount(screen, Abandoned) /\ Unmounted /\ loading' = FALSE
        /\ view' = screen /\ call' = Abandoned /\ UNCHANGED entry
        /\ saving' = FALSE /\ exiting' = FALSE
    BY <1>5 DEF Navigate, Mount, Unmounted
  <2>2. CallsInv'
    BY <2>1, MovedCalls DEF ScreenInv, CallsInv
  <2> QED BY <2>1, <2>2, MovedInv
<1>6. ASSUME NEW e \in Entry, ExitFromLog(e)
      PROVE  ScreenInv' /\ RightlyClosed
  <2>1. PICK c \in Call : Mount("exit", Send(Abandoned, c, "select", None, e, 0))
    BY <1>6 DEF ExitFromLog
  <2>2. /\ Unmounted /\ loading' = TRUE /\ entry[e].status # "none"
        /\ view' = "exit" /\ UNCHANGED entry
        /\ call' = Send(Abandoned, c, "select", None, e, 0)
        /\ saving' = FALSE /\ exiting' = FALSE
    BY <1>6, <2>1 DEF ExitFromLog, Mount, Unmounted, Listed
  <2>3. CallsInv'
    BY <2>2, MovedCalls DEF ScreenInv, CallsInv
  <2> QED BY <2>1, <2>2, <2>3, MovedInv
<1>7. CASE UNCHANGED vars
  <2>1. UNCHANGED <<now, tariff, entry, call, view, field, shown, member, typing, asked, receipt,
                    saving, camera, due, paid, loading, exiting>>
    BY <1>7 DEF vars, serverVars, tabVars, entryScreenVars, exitScreenVars
  <2> QED BY <2>1, VisitsStand, CallsStand, PageStands, ReceiptStands, CameraStands DEF ScreenInv, CallsInv
<1> QED BY <1>1, <1>2, <1>3, <1>4, <1>5, <1>6, <1>7 DEF Next

-----------------------------------------------------------------------------
(* The inductive invariant of the till. *)
THEOREM ThmScreenInv == Spec => []ScreenInv
BY InitScreenInv, NextScreenInv, PTL DEF Spec

(* Pages, dialogs and documents keep their types. *)
THEOREM ThmTypeOK == Spec => []TypeOK
<1>1. ScreenInv => TypeOK
  BY DEF ScreenInv, VisitInv, CallInv, BusyInv, PageInv, ReceiptInv, CameraInv,
         TypeOK, ServerTypeOK, TabTypeOK, EntryScreenTypeOK, ExitScreenTypeOK
<1> QED BY <1>1, ThmScreenInv, PTL

(* Once its lookups are answered, a page shows the pass of the vehicle it  *)
(* is about, or none.                                                      *)
THEOREM ThmMembershipSettles == Spec => []MembershipSettles
<1>1. ScreenInv => MembershipSettles
  BY DEF ScreenInv, PageInv
<1> QED BY <1>1, ThmScreenInv, PTL

(* The dialog shows the receipt it was last opened for. *)
THEOREM ThmReceiptIsLatest == Spec => []ReceiptIsLatest
<1>1. ScreenInv => ReceiptIsLatest
  BY DEF ScreenInv, ReceiptInv, ReceiptIsLatest
<1> QED BY <1>1, ThmScreenInv, PTL

(* What is disabled while something is under way has a call that enables   *)
(* it again, and a form is submitted once at a time.                       *)
THEOREM ThmBusyHasCause == Spec => []BusyHasCause
<1>1. ASSUME BusyInv PROVE BusyHasCause
  <2>1. ASSUME NEW op \in {"create", "exit"}
        PROVE  Cardinality(Pending({op})) = IF \E c \in Call : Waits(c, op) THEN 1 ELSE 0
    <3>1. CASE \E c \in Call : Waits(c, op)
      <4>1. PICK c \in Call : Waits(c, op)
        BY <3>1
      <4>2. Pending({op}) = {c}
        BY <1>1, <2>1, <4>1 DEF Pending, Waits, BusyInv
      <4> QED BY <3>1, <4>2, FS_Singleton
    <3>2. CASE ~\E c \in Call : Waits(c, op)
      <4>1. Pending({op}) = {}
        BY <3>2 DEF Pending, Waits
      <4> QED BY <3>2, <4>1, FS_EmptySet
    <3> QED BY <3>1, <3>2
  <2>2. loading => Pending({"lookup", "charge", "recover", "select"}) # {}
    BY <1>1 DEF BusyInv, Pending
  <2>3. Cardinality(Pending({"exit"})) = IF exiting THEN 1 ELSE 0
    BY <1>1, <2>1 DEF BusyInv
  <2>4. Cardinality(Pending({"create"})) = IF saving THEN 1 ELSE 0
    BY <1>1, <2>1 DEF BusyInv
  <2> QED BY <2>2, <2>3, <2>4 DEF BusyHasCause
<1>2. ScreenInv => BusyHasCause
  BY <1>1 DEF ScreenInv
<1> QED BY <1>2, ThmScreenInv, PTL

(* The camera is on only while its dialog is open. *)
THEOREM ThmCameraOffWhenClosed == Spec => []CameraOffWhenClosed
<1>1. ScreenInv => CameraOffWhenClosed
  BY DEF ScreenInv, CameraInv, CameraOffWhenClosed
<1> QED BY <1>1, ThmScreenInv, PTL

(* A visit that ends costs what the tariff of its admission says of its    *)
(* stay, all of it collected and none of it twice.                         *)
THEOREM ThmSettledAtItsPrice == Spec => SettledAtItsPrice
<1>1. ScreenInv /\ [Next]_vars =>
        [\A e \in Entry :
            entry[e].status = "open" /\ entry'[e].status = "closed" => RightSettlement(e, entry'[e])]_vars
  BY NextScreenInv DEF RightlyClosed
<1> QED BY <1>1, ThmScreenInv, PTL DEF Spec, SettledAtItsPrice
-----------------------------------------------------------------------------
(* The till serves visits.  A step admits a vehicle that is not inside,    *)
(* ends one visit, or leaves the entries alone.                            *)
AdmitsVehicle(e, v) ==
    /\ v \in Plate /\ Parked(v) = {} /\ entry[e].status = "none"
    /\ \E advance \in Nat :
        entry' = [entry EXCEPT ![e] = [NoEntry EXCEPT !.status = "open", !.plate = v,
                                         !.at = now, !.slabs = tariff, !.advance = advance]]

(* What a step does to the entries. *)
LEMMA EntriesStep ==
    ASSUME VisitInv, CallInv, [Next]_vars
    PROVE  \/ UNCHANGED entry
           \/ \E e \in Entry, v \in Plate : AdmitsVehicle(e, v)
           \/ \E e \in Entry, amount \in Nat : entry[e].status = "open" /\ Close(e, amount)
<1>1. CASE ServerNext
  <2>1. CASE Tick \/ ChangeRate
    BY <2>1 DEF Tick, ChangeRate
  <2>2. ASSUME NEW e \in Entry, OtherTill(e)
        PROVE  entry[e].status = "open" /\ Close(e, Balance(e)) /\ Balance(e) \in Nat
    BY <2>2, BalanceCompletes DEF OtherTill, Close, Chargeable, Open
  <2>3. ASSUME NEW c \in Call, EntryRefused(c) \/ ExitRefused(c) PROVE UNCHANGED entry
    BY <2>3 DEF EntryRefused, ExitRefused, Refuse
  <2>4. ASSUME NEW c \in Call, CreateExit(c)
        PROVE  \E e \in Entry, amount \in Nat : entry[e].status = "open" /\ Close(e, amount)
    <3>1. call[c].entry \in Entry /\ call[c].sum \in Nat
      BY <2>4 DEF CreateExit, Sent, CallInv, CallDoc
    <3>2. Close(call[c].entry, call[c].sum) /\ entry[call[c].entry].status = "open"
      BY <2>4, <3>1 DEF CreateExit, Close, Chargeable, Open
    <3> QED BY <3>1, <3>2
  <2>5. ASSUME NEW c \in Call, NEW e \in Entry, CreateEntry(c, e)
        PROVE  call[c].plate \in Plate /\ AdmitsVehicle(e, call[c].plate)
    <3>1. call[c].plate \in Plate /\ call[c].sum \in Nat
      BY <2>5 DEF CreateEntry, Sent, CallInv, CallDoc
    <3> QED BY <2>5, <3>1 DEF CreateEntry, AdmitsVehicle
  <2> QED BY <1>1, <2>1, <2>2, <2>3, <2>4, <2>5 DEF ServerNext
<1>2. CASE TabStep
  BY <1>2 DEF TabStep, TypingPaused, RetryReceipt, CloseReceipt, MembershipAnswered, ReceiptAnswered,
              ReceiptFailed, serverVars
<1>3. CASE EntryScreenStep
  BY <1>3 DEF EntryScreenStep, TypeEntry, Submit, Saved, SaveFailed, OpenCamera, CloseCamera,
              PermissionAnswered, LatePermission, CaptureImage, ScanQr, Scanned, serverVars
<1>4. CASE ExitScreenStep
  BY <1>4 DEF ExitScreenStep, TypeSearch, Retrieve, Found, Charged, RetrieveFailed, Recovered, Select,
              Selected, SelectFailed, Recalculate, Recalculated, RecalculateFailed, Pay, ExitVehicle,
              Exited, ExitFailed, serverVars
<1>5. CASE \/ \E screen \in {"entry", "exit", "log"} : Navigate(screen)
           \/ \E e \in Entry : ExitFromLog(e)
  BY <1>5 DEF Navigate, ExitFromLog, Mount
<1>6. CASE UNCHANGED vars
  BY <1>6 DEF vars, serverVars
<1> QED BY <1>1, <1>2, <1>3, <1>4, <1>5, <1>6 DEF Next

(* A new entry admits its vehicle. *)
LEMMA EntryAdmits ==
    ASSUME VisitInv, NEW e \in Entry, NEW v \in Plate, AdmitsVehicle(e, v)
    PROVE  Visits!Admit(e, v)
<1>1. /\ entry[e].status = "none" /\ entry'[e].status = "open" /\ entry'[e].plate = v
      /\ \A o \in Entry \ {e} : entry'[o] = entry[o]
  BY DEF AdmitsVehicle, VisitInv, NoEntry
<1>2. \A o \in Entry : entry[o].status = "open" => entry[o].plate # v
  BY DEF AdmitsVehicle, Parked, Open
<1>3. {o \in Entry : entry'[o].status = "open"} = {o \in Entry : entry[o].status = "open"} \cup {e}
  BY <1>1
<1>4. {o \in Entry : entry'[o].status = "closed"} = {o \in Entry : entry[o].status = "closed"}
  BY <1>1
<1>5. [o \in Entry |-> entry'[o].plate] = [[o \in Entry |-> entry[o].plate] EXCEPT ![e] = v]
  BY <1>1
<1>6. [o \in Entry |-> IF entry'[o].status = "closed" THEN o ELSE None]
        = [o \in Entry |-> IF entry[o].status = "closed" THEN o ELSE None]
  BY <1>1
<1> QED BY <1>1, <1>2, <1>3, <1>4, <1>5, <1>6 DEF Visits!Admit

(* An exit settles its visit, with its vehicle, once. *)
LEMMA ExitSettles ==
    ASSUME VisitInv, NEW e \in Entry, NEW amount, entry[e].status = "open", Close(e, amount)
    PROVE  Visits!Settle(e, e)
<1>1. /\ entry'[e].status = "closed" /\ entry'[e].plate = entry[e].plate
      /\ \A o \in Entry \ {e} : entry'[o] = entry[o]
  BY DEF Close, ExitDocument, NoEntry, VisitInv
<1>2. {o \in Entry : entry'[o].status = "open"} = {o \in Entry : entry[o].status = "open"} \ {e}
  BY <1>1
<1>3. {o \in Entry : entry'[o].status = "closed"} = {o \in Entry : entry[o].status = "closed"} \cup {e}
  BY <1>1
<1>4. [o \in Entry |-> entry'[o].plate] = [o \in Entry |-> entry[o].plate]
  BY <1>1
<1>5. [o \in Entry |-> IF entry'[o].status = "closed" THEN o ELSE None]
        = [[o \in Entry |-> IF entry[o].status = "closed" THEN o ELSE None] EXCEPT ![e] = e]
  BY <1>1
<1>6. \A o \in Entry : entry[o].status = "closed" => o # e
  OBVIOUS
<1> QED BY <1>2, <1>3, <1>4, <1>5, <1>6 DEF Visits!Settle

(* The till implements the promise that the desk implements call by call:  *)
(* a vehicle is inside at most once and leaves once, whatever the pages    *)
(* send and whoever else settles.                                          *)
THEOREM ThmServesVisits == Spec => ServesVisits
<1>1. Init => Visits!VInit
  BY DEF Init, ServerInit, NoEntry, Visits!VInit
<1>2. ScreenInv /\ [Next]_vars => [Visits!VNext]_(Visits!visitVars)
  <2> SUFFICES ASSUME ScreenInv, [Next]_vars PROVE [Visits!VNext]_(Visits!visitVars)
    OBVIOUS
  <2>1. VisitInv /\ CallInv
    BY DEF ScreenInv
  <2>2. CASE UNCHANGED entry
    BY <2>2 DEF Visits!visitVars
  <2>3. ASSUME NEW e \in Entry, NEW v \in Plate, AdmitsVehicle(e, v) PROVE Visits!VNext
    BY <2>1, <2>3, EntryAdmits DEF Visits!VNext
  <2>4. ASSUME NEW e \in Entry, NEW amount \in Nat, entry[e].status = "open", Close(e, amount)
        PROVE  Visits!VNext
    BY <2>1, <2>4, ExitSettles DEF Visits!VNext
  <2> QED BY <2>1, <2>2, <2>3, <2>4, EntriesStep
<1> QED BY <1>1, <1>2, ThmScreenInv, PTL DEF Spec, ServesVisits, Visits!VisitSpec
=============================================================================
