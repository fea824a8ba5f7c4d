-------------------------- MODULE RateMasterProofs ---------------------------
(***************************************************************************)
(* What the rate dialog sends is a tariff, and what is stored can be       *)
(* edited, for any grid, any number of rows, rates and other clients.      *)
(***************************************************************************)
EXTENDS RateMaster, TariffProofs

Row == [from : Nat, to : Nat \cup {None}, amount : BOOLEAN, gst : BOOLEAN]

FilledRow == [from : Nat, to : Nat \cup {None}, amount : {TRUE}, gst : {TRUE}]

(* Rows begin where RebaseSlabs would have them begin. *)
Adjoining(slabs) ==
    \A i \in DOMAIN slabs :
        slabs[i].from = IF i = 1 \/ slabs[i - 1].to = None THEN 0 ELSE slabs[i - 1].to

(* Only the last row may be without an end, and none is empty. *)
Ascending(slabs) ==
    \A i \in DOMAIN slabs :
        /\ slabs[i].to = None => i = Len(slabs)
        /\ slabs[i].to # None => slabs[i].to > slabs[i].from

(* The GST is filled in in every row or in none. *)
OneGst(slabs) == \A i, j \in DOMAIN slabs : slabs[i].gst = slabs[j].gst

Rows(slabs) == slabs \in Seq(Row) /\ slabs # <<>> /\ Adjoining(slabs)

(* Whatever was typed, the rows adjoin; where an end cannot be typed they  *)
(* ascend as well, and where the GST has one field it is in all rows or in *)
(* none.  An open form has a vehicle type and a date, and so has what it   *)
(* sends.                                                                  *)
FormInv ==
    /\ form \in [open : BOOLEAN, rate : Rate \cup {None}, key : Key \cup {None},
                 mode : {"hourly", "single", "custom"}, slabs : Seq(Row)]
    /\ form.open => form.key \in Key
    /\ Rows(form.slabs)
    /\ form.mode # "custom" => Ascending(form.slabs)
    /\ form.mode = "hourly" => OneGst(form.slabs)

SaveInv ==
    /\ save \in [pc : {"idle", "sent", "ok", "refused"}, heard : BOOLEAN, rate : Rate \cup {None},
                 key : Key \cup {None}, slabs : Seq(Row)]
    /\ save.pc # "idle" => save.key \in Key
    /\ FormAccepted

(* What is stored is a tariff that the server took. *)
StoredTariff ==
    [status : {"active", "inactive"}, key : Key, slabs : {s \in Seq(FilledRow) : Acceptable(s)}]

RateInv == rate \in [Rate -> {NoRate} \cup StoredTariff]

MasterInv == FormInv /\ SaveInv /\ RateInv

-----------------------------------------------------------------------------
(* RebaseSlabs keeps the ends and makes rows adjoin. *)
LEMMA RebaseAdjoins ==
    ASSUME NEW slabs \in Seq(Row), slabs # <<>>
    PROVE  Rows(RebaseSlabs(slabs))
<1> DEFINE based == RebaseSlabs(slabs)
<1> USE TariffAssumption
<1> DEFINE start(i) == IF i = 1 \/ slabs[i - 1].to = None THEN 0 ELSE slabs[i - 1].to
<1>0. DOMAIN slabs = 1 .. Len(slabs) /\ Len(slabs) \in Nat /\ \A i \in DOMAIN slabs : slabs[i] \in Row
  OBVIOUS
<1>1. ASSUME NEW i \in DOMAIN slabs PROVE start(i) \in Nat
  <2>1. i # 1 => i - 1 \in DOMAIN slabs
    BY <1>0
  <2> QED BY <1>0, <2>1 DEF Row
<1>2. based \in [1 .. Len(slabs) -> Row]
  <2>1. ASSUME NEW i \in DOMAIN slabs PROVE [slabs[i] EXCEPT !.from = start(i)] \in Row
    <3>1. slabs[i] \in Row /\ start(i) \in Nat
      BY <1>0, <1>1
    <3> HIDE DEF start
    <3> QED BY <3>1 DEF Row
  <2>2. based = [i \in DOMAIN slabs |-> [slabs[i] EXCEPT !.from = start(i)]]
    BY DEF RebaseSlabs
  <2> HIDE DEF based, start
  <2> QED BY <1>0, <2>1, <2>2
<1>3. based \in Seq(Row) /\ Len(based) = Len(slabs) /\ DOMAIN based = 1 .. Len(slabs)
  BY <1>2
<1>4. \A i \in DOMAIN based :
        /\ based[i].to = slabs[i].to
        /\ based[i].from = IF i = 1 \/ slabs[i - 1].to = None THEN 0 ELSE slabs[i - 1].to
  <2>1. \A i \in DOMAIN slabs : slabs[i] \in Row
    OBVIOUS
  <2> QED BY <1>3, <2>1 DEF RebaseSlabs, Row
<1>5. Adjoining(based)
  <2> SUFFICES ASSUME NEW i \in DOMAIN based
               PROVE  based[i].from = IF i = 1 \/ based[i - 1].to = None THEN 0 ELSE based[i - 1].to
    BY DEF Adjoining
  <2>1. i # 1 => i - 1 \in DOMAIN based
    BY <1>3
  <2> QED BY <2>1, <1>4
<1>6. based # <<>>
  BY <1>3
<1> QED BY <1>3, <1>5, <1>6 DEF Rows

(* Rows that adjoin are left as they are. *)
LEMMA RebaseKeeps ==
    ASSUME NEW slabs \in Seq(Row), Adjoining(slabs)
    PROVE  RebaseSlabs(slabs) = slabs
<1> DEFINE start(i) == IF i = 1 \/ slabs[i - 1].to = None THEN 0 ELSE slabs[i - 1].to
<1>1. ASSUME NEW i \in DOMAIN slabs PROVE [slabs[i] EXCEPT !.from = start(i)] = slabs[i]
  <2>1. slabs[i] \in Row
    OBVIOUS
  <2>2. start(i) = slabs[i].from
    BY DEF Adjoining
  <2> HIDE DEF start
  <2> QED BY <2>1, <2>2 DEF Row
<1>2. RebaseSlabs(slabs) = [i \in DOMAIN slabs |-> slabs[i]]
  BY <1>1 DEF RebaseSlabs
<1> QED BY <1>2

(* Rows that adjoin and ascend are a tariff ... *)
LEMMA RowsAreTariff ==
    ASSUME NEW slabs, Rows(slabs), Ascending(slabs)
    PROVE  ValidSlabs(slabs)
<1>1. 1 \in DOMAIN slabs
  BY DEF Rows
<1>2. ASSUME NEW i \in DOMAIN slabs, i > 1
      PROVE  slabs[i].from = slabs[i - 1].to
  <2>1. i - 1 \in DOMAIN slabs /\ i - 1 # Len(slabs)
    BY <1>2 DEF Rows
  <2>2. slabs[i - 1].to # None
    BY <2>1 DEF Ascending
  <2> QED BY <1>2, <2>2 DEF Rows, Adjoining
<1> QED BY <1>1, <1>2 DEF Rows, Adjoining, Ascending, ValidSlabs

(* ... and a tariff is rows that adjoin and ascend. *)
LEMMA TariffIsRows ==
    ASSUME NEW slabs \in Seq(FilledRow), ValidSlabs(slabs)
    PROVE  Rows(slabs) /\ Ascending(slabs)
<1>1. slabs \in Seq(Row)
  <2>1. FilledRow \subseteq Row
    BY DEF FilledRow, Row
  <2> QED BY <2>1
<1>2. ASSUME NEW i \in DOMAIN slabs
      PROVE  slabs[i].from = IF i = 1 \/ slabs[i - 1].to = None THEN 0 ELSE slabs[i - 1].to
  <2>1. CASE i = 1
    BY <2>1 DEF ValidSlabs
  <2>2. CASE i # 1
    <3>1. i - 1 \in DOMAIN slabs /\ i - 1 # Len(slabs) /\ i > 1
      BY <2>2
    <3> QED BY <3>1 DEF ValidSlabs
  <2> QED BY <2>1, <2>2
<1>3. Adjoining(slabs)
  BY <1>2 DEF Adjoining
<1>4. Ascending(slabs)
  BY DEF ValidSlabs, Ascending
<1> QED BY <1>1, <1>3, <1>4 DEF Rows, ValidSlabs

(* What the server takes has every field filled in. *)
LEMMA TakenIsFilled ==
    ASSUME NEW slabs \in Seq(Row), Acceptable(slabs)
    PROVE  slabs \in Seq(FilledRow) /\ ValidSlabs(slabs)
<1>1. \A row \in Row : row.amount /\ row.gst => row \in FilledRow
  BY DEF Row, FilledRow
<1>2. \A i \in DOMAIN slabs : slabs[i] \in FilledRow
  BY <1>1 DEF Acceptable
<1> QED BY <1>2 DEF Acceptable

(* Rows that are filled in have their amounts and GST rates. *)
LEMMA FilledRows ==
    ASSUME NEW slabs \in Seq(FilledRow)
    PROVE  OneGst(slabs) /\ \A i \in DOMAIN slabs : slabs[i].amount /\ slabs[i].gst
<1>1. \A row \in FilledRow : row.amount = TRUE /\ row.gst = TRUE
  BY DEF FilledRow
<1>2. \A i \in DOMAIN slabs : slabs[i] \in FilledRow
  OBVIOUS
<1> QED BY <1>1, <1>2 DEF OneGst

(* A new hourly grid adjoins, ascends and has its GST. *)
LEMMA HourlyIsGrid == Rows(HourlySlabs) /\ Ascending(HourlySlabs) /\ OneGst(HourlySlabs)
<1> USE FormAssumption, TariffAssumption
<1>0. ASSUME NEW i \in 1 .. GridRows
      PROVE  /\ (i - 1) * Hour \in Nat /\ i * Hour \in Nat
             /\ i * Hour > (i - 1) * Hour /\ (i = 1 => (i - 1) * Hour = 0)
  <2>1. i * Hour = (i - 1) * Hour + Hour
    OBVIOUS
  <2>2. i - 1 \in Nat
    OBVIOUS
  <2>3. \A n \in Nat : n * Hour \in Nat
    OBVIOUS
  <2> QED BY <2>1, <2>2, <2>3
<1>1. ASSUME NEW i \in 1 .. GridRows
      PROVE  /\ HourlySlabs[i] \in Row
             /\ HourlySlabs[i].from = (i - 1) * Hour
             /\ HourlySlabs[i].to = IF i = GridRows THEN None ELSE i * Hour
  BY <1>0 DEF HourlySlabs, Slab, Row
<1>2. HourlySlabs \in Seq(Row) /\ Len(HourlySlabs) = GridRows /\ DOMAIN HourlySlabs = 1 .. GridRows
  <2>1. HourlySlabs \in [1 .. GridRows -> Row]
    BY <1>1 DEF HourlySlabs
  <2> QED BY <2>1
<1>3. ASSUME NEW i \in 1 .. GridRows
      PROVE  HourlySlabs[i].from = IF i = 1 \/ HourlySlabs[i - 1].to = None THEN 0 ELSE HourlySlabs[i - 1].to
  <2>1. CASE i = 1
    BY <1>0, <1>1, <2>1
  <2>2. CASE i # 1
    <3>1. i - 1 \in 1 .. GridRows /\ i - 1 # GridRows
      BY <2>2
    <3>2. HourlySlabs[i - 1].to = (i - 1) * Hour /\ (i - 1) * Hour # None
      BY <1>0, <1>1, <3>1
    <3> QED BY <1>1, <2>2, <3>2
  <2> QED BY <2>1, <2>2
<1>4. Adjoining(HourlySlabs)
  BY <1>2, <1>3 DEF Adjoining
<1>5. Ascending(HourlySlabs)
  <2> SUFFICES ASSUME NEW i \in 1 .. GridRows
               PROVE  /\ HourlySlabs[i].to = None => i = GridRows
                      /\ HourlySlabs[i].to # None => HourlySlabs[i].to > HourlySlabs[i].from
    BY <1>2 DEF Ascending
  <2> QED BY <1>0, <1>1
<1>6. HourlySlabs # <<>>
  BY <1>2
<1>7. OneGst(HourlySlabs)
  <2>1. \A i \in 1 .. GridRows : HourlySlabs[i].gst = TRUE
    BY DEF HourlySlabs, Slab
  <2> QED BY <1>2, <2>1 DEF OneGst
<1> QED BY <1>2, <1>4, <1>5, <1>6, <1>7 DEF Rows

-----------------------------------------------------------------------------
(* What the user does to the rows keeps them adjoining: retyping one, ... *)
LEMMA UpdateRows ==
    ASSUME NEW slabs, Rows(slabs), NEW i \in DOMAIN slabs, NEW row \in Row
    PROVE  Rows(UpdateSlab(slabs, i, row))
<1>1. [slabs EXCEPT ![i] = row] \in Seq(Row) /\ [slabs EXCEPT ![i] = row] # <<>>
  BY DEF Rows
<1> QED BY <1>1, RebaseAdjoins DEF UpdateSlab

(* An amount changes no boundary. *)
LEMMA AmountRows ==
    ASSUME NEW slabs, Rows(slabs), Ascending(slabs), NEW i \in DOMAIN slabs, NEW row \in Row,
           row.from = slabs[i].from, row.to = slabs[i].to
    PROVE  /\ Ascending(UpdateSlab(slabs, i, row))
           /\ OneGst(slabs) /\ row.gst = slabs[i].gst => OneGst(UpdateSlab(slabs, i, row))
<1> DEFINE new == [slabs EXCEPT ![i] = row]
<1>1. new \in Seq(Row) /\ Len(new) = Len(slabs) /\ DOMAIN new = DOMAIN slabs /\ DOMAIN slabs = 1 .. Len(slabs)
  BY DEF Rows
<1>2. \A j \in DOMAIN slabs : new[j].from = slabs[j].from /\ new[j].to = slabs[j].to
  BY <1>1
<1>7. OneGst(slabs) /\ row.gst = slabs[i].gst => OneGst(new)
  BY <1>1 DEF OneGst
<1> HIDE DEF new
<1>3. ASSUME NEW j \in DOMAIN new
      PROVE  new[j].from = IF j = 1 \/ new[j - 1].to = None THEN 0 ELSE new[j - 1].to
  <2>1. j # 1 => j - 1 \in DOMAIN slabs
    BY <1>1 DEF Rows
  <2> QED BY <1>1, <1>2, <2>1 DEF Rows, Adjoining
<1>4. Adjoining(new)
  BY <1>3 DEF Adjoining
<1>5. RebaseSlabs(new) = new
  BY <1>1, <1>4, RebaseKeeps
<1>6. Ascending(new)
  BY <1>1, <1>2 DEF Ascending
<1> QED BY <1>5, <1>6, <1>7 DEF UpdateSlab, new

(* The GST of all rows changes no boundary either. *)
LEMMA GstRows ==
    ASSUME NEW slabs, Rows(slabs), NEW gst \in BOOLEAN
    PROVE  /\ Rows(ApplyGstToAll(slabs, gst)) /\ OneGst(ApplyGstToAll(slabs, gst))
           /\ Ascending(slabs) => Ascending(ApplyGstToAll(slabs, gst))
<1> DEFINE new == ApplyGstToAll(slabs, gst)
<1>1. slabs \in Seq(Row) /\ slabs # <<>> /\ Len(slabs) \in Nat /\ DOMAIN slabs = 1 .. Len(slabs)
      /\ \A i \in DOMAIN slabs : slabs[i] \in Row
  BY DEF Rows
<1>2. ASSUME NEW i \in DOMAIN slabs
      PROVE  /\ new[i] \in Row /\ new[i].from = slabs[i].from /\ new[i].to = slabs[i].to
             /\ new[i].gst = gst
  BY <1>1 DEF ApplyGstToAll, Row
<1>3. new \in Seq(Row) /\ Len(new) = Len(slabs) /\ DOMAIN new = DOMAIN slabs /\ new # <<>>
  <2>1. new \in [1 .. Len(slabs) -> Row]
    BY <1>1, <1>2 DEF ApplyGstToAll
  <2> QED BY <1>1, <2>1
<1> HIDE DEF new
<1>4. ASSUME NEW i \in DOMAIN new
      PROVE  new[i].from = IF i = 1 \/ new[i - 1].to = None THEN 0 ELSE new[i - 1].to
  <2>1. i # 1 => i - 1 \in DOMAIN slabs
    BY <1>1, <1>3
  <2> QED BY <1>2, <1>3, <2>1 DEF Rows, Adjoining
<1>5. Adjoining(new) /\ OneGst(new)
  BY <1>2, <1>3, <1>4 DEF Adjoining, OneGst
<1>6. Ascending(slabs) => Ascending(new)
  BY <1>2, <1>3 DEF Ascending
<1> QED BY <1>3, <1>5, <1>6 DEF Rows, new

(* A row at the end. *)
LEMMA RowAppended ==
    ASSUME NEW slabs \in Seq(Row), NEW row \in Row
    PROVE  /\ slabs \o <<row>> \in Seq(Row) /\ Append(slabs, row) = slabs \o <<row>>
           /\ Len(slabs \o <<row>>) = Len(slabs) + 1
           /\ DOMAIN (slabs \o <<row>>) = 1 .. Len(slabs) + 1
           /\ \A i \in 1 .. Len(slabs) : (slabs \o <<row>>)[i] = slabs[i]
           /\ (slabs \o <<row>>)[Len(slabs) + 1] = row
OBVIOUS

(* ... switching modes, ... *)
LEMMA ModeRows ==
    ASSUME NEW slabs, Rows(slabs), NEW mode \in {"hourly", "single", "custom"}
    PROVE  /\ Rows(SlabsIn(mode, slabs))
           /\ mode # "custom" => Ascending(SlabsIn(mode, slabs))
           /\ mode = "hourly" => OneGst(SlabsIn(mode, slabs))
<1> USE FormAssumption, TariffAssumption
<1>0. slabs \in Seq(Row) /\ slabs # <<>> /\ slabs[1] \in Row
  BY DEF Rows
<1> DEFINE amount == slabs[1].amount  gst == slabs[1].gst
<1>5. amount \in BOOLEAN /\ gst \in BOOLEAN
  BY <1>0 DEF Row
<1>6. /\ \A to \in Nat \cup {None} :
            Slab(0, to, amount, gst) \in Row /\ Slab(0, to, amount, gst).from = 0
            /\ Slab(0, to, amount, gst).to = to
      /\ Slab(Hour, None, amount, gst) \in Row /\ Slab(Hour, None, amount, gst).from = Hour
  <2> HIDE DEF amount, gst
  <2> QED BY <1>5 DEF Slab, Row
<1> HIDE DEF amount, gst
<1>1. CASE mode = "hourly"
  BY <1>1, HourlyIsGrid DEF SlabsIn
<1>2. CASE mode = "single"
  <2> DEFINE one == <<Slab(0, None, amount, gst)>>
  <2>1. one[1] \in Row /\ one[1].from = 0 /\ one[1].to = None
    BY <1>6
  <2>2. one \in Seq(Row) /\ Len(one) = 1 /\ one # <<>> /\ DOMAIN one = {1}
    BY <2>1
  <2>3. SlabsIn(mode, slabs) = one
    BY <1>2 DEF SlabsIn, amount, gst
  <2> HIDE DEF one
  <2>4. Rows(one) /\ Ascending(one)
    BY <2>1, <2>2 DEF Rows, Adjoining, Ascending
  <2> QED BY <1>2, <2>3, <2>4
<1>3. CASE mode = "custom" /\ Len(slabs) > 1
  BY <1>3, <1>0, RebaseAdjoins DEF SlabsIn
<1>4. CASE mode = "custom" /\ ~(Len(slabs) > 1)
  <2> DEFINE two == <<Slab(0, Hour, amount, gst), Slab(Hour, None, amount, gst)>>
  <2>1. /\ two[1] \in Row /\ two[1].from = 0 /\ two[1].to = Hour
        /\ two[2] \in Row /\ two[2].from = Hour
    BY <1>6
  <2>2. two \in Seq(Row) /\ two # <<>> /\ DOMAIN two = {1, 2}
    BY <2>1
  <2>3. SlabsIn(mode, slabs) = two
    BY <1>4 DEF SlabsIn, amount, gst
  <2> HIDE DEF two
  <2>4. Adjoining(two)
    BY <2>1, <2>2 DEF Adjoining
  <2> QED BY <1>4, <2>2, <2>3, <2>4 DEF Rows
<1> QED BY <1>1, <1>2, <1>3, <1>4

(* ... adding a row to the hourly grid, ... *)
LEMMA HourRows ==
    ASSUME NEW slabs, Rows(slabs), Ascending(slabs)
    PROVE  /\ Rows(AddHourlyRow(slabs)) /\ Ascending(AddHourlyRow(slabs))
           /\ OneGst(slabs) => OneGst(AddHourlyRow(slabs))
<1> DEFINE n == Len(slabs)  end == slabs[n].from + Hour
           gst == slabs[n].gst
           cut == [slabs EXCEPT ![n].to = end]
           new == cut \o <<Slab(end, None, FALSE, gst)>>
<1> USE FormAssumption, TariffAssumption
<1>0. slabs \in Seq(Row) /\ n \in Nat \ {0} /\ DOMAIN slabs = 1 .. n /\ slabs[n] \in Row
  BY DEF Rows
<1>1. end \in Nat /\ end > slabs[n].from /\ gst \in BOOLEAN
  BY <1>0 DEF Row
<1>2. [slabs[n] EXCEPT !.to = end] \in Row
  <2> HIDE DEF end
  <2> QED BY <1>0, <1>1 DEF Row
<1>3. cut \in Seq(Row) /\ Len(cut) = n /\ DOMAIN cut = 1 .. n
  <2>1. cut = [slabs EXCEPT ![n] = [slabs[n] EXCEPT !.to = end]]
    OBVIOUS
  <2> HIDE DEF cut, end, n
  <2> QED BY <1>0, <1>2, <2>1
<1>4. /\ cut[n].from = slabs[n].from /\ cut[n].to = end /\ cut[n].gst = gst
      /\ \A i \in 1 .. n - 1 : cut[i] = slabs[i]
  <2> HIDE DEF end
  <2> QED BY <1>0 DEF Row
<1>5. /\ Slab(end, None, FALSE, gst) \in Row /\ Slab(end, None, FALSE, gst).gst = gst
      /\ Slab(end, None, FALSE, gst).from = end /\ Slab(end, None, FALSE, gst).to = None
  <2> HIDE DEF end, gst
  <2> QED BY <1>1 DEF Slab, Row
<1> HIDE DEF cut, n, gst
<1>6. /\ new \in Seq(Row) /\ Len(new) = n + 1 /\ DOMAIN new = 1 .. n + 1
      /\ \A i \in 1 .. n : new[i] = cut[i]
      /\ new[n + 1] = Slab(end, None, FALSE, gst)
  <2> HIDE DEF end
  <2> QED BY <1>0, <1>3, <1>5, RowAppended
<1> HIDE DEF new
<1>7. ASSUME NEW i \in 1 .. n + 1
      PROVE  /\ new[i].from = IF i = 1 \/ new[i - 1].to = None THEN 0 ELSE new[i - 1].to
             /\ new[i].to = None => i = n + 1
             /\ new[i].to # None => new[i].to > new[i].from
  <2> HIDE DEF end
  <2>1. CASE i = n + 1
    <3>1. i - 1 = n /\ i # 1 /\ n \in 1 .. n
      BY <1>0, <2>1
    <3>2. end # None
      BY <1>1
    <3>3. new[i] = Slab(end, None, FALSE, gst) /\ new[i - 1] = cut[n]
      BY <1>6, <2>1, <3>1
    <3> QED BY <1>4, <1>5, <2>1, <3>1, <3>2, <3>3
  <2>2. CASE i = n
    <3>1. new[i] = cut[n] /\ cut[n].from = slabs[n].from /\ end # None
      BY <1>0, <1>1, <1>4, <1>6, <2>2
    <3>2. n # 1 => n - 1 \in 1 .. n - 1 /\ new[n - 1] = slabs[n - 1]
      BY <1>0, <1>4, <1>6
    <3>3. slabs[n].from = IF n = 1 \/ slabs[n - 1].to = None THEN 0 ELSE slabs[n - 1].to
      BY <1>0 DEF Rows, Adjoining
    <3> QED BY <1>1, <1>4, <2>2, <3>1, <3>2, <3>3
  <2>3. CASE i \in 1 .. n - 1
    <3>1. new[i] = slabs[i] /\ i \in DOMAIN slabs /\ (i # 1 => new[i - 1] = slabs[i - 1])
      BY <1>0, <1>4, <1>6, <2>3
    <3>2. slabs[i].from = IF i = 1 \/ slabs[i - 1].to = None THEN 0 ELSE slabs[i - 1].to
      BY <3>1 DEF Rows, Adjoining
    <3>3. slabs[i].to # None /\ slabs[i].to > slabs[i].from
      BY <1>0, <2>3, <3>1 DEF Ascending
    <3> QED BY <3>1, <3>2, <3>3
  <2> QED BY <1>0, <2>1, <2>2, <2>3
<1>8. new # <<>>
  BY <1>0, <1>6
<1>9. AddHourlyRow(slabs) = new
  BY DEF AddHourlyRow, new, cut, n, gst
<1>10. Adjoining(new) /\ Ascending(new)
  <2> HIDE DEF end
  <2> QED BY <1>6, <1>7 DEF Adjoining, Ascending
<1>11. ASSUME OneGst(slabs) PROVE OneGst(new)
  <2>1. \A i \in 1 .. n : slabs[i].gst = gst
    BY <1>0, <1>11 DEF OneGst, gst
  <2>2. \A i \in 1 .. n - 1 : new[i].gst = gst
    BY <1>0, <1>4, <1>6, <2>1
  <2>3. new[n].gst = gst /\ new[n + 1].gst = gst
    <3>1. new[n] = cut[n] /\ new[n + 1] = Slab(end, None, FALSE, gst)
      BY <1>0, <1>6
    <3> HIDE DEF end
    <3> QED BY <1>4, <1>5, <3>1
  <2>4. \A i \in 1 .. n + 1 : i \in 1 .. n - 1 \/ i = n \/ i = n + 1
    BY <1>0
  <2> HIDE DEF end
  <2> QED BY <1>6, <2>2, <2>3, <2>4 DEF OneGst
<1> QED BY <1>6, <1>8, <1>9, <1>10, <1>11 DEF Rows

(* ... adding one below a row with an end, ... *)
LEMMA CustomRows ==
    ASSUME NEW slabs, Rows(slabs), CanAddCustom(slabs)
    PROVE  Rows(AddCustomSlab(slabs))
<1> DEFINE n == Len(slabs)  row == Slab(slabs[n].to, None, TRUE, slabs[n].gst)  new == slabs \o <<row>>
<1>1. slabs \in Seq(Row) /\ n \in Nat \ {0} /\ DOMAIN slabs = 1 .. n /\ slabs[n] \in Row
  BY DEF Rows
<1>2. slabs[n].to \in Nat /\ slabs[n].to # None /\ slabs[n].gst \in BOOLEAN
  BY <1>1 DEF CanAddCustom, Row
<1>3. row \in Row /\ row.from = slabs[n].to /\ row.to = None
  BY <1>1, <1>2 DEF Slab, Row
<1> HIDE DEF n, row
<1>4. /\ new \in Seq(Row) /\ DOMAIN new = 1 .. n + 1 /\ Append(slabs, row) = new
      /\ \A i \in 1 .. n : new[i] = slabs[i]
      /\ new[n + 1] = row
  BY <1>1, <1>3, RowAppended DEF n
<1> HIDE DEF new
<1>5. ASSUME NEW i \in 1 .. n + 1
      PROVE  new[i].from = IF i = 1 \/ new[i - 1].to = None THEN 0 ELSE new[i - 1].to
  <2>1. CASE i = n + 1
    <3>1. i - 1 = n /\ i # 1 /\ n \in 1 .. n
      BY <1>1, <2>1
    <3>2. new[i] = row /\ new[i - 1] = slabs[n]
      BY <1>4, <2>1, <3>1
    <3> QED BY <1>2, <1>3, <3>1, <3>2
  <2>2. CASE i # n + 1
    <3>1. i \in 1 .. n /\ (i # 1 => i - 1 \in 1 .. n)
      BY <1>1, <2>2
    <3>2. new[i] = slabs[i] /\ (i # 1 => new[i - 1] = slabs[i - 1])
      BY <1>4, <3>1
    <3> QED BY <1>1, <3>1, <3>2 DEF Rows, Adjoining
  <2> QED BY <2>1, <2>2
<1>6. Adjoining(new) /\ new # <<>>
  BY <1>1, <1>4, <1>5 DEF Adjoining
<1>7. AddCustomSlab(slabs) = new
  BY <1>4 DEF AddCustomSlab, row, n
<1> QED BY <1>4, <1>6, <1>7 DEF Rows

(* ... and taking one out of several. *)
LEMMA RemoveRows ==
    ASSUME NEW slabs, Rows(slabs), NEW i \in DOMAIN slabs, Len(slabs) > 1
    PROVE  Rows(RemoveSlab(slabs, i))
<1> DEFINE before == SubSeq(slabs, 1, i - 1)  after == SubSeq(slabs, i + 1, Len(slabs))
<1>1. slabs \in Seq(Row) /\ i \in 1 .. Len(slabs) /\ Len(slabs) \in Nat
  BY DEF Rows
<1>2. before \in Seq(Row) /\ Len(before) = i - 1
  BY <1>1
<1>3. after \in Seq(Row) /\ Len(after) = Len(slabs) - i
  BY <1>1
<1> HIDE DEF before, after
<1>4. before \o after \in Seq(Row) /\ Len(before \o after) = Len(slabs) - 1
  BY <1>1, <1>2, <1>3
<1>5. before \o after # <<>>
  BY <1>1, <1>4
<1> QED BY <1>4, <1>5, RebaseAdjoins DEF RemoveSlab, before, after

-----------------------------------------------------------------------------
(* A tariff can be submitted from the mode the dialog opens it in, and is  *)
(* sent as it is.                                                          *)
LEMMA TariffSubmittable ==
    ASSUME NEW slabs \in Seq(FilledRow), ValidSlabs(slabs)
    PROVE  Submittable(ModeFor(slabs), slabs) /\ Payload(slabs) = slabs
<1>1. Rows(slabs) /\ Ascending(slabs)
  BY TariffIsRows
<1>2. \A i \in DOMAIN slabs : slabs[i].amount /\ slabs[i].gst
  BY FilledRows
<1>3. Payload(slabs) = slabs
  BY <1>1, RebaseKeeps DEF Payload, Rows
<1> QED BY <1>1, <1>2, <1>3 DEF Submittable, CompleteRow, Ascending

(* What can be submitted is a tariff, with every amount filled in, and one *)
(* GST for all rows where it may be missing.                               *)
LEMMA SubmittedIsTariff ==
    ASSUME FormInv, Submittable(form.mode, form.slabs)
    PROVE  /\ Payload(form.slabs) \in Seq(Row) /\ ValidSlabs(Payload(form.slabs))
           /\ \A i \in DOMAIN Payload(form.slabs) : Payload(form.slabs)[i].amount
           /\ OneGst(Payload(form.slabs))
<1> DEFINE slabs == form.slabs
<1>1. Rows(slabs) /\ slabs \in Seq(Row) /\ Payload(slabs) = slabs
  BY RebaseKeeps DEF FormInv, Rows, Payload
<1>2. \A i \in DOMAIN slabs : slabs[i].amount
  BY DEF Submittable
<1>3. OneGst(slabs)
  <2>1. \A i \in DOMAIN slabs : slabs[i].gst \in BOOLEAN
    <3>1. \A i \in DOMAIN slabs : slabs[i] \in Row
      BY <1>1
    <3> HIDE DEF slabs
    <3> QED BY <3>1 DEF Row
  <2>2. CASE form.mode = "hourly"
    BY <2>2 DEF FormInv
  <2>3. CASE form.mode \in {"single", "custom"}
    <3>1. \A i \in DOMAIN slabs : slabs[i].gst
      BY <2>3 DEF Submittable, CompleteRow
    <3> HIDE DEF slabs
    <3>2. \A i \in DOMAIN slabs : slabs[i].gst = TRUE
      BY <2>1, <3>1
    <3> QED BY <3>2 DEF OneGst
  <2> QED BY <2>2, <2>3 DEF FormInv
<1>4. Ascending(slabs)
  BY DEF FormInv, Submittable, CompleteRow, Ascending
<1> QED BY <1>1, <1>2, <1>3, <1>4, RowsAreTariff

-----------------------------------------------------------------------------
(* The dialog, closed or just opened to create a rate. *)
LEMMA FreshForm ==
    ASSUME form' = NoForm \/ (Key # {} /\ form' = [NoForm EXCEPT !.open = TRUE, !.key = CHOOSE k \in Key : TRUE])
    PROVE  FormInv'
<1> DEFINE type == [open : BOOLEAN, rate : Rate \cup {None}, key : Key \cup {None},
                    mode : {"hourly", "single", "custom"}, slabs : Seq(Row)]
<1>1. Rows(HourlySlabs) /\ Ascending(HourlySlabs) /\ OneGst(HourlySlabs) /\ HourlySlabs \in Seq(Row)
  BY HourlyIsGrid DEF Rows
<1>2. Key # {} => (CHOOSE k \in Key : TRUE) \in Key
  OBVIOUS
<1>3. form' \in type /\ form'.slabs = HourlySlabs /\ form'.mode = "hourly" /\ (form'.open => form'.key \in Key)
  <2> DEFINE first == CHOOSE k \in Key : TRUE
  <2> HIDE DEF first
  <2>1. CASE form' = NoForm
    BY <1>1, <2>1 DEF NoForm
  <2>2. CASE Key # {} /\ form' = [NoForm EXCEPT !.open = TRUE, !.key = first]
    <3>1. first \in Key
      BY <1>2, <2>2 DEF first
    <3> QED BY <1>1, <2>2, <3>1 DEF NoForm
  <2> QED BY <2>1, <2>2 DEF first
<1> QED BY <1>1, <1>3 DEF FormInv

(* New rows of the open dialog. *)
LEMMA RowsRewritten ==
    ASSUME FormInv, NEW slabs, Rewrite(slabs), Rows(slabs), form.mode # "custom" => Ascending(slabs),
           form.mode = "hourly" => OneGst(slabs)
    PROVE  FormInv'
BY DEF FormInv, Rewrite, Rows

(* What the user does in the dialog preserves FormInv. *)
LEMMA DialogFormInv ==
    ASSUME FormInv,
           \/ Create \/ Cancel \/ AddHour \/ AddRow
           \/ \E k \in Key : ChooseKey(k)
           \/ \E mode \in {"hourly", "single", "custom"} : ChooseMode(mode)
           \/ \E i \in 1 .. MaxRows :
               \/ RemoveRow(i) \/ TypeAmount(i) \/ TypeGst(i)
               \/ \E end \in Ends : TypeEnd(i, end)
    PROVE  FormInv'
<1> DEFINE slabs == form.slabs
<1>0. Rows(slabs) /\ slabs \in Seq(Row) /\ \A i \in DOMAIN slabs : slabs[i] \in Row
  <2>1. Rows(slabs) /\ slabs \in Seq(Row)
    BY DEF FormInv
  <2> HIDE DEF slabs
  <2> QED BY <2>1
<1>1. CASE Create \/ Cancel
  BY <1>1, FreshForm, MasterAssumption DEF Create, Cancel
<1>2. CASE AddHour
  BY <1>0, <1>2, HourRows, RowsRewritten DEF AddHour, FormInv
<1>3. CASE AddRow
  BY <1>0, <1>3, CustomRows, RowsRewritten DEF AddRow
<1>4. CASE \E k \in Key : ChooseKey(k)
  BY <1>4 DEF ChooseKey, FormInv
<1>5. CASE \E mode \in {"hourly", "single", "custom"} : ChooseMode(mode)
  <2> PICK mode \in {"hourly", "single", "custom"} : ChooseMode(mode)
    BY <1>5
  <2> DEFINE new == SlabsIn(mode, slabs)
  <2>1. Rows(new) /\ (mode # "custom" => Ascending(new)) /\ (mode = "hourly" => OneGst(new)) /\ new \in Seq(Row)
    BY <1>0, ModeRows DEF Rows
  <2>2. form' = [form EXCEPT !.mode = mode, !.slabs = new]
    BY DEF ChooseMode
  <2> HIDE DEF new
  <2> QED BY <2>1, <2>2 DEF FormInv
<1>6. CASE \E i \in 1 .. MaxRows : RemoveRow(i)
  BY <1>0, <1>6, RemoveRows, RowsRewritten DEF RemoveRow
<1>7. CASE \E i \in 1 .. MaxRows : TypeAmount(i)
  <2> PICK i \in 1 .. MaxRows : TypeAmount(i)
    BY <1>7
  <2> DEFINE row == [slabs[i] EXCEPT !.amount = ~slabs[i].amount]
  <2>1. i \in DOMAIN slabs /\ Rewrite(UpdateSlab(slabs, i, row)) /\ slabs[i] \in Row
    BY <1>0 DEF TypeAmount
  <2>2. row \in Row /\ row.from = slabs[i].from /\ row.to = slabs[i].to /\ row.gst = slabs[i].gst
    <3> HIDE DEF slabs
    <3> QED BY <2>1 DEF Row
  <2>3. (form.mode # "custom" => Ascending(slabs)) /\ (form.mode = "hourly" => OneGst(slabs))
    BY DEF FormInv
  <2> HIDE DEF row, slabs
  <2>4. /\ Rows(UpdateSlab(slabs, i, row))
        /\ form.mode # "custom" => Ascending(UpdateSlab(slabs, i, row))
        /\ form.mode = "hourly" => OneGst(UpdateSlab(slabs, i, row))
    BY <1>0, <2>1, <2>2, <2>3, UpdateRows, AmountRows
  <2> QED BY <2>1, <2>4, RowsRewritten
<1>9. CASE \E i \in 1 .. MaxRows : TypeGst(i)
  <2> PICK i \in 1 .. MaxRows : TypeGst(i)
    BY <1>9
  <2> DEFINE gst == ~slabs[i].gst
             row == [slabs[i] EXCEPT !.gst = gst]
  <2>1. /\ i \in DOMAIN slabs /\ slabs[i] \in Row
        /\ Rewrite(IF form.mode = "hourly" THEN ApplyGstToAll(slabs, gst) ELSE UpdateSlab(slabs, i, row))
    BY <1>0 DEF TypeGst
  <2>2. gst \in BOOLEAN
    OBVIOUS
  <2>3. row \in Row /\ row.from = slabs[i].from /\ row.to = slabs[i].to
    <3> HIDE DEF slabs, gst
    <3> QED BY <2>1, <2>2 DEF Row
  <2>4. form.mode # "custom" => Ascending(slabs)
    BY DEF FormInv
  <2> HIDE DEF row, slabs, gst
  <2>5. CASE form.mode = "hourly"
    BY <1>0, <2>1, <2>2, <2>4, <2>5, GstRows, RowsRewritten
  <2>6. CASE form.mode # "hourly"
    <3>1. /\ Rows(UpdateSlab(slabs, i, row))
          /\ form.mode # "custom" => Ascending(UpdateSlab(slabs, i, row))
      BY <1>0, <2>1, <2>3, <2>4, UpdateRows, AmountRows
    <3> QED BY <2>1, <2>6, <3>1, RowsRewritten
  <2> QED BY <2>5, <2>6
<1>8. CASE \E i \in 1 .. MaxRows : \E end \in Ends : TypeEnd(i, end)
  <2> PICK i \in 1 .. MaxRows, end \in Ends : TypeEnd(i, end)
    BY <1>8
  <2> DEFINE row == [slabs[i] EXCEPT !.to = end]
  <2>1. i \in DOMAIN slabs /\ Rewrite(UpdateSlab(slabs, i, row)) /\ slabs[i] \in Row /\ form.mode = "custom"
    BY <1>0 DEF TypeEnd
  <2>2. row \in Row
    <3>1. end \in Nat \cup {None}
      BY MasterAssumption
    <3> HIDE DEF slabs
    <3> QED BY <2>1, <3>1 DEF Row
  <2> HIDE DEF row, slabs
  <2> QED BY <1>0, <2>1, <2>2, UpdateRows, RowsRewritten
<1> QED BY <1>1, <1>2, <1>3, <1>4, <1>5, <1>6, <1>7, <1>8, <1>9

-----------------------------------------------------------------------------
(* Initially nothing is stored, and the dialog shows a new hourly grid. *)
LEMMA InitMasterInv == Init => MasterInv
<1> SUFFICES ASSUME Init PROVE MasterInv
  OBVIOUS
<1>1. Rows(HourlySlabs) /\ Ascending(HourlySlabs) /\ OneGst(HourlySlabs) /\ HourlySlabs \in Seq(Row)
  BY HourlyIsGrid DEF Rows
<1>2. FormInv
  BY <1>1 DEF Init, NoForm, FormInv
<1>3. SaveInv
  <2>1. <<>> \in Seq(Row)
    OBVIOUS
  <2> QED BY <2>1 DEF Init, NoSave, SaveInv, FormAccepted
<1>4. RateInv
  BY DEF Init, RateInv
<1> QED BY <1>2, <1>3, <1>4 DEF MasterInv

(* A call given up is forgotten when it is answered. *)
LEMMA NoSaveInv == save' = NoSave => SaveInv'
<1>1. <<>> \in Seq(Row)
  OBVIOUS
<1> QED BY <1>1 DEF NoSave, SaveInv, FormAccepted

(* A step of the endpoints changes the status of the call only. *)
LEMMA AnswerSaveInv ==
    ASSUME SaveInv, NEW pc \in {"ok", "refused"}, Answer(pc), save.pc = "sent"
    PROVE  SaveInv'
BY NoSaveInv DEF SaveInv, FormAccepted, Answer

(* The dialog shows a stored rate. *)
LEMMA OpenedFormInv ==
    ASSUME RateInv, NEW r \in Rate, rate[r] # NoRate, form' = Opened(r)
    PROVE  FormInv'
<1> DEFINE slabs == rate[r].slabs
<1>1. rate[r] \in StoredTariff
  BY DEF RateInv
<1>2. slabs \in Seq(FilledRow) /\ ValidSlabs(slabs) /\ rate[r].key \in Key
  BY <1>1 DEF StoredTariff, Acceptable
<1>3. Rows(slabs) /\ Ascending(slabs) /\ OneGst(slabs) /\ slabs \in Seq(Row)
  BY <1>2, TariffIsRows, FilledRows DEF Rows
<1>4. ModeFor(slabs) \in {"hourly", "single", "custom"}
  BY DEF ModeFor
<1> QED BY <1>2, <1>3, <1>4 DEF Opened, FormInv

(* A tariff is stored. *)
LEMMA StoredRateInv ==
    ASSUME RateInv, NEW r \in Rate, NEW k \in Key, NEW slabs \in Seq(Row), Acceptable(slabs),
           rate' = [rate EXCEPT ![r] = Stored(k, slabs, "active")]
    PROVE  RateInv'
<1>1. Stored(k, slabs, "active") \in StoredTariff
  BY TakenIsFilled DEF Stored, StoredTariff
<1> QED BY <1>1 DEF RateInv

(* Every step preserves the invariant. *)
LEMMA NextMasterInv == MasterInv /\ [Next]_vars => MasterInv'
<1> SUFFICES ASSUME MasterInv, [Next]_vars PROVE MasterInv'
  OBVIOUS
<1> USE DEF MasterInv
<1>a. UNCHANGED form => FormInv'
  BY DEF FormInv
<1>b. UNCHANGED save => SaveInv'
  BY DEF SaveInv, FormAccepted
<1>c. UNCHANGED rate => RateInv'
  BY DEF RateInv
<1>1. CASE \/ Create \/ Cancel \/ AddHour \/ AddRow
           \/ \E k \in Key : ChooseKey(k)
           \/ \E mode \in {"hourly", "single", "custom"} : ChooseMode(mode)
           \/ \E i \in 1 .. MaxRows :
               \/ RemoveRow(i) \/ TypeAmount(i) \/ TypeGst(i)
               \/ \E end \in Ends : TypeEnd(i, end)
  <2>1. FormInv'
    BY <1>1, DialogFormInv
  <2>2. UNCHANGED <<rate, save>>
    BY <1>1 DEF Create, Cancel, AddHour, AddRow, ChooseKey, ChooseMode, RemoveRow, TypeAmount, TypeGst,
                 TypeEnd, Rewrite
  <2> QED BY <1>b, <1>c, <2>1, <2>2
<1>2. CASE Submit
  <2> DEFINE slabs == Payload(form.slabs)
  <2>1. slabs \in Seq(Row) /\ ValidSlabs(slabs) /\ (\A i \in DOMAIN slabs : slabs[i].amount) /\ OneGst(slabs)
    BY <1>2, SubmittedIsTariff DEF Submit
  <2>2. save' = [pc |-> "sent", heard |-> TRUE, rate |-> form.rate, key |-> form.key, slabs |-> slabs]
    BY <1>2 DEF Submit
  <2>3. form.rate \in Rate \cup {None} /\ form.key \in Key
    BY <1>2 DEF FormInv, Submit
  <2> HIDE DEF slabs
  <2>4. SaveInv'
    BY <2>1, <2>2, <2>3 DEF SaveInv, FormAccepted, OneGst
  <2> QED BY <1>2, <1>a, <1>c, <2>4 DEF Submit
<1>3. CASE SaveDone
  BY <1>3, <1>c, FreshForm, NoSaveInv DEF SaveDone
<1>4. CASE SaveFailed
  <2>1. ASSUME save' = [save EXCEPT !.heard = FALSE] PROVE SaveInv'
    <3> DEFINE type == [pc : {"idle", "sent", "ok", "refused"}, heard : BOOLEAN, rate : Rate \cup {None},
                        key : Key \cup {None}, slabs : Seq(Row)]
    <3>1. save \in type
      BY DEF SaveInv
    <3>2. save' \in type
      BY <2>1, <3>1
    <3>3. save'.pc = save.pc /\ save'.slabs = save.slabs /\ save'.key = save.key
      BY <2>1, <3>1
    <3> HIDE DEF type
    <3>4. (save'.pc # "idle" => save'.key \in Key) /\ FormAccepted'
      BY <3>3 DEF SaveInv, FormAccepted
    <3> QED BY <3>2, <3>4 DEF SaveInv, type
  <2>2. SaveInv'
    BY <1>4, <2>1, NoSaveInv DEF SaveFailed
  <2>3. UNCHANGED <<rate, form>>
    BY <1>4 DEF SaveFailed
  <2> QED BY <1>a, <1>c, <2>2, <2>3
<1>5. CASE Refuse
  BY <1>5, <1>a, <1>c, AnswerSaveInv DEF Refuse
<1>6. CASE \E r \in Rate : Edit(r)
  BY <1>6, <1>b, <1>c, OpenedFormInv DEF Edit
<1>7. CASE \E r \in Rate : Serve(r)
  <2> PICK r \in Rate : Serve(r)
    BY <1>7
  <2>1. save.key \in Key /\ save.slabs \in Seq(Row)
    BY DEF SaveInv, Serve
  <2>2. RateInv'
    BY <2>1, StoredRateInv DEF Serve
  <2> QED BY <1>a, <2>2, AnswerSaveInv DEF Serve
<1>8. CASE \E r \in Rate : Deactivate(r)
  <2> PICK r \in Rate : Deactivate(r)
    BY <1>8
  <2>1. rate[r] \in StoredTariff
    BY DEF Deactivate, RateInv, NoRate
  <2>2. [rate[r] EXCEPT !.status = "inactive"] \in StoredTariff
    BY <2>1 DEF StoredTariff
  <2>3. RateInv'
    BY <2>2 DEF Deactivate, RateInv
  <2> QED BY <1>a, <1>b, <2>3 DEF Deactivate
<1>9. CASE \E r \in Rate, k \in Key, slabs \in Foreign : Receive(r, k, slabs)
  <2> PICK r \in Rate, k \in Key, slabs \in Foreign : Receive(r, k, slabs)
    BY <1>9
  <2>1. slabs \in Seq(Row)
    BY MasterAssumption DEF Row
  <2>2. RateInv'
    BY <2>1, StoredRateInv DEF Receive
  <2> QED BY <1>a, <1>b, <2>2 DEF Receive
<1>10. CASE UNCHANGED vars
  BY <1>10, <1>a, <1>b, <1>c DEF vars
<1> QED BY <1>1, <1>2, <1>3, <1>4, <1>5, <1>6, <1>7, <1>8, <1>9, <1>10 DEF Next

-----------------------------------------------------------------------------
(* The invariant holds in every reachable state. *)
LEMMA SpecMasterInv == Spec => []MasterInv
BY InitMasterInv, NextMasterInv, PTL DEF Spec

(* Whatever was done to the rows of the dialog, what it sends starts at    *)
(* zero, adjoins and ascends as validate_duration_slabs asks, with every   *)
(* amount, and with the GST of all rows or of none.                        *)
THEOREM ThmFormAccepted == Spec => []FormAccepted
<1>1. MasterInv => FormAccepted
  BY DEF MasterInv, SaveInv
<1> QED BY <1>1, SpecMasterInv, PTL

(* Whoever stored a rate, the dialog can save it again, as it was, and the *)
(* server takes it.                                                        *)
THEOREM ThmEditable == Spec => []Editable
<1>1. MasterInv => Editable
  <2> SUFFICES ASSUME MasterInv, NEW r \in Rate, rate[r] # NoRate
               PROVE  /\ Submittable(Opened(r).mode, Opened(r).slabs)
                      /\ Payload(Opened(r).slabs) = rate[r].slabs
                      /\ Acceptable(rate[r].slabs)
    BY DEF Editable
  <2>1. rate[r] \in StoredTariff
    BY DEF MasterInv, RateInv
  <2>2. rate[r].slabs \in Seq(FilledRow) /\ Acceptable(rate[r].slabs) /\ ValidSlabs(rate[r].slabs)
    BY <2>1 DEF StoredTariff, Acceptable
  <2>3. Opened(r).slabs = rate[r].slabs /\ Opened(r).mode = ModeFor(rate[r].slabs)
    BY DEF Opened
  <2> QED BY <2>2, <2>3, TariffSubmittable
<1> QED BY <1>1, SpecMasterInv, PTL

(* Whatever is typed, chosen, sent and answered, in any order, the page    *)
(* and the collection hold values of their types.                          *)
THEOREM ThmTypeOK == Spec => []TypeOK
<1>1. MasterInv => TypeOK
  <2> SUFFICES ASSUME MasterInv PROVE TypeOK
    OBVIOUS
  <2>1. ASSUME NEW r \in Rate, rate[r] # NoRate
        PROVE  /\ rate[r].status \in {"active", "inactive"}
               /\ rate[r].key \in Key
               /\ \A i \in DOMAIN rate[r].slabs : rate[r].slabs[i] \in FilledRow
    BY <2>1 DEF MasterInv, RateInv, StoredTariff
  <2>2. /\ form.rate \in Rate \cup {None} /\ form.key \in Key \cup {None}
        /\ form.mode \in {"hourly", "single", "custom"}
        /\ form.slabs # <<>>
        /\ \A i \in DOMAIN form.slabs : form.slabs[i] \in Row
    BY DEF MasterInv, FormInv, Rows
  <2>3. save.pc \in {"idle", "sent", "ok", "refused"} /\ save.heard \in BOOLEAN
    BY DEF MasterInv, SaveInv
  <2> QED BY <2>1, <2>2, <2>3 DEF TypeOK, FilledRow, Row
<1> QED BY <1>1, SpecMasterInv, PTL

(* Whoever stored a rate, every stay falls into one of its slabs, or into  *)
(* none if it outlasts them all.                                           *)
THEOREM ThmEveryStayOnce == Spec => []EveryStayOnce
<1>1. MasterInv => EveryStayOnce
  <2> SUFFICES ASSUME MasterInv, NEW r \in Rate, rate[r] # NoRate, NEW m \in 1 .. 3 * Hour
               PROVE  Cardinality(Fitting(rate[r].slabs, m)) = IF Outlasts(rate[r].slabs, m) THEN 0 ELSE 1
    BY DEF EveryStayOnce, Outlasts
  <2>1. rate[r].slabs \in Seq(FilledRow) /\ ValidSlabs(rate[r].slabs)
    BY DEF MasterInv, RateInv, StoredTariff, Acceptable
  <2>2. ASSUME NEW slabs \in Seq(FilledRow) PROVE IsSlabs(slabs)
    <3>1. \A i \in DOMAIN slabs : slabs[i] \in FilledRow
      OBVIOUS
    <3>2. \A row \in FilledRow : row.from \in Nat /\ row.to \in Nat \cup {None}
      BY DEF FilledRow
    <3>3. Len(slabs) \in Nat /\ DOMAIN slabs = 1 .. Len(slabs)
      OBVIOUS
    <3> QED BY <3>1, <3>2, <3>3 DEF IsSlabs
  <2>3. m \in Nat
    BY FormAssumption
  <2> QED BY <2>1, <2>2, <2>3, ThmFitsOnce
<1> QED BY <1>1, SpecMasterInv, PTL
=============================================================================
