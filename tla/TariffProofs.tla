---------------------------- MODULE TariffProofs -----------------------------
(***************************************************************************)
(* A stay falls into exactly one slab of a tariff, or past its end, and is *)
(* counted in the minutes it started; for slabs of any number and length   *)
(* and any resolution of the clock.                                        *)
(***************************************************************************)
EXTENDS Tariff, FiniteSetTheorems, WellFoundedInduction, TLAPS

(* A list of slabs, whatever else they hold. *)
IsSlabs(slabs) ==
    /\ Len(slabs) \in Nat /\ DOMAIN slabs = 1 .. Len(slabs)
    /\ \A i \in DOMAIN slabs : slabs[i].from \in Nat /\ slabs[i].to \in Nat \cup {None}

(* Whether a stay reaches the end of the last slab. *)
Outlasts(slabs, m) == LET end == slabs[Len(slabs)].to IN end # None /\ m >= end

-----------------------------------------------------------------------------
Less == {p \in Nat \X Nat : p[1] < p[2]}

(* The least number of a set, in the place of induction. *)
LEMMA LeastNatural ==
    ASSUME NEW S \in SUBSET Nat, S # {}
    PROVE  \E n \in S : \A m \in S : n <= m
<1>1. IsWellFoundedOn(Less, Nat)
  BY NatLessThanWellFounded DEF OpToRel, Less
<1>2. PICK n \in S : \A m \in S : <<m, n>> \notin Less
  BY <1>1, WFMin
<1>3. \A m \in S : ~ (m < n)
  BY <1>2 DEF Less
<1> QED BY <1>3

(* The slabs of a tariff climb: a slab ends where or before any later one  *)
(* begins.                                                                 *)
LEMMA SlabsClimb ==
    ASSUME NEW slabs, IsSlabs(slabs), ValidSlabs(slabs),
           NEW i \in DOMAIN slabs, NEW j \in DOMAIN slabs, i < j
    PROVE  slabs[i].to # None /\ slabs[i].to <= slabs[j].from
<1> USE TariffAssumption DEF IsSlabs
<1> DEFINE Below == {k \in (i + 1) .. j : slabs[k].from < slabs[i].to}
<1>1. slabs[i].to # None /\ slabs[i].to \in Nat
  BY DEF ValidSlabs
<1>2. ASSUME Below # {} PROVE FALSE
  <2>1. Below \in SUBSET Nat
    OBVIOUS
  <2>2. PICK n \in Below : \A m \in Below : n <= m
    BY <1>2, <2>1, LeastNatural
  <2>3. n \in DOMAIN slabs /\ n - 1 \in DOMAIN slabs /\ n > 1 /\ n - 1 # Len(slabs)
    BY <2>2
  <2>4. slabs[n].from = slabs[n - 1].to /\ slabs[n - 1].to # None /\ slabs[n - 1].to > slabs[n - 1].from
    BY <2>3 DEF ValidSlabs
  <2>5. CASE n = i + 1
    BY <1>1, <2>2, <2>4, <2>5
  <2>6. CASE n # i + 1
    <3>1. n - 1 \in (i + 1) .. j /\ n - 1 \notin Below
      BY <2>2, <2>3, <2>6
    <3>2. slabs[n - 1].from >= slabs[i].to
      BY <1>1, <2>3, <3>1
    <3>3. slabs[n].from < slabs[i].to
      BY <2>2
    <3> QED BY <1>1, <2>3, <2>4, <3>2, <3>3
  <2> QED BY <2>5, <2>6
<1>3. j \notin Below /\ j \in (i + 1) .. j
  BY <1>2
<1> QED BY <1>1, <1>3

(* No stay falls into two slabs. *)
LEMMA OneSlab ==
    ASSUME NEW slabs, IsSlabs(slabs), ValidSlabs(slabs), NEW m \in Nat,
           NEW i \in Fitting(slabs, m), NEW j \in Fitting(slabs, m)
    PROVE  i = j
<1> USE TariffAssumption DEF IsSlabs, Fitting, Fits
<1>1. ASSUME NEW k \in Fitting(slabs, m), NEW l \in Fitting(slabs, m), k < l PROVE FALSE
  <2>1. slabs[k].to # None /\ slabs[k].to <= slabs[l].from
    BY <1>1, SlabsClimb
  <2> QED BY <2>1
<1> QED BY <1>1

(* A stay that does not outlast the tariff falls into a slab ... *)
LEMMA SomeSlab ==
    ASSUME NEW slabs, IsSlabs(slabs), ValidSlabs(slabs), NEW m \in Nat, ~Outlasts(slabs, m)
    PROVE  Fitting(slabs, m) # {}
<1> USE TariffAssumption DEF IsSlabs
<1> DEFINE Above == {k \in DOMAIN slabs : slabs[k].to = None \/ m < slabs[k].to}
<1>1. Len(slabs) \in DOMAIN slabs
  <2>1. Len(slabs) # 0
    BY DEF ValidSlabs
  <2> QED BY <2>1
<1>2. Len(slabs) \in Above
  BY <1>1 DEF Outlasts
<1>3. Above \in SUBSET Nat
  OBVIOUS
<1>4. PICK n \in Above : \A k \in Above : n <= k
  BY <1>2, <1>3, LeastNatural
<1>5. slabs[n].from <= m
  <2>1. CASE n = 1
    BY <2>1 DEF ValidSlabs
  <2>2. CASE n # 1
    <3>1. n - 1 \in DOMAIN slabs /\ n > 1
      BY <1>4, <2>2
    <3>2. slabs[n].from = slabs[n - 1].to
      BY <1>4, <3>1 DEF ValidSlabs
    <3>3. n - 1 \notin Above
      BY <1>4, <3>1
    <3> QED BY <3>1, <3>2, <3>3
  <2> QED BY <2>1, <2>2
<1>6. n \in Fitting(slabs, m)
  BY <1>5 DEF Fitting, Fits
<1> QED BY <1>6

(* ... and one that does falls into none. *)
LEMMA NoSlab ==
    ASSUME NEW slabs, IsSlabs(slabs), ValidSlabs(slabs), NEW m \in Nat, Outlasts(slabs, m)
    PROVE  Fitting(slabs, m) = {}
<1> USE TariffAssumption DEF IsSlabs
<1> SUFFICES ASSUME NEW k \in DOMAIN slabs, Fits(slabs[k], m) PROVE FALSE
  BY DEF Fitting
<1>1. CASE k = Len(slabs)
  BY <1>1 DEF Fits, Outlasts
<1>2. CASE k # Len(slabs)
  <2>1. k < Len(slabs) /\ Len(slabs) \in DOMAIN slabs
    BY <1>2
  <2>2. slabs[k].to # None /\ slabs[k].to <= slabs[Len(slabs)].from
    BY <2>1, SlabsClimb
  <2>3. slabs[Len(slabs)].to > slabs[Len(slabs)].from
    BY <2>1 DEF ValidSlabs, Outlasts
  <2> QED BY <2>1, <2>2, <2>3 DEF Fits, Outlasts
<1> QED BY <1>1, <1>2

(* A stay falls into one slab of a tariff, or into none if it outlasts it. *)
THEOREM ThmFitsOnce ==
    ASSUME NEW slabs, IsSlabs(slabs), ValidSlabs(slabs), NEW m \in Nat
    PROVE  Cardinality(Fitting(slabs, m)) = IF Outlasts(slabs, m) THEN 0 ELSE 1
<1>1. CASE Outlasts(slabs, m)
  BY <1>1, NoSlab, FS_EmptySet
<1>2. CASE ~Outlasts(slabs, m)
  <2>1. PICK i : i \in Fitting(slabs, m)
    BY <1>2, SomeSlab
  <2>2. Fitting(slabs, m) = {i}
    BY <2>1, OneSlab
  <2> QED BY <1>2, <2>2, FS_Singleton
<1> QED BY <1>1, <1>2

(* The slab that a stay is charged by is one it falls into. *)
LEMMA ChosenSlab ==
    ASSUME NEW slabs, IsSlabs(slabs), ValidSlabs(slabs), NEW m \in Nat, Fitting(slabs, m) # {}
    PROVE  \E i \in Fitting(slabs, m) : SlabFor(slabs, m) = slabs[i]
<1> DEFINE First(i) == \A j \in Fitting(slabs, m) : i <= j
<1>1. PICK i \in Fitting(slabs, m) : First(i)
  <2>1. Fitting(slabs, m) \in SUBSET Nat
    BY DEF Fitting, IsSlabs
  <2> QED BY <2>1, LeastNatural
<1>2. (CHOOSE k \in Fitting(slabs, m) : First(k)) \in Fitting(slabs, m)
  BY <1>1
<1> QED BY <1>2 DEF SlabFor

-----------------------------------------------------------------------------
(* Started minutes: enough for the stay, and one less would not be. *)
LEMMA MinutesStarted ==
    ASSUME NEW t \in Nat
    PROVE  LET m == DurationMinutes(t) IN
           /\ m \in Nat /\ m >= 1 /\ m <= t + 1
           /\ m * TicksPerMinute >= t
           /\ m = 1 \/ (m - 1) * TicksPerMinute < t
<1> DEFINE T == TicksPerMinute  a == t + T - 1  q == a \div T
<1>1. T \in Nat /\ T >= 1 /\ a \in Nat /\ a >= t
  BY TariffAssumption
<1> HIDE DEF T
<1>2. q \in Int /\ q * T <= a /\ a < q * T + T
  BY <1>1
<1>3. CASE t = 0
  BY <1>1, <1>3 DEF DurationMinutes, T
<1>4. CASE t # 0
  <2>1. q >= 1
    <3>1. q < 1 => q * T + T <= T
      BY <1>1, <1>2
    <3> QED BY <1>1, <1>2, <1>4, <3>1
  <2>2. q <= t
    <3>1. ASSUME q >= t + 1 PROVE FALSE
      <4>1. q * T = t * T + (q - t) * T /\ (q - t) * T >= T /\ t * T >= t
        BY <1>1, <1>2, <3>1
      <4> QED BY <1>1, <1>2, <4>1
    <3> QED BY <1>1, <1>2, <3>1
  <2>3. (q - 1) * T = q * T - T
    BY <1>1, <1>2
  <2>4. DurationMinutes(t) = q
    BY <1>4 DEF DurationMinutes, T
  <2> HIDE DEF q
  <2>5. q * T >= t /\ (q - 1) * T < t /\ q \in Nat
    BY <1>1, <1>2, <2>1, <2>3
  <2> QED BY <1>1, <2>1, <2>2, <2>4, <2>5 DEF T
<1> QED BY <1>3, <1>4
=============================================================================
