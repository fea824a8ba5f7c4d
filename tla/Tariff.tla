------------------------------ MODULE Tariff --------------------------------
(***************************************************************************)
(* Duration slabs: what makes a list of them a tariff                      *)
(* (backend/app/application/rates/service.py) and what a stay costs under  *)
(* one (backend/app/application/parking/service.py).  Times are minutes,   *)
(* money is in the smallest unit of the currency, a GST rate in hundredths *)
(* of a percent.                                                           *)
(***************************************************************************)
EXTENDS Integers, Sequences, FiniteSets

CONSTANTS
    None,               \* no value; as the end of a slab, no end
    TicksPerMinute      \* the clock's resolution

ASSUME TariffAssumption == TicksPerMinute \in Nat \ {0} /\ None \notin Int

(* Mutant: a gap or an overlap between two slabs goes through. *)
OrderedSlabs(slabs) ==
    /\ slabs # <<>>
    /\ slabs[1].from = 0
    /\ \A i \in DOMAIN slabs :
        /\ slabs[i].to = None => i = Len(slabs)
        /\ slabs[i].to # None => slabs[i].to > slabs[i].from

(* validate_duration_slabs. *)
ValidSlabs(slabs) ==
    /\ slabs # <<>>
    /\ slabs[1].from = 0
    /\ \A i \in DOMAIN slabs :
        /\ slabs[i].to = None => i = Len(slabs)
        /\ slabs[i].to # None => slabs[i].to > slabs[i].from
        /\ i > 1 => slabs[i].from = slabs[i - 1].to

(* Whether a stay falls into a slab. *)
Fits(slab, minutes) ==
    slab.from <= minutes /\ (slab.to = None \/ minutes < slab.to)

Fitting(slabs, minutes) == {i \in DOMAIN slabs : Fits(slabs[i], minutes)}

(* The first slab a stay falls into. *)
SlabFor(slabs, minutes) ==
    slabs[CHOOSE i \in Fitting(slabs, minutes) :
              \A j \in Fitting(slabs, minutes) : i <= j]

(* Started minutes, at least one. *)
DurationMinutes(ticks) ==
    IF ticks = 0 THEN 1 ELSE (ticks + TicksPerMinute - 1) \div TicksPerMinute

(* _money: ROUND_HALF_UP of n / d. *)
Money(n, d) == (2 * n + d) \div (2 * d)

TotalAmount(slab) == slab.amount + Money(slab.amount * slab.gst, 10000)
=============================================================================
