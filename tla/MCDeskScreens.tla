--------------------------- MODULE MCDeskScreens ----------------------------
EXTENDS DeskScreens, TLC

(* A tariff of one slab, to its end; one of two, without end. *)
Tariffs ==
    <<<<[from |-> 0, to |-> 2, amount |-> 25, gst |-> 1000]>>,
      <<[from |-> 0, to |-> 2, amount |-> 22, gst |-> 1800],
        [from |-> 2, to |-> None, amount |-> 24, gst |-> 1800]>>>>

Interchangeable == Permutations(Plate) \cup Permutations(Entry) \cup Permutations(Call)
=============================================================================
