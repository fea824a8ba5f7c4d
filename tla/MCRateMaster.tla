---------------------------- MODULE MCRateMaster ----------------------------
EXTENDS RateMaster

(* An irregular tariff; lists with a gap, an overlap and a late start; one *)
(* without GST and one with a row too many.                                *)
Others ==
    {<<Slab(0, 1, TRUE, TRUE), Slab(1, None, TRUE, TRUE)>>,
     <<Slab(0, 1, TRUE, TRUE), Slab(2, None, TRUE, TRUE)>>,
     <<Slab(0, 2, TRUE, TRUE), Slab(1, None, TRUE, TRUE)>>,
     <<Slab(1, None, TRUE, TRUE)>>,
     <<Slab(0, None, TRUE, FALSE)>>,
     <<Slab(0, 1, TRUE, TRUE), Slab(1, 2, TRUE, TRUE), Slab(2, None, TRUE, TRUE)>>}
=============================================================================
