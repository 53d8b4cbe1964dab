-------------------------- MODULE MCEndpointCache --------------------------
(* EndpointCache with two interfaces: one whose endpoint changes its type   *)
(* with the alternate setting, one whose endpoint exists in setting 1 only. *)
EXTENDS EndpointCacheInv, TLC

CONSTANTS i1, i2, e1, e2

MCIfaces  == {i1, i2}
MCEps     == {e1, e2}
MCIfaceOf == e1 :> i1 @@ e2 :> i2
MCKindOf  == e1 :> (0 :> "bulk" @@ 1 :> "interrupt")
             @@ e2 :> (0 :> "absent" @@ 1 :> "bulk")
MCAlts    == 0..1

ThreadSymmetry == Permutations(Threads)

AllFaults == {"config", "claim", "alt0", "alt", "open"}
NoFaults  == {}
=============================================================================
