--------------------------- MODULE MCRequestMix -----------------------------
(* Small instance of RequestMix: every Set:Get ratio up to 2:5 or 3:4, every *)
(* Set:Wait ratio up to 5:2, single-key and clipped multi-key GETs.          *)
EXTENDS RequestMix

MCConfigs ==
    { c \in [a: 0..3, b: 0..5, wa: 0..5, wb: 0..2, multi: {0, 1, 3}] :
        (c.a > 0 \/ c.b > 0) /\ (c.wb = 0 => c.wa = 1) }

=============================================================================
