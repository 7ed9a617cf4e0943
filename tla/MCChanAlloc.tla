---------------------------- MODULE MCChanAlloc ----------------------------
(* One BTS with c0 and a secondary TRX.  One subslot stands for the four  *)
(* of CCCH+SDCCH4 and the eight of SDCCH8; TCH/H keeps its two.          *)
EXTENDS ChanAlloc

MCSubslots == [p \in Pchans |->
                 CASE p = TCH_H -> 2
                   [] p \in {CCCH_SDCCH4, SDCCH8, TCH_F} -> 1
                   [] OTHER -> 0]
=============================================================================
