----------------------------- MODULE MCPaging -----------------------------
(* Paging on two BTSs of one location area and a third BTS outside it.    *)
EXTENDS Paging

CONSTANTS b1, b2, b3

MCBts == {b1, b2, b3}
MCLacOrder == <<b1, b2>>
MCMaxCalls == 3
MCCreditSlots == 1
MCLoadValues == {0, 1}
=============================================================================
