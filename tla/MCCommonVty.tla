---------------------------- MODULE MCCommonVty ----------------------------
(* One BTS with one TRX and one timeslot: the deepest chain of nodes whose  *)
(* index and index_sub the handlers restore.                                *)
EXTENDS CommonVty

MCTrxBts == [t \in {"trx0"} |-> "bts0"]
MCTsTrx == [s \in {"ts0"} |-> "trx0"]
=============================================================================
