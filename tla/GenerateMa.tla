----------------------------- MODULE GenerateMa -----------------------------
(***************************************************************************)
(* The Mobile Allocation of a hopping timeslot, generate_ma_for_ts in      *)
(* src/openbsc/src/libbsc/bsc_init.c, called for every timeslot when RSL   *)
(* is bootstrapped.                                                        *)
(*                                                                         *)
(* The MA (GSM 04.08, 10.5.2.21) has one bit MA C i per frequency of the   *)
(* cell allocation, ordered by ascending ARFCN with ARFCN 0 last; MA C 1   *)
(* is the last bit of the last octet and the bit field is padded to whole  *)
(* octets.  A bitvec numbers its bits from the first bit of octet 0, so    *)
(* MA C i is bitvec position 8 * ma_len - i.  The MA is modelled as the    *)
(* set of bitvec positions that are 1.                                     *)
(***************************************************************************)
EXTENDS Integers, FiniteSets

CONSTANTS
    NArfcn,   \* ARFCNs 0 .. NArfcn - 1 (1024 in the code)
    MaBytes   \* size of ts->hopping.ma_data (8 in the code)

Arfcns == 0 .. NArfcn - 1
MaBits == MaBytes * 8

VARIABLES
    cell,      \* bts->si_common.cell_alloc, as a set of ARFCNs
    arfcns,    \* ts->hopping.arfcns
    enabled,   \* ts->hopping.enabled
    ma,        \* positions set in ts->hopping.ma
    maLen,     \* ts->hopping.ma_len
    done       \* generate_ma_for_ts has run

vars == <<cell, arfcns, enabled, ma, maLen, done>>

TypeOK ==
    /\ cell \subseteq Arfcns /\ arfcns \subseteq Arfcns /\ enabled \in BOOLEAN
    /\ ma \subseteq 0 .. MaBits - 1
    /\ maLen \in 0 .. 255
    /\ done \in BOOLEAN

(* Any cell allocation, and hopping ARFCNs taken from it. *)
Init ==
    /\ cell \in SUBSET Arfcns
    /\ arfcns \in SUBSET cell
    /\ enabled \in BOOLEAN
    /\ ma = {}
    /\ maLen = 0
    /\ done = FALSE

-----------------------------------------------------------------------------
(* bitvec_set_bit_pos(ma, bitnum, 1): a position past ma_data is refused. *)
(* bitnum is unsigned, so a negative value stands for one that wrapped.   *)
BitvecSetBit(v, bitnum) ==
    IF bitnum >= 0 /\ bitnum < MaBits THEN v \cup {bitnum} ELSE v

(* The set bit of one cell ARFCN: 1 when the timeslot hops on it.  The    *)
(* zero writes leave a freshly cleared bitvec unchanged.                  *)
SetMaBit(v, bitnum, i) ==
    IF i \in arfcns THEN BitvecSetBit(v, bitnum) ELSE v

(* num_cell_arfcns: the loop counts ARFCNs 1..1023 only. *)
NumCellArfcns == Cardinality(cell \ {0})

(* ma_len: num_cell_arfcns padded to octets. *)
MaLenOf(num) == num \div 8 + (IF num % 8 # 0 THEN 1 ELSE 0)

(* The loop over ARFCNs 1..1023: each cell ARFCN takes the next bit,      *)
(* counting down from the last bit of the MA.                             *)
RECURSIVE MaLoop(_, _, _, _)
MaLoop(i, nChan, len, v) ==
    IF i >= NArfcn THEN <<nChan, v>>
    ELSE IF i \notin cell THEN MaLoop(i + 1, nChan, len, v)
    ELSE MaLoop(i + 1, nChan + 1, len, SetMaBit(v, len * 8 - 1 - nChan, i))

(* ARFCN 0, coded last: n_chan is incremented before its bit is placed. *)
Arfcn0(nChan, len, v) ==
    IF 0 \in cell THEN SetMaBit(v, len * 8 - 1 - (nChan + 1), 0) ELSE v

(* generate_ma_for_ts: clear the MA; with hopping enabled, size it and    *)
(* place one bit per cell ARFCN.                                          *)
GenerateMaForTs ==
    /\ ~done
    /\ done' = TRUE
    /\ IF ~enabled
       THEN UNCHANGED <<ma, maLen>>
       ELSE LET len == MaLenOf(NumCellArfcns)
                loop == MaLoop(1, 0, len, {})
            IN /\ maLen' = len
               /\ ma' = Arfcn0(loop[1], len, loop[2])
    /\ UNCHANGED <<cell, arfcns, enabled>>

Next == GenerateMaForTs

Spec == Init /\ [][Next]_vars

-----------------------------------------------------------------------------
(* The MA as 04.08 defines it: NF = |cell| bits padded to octets, and     *)
(* MA C i set when the i-th cell frequency (ascending, ARFCN 0 last) is   *)
(* one the timeslot hops on.                                              *)
RefMaLen == (Cardinality(cell) + 7) \div 8

Rank(a) ==
    IF a = 0 THEN Cardinality(cell)
    ELSE Cardinality({b \in cell \ {0} : b <= a})

RefMa == {RefMaLen * 8 - Rank(a) : a \in arfcns}

(* A cell allocation that fits the MA field. *)
Fits == Cardinality(cell) <= MaBits

(* For every cell allocation, ARFCN 0 included, generate_ma_for_ts        *)
(* produces the 04.08 MA (the ARFCN 0 branch and the count it sizes by).  *)
MaCorrect ==
    done /\ enabled /\ Fits => ma = RefMa /\ maLen = RefMaLen
====
