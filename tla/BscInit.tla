------------------------------ MODULE BscInit ------------------------------
(***************************************************************************)
(* Start-up of the NITB and the bootstrap of one BTS                       *)
(* (src/openbsc/src/osmo-nitb/bsc_hack.c main and signal_handler,          *)
(* src/openbsc/src/libbsc/bsc_init.c).                                      *)
(*                                                                         *)
(* main reads the configuration and bootstraps the network; any failure    *)
(* ends the process.  Afterwards every RSL link that comes up makes        *)
(* inp_sig_cb bootstrap its TRX: set_system_infos marks the SIs the TRX    *)
(* needs in the BTS-wide bts->si_valid and sends every valid SI, by BCCH   *)
(* INFO or SACCH FILLING, stopping at the first error.  What a TRX holds   *)
(* is recorded per SI: not sent, sent with its length, or sent with a      *)
(* wrong length.  The MA of each timeslot is GenerateMa's subject and is   *)
(* only marked as generated here.  SI generation (system_information.c)    *)
(* and the RSL link layer are outside this tree: their results are        *)
(* nondeterministic.                                                       *)
(***************************************************************************)
EXTENDS Naturals, Sequences

CONSTANTS
    Trxs,        \* the TRXs of the BTS
    C0,          \* bts->c0
    StaticSis,   \* the SIs in bts->si_mode_static (set by the VTY)
    Arfcns       \* c0 ARFCNs the configuration may give

\* enum osmo_sysinfo_type, the types set_system_infos can mark valid, in
\* enum order (the loop's order).
SiOrder == <<1, 2, 3, 4, 5, 6, 13>>
SiTypes == {1, 2, 3, 4, 5, 6, 13}
SacchSis == {5, 6}

\* enum gsm_bts_type (BS11 stands for the E1 BTS types).
BS11 == "BS11"
NANOBTS == "NANOBTS"
HSL_FEMTO == "HSL_FEMTO"
BtsTypes == {BS11, NANOBTS, HSL_FEMTO}

\* enum gsm_band; 450 stands for a band bootstrap_bts does not support.
Bands == {900, 1800, 1900, 850, 450}

\* What a TRX holds of one SI.
NOT_SENT == "NotSent"
GOOD_LEN == "GoodLen"
BAD_LEN == "BadLen"

\* Where start-up can fail besides bootstrap_bts: the config file, telnet,
\* the model's start, the E1 driver, the database, the SMS queue.
StartSteps == {"none", "config", "telnet", "modelstart", "e1", "db", "sms"}

START == "Start"
RUNNING == "Running"
EXITED == "Exited"
NO_CONF == "NoConf"

VARIABLES
    phase,     \* the process: before the main loop, in it, or exited
    btsType,   \* bts->type from the configuration
    gprs,      \* bts->gprs.mode # BTS_GPRS_NONE
    ccchConf,  \* bts->si_common.chan_desc.ccch_conf (NO_CONF before bootstrap)
    siValid,   \* bts->si_valid
    rsl,       \* rsl[t]: the RSL link of TRX t is up
    held,      \* held[t][i]: what TRX t holds of SI i
    siErr,     \* siErr[t]: TRX t's last set_system_infos failed
    maGen      \* maGen[t]: generate_ma_for_ts ran for every timeslot of t

vars == <<phase, btsType, gprs, ccchConf, siValid, rsl, held, siErr, maGen>>

NoneHeld == [i \in SiTypes |-> NOT_SENT]

TypeOK ==
    /\ phase \in {START, RUNNING, EXITED}
    /\ btsType \in BtsTypes /\ gprs \in BOOLEAN
    /\ ccchConf \in {NO_CONF, "1_C", "1_NC", "2_NC", "3_NC", "4_NC"}
    /\ siValid \subseteq SiTypes
    /\ rsl \in [Trxs -> BOOLEAN]
    /\ held \in [Trxs -> [SiTypes -> {NOT_SENT, GOOD_LEN, BAD_LEN}]]
    /\ siErr \in [Trxs -> BOOLEAN] /\ maGen \in [Trxs -> BOOLEAN]

(* The process before main runs; the BTS structure is a fresh one. *)
Init ==
    /\ phase = START
    /\ btsType = BS11 /\ gprs = FALSE /\ ccchConf = NO_CONF
    /\ siValid = {}
    /\ rsl = [t \in Trxs |-> FALSE]
    /\ held = [t \in Trxs |-> NoneHeld]
    /\ siErr = [t \in Trxs |-> FALSE]
    /\ maGen = [t \in Trxs |-> FALSE]

-----------------------------------------------------------------------------
(* bootstrap_bts's band check of the c0 ARFCN. *)
BandArfcnOk(band, arfcn) ==
    CASE band = 1800 -> arfcn \in 512 .. 885
      [] band = 1900 -> arfcn \in 512 .. 810
      [] band = 900 -> arfcn \in 1 .. 124 \cup 955 .. 1023
      [] band = 850 -> arfcn \in 128 .. 251
      [] OTHER -> FALSE

(* The RSL_BCCH_CCCH_CONF_* for n timeslots of c0 configured as CCCH:   *)
(* none means a combined CCCH on TS0; more than four is refused.         *)
CcchConfs == <<"1_NC", "2_NC", "3_NC", "4_NC">>
CcchConfOf(n) == IF n = 0 THEN "1_C" ELSE IF n <= 4 THEN CcchConfs[n] ELSE NO_CONF

(* bootstrap_bts: the model's start, the band check and the CCCH          *)
(* configuration; the other fields it sets are constants.                *)
BootstrapBtsOk(startOk, band, arfcn, nCcch) ==
    startOk /\ BandArfcnOk(band, arfcn) /\ CcchConfOf(nCcch) # NO_CONF

(* bsc_bootstrap_network: the config file and telnet, then bootstrap_bts *)
(* and, for an E1 BTS, e1_reconfig_bts; fail names the step that fails.  *)
BscBootstrapNetworkOk(fail, type, band, arfcn, nCcch) ==
    /\ fail \notin {"config", "telnet"}
    /\ BootstrapBtsOk(fail # "modelstart", band, arfcn, nCcch)
    /\ (type = BS11 => fail # "e1")

(* main: bsc_bootstrap_network, then the database and the SMS queue; a    *)
(* failure at any step ends the process.                                  *)
MainStartup ==
    /\ phase = START
    /\ \E type \in BtsTypes, g \in BOOLEAN, band \in Bands, arfcn \in Arfcns,
          nCcch \in 0 .. 5, fail \in StartSteps :
          LET ok == /\ BscBootstrapNetworkOk(fail, type, band, arfcn, nCcch)
                    /\ fail \notin {"db", "sms"}
          IN /\ btsType' = type /\ gprs' = g
             /\ IF ok THEN /\ phase' = RUNNING
                           /\ ccchConf' = CcchConfOf(nCcch)
                      ELSE /\ phase' = EXITED
                           /\ UNCHANGED ccchConf
    /\ UNCHANGED <<siValid, rsl, held, siErr, maGen>>

(* ipaccess_drop_oml on an ip.access BTS: the OML link and with it the   *)
(* RSL links of all TRXs are closed, and the TRXs lose their SIs.         *)
DropOml ==
    IF btsType = NANOBTS
    THEN /\ rsl' = [t \in Trxs |-> FALSE]
         /\ held' = [t \in Trxs |-> NoneHeld]
    ELSE UNCHANGED <<rsl, held>>

(* bsc_shutdown_net: S_GLOBAL_BTS_CLOSE_OM for the BTS, whose handler    *)
(* drops the OML link of an ip.access BTS.                                *)
BscShutdownNet == DropOml

(* signal_handler, SIGINT: shut the network down, then exit(0); the other *)
(* signals only print talloc reports.                                     *)
Sigint ==
    /\ phase = RUNNING
    /\ phase' = EXITED
    /\ BscShutdownNet
    /\ UNCHANGED <<btsType, gprs, ccchConf, siValid, siErr, maGen>>
-----------------------------------------------------------------------------
(* set_system_infos: c0 always needs SI1 to SI4, and SI13 on a GPRS BTS;  *)
(* every TRX needs SI5 and SI6.  The bits are added to the BTS-wide mask. *)
SiValidAfter(t) ==
    siValid \cup (IF t = C0 THEN 1 .. 4 \cup (IF gprs THEN {13} ELSE {}) ELSE {})
            \cup {5, 6}

(* generate_and_rsl_si(trx, i): the SI as sent, and whether rc < 0.  A    *)
(* generated SI is either sent with its length and rc >= 0, or            *)
(* gsm_generate_si fails and nothing is sent.  For a static SI rc and     *)
(* si_len are never assigned: the length sent is whatever the stack held, *)
(* and the HSL SACCH path, which does not assign rc, returns it as well.  *)
GenerateAndRslSi(i) ==
    IF i \notin StaticSis
    THEN {[sent |-> GOOD_LEN, err |-> FALSE], [sent |-> NOT_SENT, err |-> TRUE]}
    ELSE IF btsType = HSL_FEMTO /\ i \in SacchSis
    THEN {[sent |-> s, err |-> e] : s \in {GOOD_LEN, BAD_LEN}, e \in BOOLEAN}
    ELSE {[sent |-> s, err |-> FALSE] : s \in {GOOD_LEN, BAD_LEN}}

(* The loop over the valid SIs in enum order from position k: each result *)
(* is recorded in h, and the first error ends the loop (err_out).         *)
RECURSIVE SendSis(_, _, _, _)
SendSis(k, valid, out, h) ==
    IF k > Len(SiOrder) THEN <<h, FALSE>>
    ELSE LET i == SiOrder[k]
             h2 == IF i \in valid /\ out[i].sent # NOT_SENT
                   THEN [h EXCEPT ![i] = out[i].sent] ELSE h
         IN IF i \in valid /\ out[i].err THEN <<h2, TRUE>>
            ELSE SendSis(k + 1, valid, out, h2)

(* inp_sig_cb, S_INP_TEI_UP on an RSL link: bootstrap_rsl runs            *)
(* set_system_infos, ignores its result, and generates the MA of every    *)
(* timeslot.  Each SI's outcome is drawn from what the code can produce.  *)
RslTeiUp(t) ==
    /\ phase = RUNNING /\ ~rsl[t]
    /\ rsl' = [rsl EXCEPT ![t] = TRUE]
    /\ LET valid == SiValidAfter(t)
       IN /\ siValid' = valid
          /\ \E out \in [SiTypes -> UNION {GenerateAndRslSi(i) : i \in SiTypes}] :
                /\ \A i \in SiTypes : out[i] \in GenerateAndRslSi(i)
                /\ LET r == SendSis(1, valid, out, held[t])
                   IN /\ held' = [held EXCEPT ![t] = r[1]]
                      /\ siErr' = [siErr EXCEPT ![t] = r[2]]
    /\ maGen' = [maGen EXCEPT ![t] = TRUE]
    /\ UNCHANGED <<phase, btsType, gprs, ccchConf>>

(* The RSL link of a TRX goes down: the TRX forgets its SIs (the channel  *)
(* side of S_INP_TEI_DN is ChanAlloc's).                                  *)
RslTeiDown(t) ==
    /\ phase = RUNNING /\ rsl[t]
    /\ rsl' = [rsl EXCEPT ![t] = FALSE]
    /\ held' = [held EXCEPT ![t] = NoneHeld]
    /\ UNCHANGED <<phase, btsType, gprs, ccchConf, siValid, siErr, maGen>>

(* nm_sig_cb, S_NM_NACK: oml_msg_nack exits on a NACK of SET BTS ATTR;    *)
(* any other NACK drops the OML link of an ip.access BTS, which takes its *)
(* RSL links with it.                                                     *)
OmlMsgNack(setBtsAttr) ==
    /\ phase = RUNNING
    /\ IF setBtsAttr
       THEN /\ phase' = EXITED
            /\ UNCHANGED <<rsl, held>>
       ELSE /\ UNCHANGED phase
            /\ DropOml
    /\ UNCHANGED <<btsType, gprs, ccchConf, siValid, siErr, maGen>>

Next ==
    \/ MainStartup
    \/ Sigint
    \/ \E t \in Trxs : RslTeiUp(t) \/ RslTeiDown(t)
    \/ \E b \in BOOLEAN : OmlMsgNack(b)

Spec == Init /\ [][Next]_vars

-----------------------------------------------------------------------------
(* Every SI a TRX was sent carries the length of its contents             *)
(* (generate_and_rsl_si's rc and si_len for static SIs).                  *)
SiLengthsRight ==
    \A t \in Trxs : \A i \in SiTypes : held[t][i] # BAD_LEN
====
