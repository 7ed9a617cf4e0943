----------------------------- MODULE CommonVty -----------------------------
(***************************************************************************)
(* The VTY node navigation shared by the OpenBSC programs                  *)
(* (src/openbsc/src/libcommon/common_vty.c): the "exit" and "end"          *)
(* commands of the configuration nodes, and bsc_vty_go_parent, the         *)
(* go_parent_cb libosmovty calls when the configuration file reader finds  *)
(* a line the current node does not know and walks up to try its parent.   *)
(*                                                                         *)
(* A vty is its node, vty->index (the object the node edits) and           *)
(* vty->index_sub (the description string the "description" command of    *)
(* the node sets), plus the configuration lock.  The commands that enter   *)
(* a node ("network", "bts N", "trx N", "timeslot N", "nat", ...) and the  *)
(* "configure terminal" and "exit" of CONFIG_NODE are libosmovty's or live  *)
(* outside this tree; the model enters a node with the index and index_sub *)
(* ournode_exit restores when it comes back to that node.                  *)
(***************************************************************************)
EXTENDS Naturals

CONSTANTS
    Btss, Trxs, Tss,   \* the BTSs, TRXs and timeslots of the network
    TrxBts,            \* trx->bts
    TsTrx              \* ts->trx

(* enum node_type of libosmovty and enum bsc_vty_node (vty.h). *)
VIEW_NODE == "VIEW"         ENABLE_NODE == "ENABLE"
CONFIG_NODE == "CONFIG"     VTY_NODE == "VTY"
GSMNET_NODE == "GSMNET"     BTS_NODE == "BTS"
TRX_NODE == "TRX"           TS_NODE == "TS"
SUBSCR_NODE == "SUBSCR"     MGCP_NODE == "MGCP"
GBPROXY_NODE == "GBPROXY"   SGSN_NODE == "SGSN"
NS_NODE == "NS"             BSSGP_NODE == "BSSGP"
OML_NODE == "OML"           NAT_NODE == "NAT"
NAT_BSC_NODE == "NAT_BSC"   MSC_NODE == "MSC"
OM2K_NODE == "OM2K"         TRUNK_NODE == "TRUNK"
PGROUP_NODE == "PGROUP"     MNCC_INT_NODE == "MNCC_INT"

\* The objects vty->index can point to: the network, a BTS, TRX or
\* timeslot, the NAT, a NAT BSC config, an MGCP trunk, a NAT paging group,
\* a talloc'ed OML object, and NULL.
NULL == "NULL"
NET == "net"
NAT == "nat"
BSC_CONFIG == "bsc_config"
TRUNK == "trunk"
PGROUP == "pgroup"
OML_OBJ == "oml_obj"

\* The parent pointers the handlers follow: bts->network, trx->bts,
\* ts->trx, bsc_config->nat.
Parent(o) ==
    CASE o \in Btss -> NET
      [] o \in Trxs -> TrxBts[o]
      [] o \in Tss -> TsTrx[o]
      [] o = BSC_CONFIG -> NAT

VARIABLES
    node,      \* vty->node
    index,     \* vty->index
    indexSub,  \* vty->index_sub: the object whose description it points to
    locked     \* this vty holds the configuration lock

vars == <<node, index, indexSub, locked>>

Nodes == {VIEW_NODE, ENABLE_NODE, CONFIG_NODE, VTY_NODE, GSMNET_NODE,
          BTS_NODE, TRX_NODE, TS_NODE, SUBSCR_NODE, MGCP_NODE, GBPROXY_NODE,
          SGSN_NODE, NS_NODE, BSSGP_NODE, OML_NODE, NAT_NODE, NAT_BSC_NODE,
          MSC_NODE, OM2K_NODE, TRUNK_NODE, PGROUP_NODE, MNCC_INT_NODE}
Objects == {NULL, NET, NAT, BSC_CONFIG, TRUNK, PGROUP, OML_OBJ}
           \cup Btss \cup Trxs \cup Tss

TypeOK ==
    /\ node \in Nodes
    /\ index \in Objects /\ indexSub \in Objects
    /\ locked \in BOOLEAN

(* A telnet session starts in the enable node with nothing selected. *)
Init ==
    /\ node = ENABLE_NODE
    /\ index = NULL /\ indexSub = NULL
    /\ locked = FALSE
-----------------------------------------------------------------------------
(* bsc_vty_is_config_node: the application nodes the configuration file    *)
(* reader may walk up from; OML, OM2K and SUBSCR are enable-level nodes.    *)
BscVtyIsConfigNode(n) == n \notin {OML_NODE, OM2K_NODE, SUBSCR_NODE, CONFIG_NODE}

(* The nodes libosmovty hands to the application's go_parent_cb. *)
AppNodes == Nodes \ {VIEW_NODE, ENABLE_NODE, CONFIG_NODE, VTY_NODE}

(* bsc_vty_go_parent: the parent node, and the index it leaves; index_sub *)
(* is never touched.                                                       *)
GoParentNode(n) ==
    CASE n = BTS_NODE -> GSMNET_NODE
      [] n = TRX_NODE -> BTS_NODE
      [] n = TS_NODE -> TRX_NODE
      [] n \in {OML_NODE, OM2K_NODE} -> ENABLE_NODE
      [] n \in {NAT_BSC_NODE, PGROUP_NODE} -> NAT_NODE
      [] n = TRUNK_NODE -> MGCP_NODE
      [] OTHER -> CONFIG_NODE

GoParentIndex(n, i) ==
    CASE n \in {GSMNET_NODE, OML_NODE, OM2K_NODE, NAT_NODE} -> NULL
      [] n \in {BTS_NODE, TRX_NODE, TS_NODE, NAT_BSC_NODE} -> Parent(i)
      [] OTHER -> i

BscVtyGoParent ==
    /\ node \in AppNodes
    /\ node' = GoParentNode(node)
    /\ index' = GoParentIndex(node, index)
    /\ UNCHANGED <<indexSub, locked>>

(* The configuration file reader: a line the current node does not know   *)
(* makes libosmovty go to the parent while the node is a config child.    *)
ConfigWalkUp ==
    /\ BscVtyIsConfigNode(node)
    /\ BscVtyGoParent

(* ournode_exit: the parent node, the index and index_sub it restores;     *)
(* a node it does not list is left as it is.                               *)
ExitNode(n) ==
    CASE n \in {BTS_NODE, TRX_NODE, TS_NODE, NAT_BSC_NODE, PGROUP_NODE,
                OML_NODE, OM2K_NODE, TRUNK_NODE} -> GoParentNode(n)
      [] n \in {GSMNET_NODE, MGCP_NODE, GBPROXY_NODE, SGSN_NODE, NS_NODE,
                BSSGP_NODE, NAT_NODE, MSC_NODE, MNCC_INT_NODE} -> CONFIG_NODE
      [] OTHER -> n

ExitIndex(n, i) ==
    CASE n \in {GSMNET_NODE, MGCP_NODE, GBPROXY_NODE, SGSN_NODE, NS_NODE,
                BSSGP_NODE, NAT_NODE, OML_NODE, OM2K_NODE, TRUNK_NODE} -> NULL
      [] n \in {BTS_NODE, TRX_NODE, TS_NODE, NAT_BSC_NODE} -> Parent(i)
      [] OTHER -> i

ExitIndexSub(n, i, s) ==
    CASE n = BTS_NODE -> NULL
      [] n \in {TRX_NODE, TS_NODE} -> Parent(i)
      [] OTHER -> s

OurnodeExit ==
    /\ node \in AppNodes
    /\ node' = ExitNode(node)
    /\ index' = ExitIndex(node, index)
    /\ indexSub' = ExitIndexSub(node, index, indexSub)
    /\ UNCHANGED locked

(* ournode_end: from a configuration node, release the lock and go to the  *)
(* enable node with nothing selected; elsewhere nothing happens.           *)
EndNodes == {CONFIG_NODE, GSMNET_NODE, BTS_NODE, TRX_NODE, TS_NODE, MGCP_NODE,
             TRUNK_NODE, GBPROXY_NODE, SGSN_NODE, NS_NODE, VTY_NODE, NAT_NODE,
             NAT_BSC_NODE, PGROUP_NODE, MSC_NODE, MNCC_INT_NODE}

OurnodeEnd ==
    IF node \in EndNodes
    THEN /\ locked' = FALSE
         /\ node' = ENABLE_NODE
         /\ index' = NULL /\ indexSub' = NULL
    ELSE UNCHANGED vars
-----------------------------------------------------------------------------
(* The environment: libosmovty's "configure terminal" takes the lock, and  *)
(* the node commands outside this tree enter a child node.                 *)
ConfigureTerminal ==
    /\ node = ENABLE_NODE
    /\ node' = CONFIG_NODE /\ locked' = TRUE
    /\ UNCHANGED <<index, indexSub>>

(* libosmovty's "exit" of CONFIG_NODE: back to enable, lock released. *)
ConfigExit ==
    /\ node = CONFIG_NODE
    /\ node' = ENABLE_NODE /\ locked' = FALSE
    /\ UNCHANGED <<index, indexSub>>

(* The children each node command enters, with the index and index_sub it *)
(* selects: the ones ournode_exit restores on coming back, and NULL or the *)
(* object itself for a node it never returns to.                           *)
Children(n, i) ==
    CASE n = CONFIG_NODE ->
            {<<GSMNET_NODE, NET, NULL>>, <<NAT_NODE, NAT, NULL>>,
             <<MGCP_NODE, NULL, NULL>>, <<MSC_NODE, NULL, NULL>>,
             <<MNCC_INT_NODE, NULL, NULL>>, <<GBPROXY_NODE, NULL, NULL>>,
             <<SGSN_NODE, NULL, NULL>>, <<NS_NODE, NULL, NULL>>,
             <<BSSGP_NODE, NULL, NULL>>}
      [] n = GSMNET_NODE -> {<<BTS_NODE, b, b>> : b \in Btss}
      [] n = BTS_NODE -> {<<TRX_NODE, t, t>> : t \in {x \in Trxs : TrxBts[x] = i}}
      [] n = TRX_NODE -> {<<TS_NODE, s, NULL>> : s \in {x \in Tss : TsTrx[x] = i}}
      [] n = NAT_NODE -> {<<NAT_BSC_NODE, BSC_CONFIG, NULL>>, <<PGROUP_NODE, PGROUP, NULL>>}
      [] n = MGCP_NODE -> {<<TRUNK_NODE, TRUNK, NULL>>}
      [] n = ENABLE_NODE ->
            {<<OML_NODE, OML_OBJ, NULL>>, <<OM2K_NODE, OML_OBJ, NULL>>,
             <<SUBSCR_NODE, NULL, NULL>>}
      [] OTHER -> {}

EnterNode ==
    /\ \E c \in Children(node, index) :
          /\ node' = c[1] /\ index' = c[2] /\ indexSub' = c[3]
    /\ UNCHANGED locked

Next ==
    \/ ConfigureTerminal
    \/ ConfigExit
    \/ EnterNode
    \/ ConfigWalkUp
    \/ OurnodeExit
    \/ OurnodeEnd

Spec == Init /\ [][Next]_vars
-----------------------------------------------------------------------------
(* The "description" command of a BTS or TRX node edits the description of *)
(* the object the node selects: vty->index_sub is the description of        *)
(* vty->index there, however the vty got to the node (ournode_exit sets it  *)
(* so on the way up; bsc_vty_go_parent is the configuration reader's way).  *)
IndexSubOwned ==
    node \in {BTS_NODE, TRX_NODE} => indexSub = index
=============================================================================
