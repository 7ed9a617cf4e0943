----------------------------- MODULE AbsMscLink -----------------------------
(***************************************************************************)
(* What the A link of osmo-bsc promises its subscriber connections: a TCP *)
(* link to the MSC comes up, becomes ready once the MSC has identified the *)
(* BSC (and the BSC has sent its RESET), and may drop at any time.  SCCP   *)
(* connections open only on a ready link and none survives its loss.      *)
(***************************************************************************)
CONSTANT Conns

VARIABLES link, open

DOWN == "down"
UP == "up"
READY == "ready"

Init == link = DOWN /\ open = {}

Connect == link = DOWN /\ link' = UP /\ UNCHANGED open

Authenticate == link = UP /\ link' = READY /\ UNCHANGED open

Open(c) == link = READY /\ c \notin open /\ open' = open \cup {c} /\ UNCHANGED link

Close(c) == c \in open /\ open' = open \ {c} /\ UNCHANGED link

Lose == link # DOWN /\ link' = DOWN /\ open' = {}

Next == Connect \/ Authenticate \/ Lose \/ \E c \in Conns : Open(c) \/ Close(c)

Spec == Init /\ [][Next]_<<link, open>>
=============================================================================
