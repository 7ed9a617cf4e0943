----------------------------- MODULE MCBscSccp -----------------------------
(* Model-checking instance of BscSccp: two subscriber connections, three  *)
(* DTAP messages each and a queue limit of 1, so that a full queue, a drop *)
(* and a flush of two queued messages all happen.                          *)
EXTENDS BscSccp

MCMaxMsgs == 3
MCSccpQueueMax == 1
\* The keep-alive in seconds: a PING every 3, answered within 2.
MCPingTimeout == 3
MCPongTimeout == 2
=============================================================================
