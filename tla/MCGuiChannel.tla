---------------------------- MODULE MCGuiChannel ----------------------------
(* GuiChannel with a few blocks: one on the free list, the rest allocated  *)
(* on demand as the queue grows, so both arms of the send are taken.       *)
EXTENDS GuiChannel

CONSTANTS b1, b2, b3

MCPrefilled == <<b1>>
=============================================================================
