------------------------ MODULE MCReconnectManager ------------------------
(* The connection of one tab on small instances; a tick is 500 ms.         *)
EXTENDS ReconnectManager
=============================================================================
