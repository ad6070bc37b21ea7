------------------------- MODULE MCServerLifecycle --------------------------
(***************************************************************************)
(* A finite instance of ServerLifecycle: two calls of Run and a Close that *)
(* meets Run in shutdown.                                                  *)
(***************************************************************************)
EXTENDS ServerLifecycle
=============================================================================
