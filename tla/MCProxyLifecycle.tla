------------------------- MODULE MCProxyLifecycle -------------------------
(* ProxyLifecycle with two requests and two or three starts: processes that  *)
(* save, crash or shut down, and their successors.                          *)
EXTENDS ProxyLifecycle
=============================================================================
