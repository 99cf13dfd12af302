--------------------------- MODULE MCStreamServer ---------------------------
(* The TLC instance of the api:// server: see MCStreamServer.cfg.            *)
EXTENDS StreamServer
============================================================================
