--------------------------- MODULE MCRateLimiter ---------------------------
(* TLC instances of the token bucket: see the MCRateLimiter*.cfg files.     *)
EXTENDS RateLimiter
============================================================================
