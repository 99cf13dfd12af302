----------------------------- MODULE MCWsTunnel -----------------------------
(***************************************************************************)
(* WsTunnel for TLC: a channel of one place and a handful of frames, so    *)
(* that the channel fills up behind a message in pump's hands.             *)
(***************************************************************************)
EXTENDS WsTunnel
============================================================================
