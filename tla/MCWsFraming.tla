---------------------------- MODULE MCWsFraming -----------------------------
(* TLC instance of the framing.                                              *)
EXTENDS WsFraming

\* Empty, text, not UTF-8, at the limit of three bytes and over it.
MCBody == {<<>>, <<65>>, <<200>>, <<65, 200, 66>>, <<65, 66, 67, 68>>}
=============================================================================
