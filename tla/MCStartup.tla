----------------------------- MODULE MCStartup ------------------------------
(* TLC instance of Startup.                                                  *)
EXTENDS Startup

Net(port, relays, dht, ipv6) ==
    [port |-> port, quoted |-> TRUE, relays |-> relays, dht |-> dht, ipv6 |-> ipv6]

MCNetworks ==
    {DefaultNetwork, Net(11204, {}, FALSE, TRUE), Net(11204, {"blank", "invalid"}, TRUE, FALSE),
     Net(70000, {"invalid", "valid"}, TRUE, TRUE), Net(11204, {"valid"}, FALSE, TRUE),
     [Net(70000, {}, TRUE, TRUE) EXCEPT !.quoted = FALSE]}

MCEnvText == {-1, 4433, 70000}
=============================================================================
