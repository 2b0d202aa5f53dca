------------------------------ MODULE MCGateway -------------------------------
(***************************************************************************)
(* A small instance of Gateway: carol asks for challenges directly and     *)
(* through one or two proxies, with a made-up forwarding chain, and opens  *)
(* streams without credentials; a wallet opens streams from her address.   *)
(***************************************************************************)
EXTENDS Gateway

CONSTANTS carol, wallet, proxy, other

R(by, w, hops, forged, route) ==
    [by |-> by, wallet |-> w, key |-> "none", client |-> carol, hops |-> hops,
     forged |-> forged, real_ip |-> "none", route |-> route]

MCRequests ==
    {R(carol, "none", <<>>, <<other>>, "auth"), R(carol, "none", <<proxy>>, <<other>>, "auth"),
     R(carol, "none", <<proxy, proxy>>, <<other, proxy>>, "auth"),
     R(carol, "none", <<proxy>>, <<>>, "stream"), R(wallet, wallet, <<>>, <<>>, "stream")}
=============================================================================
