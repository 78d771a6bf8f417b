----------------------------- MODULE MCRpcProxy -----------------------------
(* Two clients; an allowed method and another one, single, in a batch, after   *)
(* an allowed one, or next to an item that is no object or has no method.      *)
EXTENDS RpcProxy

CONSTANTS eth_call, eth_sign

MCBodies == {Malformed, <<>>, <<eth_call>>, <<eth_call, eth_sign>>, <<NotAnObject, eth_sign>>,
             <<eth_call, Nameless>>}
=============================================================================
