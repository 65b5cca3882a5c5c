---------------------------- MODULE MCPeerManager ----------------------------
(* One server with a permanent peer a1, one address a2 the address        *)
(* manager knows (not on the default port), one inbound remote i1 and one  *)
(* address that does not parse.  a1 and i1 share host h1 and group g1, so  *)
(* banning the inbound peer bans the permanent peer's host too.            *)
EXTENDS PeerManager

CONSTANTS a1, a2, i1, bad, h1, h2, g1, g2

MCHostOf  == (a1 :> h1) @@ (a2 :> h2) @@ (i1 :> h1)
MCGroupOf == (a1 :> g1) @@ (a2 :> g2) @@ (i1 :> g1)
MCConnectPeers == <<>>
MCAddPeers == <<a1>>
====
