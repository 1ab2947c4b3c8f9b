--------------------------- MODULE MCProxySocket ---------------------------
(***************************************************************************)
(* ProxySocket for TLC: four messages up and three down, the last ones too *)
(* long for the tunnel.                                                    *)
(***************************************************************************)
EXTENDS ProxySocket, TLC

MCMaxUp == 4
MCMaxDown == 3
MCLongUp == {4}
MCLongDown == {3}
=============================================================================
