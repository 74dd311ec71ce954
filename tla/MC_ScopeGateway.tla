--------------------------- MODULE MC_ScopeGateway ---------------------------
(***************************************************************************)
(* Two scopes that name one host.  The limited one accepts public          *)
(* addresses, until an update lowers its limit, blocks the public address  *)
(* and lists the laboratory's; so does the other one.  Nobody accepts the  *)
(* private address.                                                        *)
(***************************************************************************)
EXTENDS ScopeGateway

CONSTANTS public, lab, private, s1, s2

MC_Addresses == {public, lab, private}

MC_Configurations ==
    { [id |-> s1, ip_allowlist |-> {}, ip_blocklist |-> {}, max_requests |-> 2],
      [id |-> s1, ip_allowlist |-> {lab}, ip_blocklist |-> {public}, max_requests |-> 1],
      [id |-> s2, ip_allowlist |-> {lab}, ip_blocklist |-> {public}, max_requests |-> 2] }
=============================================================================
