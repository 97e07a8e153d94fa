----------------------------- MODULE MCHostDNS -----------------------------
(* Small instances of HostDNS for TLC: one network service.                  *)
EXTENDS HostDNS

CONSTANTS
  lan,          \* the network service
  own, custom,  \* the default domain and one of --dns-search-domain
  ts            \* a domain of another program

DefaultJoin == [service |-> lan, domains |-> {own}]
CustomJoin  == [service |-> lan, domains |-> {own, custom}]

OneJoin  == {DefaultJoin}
TwoJoins == {DefaultJoin, CustomJoin}
=============================================================================
