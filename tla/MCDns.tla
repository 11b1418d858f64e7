------------------------------- MODULE MCDns -------------------------------
(* A slow and a duplicated answer with two servers; three names for two    *)
(* entries when the sequence number wraps; literal addresses, local names  *)
(* and no memory for the result.                                           *)
EXTENDS Dns

DPlan == [names |-> {<<"a">>, <<"b">>}, kinds |-> {"hostent"}, lookups |-> 2, ttls |-> {1}, dups |-> 0,
          servers |-> 1, locals |-> 0, seqno |-> 0, nomem |-> FALSE]
MCDnsPlans ==
  {[DPlan EXCEPT !.servers = 2, !.dups = 1],
   [DPlan EXCEPT !.kinds = {"addrinfo"}, !.names = {<<"a">>, <<"b">>, <<"c">>}, !.seqno = 3, !.ttls = {3}, !.lookups = 3],
   [DPlan EXCEPT !.names = {<<"a">>, Literal}, !.locals = 2, !.nomem = TRUE]}

DnsFairSpec == DnsSpec /\ DnsFairness
=============================================================================
