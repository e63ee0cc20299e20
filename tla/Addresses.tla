----------------------------- MODULE Addresses -----------------------------
(***************************************************************************)
(* IPv4 addresses (src/address.cpp): host strings, the order of addresses  *)
(* and the addresses of a subnet.  A word has Bits bits; characters of a   *)
(* host string are single strings.                                         *)
(***************************************************************************)
EXTENDS Integers, Sequences, FiniteSetsExt

CONSTANT Bits    \* sizeof(uint32_t) * 8
ASSUME BitsAssumption == Bits \in Nat \ {0}

Word == 0..(2^Bits - 1)

\* Lookup: what is handed to getaddrinfo as node and service.  An address between
\* brackets, then a host with one colon; with two colons the service stays where the
\* first colon is.
At(host, c, from) == {i \in from..Len(host) : host[i] = c}
NodeAndService(host) ==
  LET close == IF host # <<>> /\ host[1] = "[" THEN At(host, "]", 2) ELSE {}
      inner == IF close = {} THEN <<>> ELSE SubSeq(host, 2, Min(close) - 1)
      colon == At(host, ":", 1)
      behind(i) == SubSeq(host, i, Len(host))
  IN IF inner # <<>>
       THEN [node |-> inner,
             service |-> IF Min(close) < Len(host) /\ host[Min(close) + 1] = ":"
                           THEN behind(Min(close) + 2) ELSE <<"none">>]
     ELSE IF colon = {} THEN [node |-> host, service |-> <<"none">>]
     ELSE IF At(host, ":", Min(colon) + 1) = {} /\ Min(colon) > 1
       THEN [node |-> SubSeq(host, 1, Min(colon) - 1), service |-> behind(Min(colon) + 1)]
     ELSE [node |-> host,
           service |-> behind(Min(colon)
                              + IF At(host, ":", Min(colon) + 1) = {} THEN 1 ELSE 0)]

\* The results of the resolver, of which only IPv4 ones become an Address; LookupAny
\* takes the first whatever it is, LookupAnyIPAddress the first Address there is.
Create(r) == IF r.family = "inet" THEN r.addr ELSE -1
LookupAny(results) == IF results = <<>> THEN -1 ELSE Create(results[1])
LookupAnyIPAddress(results) ==
  LET ip == {i \in DOMAIN results : Create(results[i]) # -1}
  IN IF ip = {} THEN -1 ELSE Create(results[Min(ip)])

\* CountBytes counts the ones of a netmask; CreateMask has a one for each bit of the
\* host.  A shift by the whole width (bits = 0) is undefined: the processor shifts by
\* nothing, a constant folds to zero.
Ones(w) == Cardinality({i \in 0..(Bits - 1) : (w \div 2^i) % 2 = 1})
CreateMasks(bits) == IF bits = 0 THEN {0, 2^Bits - 1} ELSE {2^(Bits - bits) - 1}

\* Bitwise or and and with a mask of that shape, and the complement.
OrMask(w, mask) == w - (w % (mask + 1)) + mask
AndMask(w, mask) == w % (mask + 1)
broadcastAddress(w, bits) == {OrMask(w, mask) : mask \in CreateMasks(bits)}
networdAddress(w, bits) == {AndMask(w, mask) : mask \in CreateMasks(bits)}
subnetMask(bits) == {2^Bits - 1 - mask : mask \in CreateMasks(bits)}
=============================================================================
