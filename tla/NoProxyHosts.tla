---------------------------- MODULE NoProxyHosts ----------------------------
(***************************************************************************)
(* EnvironProxies with the netlocs of its hosts: the no_proxy lists of     *)
(* NoProxyList are what makes its sets of matched hosts.                   *)
(***************************************************************************)
EXTENDS EnvironProxies, NoProxyList

CONSTANT Netloc   \* Netloc[h]: an address or a name, with or without a port

ASSUME NetlocAssumption ==
    \A h \in Hosts : Netloc[h] \in Seq(Letters \cup SUBSET Bits)

\* The hosts that a list matches.
Matched(entries) == {h \in Hosts : ListMatches(entries, Netloc[h])}

\* Have two addresses the same first bits, the highest of the first octet first?
SameStart(ip, net, bits) ==
    \A i \in 1..Octets, k \in Bits :
        (i - 1) * OctetBits + (OctetBits - k) <= bits => (k \in ip[i] <=> k \in net[i])

\* Is the host matched by exactly the networks that share its leading bits?
InItsNetworks ==
    [h \in Hosts |->
        \A net \in Addresses, bits \in 0..(Width + 1) :
            LET ip == BeforeColon(Netloc[h])
            IN  IsAddress(ip) =>
                    (ListMatches({[text |-> net, bits |-> bits]}, Netloc[h])
                        <=> bits \in 1..Width /\ SameStart(ip, net, bits))]

\* The address of a call's host is in a network exactly when their leading
\* bits agree, for every network and length, a length that is out of range
\* included, in the byte order of the machine and whatever the port
\* (address_in_network, dotted_netmask).
NetworksMatch == \A t \in Threads : InItsNetworks[call[t].host]
=============================================================================
