----------------------------- MODULE NoProxyList -----------------------------
(***************************************************************************)
(* How should_bypass_proxies (requests/utils.py) matches a host against    *)
(* the entries of a no_proxy list: addresses, networks in CIDR notation,   *)
(* and endings of names.  An address has Octets parts of OctetBits bits; a *)
(* number is the set of the bits that are 1 in it, named by their weight,  *)
(* so that & is \cap.  A name is a sequence of letters.                    *)
(*                                                                         *)
(* An entry is a text and the number behind its slash, or NoSlash.  The    *)
(* abbreviated addresses that inet_aton takes, and logins inside the URL   *)
(* (which hide an address from the code), are left out.                    *)
(*                                                                         *)
(* A definition named D_Variant is D as a plausible mistake would have it; *)
(* nothing uses it.                                                        *)
(***************************************************************************)
EXTENDS Integers, SequencesExt

CONSTANTS
    Octets, OctetBits,
    Letters,        \* what names and ports are made of
    NoSlash,
    Colon,          \* the letter that separates the port in a netloc
    LittleEndian    \* the byte order of the machine

ASSUME WidthAssumption ==
    /\ Octets \in Nat /\ OctetBits \in Nat
    /\ LittleEndian \in BOOLEAN
    /\ NoSlash \notin Int

Width == Octets * OctetBits
Bits == 0..(OctetBits - 1)

Addresses == [1..Octets -> SUBSET Bits]

\* is_ipv4_address
IsAddress(text) == Len(text) = Octets /\ \A i \in DOMAIN text : text[i] \in SUBSET Bits

\* The weight of bit k of octet i, the octets in network order.
Weight(i, k) == (Octets - i) * OctetBits + k

\* The number that the octets are in network order.
BigEndian(octets) == UNION {{Weight(i, k) : k \in octets[i]} : i \in 1..Octets}

\* struct.unpack('=L', inet_aton(...)): the bytes in the machine's order.
Native(octets) == BigEndian(IF LittleEndian THEN Reverse(octets) ELSE octets)

Xor(m, n) == (m \cup n) \ (m \cap n)
Ones(n) == 0..(n - 1)   \* (1 << n) - 1

\* Mutant: one bit too many is masked.
DottedNetmask_OneBitMore(mask) ==
    LET bits == Xor(Ones(Width), Ones(Width - mask + 1))
    IN  [i \in 1..Octets |-> {k \in Bits : Weight(i, k) \in bits}]

\* dotted_netmask: 0xffffffff ^ (1 << 32 - mask) - 1, packed in network order.
DottedNetmask(mask) ==
    LET bits == Xor(Ones(Width), Ones(Width - mask))
    IN  [i \in 1..Octets |-> {k \in Bits : Weight(i, k) \in bits}]

\* is_valid_cidr
IsValidCidr(entry) ==
    entry.bits # NoSlash /\ entry.bits \in 1..Width /\ IsAddress(entry.text)

\* address_in_network
AddressInNetwork(ip, entry) ==
    LET netmask == Native(DottedNetmask(entry.bits))
        network == Native(entry.text) \cap netmask
    IN  Native(ip) \cap netmask = network \cap netmask

BeforeColon(netloc) ==
    LET colons == {i \in DOMAIN netloc : netloc[i] = Colon}
    IN  IF colons = {} THEN netloc
        ELSE SubSeq(netloc, 1, (CHOOSE i \in colons : \A j \in colons : i <= j) - 1)

\* What stands between two commas of a list with nothing there.
IsEmpty(entry) == entry.text = <<>> /\ entry.bits = NoSlash

\* should_bypass_proxies: does an entry of the list, of those that are not
\* empty, match the host?
ListMatches(entries, netloc) ==
    LET host == BeforeColon(netloc)
    IN  \E entry \in {e \in entries : ~IsEmpty(e)} :
           IF IsAddress(host)
           THEN IF IsValidCidr(entry) THEN AddressInNetwork(host, entry)
                ELSE entry.bits = NoSlash /\ entry.text = host
           ELSE /\ entry.bits = NoSlash
                /\ IsSuffix(entry.text, netloc) \/ IsSuffix(entry.text, host)
=============================================================================
