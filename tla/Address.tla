------------------------------ MODULE Address ------------------------------
(***************************************************************************)
(* The calculations of src/src/address.cc: broadcast address, network and  *)
(* mask of a prefix for IPv4 (one 32-bit word in network byte order) and   *)
(* IPv6 (byte by byte), and how Lookup splits "host:service".              *)
(*                                                                         *)
(* A byte is the set of its one-bits, a word likewise, 0 the least         *)
(* significant.  Each request is answered once.                            *)
(***************************************************************************)
EXTENDS Integers, Sequences

CONSTANTS
  Addresses4,  \* sin_addr: bytes 0 .. 3
  Addresses6,  \* s6_addr: bytes 0 .. 15, and 16, the first of sin6_scope_id
  Characters,  \* of the arguments of Lookup
  Hosts,       \* arguments of Lookup, sequences of characters
  None         \* a null pointer

Bits == 0 .. 7
WordBits == 0 .. 31

ASSUME AddressAssumption ==
  /\ Addresses4 \subseteq [0 .. 3 -> SUBSET Bits]
  /\ Addresses6 \subseteq [0 .. 16 -> SUBSET Bits]
  /\ Hosts \subseteq Seq(Characters)

VARIABLES request, result

vars == <<request, result>>

Request(ops, addresses, prefixes) ==
  [op : ops, addr : addresses, prefix_len : prefixes]

Requests ==
  Request({"broadcast4", "network4", "subnet4"}, Addresses4, 0 .. 33)
    \cup Request({"broadcast6", "network6", "subnet6"}, Addresses6, 0 .. 128)
    \cup [op : {"lookup"}, host : Hosts]

Init == request \in Requests /\ result = <<"none">>

Asked(op) == result = <<"none">> /\ request.op = op
Reply(r) == result' = <<"done", r>> /\ UNCHANGED request

----------------------------------------------------------------------------
(* CreateMask<uint32_t>.  A shift by the width of int is undefined; the     *)
(* build (-O0, CMakeLists.txt:5) leaves it to the processor, which takes it *)
(* modulo 32.                                                               *)
WordMaskTooLong(bits) == 0 .. (32 - bits) % 32
WordMask(bits) == 0 .. ((32 - bits) % 32) - 1

(* CreateMask<uint8_t>, calculated in int. *)
ByteMask(bits) == 0 .. 7 - bits

(* byteswap of a word, and a word in the memory of a little-endian machine. *)
Swapped(w) == {b \in WordBits : 8 * (3 - b \div 8) + (b % 8) \in w}
Word(bytes) == {b \in WordBits : b % 8 \in bytes[b \div 8]}
Stored(w) == [i \in 0 .. 3 |-> {j \in Bits : 8 * i + j \in w}]

Broadcast4 ==
  LET p == request.prefix_len IN
  /\ Asked("broadcast4")
  /\ Reply(IF p > 32 THEN None
           ELSE Stored(Word(request.addr) \cup Swapped(WordMask(p))))

Network4 ==
  LET p == request.prefix_len IN
  /\ Asked("network4")
  /\ Reply(IF p > 32 THEN None
           ELSE Stored(Word(request.addr) \cap Swapped(WordBits \ WordMask(p))))

Subnet4 ==
  /\ Asked("subnet4")
  /\ Reply(Stored(WordBits \ Swapped(WordMask(request.prefix_len))))

(* The byte a prefix ends in gets one value, the bytes behind it another;  *)
(* the loops stop at 16, the single byte may be number 16.                 *)
Split(addr, prefix_len, at, behind) ==
  [i \in 0 .. 16 |-> IF i = prefix_len \div 8 THEN at
                     ELSE IF i \in prefix_len \div 8 + 1 .. 15 THEN behind
                     ELSE addr[i]]

Broadcast6 ==
  LET p == request.prefix_len IN
  /\ Asked("broadcast6")
  /\ Reply(Split(request.addr, p,
                 request.addr[p \div 8] \cup ByteMask(p % 8), Bits))

Network6 ==
  LET p == request.prefix_len IN
  /\ Asked("network6")
  /\ Reply(Split(request.addr, p,
                 request.addr[p \div 8] \cap ByteMask(p % 8), {}))

Subnet6 ==
  LET p == request.prefix_len IN
  /\ Asked("subnet6")
  /\ Reply([i \in 0 .. 16 |-> IF i = p \div 8 THEN Bits \ ByteMask(p % 8)
                              ELSE IF i < p \div 8 THEN Bits ELSE {}])

----------------------------------------------------------------------------
AfterOneMore(s, i) == SubSeq(s, i + 2, Len(s))
After(s, i) == SubSeq(s, i + 1, Len(s))
Before(s, i) == SubSeq(s, 1, i - 1)

(* memchr: the places of the first c behind place i, none or one. *)
FirstAfter(s, i, c) ==
  {k \in i + 1 .. Len(s) : s[k] = c /\ \A j \in i + 1 .. k - 1 : s[j] # c}

(* "[node]:service".  An empty node counts as not found. *)
Bracketed(h) ==
  {[node |-> SubSeq(h, 2, k - 1),
    service |-> IF k < Len(h) /\ h[k + 1] = ":" THEN After(h, k + 1) ELSE None]
     : k \in {k \in FirstAfter(h, 1, "]") : h[1] = "[" /\ k > 2}}

(* "node:service".  With a second colon all of h is the node, and service  *)
(* is left at the first.                                                   *)
Colon(h) ==
  {IF FirstAfter(h, k, ":") = {} /\ k > 1
     THEN [node |-> Before(h, k), service |-> After(h, k)]
     ELSE [node |-> h, service |-> IF FirstAfter(h, k, ":") = {} THEN After(h, k)
                                   ELSE After(h, k - 1)]
     : k \in FirstAfter(h, 0, ":")}

Whole(h) == [node |-> h, service |-> None]

Lookup ==
  LET h == request.host IN
  /\ Asked("lookup")
  /\ \/ \E r \in Bracketed(h) : Reply(r)
     \/ Bracketed(h) = {} /\ \E r \in Colon(h) : Reply(r)
     \/ Bracketed(h) = {} /\ Colon(h) = {} /\ Reply(Whole(h))

Next == Broadcast4 \/ Network4 \/ Subnet4 \/ Broadcast6 \/ Network6 \/ Subnet6
          \/ Lookup

Spec == Init /\ [][Next]_vars

----------------------------------------------------------------------------
(* Bit j of byte i belongs to the first p bits of an address. *)
InPrefix(i, j, p) == 8 * i + 7 - j < p

(* What a prefix stands for, by bits: the network keeps the first p bits of *)
(* the address, the broadcast address sets the others, the mask is those p. *)
NetworkOf(addr, p, n) ==
  [i \in 0 .. n |-> {j \in Bits : InPrefix(i, j, p) /\ j \in addr[i]}]
BroadcastOf(addr, p, n) ==
  [i \in 0 .. n |-> {j \in Bits : ~InPrefix(i, j, p) \/ j \in addr[i]}]
MaskOf(p, n) == [i \in 0 .. n |-> {j \in Bits : InPrefix(i, j, p)}]

First(n, bytes) == [i \in 0 .. n |-> bytes[i]]
Answered(op) == request.op = op /\ result # <<"none">>

(* The three calculations agree with the definition by bits: for IPv4 from *)
(* 1 to 32 bits, with a null pointer beyond (the mask has no such test);   *)
(* for IPv6 the broadcast address and the mask, from 0 to 128, and the     *)
(* scope is left alone below 128 (address.cc:324-355, 430-461).            *)
PrefixesExact ==
  LET p == request.prefix_len IN
  /\ Answered("broadcast4") /\ p > 0 =>
       result[2] = IF p > 32 THEN None ELSE BroadcastOf(request.addr, p, 3)
  /\ Answered("network4") /\ p > 0 =>
       result[2] = IF p > 32 THEN None ELSE NetworkOf(request.addr, p, 3)
  /\ Answered("subnet4") /\ p \in 1 .. 32 => result[2] = MaskOf(p, 3)
  /\ Answered("broadcast6") =>
       /\ First(15, result[2]) = BroadcastOf(request.addr, p, 15)
       /\ p < 128 => result[2][16] = request.addr[16]
  /\ Answered("subnet6") => First(15, result[2]) = MaskOf(p, 15)

(* Lookup takes "node:service" and "[node]:service" apart and leaves a     *)
(* bare name alone (address.cc:32-35), whatever the parts consist of: a    *)
(* node in brackets may have colons, a node without may not.               *)
Occurs(c, s) == \E i \in DOMAIN s : s[i] = c
Plain(s) == s # <<>> /\ ~Occurs(":", s) /\ s[1] # "["

LookupSplits ==
  Answered("lookup") =>
    LET h == request.host
        From(k) == SubSeq(h, k, Len(h))
        Upto(k) == SubSeq(h, 1, k)
        Node(i, j, service) == result[2] = [node |-> SubSeq(h, i, j),
                                            service |-> service]
    IN  /\ Plain(h) => Node(1, Len(h), None)
        /\ \A k \in DOMAIN h :
             /\ h[k] = ":" /\ Plain(Upto(k - 1)) /\ ~Occurs(":", From(k + 1)) =>
                  Node(1, k - 1, From(k + 1))
             /\ h[1] = "[" /\ h[k] = "]" /\ k > 2 /\ ~Occurs("]", Upto(k - 1)) =>
                  /\ k = Len(h) => Node(2, k - 1, None)
                  /\ k < Len(h) /\ h[k + 1] = ":" => Node(2, k - 1, From(k + 2))
=============================================================================
