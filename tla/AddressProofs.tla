--------------------------- MODULE AddressProofs ---------------------------
(***************************************************************************)
(* The calculations on prefixes agree with their definition by bits for    *)
(* every address, not only for the patterns of the run, and Lookup splits  *)
(* hosts of any length.                                                    *)
(***************************************************************************)
EXTENDS Address, SequenceTheorems, TLAPS

(* Bit j of byte i of a word in memory, and after byteswap. *)
LEMMA BitPlace ==
  ASSUME NEW i \in 0 .. 3, NEW j \in Bits
  PROVE  /\ 8 * i + j \in WordBits
         /\ (8 * i + j) \div 8 = i /\ (8 * i + j) % 8 = j
BY DEF Bits, WordBits

LEMMA WordBit ==
  ASSUME NEW addr, NEW i \in 0 .. 3, NEW j \in Bits
  PROVE  8 * i + j \in Word(addr) <=> j \in addr[i]
BY BitPlace DEF Word

LEMMA SwappedBit ==
  ASSUME NEW w, NEW i \in 0 .. 3, NEW j \in Bits
  PROVE  8 * i + j \in Swapped(w) <=> 8 * (3 - i) + j \in w
BY BitPlace DEF Swapped

LEMMA MaskBit ==
  ASSUME NEW p \in 1 .. 32, NEW i \in 0 .. 3, NEW j \in Bits
  PROVE  /\ 8 * (3 - i) + j \in WordMask(p) <=> ~InPrefix(i, j, p)
         /\ 8 * (3 - i) + j \in WordBits
<1>1. (32 - p) % 32 = 32 - p
  OBVIOUS
<1> QED
  BY <1>1 DEF WordMask, InPrefix, Bits, WordBits

LEMMA Broadcast4Exact ==
  ASSUME NEW addr, NEW p \in 1 .. 32
  PROVE  Stored(Word(addr) \cup Swapped(WordMask(p))) = BroadcastOf(addr, p, 3)
<1>1. \A i \in 0 .. 3, j \in Bits :
        8 * i + j \in Word(addr) \cup Swapped(WordMask(p))
          <=> ~InPrefix(i, j, p) \/ j \in addr[i]
  BY WordBit, SwappedBit, MaskBit
<1> QED
  BY <1>1 DEF Stored, BroadcastOf

LEMMA Network4Exact ==
  ASSUME NEW addr, NEW p \in 1 .. 32
  PROVE  Stored(Word(addr) \cap Swapped(WordBits \ WordMask(p)))
           = NetworkOf(addr, p, 3)
<1>1. \A i \in 0 .. 3, j \in Bits :
        8 * i + j \in Word(addr) \cap Swapped(WordBits \ WordMask(p))
          <=> InPrefix(i, j, p) /\ j \in addr[i]
  BY WordBit, SwappedBit, MaskBit
<1> QED
  BY <1>1 DEF Stored, NetworkOf

LEMMA Subnet4Exact ==
  ASSUME NEW p \in 1 .. 32
  PROVE  Stored(WordBits \ Swapped(WordMask(p))) = MaskOf(p, 3)
<1>1. \A i \in 0 .. 3, j \in Bits :
        8 * i + j \in WordBits \ Swapped(WordMask(p)) <=> InPrefix(i, j, p)
  BY BitPlace, SwappedBit, MaskBit
<1> QED
  BY <1>1 DEF Stored, MaskOf

(* The byte a prefix of an IPv6 address ends in, those before, those behind. *)
LEMMA ByteOf ==
  ASSUME NEW p \in 0 .. 128, NEW i \in 0 .. 15, NEW j \in Bits
  PROVE  /\ p \div 8 \in 0 .. 16 /\ p % 8 \in Bits
         /\ i < p \div 8 => InPrefix(i, j, p)
         /\ i > p \div 8 => ~InPrefix(i, j, p)
         /\ i = p \div 8 => (j \in ByteMask(p % 8) <=> ~InPrefix(i, j, p))
BY DEF InPrefix, ByteMask, Bits

LEMMA Broadcast6Exact ==
  ASSUME NEW addr \in [0 .. 16 -> SUBSET Bits], NEW p \in 0 .. 128
  PROVE  LET r == Split(addr, p, addr[p \div 8] \cup ByteMask(p % 8), Bits)
         IN  /\ First(15, r) = BroadcastOf(addr, p, 15)
             /\ p < 128 => r[16] = addr[16]
<1> DEFINE r == Split(addr, p, addr[p \div 8] \cup ByteMask(p % 8), Bits)
<1>1. \A i \in 0 .. 15 : r[i] = {j \in Bits : ~InPrefix(i, j, p) \/ j \in addr[i]}
  <2> SUFFICES ASSUME NEW i \in 0 .. 15
               PROVE  r[i] = {j \in Bits : ~InPrefix(i, j, p) \/ j \in addr[i]}
    OBVIOUS
  <2>1. CASE i < p \div 8
    <3>1. r[i] = addr[i] /\ addr[i] \subseteq Bits
      BY <2>1 DEF Split
    <3>2. \A j \in Bits : InPrefix(i, j, p)
      BY <2>1, ByteOf
    <3> QED
      BY <3>1, <3>2
  <2>2. CASE i = p \div 8
    <3>1. r[i] = addr[i] \cup ByteMask(p % 8)
      BY <2>2 DEF Split
    <3>2. ByteMask(p % 8) \subseteq Bits
      <4>1. p % 8 \in 0 .. 7
        OBVIOUS
      <4> QED
        BY <4>1 DEF ByteMask, Bits
    <3>4. addr[i] \subseteq Bits
      OBVIOUS
    <3>3. \A j \in Bits : j \in ByteMask(p % 8) <=> ~InPrefix(i, j, p)
      BY <2>2, ByteOf
    <3> QED
      BY <3>1, <3>2, <3>3, <3>4
  <2>3. CASE i > p \div 8
    <3>1. r[i] = Bits
      BY <2>3 DEF Split
    <3>2. \A j \in Bits : ~InPrefix(i, j, p)
      BY <2>3, ByteOf
    <3> QED
      BY <3>1, <3>2
  <2> QED
    BY <2>1, <2>2, <2>3
<1>2. p < 128 => r[16] = addr[16]
  BY DEF Split
<1> QED
  BY <1>1, <1>2 DEF First, BroadcastOf

LEMMA Subnet6Exact ==
  ASSUME NEW p \in 0 .. 128
  PROVE  First(15, [i \in 0 .. 16 |-> IF i = p \div 8 THEN Bits \ ByteMask(p % 8)
                                      ELSE IF i < p \div 8 THEN Bits ELSE {}])
           = MaskOf(p, 15)
<1>1. ASSUME NEW i \in 0 .. 15
      PROVE  (IF i = p \div 8 THEN Bits \ ByteMask(p % 8)
              ELSE IF i < p \div 8 THEN Bits ELSE {})
               = {j \in Bits : InPrefix(i, j, p)}
  <2>1. CASE i < p \div 8
    <3>1. \A j \in Bits : InPrefix(i, j, p)
      BY <2>1, ByteOf
    <3> QED
      BY <2>1, <3>1
  <2>2. CASE i = p \div 8
    <3>1. \A j \in Bits : j \in ByteMask(p % 8) <=> ~InPrefix(i, j, p)
      BY <2>2, ByteOf
    <3> QED
      BY <2>2, <3>1
  <2>3. CASE i > p \div 8
    <3>1. \A j \in Bits : ~InPrefix(i, j, p)
      BY <2>3, ByteOf
    <3> QED
      BY <2>3, <3>1
  <2> QED
    BY <2>1, <2>2, <2>3
<1> QED
  BY <1>1 DEF First, MaskOf

(***************************************************************************)
(* What IPv6Address::networkAddress does instead (address.cc:442): in the  *)
(* byte the prefix ends in it clears the bits of the prefix and keeps the  *)
(* others, the opposite of the network ("the segment of this address",     *)
(* address.h:158) that NetworkOf defines.                                  *)
(***************************************************************************)
THEOREM Network6KeepsHostBits ==
  ASSUME NEW addr \in [0 .. 16 -> SUBSET Bits], NEW p \in 0 .. 127,
         NEW j \in Bits
  PROVE  LET i == p \div 8
             r == Split(addr, p, addr[i] \cap ByteMask(p % 8), {})
         IN  j \in r[i] <=> ~InPrefix(i, j, p) /\ j \in addr[i]
<1> DEFINE i == p \div 8
<1>1. i \in 0 .. 15 /\ p \in 0 .. 128
  OBVIOUS
<1>2. Split(addr, p, addr[i] \cap ByteMask(p % 8), {})[i]
        = addr[i] \cap ByteMask(p % 8)
  BY <1>1 DEF Split
<1>3. j \in ByteMask(p % 8) <=> ~InPrefix(i, j, p)
  BY <1>1, ByteOf
<1> QED
  BY <1>2, <1>3

(***************************************************************************)
(* A request has the addresses and prefixes of its operation, and an       *)
(* answer is not changed.                                                  *)
(***************************************************************************)
Inv == request \in Requests /\ PrefixesExact

(* The prefixes of IPv4 from 1 to 32 (null beyond) and of IPv6 from 0 to   *)
(* 128 give the broadcast address and the mask, and for IPv4 the network,  *)
(* that their bits define, for any set of addresses (address.cc:324-462).  *)
THEOREM PrefixesExactCorrect == Spec => []PrefixesExact
<1>1. Init => Inv
  BY DEF Init, Inv, PrefixesExact, Answered
<1>2. Inv /\ [Next]_vars => Inv'
  <2> SUFFICES ASSUME Inv, [Next]_vars PROVE Inv'
    OBVIOUS
  <2> DEFINE p == request.prefix_len
  <2> USE AddressAssumption DEF Inv, Asked, Reply
  <2>1. CASE Broadcast4
    <3>1. p \in 0 .. 33
      BY <2>1 DEF Broadcast4, Requests, Request
    <3>2. p \in 1 .. 32 => Stored(Word(request.addr) \cup Swapped(WordMask(p)))
                             = BroadcastOf(request.addr, p, 3)
      BY Broadcast4Exact
    <3> HIDE DEF p
    <3>3. p \in 1 .. 32 <=> p > 0 /\ ~(p > 32)
      BY <3>1
    <3> QED
      BY <2>1, <3>2, <3>3 DEF Broadcast4, PrefixesExact, Answered, p
  <2>2. CASE Network4
    <3>1. p \in 0 .. 33
      BY <2>2 DEF Network4, Requests, Request
    <3>2. p \in 1 .. 32 => Stored(Word(request.addr)
                                    \cap Swapped(WordBits \ WordMask(p)))
                             = NetworkOf(request.addr, p, 3)
      BY Network4Exact
    <3> HIDE DEF p
    <3>3. p \in 1 .. 32 <=> p > 0 /\ ~(p > 32)
      BY <3>1
    <3> QED
      BY <2>2, <3>2, <3>3 DEF Network4, PrefixesExact, Answered, p
  <2>3. CASE Subnet4
    BY <2>3, Subnet4Exact DEF Subnet4, PrefixesExact, Answered
  <2>4. CASE Broadcast6
    <3>1. p \in 0 .. 128 /\ request.addr \in [0 .. 16 -> SUBSET Bits]
      BY <2>4 DEF Broadcast6, Requests, Request
    <3> QED
      BY <2>4, <3>1, Broadcast6Exact DEF Broadcast6, PrefixesExact, Answered
  <2>5. CASE Network6
    BY <2>5 DEF Network6, PrefixesExact, Answered
  <2>6. CASE Subnet6
    <3>1. p \in 0 .. 128
      BY <2>6 DEF Subnet6, Requests, Request
    <3> QED
      BY <2>6, <3>1, Subnet6Exact DEF Subnet6, PrefixesExact, Answered
  <2>7. CASE Lookup
    BY <2>7 DEF Lookup, PrefixesExact, Answered
  <2>8. CASE UNCHANGED vars
    BY <2>8 DEF vars, PrefixesExact, Answered
  <2> QED
    BY <2>1, <2>2, <2>3, <2>4, <2>5, <2>6, <2>7, <2>8 DEF Next
<1>3. Inv => PrefixesExact
  BY DEF Inv
<1> QED
  BY <1>1, <1>2, <1>3, PTL DEF Spec

----------------------------------------------------------------------------
(* A part of a host, character by character. *)
LEMMA PartOf ==
  ASSUME NEW h \in Seq(Characters), NEW m \in 1 .. Len(h) + 1, NEW n \in 0 .. Len(h)
  PROVE  /\ m <= n => SubSeq(h, m, n) # <<>> /\ SubSeq(h, m, n)[1] = h[m]
         /\ n < m => SubSeq(h, m, n) = <<>>
         /\ \A c : Occurs(c, SubSeq(h, m, n)) <=> \E i \in m .. n : h[i] = c
<1> DEFINE s == SubSeq(h, m, n)
<1>1. \A i \in m .. n : h[i] \in Characters
  OBVIOUS
<1>2. /\ s \in Seq(Characters)
      /\ Len(s) = IF m <= n THEN n - m + 1 ELSE 0
      /\ \A i \in 1 .. n - m + 1 : s[i] = h[m + i - 1]
  BY <1>1, SubSeqProperties
<1>3. n < m => s = <<>>
  BY SubSeqEmpty
<1>4. DOMAIN s = 1 .. Len(s) /\ Len(s) \in Nat
  BY <1>2
<1>5. m <= n => s # <<>> /\ s[1] = h[m]
  BY <1>2
<1>6. ASSUME NEW c, Occurs(c, s)
      PROVE  \E i \in m .. n : h[i] = c
  <2>1. PICK i \in 1 .. Len(s) : s[i] = c
    BY <1>4, <1>6 DEF Occurs
  <2>2. m + i - 1 \in m .. n /\ h[m + i - 1] = c
    BY <1>2, <2>1
  <2> QED
    BY <2>2
<1>7. ASSUME NEW c, NEW i \in m .. n, h[i] = c
      PROVE  Occurs(c, s)
  <2>1. i - m + 1 \in 1 .. Len(s) /\ s[i - m + 1] = c
    BY <1>2, <1>7
  <2> QED
    BY <1>4, <2>1 DEF Occurs
<1> QED
  BY <1>3, <1>5, <1>6, <1>7

(* What Lookup may answer for a host. *)
Answers(h) ==
  Bracketed(h)
    \cup {r \in Colon(h) \cup {Whole(h)} :
            Bracketed(h) = {} /\ (r \in Colon(h) \/ Colon(h) = {})}

(* A bare name has neither of the two forms. *)
LEMMA PlainAnswer ==
  ASSUME NEW h \in Seq(Characters), Plain(h), NEW r \in Answers(h)
  PROVE  r = [node |-> SubSeq(h, 1, Len(h)), service |-> None]
<1>1. Bracketed(h) = {}
  BY DEF Bracketed, Plain
<1>2. \A i \in 1 .. Len(h) : h[i] # ":"
  BY DEF Plain, Occurs
<1>3. FirstAfter(h, 0, ":") = {}
  BY <1>2 DEF FirstAfter
<1>4. Colon(h) = {}
  BY <1>3 DEF Colon
<1>5. r = Whole(h)
  BY <1>1, <1>4 DEF Answers
<1> QED
  BY <1>5, SubSeqFull DEF Whole

(* One colon behind a node that is not bracketed. *)
LEMMA ColonAnswer ==
  ASSUME NEW h \in Seq(Characters), NEW k \in 1 .. Len(h), h[k] = ":",
         Plain(SubSeq(h, 1, k - 1)), ~Occurs(":", SubSeq(h, k + 1, Len(h))),
         NEW r \in Answers(h)
  PROVE  r = [node |-> SubSeq(h, 1, k - 1), service |-> SubSeq(h, k + 1, Len(h))]
<1>1. 1 \in 1 .. Len(h) + 1 /\ k - 1 \in 0 .. Len(h)
      /\ k + 1 \in 1 .. Len(h) + 1 /\ Len(h) \in 0 .. Len(h)
  OBVIOUS
<1>2. \A i \in 1 .. k - 1 : h[i] # ":"
  BY <1>1, PartOf DEF Plain
<1>3. \A i \in k + 1 .. Len(h) : h[i] # ":"
  BY <1>1, PartOf
<1>4. k > 1 /\ h[1] # "["
  <2>1. ~(k - 1 < 1)
    BY <1>1, PartOf DEF Plain
  <2>2. SubSeq(h, 1, k - 1)[1] = h[1]
    BY <1>1, <2>1, PartOf
  <2> QED
    BY <2>1, <2>2 DEF Plain
<1>5. Bracketed(h) = {}
  BY <1>4 DEF Bracketed
<1>6. FirstAfter(h, 0, ":") = {k}
  BY <1>2, <1>3 DEF FirstAfter
<1>7. FirstAfter(h, k, ":") = {}
  BY <1>3 DEF FirstAfter
<1>8. Colon(h) = {[node |-> Before(h, k), service |-> After(h, k)]}
  BY <1>4, <1>6, <1>7 DEF Colon
<1>9. r = [node |-> Before(h, k), service |-> After(h, k)]
  BY <1>5, <1>8 DEF Answers
<1> QED
  BY <1>9 DEF Before, After

(* A node in brackets, up to the first closing one. *)
LEMMA BracketedAnswer ==
  ASSUME NEW h \in Seq(Characters), NEW k \in 1 .. Len(h), h[1] = "[", h[k] = "]",
         k > 2, ~Occurs("]", SubSeq(h, 1, k - 1)), NEW r \in Answers(h)
  PROVE  r = [node |-> SubSeq(h, 2, k - 1),
              service |-> IF k < Len(h) /\ h[k + 1] = ":"
                            THEN SubSeq(h, k + 2, Len(h)) ELSE None]
<1>1. 1 \in 1 .. Len(h) + 1 /\ k - 1 \in 0 .. Len(h)
  OBVIOUS
<1>2. \A i \in 1 .. k - 1 : h[i] # "]"
  BY <1>1, PartOf
<1>3. FirstAfter(h, 1, "]") = {k}
  BY <1>2 DEF FirstAfter
<1>4. After(h, k + 1) = SubSeq(h, k + 2, Len(h))
  <2>1. (k + 1) + 1 = k + 2
    OBVIOUS
  <2> QED
    BY <2>1 DEF After
<1> DEFINE a == [node |-> SubSeq(h, 2, k - 1),
                 service |-> IF k < Len(h) /\ h[k + 1] = ":"
                               THEN After(h, k + 1) ELSE None]
<1>5. Bracketed(h) = {a}
  BY <1>3 DEF Bracketed
<1> HIDE DEF a
<1>6. r = a
  BY <1>5 DEF Answers
<1> QED
  BY <1>4, <1>6 DEF a

LEMMA LookupAnswers ==
  ASSUME request \in Requests, Lookup
  PROVE  LookupSplits'
<1> DEFINE h == request.host
<1>1. h \in Seq(Characters)
  BY AddressAssumption DEF Lookup, Asked, Requests, Request, AddressAssumption
<1>2. PICK r \in Answers(h) : Reply(r)
  BY DEF Lookup, Answers
<1>3. result'[2] = r /\ request' = request
  BY <1>2 DEF Reply
<1>4. DOMAIN h = 1 .. Len(h)
  BY <1>1
<1>5. Plain(h) => r = [node |-> SubSeq(h, 1, Len(h)), service |-> None]
  BY <1>1, PlainAnswer
<1>6. ASSUME NEW k \in 1 .. Len(h), h[k] = ":", Plain(SubSeq(h, 1, k - 1)),
             ~Occurs(":", SubSeq(h, k + 1, Len(h)))
      PROVE  r = [node |-> SubSeq(h, 1, k - 1),
                  service |-> SubSeq(h, k + 1, Len(h))]
  BY <1>1, <1>6, ColonAnswer
<1>7. ASSUME NEW k \in 1 .. Len(h), h[1] = "[", h[k] = "]", k > 2,
             ~Occurs("]", SubSeq(h, 1, k - 1))
      PROVE  /\ k = Len(h) =>
                  r = [node |-> SubSeq(h, 2, k - 1), service |-> None]
             /\ k < Len(h) /\ h[k + 1] = ":" =>
                  r = [node |-> SubSeq(h, 2, k - 1),
                       service |-> SubSeq(h, k + 2, Len(h))]
  BY <1>1, <1>7, BracketedAnswer
<1> HIDE DEF h
<1> QED
  BY <1>3, <1>4, <1>5, <1>6, <1>7 DEF LookupSplits, h

(***************************************************************************)
(* Lookup splits hosts of any length and any characters as its comment     *)
(* says (address.cc:32-35).                                                *)
(***************************************************************************)
THEOREM LookupSplitsCorrect == Spec => []LookupSplits
<1> DEFINE LookupInv == request \in Requests /\ LookupSplits
<1>1. Init => LookupInv
  BY DEF Init, LookupSplits, Answered
<1>2. LookupInv /\ [Next]_vars => LookupInv'
  <2> SUFFICES ASSUME LookupInv, [Next]_vars PROVE LookupInv'
    OBVIOUS
  <2>1. request' = request
    BY DEF Next, vars, Broadcast4, Network4, Subnet4, Broadcast6, Network6, Subnet6,
           Lookup, Reply
  <2>2. CASE Lookup
    BY <2>1, <2>2, LookupAnswers
  <2>3. CASE result' = result
    BY <2>1, <2>3 DEF LookupSplits, Answered
  <2>4. CASE request.op # "lookup"
    BY <2>1, <2>4 DEF LookupSplits, Answered
  <2>5. Lookup \/ request.op # "lookup" \/ result' = result
    BY DEF Next, vars, Broadcast4, Network4, Subnet4, Broadcast6, Network6, Subnet6,
           Asked
  <2> QED
    BY <2>2, <2>3, <2>4, <2>5
<1> QED
  BY <1>1, <1>2, PTL DEF Spec
=============================================================================
