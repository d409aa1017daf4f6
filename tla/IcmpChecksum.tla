---------------------------- MODULE IcmpChecksum ----------------------------
(***************************************************************************)
(* The Internet checksum that ft_ping and ft_traceroute put into the       *)
(* packets they send: 16-bit words summed in a 32-bit accumulator whose    *)
(* carries are then folded in twice. The packet is kept between probes, so *)
(* the field holds the checksum of the probe before.                       *)
(*                                                                         *)
(* Words are numbers below B (2^16 in the code), the accumulator is taken  *)
(* modulo B * B. Packet lengths are even, so the odd last byte that        *)
(* checksum() allows for never occurs.                                     *)
(***************************************************************************)
EXTENDS Integers, Functions

CONSTANTS B,    \* values of a word
          N     \* words in a packet

ChecksumField == 2
SequenceField == 4

\* At most B words: 32 and 34 of at most 65536 in the two programs.
ASSUME WordsAssumption == B \in Nat /\ B >= 2 /\ N \in Nat /\ N >= SequenceField /\ N <= B

VARIABLES
    packet,     \* the words of the packet
    pc,         \* "prepare", "add", "fold" or "sent"
    next,       \* the word that buf points to
    sum,        \* the accumulator
    total       \* history: the sum as a number without a bound

vars == <<packet, pc, next, sum, total>>

Word == 0..(B - 1)

Init ==
    /\ packet \in {p \in [1..N -> Word] : p[ChecksumField] = 0 /\ p[SequenceField] = 0}
    /\ pc = "prepare" /\ next = 1 /\ sum = 0 /\ total = 0

\* Mutant: the checksum of the previous probe stays in the packet.
PrepareStale ==
    /\ pc \in {"prepare", "sent"} /\ pc' = "add"
    /\ \E s \in Word : packet' = [packet EXCEPT ![SequenceField] = s]
    /\ next' = 1 /\ sum' = 0 /\ total' = 0

\* The next probe: a new sequence number and no checksum.
Prepare ==
    /\ pc \in {"prepare", "sent"} /\ pc' = "add"
    /\ \E s \in Word : packet' = [packet EXCEPT ![SequenceField] = s, ![ChecksumField] = 0]
    /\ next' = 1 /\ sum' = 0 /\ total' = 0

Add ==
    /\ pc = "add"
    /\ sum' = (sum + packet[next]) % (B * B)
    /\ total' = total + packet[next]
    /\ next' = next + 1
    /\ pc' = IF next = N THEN "fold" ELSE "add"
    /\ UNCHANGED packet

\* Mutant: the carry of the first fold is dropped.
FoldedOnce(s) == ((s \div B) + (s % B)) % B

\* Both folds and the conversion to a 16-bit word.
Folded(s) ==
    LET first == (s \div B) + (s % B) IN (first + (first \div B)) % B

\* The complement goes into the field, and the packet leaves.
Store ==
    /\ pc = "fold" /\ pc' = "sent"
    /\ packet' = [packet EXCEPT ![ChecksumField] = B - 1 - Folded(sum)]
    /\ UNCHANGED <<next, sum, total>>

Next == Prepare \/ Add \/ Store

Spec == Init /\ [][Next]_vars

----------------------------------------------------------------------------
\* A receiver that adds up the words of any probe that was sent, with carries, finds
\* all ones: the checksum is that of this packet and not of the one before.
Verifies ==
    pc = "sent" => SumFunction(packet) % (B - 1) = 0

\* The accumulator never wraps: it holds the sum of the words added so far.
AccumulatorExact == sum = total

\* Two folds are enough: what is stored cancels the sum, no carry is lost.
ChecksumCancels ==
    pc = "sent" => /\ packet[ChecksumField] \in Word
                   /\ (total + packet[ChecksumField]) % (B - 1) = 0
=============================================================================
