--------------------------- MODULE FtPingProofs ---------------------------
(***************************************************************************)
(* Theorems about FtPing, for every set of command lines, hosts and        *)
(* round-trip times, every modulus W and every bound.                      *)
(***************************************************************************)
EXTENDS FtPing, DataLemmas, TLAPS

\* The round-trip time of an accepted answer is a number.
LEMMA ReplyTyped == ASSUME NEW r \in Replies PROVE r.rtt \in Nat
<1>1. r.rtt \in RTTs \cup {0}
  BY DEF Replies
<1>2. \A t \in RTTs \cup {0} : t \in Nat
  BY RTTsAssumption
<1>3. QED
  BY <1>1, <1>2

\* The square of a round-trip time is a number.
LEMMA SquareIsNat == ASSUME NEW m \in Nat PROVE m * m \in Nat
OBVIOUS

\* The counters that reset_run_stats stores are well typed.
LEMMA FreshTyped == Fresh \in Counters /\ [Fresh EXCEPT !.timed = TRUE] \in Counters
<1>1. Infinity \in Nat
  BY RTTsAssumption
<1>2. QED
  BY <1>1 DEF Fresh, Counters

\* A store to one field of g_stats leaves well-typed counters.
LEMMA StoreTyped ==
    ASSUME NEW s \in Counters, NEW n \in Nat
    PROVE  /\ [s EXCEPT !.transmitted = n] \in Counters
           /\ [s EXCEPT !.received = n] \in Counters
           /\ [s EXCEPT !.rtt_min = n] \in Counters
           /\ [s EXCEPT !.rtt_max = n] \in Counters
           /\ [s EXCEPT !.rtt_sum = n] \in Counters
           /\ [s EXCEPT !.rtt_sq_sum = n] \in Counters
BY DEF Counters

\* A store to a round-trip time field leaves the other counters as they are.
LEMMA StoreKeeps ==
    ASSUME NEW s \in Counters, NEW n,
           NEW t \in {[s EXCEPT !.rtt_min = n], [s EXCEPT !.rtt_max = n],
                      [s EXCEPT !.rtt_sum = n], [s EXCEPT !.rtt_sq_sum = n]}
    PROVE  /\ t.transmitted = s.transmitted
           /\ t.received = s.received
           /\ t.timed = s.timed
BY DEF Counters

\* The values that the main flow stores in g_stats are numbers.
LEMMA StoredIsNat ==
    ASSUME NEW s \in Counters, NEW r \in Replies
    PROVE  /\ s.transmitted + 1 \in Nat /\ s.received + 1 \in Nat
           /\ (IF r.rtt < s.rtt_min THEN r.rtt ELSE s.rtt_min) \in Nat
           /\ (IF r.rtt > s.rtt_max THEN r.rtt ELSE s.rtt_max) \in Nat
           /\ s.rtt_sum + r.rtt \in Nat
           /\ s.rtt_sq_sum + r.rtt * r.rtt \in Nat
<1>1. r.rtt \in Nat
  BY ReplyTyped
<1>2. r.rtt * r.rtt \in Nat
  BY <1>1, SquareIsNat
<1>3. /\ s.transmitted \in Nat /\ s.received \in Nat /\ s.rtt_min \in Nat
      /\ s.rtt_max \in Nat /\ s.rtt_sum \in Nat /\ s.rtt_sq_sum \in Nat
  BY DEF Counters
<1>4. s.rtt_sq_sum + r.rtt * r.rtt \in Nat
  BY <1>2, <1>3
<1>5. QED
  BY <1>1, <1>3, <1>4

\* Whatever the network, the user and the scheduler do, every variable keeps its type.
THEOREM TypeCorrect == Spec => []TypeOK
<1> USE BoundsAssumption, RTTsAssumption, HostsAssumption, ArgvsAssumption
<1>1. Init => TypeOK
  <2> SUFFICES ASSUME Init PROVE TypeOK
    OBVIOUS
  <2>1. stats \in Counters /\ reply \in Replies
    BY FreshTyped DEF Init, NoReply, Replies
  <2>2. counted \in Seq(Counted)
    BY DEF Init
  <2>3. /\ sequence \in 0..(W - 1)
        /\ wire \subseteq [seq : 0..(W - 1), req : Nat]
    BY DEF Init
  <2>4. QED
    BY <2>1, <2>2, <2>3 DEF Init, TypeOK, Labels, Final
<1>2. ASSUME TypeOK, [Next]_vars PROVE TypeOK'
  <2>0. /\ stats.transmitted + 1 \in Nat /\ stats.received + 1 \in Nat
        /\ (IF reply.rtt < stats.rtt_min THEN reply.rtt ELSE stats.rtt_min) \in Nat
        /\ (IF reply.rtt > stats.rtt_max THEN reply.rtt ELSE stats.rtt_max) \in Nat
        /\ stats.rtt_sum + reply.rtt \in Nat
        /\ stats.rtt_sq_sum + reply.rtt * reply.rtt \in Nat
    <3>1. stats \in Counters /\ reply \in Replies
      BY <1>2 DEF TypeOK
    <3>2. QED
      BY <3>1, StoredIsNat
  <2> USE <1>2 DEF TypeOK, Labels, Final, Goto
  <2>1. CASE InstallHandler
    BY <2>1 DEF InstallHandler, cmdline, names, recvd, output
  <2>2. CASE ParseArgs
    BY <2>2 DEF ParseArgs, sigs, names, recvd, output, Destinations
  <2>3. CASE QueryDns
    BY <2>3 DEF QueryDns, sigs, names, recvd, output
  <2>4. CASE CompareDestination
    BY <2>4 DEF CompareDestination, cmdline, sigs, recvd, output
  <2>5. CASE CreateSocket
    BY <2>5 DEF CreateSocket, rest, cmdline, sigs, names, recvd, output
  <2>6. CASE ResetRunning
    BY <2>6 DEF ResetRunning, cmdline, sigs, names, recvd, output
  <2>7. CASE ResetStats
    BY <2>7, FreshTyped DEF ResetStats, cmdline, sigs, recvd, output
  <2>8. CASE LoopTest
    BY <2>8 DEF LoopTest, rest, cmdline, sigs, names, recvd, output
  <2>9. CASE CountTransmitted
    <3>1. stats' \in Counters
      BY <2>0, <2>9, StoreTyped DEF CountTransmitted
    <3>2. QED
      BY <2>9, <3>1 DEF CountTransmitted, cmdline, sigs, names, recvd, output
  <2>10. CASE SendTo
    BY <2>10, SMTT(30) DEF SendTo, cmdline, sigs, names, recvd, output, Counters
  <2>11. CASE WaitTest
    BY <2>11 DEF WaitTest, cmdline, sigs, names, output
  <2>12. CASE Accept
    BY <2>12 DEF Accept, cmdline, sigs, names, output, Replies
  <2>13. CASE Discard
    BY <2>13 DEF Discard, rest, cmdline, sigs, names, recvd, output
  <2>14. CASE TimeOut
    BY <2>14 DEF TimeOut, cmdline, sigs, names, output
  <2>15. CASE AfterWait
    BY <2>15 DEF AfterWait, rest, cmdline, sigs, names, recvd, output
  <2>16. CASE CountReceived
    <3>1. stats' \in Counters
      BY <2>0, <2>16, StoreTyped DEF CountReceived
    <3>2. counted' \in Seq(Counted)
      BY <2>16 DEF CountReceived, Counters, Counted, Replies
    <3>3. QED
      BY <2>16, <3>1, <3>2 DEF CountReceived, cmdline, sigs, names, recvd, output
  <2>17. CASE UpdateRttMin
    <3>1. stats' \in Counters
      BY <2>0, <2>17, StoreTyped DEF UpdateRttMin
    <3>2. QED
      BY <2>17, <3>1 DEF UpdateRttMin, cmdline, sigs, names, recvd, output
  <2>18. CASE UpdateRttMax
    <3>1. stats' \in Counters
      BY <2>0, <2>18, StoreTyped DEF UpdateRttMax
    <3>2. QED
      BY <2>18, <3>1 DEF UpdateRttMax, cmdline, sigs, names, recvd, output
  <2>19. CASE UpdateRttSum
    <3>1. stats' \in Counters
      BY <2>0, <2>19, StoreTyped DEF UpdateRttSum
    <3>2. QED
      BY <2>19, <3>1 DEF UpdateRttSum, cmdline, sigs, names, recvd, output
  <2>20. CASE UpdateRttSqSum
    <3>1. stats' \in Counters
      BY <2>0, <2>20, StoreTyped DEF UpdateRttSqSum
    <3>2. QED
      BY <2>20, <3>1 DEF UpdateRttSqSum, cmdline, sigs, names, recvd, output
  <2>21. CASE GetCacheHostname
    BY <2>21 DEF GetCacheHostname, cmdline, sigs, names, recvd, output, Replies
  <2>22. CASE PrintReply
    BY <2>22 DEF PrintReply, cmdline, sigs, names, recvd, Replies
  <2>23. CASE Sleep
    BY <2>23 DEF Sleep, rest, cmdline, sigs, names, recvd, output
  <2>24. CASE Close
    BY <2>24 DEF Close, rest, cmdline, sigs, names, recvd, output
  <2>25. CASE Sigint
    <3>1. pc' \in Labels /\ disp' \in {"default", "handler"} /\ handler' \in {"idle", "active"}
      BY <2>25 DEF Sigint
    <3>2. UNCHANGED <<cmdline, running, stats, names, sequence, recvd, wire, counted, output>>
      BY <2>25 DEF Sigint
    <3> HIDE DEF Labels, Final, Goto
    <3>3. QED
      BY <3>1, <3>2 DEF cmdline, names, recvd, output
  <2>26. CASE HandleSigint
    <3>1. summaries' \subseteq Counters /\ running' \in BOOLEAN /\ handler' \in {"idle", "active"}
      BY <2>26 DEF HandleSigint
    <3>2. UNCHANGED <<pc, cmdline, disp, stats, names, sequence, recvd, wire, counted, lines>>
      BY <2>26 DEF HandleSigint
    <3> HIDE DEF Labels, Final, Goto
    <3>3. QED
      BY <3>1, <3>2 DEF cmdline, names, recvd
  <2>27. CASE UNCHANGED vars
    BY <2>27 DEF vars, rest, cmdline, sigs, names, recvd, output
  <2> HIDE DEF TypeOK, Labels, Final, Goto
  <2>28. QED
    BY <1>2, <2>1, <2>2, <2>3, <2>4, <2>5, <2>6, <2>7, <2>8, <2>9, <2>10, <2>11, <2>12, <2>13,
       <2>14, <2>15, <2>16, <2>17, <2>18, <2>19, <2>20, <2>21, <2>22, <2>23, <2>24, <2>25,
       <2>26, <2>27 DEF Next, Main, Terminated
<1>3. QED
  BY <1>1, <1>2, PTL DEF Spec

----------------------------------------------------------------------------
(* Counting. The strengthening follows a probe from the counter to the answer:   *)
(* what is on the wire carries the number of the probe that sent it, an accepted *)
(* answer carries the current sequence number, and until it is counted no reply  *)
(* has been credited to the current probe.                                       *)

Early == {"signal", "parse_args", "query_dns", "strcmp", "socket", "reset_running", "reset"}
Awaiting == {"sendto", "wait", "recvfrom", "waited", "received"}

SequenceInv ==
    /\ sequence = stats.transmitted % W
    /\ pc \in Early => /\ stats.transmitted = 0 /\ stats.received = 0
                       /\ wire = {} /\ counted = <<>>

WireInv == \A p \in wire : p.req \in 1..stats.transmitted /\ p.seq = p.req % W

ReplyInv ==
    (pc = "waited" /\ got) \/ pc = "received" =>
        reply.req \in 1..stats.transmitted /\ reply.req % W = sequence

CreditInv ==
    \A i \in 1..Len(counted) :
        /\ counted[i].at <= stats.transmitted
        /\ pc \in Awaiting => counted[i].at < stats.transmitted

ReceivedInv ==
    /\ stats.received <= stats.transmitted
    /\ pc \in Awaiting => stats.received < stats.transmitted
    /\ \A s \in summaries : s.received <= s.transmitted

CountInv ==
    /\ SequenceInv /\ WireInv /\ ReplyInv /\ CreditInv /\ ReceivedInv
    /\ AnswerBelongsToProbe /\ ProbeCountedOnce

(* Stopping. Before the handler runs there is no summary; after it has run inside *)
(* the loop, running stays FALSE, so the flow cannot enter another iteration.     *)

StopInv ==
    /\ disp = "handler" => summaries = {} /\ handler = "idle"
    /\ handler = "active" \/ pc = "signal" => summaries = {}
    /\ pc = "signal" => handler = "idle" /\ disp = "default"
    /\ pc \in Early => ~stats.timed
    /\ \A s \in summaries :
        s.timed =>
            /\ ~running /\ pc \notin Early
            /\ LET late == (stats.transmitted - s.transmitted) + (stats.received - s.received)
               IN  /\ late <= 1
                   /\ pc \in {"transmit", "received"} => late <= 0


\* Incrementing the 16-bit sequence keeps it the probe number modulo W.
LEMMA ModSuccessor ==
    ASSUME NEW w \in Nat \ {0}, NEW n \in Nat
    PROVE  ((n % w) + 1) % w = (n + 1) % w
<1> DEFINE q == n \div w
           r == n % w
<1>1. q \in Nat /\ r \in 0..(w - 1) /\ n = w * q + r
  BY DivMod
<1> HIDE DEF q, r
<1>2. CASE r + 1 < w
  <2>1. n + 1 = w * q + (r + 1) /\ r + 1 \in 0..(w - 1)
    BY <1>1, <1>2
  <2>2. (n + 1) % w = r + 1
    BY <1>1, <2>1, ModOfSum
  <2>3. (r + 1) % w = r + 1
    BY <1>1, <1>2
  <2>4. QED
    BY <2>2, <2>3 DEF r
<1>3. CASE r + 1 = w
  <2>1. n + 1 = w * (q + 1) + 0 /\ 0 \in 0..(w - 1) /\ q + 1 \in Nat
    BY <1>1, <1>3
  <2>2. (n + 1) % w = 0
    BY <2>1, ModOfSum
  <2>3. (r + 1) % w = 0
    BY <1>1, <1>3
  <2>4. QED
    BY <2>2, <2>3 DEF r
<1>4. QED
  BY <1>1, <1>2, <1>3

\* Every counted reply is credited to a numbered probe.
LEMMA CountedTyped ==
    ASSUME counted \in Seq(Counted)
    PROVE  \A i \in 1..Len(counted) : counted[i].at \in Nat
<1>1. \A i \in 1..Len(counted) : counted[i] \in Counted
  OBVIOUS
<1>2. QED
  BY <1>1 DEF Counted

\* Reply accounting is sound: see CountInv.
LEMMA CountInvariant == Spec => []CountInv
<1>1. Init => CountInv
  BY BoundsAssumption DEF Init, Fresh, CountInv, SequenceInv, WireInv, ReplyInv, CreditInv,
     ReceivedInv, AnswerBelongsToProbe, ProbeCountedOnce, Awaiting
<1>2. ASSUME TypeOK, CountInv, [Next]_vars PROVE CountInv'
  <2> USE <1>2 DEF CountInv, Goto
  <2> USE DEF SequenceInv, WireInv, ReplyInv, CreditInv, ReceivedInv, AnswerBelongsToProbe,
              ProbeCountedOnce, Early, Awaiting
  <2>0. /\ stats.transmitted \in Nat /\ stats.received \in Nat
        /\ \A f \in {"transmitted", "received"} : f \in DOMAIN stats
        /\ counted \in Seq(Counted)
    BY DEF TypeOK, Counters
  <2>1. CASE InstallHandler
    BY <2>1, <2>0 DEF InstallHandler, cmdline, names, recvd, output
  <2>2. CASE ParseArgs
    BY <2>2, <2>0 DEF ParseArgs, sigs, names, recvd, output
  <2>3. CASE QueryDns
    BY <2>3, <2>0 DEF QueryDns, sigs, names, recvd, output
  <2>4. CASE CompareDestination
    BY <2>4, <2>0 DEF CompareDestination, cmdline, sigs, recvd, output
  <2>5. CASE CreateSocket
    BY <2>5, <2>0 DEF CreateSocket, rest, cmdline, sigs, names, recvd, output
  <2>6. CASE ResetRunning
    BY <2>6, <2>0 DEF ResetRunning, cmdline, sigs, names, recvd, output
  <2>7. CASE ResetStats
    BY <2>7, <2>0 DEF ResetStats, Fresh, cmdline, sigs, recvd, output
  <2>8. CASE LoopTest
    BY <2>8, <2>0 DEF LoopTest, rest, cmdline, sigs, names, recvd, output
  <2>9. CASE CountTransmitted
    <3>1. /\ stats'.transmitted = stats.transmitted + 1
          /\ stats'.received = stats.received
      BY <2>9, <2>0 DEF CountTransmitted
    <3>2. sequence' = stats'.transmitted % W
      BY <2>9, <2>0, <3>1, ModSuccessor, BoundsAssumption DEF CountTransmitted
    <3>3. UNCHANGED <<wire, counted, summaries>> /\ pc' = "sendto"
      BY <2>9 DEF CountTransmitted, output
    <3>4. SequenceInv' /\ ReplyInv'
      BY <3>2, <3>3
    <3>5. WireInv'
      BY <2>0, <3>1, <3>3
    <3>6. ReceivedInv'
      BY <2>0, <3>1, <3>3
    <3>7. CreditInv'
      BY <2>0, <3>1, <3>3, CountedTyped
    <3>8. AnswerBelongsToProbe' /\ ProbeCountedOnce'
      BY <3>3
    <3>9. QED
      BY <3>4, <3>5, <3>6, <3>7, <3>8
  <2>10. CASE SendTo
    BY <2>10, <2>0 DEF SendTo, cmdline, sigs, names, recvd, output
  <2>11. CASE WaitTest
    BY <2>11, <2>0 DEF WaitTest, cmdline, sigs, names, output
  <2>12. CASE Accept
    BY <2>12, <2>0 DEF Accept, cmdline, sigs, names, output
  <2>13. CASE Discard
    BY <2>13, <2>0 DEF Discard, rest, cmdline, sigs, names, recvd, output
  <2>14. CASE TimeOut
    BY <2>14, <2>0 DEF TimeOut, cmdline, sigs, names, output
  <2>15. CASE AfterWait
    BY <2>15, <2>0 DEF AfterWait, rest, cmdline, sigs, names, recvd, output
  <2>16. CASE CountReceived
    BY <2>16, <2>0 DEF CountReceived, Counters, cmdline, sigs, names, recvd, output
  <2>17. CASE UpdateRttMin
    BY <2>17, <2>0 DEF UpdateRttMin, Counters, cmdline, sigs, names, recvd, output
  <2>18. CASE UpdateRttMax
    BY <2>18, <2>0 DEF UpdateRttMax, Counters, cmdline, sigs, names, recvd, output
  <2>19. CASE UpdateRttSum
    BY <2>19, <2>0 DEF UpdateRttSum, Counters, cmdline, sigs, names, recvd, output
  <2>20. CASE UpdateRttSqSum
    BY <2>20, <2>0 DEF UpdateRttSqSum, Counters, cmdline, sigs, names, recvd, output
  <2>21. CASE GetCacheHostname
    BY <2>21, <2>0 DEF GetCacheHostname, cmdline, sigs, recvd, output
  <2>22. CASE PrintReply
    BY <2>22, <2>0 DEF PrintReply, cmdline, sigs, names, recvd
  <2>23. CASE Sleep
    BY <2>23, <2>0 DEF Sleep, rest, cmdline, sigs, names, recvd, output
  <2>24. CASE Close
    BY <2>24, <2>0 DEF Close, rest, cmdline, sigs, names, recvd, output
  <2>25. CASE Sigint
    BY <2>25, <2>0 DEF Sigint, Final, cmdline, names, recvd, output
  <2>26. CASE HandleSigint
    BY <2>26, <2>0 DEF HandleSigint, cmdline, names, recvd
  <2>27. CASE UNCHANGED vars
    BY <2>27 DEF vars, rest, cmdline, sigs, names, recvd, output
  <2>28. QED
    BY <2>1, <2>2, <2>3, <2>4, <2>5, <2>6, <2>7, <2>8, <2>9, <2>10, <2>11, <2>12, <2>13, <2>14, <2>15, <2>16, <2>17, <2>18, <2>19, <2>20, <2>21, <2>22, <2>23, <2>24, <2>25, <2>26, <2>27 DEF Next, Main, Terminated
<1>3. QED
  BY <1>1, <1>2, TypeCorrect, PTL DEF Spec

\* The loss formula never subtracts more replies than probes: CountersOrdered, always.
THEOREM CountersStayOrdered == Spec => []CountersOrdered
<1>1. CountInv => CountersOrdered
  BY DEF CountInv, ReceivedInv, CountersOrdered
<1>2. QED
  BY <1>1, CountInvariant, PTL

\* Stale and duplicated answers are never credited to another probe, for every modulus.
THEOREM AnswersBelong == Spec => []AnswerBelongsToProbe
<1>1. CountInv => AnswerBelongsToProbe
  BY DEF CountInv
<1>2. QED
  BY <1>1, CountInvariant, PTL

\* No probe is counted twice, however often its answer arrives.
THEOREM ProbesCountOnce == Spec => []ProbeCountedOnce
<1>1. CountInv => ProbeCountedOnce
  BY DEF CountInv
<1>2. QED
  BY <1>1, CountInvariant, PTL

\* After the handler has run, the loop cannot start another iteration: see StopInv.
LEMMA StopInvariant == Spec => []StopInv
<1>1. Init => StopInv
  BY DEF Init, Fresh, StopInv
<1>2. ASSUME TypeOK, StopInv, [Next]_vars PROVE StopInv'
  <2> USE <1>2 DEF StopInv, Goto, Early
  <2>0. /\ stats \in Counters /\ summaries \subseteq Counters
        /\ running \in BOOLEAN /\ stats.timed \in BOOLEAN
        /\ stats.transmitted \in Nat /\ stats.received \in Nat
        /\ \A s \in summaries : s.transmitted \in Nat /\ s.received \in Nat
    BY DEF TypeOK, Counters
  <2>1. CASE InstallHandler
    BY <2>1, <2>0 DEF InstallHandler, cmdline, names, recvd, output
  <2>2. CASE ParseArgs
    BY <2>2, <2>0 DEF ParseArgs, sigs, names, recvd, output
  <2>3. CASE QueryDns
    BY <2>3, <2>0 DEF QueryDns, sigs, names, recvd, output
  <2>4. CASE CompareDestination
    BY <2>4, <2>0 DEF CompareDestination, cmdline, sigs, recvd, output
  <2>5. CASE CreateSocket
    BY <2>5, <2>0 DEF CreateSocket, rest, cmdline, sigs, names, recvd, output
  <2>6. CASE ResetRunning
    BY <2>6, <2>0 DEF ResetRunning, cmdline, sigs, names, recvd, output
  <2>7. CASE ResetStats
    BY <2>7, <2>0 DEF ResetStats, Counters, Fresh, cmdline, sigs, recvd, output
  <2>8. CASE LoopTest
    BY <2>8, <2>0 DEF LoopTest, rest, cmdline, sigs, names, recvd, output
  <2>9. CASE CountTransmitted
    <3>1. /\ stats'.transmitted = stats.transmitted + 1
          /\ stats'.received = stats.received
          /\ stats'.timed = stats.timed
      BY <2>0, <2>9 DEF CountTransmitted, Counters
    <3>2. /\ pc = "transmit" /\ pc' \notin {"transmit", "received", "signal"} /\ pc' \notin Early
          /\ UNCHANGED <<disp, handler, running, summaries>>
      BY <2>9 DEF CountTransmitted, sigs, output
    <3>3. QED
      BY <2>0, <3>1, <3>2
  <2>10. CASE SendTo
    BY <2>10, <2>0 DEF SendTo, cmdline, sigs, names, recvd, output
  <2>11. CASE WaitTest
    BY <2>11, <2>0 DEF WaitTest, cmdline, sigs, names, output
  <2>12. CASE Accept
    BY <2>12, <2>0 DEF Accept, cmdline, sigs, names, output
  <2>13. CASE Discard
    BY <2>13, <2>0 DEF Discard, rest, cmdline, sigs, names, recvd, output
  <2>14. CASE TimeOut
    BY <2>14, <2>0 DEF TimeOut, cmdline, sigs, names, output
  <2>15. CASE AfterWait
    BY <2>15, <2>0 DEF AfterWait, rest, cmdline, sigs, names, recvd, output
  <2>16. CASE CountReceived
    <3>1. /\ stats'.received = stats.received + 1
          /\ stats'.transmitted = stats.transmitted
          /\ stats'.timed = stats.timed
      BY <2>0, <2>16 DEF CountReceived, Counters
    <3>2. /\ pc = "received" /\ pc' \notin {"transmit", "received", "signal"} /\ pc' \notin Early
          /\ UNCHANGED <<disp, handler, running, summaries>>
      BY <2>16 DEF CountReceived, sigs, output
    <3>3. QED
      BY <2>0, <3>1, <3>2
  <2>17. CASE UpdateRttMin
    <3>1. /\ stats'.transmitted = stats.transmitted
          /\ stats'.received = stats.received
          /\ stats'.timed = stats.timed
      BY <2>0, <2>17, StoreKeeps DEF UpdateRttMin
    <3>2. QED
      BY <2>17, <2>0, <3>1 DEF UpdateRttMin, cmdline, sigs, names, recvd, output
  <2>18. CASE UpdateRttMax
    <3>1. /\ stats'.transmitted = stats.transmitted
          /\ stats'.received = stats.received
          /\ stats'.timed = stats.timed
      BY <2>0, <2>18, StoreKeeps DEF UpdateRttMax
    <3>2. QED
      BY <2>18, <2>0, <3>1 DEF UpdateRttMax, cmdline, sigs, names, recvd, output
  <2>19. CASE UpdateRttSum
    <3>1. /\ stats'.transmitted = stats.transmitted
          /\ stats'.received = stats.received
          /\ stats'.timed = stats.timed
      BY <2>0, <2>19, StoreKeeps DEF UpdateRttSum
    <3>2. QED
      BY <2>19, <2>0, <3>1 DEF UpdateRttSum, cmdline, sigs, names, recvd, output
  <2>20. CASE UpdateRttSqSum
    <3>1. /\ stats'.transmitted = stats.transmitted
          /\ stats'.received = stats.received
          /\ stats'.timed = stats.timed
      BY <2>0, <2>20, StoreKeeps DEF UpdateRttSqSum
    <3>2. QED
      BY <2>20, <2>0, <3>1 DEF UpdateRttSqSum, cmdline, sigs, names, recvd, output
  <2>21. CASE GetCacheHostname
    BY <2>21, <2>0 DEF GetCacheHostname, cmdline, sigs, recvd, output
  <2>22. CASE PrintReply
    BY <2>22, <2>0 DEF PrintReply, cmdline, sigs, names, recvd
  <2>23. CASE Sleep
    BY <2>23, <2>0 DEF Sleep, rest, cmdline, sigs, names, recvd, output
  <2>24. CASE Close
    BY <2>24, <2>0 DEF Close, rest, cmdline, sigs, names, recvd, output
  <2>25. CASE Sigint
    <3>1. UNCHANGED <<stats, summaries, running>>
      BY <2>25 DEF Sigint, output
    <3>2. CASE disp = "handler"
      BY <2>25, <3>1, <3>2 DEF Sigint
    <3>3. CASE disp = "default"
      BY <2>25, <3>1, <3>3 DEF Sigint
    <3>4. QED
      BY <3>2, <3>3 DEF TypeOK
  <2>26. CASE HandleSigint
    BY <2>26, <2>0 DEF HandleSigint, cmdline, names, recvd
  <2>27. CASE UNCHANGED vars
    BY <2>27 DEF vars, rest, cmdline, sigs, names, recvd, output
  <2>28. QED
    BY <2>1, <2>2, <2>3, <2>4, <2>5, <2>6, <2>7, <2>8, <2>9, <2>10, <2>11, <2>12, <2>13, <2>14, <2>15, <2>16, <2>17, <2>18, <2>19, <2>20, <2>21, <2>22, <2>23, <2>24, <2>25, <2>26, <2>27 DEF Next, Main, Terminated
<1>3. QED
  BY <1>1, <1>2, TypeCorrect, PTL DEF Spec

\* A stop accepted inside the loop is honoured within one iteration, always.
THEOREM StopIsBounded == Spec => []StopBounds
<1>1. StopInv => StopBounds
  BY DEF StopInv, StopBounds
<1>2. QED
  BY <1>1, StopInvariant, PTL

----------------------------------------------------------------------------
(* Round-trip times. update_rtt stores four fields one after the other, so between the *)
(* count of a reply and the last store some fields are those of the reply before.      *)

MinLags == {"rtt_min"}
MaxLags == MinLags \cup {"rtt_max"}
SumLags == MaxLags \cup {"rtt_sum"}
SqSumLags == SumLags \cup {"rtt_sq_sum"}

(* The number of replies that a field accounts for which is behind at those labels. *)
Seen(lags) == IF pc \in lags THEN Len(counted) - 1 ELSE Len(counted)

FieldsInv ==
    /\ stats.rtt_min = Measured(counted, Seen(MinLags)).rtt_min
    /\ stats.rtt_max = Measured(counted, Seen(MaxLags)).rtt_max
    /\ stats.rtt_sum = Measured(counted, Seen(SumLags)).rtt_sum
    /\ stats.rtt_sq_sum = Measured(counted, Seen(SqSumLags)).rtt_sq_sum

LagInv ==
    /\ stats.received = Len(counted)
    /\ pc \in SqSumLags => Len(counted) > 0 /\ counted[Len(counted)].rtt = reply.rtt
    /\ pc # "killed" => FieldsInv
    /\ pc = "killed" => handler = "idle"
    /\ \A s \in summaries : s.received <= Len(counted)
    /\ SummaryLagsByOne

\* Before the first reply the fields are those that reset_run_stats stores.
LEMMA MeasuredNone ==
    ASSUME NEW c
    PROVE  Measured(c, 0) = [rtt_min |-> Infinity, rtt_max |-> 0, rtt_sum |-> 0, rtt_sq_sum |-> 0]
<1> DEFINE rtt == [i \in 1..0 |-> c[i].rtt]
           rtt_sq == [i \in 1..0 |-> rtt[i] * rtt[i]]
<1>1. DOMAIN rtt = {} /\ DOMAIN rtt_sq = {} /\ Range(rtt) = {}
  BY DEF Range
<1>2. Infinity \in Int
  BY RTTsAssumption
<1>3. /\ Measured(c, 0).rtt_min = Min({Infinity} \cup Range(rtt))
      /\ Measured(c, 0).rtt_max = Max({0} \cup Range(rtt))
  BY DEF Measured
<1>4. Min({Infinity}) = Infinity /\ Max({0}) = 0
  BY <1>2 DEF Min, Max
<1>5. {Infinity} \cup Range(rtt) = {Infinity} /\ {0} \cup Range(rtt) = {0}
  BY <1>1
<1> HIDE DEF rtt, rtt_sq
<1>6. SumFunction(rtt) = 0 /\ SumFunction(rtt_sq) = 0
  BY <1>1, SumEmpty DEF SumFunction
<1>7. Min({Infinity} \cup Range(rtt)) = Infinity /\ Max({0} \cup Range(rtt)) = 0
  BY <1>4, <1>5, Zenon
<1>8. QED
  BY <1>6, <1>7 DEF Measured, rtt, rtt_sq

\* One more reply changes the fields as update_rtt does.
LEMMA MeasuredNext ==
    ASSUME NEW c \in Seq(Counted), NEW n \in Nat, n < Len(c)
    PROVE  LET old == Measured(c, n)
               new == Measured(c, n + 1)
               r == c[n + 1].rtt
           IN  /\ new.rtt_min = IF r < old.rtt_min THEN r ELSE old.rtt_min
               /\ new.rtt_max = IF r > old.rtt_max THEN r ELSE old.rtt_max
               /\ new.rtt_sum = old.rtt_sum + r
               /\ new.rtt_sq_sum = old.rtt_sq_sum + r * r
<1> DEFINE f == [i \in 1..n |-> c[i].rtt]
           h == [i \in 1..(n + 1) |-> c[i].rtt]
           f2 == [i \in 1..n |-> f[i] * f[i]]
           h2 == [i \in 1..(n + 1) |-> h[i] * h[i]]
           r == c[n + 1].rtt
<1>1. \A i \in 1..(n + 1) : c[i].rtt \in Nat
  <2>1. \A i \in 1..(n + 1) : c[i] \in Counted
    OBVIOUS
  <2>2. \A i \in 1..(n + 1) : c[i].rtt \in RTTs \cup {0}
    BY <2>1 DEF Counted
  <2>3. \A t \in RTTs \cup {0} : t \in Nat
    BY RTTsAssumption
  <2>4. QED
    BY <2>2, <2>3
<1>2. /\ Measured(c, n) = [rtt_min |-> Min({Infinity} \cup Range(f)),
                           rtt_max |-> Max({0} \cup Range(f)),
                           rtt_sum |-> SumFunction(f), rtt_sq_sum |-> SumFunction(f2)]
      /\ Measured(c, n + 1) = [rtt_min |-> Min({Infinity} \cup Range(h)),
                               rtt_max |-> Max({0} \cup Range(h)),
                               rtt_sum |-> SumFunction(h), rtt_sq_sum |-> SumFunction(h2)]
  BY DEF Measured
<1>3. /\ DOMAIN f = 1..n /\ DOMAIN h = 1..(n + 1) /\ h[n + 1] = r
      /\ \A i \in 1..n : h[i] = f[i]
      /\ \A i \in 1..(n + 1) : h[i] \in Int
  BY <1>1
<1>4. SumFunction(h) = SumFunction(f) + r
  <2> HIDE DEF f, h, r
  <2> QED
    BY <1>3, SumFunctionNext
<1>5. SumFunction(h2) = SumFunction(f2) + r * r
  <2>1. /\ DOMAIN f2 = 1..n /\ DOMAIN h2 = 1..(n + 1) /\ h2[n + 1] = r * r
        /\ \A i \in 1..n : h2[i] = f2[i]
        /\ \A i \in 1..(n + 1) : h2[i] \in Int
    BY <1>1
  <2> HIDE DEF f2, h2, r
  <2>2. QED
    BY <2>1, SumFunctionNext
<1>6. Range(h) = Range(f) \cup {r} /\ Range(f) \subseteq Int /\ r \in Int
  <2>1. \A i \in 1..n : i \in 1..(n + 1) /\ f[i] = h[i]
    BY <1>3
  <2>2. \A i \in 1..(n + 1) : i = n + 1 \/ i \in 1..n
    OBVIOUS
  <2>3. Range(h) = {h[i] : i \in 1..(n + 1)} /\ Range(f) = {f[i] : i \in 1..n}
    BY <1>3 DEF Range
  <2>4. r \in Int /\ n + 1 \in 1..(n + 1)
    BY <1>1
  <2> HIDE DEF f, h, r
  <2>5. QED
    BY <1>3, <2>1, <2>2, <2>3, <2>4
<1>7. IsFiniteSet(Range(f))
  <2>1. f \in Surjection(1..n, Range(f))
    BY DEF Surjection, Range
  <2>2. IsFiniteSet(1..n)
    BY FS_Interval
  <2>3. QED
    BY <2>1, <2>2, FS_Surjection
<1> HIDE DEF f, h, f2, h2, r
<1>8. \A a \in Int : /\ {a} \cup Range(f) \in SUBSET Int /\ IsFiniteSet({a} \cup Range(f))
                     /\ {a} \cup Range(f) # {}
                     /\ {a} \cup Range(h) = ({a} \cup Range(f)) \cup {r}
  <2>1. \A a \in Int : {a} \cup Range(f) = Range(f) \cup {a}
    OBVIOUS
  <2>2. QED
    BY <1>6, <1>7, <2>1, FS_AddElement
<1>9. Min({Infinity} \cup Range(h)) =
          IF r < Min({Infinity} \cup Range(f)) THEN r ELSE Min({Infinity} \cup Range(f))
  <2> DEFINE S == {Infinity} \cup Range(f)
             T == {Infinity} \cup Range(h)
  <2>1. S \in SUBSET Int /\ IsFiniteSet(S) /\ S # {} /\ T = S \cup {r}
    <3>1. Infinity \in Int
      BY RTTsAssumption
    <3>2. QED
      BY <1>8, <3>1, Zenon
  <2> HIDE DEF S, T
  <2>2. Min(S \cup {r}) = IF r < Min(S) THEN r ELSE Min(S)
    BY <1>6, <2>1, BoundsAdd
  <2>3. Min(T) = Min(S \cup {r})
    BY <2>1, Zenon
  <2>4. QED
    BY <2>2, <2>3 DEF S, T
<1>10. Max({0} \cup Range(h)) =
          IF r > Max({0} \cup Range(f)) THEN r ELSE Max({0} \cup Range(f))
  <2> DEFINE S == {0} \cup Range(f)
             T == {0} \cup Range(h)
  <2>1. S \in SUBSET Int /\ IsFiniteSet(S) /\ S # {} /\ T = S \cup {r}
    <3>1. 0 \in Int
      OBVIOUS
    <3>2. QED
      BY <1>8, <3>1, Zenon
  <2> HIDE DEF S, T
  <2>2. Max(S \cup {r}) = IF r > Max(S) THEN r ELSE Max(S)
    BY <1>6, <2>1, BoundsAdd
  <2>3. Max(T) = Max(S \cup {r})
    BY <2>1, Zenon
  <2>4. QED
    BY <2>2, <2>3 DEF S, T
<1>11. QED
  BY <1>2, <1>4, <1>5, <1>9, <1>10 DEF r

\* A later reply does not change what the replies before it measured.
LEMMA MeasuredKept ==
    ASSUME NEW c \in Seq(Counted), NEW x \in Counted, NEW n \in Nat, n <= Len(c)
    PROVE  Measured(Append(c, x), n) = Measured(c, n)
<1>1. \A i \in 1..n : Append(c, x)[i] = c[i]
  OBVIOUS
<1>2. [i \in 1..n |-> Append(c, x)[i].rtt] = [i \in 1..n |-> c[i].rtt]
  BY <1>1
<1>3. QED
  BY <1>2, Zenon DEF Measured

\* Steps outside update_rtt that leave the counters and the summaries alone.
LEMMA QuietStepKeepsLag ==
    ASSUME LagInv, UNCHANGED <<stats, counted, summaries>>, handler = "idle",
           handler' = "idle", pc \notin SqSumLags, pc' \notin SqSumLags, pc # "killed"
    PROVE  LagInv'
<1>1. \A lags \in {MinLags, MaxLags, SumLags, SqSumLags} :
          pc \notin lags /\ pc' \notin lags
  BY DEF MinLags, MaxLags, SumLags, SqSumLags
<1>2. FieldsInv'
  BY <1>1 DEF LagInv, FieldsInv, Seen
<1>3. QED
  BY <1>2 DEF LagInv, SummaryLagsByOne

\* A step of update_rtt takes the last counted reply into one more field.
LEMMA UpdateKeepsLag ==
    ASSUME TypeOK, LagInv, UpdateRttMin \/ UpdateRttMax \/ UpdateRttSum \/ UpdateRttSqSum
    PROVE  LagInv'
<1> USE DEF MinLags, MaxLags, SumLags, SqSumLags
<1> DEFINE n == Len(counted) - 1
           old == Measured(counted, n)
           new == Measured(counted, n + 1)
<1>1. /\ stats \in Counters /\ counted \in Seq(Counted)
      /\ pc \in SqSumLags /\ pc # "killed" /\ pc' # "killed" /\ handler' = handler
      /\ UNCHANGED <<counted, summaries, reply>>
  BY DEF TypeOK, UpdateRttMin, UpdateRttMax, UpdateRttSum, UpdateRttSqSum, Goto, sigs, recvd, output
<1>2. n \in Nat /\ n + 1 = Len(counted) /\ counted[n + 1].rtt = reply.rtt /\ FieldsInv
  BY <1>1 DEF LagInv
<1>3. LET r == reply.rtt
      IN  /\ new.rtt_min = IF r < old.rtt_min THEN r ELSE old.rtt_min
          /\ new.rtt_max = IF r > old.rtt_max THEN r ELSE old.rtt_max
          /\ new.rtt_sum = old.rtt_sum + r
          /\ new.rtt_sq_sum = old.rtt_sq_sum + r * r
  <2>1. n < Len(counted)
    BY <1>2
  <2> HIDE DEF n
  <2>2. QED
    BY <1>1, <1>2, <2>1, MeasuredNext
<1>4. stats'.received = stats.received
  BY <1>1 DEF UpdateRttMin, UpdateRttMax, UpdateRttSum, UpdateRttSqSum, Counters
<1>5. new = Measured(counted, Len(counted))
  BY <1>2
<1> HIDE DEF old, new, n
<1>6. FieldsInv'
  <2>1. CASE UpdateRttMin
    BY <1>1, <1>2, <1>3, <1>5, <2>1 DEF UpdateRttMin, Goto, FieldsInv, Seen, Counters, old, n
  <2>2. CASE UpdateRttMax
    BY <1>1, <1>2, <1>3, <1>5, <2>2 DEF UpdateRttMax, Goto, FieldsInv, Seen, Counters, old, n
  <2>3. CASE UpdateRttSum
    BY <1>1, <1>2, <1>3, <1>5, <2>3 DEF UpdateRttSum, Goto, FieldsInv, Seen, Counters, old, n
  <2>4. CASE UpdateRttSqSum
    BY <1>1, <1>2, <1>3, <1>5, <2>4 DEF UpdateRttSqSum, Goto, FieldsInv, Seen, Counters, old, n
  <2>5. QED
    BY <2>1, <2>2, <2>3, <2>4
<1>7. QED
  BY <1>1, <1>4, <1>6 DEF LagInv, SummaryLagsByOne

\* Counting a reply puts every field one reply behind and leaves the old summaries true.
LEMMA CountKeepsLag == ASSUME TypeOK, LagInv, CountReceived PROVE LagInv'
<1> DEFINE x == [at |-> stats.transmitted, req |-> reply.req, rtt |-> reply.rtt]
           m == Len(counted)
<1>1. /\ stats \in Counters /\ counted \in Seq(Counted) /\ x \in Counted /\ m \in Nat
      /\ counted' = Append(counted, x) /\ reply' = reply /\ summaries' = summaries
      /\ pc = "received" /\ pc' = "rtt_min" /\ stats.received = m
      /\ stats' = [stats EXCEPT !.received = @ + 1]
      /\ summaries \subseteq Counters /\ reply.rtt \in RTTs \cup {0}
  BY DEF TypeOK, CountReceived, Goto, recvd, output, Counters, Counted, Replies, LagInv
<1>2. Len(counted') = m + 1 /\ counted'[m + 1] = x /\ x.rtt = reply.rtt
  BY <1>1
<1>3. \A k \in 0..m : Measured(counted', k) = Measured(counted, k)
  BY <1>1, MeasuredKept
<1> HIDE DEF x, m
<1>4. /\ stats.rtt_min = Measured(counted, m).rtt_min
      /\ stats.rtt_max = Measured(counted, m).rtt_max
      /\ stats.rtt_sum = Measured(counted, m).rtt_sum
      /\ stats.rtt_sq_sum = Measured(counted, m).rtt_sq_sum
  BY <1>1 DEF LagInv, FieldsInv, Seen, MinLags, MaxLags, SumLags, SqSumLags, m
<1>5. FieldsInv'
  <2>1. \A lags \in {MinLags, MaxLags, SumLags, SqSumLags} : pc' \in lags
    BY <1>1 DEF MinLags, MaxLags, SumLags, SqSumLags
  <2>2. Len(counted') - 1 = m /\ m \in 0..m
    BY <1>1, <1>2
  <2>3. /\ stats'.rtt_min = stats.rtt_min /\ stats'.rtt_max = stats.rtt_max
        /\ stats'.rtt_sum = stats.rtt_sum /\ stats'.rtt_sq_sum = stats.rtt_sq_sum
    BY <1>1 DEF Counters
  <2>4. Measured(counted', m) = Measured(counted, m)
    BY <1>3, <2>2
  <2>5. QED
    BY <1>4, <2>1, <2>2, <2>3, <2>4 DEF FieldsInv, Seen
<1>6. SummaryLagsByOne' /\ \A s \in summaries' : s.received <= Len(counted')
  <2>1. ASSUME NEW s \in summaries PROVE s.received \in 0..m
    BY <1>1, <2>1 DEF LagInv, Counters, m
  <2>2. \A s \in summaries : s.received > 0 => s.received - 1 \in 0..m
    BY <1>1, <2>1
  <2>3. \A s \in summaries : s.received <= m + 1
    BY <1>1, <2>1
  <2>4. QED
    BY <1>1, <1>2, <1>3, <2>1, <2>2, <2>3 DEF LagInv, SummaryLagsByOne
<1>7. QED
  BY <1>1, <1>2, <1>5, <1>6 DEF LagInv, Counters

\* What the handler prints: fields of all counted replies, or of all but the last.
LEMMA HandlerKeepsLag == ASSUME TypeOK, LagInv, HandleSigint PROVE LagInv'
<1>1. /\ UNCHANGED <<pc, stats, counted, reply>> /\ summaries' = summaries \cup {stats}
      /\ handler = "active" /\ handler' = "idle" /\ pc # "killed"
  BY DEF HandleSigint, recvd, LagInv
<1>2. /\ FieldsInv /\ stats.received = Len(counted) /\ Len(counted) \in Nat
      /\ (pc \in SqSumLags => Len(counted) > 0)
  BY <1>1 DEF LagInv, TypeOK
<1>3. \A lags \in {MinLags, MaxLags, SumLags, SqSumLags} :
          \/ Seen(lags) = Len(counted)
          \/ Len(counted) > 0 /\ Seen(lags) = Len(counted) - 1
  BY <1>2 DEF Seen, MinLags, MaxLags, SumLags, SqSumLags
<1>4. \A f \in {"rtt_min", "rtt_max", "rtt_sum", "rtt_sq_sum"} :
          \/ stats[f] = Measured(counted, stats.received)[f]
          \/ stats.received > 0 /\ stats[f] = Measured(counted, stats.received - 1)[f]
  BY <1>2, <1>3 DEF FieldsInv
<1>5. \A s \in summaries' : s.received <= Len(counted')
  BY <1>1, <1>2 DEF LagInv
<1>6. SummaryLagsByOne'
  BY <1>1, <1>4 DEF LagInv, SummaryLagsByOne
<1>7. FieldsInv'
  BY <1>1, <1>2 DEF FieldsInv, Seen
<1>8. QED
  BY <1>1, <1>5, <1>6, <1>7 DEF LagInv

\* The round-trip fields follow the counted replies through every interleaving.
LEMMA LagInvariant == Spec => []LagInv
<1>1. Init => LagInv
  <2> SUFFICES ASSUME Init PROVE LagInv
    OBVIOUS
  <2>1. /\ pc = "signal" /\ stats = Fresh /\ Len(counted) = 0 /\ summaries = {}
    BY DEF Init
  <2>2. FieldsInv
    BY <2>1, MeasuredNone
       DEF FieldsInv, Seen, Fresh, MinLags, MaxLags, SumLags, SqSumLags
  <2>3. QED
    BY <2>1, <2>2
       DEF LagInv, SummaryLagsByOne, Fresh, MinLags, MaxLags, SumLags, SqSumLags
<1>2. ASSUME TypeOK, CountInv, LagInv, [Next]_vars PROVE LagInv'
  <2> USE <1>2
  <2>1. CASE /\ \/ InstallHandler \/ ParseArgs \/ QueryDns \/ CompareDestination
                \/ CreateSocket \/ ResetRunning \/ LoopTest \/ SendTo \/ WaitTest \/ Accept
                \/ Discard \/ TimeOut \/ AfterWait \/ GetCacheHostname \/ PrintReply
                \/ Sleep \/ Close
    <3>1. /\ UNCHANGED <<stats, counted, summaries>> /\ handler = "idle" /\ handler' = "idle"
      BY <2>1 DEF InstallHandler, ParseArgs, QueryDns, CompareDestination, CreateSocket,
         ResetRunning, LoopTest, SendTo, WaitTest, Accept, Discard, TimeOut, AfterWait,
         GetCacheHostname, PrintReply, Sleep, Close, Goto, rest, sigs, output
    <3>2. pc \notin SqSumLags /\ pc' \notin SqSumLags /\ pc # "killed"
      BY <2>1 DEF InstallHandler, ParseArgs, QueryDns, CompareDestination, CreateSocket,
         ResetRunning, LoopTest, SendTo, WaitTest, Accept, Discard, TimeOut, AfterWait,
         GetCacheHostname, PrintReply, Sleep, Close, Goto, SqSumLags, SumLags, MaxLags, MinLags
    <3>3. QED
      BY <3>1, <3>2, QuietStepKeepsLag
  <2>2. CASE ResetStats
    <3>1. /\ pc = "reset" /\ pc' = "while" /\ counted' = counted /\ summaries' = summaries
          /\ stats' = [Fresh EXCEPT !.timed = TRUE]
      BY <2>2 DEF ResetStats, Goto, output
    <3>2. Len(counted) = 0 /\ stats.received = 0
      BY <3>1 DEF CountInv, SequenceInv, Early
    <3>3. FieldsInv'
      BY <3>1, <3>2, MeasuredNone
         DEF FieldsInv, Seen, Fresh, MinLags, MaxLags, SumLags, SqSumLags
    <3>4. QED
      BY <3>1, <3>2, <3>3
         DEF LagInv, SummaryLagsByOne, Fresh, MinLags, MaxLags, SumLags, SqSumLags
  <2>3. CASE CountTransmitted
    <3>1. /\ pc = "transmit" /\ pc' = "sendto" /\ counted' = counted /\ summaries' = summaries
          /\ stats' = [stats EXCEPT !.transmitted = @ + 1] /\ stats \in Counters
      BY <2>3 DEF CountTransmitted, Goto, output, TypeOK
    <3>2. FieldsInv'
      BY <3>1 DEF LagInv, FieldsInv, Seen, Counters, MinLags, MaxLags, SumLags, SqSumLags
    <3>3. stats'.received = stats.received
      BY <3>1 DEF Counters
    <3>4. QED
      BY <3>1, <3>2, <3>3 DEF LagInv, SummaryLagsByOne, MinLags, MaxLags, SumLags, SqSumLags
  <2>4. CASE CountReceived
    BY <2>4, CountKeepsLag
  <2>5. CASE UpdateRttMin \/ UpdateRttMax \/ UpdateRttSum \/ UpdateRttSqSum
    BY <2>5, UpdateKeepsLag
  <2>6. CASE Sigint
    <3>1. /\ UNCHANGED <<stats, counted, summaries, reply>> /\ pc # "killed"
          /\ pc' # "killed" => pc' = pc \/ (pc = "recvfrom" /\ pc' = "wait")
          /\ pc' = "killed" => handler' = "idle"
      BY <2>6 DEF Sigint, Final, recvd, output
    <3>2. pc' # "killed" => FieldsInv'
      BY <3>1 DEF LagInv, FieldsInv, Seen, MinLags, MaxLags, SumLags, SqSumLags
    <3>3. pc' \in SqSumLags => pc \in SqSumLags
      BY <3>1 DEF MinLags, MaxLags, SumLags, SqSumLags
    <3>4. QED
      BY <3>1, <3>2, <3>3 DEF LagInv, SummaryLagsByOne
  <2>7. CASE HandleSigint
    BY <2>7, HandlerKeepsLag
  <2>8. CASE UNCHANGED vars
    BY <2>8 DEF vars, rest, sigs, recvd, output, LagInv, FieldsInv, Seen, SummaryLagsByOne
  <2>9. QED
    BY <2>1, <2>2, <2>3, <2>4, <2>5, <2>6, <2>7, <2>8 DEF Next, Main, Terminated
<1>3. QED
  BY <1>1, <1>2, TypeCorrect, CountInvariant, PTL DEF Spec

\* Wherever the handler interrupts update_rtt, the minimum, maximum, sum and sum of squares
\* that it prints are those of the replies it counts, or lag behind by the last of them.
THEOREM SummariesLagByOne == Spec => []SummaryLagsByOne
<1>1. LagInv => SummaryLagsByOne
  BY DEF LagInv
<1>2. QED
  BY <1>1, LagInvariant, PTL

----------------------------------------------------------------------------
(* ft_ping implements the safety part of Pinger. *)

Timed == {s \in summaries : s.timed}

(* What the mapping needs beyond StopInv: where the loop is, that the counters *)
(* only grow after a summary, and that without a summary of the loop a stopped *)
(* session has sent nothing.                                                   *)

MapInv ==
    /\ handler = "active" => disp = "default" /\ pc \notin Final
    /\ pc \notin Early \cup Final => stats.timed
    /\ pc = "exit_failure" => ~stats.timed
    /\ pc \in {"close", "exit_success"} => ~running /\ stats.timed
    /\ ~running => disp = "default"
    /\ pc = "signal" => running
    /\ ~stats.timed => stats.transmitted = 0 /\ stats.received = 0
    /\ stats.timed /\ ~running /\ Timed = {} =>
            pc \in {"while", "close"} \cup Final /\ stats.transmitted = 0
    /\ \A s \in Timed : /\ s.transmitted <= stats.transmitted
                        /\ s.received <= stats.received
                        /\ stats.timed
                        /\ disp = "default" /\ handler = "idle"

\* The facts about types that the steps below use.
LEMMA CountersAreNumbers ==
    ASSUME TypeOK
    PROVE  /\ stats \in Counters /\ summaries \subseteq Counters
           /\ stats.transmitted \in Nat /\ stats.received \in Nat /\ stats.timed \in BOOLEAN
           /\ \A s \in summaries : s.transmitted \in Nat /\ s.received \in Nat
           /\ disp \in {"default", "handler"} /\ handler \in {"idle", "active"}
           /\ running \in BOOLEAN
BY DEF TypeOK, Counters

\* A round-trip store changes none of what MapInv and Pinger speak of.
LEMMA RttStores ==
    ASSUME TypeOK, UpdateRttMin \/ UpdateRttMax \/ UpdateRttSum \/ UpdateRttSqSum
    PROVE  /\ stats'.transmitted = stats.transmitted
           /\ stats'.received = stats.received
           /\ stats'.timed = stats.timed
           /\ UNCHANGED <<disp, handler, running, summaries>>
           /\ pc \in {"rtt_min", "rtt_max", "rtt_sum", "rtt_sq_sum"}
           /\ pc' \in {"rtt_max", "rtt_sum", "rtt_sq_sum", "get_cache_hostname"}
           /\ handler = "idle"
<1>1. stats \in Counters
  BY CountersAreNumbers
<1>2. CASE UpdateRttMin
  BY <1>1, <1>2, StoreKeeps DEF UpdateRttMin, Goto, sigs, output
<1>3. CASE UpdateRttMax
  BY <1>1, <1>3, StoreKeeps DEF UpdateRttMax, Goto, sigs, output
<1>4. CASE UpdateRttSum
  BY <1>1, <1>4, StoreKeeps DEF UpdateRttSum, Goto, sigs, output
<1>5. CASE UpdateRttSqSum
  BY <1>1, <1>5, StoreKeeps DEF UpdateRttSqSum, Goto, sigs, output
<1>6. QED
  BY <1>2, <1>3, <1>4, <1>5

\* Where the main flow goes in the steps that store nothing Pinger speaks of.
Plain == \/ InstallHandler \/ ParseArgs \/ QueryDns \/ CompareDestination \/ CreateSocket
         \/ LoopTest \/ SendTo \/ WaitTest \/ Accept \/ Discard \/ TimeOut \/ AfterWait
         \/ GetCacheHostname \/ PrintReply \/ Sleep \/ Close

\* In those steps only pc, and the disposition in the first, change.
LEMMA PlainSteps ==
    ASSUME Plain
    PROVE  /\ UNCHANGED <<handler, running, stats, summaries>>
           /\ handler = "idle"
           /\ UNCHANGED disp \/ (InstallHandler /\ disp' = "handler")
BY DEF Plain, InstallHandler, ParseArgs, QueryDns, CompareDestination, CreateSocket, LoopTest,
       SendTo, WaitTest, Accept, Discard, TimeOut, AfterWait, GetCacheHostname, PrintReply,
       Sleep, Close, Goto, rest, sigs, output

\* The stores of reset_run_stats leave the counters zero and stamped.
LEMMA ResetStores ==
    ASSUME ResetStats
    PROVE  stats'.transmitted = 0 /\ stats'.received = 0 /\ stats'.timed
BY DEF ResetStats, Fresh

\* MapInv holds in every state.
LEMMA MapInvariant == Spec => []MapInv
<1>1. Init => MapInv
  BY DEF Init, MapInv, Timed, Fresh, Early, Final
<1>2. ASSUME TypeOK, StopInv, MapInv, [Next]_vars PROVE MapInv'
  <2> USE <1>2, CountersAreNumbers DEF MapInv, Timed, Early, Final
  <2>1. CASE Plain
    <3>1. /\ UNCHANGED <<handler, running, stats, summaries>> /\ handler = "idle"
          /\ UNCHANGED disp \/ (InstallHandler /\ disp' = "handler")
      BY <2>1, PlainSteps
    <3>2. CASE InstallHandler
      BY <3>1, <3>2 DEF InstallHandler, Goto, StopInv
    <3>3. CASE LoopTest \/ WaitTest \/ AfterWait
      <4>1. UNCHANGED <<disp, handler, running, stats, summaries>> /\ handler = "idle"
        BY <3>1, <3>3 DEF LoopTest, WaitTest, AfterWait, Goto, rest, sigs
      <4>2. CASE LoopTest
        BY <4>1, <4>2 DEF LoopTest, Goto
      <4>3. CASE WaitTest
        BY <4>1, <4>3 DEF WaitTest, Goto
      <4>4. CASE AfterWait
        BY <4>1, <4>4 DEF AfterWait, Goto
      <4>5. QED
        BY <3>3, <4>2, <4>3, <4>4
    <3>4. CASE ParseArgs \/ QueryDns \/ CompareDestination \/ CreateSocket
      BY <3>1, <3>4 DEF ParseArgs, QueryDns, CompareDestination, CreateSocket, InstallHandler,
                        Goto, StopInv
    <3>5. CASE SendTo \/ Accept \/ Discard \/ TimeOut
      BY <3>1, <3>5 DEF SendTo, Accept, Discard, TimeOut, InstallHandler, Goto
    <3>6. CASE GetCacheHostname \/ PrintReply \/ Sleep \/ Close
      BY <3>1, <3>6 DEF GetCacheHostname, PrintReply, Sleep, Close, InstallHandler, Goto
    <3>7. QED
      BY <2>1, <3>2, <3>3, <3>4, <3>5, <3>6 DEF Plain
  <2>2. CASE ResetRunning
    BY <2>2 DEF ResetRunning, Goto, StopInv, sigs, output
  <2>3. CASE ResetStats
    BY <2>3, ResetStores DEF ResetStats, Goto, StopInv, sigs, output
  <2>4. CASE CountTransmitted
    BY <2>4 DEF CountTransmitted, Counters, Goto, StopInv, sigs, output
  <2>5. CASE CountReceived
    <3>1. /\ stats'.received = stats.received + 1
          /\ stats'.transmitted = stats.transmitted
          /\ stats'.timed = stats.timed
      BY <2>5 DEF CountReceived, Counters
    <3>2. /\ pc = "received" /\ pc' = "rtt_min"
          /\ UNCHANGED <<disp, handler, running, summaries>>
      BY <2>5 DEF CountReceived, Goto, sigs, output
    <3>3. QED
      BY <3>1, <3>2
  <2>6. CASE UpdateRttMin \/ UpdateRttMax \/ UpdateRttSum \/ UpdateRttSqSum
    BY <2>6, RttStores
  <2>7. CASE Sigint
    <3>1. UNCHANGED <<stats, summaries, running>> /\ pc \notin Final
      BY <2>7 DEF Sigint, output
    <3>2. CASE disp = "handler"
      BY <2>7, <3>1, <3>2 DEF Sigint, StopInv
    <3>3. CASE disp = "default"
      BY <2>7, <3>1, <3>3 DEF Sigint, StopInv
    <3>4. QED
      BY <3>2, <3>3
  <2>8. CASE HandleSigint
    <3>1. /\ summaries = {} /\ summaries' = {stats} /\ handler' = "idle" /\ ~running'
          /\ pc # "signal"
      BY <2>8 DEF HandleSigint, StopInv
    <3>2. QED
      BY <2>8, <3>1 DEF HandleSigint
  <2>9. CASE UNCHANGED vars
    BY <2>9 DEF vars, rest, sigs, output
  <2>10. QED
    BY <2>1, <2>2, <2>3, <2>4, <2>5, <2>6, <2>7, <2>8, <2>9 DEF Next, Main, Terminated, Plain
<1>3. QED
  BY <1>1, <1>2, TypeCorrect, StopInvariant, PTL DEF Spec

\* A plain step of the main flow is one of the user's steps, or none.
LEMMA PlainMaps ==
    ASSUME TypeOK, StopInv, MapInv, MapInv', Plain
    PROVE  [Promise!Next]_Promise!vars
<1> USE CountersAreNumbers, PlainSteps DEF MapInv, Timed, Early, Final, Promise!vars
<1>1. CASE InstallHandler
  BY <1>1 DEF InstallHandler, Goto, StopInv
<1>2. ASSUME ~InstallHandler PROVE UNCHANGED <<disp, handler, running, stats, summaries>>
  BY <1>2
<1>3. CASE ParseArgs \/ QueryDns \/ CreateSocket
  <2>1. pc \in {"parse_args", "query_dns", "socket"} /\ ~stats.timed /\ ~InstallHandler
    BY <1>3 DEF ParseArgs, QueryDns, CreateSocket, InstallHandler, Goto, StopInv
  <2>2. pc' \in {"exit_failure", "query_dns", "strcmp", "reset_running"}
    BY <1>3 DEF ParseArgs, QueryDns, CreateSocket, Goto
  <2>3. CASE pc' = "exit_failure"
    <3>1. Promise!Abort
      BY <1>2, <2>1, <2>3 DEF Promise!Abort
    <3>2. QED
      BY <3>1 DEF Promise!Next
  <2>4. QED
    BY <1>2, <2>1, <2>2, <2>3
<1>4. CASE CompareDestination
  BY <1>2, <1>4 DEF CompareDestination, InstallHandler, Goto, StopInv
<1>5. CASE LoopTest \/ WaitTest \/ Accept \/ Discard \/ TimeOut
  BY <1>2, <1>5 DEF LoopTest, WaitTest, Accept, Discard, TimeOut, InstallHandler, Goto
<1>6. CASE SendTo \/ AfterWait
  <2>1. /\ pc \in {"sendto", "waited"} /\ ~InstallHandler
        /\ pc' \in {"wait", "received", "while", "close"}
    BY <1>6 DEF SendTo, AfterWait, InstallHandler, Goto
  <2>2. CASE pc' \in {"while", "close"}
    <3>1. Promise!GiveUp
      BY <1>2, <2>1, <2>2 DEF Promise!GiveUp
    <3>2. QED
      BY <3>1 DEF Promise!Next
  <2>3. QED
    BY <1>2, <2>1, <2>2
<1>7. CASE GetCacheHostname \/ PrintReply \/ Sleep
  BY <1>2, <1>7 DEF GetCacheHostname, PrintReply, Sleep, InstallHandler, Goto
<1>8. CASE Close
  <2>1. pc = "close" /\ pc' = "exit_success" /\ ~InstallHandler
    BY <1>8 DEF Close, InstallHandler, Goto
  <2>2. /\ stats.timed /\ disp = "default" /\ handler = "idle"
        /\ Timed # {} \/ stats.transmitted = 0
    BY <2>1
  <2>3. \/ {[transmitted |-> s.transmitted, received |-> s.received] :
                s \in {t \in summaries : t.timed}} # {}
        \/ stats.transmitted = 0
    <3>1. ASSUME NEW s \in Timed
          PROVE  [transmitted |-> s.transmitted, received |-> s.received] \in
                    {[transmitted |-> u.transmitted, received |-> u.received] :
                        u \in {t \in summaries : t.timed}}
      OBVIOUS
    <3>2. QED
      BY <2>2, <3>1
  <2>4. UNCHANGED <<stats, disp, handler, summaries>>
    BY <1>2, <2>1
  <2> HIDE DEF MapInv
  <2>5. Promise!Close
    BY <2>1, <2>2, <2>3, <2>4 DEF Promise!Close
  <2>6. QED
    BY <2>5 DEF Promise!Next
<1>9. QED
  BY <1>1, <1>3, <1>4, <1>5, <1>6, <1>7, <1>8 DEF Plain

\* While the loop may count something, each summary holds the counts of this moment.
LEMMA SummaryUpToDate ==
    ASSUME TypeOK, StopInv, MapInv, pc \in {"transmit", "received"}
    PROVE  Promise!UpToDate
<1> USE CountersAreNumbers DEF Promise!UpToDate
<1>1. SUFFICES ASSUME NEW s \in summaries, s.timed
               PROVE  s.transmitted = stats.transmitted /\ s.received = stats.received
  OBVIOUS
<1>2. /\ s.transmitted <= stats.transmitted /\ s.received <= stats.received
      /\ (stats.transmitted - s.transmitted) + (stats.received - s.received) <= 0
  BY <1>1 DEF MapInv, StopInv, Timed
<1>3. QED
  BY <1>2

\* Every run of ft_ping is a session that Pinger allows: one summary, taken at a Ctrl+C,
\* at most one count after it, an end without it only for a second Ctrl+C.
THEOREM ImplementsPinger == Spec => Promise!Safety
<1>1. Init => Promise!Init
  BY DEF Init, Fresh, Promise!Init
<1>2. ASSUME TypeOK, StopInv, MapInv, MapInv', [Next]_vars
      PROVE  [Promise!Next]_Promise!vars
  <2> USE <1>2, CountersAreNumbers
  <2>1. CASE Plain
    BY <2>1, PlainMaps
  <2>2. CASE ResetRunning
    BY <2>2 DEF ResetRunning, Goto, StopInv, Early, sigs, output, Promise!vars
  <2>3. CASE ResetStats
    <3>1. /\ stats'.transmitted = 0 /\ stats'.received = 0 /\ stats'.timed
          /\ pc = "reset" /\ pc' = "while" /\ ~stats.timed /\ handler = "idle"
          /\ UNCHANGED <<disp, handler, summaries>>
      BY <2>3, ResetStores DEF ResetStats, Goto, StopInv, Early, sigs, output
    <3>2. stats.transmitted = 0 /\ stats.received = 0
      BY <3>1 DEF MapInv
    <3>3. Promise!Start
      BY <3>1, <3>2 DEF Promise!Start
    <3>4. QED
      BY <3>3 DEF Promise!Next
  <2>4. CASE CountTransmitted
    <3>1. /\ stats'.transmitted = stats.transmitted + 1
          /\ stats'.received = stats.received /\ stats'.timed = stats.timed
          /\ pc = "transmit" /\ pc' = "sendto" /\ stats.timed
          /\ UNCHANGED <<disp, handler, summaries>>
      BY <2>4 DEF CountTransmitted, Counters, Goto, MapInv, Early, Final, sigs, output
    <3>2. Promise!Send
      BY <3>1, SummaryUpToDate DEF Promise!Send
    <3>3. QED
      BY <3>2 DEF Promise!Next
  <2>5. CASE CountReceived
    <3>1. /\ stats'.received = stats.received + 1
          /\ stats'.transmitted = stats.transmitted /\ stats'.timed = stats.timed
          /\ pc = "received" /\ pc' = "rtt_min" /\ stats.timed
          /\ UNCHANGED <<disp, handler, summaries>>
      BY <2>5 DEF CountReceived, Counters, Goto, MapInv, Early, Final, sigs, output
    <3>2. Promise!Answer
      BY <3>1, SummaryUpToDate DEF Promise!Answer
    <3>3. QED
      BY <3>2 DEF Promise!Next
  <2>6. CASE UpdateRttMin \/ UpdateRttMax \/ UpdateRttSum \/ UpdateRttSqSum
    BY <2>6, RttStores DEF Promise!vars
  <2>7. CASE Sigint
    <3>1. UNCHANGED <<stats, summaries>> /\ pc \notin Final
      BY <2>7 DEF Sigint, output
    <3>2. CASE disp = "handler"
      <4>1. /\ disp' = "default" /\ handler' = "active"
            /\ pc' = pc \/ (pc = "recvfrom" /\ pc' = "wait")
        BY <2>7, <3>2 DEF Sigint
      <4>2. CASE stats.timed
        <5>1. Promise!Interrupt
          BY <3>1, <3>2, <4>1, <4>2 DEF Promise!Interrupt, Final
        <5>2. QED
          BY <5>1 DEF Promise!Next
      <4>3. CASE ~stats.timed
        BY <3>1, <4>1, <4>3 DEF Promise!vars, Final, MapInv, Early
      <4>4. QED
        BY <4>2, <4>3
    <3>3. CASE disp = "default"
      <4>1. pc' = "killed" /\ disp' = "default" /\ handler' = "idle"
        BY <2>7, <3>3 DEF Sigint
      <4>2. CASE stats.timed
        <5>1. Promise!Kill
          BY <3>1, <3>3, <4>1, <4>2 DEF Promise!Kill, Final
        <5>2. QED
          BY <5>1 DEF Promise!Next
      <4>3. CASE ~stats.timed
        <5>1. Promise!Abort
          BY <3>1, <4>1, <4>3 DEF Promise!Abort, Final, MapInv, Early
        <5>2. QED
          BY <5>1 DEF Promise!Next
      <4>4. QED
        BY <4>2, <4>3
    <3>4. QED
      BY <3>2, <3>3
  <2>8. CASE HandleSigint
    <3>1. /\ handler = "active" /\ disp = "default" /\ handler' = "idle" /\ pc \notin Final
          /\ summaries = {} /\ summaries' = {stats}
          /\ UNCHANGED <<pc, disp, stats>>
      BY <2>8 DEF HandleSigint, StopInv, MapInv
    <3>2. CASE stats.timed
      <4>1. Promise!Summarise
        BY <3>1, <3>2 DEF Promise!Summarise, Final
      <4>2. QED
        BY <4>1 DEF Promise!Next
    <3>3. CASE ~stats.timed
      BY <3>1, <3>3 DEF Promise!vars
    <3>4. QED
      BY <3>2, <3>3
  <2>9. CASE UNCHANGED vars
    BY <2>9 DEF vars, rest, sigs, output, Promise!vars
  <2>10. QED
    BY <2>1, <2>2, <2>3, <2>4, <2>5, <2>6, <2>7, <2>8, <2>9 DEF Next, Main, Terminated, Plain
<1>3. QED
  BY <1>1, <1>2, TypeCorrect, StopInvariant, MapInvariant, PTL DEF Spec, Promise!Safety
=============================================================================
