------------------------- MODULE FtTracerouteProofs -------------------------
(***************************************************************************)
(* Theorems about FtTraceroute, for every number of hops and of probes per *)
(* hop, every distance and every bound on the network.                     *)
(***************************************************************************)
EXTENDS FtTraceroute, TLAPS

Lines == [shown : Senders, results : Seq(Results)]

\* One more result, r, has been printed on the last line and nothing else has changed.
Printed(r) ==
    /\ lines' \in Seq(Lines) /\ Len(lines') = Len(lines)
    /\ \A l \in 1..(Len(lines) - 1) : lines'[l] = lines[l]
    /\ lines'[Len(lines)].results = Append(lines[Len(lines)].results, r)

\* How the loop counters go with the output.
LoopInv ==
    /\ pc \in {"probe", "recvfrom"} => ttl <= MaxTtl /\ Len(lines) = ttl
    /\ pc = "recvfrom" => probe < ProbesPerHop
    /\ pc \in {"parse_args", "query_dns", "socket", "hop", "close"} => Len(lines) = ttl - 1

TraceInv == TypeOK /\ LoopInv

\* An answer that can arrive, has arrived or was printed is the answer to a probe sent
\* with a time-to-live no larger than that of the line it is printed on.
AnswerInv ==
    /\ \A p \in net : p.n \in 1..sent /\ p.ttl <= ttl
    /\ \A i \in 1..Len(buffer) :
          buffer[i].n # 0 => /\ buffer[i].n \in 1..sent
                             /\ buffer[i].from \in Routers /\ Away[buffer[i].from] <= ttl
                             /\ buffer[i].reply => distance <= ttl
    /\ ResultsWithinTtl

\* The line being printed has one result per probe done; it ends in an echo reply exactly
\* when the destination was reached.
LineInv ==
    /\ pc \in {"probe", "recvfrom"} => Len(lines[ttl].results) = probe
    /\ pc = "recvfrom" => ~reached
    /\ reached => /\ Len(lines) > 0 /\ Len(lines[Len(lines)].results) > 0
                  /\ lines[Len(lines)].results[Len(lines[Len(lines)].results)].reply
    /\ LinesComplete

\* Replacing the results of a line gives a line.
LEMMA ResultsReplaced ==
    ASSUME NEW line \in Lines, NEW s \in Seq(Results)
    PROVE  /\ [line EXCEPT !.results = s] \in Lines
           /\ [line EXCEPT !.results = s].results = s
BY DEF Lines

\* What SendFails and GiveUp do to the output.
LEMMA PrintPrints ==
    ASSUME lines \in Seq(Lines), Len(lines) > 0, NEW r \in Results, PrintResult(r)
    PROVE  Printed(r)
<1> DEFINE n == Len(lines)
<1>1. n \in 1..Len(lines) /\ lines[n] \in Lines
  OBVIOUS
<1>2. Append(lines[n].results, r) \in Seq(Results)
  BY <1>1 DEF Lines
<1>3. [lines[n] EXCEPT !.results = Append(lines[n].results, r)] \in Lines
  BY <1>1, <1>2, ResultsReplaced
<1>4. lines' = [lines EXCEPT ![n] = [lines[n] EXCEPT !.results = Append(lines[n].results, r)]]
  BY DEF PrintResult
<1>5. lines'[n].results = Append(lines[n].results, r)
  BY <1>1, <1>2, <1>4, ResultsReplaced
<1>6. lines' \in Seq(Lines) /\ Len(lines') = n /\ \A l \in 1..(n - 1) : lines'[l] = lines[l]
  BY <1>1, <1>3, <1>4
<1>7. QED
  BY <1>5, <1>6 DEF Printed

\* What Receive does to the output.
LEMMA ReceivePrints ==
    ASSUME TraceInv, Receive
    PROVE  /\ Printed([of |-> Head(buffer).n, at |-> sent,
                       from |-> Head(buffer).from, reply |-> Head(buffer).reply])
           /\ Head(buffer) \in Answers
<1> DEFINE n == Len(lines)
           a == Head(buffer)
           r == [of |-> a.n, at |-> sent, from |-> a.from, reply |-> a.reply]
           line == [shown |-> IF lines[n].shown = NoOne THEN a.from ELSE lines[n].shown,
                    results |-> Append(lines[n].results, r)]
<1>1. lines \in Seq(Lines) /\ n \in 1..Len(lines) /\ lines[n] \in Lines
  <2>1. lines \in Seq(Lines)
    BY DEF TraceInv, TypeOK, Lines
  <2>2. Len(lines) = ttl /\ ttl \in 1..(MaxTtl + 1)
    BY DEF TraceInv, TypeOK, LoopInv, Receive, Goto
  <2>3. QED
    BY <2>1, <2>2, SizesAssumption
<1>2. a \in Answers
  BY DEF TraceInv, TypeOK, Receive
<1>3. r \in Results
  BY <1>2 DEF TraceInv, TypeOK, Answers, Results
<1>4. line \in Lines /\ line.results = Append(lines[n].results, r)
  <2>1. lines[n].shown \in Senders /\ lines[n].results \in Seq(Results) /\ a.from \in Senders
    BY <1>1, <1>2 DEF Lines, Answers
  <2>2. QED
    BY <1>3, <2>1 DEF Lines
<1>5. lines' = [lines EXCEPT ![n] = line]
  BY DEF Receive
<1> HIDE DEF r, line
<1>6. Printed(r)
  BY <1>1, <1>4, <1>5 DEF Printed
<1>7. QED
  BY <1>2, <1>6 DEF r

\* Every variable keeps its type, and the output keeps up with the loops.
LEMMA TraceInvariant == Spec => []TraceInv
<1> USE SizesAssumption, ArgvsAssumption DEF Labels, Final
<1>1. Init => TraceInv
  <2> SUFFICES ASSUME Init PROVE TraceInv
    OBVIOUS
  <2>1. TypeOK
    <3>1. buffer \in Seq(Answers) /\ lines \in Seq([shown : Senders, results : Seq(Results)])
      BY DEF Init
    <3>2. ttl \in 1..(MaxTtl + 1) /\ probe \in 0..ProbesPerHop /\ foreign \in 0..MaxForeign
          /\ duplicates \in 0..MaxDuplicates /\ sent \in Nat /\ net = {}
      BY DEF Init
    <3>3. QED
      BY <3>1, <3>2 DEF Init, TypeOK
  <2>2. LoopInv
    BY DEF Init, LoopInv
  <2>3. QED
    BY <2>1, <2>2 DEF TraceInv
<1>2. ASSUME TraceInv, [Next]_vars PROVE TraceInv'
  <2> USE <1>2 DEF TraceInv, TypeOK, LoopInv, Goto, world, loop, air
  <2>1. CASE ParseArgs
    BY <2>1 DEF ParseArgs
  <2>2. CASE QueryDns
    BY <2>2 DEF QueryDns
  <2>3. CASE CreateSocket
    BY <2>3 DEF CreateSocket
  <2>4. CASE StartLine
    <3>1. NewLine \in Lines
      BY DEF NewLine, Lines, Senders
    <3>2. lines' \in Seq(Lines) /\ Len(lines') = Len(lines) + 1
      BY <2>4, <3>1 DEF StartLine, Lines
    <3>3. QED
      BY <2>4, <3>2 DEF StartLine, Lines
  <2>5. CASE EndTrace
    BY <2>5 DEF EndTrace
  <2>6. CASE EndLine
    BY <2>6 DEF EndLine
  <2>7. CASE SendFails
    <3>1. Star(0) \in Results
      BY DEF Star, Results, Senders
    <3>2. lines \in Seq(Lines) /\ Len(lines) > 0 /\ PrintResult(Star(0))
      BY <2>7 DEF SendFails, Lines
    <3>3. Printed(Star(0))
      BY <3>1, <3>2, PrintPrints
    <3>4. QED
      BY <2>7, <3>3 DEF SendFails, Printed, Lines
  <2>8. CASE Send
    <3>1. [n |-> sent + 1, ttl |-> ttl] \in [n : Nat, ttl : 1..MaxTtl]
      BY <2>8 DEF Send
    <3>2. QED
      BY <2>8, <3>1 DEF Send
  <2>9. CASE GiveUp
    <3>1. Star(sent) \in Results
      BY DEF Star, Results, Senders
    <3>2. lines \in Seq(Lines) /\ Len(lines) > 0 /\ PrintResult(Star(sent))
      BY <2>9 DEF GiveUp, Lines
    <3>3. Printed(Star(sent))
      BY <3>1, <3>2, PrintPrints
    <3>4. QED
      BY <2>9, <3>3 DEF GiveUp, Printed, Lines
  <2>10. CASE Discard
    BY <2>10 DEF Discard
  <2>11. CASE Receive
    <3>1. lines' \in Seq(Lines) /\ Len(lines') = Len(lines) /\ Head(buffer) \in Answers
      BY <2>11, ReceivePrints DEF Printed
    <3>2. Tail(buffer) \in Seq(Answers)
      BY <2>11 DEF Receive
    <3>3. reached' \in BOOLEAN
      BY <2>11, <3>1 DEF Receive, Answers
    <3>4. TypeOK'
      BY <2>11, <3>1, <3>2, <3>3 DEF Receive, Lines
    <3>5. LoopInv'
      BY <2>11, <3>1 DEF Receive
    <3>6. QED
      BY <3>4, <3>5
  <2>12. CASE Close
    BY <2>12 DEF Close
  <2>13. CASE Network /\ Arrive
    <3>1. PICK p \in net, from \in Routers, b \in BOOLEAN :
              buffer' = Append(buffer, [n |-> p.n, from |-> from, reply |-> b])
      BY <2>13 DEF Arrive
    <3>2. p.n \in Nat
      OBVIOUS
    <3>3. [n |-> p.n, from |-> from, reply |-> b] \in Answers
      BY <3>2 DEF Answers, Senders
    <3>4. buffer' \in Seq(Answers)
      BY <3>1, <3>3
    <3>5. net' \subseteq net /\ duplicates' \in 0..MaxDuplicates /\ tardy' \in BOOLEAN
      BY <2>13, SMTT(30) DEF Arrive
    <3>6. QED
      BY <2>13, <3>4, <3>5 DEF Arrive
  <2>14. CASE Network /\ ArriveForeign
    <3>1. Foreign \in Answers
      BY DEF Foreign, Answers, Senders
    <3>2. QED
      BY <2>14, <3>1 DEF ArriveForeign
  <2>15. CASE Terminated
    BY <2>15 DEF Terminated, vars
  <2>16. CASE UNCHANGED vars
    BY <2>16 DEF vars
  <2>17. QED
    BY <2>1, <2>2, <2>3, <2>4, <2>5, <2>6, <2>7, <2>8, <2>9, <2>10, <2>11, <2>12, <2>13,
       <2>14, <2>15, <2>16 DEF Next, Main, Network
<1>3. QED
  BY <1>1, <1>2, PTL DEF Spec

\* Whatever the network does, every variable keeps its type.
THEOREM TypeCorrect == Spec => []TypeOK
<1>1. TraceInv => TypeOK
  BY DEF TraceInv
<1>2. QED
  BY <1>1, TraceInvariant, PTL

----------------------------------------------------------------------------

\* A result that respects the time-to-live of the last line can be printed on it.
LEMMA WithinTtlPrinted ==
    ASSUME ResultsWithinTtl, lines \in Seq(Lines), Len(lines) > 0,
           NEW r \in Results, Printed(r), distance' = distance,
           r.of # 0 => /\ r.of \in 1..r.at
                       /\ r.from \in Routers /\ Away[r.from] <= Len(lines)
                       /\ r.reply => distance <= Len(lines)
    PROVE  ResultsWithinTtl'
<1> DEFINE n == Len(lines)
<1> SUFFICES ASSUME NEW l \in 1..Len(lines'), NEW i \in 1..Len(lines'[l].results),
                    lines'[l].results[i].of # 0
             PROVE  LET q == lines'[l].results[i]
                    IN  q.of \in 1..q.at /\ q.from \in Routers /\ Away[q.from] <= l /\ (q.reply => distance <= l)
  BY DEF ResultsWithinTtl, AnswersOf, ResultsOf
<1>1. \A k \in 1..Len(lines) : \A j \in 1..Len(lines[k].results) :
          lines[k].results[j].of # 0 =>
              /\ lines[k].results[j].of \in 1..lines[k].results[j].at
              /\ lines[k].results[j].from \in Routers /\ Away[lines[k].results[j].from] <= k
              /\ lines[k].results[j].reply => distance <= k
  BY DEF ResultsWithinTtl, AnswersOf, ResultsOf
<1>2. CASE l # n
  <2>1. l \in 1..(n - 1) /\ lines'[l] = lines[l]
    BY <1>2 DEF Printed
  <2>2. QED
    BY <1>1, <2>1
<1>3. CASE l = n
  <2>1. lines[n].results \in Seq(Results)
    <3>1. n \in 1..Len(lines) /\ lines[n] \in Lines
      OBVIOUS
    <3>2. QED
      BY <3>1 DEF Lines
  <2>2. lines'[n].results = Append(lines[n].results, r)
    BY DEF Printed
  <2>3. CASE i = Len(lines[n].results) + 1
    <3>1. lines'[l].results[i] = r
      BY <1>3, <2>1, <2>2, <2>3
    <3>2. QED
      BY <1>3, <3>1
  <2>4. CASE i \in 1..Len(lines[n].results)
    <3>1. lines'[l].results[i] = lines[n].results[i]
      BY <1>3, <2>1, <2>2, <2>4
    <3>2. n \in 1..Len(lines)
      OBVIOUS
    <3>3. QED
      BY <1>1, <1>3, <2>4, <3>1, <3>2
  <2>5. QED
    BY <1>3, <2>1, <2>2, <2>3, <2>4
<1>4. QED
  BY <1>2, <1>3

\* Answers are never credited to an earlier line than that of their own probe.
LEMMA AnswerInvariant == Spec => []AnswerInv
<1> USE SizesAssumption DEF Labels, Final
<1>1. Init => AnswerInv
  BY DEF Init, AnswerInv, ResultsWithinTtl
<1>2. ASSUME TraceInv, TraceInv', AnswerInv, [Next]_vars PROVE AnswerInv'
  <2> DEFINE NetInv == \A p \in net : p.n \in 1..sent /\ p.ttl <= ttl
             BufferInv == \A i \in 1..Len(buffer) :
                             buffer[i].n # 0 => /\ buffer[i].n \in 1..sent
                                                /\ buffer[i].from \in Routers /\ Away[buffer[i].from] <= ttl
                                                /\ buffer[i].reply => distance <= ttl
  <2>0. /\ NetInv /\ BufferInv /\ ResultsWithinTtl
        /\ sent \in Nat /\ ttl \in Nat /\ distance \in Nat
        /\ buffer \in Seq(Answers) /\ lines \in Seq(Lines)
    BY <1>2 DEF AnswerInv, TraceInv, TypeOK, Lines
  <2>a. ASSUME UNCHANGED <<net, sent, ttl, buffer, distance, lines>> PROVE AnswerInv'
    BY <2>0, <2>a DEF AnswerInv, ResultsWithinTtl, AnswersOf, ResultsOf
  <2>1. CASE ParseArgs \/ QueryDns \/ CreateSocket \/ EndTrace \/ Close \/ Terminated
    BY <2>1, <2>a DEF ParseArgs, QueryDns, CreateSocket, EndTrace, Close, Terminated,
       vars, world, loop, air
  <2>2. CASE StartLine
    <3>1. UNCHANGED <<net, sent, ttl, buffer, distance>>
      BY <2>2 DEF StartLine, world, air
    <3>2. ResultsWithinTtl'
      <4>1. lines' = Append(lines, NewLine)
        BY <2>2 DEF StartLine
      <4>2. \A l \in 1..Len(lines') :
                \/ l \in 1..Len(lines) /\ lines'[l] = lines[l]
                \/ lines'[l].results = <<>>
        BY <2>0, <4>1 DEF NewLine
      <4>3. \A l \in 1..Len(lines') :
                \/ AnswersOf(l)' = {}
                \/ l \in 1..Len(lines) /\ AnswersOf(l)' = AnswersOf(l)
        BY <4>2 DEF AnswersOf, ResultsOf
      <4>4. SUFFICES ASSUME NEW l \in 1..Len(lines'), NEW q \in AnswersOf(l)'
                     PROVE  q.of \in 1..q.at /\ q.from \in Routers /\ Away[q.from] <= l /\ (q.reply => distance <= l)
        BY <3>1 DEF ResultsWithinTtl
      <4>5. l \in 1..Len(lines) /\ q \in AnswersOf(l)
        BY <4>3
      <4>6. QED
        BY <2>0, <4>5 DEF ResultsWithinTtl
    <3>3. QED
      BY <2>0, <3>1, <3>2 DEF AnswerInv
  <2>3. CASE EndLine
    <3>1. UNCHANGED <<net, sent, buffer, distance, lines>> /\ ttl' = ttl + 1
      BY <2>3 DEF EndLine, world, air
    <3>2. NetInv'
      <4>1. \A p \in net : p.ttl \in Nat
        BY <1>2 DEF TraceInv, TypeOK
      <4>2. QED
        BY <2>0, <3>1, <4>1
    <3>3. BufferInv'
      <4>1. \A i \in 1..Len(buffer) : buffer[i] \in Answers
        BY <2>0
      <4>2. \A i \in 1..Len(buffer) : buffer[i].from \in Routers => Away[buffer[i].from] \in Nat
        BY RoutersAssumption
      <4>3. QED
        BY <2>0, <3>1, <4>2
    <3>4. ResultsWithinTtl'
      BY <2>0, <3>1 DEF ResultsWithinTtl, AnswersOf, ResultsOf
    <3>5. QED
      BY <3>2, <3>3, <3>4 DEF AnswerInv
  <2>4. CASE SendFails
    <3>1. UNCHANGED <<net, sent, ttl, buffer, distance>>
      BY <2>4 DEF SendFails, world, air
    <3>2. Len(lines) > 0 /\ Star(0) \in Results /\ Star(0).of = 0 /\ PrintResult(Star(0))
      BY <1>2, <2>4 DEF TraceInv, TypeOK, LoopInv, SendFails, Star, Results, Senders
    <3>3. ResultsWithinTtl'
      BY <2>0, <3>1, <3>2, PrintPrints, WithinTtlPrinted
    <3>4. QED
      BY <2>0, <3>1, <3>3 DEF AnswerInv
  <2>5. CASE Send
    <3>1. /\ UNCHANGED <<ttl, buffer, distance, lines>> /\ sent' = sent + 1
          /\ net' = net \cup {[n |-> sent + 1, ttl |-> ttl]}
      BY <2>5 DEF Send, world, loop
    <3>2. NetInv' /\ BufferInv'
      BY <2>0, <3>1
    <3>3. ResultsWithinTtl'
      BY <2>0, <3>1 DEF ResultsWithinTtl, AnswersOf, ResultsOf
    <3>4. QED
      BY <3>2, <3>3 DEF AnswerInv
  <2>6. CASE GiveUp
    <3>1. UNCHANGED <<net, sent, ttl, buffer, distance>>
      BY <2>6 DEF GiveUp, world
    <3>2. Len(lines) > 0 /\ Star(sent) \in Results /\ Star(sent).of = 0 /\ PrintResult(Star(sent))
      BY <1>2, <2>6 DEF TraceInv, TypeOK, LoopInv, GiveUp, Goto, Star, Results, Senders
    <3>3. ResultsWithinTtl'
      BY <2>0, <3>1, <3>2, PrintPrints, WithinTtlPrinted
    <3>4. QED
      BY <2>0, <3>1, <3>3 DEF AnswerInv
  <2>7. CASE Discard
    <3>1. /\ UNCHANGED <<net, sent, ttl, distance, lines>>
          /\ buffer # <<>> /\ buffer' = Tail(buffer)
      BY <2>7 DEF Discard, world, loop
    <3>2. BufferInv'
      BY <2>0, <3>1
    <3>3. QED
      BY <2>0, <3>1, <3>2 DEF AnswerInv, ResultsWithinTtl, AnswersOf, ResultsOf
  <2>8. CASE Receive
    <3> DEFINE a == Head(buffer)
               r == [of |-> a.n, at |-> sent, from |-> a.from, reply |-> a.reply]
    <3>1. UNCHANGED <<net, sent, ttl, distance>> /\ buffer # <<>> /\ buffer' = Tail(buffer)
      BY <2>8 DEF Receive, world
    <3>2. Printed(r) /\ a \in Answers
      BY <1>2, <2>8, ReceivePrints
    <3>3. Len(lines) = ttl /\ ttl > 0
      BY <1>2, <2>8 DEF TraceInv, TypeOK, LoopInv, Receive, Goto
    <3>4. r \in Results
      BY <2>0, <3>2 DEF Answers, Results
    <3>5. a.n # 0 => a.n \in 1..sent /\ a.from \in Routers /\ Away[a.from] <= ttl /\ (a.reply => distance <= ttl)
      BY <2>0, <3>1
    <3>6. r.of # 0 => /\ r.of \in 1..r.at /\ r.from \in Routers /\ Away[r.from] <= Len(lines)
                      /\ r.reply => distance <= Len(lines)
      BY <3>3, <3>5
    <3>7. ResultsWithinTtl'
      <4> HIDE DEF r
      <4> QED
        BY <2>0, <3>1, <3>2, <3>3, <3>4, <3>6, WithinTtlPrinted
    <3>8. BufferInv'
      BY <2>0, <3>1
    <3>9. QED
      BY <2>0, <3>1, <3>7, <3>8 DEF AnswerInv
  <2>9. CASE Network /\ Arrive
    <3>1. PICK p \in net, from \in Routers, b \in BOOLEAN :
              /\ Away[from] <= p.ttl
              /\ b => p.ttl >= distance
              /\ buffer' = Append(buffer, [n |-> p.n, from |-> from, reply |-> b])
      BY <2>9 DEF Arrive
    <3>2. p.n \in 1..sent /\ p.ttl <= ttl /\ p.ttl \in Nat
      BY <1>2, <2>0 DEF TraceInv, TypeOK
    <3>3. Away[from] <= ttl /\ (b => distance <= ttl)
      BY <2>0, <3>1, <3>2, RoutersAssumption
    <3>4. UNCHANGED <<sent, ttl, distance, lines>> /\ net' \subseteq net
      BY <2>9 DEF Arrive, world, loop
    <3>5. BufferInv'
      BY <2>0, <3>1, <3>2, <3>3, <3>4
    <3>6. QED
      BY <2>0, <3>4, <3>5 DEF AnswerInv, ResultsWithinTtl, AnswersOf, ResultsOf
  <2>10. CASE Network /\ ArriveForeign
    <3>1. UNCHANGED <<net, sent, ttl, distance, lines>> /\ buffer' = Append(buffer, Foreign)
      BY <2>10 DEF ArriveForeign, world, loop
    <3>2. Foreign.n = 0
      BY DEF Foreign
    <3>3. BufferInv'
      BY <2>0, <3>1, <3>2
    <3>4. QED
      BY <2>0, <3>1, <3>3 DEF AnswerInv, ResultsWithinTtl, AnswersOf, ResultsOf
  <2>11. CASE UNCHANGED vars
    BY <2>11, <2>a DEF vars, world, loop, air
  <2>12. QED
    BY <1>2, <2>1, <2>2, <2>3, <2>4, <2>5, <2>6, <2>7, <2>8, <2>9, <2>10, <2>11
       DEF Next, Main, Network
<1>3. QED
  BY <1>1, <1>2, TraceInvariant, PTL DEF Spec

\* However answers are lost, delayed, reordered and repeated, no line shows a hop beyond
\* its time-to-live and the destination is reported no nearer than it is.
THEOREM ResultsStayWithinTtl == Spec => []ResultsWithinTtl
<1>1. AnswerInv => ResultsWithinTtl
  BY DEF AnswerInv
<1>2. QED
  BY <1>1, AnswerInvariant, PTL

----------------------------------------------------------------------------

\* One more result on a line without echo replies: only this result can be one.
LEMMA LinesCompletePrinted ==
    ASSUME LinesComplete, lines \in Seq(Lines), ttl \in Nat \ {0}, Len(lines) = ttl, ~reached,
           NEW r \in Results, Printed(r), ttl' = ttl, reached' = r.reply
    PROVE  /\ LinesComplete'
           /\ Len(lines'[ttl].results) = Len(lines[ttl].results) + 1
           /\ lines'[ttl].results[Len(lines'[ttl].results)] = r
<1> DEFINE m == Len(lines[ttl].results)
<1>1. ttl \in 1..Len(lines) /\ lines[ttl] \in Lines
  OBVIOUS
<1>2. lines[ttl].results \in Seq(Results) /\ m \in Nat
  BY <1>1 DEF Lines
<1>3. /\ lines'[ttl].results = Append(lines[ttl].results, r)
      /\ Len(lines') = ttl
      /\ \A l \in 1..(ttl - 1) : lines'[l] = lines[l]
  BY DEF Printed
<1>4. /\ Len(lines'[ttl].results) = m + 1
      /\ lines'[ttl].results[m + 1] = r
      /\ \A i \in 1..m : lines'[ttl].results[i] = lines[ttl].results[i]
  BY <1>2, <1>3
<1>5. \A l \in 1..Len(lines) : \A i \in 1..Len(lines[l].results) : ~lines[l].results[i].reply
  BY DEF LinesComplete
<1>6. ASSUME NEW l \in 1..Len(lines')
      PROVE  /\ \A i \in 1..Len(lines'[l].results) :
                    lines'[l].results[i].reply =>
                        i = Len(lines'[l].results) /\ l = Len(lines') /\ reached'
             /\ l < ttl => \/ Len(lines'[l].results) = ProbesPerHop
                           \/ /\ Len(lines'[l].results) > 0
                              /\ lines'[l].results[Len(lines'[l].results)].reply
  <2>1. CASE l = ttl
    <3>1. ASSUME NEW i \in 1..(m + 1), lines'[ttl].results[i].reply
          PROVE  i = m + 1 /\ reached'
      <4>1. CASE i = m + 1
        BY <1>4, <3>1, <4>1
      <4>2. CASE i \in 1..m
        BY <1>1, <1>4, <1>5, <3>1, <4>2
      <4>3. QED
        BY <1>2, <4>1, <4>2
    <3>2. Len(lines'[l].results) = m + 1 /\ l = Len(lines') /\ ~(l < ttl)
      BY <1>3, <1>4, <2>1
    <3>3. \A i \in 1..Len(lines'[l].results) :
              lines'[l].results[i].reply =>
                  i = Len(lines'[l].results) /\ l = Len(lines') /\ reached'
      BY <2>1, <3>1, <3>2
    <3>4. QED
      BY <3>2, <3>3
  <2>2. CASE l # ttl
    <3>1. l \in 1..(ttl - 1) /\ l \in 1..Len(lines) /\ lines'[l] = lines[l]
      BY <1>3, <2>2
    <3>2. \A i \in 1..Len(lines[l].results) : ~lines[l].results[i].reply
      BY <1>5, <3>1
    <3>3. \/ Len(lines[l].results) = ProbesPerHop
          \/ Len(lines[l].results) > 0 /\ lines[l].results[Len(lines[l].results)].reply
      BY <3>1 DEF LinesComplete
    <3>4. QED
      BY <3>1, <3>2, <3>3
  <2>3. QED
    BY <2>1, <2>2
<1>7. LinesComplete'
  BY <1>6 DEF LinesComplete
<1>8. QED
  BY <1>4, <1>7

\* The line being printed keeps up with the probes, and only an echo reply cuts it short.
LEMMA LineInvariant == Spec => []LineInv
<1> USE SizesAssumption DEF Labels, Final
<1>1. Init => LineInv
  BY DEF Init, LineInv, LinesComplete
<1>2. ASSUME TraceInv, LineInv, [Next]_vars PROVE LineInv'
  <2>0. /\ LinesComplete
        /\ ttl \in Nat \ {0} /\ probe \in Nat /\ probe <= ProbesPerHop /\ reached \in BOOLEAN
        /\ lines \in Seq(Lines)
    BY <1>2 DEF LineInv, TraceInv, TypeOK, Lines
  <2>a. ASSUME UNCHANGED <<ttl, probe, reached, lines>>,
               pc' = pc \/ pc' \notin {"probe", "recvfrom"}
        PROVE  LineInv'
    BY <1>2, <2>a DEF LineInv, LinesComplete
  <2>b. ASSUME NEW r \in Results, Printed(r), Len(lines) = ttl, ~reached, pc' = "probe",
               ttl' = ttl, reached' = r.reply, probe' = probe + 1,
               Len(lines[ttl].results) = probe
        PROVE  LineInv'
    <3>1. /\ LinesComplete'
          /\ Len(lines'[ttl].results) = probe + 1
          /\ lines'[ttl].results[Len(lines'[ttl].results)] = r
      BY <2>0, <2>b, LinesCompletePrinted
    <3>2. Len(lines') = ttl
      BY <2>b DEF Printed
    <3>3. QED
      BY <2>0, <2>b, <3>1, <3>2 DEF LineInv
  <2>1. CASE ParseArgs \/ QueryDns \/ CreateSocket \/ EndTrace \/ Close \/ Terminated
    BY <2>1, <2>a DEF ParseArgs, QueryDns, CreateSocket, EndTrace, Close, Terminated, Goto,
       vars, world, loop, air
  <2>2. CASE StartLine
    <3>1. Len(lines) = ttl - 1 /\ ~reached
      BY <1>2, <2>2 DEF TraceInv, LoopInv, StartLine, Goto
    <3>2. /\ UNCHANGED <<ttl, reached>> /\ probe' = 0 /\ pc' = "probe"
          /\ lines' = Append(lines, NewLine)
      BY <2>2 DEF StartLine, Goto, world, air
    <3>3. /\ Len(lines') = ttl /\ lines'[ttl].results = <<>>
          /\ \A l \in 1..(ttl - 1) : l \in 1..Len(lines) /\ lines'[l] = lines[l]
      BY <2>0, <3>1, <3>2 DEF NewLine
    <3>4. LinesComplete'
      <4>1. SUFFICES ASSUME NEW l \in 1..Len(lines')
                     PROVE  /\ \A i \in 1..Len(lines'[l].results) : ~lines'[l].results[i].reply
                            /\ l < ttl => \/ Len(lines'[l].results) = ProbesPerHop
                                          \/ /\ Len(lines'[l].results) > 0
                                             /\ lines'[l].results[Len(lines'[l].results)].reply
        BY <3>2 DEF LinesComplete
      <4>2. CASE l = ttl
        BY <3>3, <4>2
      <4>3. CASE l # ttl
        <5>1. l \in 1..(ttl - 1) /\ l \in 1..Len(lines) /\ lines'[l] = lines[l]
          BY <2>0, <3>3, <4>3
        <5>2. QED
          BY <2>0, <3>1, <5>1 DEF LinesComplete
      <4>4. QED
        BY <4>2, <4>3
    <3>5. QED
      BY <3>1, <3>2, <3>3, <3>4 DEF LineInv
  <2>3. CASE EndLine
    <3>1. /\ UNCHANGED <<reached, lines>> /\ ttl' = ttl + 1 /\ pc = "probe" /\ pc' = "hop"
          /\ probe >= ProbesPerHop \/ reached
      BY <2>3 DEF EndLine, Goto, world, air
    <3>2. Len(lines) = ttl /\ Len(lines[ttl].results) = probe
      BY <1>2, <3>1 DEF TraceInv, LoopInv, LineInv
    <3>3. \/ Len(lines[ttl].results) = ProbesPerHop
          \/ Len(lines[ttl].results) > 0 /\ lines[ttl].results[Len(lines[ttl].results)].reply
      BY <1>2, <2>0, <3>1, <3>2 DEF LineInv
    <3>4. LinesComplete'
      <4>1. SUFFICES ASSUME NEW l \in 1..Len(lines)
                     PROVE  /\ \A i \in 1..Len(lines[l].results) :
                                   lines[l].results[i].reply =>
                                       i = Len(lines[l].results) /\ l = Len(lines) /\ reached
                            /\ \/ Len(lines[l].results) = ProbesPerHop
                               \/ /\ Len(lines[l].results) > 0
                                  /\ lines[l].results[Len(lines[l].results)].reply
        BY <3>1 DEF LinesComplete
      <4>2. l = ttl \/ l < ttl
        BY <2>0, <3>2
      <4>3. QED
        BY <2>0, <3>3, <4>2 DEF LinesComplete
    <3>5. QED
      BY <1>2, <3>1, <3>4 DEF LineInv
  <2>4. CASE SendFails
    <3>1. /\ Star(0) \in Results /\ Star(0).reply = FALSE /\ PrintResult(Star(0)) /\ ~reached
          /\ pc = "probe" /\ pc' = "probe" /\ probe' = probe + 1 /\ UNCHANGED <<ttl, reached>>
      BY <2>4 DEF SendFails, Star, Results, Senders, world, air
    <3>2. Len(lines) = ttl /\ Len(lines[ttl].results) = probe
      BY <1>2, <3>1 DEF TraceInv, LoopInv, LineInv
    <3>3. Printed(Star(0))
      BY <2>0, <3>1, <3>2, PrintPrints
    <3>4. QED
      BY <2>0, <2>b, <3>1, <3>2, <3>3
  <2>5. CASE Send
    BY <1>2, <2>5 DEF Send, Goto, world, loop, LineInv, LinesComplete
  <2>6. CASE GiveUp
    <3>1. /\ Star(sent) \in Results /\ Star(sent).reply = FALSE /\ PrintResult(Star(sent))
          /\ pc = "recvfrom" /\ pc' = "probe" /\ probe' = probe + 1 /\ UNCHANGED <<ttl, reached>>
      BY <1>2, <2>6 DEF TraceInv, TypeOK, GiveUp, Goto, Star, Results, Senders, world
    <3>2. Len(lines) = ttl /\ Len(lines[ttl].results) = probe /\ ~reached
      BY <1>2, <3>1 DEF TraceInv, LoopInv, LineInv
    <3>3. Printed(Star(sent))
      BY <2>0, <3>1, <3>2, PrintPrints
    <3>4. QED
      BY <2>0, <2>b, <3>1, <3>2, <3>3
  <2>7. CASE Discard
    <3>1. UNCHANGED <<pc, ttl, probe, reached, lines>>
      BY <2>7 DEF Discard, world, loop
    <3>2. QED
      BY <2>a, <3>1
  <2>8. CASE Receive
    <3> DEFINE a == Head(buffer)
               r == [of |-> a.n, at |-> sent, from |-> a.from, reply |-> a.reply]
    <3>1. /\ pc = "recvfrom" /\ pc' = "probe" /\ probe' = probe + 1 /\ ttl' = ttl
          /\ reached' = a.reply
      BY <2>8 DEF Receive, Goto, world
    <3>2. Printed(r) /\ a \in Answers
      BY <1>2, <2>8, ReceivePrints
    <3>3. r \in Results /\ r.reply = a.reply
      BY <1>2, <3>2 DEF TraceInv, TypeOK, Answers, Results
    <3>4. Len(lines) = ttl /\ Len(lines[ttl].results) = probe /\ ~reached
      BY <1>2, <3>1 DEF TraceInv, LoopInv, LineInv
    <3> HIDE DEF r
    <3>5. QED
      BY <2>0, <2>b, <3>1, <3>2, <3>3, <3>4
  <2>9. CASE Network
    <3>1. UNCHANGED <<pc, ttl, probe, reached, lines>>
      BY <2>9 DEF Network, Arrive, ArriveForeign, world, loop
    <3>2. QED
      BY <2>a, <3>1
  <2>10. CASE UNCHANGED vars
    BY <2>10, <2>a DEF vars, world, loop, air
  <2>11. QED
    BY <1>2, <2>1, <2>2, <2>3, <2>4, <2>5, <2>6, <2>7, <2>8, <2>9, <2>10
       DEF Next, Main
<1>3. QED
  BY <1>1, <1>2, TraceInvariant, PTL DEF Spec

\* Every finished line has a result for each of its probes; only an echo reply cuts a line
\* short, and that line is the last.
THEOREM LinesStayComplete == Spec => []LinesComplete
<1>1. LineInv => LinesComplete
  BY DEF LineInv
<1>2. QED
  BY <1>1, LineInvariant, PTL

----------------------------------------------------------------------------

\* Some line shows the answer to probe k.
Shown(k) == \E l \in 1..Len(lines) : \E i \in 1..Len(lines[l].results) : lines[l].results[i].of = k

(* Without duplicates every answer is in one place: it can still arrive, or it waits at one *)
(* position of the buffer, or it stands at one place of the output.                         *)
OnePlace ==
    /\ \A p, q \in net : p.n = q.n => p = q
    /\ \A i, j \in 1..Len(buffer) : buffer[i].n # 0 /\ buffer[i].n = buffer[j].n => i = j
    /\ \A p \in net : ~Shown(p.n) /\ \A i \in 1..Len(buffer) : buffer[i].n # p.n
    /\ \A i \in 1..Len(buffer) : buffer[i].n # 0 => ~Shown(buffer[i].n)

OnceInv ==
    /\ duplicates = 0 => OnePlace
    /\ \A k : Shown(k) => k <= sent
    /\ AnswerShownOnce

\* Each place of the output after a result was printed is a place before, or that of the result.
LEMMA PlacesPrinted ==
    ASSUME lines \in Seq(Lines), Len(lines) > 0, NEW r \in Results, Printed(r),
           NEW l \in 1..Len(lines'), NEW i \in 1..Len(lines'[l].results)
    PROVE  \/ /\ l \in 1..Len(lines) /\ i \in 1..Len(lines[l].results)
              /\ lines'[l].results[i] = lines[l].results[i]
           \/ /\ l = Len(lines) /\ i = Len(lines[l].results) + 1
              /\ lines'[l].results[i] = r
<1> DEFINE n == Len(lines)
<1>1. CASE l # n
  <2>1. l \in 1..(n - 1) /\ l \in 1..n /\ lines'[l] = lines[l]
    BY <1>1 DEF Printed
  <2>2. QED
    BY <2>1
<1>2. CASE l = n
  <2>1. lines[n] \in Lines
    OBVIOUS
  <2>2. lines[n].results \in Seq(Results)
    BY <2>1 DEF Lines
  <2>3. lines'[n].results = Append(lines[n].results, r)
    BY DEF Printed
  <2>4. QED
    BY <1>2, <2>2, <2>3
<1>3. QED
  BY <1>1, <1>2

\* A result whose answer is not shown yet can be printed; what is shown then is that answer,
\* or was shown before.
LEMMA OncePrinted ==
    ASSUME AnswerShownOnce, lines \in Seq(Lines), Len(lines) > 0, duplicates' = duplicates,
           NEW r \in Results, Printed(r), duplicates = 0 /\ r.of # 0 => ~Shown(r.of)
    PROVE  /\ AnswerShownOnce'
           /\ \A k : Shown(k)' => Shown(k) \/ k = r.of
<1>1. ASSUME NEW k, Shown(k)' PROVE Shown(k) \/ k = r.of
  <2>1. PICK l \in 1..Len(lines') :
            \E i \in 1..Len(lines'[l].results) : lines'[l].results[i].of = k
    BY <1>1 DEF Shown
  <2>2. PICK i \in 1..Len(lines'[l].results) : lines'[l].results[i].of = k
    BY <2>1
  <2>3. QED
    BY <2>2, PlacesPrinted, SMTT(30) DEF Shown
<1>2. AnswerShownOnce'
  <2>1. ASSUME duplicates = 0,
               NEW l \in 1..Len(lines'), NEW m \in 1..Len(lines'),
               NEW i \in 1..Len(lines'[l].results), NEW j \in 1..Len(lines'[m].results),
               lines'[l].results[i].of # 0,
               lines'[l].results[i].of = lines'[m].results[j].of
        PROVE  l = m /\ i = j
    <3> DEFINE Old(k, h) == /\ k \in 1..Len(lines) /\ h \in 1..Len(lines[k].results)
                            /\ lines'[k].results[h] = lines[k].results[h]
               New(k, h) == /\ k = Len(lines) /\ h = Len(lines[k].results) + 1
                            /\ lines'[k].results[h] = r
    <3>2. (Old(l, i) \/ New(l, i)) /\ (Old(m, j) \/ New(m, j))
      BY PlacesPrinted, SMTT(30)
    <3>3. CASE Old(l, i) /\ Old(m, j)
      BY <2>1, <3>3, SMTT(30) DEF AnswerShownOnce
    <3>4. CASE New(l, i) /\ New(m, j)
      BY <3>4
    <3>5. CASE Old(l, i) /\ New(m, j)
      BY <2>1, <3>5 DEF Shown
    <3>6. CASE New(l, i) /\ Old(m, j)
      BY <2>1, <3>6 DEF Shown
    <3>7. QED
      BY <3>2, <3>3, <3>4, <3>5, <3>6
  <2>2. duplicates' = 0 =>
            \A l, m \in 1..Len(lines') :
                \A i \in 1..Len(lines'[l].results), j \in 1..Len(lines'[m].results) :
                    lines'[l].results[i].of # 0
                        /\ lines'[l].results[i].of = lines'[m].results[j].of
                    => l = m /\ i = j
    <3>1. duplicates' = 0 => duplicates = 0
      OBVIOUS
    <3>2. QED
      BY ONLY <2>1, <3>1
  <2>3. QED
    BY ONLY <2>2 DEF AnswerShownOnce
<1>3. QED
  BY <1>1, <1>2

\* Probes are numbered.
LEMMA ShownIsNat == ASSUME lines \in Seq(Lines) PROVE \A k : Shown(k) => k \in Nat
<1>1. SUFFICES ASSUME NEW l \in 1..Len(lines), NEW i \in 1..Len(lines[l].results)
               PROVE  lines[l].results[i].of \in Nat
  BY DEF Shown
<1>2. lines[l] \in Lines
  OBVIOUS
<1>3. lines[l].results[i] \in Results
  BY <1>2 DEF Lines
<1>4. QED
  BY <1>3 DEF Results

\* A step that prints nothing.
LEMMA OnceUnchanged ==
    ASSUME AnswerShownOnce, lines' = lines, duplicates' = duplicates PROVE AnswerShownOnce'
BY DEF AnswerShownOnce

\* Without duplicates every answer stays in one place.
LEMMA OnceInvariant == Spec => []OnceInv
<1> USE SizesAssumption DEF Labels, Final
<1>1. Init => OnceInv
  BY DEF Init, OnceInv, OnePlace, AnswerShownOnce, Shown
<1>2. ASSUME TraceInv, AnswerInv, OnceInv, [Next]_vars PROVE OnceInv'
  <2>0. /\ AnswerShownOnce /\ duplicates \in Nat
        /\ duplicates = 0 => OnePlace
        /\ \A k : Shown(k) => k <= sent
        /\ sent \in Nat /\ buffer \in Seq(Answers) /\ lines \in Seq(Lines)
        /\ \A p \in net : p.n \in 1..sent
        /\ \A i \in 1..Len(buffer) : buffer[i].n # 0 => buffer[i].n \in 1..sent
    BY <1>2 DEF OnceInv, AnswerInv, TraceInv, TypeOK, Lines
  <2>a. ASSUME UNCHANGED <<sent, net, buffer, duplicates, lines>> PROVE OnceInv'
    <3>1. \A k : Shown(k)' <=> Shown(k)
      BY <2>a DEF Shown
    <3>2. AnswerShownOnce'
      BY <2>0, <2>a, OnceUnchanged
    <3>3. OnePlace' <=> OnePlace
      BY <2>a, <3>1 DEF OnePlace
    <3>4. /\ duplicates' = 0 => OnePlace'
          /\ \A k : Shown(k)' => k <= sent'
      BY <2>0, <2>a, <3>1, <3>3
    <3>5. QED
      BY <3>2, <3>4 DEF OnceInv
  <2>b. ASSUME NEW r \in Results, Printed(r), Len(lines) > 0, r.of = 0,
               UNCHANGED <<sent, net, buffer, duplicates>>
        PROVE  OnceInv'
    <3>1. AnswerShownOnce' /\ \A k : Shown(k)' => Shown(k) \/ k = 0
      BY <2>0, <2>b, OncePrinted
    <3>2. ASSUME duplicates = 0 PROVE OnePlace'
      <4>1. \A p \in net : ~Shown(p.n)'
        BY <2>0, <3>1, <3>2 DEF OnePlace
      <4>2. \A i \in 1..Len(buffer) : buffer[i].n # 0 => ~Shown(buffer[i].n)'
        BY <2>0, <2>b, <3>1, <3>2 DEF OnePlace
      <4>3. QED
        BY <2>0, <2>b, <3>2, <4>1, <4>2 DEF OnePlace
    <3>3. QED
      BY <2>0, <2>b, <3>1, <3>2 DEF OnceInv
  <2>1. CASE ParseArgs \/ QueryDns \/ CreateSocket \/ EndTrace \/ EndLine \/ Close \/ Terminated
    BY <2>1, <2>a DEF ParseArgs, QueryDns, CreateSocket, EndTrace, EndLine, Close, Terminated,
       vars, world, loop, air
  <2>2. CASE StartLine
    <3>1. /\ UNCHANGED <<sent, net, buffer, duplicates>>
          /\ lines' = Append(lines, NewLine)
      BY <2>2 DEF StartLine, world, air
    <3>2. \A l \in 1..Len(lines') : \A i \in 1..Len(lines'[l].results) :
              /\ l \in 1..Len(lines) /\ i \in 1..Len(lines[l].results)
              /\ lines'[l].results[i] = lines[l].results[i]
      BY <2>0, <3>1 DEF NewLine
    <3>3. AnswerShownOnce'
      BY <2>0, <3>1, <3>2 DEF AnswerShownOnce
    <3>4. \A k : Shown(k)' => Shown(k)
      BY <3>2 DEF Shown
    <3>5. QED
      BY <2>0, <3>1, <3>3, <3>4 DEF OnceInv, OnePlace
  <2>3. CASE SendFails
    <3>1. UNCHANGED <<sent, net, buffer, duplicates>>
      BY <2>3 DEF SendFails, world, air
    <3>2. Len(lines) > 0 /\ Star(0) \in Results /\ Star(0).of = 0 /\ PrintResult(Star(0))
      BY <1>2, <2>3 DEF TraceInv, TypeOK, LoopInv, SendFails, Star, Results, Senders
    <3>3. QED
      BY <2>0, <2>b, <3>1, <3>2, PrintPrints
  <2>4. CASE Send
    <3>1. /\ UNCHANGED <<buffer, duplicates, lines>> /\ sent' = sent + 1
          /\ net' = net \cup {[n |-> sent + 1, ttl |-> ttl]}
      BY <2>4 DEF Send, world, loop
    <3>2. ~Shown(sent + 1)
      BY <2>0
    <3>3. \A k : Shown(k)' <=> Shown(k)
      BY <3>1 DEF Shown
    <3>4. duplicates = 0 => OnePlace'
      BY <2>0, <3>1, <3>2, <3>3 DEF OnePlace
    <3>5. \A k : Shown(k)' => k <= sent'
      <4>1. \A k : Shown(k) => k \in Nat
        BY <2>0, ShownIsNat
      <4>2. QED
        BY <2>0, <3>1, <3>3, <4>1
    <3>6. QED
      BY <2>0, <3>1, <3>4, <3>5 DEF OnceInv, AnswerShownOnce
  <2>5. CASE GiveUp
    <3>1. UNCHANGED <<sent, net, buffer, duplicates>>
      BY <2>5 DEF GiveUp, world
    <3>2. Len(lines) > 0 /\ Star(sent) \in Results /\ Star(sent).of = 0 /\ PrintResult(Star(sent))
      BY <1>2, <2>5 DEF TraceInv, TypeOK, LoopInv, GiveUp, Goto, Star, Results, Senders
    <3>3. QED
      BY <2>0, <2>b, <3>1, <3>2, PrintPrints
  <2>6. CASE Discard
    <3>1. UNCHANGED <<sent, net, duplicates, lines>> /\ buffer # <<>> /\ buffer' = Tail(buffer)
      BY <2>6 DEF Discard, world, loop
    <3>2. Len(buffer') = Len(buffer) - 1
          /\ \A i \in 1..Len(buffer') : i + 1 \in 1..Len(buffer) /\ buffer'[i] = buffer[i + 1]
      BY <2>0, <3>1
    <3>3. \A k : Shown(k)' <=> Shown(k)
      BY <3>1 DEF Shown
    <3>4. duplicates = 0 => OnePlace'
      BY <2>0, <3>1, <3>2, <3>3 DEF OnePlace
    <3>5. AnswerShownOnce'
      BY <2>0, <3>1, OnceUnchanged
    <3>6. QED
      BY <2>0, <3>1, <3>3, <3>4, <3>5 DEF OnceInv
  <2>7. CASE Receive
    <3> DEFINE a == Head(buffer)
               r == [of |-> a.n, at |-> sent, from |-> a.from, reply |-> a.reply]
    <3>1. UNCHANGED <<sent, net, duplicates>> /\ buffer # <<>> /\ buffer' = Tail(buffer)
      BY <2>7 DEF Receive, world
    <3>2. Printed(r) /\ a \in Answers
      BY <1>2, <2>7, ReceivePrints
    <3>3. Len(lines) > 0
      BY <1>2, <2>7 DEF TraceInv, TypeOK, LoopInv, Receive, Goto
    <3>4. r \in Results /\ r.of = a.n
      BY <2>0, <3>2 DEF Answers, Results
    <3>5. 1 \in 1..Len(buffer) /\ a = buffer[1]
      BY <2>0, <3>1
    <3>6. /\ Len(buffer') = Len(buffer) - 1
          /\ \A i \in 1..Len(buffer') : i + 1 \in 1..Len(buffer) /\ buffer'[i] = buffer[i + 1]
      BY <2>0, <3>1
    <3>7. duplicates = 0 /\ a.n # 0 => ~Shown(a.n)
      BY <2>0, <3>5 DEF OnePlace
    <3>8. AnswerShownOnce' /\ \A k : Shown(k)' => Shown(k) \/ k = a.n
      <4> HIDE DEF r
      <4> QED
        BY <2>0, <3>1, <3>2, <3>3, <3>4, <3>7, OncePrinted
    <3>9. ASSUME duplicates = 0 PROVE OnePlace'
      <4>1. \A i, j \in 1..Len(buffer') :
                buffer'[i].n # 0 /\ buffer'[i].n = buffer'[j].n => i = j
        BY <2>0, <3>6, <3>9, SMTT(30) DEF OnePlace
      <4>2. \A p \in net' : ~Shown(p.n)' /\ \A i \in 1..Len(buffer') : buffer'[i].n # p.n
        BY <2>0, <3>1, <3>5, <3>6, <3>8, <3>9 DEF OnePlace
      <4>3. ASSUME NEW i \in 1..Len(buffer'), buffer'[i].n # 0 PROVE ~Shown(buffer[i].n)'
        <5>1. i + 1 \in 1..Len(buffer) /\ buffer'[i] = buffer[i + 1] /\ i + 1 # 1
          BY <3>6
        <5>2. buffer[i + 1].n # a.n
          BY <2>0, <3>5, <3>9, <4>3, <5>1 DEF OnePlace
        <5>3. QED
          BY <2>0, <3>8, <3>9, <4>3, <5>1, <5>2 DEF OnePlace
      <4>4. QED
        BY <2>0, <3>1, <3>9, <4>1, <4>2, <4>3 DEF OnePlace
    <3>10. \A k : Shown(k)' => k <= sent'
      BY <2>0, <3>1, <3>5, <3>8
    <3>11. QED
      BY <3>1, <3>8, <3>9, <3>10 DEF OnceInv
  <2>8. CASE Network /\ Arrive
    <3>1. PICK p \in net, from \in Routers, b \in BOOLEAN :
              /\ buffer' = Append(buffer, [n |-> p.n, from |-> from, reply |-> b])
              /\ \/ net' = net \ {p} /\ UNCHANGED duplicates
                 \/ duplicates' = duplicates + 1
      BY <2>8 DEF Arrive
    <3> DEFINE a == [n |-> p.n, from |-> from, reply |-> b]
    <3>2. UNCHANGED <<sent, lines>>
      BY <2>8 DEF Arrive
    <3>3. (\A k : Shown(k)' <=> Shown(k))
      BY <3>2 DEF Shown
    <3>4. CASE net' = net \ {p} /\ UNCHANGED duplicates
      <4>1. /\ Len(buffer') = Len(buffer) + 1 /\ buffer'[Len(buffer) + 1].n = p.n
            /\ \A i \in 1..Len(buffer) : buffer'[i] = buffer[i]
        BY <2>0, <3>1
      <4>2. ASSUME duplicates = 0 PROVE OnePlace'
        <5>1. OnePlace
          BY <2>0, <4>2
        <5>2. \A i, j \in 1..Len(buffer') :
                  buffer'[i].n # 0 /\ buffer'[i].n = buffer'[j].n => i = j
          <6> SUFFICES ASSUME NEW i \in 1..Len(buffer'), NEW j \in 1..Len(buffer'),
                              buffer'[i].n # 0, buffer'[i].n = buffer'[j].n
                       PROVE  i = j
            OBVIOUS
          <6>1. CASE i \in 1..Len(buffer) /\ j \in 1..Len(buffer)
            BY <4>1, <5>1, <6>1 DEF OnePlace
          <6>2. CASE i \in 1..Len(buffer) /\ j = Len(buffer) + 1
            BY <4>1, <5>1, <6>2 DEF OnePlace
          <6>3. CASE i = Len(buffer) + 1 /\ j \in 1..Len(buffer)
            BY <4>1, <5>1, <6>3 DEF OnePlace
          <6>4. QED
            BY <2>0, <4>1, <6>1, <6>2, <6>3
        <5>3. \A q \in net' : ~Shown(q.n)' /\ \A i \in 1..Len(buffer') : buffer'[i].n # q.n
          <6> SUFFICES ASSUME NEW q \in net'
                       PROVE  ~Shown(q.n)' /\ \A i \in 1..Len(buffer') : buffer'[i].n # q.n
            OBVIOUS
          <6>1. q \in net /\ q.n # p.n
            BY <3>4, <5>1 DEF OnePlace
          <6>2. ~Shown(q.n)'
            BY <3>3, <5>1, <6>1 DEF OnePlace
          <6>3. \A i \in 1..Len(buffer) : buffer[i].n # q.n
            BY <5>1, <6>1 DEF OnePlace
          <6>4. QED
            BY <2>0, <4>1, <6>1, <6>2, <6>3
        <5>4. ASSUME NEW i \in 1..Len(buffer'), buffer'[i].n # 0 PROVE ~Shown(buffer[i].n)'
          <6>1. CASE i \in 1..Len(buffer)
            BY <3>3, <4>1, <5>1, <5>4, <6>1 DEF OnePlace
          <6>2. CASE i = Len(buffer) + 1
            BY <3>3, <4>1, <5>1, <6>2 DEF OnePlace
          <6>3. QED
            BY <2>0, <4>1, <6>1, <6>2
        <5>5. \A q, s \in net' : q.n = s.n => q = s
          BY <3>4, <5>1 DEF OnePlace
        <5>6. QED
          BY <5>2, <5>3, <5>4, <5>5 DEF OnePlace
      <4>3. QED
        BY <2>0, <3>2, <3>3, <3>4, <4>2 DEF OnceInv, AnswerShownOnce
    <3>5. CASE duplicates' = duplicates + 1
      <4>1. duplicates' # 0
        BY <2>0, <3>5
      <4>2. QED
        BY <2>0, <3>2, <3>3, <4>1 DEF OnceInv, AnswerShownOnce
    <3>6. QED
      BY <3>1, <3>4, <3>5
  <2>9. CASE Network /\ ArriveForeign
    <3>1. UNCHANGED <<sent, net, duplicates, lines>> /\ buffer' = Append(buffer, Foreign)
      BY <2>9 DEF ArriveForeign, world, loop
    <3>2. /\ Foreign.n = 0 /\ Len(buffer') = Len(buffer) + 1
          /\ buffer'[Len(buffer) + 1] = Foreign
          /\ \A i \in 1..Len(buffer) : buffer'[i] = buffer[i]
      BY <2>0, <3>1 DEF Foreign
    <3>3. \A i \in 1..Len(buffer') :
              buffer'[i].n = 0 \/ (i \in 1..Len(buffer) /\ buffer'[i] = buffer[i])
      BY <2>0, <3>2
    <3>4. \A k : Shown(k)' <=> Shown(k)
      BY <3>1 DEF Shown
    <3>5. \A p \in net : p.n # 0
      BY <2>0
    <3>6. duplicates = 0 => OnePlace'
      BY <2>0, <3>1, <3>3, <3>4, <3>5 DEF OnePlace
    <3>7. QED
      BY <2>0, <3>1, <3>4, <3>6 DEF OnceInv, AnswerShownOnce
  <2>10. CASE UNCHANGED vars
    BY <2>10, <2>a DEF vars, world, loop, air
  <2>11. QED
    BY <1>2, <2>1, <2>2, <2>3, <2>4, <2>5, <2>6, <2>7, <2>8, <2>9, <2>10
       DEF Next, Main, Network
<1>3. QED
  BY <1>1, <1>2, TraceInvariant, AnswerInvariant, PTL DEF Spec

\* Without duplicates on the network no answer is reported twice, on any two lines: an answer
\* that comes late is taken out of the buffer by the one probe it is credited to.
THEOREM AnswersShowOnce == Spec => []AnswerShownOnce
<1>1. OnceInv => AnswerShownOnce
  BY DEF OnceInv
<1>2. QED
  BY <1>1, OnceInvariant, PTL

----------------------------------------------------------------------------

\* Line l is exact: every answer is that of the probe it is credited to, and the line names the
\* sender of the first one, or nobody.
ExactLine(l) ==
    /\ \A i \in 1..Len(lines[l].results) :
          lines[l].results[i].of # 0 =>
              /\ lines[l].results[i].of = lines[l].results[i].at
              /\ lines[l].results[i].from \in Routers
    /\ \/ /\ lines[l].shown = NoOne
          /\ \A i \in 1..Len(lines[l].results) : lines[l].results[i].of = 0
       \/ \E i \in 1..Len(lines[l].results) :
             FirstAnswer(l, i) /\ lines[l].shown = lines[l].results[i].from

Exact == \A l \in 1..Len(lines) : ExactLine(l)

(* While every answer finds its own probe waiting, the buffer holds no answer but the one to *)
(* the probe that waits.                                                                     *)
Timely ==
    \A i \in 1..Len(buffer) :
        buffer[i] # Foreign =>
            /\ pc = "recvfrom" /\ buffer[i].n = sent /\ sent # 0 /\ buffer[i].from \in Routers
            /\ \A j \in 1..Len(buffer) : buffer[j] # Foreign => i = j

TimelyInv == ~tardy => Timely /\ Exact

\* A line has one first answer at most.
LEMMA OneFirstAnswer ==
    ASSUME NEW l, NEW i \in Nat \ {0}, NEW j \in Nat \ {0}, FirstAnswer(l, i), FirstAnswer(l, j)
    PROVE  i = j
BY SMTT(30) DEF FirstAnswer

\* A line that is not printed on stays exact.
LEMMA ExactLineKept ==
    ASSUME NEW l, ExactLine(l), lines'[l] = lines[l]
    PROVE  ExactLine(l)'
BY DEF ExactLine, FirstAnswer

\* A star or a timely answer can be printed on an exact line: the line goes on naming the
\* sender of its first answer, which may be the one printed.
LEMMA ExactPrinted ==
    ASSUME Exact, lines \in Seq(Lines), Len(lines) > 0, NEW r \in Results, Printed(r),
           r.of # 0 => r.of = r.at /\ r.from \in Routers,
           lines'[Len(lines)].shown =
               IF r.of # 0 /\ lines[Len(lines)].shown = NoOne THEN r.from
               ELSE lines[Len(lines)].shown
    PROVE  Exact'
<1> DEFINE n == Len(lines)
           old == lines[n].results
           new == lines'[n].results
<1>1. /\ Len(lines') = n
      /\ \A l \in 1..n : l = n \/ (l \in 1..(n - 1) /\ lines'[l] = lines[l])
  BY DEF Printed
<1>2. n \in 1..n /\ lines[n] \in Lines
  OBVIOUS
<1>3. old \in Seq(Results)
  BY <1>2 DEF Lines
<1>4. new = Append(old, r)
  BY DEF Printed
<1>5. /\ Len(new) = Len(old) + 1 /\ new[Len(old) + 1] = r
      /\ \A i \in 1..Len(old) : new[i] = old[i]
  BY <1>3, <1>4
<1>6. ExactLine(n)
  BY <1>2 DEF Exact
<1>7. \A i \in 1..Len(new) :
          new[i].of # 0 => new[i].of = new[i].at /\ new[i].from \in Routers
  <2>1. \A i \in 1..Len(old) : old[i].of # 0 => old[i].of = old[i].at /\ old[i].from \in Routers
    BY <1>6 DEF ExactLine
  <2> HIDE DEF n, old, new
  <2> SUFFICES ASSUME NEW i \in 1..Len(new), new[i].of # 0
               PROVE  new[i].of = new[i].at /\ new[i].from \in Routers
    OBVIOUS
  <2>2. i = Len(old) + 1 \/ i \in 1..Len(old)
    BY <1>3, <1>5
  <2>3. CASE i = Len(old) + 1
    BY <1>5, <2>3
  <2>4. CASE i \in 1..Len(old)
    BY <1>5, <2>1, <2>4
  <2>5. QED
    BY <2>2, <2>3, <2>4
<1>8. ExactLine(n)'
  <2>1. CASE lines[n].shown = NoOne /\ \A i \in 1..Len(old) : old[i].of = 0
    <3>1. CASE r.of = 0
      <4>1. lines'[n].shown = NoOne
        BY <2>1, <3>1
      <4>2. \A i \in 1..Len(new) : new[i].of = 0
        <5> HIDE DEF n, old, new
        <5>1. \A i \in 1..Len(new) : i = Len(old) + 1 \/ i \in 1..Len(old)
          BY <1>3, <1>5
        <5>2. QED
          BY <1>5, <2>1, <3>1, <5>1
      <4>3. QED
        BY <1>1, <1>7, <4>1, <4>2 DEF ExactLine
    <3>2. CASE r.of # 0
      <4>1. lines'[n].shown = new[Len(new)].from
        BY <1>5, <2>1, <3>2
      <4>2. new[Len(new)].of # 0 /\ \A j \in 1..(Len(new) - 1) : new[j].of = 0
        <5> HIDE DEF n, old, new
        <5>1. Len(new) - 1 = Len(old)
          BY <1>3, <1>5
        <5>2. QED
          BY <1>5, <2>1, <3>2, <5>1
      <4>3. Len(new) \in 1..Len(new)
        BY <1>3, <1>5
      <4>4. QED
        BY <1>1, <1>7, <4>1, <4>2, <4>3 DEF ExactLine, FirstAnswer
    <3>3. QED
      BY <3>1, <3>2
  <2>2. CASE \E i \in 1..Len(old) : FirstAnswer(n, i) /\ lines[n].shown = old[i].from
    <3>1. PICK i \in 1..Len(old) : FirstAnswer(n, i) /\ lines[n].shown = old[i].from
      BY <2>2
    <3>2. old[i].of # 0 /\ \A j \in 1..(i - 1) : old[j].of = 0
      BY <3>1 DEF FirstAnswer
    <3>3. lines[n].shown # NoOne
      BY <1>6, <3>1, <3>2, RoutersAssumption DEF ExactLine
    <3>4. lines'[n].shown = new[i].from
      BY <1>5, <3>1, <3>3
    <3>5. i \in 1..Len(new) /\ new[i].of # 0 /\ \A j \in 1..(i - 1) : new[j].of = 0
      <4> HIDE DEF n, old, new
      <4>1. i \in 1..Len(new) /\ \A j \in 1..(i - 1) : j \in 1..Len(old)
        BY <1>3, <1>5
      <4>2. QED
        BY <1>5, <3>2, <4>1
    <3>6. QED
      BY <1>1, <1>7, <3>4, <3>5 DEF ExactLine, FirstAnswer
  <2>3. QED
    BY <1>6, <2>1, <2>2 DEF ExactLine
<1>9. QED
  BY <1>1, <1>8, ExactLineKept DEF Exact

\* SendFails and GiveUp leave the sender of the line.
LEMMA PrintKeepsSender ==
    ASSUME lines \in Seq(Lines), Len(lines) > 0, NEW r \in Results, PrintResult(r)
    PROVE  lines'[Len(lines)].shown = lines[Len(lines)].shown
<1> DEFINE n == Len(lines)
<1>1. n \in 1..Len(lines) /\ lines[n] \in Lines
  OBVIOUS
<1>2. lines' = [lines EXCEPT ![n] = [lines[n] EXCEPT !.results = Append(lines[n].results, r)]]
  BY DEF PrintResult
<1>3. QED
  BY <1>1, <1>2 DEF Lines

\* Receive shows the sender of the answer if the line has none.
LEMMA ReceiveShowsSender ==
    ASSUME TraceInv, Receive
    PROVE  lines'[Len(lines)].shown =
               IF lines[Len(lines)].shown = NoOne THEN Head(buffer).from
               ELSE lines[Len(lines)].shown
<1>1. lines \in Seq(Lines)
  BY DEF TraceInv, TypeOK, Lines
<1>2. Len(lines) = ttl /\ ttl \in 1..(MaxTtl + 1)
  BY DEF TraceInv, TypeOK, LoopInv, Receive, Goto
<1>3. Len(lines) \in 1..Len(lines)
  BY <1>1, <1>2, SizesAssumption
<1>4. QED
  BY <1>1, <1>3 DEF Receive

\* Timely answers are exact.
LEMMA TimelyInvariant == Spec => []TimelyInv
<1> USE SizesAssumption DEF Labels, Final
<1>1. Init => TimelyInv
  BY DEF Init, TimelyInv, Timely, Exact
<1>2. ASSUME TraceInv, AnswerInv, TimelyInv, [Next]_vars PROVE TimelyInv'
  <2>0. /\ sent \in Nat /\ ttl \in Nat /\ tardy \in BOOLEAN
        /\ buffer \in Seq(Answers) /\ lines \in Seq(Lines)
        /\ \A p \in net : p.n \in 1..sent
    BY <1>2 DEF AnswerInv, TraceInv, TypeOK, Lines
  <2>1. SUFFICES ASSUME ~tardy' PROVE (Timely /\ Exact)'
    BY DEF TimelyInv
  <2>2. ~tardy
    BY <1>2, <2>0, <2>1 DEF Next, Main, Network, Terminated, ParseArgs, QueryDns, CreateSocket,
       StartLine, EndTrace, EndLine, SendFails, Send, GiveUp, Discard, Receive, Close,
       Arrive, ArriveForeign, vars, world, air
  <2>3. Timely /\ Exact
    BY <1>2, <2>2 DEF TimelyInv
  <2>a. ASSUME UNCHANGED lines PROVE Exact'
    BY <2>3, <2>a, ExactLineKept DEF Exact
  <2>b. ASSUME UNCHANGED <<sent, net, buffer>>, pc # "recvfrom", pc' # "recvfrom" PROVE Timely'
    BY <2>3, <2>b DEF Timely
  <2>c. ASSUME Len(lines) > 0, NEW r \in Results, r.of = 0, PrintResult(r)
        PROVE  Exact'
    BY <2>0, <2>3, <2>c, PrintPrints, PrintKeepsSender, ExactPrinted
  <2>5. CASE ParseArgs \/ QueryDns \/ CreateSocket \/ EndTrace \/ EndLine \/ Close
    <3>1. /\ UNCHANGED <<sent, net, buffer, lines>>
          /\ pc # "recvfrom" /\ pc' # "recvfrom"
      BY <2>5 DEF ParseArgs, QueryDns, CreateSocket, EndTrace, EndLine, Close, Goto, air
    <3>2. QED
      BY <2>a, <2>b, <3>1
  <2>6. CASE Terminated \/ UNCHANGED vars
    <3>1. UNCHANGED <<pc, ttl, sent, net, buffer, lines>>
      BY <2>6 DEF Terminated, vars, loop, air
    <3>2. Timely'
      BY <2>3, <3>1 DEF Timely, Foreign
    <3>3. QED
      BY <2>a, <3>1, <3>2
  <2>7. CASE StartLine
    <3>1. /\ UNCHANGED <<sent, net, buffer>> /\ pc = "hop" /\ pc' = "probe"
          /\ lines' = Append(lines, NewLine)
      BY <2>7 DEF StartLine, Goto, air
    <3>2. \A l \in 1..Len(lines') :
              \/ l \in 1..Len(lines) /\ lines'[l] = lines[l]
              \/ lines'[l].shown = NoOne /\ lines'[l].results = <<>>
      BY <2>0, <3>1 DEF NewLine
    <3>3. Exact'
      <4> SUFFICES ASSUME NEW l \in 1..Len(lines') PROVE ExactLine(l)'
        BY DEF Exact
      <4>1. CASE l \in 1..Len(lines) /\ lines'[l] = lines[l]
        BY <2>3, <4>1, ExactLineKept DEF Exact
      <4>2. CASE lines'[l].shown = NoOne /\ lines'[l].results = <<>>
        BY <4>2 DEF ExactLine
      <4>3. QED
        BY <3>2, <4>1, <4>2
    <3>4. QED
      BY <2>b, <3>1, <3>3
  <2>8. CASE SendFails
    <3>1. UNCHANGED <<sent, net, buffer>> /\ pc = "probe" /\ pc' = "probe"
      BY <2>8 DEF SendFails, air
    <3>2. Len(lines) > 0 /\ Star(0) \in Results /\ Star(0).of = 0 /\ PrintResult(Star(0))
      BY <1>2, <2>8 DEF TraceInv, TypeOK, LoopInv, SendFails, Star, Results, Senders
    <3>3. QED
      BY <2>b, <2>c, <3>1, <3>2
  <2>9. CASE Send
    <3>1. UNCHANGED <<buffer, lines>> /\ pc = "probe"
      BY <2>9 DEF Send, Goto
    <3>2. \A i \in 1..Len(buffer) : buffer[i] = Foreign
      BY <2>3, <3>1 DEF Timely
    <3>3. Timely'
      BY <3>1, <3>2 DEF Timely, Foreign
    <3>4. QED
      BY <2>a, <3>1, <3>3
  <2>10. CASE GiveUp
    <3>1. /\ UNCHANGED <<sent, net, buffer>> /\ pc' = "probe"
          /\ \A i \in 1..Len(buffer) : buffer[i] = Foreign
      BY <2>1, <2>10 DEF GiveUp, Goto
    <3>2. Timely'
      BY <3>1 DEF Timely, Foreign
    <3>3. Len(lines) > 0 /\ Star(sent) \in Results /\ Star(sent).of = 0 /\ PrintResult(Star(sent))
      BY <1>2, <2>10 DEF TraceInv, TypeOK, LoopInv, GiveUp, Goto, Star, Results, Senders
    <3>4. QED
      BY <2>c, <3>2, <3>3
  <2>11. CASE Discard
    <3>1. /\ UNCHANGED <<pc, ttl, sent, net, lines>>
          /\ buffer # <<>> /\ buffer' = Tail(buffer)
      BY <2>11 DEF Discard, loop
    <3>2. Len(buffer') = Len(buffer) - 1
          /\ \A i \in 1..Len(buffer') : i + 1 \in 1..Len(buffer) /\ buffer'[i] = buffer[i + 1]
      BY <2>0, <3>1
    <3>3. \A i \in 1..Len(buffer') :
              buffer'[i] # Foreign =>
                  /\ pc' = "recvfrom" /\ buffer'[i].n = sent /\ sent # 0
                  /\ buffer'[i].from \in Routers
                  /\ \A j \in 1..Len(buffer') : buffer'[j] # Foreign => i = j
      BY <2>3, <3>1, <3>2 DEF Timely
    <3>4. Timely'
      BY <3>1, <3>3 DEF Timely, Foreign
    <3>5. QED
      BY <2>a, <3>1, <3>4
  <2>12. CASE Receive
    <3> DEFINE a == Head(buffer)
               r == [of |-> a.n, at |-> sent, from |-> a.from, reply |-> a.reply]
               n == Len(lines)
    <3>1. /\ sent' = sent /\ pc' = "probe"
          /\ buffer # <<>> /\ a # Foreign /\ buffer' = Tail(buffer)
      BY <2>12 DEF Receive, Goto
    <3>2. Printed(r) /\ a \in Answers
      BY <1>2, <2>12, ReceivePrints
    <3>3. n = ttl /\ n > 0
      BY <1>2, <2>12 DEF TraceInv, TypeOK, LoopInv, Receive, Goto
    <3>4. 1 \in 1..Len(buffer) /\ a = buffer[1]
      BY <2>0, <3>1
    <3>5. /\ a.n = sent /\ sent # 0 /\ a.from \in Routers
          /\ \A j \in 1..Len(buffer) : buffer[j] # Foreign => j = 1
      BY <2>3, <3>1, <3>4 DEF Timely
    <3>6. lines'[n].shown = IF lines[n].shown = NoOne THEN a.from ELSE lines[n].shown
      BY <1>2, <2>12, ReceiveShowsSender
    <3>7. /\ r \in Results /\ r.of = r.at /\ r.of # 0 /\ r.from \in Routers
          /\ lines'[n].shown = IF r.of # 0 /\ lines[n].shown = NoOne THEN r.from
                               ELSE lines[n].shown
      BY <2>0, <3>2, <3>5, <3>6 DEF Answers, Results
    <3>8. Exact'
      <4> HIDE DEF r
      <4> QED
        BY <2>0, <2>3, <3>2, <3>3, <3>7, ExactPrinted
    <3>9. \A i \in 1..Len(buffer') : buffer'[i] = Foreign
      BY <2>0, <3>1, <3>5
    <3>10. Timely'
      BY <3>1, <3>9 DEF Timely, Foreign
    <3>11. QED
      BY <3>8, <3>10
  <2>13. CASE Network /\ Arrive
    <3>1. PICK p \in net, from \in Routers, b \in BOOLEAN :
              /\ buffer' = Append(buffer, [n |-> p.n, from |-> from, reply |-> b])
              /\ tardy' = (tardy \/ pc # "recvfrom" \/ p.n # sent
                            \/ \E i \in 1..Len(buffer) : buffer[i].n = p.n)
      BY <2>13 DEF Arrive
    <3>2. UNCHANGED <<pc, sent, lines>>
      BY <2>13 DEF Arrive
    <3>3. /\ pc = "recvfrom" /\ p.n = sent /\ sent # 0
          /\ \A i \in 1..Len(buffer) : buffer[i].n # sent
      <4>1. pc = "recvfrom" /\ p.n = sent /\ \A i \in 1..Len(buffer) : buffer[i].n # p.n
        BY <2>1, <2>2, <3>1
      <4>2. p.n \in 1..sent
        BY <2>0
      <4>3. QED
        BY <2>0, <4>1, <4>2
    <3>4. \A i \in 1..Len(buffer) : buffer[i] = Foreign
      BY <2>3, <3>3 DEF Timely
    <3>5. \A i \in 1..Len(buffer') :
              buffer'[i] # Foreign =>
                  i = Len(buffer) + 1 /\ buffer'[i].n = sent /\ buffer'[i].from \in Routers
      BY <2>0, <3>1, <3>3, <3>4
    <3>6. Timely'
      BY <3>2, <3>3, <3>5 DEF Timely, Foreign
    <3>7. QED
      BY <2>a, <3>2, <3>6
  <2>14. CASE Network /\ ArriveForeign
    <3>1. UNCHANGED <<pc, ttl, sent, net, lines>> /\ buffer' = Append(buffer, Foreign)
      BY <2>14 DEF ArriveForeign, loop
    <3>2. \A i \in 1..Len(buffer') :
              buffer'[i] # Foreign => i \in 1..Len(buffer) /\ buffer'[i] = buffer[i]
      BY <2>0, <3>1
    <3>3. Timely'
      BY <2>3, <3>1, <3>2 DEF Timely, Foreign
    <3>4. QED
      BY <2>a, <3>1, <3>3
  <2>15. QED
    BY <1>2, <2>5, <2>6, <2>7, <2>8, <2>9, <2>10, <2>11, <2>12, <2>13, <2>14 DEF Next, Main, Network
<1>3. QED
  BY <1>1, <1>2, TraceInvariant, AnswerInvariant, PTL DEF Spec

\* As long as each answer finds its own probe waiting, each result is that of the probe it is
\* credited to, and a line names the router that answered the first answered probe of this
\* very line, whichever routers answer the others.
THEOREM ExactWhileTimely == Spec => []ExactWhenTimely
<1>1. ASSUME TimelyInv PROVE ExactWhenTimely
  <2>1. SUFFICES ASSUME Exact, NEW l \in 1..Len(lines)
                 PROVE  /\ \A r \in AnswersOf(l) : r.of = r.at
                        /\ AnswersOf(l) = {} => lines[l].shown = NoOne
                        /\ \A i \in 1..Len(lines[l].results) :
                              FirstAnswer(l, i) => lines[l].shown = lines[l].results[i].from
    BY <1>1 DEF TimelyInv, ExactWhenTimely
  <2>2. ExactLine(l)
    BY <2>1 DEF Exact
  <2>3. \A r \in AnswersOf(l) : r.of = r.at
    BY <2>2 DEF ExactLine, AnswersOf, ResultsOf
  <2>4. AnswersOf(l) = {} => lines[l].shown = NoOne
    <3>1. ASSUME NEW i \in 1..Len(lines[l].results), FirstAnswer(l, i)
          PROVE  lines[l].results[i] \in AnswersOf(l)
      BY <3>1 DEF FirstAnswer, AnswersOf, ResultsOf
    <3>2. QED
      BY <2>2, <3>1 DEF ExactLine
  <2>5. ASSUME NEW i \in 1..Len(lines[l].results), FirstAnswer(l, i)
        PROVE  lines[l].shown = lines[l].results[i].from
    <3>1. lines[l].results[i].of # 0
      BY <2>5 DEF FirstAnswer
    <3>2. PICK j \in 1..Len(lines[l].results) :
              FirstAnswer(l, j) /\ lines[l].shown = lines[l].results[j].from
      BY <2>2, <3>1 DEF ExactLine
    <3>3. i = j
      BY <2>5, <3>2, OneFirstAnswer
    <3>4. QED
      BY <3>2, <3>3
  <2>6. QED
    BY <2>3, <2>4, <2>5
<1>2. QED
  BY <1>1, TimelyInvariant, PTL
=============================================================================
