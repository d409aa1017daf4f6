---------------------------- MODULE FtTraceroute ----------------------------
(***************************************************************************)
(* ft_traceroute: for each time-to-live, a few echo requests are sent one  *)
(* after the other; each is followed by a wait for one answer.             *)
(*                                                                         *)
(* Every request carries the same identifier and sequence number 0, so an  *)
(* answer cannot be told from the answer to another request of the same    *)
(* run: whatever is first in the socket buffer is credited to the request  *)
(* that waits. Answers reach the buffer late, out of order, twice or never,*)
(* and each may come from another router: routes change, are balanced, and *)
(* a router on the way may find the destination unreachable.               *)
(***************************************************************************)
EXTENDS Integers, Sequences

CONSTANTS
    Argvs,          \* the command lines (without argv[0]) that are tried
    MaxTtl,         \* 30 in the code
    ProbesPerHop,   \* 3 in the code
    Routers,        \* the addresses answers can come from
    NoOne,          \* not an address: nobody's
    Away,           \* per router the fewest hops to it, on any route
    MaxDistance,    \* bound: how far the destination can be
    MaxBuffer,      \* bound: packets in the socket buffer
    MaxForeign,     \* bound: packets of other programs (or too short) in the buffer
    MaxDuplicates   \* bound: answers delivered again

ASSUME SizesAssumption ==
    /\ MaxTtl \in Nat /\ ProbesPerHop \in Nat \ {0} /\ MaxDistance \in Nat
    /\ MaxBuffer \in Nat /\ MaxForeign \in Nat /\ MaxDuplicates \in Nat
ASSUME RoutersAssumption == NoOne \notin Routers /\ Away \in [Routers -> Nat \ {0}]
ASSUME ArgvsAssumption == Argvs \subseteq Seq({"--help", "host"})

VARIABLES
    pc,         \* where the program is
    argv,       \* the command line
    distance,   \* the fewest hops to the destination, on any route
    ttl,        \* the time-to-live of the current line
    probe,      \* how many probes of the current line are done
    reached,    \* the destination has answered
    sent,       \* how many probes were sent
    net,        \* probes whose answer can still arrive
    buffer,     \* what the socket has received: answers, and 0 for anything else
    foreign,    \* how many packets that are not answers arrived
    duplicates, \* how many answers arrived again
    tardy,      \* history: some answer came, or was left, when its probe was not waiting
    lines       \* the output: per line the sender shown and its results

world == <<argv, distance>>
loop  == <<ttl, probe, reached>>
air   == <<sent, net, buffer, foreign, duplicates, tardy>>
vars  == <<pc, world, loop, air, lines>>

Final == {"exit_success", "exit_failure", "crashed"}
Labels == Final \cup {"parse_args", "query_dns", "socket", "hop", "probe", "recvfrom", "close"}

Foreign == [n |-> 0, from |-> NoOne, reply |-> FALSE]  \* not an answer to this program
Star(n) == [of |-> 0, at |-> n, from |-> NoOne, reply |-> FALSE]
NewLine == [shown |-> NoOne, results |-> <<>>]

Init ==
    /\ pc = "parse_args" /\ argv \in Argvs /\ distance \in 1..MaxDistance
    /\ ttl = 1 /\ probe = 0 /\ reached = FALSE
    /\ sent = 0 /\ net = {} /\ buffer = <<>> /\ foreign = 0 /\ duplicates = 0
    /\ tardy = FALSE /\ lines = <<>>

Goto(from, to) == pc = from /\ pc' = to

----------------------------------------------------------------------------
(* Start-up *)

\* Anything but one argument that is not --help prints the usage, with success.
ParseArgs ==
    /\ Goto("parse_args", IF argv = <<"host">> THEN "query_dns" ELSE "exit_success")
    /\ UNCHANGED <<world, loop, air, lines>>

\* The lookup fails, or its result is copied to memory that malloc may not have given.
QueryDns ==
    /\ \E to \in {"exit_failure", "crashed", "socket"} : Goto("query_dns", to)
    /\ UNCHANGED <<world, loop, air, lines>>

CreateSocket ==
    /\ Goto("socket", "exit_failure") \/ Goto("socket", "hop")
    /\ UNCHANGED <<world, loop, air, lines>>

----------------------------------------------------------------------------
(* The two loops *)

\* Mutant: one line too many.
StartLineTooFar ==
    /\ Goto("hop", "probe")
    /\ ttl <= MaxTtl + 1 /\ ~reached
    /\ probe' = 0
    /\ lines' = Append(lines, NewLine)
    /\ UNCHANGED <<world, ttl, reached, air>>

\* Mutant: identity_printed is declared outside the loop and not reset.
StartLineKeepsIdentity ==
    /\ Goto("hop", "probe")
    /\ ttl <= MaxTtl /\ ~reached
    /\ probe' = 0
    /\ lines' = Append(lines, [shown |-> IF lines = <<>> THEN NoOne ELSE lines[Len(lines)].shown,
                               results |-> <<>>])
    /\ UNCHANGED <<world, ttl, reached, air>>

StartLine ==
    /\ Goto("hop", "probe")
    /\ ttl <= MaxTtl /\ ~reached
    /\ probe' = 0
    /\ lines' = Append(lines, NewLine)
    /\ UNCHANGED <<world, ttl, reached, air>>

EndTrace ==
    /\ Goto("hop", "close")
    /\ ttl > MaxTtl \/ reached
    /\ UNCHANGED <<world, loop, air, lines>>

EndLine ==
    /\ Goto("probe", "hop")
    /\ probe >= ProbesPerHop \/ reached
    /\ ttl' = ttl + 1
    /\ UNCHANGED <<world, probe, reached, air, lines>>

\* One more result on the current line.
PrintResult(result) ==
    lines' = [lines EXCEPT ![Len(lines)].results = Append(@, result)]

\* Mutant: a probe that could not be sent leaves no star.
SendFailsSilently ==
    /\ pc = "probe" /\ probe < ProbesPerHop /\ ~reached
    /\ probe' = probe + 1
    /\ UNCHANGED <<pc, world, ttl, reached, air, lines>>

\* The inner loop goes on while probes are left and the destination has not answered.
\* Setting the time-to-live or sending fails: a star, and the next probe.
SendFails ==
    /\ pc = "probe" /\ probe < ProbesPerHop /\ ~reached
    /\ PrintResult(Star(0))
    /\ probe' = probe + 1
    /\ UNCHANGED <<pc, world, ttl, reached, air>>

\* Mutant: the time-to-live is incremented before it is set.
SendOneFurther ==
    /\ Goto("probe", "recvfrom")
    /\ probe < ProbesPerHop /\ ~reached
    /\ sent' = sent + 1
    /\ net' = net \cup {[n |-> sent + 1, ttl |-> ttl + 1]}
    /\ UNCHANGED <<world, loop, buffer, foreign, duplicates, tardy, lines>>

Send ==
    /\ Goto("probe", "recvfrom")
    /\ probe < ProbesPerHop /\ ~reached
    /\ sent' = sent + 1
    /\ net' = net \cup {[n |-> sent + 1, ttl |-> ttl]}
    /\ UNCHANGED <<world, loop, buffer, foreign, duplicates, tardy, lines>>

\* Mutant: every receive error is retried.
GiveUpNever == pc = "recvfrom" /\ UNCHANGED vars

\* The receive timeout (the buffer is empty), or an error other than EINTR (which may leave
\* an answer behind): a star, and the next probe.
GiveUp ==
    /\ Goto("recvfrom", "probe")
    /\ PrintResult(Star(sent))
    /\ probe' = probe + 1
    /\ tardy' = (tardy \/ \E i \in 1..Len(buffer) : buffer[i] # Foreign)
    /\ UNCHANGED <<world, ttl, reached, sent, net, buffer, foreign, duplicates>>

Discard ==
    /\ pc = "recvfrom" /\ buffer # <<>> /\ Head(buffer) = Foreign
    /\ buffer' = Tail(buffer)
    /\ UNCHANGED <<pc, world, loop, sent, net, foreign, duplicates, tardy, lines>>

\* Mutant: the answer is left in the socket buffer.
ReceivePeeks ==
    /\ Goto("recvfrom", "probe")
    /\ buffer # <<>> /\ Head(buffer) # Foreign
    /\ LET a == Head(buffer)
       IN  /\ PrintResult([of |-> a.n, at |-> sent, from |-> a.from, reply |-> a.reply])
           /\ reached' = a.reply
    /\ probe' = probe + 1
    /\ UNCHANGED <<world, ttl, air>>

\* The first answer in the buffer is credited to the probe that waits. The line shows the
\* sender of its first answer only.
Receive ==
    /\ Goto("recvfrom", "probe")
    /\ buffer # <<>> /\ Head(buffer) # Foreign
    /\ LET a == Head(buffer)
           line == lines[Len(lines)]
       IN  /\ lines' = [lines EXCEPT ![Len(lines)] =
                 [shown   |-> IF line.shown = NoOne THEN a.from ELSE line.shown,
                  results |-> Append(line.results,
                                     [of |-> a.n, at |-> sent, from |-> a.from, reply |-> a.reply])]]
           /\ reached' = a.reply
    /\ buffer' = Tail(buffer)
    /\ probe' = probe + 1
    /\ UNCHANGED <<world, ttl, sent, net, foreign, duplicates, tardy>>

Close ==
    /\ Goto("close", "exit_success")
    /\ UNCHANGED <<world, loop, air, lines>>

----------------------------------------------------------------------------
(* The network *)

\* The answer to a probe reaches the socket. A probe that gets to the destination can bring an
\* echo reply. Any router within its time-to-live can answer that the time is exceeded or the
\* destination unreachable, which counts as an intermediate hop; two probes of a line need not
\* take the same route. The answer may arrive again later.
Arrive ==
    /\ \E p \in net, from \in Routers, r \in BOOLEAN :
          /\ Away[from] <= p.ttl
          /\ r => p.ttl >= distance
          /\ buffer' = Append(buffer, [n |-> p.n, from |-> from, reply |-> r])
          /\ tardy' = (tardy \/ pc # "recvfrom" \/ p.n # sent
                        \/ \E i \in 1..Len(buffer) : buffer[i].n = p.n)
          /\ \/ net' = net \ {p} /\ UNCHANGED duplicates
             \/ /\ duplicates < MaxDuplicates
                /\ duplicates' = duplicates + 1
                /\ UNCHANGED net
    /\ UNCHANGED <<pc, world, loop, sent, foreign, lines>>

ArriveForeign ==
    /\ foreign < MaxForeign
    /\ foreign' = foreign + 1
    /\ buffer' = Append(buffer, Foreign)
    /\ UNCHANGED <<pc, world, loop, sent, net, duplicates, tardy, lines>>

Main ==
    \/ ParseArgs \/ QueryDns \/ CreateSocket
    \/ StartLine \/ EndTrace \/ EndLine
    \/ SendFails \/ Send \/ GiveUp \/ Discard \/ Receive \/ Close

Network == pc \notin Final /\ Len(buffer) < MaxBuffer /\ (Arrive \/ ArriveForeign)

Terminated == pc \in Final /\ UNCHANGED vars

Next == Main \/ Network \/ Terminated

Spec == Init /\ [][Next]_vars

(* The scheduler lets the program run; the receive timeout always gives recvfrom an *)
(* outcome, and nothing is asked of the network.                                    *)
FairSpec == Spec /\ WF_vars(Main)

----------------------------------------------------------------------------
(* Properties *)

Senders == Routers \cup {NoOne}
Answers == [n : Nat, from : Senders, reply : BOOLEAN]
Results == [of : Nat, at : Nat, from : Senders, reply : BOOLEAN]

\* Every variable of ft_traceroute keeps to its type.
TypeOK ==
    /\ pc \in Labels /\ argv \in Argvs /\ distance \in 1..MaxDistance
    /\ ttl \in 1..(MaxTtl + 1) /\ probe \in 0..ProbesPerHop /\ reached \in BOOLEAN
    /\ sent \in Nat /\ net \subseteq [n : Nat, ttl : 1..MaxTtl]
    /\ buffer \in Seq(Answers) /\ foreign \in 0..MaxForeign
    /\ duplicates \in 0..MaxDuplicates /\ tardy \in BOOLEAN
    /\ lines \in Seq([shown : Senders, results : Seq(Results)])

ResultsOf(l) == {lines[l].results[i] : i \in 1..Len(lines[l].results)}
AnswersOf(l) == {r \in ResultsOf(l) : r.of # 0}

\* Late, duplicated and reordered answers may be credited to a later probe, never to an
\* earlier one: a line has no answer from a router beyond its time-to-live, and the destination
\* is reported no nearer than it is.
ResultsWithinTtl ==
    \A l \in 1..Len(lines) : \A r \in AnswersOf(l) :
        /\ r.of \in 1..r.at
        /\ r.from \in Routers /\ Away[r.from] <= l
        /\ r.reply => distance <= l

\* Result i of line l is the first answer of its line.
FirstAnswer(l, i) ==
    /\ lines[l].results[i].of # 0
    /\ \A j \in 1..(i - 1) : lines[l].results[j].of = 0

\* As long as each answer finds its own probe waiting, each result is that of the probe it is
\* credited to, and a line names the router that answered the first answered probe of this
\* very line, and none without an answer. The other answers of the line may come from
\* routers it does not name.
ExactWhenTimely ==
    ~tardy =>
        \A l \in 1..Len(lines) :
            /\ \A r \in AnswersOf(l) : r.of = r.at
            /\ AnswersOf(l) = {} => lines[l].shown = NoOne
            /\ \A i \in 1..Len(lines[l].results) :
                  FirstAnswer(l, i) => lines[l].shown = lines[l].results[i].from

\* Without duplicates on the network no answer is reported twice, on any two lines.
AnswerShownOnce ==
    duplicates = 0 =>
        \A l, m \in 1..Len(lines) :
            \A i \in 1..Len(lines[l].results), j \in 1..Len(lines[m].results) :
                LET r == lines[l].results[i]
                    q == lines[m].results[j]
                IN  r.of # 0 /\ r.of = q.of => l = m /\ i = j

\* Every finished line has a result, a time or a star, for each of its probes; only an
\* echo reply cuts a line short, and that line is the last.
LinesComplete ==
    \A l \in 1..Len(lines) :
        LET n == Len(lines[l].results) IN
        /\ \A i \in 1..n : lines[l].results[i].reply => i = n /\ l = Len(lines) /\ reached
        /\ l < ttl => n = ProbesPerHop \/ (n > 0 /\ lines[l].results[n].reply)

\* The trace ends, whatever is lost, late, repeated or foreign (a bounded number of times).
Terminates == <>(pc \in Final)
=============================================================================
