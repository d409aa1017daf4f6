------------------------------- MODULE FtPing -------------------------------
(***************************************************************************)
(* ft_ping: one process that sends ICMP echo requests one at a time, waits *)
(* up to a second for each answer, and prints a summary from its SIGINT    *)
(* handler.                                                                *)
(*                                                                         *)
(* Three actors interleave: the main flow (one action per store or call    *)
(* that the handler can observe), the SIGINT handler, and the network.     *)
(*                                                                         *)
(* The file defines _POSIX_C_SOURCE alone, so glibc's signal() has the     *)
(* System V meaning: the disposition returns to the default when a signal  *)
(* is delivered, the signal is not blocked while the handler runs, and     *)
(* interrupted system calls are not restarted.                             *)
(***************************************************************************)
EXTENDS Integers, Sequences, FiniteSetsExt

CONSTANTS
    Argvs,      \* the command lines (without argv[0]) that are tried
    Names,      \* host names that can be given as destination
    Hosts,      \* IPv4 addresses
    RTTs,       \* round-trip times that can be measured
    Infinity,   \* the initial value of rtt_min
    W,          \* the ICMP sequence number is taken modulo W (2^16)
    MaxProbes   \* bound: probes sent

NoName == "no name"

ASSUME HostsAssumption == NoName \notin Hosts /\ Names \cap Hosts = {}
ASSUME ArgvsAssumption == Argvs \subseteq Seq({"-?", "-v"} \cup Names \cup Hosts)
ASSUME RTTsAssumption == /\ RTTs \subseteq Nat \ {0}
                         /\ Infinity \in Nat
                         /\ \A r \in RTTs : r < Infinity
ASSUME BoundsAssumption == W \in Nat \ {0} /\ MaxProbes \in Nat

VARIABLES
    pc,               \* where the main flow is
    argv,             \* the command line
    dest,             \* the destination as typed
    ip,               \* the address it resolves to
    disp,             \* disposition of SIGINT: "default" or "handler"
    handler,          \* "active" while handle_sigint runs: main is suspended
    running,          \* g_stats.running
    stats,            \* the counters and round-trip times of g_stats
    resolve_hostname, \* g_stats.resolve_hostname
    hostname,         \* g_stats.hostname, NoName while fqdn_cached is false
    sequence,         \* the 16-bit sequence of the last probe
    got,              \* got_reply of the current iteration
    reply,            \* the answer accepted last: its sender, probe and rtt
    wire,             \* the echo requests that left the host
    counted,          \* history: the answers counted by received++
    lines,            \* the reply lines printed: sender and name shown
    summaries         \* what handle_sigint printed

cmdline == <<argv, dest, ip>>
sigs    == <<disp, handler>>
names   == <<resolve_hostname, hostname>>
recvd   == <<got, reply>>
output  == <<lines, summaries>>
rest    == <<cmdline, sigs, running, stats, names, sequence, recvd, wire, counted, output>>
vars == <<pc, rest>>

Final == {"exit_success", "exit_failure", "killed"}
Labels == Final \cup
    {"signal", "parse_args", "query_dns", "strcmp", "socket", "reset_running", "reset",
     "while", "transmit", "sendto", "wait", "recvfrom", "waited", "received", "rtt_min",
     "rtt_max", "rtt_sum", "rtt_sq_sum", "get_cache_hostname", "print", "sleep", "close"}

Fresh == [transmitted |-> 0, received |-> 0, rtt_min |-> Infinity, rtt_max |-> 0,
          rtt_sum |-> 0, rtt_sq_sum |-> 0, timed |-> FALSE]

NoReply == [from |-> NoName, req |-> 0, rtt |-> 0]

\* The destination is the last argument that is not an option.
Destinations(a) == {i \in 1..Len(a) : a[i] \notin {"-?", "-v"}}

Init ==
    /\ pc = "signal" /\ argv \in Argvs /\ dest = NoName /\ ip = NoName
    /\ disp = "default" /\ handler = "idle"
    /\ running = TRUE /\ stats = Fresh
    /\ resolve_hostname = FALSE /\ hostname = NoName
    /\ sequence = 0 /\ got = FALSE /\ reply = NoReply
    /\ wire = {}
    /\ counted = <<>> /\ lines = {} /\ summaries = {}

\* The main flow is at `from` and goes on to `to`; it is suspended while the handler runs.
Goto(from, to) == handler = "idle" /\ pc = from /\ pc' = to

----------------------------------------------------------------------------
(* Start-up *)

InstallHandler ==
    /\ Goto("signal", "parse_args")
    /\ disp' = "handler"
    /\ UNCHANGED <<cmdline, handler, running, stats, names, sequence, recvd, wire, counted, output>>

ParseArgs ==
    /\ \/ /\ Goto("parse_args", "exit_failure")
          /\ \/ Destinations(argv) = {}
             \/ \E i \in 1..Len(argv) : argv[i] = "-?"
          /\ UNCHANGED dest
       \/ /\ Goto("parse_args", "query_dns")
          /\ \A i \in 1..Len(argv) : argv[i] # "-?"
          /\ \E i \in Destinations(argv) :
                /\ \A j \in Destinations(argv) : j <= i
                /\ dest' = argv[i]
    /\ UNCHANGED <<argv, ip, sigs, running, stats, names, sequence, recvd, wire, counted, output>>

\* getaddrinfo (or malloc) fails, or gives an address; an address stands for itself.
QueryDns ==
    /\ \/ Goto("query_dns", "exit_failure") /\ UNCHANGED ip
       \/ /\ Goto("query_dns", "strcmp")
          /\ ip' \in IF dest \in Hosts THEN {dest} ELSE Hosts
    /\ UNCHANGED <<argv, dest, sigs, running, stats, names, sequence, recvd, wire, counted, output>>

CompareDestination ==
    /\ Goto("strcmp", "socket")
    /\ resolve_hostname' = (dest # ip)
    /\ UNCHANGED <<cmdline, sigs, running, stats, hostname, sequence, recvd, wire, counted, output>>

\* socket() or setsockopt() may fail.
CreateSocket ==
    /\ Goto("socket", "exit_failure") \/ Goto("socket", "reset_running")
    /\ UNCHANGED rest

ResetRunning ==
    /\ Goto("reset_running", "reset")
    /\ running' = TRUE
    /\ UNCHANGED <<cmdline, sigs, stats, names, sequence, recvd, wire, counted, output>>

\* The other stores of reset_run_stats rewrite the initial values, so their order
\* among themselves cannot be observed; the last of them stamps start_time.
ResetStats ==
    /\ Goto("reset", "while")
    /\ stats' = [Fresh EXCEPT !.timed = TRUE]
    /\ hostname' = NoName
    /\ UNCHANGED <<cmdline, sigs, running, resolve_hostname, sequence, recvd, wire, counted, output>>

----------------------------------------------------------------------------
(* The probing loop *)

\* Mutant: the loop relies on the test after wait_for_reply alone.
LoopTestAlways ==
    /\ Goto("while", "transmit") /\ stats.transmitted < MaxProbes
    /\ UNCHANGED rest

LoopTest ==
    /\ \/ Goto("while", "transmit") /\ running /\ stats.transmitted < MaxProbes
       \/ Goto("while", "close") /\ ~running
    /\ UNCHANGED rest

\* Mutant: the sequence number is wider than its field and never wraps.
CountTransmittedUnwrapped ==
    /\ Goto("transmit", "sendto")
    /\ sequence' = sequence + 1
    /\ stats' = [stats EXCEPT !.transmitted = @ + 1]
    /\ UNCHANGED <<cmdline, sigs, running, names, recvd, wire, counted, output>>

CountTransmitted ==
    /\ Goto("transmit", "sendto")
    /\ sequence' = (sequence + 1) % W
    /\ stats' = [stats EXCEPT !.transmitted = @ + 1]
    /\ UNCHANGED <<cmdline, sigs, running, names, recvd, wire, counted, output>>

\* A failed sendto goes straight to the next iteration.
SendTo ==
    /\ \/ Goto("sendto", "while") /\ UNCHANGED wire
       \/ /\ Goto("sendto", "wait")
          /\ wire' = wire \cup {[seq |-> sequence, req |-> stats.transmitted]}
    /\ UNCHANGED <<cmdline, sigs, running, stats, names, sequence, recvd, counted, output>>

WaitTest ==
    /\ \/ Goto("wait", "recvfrom") /\ running /\ UNCHANGED got
       \/ Goto("wait", "waited") /\ ~running /\ got' = FALSE
    /\ UNCHANGED <<cmdline, sigs, running, stats, names, sequence, reply, wire, counted, output>>

\* Mutant: any echo reply with our identifier is taken for the answer.
AcceptAnySequence ==
    /\ Goto("recvfrom", "waited")
    /\ \E p \in wire, h \in Hosts, t \in RTTs : reply' = [from |-> h, req |-> p.req, rtt |-> t]
    /\ got' = TRUE
    /\ UNCHANGED <<cmdline, sigs, running, stats, names, sequence, wire, counted, output>>

\* An echo reply with our identifier and the current sequence is accepted, whoever sent
\* it. Answers are never taken off the wire: they are lost, late or duplicated freely.
Accept ==
    /\ Goto("recvfrom", "waited")
    /\ \E p \in wire, h \in Hosts, t \in RTTs :
          /\ p.seq = sequence
          /\ reply' = [from |-> h, req |-> p.req, rtt |-> t]
    /\ got' = TRUE
    /\ UNCHANGED <<cmdline, sigs, running, stats, names, sequence, wire, counted, output>>

\* Anything else that recvfrom returns (an error, a short packet, another ICMP type, the
\* answer to another process or to another probe) starts a new wait.
Discard ==
    /\ Goto("recvfrom", "wait")
    /\ UNCHANGED rest

TimeOut ==
    /\ Goto("recvfrom", "waited")
    /\ got' = FALSE
    /\ UNCHANGED <<cmdline, sigs, running, stats, names, sequence, reply, wire, counted, output>>

\* Mutant: a probe that is not answered is waited for again.
AfterWaitRetries ==
    /\ \/ Goto("waited", "close") /\ ~running
       \/ Goto("waited", "wait") /\ running /\ ~got
       \/ Goto("waited", "received") /\ running /\ got
    /\ UNCHANGED rest

AfterWait ==
    /\ \/ Goto("waited", "close") /\ ~running
       \/ Goto("waited", "while") /\ running /\ ~got
       \/ Goto("waited", "received") /\ running /\ got
    /\ UNCHANGED rest

CountReceived ==
    /\ Goto("received", "rtt_min")
    /\ stats' = [stats EXCEPT !.received = @ + 1]
    /\ counted' = Append(counted, [at |-> stats.transmitted, req |-> reply.req, rtt |-> reply.rtt])
    /\ UNCHANGED <<cmdline, sigs, running, names, sequence, recvd, wire, output>>

\* Mutant: update_rtt tests the maximum only when the minimum did not change.
UpdateRttMinElse ==
    /\ Goto("rtt_min", IF reply.rtt < stats.rtt_min THEN "rtt_sum" ELSE "rtt_max")
    /\ stats' = [stats EXCEPT !.rtt_min = IF reply.rtt < @ THEN reply.rtt ELSE @]
    /\ UNCHANGED <<cmdline, sigs, running, names, sequence, recvd, wire, counted, output>>

\* update_rtt: four stores that the handler can separate.
UpdateRttMin ==
    /\ Goto("rtt_min", "rtt_max")
    /\ stats' = [stats EXCEPT !.rtt_min = IF reply.rtt < @ THEN reply.rtt ELSE @]
    /\ UNCHANGED <<cmdline, sigs, running, names, sequence, recvd, wire, counted, output>>

UpdateRttMax ==
    /\ Goto("rtt_max", "rtt_sum")
    /\ stats' = [stats EXCEPT !.rtt_max = IF reply.rtt > @ THEN reply.rtt ELSE @]
    /\ UNCHANGED <<cmdline, sigs, running, names, sequence, recvd, wire, counted, output>>

UpdateRttSum ==
    /\ Goto("rtt_sum", "rtt_sq_sum")
    /\ stats' = [stats EXCEPT !.rtt_sum = @ + reply.rtt]
    /\ UNCHANGED <<cmdline, sigs, running, names, sequence, recvd, wire, counted, output>>

UpdateRttSqSum ==
    /\ Goto("rtt_sq_sum", "get_cache_hostname")
    /\ stats' = [stats EXCEPT !.rtt_sq_sum = @ + reply.rtt * reply.rtt]
    /\ UNCHANGED <<cmdline, sigs, running, names, sequence, recvd, wire, counted, output>>

\* The name of the first sender is kept for good; so is the first failure to find one.
GetCacheHostname ==
    /\ Goto("get_cache_hostname", "print")
    /\ \/ (~resolve_hostname \/ hostname # NoName) /\ UNCHANGED names
       \/ /\ resolve_hostname /\ hostname = NoName
          /\ \/ hostname' = reply.from /\ UNCHANGED resolve_hostname
             \/ resolve_hostname' = FALSE /\ UNCHANGED hostname
    /\ UNCHANGED <<cmdline, sigs, running, stats, sequence, recvd, wire, counted, output>>

PrintReply ==
    /\ Goto("print", "sleep")
    /\ lines' = lines \cup
          {[from |-> reply.from, name |-> IF resolve_hostname THEN hostname ELSE NoName]}
    /\ UNCHANGED <<cmdline, sigs, running, stats, names, sequence, recvd, wire, counted, summaries>>

\* Mutant: after a reply the loop collects further answers to the same probe.
SleepThenCollect == Goto("sleep", "wait") /\ UNCHANGED rest

Sleep ==
    /\ Goto("sleep", "while")
    /\ UNCHANGED rest

Close ==
    /\ Goto("close", "exit_success")
    /\ UNCHANGED rest

----------------------------------------------------------------------------
(* Signals *)

\* A SIGINT under the default disposition kills the process. Otherwise the handler starts
\* and the disposition returns to the default. A blocked recvfrom fails with EINTR; one
\* that was about to be called still blocks.
Sigint ==
    /\ pc \notin Final
    /\ \/ /\ disp = "default"
          /\ pc' = "killed"
          /\ handler' = "idle"
          /\ UNCHANGED disp
       \/ /\ disp = "handler"
          /\ disp' = "default"
          /\ handler' = "active"
          /\ pc' \in IF pc = "recvfrom" THEN {"recvfrom", "wait"} ELSE {pc}
    /\ UNCHANGED <<cmdline, running, stats, names, sequence, recvd, wire, counted, output>>

\* Mutant: the handler prints and leaves running alone.
HandleSigintPrintsOnly ==
    /\ handler = "active"
    /\ handler' = "idle"
    /\ summaries' = summaries \cup {stats}
    /\ UNCHANGED <<pc, cmdline, disp, running, stats, names, sequence, recvd, wire, counted, lines>>

HandleSigint ==
    /\ handler = "active"
    /\ handler' = "idle"
    /\ summaries' = summaries \cup {stats}
    /\ running' = FALSE
    /\ UNCHANGED <<pc, cmdline, disp, stats, names, sequence, recvd, wire, counted, lines>>

Main ==
    \/ InstallHandler \/ ParseArgs \/ QueryDns \/ CompareDestination \/ CreateSocket
    \/ ResetRunning \/ ResetStats
    \/ LoopTest \/ CountTransmitted \/ SendTo
    \/ WaitTest \/ Accept \/ Discard \/ TimeOut \/ AfterWait
    \/ CountReceived \/ UpdateRttMin \/ UpdateRttMax \/ UpdateRttSum \/ UpdateRttSqSum
    \/ GetCacheHostname \/ PrintReply \/ Sleep \/ Close

Terminated == pc \in Final /\ UNCHANGED vars

Next == Main \/ Sigint \/ HandleSigint \/ Terminated

Spec == Init /\ [][Next]_vars

(* The scheduler lets the process run and a started handler finish; a user need *)
(* never press Ctrl+C. Main as a whole is weakly fair: recvfrom always has an   *)
(* outcome within its one-second timeout, and which one is up to the network.   *)
FairSpec == Spec /\ WF_vars(Main) /\ WF_vars(HandleSigint)

----------------------------------------------------------------------------
(* Properties *)

Counters == [transmitted : Nat, received : Nat, rtt_min : Nat, rtt_max : Nat,
             rtt_sum : Nat, rtt_sq_sum : Nat, timed : BOOLEAN]
Replies == [from : Hosts \cup {NoName}, req : Nat, rtt : RTTs \cup {0}]
Counted == [at : Nat, req : Nat, rtt : RTTs \cup {0}]

\* Every variable of ft_ping keeps to its type.
TypeOK ==
    /\ pc \in Labels
    /\ argv \in Argvs
    /\ dest \in Names \cup Hosts \cup {NoName} /\ ip \in Hosts \cup {NoName}
    /\ disp \in {"default", "handler"} /\ handler \in {"idle", "active"}
    /\ running \in BOOLEAN /\ stats \in Counters
    /\ resolve_hostname \in BOOLEAN /\ hostname \in Hosts \cup {NoName}
    /\ sequence \in 0..(W - 1)
    /\ got \in BOOLEAN /\ reply \in Replies
    /\ wire \subseteq [seq : 0..(W - 1), req : Nat]
    /\ counted \in Seq(Counted)
    /\ lines \subseteq [from : Hosts \cup {NoName}, name : Hosts \cup {NoName}]
    /\ summaries \subseteq Counters

\* No more replies are counted than probes, in the counters and in what the handler
\* prints: the unsigned subtraction in its packet-loss formula (line 133) cannot wrap.
CountersOrdered ==
    /\ stats.received <= stats.transmitted
    /\ \A s \in summaries : s.received <= s.transmitted

\* A counted reply answers a probe that was sent, with the sequence number of the probe
\* it is credited to: a late or duplicated answer to an earlier probe is never taken for
\* an answer to the current one, short of the sequence number coming round again.
AnswerBelongsToProbe ==
    \A i \in 1..Len(counted) :
        LET c == counted[i] IN /\ c.req \in 1..c.at
                               /\ c.req % W = c.at % W

\* Duplicated answers do not inflate the count: a probe is counted at most once.
ProbeCountedOnce ==
    \A i, j \in 1..Len(counted) : i < j => counted[i].at < counted[j].at

\* Once the handler has run inside the probing loop, the loop ends within the iteration
\* it is in: at most one more probe leaves, or one more reply is counted, never both.
StopBounds ==
    \A s \in summaries :
        s.timed => (stats.transmitted - s.transmitted) + (stats.received - s.received) <= 1

\* What the round-trip fields should hold after the first n of these replies.
Measured(replies, n) ==
    LET rtt == [i \in 1..n |-> replies[i].rtt]
        rtt_sq == [i \in 1..n |-> rtt[i] * rtt[i]]
    IN  [rtt_min |-> Min({Infinity} \cup Range(rtt)),
         rtt_max |-> Max({0} \cup Range(rtt)),
         rtt_sum |-> SumFunction(rtt),
         rtt_sq_sum |-> SumFunction(rtt_sq)]

\* However the handler interrupts update_rtt, each round-trip field of the summary is
\* that of all the replies it counts, or of all but the last: it lags by one at most.
SummaryLagsByOne ==
    \A s \in summaries :
        LET n == s.received
        IN  \A f \in {"rtt_min", "rtt_max", "rtt_sum", "rtt_sq_sum"} :
                \/ s[f] = Measured(counted, n)[f]
                \/ n > 0 /\ s[f] = Measured(counted, n - 1)[f]

\* While nobody stops it, ft_ping keeps sending, whichever probes and answers are lost,
\* unless packets that are not the answer arrive for ever: each of them makes
\* wait_for_reply call recvfrom, and its one-second timeout starts afresh.
KeepsProbing ==
    \/ []<><<Discard>>_vars
    \/ \A n \in 0..(MaxProbes - 1) :
          stats.timed /\ stats.transmitted = n ~> stats.transmitted > n \/ disp = "default"

\* The part of ft_ping that its user sees, see Pinger. The summaries are those that the
\* handler printed after reset_run_stats; a probe is open from transmitted++ on.
Promise == INSTANCE Pinger WITH
    phase    <- CASE pc = "exit_success" -> "closed"
                  [] pc \in {"exit_failure", "killed"} -> "dead"
                  [] OTHER -> IF stats.timed THEN "probing" ELSE "starting",
    sent     <- stats.transmitted,
    answered <- stats.received,
    open     <- pc \in {"sendto", "wait", "recvfrom", "waited", "received"},
    stop     <- IF ~stats.timed \/ disp = "handler" THEN "none"
                ELSE IF handler = "active" THEN "asked" ELSE "taken",
    summary  <- {[transmitted |-> s.transmitted, received |-> s.received] :
                    s \in {t \in summaries : t.timed}}

\* ft_ping implements Pinger: of all the interleavings of loop, handler and network, the
\* user sees only sessions that keep that promise, the second Ctrl+C included.
KeepsPromise == Promise!Spec

\* README.md: "Use `Ctrl+C` to stop and display the summary." (violated: a Ctrl+C before
\* reset_run_stats prints a summary, and line 113 then sets running again.)
CtrlCStops ==
    \A s \in summaries : stats.transmitted <= s.transmitted + 1
=============================================================================
