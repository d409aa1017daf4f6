------------------------------- MODULE Pinger -------------------------------
(***************************************************************************)
(* What ft_ping promises its user, without signals, sockets or program     *)
(* counters: probes are answered at most once and one at a time; one       *)
(* Ctrl+C while probing yields one summary of the counts of that moment,   *)
(* after which at most one more count changes and the session closes; only *)
(* a second Ctrl+C takes the session away.                                 *)
(***************************************************************************)
EXTENDS Naturals

VARIABLES
    phase,      \* "starting", "probing", "closed", or "dead"
    sent,       \* probes counted
    answered,   \* replies counted
    open,       \* whether the current probe may still be answered
    stop,       \* the Ctrl+C that is listened to: "none", "asked", or "taken"
    summary     \* the counts printed, at most once

vars == <<phase, sent, answered, open, stop, summary>>

Counts == [transmitted : Nat, received : Nat]

Init ==
    /\ phase = "starting" /\ sent = 0 /\ answered = 0 /\ open = FALSE
    /\ stop = "none" /\ summary = {}

\* A Ctrl+C during start-up may already have used up the one that is listened to.
Start ==
    /\ phase = "starting" /\ phase' = "probing"
    /\ stop' \in {"none", "taken"}
    /\ UNCHANGED <<sent, answered, open, summary>>

Abort ==
    /\ phase = "starting" /\ phase' = "dead"
    /\ UNCHANGED <<sent, answered, open, stop, summary>>

\* Nothing was counted since the summary was printed.
UpToDate == \A s \in summary : s = [transmitted |-> sent, received |-> answered]

Send ==
    /\ phase = "probing" /\ ~open /\ UpToDate
    /\ open' = TRUE /\ sent' = sent + 1
    /\ UNCHANGED <<phase, answered, stop, summary>>

Answer ==
    /\ phase = "probing" /\ open /\ UpToDate
    /\ open' = FALSE /\ answered' = answered + 1
    /\ UNCHANGED <<phase, sent, stop, summary>>

GiveUp ==
    /\ phase = "probing" /\ open
    /\ open' = FALSE
    /\ UNCHANGED <<phase, sent, answered, stop, summary>>

Interrupt ==
    /\ phase = "probing" /\ stop = "none"
    /\ stop' = "asked"
    /\ UNCHANGED <<phase, sent, answered, open, summary>>

Summarise ==
    /\ phase = "probing" /\ stop = "asked"
    /\ stop' = "taken"
    /\ summary' = {[transmitted |-> sent, received |-> answered]}
    /\ UNCHANGED <<phase, sent, answered, open>>

\* Without a summary of its counts a session closes only if it counted nothing.
Close ==
    /\ phase = "probing" /\ ~open /\ stop = "taken"
    /\ summary # {} \/ sent = 0
    /\ phase' = "closed"
    /\ UNCHANGED <<sent, answered, open, stop, summary>>

Kill ==
    /\ phase = "probing" /\ stop # "none"
    /\ phase' = "dead" /\ open' = FALSE /\ stop' = "taken"
    /\ UNCHANGED <<sent, answered, summary>>

Next ==
    \/ Start \/ Abort \/ Send \/ Answer \/ GiveUp \/ Interrupt \/ Summarise \/ Close \/ Kill

\* A Ctrl+C while probing is acted on, and what has printed its summary ends.
Prompt ==
    /\ stop = "asked" ~> stop = "taken"
    /\ summary # {} ~> phase \in {"closed", "dead"}

Safety == Init /\ [][Next]_vars
Spec == Safety /\ Prompt
=============================================================================
