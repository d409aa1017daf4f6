# Verification of 42-projects

TLA+ models of the programs of this repository that have behaviour worth checking, the TLC
runs over small instances of them, and theorems proved with TLAPS for instances of every size.

    tlasany M.tla                      # parse
    tlc -workers 2 -config X.cfg M     # model-check
    tlapm FtPingProofs.tla             # prove (a minute or two)

## 1. Inventory

| Part | State | Operations | Hard behaviour |
|---|---|---|---|
| `ft_ping` | `g_stats` (counters, times, host-name cache, `running`), the session (socket, sequence), the SIGINT disposition | start-up, probing loop, `wait_for_reply`, `update_rtt`, `get_cache_hostname`, `handle_sigint` | the handler runs between any two stores of the main flow; answers are lost, late, duplicated; the 16-bit sequence wraps |
| `ft_traceroute` | the two loop counters, `reached`, the socket buffer | one line per time-to-live, three probes per line, wait for one answer each | probes cannot be told apart, so a late answer is credited to a later probe; two probes of a line are answered by different routers; receive errors; a timeout that restarts |
| `ft_ls` parsing | flags, the list of paths | `parse_flags`, `parse_arguments` | options after paths, illegal letters, allocation failures |
| `ft_ls` execution | the call stack of `handle_recursive`, one allocated list per activation | `exec_ls`, `list_directory`, `get_subdirs`, `free_dir_list` | every directory is read twice while other processes remove files; recursion over lists that are sorted in place |
| `ft_ls` sorting | linked lists | `split_list`, `sorted_merge`, `merge_sort`, the comparisons | ties, dots, letter case, boundary lengths |
| `ft_ls` long format | the texts it allocates | `print_long_format`, `handle_long_format`, `print_files` | owners and groups without a name |
| `libft` | memory of the caller; blocks it allocates | the `mem...` and `strl...` functions, `ft_printf`, numbers to text and back, `ft_split`, `ft_strtrim`, `ft_lstmap` | overlapping areas, the last byte of a buffer, the smallest int, a `malloc` that fails half-way |
| ICMP checksum | the packet buffer of a session, kept between probes | `prepare_packet_sequence`, `checksum` | carries that are folded in, a field that holds the previous checksum |
| `cloud-1` playbooks | the `.env` file, the EC2 instances, the files on each | `setup.yaml` with `inception-playbook.yaml`, `clean.yaml` | a playbook fails or is interrupted between any two tasks and is run again |
| `cloud-1` containers | two data volumes, `wp-config.php`, the database server | start-up scripts of MariaDB and WordPress | the scripts run at the same time with sleeps for coordination; commands that fail; crashes between two commands |
| `ComputorV1` | a dictionary from powers to coefficients | parse, reduce, degree, solve | powers whose coefficients cancel; a test for zero on rounded floats |
| `Bgp`, `kfs1` | configurations; constants | none | not modelled: no program logic of their own |

The programs do not call each other. Inside `ft_ping` the main flow and the handler share
`g_stats`; both network programs share a raw socket with every other ICMP user of the host;
`ft_ls` shares the file system with other processes. The two playbooks of `cloud-1` share `.env`,
which also reaches the containers; MariaDB and WordPress meet in the database server; and the
playbooks end and bring back the machine that the containers live on. `ft_ls` prints through
`ft_printf` and sorts, joins and copies names with `libft`.

What makes each part correct: `ft_ping` must count each probe and each answer once, stop when
told, and print a summary of what it measured; a `ft_traceroute` line must not claim more than
the answers support, and the trace must end; `ft_ls` must show every directory it was asked
for, once, in the right order, must not report errors that did not happen, and must end with
its memory returned; cleaning up `cloud-1` must work from every state and make the next setup
work, its start-up scripts must be repeatable, and the site must be installed under the address
of its own machine; a `libft` function must write exactly what its man page says, and a line of
`ls -l` must tell the file; `computor.py` must answer for the degree the equation has.

`PROJECT.json` lists the hazards at their lines.

## 2. Modules

| Module | Models | Extends |
|---|---|---|
| `FtPing` | `ft_ping.c`: main flow, handler, network | |
| `Pinger` | abstract: what a session of `ft_ping` promises its user | |
| `FtPingProofs` | theorems about `FtPing`, and that it implements `Pinger` | `FtPing`, `DataLemmas` |
| `FtTraceroute` | `ft_traceroute.c`: the program and the network | |
| `FtTracerouteProofs` | theorems about it | `FtTraceroute` |
| `LsSort` | comparisons and merge sort of `ft_ls`, as operators | |
| `MCLsSort` | one sort of one directory, and the reference order | `LsSort` |
| `FtLs` | arguments, listing and recursion of `ft_ls`, concurrent removals, failing allocations | `LsSort` |
| `FtLsProofs` | theorems about `FtLs` and about `MCLsSort` | `FtLs`, `MCLsSort`, `DataLemmas` |
| `LibftMemory` | the functions of `libft` that write to memory, byte by byte | |
| `LibftNumbers` | numbers to text and back, `ft_printf`, as operators | |
| `LibftStrings` | searching, copying, splitting and trimming strings, `ft_lstmap`, as operators | |
| `LsLong` | the text of a listing, with and without `-l` | `LibftNumbers` |
| `MCLibft` | one call of any of these, and the references | `LibftMemory`, `LibftStrings`, `LsLong` |
| `LibftProofs` | theorems about all of these | `MCLibft`, `DataLemmas` |
| `IcmpChecksum` | `checksum()` of both network programs, and the packet of `ft_ping` between probes | |
| `IcmpChecksumProofs` | theorems about it | `IcmpChecksum`, `DataLemmas` |
| `DataLemmas` | quotients, finite sums, least and greatest elements, functions defined by recursion or that go down step by step | |
| `CloudPlaybooks` | the Ansible playbooks | |
| `CloudBoot` | the start-up scripts of the stateful containers | |
| `Cloud` | both together: the containers live on the instance the playbooks deployed | `CloudPlaybooks`, instance of `CloudBoot` |
| `CloudProofs` | theorems about the whole | `Cloud` |
| `Computor` | `computor.py` | |
| `ComputorProofs` | theorems about it | `Computor`, `DataLemmas` |
| `MCFtPing`, `MCFtTraceroute`, `MCFtLs`, `MCComputor` | instances for TLC | the module they name |

Definitions that begin with `Mutant:` in their comment are plausible bugs of the code that the
properties must detect. They are used by no specification.

### FtPing

`pc` is the point the main flow has reached; there is one action per store or call that the
handler can observe. `update_rtt` is four actions and `reset_run_stats` two (the store to
`running`, and the rest, whose order among themselves cannot be seen because they rewrite
the initial values). The handler is two steps: `Sigint` delivers the signal and suspends the
main flow, `HandleSigint` reads the statistics, prints, and clears `running`.

The file defines `_POSIX_C_SOURCE` and nothing else, so `signal()` of glibc has its System V
meaning: the disposition returns to the default at delivery, and a second SIGINT kills the
process, even inside the handler. System calls are not restarted. A signal during `recvfrom`
may also arrive just before the call blocks, so `Sigint` leaves `pc` at `recvfrom` or moves it
to `wait`.

The network is the set `wire` of requests that left. An answer is never taken off it: loss,
delay and duplication are the choices of which member answers, if any. The ICMP sequence is
taken modulo `W` (2^16 in the code), so that an old answer can match a new probe. Other
packets may arrive without end: `Discard` takes one and waits again. Times are natural
numbers: `double` arithmetic is not modelled. The identifier is assumed to be ours alone on
the host; the code takes the low 16 bits of the process id.

### Pinger

A session as its user sees it, without signals, sockets or labels: probes are sent one at a time
and answered at most once; one Ctrl+C while probing yields one summary, of the counts of that
moment; at most one more count changes after it, and the session closes. Only a second Ctrl+C
takes it away. `FtPing` implements it under the mapping `Promise`, at the end of that module: a
probe is open from `transmitted++` to `received++` or the end of the wait, and only summaries
printed after `reset_run_stats` count. `CtrlCStops` (violated) is about the others.

### FtTraceroute

`buffer` is the socket buffer in order of arrival; an element is an answer (with the probe it
belongs to, the router that sent it, whether it is an echo reply) or `Foreign`. All probes have
the same identifier and sequence 0, and that is why `Receive` credits whatever is first.
`lines` is the output. `tardy` is a history variable: some answer arrived, or was left in the
buffer, at a moment its own probe was not waiting for it.

The code takes a time-exceeded or an unreachable from anybody, and so does `Arrive`: any router
whose distance `Away` is within the time-to-live of the probe may answer it, with routes that
change or are balanced from one probe to the next, and a router on the way that reports the
destination unreachable. Nothing ties the answers of a line to one sender. The line names the
router of its first answer; that the others may be somebody else's is what the code does, and
`ExactWhenTimely` says no more than whom the line names.

### LsSort and MCLsSort

Names are sequences of ASCII codes and lists are sequences, so `split_list` is two subsequences,
and `sorted_merge` and `merge_sort` are functions defined by recursion on pairs of lists and on
lists. `MCLsSort` sorts every list of distinct names once, under each combination of `r` and `t`,
and compares the outcome with an order defined without recursion on dots. On names that begin with
two dots `ft_strcasecmp` is not transitive; the order is stated for the others, the loss of nodes
for all. The reference is the order of `ls`, in which `-r` reverses whatever order there is. With
`-r` and `-t` together the code does not keep to it: `apply_sort` takes the order of `-r` and
looks at no time, so `SortedByReference` leaves that combination out; the two other properties
include it. The recursion of `ft_strcasecmp` is a function on pairs of positions, one in each
name. Names are assumed to be strings of the codes 1 to 127, as C strings of ASCII are, and times
to be integers. The specification is named `SortSpec` so that `FtLsProofs` can extend it together
with `FtLs`.

### FtLs

A frame of `stack` is an activation of `handle_recursive`: its path, the label it has reached,
its list of subdirectories and what is left of it from `tmp` on. `Lstat`, `List`, `GetSubdirs`,
`Visit` and `FreeDirList` are its steps in order. Reading a directory is one step, in which
any set of entries (up to `MaxRemovals` over the run) may disappear between `readdir` and
`lstat`; between steps `RemoveNode` removes more. Directories are removed only when empty.

`GetSubdirs` chooses the entry that was read last, and the loop starts there; the
subdirectories passed over are recorded in `skipped` (history). This is what the code does,
and `ls_skipped` shows what it means to a user.

Lists are sorted by the operator `MergeSort` of `LsSort`, from one order of reading. The
assumption on names (no two entries of a directory differ in case or a leading dot only) makes the
result the same for every other order, which `ls_sort` checks. The files are a finite tree: no node
is in two directories, and none is below itself.

A directory that is an argument twice, or whose parent is an argument too, is listed twice by
right; `ListedOnce` and `DepthFirst` are about the other command lines (`Apart`).

Up to `MaxFailures` calls of `malloc` fail, anywhere, any number of them in one listing. The code
checks some of them: a path that cannot be allocated drops its entry silently, a node crashes the
program at once, a name crashes it if the sort compares that name and is shown as `(null)`
otherwise. `Nameless` files end a long listing in a crash, after the lines before them. `crashed`
is a final state like the two exits.

Not modelled in `FtLs`: creation and renaming of files; `opendir` failing for a reason that
comes and goes; the text of a line, which is in `LsLong`.

### LibftMemory

An arena of `Size` cells; `Call` chooses a function and any arguments its man page allows
(`Legal`), and each further step is one pass of a loop of the code, reading what earlier passes
may have overwritten. `start` remembers the memory at the call. The `size_t` sizes are never
negative, so the wrap of `i = -1` in `ft_memmove` is only its start before 0.

### LibftNumbers, LibftStrings, LsLong and MCLibft

Functions without a memory of their own are operators on sequences of bytes; one that allocates
returns the room it asked for as well as the text, so that a text that does not fit shows.
`int` and `long` have `IntBits` and `LongBits` bits, and every conversion wraps as the processor's
do. `LsLong` prints through the operator `Printf`, format by format as the code does. Loops and
recursion are recursive functions, which the proofs can reason about.
`MCLibft` makes one call of one function per behaviour. Its files have a day of the month of one
digit or of two, since `ctime` pads the first with a blank.

What the code does and its references exclude: `ft_printf` counts only the last digit of a `%ld`;
`ft_atoi` is compared below the point where its unsigned sum wraps; `ft_split` loses the words
it has when a `malloc` fails; `ft_lstmap` returns a list without its last node when the last one
fails; `ft_strtrim` reads before an empty string. The smallest `long`, whose negation is
undefined, is not given to `ft_putlongint`, nor a format that ends in a lone `%` to `ft_printf`.

### IcmpChecksum

A packet is its 16-bit words, numbers below `B`; the accumulator is taken modulo `B * B`. `Add`
is one pass of the loop, `Store` both folds and the complement. `Prepare` writes the next
sequence number into the same buffer and clears the checksum field, as
`prepare_packet_sequence` does; `ft_traceroute` builds its packet anew and clears it too.

### CloudPlaybooks

One action per task that has an effect on `.env`, the instances or the files on them, in the
order of the playbooks; `Abort` ends a playbook at any of them. An instance is the number of
its launch. `hosts` and `urls` are the lines of `.env`: two sequences, since `blockinfile` with an
empty marker adds a block rather than replace one, and since `clean.yaml` removes them in two
tasks. `count: 1` is taken as the module documents it: a new instance at every call. The task
`docker-compose up` is a step per container, in the order of `depends_on` (`StartMariaDb`,
`StartWordPress`, `StartNginx`): it may stop with one or two of them started. One
person runs the playbooks, one at a time; nobody terminates instances by other means.

### CloudBoot

Both scripts run a command per step, and a failing command does not stop them. `grants` and
`content` are what the database volume keeps, `config` is in the other; the database server is
down, starting or up. A statement or a `wp` command has its whole effect or none: none when it
cannot connect or lacks what it needs, and possibly none when it can, for a reason of its own
(`failed` remembers it of the statements of a boot). A statement that already had its effect has
none again: `IF NOT EXISTS` is modelled by what it does. `DbCrash` and `WpCrash` restart a script
from the top (`restart: always`). Sleeps are not modelled, as they order nothing for certain.
`missed` remembers why the one attempt to install WordPress came to nothing. The commands without
a database, `mv`, `sed` and `service mysql stop`, do not fail here.

### Cloud

A step is a task of a playbook or a step of a container. `docker-compose up -d` returns at once,
so the two interleave; a container runs from the moment it is started on the instance, and a clean that
terminates it takes their volumes and database along (`Wiped`). The url that the playbook copied
to the instance is what `wp core install` records in `address`, when it creates the tables.

### Computor

The terms of both sides as the regular expressions split them; `ParseLeft` and `ParseRight` add
one each to the dictionary. The answer is the number and kind of the solutions. A division by
zero in a solver is caught in `main` and answered as a wrong format: `invalid`.

The text holds decimals: a coefficient is a whole number of `1 / Scale`. The program holds floats:
a whole number of `1 / Unit`, where `Unit` is two to the power of `Places`, with at most as many
digits as `Precision` allows (2^53 and 1074 for Python). `Round` is the rounding of IEEE 754 to
the nearest, the even one of two; every conversion, sum, difference and product goes through it,
in the order of the code. Only `b ** 2` goes through `pow`, which promises one of the two floats
around the square, so `Discriminants` and `SolveDegree2` are sets. Floats have no largest one
here: a coefficient beyond 10^308 is outside the model.

What the code tests, `delta == 0`, is therefore not whether the discriminant of the text is zero:
for `0.1 * X^2 + 0.6 * X^1 + 0.9 * X^0 = 0` it computes about -5.6e-17 and announces two complex
solutions where there is one. `RightUnlessCancelled` says where the answer can be relied on. With
whole coefficients whose square and product stay below `Precision` nothing is rounded and the
answer is that of the equation (`RightForWholes`). With any others a quadratic is answered for its
coefficients as stored as long as their discriminant is no smaller than one rounding of each of
its two products (`RightBeyondRounding`); nothing is said nearer to zero.

## 3. Runs

| Run | Instance | Question |
|---|---|---|
| `ping` | 3 probes, W = 2, 2 times, 2 addresses, 1 name, fair | safety, liveness and the implementation of `Pinger` under any interleaving with SIGINT and any network |
| `ping_lost_stop` | as `ping` | README: Ctrl+C stops and displays the summary (violated) |
| `traceroute` | 2 hops of 2 probes, 2 routers, distance up to 3, buffer of 2, 1 foreign packet, 1 duplicate | what lines may claim, completeness, termination |
| `ls_sort` | lists of up to 4 files, 8 names, 2 times | the sort against its reference order |
| `ls_recursive` | 8 nodes, 2 removals, 1 failing `malloc`, 1 nameless file, 10 command lines | the recursion against a changing tree and a lack of memory |
| `ls_skipped` | as `ls_recursive` | `-R` lists every subdirectory (violated) |
| `libft` | 5 cells of 3 values; `int` of 8 bits, `long` of 10; strings of 3, formats and listings of up to 3 and 2 | every call against a reference stated without its loops |
| `checksum` | 5 words below 5 | does every packet of a session verify |
| `cloud` | 2 launches, 1 crash, fair | cleaning up and setting up again after any interruption, while the containers boot, crash and restart |
| `playbooks_two_instances` | 3 launches, no containers | README: "create (or reuse) ... a single EC2 instance" (violated) |
| `computor` | 4 terms, 5 coefficients in tenths, powers up to 3, floats of 5 binary digits | is the sum right, and the answer where no power cancels and rounding does not decide |
| `computor_cancelled` | as `computor` | README: reduced, then solved by degree (violated) |

Why the bounds are enough. With `W = 2` the sequence wraps after two probes, so a third probe
meets both a stale answer with another sequence and one with its own; two different times make
minimum, maximum and sums differ; a single SIGINT is the only one that reaches the handler, and
further ones kill the process, so their number needs no bound. Two lines of two probes let an
answer cross a line, overtake another and be duplicated; with a router at each of the two hops the
two answers of the second line can come from different ones; distance 3 is beyond the last line.
Lists of three and four files take both the odd and the even split, nested, and every merge
pattern of two pairs; the names cover letter case, one and two dots, a prefix, and a character
that sorts before letters. The tree has two levels, a hidden, an unreadable and an empty
directory, a link to a directory and a file; two removals empty a directory and remove it, or hit
both readings of one. One failing `malloc` can hit every call there is; the theorems allow any
number.

Five words below 5 is the largest packet the assumption `N <= B` allows for that `B`, so the sum
reaches the bound of the theorem, and both folds carry. Five cells hold two overlapping areas, or
two short strings with room for a third; eight bits give every number, its smallest one included,
and a base-10 carry from two to three digits; strings of three have a middle, both ends and two of
anything. Two launches allow an instance that is lost and a second one, whose url comes after the
first in `.env`; the proofs cover the rest. One crash can hit either script at any command; more
would take the run beyond what is practical, and the proofs cover any number. Four terms give a
quadratic in which a power occurs twice, or on both sides. With five binary digits tenths are
rounded as in Python: of the five coefficients three (0.1, 0.6 and 0.9) are no floats, and among
the equations is the one above, whose discriminant is zero until it is computed; two are whole.

`CHECK_DEADLOCK FALSE` appears in the sort, the `libft` and the `computor` runs only: these programs
or calls end. In the other models the end of the program is an explicit self-loop.

Fairness. `ft_ping`: weak fairness of the main flow as a whole and of the handler; `recvfrom`
always has an outcome because of `SO_RCVTIMEO`, and which one it is stays open. Each packet that
is not the answer restarts the timeout, so `KeepsProbing` promises the next probe unless such
packets arrive for ever; nothing bounds them. `ft_traceroute`: weak fairness of the program only;
the network owes nothing. `ft_ls`: one thread that is always ready to run; other processes need
not act. `cloud-1`: each script runs on and a started server comes up in the end while the
instance is deployed; no crash and no playbook is owed.

The four findings, with the lines they are about, are in `PROJECT.json`:

1. A Ctrl+C between `signal()` and `reset_run_stats` prints a summary and is then overwritten.
2. `-R` passes over the subdirectories that sort before the entry `readdir` returned last.
   What does hold is `CompleteUnlessSkipped`: nothing else is missed.
3. Setup interrupted before `.env` is written launches a second instance the next time. What does
   hold is `CleanLeavesNothing`: a clean finds it.
4. `computor.py` takes a power whose coefficients cancel for the degree. What does hold is
   `RightUnlessCancelled`, as far as rounding lets it.

The models also show behaviour that surprises but that no document of the repository excludes
in so many words; the property that bounds it is named:

- A Ctrl+C inside the accounting of a reply prints a summary that counts it without its time;
  no field is more than that one reply behind (`SummaryLagsByOne`).
- `-r` makes `-t` be ignored: `ls -rt` is to list the oldest file first, and `apply_sort` sorts by
  name (`SortedByReference` leaves the combination out).
- A line of `ft_traceroute` names one router, though its answers may come from several
  (`ExactWhenTimely`).
- `computor.py` can announce two complex solutions, or two real ones, where there is one, when the
  coefficients are decimals (`RightBeyondRounding`).
- After a failure in the remote play, setup skips everything and reports success, until a clean
  (`CleanThenSetupDeploys`).
- WordPress is served without being installed when MariaDB is slower than a sleep, when a crash
  comes between `mv` and `wp core install`, or when `wp` fails (`InstalledUnlessMissed`), and no restart
  makes up for it (`RestartsChangeNothing`).
- A clean that stops before the last task leaves the url of a terminated instance in `.env`; the
  next site has its own address all the same, because the later line wins
  (`InstalledAtItsAddress`).
- The first name found for a sender, or the failure to find one, is shown for all later senders.
- `ls -l` crashes at a file whose owner or group has no name (`LongLineReadsBack`).

Hazards in code that is outside the models: the unchecked allocation of an address string in
`ft_traceroute.c:25`, `sendto` failing at once so that `ft_ping` probes without a pause
(`ft_ping.c:338`), `handle_sigint` printing inside another `printf` (`ft_ping.c:144`), one level of
recursion per file in `sorted_merge` (`sorting.c:36`), a link that fills the buffer
(`long_format.c:75`), a product that wraps in `ft_calloc` (`ft_calloc.c:19`) and `free_paths`
freeing pointers that were never set (`parse_args.c:54`; the outcome `crashed` of
`ParseArguments`, which no property is about).

## 4. Proofs

`FtPingProofs`, for every set of command lines, names, addresses and times, every `W` and bound:

- `TypeCorrect`: the type invariant, which is inductive as it stands.
- `CountersStayOrdered`, `AnswersBelong`, `ProbesCountOnce`: from the inductive `CountInv`. None
  of the three is inductive alone. The strengthening says which requests can be on the wire
  (their sequence is their number modulo `W`), that the sequence is the number of probes modulo
  `W`, that an accepted reply belongs to the current probe, and that the current probe is not
  yet counted anywhere between `transmit` and `received`. The arithmetic of `%` for an
  arbitrary `W` is in the lemmas `DivMod` to `ModSuccessor`.
- `StopIsBounded`: from the inductive `StopInv`: once a summary was taken in the loop, `running`
  stays false and what may still be counted depends on the label the flow is at.
- `SummariesLagByOne`: from `LagInv`, which says for each label of `update_rtt` which of the four
  fields cover the replies counted so far and which all but the last, so that whatever the
  handler prints there is one or the other. The fields are sums over the replies; the lemmas
  `SumNext` and `BoundsAdd` say what one more reply adds.
- `ImplementsPinger`: the initial state maps to one of `Pinger`, and every step to a step or a
  stutter. Beyond `StopInv` the mapping needs the inductive `MapInv`: where the loop can be in
  each state of the handler, that counters only grow after a summary, and that without a
  summary a stopped session has sent nothing.

`FtTracerouteProofs`, for every number of hops and probes, every set of routers at any distances, every
distance of the destination and network bound:

- `TypeCorrect`: `TypeOK` needs `LoopInv` (within a line the time-to-live is in range, and the
  output has as many lines as the loop has started).
- `ResultsStayWithinTtl`: from `AnswerInv`, which extends the property to answers that can
  still arrive or wait in the buffer. `WithinTtlPrinted` is its step on the output.
- `LinesStayComplete`: from `LineInv`, which ties the length of the last line to `probe` and
  `reached` to its last result.
- `AnswersShowOnce`: from `OnceInv`: while the network duplicates nothing, each answer is in one
  place, on its way, at one position of the buffer, or at one place of the output
  (`OnePlace`), and no number above `sent` is anywhere. The property alone does not exclude that
  an answer that was shown is still in the buffer.
- `ExactWhileTimely`: from `TimelyInv`: until an answer is tardy, the buffer holds no answer but
  the one to the probe that waits; and the sender that a line shows is that of its first
  result that is an answer, and nobody as long as all are stars.

`IcmpChecksumProofs`, for every word size `B` and every packet of at most `B` words:

- `EveryProbeVerifies`: from `WordsInv`, beside `SumInv`: what was added up is the sum of the words
  read so far with the checksum field still empty; once the checksum is stored, the words of the
  packet add up to that sum and the field (`SumChanged`), which `ChecksumCancels` makes vanish.
- `AccumulatorStaysExact`: the accumulator never wraps.
- `ChecksumAlwaysCancels`: two folds absorb every carry. `TwoFoldsSuffice` shows that the folded
  sum is a word and differs from the sum by a multiple of `B - 1`. Both theorems follow from
  the inductive `SumInv`, which bounds the sum by the number of words added.

`CloudProofs`, for any number of launches and crashes; the invariant `CloudInv` has two halves:

- `PlaybookInv` (a setup's inventory and instance, one site at a time, recorded before it is
  deployed and with its own url the last one, and how far a setup got since the last complete
  clean) gives `CleaningIsComplete`, `SetupIsComplete` and `DeployedStaysRecorded`.
- `BootInv` (which statements the volume holds at each point of MariaDB's script, which edits
  `wp-config.php` holds at each point of WordPress's, and whose address is recorded) gives
  `DatabaseIsProvisioned`, `InstallationIsMissedForAReason`, the action property `ServedStaysPut`
  and, with the first half, `SiteIsAtItsAddress`.

Playbook steps keep `BootInv` because they leave the containers alone or wipe them
(`PlaybooksKeepBoot`), container steps keep `PlaybookInv` because they leave the playbooks alone.

`LibftProofs`, for memory of every size, every alphabet without NUL, strings, formats and listings of
every length, and every width of `int` and `long` (at least 8 bits, `long` the wider):

- `MemoryWrittenAsPromised`: the invariant `MemInv` has a part per loop, which says of each cell
  whether the loop has reached it and what it holds if so. For `ft_memmove` it is the direction
  that keeps the cells still to be read unwritten; for `ft_strlcat` it is that source and room are
  apart, so that its end is found where it was. `LibftMemoryWrittenAsPromised` says the same of
  `MCSpec`, the specification of the run.
- `StringFunctionsMatch`: each loop of `LibftStrings` is first shown to obey its equation (`Descent`),
  then to return the closed form that its man page describes. A word of `ft_split` is a place
  where the string can be cut (`SplitsAt`); the words found so far are the first of all.
- `NumbersAreReadBack`: a number of `w` digits is determined by them (`Width`, `PutDigits`); `ft_itoa`
  counts as many as it writes; `ft_atoi` has, after `k` digits, the number that they make, as long
  as the sum has not wrapped. `ft_printf` sees in a format one directive per part
  (`Directives`), and when it comes to one it has used the arguments of those before it.
- `ListingsReadBack`: what `ft_ls` prints for a list of files tells them, for all lists of files that
  are `FileOK` (no blank in the name of a file, owner, group or target; links and sizes not negative;
  an even number of blocks) and whose blocks fit in a `long`. A string is split in one way only
  (`HasWords`), so it is enough that a column, or a line, ends before each blank: columns
  are added to a `Row`, formats are printed part by part (`Stands`), and lines are added to the
  listing file by file (`LinesAdded`). A file whose owner or group has no name ends the lines.
  `LongLinesReadBack` states it of the runs' property.

The last three invariants are inductive with `TaskOK`: what is called never changes, and the result
is that of one call. The weight is in the lemmas about the functions.

`ComputorProofs`, for every set of coefficients, every `Scale`, every precision and number of
places of the floats, every largest power and number of terms:

- Lemmas about floats come first: `Spacing` is a power of two (`StepIs`), `Round` is off by one
  distance of floats at most (`RoundIs`), keeps the sign of a difference (`RoundSign`), and
  changes nothing that is a multiple of the distance at its size (`RoundExact`), as the whole
  numbers below `Precision` are (`WholeIsFloat`, by `StepDivides`).
- `PolynomialStaysMeant`: at a power with whole terms the dictionary is the sum of the left side
  less that of the right. The inductive `EquationInv` states it of the terms parsed so far
  (`Balanced`): what the dictionary holds is a whole number, with the sums of what is left it
  makes up those of the whole, and its size with the sizes of what is left stays below
  `Precision`, so no sum to come is rounded (`TermIsRead`).
- `AnswersAreRight`: `Answered` ties the degree and the answer to the dictionary. For whole
  coefficients no product is rounded (`DiscriminantOfWholes`) and the sign of the discriminant
  tells the signs of the quadratic (`DiscriminantTells`). For others `DiscriminantBeyondRounding`
  adds up what the two products can be off by.

`FtLsProofs`, for every finite tree, all names and times, all command lines, every number of
removals and of failing allocations. All of it rests on `ShapeInv`: the type invariant; what the
paths and flags are before the first listing (`StartInv`); and the shape of the call stack
(`StackInv`: the caller of an activation is in its loop, which has passed the
directory it called for; what the loop has left are subdirectories, each once).

- `TypeCorrect`, and `ErrorsAreTrue`: no error names a directory that could be listed.
- `EveryListIsFreed`: from `FreedInv`: an allocated list belongs to an activation that will free it.
- `NothingListedTwice` and `ListsDepthFirst`: from `ApartInv`, for arguments that are apart.
  Its part `AllFresh` says that nothing below what is still to be listed was listed; `PathsApart`
  that the remaining arguments are apart from each other and from what is being listed;
  `InOrder` that what was listed since an activation began is below its directory. A step only moves
  a directory from the first part to the output, so each of the three is needed by the others.
- `TraversalIsComplete`: `MissingInv` says what the lines of one listing may lack, `CompleteInv` where
  a subdirectory is that was not listed yet: in the rest of a list on the stack, or
  at an activation that has yet to list it (`Followed`), or, for an argument, still in `paths`
  (`Begun`). When the program ends there is no such place left.

Two definitions of `FtLs` recurse over data. `Below` and `Expected` descend the tree; `MergeSort` and
`SortedMerge` recurse on lists. `RecursionSolved` of `DataLemmas` says that a function so defined
obeys its definition when the arguments it depends on are a well-founded relation: two solutions on
parts of the domain agree, and together they make the function. From the equations follow, by minimal
counterexamples, that `Below` is transitive and without cycles, and that the merge sort
permutes (`MergeSortPermutes`), which is all the theorems about `FtLs` need of it.

The theorems about the sort of one directory need more, for lists and names of any length:

- `SortKeepsFiles`: from `MergeSortPermutes`, whatever the comparison says of the names.
- `SortOrdersFiles` and `SortIsStable`: the merge sort orders and keeps ties in place by any comparison
  that is total and transitive on the files it is given (`MergeSortOrders`). `ft_strcasecmp` is one on
  ordinary names: its sign is that of the order on `Key`, a name's lower-case letters followed by
  zeros for ever, with a dotted name after its twin (`StrCaseCmpOrders`, `CompareRanks`); and the
  reference order of `MCLsSort` is the same order (`LexBeforeIsLess`, `BeforeIsLess`).

`DataLemmas` uses induction in its first-order form: a non-empty set of counterexamples has a
member of least measure (`LeastNat`), a family of subsets of a finite set has a minimal one
(`MinimalSubset`). So sums are shown to exist and to grow by what is added (`SumIsAdditive`, `SumAdd`)
without an induction theorem that takes an operator. A loop over a string or a number is a
function that goes down to a case without recursion; `DescentSolved` and `StepsSolved` give its equation.

The assumptions are those named in the modules: bounds are naturals, `W` and the probes per hop
are positive, times are positive and below `Infinity`, names, addresses and options are distinct,
`NoOne` is no router and every router is at least one hop away, coefficients are integers (of `1 /
Scale`), floats have at least two digits, bytes of strings are not NUL, `NULL` is no string,
numbers given to `ft_printf` fit in a `long` and so do the blocks of the longest listing, the
files form a finite tree, and for the sort of one directory names are strings of ASCII codes and
times are integers.

Only model-checked:

- everything under fairness: `KeepsProbing`, `KeptSiteServes`, both `Terminates`, the liveness half of
  `KeepsPromise`; the prover knows nothing of `ENABLED`.

Every invariant of the passing runs is proved.

## 5. Plan

All of it is done: `FtPing` with `Pinger` and the refinement, `FtTraceroute`, `IcmpChecksum`,
`Computor` and `FtLs`, each with proofs of all the invariants its runs check, those of the sort
included; `LsLong` and `libft` where it decides something, with proofs of what its functions
return for all arguments; `cloud-1` as a whole, with proofs. What is listed below is left out on
purpose.

### Not modelled

- `Bgp`: router configurations that no program of the repository runs.
- `kfs1`: boot code and a loop that writes a constant text to video memory.
- nginx and the image builds of `cloud-1`: they keep no state that the scripts or playbooks
  look at.
- The layout of packets, the `double` arithmetic of the summary and `-v` in `ft_ping`; the regular
  expressions, overflow and the decimals printed in `ComputorV1`.
- Of `libft`: `ft_calloc`, `ft_strmapi`, `ft_striteri`, the `ft_is...` tests, `ft_toupper`, list
  helpers of one line, and the `ft_put..._fd` wrappers.
