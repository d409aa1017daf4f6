-------------------------------- MODULE FtLs --------------------------------
(***************************************************************************)
(* ft_ls: the arguments are listed one after the other; with -R each       *)
(* directory is listed and then its subdirectories, by a recursive call    *)
(* whose activations are the frames of `stack`. Meanwhile other processes  *)
(* may remove files.                                                       *)
(*                                                                         *)
(* Listing a directory and collecting its subdirectories read it twice,    *)
(* each time in any order; an entry can be removed between readdir and     *)
(* lstat. malloc may fail at any time, and -l follows the NULL it gets for *)
(* an owner or a group that has no name.                                   *)
(***************************************************************************)
EXTENDS LsSort, SequencesExt

CONSTANTS
    Argvs,      \* the command lines: option words <<"-", "R", ...>> and paths <<"node">>
    Nodes,      \* files, directories and links that can exist
    Cwd,        \* the directory "." stands for
    Kind,       \* what each node is: "dir", "file" or "link"
    Children,   \* what each directory holds at first
    NameOf,     \* the name of each node in its directory
    TimeOf,     \* its modification time
    Unreadable, \* directories that opendir refuses
    Nameless,   \* nodes whose owner or group has no name
    MaxRemovals,\* bound: how many nodes disappear while ft_ls runs
    MaxFailures \* bound: how many calls of malloc fail

Self == "."
Up == ".."
Unnamed == "(null)"

ASSUME ArgvsAssumption ==
    \A words \in Argvs :
        /\ words \in Seq(Seq(STRING) \ {<<>>})
        /\ \A i \in 1..Len(words) : words[i][1] \notin {Self, Up, Unnamed}
ASSUME NodesAssumption ==
    Cwd \in Nodes /\ {Self, Up, Unnamed} \cap Nodes = {} /\ IsFiniteSet(Nodes)
ASSUME BoundsAssumption == MaxRemovals \in Nat /\ MaxFailures \in Nat
ASSUME TreeAssumption ==
    /\ Kind \in [Nodes -> {"dir", "file", "link"}] /\ Children \in [Nodes -> SUBSET Nodes]
    /\ \A n \in Nodes : Kind[n] # "dir" => Children[n] = {}
    /\ \A m, n \in Nodes : m # n => Children[m] \cap Children[n] = {}
    /\ \A S \in SUBSET Nodes : S # {} => \E n \in S : Children[n] \cap S = {}
ASSUME NamesAssumption ==
    \A d \in Nodes : \A m, n \in Children[d] :
        /\ m # n => StrCaseCmp(Undotted(NameOf[m]), Undotted(NameOf[n])) # 0
        /\ ~StartsWithDot(Undotted(NameOf[n]))

VARIABLES
    pc,         \* where the program is
    argv,       \* the command line
    flags,      \* the flags that are set
    paths,      \* the arguments that remain to be listed
    stack,      \* the activations of handle_recursive, the innermost last
    live,       \* the nodes of subdirectory lists that are allocated
    removed,    \* nodes that other processes removed
    failures,   \* how many calls of malloc have failed
    listed,     \* the output: the directories listed, with what was shown for each
    errors,     \* the output: the paths an error was printed for
    skipped     \* history: subdirectories passed over, or that there was no memory for

cmdline == <<argv, flags>>
output == <<listed, errors>>
outside == <<removed, failures>>
vars == <<pc, cmdline, paths, stack, live, outside, output, skipped>>

Final == {"exit_success", "exit_failure", "crashed"}
Legal == {"l", "R", "a", "r", "t"}

IsOption(arg) == Len(arg) > 1 /\ arg[1] = "-"
Letters(arg) == {arg[i] : i \in 2..Len(arg)}

Exists(n) == n \in {Self, Up} \/ (n \in Nodes /\ n \notin removed)
IsDir(n) == n \in {Self, Up} \/ Kind[n] = "dir"
CanOpen(d) == Exists(d) /\ d \notin Unreadable

\* What readdir returns for d, apart from the order.
Entries(d) == {Self, Up} \cup {n \in Children[d] : Exists(n)}

FileOf(n) ==
    [node |-> n,
     name |-> IF n = Self THEN <<Dot>> ELSE IF n = Up THEN <<Dot, Dot>> ELSE NameOf[n],
     time |-> IF n \in {Self, Up} THEN 0 ELSE TimeOf[n]]
Hidden(n) == StartsWithDot(FileOf(n).name)

Files == {FileOf(n) : n \in Nodes \cup {Self, Up}}
NodesOf == [l \in Seq(Files) |-> [k \in 1..Len(l) |-> l[k].node]]

\* The list that merge_sort makes of the entries in S. Under NamesAssumption Compare tells
\* any two of them apart and is transitive, so the order in which readdir returned them makes
\* no difference: that is checked in MCLsSort, and here one order stands for all.
SortedList(S) ==
    LET read == FoldSet(LAMBDA n, l : Append(l, FileOf(n)), <<>>, S)
    IN  NodesOf[MergeSort(flags, Files)[read]]

Init ==
    /\ pc = "parse_flags" /\ argv \in Argvs
    /\ flags = {} /\ paths = <<>> /\ stack = <<>> /\ live = {}
    /\ removed = {} /\ failures = 0 /\ listed = <<>> /\ errors = {} /\ skipped = {}

----------------------------------------------------------------------------
(* Arguments *)

\* Mutant: an option word is kept as a path as well.
ParseFlagsKeepsOptions ==
    /\ pc = "parse_flags"
    /\ pc' = "parse_arguments"
    /\ flags' = UNION {Letters(argv[i]) : i \in {j \in 1..Len(argv) : IsOption(argv[j])}}
    /\ paths' = argv
    /\ UNCHANGED <<argv, stack, live, outside, output, skipped>>

\* Some calls of malloc fail; the sets of entries that this can make the program lose.
Fail(calls) == failures + calls <= MaxFailures /\ failures' = failures + calls
Losses(entries) == UNION {kSubset(k, entries) : k \in 0..(MaxFailures - failures)}

\* The words of args that are paths, in their order.
PathsOf(args) ==
    LET file_indices[i \in 0..Len(args)] ==
            IF i = 0 THEN <<>>
            ELSE IF IsOption(args[i]) THEN file_indices[i - 1]
            ELSE Append(file_indices[i - 1], args[i])
    IN  file_indices[Len(args)]

\* Options are accepted anywhere; one letter that is not legal ends the program, and so
\* does the array of the paths' indices when there is no memory for it.
ParseFlags ==
    /\ pc = "parse_flags"
    /\ LET options == {i \in 1..Len(argv) : IsOption(argv[i])}
           all == UNION {Letters(argv[i]) : i \in options}
       IN  \/ /\ pc' = "exit_failure"
              /\ Fail(1) \/ (Fail(0) /\ ~(all \subseteq Legal))
              /\ UNCHANGED <<flags, paths>>
           \/ /\ all \subseteq Legal
              /\ pc' = "parse_arguments"
              /\ flags' = all
              /\ paths' = PathsOf(argv)
              /\ Fail(0)
    /\ UNCHANGED <<argv, stack, live, removed, output, skipped>>

\* Without a path the current directory is listed. When malloc fails the program exits,
\* or, with paths given, frees pointers that were never set.
ParseArguments ==
    /\ pc = "parse_arguments"
    /\ \/ /\ pc' = "exec_ls"
          /\ paths' = IF paths = <<>> THEN <<Cwd>> ELSE [i \in 1..Len(paths) |-> paths[i][1]]
          /\ Fail(0)
       \/ /\ pc' \in {"exit_failure"} \cup (IF paths = <<>> THEN {} ELSE {"crashed"})
          /\ Fail(1)
          /\ UNCHANGED paths
    /\ UNCHANGED <<cmdline, stack, live, removed, output, skipped>>

----------------------------------------------------------------------------
(* Listing one directory *)

Vanish(gone) ==
    /\ Cardinality(removed \cup gone) <= MaxRemovals
    /\ \A n \in gone : Children[n] \subseteq removed
    /\ removed' = removed \cup gone

\* Whether sorting l compares the name of its k-th file: by time, only where the times tie.
NameCompared(l, k) ==
    \E m \in 1..Len(l) \ {k} :
        "t" \in flags /\ "r" \notin flags => FileOf(l[m]).time = FileOf(l[k]).time

\* The list where the names at the positions in `nulls` are missing.
WithoutNames(l, nulls) == [k \in 1..Len(l) |-> IF k \in nulls THEN Unnamed ELSE l[k]]

\* The lines of d, after malloc has failed for `lost` of its entries. With -l the program
\* crashes at a file whose owner or group has no name, or when there is no memory for its
\* permissions or date; and before anything is printed, when there is none for the node of
\* a file, or for a name that the sort compares. Names it does not compare can be (null).
Show(d, shown, lost) ==
    LET nameless == {k \in 1..Len(shown) : "l" \in flags /\ shown[k] \in Nameless}
        upto == IF nameless = {} THEN Len(shown) ELSE Min(nameless) - 1
        lines(nulls, k) ==
            Append(listed, [path |-> d, shown |-> SubSeq(WithoutNames(shown, nulls), 1, k)])
    IN  \E nulls \in Losses({k \in 1..Len(shown) : ~NameCompared(shown, k)}) :
            LET calls == lost + Cardinality(nulls) IN
            \/ /\ Fail(calls) /\ listed' = lines(nulls, upto)
               /\ pc' = IF nameless = {} THEN pc ELSE "crashed"
            \/ /\ Fail(calls + 1) /\ shown # <<>> /\ pc' = "crashed"
               /\ \/ listed' = listed
                  \/ "l" \in flags /\ \E k \in 0..Min({upto, Len(shown) - 1}) :
                         listed' = lines(nulls, k)

\* opendir fails: an error. Otherwise every entry that is to be shown and still there is
\* printed in order. The ones that went away since readdir returned them are errors; those
\* there is no memory for the path of are left out without a word.
ListDirectory(d) ==
    \/ /\ ~CanOpen(d)
       /\ errors' = errors \cup {d}
       /\ UNCHANGED <<pc, listed, outside>>
    \/ /\ CanOpen(d)
       /\ LET candidates == {n \in Entries(d) : Hidden(n) => "a" \in flags}
          IN  \E gone \in SUBSET (candidates \ {Self, Up}) :
                 /\ Vanish(gone)
                 /\ errors' = errors \cup gone
                 /\ \E lost \in Losses(candidates \ gone) :
                       \E shown \in {SortedList(candidates \ (gone \cup lost))} :
                           Show(d, shown, Cardinality(lost))

\* A file is looked up a second time before it is printed.
HandleFile(path) ==
    \/ /\ Show(path, <<path>>, 0)
       /\ UNCHANGED <<removed, errors>>
    \/ /\ Vanish({path})
       /\ errors' = errors \cup {path}
       /\ UNCHANGED <<pc, listed, failures>>

Frame(d) == [path |-> d, pc |-> "lstat", subdirs |-> <<>>, tmp |-> <<>>]
Top == Last(stack)
Replace(frame) == Append(Front(stack), frame)

\* One argument of exec_ls.
ListPath ==
    /\ pc = "exec_ls" /\ stack = <<>> /\ paths # <<>>
    /\ paths' = Tail(paths)
    /\ LET path == Head(paths) IN
       \/ /\ ~Exists(path)
          /\ errors' = errors \cup {path}
          /\ UNCHANGED <<pc, stack, outside, listed>>
       \/ /\ Exists(path) /\ IsDir(path) /\ "R" \in flags
          /\ stack' = <<Frame(path)>>
          /\ UNCHANGED <<pc, outside, output>>
       \/ /\ Exists(path) /\ IsDir(path) /\ "R" \notin flags
          /\ ListDirectory(path)
          /\ UNCHANGED stack
       \/ /\ Exists(path) /\ ~IsDir(path)
          /\ HandleFile(path)
          /\ UNCHANGED stack
    /\ UNCHANGED <<cmdline, live, skipped>>

Exit ==
    /\ pc = "exec_ls" /\ stack = <<>> /\ paths = <<>>
    /\ pc' = "exit_success"
    /\ UNCHANGED <<cmdline, paths, stack, live, outside, output, skipped>>

----------------------------------------------------------------------------
(* handle_recursive *)

At(label) == pc = "exec_ls" /\ stack # <<>> /\ Top.pc = label

\* Mutant: the call does not return after the error.
LstatRetries ==
    /\ At("lstat")
    /\ \/ /\ Exists(Top.path)
          /\ stack' = Replace([Top EXCEPT !.pc = "list_directory"])
          /\ UNCHANGED errors
       \/ /\ ~Exists(Top.path)
          /\ errors' = errors \cup {Top.path}
          /\ UNCHANGED stack
    /\ UNCHANGED <<pc, cmdline, paths, live, outside, listed, skipped>>

Lstat ==
    /\ At("lstat")
    /\ \/ /\ Exists(Top.path)
          /\ stack' = Replace([Top EXCEPT !.pc = "list_directory"])
          /\ UNCHANGED errors
       \/ /\ ~Exists(Top.path)
          /\ stack' = Front(stack)
          /\ errors' = errors \cup {Top.path}
    /\ UNCHANGED <<pc, cmdline, paths, live, outside, listed, skipped>>

List ==
    /\ At("list_directory")
    /\ ListDirectory(Top.path)
    /\ stack' = Replace([Top EXCEPT !.pc = "get_subdirs"])
    /\ UNCHANGED <<cmdline, paths, live, skipped>>

\* Subdirectories of d that get_subdirs keeps; a link to a directory is not one.
IsSubdir(n) ==
    /\ n \notin {Self, Up}
    /\ Hidden(n) => "a" \in flags
    /\ IsDir(n)

\* The list is sorted after tmp was set to its head, the entry read last, which is any of
\* them: the loop starts at that node, and what the sort moved in front of it is passed
\* over. When opendir fails or finds no subdirectory, the call returns. A subdirectory there
\* is no memory for is left out; one there is no memory for the name of crashes the sort,
\* if that looks at it.
GetSubdirs ==
    /\ At("get_subdirs")
    /\ \/ /\ ~CanOpen(Top.path)
          /\ stack' = Front(stack)
          /\ UNCHANGED <<pc, live, outside, skipped>>
       \/ /\ CanOpen(Top.path)
          /\ LET candidates == {n \in Entries(Top.path) : IsSubdir(n)}
             IN  \E gone \in SUBSET candidates :
                   /\ Vanish(gone)
                   /\ \E lost \in Losses(candidates \ gone) :
                         \E subdirs \in {SortedList(candidates \ (gone \cup lost))} :
                         \/ /\ subdirs = <<>>
                            /\ Fail(Cardinality(lost))
                            /\ stack' = Front(stack)
                            /\ skipped' = skipped \cup lost
                            /\ UNCHANGED <<pc, live>>
                         \/ \E k \in 1..Len(subdirs) :
                            /\ Fail(Cardinality(lost))
                            /\ stack' = Replace([Top EXCEPT
                                   !.pc = "while", !.subdirs = subdirs,
                                   !.tmp = SubSeq(subdirs, k, Len(subdirs))])
                            /\ live' = live \cup ToSet(subdirs)
                            /\ skipped' = skipped \cup lost \cup ToSet(SubSeq(subdirs, 1, k - 1))
                            /\ UNCHANGED pc
                         \/ /\ \E k \in 1..Len(subdirs) : NameCompared(subdirs, k)
                            /\ Fail(Cardinality(lost) + 1)
                            /\ pc' = "crashed"
                            /\ UNCHANGED <<stack, live, skipped>>
    /\ UNCHANGED <<cmdline, paths, output>>

\* Mutant: the loop does not advance.
VisitSame ==
    /\ At("while") /\ Top.tmp # <<>>
    /\ stack' = Append(stack, Frame(Head(Top.tmp)))
    /\ UNCHANGED <<pc, cmdline, paths, live, outside, output, skipped>>

\* Mutant: subdirectories are queued instead of being listed at once.
VisitLater ==
    /\ At("while") /\ Top.tmp # <<>>
    /\ stack' = <<Frame(Head(Top.tmp))>> \o Replace([Top EXCEPT !.tmp = Tail(@)])
    /\ UNCHANGED <<pc, cmdline, paths, live, outside, output, skipped>>

Visit ==
    /\ At("while") /\ Top.tmp # <<>>
    /\ stack' = Append(Replace([Top EXCEPT !.tmp = Tail(@)]), Frame(Head(Top.tmp)))
    /\ UNCHANGED <<pc, cmdline, paths, live, outside, output, skipped>>

\* Mutant: only the head of the list is freed.
FreeHead ==
    /\ At("while") /\ Top.tmp = <<>>
    /\ live' = live \ {Top.subdirs[1]}
    /\ stack' = Front(stack)
    /\ UNCHANGED <<pc, cmdline, paths, outside, output, skipped>>

\* Mutant: the loop stops at the last subdirectory instead of after it.
FreeBeforeLast ==
    /\ At("while") /\ Len(Top.tmp) <= 1
    /\ live' = live \ ToSet(Top.subdirs)
    /\ stack' = Front(stack)
    /\ UNCHANGED <<pc, cmdline, paths, outside, output, skipped>>

FreeDirList ==
    /\ At("while") /\ Top.tmp = <<>>
    /\ live' = live \ ToSet(Top.subdirs)
    /\ stack' = Front(stack)
    /\ UNCHANGED <<pc, cmdline, paths, outside, output, skipped>>

----------------------------------------------------------------------------

\* Another process removes a file, or a directory it has emptied.
RemoveNode ==
    /\ pc \notin Final
    /\ \E n \in Nodes \ removed : Vanish({n})
    /\ UNCHANGED <<pc, cmdline, paths, stack, live, failures, output, skipped>>

Ls ==
    \/ ParseFlags \/ ParseArguments \/ ListPath \/ Exit
    \/ Lstat \/ List \/ GetSubdirs \/ Visit \/ FreeDirList

Terminated == pc \in Final /\ UNCHANGED vars

Next == Ls \/ RemoveNode \/ Terminated

Spec == Init /\ [][Next]_vars

(* ft_ls is one thread that is always ready to run. *)
FairSpec == Spec /\ WF_vars(Ls)

----------------------------------------------------------------------------
(* Properties *)

PathWords == {i \in 1..Len(argv) : ~IsOption(argv[i])}
Arguments == {argv[i][1] : i \in PathWords}
Roots == {n \in (IF Arguments = {} THEN {Cwd} ELSE Arguments) \cap Nodes : IsDir(n)}
Listed == {listed[i].path : i \in 1..Len(listed)}
Frames == [path : Nodes, pc : {"lstat", "list_directory", "get_subdirs", "while"},
           subdirs : Seq(Nodes), tmp : Seq(Nodes)]

\* Every variable of ft_ls keeps to its type.
TypeOK ==
    /\ pc \in Final \cup {"parse_flags", "parse_arguments", "exec_ls"}
    /\ argv \in Argvs /\ flags \subseteq Legal
    /\ stack \in Seq(Frames) /\ live \subseteq Nodes /\ removed \subseteq Nodes
    /\ pc = "exec_ls" => paths \in Seq(Nodes \cup Arguments)
    /\ listed \in Seq([path : Nodes, shown : Seq(Nodes \cup {Self, Up, Unnamed})])
    /\ failures \in 0..MaxFailures
    /\ errors \subseteq Nodes \cup Arguments /\ skipped \subseteq Nodes

Subdirs(d) == {n \in Children[d] : IsDir(n) /\ (Hidden(n) => "a" \in flags)}

Below[d \in Nodes] == {d} \cup UNION {Below[n] : n \in Children[d]}

Expected[d \in Nodes] ==
    IF CanOpen(d) THEN {d} \cup UNION {Expected[n] : n \in Subdirs(d) \ skipped} ELSE {}

\* No argument is given twice or is below another one.
Apart ==
    \A i, j \in PathWords :
        i # j /\ argv[j][1] \in Nodes => argv[i][1] \notin Below[argv[j][1]]

\* Unless it is asked to, ft_ls lists no path twice, whatever is removed between the two
\* times that a directory is read.
ListedOnce ==
    Apart => \A i, j \in 1..Len(listed) : i # j => listed[i].path # listed[j].path

\* Directories come depth first: a directory before what is below it, and what is below it
\* before anything else.
DepthFirst ==
    Apart => \A i, j, k \in 1..Len(listed) : i < j /\ j <= k =>
        /\ listed[i].path \notin Below[listed[j].path]
        /\ \A d \in Listed :
            listed[i].path \in Below[d] /\ listed[k].path \in Below[d]
                => listed[j].path \in Below[d]

\* The entries of the i-th directory listed that exist, are visible and were not shown.
Missing(i) ==
    {n \in Entries(listed[i].path) : Hidden(n) => "a" \in flags} \ ToSet(listed[i].shown)

\* A complete traversal but for the subdirectories passed over or lost: when ft_ls -R ends,
\* every directory that exists and can be opened, and that has no skipped, removed or
\* unreadable directory on the way to it, was listed; and every listing lacks at most one
\* line for each call of malloc that failed.
CompleteUnlessSkipped ==
    /\ pc = "exit_success" /\ "R" \in flags => \A d \in Roots : Expected[d] \subseteq Listed
    /\ pc # "crashed" => \A i \in 1..Len(listed) :
        IsDir(listed[i].path) => Cardinality(Missing(i)) <= failures

\* An error is printed only for a path that does not exist, disappeared while ft_ls ran, or
\* cannot be opened.
NoFalseErrors == errors \subseteq removed \cup Unreadable \cup (Arguments \ Nodes)

\* Every list of subdirectories is freed, in full, by the activation that built it.
ListsFreed == stack = <<>> => live = {}

\* ft_ls ends, whatever other processes remove.
Terminates == <>(pc \in Final)

\* README.md: "re-creates the directory listing behavior" of ls, which with -R lists every
\* subdirectory (violated: the ones that sort before the last one read are passed over).
ListsEverySubdirectory ==
    pc = "exit_success" /\ "R" \in flags /\ removed = {} /\ failures = 0 =>
        \A d \in Roots : \A n \in Below[d] :
            n \in Listed \/ ~IsDir(n) \/ n \in Unreadable \/ Hidden(n)
=============================================================================
