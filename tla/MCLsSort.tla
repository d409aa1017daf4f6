------------------------------ MODULE MCLsSort ------------------------------
(***************************************************************************)
(* One directory is read, in any order, and sorted under any flags.        *)
(***************************************************************************)
EXTENDS LsSort, SequencesExt

CONSTANTS
    Names,      \* the names a file can have
    MaxFiles,   \* bound: files in the directory
    Times       \* modification times

\* Names are C strings of ASCII characters.
ASSUME AsciiAssumption == Names \subseteq Seq(1..127)
ASSUME TimesAssumption == Times \subseteq Int

VARIABLES
    given,      \* which of r and t are given
    files,      \* the list that list_directory built
    sorted      \* the list apply_sort made of it, <<>> before

\* a  A  .a  ..a  .  ..  -  ab
MCNames == {<<97>>, <<65>>, <<46, 97>>, <<46, 46, 97>>, <<46>>, <<46, 46>>, <<45>>, <<97, 98>>}

sortVars == <<given, files, sorted>>

AllFiles == [name : Names, time : Times]

\* The names of one directory differ; without t the times are all alike.
SortInit ==
    /\ given \in SUBSET {"r", "t"}
    /\ files \in {l \in UNION {[1..n -> AllFiles] : n \in 1..MaxFiles} :
                    \A i, j \in 1..Len(l) : i < j => l[i].name # l[j].name}
    /\ "t" \in given \/ \A i \in 1..Len(files) : files[i].time = Min(Times)
    /\ sorted = <<>>

ApplySort ==
    /\ sorted = <<>>
    /\ sorted' = MergeSort(given, Range(files))[files]
    /\ UNCHANGED <<given, files>>

SortNext == ApplySort

SortSpec == SortInit /\ [][SortNext]_sortVars

(***************************************************************************)
(* Reference order, that of ls: names compare by their lower-case letters  *)
(* without the leading dot, a dotted name after the same name without the  *)
(* dot; -t puts newer files first, -r reverses whatever the order is.      *)
(***************************************************************************)
LowerName(s) == [i \in 1..Len(Undotted(s)) |-> ToLower(Undotted(s)[i])]

LexBefore(u, v) ==
    \E n \in 0..Len(u) :
        /\ n <= Len(v) /\ SubSeq(u, 1, n) = SubSeq(v, 1, n)
        /\ \/ n = Len(u) /\ n < Len(v)
           \/ n < Len(u) /\ n < Len(v) /\ u[n + 1] < v[n + 1]

NameBefore(s, t) ==
    \/ LexBefore(LowerName(s), LowerName(t))
    \/ LowerName(s) = LowerName(t) /\ ~StartsWithDot(s) /\ StartsWithDot(t)

\* Every name but those with two leading dots; the directory entry .. is one of these.
Ordinary(s) == ~(StartsWithDot(s) /\ StartsWithDot(Tail(s)) /\ Len(s) > 2)

Before(a, b) ==
    LET x == IF "r" \in given THEN b ELSE a
        y == IF "r" \in given THEN a ELSE b
    IN  IF "t" \in given /\ a.time # b.time THEN x.time > y.time
        ELSE NameBefore(x.name, y.name)

AllOrdinary == \A i \in 1..Len(files) : Ordinary(files[i].name)

\* The result has the files that were read, each as often as before: no node of the list is
\* lost or duplicated by split_list and sorted_merge, whatever the comparison says.
SameFiles ==
    sorted # <<>> => /\ Len(sorted) = Len(files)
                     /\ Range(sorted) = Range(files)

\* With ordinary names no file comes after one it should precede: without a flag, with -r, and
\* with -t. Both together are left out because the code does not keep to it: apply_sort takes
\* the order of -r and looks at no time, where ls lists the oldest file first.
SortedByReference ==
    sorted # <<>> /\ AllOrdinary /\ ~({"r", "t"} \subseteq given) =>
        \A i, j \in 1..Len(sorted) : i < j => ~Before(sorted[j], sorted[i])

\* Files that the order does not tell apart (names that differ in case only, with -t of the
\* same time) stay in the order of the list: the merge prefers the first half on ties.
TiesKeepTheirOrder ==
    sorted # <<>> /\ AllOrdinary =>
        \A i, j \in 1..Len(files) :
            i < j /\ ~Before(files[i], files[j]) /\ ~Before(files[j], files[i]) =>
                \E k, l \in 1..Len(sorted) :
                    k < l /\ sorted[k] = files[i] /\ sorted[l] = files[j]
=============================================================================
