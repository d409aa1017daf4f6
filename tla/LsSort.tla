------------------------------- MODULE LsSort -------------------------------
(***************************************************************************)
(* The order in which ft_ls lists files: its comparison functions and the  *)
(* merge sort on linked lists they are given to.                           *)
(*                                                                         *)
(* A file is a record of its name (a sequence of ASCII codes, as a C       *)
(* string without its NUL) and its modification time. A linked list is the *)
(* sequence of its files, NULL is the empty sequence.                      *)
(***************************************************************************)
EXTENDS Integers, Sequences, FiniteSetsExt

Dot == 46

\* The character at s[i] of a C string: the NUL is read one past the end.
CharAt(s, i) == IF i <= Len(s) THEN s[i] ELSE 0

ToLower(c) == IF c \in 65..90 THEN c + 32 ELSE c

StartsWithDot(s) == CharAt(s, 1) = Dot

Undotted(s) == IF StartsWithDot(s) THEN Tail(s) ELSE s

\* Where the loop of ft_strcasecmp stops on two names.
FirstDifference(s, t) ==
    Min({i \in 1..(Len(s) + 1) :
            i = Len(s) + 1 \/ ToLower(CharAt(s, i)) # ToLower(CharAt(t, i))})

\* A name sorts just after the same name without a leading dot: each recursive call skips
\* such a dot of one of the names.
StrCaseCmp(s, t) ==
    LET strcasecmp[p \in (1..(Len(s) + 1)) \X (1..(Len(t) + 1))] ==
            LET i == p[1]
                j == p[2]
                u == Undotted(SubSeq(s, i, Len(s)))
                v == Undotted(SubSeq(t, j, Len(t)))
                k == FirstDifference(u, v)
            IN  IF CharAt(s, i) = Dot /\ strcasecmp[<<i + 1, j>>] = 0 THEN 1
                ELSE IF CharAt(t, j) = Dot /\ strcasecmp[<<i, j + 1>>] = 0 THEN -1
                ELSE ToLower(CharAt(u, k)) - ToLower(CharAt(v, k))
    IN  strcasecmp[<<1, 1>>]

CompareFiles(a, b) == StrCaseCmp(a.name, b.name)
CompareFilesReverse(a, b) == -StrCaseCmp(a.name, b.name)

\* Mutant: the oldest file comes first.
CompareByTimeOldest(a, b) ==
    IF a.time = b.time THEN StrCaseCmp(a.name, b.name)
    ELSE IF a.time > b.time THEN 1 ELSE 0

\* Newest first; only its sign above zero is ever looked at.
CompareByTime(a, b) ==
    IF a.time = b.time THEN StrCaseCmp(a.name, b.name)
    ELSE IF a.time < b.time THEN 1 ELSE 0

\* The comparison that apply_sort and sort_subdirs pick: r wins over t.
Compare(flags, a, b) ==
    IF "r" \in flags THEN CompareFilesReverse(a, b)
    ELSE IF "t" \in flags THEN CompareByTime(a, b)
    ELSE CompareFiles(a, b)

\* Mutant: the second half starts one node too far.
SplitListTooFar(l) ==
    LET n == (Len(l) + 1) \div 2 IN <<SubSeq(l, 1, n), SubSeq(l, n + 2, Len(l))>>

\* The slow pointer of split_list stops at the end of the first half, the longer one.
SplitList(l) ==
    LET n == (Len(l) + 1) \div 2 IN <<SubSeq(l, 1, n), SubSeq(l, n + 1, Len(l))>>

\* Mutant: on ties the second list goes first.
SortedMergeUnstable(flags, files) ==
    LET merged[p \in Seq(files) \X Seq(files)] ==
            LET a == p[1]
                b == p[2]
            IN  IF a = <<>> THEN b
                ELSE IF b = <<>> THEN a
                ELSE IF Compare(flags, Head(a), Head(b)) < 0
                     THEN <<Head(a)>> \o merged[<<Tail(a), b>>]
                     ELSE <<Head(b)>> \o merged[<<a, Tail(b)>>]
    IN  merged

\* The function that merges two lists of files: each call takes the smaller head, that of a
\* on ties, and merges what remains.
SortedMerge(flags, files) ==
    LET merged[p \in Seq(files) \X Seq(files)] ==
            LET a == p[1]
                b == p[2]
            IN  IF a = <<>> THEN b
                ELSE IF b = <<>> THEN a
                ELSE IF Compare(flags, Head(a), Head(b)) <= 0
                     THEN <<Head(a)>> \o merged[<<Tail(a), b>>]
                     ELSE <<Head(b)>> \o merged[<<a, Tail(b)>>]
    IN  merged

\* The function that sorts the lists of files.
MergeSort(flags, files) ==
    LET sort[l \in Seq(files)] ==
            IF Len(l) <= 1 THEN l
            ELSE LET halves == SplitList(l)
                 IN  SortedMerge(flags, files)[<<sort[halves[1]], sort[halves[2]]>>]
    IN  sort
=============================================================================
