---------------------------- MODULE LibftStrings ----------------------------
(***************************************************************************)
(* libft: the functions that search strings, and those that return a new   *)
(* one. A string is the sequence of its bytes without the NUL; a function  *)
(* that allocates returns the room it asked malloc for and the text it     *)
(* put there. An index is counted from 0 as in the code; None is NULL.     *)
(***************************************************************************)
EXTENDS Integers, Sequences, FiniteSetsExt

None == -1

\* s[i], the NUL included.
ByteAt(s, i) == IF i < Len(s) THEN s[i + 1] ELSE 0

\* The string that starts at s + i.
From(s, i) == SubSeq(s, i + 1, Len(s))

Block(room, text) == [room |-> room, text |-> text]

----------------------------------------------------------------------------
(* Searching *)

\* The first index at which P holds, of those the loop looks at.
FirstIn(indices, P(_)) ==
    IF \E i \in indices : P(i) THEN Min({i \in indices : P(i)}) ELSE None

StrChr(s, b) == IF b = 0 THEN Len(s) ELSE FirstIn(0..Len(s) - 1, LAMBDA i : ByteAt(s, i) = b)

StrRChr(s, b) ==
    IF b = 0 THEN Len(s)
    ELSE IF \E i \in 0..Len(s) - 1 : ByteAt(s, i) = b
         THEN Max({i \in 0..Len(s) - 1 : ByteAt(s, i) = b}) ELSE None

MemChr(s, b, n) == FirstIn(0..n - 1, LAMBDA i : s[i + 1] = b)

MemCmp(s, t, n) ==
    IF n = 0 THEN 0
    ELSE LET i == Min({k \in 0..n - 1 : s[k + 1] # t[k + 1] \/ k + 1 >= n})
         IN  s[i + 1] - t[i + 1]

\* The loop stops at the NUL of s, at a difference, or at the last of n bytes.
StrNCmp(s, t, n) ==
    IF n = 0 THEN 0
    ELSE LET i == Min({k \in 0..Len(s) : k = Len(s) \/ ByteAt(s, k) # ByteAt(t, k) \/ k >= n - 1})
         IN  ByteAt(s, i) - ByteAt(t, i)

\* needle is matched from each byte of haystack on, as long as the byte compared is one of
\* the first len.
Matches(haystack, needle, len, i) ==
    \A j \in 0..Len(needle) - 1 : ByteAt(needle, j) = ByteAt(haystack, i + j) /\ i + j < len

StrNStr(haystack, needle, len) ==
    IF needle = <<>> THEN 0
    ELSE FirstIn(0..Len(haystack) - 1, LAMBDA i : Matches(haystack, needle, len, i))

----------------------------------------------------------------------------
(* New strings *)

StrDup(s) == Block(Len(s) + 1, s)

StrJoin(s, t) == Block(Len(s) + Len(t) + 1, s \o t)

\* len is a size_t: Huge stands for every value larger than a string can be long.
SubStr(s, start, len) ==
    IF start >= Len(s) THEN StrDup(<<>>)
    ELSE Block((IF Len(s) <= len THEN Len(s) ELSE len) + 1,
               SubSeq(s, start + 1, Min({Len(s), start + len})))

\* ft_strchr finds the NUL of set, so a NUL counts as a byte of it.
InSet(b, set) == StrChr(set, b) # None

\* How many bytes the second loop of ft_strtrim leaves, when it runs from the last one down.
\* Before an empty string it reads on, into the bytes that happen to precede it in memory,
\* the nearest one first; past the last of them it would leave the process's memory.
TrimEnd(s, set, before, i) ==
    LET Byte(len) == IF len >= 1 THEN s[len] ELSE before[1 - len]
        Stays(len) == len < 0 \/ len >= i     \* len is unsigned
    IN  Max({len \in 1 - Len(before)..Len(s) : ~(InSet(Byte(len), set) /\ Stays(len))})

\* Mutant: the bytes to trim are looked for on one side only.
StrTrimLeft(s, set, before, huge) ==
    LET i == FirstIn(0..Len(s), LAMBDA k : k = Len(s) \/ ~InSet(s[k + 1], set))
    IN  SubStr(From(s, i), 0, Len(s) - i)

\* A length below zero is huge: it is a size_t.
StrTrim(s, set, before, huge) ==
    LET i == FirstIn(0..Len(s), LAMBDA k : k = Len(s) \/ ~InSet(s[k + 1], set))
        len == TrimEnd(s, set, before, i)
    IN  SubStr(From(s, i), 0, IF len < i THEN huge ELSE len - i)

----------------------------------------------------------------------------
(* ft_split *)

\* The length of the word at s + i.
LenT(s, b, i) == Min({k \in i..Len(s) : k = Len(s) \/ s[k + 1] = b}) - i

\* Where the first loop of ft_split, and of ft_count_str, leaves s when it starts at s + i.
SkipDelimiters(s, b, i) == Min({k \in i..Len(s) : k = Len(s) \/ s[k + 1] # b})

\* Where s is after the word that is found from s + i on.
AfterWord(s, b, i) == LET w == SkipDelimiters(s, b, i) IN w + LenT(s, b, w)

CountStr(s, b) ==
    LET count[i \in 0..Len(s)] ==
            IF i = Len(s) THEN 0
            ELSE (IF LenT(s, b, SkipDelimiters(s, b, i)) > 0 THEN 1 ELSE 0)
                 + count[AfterWord(s, b, i)]
    IN  count[0]

\* at[k] is where s is after k words.
Words(s, b, size) ==
    LET at[k \in 0..size] == IF k = 0 THEN 0 ELSE AfterWord(s, b, at[k - 1])
    IN  [k \in 1..size |-> SubSeq(s, SkipDelimiters(s, b, at[k - 1]) + 1, at[k])]

\* failing is the number of the malloc that fails, None if none does: 0 is the one for the
\* array. NULL is returned then, and the blocks obtained before are lost.
Split(s, b, failing) ==
    LET size == CountStr(s, b)
        fails == failing \in 0..size
    IN  [null |-> fails,
         words |-> IF fails THEN <<>> ELSE Words(s, b, size),
         lost |-> IF fails THEN failing ELSE 0]

----------------------------------------------------------------------------
(* ft_lstmap *)

\* failing is the node whose malloc fails, None if none does. It is seen when the next node
\* is about to be made: the nodes made are deleted and NULL is returned. The new content of
\* the node that failed is lost, and after the last node nobody looks.
LstMap(list, f, failing) ==
    LET all == [k \in DOMAIN list |-> f[list[k]]]
        made == SubSeq(all, 1, failing - 1)
    IN  IF failing \notin DOMAIN list THEN [list |-> all, deleted |-> <<>>, lost |-> <<>>]
        ELSE [list |-> IF failing < Len(list) THEN <<>> ELSE made,
              deleted |-> IF failing < Len(list) THEN made ELSE <<>>,
              lost |-> <<all[failing]>>]
=============================================================================
