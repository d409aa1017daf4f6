---------------------------- MODULE LibftMemory ----------------------------
(***************************************************************************)
(* libft: the functions that write to memory the caller provides, one byte *)
(* per step, on an arena of Size cells. A legal call is made (the          *)
(* arguments its man page allows), runs, and returns; what the loops read  *)
(* is what earlier steps may already have overwritten.                     *)
(***************************************************************************)
EXTENDS Integers

CONSTANTS
    Size,   \* bound: cells of memory
    Bytes   \* the values a cell can hold

ASSUME SizeAssumption == Size \in Nat
ASSUME BytesAssumption == 0 \in Bytes /\ Bytes \subseteq Nat

VARIABLES
    mem,    \* the memory
    start,  \* history: the memory when the call was made
    pc,     \* "ready", a loop of the function, or "returned"
    fn,     \* the function called
    dst,    \* its destination
    src,    \* its source
    n,      \* its size argument
    c,      \* the byte to fill with
    i,      \* the index of the function's loop
    j,      \* the index in src of ft_strlcat and ft_strlen
    ret     \* the value returned

arguments == <<start, fn, dst, src, n, c>>
memory == <<mem, arguments, pc, i, j, ret>>

Cells == 0..Size - 1
Null == -1
Functions == {"ft_memset", "ft_bzero", "ft_memcpy", "ft_memmove", "ft_strlcpy", "ft_strlcat"}

MemInit ==
    /\ mem \in [Cells -> Bytes] /\ start = mem
    /\ pc = "ready" /\ fn = "none" /\ dst = Null /\ src = Null
    /\ n = 0 /\ c = 0 /\ i = 0 /\ j = 0 /\ ret = Null

----------------------------------------------------------------------------
(* Calls *)

\* size cells from p on are part of the arena.
Inside(p, size) == p \in Cells /\ p + size <= Size

Apart(p, size, q, room) == p + size <= q \/ q + room <= p

\* In memory m a string at p ends at p + k, or before.
EndsAt(m, p, k) == p + k \in Cells /\ m[p + k] = 0

BothNull(d, s) == d = Null /\ s = Null

\* What the man page asks of the caller, when the memory is m.
Legal(m, f, d, s, size) ==
    CASE f \in {"ft_memset", "ft_bzero"} -> Inside(d, size) /\ s = Null
      [] f = "ft_memcpy" -> \/ BothNull(d, s)
                            \/ (Inside(d, size) /\ Inside(s, size) /\ Apart(d, size, s, size))
      [] f = "ft_memmove" -> BothNull(d, s) \/ (Inside(d, size) /\ Inside(s, size))
      [] f = "ft_strlcpy" ->
            /\ Inside(d, size) /\ s \in Cells
            /\ \E k \in 0..Size : EndsAt(m, s, k) /\ Apart(d, size, s, k + 1)
      [] f = "ft_strlcat" ->
            /\ Inside(d, size) /\ s \in Cells
            /\ \E k, l \in 0..Size :
                  /\ EndsAt(m, d, k) /\ EndsAt(m, s, l)
                  /\ Apart(d, size, s, l + 1) /\ Apart(d, k + 1, s, l + 1)

\* Where the body of f begins, and the first value of its index.
Entry(f) == CASE f = "ft_strlcat" -> "scan_dst" [] OTHER -> "loop"
Downwards(f, d, s) == f = "ft_memcpy" \/ (f = "ft_memmove" /\ d > s)

Call ==
    /\ pc = "ready"
    /\ \E f \in Functions, d, s \in Cells \cup {Null}, size \in 0..Size, b \in Bytes :
          /\ Legal(mem, f, d, s, size)
          /\ f # "ft_memset" => b = 0
          /\ fn' = f /\ dst' = d /\ src' = s /\ n' = size /\ c' = b
          /\ i' = IF Downwards(f, d, s) THEN size ELSE 0
          /\ IF f \in {"ft_memcpy", "ft_memmove"} /\ BothNull(d, s)
             THEN pc' = "returned"
             ELSE pc' = Entry(f)
    /\ start' = mem
    /\ UNCHANGED <<mem, j, ret>>

----------------------------------------------------------------------------
(* The functions *)

At(f, label) == fn = f /\ pc = label

Store(index, byte) == mem' = [mem EXCEPT ![dst + index] = byte]

Return(value) == pc' = "returned" /\ ret' = value

MemSet ==
    /\ At("ft_memset", "loop")
    /\ \/ i < n /\ Store(i, c) /\ i' = i + 1 /\ UNCHANGED <<pc, ret>>
       \/ i >= n /\ Return(dst) /\ UNCHANGED <<mem, i>>
    /\ UNCHANGED <<arguments, j>>

Bzero ==
    /\ At("ft_bzero", "loop")
    /\ \/ i < n /\ Store(i, 0) /\ i' = i + 1 /\ UNCHANGED <<pc, ret>>
       \/ i >= n /\ Return(Null) /\ UNCHANGED <<mem, i>>
    /\ UNCHANGED <<arguments, j>>

\* From the last byte down.
MemCpy ==
    /\ At("ft_memcpy", "loop")
    /\ \/ i > 0 /\ i' = i - 1 /\ Store(i - 1, mem[src + i - 1]) /\ UNCHANGED <<pc, ret>>
       \/ i = 0 /\ Return(dst) /\ UNCHANGED <<mem, i>>
    /\ UNCHANGED <<arguments, j>>

\* Mutant: the bytes are moved from the first on, whichever area comes first.
MemMoveUpwards ==
    /\ At("ft_memmove", "loop")
    /\ \/ /\ dst > src /\ i > 0
          /\ i' = i - 1 /\ Store(n - i, mem[src + n - i])
          /\ UNCHANGED <<pc, ret>>
       \/ /\ dst <= src /\ i < n
          /\ i' = i + 1 /\ Store(i, mem[src + i])
          /\ UNCHANGED <<pc, ret>>
       \/ i = (IF dst > src THEN 0 ELSE n) /\ Return(dst) /\ UNCHANGED <<mem, i>>
    /\ UNCHANGED <<arguments, j>>

\* Away from the overlap: down when dst is the higher address, up otherwise.
MemMove ==
    /\ At("ft_memmove", "loop")
    /\ \/ /\ dst > src /\ i > 0
          /\ i' = i - 1 /\ Store(i - 1, mem[src + i - 1])
          /\ UNCHANGED <<pc, ret>>
       \/ /\ dst <= src /\ i < n
          /\ i' = i + 1 /\ Store(i, mem[src + i])
          /\ UNCHANGED <<pc, ret>>
       \/ i = (IF dst > src THEN 0 ELSE n) /\ Return(dst) /\ UNCHANGED <<mem, i>>
    /\ UNCHANGED <<arguments, j>>

\* One byte is kept for the NUL, which is written unless there is no room at all; the
\* length of src is what is returned.
StrLCpy ==
    /\ At("ft_strlcpy", "loop")
    /\ \/ /\ i + 1 < n /\ mem[src + i] # 0
          /\ Store(i, mem[src + i]) /\ i' = i + 1
          /\ UNCHANGED pc
       \/ /\ ~(i + 1 < n /\ mem[src + i] # 0)
          /\ IF n > 0 THEN Store(i, 0) ELSE UNCHANGED mem
          /\ pc' = "strlen"
          /\ UNCHANGED i
    /\ UNCHANGED <<arguments, j, ret>>

\* ft_strlen(src).
StrLen ==
    /\ At("ft_strlcpy", "strlen")
    /\ \/ mem[src + j] # 0 /\ j' = j + 1 /\ UNCHANGED <<pc, ret>>
       \/ mem[src + j] = 0 /\ Return(j) /\ UNCHANGED j
    /\ UNCHANGED <<mem, arguments, i>>

\* The length of dst, kept in i, then that of src, in j.
StrLCatLengths ==
    /\ fn = "ft_strlcat"
    /\ \/ /\ pc = "scan_dst"
          /\ \/ mem[dst + i] # 0 /\ i' = i + 1 /\ UNCHANGED pc
             \/ mem[dst + i] = 0 /\ pc' = "scan_src" /\ UNCHANGED i
          /\ UNCHANGED <<j, ret>>
       \/ /\ pc = "scan_src"
          /\ \/ mem[src + j] # 0 /\ j' = j + 1 /\ UNCHANGED <<pc, ret>>
             \/ /\ mem[src + j] = 0
                /\ pc' = "append" /\ ret' = i + j /\ j' = 0
          /\ UNCHANGED i
    /\ UNCHANGED <<mem, arguments>>

\* Mutant: the byte for the NUL is not kept.
StrLCatFillsBuffer ==
    /\ At("ft_strlcat", "append")
    /\ \/ /\ mem[src + j] # 0 /\ i < n
          /\ Store(i, mem[src + j]) /\ i' = i + 1 /\ j' = j + 1
          /\ UNCHANGED <<pc, ret>>
       \/ /\ ~(mem[src + j] # 0 /\ i < n)
          /\ Store(i, 0)
          /\ Return(IF i > n THEN ret - i + n ELSE ret)
          /\ UNCHANGED <<i, j>>
    /\ UNCHANGED arguments

\* Appends while a byte is left for the NUL. When dst does not end within n, only its own
\* NUL is written again. ret holds the sum of the two lengths.
StrLCat ==
    /\ At("ft_strlcat", "append")
    /\ \/ /\ mem[src + j] # 0 /\ i + 1 < n
          /\ Store(i, mem[src + j]) /\ i' = i + 1 /\ j' = j + 1
          /\ UNCHANGED <<pc, ret>>
       \/ /\ ~(mem[src + j] # 0 /\ i + 1 < n)
          /\ Store(i, 0)
          /\ Return(IF i > n THEN ret - i + n ELSE ret)
          /\ UNCHANGED <<i, j>>
    /\ UNCHANGED arguments

MemNext ==
    \/ Call \/ MemSet \/ Bzero \/ MemCpy \/ MemMove
    \/ StrLCpy \/ StrLen \/ StrLCatLengths \/ StrLCat

MemSpec == MemInit /\ [][MemNext]_memory

----------------------------------------------------------------------------
(* Properties *)

\* l is the length of the string that was at p when the call was made.
WasLength(p, l) ==
    /\ l \in Nat /\ p + l \in Cells /\ start[p + l] = 0
    /\ \A k \in 0..l - 1 : start[p + k] # 0

\* The memory is as it was but for the cells from dst + from on, size of them, which hold
\* byte[0], byte[1], ...
Holds(from, size, byte(_)) ==
    \A x \in Cells : mem[x] = IF dst + from <= x /\ x < dst + from + size
                              THEN byte(x - dst - from) ELSE start[x]

Least(a, b) == IF a <= b THEN a ELSE b

FilledAsAsked ==
    fn \in {"ft_memset", "ft_bzero"} => Holds(0, n, LAMBDA k : c)

CopiedAsAsked ==
    fn \in {"ft_memcpy", "ft_memmove"} =>
        /\ ret = dst
        /\ IF dst = Null THEN mem = start ELSE Holds(0, n, LAMBDA k : start[src + k])

\* The string is cut to what fits, and terminated.
StringCopied ==
    fn = "ft_strlcpy" => \A l \in 0..Size : WasLength(src, l) =>
        LET kept == Least(l, n - 1) IN
        /\ ret = l
        /\ IF n = 0 THEN mem = start
           ELSE Holds(0, kept + 1, LAMBDA k : IF k < kept THEN start[src + k] ELSE 0)

StringAppended ==
    fn = "ft_strlcat" => \A d, l \in 0..Size : WasLength(dst, d) /\ WasLength(src, l) =>
        LET kept == Least(l, n - 1 - d) IN
        /\ ret = l + Least(d, n)
        /\ IF n <= d THEN mem = start
           ELSE Holds(d, kept + 1, LAMBDA k : IF k < kept THEN start[src + k] ELSE 0)

\* When a function returns, the memory holds what its man page promises, to the byte, for
\* every legal call: areas that overlap (ft_memmove), no room at all, a string that just
\* fits or is cut; nothing outside the destination has changed, and what is returned lets
\* the caller see that a string was cut.
WritesAsPromised ==
    pc = "returned" => FilledAsAsked /\ CopiedAsAsked /\ StringCopied /\ StringAppended
=============================================================================
