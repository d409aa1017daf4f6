------------------------------ MODULE MCLibft ------------------------------
(***************************************************************************)
(* libft and the long format of ft_ls on bounded inputs. A task is either  *)
(* one legal call on the memory of LibftMemory, which runs byte by byte,   *)
(* or a call of a function that computes its result in one step.           *)
(***************************************************************************)
EXTENDS LibftMemory, LibftStrings, LsLong

CONSTANTS
    Letters,    \* the bytes of strings, without the NUL
    Magnitudes, \* the numbers, and their negatives, that are given to ft_printf
    MaxLen,     \* bound: the length of strings
    MaxLine     \* bound: conversions in a format, files in a long listing

ASSUME LettersAssumption == Letters \subseteq Nat \ {0}
ASSUME MagnitudesAssumption == Magnitudes \subseteq 0..LongMax
ASSUME LengthsAssumption == MaxLen \in Nat /\ MaxLine \in Nat
\* NULL is no string, and the blocks of a listing can be counted in a long.
ASSUME NullAssumption == NullString \notin Seq(Nat)
ASSUME TotalAssumption == 16 * MaxLine <= LongMax

VARIABLES
    task,       \* what is called, with its arguments
    result      \* what it gave, as a sequence of one; <<>> before

vars == <<memory, task, result>>

Strings(bytes, max) == UNION {[1..k -> bytes] : k \in 0..max}

----------------------------------------------------------------------------
(* Tasks *)

NumberTasks == [kind : {"number"}, number : -LongMax..LongMax]

\* The digits of a number, most significant first, computed from their places; no number has
\* more than LongBits.
Numeral(k, base, digit) ==
    LET width == CHOOSE w \in 1..LongBits :
                    k < Power(base, w) /\ (w = 1 \/ Power(base, w - 1) <= k)
    IN  [d \in 1..width |-> digit[(k \div Power(base, width - d)) % base]]

Decimal(k) == IF k < 0 THEN <<Minus>> \o Numeral(-k, 10, Lower) ELSE Numeral(k, 10, Lower)

AtoiTasks ==
    [kind : {"atoi"}, blanks : {<<>>, <<32, 9>>}, sign : {<<>>, <<Plus>>, <<Minus>>},
     value : 0..Power(2, LongBits) - 1, rest : {<<>>, <<97, 49>>}]

\* A part of a format: its kind, and a letter, a string or a number.
Numbers == Magnitudes \cup {-k : k \in Magnitudes}
Numeric == {"%d", "%i", "%ld", "%u", "%x", "%X", "%p"}
Parts ==
    ({"text", "%%", "%c"} \X Letters) \cup ({"%s"} \X Strings(Letters, 1))
    \cup ({"%s"} \X {NullString}) \cup (Numeric \X Numbers)

\* What is written in the format.
Format(part) ==
    CASE part[1] = "text" -> <<part[2]>>
      [] part[1] = "%%" -> <<Percent, Percent>>
      [] part[1] = "%c" -> <<Percent, LetterC>>
      [] part[1] = "%s" -> <<Percent, LetterS>>
      [] part[1] = "%d" -> <<Percent, LetterD>>
      [] part[1] = "%i" -> <<Percent, LetterI>>
      [] part[1] = "%ld" -> <<Percent, LetterL, LetterD>>
      [] part[1] = "%u" -> <<Percent, LetterU>>
      [] part[1] = "%x" -> <<Percent, LetterX>>
      [] part[1] = "%X" -> <<Percent, LetterUpperX>>
      [] part[1] = "%p" -> <<Percent, LetterP>>

Arguments(part) == IF part[1] \in {"text", "%%"} THEN <<>> ELSE <<part[2]>>

\* The text it stands for.
Meaning(part) ==
    LET x == part[2] IN
    CASE part[1] \in {"text", "%c"} -> <<x>>
      [] part[1] = "%%" -> <<Percent>>
      [] part[1] = "%s" -> IF x = NullString THEN <<40, 110, 117, 108, 108, 41>> ELSE x
      [] part[1] \in {"%d", "%i"} -> Decimal(Signed(x, IntBits))
      [] part[1] = "%ld" -> Decimal(x)
      [] part[1] = "%u" -> Decimal(Unsigned(x, IntBits))
      [] part[1] = "%x" -> Numeral(Unsigned(x, IntBits), 16, Lower)
      [] part[1] = "%X" -> Numeral(Unsigned(x, IntBits), 16, Upper)
      [] part[1] = "%p" -> <<Zero, 120>> \o Numeral(Unsigned(x, LongBits), 16, Lower)

\* A text does not begin a conversion.
PrintfTasks ==
    [kind : {"printf"}, parts : Strings({part \in Parts : part # <<"text", Percent>>}, MaxLine)]

SearchTasks ==
    [kind : {"search"}, s : Strings(Letters, MaxLen), t : Strings(Letters, MaxLen),
     b : {0} \cup Letters, n : 0..MaxLen + 1]

Huge == 2 * MaxLen + 2

SubStrTasks ==
    [kind : {"substr"}, s : Strings(Letters, MaxLen), start : 0..MaxLen + 1,
     len : 0..MaxLen + 1 \cup {Huge}]

\* What precedes the string in memory ends in a byte that is not trimmed.
TrimTasks ==
    {t \in [kind : {"trim"}, s : Strings(Letters, MaxLen), set : Strings(Letters, MaxLen),
            before : Strings({0} \cup Letters, MaxLen)] :
        t.before # <<>> /\ ~Contains(<<0>> \o t.set, t.before[Len(t.before)])}

SplitTasks ==
    [kind : {"split"}, s : Strings(Letters, MaxLen), b : {0} \cup Letters,
     failing : None..MaxLen + 1]

MapTasks == [kind : {"map"}, list : Strings(Letters, MaxLen), failing : None..MaxLen]

\* The ninth or the fifteenth of January, 1970, at 5:30.
Mtime(day) ==
    [weekday |-> <<84, 104, 117>>, month |-> <<74, 97, 110>>, day |-> day,
     clock |-> <<48, 53, 58, 51, 48>>, second |-> <<58, 48, 55>>, year |-> <<49, 57, 55, 48>>]
Ninth == <<Space, 57>>
Fifteenth == <<49, 53>>

File(mode, nlink, owner, group, size, day, target) ==
    [mode |-> mode, nlink |-> nlink, owner |-> owner, group |-> group, size |-> size,
     blocks |-> 8 * ((size + 7) \div 8), mtime |-> Mtime(day), name |-> <<102>>, target |-> target]

Modes == [type : {"file", "directory", "link"}, bits : SUBSET (1..9)]
Plainly(mode) == File(mode, 1, <<97>>, <<98>>, 5, Fifteenth, <<103>>)

\* Every mode once; files that differ in the rest: many links, no name for the owner or the
\* group, the largest size, a link whose target cannot be read.
Files ==
    {File([type |-> type, bits |-> {1, 2, 4}], nlink, owner, <<98>>, size, Ninth, target) :
        type \in {"file", "link"}, nlink \in {1, IntMax}, owner \in {<<97>>, NullString},
        size \in {0, 9}, target \in {<<103>>, NullString}}
    \cup {File([type |-> "file", bits |-> {1}], 1, <<97>>, NullString, 1, Ninth, NullString)}

LongTasks ==
    [kind : {"long"}, files : {<<Plainly(m)>> : m \in Modes} \cup Strings(Files, MaxLine - 1)]

MCInit ==
    /\ MemInit
    /\ result = <<>>
    /\ \/ task = [kind |-> "memory"]
       \/ /\ mem = [x \in Cells |-> 0]
          /\ \/ task \in NumberTasks \/ task \in AtoiTasks \/ task \in PrintfTasks
             \/ task \in SearchTasks \/ task \in SubStrTasks \/ task \in TrimTasks
             \/ task \in SplitTasks \/ task \in MapTasks \/ task \in LongTasks

----------------------------------------------------------------------------
(* Calls *)

Memory == task.kind = "memory" /\ MemNext /\ UNCHANGED <<task, result>>

Gives(kind, value) ==
    /\ task.kind = kind /\ result = <<>>
    /\ result' = <<value>>
    /\ UNCHANGED <<memory, task>>

CallNumber ==
    Gives("number",
        LET k == Signed(task.number, IntBits) IN
        [int |-> PutInt(k), fd |-> PutNbrFd(k), itoa |-> Itoa(k), back |-> Atoi(Itoa(k).text),
         unsigned |-> PutUInt(Unsigned(k, IntBits)), hex |-> PutHexLow(k),
         upper |-> PutHexUpper(k), long |-> PutLongInt(task.number)])

CallAtoi ==
    Gives("atoi", Atoi(task.blanks \o task.sign \o Numeral(task.value, 10, Lower) \o task.rest))

CallPrintf ==
    Gives("printf", Printf(FlattenSeq([p \in DOMAIN task.parts |-> Format(task.parts[p])]),
                           FlattenSeq([p \in DOMAIN task.parts |-> Arguments(task.parts[p])])))

CallSearch ==
    Gives("search",
        LET n1 == Min({task.n, Len(task.s)}) IN
        [chr |-> StrChr(task.s, task.b), rchr |-> StrRChr(task.s, task.b),
         memchr |-> MemChr(task.s, task.b, n1), ncmp |-> StrNCmp(task.s, task.t, task.n),
         memcmp |-> MemCmp(task.s, task.t, Min({n1, Len(task.t)})),
         nstr |-> StrNStr(task.s, task.t, task.n), join |-> StrJoin(task.s, task.t)])

CallSubStr == Gives("substr", SubStr(task.s, task.start, task.len))
CallTrim == Gives("trim", StrTrim(task.s, task.set, task.before, Huge))
CallSplit == Gives("split", Split(task.s, task.b, task.failing))
CallMap == Gives("map", LstMap(task.list, [x \in Letters |-> x + 10], task.failing))
CallLong == Gives("long", [long |-> HandleLongFormat(task.files), short |-> PrintFiles(task.files)])

MCNext ==
    \/ Memory \/ CallNumber \/ CallAtoi \/ CallPrintf \/ CallSearch \/ CallSubStr \/ CallTrim
    \/ CallSplit \/ CallMap \/ CallLong

MCSpec == MCInit /\ [][MCNext]_vars

----------------------------------------------------------------------------
(* Properties *)

Result(kind) == task.kind = kind /\ result # <<>>

IntegersWritten ==
    Result("number") =>
        LET r == result[1]
            k == Signed(task.number, IntBits)
            u == Unsigned(k, IntBits)
        IN  /\ r.int = Printed(Decimal(k), Len(Decimal(k)))
            /\ r.fd = Decimal(k) /\ r.itoa = [room |-> Len(Decimal(k)) + 1, text |-> Decimal(k)]
            /\ r.back = k
            /\ r.unsigned = Printed(Decimal(u), Len(Decimal(u)))
            /\ r.hex = Printed(Numeral(u, 16, Lower), Len(Numeral(u, 16, Lower)))
            /\ r.upper = Printed(Numeral(u, 16, Upper), Len(Numeral(u, 16, Upper)))
            /\ r.long.text = Decimal(task.number)

\* The C library's atoi: the value as a long, cut off at its limits, as an int.
IntegersRead ==
    Result("atoi") =>
        LET value == IF task.sign = <<Minus>> THEN -task.value ELSE task.value
            long == Max({-LongMax - 1, Min({LongMax, value})})
        IN  result[1] = Signed(long, IntBits)

FormatsWritten ==
    Result("printf") =>
        LET text == FlattenSeq([p \in DOMAIN task.parts |-> Meaning(task.parts[p])])
        IN  /\ result[1].text = text
            /\ (\A p \in DOMAIN task.parts : task.parts[p][1] # "%ld") =>
                  result[1].count = Len(text)

\* Every number is written as its digits, the smallest int included, by each of the
\* functions that write one; what ft_itoa writes fits in what it allocates and ft_atoi
\* reads it back; ft_atoi agrees with the C library below the point where its sum wraps.
\* ft_printf gives each conversion its own argument and reports the length of what it
\* wrote, unless %ld is used.
NumbersReadBack == IntegersWritten /\ IntegersRead /\ FormatsWritten

Sign(k) == IF k < 0 THEN -1 ELSE IF k > 0 THEN 1 ELSE 0

\* -1, 0 or 1: s comes before t, is equal to it, or comes after it.
LexOrder(s, t) ==
    IF s = t THEN 0
    ELSE IF \E k \in 0..Min({Len(s), Len(t)}) :
               /\ SubSeq(s, 1, k) = SubSeq(t, 1, k)
               /\ k < Len(t) /\ (k = Len(s) \/ s[k + 1] < t[k + 1])
         THEN -1 ELSE 1

Cut(s, k) == SubSeq(s, 1, Min({k, Len(s)}))

Searched ==
    Result("search") =>
        LET r == result[1]
            s == task.s
            t == task.t
            indices == {k \in 0..Len(s) : ByteAt(s, k) = task.b}
            places == {k \in 0..Len(s) :
                          k + Len(t) <= Min({task.n, Len(s)}) /\ SubSeq(s, k + 1, k + Len(t)) = t}
        IN  /\ r.chr = (IF indices = {} THEN None ELSE Min(indices))
            /\ r.rchr = (IF indices = {} THEN None ELSE Max(indices))
            /\ r.memchr \in {r.chr, None}
            /\ Sign(r.ncmp) = LexOrder(Cut(s, task.n), Cut(t, task.n))
            /\ LET k == Min({task.n, Len(s), Len(t)}) IN
                  Sign(r.memcmp) = LexOrder(SubSeq(s, 1, k), SubSeq(t, 1, k))
            /\ r.nstr = (IF t = <<>> THEN 0 ELSE IF places = {} THEN None ELSE Min(places))
            /\ r.join = Block(Len(s) + Len(t) + 1, s \o t)

Fits(block) == Len(block.text) < block.room

CutOut ==
    /\ Result("substr") =>
          /\ Fits(result[1])
          /\ result[1].text = SubSeq(task.s, task.start + 1,
                                     Min({Len(task.s), task.start + task.len}))
    /\ Result("trim") =>
          LET kept == {k \in 1..Len(task.s) : ~Contains(task.set, task.s[k])}
          IN  /\ Fits(result[1])
              /\ result[1].text =
                    IF kept = {} THEN <<>> ELSE SubSeq(task.s, Min(kept), Max(kept))

\* The words of s are its longest stretches without the delimiter, in their order; none is
\* kept when the allocation of one of them, or of the array, fails.
SplitMatches(r, s, delimiter, failing) ==
    LET words == r.words
        Stretch(p, q) == p <= q /\ \A k \in p..q : s[k] # delimiter
        starts == {p \in 1..Len(s) : Stretch(p, p) /\ (p = 1 \/ s[p - 1] = delimiter)}
        Word(p) == SubSeq(s, p, Max({q \in p..Len(s) : Stretch(p, q)}))
    IN  IF r.null THEN words = <<>> /\ failing <= Cardinality(starts)
        ELSE \E at \in [1..Len(words) -> starts] :
                /\ \A p \in starts : \E k \in 1..Len(words) : at[k] = p
                /\ \A k, l \in 1..Len(words) : k < l => at[k] < at[l]
                /\ \A k \in 1..Len(words) : words[k] = Word(at[k])

WordsFound ==
    Result("split") => SplitMatches(result[1], task.s, task.b, task.failing)

\* Every new content is in the list returned, was deleted, or belongs to the node that
\* could not be allocated; the list is whole, or empty, or lacks the last node.
ListMapped ==
    Result("map") =>
        LET r == result[1]
            all == [k \in DOMAIN task.list |-> task.list[k] + 10]
        IN  /\ r.list \in {all, <<>>, Cut(all, Len(all) - 1)}
            /\ r.list \o r.deleted \o r.lost = Cut(all, Len(r.list \o r.deleted \o r.lost))
            /\ task.failing \notin DOMAIN task.list => r.list = all

\* The string functions return what their man pages say, for every string, delimiter and
\* set, and never write past what they allocated: a string that is trimmed away entirely,
\* a match that would end past the limit, delimiters at both ends; ft_strtrim whatever
\* precedes the string in memory. When a malloc fails no result has a hole.
StringsMatchReference == Searched /\ CutOut /\ WordsFound /\ ListMapped

\* The fields of a line, and of a day in it: one below ten follows a space.
Fields(text) == Split(text, Space, None).words
DayField(day) == IF Head(day) = Space THEN Tail(day) ELSE day

\* A line tells the file.
LineReadsBack(line, file) ==
    LET field == Fields(line)
        target == IF file.mode.type = "link" /\ file.target # NullString
                  THEN << <<45, 62>>, file.target >> ELSE <<>>
    IN  /\ {b \in 1..9 : field[1][b + 1] # Dash} = file.mode.bits
        /\ field[1][1] = TypeLetter(file.mode.type)
        /\ Tail(field) = <<Decimal(file.nlink), file.owner, file.group, Decimal(file.size),
                           file.mtime.month, DayField(file.mtime.day), file.mtime.clock,
                           file.name>> \o target

\* So do the lines of a listing: r is what is printed for the files, with -l and without.
ListingReadsBack(r, files) ==
    LET lines == Split(r.long.text, Newline, None).words
        nameless == {k \in DOMAIN files : NullString \in {files[k].owner, files[k].group}}
        whole == IF nameless = {} THEN Len(files) ELSE Min(nameless) - 1
    IN  /\ r.long.crashed <=> nameless # {}
        /\ Len(lines) \in {whole + 1, whole + 2}
        /\ Len(lines) = whole + 2 => files[whole + 1].owner # NullString
        /\ Fields(lines[1])[2] = Decimal(SumFunction([k \in DOMAIN files |-> files[k].blocks \div 2]))
        /\ \A k \in 1..whole : LineReadsBack(lines[k + 1], files[k])
        /\ r.short # <<>> =>
              Fields(Split(r.short, Newline, None).words[1]) = [k \in DOMAIN files |-> files[k].name]

\* A line of the long format tells the file: its permission bits can be read back, its
\* type as far as the letters go, its links, owner, group, size, date, name and target; the
\* total is half the blocks. Only an owner or a group without a name ends the listing, and
\* then everything before that file has been printed.
LongLineReadsBack == Result("long") => ListingReadsBack(result[1], task.files)
=============================================================================
