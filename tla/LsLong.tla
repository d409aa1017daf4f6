------------------------------- MODULE LsLong -------------------------------
(***************************************************************************)
(* ft_ls: what it prints for a list of files, with and without -l. A text  *)
(* is the sequence of its ASCII codes.                                     *)
(***************************************************************************)
EXTENDS LibftNumbers, SequencesExt

Space == 32
Newline == 10
Dash == 45

\* A mode is the type of the file and the permission bits that are set, the first for the
\* owner to read, the ninth for others to execute. Set-user-ID, set-group-ID and sticky
\* bits are not shown, and no type but two is.
Letter(k) == CASE k % 3 = 1 -> 114 [] k % 3 = 2 -> 119 [] OTHER -> 120
TypeLetter(type) == CASE type = "directory" -> 100 [] type = "link" -> 108 [] OTHER -> Dash

\* Mutant: the bits of the group are shown for others.
GetPermissionsOfGroup(mode) ==
    <<TypeLetter(mode.type)>> \o
    [k \in 1..9 |-> IF (IF k > 6 THEN k - 3 ELSE k) \in mode.bits THEN Letter(k) ELSE Dash]

GetPermissions(mode) ==
    <<TypeLetter(mode.type)>> \o
    [k \in 1..9 |-> IF k \in mode.bits THEN Letter(k) ELSE Dash]

\* ctime: "Thu Jan  1 00:00:00 1970\n".
Ctime(t) ==
    t.weekday \o <<Space>> \o t.month \o <<Space>> \o t.day \o <<Space>> \o t.clock \o t.second
    \o <<Space>> \o t.year \o <<Newline>>

\* Twelve bytes from the fifth on: the month, the day, the hour and the minute.
GetTime(t) == SubSeq(Ctime(t), 5, 16)

\* The formats of long_format.c and long_format_utils.c.
FormatS == <<Percent, LetterS>>
FormatD == <<Percent, LetterD>>
FormatLd == <<Percent, LetterL, LetterD>>
Arrow == <<Space, 45, 62, Space>>
Total == <<116, 111, 116, 97, 108, Space>>

Text(format, args) == Printf(format, args).text

\* The text of one file, and whether the program survives it: an owner or a group without
\* a name is a NULL that is followed, the owner's before anything of the line is printed.
\* The number of links is read as an int. readlink failing leaves the target out.
PrintLongFormat(file) ==
    LET owner == Text(FormatS \o <<Space>> \o FormatD \o <<Space>> \o FormatS \o <<Space>>,
                      <<GetPermissions(file.mode), file.nlink, file.owner>>)
        group == Text(FormatS \o <<Space>> \o FormatLd \o <<Space>> \o FormatS,
                      <<file.group, file.size, GetTime(file.mtime)>>)
        name == Text(<<Space>> \o FormatS, <<file.name>>)
        link == IF file.mode.type = "link" /\ file.target # NullString
                THEN Text(Arrow \o FormatS, <<file.target>>) ELSE <<>>
    IN  IF file.owner = NullString THEN [crashed |-> TRUE, text |-> <<>>]
        ELSE IF file.group = NullString THEN [crashed |-> TRUE, text |-> owner]
        ELSE [crashed |-> FALSE, text |-> owner \o group \o name \o link \o <<Newline>>]

GetTotalBlocks(files) == SumFunction([k \in DOMAIN files |-> files[k].blocks])

\* Lines are printed up to the one the program does not survive.
PrintLines(files) ==
    LET line == [k \in DOMAIN files |-> PrintLongFormat(files[k])]
        crashes == {k \in DOMAIN files : line[k].crashed}
        last == IF crashes = {} THEN Len(files) ELSE Min(crashes)
    IN  [crashed |-> crashes # {}, text |-> FlattenSeq([k \in 1..last |-> line[k].text])]

HandleLongFormat(files) ==
    LET lines == PrintLines(files)
    IN  [crashed |-> lines.crashed,
         text |-> Text(Total \o FormatLd \o <<Newline>>, <<GetTotalBlocks(files) \div 2>>)
                  \o lines.text]

\* Without -l: the names on one line. A directory without visible files has no line.
PrintFiles(files) ==
    FlattenSeq([k \in DOMAIN files |->
        Text(FormatS \o (IF k < Len(files) THEN <<Space, Space>> ELSE <<Newline>>),
             <<files[k].name>>)])
=============================================================================
