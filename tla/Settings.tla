------------------------------ MODULE Settings ------------------------------
(***************************************************************************)
(* How a program's settings are read: ConfigFile::load() (src/             *)
(* ConfigFile.cpp), CmdArgs::parse() (src/CmdArgs.cpp) and                 *)
(* Environment's get_current(), get_envp() and substitute() (src/          *)
(* Environment.cpp, POSIX).                                                *)
(* Each is given what a user means, spelt, and has to find it again.       *)
(* A text is a sequence of characters; "nl", "cr" and "sp" are white space *)
(* and "\" is the escape.  No allocation fails.  Of the order of an        *)
(* env_table_t only that of entries with equal names is kept.              *)
(***************************************************************************)
EXTENDS Naturals, Sequences, FiniteSets, SequencesExt

CONSTANTS
  Lines,       \* of a file: [text, kind, name, value]; kind "section", "entry", "none" or "bad"
  MaxLines,
  Options,     \* of the program: [id, short, long, takes]
  Items,       \* of a command line: [args, kind, id, value]; kind "option", "last", "argument" or "bad"
  MaxItems,
  Pieces,      \* of the value of a variable: [text, name], name # <<>> for "${name}"
  MaxPieces,
  Variables,   \* [name -> value] that are substituted
  Strings,     \* of the environment: [text, kind, name, value]; kind "variable", or "none" without "="
  MaxStrings

VARIABLES
  meant,    \* what was spelt
  read      \* what is being read, how far, and what was found

vars == <<meant, read>>

Space == {"sp", "cr", "nl", "tab"}
Others == Space \cup {"=", "[", "]", "#", ";", "\\", "-", "$", "{", "}"}
Upto(S, max) == UNION {[1..n -> S] : n \in 0..max}
Spelt(items) == FlattenSeq([i \in DOMAIN items |-> items[i].text])
LeastOr(S, other) == IF S = {} THEN other ELSE CHOOSE i \in S : \A j \in S : i <= j
Before(t, p, q) == SubSeq(t, p, q - 1)

\* The first place from p on where there is one of S, or the end.
Find(t, p, S) == LeastOr({i \in p..Len(t) : t[i] \in S}, Len(t) + 1)

-----------------------------------------------------------------------------
(* ConfigFile                                                              *)
SkipWhitespace(t, p) ==
  LET skip[i \in 1..(Len(t) + 1)] ==
        IF i > Len(t) THEN i
        ELSE IF t[i] \in {"#", ";"} THEN LET nl == Find(t, i, {"nl"}) IN skip[IF nl > Len(t) THEN nl ELSE nl + 1]
        ELSE IF t[i] \in Space THEN skip[i + 1] ELSE i
  IN  skip[p]

Ident(t, p) == Find(t, p, Others)
Is(t, p, c) == p <= Len(t) /\ t[p] = c

Stops(e) == read' = [read EXCEPT !.stage = e]

\* '[' has been read.
ParseSection(p) ==
  LET t == read.text
      start == SkipWhitespace(t, p)
      end == Ident(t, start)
      close == SkipWhitespace(t, end)
  IN  IF start = end \/ ~Is(t, close, "]") THEN Stops("error")
      ELSE read' = [read EXCEPT !.at = close + 1, !.section = Before(t, start, end)]

\* The end of a value and the place after it; where the file ends first, the end
\* is still that of the key and the value is lost.
ValueEnd(t, p, key) ==
  LET escaped[i \in p..(Len(t) + 1)] == i > p /\ t[i - 1] = "\\" /\ ~escaped[i - 1]
      nl == LeastOr({i \in p..Len(t) : t[i] = "nl" /\ ~escaped[i]}, Len(t) + 1)
      cr == nl - 1 >= p /\ nl <= Len(t) /\ t[nl - 1] = "cr" /\ ~escaped[nl - 1]
  IN  [end |-> IF nl > Len(t) THEN key ELSE IF cr THEN nl - 1 ELSE nl, next |-> IF nl > Len(t) THEN nl ELSE nl + 1,
       bad |-> \E i \in p..(nl - 1) : t[i] = "\\" /\ ~escaped[i] /\ (i = Len(t) \/ t[i + 1] \notin {"n", "r", "\\"})]

Unescaped(v) ==
  LET escaped[i \in 0..Len(v)] == i > 1 /\ v[i - 1] = "\\" /\ ~escaped[i - 1]
      Char(i) == IF escaped[i] THEN IF v[i] = "n" THEN <<"nl">> ELSE IF v[i] = "r" THEN <<"cr">> ELSE <<"\\">>
                 ELSE IF v[i] = "\\" THEN <<>> ELSE <<v[i]>>
  IN  FlattenSeq([i \in DOMAIN v |-> Char(i)])

ParseEntry(p) ==
  LET t == read.text
      end == Ident(t, p)
      equals == SkipWhitespace(t, end)
      v == ValueEnd(t, equals + 1, end)
      key == (IF read.section = <<>> THEN <<>> ELSE Append(read.section, "/")) \o Before(t, p, end)
  IN  IF p = end \/ ~Is(t, equals, "=") \/ v.bad THEN Stops("error")
      ELSE read' = [read EXCEPT !.at = v.next, !.found = Append(@, [name |-> key, value |-> Unescaped(Before(t, equals + 1, v.end))])]

\* One round of the loop of load().
Load ==
  /\ read.what = "file" /\ read.stage = "reads"
  /\ LET p == SkipWhitespace(read.text, read.at)
     IN  IF p > Len(read.text) THEN Stops("done")
         ELSE IF read.text[p] = "[" THEN ParseSection(p + 1) ELSE ParseEntry(p)
  /\ UNCHANGED meant

-----------------------------------------------------------------------------
(* CmdArgs.  The text is the sequence of arguments.                        *)
True == <<"t">>
Option(id, value) == [name |-> id, value |-> value]

\* error() forgets the options that were found.
Fails == read' = [read EXCEPT !.stage = "error", !.found = SelectSeq(@, LAMBDA f : f.name = <<>>)]
Takes(o, value, next) == read' = [read EXCEPT !.at = next, !.found = Append(@, Option(o.id, value))]

Begins(arg, long) == Len(arg) > Len(long) + 2 /\ Before(arg, 3, Len(long) + 3) = long /\ arg[Len(long) + 3] = "="

ParseLongOption(arg) ==
  LET named == {o \in Options : <<"-", "-">> \o o.long = arg}
      joined == {o \in Options : Begins(arg, o.long)}
  IN  IF named \cup joined = {} THEN Fails
      ELSE \E o \in named \cup joined :
             IF o \in joined THEN Takes(o, IF o.takes THEN SubSeq(arg, Len(o.long) + 4, Len(arg)) ELSE True, read.at + 1)
             ELSE IF ~o.takes THEN Takes(o, True, read.at + 1)
             ELSE IF read.at >= Len(read.text) THEN Fails
             ELSE Takes(o, read.text[read.at + 1], read.at + 2)

\* The letters of one argument, up to the first that takes a value.
ParseShortOptions(arg) ==
  LET Of(c) == {o \in Options : o.short = c}
      stop == LeastOr({i \in 2..Len(arg) : \A o \in Of(arg[i]) : o.takes}, Len(arg) + 1)
      flags == [i \in 1..(stop - 2) |-> Option((CHOOSE o \in Of(arg[i + 1]) : TRUE).id, True)]
      after == stop < Len(arg)
  IN  IF stop > Len(arg) THEN read' = [read EXCEPT !.at = @ + 1, !.found = @ \o flags]
      ELSE IF Of(arg[stop]) = {} \/ (~after /\ read.at >= Len(read.text)) THEN Fails
      ELSE \E o \in Of(arg[stop]) :
             read' = [read EXCEPT
               !.at = IF after THEN @ + 1 ELSE @ + 2,
               !.found = (@ \o flags) \o
                   <<Option(o.id, IF after THEN SubSeq(arg, stop + 1, Len(arg)) ELSE read.text[read.at + 1])>>]

\* One round of the loop of parse().  "--" is never an argument.
Parse ==
  /\ read.what = "line" /\ read.stage = "reads"
  /\ IF read.at > Len(read.text) THEN Stops("done")
     ELSE LET arg == read.text[read.at]
          IN  IF arg = <<"-", "-">> THEN read' = [read EXCEPT !.at = @ + 1, !.section = <<"-", "-">>]
              ELSE IF read.section = <<>> /\ Len(arg) > 1 /\ arg[1] = "-"
              THEN IF arg[2] = "-" THEN ParseLongOption(arg) ELSE ParseShortOptions(arg)
              ELSE read' = [read EXCEPT !.at = @ + 1, !.found = Append(@, Option(<<>>, arg))]
  /\ UNCHANGED meant

-----------------------------------------------------------------------------
(* Environment::substitute() for a table of one variable: at is the offset *)
(* after what was put in last, section the variable's name.                *)
AddsMissing ==
  LET names == DOMAIN Variables \ {read.section}
  IN  SetToSeq({Option(name, Variables[name]) : name \in names})

Substitute ==
  /\ read.what = "value" /\ read.stage = "reads"
  /\ LET t == read.text
         start == LeastOr({i \in read.at..(Len(t) - 1) : t[i] = "$" /\ t[i + 1] = "{"}, Len(t) + 1)
         end == Find(t, start + 2, {"}"})
         name == Before(t, start + 2, end)
         value == IF name \in DOMAIN Variables THEN Variables[name] ELSE <<>>
         head == Before(t, 1, start) \o value
     IN  read' = IF end > Len(t) THEN [read EXCEPT !.stage = "done", !.found = <<Option(read.section, t)>> \o AddsMissing]
                 ELSE [read EXCEPT !.text = head \o SubSeq(t, end + 1, Len(t)), !.at = Len(head) + 1]
  /\ UNCHANGED meant

-----------------------------------------------------------------------------
(* Environment::get_current() and get_envp(): the text is the sequence of  *)
(* the strings.                                                            *)
Exists(name) == \E i \in DOMAIN read.found : read.found[i].name = name

\* Among equal names the newest entry comes first.
WithEntry(e) ==
  LET p == LeastOr({i \in DOMAIN read.found : read.found[i].name = e.name}, Len(read.found) + 1)
  IN  InsertAt(read.found, p, e)

\* One round of the loop of get_current().
GetCurrent ==
  /\ read.what = "environment" /\ read.stage = "reads" /\ read.at <= Len(read.text)
  /\ LET str == read.text[read.at]
         eq == Find(str, 1, {"="})
         name == Before(str, 1, eq)
         e == IF eq > Len(str) THEN Option(<<>>, str) ELSE Option(name, SubSeq(str, eq + 1, Len(str)))
     IN  read' = [read EXCEPT !.at = @ + 1, !.found = IF Exists(name) THEN @ ELSE WithEntry(e)]
  /\ UNCHANGED meant

\* The characters that get_envp() allocates for the strings.
CountedSize(found) == FoldLeft(LAMBDA n, e : ((n + Len(e.name)) + Len(e.value)) + 2, 0, found)

\* The table is written as an environment, which is read again.
GetEnvp ==
  /\ read.what = "environment" /\ read.stage = "reads" /\ read.at > Len(read.text)
  /\ read' = IF meant.first # <<>> \/ read.found = <<>> THEN [read EXCEPT !.stage = "done"]
             ELSE [read EXCEPT !.text = [i \in DOMAIN read.found |-> (read.found[i].name \o <<"=">>) \o read.found[i].value],
                               !.room = CountedSize(read.found), !.at = 1, !.found = <<>>]
  /\ meant' = IF meant.first # <<>> THEN meant ELSE [meant EXCEPT !.first = read.found]

-----------------------------------------------------------------------------
Reads(what, text, section) ==
  [what |-> what, text |-> text, at |-> 1, section |-> section, found |-> <<>>, room |-> 0, stage |-> "reads"]
Means(items, cut) == meant = [items |-> items, cut |-> cut = 1, first |-> <<>>]

Init ==
  \/ \E lines \in Upto(Lines, MaxLines), cut \in {0, 1} :
       /\ Means(lines, cut)
       /\ read = Reads("file", SubSeq(Spelt(lines), 1, Len(Spelt(lines)) - (IF lines = <<>> THEN 0 ELSE cut)), <<>>)
  \/ \E items \in Upto(Items, MaxItems) : Means(items, 0) /\ read = Reads("line", Spelt(items), <<>>)
  \/ \E pieces \in Upto(Pieces, MaxPieces), name \in DOMAIN Variables \cup {<<"e">>} :
       Means(pieces, 0) /\ read = Reads("value", Spelt(pieces), name)
  \/ \E strings \in Upto(Strings, MaxStrings) : Means(strings, 0) /\ read = Reads("environment", Spelt(strings), <<>>)

Next == Load \/ Parse \/ Substitute \/ GetCurrent \/ GetEnvp

-----------------------------------------------------------------------------
Of(kind) == {i \in DOMAIN meant.items : meant.items[i].kind = kind}
FirstBad == LeastOr(Of("bad"), Len(meant.items) + 1)

\* What the lines mean: each entry in the section that was named last; the value
\* of a last line that has no line end is empty.
Entries ==
  LET Section(i) == {j \in Of("section") : j < i}
      Name(i) == IF Section(i) = {} THEN meant.items[i].name
                 ELSE Append(meant.items[CHOOSE j \in Section(i) : \A k \in Section(i) : k <= j].name, "/") \o meant.items[i].name
      Value(i) == IF meant.cut /\ i = Len(meant.items) THEN <<>> ELSE meant.items[i].value
      Entry(i) == IF i < FirstBad /\ i \in Of("entry") THEN <<Option(Name(i), Value(i))>> ELSE <<>>
  IN  FlattenSeq([i \in DOMAIN meant.items |-> Entry(i)])

\* What the arguments mean: after "--" there are only arguments, which are then
\* taken as they are spelt, but for another "--".
Given ==
  LET last == LeastOr(Of("last"), Len(meant.items) + 1)
      Plain(i) == SelectSeq(meant.items[i].text, LAMBDA arg : arg # <<"-", "-">>)
      Arguments(i) == [k \in DOMAIN Plain(i) |-> Option(<<>>, Plain(i)[k])]
      Meant(i) == IF meant.items[i].kind = "last" THEN <<>>
                  ELSE IF i > last \/ meant.items[i].kind = "argument" THEN Arguments(i)
                  ELSE <<Option(meant.items[i].name, meant.items[i].value)>>
      bad == \E i \in Of("bad") : i < last
  IN  IF bad THEN [found |-> <<>>, stage |-> "error"]
      ELSE [found |-> FlattenSeq([i \in DOMAIN meant.items |-> Meant(i)]), stage |-> "done"]

Replaced ==
  FlattenSeq([i \in DOMAIN meant.items |->
    IF meant.items[i].name = <<>> THEN meant.items[i].text
    ELSE IF meant.items[i].name \in DOMAIN Variables THEN Variables[meant.items[i].name] ELSE <<>>])

\* What the environment means: a variable has the value it is given first, and
\* a string without "=" is kept, unnamed, unless a variable has that name.
Meaning ==
  LET First(name) == LeastOr({i \in Of("variable") : meant.items[i].name = name}, 0)
      Stays(i) == IF i \in Of("variable") THEN First(meant.items[i].name) = i
                  ELSE \A j \in Of("variable") : j < i => meant.items[j].name # meant.items[i].value
  IN  {Option(meant.items[i].name, meant.items[i].value) : i \in {i \in DOMAIN meant.items : Stays(i)}}

\* Read once more there is one unnamed string, the last; the strings were as
\* large as was counted.
EnvironmentIsKept ==
  LET named == {e \in Meaning : e.name # <<>>}
      last == SelectSeq(meant.first, LAMBDA e : e.name = <<>>)
  IN  /\ ToSet(meant.first) = Meaning
      /\ ToSet(read.found) = named \cup (IF last = <<>> THEN {} ELSE {last[1]})
      /\ read.room = FoldLeft(LAMBDA n, t : (n + Len(t)) + 1, 0, IF meant.first = <<>> THEN <<>> ELSE read.text)

\* What was spelt is read again, all of it and in order, and what comes after a
\* mistake is not read; what substitute() puts in it does not read again.
WhatIsMeantIsRead ==
  read.stage # "reads" =>
    CASE read.what = "file" -> read.found = Entries /\ (read.stage = "error") = (FirstBad <= Len(meant.items))
      [] read.what = "line" ->
           /\ read.stage = Given.stage
           /\ IF read.stage = "done" THEN read.found = Given.found ELSE \A i \in DOMAIN read.found : read.found[i].name = <<>>
      [] read.what = "value" ->
           /\ read.found[1] = Option(read.section, Replaced)
           /\ {e.name : e \in ToSet(read.found)} = DOMAIN Variables \cup {read.section}
      [] read.what = "environment" -> EnvironmentIsKept
=============================================================================
