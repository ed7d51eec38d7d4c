------------------------------- MODULE Config -------------------------------
(***************************************************************************)
(* config.Load of server/config/config.go: the server's settings from the  *)
(* defaults, an INI file and the environment.                              *)
(*                                                                         *)
(* The settings are read in two ways, as text and as numbers, and one of   *)
(* each stands for all: DBPath and FESLPort.  A value is the empty string, *)
(* "junk", which is no number, or a number; blank lines, comments and      *)
(* lines without "=" are skipped, and paths are not told apart from their  *)
(* cleaned form.                                                           *)
(***************************************************************************)
EXTENDS Sequences, SequencesExt

Numbers == {"1", "2", "18680"}     \* bound: the values strconv.Atoi accepts
Default == [dbPath |-> "me_server.db", feslPort |-> "18680"]

Section(name)       == [kind |-> "section", name |-> name]
Setting(key, value) == [kind |-> "setting", key |-> key, value |-> value]
Unreadable          == <<[kind |-> "error"]>>   \* no such file, or a line too long

\* The lines of a file that are not skipped.
Line == [kind : {"section"}, name : STRING] \cup [kind : {"setting"}, key : STRING, value : STRING]

\* values[cell] = value
Put(values, cell, value) ==
  [c \in DOMAIN values \cup {cell} |-> IF c = cell THEN value ELSE values[c]]

\* Deviation: the first value of a key stays.
ReadLine_FirstWins(read, line) ==
  CASE line.kind = "section" -> [read EXCEPT !.section = line.name]
    [] line.kind = "setting" ->
         IF <<read.section, line.key>> \in DOMAIN read.values THEN read
           ELSE [read EXCEPT !.values = Put(@, <<read.section, line.key>>, line.value)]
    [] OTHER -> read

\* One line of the file; the last value of a key stays.
ReadLine(read, line) ==
  CASE line.kind = "section" -> [read EXCEPT !.section = line.name]
    [] line.kind = "setting" ->
         [read EXCEPT !.values = Put(@, <<read.section, line.key>>, line.value)]
    [] OTHER -> read

ReadINI(file) == FoldLeft(ReadLine, [section |-> "", values |-> <<>>], file).values

\* Text: an empty value is no value.
Lookup(values, key, fallback) ==
  IF key \in DOMAIN values /\ values[key] # "" THEN values[key] ELSE fallback
LookupInt(values, key, fallback) ==
  IF key \in DOMAIN values /\ values[key] \in Numbers THEN values[key] ELSE fallback
Getenv(value, fallback)    == IF value # "" THEN value ELSE fallback
GetenvInt(value, fallback) == IF value \in Numbers THEN value ELSE fallback

\* env has the two variables, "" for one that is not set.
Load(file, env) ==
  LET values == IF file = Unreadable THEN <<>> ELSE ReadINI(file)
  IN  [dbPath   |-> Getenv(env.dbPath, Lookup(values, <<"paths", "db_path">>, Default.dbPath)),
       feslPort |-> GetenvInt(env.feslPort,
                              LookupInt(values, <<"network", "fesl_port">>, Default.feslPort))]

-----------------------------------------------------------------------------
(* What the settings should be, without reading line by line *)

SectionAt(file, i) ==
  LET above == {j \in 1 .. i : file[j].kind = "section"}
  IN  IF above = {} THEN "" ELSE file[CHOOSE j \in above : \A k \in above : k <= j].name

\* The last value the file gives to a key, as a set.
LastValue(file, section, key) ==
  LET lines == {i \in DOMAIN file : /\ file[i].kind = "setting" /\ file[i].key = key
                                    /\ SectionAt(file, i) = section}
  IN  {file[i].value : i \in {j \in lines : \A k \in lines : k <= j}}

\* The first source that has a usable value.
FirstUsable(sources, usable) ==
  sources[CHOOSE i \in DOMAIN sources :
            /\ sources[i] \cap usable # {}
            /\ \A j \in 1 .. i - 1 : sources[j] \cap usable = {}]

\* The environment goes before the file, the file before the default, and a
\* value that cannot be used gives way to the next source.
Expected(s, env, file, section, key, default, usable) ==
  s \in FirstUsable(<<{env}, LastValue(file, section, key), {default}>>, usable)
=============================================================================
