------------------------------- MODULE Locker -------------------------------
(***************************************************************************)
(* The FileLocker: uploads (put), downloads (get) and listings (dir, nfo)  *)
(* of ghosts, server/locker/server.go.                                     *)
(*                                                                         *)
(* A ghost is the file "<persona>_<name>" and its metadata a JSON file     *)
(* beside it.  Every HTTP connection has a goroutine; they share only the  *)
(* directory and nothing is locked.  os.WriteFile truncates the file and   *)
(* writes it from the start in a second step, and other connections read   *)
(* and write in between, so an upload is four steps.  The process may end  *)
(* between any two.  Requests the validators refuse touch nothing and are  *)
(* left out; so is the clock, and all metadata but the name.               *)
(*                                                                         *)
(* A file content is a number: its size, for the bodies clients upload     *)
(* have different sizes.                                                   *)
(***************************************************************************)
EXTENDS Integers, FiniteSets, Sequences, FiniteSetsExt, SequencesExt

CONSTANTS Clients,  \* HTTP connections
          Personas,
          Names,    \* ghost names tdttghost_<n>: n is a tag or a stretch
          Bodies,   \* sizes of the bodies clients upload
          Shadows,  \* <<p, q>>: the name of q begins with the name of p and "_"
          Underscored, \* the personas with "_" in their names
          FileOrder, \* <<persona, name>> in the order of their file names
          MaxList,  \* lockerListMaxEntries
          Uploads,  \* bound: the <<persona, name, body>> that are ever uploaded
          Requests, \* bound: the <<persona, name>> that get and nfo ask for
          Tags      \* bound: the <<tag, stretch>> that table stats may hold

Paths == Personas \X Names

ASSUME LockerAssumption ==
  /\ Bodies \subseteq Nat \ {0} /\ "" \notin Personas
  /\ IsFiniteSet(Personas) /\ IsFiniteSet(Names)
  /\ Underscored \subseteq Personas /\ Shadows \subseteq Personas \X Underscored
  /\ FileOrder \in SetToSeqs(Paths) /\ MaxList \in Nat \ {0}
  /\ Uploads \subseteq Personas \X Names \X Bodies
  /\ Requests \subseteq Paths /\ Tags \subseteq Names \X Names

VARIABLES file,    \* path -> content
          meta,    \* path -> state of the JSON file
          aliases, \* <<tag, stretch>> found in table stats by GhostTagToStretches
          pc, req, \* next step of the connection's handler, and its request
          found,   \* the path a get is going to read
          \* history
          stored,  \* path -> body of the last acknowledged upload, Unknown once
                   \* uploads to it have overlapped or one was interrupted
          steady,  \* no file, no metadata and no alias changed during this get
          answer   \* the answer to a get, dir or nfo that the last step gave, if any

disk == <<file, meta>>
vars == <<file, meta, aliases, pc, req, found, stored, steady, answer>>

Absent == -2
Mixed  == -1  \* a short body written over the start of a longer one
Empty  == 0
Unknown == -3

NoRequest == [cmd |-> "none"]
NoAnswer  == [kind |-> "none"]
NoPath    == <<>>

Writing == {"truncate", "write", "truncateMeta", "writeMeta"}
PathOf(c) == <<req[c].pers, req[c].name>>
Writers(path) == {c \in Clients : pc[c] \in Writing /\ PathOf(c) = path}

-----------------------------------------------------------------------------
(* Directory listings *)

Mangled == "not a ghost name"

Matches(d, prefix) == prefix = "" \/ d[1] = prefix \/ <<prefix, d[1]>> \in Shadows

\* A loop that keeps what is in S, as a recursive function.
Only(s, S) ==
  LET kept[n \in 0 .. Len(s)] ==
        IF n = 0 THEN <<>>
          ELSE IF s[n] \in S THEN Append(kept[n - 1], s[n]) ELSE kept[n - 1]
  IN  kept[Len(s)]

\* A file is named by its metadata, or else by what follows the prefix, which is
\* the ghost's name only if the prefix is the owner's; with no prefix by what
\* follows the first "_", which may stand in the owner's name.
NameIn(d, prefix) ==
  IF meta[d] = "saved" \/ d[1] = prefix \/ (prefix = "" /\ d[1] \notin Underscored) THEN d[2] ELSE Mangled

EntryOf(d, prefix) == [path |-> d, name |-> NameIn(d, prefix), size |-> file[d]]

\* Deviation: a ghost without readable metadata is skipped.
Entries_NeedMeta(prefix) ==
  LET files == Only(FileOrder, {d \in Paths : file[d] # Absent /\ meta[d] = "saved" /\ Matches(d, prefix)})
  IN  [i \in DOMAIN files |-> EntryOf(files[i], prefix)]

\* collectGhostEntries: the files that begin with the prefix.
Entries(prefix) ==
  LET files == Only(FileOrder, {d \in Paths : file[d] # Absent /\ Matches(d, prefix)})
  IN  [i \in DOMAIN files |-> EntryOf(files[i], prefix)]

\* withStretchAliases: behind the entries, each under the stretches its tag was
\* uploaded for, unless a name is there already.  The order of the stretches of
\* one tag is left open.
TaggedIn(own, n) == {i \in DOMAIN own : <<own[i].name, n>> \in aliases}
NewIn(own) == {n \in Names \ {own[i].name : i \in DOMAIN own} : TaggedIn(own, n) # {}}
AliasIn(own, n) == [own[Min(TaggedIn(own, n))] EXCEPT !.name = n]

WithStretchAliases(own) ==
  {own \o [k \in DOMAIN x |-> AliasIn(own, x[k])] :
     x \in {y \in SetToSeqs(NewIn(own)) :
              \A i, j \in DOMAIN y : i < j => Min(TaggedIn(own, y[i])) <= Min(TaggedIn(own, y[j]))}}

Listings(prefix) == WithStretchAliases(Entries(prefix))

\* findEntryByName: where the first entry of that name leads, if there is one.
Find(list, n) ==
  LET named == {i \in DOMAIN list : list[i].name = n}
  IN  IF named = {} THEN {} ELSE {list[Min(named)].path}

-----------------------------------------------------------------------------
Goto(c, step) == pc' = [pc EXCEPT ![c] = step]

Finish(c) ==
  /\ Goto(c, "idle")
  /\ req' = [req EXCEPT ![c] = NoRequest]
  /\ found' = [found EXCEPT ![c] = NoPath]

\* Files, metadata or aliases change under the gets in progress.
Disturb ==
  /\ steady' = [c \in Clients |-> pc[c] = "idle"]
  /\ answer' = NoAnswer

(* put *)

Put(c) ==
  /\ pc[c] = "idle"
  /\ \E u \in Uploads :
       /\ req' = [req EXCEPT ![c] = [cmd |-> "put", pers |-> u[1], name |-> u[2], body |-> u[3]]]
       /\ stored' = IF Writers(<<u[1], u[2]>>) = {} THEN stored ELSE [stored EXCEPT ![<<u[1], u[2]>>] = Unknown]
  /\ Goto(c, "truncate")
  /\ answer' = NoAnswer
  /\ UNCHANGED <<disk, aliases, found, steady>>

\* Deviation: the file is opened without O_TRUNC.
Truncate_Keeps(c) ==
  /\ pc[c] = "truncate"
  /\ file' = [file EXCEPT ![PathOf(c)] = IF @ = Absent THEN Empty ELSE @]
  /\ Goto(c, "write")
  /\ Disturb
  /\ UNCHANGED <<meta, aliases, req, found, stored>>

Truncate(c) ==
  /\ pc[c] = "truncate"
  /\ file' = [file EXCEPT ![PathOf(c)] = Empty]
  /\ Goto(c, "write")
  /\ Disturb
  /\ UNCHANGED <<meta, aliases, req, found, stored>>

\* The body goes to offset 0: what a faster upload put beyond its end remains.
Write(c) ==
  /\ pc[c] = "write"
  /\ file' = [file EXCEPT ![PathOf(c)] =
                IF @ = Mixed \/ @ > req[c].body THEN Mixed ELSE req[c].body]
  /\ Goto(c, "truncateMeta")
  /\ Disturb
  /\ UNCHANGED <<meta, aliases, req, found, stored>>

TruncateMeta(c) ==
  /\ pc[c] = "truncateMeta"
  /\ meta' = [meta EXCEPT ![PathOf(c)] = "broken"]
  /\ Goto(c, "writeMeta")
  /\ Disturb
  /\ UNCHANGED <<file, aliases, req, found, stored>>

\* Over the metadata of a faster upload the JSON may become unreadable.
WriteMeta(c) ==
  /\ pc[c] = "writeMeta"
  /\ \E state \in {"saved", "broken"} :
       /\ state = "broken" => meta[PathOf(c)] = "saved"
       /\ meta' = [meta EXCEPT ![PathOf(c)] = state]
  /\ stored' = [stored EXCEPT ![PathOf(c)] = IF @ = Unknown THEN @ ELSE req[c].body]
  /\ Finish(c)
  /\ Disturb
  /\ UNCHANGED <<file, aliases>>

\* A step of an upload fails: <LOCKER error="1"/>, what was written stays.
PutFails(c) ==
  /\ pc[c] \in Writing
  /\ stored' = [stored EXCEPT ![PathOf(c)] = Unknown]
  /\ Finish(c)
  /\ answer' = NoAnswer
  /\ UNCHANGED <<disk, aliases, steady>>

-----------------------------------------------------------------------------
(* get *)

Get(c) ==
  /\ pc[c] = "idle"
  /\ \E r \in Requests :
       req' = [req EXCEPT ![c] = [cmd |-> "get", pers |-> r[1], name |-> r[2]]]
  /\ Goto(c, "findOwn")
  /\ steady' = [steady EXCEPT ![c] = TRUE]
  /\ answer' = NoAnswer
  /\ UNCHANGED <<disk, aliases, found, stored>>

Answer(c, response) ==
  /\ Finish(c)
  /\ answer' = response
  /\ steady' = [steady EXCEPT ![c] = TRUE]

\* With the answer goes what was asked, if nothing has changed since.
Asked(c) == IF steady[c] THEN PathOf(c) ELSE NoPath

\* 404, for nobody has the ghost or for something could not be read.
NotFound(c)    == [kind |-> "missing", cause |-> "nobody", asked |-> Asked(c)]
Failure        == [kind |-> "missing", cause |-> "error", asked |-> NoPath]
Contents(c, d) == [kind |-> "data", asked |-> Asked(c), path |-> d, content |-> file[d]]

FindOwn(c) ==
  /\ pc[c] = "findOwn"
  /\ \E list \in Listings(req[c].pers) :
       LET own == Find(list, req[c].name)
       IN  \/ \E d \in own : found' = [found EXCEPT ![c] = d] /\ Goto(c, "read")
           \/ own = {} /\ Goto(c, "findAny") /\ UNCHANGED found
  /\ answer' = NoAnswer
  /\ UNCHANGED <<disk, aliases, req, stored, steady>>

\* Deviation: only the persona's own files are searched.
FindAny_GivesUp(c) ==
  /\ pc[c] = "findAny"
  /\ Answer(c, NotFound(c))
  /\ UNCHANGED <<disk, aliases, stored>>

FindAny(c) ==
  /\ pc[c] = "findAny"
  /\ \E list \in Listings("") :
       LET any == Find(list, req[c].name)
       IN  \/ /\ \E d \in any : found' = [found EXCEPT ![c] = d]
              /\ Goto(c, "read")
              /\ answer' = NoAnswer
              /\ UNCHANGED <<req, steady>>
           \/ any = {} /\ Answer(c, NotFound(c))
  /\ UNCHANGED <<disk, aliases, stored>>

\* The file is read at one instant: a read that spans part of an upload's
\* truncation and write is one in between.
ReadFile(c) ==
  /\ pc[c] = "read"
  /\ Answer(c, Contents(c, found[c]))
  /\ UNCHANGED <<disk, aliases, stored>>

\* A directory, a query or the file cannot be read: 404 all the same.
GetFails(c) ==
  /\ pc[c] \in {"findOwn", "findAny", "read"}
  /\ Answer(c, Failure)
  /\ UNCHANGED <<disk, aliases, stored>>

-----------------------------------------------------------------------------
(* dir and nfo: a listing is read and answered in one step *)

\* Deviation: the cap holds for the files, and the aliases are added to them.
List_CapsFirst(c) ==
  /\ pc[c] = "idle"
  /\ \E p \in Personas : \E list \in Listings(p) :
       answer' = [kind |-> "list", pers |-> p, list |->
         LET n == Len(Entries(p)) IN SubSeq(list, 1, Min({n, MaxList})) \o SubSeq(list, n + 1, Len(list))]
  /\ UNCHANGED <<disk, aliases, pc, req, found, stored, steady>>

\* dir, or nfo without a name: capLockerList cuts the end off, aliases first.
List(c) ==
  /\ pc[c] = "idle"
  /\ \E p \in Personas : \E list \in Listings(p) :
       answer' = [kind |-> "list", pers |-> p, list |-> SubSeq(list, 1, Min({Len(list), MaxList}))]
  /\ UNCHANGED <<disk, aliases, pc, req, found, stored, steady>>

\* nfo with a name: all entries of that name, without a cap.
Nfo(c) ==
  /\ pc[c] = "idle"
  /\ \E r \in Requests : \E list \in Listings(r[1]) :
       answer' = [kind |-> "info", pers |-> r[1], name |-> r[2],
                  list |-> Only(list, {e \in Range(list) : e.name = r[2]})]
  /\ UNCHANGED <<disk, aliases, pc, req, found, stored, steady>>

-----------------------------------------------------------------------------
\* UpdateStats stores or overwrites the tag of a stretch.
AliasesChange ==
  /\ aliases' \in (SUBSET Tags) \ {aliases}
  /\ Disturb
  /\ UNCHANGED <<disk, pc, req, found, stored>>

\* The process ends and starts again.
Restart ==
  /\ stored' = [d \in Paths |-> IF Writers(d) = {} THEN stored[d] ELSE Unknown]
  /\ pc' = [c \in Clients |-> "idle"]
  /\ req' = [c \in Clients |-> NoRequest]
  /\ found' = [c \in Clients |-> NoPath]
  /\ steady' = [c \in Clients |-> TRUE]
  /\ answer' = NoAnswer
  /\ UNCHANGED <<disk, aliases>>

Init ==
  /\ file = [d \in Paths |-> Absent]
  /\ meta = [d \in Paths |-> "none"]
  /\ aliases = {}
  /\ pc = [c \in Clients |-> "idle"]
  /\ req = [c \in Clients |-> NoRequest]
  /\ found = [c \in Clients |-> NoPath]
  /\ stored = [d \in Paths |-> Absent]
  /\ steady = [c \in Clients |-> TRUE]
  /\ answer = NoAnswer

Handler(c) ==
  \/ Put(c) \/ Truncate(c) \/ Write(c) \/ TruncateMeta(c) \/ WriteMeta(c) \/ PutFails(c)
  \/ Get(c) \/ FindOwn(c) \/ FindAny(c) \/ ReadFile(c) \/ GetFails(c)
  \/ List(c) \/ Nfo(c)

Next == AliasesChange \/ Restart \/ \E c \in Clients : Handler(c)

Spec == Init /\ [][Next]_vars
-----------------------------------------------------------------------------
(* Properties *)

\* A download, whatever is uploaded meanwhile, gives the whole body of the last
\* acknowledged upload, or of the one in progress, unless it is read between the
\* truncation and the write of that one (then it is empty or short); provided
\* uploads of that ghost never overlapped and none was interrupted.
DownloadIsLastUpload ==
  answer.kind = "data" /\ stored[answer.path] # Unknown =>
    \/ answer.content = stored[answer.path]
    \/ \E c \in Writers(answer.path) : pc[c] = "write" \/ answer.content = req[c].body

\* A persona that has the ghost itself, under that name or as the tag of that
\* stretch, downloads its own, even when a crash lost or broke the metadata;
\* a name of its own goes before an alias.  A persona whose name and "_" begin
\* the name of another may get one of the other's instead, for their files are
\* taken for its own, but none of anybody else.  Assumed: nothing changes during
\* the get and every read succeeds.
OwnGhostFirst ==
  answer.kind \in {"data", "missing"} /\ answer.asked # NoPath =>
    LET p == answer.asked[1]
        n == answer.asked[2]
        tagged == {t \in Names : file[<<p, t>>] # Absent /\ (t = n \/ <<t, n>> \in aliases)}
    IN  tagged # {} =>
          /\ answer.kind = "data" /\ Matches(answer.path, p)
          /\ (\A q \in Personas : <<p, q>> \notin Shadows) =>
               /\ answer.path[1] = p /\ answer.path[2] \in tagged
               /\ n \in tagged => answer.path[2] = n

\* When every read succeeds and nothing changes meanwhile, a ghost is reported
\* missing only if nobody has one with intact metadata under that name or as the
\* tag of that stretch (a failed read is answered with the same 404); and
\* metadata never stands alone, for a crash in an upload leaves the body first.
NotFoundIsTrue ==
  /\ \A d \in Paths : meta[d] # "none" => file[d] # Absent
  /\ answer.kind = "missing" /\ answer.cause = "nobody" /\ answer.asked # NoPath =>
       \A d \in Paths :
         file[d] # Absent /\ meta[d] = "saved" =>
         d[2] # answer.asked[2] /\ <<d[2], answer.asked[2]>> \notin aliases

\* What a listing shows is what a get of that persona delivers: each name once,
\* with the size of the file that get reads.  Every upload that was acknowledged
\* is listed with its size, by nfo always and by dir unless the cap is reached,
\* which hides the aliases before it hides a ghost.  (Not so for a persona whose
\* name and "_" begin the name of another.)
ListingIsTrue ==
  answer.kind \in {"list", "info"} /\ (\A q \in Personas : <<answer.pers, q>> \notin Shadows) =>
    LET shown == answer.list
        own == {d \in Paths : /\ d[1] = answer.pers /\ Writers(d) = {}
                              /\ stored[d] \notin {Absent, Unknown}}
        Listed(d) == \E i \in DOMAIN shown : shown[i].name = d[2] /\ shown[i].size = stored[d]
    IN  /\ \A i \in DOMAIN shown : \A list \in Listings(answer.pers) :
             Find(list, shown[i].name) = {shown[i].path} /\ file[shown[i].path] = shown[i].size
        /\ \A i, j \in DOMAIN shown : shown[i].name = shown[j].name => i = j
        /\ answer.kind = "info" => \A d \in own : d[2] = answer.name => Listed(d)
        /\ answer.kind = "list" =>
             /\ Len(shown) <= MaxList
             /\ (\A d \in own : Listed(d)) \/ Len(shown) = MaxList
             /\ (\E i \in DOMAIN shown : shown[i].path[2] # shown[i].name) => \A d \in own : Listed(d)
=============================================================================
