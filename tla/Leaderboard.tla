---------------------------- MODULE Leaderboard ----------------------------
(***************************************************************************)
(* Leaderboards of the FESL server: UpdateStats, GetStats, GetRankedStats, *)
(* their ...ForOwners forms and GetTopNAndStats (server/fesl/rank.go), the *)
(* imported historical runs and their links to personas, and the queries   *)
(* of server/storage/storage.go.                                           *)
(*                                                                         *)
(* A request is a sequence of SQL statements without a transaction, and an *)
(* atomic step is one of them.  The tables have two stats: "time" stands   *)
(* for a key that ends in _20 and "tag" for the ghost tag that goes with   *)
(* it; imported runs have a time only.  A run is told apart by its time,   *)
(* so the tag uploaded with time v is v.  Rows of the week and the month   *)
(* boards carry whether updated_at lies in the period that is now current. *)
(* Personas and historical players are never deleted, and persona names    *)
(* are UNIQUE: bestPersonaIDForKey returns the persona it is given.        *)
(***************************************************************************)
EXTENDS Integers, Sequences, FiniteSets, FiniteSetsExt, SequencesExt

CONSTANTS Writers,    \* bound: connections that send UpdateStats
          Readers,    \* bound: connections that send rank queries
          Queries,    \* bound: the queries they send, of "stats", "ranked" and "top"
          OwnerLists, \* bound: the owners that "stats" and "ranked" queries ask for
          Personas,   \* persona ids
          Players,    \* source keys of historical players
          Periods,    \* period ids in use
          Dated,      \* the periods with a cutoff: week and month
          Times,      \* values clients and importers send: any number, even below 0
          Updates,    \* bound: the <<key, period>> pairs an UpdateStats writes, in order
          MaxRows,    \* maxHistoricalTopRows
          CutoffRank  \* 500 in the code: from there an empty page gets a dummy row

ASSUME BoardAssumption ==
  /\ Dated \subseteq Periods /\ Times \subseteq Int
  /\ Personas \cap Players = {} /\ 0 \notin Personas \cup Players
  /\ MaxRows \in Nat \ {0} /\ CutoffRank \in Nat \ {0}
  /\ Periods # {}
  /\ Queries \subseteq {"stats", "ranked", "top"}
  /\ OwnerLists \subseteq Seq(Personas \cup Players) \ {<<>>}
  /\ Updates \subseteq Seq({"time", "tag"} \X Periods) \ {<<>>}

Sessions == Writers \cup Readers

VARIABLES stats,   \* table stats: <<persona, key, period>> -> row
          runs,    \* table historical_runs: <<player, period>> -> row
          players, \* table historical_players
          links,   \* table historical_account_links: player -> persona
          pc,      \* next statement of the connection's handler
          req,     \* the request being handled
          found,   \* what the handler has read or still has to write
          \* history
          moved,   \* owners whose rows, runs or links changed since the query came
          answer,  \* the last answer and its query, until a table changes after it
          torn     \* <<persona, period>> with an update that was interrupted, that
                   \* overlapped another or that brought the time or the tag alone

tables == <<stats, runs, players, links>>
vars   == <<tables, pc, req, found, answer, moved, torn>>

\* INSERT ... ON CONFLICT DO UPDATE: the row with this key is written anew.
Store(table, key, row) == [k \in DOMAIN table \cup {key} |-> IF k = key THEN row ELSE table[k]]

Keys == {"time", "tag"}
None == [kind |-> "none"]
Row  == [value : Times, current : BOOLEAN]

-----------------------------------------------------------------------------
(* The queries *)

\* updated_at >= cutoff, or no cutoff for this period.
Visible(row, q) == q \in Dated => row.current

Own(p, k, q) == {stats[c].value : c \in {d \in DOMAIN stats :
                                           d = <<p, k, q>> /\ Visible(stats[d], q)}}
RunTimes(h, q) == {runs[c].value : c \in {d \in DOMAIN runs :
                                            d = <<h, q>> /\ Visible(runs[d], q)}}
Linked(p) == {h \in DOMAIN links : links[h] = p}

\* value > 0
Timed(values) == {v \in values : v > 0}

\* linkedHistoricalStats, before MIN.
LinkedTimes(p, q) == Timed(UNION {RunTimes(h, q) : h \in Linked(p)})

\* Deviation: runs of linked players also stand for themselves.
Candidates_LinkedTwice(q) ==
  (UNION {{[owner |-> p, value |-> v, timeOnly |-> FALSE] : v \in Timed(Own(p, "time", q))} \cup
          {[owner |-> p, value |-> v, timeOnly |-> TRUE] : v \in LinkedTimes(p, q)} : p \in Personas})
  \cup (UNION {{[owner |-> h, value |-> v, timeOnly |-> TRUE] : v \in Timed(RunTimes(h, q))} :
               h \in players})

\* WITH candidates AS ... of TopN and rankForValue.
Candidates(q) ==
  (UNION {{[owner |-> p, value |-> v, timeOnly |-> FALSE] : v \in Timed(Own(p, "time", q))} \cup
          {[owner |-> p, value |-> v, timeOnly |-> TRUE] : v \in LinkedTimes(p, q)} : p \in Personas})
  \cup (UNION {{[owner |-> h, value |-> v, timeOnly |-> TRUE] : v \in Timed(RunTimes(h, q))} :
               h \in players \ DOMAIN links})

\* ORDER BY value ASC, time_only ASC
Before(c, d) == c.value < d.value \/ (c.value = d.value /\ ~c.timeOnly /\ d.timeOnly)

\* rn = 1: the first row of every owner.
BestRows(cands) == {c \in cands : \A d \in cands : d.owner = c.owner => ~Before(d, c)}

\* rankForValue: owners with a time up to v.
RankForValue(q, v) ==
  LET n == Cardinality(BestRows({c \in Candidates(q) : c.value <= v}))
  IN  IF n = 0 THEN 1 ELSE n

\* ORDER BY value: equal times come in any order.
Boards(q) == LET rows == BestRows(Candidates(q))
             IN  {b \in [1 .. Cardinality(rows) -> rows] :
                    /\ \A r \in rows : \E i \in DOMAIN b : b[i] = r
                    /\ \A i, j \in DOMAIN b : i < j => b[i].value <= b[j].value}

\* LIMIT max(hi - (lo - 1), 1): the last position asked for.
LastOf(lo, hi) == IF hi < lo THEN lo ELSE hi

\* Deviation: ranks count from the start of the page.
Page_RanksFromOne(b, lo, hi) ==
  [i \in 1 .. Min({LastOf(lo, hi), Len(b)}) - lo + 1 |->
     [owner |-> b[lo + i - 1].owner, rank |-> i, value |-> b[lo + i - 1].value,
      timeOnly |-> b[lo + i - 1].timeOnly, tag |-> {}]]

\* OFFSET lo - 1; ranks are offset + i + 1.
Page(b, lo, hi) ==
  [i \in 1 .. Min({LastOf(lo, hi), Len(b)}) - lo + 1 |->
     [owner |-> b[lo + i - 1].owner, rank |-> lo + i - 1, value |-> b[lo + i - 1].value,
      timeOnly |-> b[lo + i - 1].timeOnly, tag |-> {}]]

Imported(row) == row.owner \in Players
-----------------------------------------------------------------------------
(* Control of a handler *)

Goto(s, statement) == pc' = [pc EXCEPT ![s] = statement]

Receive(s, request, todo, statement) ==
  /\ pc[s] = "idle"
  /\ Goto(s, statement)
  /\ req' = [req EXCEPT ![s] = request]
  /\ found' = [found EXCEPT ![s] = todo]

Finish(s) ==
  /\ Goto(s, "idle")
  /\ req' = [req EXCEPT ![s] = None]
  /\ found' = [found EXCEPT ![s] = <<>>]

Ask(s, request, todo, statement) ==
  /\ Receive(s, request, todo, statement)
  /\ answer' = [answer EXCEPT ![s] = None]
  /\ moved' = [moved EXCEPT ![s] = {}]
  /\ UNCHANGED <<tables, torn>>

Respond(s, response) ==
  /\ Finish(s)
  /\ answer' = [answer EXCEPT ![s] = response]
  /\ UNCHANGED moved

Continue(s, statement, read) ==
  /\ Goto(s, statement)
  /\ found' = [found EXCEPT ![s] = read]
  /\ UNCHANGED <<req, answer, moved>>

\* Something of these owners changes, under the queries in progress.
Disturb(owners) ==
  /\ moved' = [r \in Readers |-> IF pc[r] = "idle" THEN {} ELSE moved[r] \cup owners]
  /\ answer' = [r \in Readers |-> None]

\* A player, and the persona he is linked to.
WithLinked(h) == {h} \cup {links[g] : g \in DOMAIN links \cap {h}}

-----------------------------------------------------------------------------
(* UpdateStats: one upsert per stat and period of that stat, in the order   *)
(* of the request.  A connection that plays as no persona stores nothing.    *)

Updating(p) == {s \in Writers : pc[s] = "upsert" /\ req[s].persona = p}

\* The periods that get the time or the tag alone.
Partial(writes) == {q \in Periods : \E k \in Keys : /\ <<k, q>> \in Range(writes)
                                                  /\ \E l \in Keys : <<l, q>> \notin Range(writes)}

UpdateStats(s) ==
  \E p \in Personas, v \in Times, writes \in Updates :
    /\ Receive(s, [persona |-> p, value |-> v, writes |-> writes], writes, "upsert")
    /\ torn' = torn \cup ({p} \X (IF Updating(p) = {} THEN Partial(writes) ELSE Periods))
    /\ UNCHANGED <<tables, answer, moved>>

\* The last uploaded value wins, whether or not it is the better one.
Upsert(s) ==
  /\ pc[s] = "upsert"
  /\ LET w == Head(found[s])
     IN  stats' = Store(stats, <<req[s].persona, w[1], w[2]>>, [value |-> req[s].value, current |-> TRUE])
  /\ IF Len(found[s]) = 1
       THEN Finish(s)
       ELSE found' = [found EXCEPT ![s] = Tail(@)] /\ UNCHANGED <<pc, req>>
  /\ Disturb({req[s].persona})
  /\ UNCHANGED <<runs, players, links, torn>>

\* A statement fails: errorCode 1; the upserts already made stay.
StatementFails(s) ==
  /\ pc[s] # "idle"
  /\ Finish(s)
  /\ torn' = IF pc[s] = "upsert" THEN torn \cup ({req[s].persona} \X Periods) ELSE torn
  /\ moved' = [r \in Readers |-> IF r = s THEN {} ELSE moved[r]]
  /\ answer' = [r \in Readers |-> IF r = s THEN None ELSE answer[r]]
  /\ UNCHANGED tables

-----------------------------------------------------------------------------
(* GetStats, GetRankedStats and their ...ForOwners forms: for each owner the *)
(* stored values ("stats" queries only), then value, linked runs and rank of *)
(* the time.  rankLookupPersonaID has already replaced owner 0 and the       *)
(* account id by the persona of the session.                                 *)

\* What is known of an owner: the time and the tag for "stats", and the value
\* RankedStats goes by.
Blank == [time |-> {}, tag |-> {}, value |-> {}]
Owner(s) == req[s].owners[Len(found[s][1]) + 1]

FirstStatement(kind, o) ==
  CASE kind = "stats"  -> IF o \in Players THEN "selectRuns" ELSE "selectStats"
    [] kind = "ranked" -> IF o \in Players THEN "selectRun" ELSE "selectValue"

QueryOwners(s) ==
  \E k \in Queries \ {"top"}, os \in OwnerLists, q \in Periods :
    Ask(s, [kind |-> k, owners |-> os, period |-> q], <<<<>>, Blank>>, FirstStatement(k, os[1]))

\* The handler goes on with this owner.
Learn(s, statement, known) == Continue(s, statement, <<found[s][1], known>>)

\* The entry of this owner is complete: the next one, or the answer.
Entry(s, rank, value) ==
  LET done == Append(found[s][1], [owner |-> Owner(s), time |-> found[s][2].time,
                                   tag |-> found[s][2].tag, rank |-> rank, value |-> value])
  IN  IF Len(done) = Len(req[s].owners)
        THEN Respond(s, [kind |-> req[s].kind, to |-> req[s], entries |-> done])
        ELSE Continue(s, FirstStatement(req[s].kind, req[s].owners[Len(done) + 1]), <<done, Blank>>)

\* GetStats: both keys in one statement, then the linked time if it is faster.
SelectStats(s) ==
  /\ pc[s] = "selectStats"
  /\ Learn(s, "selectLinkedStats", [Blank EXCEPT !.time = Own(Owner(s), "time", req[s].period),
                                                 !.tag = Own(Owner(s), "tag", req[s].period)])
  /\ UNCHANGED <<tables, torn>>

SelectLinkedStats(s) ==
  /\ pc[s] = "selectLinkedStats"
  /\ LET times == found[s][2].time \cup LinkedTimes(Owner(s), req[s].period)
     IN  Learn(s, "selectValue", [found[s][2] EXCEPT !.time = IF times = {} THEN {} ELSE {Min(times)}])
  /\ UNCHANGED <<tables, torn>>

SelectRuns(s) ==
  /\ pc[s] = "selectRuns"
  /\ Learn(s, "selectRun", [Blank EXCEPT !.time = RunTimes(Owner(s), req[s].period)])
  /\ UNCHANGED <<tables, torn>>

SelectValue(s) ==
  /\ pc[s] = "selectValue"
  /\ Learn(s, "selectLinked", [found[s][2] EXCEPT !.value = Own(Owner(s), "time", req[s].period)])
  /\ UNCHANGED <<tables, torn>>

\* What RankedStats does once it knows the value, if there is one.
Valued(s, values) ==
  IF values = {}
    THEN Entry(s, 0, 0)
    ELSE Learn(s, "selectRank", [found[s][2] EXCEPT !.value = {Min(values)}])

\* Deviation: linked runs matter only to a persona with no time of its own.
SelectLinked_OnlyIfNone(s) ==
  /\ pc[s] = "selectLinked"
  /\ LET own == found[s][2].value
     IN  Valued(s, IF own # {} THEN own ELSE LinkedTimes(Owner(s), req[s].period))
  /\ UNCHANGED <<tables, torn>>

SelectLinked(s) ==
  /\ pc[s] = "selectLinked"
  /\ Valued(s, found[s][2].value \cup LinkedTimes(Owner(s), req[s].period))
  /\ UNCHANGED <<tables, torn>>

SelectRun(s) ==
  /\ pc[s] = "selectRun"
  /\ Valued(s, RunTimes(Owner(s), req[s].period))
  /\ UNCHANGED <<tables, torn>>

\* A value of 0 is shown as unranked.
SelectRank(s) ==
  /\ pc[s] = "selectRank"
  /\ \E v \in found[s][2].value :
       Entry(s, IF v = 0 THEN 0 ELSE RankForValue(req[s].period, v), v)
  /\ UNCHANGED <<tables, torn>>

-----------------------------------------------------------------------------
(* GetTopNAndStats: the page in one statement, then the tag of every row *)

Dummy(lo, value) == <<[owner |-> 0, rank |-> lo, value |-> value, timeOnly |-> FALSE, tag |-> {}]>>

GetTopNAndStats(s) ==
  "top" \in Queries /\ \E q \in Periods, lo \in 1 .. CutoffRank, hi \in 1 .. CutoffRank :
    Ask(s, [kind |-> "top", period |-> q, lo |-> lo, hi |-> hi], <<>>, "selectTop")

\* The rows left after both caps; the byte cap may cut anywhere after the first.
Capped(rows) ==
  LET kept == IF \E i \in DOMAIN rows : Imported(rows[i]) THEN Min({Len(rows), MaxRows}) ELSE Len(rows)
  IN  {SubSeq(rows, 1, n) : n \in (IF kept = 0 THEN {0} ELSE 1 .. kept)}

\* An empty page: two dummy rows exist, and neither is a real time.
EmptyPage(s) ==
  IF req[s].lo >= CutoffRank \/ (req[s].lo = 1 /\ req[s].hi = 1)
    THEN Dummy(req[s].lo, 0) ELSE <<>>

SelectTop(s) ==
  /\ pc[s] = "selectTop"
  /\ \E b \in Boards(req[s].period) :
       LET rows == Page(b, req[s].lo, req[s].hi)
       IN  IF rows = <<>>
             THEN Respond(s, [kind |-> "top", to |-> req[s], rows |-> EmptyPage(s)])
             ELSE Continue(s, "selectTag", <<1, rows>>)
  /\ UNCHANGED <<tables, torn>>

\* Deviation: the tag is looked up for every row of a persona.
TagOf_Always(q, row) == IF Imported(row) THEN {} ELSE Own(row.owner, "tag", q)

TagOf(q, row) == IF row.timeOnly THEN {} ELSE Own(row.owner, "tag", q)

SelectTag(s) ==
  /\ pc[s] = "selectTag"
  /\ LET i == found[s][1]
         rows == [found[s][2] EXCEPT ![i].tag = TagOf(req[s].period, found[s][2][i])]
     IN  IF i < Len(rows)
           THEN Continue(s, "selectTag", <<i + 1, rows>>)
           ELSE \E shown \in Capped(rows) : Respond(s, [kind |-> "top", to |-> req[s], rows |-> shown])
  /\ UNCHANGED <<tables, torn>>

-----------------------------------------------------------------------------
(* Historical runs: the store's operations for the import tool *)

\* AddHistoricalRun: the player's row, then the run, whatever its value.  The
\* run may fail.  Repeating the first statement changes nothing, so a run that
\* comes later than its player is one that failed and was imported again.
AddHistoricalRun(h) ==
  /\ players' = players \cup {h}
  /\ \/ UNCHANGED runs
     \/ \E q \in Periods, v \in Times, c \in BOOLEAN :
          /\ q \notin Dated => c
          /\ runs' = Store(runs, <<h, q>>, [value |-> v, current |-> c])
  /\ Disturb(WithLinked(h))
  /\ UNCHANGED <<stats, links, pc, req, found, torn>>

\* LinkHistoricalAccount: the rows it checks first are never deleted.
LinkHistoricalAccount(h, p) ==
  /\ h \in players
  /\ links' = Store(links, h, p)
  /\ Disturb({p} \cup WithLinked(h))
  /\ UNCHANGED <<stats, runs, players, pc, req, found, torn>>

UnlinkHistoricalAccount(h) ==
  /\ h \in DOMAIN links
  /\ links' = [g \in DOMAIN links \ {h} |-> links[g]]
  /\ Disturb(WithLinked(h))
  /\ UNCHANGED <<stats, runs, players, pc, req, found, torn>>

\* Monday, or the first of the month: what was current no longer is.
Rollover(q) ==
  /\ stats' = [c \in DOMAIN stats |-> IF c[3] = q THEN [stats[c] EXCEPT !.current = FALSE] ELSE stats[c]]
  /\ runs' = [c \in DOMAIN runs |-> IF c[2] = q THEN [runs[c] EXCEPT !.current = FALSE] ELSE runs[c]]
  /\ Disturb({c[1] : c \in DOMAIN stats} \cup players \cup {links[h] : h \in DOMAIN links})
  /\ UNCHANGED <<players, links, pc, req, found, torn>>

-----------------------------------------------------------------------------
Init ==
  /\ stats = <<>> /\ runs = <<>> /\ players = {} /\ links = <<>>
  /\ pc = [s \in Sessions |-> "idle"]
  /\ req = [s \in Sessions |-> None]
  /\ found = [s \in Sessions |-> <<>>]
  /\ answer = [r \in Readers |-> None]
  /\ moved = [r \in Readers |-> {}]
  /\ torn = {}

Handler(s) ==
  \/ Upsert(s) \/ StatementFails(s)
  \/ SelectStats(s) \/ SelectLinkedStats(s) \/ SelectRuns(s)
  \/ SelectValue(s) \/ SelectLinked(s) \/ SelectRun(s) \/ SelectRank(s)
  \/ SelectTop(s) \/ SelectTag(s)

Import ==
  \E h \in Players : \/ AddHistoricalRun(h) \/ UnlinkHistoricalAccount(h)
                     \/ \E p \in Personas : LinkHistoricalAccount(h, p)

Next ==
  \/ \E s \in Sessions : Handler(s)
  \/ \E s \in Writers : UpdateStats(s)
  \/ \E s \in Readers : QueryOwners(s) \/ GetTopNAndStats(s)
  \/ Import
  \/ \E q \in Dated : Rollover(q)

Spec == Init /\ [][Next]_vars
-----------------------------------------------------------------------------
(* Properties *)

\* What every answer is compared with: the rows of the board as it stands.
BoardRows(q) == BestRows(Candidates(q))
UpTo(q, v)   == Cardinality({r \in BoardRows(q) : r.value <= v})
Below(q, v)  == Cardinality({r \in BoardRows(q) : r.value < v})
Standing(q)  == [o \in {r.owner : r \in BoardRows(q)} |->
                   1 + Below(q, (CHOOSE r \in BoardRows(q) : r.owner = o).value)]
Fastest(q)   == {r.value : r \in {c \in BoardRows(q) : Below(q, c.value) = 0}}

\* GetStats, GetRankedStats, their ...ForOwners forms and GetTopNAndStats
\* agree: for every owner of the request, the value put together from several
\* statements is the time that the page of TopN would show, GetStats shows it
\* as the time too, its rank is the last position of that time on the page,
\* and a persona is unranked exactly when it is not on the board.  Two things
\* may break this.  A persona that uploaded a number that is no time is off
\* that page with it: 0 shows it as unranked and a number below 0 at rank 1,
\* even when a linked run puts it on the board.  And owners whose times change
\* while the request is being answered: nothing is said of themselves, and
\* each of them can shift the rank of an owner who did not change by one.
RankedAnswerMatchesBoard ==
  \A s \in Readers :
    answer[s].kind \in {"stats", "ranked"} =>
      LET q == answer[s].to.period
      IN  /\ Len(answer[s].entries) = Len(answer[s].to.owners)
          /\ \A i \in DOMAIN answer[s].entries :
               LET e == answer[s].entries[i]
                   mine == {r \in BoardRows(q) : r.owner = e.owner}
                   still == {r \in BoardRows(q) : r.owner \notin moved[s] /\ r.value <= e.value}
               IN  /\ e.owner = answer[s].to.owners[i]
                   /\ e.owner \notin moved[s] =>
                        /\ e.value > 0 =>
                             /\ \A r \in mine : r.value = e.value
                             /\ Cardinality(still) <= e.rank
                             /\ e.rank <= Cardinality(still) + Cardinality(moved[s])
                             /\ answer[s].kind = "stats" => e.time = {e.value}
                        /\ e.value <= 0 => e.rank = IF e.value = 0 THEN 0 ELSE 1
                        /\ e.owner \in Personas =>
                             \/ e.value \in Own(e.owner, "time", q) /\ e.value <= 0
                             \/ e.rank = 0 <=> mine = {}

\* A page read by GetTopNAndStats shows nobody twice and nobody at a rank his
\* time does not have: the rank lies between the owners that are faster and
\* those that are not slower, wherever the page starts and however it was
\* capped.  Only pages under which nobody's times changed are compared.
PageRanksAreRanks ==
  \A s \in Readers :
    answer[s].kind = "top" /\ moved[s] = {} =>
      LET q == answer[s].to.period
          rows == answer[s].rows
      IN  \A i \in DOMAIN rows :
            /\ \A j \in DOMAIN rows : rows[i].owner = rows[j].owner => i = j
            /\ rows[i].owner # 0 => /\ Below(q, rows[i].value) < rows[i].rank
                                    /\ rows[i].rank <= UpTo(q, rows[i].value)
                                    /\ [owner |-> rows[i].owner, value |-> rows[i].value,
                                        timeOnly |-> rows[i].timeOnly] \in BoardRows(q)

\* The two rows of p for period q belong together: no upload of p overlapped
\* another, broke off or brought one of them alone, and none is under way.
Whole(p, q) == <<p, q>> \notin torn /\ Updating(p) = {}

\* The ghost tag shown beside a time was uploaded with that time, never with
\* another run of the persona, whatever else changes between the statements of
\* the request: GetTopNAndStats shows no tag beside an imported time, and an
\* own time that equals an imported one keeps its tag.  GetStats is weaker: it
\* may show a tag beside a faster imported time, and then it is the tag of the
\* persona's own time; and when the period changed between the two upserts of
\* an upload only its tag counts for the new one.  Nothing is said of a persona
\* whose rows do not belong together, nor of one whose own rows or links
\* changed while the request was being answered: an upload that comes between
\* the page and its tags does put the tag of one run beside the time of another.
GhostBelongsToTime ==
  \A s \in Readers :
    /\ answer[s].kind = "top" =>
         \A i \in DOMAIN answer[s].rows :
           LET row == answer[s].rows[i]
               q == answer[s].to.period
           IN  row.owner \in Personas \ moved[s] /\ Whole(row.owner, q) =>
                 /\ row.tag \subseteq {row.value}
                 /\ row.value \in Own(row.owner, "time", q) => row.tag = Own(row.owner, "tag", q)
    /\ answer[s].kind = "stats" =>
         \A i \in DOMAIN answer[s].entries :
           LET e == answer[s].entries[i]
               q == answer[s].to.period
           IN  e.owner \in Personas \ moved[s] /\ Whole(e.owner, q) /\ e.tag # {} =>
                 \/ e.tag = e.time
                 \/ Own(e.owner, "time", q) = {}
                 \/ /\ e.tag = Own(e.owner, "time", q)
                    /\ \E t \in LinkedTimes(e.owner, q) : e.time = {t} /\ \A v \in e.tag : t < v

\* Links only regroup times: the fastest time of a board stays what it is, and
\* linking a player for the first time pushes nobody down the board.
LinksOnlyRegroup ==
  [][links' # links =>
       \A q \in Periods :
         /\ Fastest(q)' = Fastest(q)
         /\ (\A h \in DOMAIN links : h \in DOMAIN links' /\ links'[h] = links[h]) =>
              \A o \in DOMAIN Standing(q) :
                \/ o \in DOMAIN Standing(q)' /\ Standing(q)'[o] <= Standing(q)[o]
                \/ o \in DOMAIN links' \ DOMAIN links]_vars
=============================================================================
