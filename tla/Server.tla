------------------------------- MODULE Server -------------------------------
(***************************************************************************)
(* The server process (server/main.go) from its start to its end: the      *)
(* configuration (Config), the log file and the removal of old ones        *)
(* (mlog/log.go), the opening of the database and the migration of an      *)
(* older one (storage.go), the two listeners (fesl/server.go,              *)
(* locker/server.go), signals, and crashes at any point.                   *)
(*                                                                         *)
(* An atomic step is a file operation, an SQL statement, or the return of  *)
(* a blocking call.  Files and tables outlive the process.  Of the tables  *)
(* only historical_account_links ever changes its columns.                 *)
(***************************************************************************)
EXTENDS Config, Integers, FiniteSets

CONSTANTS Files,       \* bound: contents of server.ini
          Envs,        \* bound: environments
          Stamps,      \* times in names of log files, as numbers
          Others,      \* other files beside the logs
          KeepLogs,    \* maxLogFiles
          LinkRows,    \* rows of historical_account_links before an upgrade
          MaxSessions  \* bound: connections of one listener

ASSUME ServerAssumption ==
  /\ Stamps \subseteq Nat /\ Others \cap Stamps = {} /\ KeepLogs \in Nat \ {0}
  /\ MaxSessions \in Nat
  /\ \A f \in Files : f = Unreadable \/ f \in Seq(Line)

Listeners == {"fesl", "http"}

VARIABLES files,     \* names of files in the log directory
          db,        \* the committed table, old and new form
          pc,        \* where main is
          exit,      \* how the process ended: "none" while it runs
          input,     \* file and environment until they have been loaded
          settings,  \* the configuration, until the log has been opened
          current,   \* stamp of the log file in use
          doomed,    \* old logs still to be removed
          work,      \* the table inside the transaction of the migration
          cancelled, \* ctx.Err() # nil
          lpc,       \* where Listen is, per listener
          sessions,  \* connections being served
          errs,      \* channel of what the listeners returned
          before     \* history: the links at the very beginning

disk     == <<files, db, before>>
serving  == <<cancelled, lpc, sessions, errs>>
vars     == <<disk, pc, exit, input, settings, current, doomed, work, serving>>

NoInput == <<>>
Gone    == [rows |-> {}, columns |-> "none"]
Links(rows, columns) == [rows |-> rows, columns |-> columns]
NoWork  == [links |-> Gone, new |-> Gone]
Transaction == <<"createNew", "copyRows", "dropOld", "renameNew">>

-----------------------------------------------------------------------------
Goto(step) == pc' = step

\* The process ends, and with it what is not on disk.
End(code) ==
  /\ Goto("off")
  /\ exit' = code
  /\ input' = NoInput /\ settings' = NoInput
  /\ current' = -1 /\ doomed' = {} /\ work' = NoWork
  /\ cancelled' = FALSE
  /\ lpc' = [l \in Listeners |-> "none"]
  /\ sessions' = [l \in Listeners |-> 0]
  /\ errs' = <<>>

Start ==
  /\ pc = "off"
  /\ \E f \in Files, e \in Envs :
       /\ input' = [file |-> f, env |-> e]
       /\ settings' = Load(f, e)
  /\ Goto("openLog")
  /\ exit' = "none"
  /\ UNCHANGED <<disk, current, doomed, work, serving>>

-----------------------------------------------------------------------------
(* mlog.New *)

\* Deviation: the logs are sorted from the oldest on.
Excess_OldestFirst(logs) == {t \in logs : Cardinality({u \in logs : u < t}) >= KeepLogs}

\* logs[keep:], newest first.
Excess(logs) == {t \in logs : Cardinality({u \in logs : u > t}) >= KeepLogs}

\* The name has the time in seconds, and the clock may have been set back: the
\* file may exist, and then it is continued.
OpenLog ==
  /\ pc = "openLog"
  /\ \E t \in Stamps :
       /\ current' = t
       /\ files' = files \cup {t}
       /\ doomed' = Excess((files \cap Stamps) \cup {t}) \ {t}
  /\ Goto("cleanup")
  /\ input' = NoInput /\ settings' = NoInput
  /\ UNCHANGED <<db, before, exit, work, serving>>

\* The newest of them first; a file that cannot be removed stays.
RemoveOld ==
  /\ pc = "cleanup" /\ doomed # {}
  /\ LET t == CHOOSE u \in doomed : \A v \in doomed : v <= u
     IN  /\ doomed' = doomed \ {t}
         /\ files' \in {files, files \ {t}}
  /\ UNCHANGED <<db, before, pc, exit, input, settings, current, work, serving>>

LogReady ==
  /\ pc = "cleanup" /\ doomed = {}
  /\ Goto("createTables")
  /\ UNCHANGED <<disk, exit, input, settings, current, doomed, work, serving>>

-----------------------------------------------------------------------------
(* storage.Open *)

\* CREATE TABLE IF NOT EXISTS
CreateTables ==
  /\ pc = "createTables"
  /\ db' = IF db.links = Gone THEN [db EXCEPT !.links = Links({}, "now")] ELSE db
  /\ Goto("checkColumns")
  /\ UNCHANGED <<files, before, exit, input, settings, current, doomed, work, serving>>

Listen ==
  /\ Goto("wait")
  /\ lpc' = [l \in Listeners |-> "bind"]

\* Without verified_by and verified_at there is nothing to migrate; main goes
\* on to signal.NotifyContext and starts both listeners.
CheckColumns ==
  /\ pc = "checkColumns"
  /\ IF db.links.columns = "verified"
       THEN work' = db /\ Goto(Transaction[1]) /\ UNCHANGED lpc
       ELSE Listen /\ UNCHANGED work
  /\ UNCHANGED <<disk, exit, input, settings, current, doomed, cancelled, sessions, errs>>

After(t, statement) ==
  CASE statement = "createNew" -> [t EXCEPT !.new = Links({}, "now")]
    [] statement = "copyRows"  -> [t EXCEPT !.new.rows = t.links.rows]
    [] statement = "dropOld"   -> [t EXCEPT !.links = Gone]
    [] statement = "renameNew" -> [links |-> t.new, new |-> Gone]

Following(statement) ==
  LET i == CHOOSE j \in DOMAIN Transaction : Transaction[j] = statement
  IN  IF i = Len(Transaction) THEN "commit" ELSE Transaction[i + 1]

\* Deviation: without BEGIN every statement is committed at once.
Migrate_Autocommit ==
  /\ \E i \in DOMAIN Transaction : pc = Transaction[i]
  /\ pc = "createNew" => db.new = Gone
  /\ db' = After(db, pc)
  /\ work' = After(db, pc)
  /\ Goto(Following(pc))
  /\ UNCHANGED <<files, before, exit, input, settings, current, doomed, serving>>

\* CREATE, INSERT, DROP and ALTER between BEGIN and COMMIT.
Migrate ==
  /\ \E i \in DOMAIN Transaction : pc = Transaction[i]
  /\ work' = After(work, pc)
  /\ Goto(Following(pc))
  /\ UNCHANGED <<disk, exit, input, settings, current, doomed, serving>>

Commit ==
  /\ pc = "commit"
  /\ db' = work /\ work' = NoWork
  /\ Listen
  /\ UNCHANGED <<files, before, exit, input, settings, current, doomed, cancelled, sessions, errs>>

\* The log or the database cannot be opened: os.Exit(1), the transaction is
\* rolled back.
StartFails ==
  /\ pc \notin {"off", "cleanup", "wait", "closing"}
  /\ End("1")
  /\ UNCHANGED disk

-----------------------------------------------------------------------------
(* Listen, once per listener; a goroutine closes the socket when ctx is done *)

Bind(l) ==
  /\ lpc[l] = "bind"
  /\ lpc' = [lpc EXCEPT ![l] = "accept"]
  /\ UNCHANGED <<disk, pc, exit, input, settings, current, doomed, work, cancelled, sessions, errs>>

BindFails(l) ==
  /\ lpc[l] = "bind"
  /\ lpc' = [lpc EXCEPT ![l] = "failed"]
  /\ errs' = Append(errs, "error")
  /\ UNCHANGED <<disk, pc, exit, input, settings, current, doomed, work, cancelled, sessions>>

Accept(l) ==
  /\ lpc[l] = "accept" /\ sessions[l] < MaxSessions
  /\ sessions' = [sessions EXCEPT ![l] = @ + 1]
  /\ UNCHANGED <<disk, pc, exit, input, settings, current, doomed, work, cancelled, lpc, errs>>

SessionEnds(l) ==
  /\ sessions[l] > 0
  /\ sessions' = [sessions EXCEPT ![l] = @ - 1]
  /\ UNCHANGED <<disk, pc, exit, input, settings, current, doomed, work, cancelled, lpc, errs>>

CloseListener(l) ==
  /\ lpc[l] = "accept" /\ cancelled
  /\ lpc' = [lpc EXCEPT ![l] = "closed"]
  /\ UNCHANGED <<disk, pc, exit, input, settings, current, doomed, work, cancelled, sessions, errs>>

\* Accept fails, on a closed listener always, and otherwise for the moment;
\* Listen goes on unless ctx is done.
AcceptFails(l) ==
  /\ lpc[l] \in {"accept", "closed"} /\ cancelled
  /\ lpc' = [lpc EXCEPT ![l] = "returned"]
  /\ errs' = Append(errs, "nil")
  /\ UNCHANGED <<disk, pc, exit, input, settings, current, doomed, work, cancelled, sessions>>

-----------------------------------------------------------------------------
\* SIGINT or SIGTERM while signal.NotifyContext is in force.
Signal ==
  /\ pc = "wait" /\ ~cancelled
  /\ cancelled' = TRUE
  /\ UNCHANGED <<disk, pc, exit, input, settings, current, doomed, work, lpc, sessions, errs>>

\* Deviation: main waits for both listeners.
Wait_ForBoth ==
  /\ pc = "wait" /\ Len(errs) = Cardinality(Listeners)
  /\ IF errs[1] = "error" /\ ~cancelled
       THEN End("1")
       ELSE /\ Goto("closing")
            /\ UNCHANGED <<exit, input, settings, current, doomed, work, serving>>
  /\ UNCHANGED disk

\* err = <-errs: main ends with the first listener, whatever the other and the
\* sessions are doing.
Wait ==
  /\ pc = "wait" /\ errs # <<>>
  /\ IF errs[1] = "error" /\ ~cancelled
       THEN End("1")
       ELSE /\ Goto("closing")
            /\ UNCHANGED <<exit, input, settings, current, doomed, work, serving>>
  /\ UNCHANGED disk

\* The deferred calls: stop, store.Close and log.Close wait for no session.
Close ==
  /\ pc = "closing"
  /\ End("0")
  /\ UNCHANGED disk

\* The machine fails, or a signal comes while none is expected.
Crash ==
  /\ pc # "off"
  /\ End("killed")
  /\ UNCHANGED disk

Init ==
  /\ files = Others
  /\ db \in {[links |-> t, new |-> Gone] : t \in {Gone, Links(LinkRows, "now"), Links(LinkRows, "verified")}}
  /\ before = db.links.rows
  /\ pc = "off" /\ exit = "none" /\ input = NoInput /\ settings = NoInput
  /\ current = -1 /\ doomed = {} /\ work = NoWork
  /\ cancelled = FALSE /\ errs = <<>>
  /\ lpc = [l \in Listeners |-> "none"]
  /\ sessions = [l \in Listeners |-> 0]

Main ==
  \/ OpenLog \/ RemoveOld \/ LogReady
  \/ CreateTables \/ CheckColumns \/ Migrate \/ Commit
  \/ Wait \/ Close

Next ==
  \/ Start \/ Main \/ StartFails \/ Signal \/ Crash
  \/ \E l \in Listeners : \/ Bind(l) \/ BindFails(l) \/ Accept(l) \/ SessionEnds(l)
                          \/ CloseListener(l) \/ AcceptFails(l)

\* Main and the closing goroutines run, and Accept returns on a closed listener.
Fairness ==
  /\ WF_vars(Main)
  /\ \A l \in Listeners : /\ WF_vars(CloseListener(l))
                          /\ WF_vars(Bind(l) \/ BindFails(l))
                          /\ WF_vars(lpc[l] = "closed" /\ AcceptFails(l))

Spec == Init /\ [][Next]_vars /\ Fairness
-----------------------------------------------------------------------------
(* Properties *)

\* Every setting has the value of the first source that has a usable one: the
\* environment, the last line of the file for its section and key, the default.
SettingsByPrecedence ==
  pc = "openLog" =>
    LET file == IF input.file = Unreadable THEN <<>> ELSE input.file
        Text == {input.env.dbPath, Default.dbPath} \cup {file[i].value : i \in {j \in DOMAIN file : file[j].kind = "setting"}}
    IN  /\ Expected(settings.dbPath, input.env.dbPath, file, "paths", "db_path",
                    Default.dbPath, Text \ {""})
        /\ Expected(settings.feslPort, input.env.feslPort, file, "network", "fesl_port",
                    Default.feslPort, Numbers)

\* The links of an older database survive the upgrade, wherever the process
\* fails or is killed and however often it starts again, and requests are
\* served only when the table has its new form.
LinksSurviveUpgrade ==
  /\ db.links.rows = before
  /\ before # {} => db.links # Gone
  /\ pc = "wait" => db.links.columns = "now"

\* A removed file is an old log, never the log in use or a file of somebody
\* else, and as many newer logs as are to be kept are still there, even if the
\* clock was set back or an earlier removal was cut short.
RotationKeepsNewest ==
  [][\A f \in files \ files' :
       /\ f \in Stamps /\ f # current
       /\ Cardinality({t \in files' \cap Stamps : t > f}) >= KeepLogs]_vars

\* After a signal, or when one of the listeners cannot have its port, the
\* process ends, though a session may stay open and the other listener works.
ServerEnds ==
  (pc = "wait" /\ (cancelled \/ \E l \in Listeners : lpc[l] = "failed")) ~> (pc = "off")
=============================================================================
