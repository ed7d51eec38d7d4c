------------------------------ MODULE MCServer ------------------------------
(* A small instance of Server for TLC. *)
EXTENDS Server

Lines == {Section("paths"), Section("network"),
          Setting("db_path", ""), Setting("db_path", "file.db"),
          Setting("fesl_port", "junk"), Setting("fesl_port", "1")}

\* Files of up to three lines, and one that cannot be read.
SmallFiles == {Unreadable} \cup BoundedSeq(Lines, 3)

AllEnvs == [dbPath : {"", "env.db"}, feslPort : {"", "junk", "2"}]
=============================================================================
