-------------------------------- MODULE JsonFiles --------------------------------
(***************************************************************************)
(* The files of the program: server.json, profiles.json, split_tunnel.json *)
(* are read whole, and written whole by Path.write_text, which truncates   *)
(* the file before it writes.  A write that is cut off leaves what no      *)
(* reader can parse.                                                       *)
(***************************************************************************)

\* A file, and what a reader finds in it.
Json(content) == [is |-> "json", has |-> content]
Absent == [is |-> "absent", has |-> {}]
Torn == [is |-> "torn", has |-> {}]
==================================================================================
