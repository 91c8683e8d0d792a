------------------------- MODULE MCSnapshotHistory -------------------------
(* The instances of MCMDParser, with the history of a full refresh.        *)
EXTENDS MCMDParser, SnapshotHistory

(* Snapshots in which an entry id, once given, hides a later quote id.     *)
AnySnapshot ==
  AnyFull \cup Entries({Absent}, {Absent}, {Absent}, {o2}, {Absent}, {Absent}, {Absent}, {Absent})
=============================================================================
