---------------------------- MODULE OrmSession ----------------------------
(***************************************************************************)
(* What one SQLAlchemy session does to one row.                            *)
(*                                                                         *)
(* Every request handler and every job of the Operations API changes rows  *)
(* in the same way: it loads the object, checks it, assigns attributes and *)
(* calls ModelHandler.update, which flushes.  The flush sends               *)
(* UPDATE ... SET <changed columns> WHERE id = ...: a column is changed    *)
(* when the assigned value differs from the value that was LOADED, and the *)
(* WHERE clause names neither a version nor the status that was checked.   *)
(* A row another transaction has committed in the meantime is therefore    *)
(* overwritten in the changed columns and kept in the others.              *)
(***************************************************************************)

\* The row after the flush: row is the last committed version (an UPDATE waits for
\* the row lock and then sees the newest version), loaded the version in the
\* session's identity map, assigned the object after the handler's assignments.
Flush(row, loaded, assigned) ==
  [column \in DOMAIN row |->
     IF assigned[column] = loaded[column] THEN row[column] ELSE assigned[column]]

=============================================================================
