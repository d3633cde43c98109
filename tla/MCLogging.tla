----------------------------- MODULE MCLogging -----------------------------
(* A bounded instance of Logging for TLC. *)
EXTENDS Logging

(* Info, Warning and Off; records at Info and at Warning. *)
MCLevels == {2, 3, 6}
MCRecords == {2, 3}

(* Two threads that log, set the level, and one of them the sink; or one   *)
(* that logs and uses guards while the other sets the sink.                *)
MCPrograms ==
  {[log_at |-> {"t1", "t2"}, set_level |-> {"t1", "t2"}, set_sink |-> {"t1"}, ScopedLevel |-> {}],
   [log_at |-> {"t1"}, set_level |-> {}, set_sink |-> {"t2"}, ScopedLevel |-> {"t1"}]}

=============================================================================
