---------------------------- MODULE LoggingSpec ----------------------------
(***************************************************************************)
(* What the logging facility promises (src/include/gmk/core/logging.hpp):  *)
(* a level and a sink that change atomically, and records that are         *)
(* accepted atomically: at one instant the record is at or above the level *)
(* and the sink of that same instant is the one that gets it.  An accepted *)
(* record stays in flight until its sink has returned or thrown.           *)
(***************************************************************************)
EXTENDS Integers, Sequences

CONSTANTS Threads, Sinks, Levels

VARIABLES level,      \* the minimum level
          sink,       \* the installed sink
          in_flight   \* per thread, the accepted records, the innermost last

Init == /\ level = 3
        /\ sink = "default_sink"
        /\ in_flight = [t \in Threads |-> << >>]

SetLevel == /\ level' \in Levels
            /\ UNCHANGED <<sink, in_flight>>

SetSink == /\ sink' \in Sinks
           /\ UNCHANGED <<level, in_flight>>

Accept(t) == /\ \E l \in Levels :
                  /\ l >= level
                  /\ in_flight' = [in_flight EXCEPT ![t] =
                                     Append(@, [level |-> l, sink |-> sink])]
             /\ UNCHANGED <<level, sink>>

Finish(t) == /\ in_flight[t] # << >>
             /\ in_flight' = [in_flight EXCEPT ![t] = SubSeq(@, 1, Len(@) - 1)]
             /\ UNCHANGED <<level, sink>>

Next == SetLevel \/ SetSink \/ \E t \in Threads : Accept(t) \/ Finish(t)

Spec == Init /\ [][Next]_<<level, sink, in_flight>>

=============================================================================
