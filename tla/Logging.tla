------------------------------ MODULE Logging ------------------------------
(***************************************************************************)
(* The logging facility: src/src/core/logging.cpp and the inline part of   *)
(* src/include/gmk/core/logging.hpp.  A global level and sink guarded by   *)
(* one std::mutex, called by several threads; sinks are user code and may  *)
(* call back into the facility, throw, or open ScopedLevel guards.         *)
(*                                                                         *)
(* A thread is a call stack.  Its frames are bodies of user code (the      *)
(* thread's own, and those of the sinks it runs) and calls of the library, *)
(* each with its own pc.  Taking the mutex is one step, the critical       *)
(* section and the release at its end the next.                            *)
(***************************************************************************)
EXTENDS Integers, Sequences, FiniteSets

CONSTANTS Threads,
          Sinks,          \* the sinks, "default_sink" among them
          Levels,         \* the values of Level in use
          Records,        \* the levels records are logged at
          Programs,       \* what the code of the threads may call
          MaxCalls,       \* bound: library calls of a thread
          MaxDepth        \* bound: sinks of a thread inside one another

Warning == 3   \* Level::Warning, the initial level
Off     == 6   \* Level::Off

NoThread == "no_thread"
NullSink == "nullptr"

ASSUME LoggingAssumption ==
  /\ "default_sink" \in Sinks /\ NullSink \notin Sinks
  /\ NoThread \notin Threads
  /\ Warning \in Levels /\ Levels \subseteq 0..Off
  /\ Records \subseteq Levels \ {Off}
  /\ \A q \in Programs :
       q \in [{"set_level", "set_sink", "log_at", "ScopedLevel"} -> SUBSET Threads]
  /\ MaxCalls \in Nat /\ MaxDepth \in Nat

VARIABLES program,    \* per library function, the threads whose code calls it
          mutex,      \* the thread that holds State::mutex, or NoThread
          level,      \* State::level
          sink,       \* State::sink
          stack,      \* per thread, its call stack, the innermost frame last
          unwinding,  \* per thread, whether an exception is propagating
          calls       \* per thread, the library calls it has made

vars == <<mutex, level, sink, stack, unwinding, calls, program>>

-----------------------------------------------------------------------------
(* Frames.  `arg` is the level a call is about, `to` the sink of set_sink, *)
(* the copy emit took, or the sink whose body runs, `previous` what a      *)
(* ScopedLevel constructor read, `guards` the guards a body has open.      *)
CallOf(fn, pc, l, s) == [fn |-> fn, pc |-> pc, arg |-> l, to |-> s,
                         previous |-> Warning, guards |-> << >>]
Body(s) == CallOf("body", "run", Warning, s)

Top(t) == stack[t][Len(stack[t])]
Below(t) == SubSeq(stack[t], 1, Len(stack[t]) - 1)

AtTop(t, fns, pc) == stack[t] # << >> /\ Top(t).fn \in fns /\ Top(t).pc = pc

Push(t, f) == stack' = [stack EXCEPT ![t] = Append(@, f)]
Pop(t) == stack' = [stack EXCEPT ![t] = Below(t)]
ReplaceTop(t, f) == stack' = [stack EXCEPT ![t][Len(stack[t])] = f]

(* Number of sinks thread t is inside of. *)
Depth(t) == Cardinality({k \in 1..Len(stack[t]) : stack[t][k].pc = "in_sink"})

InUserCode(t) == AtTop(t, {"body"}, "run") /\ ~unwinding[t]

-----------------------------------------------------------------------------
Init == /\ program \in Programs
        /\ mutex = NoThread
        /\ level = Warning
        /\ sink = "default_sink"
        /\ stack = [t \in Threads |-> <<Body(NullSink)>>]
        /\ unwinding = [t \in Threads |-> FALSE]
        /\ calls = [t \in Threads |-> 0]

(* User code: any body, a sink's too, may make any call its thread makes.  *)
CallLibrary(t, f) == /\ InUserCode(t)
                     /\ calls[t] < MaxCalls
                     /\ calls' = [calls EXCEPT ![t] = @ + 1]
                     /\ Push(t, f)
                     /\ UNCHANGED <<mutex, level, sink, unwinding, program>>

CallSetLevel(t) == /\ t \in program.set_level
                   /\ \E l \in Levels :
                        CallLibrary(t, CallOf("set_level", "lock", l, NullSink))

CallSetSink(t) == /\ t \in program.set_sink
                  /\ \E s \in Sinks \cup {NullSink} :
                       CallLibrary(t, CallOf("set_sink", "lock", Warning, s))

(* trace ... critical: log_at, whose first step is level(). *)
CallLog(t) == /\ t \in program.log_at
              /\ Depth(t) < MaxDepth
              /\ \E l \in Records :
                   CallLibrary(t, CallOf("log_at", "lock_level", l, NullSink))

(* The constructor of a ScopedLevel reads level(), then calls set_level. *)
OpenGuard(t) == /\ t \in program.ScopedLevel
                /\ \E l \in Levels :
                     CallLibrary(t, CallOf("ScopedLevel", "lock_level", l, NullSink))

(* Its destructor calls set_level(previous_); guards of one body close in  *)
(* the opposite order, when the body ends, earlier, or by an exception.    *)
CloseGuard(t) ==
  /\ AtTop(t, {"body"}, "run")
  /\ Top(t).guards # << >>
  /\ LET open == Top(t).guards
         f == CallOf("set_level", "lock", open[Len(open)].previous, NullSink)
         b == [Top(t) EXCEPT !.guards = SubSeq(open, 1, Len(open) - 1)]
     IN  stack' = [stack EXCEPT ![t] = Append(Append(Below(t), b), f)]
  /\ UNCHANGED <<mutex, level, sink, unwinding, calls, program>>

(* The end of a body: a thread's last, or that of a sink, whose emit and   *)
(* log_at return with it.                                                  *)
ThreadEnds(t) == /\ InUserCode(t)
                 /\ Len(stack[t]) = 1
                 /\ Top(t).guards = << >>
                 /\ Pop(t)
                 /\ UNCHANGED <<mutex, level, sink, unwinding, calls, program>>

LeaveSinkWithGuards(t) ==
  /\ Len(stack[t]) > 1
  /\ stack' = [stack EXCEPT ![t] = SubSeq(@, 1, Len(@) - 2)]
  /\ UNCHANGED <<mutex, level, sink, calls, program>>

LeaveSink(t) == /\ Len(stack[t]) > 1
                /\ Top(t).guards = << >>
                /\ stack' = [stack EXCEPT ![t] = SubSeq(@, 1, Len(@) - 2)]
                /\ UNCHANGED <<mutex, level, sink, calls, program>>

SinkReturns(t) == InUserCode(t) /\ LeaveSink(t) /\ UNCHANGED unwinding

(* A sink throws: its guards close, emit and log_at are left, and so on    *)
(* outwards until the thread's own body catches.                           *)
SinkThrows(t) == /\ InUserCode(t)
                 /\ Len(stack[t]) > 1
                 /\ unwinding' = [unwinding EXCEPT ![t] = TRUE]
                 /\ UNCHANGED <<mutex, level, sink, stack, calls, program>>

UnwindSink(t) == /\ AtTop(t, {"body"}, "run")
                 /\ unwinding[t]
                 /\ LeaveSink(t)
                 /\ UNCHANGED unwinding

Catch(t) == /\ AtTop(t, {"body"}, "run")
            /\ unwinding[t]
            /\ Len(stack[t]) = 1
            /\ unwinding' = [unwinding EXCEPT ![t] = FALSE]
            /\ UNCHANGED <<mutex, level, sink, stack, calls, program>>

-----------------------------------------------------------------------------
(* The library.  std::lock_guard: wait for the mutex, own it to the end of *)
(* the scope.                                                              *)
Lock(t, from, to) == /\ stack[t] # << >>
                     /\ Top(t).pc = from
                     /\ mutex = NoThread
                     /\ mutex' = t
                     /\ ReplaceTop(t, [Top(t) EXCEPT !.pc = to])
                     /\ UNCHANGED <<level, sink, unwinding, calls, program>>

LockLevel(t) == Lock(t, "lock_level", "read_level")
LockState(t) == Lock(t, "lock", "critical")

Unlock == mutex' = NoThread

(* level(): log_at gives up below the level it read, a guard keeps it. *)
ReadLevelToLog(t) ==
  /\ AtTop(t, {"log_at"}, "read_level")
  /\ Unlock
  /\ IF Top(t).arg >= level THEN ReplaceTop(t, [Top(t) EXCEPT !.pc = "lock"])
                            ELSE Pop(t)
  /\ UNCHANGED <<level, sink, unwinding, calls, program>>

ReadLevelToGuard(t) ==
  /\ AtTop(t, {"ScopedLevel"}, "read_level")
  /\ Unlock
  /\ ReplaceTop(t, [Top(t) EXCEPT !.pc = "lock", !.previous = level])
  /\ UNCHANGED <<level, sink, unwinding, calls, program>>

(* set_level: the function, and both ends of a guard. *)
SetLevel(t) ==
  /\ AtTop(t, {"set_level"}, "critical")
  /\ level' = Top(t).arg
  /\ Unlock
  /\ Pop(t)
  /\ UNCHANGED <<sink, unwinding, calls, program>>

SetGuardLevel(t) ==
  /\ AtTop(t, {"ScopedLevel"}, "critical")
  /\ level' = Top(t).arg
  /\ Unlock
  /\ LET n == Len(stack[t]) - 1
         g == [previous |-> Top(t).previous, set |-> Top(t).arg]
         b == [stack[t][n] EXCEPT !.guards = Append(@, g)]
     IN  stack' = [stack EXCEPT ![t] = Append(SubSeq(@, 1, n - 1), b)]
  /\ UNCHANGED <<sink, unwinding, calls, program>>

SetSinkMayBeNull(t) ==
  /\ AtTop(t, {"set_sink"}, "critical")
  /\ sink' = Top(t).to
  /\ Unlock
  /\ Pop(t)
  /\ UNCHANGED <<level, unwinding, calls, program>>

SetSink(t) ==
  /\ AtTop(t, {"set_sink"}, "critical")
  /\ sink' = IF Top(t).to = NullSink THEN "default_sink" ELSE Top(t).to
  /\ Unlock
  /\ Pop(t)
  /\ UNCHANGED <<level, unwinding, calls, program>>

(* emit: check level and sink again, copy the sink, release, call it. *)
EmitDrops(t) ==
  /\ AtTop(t, {"log_at"}, "critical")
  /\ Top(t).arg < level \/ sink = NullSink
  /\ Unlock
  /\ Pop(t)
  /\ UNCHANGED <<level, sink, unwinding, calls, program>>

EmitTakesSinkUnchecked(t) ==
  /\ AtTop(t, {"log_at"}, "critical")
  /\ ReplaceTop(t, [Top(t) EXCEPT !.pc = "call", !.to = sink])
  /\ Unlock
  /\ UNCHANGED <<level, sink, unwinding, calls, program>>

EmitTakesSinkLocked(t) ==
  /\ AtTop(t, {"log_at"}, "critical")
  /\ Top(t).arg >= level
  /\ sink # NullSink
  /\ ReplaceTop(t, [Top(t) EXCEPT !.pc = "call", !.to = sink])
  /\ UNCHANGED <<mutex, level, sink, unwinding, calls, program>>

EmitTakesSink(t) ==
  /\ AtTop(t, {"log_at"}, "critical")
  /\ Top(t).arg >= level
  /\ sink # NullSink
  /\ ReplaceTop(t, [Top(t) EXCEPT !.pc = "call", !.to = sink])
  /\ Unlock
  /\ UNCHANGED <<level, sink, unwinding, calls, program>>

(* The copy of the std::function may throw, under the lock. *)
EmitCopyThrows(t) ==
  /\ AtTop(t, {"log_at"}, "critical")
  /\ Top(t).arg >= level
  /\ sink # NullSink
  /\ unwinding' = [unwinding EXCEPT ![t] = TRUE]
  /\ Unlock
  /\ Pop(t)
  /\ UNCHANGED <<level, sink, calls, program>>

EmitCallsSink(t) ==
  /\ AtTop(t, {"log_at"}, "call")
  /\ LET f == [Top(t) EXCEPT !.pc = "in_sink"]
     IN  stack' = [stack EXCEPT ![t] = Append(Append(Below(t), f), Body(f.to))]
  /\ UNCHANGED <<mutex, level, sink, unwinding, calls, program>>

UserCode(t) == \/ CallSetLevel(t) \/ CallSetSink(t) \/ CallLog(t) \/ OpenGuard(t)
               \/ CloseGuard(t) \/ ThreadEnds(t)
               \/ SinkReturns(t) \/ SinkThrows(t) \/ UnwindSink(t) \/ Catch(t)

Library(t) == \/ LockLevel(t) \/ LockState(t)
              \/ ReadLevelToLog(t) \/ ReadLevelToGuard(t)
              \/ SetLevel(t) \/ SetGuardLevel(t) \/ SetSink(t)
              \/ EmitDrops(t) \/ EmitTakesSink(t) \/ EmitCopyThrows(t) \/ EmitCallsSink(t)

Thread(t) == UserCode(t) \/ Library(t)

Terminating == (\A t \in Threads : stack[t] = << >>) /\ UNCHANGED vars

Next == (\E t \in Threads : Thread(t)) \/ Terminating

Spec == Init /\ [][Next]_vars

(* The scheduler runs every thread that can run; the mutex itself is not   *)
(* assumed to be fair.                                                     *)
FairSpec == Spec /\ \A t \in Threads : WF_vars(Thread(t))

-----------------------------------------------------------------------------
(* The records of a call stack that are in flight, the innermost last.     *)
(* Bodies and calls alternate on a stack, so every second frame is a call, *)
(* and all but the innermost of them are inside of their sinks.            *)
InFlight(s) ==
  LET n == IF s[Len(s)].pc = "call" THEN Len(s) \div 2 ELSE (Len(s) - 1) \div 2
  IN  IF s = << >> THEN << >>
      ELSE [j \in 1..n |-> [level |-> s[2 * j].arg, sink |-> s[2 * j].to]]

Abstract == INSTANCE LoggingSpec WITH in_flight <- [t \in Threads |-> InFlight(stack[t])]

Guard == [previous : Levels, set : Levels]

Frame == [fn : {"body", "set_level", "set_sink", "log_at", "ScopedLevel"},
          pc : {"run", "lock_level", "read_level", "lock", "critical", "call", "in_sink"},
          arg : Levels,
          to : Sinks \cup {NullSink},
          previous : Levels,
          guards : Seq(Guard)]

(* The type of every variable.  The installed sink is never empty: emit's  *)
(* check for an empty one cannot fire.                                     *)
TypeOK == /\ program \in Programs
          /\ mutex \in Threads \cup {NoThread}
          /\ level \in Levels
          /\ sink \in Sinks
          /\ stack \in [Threads -> Seq(Frame)]
          /\ unwinding \in [Threads -> BOOLEAN]
          /\ calls \in [Threads -> 0..MaxCalls]

InCriticalSection(t) == stack[t] # << >> /\ Top(t).pc \in {"read_level", "critical"}
WaitsForMutex(t) == stack[t] # << >> /\ Top(t).pc \in {"lock_level", "lock"}

(* The mutex is held exactly by the thread whose innermost frame is in a   *)
(* critical section.  So no user code (a sink, or anything a sink calls,   *)
(* throws or unwinds through) ever runs with the mutex held.               *)
LockDiscipline == \A t \in Threads : mutex = t <=> InCriticalSection(t)

(* A sink that logs, installs a sink or changes the level never waits for  *)
(* a mutex its own thread holds.                                           *)
NoSelfDeadlock == \A t \in Threads : WaitsForMutex(t) => mutex # t

(* A record is accepted at one instant, by the level and with the sink of  *)
(* that instant, though log_at looks at the level twice and the sink runs  *)
(* unlocked later.                                                         *)
ImplementsSpec == Abstract!Spec

(* Every thread gets to its end: nobody waits forever for the mutex, even  *)
(* with sinks that log and sinks that throw.                               *)
AllThreadsEnd == \A t \in Threads : <>(stack[t] = << >>)

(* The level the guards in the frames under frame k of a stack asked for. *)
LevelUnder(s, k) ==
  LET guarded == {m \in 1..(k - 1) : s[m].guards # << >>}
      m == CHOOSE m \in guarded : \A n \in guarded : n <= m
  IN  IF guarded = {} THEN Warning
      ELSE s[m].guards[Len(s[m].guards)].set

(* Guards nest.  When one thread alone changes the level, and only with    *)
(* ScopedLevel guards, every guard remembers the level of the one it is    *)
(* inside of, in its own body or in one further out (a sink's guard inside *)
(* the thread's), and the level is the innermost one's: closing them,      *)
(* normally or by an exception, leads back to the initial level.           *)
GuardsNest ==
  \A t \in program.ScopedLevel :
    program.ScopedLevel = {t} /\ program.set_level = {} =>
      LET s == stack[t]
      IN  /\ \A k \in 1..Len(s) : \A j \in 1..Len(s[k].guards) :
               s[k].guards[j].previous =
                 IF j = 1 THEN LevelUnder(s, k) ELSE s[k].guards[j - 1].set
          /\ (s = << >> \/ Top(t).fn # "set_level") =>
               level = LevelUnder(s, Len(s) + 1)

=============================================================================
