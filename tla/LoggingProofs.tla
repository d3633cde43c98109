--------------------------- MODULE LoggingProofs ---------------------------
(***************************************************************************)
(* The logging facility, for any number of threads, sinks, calls and       *)
(* nested sinks: the mutex is held exactly in critical sections, every     *)
(* record is accepted at one instant, and guards restore the level.        *)
(***************************************************************************)
EXTENDS Logging, SequenceTheorems, WellFoundedInduction, NaturalsInduction, TLAPS

-----------------------------------------------------------------------------
(* A call stack: it starts with a body, a body only runs, and only the     *)
(* innermost frame can be waiting for the mutex or holding it.             *)
GoodStack(s) ==
  \A k \in 1..Len(s) :
    /\ k = 1 => s[k].fn = "body"
    /\ s[k].fn = "body" => s[k].pc = "run"
    /\ k < Len(s) => s[k].pc \in {"run", "in_sink"}

CriticalTop(s) == s # << >> /\ s[Len(s)].pc \in {"read_level", "critical"}

Inv == /\ TypeOK
       /\ \A t \in Threads : GoodStack(stack[t])
       /\ LockDiscipline

LEMMA PushGood ==
  ASSUME NEW s \in Seq(Frame), GoodStack(s), s # << >>, s[Len(s)].pc \in {"run", "in_sink"},
         NEW f \in Frame, f.fn = "body" => f.pc = "run"
  PROVE  /\ Append(s, f) \in Seq(Frame) /\ GoodStack(Append(s, f))
         /\ CriticalTop(Append(s, f)) <=> f.pc \in {"read_level", "critical"}
<1>1. /\ Append(s, f) \in Seq(Frame) /\ Append(s, f) # << >>
      /\ Len(Append(s, f)) = Len(s) + 1 /\ Len(s) \in Nat /\ Len(s) > 0
      /\ \A k \in 1..Len(s) : Append(s, f)[k] = s[k]
      /\ Append(s, f)[Len(s) + 1] = f
  BY AppendProperties, LenProperties, EmptySeq
<1>2. GoodStack(Append(s, f))
  <2> SUFFICES ASSUME NEW k \in 1..(Len(s) + 1)
               PROVE  /\ k = 1 => Append(s, f)[k].fn = "body"
                      /\ Append(s, f)[k].fn = "body" => Append(s, f)[k].pc = "run"
                      /\ k < Len(s) + 1 => Append(s, f)[k].pc \in {"run", "in_sink"}
    BY <1>1 DEF GoodStack
  <2>1. CASE k = Len(s) + 1
    BY <1>1, <2>1
  <2>2. CASE k \in 1..Len(s)
    BY <1>1, <2>2 DEF GoodStack
  <2>. QED
    BY <1>1, <2>1, <2>2
<1>. QED
  BY <1>1, <1>2 DEF CriticalTop

LEMMA PrefixGood ==
  ASSUME NEW s \in Seq(Frame), GoodStack(s), NEW n \in 0..(Len(s) - 1)
  PROVE  /\ SubSeq(s, 1, n) \in Seq(Frame) /\ Len(SubSeq(s, 1, n)) = n
         /\ \A k \in 1..n : SubSeq(s, 1, n)[k] = s[k]
         /\ GoodStack(SubSeq(s, 1, n)) /\ ~CriticalTop(SubSeq(s, 1, n))
         /\ SubSeq(s, 1, n) # << >> => s[n].pc \in {"run", "in_sink"}
<1> DEFINE r == SubSeq(s, 1, n)
<1>1. /\ r \in Seq(Frame) /\ Len(r) = n /\ Len(s) \in Nat
      /\ \A k \in 1..n : r[k] = s[k]
  BY SubSeqProperties, LenProperties
<1>2. GoodStack(r)
  BY <1>1 DEF GoodStack
<1>3. r # << >> => n \in 1..(Len(s) - 1)
  BY <1>1, EmptySeq
<1>4. r # << >> => s[n].pc \in {"run", "in_sink"} /\ r[n] = s[n]
  BY <1>1, <1>3 DEF GoodStack
<1>. QED
  BY <1>1, <1>2, <1>4 DEF CriticalTop

(* A frame on top of a prefix of a good stack. *)
LEMMA OnPrefixGood ==
  ASSUME NEW s \in Seq(Frame), GoodStack(s), NEW n \in 0..(Len(s) - 1),
         NEW f \in Frame, f.fn = "body" => f.pc = "run", n = 0 => f.fn = "body"
  PROVE  LET r == Append(SubSeq(s, 1, n), f)
         IN  /\ r \in Seq(Frame) /\ r # << >> /\ GoodStack(r)
             /\ Len(r) = n + 1 /\ r[Len(r)] = f
             /\ CriticalTop(r) <=> f.pc \in {"read_level", "critical"}
<1> DEFINE q == SubSeq(s, 1, n)
           r == Append(q, f)
<1>1. q \in Seq(Frame) /\ Len(q) = n /\ \A k \in 1..n : q[k] = s[k]
  BY PrefixGood
<1>2. /\ r \in Seq(Frame) /\ r # << >> /\ Len(r) = n + 1 /\ r[n + 1] = f
      /\ \A k \in 1..n : r[k] = s[k]
  BY <1>1, AppendProperties
<1>3. Len(s) \in Nat
  BY LenProperties
<1>4. GoodStack(r)
  <2> SUFFICES ASSUME NEW k \in 1..(n + 1)
               PROVE  /\ k = 1 => r[k].fn = "body"
                      /\ r[k].fn = "body" => r[k].pc = "run"
                      /\ k < n + 1 => r[k].pc \in {"run", "in_sink"}
    BY <1>2 DEF GoodStack
  <2>1. CASE k = n + 1
    BY <1>2, <2>1
  <2>2. CASE k \in 1..n
    <3>1. k \in 1..Len(s) /\ k < Len(s) /\ r[k] = s[k]
      BY <1>2, <1>3, <2>2
    <3>. QED
      BY <2>2, <3>1 DEF GoodStack
  <2>. QED
    BY <2>1, <2>2
<1>. QED
  BY <1>2, <1>4 DEF CriticalTop

(* Opening or closing a guard leaves the rest of a frame alone. *)
LEMMA GuardsType ==
  ASSUME NEW f \in Frame, NEW g \in Seq(Guard)
  PROVE  LET b == [f EXCEPT !.guards = g]
         IN  b \in Frame /\ b.fn = f.fn /\ b.pc = f.pc
BY DEF Frame

LEMMA ReplaceGood ==
  ASSUME NEW s \in Seq(Frame), GoodStack(s), s # << >>, s[Len(s)].fn # "body",
         NEW f \in Frame, f.fn # "body"
  PROVE  LET r == [s EXCEPT ![Len(s)] = f]
         IN  /\ r \in Seq(Frame) /\ GoodStack(r)
             /\ CriticalTop(r) <=> f.pc \in {"read_level", "critical"}
<1> DEFINE r == [s EXCEPT ![Len(s)] = f]
<1>1. Len(s) \in Nat /\ Len(s) > 0
  BY LenProperties, EmptySeq
<1>2. r \in Seq(Frame) /\ Len(r) = Len(s)
  BY <1>1, ExceptSeq
<1>3. r[Len(s)] = f /\ \A k \in 1..Len(s) : k # Len(s) => r[k] = s[k]
  BY <1>1, ExceptSeq
<1>4. GoodStack(r)
  <2> SUFFICES ASSUME NEW k \in 1..Len(s)
               PROVE  /\ k = 1 => r[k].fn = "body"
                      /\ r[k].fn = "body" => r[k].pc = "run"
                      /\ k < Len(s) => r[k].pc \in {"run", "in_sink"}
    BY <1>2 DEF GoodStack
  <2>1. CASE k = Len(s)
    <3>1. k # 1
      BY <1>1, <2>1 DEF GoodStack
    <3>. QED
      BY <1>1, <1>3, <2>1, <3>1
  <2>2. CASE k # Len(s)
    BY <1>1, <1>3, <2>2 DEF GoodStack
  <2>. QED
    BY <2>1, <2>2
<1>5. r # << >>
  BY <1>1, <1>2, EmptySeq
<1>. QED
  BY <1>1, <1>2, <1>3, <1>4, <1>5 DEF CriticalTop

-----------------------------------------------------------------------------
(* The frames the library makes are frames. *)

LEMMA BodyType == ASSUME NEW s \in Sinks \cup {NullSink}
                  PROVE  Body(s) \in Frame /\ Body(s).fn = "body" /\ Body(s).pc = "run"
<1>1. << >> \in Seq(Guard)
  OBVIOUS
<1>2. Warning \in Levels
  BY LoggingAssumption
<1>. QED
  BY <1>1, <1>2 DEF Body, CallOf, Frame

LEMMA CallType ==
  ASSUME NEW fn \in {"set_level", "set_sink", "log_at", "ScopedLevel"},
         NEW pc \in {"lock_level", "lock"},
         NEW l \in Levels, NEW s \in Sinks \cup {NullSink}
  PROVE  CallOf(fn, pc, l, s) \in Frame /\ CallOf(fn, pc, l, s).fn = fn
         /\ CallOf(fn, pc, l, s).pc = pc
<1>1. << >> \in Seq(Guard)
  OBVIOUS
<1>2. Warning \in Levels
  BY LoggingAssumption
<1>. QED
  BY <1>1, <1>2 DEF CallOf, Frame

LEMMA TopType ==
  ASSUME Inv, NEW t \in Threads, stack[t] # << >>
  PROVE  /\ stack[t] \in Seq(Frame) /\ Len(stack[t]) \in Nat /\ Len(stack[t]) > 0
         /\ Top(t) \in Frame /\ GoodStack(stack[t])
         /\ Top(t) = stack[t][Len(stack[t])]
BY EmptySeq, LenProperties, ElementOfSeq DEF Inv, TypeOK, Top

(* One thread replaces its stack by s, and takes, keeps or releases the    *)
(* mutex so that it holds it exactly in a critical section.                *)
LEMMA StackStep ==
  ASSUME Inv, NEW t \in Threads, NEW s \in Seq(Frame), GoodStack(s),
         stack' = [stack EXCEPT ![t] = s],
         mutex' \in Threads \cup {NoThread},
         mutex' = t <=> CriticalTop(s),
         \A u \in Threads \ {t} : mutex' = u <=> mutex = u,
         level' \in Levels, sink' \in Sinks,
         unwinding' \in [Threads -> BOOLEAN], calls' \in [Threads -> 0..MaxCalls],
         UNCHANGED program
  PROVE  Inv'
<1>1. stack' \in [Threads -> Seq(Frame)]
  BY DEF Inv, TypeOK
<1>2. TypeOK'
  BY <1>1 DEF TypeOK, Inv
<1>3. stack'[t] = s /\ \A u \in Threads \ {t} : stack'[u] = stack[u]
  BY DEF Inv, TypeOK
<1>4. ASSUME NEW u \in Threads PROVE GoodStack(stack'[u])
  BY <1>3 DEF Inv
<1>5. ASSUME NEW u \in Threads PROVE InCriticalSection(u)' <=> CriticalTop(stack'[u])
  BY DEF InCriticalSection, CriticalTop, Top
<1>6. ASSUME NEW u \in Threads PROVE InCriticalSection(u) <=> CriticalTop(stack[u])
  BY DEF InCriticalSection, CriticalTop, Top
<1>7. LockDiscipline'
  <2> SUFFICES ASSUME NEW u \in Threads PROVE mutex' = u <=> CriticalTop(stack'[u])
    BY <1>5 DEF LockDiscipline
  <2>1. CASE u = t
    BY <1>3, <2>1
  <2>2. CASE u # t
    BY <1>3, <1>6, <2>2 DEF Inv, LockDiscipline
  <2>. QED
    BY <2>1, <2>2
<1>8. (\A u \in Threads : GoodStack(stack[u]))'
  BY <1>4 DEF GoodStack
<1>. QED
  BY <1>2, <1>7, <1>8 DEF Inv

(* A thread whose innermost frame is not in a critical section neither     *)
(* holds the mutex nor, by putting a waiting or a running frame there,     *)
(* comes to hold it.                                                       *)
LEMMA UnlockedStep ==
  ASSUME Inv, NEW t \in Threads, NEW s \in Seq(Frame), GoodStack(s), ~CriticalTop(s),
         ~InCriticalSection(t),
         stack' = [stack EXCEPT ![t] = s], UNCHANGED <<mutex, level, sink, program>>,
         unwinding' \in [Threads -> BOOLEAN], calls' \in [Threads -> 0..MaxCalls]
  PROVE  Inv'
<1>1. mutex # t /\ mutex \in Threads \cup {NoThread} /\ level \in Levels /\ sink \in Sinks
  BY DEF Inv, LockDiscipline, TypeOK
<1>. QED
  BY <1>1, StackStep

(* A thread in a critical section leaves it and releases the mutex. *)
LEMMA UnlockStep ==
  ASSUME Inv, NEW t \in Threads, NEW s \in Seq(Frame), GoodStack(s), ~CriticalTop(s),
         InCriticalSection(t),
         stack' = [stack EXCEPT ![t] = s], mutex' = NoThread,
         level' \in Levels, sink' \in Sinks,
         unwinding' \in [Threads -> BOOLEAN], UNCHANGED <<calls, program>>
  PROVE  Inv'
<1>1. mutex = t /\ NoThread \notin Threads /\ calls \in [Threads -> 0..MaxCalls]
  BY LoggingAssumption DEF Inv, LockDiscipline, TypeOK
<1>. QED
  BY <1>1, StackStep

-----------------------------------------------------------------------------
(* The invariant holds at first and every step keeps it. *)

LEMMA InvInit == Init => Inv
<1> SUFFICES ASSUME Init PROVE Inv
  OBVIOUS
<1> DEFINE s == <<Body(NullSink)>>
<1>1. Body(NullSink) \in Frame /\ Body(NullSink).fn = "body" /\ Body(NullSink).pc = "run"
  BY BodyType
<1>2. s \in Seq(Frame) /\ Len(s) = 1 /\ s[1] = Body(NullSink)
  BY <1>1
<1>3. GoodStack(s)
  BY <1>1, <1>2 DEF GoodStack
<1>4. ~CriticalTop(s)
  BY <1>1, <1>2 DEF CriticalTop
<1>5. \A t \in Threads : stack[t] = s
  BY DEF Init
<1>6. TypeOK
  BY <1>2, LoggingAssumption DEF Init, TypeOK
<1>7. LockDiscipline
  <2> SUFFICES ASSUME NEW t \in Threads PROVE mutex = t <=> InCriticalSection(t)
    BY DEF LockDiscipline
  <2>1. ~InCriticalSection(t)
    BY <1>4, <1>5 DEF InCriticalSection, CriticalTop, Top
  <2>. QED
    BY <2>1, LoggingAssumption DEF Init
<1>8. \A t \in Threads : GoodStack(stack[t])
  BY <1>3, <1>5
<1>. QED
  BY <1>6, <1>7, <1>8 DEF Inv

LEMMA Facts ==
  ASSUME Inv, NEW t \in Threads, stack[t] # << >>
  PROVE  /\ InCriticalSection(t) <=> Top(t).pc \in {"read_level", "critical"}
         /\ Top(t).fn = "body" => Top(t).pc = "run"
         /\ Top(t).fn # "body" => Len(stack[t]) > 1
         /\ unwinding \in [Threads -> BOOLEAN] /\ calls \in [Threads -> 0..MaxCalls]
         /\ level \in Levels /\ sink \in Sinks
<1>1. stack[t][1].fn = "body"
  BY TopType DEF GoodStack
<1>. QED
  BY <1>1, TopType DEF InCriticalSection, GoodStack, Inv, TypeOK

LEMMA CallLibraryKeeps ==
  ASSUME Inv, NEW t \in Threads,
         NEW fn \in {"set_level", "set_sink", "log_at", "ScopedLevel"},
         NEW pc \in {"lock_level", "lock"}, NEW l \in Levels,
         NEW s \in Sinks \cup {NullSink},
         CallLibrary(t, CallOf(fn, pc, l, s))
  PROVE  Inv'
<1> DEFINE f == CallOf(fn, pc, l, s)
           r == Append(stack[t], f)
<1>1. /\ stack[t] # << >> /\ Top(t).pc = "run" /\ calls[t] < MaxCalls
      /\ stack' = [stack EXCEPT ![t] = r]
      /\ calls' = [calls EXCEPT ![t] = @ + 1]
      /\ UNCHANGED <<mutex, level, sink, unwinding, program>>
  BY DEF CallLibrary, InUserCode, AtTop, Push
<1>2. f \in Frame /\ f.fn = fn /\ f.pc = pc
  BY CallType
<1>3. r \in Seq(Frame) /\ GoodStack(r) /\ ~CriticalTop(r)
  BY <1>1, <1>2, TopType, PushGood
<1>4. calls' \in [Threads -> 0..MaxCalls] /\ unwinding' \in [Threads -> BOOLEAN]
  BY <1>1, LoggingAssumption, Facts
<1>5. ~InCriticalSection(t)
  BY <1>1, Facts
<1>. QED
  BY <1>1, <1>3, <1>4, <1>5, UnlockedStep

LEMMA LockKeeps ==
  ASSUME Inv, NEW t \in Threads, NEW from \in {"lock_level", "lock"},
         NEW to \in {"read_level", "critical"}, Lock(t, from, to)
  PROVE  Inv'
<1> DEFINE f == [Top(t) EXCEPT !.pc = to]
           r == [stack[t] EXCEPT ![Len(stack[t])] = f]
<1>1. /\ stack[t] # << >> /\ Top(t).pc = from /\ mutex = NoThread /\ mutex' = t
      /\ stack' = [stack EXCEPT ![t] = r]
      /\ UNCHANGED <<level, sink, unwinding, calls, program>>
  BY DEF Lock, ReplaceTop
<1>2. Top(t).fn # "body"
  BY <1>1, Facts
<1>3. f \in Frame /\ f.fn = Top(t).fn /\ f.pc = to
  BY <1>1, TopType DEF Frame
<1>4. r \in Seq(Frame) /\ GoodStack(r) /\ CriticalTop(r)
  BY <1>1, <1>2, <1>3, TopType, ReplaceGood
<1>5. unwinding' \in [Threads -> BOOLEAN] /\ calls' \in [Threads -> 0..MaxCalls]
      /\ level' \in Levels /\ sink' \in Sinks
  BY <1>1, Facts
<1>6. \A u \in Threads \ {t} : mutex' = u <=> mutex = u
  BY <1>1, LoggingAssumption
<1>. QED
  BY <1>1, <1>4, <1>5, <1>6, StackStep

(* Leaving a critical section by dropping the innermost frame. *)
LEMMA PopUnlockKeeps ==
  ASSUME Inv, NEW t \in Threads, stack[t] # << >>,
         Top(t).pc \in {"read_level", "critical"},
         Pop(t), mutex' = NoThread, level' \in Levels, sink' \in Sinks,
         unwinding' \in [Threads -> BOOLEAN], UNCHANGED <<calls, program>>
  PROVE  Inv'
<1>1. Len(stack[t]) - 1 \in 0..(Len(stack[t]) - 1)
  BY TopType
<1>2. Below(t) \in Seq(Frame) /\ GoodStack(Below(t)) /\ ~CriticalTop(Below(t))
  BY <1>1, TopType, PrefixGood DEF Below
<1>3. InCriticalSection(t)
  BY Facts
<1>. QED
  BY <1>2, <1>3, UnlockStep DEF Pop

(* Leaving it by going on in the same frame. *)
LEMMA ReplaceUnlockKeeps ==
  ASSUME Inv, NEW t \in Threads, stack[t] # << >>,
         Top(t).pc \in {"read_level", "critical"}, Top(t).fn # "body",
         NEW f \in Frame, f.fn # "body", f.pc \in {"lock", "call"},
         ReplaceTop(t, f), mutex' = NoThread,
         UNCHANGED <<level, sink, unwinding, calls, program>>
  PROVE  Inv'
<1> DEFINE r == [stack[t] EXCEPT ![Len(stack[t])] = f]
<1>1. r \in Seq(Frame) /\ GoodStack(r) /\ ~CriticalTop(r)
  BY TopType, ReplaceGood
<1>2. InCriticalSection(t)
  BY Facts
<1>3. stack' = [stack EXCEPT ![t] = r]
  BY DEF ReplaceTop
<1>. QED
  BY <1>1, <1>2, <1>3, UnlockStep, Facts

LEMMA CloseGuardKeeps ==
  ASSUME Inv, NEW t \in Threads, CloseGuard(t)
  PROVE  Inv'
<1> DEFINE open == Top(t).guards
           n == Len(stack[t]) - 1
           f == CallOf("set_level", "lock", open[Len(open)].previous, NullSink)
           b == [Top(t) EXCEPT !.guards = SubSeq(open, 1, Len(open) - 1)]
           r == Append(Below(t), b)
           s == Append(r, f)
<1>1. /\ stack[t] # << >> /\ Top(t).fn = "body" /\ Top(t).pc = "run" /\ open # << >>
      /\ stack' = [stack EXCEPT ![t] = s]
      /\ UNCHANGED <<mutex, level, sink, unwinding, calls, program>>
  BY DEF CloseGuard, AtTop
<1>2. open \in Seq(Guard) /\ Len(open) \in Nat /\ Len(open) > 0
  BY <1>1, TopType, LenProperties, EmptySeq DEF Frame
<1>3. open[Len(open)].previous \in Levels
  <2>1. Len(open) \in 1..Len(open)
    BY <1>2
  <2>2. open[Len(open)] \in Guard
    BY <1>2, <2>1, ElementOfSeq
  <2>. QED
    BY <2>2 DEF Guard
<1>4. f \in Frame /\ f.fn = "set_level" /\ f.pc = "lock"
  BY <1>3, CallType
<1>5. SubSeq(open, 1, Len(open) - 1) \in Seq(Guard)
  <2>1. \A k \in 1..(Len(open) - 1) : open[k] \in Guard
    BY <1>2, ElementOfSeq
  <2>. QED
    BY <1>2, <2>1, SubSeqProperties
<1>6. b \in Frame /\ b.fn = "body" /\ b.pc = "run"
  BY <1>1, <1>5, TopType, GuardsType
<1>7. r \in Seq(Frame) /\ GoodStack(r) /\ r # << >> /\ r[Len(r)].pc = "run"
  <2>1. n \in 0..(Len(stack[t]) - 1) /\ stack[t] \in Seq(Frame) /\ GoodStack(stack[t])
    BY <1>1, TopType
  <2>2. r = Append(SubSeq(stack[t], 1, n), b)
    BY DEF Below
  <2>. HIDE DEF r, b, n
  <2>. QED
    BY <1>6, <2>1, <2>2, OnPrefixGood
<1>8. s \in Seq(Frame) /\ GoodStack(s) /\ ~CriticalTop(s)
  BY <1>4, <1>7, PushGood
<1>9. ~InCriticalSection(t)
  BY <1>1, Facts
<1>. QED
  BY <1>1, <1>8, <1>9, UnlockedStep, Facts

LEMMA LeaveSinkKeeps ==
  ASSUME Inv, NEW t \in Threads, AtTop(t, {"body"}, "run"), LeaveSink(t), UNCHANGED unwinding
  PROVE  Inv'
<1> DEFINE s == SubSeq(stack[t], 1, Len(stack[t]) - 2)
<1>1. /\ stack[t] # << >> /\ Top(t).pc = "run" /\ Len(stack[t]) > 1
      /\ stack' = [stack EXCEPT ![t] = s]
      /\ UNCHANGED <<mutex, level, sink, unwinding, calls, program>>
  BY DEF LeaveSink, AtTop
<1>2. Len(stack[t]) - 2 \in 0..(Len(stack[t]) - 1)
  BY <1>1, TopType
<1>3. s \in Seq(Frame) /\ GoodStack(s) /\ ~CriticalTop(s)
  BY <1>1, <1>2, TopType, PrefixGood
<1>4. ~InCriticalSection(t)
  BY <1>1, Facts
<1>. QED
  BY <1>1, <1>3, <1>4, UnlockedStep, Facts

LEMMA UserCodeKeeps == ASSUME Inv, NEW t \in Threads, UserCode(t) PROVE Inv'
<1>0. NullSink \in Sinks \cup {NullSink} /\ Warning \in Levels /\ Records \subseteq Levels
  BY LoggingAssumption
<1>1. CASE CallSetLevel(t)
  BY <1>0, <1>1, CallLibraryKeeps DEF CallSetLevel
<1>2. CASE CallSetSink(t)
  BY <1>0, <1>2, CallLibraryKeeps DEF CallSetSink
<1>3. CASE CallLog(t)
  BY <1>0, <1>3, CallLibraryKeeps DEF CallLog
<1>4. CASE OpenGuard(t)
  BY <1>0, <1>4, CallLibraryKeeps DEF OpenGuard
<1>5. CASE CloseGuard(t)
  BY <1>5, CloseGuardKeeps
<1>6. CASE ThreadEnds(t)
  <2>1. /\ stack[t] # << >> /\ Top(t).pc = "run"
        /\ stack' = [stack EXCEPT ![t] = Below(t)]
        /\ UNCHANGED <<mutex, level, sink, unwinding, calls, program>>
    BY <1>6 DEF ThreadEnds, InUserCode, AtTop, Pop
  <2>2. Len(stack[t]) - 1 \in 0..(Len(stack[t]) - 1)
    BY <2>1, TopType
  <2>3. Below(t) \in Seq(Frame) /\ GoodStack(Below(t)) /\ ~CriticalTop(Below(t))
    BY <2>1, <2>2, TopType, PrefixGood DEF Below
  <2>. QED
    BY <2>1, <2>3, UnlockedStep, Facts
<1>7. CASE SinkReturns(t)
  BY <1>7, LeaveSinkKeeps DEF SinkReturns, InUserCode
<1>8. CASE UnwindSink(t)
  BY <1>8, LeaveSinkKeeps DEF UnwindSink
<1>9. CASE SinkThrows(t) \/ Catch(t)
  <2>1. /\ UNCHANGED <<mutex, level, sink, stack, calls, program>>
        /\ \/ unwinding' = [unwinding EXCEPT ![t] = TRUE]
           \/ unwinding' = [unwinding EXCEPT ![t] = FALSE]
    BY <1>9 DEF SinkThrows, Catch
  <2>2. TypeOK'
    BY <2>1 DEF Inv, TypeOK
  <2>3. LockDiscipline'
    BY <2>1 DEF Inv, LockDiscipline, InCriticalSection, Top
  <2>. QED
    BY <2>1, <2>2, <2>3 DEF Inv, GoodStack
<1>. QED
  BY <1>1, <1>2, <1>3, <1>4, <1>5, <1>6, <1>7, <1>8, <1>9 DEF UserCode

LEMMA LibraryKeeps == ASSUME Inv, NEW t \in Threads, Library(t) PROVE Inv'
<1>1. CASE LockLevel(t)
  BY <1>1, LockKeeps DEF LockLevel
<1>2. CASE LockState(t)
  BY <1>2, LockKeeps DEF LockState
<1>3. CASE ReadLevelToLog(t)
  <2>1. /\ stack[t] # << >> /\ Top(t).fn = "log_at" /\ Top(t).pc = "read_level"
        /\ mutex' = NoThread /\ UNCHANGED <<level, sink, unwinding, calls, program>>
        /\ ReplaceTop(t, [Top(t) EXCEPT !.pc = "lock"]) \/ Pop(t)
    BY <1>3 DEF ReadLevelToLog, AtTop, Unlock
  <2>2. [Top(t) EXCEPT !.pc = "lock"] \in Frame
        /\ [Top(t) EXCEPT !.pc = "lock"].fn = "log_at"
        /\ [Top(t) EXCEPT !.pc = "lock"].pc = "lock"
    BY <2>1, TopType DEF Frame
  <2>3. CASE ReplaceTop(t, [Top(t) EXCEPT !.pc = "lock"])
    BY <2>1, <2>2, <2>3, ReplaceUnlockKeeps
  <2>4. CASE Pop(t)
    BY <2>1, <2>4, PopUnlockKeeps, Facts
  <2>. QED
    BY <2>1, <2>3, <2>4
<1>4. CASE ReadLevelToGuard(t)
  <2> DEFINE f == [Top(t) EXCEPT !.pc = "lock", !.previous = level]
  <2>1. /\ stack[t] # << >> /\ Top(t).fn = "ScopedLevel" /\ Top(t).pc = "read_level"
        /\ mutex' = NoThread /\ UNCHANGED <<level, sink, unwinding, calls, program>>
        /\ ReplaceTop(t, f)
    BY <1>4 DEF ReadLevelToGuard, AtTop, Unlock
  <2>2. f \in Frame /\ f.fn = "ScopedLevel" /\ f.pc = "lock"
    BY <2>1, TopType, Facts DEF Frame
  <2>. QED
    BY <2>1, <2>2, ReplaceUnlockKeeps
<1>5. CASE SetLevel(t)
  <2>1. /\ stack[t] # << >> /\ Top(t).pc = "critical" /\ level' = Top(t).arg
        /\ mutex' = NoThread /\ Pop(t) /\ UNCHANGED <<sink, unwinding, calls, program>>
    BY <1>5 DEF SetLevel, AtTop, Unlock
  <2>2. level' \in Levels
    BY <2>1, TopType DEF Frame
  <2>. QED
    BY <2>1, <2>2, PopUnlockKeeps, Facts
<1>6. CASE SetSink(t)
  <2>1. /\ stack[t] # << >> /\ Top(t).pc = "critical"
        /\ sink' = IF Top(t).to = NullSink THEN "default_sink" ELSE Top(t).to
        /\ mutex' = NoThread /\ Pop(t) /\ UNCHANGED <<level, unwinding, calls, program>>
    BY <1>6 DEF SetSink, AtTop, Unlock
  <2>2. sink' \in Sinks
    BY <2>1, TopType, LoggingAssumption DEF Frame
  <2>. QED
    BY <2>1, <2>2, PopUnlockKeeps, Facts
<1>7. CASE SetGuardLevel(t)
  <2> DEFINE n == Len(stack[t]) - 1
             g == [previous |-> Top(t).previous, set |-> Top(t).arg]
             body == stack[t][n]
             opened == Append(body.guards, g)
             b == [body EXCEPT !.guards = opened]
             s == Append(SubSeq(stack[t], 1, n - 1), b)
  <2>1. /\ stack[t] # << >> /\ Top(t).fn = "ScopedLevel" /\ Top(t).pc = "critical"
        /\ level' = Top(t).arg /\ mutex' = NoThread
        /\ stack' = [stack EXCEPT ![t] = s]
        /\ UNCHANGED <<sink, unwinding, calls, program>>
    BY <1>7 DEF SetGuardLevel, AtTop, Unlock
  <2>2. n \in 1..(Len(stack[t]) - 1) /\ n - 1 \in 0..(Len(stack[t]) - 1) /\ n \in 1..Len(stack[t])
    BY <2>1, TopType, Facts
  <2>3. /\ body \in Frame /\ body.pc \in {"run", "in_sink"}
        /\ body.fn = "body" => body.pc = "run"
        /\ n = 1 => body.fn = "body"
    BY <2>1, <2>2, TopType, ElementOfSeq DEF GoodStack
  <2>4. g \in Guard /\ level' \in Levels
    BY <2>1, TopType DEF Frame, Guard
  <2>5. opened \in Seq(Guard)
    <3>1. body.guards \in Seq(Guard)
      BY <2>3 DEF Frame
    <3>. QED
      BY <2>4, <3>1, AppendProperties
  <2>6. b \in Frame /\ b.fn = body.fn /\ b.pc = body.pc
    <3> HIDE DEF opened, body
    <3>1. body \in Frame
      BY <2>3 DEF body
    <3>. QED
      BY <2>5, <3>1, GuardsType
  <2>7. n - 1 = 0 => b.fn = "body"
    BY <2>2, <2>3, <2>6
  <2>8. s \in Seq(Frame) /\ GoodStack(s) /\ ~CriticalTop(s)
    <3> HIDE DEF b
    <3>1. (b.fn = "body" => b.pc = "run") /\ b.pc \notin {"read_level", "critical"}
      BY <2>3, <2>6
    <3>2. stack[t] \in Seq(Frame) /\ GoodStack(stack[t])
      BY <2>1, TopType
    <3>. QED
      BY <2>2, <2>6, <2>7, <3>1, <3>2, OnPrefixGood
  <2>9. InCriticalSection(t)
    BY <2>1, Facts
  <2>. QED
    BY <2>1, <2>4, <2>8, <2>9, UnlockStep, Facts
<1>8. CASE EmitDrops(t)
  BY <1>8, PopUnlockKeeps, Facts DEF EmitDrops, AtTop, Unlock
<1>9. CASE EmitTakesSink(t)
  <2> DEFINE f == [Top(t) EXCEPT !.pc = "call", !.to = sink]
  <2>1. /\ stack[t] # << >> /\ Top(t).fn = "log_at" /\ Top(t).pc = "critical"
        /\ mutex' = NoThread /\ UNCHANGED <<level, sink, unwinding, calls, program>>
        /\ ReplaceTop(t, f)
    BY <1>9 DEF EmitTakesSink, AtTop, Unlock
  <2>2. f \in Frame /\ f.fn = "log_at" /\ f.pc = "call"
    BY <2>1, TopType, Facts DEF Frame
  <2>. QED
    BY <2>1, <2>2, ReplaceUnlockKeeps
<1>10. CASE EmitCopyThrows(t)
  <2>1. /\ stack[t] # << >> /\ Top(t).pc = "critical" /\ mutex' = NoThread /\ Pop(t)
        /\ unwinding' = [unwinding EXCEPT ![t] = TRUE] /\ UNCHANGED <<level, sink, calls, program>>
    BY <1>10 DEF EmitCopyThrows, AtTop, Unlock
  <2>2. unwinding' \in [Threads -> BOOLEAN]
    BY <2>1, Facts
  <2>. QED
    BY <2>1, <2>2, PopUnlockKeeps, Facts
<1>11. CASE EmitCallsSink(t)
  <2> DEFINE f == [Top(t) EXCEPT !.pc = "in_sink"]
             b == Body(f.to)
             q == Below(t)
             r == Append(q, f)
             s == Append(r, b)
             n == Len(stack[t]) - 1
  <2>1. /\ stack[t] # << >> /\ Top(t).fn = "log_at" /\ Top(t).pc = "call"
        /\ stack' = [stack EXCEPT ![t] = s]
        /\ UNCHANGED <<mutex, level, sink, unwinding, calls, program>>
    BY <1>11 DEF EmitCallsSink, AtTop
  <2>2. f \in Frame /\ f.fn = "log_at" /\ f.pc = "in_sink"
    BY <2>1, TopType DEF Frame
  <2>3. b \in Frame /\ b.fn = "body" /\ b.pc = "run"
    BY <2>2, BodyType DEF Frame
  <2>4. n \in 1..(Len(stack[t]) - 1) /\ n \in 0..(Len(stack[t]) - 1)
    BY <2>1, TopType, Facts
  <2>5. r \in Seq(Frame) /\ GoodStack(r) /\ r # << >> /\ r[Len(r)].pc = "in_sink"
    <3> HIDE DEF f
    <3>1. stack[t] \in Seq(Frame) /\ GoodStack(stack[t])
      BY <2>1, TopType
    <3>. QED
      BY <2>2, <2>4, <3>1, OnPrefixGood DEF Below
  <2>6. s \in Seq(Frame) /\ GoodStack(s) /\ ~CriticalTop(s)
    BY <2>3, <2>5, PushGood
  <2>7. ~InCriticalSection(t)
    BY <2>1, Facts
  <2>. QED
    BY <2>1, <2>6, <2>7, UnlockedStep, Facts
<1>. QED
  BY <1>1, <1>2, <1>3, <1>4, <1>5, <1>6, <1>7, <1>8, <1>9, <1>10, <1>11 DEF Library

LEMMA InvStep == Inv /\ [Next]_vars => Inv'
<1> SUFFICES ASSUME Inv, [Next]_vars PROVE Inv'
  OBVIOUS
<1>1. ASSUME NEW t \in Threads, Thread(t) PROVE Inv'
  BY <1>1, UserCodeKeeps, LibraryKeeps DEF Thread
<1>2. CASE UNCHANGED vars
  BY <1>2 DEF vars, Inv, TypeOK, GoodStack, LockDiscipline, InCriticalSection, Top
<1>. QED
  BY <1>1, <1>2 DEF Next, Terminating

LEMMA Invariance == Spec => []Inv
BY InvInit, InvStep, PTL DEF Spec

(* Type correctness; in particular the installed sink is never empty.      *)
THEOREM TypeCorrect == Spec => []TypeOK
BY Invariance, PTL DEF Inv

(* The mutex is held exactly in critical sections, never while user code   *)
(* runs, whatever sinks do: log, throw, open guards, install sinks.        *)
THEOREM MutexHeldOnlyInside == Spec => []LockDiscipline
BY Invariance, PTL DEF Inv

(* Re-entering the facility from a sink never deadlocks on the mutex.      *)
THEOREM ReentrySafe == Spec => []NoSelfDeadlock
<1>1. Inv => NoSelfDeadlock
  BY DEF Inv, LockDiscipline, NoSelfDeadlock, InCriticalSection, WaitsForMutex
<1>. QED
  BY <1>1, Invariance, PTL

-----------------------------------------------------------------------------
(* The records in flight.  Bodies and calls alternate on a stack; a call   *)
(* is inside of its sink exactly when it is not the innermost frame, and   *)
(* only bodies have guards.                                                *)
Alternating(s) ==
  \A k \in 1..Len(s) :
    /\ s[k].fn = "body" <=> k % 2 = 1
    /\ s[k].fn = "body" <=> s[k].pc = "run"
    /\ s[k].fn # "body" => s[k].guards = << >>
    /\ s[k].fn # "body" => (s[k].pc = "in_sink" <=> k < Len(s))

Record == [level : Levels, sink : Sinks \cup {NullSink}]
RecordOf(f) == [level |-> f.arg, sink |-> f.to]

(* With m calls inside of sinks, or about to call one, m records are in    *)
(* flight.                                                                 *)
LEMMA FlightIs ==
  ASSUME NEW s \in Seq(Frame), s # << >>, NEW m \in Nat,
         IF s[Len(s)].pc = "call" THEN Len(s) = 2 * m
                                  ELSE Len(s) = 2 * m + 1 \/ Len(s) = 2 * m + 2
  PROVE  /\ InFlight(s) \in Seq(Record) /\ Len(InFlight(s)) = m
         /\ \A j \in 1..m : InFlight(s)[j] = RecordOf(s[2 * j])
<1> DEFINE n == IF s[Len(s)].pc = "call" THEN Len(s) \div 2 ELSE (Len(s) - 1) \div 2
           F == [j \in 1..m |-> RecordOf(s[2 * j])]
<1>1. Len(s) \in Nat
  OBVIOUS
<1>2. n = m
  <2>1. CASE s[Len(s)].pc = "call"
    BY <1>1, <2>1
  <2>2. CASE s[Len(s)].pc # "call"
    <3>1. Len(s) - 1 = 2 * m \/ Len(s) - 1 = 2 * m + 1
      BY <1>1, <2>2
    <3>2. (Len(s) - 1) \div 2 = m
      BY <3>1
    <3>. QED
      BY <2>2, <3>2
  <2>. QED
    BY <2>1, <2>2
<1>3. InFlight(s) = F
  BY <1>2 DEF InFlight, RecordOf
<1>4. \A j \in 1..m : 2 * j \in 1..Len(s)
  BY <1>1
<1>5. \A j \in 1..m : RecordOf(s[2 * j]) \in Record
  <2> SUFFICES ASSUME NEW j \in 1..m PROVE RecordOf(s[2 * j]) \in Record
    OBVIOUS
  <2>1. s[2 * j] \in Frame
    BY <1>4, ElementOfSeq
  <2>. QED
    BY <2>1 DEF Frame, Record, RecordOf
<1>6. F \in Seq(Record) /\ Len(F) = m
  BY <1>5
<1>. QED
  BY <1>3, <1>6

LEMMA NoFlight == InFlight(<< >>) = << >>
BY DEF InFlight

(* Two stacks agree in their n outermost frames, the last of them a body,  *)
(* in everything but the guards of bodies.                                 *)
Agree(s, r, n) ==
  /\ n \in Nat /\ n % 2 = 1 /\ n <= Len(s) /\ n <= Len(r)
  /\ \A k \in 1..n : /\ r[k].fn = s[k].fn /\ r[k].pc = s[k].pc
                     /\ r[k].arg = s[k].arg /\ r[k].to = s[k].to
                     /\ s[k].fn # "body" => r[k].guards = s[k].guards

(* What is above them then decides whether bodies and calls alternate.     *)
LEMMA AgreeAlternating ==
  ASSUME NEW s \in Seq(Frame), NEW r \in Seq(Frame), NEW n, Agree(s, r, n), Alternating(s),
         Len(r) <= n + 2,
         Len(r) > n => /\ r[n + 1].fn # "body" /\ r[n + 1].guards = << >>
                       /\ r[n + 1].pc # "run"
                       /\ r[n + 1].pc = "in_sink" <=> Len(r) = n + 2,
         Len(r) = n + 2 => r[n + 2].fn = "body" /\ r[n + 2].pc = "run"
  PROVE  Alternating(r)
<1>1. n \in Nat /\ n % 2 = 1 /\ n <= Len(s) /\ n <= Len(r) /\ Len(r) \in Nat /\ Len(s) \in Nat
  BY DEF Agree
<1>2. (n + 1) % 2 = 0 /\ (n + 2) % 2 = 1
  BY <1>1
<1> SUFFICES ASSUME NEW k \in 1..Len(r)
             PROVE  /\ r[k].fn = "body" <=> k % 2 = 1
                    /\ r[k].fn = "body" <=> r[k].pc = "run"
                    /\ r[k].fn # "body" => r[k].guards = << >>
                    /\ r[k].fn # "body" => (r[k].pc = "in_sink" <=> k < Len(r))
  BY DEF Alternating
<1>3. CASE k = n + 1
  BY <1>1, <1>2, <1>3
<1>4. CASE k = n + 2
  BY <1>1, <1>2, <1>4
<1>5. CASE k \in 1..n
  <2>1. k \in 1..Len(s) /\ (k % 2 # 1 => k < Len(s) /\ k < Len(r))
    BY <1>1, <1>5
  <2>2. /\ r[k].fn = s[k].fn /\ r[k].pc = s[k].pc
        /\ s[k].fn # "body" => r[k].guards = s[k].guards
    BY <1>5 DEF Agree
  <2>. QED
    BY <2>1, <2>2 DEF Alternating
<1>. QED
  BY <1>1, <1>3, <1>4, <1>5

(* The number of records in flight on a stack of n frames, n odd, with     *)
(* nothing, one frame or a call and a sink's body on top.                  *)
NoneOnTop(s, n) == Len(s) = n \/ (Len(s) = n + 1 /\ s[n + 1].pc # "call")
OneOnTop(s, n) == (Len(s) = n + 1 /\ s[n + 1].pc = "call") \/ Len(s) = n + 2

LEMMA FlightBelow ==
  ASSUME NEW s \in Seq(Frame), NEW m \in Nat, NEW n, n = 2 * m + 1, Alternating(s),
         NoneOnTop(s, n)
  PROVE  /\ InFlight(s) \in Seq(Record) /\ Len(InFlight(s)) = m
         /\ \A j \in 1..m : InFlight(s)[j] = RecordOf(s[2 * j])
<1>1. Len(s) \in Nat /\ Len(s) >= 1
  BY DEF NoneOnTop
<1>2. s # << >>
  BY <1>1, EmptySeq
<1>3. Len(s) % 2 = 1 => s[Len(s)].pc = "run"
  <2>1. Len(s) \in 1..Len(s)
    BY <1>1
  <2>. QED
    BY <2>1 DEF Alternating
<1>4. n % 2 = 1
  OBVIOUS
<1>5. IF s[Len(s)].pc = "call" THEN Len(s) = 2 * m
      ELSE Len(s) = 2 * m + 1 \/ Len(s) = 2 * m + 2
  BY <1>3, <1>4 DEF NoneOnTop
<1>. QED
  BY <1>2, <1>5, FlightIs

LEMMA FlightAbove ==
  ASSUME NEW s \in Seq(Frame), NEW m \in Nat, NEW n, n = 2 * m + 1, Alternating(s),
         OneOnTop(s, n)
  PROVE  /\ InFlight(s) \in Seq(Record) /\ Len(InFlight(s)) = m + 1
         /\ \A j \in 1..(m + 1) : InFlight(s)[j] = RecordOf(s[2 * j])
<1>1. Len(s) \in Nat /\ Len(s) >= 1
  BY DEF OneOnTop
<1>2. s # << >>
  BY <1>1, EmptySeq
<1>3. Len(s) % 2 = 1 => s[Len(s)].pc = "run"
  <2>1. Len(s) \in 1..Len(s)
    BY <1>1
  <2>. QED
    BY <2>1 DEF Alternating
<1>4. (n + 2) % 2 = 1
  OBVIOUS
<1> DEFINE total == m + 1
<1>5. total \in Nat /\ n = 2 * total - 1
  OBVIOUS
<1> HIDE DEF total
<1>6. IF s[Len(s)].pc = "call" THEN Len(s) = 2 * total
      ELSE Len(s) = 2 * total + 1 \/ Len(s) = 2 * total + 2
  <2>1. CASE Len(s) = n + 1 /\ s[n + 1].pc = "call"
    BY <1>5, <2>1
  <2>2. CASE Len(s) = n + 2
    BY <1>3, <1>4, <1>5, <2>2
  <2>. QED
    BY <2>1, <2>2 DEF OneOnTop
<1>7. /\ InFlight(s) \in Seq(Record) /\ Len(InFlight(s)) = total
      /\ \A j \in 1..total : InFlight(s)[j] = RecordOf(s[2 * j])
  BY <1>2, <1>5, <1>6, FlightIs
<1>. QED
  BY <1>7 DEF total

(* n is odd. *)
LEMMA HalfOf ==
  ASSUME NEW s, NEW r, NEW n, Agree(s, r, n)
  PROVE  \E m \in Nat : n = 2 * m + 1
<1>1. n \in Nat /\ n % 2 = 1
  BY DEF Agree
<1>2. n \div 2 \in Nat /\ n = 2 * (n \div 2) + 1
  BY <1>1
<1>. QED
  BY <1>2

LEMMA AgreeRecords ==
  ASSUME NEW s, NEW r, NEW m \in Nat, Agree(s, r, 2 * m + 1), NEW j \in 1..m
  PROVE  RecordOf(r[2 * j]) = RecordOf(s[2 * j])
<1>1. 2 * j \in 1..(2 * m + 1)
  OBVIOUS
<1>. QED
  BY <1>1 DEF Agree, RecordOf

(* Nothing is accepted and nothing returns: what is above a common part of *)
(* two stacks is no call of a sink ...                                     *)
LEMMA FlightKept ==
  ASSUME NEW s \in Seq(Frame), NEW r \in Seq(Frame), NEW n, Agree(s, r, n),
         Alternating(s), Alternating(r), NoneOnTop(s, n), NoneOnTop(r, n)
  PROVE  InFlight(r) = InFlight(s)
<1>1. PICK m \in Nat : n = 2 * m + 1
  BY HalfOf
<1>2. /\ InFlight(s) \in Seq(Record) /\ Len(InFlight(s)) = m
      /\ \A j \in 1..m : InFlight(s)[j] = RecordOf(s[2 * j])
  BY <1>1, FlightBelow
<1>3. /\ InFlight(r) \in Seq(Record) /\ Len(InFlight(r)) = m
      /\ \A j \in 1..m : InFlight(r)[j] = RecordOf(r[2 * j])
  BY <1>1, FlightBelow
<1>4. \A j \in 1..m : RecordOf(r[2 * j]) = RecordOf(s[2 * j])
  BY <1>1, AgreeRecords
<1>. QED
  BY <1>2, <1>3, <1>4, SeqEqual

(* ... or the same call in both. *)
LEMMA FlightGoesOn ==
  ASSUME NEW s \in Seq(Frame), NEW r \in Seq(Frame), NEW n, Agree(s, r, n),
         Alternating(s), Alternating(r), OneOnTop(s, n), OneOnTop(r, n),
         RecordOf(r[n + 1]) = RecordOf(s[n + 1])
  PROVE  InFlight(r) = InFlight(s)
<1>1. PICK m \in Nat : n = 2 * m + 1
  BY HalfOf
<1>2. /\ InFlight(s) \in Seq(Record) /\ Len(InFlight(s)) = m + 1
      /\ \A j \in 1..(m + 1) : InFlight(s)[j] = RecordOf(s[2 * j])
  BY <1>1, FlightAbove
<1>3. /\ InFlight(r) \in Seq(Record) /\ Len(InFlight(r)) = m + 1
      /\ \A j \in 1..(m + 1) : InFlight(r)[j] = RecordOf(r[2 * j])
  BY <1>1, FlightAbove
<1>4. \A j \in 1..m : RecordOf(r[2 * j]) = RecordOf(s[2 * j])
  BY <1>1, AgreeRecords
<1>5. RecordOf(r[2 * (m + 1)]) = RecordOf(s[2 * (m + 1)])
  <2>1. 2 * (m + 1) = n + 1
    BY <1>1
  <2>. QED
    BY <2>1
<1>6. \A j \in 1..(m + 1) : j \in 1..m \/ j = m + 1
  OBVIOUS
<1>7. \A j \in 1..(m + 1) : InFlight(r)[j] = InFlight(s)[j]
  BY <1>2, <1>3, <1>4, <1>5, <1>6
<1>. QED
  BY <1>2, <1>3, <1>7, SeqEqual

(* A record is accepted. *)
LEMMA FlightBegins ==
  ASSUME NEW s \in Seq(Frame), NEW r \in Seq(Frame), NEW n, Agree(s, r, n),
         Alternating(s), Alternating(r),
         NoneOnTop(s, n), Len(r) = n + 1, r[n + 1].pc = "call"
  PROVE  InFlight(r) = Append(InFlight(s), RecordOf(r[n + 1]))
<1> DEFINE x == RecordOf(r[n + 1])
<1>0. PICK m \in Nat : n = 2 * m + 1
  BY HalfOf
<1>2. /\ InFlight(s) \in Seq(Record) /\ Len(InFlight(s)) = m
      /\ \A j \in 1..m : InFlight(s)[j] = RecordOf(s[2 * j])
  BY <1>0, FlightBelow
<1>3. /\ InFlight(r) \in Seq(Record) /\ Len(InFlight(r)) = m + 1
      /\ \A j \in 1..(m + 1) : InFlight(r)[j] = RecordOf(r[2 * j])
  BY <1>0, FlightAbove DEF OneOnTop
<1>4. \A j \in 1..m : RecordOf(r[2 * j]) = RecordOf(s[2 * j])
  BY <1>0, AgreeRecords
<1>5. 2 * (m + 1) = n + 1 /\ m + 1 \in 1..(m + 1)
  BY <1>0
<1>6. InFlight(r)[m + 1] = x /\ x \in Record
  BY <1>3, <1>5, ElementOfSeq
<1> HIDE DEF x
<1>7. /\ Append(InFlight(s), x) \in Seq(Record)
      /\ Len(Append(InFlight(s), x)) = m + 1
      /\ \A j \in 1..m : Append(InFlight(s), x)[j] = InFlight(s)[j]
      /\ Append(InFlight(s), x)[m + 1] = x
  BY <1>2, <1>6, AppendProperties
<1>8. \A j \in 1..(m + 1) : InFlight(r)[j] = Append(InFlight(s), x)[j]
  <2> SUFFICES ASSUME NEW j \in 1..(m + 1)
               PROVE  InFlight(r)[j] = Append(InFlight(s), x)[j]
    OBVIOUS
  <2>1. CASE j \in 1..m
    BY <1>2, <1>3, <1>4, <1>7, <2>1
  <2>2. CASE j = m + 1
    BY <1>6, <1>7, <2>2
  <2>. QED
    BY <1>2, <2>1, <2>2
<1>9. InFlight(r) = Append(InFlight(s), x)
  BY <1>3, <1>7, <1>8, SeqEqual
<1>. QED
  BY <1>9 DEF x

(* A sink is left, and with it the call that called it. *)
LEMMA FlightEnds ==
  ASSUME NEW s \in Seq(Frame), NEW r \in Seq(Frame), NEW n, Agree(s, r, n),
         Alternating(s), Alternating(r), Len(s) = n + 2, Len(r) = n
  PROVE  /\ InFlight(s) # << >>
         /\ InFlight(r) = SubSeq(InFlight(s), 1, Len(InFlight(s)) - 1)
<1>0. PICK m \in Nat : n = 2 * m + 1
  BY HalfOf
<1>2. /\ InFlight(s) \in Seq(Record) /\ Len(InFlight(s)) = m + 1
      /\ \A j \in 1..(m + 1) : InFlight(s)[j] = RecordOf(s[2 * j])
  BY <1>0, FlightAbove DEF OneOnTop
<1>3. /\ InFlight(r) \in Seq(Record) /\ Len(InFlight(r)) = m
      /\ \A j \in 1..m : InFlight(r)[j] = RecordOf(r[2 * j])
  BY <1>0, FlightBelow DEF NoneOnTop
<1>4. \A j \in 1..m : RecordOf(r[2 * j]) = RecordOf(s[2 * j])
  BY <1>0, AgreeRecords
<1>5. /\ SubSeq(InFlight(s), 1, m) \in Seq(Record)
      /\ Len(SubSeq(InFlight(s), 1, m)) = m
      /\ \A j \in 1..m : SubSeq(InFlight(s), 1, m)[j] = InFlight(s)[j]
  <2>1. \A j \in 1..m : InFlight(s)[j] \in Record
    BY <1>2, ElementOfSeq
  <2>. QED
    BY <1>2, <2>1, SubSeqProperties
<1>6. InFlight(r) = SubSeq(InFlight(s), 1, m)
  <2>1. ASSUME NEW j \in 1..m PROVE InFlight(r)[j] = SubSeq(InFlight(s), 1, m)[j]
    <3>1. InFlight(r)[j] = RecordOf(r[2 * j])
      BY <1>3
    <3>2. InFlight(s)[j] = RecordOf(s[2 * j])
      BY <1>2
    <3>3. SubSeq(InFlight(s), 1, m)[j] = InFlight(s)[j]
      BY <1>5
    <3>. QED
      BY <1>4, <3>1, <3>2, <3>3
  <2>. QED
    BY <1>3, <1>5, <2>1, SeqEqual
<1>. QED
  BY <1>2, <1>6, EmptySeq

(* The seven ways in which an action changes a stack. *)

LEMMA TopParity ==
  ASSUME NEW s \in Seq(Frame), s # << >>, Alternating(s)
  PROVE  /\ Len(s) \in Nat /\ Len(s) >= 1
         /\ s[Len(s)].fn = "body" => Len(s) % 2 = 1 /\ s[Len(s)].pc = "run"
         /\ s[Len(s)].fn # "body" =>
              /\ (Len(s) - 1) \in Nat /\ (Len(s) - 1) % 2 = 1
              /\ s[Len(s)].pc # "in_sink" /\ s[Len(s)].guards = << >>
<1>1. Len(s) \in Nat /\ Len(s) >= 1
  BY EmptySeq
<1>2. Len(s) \in 1..Len(s)
  BY <1>1
<1>3. /\ s[Len(s)].fn = "body" <=> Len(s) % 2 = 1
      /\ s[Len(s)].fn = "body" <=> s[Len(s)].pc = "run"
      /\ s[Len(s)].fn # "body" => s[Len(s)].guards = << >>
      /\ s[Len(s)].fn # "body" => (s[Len(s)].pc = "in_sink" <=> Len(s) < Len(s))
  BY <1>2 DEF Alternating
<1>4. Len(s) % 2 # 1 => (Len(s) - 1) % 2 = 1
  BY <1>1
<1>. QED
  BY <1>1, <1>3, <1>4

LEMMA PushAgrees ==
  ASSUME NEW s \in Seq(Frame), s # << >>, Alternating(s), s[Len(s)].fn = "body",
         NEW f \in Frame, f.fn # "body", f.guards = << >>, f.pc \notin {"run", "in_sink", "call"}
  PROVE  /\ Append(s, f) \in Seq(Frame)
         /\ Alternating(Append(s, f)) /\ InFlight(Append(s, f)) = InFlight(s)
<1> DEFINE r == Append(s, f)
           n == Len(s)
<1>1. n \in Nat /\ n >= 1 /\ n % 2 = 1
  BY TopParity
<1>2. r \in Seq(Frame) /\ Len(r) = n + 1 /\ r[n + 1] = f /\ \A k \in 1..n : r[k] = s[k]
  BY AppendProperties
<1> HIDE DEF r
<1>3. Agree(s, r, n)
  BY <1>1, <1>2 DEF Agree
<1>4. Alternating(r)
  BY <1>1, <1>2, <1>3, AgreeAlternating
<1>5. InFlight(r) = InFlight(s)
  BY <1>2, <1>3, <1>4, FlightKept DEF NoneOnTop
<1>. QED
  BY <1>2, <1>4, <1>5 DEF r

LEMMA PopAgrees ==
  ASSUME NEW s \in Seq(Frame), s # << >>, Alternating(s), s[Len(s)].fn # "body",
         s[Len(s)].pc # "call"
  PROVE  LET r == SubSeq(s, 1, Len(s) - 1)
         IN  /\ r \in Seq(Frame) /\ Alternating(r) /\ InFlight(r) = InFlight(s)
<1> DEFINE n == Len(s) - 1
           r == SubSeq(s, 1, n)
<1>1. n \in Nat /\ n % 2 = 1 /\ Len(s) = n + 1 /\ Len(s) \in Nat
  BY TopParity
<1>2. r \in Seq(Frame) /\ Len(r) = n /\ \A k \in 1..n : r[k] = s[k]
  <2>1. \A k \in 1..n : s[k] \in Frame
    BY <1>1, ElementOfSeq
  <2>. QED
    BY <1>1, <2>1, SubSeqProperties
<1> HIDE DEF r
<1>3. Agree(s, r, n)
  BY <1>1, <1>2 DEF Agree
<1>4. Alternating(r)
  BY <1>1, <1>2, <1>3, AgreeAlternating
<1>5. InFlight(r) = InFlight(s)
  BY <1>1, <1>2, <1>3, <1>4, FlightKept DEF NoneOnTop
<1>. QED
  BY <1>2, <1>4, <1>5 DEF r

LEMMA ReplaceAgrees ==
  ASSUME NEW s \in Seq(Frame), s # << >>, Alternating(s), s[Len(s)].fn # "body",
         s[Len(s)].pc # "call",
         NEW f \in Frame, f.fn # "body", f.guards = << >>, f.pc \notin {"run", "in_sink"}
  PROVE  LET r == [s EXCEPT ![Len(s)] = f]
         IN  /\ r \in Seq(Frame) /\ Alternating(r)
             /\ InFlight(r) = IF f.pc = "call" THEN Append(InFlight(s), RecordOf(f))
                                               ELSE InFlight(s)
<1> DEFINE n == Len(s) - 1
           r == [s EXCEPT ![Len(s)] = f]
<1>1. n \in Nat /\ n % 2 = 1 /\ Len(s) = n + 1 /\ Len(s) \in Nat
  BY TopParity
<1>2. r \in Seq(Frame) /\ Len(r) = n + 1 /\ r[n + 1] = f /\ \A k \in 1..n : r[k] = s[k]
  <2>1. Len(s) \in 1..Len(s)
    BY <1>1
  <2>. QED
    BY <1>1, <2>1, ExceptSeq
<1> HIDE DEF r
<1>3. Agree(s, r, n)
  BY <1>1, <1>2 DEF Agree
<1>4. Alternating(r)
  BY <1>1, <1>2, <1>3, AgreeAlternating
<1>5. NoneOnTop(s, n)
  BY <1>1 DEF NoneOnTop
<1>6. f.pc # "call" => InFlight(r) = InFlight(s)
  BY <1>2, <1>3, <1>4, <1>5, FlightKept DEF NoneOnTop
<1>7. f.pc = "call" => InFlight(r) = Append(InFlight(s), RecordOf(f))
  BY <1>2, <1>3, <1>4, <1>5, FlightBegins
<1>. QED
  BY <1>2, <1>4, <1>6, <1>7 DEF r

LEMMA LeaveAgrees ==
  ASSUME NEW s \in Seq(Frame), s # << >>, Alternating(s), s[Len(s)].fn = "body", Len(s) > 1
  PROVE  LET r == SubSeq(s, 1, Len(s) - 2)
         IN  /\ r \in Seq(Frame) /\ Alternating(r) /\ InFlight(s) # << >>
             /\ InFlight(r) = SubSeq(InFlight(s), 1, Len(InFlight(s)) - 1)
<1> DEFINE n == Len(s) - 2
           r == SubSeq(s, 1, n)
<1>1. n \in Nat /\ n % 2 = 1 /\ Len(s) = n + 2 /\ Len(s) \in Nat
  BY TopParity
<1>2. r \in Seq(Frame) /\ Len(r) = n /\ \A k \in 1..n : r[k] = s[k]
  <2>1. \A k \in 1..n : s[k] \in Frame
    BY <1>1, ElementOfSeq
  <2>. QED
    BY <1>1, <2>1, SubSeqProperties
<1> HIDE DEF r
<1>3. Agree(s, r, n)
  BY <1>1, <1>2 DEF Agree
<1>4. Alternating(r)
  BY <1>1, <1>2, <1>3, AgreeAlternating
<1>5. InFlight(s) # << >> /\ InFlight(r) = SubSeq(InFlight(s), 1, Len(InFlight(s)) - 1)
  BY <1>1, <1>2, <1>3, <1>4, FlightEnds
<1>. QED
  BY <1>2, <1>4, <1>5 DEF r

(* A record's sink begins to run. *)
LEMMA SinkAgrees ==
  ASSUME NEW s \in Seq(Frame), s # << >>, Alternating(s), s[Len(s)].fn # "body",
         s[Len(s)].pc = "call",
         NEW f \in Frame, f.fn # "body", f.guards = << >>, f.pc = "in_sink",
         RecordOf(f) = RecordOf(s[Len(s)]),
         NEW b \in Frame, b.fn = "body", b.pc = "run"
  PROVE  LET r == Append(Append(SubSeq(s, 1, Len(s) - 1), f), b)
         IN  /\ r \in Seq(Frame) /\ Alternating(r) /\ InFlight(r) = InFlight(s)
<1> DEFINE n == Len(s) - 1
           q == SubSeq(s, 1, n)
           p == Append(q, f)
           r == Append(p, b)
<1>1. n \in Nat /\ n % 2 = 1 /\ Len(s) = n + 1 /\ Len(s) \in Nat
  BY TopParity
<1>2. q \in Seq(Frame) /\ Len(q) = n /\ \A k \in 1..n : q[k] = s[k]
  <2>1. \A k \in 1..n : s[k] \in Frame
    BY <1>1, ElementOfSeq
  <2>. QED
    BY <1>1, <2>1, SubSeqProperties
<1> HIDE DEF q
<1>3. p \in Seq(Frame) /\ Len(p) = n + 1 /\ p[n + 1] = f /\ \A k \in 1..n : p[k] = s[k]
  <2>1. /\ p \in Seq(Frame) /\ Len(p) = Len(q) + 1 /\ p[Len(q) + 1] = f
        /\ \A k \in 1..Len(q) : p[k] = q[k]
    BY <1>2, AppendProperties
  <2> HIDE DEF p
  <2>. QED
    BY <1>2, <2>1
<1> HIDE DEF p
<1>4. r \in Seq(Frame) /\ Len(r) = n + 2 /\ r[n + 2] = b /\ \A k \in 1..(n + 1) : r[k] = p[k]
  BY <1>1, <1>3, AppendProperties
<1> HIDE DEF r
<1>5. r[n + 1] = f /\ \A k \in 1..n : r[k] = s[k]
  BY <1>1, <1>3, <1>4
<1>6. Agree(s, r, n)
  BY <1>1, <1>4, <1>5 DEF Agree
<1>7. Alternating(r)
  BY <1>1, <1>4, <1>5, <1>6, AgreeAlternating
<1>8. OneOnTop(s, n) /\ OneOnTop(r, n)
  BY <1>1, <1>4 DEF OneOnTop
<1>9. RecordOf(r[n + 1]) = RecordOf(s[n + 1])
  BY <1>1, <1>5
<1>10. InFlight(r) = InFlight(s)
  BY <1>4, <1>6, <1>7, <1>8, <1>9, FlightGoesOn
<1>. QED
  BY <1>4, <1>7, <1>10 DEF r, p, q

(* A body b with other guards takes the place of the n-th frame, the       *)
(* innermost or the one below it, whose call goes; perhaps a call f comes. *)
LEMMA GuardAgrees ==
  ASSUME NEW s \in Seq(Frame), Alternating(s), NEW n \in 1..Len(s), s[n].fn = "body",
         Len(s) = n \/ (Len(s) = n + 1 /\ s[n + 1].pc # "call"),
         NEW b \in Frame, b.fn = s[n].fn, b.pc = s[n].pc, b.arg = s[n].arg, b.to = s[n].to
  PROVE  LET r == Append(SubSeq(s, 1, n - 1), b)
         IN  /\ r \in Seq(Frame) /\ Len(r) = n /\ r[n] = b
             /\ \A k \in 1..(n - 1) : r[k] = s[k]
             /\ Alternating(r) /\ InFlight(r) = InFlight(s)
<1> DEFINE q == SubSeq(s, 1, n - 1)
           r == Append(q, b)
<1>1. n \in Nat /\ n >= 1 /\ n - 1 \in Nat /\ n % 2 = 1 /\ Len(s) \in Nat
  BY DEF Alternating
<1>2. q \in Seq(Frame) /\ Len(q) = n - 1 /\ \A k \in 1..(n - 1) : q[k] = s[k]
  <2>1. \A k \in 1..(n - 1) : s[k] \in Frame
    BY <1>1, ElementOfSeq
  <2>. QED
    BY <1>1, <2>1, SubSeqProperties
<1> HIDE DEF q
<1>3. r \in Seq(Frame) /\ Len(r) = n /\ r[n] = b /\ \A k \in 1..(n - 1) : r[k] = q[k]
  BY <1>1, <1>2, AppendProperties
<1> HIDE DEF r
<1>4. \A k \in 1..(n - 1) : r[k] = s[k]
  BY <1>1, <1>2, <1>3
<1>5. \A k \in 1..n : k = n \/ k \in 1..(n - 1)
  BY <1>1
<1>6. Agree(s, r, n)
  BY <1>1, <1>3, <1>4, <1>5 DEF Agree
<1>7. Alternating(r)
  BY <1>1, <1>3, <1>6, AgreeAlternating
<1>8. InFlight(r) = InFlight(s)
  BY <1>1, <1>3, <1>6, <1>7, FlightKept DEF NoneOnTop
<1>. QED
  BY <1>3, <1>4, <1>7, <1>8 DEF r, q

AllAlternate == \A t \in Threads : Alternating(stack[t])

Flight == [t \in Threads |-> InFlight(stack[t])]

AbstractStep == Abstract!Next \/ UNCHANGED <<level, sink, Flight>>

LEMMA OthersKeep ==
  ASSUME Inv, AllAlternate, NEW t \in Threads, NEW r, Alternating(r),
         stack' = [stack EXCEPT ![t] = r]
  PROVE  /\ AllAlternate'
         /\ Flight' = [Flight EXCEPT ![t] = InFlight(r)]
         /\ Flight[t] = InFlight(stack[t])
<1>1. stack'[t] = r /\ \A u \in Threads \ {t} : stack'[u] = stack[u]
  BY DEF Inv, TypeOK
<1>2. \A u \in Threads : Alternating(stack'[u])
  BY <1>1 DEF AllAlternate
<1>3. AllAlternate'
  BY <1>2 DEF AllAlternate, Alternating
<1>4. \A u \in Threads : InFlight(stack'[u]) = IF u = t THEN InFlight(r) ELSE InFlight(stack[u])
  BY <1>1
<1>5. Flight' = [u \in Threads |-> InFlight(stack'[u])]
  BY DEF Flight, InFlight
<1>6. Flight' = [Flight EXCEPT ![t] = InFlight(r)]
  BY <1>4, <1>5 DEF Flight
<1>. QED
  BY <1>3, <1>6 DEF Flight

(* A step that accepts nothing and finishes nothing: the level or the sink *)
(* changes, or nothing does.                                               *)
LEMMA KeptStep ==
  ASSUME Inv, Inv', AllAlternate, NEW t \in Threads, NEW r, Alternating(r),
         stack' = [stack EXCEPT ![t] = r], InFlight(r) = InFlight(stack[t]),
         level' = level \/ sink' = sink
  PROVE  AllAlternate' /\ AbstractStep
<1>1. /\ AllAlternate'
      /\ Flight' = [Flight EXCEPT ![t] = InFlight(r)] /\ Flight[t] = InFlight(stack[t])
  BY OthersKeep
<1>2. Flight' = Flight
  BY <1>1 DEF Flight
<1>3. level' \in Levels /\ sink' \in Sinks
  BY DEF Inv, TypeOK
<1>. QED
  BY <1>1, <1>2, <1>3
  DEF AbstractStep, Flight, Abstract!Next, Abstract!SetLevel, Abstract!SetSink

LEMMA TopIs ==
  ASSUME Inv, AllAlternate, NEW t \in Threads, stack[t] # << >>
  PROVE  /\ stack[t] \in Seq(Frame) /\ Alternating(stack[t])
         /\ Top(t) = stack[t][Len(stack[t])] /\ Top(t) \in Frame
         /\ Top(t).fn = "body" <=> Top(t).pc = "run"
         /\ Top(t).fn # "body" => Top(t).guards = << >>
<1>1. stack[t] \in Seq(Frame) /\ Len(stack[t]) \in 1..Len(stack[t])
      /\ Top(t) = stack[t][Len(stack[t])] /\ Top(t) \in Frame
  BY TopType
<1>. QED
  BY <1>1 DEF AllAlternate, Alternating

LEMMA PushStep ==
  ASSUME Inv, Inv', AllAlternate, NEW t \in Threads,
         NEW fn \in {"set_level", "set_sink", "log_at", "ScopedLevel"},
         NEW pc \in {"lock_level", "lock"}, NEW l \in Levels,
         NEW s \in Sinks \cup {NullSink},
         CallLibrary(t, CallOf(fn, pc, l, s))
  PROVE  AllAlternate' /\ AbstractStep
<1> DEFINE f == CallOf(fn, pc, l, s)
<1>1. /\ stack[t] # << >> /\ Top(t).fn = "body"
      /\ stack' = [stack EXCEPT ![t] = Append(stack[t], f)]
      /\ UNCHANGED <<level, sink>>
  BY DEF CallLibrary, InUserCode, AtTop, Push
<1>2. f \in Frame /\ f.fn = fn /\ f.pc = pc
  BY CallType
<1>3. f.guards = << >>
  BY DEF CallOf
<1> HIDE DEF f
<1>4. /\ Alternating(Append(stack[t], f))
      /\ InFlight(Append(stack[t], f)) = InFlight(stack[t])
  BY <1>1, <1>2, <1>3, TopIs, PushAgrees
<1>. QED
  BY <1>1, <1>4, KeptStep

LEMMA PopStep ==
  ASSUME Inv, Inv', AllAlternate, NEW t \in Threads, stack[t] # << >>,
         Top(t).pc \in {"read_level", "critical"}, Pop(t),
         level' = level \/ sink' = sink
  PROVE  AllAlternate' /\ AbstractStep
<1>1. stack' = [stack EXCEPT ![t] = Below(t)]
  BY DEF Pop
<1>2. Alternating(Below(t)) /\ InFlight(Below(t)) = InFlight(stack[t])
  BY TopIs, PopAgrees DEF Below
<1>. QED
  BY <1>1, <1>2, KeptStep

LEMMA ReplaceStep ==
  ASSUME Inv, Inv', AllAlternate, NEW t \in Threads, stack[t] # << >>,
         Top(t).pc \in {"lock_level", "lock", "read_level", "critical"},
         NEW f \in Frame, f.fn # "body", f.guards = << >>,
         f.pc \in {"read_level", "lock", "critical"}, ReplaceTop(t, f),
         UNCHANGED <<level, sink>>
  PROVE  AllAlternate' /\ AbstractStep
<1> DEFINE r == [stack[t] EXCEPT ![Len(stack[t])] = f]
<1>1. stack' = [stack EXCEPT ![t] = r]
  BY DEF ReplaceTop
<1>2. Alternating(r) /\ InFlight(r) = InFlight(stack[t])
  BY TopIs, ReplaceAgrees
<1> HIDE DEF r
<1>. QED
  BY <1>1, <1>2, KeptStep

LEMMA LockStep ==
  ASSUME Inv, Inv', AllAlternate, NEW t \in Threads, NEW from \in {"lock_level", "lock"},
         NEW to \in {"read_level", "critical"}, Lock(t, from, to)
  PROVE  AllAlternate' /\ AbstractStep
<1> DEFINE f == [Top(t) EXCEPT !.pc = to]
<1>1. /\ stack[t] # << >> /\ Top(t).pc = from /\ ReplaceTop(t, f)
      /\ UNCHANGED <<level, sink>>
  BY DEF Lock
<1>2. f \in Frame /\ f.fn = Top(t).fn /\ f.pc = to /\ f.guards = Top(t).guards
  BY <1>1, TopIs DEF Frame
<1>3. f.fn # "body" /\ f.guards = << >>
  BY <1>1, <1>2, TopIs
<1> HIDE DEF f
<1>. QED
  BY <1>1, <1>2, <1>3, ReplaceStep

LEMMA LeaveStep ==
  ASSUME Inv, Inv', AllAlternate, NEW t \in Threads, AtTop(t, {"body"}, "run"), LeaveSink(t)
  PROVE  AllAlternate' /\ AbstractStep
<1> DEFINE r == SubSeq(stack[t], 1, Len(stack[t]) - 2)
<1>1. /\ stack[t] # << >> /\ Top(t).fn = "body" /\ Len(stack[t]) > 1
      /\ stack' = [stack EXCEPT ![t] = r] /\ UNCHANGED <<level, sink>>
  BY DEF LeaveSink, AtTop
<1>2. /\ Alternating(r) /\ InFlight(stack[t]) # << >>
      /\ InFlight(r) = SubSeq(InFlight(stack[t]), 1, Len(InFlight(stack[t])) - 1)
  BY <1>1, TopIs, LeaveAgrees
<1> HIDE DEF r
<1>3. /\ AllAlternate'
      /\ Flight' = [Flight EXCEPT ![t] = InFlight(r)] /\ Flight[t] = InFlight(stack[t])
  BY <1>1, <1>2, OthersKeep
<1>4. Abstract!Finish(t)
  BY <1>1, <1>2, <1>3 DEF Abstract!Finish, Flight
<1>. QED
  BY <1>3, <1>4 DEF AbstractStep, Abstract!Next

LEMMA AcceptStep ==
  ASSUME Inv, Inv', AllAlternate, NEW t \in Threads, EmitTakesSink(t)
  PROVE  AllAlternate' /\ AbstractStep
<1> DEFINE f == [Top(t) EXCEPT !.pc = "call", !.to = sink]
           r == [stack[t] EXCEPT ![Len(stack[t])] = f]
<1>1. /\ stack[t] # << >> /\ Top(t).fn = "log_at" /\ Top(t).pc = "critical"
      /\ Top(t).arg >= level /\ stack' = [stack EXCEPT ![t] = r]
      /\ UNCHANGED <<level, sink>>
  BY DEF EmitTakesSink, AtTop, ReplaceTop
<1>2. Top(t) \in Frame /\ Top(t).guards = << >> /\ sink \in Sinks
  BY <1>1, TopIs DEF Inv, TypeOK
<1>3. /\ f \in Frame /\ f.fn = "log_at" /\ f.pc = "call" /\ f.guards = << >>
      /\ f.arg = Top(t).arg /\ f.to = sink /\ Top(t).arg \in Levels
  BY <1>1, <1>2 DEF Frame
<1> HIDE DEF f
<1>4. Alternating(r) /\ InFlight(r) = Append(InFlight(stack[t]), RecordOf(f))
  BY <1>1, <1>3, TopIs, ReplaceAgrees
<1> HIDE DEF r
<1>5. /\ AllAlternate'
      /\ Flight' = [Flight EXCEPT ![t] = InFlight(r)] /\ Flight[t] = InFlight(stack[t])
  BY <1>1, <1>4, OthersKeep
<1>6. RecordOf(f) = [level |-> Top(t).arg, sink |-> sink]
  BY <1>3 DEF RecordOf
<1>7. Flight' = [Flight EXCEPT ![t] = Append(@, [level |-> Top(t).arg, sink |-> sink])]
  BY <1>4, <1>5, <1>6
<1>8. Abstract!Accept(t)
  BY <1>1, <1>3, <1>7 DEF Abstract!Accept, Flight
<1>. QED
  BY <1>5, <1>8 DEF AbstractStep, Abstract!Next

LEMMA ClosingTypes ==
  ASSUME Inv, NEW t \in Threads, stack[t] # << >>, Top(t).guards # << >>
  PROVE  LET open == Top(t).guards
         IN  /\ CallOf("set_level", "lock", open[Len(open)].previous, NullSink) \in Frame
             /\ [Top(t) EXCEPT !.guards = SubSeq(open, 1, Len(open) - 1)] \in Frame
             /\ open \in Seq(Guard) /\ Len(open) \in Nat /\ Len(open) > 0
<1> DEFINE open == Top(t).guards
<1>1. open \in Seq(Guard) /\ Len(open) \in Nat /\ Len(open) > 0
  BY TopType, LenProperties, EmptySeq DEF Frame
<1>2. open[Len(open)].previous \in Levels
  <2>1. open[Len(open)] \in Guard
    BY <1>1, ElementOfSeq
  <2>. QED
    BY <2>1 DEF Guard
<1>3. CallOf("set_level", "lock", open[Len(open)].previous, NullSink) \in Frame
  BY <1>2, CallType
<1>4. SubSeq(open, 1, Len(open) - 1) \in Seq(Guard)
  <2>1. \A k \in 1..(Len(open) - 1) : open[k] \in Guard
    BY <1>1, ElementOfSeq
  <2>. QED
    BY <1>1, <2>1, SubSeqProperties
<1>5. [Top(t) EXCEPT !.guards = SubSeq(open, 1, Len(open) - 1)] \in Frame
  BY <1>4, TopType, GuardsType
<1>. QED
  BY <1>1, <1>3, <1>5

LEMMA CloseGuardStep ==
  ASSUME Inv, Inv', AllAlternate, NEW t \in Threads, CloseGuard(t)
  PROVE  AllAlternate' /\ AbstractStep
<1> DEFINE open == Top(t).guards
           f == CallOf("set_level", "lock", open[Len(open)].previous, NullSink)
           b == [Top(t) EXCEPT !.guards = SubSeq(open, 1, Len(open) - 1)]
           r == Append(Below(t), b)
<1>1. /\ stack[t] # << >> /\ Top(t).fn = "body" /\ open # << >>
      /\ stack' = [stack EXCEPT ![t] = Append(r, f)]
      /\ UNCHANGED <<level, sink>>
  BY DEF CloseGuard, AtTop
<1>2. b \in Frame /\ f \in Frame
  BY ClosingTypes, <1>1
<1>3. /\ b.fn = Top(t).fn /\ b.pc = Top(t).pc /\ b.arg = Top(t).arg /\ b.to = Top(t).to
      /\ f.fn = "set_level" /\ f.pc = "lock" /\ f.guards = << >>
  BY <1>1, TopIs DEF CallOf, Frame
<1>4. /\ r \in Seq(Frame) /\ Len(r) = Len(stack[t]) /\ r[Len(stack[t])] = b
      /\ Alternating(r) /\ InFlight(r) = InFlight(stack[t])
  <2> DEFINE s == stack[t]
             n == Len(s)
  <2>1. s \in Seq(Frame) /\ Alternating(s) /\ n \in 1..Len(s) /\ Top(t) = s[n]
    BY <1>1, TopIs, TopType
  <2>2. r = Append(SubSeq(s, 1, n - 1), b)
    BY DEF Below
  <2>3. n = Len(stack[t]) /\ InFlight(stack[t]) = InFlight(s)
    OBVIOUS
  <2>4. Len(s) = n \/ (Len(s) = n + 1 /\ s[n + 1].pc # "call")
    OBVIOUS
  <2> HIDE DEF b, f, r, s, n
  <2>5. /\ s[n].fn = "body" /\ b.fn = s[n].fn /\ b.pc = s[n].pc
        /\ b.arg = s[n].arg /\ b.to = s[n].to /\ b \in Frame
    BY <1>1, <1>2, <1>3, <2>1
  <2>6. /\ r \in Seq(Frame) /\ Len(r) = n /\ r[n] = b
        /\ Alternating(r) /\ InFlight(r) = InFlight(s)
    BY <2>1, <2>2, <2>4, <2>5, GuardAgrees
  <2>. QED
    BY <2>3, <2>6
<1> HIDE DEF b, f, r
<1>5. r # << >> /\ r[Len(r)].fn = "body"
  BY <1>1, <1>3, <1>4, TopType, EmptySeq
<1>6. Alternating(Append(r, f)) /\ InFlight(Append(r, f)) = InFlight(stack[t])
  BY <1>2, <1>3, <1>4, <1>5, PushAgrees
<1>. QED
  BY <1>1, <1>6, KeptStep

LEMMA OddPositive == ASSUME NEW i \in Nat, i % 2 = 1 PROVE i >= 1
OBVIOUS

LEMMA OpenGuardStep ==
  ASSUME Inv, Inv', AllAlternate, NEW t \in Threads, SetGuardLevel(t)
  PROVE  AllAlternate' /\ AbstractStep
<1> DEFINE n == Len(stack[t]) - 1
           g == [previous |-> Top(t).previous, set |-> Top(t).arg]
           b == [stack[t][n] EXCEPT !.guards = Append(@, g)]
           r == Append(SubSeq(stack[t], 1, n - 1), b)
<1>1. /\ stack[t] # << >> /\ Top(t).fn = "ScopedLevel" /\ Top(t).pc = "critical"
      /\ stack' = [stack EXCEPT ![t] = r] /\ UNCHANGED sink
  BY DEF SetGuardLevel, AtTop
<1>2. stack[t] \in Seq(Frame) /\ Alternating(stack[t]) /\ Len(stack[t]) = n + 1
      /\ n \in 1..Len(stack[t]) /\ stack[t][n].fn = "body" /\ stack[t][n] \in Frame
  <2>1. stack[t] \in Seq(Frame) /\ Alternating(stack[t]) /\ n \in Nat /\ n % 2 = 1
        /\ Len(stack[t]) \in Nat
    BY <1>1, TopIs, TopParity
  <2>2. n >= 1
    BY <2>1, OddPositive
  <2>3. n \in 1..Len(stack[t]) /\ Len(stack[t]) = n + 1
    BY <2>1, <2>2
  <2>4. stack[t][n] \in Frame
    BY <2>1, <2>3, ElementOfSeq
  <2> HIDE DEF n
  <2>. QED
    BY <2>1, <2>3, <2>4 DEF Alternating
<1>3. g \in Guard
  BY <1>1, TopIs DEF Frame, Guard
<1>4. /\ b \in Frame /\ b.fn = stack[t][n].fn /\ b.pc = stack[t][n].pc
      /\ b.arg = stack[t][n].arg /\ b.to = stack[t][n].to
  <2> HIDE DEF g, n
  <2>1. Append(stack[t][n].guards, g) \in Seq(Guard)
    BY <1>2, <1>3 DEF Frame
  <2>. QED
    BY <1>2, <2>1 DEF Frame
<1> HIDE DEF b, n
<1>5. Alternating(r) /\ InFlight(r) = InFlight(stack[t])
  <2>1. stack[t][n + 1].pc # "call"
    BY <1>1, <1>2, TopIs
  <2>. QED
    BY <1>2, <1>4, <2>1, GuardAgrees
<1> HIDE DEF r
<1>. QED
  BY <1>1, <1>5, KeptStep

LEMMA CallSinkStep ==
  ASSUME Inv, Inv', AllAlternate, NEW t \in Threads, EmitCallsSink(t)
  PROVE  AllAlternate' /\ AbstractStep
<1> DEFINE f == [Top(t) EXCEPT !.pc = "in_sink"]
           b == Body(f.to)
           r == Append(Append(Below(t), f), b)
<1>1. /\ stack[t] # << >> /\ Top(t).fn = "log_at" /\ Top(t).pc = "call"
      /\ stack' = [stack EXCEPT ![t] = r] /\ UNCHANGED <<level, sink>>
  BY DEF EmitCallsSink, AtTop
<1>2. Top(t) \in Frame /\ Top(t).guards = << >>
  BY <1>1, TopIs
<1>3. /\ f \in Frame /\ f.fn = "log_at" /\ f.pc = "in_sink" /\ f.guards = << >>
      /\ f.arg = Top(t).arg /\ f.to = Top(t).to /\ f.to \in Sinks \cup {NullSink}
  BY <1>1, <1>2 DEF Frame
<1> HIDE DEF f
<1>4. b \in Frame /\ b.fn = "body" /\ b.pc = "run"
  BY <1>3, BodyType
<1> HIDE DEF b
<1>5. RecordOf(f) = RecordOf(Top(t))
  BY <1>3 DEF RecordOf
<1>6. Alternating(r) /\ InFlight(r) = InFlight(stack[t])
  <2> DEFINE s == stack[t]
  <2>1. /\ s \in Seq(Frame) /\ s # << >> /\ Alternating(s)
        /\ s[Len(s)].fn # "body" /\ s[Len(s)].pc = "call"
        /\ RecordOf(f) = RecordOf(s[Len(s)])
    BY <1>1, <1>5, TopIs
  <2>2. r = Append(Append(SubSeq(s, 1, Len(s) - 1), f), b)
    BY DEF Below
  <2> HIDE DEF s, r
  <2>3. Alternating(r) /\ InFlight(r) = InFlight(s)
    BY <1>3, <1>4, <2>1, <2>2, SinkAgrees
  <2>. QED
    BY <2>3 DEF s
<1> HIDE DEF r
<1>. QED
  BY <1>1, <1>6, KeptStep

LEMMA EndStep ==
  ASSUME Inv, Inv', AllAlternate, NEW t \in Threads, ThreadEnds(t)
  PROVE  AllAlternate' /\ AbstractStep
<1>1. /\ stack[t] # << >> /\ Top(t).fn = "body" /\ Len(stack[t]) = 1
      /\ stack' = [stack EXCEPT ![t] = Below(t)] /\ UNCHANGED <<level, sink>>
  BY DEF ThreadEnds, InUserCode, AtTop, Pop
<1>2. Below(t) = << >>
  BY <1>1, SubSeqEmpty DEF Below
<1>3. InFlight(stack[t]) \in Seq(Record) /\ Len(InFlight(stack[t])) = 0
  <2>1. NoneOnTop(stack[t], 1) /\ 1 = 2 * 0 + 1 /\ 0 \in Nat
    BY <1>1 DEF NoneOnTop
  <2>. QED
    BY <1>1, <2>1, TopIs, FlightBelow
<1>4. InFlight(stack[t]) = InFlight(<< >>)
  BY <1>3, EmptySeq, NoFlight
<1>5. Alternating(<< >>)
  BY EmptySeq DEF Alternating
<1>. QED
  BY <1>1, <1>2, <1>4, <1>5, KeptStep

LEMMA UserCodeImplements ==
  ASSUME Inv, Inv', AllAlternate, NEW t \in Threads, UserCode(t)
  PROVE  AllAlternate' /\ AbstractStep
<1>0. NullSink \in Sinks \cup {NullSink} /\ Warning \in Levels /\ Records \subseteq Levels
  BY LoggingAssumption
<1>1. CASE CallSetLevel(t)
  BY <1>0, <1>1, PushStep DEF CallSetLevel
<1>2. CASE CallSetSink(t)
  BY <1>0, <1>2, PushStep DEF CallSetSink
<1>3. CASE CallLog(t)
  BY <1>0, <1>3, PushStep DEF CallLog
<1>4. CASE OpenGuard(t)
  BY <1>0, <1>4, PushStep DEF OpenGuard
<1>5. CASE CloseGuard(t)
  BY <1>5, CloseGuardStep
<1>6. CASE ThreadEnds(t)
  BY <1>6, EndStep
<1>7. CASE SinkReturns(t)
  BY <1>7, LeaveStep DEF SinkReturns, InUserCode
<1>8. CASE UnwindSink(t)
  BY <1>8, LeaveStep DEF UnwindSink
<1>9. CASE SinkThrows(t) \/ Catch(t)
  BY <1>9 DEF SinkThrows, Catch, AllAlternate, AbstractStep, Flight
<1>. QED
  BY <1>1, <1>2, <1>3, <1>4, <1>5, <1>6, <1>7, <1>8, <1>9 DEF UserCode

LEMMA LibraryImplements ==
  ASSUME Inv, Inv', AllAlternate, NEW t \in Threads, Library(t)
  PROVE  AllAlternate' /\ AbstractStep
<1>1. CASE LockLevel(t)
  BY <1>1, LockStep DEF LockLevel
<1>2. CASE LockState(t)
  BY <1>2, LockStep DEF LockState
<1>3. CASE ReadLevelToLog(t)
  <2> DEFINE f == [Top(t) EXCEPT !.pc = "lock"]
  <2>1. /\ stack[t] # << >> /\ Top(t).fn = "log_at" /\ Top(t).pc = "read_level"
        /\ UNCHANGED <<level, sink>> /\ (ReplaceTop(t, f) \/ Pop(t))
    BY <1>3 DEF ReadLevelToLog, AtTop
  <2>2. f \in Frame /\ f.fn = "log_at" /\ f.pc = "lock" /\ f.guards = << >>
    BY <2>1, TopIs DEF Frame
  <2> HIDE DEF f
  <2>. QED
    BY <2>1, <2>2, ReplaceStep, PopStep
<1>4. CASE ReadLevelToGuard(t)
  <2> DEFINE f == [Top(t) EXCEPT !.pc = "lock", !.previous = level]
  <2>1. /\ stack[t] # << >> /\ Top(t).fn = "ScopedLevel" /\ Top(t).pc = "read_level"
        /\ UNCHANGED <<level, sink>> /\ ReplaceTop(t, f)
    BY <1>4 DEF ReadLevelToGuard, AtTop
  <2>2. f \in Frame /\ f.fn = "ScopedLevel" /\ f.pc = "lock" /\ f.guards = << >>
    BY <2>1, TopIs, Facts DEF Frame
  <2> HIDE DEF f
  <2>. QED
    BY <2>1, <2>2, ReplaceStep
<1>5. CASE SetLevel(t)
  BY <1>5, PopStep DEF SetLevel, AtTop
<1>6. CASE SetSink(t)
  BY <1>6, PopStep DEF SetSink, AtTop
<1>7. CASE SetGuardLevel(t)
  BY <1>7, OpenGuardStep
<1>8. CASE EmitDrops(t)
  BY <1>8, PopStep DEF EmitDrops, AtTop
<1>9. CASE EmitTakesSink(t)
  BY <1>9, AcceptStep
<1>10. CASE EmitCopyThrows(t)
  BY <1>10, PopStep DEF EmitCopyThrows, AtTop
<1>11. CASE EmitCallsSink(t)
  BY <1>11, CallSinkStep
<1>. QED
  BY <1>1, <1>2, <1>3, <1>4, <1>5, <1>6, <1>7, <1>8, <1>9, <1>10, <1>11 DEF Library

LEMMA StepImplements ==
  Inv /\ Inv' /\ AllAlternate /\ [Next]_vars => AllAlternate' /\ AbstractStep
<1> SUFFICES ASSUME Inv, Inv', AllAlternate, [Next]_vars PROVE AllAlternate' /\ AbstractStep
  OBVIOUS
<1>1. ASSUME NEW t \in Threads, Thread(t) PROVE AllAlternate' /\ AbstractStep
  BY <1>1, UserCodeImplements, LibraryImplements DEF Thread
<1>2. CASE UNCHANGED vars
  BY <1>2 DEF vars, AllAlternate, AbstractStep, Flight
<1>. QED
  BY <1>1, <1>2 DEF Next, Terminating

LEMMA InitImplements == Init => AllAlternate /\ Abstract!Init
<1> SUFFICES ASSUME Init PROVE AllAlternate /\ Abstract!Init
  OBVIOUS
<1> DEFINE s == <<Body(NullSink)>>
<1>1. /\ Body(NullSink).fn = "body" /\ Body(NullSink).pc = "run"
      /\ s \in Seq(Frame) /\ Len(s) = 1 /\ s[1] = Body(NullSink)
  BY BodyType
<1>2. Alternating(s)
  BY <1>1 DEF Alternating
<1>3. InFlight(s) = << >>
  <2>1. NoneOnTop(s, 1) /\ 1 = 2 * 0 + 1 /\ 0 \in Nat
    BY <1>1 DEF NoneOnTop
  <2>2. InFlight(s) \in Seq(Record) /\ Len(InFlight(s)) = 0
    BY <1>1, <1>2, <2>1, FlightBelow
  <2>. QED
    BY <2>2, EmptySeq
<1> HIDE DEF s
<1>4. stack = [t \in Threads |-> s] /\ level = Warning /\ sink = "default_sink"
  BY DEF Init, s
<1>5. AllAlternate
  BY <1>2, <1>4 DEF AllAlternate
<1>6. [t \in Threads |-> InFlight(stack[t])] = [t \in Threads |-> << >>]
  BY <1>3, <1>4
<1>. QED
  BY <1>4, <1>5, <1>6 DEF Abstract!Init, Warning

(* Every record is accepted or dropped at one instant, by the level and    *)
(* for the sink of that instant, whatever other threads do between the two *)
(* looks at the level and before the sink runs, and it is given up only    *)
(* when its sink has returned or thrown.                                   *)
THEOREM RecordsAcceptedAtomically == Spec => ImplementsSpec
<1>1. AbstractStep <=> [Abstract!Next]_<<level, sink, [t \in Threads |-> InFlight(stack[t])]>>
  BY DEF AbstractStep, Flight
<1>2. Init => AllAlternate /\ Abstract!Init
  BY InitImplements
<1>3. Inv /\ Inv' /\ AllAlternate /\ [Next]_vars => AllAlternate' /\ AbstractStep
  BY StepImplements
<1>. QED
  BY <1>1, <1>2, <1>3, Invariance, PTL DEF Spec, ImplementsSpec, Abstract!Spec

-----------------------------------------------------------------------------
(* Guards.  The level asked for under a frame is that of the innermost     *)
(* guard below it.                                                         *)

LEMMA GreatestExists ==
  ASSUME NEW n \in Nat, NEW T, T \subseteq 1..n, T # {}
  PROVE  \E m \in T : \A i \in T : i <= m
<1> DEFINE R == OpToRel(<, Nat)
           D == {i \in Nat : n - i \in T}
<1>1. IsWellFoundedOn(R, Nat)
  BY NatLessThanWellFounded
<1>2. \A y, z \in Nat : y < z => <<y, z>> \in R
  BY DEF OpToRel
<1> HIDE DEF R
<1>3. D \subseteq Nat /\ D # {}
  <2>1. PICK i \in T : TRUE
    OBVIOUS
  <2>2. n - i \in Nat /\ n - (n - i) = i
    BY <2>1
  <2>3. n - i \in D
    BY <2>1, <2>2
  <2>. QED
    BY <2>3
<1>4. PICK z \in D : \A y \in D : <<y, z>> \notin R
  BY <1>1, <1>3, WFMin
<1>5. z \in Nat /\ n - z \in T /\ \A y \in D : ~(y < z)
  BY <1>2, <1>3, <1>4, Zenon
<1>6. ASSUME NEW i \in T PROVE i <= n - z
  <2>1. n - i \in Nat /\ n - (n - i) = i
    BY <1>6
  <2>2. n - i \in D
    BY <1>6, <2>1
  <2>3. ~(n - i < z)
    BY <1>5, <2>2
  <2>. QED
    BY <1>5, <2>1, <2>3
<1>. QED
  BY <1>5, <1>6

LEMMA UnderNone ==
  ASSUME NEW s, NEW k \in Nat, \A m \in 1..(k - 1) : s[m].guards = << >>
  PROVE  LevelUnder(s, k) = Warning
BY DEF LevelUnder

LEMMA UnderTop ==
  ASSUME NEW s, NEW k \in Nat, NEW m \in 1..(k - 1), s[m].guards # << >>,
         \A i \in (m + 1)..(k - 1) : s[i].guards = << >>
  PROVE  LevelUnder(s, k) = s[m].guards[Len(s[m].guards)].set
<1> DEFINE G == {i \in 1..(k - 1) : s[i].guards # << >>}
           c == CHOOSE i \in G : \A j \in G : j <= i
<1>1. m \in G /\ \A j \in G : j <= m
  OBVIOUS
<1>2. c \in G /\ \A j \in G : j <= c
  BY <1>1
<1> HIDE DEF c
<1>3. c = m
  BY <1>1, <1>2
<1>4. G # {}
  BY <1>1
<1>5. LevelUnder(s, k) = s[c].guards[Len(s[c].guards)].set
  BY <1>4 DEF LevelUnder, c
<1>. QED
  BY <1>3, <1>5

LEMMA UnderCases ==
  ASSUME NEW s, NEW k \in Nat
  PROVE  \/ \A m \in 1..(k - 1) : s[m].guards = << >>
         \/ \E m \in 1..(k - 1) : /\ s[m].guards # << >>
                                  /\ \A i \in (m + 1)..(k - 1) : s[i].guards = << >>
<1> DEFINE G == {i \in 1..(k - 1) : s[i].guards # << >>}
<1>1. CASE G = {}
  BY <1>1
<1>2. CASE G # {}
  <2>1. G \subseteq 1..k
    OBVIOUS
  <2>2. PICK m \in G : \A i \in G : i <= m
    BY <1>2, <2>1, GreatestExists
  <2>3. ASSUME NEW i \in (m + 1)..(k - 1), s[i].guards # << >> PROVE FALSE
    <3>1. i \in G
      BY <2>3
    <3>. QED
      BY <2>2, <2>3, <3>1
  <2>. QED
    BY <2>2, <2>3
<1>. QED
  BY <1>1, <1>2

(* It depends on the guards below alone: those of the n outermost frames,  *)
(* when the frames from there to frame k of s, and to frame h of r, have   *)
(* none.                                                                   *)
SameUnder(s, k, r, h, n) ==
  /\ k \in Nat /\ h \in Nat /\ n \in Nat /\ n < k /\ n < h
  /\ \A m \in 1..n : r[m].guards = s[m].guards
  /\ \A m \in (n + 1)..(k - 1) : s[m].guards = << >>
  /\ \A m \in (n + 1)..(h - 1) : r[m].guards = << >>

LEMMA UnderSame ==
  ASSUME NEW s, NEW r, NEW k, NEW h, NEW n, SameUnder(s, k, r, h, n)
  PROVE  LevelUnder(r, h) = LevelUnder(s, k)
<1>. USE DEF SameUnder
<1>1. CASE \A m \in 1..(k - 1) : s[m].guards = << >>
  <2>1. \A m \in 1..(h - 1) : r[m].guards = << >>
    BY <1>1
  <2>. QED
    BY <1>1, <2>1, UnderNone
<1>2. CASE \E m \in 1..(k - 1) : /\ s[m].guards # << >>
                                 /\ \A i \in (m + 1)..(k - 1) : s[i].guards = << >>
  <2>1. PICK m \in 1..(k - 1) : /\ s[m].guards # << >>
                                /\ \A i \in (m + 1)..(k - 1) : s[i].guards = << >>
    BY <1>2
  <2>2. m \in 1..n
    BY <2>1
  <2>3. r[m].guards = s[m].guards /\ m \in 1..(h - 1)
    BY <2>2
  <2>4. \A i \in (m + 1)..(h - 1) : r[i].guards = << >>
    <3> SUFFICES ASSUME NEW i \in (m + 1)..(h - 1) PROVE r[i].guards = << >>
      OBVIOUS
    <3>1. CASE i <= n
      BY <2>1, <2>2, <3>1
    <3>2. CASE i > n
      BY <3>2
    <3>. QED
      BY <3>1, <3>2
  <2>5. LevelUnder(s, k) = s[m].guards[Len(s[m].guards)].set
    BY <2>1, UnderTop
  <2>6. LevelUnder(r, h) = r[m].guards[Len(r[m].guards)].set
    BY <2>1, <2>3, <2>4, UnderTop
  <2>. QED
    BY <2>3, <2>5, <2>6
<1>. QED
  BY <1>1, <1>2, UnderCases

LEMMA UnderBelow ==
  ASSUME NEW s, NEW r, NEW k \in Nat, k >= 1, \A m \in 1..(k - 1) : r[m].guards = s[m].guards
  PROVE  LevelUnder(r, k) = LevelUnder(s, k)
<1> DEFINE n == k - 1
<1>1. n \in Nat /\ n < k /\ \A i \in (n + 1)..(k - 1) : FALSE
  OBVIOUS
<1>2. \A i \in 1..n : r[i].guards = s[i].guards
  OBVIOUS
<1> HIDE DEF n
<1>3. SameUnder(s, k, r, k, n)
  BY <1>1, <1>2 DEF SameUnder
<1>. QED
  BY <1>3, UnderSame

(* Every guard of frame k remembers the level of the one it is inside of. *)
ChainedAt(s, k) ==
  \A j \in 1..Len(s[k].guards) :
    s[k].guards[j].previous = IF j = 1 THEN LevelUnder(s, k) ELSE s[k].guards[j - 1].set

Chained(s) == \A k \in 1..Len(s) : ChainedAt(s, k)

Asked(s) == LevelUnder(s, Len(s) + 1)

LEMMA ChainedBelow ==
  ASSUME NEW s, NEW r, NEW n \in Nat, \A m \in 1..n : r[m].guards = s[m].guards,
         NEW k \in 1..n, ChainedAt(s, k)
  PROVE  ChainedAt(r, k)
<1>1. \A m \in 1..(k - 1) : r[m].guards = s[m].guards
  OBVIOUS
<1>2. LevelUnder(r, k) = LevelUnder(s, k)
  BY <1>1, UnderBelow
<1>3. r[k].guards = s[k].guards
  OBVIOUS
<1>. QED
  BY <1>2, <1>3 DEF ChainedAt

LEMMA ChainedNone ==
  ASSUME NEW s, NEW k, s[k].guards = << >> PROVE ChainedAt(s, k)
BY EmptySeq DEF ChainedAt

(* Guards neither open nor close: two stacks have the same ones in their n *)
(* outermost frames, and none above.                                       *)
SameGuards(s, r, n) ==
  /\ n \in Nat /\ n <= Len(s) /\ n <= Len(r)
  /\ \A k \in 1..n : r[k].guards = s[k].guards
  /\ \A k \in (n + 1)..Len(s) : s[k].guards = << >>
  /\ \A k \in (n + 1)..Len(r) : r[k].guards = << >>

LEMMA SameGuardsNest ==
  ASSUME NEW s \in Seq(Frame), NEW r \in Seq(Frame), NEW n, SameGuards(s, r, n)
  PROVE  Asked(r) = Asked(s) /\ (Chained(s) => Chained(r))
<1>1. /\ n \in Nat /\ n <= Len(s) /\ n <= Len(r) /\ Len(s) \in Nat /\ Len(r) \in Nat
      /\ \A k \in 1..n : r[k].guards = s[k].guards
      /\ \A k \in (n + 1)..Len(s) : s[k].guards = << >>
      /\ \A k \in (n + 1)..Len(r) : r[k].guards = << >>
  BY DEF SameGuards
<1>2. Asked(r) = Asked(s)
  <2> DEFINE k == Len(s) + 1
             h == Len(r) + 1
  <2>1. /\ k \in Nat /\ h \in Nat /\ n < k /\ n < h
        /\ k - 1 = Len(s) /\ h - 1 = Len(r)
    BY <1>1
  <2> HIDE DEF k, h
  <2>2. SameUnder(s, k, r, h, n)
    BY <1>1, <2>1 DEF SameUnder
  <2>3. LevelUnder(r, h) = LevelUnder(s, k)
    BY <2>2, UnderSame
  <2>. QED
    BY <2>3 DEF Asked, k, h
<1>3. ASSUME Chained(s), NEW k \in 1..Len(r) PROVE ChainedAt(r, k)
  <2>1. CASE k \in 1..n
    <3>1. ChainedAt(s, k)
      BY <1>1, <1>3, <2>1 DEF Chained
    <3>. QED
      BY <1>1, <2>1, <3>1, ChainedBelow
  <2>2. CASE k \in (n + 1)..Len(r)
    BY <1>1, <2>2, ChainedNone
  <2>. QED
    BY <1>1, <1>3, <2>1, <2>2
<1>. QED
  BY <1>2, <1>3 DEF Chained

(* A guard opens: g is pushed on those of the body below the constructor,  *)
(* whose frame goes.                                                       *)
Opens(s, r, n, g) ==
  /\ n \in Nat /\ n >= 1 /\ Len(s) = n + 1 /\ Len(r) = n
  /\ \A k \in 1..(n - 1) : r[k].guards = s[k].guards
  /\ s[n + 1].guards = << >>
  /\ Len(r[n].guards) = Len(s[n].guards) + 1 /\ r[n].guards[Len(r[n].guards)] = g
  /\ \A j \in 1..Len(s[n].guards) : r[n].guards[j] = s[n].guards[j]

LEMMA GuardOpened ==
  ASSUME NEW s \in Seq(Frame), NEW r \in Seq(Frame), NEW n, NEW g, Opens(s, r, n, g),
         Chained(s), g.previous = Asked(s)
  PROVE  Chained(r) /\ Asked(r) = g.set
<1>. USE DEF Opens
<1> DEFINE old == s[n].guards
           new == r[n].guards
<1>1. s[n] \in Frame
  BY ElementOfSeq
<1>2. old \in Seq(Guard) /\ Len(old) \in Nat
  BY <1>1 DEF Frame
<1>3. /\ Len(new) = Len(old) + 1 /\ new[Len(old) + 1] = g /\ new # << >>
      /\ \A j \in 1..Len(old) : new[j] = old[j]
  BY <1>2, EmptySeq
<1>4. LevelUnder(r, n) = LevelUnder(s, n)
  BY UnderBelow
<1>5. ChainedAt(s, n)
  BY DEF Chained
<1>6. g.previous = IF old = << >> THEN LevelUnder(r, n) ELSE old[Len(old)].set
  <2> DEFINE h == n + 2
             m == n - 1
  <2>0. \A i \in (n + 1)..(h - 1) : i = n + 1
    OBVIOUS
  <2>1. h \in Nat /\ m \in Nat /\ m < n /\ m < h /\ n \in 1..(h - 1)
        /\ (\A i \in (m + 1)..(h - 1) : i = n \/ i = n + 1)
        /\ \A i \in (m + 1)..(n - 1) : FALSE
    OBVIOUS
  <2>2. Asked(s) = LevelUnder(s, h)
    BY DEF Asked
  <2>3. \A i \in 1..m : r[i].guards = s[i].guards
    OBVIOUS
  <2> HIDE DEF h, m
  <2>4. CASE old = << >>
    <3>1. \A i \in (m + 1)..(h - 1) : s[i].guards = << >>
      BY <2>1, <2>4
    <3>2. SameUnder(s, h, r, n, m)
      BY <2>1, <2>3, <3>1 DEF SameUnder
    <3>. QED
      BY <2>2, <2>4, <3>2, UnderSame
  <2>5. CASE old # << >>
    <3>1. \A i \in (n + 1)..(h - 1) : s[i].guards = << >>
      BY <2>0
    <3>2. LevelUnder(s, h) = old[Len(old)].set
      BY <2>1, <2>5, <3>1, UnderTop
    <3>. QED
      BY <2>2, <2>5, <3>2
  <2>. QED
    BY <2>4, <2>5
<1>7. ChainedAt(r, n)
  <2> SUFFICES ASSUME NEW j \in 1..Len(new)
               PROVE  new[j].previous = IF j = 1 THEN LevelUnder(r, n) ELSE new[j - 1].set
    BY DEF ChainedAt
  <2>1. CASE j \in 1..Len(old)
    <3>1. new[j] = old[j] /\ (j # 1 => new[j - 1] = old[j - 1])
      BY <1>2, <1>3, <2>1
    <3>. QED
      BY <1>4, <1>5, <2>1, <3>1 DEF ChainedAt
  <2>2. CASE j = Len(old) + 1
    <3>1. CASE old = << >>
      BY <1>3, <1>6, <2>2, <3>1, EmptySeq
    <3>2. CASE old # << >>
      <4>1. Len(old) \in 1..Len(old) /\ j # 1 /\ j - 1 = Len(old)
        BY <1>2, <2>2, <3>2, EmptySeq
      <4>. QED
        BY <1>3, <1>6, <2>2, <3>2, <4>1
    <3>. QED
      BY <3>1, <3>2
  <2>. QED
    BY <1>2, <1>3, <2>1, <2>2
<1>8. Chained(r)
  <2> SUFFICES ASSUME NEW k \in 1..n PROVE ChainedAt(r, k)
    BY DEF Chained
  <2>1. CASE k = n
    BY <1>7, <2>1
  <2>2. CASE k \in 1..(n - 1)
    <3> DEFINE m == n - 1
    <3>1. m \in Nat /\ k \in 1..m /\ \A i \in 1..m : r[i].guards = s[i].guards
      BY <2>2
    <3>2. ChainedAt(s, k)
      BY <2>2 DEF Chained
    <3> HIDE DEF m
    <3>. QED
      BY <3>1, <3>2, ChainedBelow
  <2>. QED
    BY <2>1, <2>2
<1>9. Asked(r) = g.set
  <2> DEFINE h == n + 1
  <2>1. h \in Nat /\ n \in 1..(h - 1) /\ \A i \in (n + 1)..(h - 1) : FALSE
    OBVIOUS
  <2>2. Asked(r) = LevelUnder(r, h)
    BY DEF Asked
  <2> HIDE DEF h
  <2>3. LevelUnder(r, h) = new[Len(new)].set
    BY <1>3, <2>1, UnderTop
  <2>. QED
    BY <1>3, <2>2, <2>3
<1>. QED
  BY <1>8, <1>9

(* A guard closes: the last of those of the innermost body goes, and a     *)
(* call of set_level comes, which has to restore what the guard remembers. *)
Closes(s, r, n) ==
  /\ n \in Nat /\ n >= 1 /\ Len(s) = n /\ Len(r) = n + 1
  /\ \A k \in 1..(n - 1) : r[k].guards = s[k].guards
  /\ s[n].guards # << >> /\ r[n + 1].guards = << >>
  /\ Len(r[n].guards) = Len(s[n].guards) - 1
  /\ \A j \in 1..Len(r[n].guards) : r[n].guards[j] = s[n].guards[j]

LEMMA GuardClosed ==
  ASSUME NEW s \in Seq(Frame), NEW r \in Seq(Frame), NEW n, Closes(s, r, n), Chained(s)
  PROVE  Chained(r) /\ Asked(r) = s[n].guards[Len(s[n].guards)].previous
<1>. USE DEF Closes
<1> DEFINE old == s[n].guards
           new == r[n].guards
<1>1. s[n] \in Frame
  BY ElementOfSeq
<1>2. old \in Seq(Guard) /\ Len(old) \in Nat /\ Len(old) >= 1
  BY <1>1, EmptySeq DEF Frame
<1>3. Len(new) = Len(old) - 1 /\ \A j \in 1..Len(new) : new[j] = old[j]
  OBVIOUS
<1> DEFINE count == Len(old)
<1>count. count = 1 \/ (/\ count - 1 >= 1 /\ count - 1 \in 1..(count - 1)
                     /\ count \in 1..count /\ count # 1)
  <2> count \in Nat /\ count >= 1
    BY <1>2
  <2> HIDE DEF count
  <2>. QED
    OBVIOUS
<1>4. LevelUnder(r, n) = LevelUnder(s, n)
  BY UnderBelow
<1>5. ChainedAt(s, n)
  BY DEF Chained
<1>6. ChainedAt(r, n)
  <2> SUFFICES ASSUME NEW j \in 1..Len(new)
               PROVE  new[j].previous = IF j = 1 THEN LevelUnder(r, n) ELSE new[j - 1].set
    BY DEF ChainedAt
  <2>1. j \in 1..Len(old) /\ new[j] = old[j] /\ (j # 1 => new[j - 1] = old[j - 1])
    BY <1>2, <1>3
  <2>. QED
    BY <1>4, <1>5, <2>1 DEF ChainedAt
<1>7. Chained(r)
  <2> SUFFICES ASSUME NEW k \in 1..(n + 1) PROVE ChainedAt(r, k)
    BY DEF Chained
  <2>1. CASE k = n
    BY <1>6, <2>1
  <2>2. CASE k \in 1..(n - 1)
    <3> DEFINE m == n - 1
    <3>1. m \in Nat /\ k \in 1..m /\ \A i \in 1..m : r[i].guards = s[i].guards
      BY <2>2
    <3>2. ChainedAt(s, k)
      BY <2>2 DEF Chained
    <3> HIDE DEF m
    <3>. QED
      BY <3>1, <3>2, ChainedBelow
  <2>3. CASE k = n + 1
    BY <2>3, ChainedNone
  <2>. QED
    BY <2>1, <2>2, <2>3
<1>8. Asked(r) = old[Len(old)].previous
  <2> DEFINE h == n + 2
             m == n - 1
  <2>0. \A i \in (n + 1)..(h - 1) : i = n + 1
    OBVIOUS
  <2>1. h \in Nat /\ m \in Nat /\ m < n /\ m < h /\ n \in 1..(h - 1)
        /\ (\A i \in (m + 1)..(h - 1) : i = n \/ i = n + 1)
        /\ \A i \in (m + 1)..(n - 1) : FALSE
    OBVIOUS
  <2>2. Asked(r) = LevelUnder(r, h)
    BY DEF Asked
  <2>3. \A i \in 1..m : r[i].guards = s[i].guards
    OBVIOUS
  <2> HIDE DEF h, m
  <2>4. CASE Len(old) = 1
    <3>1. new = << >>
      BY <1>1, <1>3, <2>4, ElementOfSeq, EmptySeq DEF Frame
    <3>2. \A i \in (m + 1)..(h - 1) : r[i].guards = << >>
      BY <2>1, <3>1
    <3>3. SameUnder(s, n, r, h, m)
      BY <2>1, <2>3, <3>2 DEF SameUnder
    <3>4. old[1].previous = LevelUnder(s, n)
      BY <1>5, <2>4 DEF ChainedAt
    <3>. QED
      BY <2>2, <2>4, <3>3, <3>4, UnderSame
  <2>5. CASE /\ Len(old) - 1 >= 1 /\ Len(old) - 1 \in 1..(Len(old) - 1)
             /\ Len(old) \in 1..Len(old) /\ Len(old) # 1
    <3>1. new # << >>
      BY <1>3, <2>5, EmptySeq
    <3>2. \A i \in (n + 1)..(h - 1) : r[i].guards = << >>
      BY <2>0
    <3>3. LevelUnder(r, h) = new[Len(new)].set
      BY <2>1, <3>1, <3>2, UnderTop
    <3>4. new[Len(new)] = old[Len(old) - 1]
      BY <1>3, <2>5
    <3>5. old[Len(old)].previous = old[Len(old) - 1].set
      BY <1>5, <2>5 DEF ChainedAt
    <3>. QED
      BY <2>2, <3>3, <3>4, <3>5
  <2>. QED
    BY <1>count, <2>4, <2>5
<1>. QED
  BY <1>7, <1>8

(* What the innermost frame says of the level l, when the guards ask for a: *)
(* a set_level call is about to restore it, the constructor of a guard has  *)
(* read it, and otherwise it is in force.                                   *)
TopNested(s, a, l) ==
  IF s # << >> /\ s[Len(s)].fn = "set_level"
  THEN s[Len(s)].arg = a
  ELSE /\ l = a
       /\ (s # << >> /\ s[Len(s)].fn = "ScopedLevel" /\ s[Len(s)].pc \in {"lock", "critical"}) =>
            s[Len(s)].previous = l

Nested(s, l) == Chained(s) /\ TopNested(s, Asked(s), l)

(* Frames that do not change the level: those of the other threads. *)
NoLevels(s) ==
  \A k \in 1..Len(s) : s[k].fn \notin {"set_level", "ScopedLevel"} /\ s[k].guards = << >>

LEMMA NestedKept ==
  ASSUME NEW s \in Seq(Frame), NEW r \in Seq(Frame), NEW n, SameGuards(s, r, n),
         NEW l, NEW h, Nested(s, l), TopNested(r, Asked(s), h)
  PROVE  Nested(r, h)
BY SameGuardsNest DEF Nested

LEMMA InForce ==
  ASSUME NEW s, NEW l, Nested(s, l), s = << >> \/ s[Len(s)].fn # "set_level"
  PROVE  l = Asked(s)
BY DEF Nested, TopNested

LEMMA NestedPush ==
  ASSUME NEW s \in Seq(Frame), s # << >>, s[Len(s)].fn = "body", NEW l, Nested(s, l),
         NEW f \in Frame, f.guards = << >>,
         f.fn \in {"set_sink", "log_at"} \/ (f.fn = "ScopedLevel" /\ f.pc = "lock_level")
  PROVE  Nested(Append(s, f), l)
<1> DEFINE r == Append(s, f)
           n == Len(s)
<1>1. /\ n \in Nat /\ r \in Seq(Frame) /\ Len(r) = n + 1 /\ r[n + 1] = f /\ r # << >>
      /\ \A k \in 1..n : r[k] = s[k]
  BY AppendProperties
<1>2. l = Asked(s)
  BY InForce
<1> HIDE DEF r
<1>3. SameGuards(s, r, n)
  BY <1>1 DEF SameGuards
<1>4. TopNested(r, Asked(s), l)
  BY <1>1, <1>2 DEF TopNested
<1>. QED
  BY <1>1, <1>3, <1>4, NestedKept DEF r

(* The outermost frames of a stack, down to a body. *)
LEMMA NestedPrefix ==
  ASSUME NEW s \in Seq(Frame), Alternating(s), NEW l, Nested(s, l),
         NEW n \in Nat, n <= Len(s), n = 0 \/ n % 2 = 1,
         \A k \in (n + 1)..Len(s) : s[k].guards = << >>
  PROVE  Nested(SubSeq(s, 1, n), Asked(s))
<1> DEFINE r == SubSeq(s, 1, n)
<1>1. r \in Seq(Frame) /\ Len(r) = n /\ \A k \in 1..n : r[k] = s[k]
  <2>1. \A k \in 1..n : s[k] \in Frame
    BY ElementOfSeq
  <2>. QED
    BY <2>1, SubSeqProperties
<1> HIDE DEF r
<1>2. SameGuards(s, r, n)
  BY <1>1 DEF SameGuards
<1>3. r # << >> => r[Len(r)].fn = "body"
  <2>1. r # << >> => n \in 1..Len(s) /\ n % 2 = 1
    BY <1>1, EmptySeq
  <2>. QED
    BY <1>1, <2>1 DEF Alternating
<1>4. TopNested(r, Asked(s), Asked(s))
  BY <1>3 DEF TopNested
<1>. QED
  BY <1>1, <1>2, <1>4, NestedKept DEF r

LEMMA NestedPop ==
  ASSUME NEW s \in Seq(Frame), s # << >>, Alternating(s), s[Len(s)].fn # "body",
         NEW l, Nested(s, l)
  PROVE  Nested(SubSeq(s, 1, Len(s) - 1), Asked(s))
<1> DEFINE n == Len(s) - 1
<1>1. n \in Nat /\ n % 2 = 1 /\ n <= Len(s) /\ \A k \in (n + 1)..Len(s) : k = Len(s)
  BY TopParity
<1>2. \A k \in (n + 1)..Len(s) : s[k].guards = << >>
  BY <1>1, TopParity
<1> HIDE DEF n
<1>3. Nested(SubSeq(s, 1, n), Asked(s))
  BY <1>1, <1>2, NestedPrefix
<1>. QED
  BY <1>3 DEF n

LEMMA NestedLeave ==
  ASSUME NEW s \in Seq(Frame), Alternating(s), Len(s) > 1, s[Len(s)].fn = "body",
         s[Len(s)].guards = << >>, NEW l, Nested(s, l)
  PROVE  Nested(SubSeq(s, 1, Len(s) - 2), Asked(s))
<1> DEFINE n == Len(s) - 2
<1>0. s # << >> /\ Len(s) \in Nat
  BY EmptySeq
<1>1. n \in Nat /\ n % 2 = 1 /\ n <= Len(s)
      /\ \A k \in (n + 1)..Len(s) : k = Len(s) \/ k = n + 1
  BY <1>0, TopParity
<1>2. n + 1 \in 1..Len(s) /\ (n + 1) % 2 # 1
  BY <1>0, <1>1
<1>3. s[n + 1].guards = << >>
  BY <1>2 DEF Alternating
<1>4. \A k \in (n + 1)..Len(s) : s[k].guards = << >>
  BY <1>1, <1>3
<1> HIDE DEF n
<1>5. Nested(SubSeq(s, 1, n), Asked(s))
  BY <1>1, <1>4, NestedPrefix
<1>. QED
  BY <1>5 DEF n

LEMMA ReplacedTop ==
  ASSUME NEW s \in Seq(Frame), NEW n \in Nat, Len(s) = n + 1, NEW f \in Frame
  PROVE  LET r == [s EXCEPT ![Len(s)] = f]
         IN  /\ r \in Seq(Frame) /\ Len(r) = n + 1 /\ r[n + 1] = f
             /\ \A k \in 1..n : r[k] = s[k]
<1>1. Len(s) \in 1..Len(s)
  OBVIOUS
<1>. QED
  BY <1>1, ExceptSeq

LEMMA NestedReplace ==
  ASSUME NEW s \in Seq(Frame), s # << >>, Alternating(s), s[Len(s)].fn # "body",
         NEW l, Nested(s, l),
         NEW f \in Frame, f.guards = << >>,
         IF f.fn = "set_level" THEN f.arg = Asked(s)
         ELSE /\ l = Asked(s)
              /\ (f.fn = "ScopedLevel" /\ f.pc \in {"lock", "critical"}) => f.previous = l
  PROVE  Nested([s EXCEPT ![Len(s)] = f], l)
<1> DEFINE n == Len(s) - 1
           r == [s EXCEPT ![Len(s)] = f]
<1>1. n \in Nat /\ Len(s) = n + 1 /\ Len(s) \in Nat
  BY TopParity
<1>2. r \in Seq(Frame) /\ Len(r) = n + 1 /\ r[n + 1] = f /\ \A k \in 1..n : r[k] = s[k]
  <2>1. r = [s EXCEPT ![Len(s)] = f]
    OBVIOUS
  <2> HIDE DEF n, r
  <2>. QED
    BY <1>1, <2>1, ReplacedTop
<1>0. s[n + 1].guards = << >>
  BY <1>1, TopParity
<1> HIDE DEF r
<1>3. SameGuards(s, r, n)
  BY <1>0, <1>1, <1>2 DEF SameGuards
<1>4. TopNested(r, Asked(s), l)
  BY <1>1, <1>2 DEF TopNested
<1>. QED
  BY <1>2, <1>3, <1>4, NestedKept DEF r

LEMMA NestedSink ==
  ASSUME NEW s \in Seq(Frame), s # << >>, Alternating(s), s[Len(s)].fn = "log_at",
         NEW l, Nested(s, l),
         NEW f \in Frame, f.guards = << >>,
         NEW b \in Frame, b.fn = "body", b.guards = << >>
  PROVE  Nested(Append(Append(SubSeq(s, 1, Len(s) - 1), f), b), l)
<1> DEFINE n == Len(s) - 1
           q == SubSeq(s, 1, n)
           p == Append(q, f)
           r == Append(p, b)
<1>1. n \in Nat /\ Len(s) = n + 1 /\ Len(s) \in Nat /\ s[n + 1].guards = << >>
  BY TopParity
<1>2. q \in Seq(Frame) /\ Len(q) = n /\ \A k \in 1..n : q[k] = s[k]
  <2>1. \A k \in 1..n : s[k] \in Frame
    BY <1>1, ElementOfSeq
  <2>. QED
    BY <1>1, <2>1, SubSeqProperties
<1> HIDE DEF q
<1>3. p \in Seq(Frame) /\ Len(p) = n + 1 /\ p[n + 1] = f /\ \A k \in 1..n : p[k] = s[k]
  <2>1. /\ p \in Seq(Frame) /\ Len(p) = Len(q) + 1 /\ p[Len(q) + 1] = f
        /\ \A k \in 1..Len(q) : p[k] = q[k]
    BY <1>2, AppendProperties
  <2> HIDE DEF p
  <2>. QED
    BY <1>2, <2>1
<1> HIDE DEF p
<1>4. r \in Seq(Frame) /\ Len(r) = n + 2 /\ r[n + 2] = b /\ \A k \in 1..(n + 1) : r[k] = p[k]
  BY <1>1, <1>3, AppendProperties
<1> HIDE DEF r
<1>5. r[n + 1] = f /\ \A k \in 1..n : r[k] = s[k]
  BY <1>1, <1>3, <1>4
<1>6. SameGuards(s, r, n)
  BY <1>1, <1>4, <1>5 DEF SameGuards
<1>7. TopNested(r, Asked(s), l)
  BY <1>4, InForce DEF TopNested
<1>8. Nested(r, l)
  BY <1>4, <1>6, <1>7, NestedKept
<1>. QED
  BY <1>8 DEF r, p, q

LEMMA FrameReplaced ==
  ASSUME NEW s \in Seq(Frame), NEW n \in 1..Len(s), NEW b \in Frame
  PROVE  LET r == Append(SubSeq(s, 1, n - 1), b)
         IN  /\ r \in Seq(Frame) /\ Len(r) = n /\ r[n] = b
             /\ \A k \in 1..(n - 1) : r[k] = s[k]
<1> DEFINE q == SubSeq(s, 1, n - 1)
           r == Append(q, b)
<1>1. n \in Nat /\ n - 1 \in Nat /\ Len(s) \in Nat
  OBVIOUS
<1>2. q \in Seq(Frame) /\ Len(q) = n - 1 /\ \A k \in 1..(n - 1) : q[k] = s[k]
  <2>1. \A k \in 1..(n - 1) : s[k] \in Frame
    BY <1>1, ElementOfSeq
  <2>. QED
    BY <1>1, <2>1, SubSeqProperties
<1> HIDE DEF q
<1>3. r \in Seq(Frame) /\ Len(r) = n /\ r[n] = b /\ \A k \in 1..(n - 1) : r[k] = q[k]
  BY <1>1, <1>2, AppendProperties
<1> HIDE DEF r
<1>. QED
  BY <1>2, <1>3 DEF r, q

LEMMA NestedOpen ==
  ASSUME NEW s \in Seq(Frame), NEW n \in Nat, n >= 1, Len(s) = n + 1,
         s[n + 1].fn = "ScopedLevel", s[n + 1].pc = "critical", s[n + 1].guards = << >>,
         NEW l, Nested(s, l),
         NEW g, g = [previous |-> s[n + 1].previous, set |-> s[n + 1].arg],
         NEW b \in Frame, b.fn = "body", b.guards = Append(s[n].guards, g)
  PROVE  Nested(Append(SubSeq(s, 1, n - 1), b), s[n + 1].arg)
<1> DEFINE r == Append(SubSeq(s, 1, n - 1), b)
           old == s[n].guards
           new == b.guards
<1>1. n \in 1..Len(s) /\ n + 1 \in 1..Len(s) /\ s # << >>
  BY EmptySeq
<1>2. s[n] \in Frame /\ s[n + 1] \in Frame
  BY <1>1, ElementOfSeq
<1>3. /\ r \in Seq(Frame) /\ Len(r) = n /\ r[n] = b
      /\ \A k \in 1..(n - 1) : r[k] = s[k]
  BY <1>1, FrameReplaced
<1>4. g \in Guard
  BY <1>2 DEF Frame, Guard
<1>5. old \in Seq(Guard)
  BY <1>2 DEF Frame
<1>6. /\ Len(new) = Len(old) + 1 /\ new[Len(new)] = g
      /\ \A j \in 1..Len(old) : new[j] = old[j]
  BY <1>4, <1>5, AppendProperties
<1>7. g.previous = l /\ l = Asked(s) /\ g.set = s[n + 1].arg
  BY <1>1 DEF Nested, TopNested
<1> HIDE DEF r
<1>8. Opens(s, r, n, g)
  BY <1>3, <1>6 DEF Opens
<1>9. Chained(r) /\ Asked(r) = g.set
  <2>1. Chained(s) /\ g.previous = Asked(s)
    BY <1>7 DEF Nested
  <2>. QED
    BY <1>3, <1>8, <2>1, GuardOpened
<1>10. TopNested(r, Asked(r), g.set)
  BY <1>3, <1>9 DEF TopNested
<1>. QED
  BY <1>7, <1>9, <1>10 DEF Nested, r

LEMMA NestedClose ==
  ASSUME NEW s \in Seq(Frame), NEW n \in Nat, n >= 1, Len(s) = n, s[n].guards # << >>,
         NEW l, Nested(s, l),
         NEW b \in Frame, b.guards = SubSeq(s[n].guards, 1, Len(s[n].guards) - 1),
         NEW f \in Frame, f.fn = "set_level", f.guards = << >>,
         f.arg = s[n].guards[Len(s[n].guards)].previous
  PROVE  Nested(Append(Append(SubSeq(s, 1, n - 1), b), f), l)
<1> DEFINE p == Append(SubSeq(s, 1, n - 1), b)
           r == Append(p, f)
           old == s[n].guards
           new == b.guards
<1>1. n \in 1..Len(s)
  OBVIOUS
<1>2. s[n] \in Frame
  BY <1>1, ElementOfSeq
<1>3. /\ p \in Seq(Frame) /\ Len(p) = n /\ p[n] = b
      /\ \A k \in 1..(n - 1) : p[k] = s[k]
  BY <1>1, FrameReplaced
<1>4. old \in Seq(Guard) /\ Len(old) \in Nat /\ Len(old) >= 1
  BY <1>2, EmptySeq DEF Frame
<1>5. Len(new) = Len(old) - 1 /\ \A j \in 1..Len(new) : new[j] = old[j]
  <2>1. \A j \in 1..(Len(old) - 1) : old[j] \in Guard
    BY <1>4, ElementOfSeq
  <2>. QED
    BY <1>4, <2>1, SubSeqProperties
<1> HIDE DEF p
<1>6. r \in Seq(Frame) /\ Len(r) = n + 1 /\ r[n + 1] = f /\ \A k \in 1..n : r[k] = p[k]
  BY <1>3, AppendProperties
<1> HIDE DEF r
<1>7. r[n] = b /\ \A k \in 1..(n - 1) : r[k].guards = s[k].guards
  BY <1>3, <1>6
<1>8. Closes(s, r, n)
  BY <1>5, <1>6, <1>7 DEF Closes
<1>9. Chained(r) /\ Asked(r) = f.arg
  <2>1. Chained(s)
    BY DEF Nested
  <2>. QED
    BY <1>6, <1>8, <2>1, GuardClosed
<1>10. r # << >>
  BY <1>6, EmptySeq
<1>11. TopNested(r, Asked(r), l)
  BY <1>6, <1>9, <1>10 DEF TopNested
<1>. QED
  BY <1>9, <1>11 DEF Nested, r, p

(* The stacks of the other threads stay free of what changes the level. *)
LEMMA NoLevelsPush ==
  ASSUME NEW s \in Seq(Frame), NoLevels(s),
         NEW f \in Frame, f.fn \notin {"set_level", "ScopedLevel"}, f.guards = << >>
  PROVE  Append(s, f) \in Seq(Frame) /\ NoLevels(Append(s, f))
<1> DEFINE r == Append(s, f)
           n == Len(s)
<1>1. /\ r \in Seq(Frame) /\ Len(r) = n + 1 /\ r[n + 1] = f /\ n \in Nat
      /\ \A k \in 1..n : r[k] = s[k]
  BY AppendProperties
<1>2. \A k \in 1..(n + 1) : k \in 1..n \/ k = n + 1
  BY <1>1
<1> HIDE DEF r
<1>3. NoLevels(r)
  BY <1>1, <1>2 DEF NoLevels
<1>. QED
  BY <1>1, <1>3 DEF r

LEMMA NoLevelsPrefix ==
  ASSUME NEW s \in Seq(Frame), NoLevels(s), NEW n \in Nat, n <= Len(s)
  PROVE  SubSeq(s, 1, n) \in Seq(Frame) /\ NoLevels(SubSeq(s, 1, n))
<1> DEFINE r == SubSeq(s, 1, n)
<1>1. r \in Seq(Frame) /\ Len(r) = n /\ \A k \in 1..n : r[k] = s[k]
  <2>1. \A k \in 1..n : s[k] \in Frame
    BY ElementOfSeq
  <2>. QED
    BY <2>1, SubSeqProperties
<1> HIDE DEF r
<1>2. NoLevels(r)
  BY <1>1 DEF NoLevels
<1>. QED
  BY <1>1, <1>2 DEF r

LEMMA NoLevelsReplace ==
  ASSUME NEW s \in Seq(Frame), s # << >>, NoLevels(s),
         NEW f \in Frame, f.fn \notin {"set_level", "ScopedLevel"}, f.guards = << >>
  PROVE  NoLevels([s EXCEPT ![Len(s)] = f])
<1> DEFINE n == Len(s) - 1
           r == [s EXCEPT ![Len(s)] = f]
<1>1. n \in Nat /\ Len(s) = n + 1
  BY EmptySeq
<1>2. Len(r) = n + 1 /\ r[n + 1] = f /\ \A k \in 1..n : r[k] = s[k]
  <2>1. r = [s EXCEPT ![Len(s)] = f]
    OBVIOUS
  <2> HIDE DEF n, r
  <2>. QED
    BY <1>1, <2>1, ReplacedTop
<1>3. \A k \in 1..(n + 1) : k \in 1..n \/ k = n + 1
  BY <1>1
<1> HIDE DEF r
<1>4. NoLevels(r)
  BY <1>1, <1>2, <1>3 DEF NoLevels
<1>. QED
  BY <1>4 DEF r

Sole(t) == program.ScopedLevel = {t} /\ program.set_level = {}

LEMMA Elsewhere ==
  ASSUME Inv, NEW t \in Threads, Thread(t)
  PROVE  UNCHANGED program /\ \A u \in Threads \ {t} : stack'[u] = stack[u]
<1>1. stack \in [Threads -> Seq(Frame)]
  BY DEF Inv, TypeOK
<1>2. CASE UserCode(t)
  BY <1>1, <1>2
  DEF UserCode, CallSetLevel, CallSetSink, CallLog, OpenGuard, CallLibrary, Push, CloseGuard,
      ThreadEnds, Pop, SinkReturns, SinkThrows, UnwindSink, Catch, LeaveSink
<1>3. CASE Library(t)
  BY <1>1, <1>3
  DEF Library, LockLevel, LockState, Lock, ReplaceTop, ReadLevelToLog, ReadLevelToGuard, Pop,
      SetLevel, SetGuardLevel, SetSink, EmitDrops, EmitTakesSink, EmitCopyThrows, EmitCallsSink
<1>. QED
  BY <1>2, <1>3 DEF Thread

LEMMA StackIs ==
  ASSUME Inv, NEW t \in Threads, NEW r, stack' = [stack EXCEPT ![t] = r]
  PROVE  stack'[t] = r
BY DEF Inv, TypeOK

(* The steps of the thread with the guards. *)
LEMMA OwnUserCode ==
  ASSUME Inv, AllAlternate, NEW t \in Threads, Sole(t), Nested(stack[t], level), UserCode(t)
  PROVE  Nested(stack'[t], level')
<1> DEFINE s == stack[t]
<1>0. ASSUME s # << >>
      PROVE  /\ s \in Seq(Frame) /\ Alternating(s) /\ Top(t) = s[Len(s)] /\ Top(t) \in Frame
             /\ Len(s) \in Nat /\ Len(s) >= 1
             /\ Top(t).fn # "body" => Top(t).guards = << >>
  BY <1>0, TopIs, TopType
<1>1. CASE CallSetLevel(t)
  BY <1>1 DEF CallSetLevel, Sole
<1>2. ASSUME NEW fn \in {"set_sink", "log_at", "ScopedLevel"},
             NEW pc \in {"lock_level", "lock"}, NEW l \in Levels,
             NEW to \in Sinks \cup {NullSink}, fn = "ScopedLevel" => pc = "lock_level",
             CallLibrary(t, CallOf(fn, pc, l, to))
      PROVE  Nested(stack'[t], level')
  <2> DEFINE f == CallOf(fn, pc, l, to)
  <2>1. /\ s # << >> /\ Top(t).fn = "body" /\ stack' = [stack EXCEPT ![t] = Append(s, f)]
        /\ level' = level
    BY <1>2 DEF CallLibrary, InUserCode, AtTop, Push
  <2>2. f \in Frame /\ f.fn = fn /\ f.pc = pc
    BY CallType
  <2>3. f.guards = << >>
    BY DEF CallOf
  <2> HIDE DEF f
  <2>4. Nested(Append(s, f), level)
    BY <1>0, <1>2, <2>1, <2>2, <2>3, NestedPush
  <2>. QED
    BY <2>1, <2>4, StackIs
<1>3. NullSink \in Sinks \cup {NullSink} /\ Warning \in Levels /\ Records \subseteq Levels
  BY LoggingAssumption
<1>4. CASE CallSetSink(t)
  BY <1>2, <1>3, <1>4 DEF CallSetSink
<1>5. CASE CallLog(t)
  BY <1>2, <1>3, <1>5 DEF CallLog
<1>6. CASE OpenGuard(t)
  BY <1>2, <1>3, <1>6 DEF OpenGuard
<1>7. CASE CloseGuard(t)
  <2> DEFINE n == Len(s)
             open == Top(t).guards
             f == CallOf("set_level", "lock", open[Len(open)].previous, NullSink)
             b == [Top(t) EXCEPT !.guards = SubSeq(open, 1, Len(open) - 1)]
             r == Append(Append(SubSeq(s, 1, n - 1), b), f)
  <2>1. /\ s # << >> /\ Top(t).fn = "body" /\ open # << >>
        /\ stack' = [stack EXCEPT ![t] = r] /\ level' = level
    BY <1>7 DEF CloseGuard, AtTop, Below
  <2>2. b \in Frame /\ f \in Frame
    BY <2>1, ClosingTypes
  <2>3. /\ b.guards = SubSeq(open, 1, Len(open) - 1)
        /\ f.fn = "set_level" /\ f.guards = << >> /\ f.arg = open[Len(open)].previous
    BY <1>0, <2>1 DEF CallOf, Frame
  <2>4. s \in Seq(Frame) /\ Top(t) = s[n] /\ n \in Nat /\ n >= 1 /\ Nested(s, level)
    BY <1>0, <2>1
  <2>5. stack'[t] = r
    BY <2>1, StackIs
  <2>6. n = Len(s)
    OBVIOUS
  <2> HIDE DEF b, f, n, s
  <2>7. Nested(r, level)
    BY <2>1, <2>2, <2>3, <2>4, <2>6, NestedClose
  <2>. QED
    BY <2>1, <2>5, <2>7
<1>8. CASE ThreadEnds(t)
  <2>1. /\ s # << >> /\ Top(t).fn = "body" /\ Top(t).guards = << >> /\ Len(s) = 1
        /\ stack' = [stack EXCEPT ![t] = SubSeq(s, 1, 0)] /\ level' = level
    BY <1>8 DEF ThreadEnds, InUserCode, AtTop, Pop, Below
  <2>2. \A k \in (0 + 1)..Len(s) : s[k].guards = << >>
    BY <1>0, <2>1
  <2>3. Nested(SubSeq(s, 1, 0), Asked(s)) /\ level = Asked(s)
    BY <1>0, <2>1, <2>2, NestedPrefix, InForce
  <2>. QED
    BY <2>1, <2>3, StackIs
<1>9. ASSUME AtTop(t, {"body"}, "run"), LeaveSink(t)
      PROVE  Nested(stack'[t], level')
  <2>1. /\ s # << >> /\ Top(t).fn = "body" /\ Len(s) > 1 /\ Top(t).guards = << >>
        /\ stack' = [stack EXCEPT ![t] = SubSeq(s, 1, Len(s) - 2)] /\ level' = level
    BY <1>9 DEF LeaveSink, AtTop
  <2>2. Nested(SubSeq(s, 1, Len(s) - 2), Asked(s)) /\ level = Asked(s)
    BY <1>0, <2>1, NestedLeave, InForce
  <2>. QED
    BY <2>1, <2>2, StackIs
<1>10. CASE SinkReturns(t)
  BY <1>9, <1>10 DEF SinkReturns, InUserCode
<1>11. CASE UnwindSink(t)
  BY <1>9, <1>11 DEF UnwindSink
<1>12. CASE SinkThrows(t) \/ Catch(t)
  BY <1>12 DEF SinkThrows, Catch
<1>. QED
  BY <1>1, <1>4, <1>5, <1>6, <1>7, <1>8, <1>10, <1>11, <1>12 DEF UserCode

LEMMA OwnLibrary ==
  ASSUME Inv, AllAlternate, NEW t \in Threads, Sole(t), Nested(stack[t], level), Library(t)
  PROVE  Nested(stack'[t], level')
<1> DEFINE s == stack[t]
           ask == Asked(s)
<1>0. ASSUME s # << >>
      PROVE  /\ s \in Seq(Frame) /\ Alternating(s) /\ Top(t) = s[Len(s)] /\ Top(t) \in Frame
             /\ Top(t).fn = "body" <=> Top(t).pc = "run"
             /\ Top(t).fn # "body" => Top(t).guards = << >>
             /\ Top(t).fn # "set_level" => level = ask
             /\ Top(t).fn = "set_level" => Top(t).arg = ask
  BY <1>0, TopIs, InForce DEF Nested, TopNested
<1>pop. ASSUME s # << >>, Top(t).fn # "body", Pop(t), level' = ask
        PROVE  Nested(stack'[t], level')
  <2>1. Nested(SubSeq(s, 1, Len(s) - 1), ask)
    BY <1>0, <1>pop, NestedPop
  <2>2. stack'[t] = SubSeq(s, 1, Len(s) - 1)
    BY <1>pop, StackIs DEF Pop, Below
  <2>. QED
    BY <1>pop, <2>1, <2>2
<1>replace. ASSUME s # << >>, Top(t).fn # "body", NEW f \in Frame, f.guards = << >>,
                   ReplaceTop(t, f), level' = level,
                   IF f.fn = "set_level" THEN f.arg = ask
                   ELSE /\ level = ask
                        /\ (f.fn = "ScopedLevel" /\ f.pc \in {"lock", "critical"}) =>
                             f.previous = level
            PROVE  Nested(stack'[t], level')
  <2>1. Nested([s EXCEPT ![Len(s)] = f], level)
    BY <1>0, <1>replace, NestedReplace
  <2>2. stack'[t] = [s EXCEPT ![Len(s)] = f]
    BY <1>replace, StackIs DEF ReplaceTop
  <2>. QED
    BY <1>replace, <2>1, <2>2
<1>lock. ASSUME NEW from \in {"lock_level", "lock"}, NEW to \in {"read_level", "critical"},
                Lock(t, from, to), from = "lock_level" => to = "read_level"
         PROVE  Nested(stack'[t], level')
  <2> DEFINE f == [Top(t) EXCEPT !.pc = to]
  <2>1. s # << >> /\ Top(t).pc = from /\ ReplaceTop(t, f) /\ level' = level
    BY <1>lock DEF Lock
  <2>2. /\ f \in Frame /\ f.fn = Top(t).fn /\ f.pc = to /\ f.guards = Top(t).guards
        /\ f.arg = Top(t).arg /\ f.previous = Top(t).previous
    BY <1>0, <2>1 DEF Frame
  <2>3. Top(t).fn # "body" /\ f.guards = << >>
    BY <1>0, <2>1, <2>2
  <2>4. (Top(t).fn = "ScopedLevel" /\ to = "critical") => Top(t).previous = level
    BY <1>0, <1>lock, <2>1 DEF Nested, TopNested
  <2> HIDE DEF f
  <2>5. IF f.fn = "set_level" THEN f.arg = ask
        ELSE /\ level = ask
             /\ (f.fn = "ScopedLevel" /\ f.pc \in {"lock", "critical"}) => f.previous = level
    BY <1>0, <2>1, <2>2, <2>4
  <2>. QED
    BY <1>replace, <2>1, <2>2, <2>3, <2>5
<1>1. CASE LockLevel(t)
  BY <1>1, <1>lock DEF LockLevel
<1>2. CASE LockState(t)
  BY <1>2, <1>lock DEF LockState
<1>3. CASE ReadLevelToLog(t)
  <2> DEFINE f == [Top(t) EXCEPT !.pc = "lock"]
  <2>1. /\ s # << >> /\ Top(t).fn = "log_at" /\ level' = level
        /\ (ReplaceTop(t, f) \/ Pop(t))
    BY <1>3 DEF ReadLevelToLog, AtTop
  <2>2. f \in Frame /\ f.fn = "log_at" /\ f.guards = << >> /\ level = ask
    BY <1>0, <2>1 DEF Frame
  <2> HIDE DEF f
  <2>. QED
    BY <1>pop, <1>replace, <2>1, <2>2
<1>4. CASE ReadLevelToGuard(t)
  <2> DEFINE f == [Top(t) EXCEPT !.pc = "lock", !.previous = level]
  <2>1. /\ s # << >> /\ Top(t).fn = "ScopedLevel" /\ level' = level /\ ReplaceTop(t, f)
    BY <1>4 DEF ReadLevelToGuard, AtTop
  <2>2. /\ f \in Frame /\ f.fn = "ScopedLevel" /\ f.guards = << >> /\ level = ask
        /\ f.previous = level
    BY <1>0, <2>1, Facts DEF Frame
  <2> HIDE DEF f
  <2>. QED
    BY <1>replace, <2>1, <2>2
<1>5. CASE SetLevel(t)
  BY <1>0, <1>5, <1>pop DEF SetLevel, AtTop
<1>6. CASE SetSink(t)
  BY <1>0, <1>6, <1>pop DEF SetSink, AtTop
<1>7. CASE SetGuardLevel(t)
  <2> DEFINE n == Len(s) - 1
             g == [previous |-> Top(t).previous, set |-> Top(t).arg]
             b == [s[n] EXCEPT !.guards = Append(@, g)]
             r == Append(SubSeq(s, 1, n - 1), b)
  <2>1. /\ s # << >> /\ Top(t).fn = "ScopedLevel" /\ Top(t).pc = "critical"
        /\ stack' = [stack EXCEPT ![t] = r] /\ level' = Top(t).arg
    BY <1>7 DEF SetGuardLevel, AtTop
  <2>2. n \in Nat /\ n % 2 = 1 /\ Len(s) \in Nat /\ Len(s) = n + 1
    <3>1. s \in Seq(Frame) /\ s # << >> /\ Alternating(s) /\ s[Len(s)].fn # "body"
      BY <1>0, <2>1
    <3> HIDE DEF s
    <3>. QED
      BY <3>1, TopParity
  <2>3. n >= 1 /\ n \in 1..Len(s)
    <3> HIDE DEF s, n
    <3>1. n >= 1
      BY <2>2, OddPositive
    <3>. QED
      BY <2>2, <3>1
  <2>4. s[n].fn = "body" /\ s[n] \in Frame
    <3> HIDE DEF n
    <3>. QED
      BY <1>0, <2>1, <2>2, <2>3, ElementOfSeq DEF Alternating
  <2>5. g \in Guard /\ s[n].guards \in Seq(Guard)
    <3> HIDE DEF n
    <3>. QED
      BY <1>0, <2>1, <2>4 DEF Frame, Guard
  <2>6. b \in Frame /\ b.fn = "body" /\ b.guards = Append(s[n].guards, g)
    <3> HIDE DEF n, g
    <3>1. Append(s[n].guards, g) \in Seq(Guard)
      BY <2>5
    <3>. QED
      BY <2>4, <3>1 DEF Frame
  <2>7. stack'[t] = r
    BY <2>1, StackIs
  <2>8. /\ s \in Seq(Frame) /\ Top(t) = s[n + 1] /\ Top(t).guards = << >>
        /\ g = [previous |-> Top(t).previous, set |-> Top(t).arg] /\ Nested(s, level)
    BY <1>0, <2>1, <2>2
  <2> HIDE DEF n, g, b, s
  <2>9. Nested(r, Top(t).arg)
    BY <2>1, <2>2, <2>3, <2>6, <2>8, NestedOpen
  <2>. QED
    BY <2>1, <2>7, <2>9
<1>8. CASE EmitDrops(t)
  BY <1>0, <1>8, <1>pop DEF EmitDrops, AtTop
<1>9. CASE EmitTakesSink(t)
  <2> DEFINE f == [Top(t) EXCEPT !.pc = "call", !.to = sink]
  <2>1. s # << >> /\ Top(t).fn = "log_at" /\ level' = level /\ ReplaceTop(t, f)
    BY <1>9 DEF EmitTakesSink, AtTop
  <2>2. f \in Frame /\ f.fn = "log_at" /\ f.guards = << >> /\ level = ask
    BY <1>0, <2>1, Facts DEF Frame
  <2> HIDE DEF f
  <2>. QED
    BY <1>replace, <2>1, <2>2
<1>10. CASE EmitCopyThrows(t)
  BY <1>0, <1>10, <1>pop DEF EmitCopyThrows, AtTop
<1>11. CASE EmitCallsSink(t)
  <2> DEFINE f == [Top(t) EXCEPT !.pc = "in_sink"]
             b == Body(f.to)
             r == Append(Append(SubSeq(s, 1, Len(s) - 1), f), b)
  <2>1. /\ s # << >> /\ Top(t).fn = "log_at" /\ stack' = [stack EXCEPT ![t] = r]
        /\ level' = level
    BY <1>11 DEF EmitCallsSink, AtTop, Below
  <2>2. f \in Frame /\ f.guards = << >> /\ f.to \in Sinks \cup {NullSink}
    BY <1>0, <2>1 DEF Frame
  <2> HIDE DEF f
  <2>3. b \in Frame /\ b.fn = "body" /\ b.guards = << >>
    BY <2>2, BodyType DEF Body, CallOf
  <2>4. stack'[t] = r
    BY <2>1, StackIs
  <2> HIDE DEF b
  <2>5. Nested(r, level)
    BY <1>0, <2>1, <2>2, <2>3, NestedSink
  <2>. QED
    BY <2>1, <2>4, <2>5
<1>. QED
  BY <1>1, <1>2, <1>3, <1>4, <1>5, <1>6, <1>7, <1>8, <1>9, <1>10, <1>11 DEF Library

(* The steps of another thread. *)
LEMMA OtherUserCode ==
  ASSUME Inv, NEW u \in Threads, u \notin program.ScopedLevel, program.set_level = {},
         NoLevels(stack[u]), UserCode(u)
  PROVE  NoLevels(stack'[u]) /\ level' = level
<1> DEFINE s == stack[u]
<1>0. ASSUME s # << >>
      PROVE  s \in Seq(Frame) /\ Top(u) = s[Len(s)] /\ Len(s) \in 1..Len(s) /\ Top(u).guards = << >>
  BY <1>0, TopType DEF NoLevels
<1>1. CASE CallSetLevel(u) \/ OpenGuard(u)
  BY <1>1 DEF CallSetLevel, OpenGuard
<1>2. ASSUME NEW fn \in {"set_sink", "log_at"}, NEW pc \in {"lock_level", "lock"},
             NEW l \in Levels, NEW to \in Sinks \cup {NullSink},
             CallLibrary(u, CallOf(fn, pc, l, to))
      PROVE  NoLevels(stack'[u]) /\ level' = level
  <2> DEFINE f == CallOf(fn, pc, l, to)
  <2>1. s # << >> /\ stack' = [stack EXCEPT ![u] = Append(s, f)] /\ level' = level
    BY <1>2 DEF CallLibrary, InUserCode, AtTop, Push
  <2>2. f \in Frame /\ f.fn = fn /\ f.guards = << >>
    BY CallType DEF CallOf
  <2> HIDE DEF f
  <2>3. NoLevels(Append(s, f))
    BY <1>0, <2>1, <2>2, NoLevelsPush
  <2>. QED
    BY <2>1, <2>3, StackIs
<1>3. NullSink \in Sinks \cup {NullSink} /\ Warning \in Levels /\ Records \subseteq Levels
  BY LoggingAssumption
<1>4. CASE CallSetSink(u)
  BY <1>2, <1>3, <1>4 DEF CallSetSink
<1>5. CASE CallLog(u)
  BY <1>2, <1>3, <1>5 DEF CallLog
<1>6. CASE CloseGuard(u)
  BY <1>0, <1>6 DEF CloseGuard, AtTop
<1>7. ASSUME NEW n \in Nat, n <= Len(s), s # << >>,
             stack' = [stack EXCEPT ![u] = SubSeq(s, 1, n)]
      PROVE  NoLevels(stack'[u])
  BY <1>0, <1>7, NoLevelsPrefix, StackIs
<1>8. CASE ThreadEnds(u)
  <2>1. s # << >> /\ stack' = [stack EXCEPT ![u] = SubSeq(s, 1, Len(s) - 1)] /\ level' = level
    BY <1>8 DEF ThreadEnds, InUserCode, AtTop, Pop, Below
  <2>2. Len(s) - 1 \in Nat /\ Len(s) - 1 <= Len(s)
    BY <1>0, <2>1
  <2>. QED
    BY <1>7, <2>1, <2>2
<1>9. CASE SinkReturns(u) \/ UnwindSink(u)
  <2>1. /\ s # << >> /\ Len(s) > 1 /\ stack' = [stack EXCEPT ![u] = SubSeq(s, 1, Len(s) - 2)]
        /\ level' = level
    BY <1>9 DEF SinkReturns, UnwindSink, InUserCode, LeaveSink, AtTop
  <2>2. Len(s) - 2 \in Nat /\ Len(s) - 2 <= Len(s)
    BY <1>0, <2>1
  <2>. QED
    BY <1>7, <2>1, <2>2
<1>10. CASE SinkThrows(u) \/ Catch(u)
  BY <1>10 DEF SinkThrows, Catch
<1>. QED
  BY <1>1, <1>4, <1>5, <1>6, <1>8, <1>9, <1>10 DEF UserCode

LEMMA OtherLibrary ==
  ASSUME Inv, NEW u \in Threads, NoLevels(stack[u]), Library(u)
  PROVE  NoLevels(stack'[u]) /\ level' = level
<1> DEFINE s == stack[u]
<1>0. ASSUME s # << >>
      PROVE  /\ s \in Seq(Frame) /\ Top(u) = s[Len(s)] /\ Top(u) \in Frame
             /\ Len(s) \in Nat /\ Len(s) >= 1
             /\ Top(u).guards = << >> /\ Top(u).fn \notin {"set_level", "ScopedLevel"}
  BY <1>0, TopType DEF NoLevels
<1>pop. ASSUME s # << >>, Pop(u) PROVE NoLevels(stack'[u])
  <2>1. Len(s) - 1 \in Nat /\ Len(s) - 1 <= Len(s)
    BY <1>0, <1>pop
  <2>2. NoLevels(SubSeq(s, 1, Len(s) - 1))
    BY <1>0, <1>pop, <2>1, NoLevelsPrefix
  <2>3. stack'[u] = SubSeq(s, 1, Len(s) - 1)
    BY <1>pop, StackIs DEF Pop, Below
  <2>. QED
    BY <2>2, <2>3
<1>replace. ASSUME s # << >>, NEW f \in Frame, f.fn = Top(u).fn, f.guards = << >>,
                   ReplaceTop(u, f)
            PROVE  NoLevels(stack'[u])
  <2>1. NoLevels([s EXCEPT ![Len(s)] = f])
    BY <1>0, <1>replace, NoLevelsReplace
  <2>2. stack'[u] = [s EXCEPT ![Len(s)] = f]
    BY <1>replace, StackIs DEF ReplaceTop
  <2>. QED
    BY <2>1, <2>2
<1>1. CASE LockLevel(u) \/ LockState(u)
  <2>1. PICK to \in {"read_level", "critical"} :
          s # << >> /\ level' = level /\ ReplaceTop(u, [Top(u) EXCEPT !.pc = to])
    BY <1>1 DEF LockLevel, LockState, Lock
  <2> DEFINE f == [Top(u) EXCEPT !.pc = to]
  <2>2. f \in Frame /\ f.fn = Top(u).fn /\ f.guards = << >>
    BY <1>0, <2>1 DEF Frame
  <2>. QED
    BY <1>replace, <2>1, <2>2
<1>2. CASE ReadLevelToLog(u)
  <2> DEFINE f == [Top(u) EXCEPT !.pc = "lock"]
  <2>1. s # << >> /\ level' = level /\ (ReplaceTop(u, f) \/ Pop(u))
    BY <1>2 DEF ReadLevelToLog, AtTop
  <2>2. f \in Frame /\ f.fn = Top(u).fn /\ f.guards = << >>
    BY <1>0, <2>1 DEF Frame
  <2>. QED
    BY <1>pop, <1>replace, <2>1, <2>2
<1>3. CASE ReadLevelToGuard(u) \/ SetLevel(u) \/ SetGuardLevel(u)
  BY <1>0, <1>3 DEF ReadLevelToGuard, SetLevel, SetGuardLevel, AtTop
<1>4. CASE SetSink(u) \/ EmitDrops(u) \/ EmitCopyThrows(u)
  BY <1>4, <1>pop DEF SetSink, EmitDrops, EmitCopyThrows, AtTop
<1>5. CASE EmitTakesSink(u)
  <2> DEFINE f == [Top(u) EXCEPT !.pc = "call", !.to = sink]
  <2>1. s # << >> /\ level' = level /\ ReplaceTop(u, f)
    BY <1>5 DEF EmitTakesSink, AtTop
  <2>2. f \in Frame /\ f.fn = Top(u).fn /\ f.guards = << >>
    BY <1>0, <2>1, Facts DEF Frame
  <2>. QED
    BY <1>replace, <2>1, <2>2
<1>6. CASE EmitCallsSink(u)
  <2> DEFINE f == [Top(u) EXCEPT !.pc = "in_sink"]
             b == Body(f.to)
             q == SubSeq(s, 1, Len(s) - 1)
             r == Append(Append(q, f), b)
  <2>1. s # << >> /\ Top(u).fn = "log_at" /\ stack' = [stack EXCEPT ![u] = r] /\ level' = level
    BY <1>6 DEF EmitCallsSink, AtTop, Below
  <2>2. f \in Frame /\ f.fn = "log_at" /\ f.guards = << >> /\ f.to \in Sinks \cup {NullSink}
    BY <1>0, <2>1 DEF Frame
  <2> HIDE DEF f
  <2>3. b \in Frame /\ b.fn = "body" /\ b.guards = << >>
    BY <2>2, BodyType DEF Body, CallOf
  <2>4. stack'[u] = r
    BY <2>1, StackIs
  <2>5. q \in Seq(Frame) /\ NoLevels(q)
    <3>1. Len(s) - 1 \in Nat /\ Len(s) - 1 <= Len(s)
      BY <1>0, <2>1
    <3>. QED
      BY <1>0, <2>1, <3>1, NoLevelsPrefix
  <2> HIDE DEF b, q
  <2>6. NoLevels(r)
    BY <2>2, <2>3, <2>5, NoLevelsPush
  <2>. QED
    BY <2>1, <2>4, <2>6
<1>. QED
  BY <1>1, <1>2, <1>3, <1>4, <1>5, <1>6 DEF Library

NestInv ==
  \A t \in Threads :
    Sole(t) => /\ Nested(stack[t], level)
               /\ \A u \in Threads \ {t} : NoLevels(stack[u])

LEMMA NestInit == Init => NestInv
<1> SUFFICES ASSUME Init PROVE NestInv
  OBVIOUS
<1> DEFINE s == <<Body(NullSink)>>
<1>1. /\ Body(NullSink).fn = "body" /\ Body(NullSink).guards = << >>
      /\ s \in Seq(Frame) /\ Len(s) = 1 /\ s[1] = Body(NullSink)
  BY BodyType DEF Body, CallOf
<1> HIDE DEF s
<1>2. Asked(s) = Warning
  <2> DEFINE k == Len(s) + 1
  <2>1. k \in Nat /\ \A m \in 1..(k - 1) : s[m].guards = << >>
    BY <1>1
  <2> HIDE DEF k
  <2>2. LevelUnder(s, k) = Warning
    BY <2>1, UnderNone
  <2>. QED
    BY <2>2 DEF Asked, k
<1>3. Nested(s, Warning)
  BY <1>1, <1>2, ChainedNone DEF Nested, Chained, TopNested
<1>4. NoLevels(s)
  BY <1>1 DEF NoLevels
<1>5. level = Warning /\ \A t \in Threads : stack[t] = s
  BY DEF Init, s
<1>. QED
  BY <1>3, <1>4, <1>5 DEF NestInv

LEMMA NestStep == Inv /\ AllAlternate /\ NestInv /\ [Next]_vars => NestInv'
<1> SUFFICES ASSUME Inv, AllAlternate, NestInv, [Next]_vars PROVE NestInv'
  OBVIOUS
<1>1. ASSUME NEW v \in Threads, Thread(v) PROVE NestInv'
  <2>1. UNCHANGED program /\ \A u \in Threads \ {v} : stack'[u] = stack[u]
    BY <1>1, Elsewhere
  <2>2. ASSUME NEW t \in Threads, Sole(t)
        PROVE  /\ Nested(stack'[t], level')
               /\ \A u \in Threads \ {t} : NoLevels(stack'[u])
    <3>1. Nested(stack[t], level) /\ \A u \in Threads \ {t} : NoLevels(stack[u])
      BY <2>2 DEF NestInv
    <3>2. CASE v = t
      <4>1. Nested(stack'[t], level')
        BY <1>1, <2>2, <3>1, <3>2, OwnUserCode, OwnLibrary DEF Thread
      <4>. QED
        BY <2>1, <3>1, <3>2, <4>1
    <3>3. CASE v # t
      <4>1. v \notin program.ScopedLevel /\ program.set_level = {} /\ NoLevels(stack[v])
        BY <2>2, <3>1, <3>3 DEF Sole
      <4>2. NoLevels(stack'[v]) /\ level' = level
        BY <1>1, <4>1, OtherUserCode, OtherLibrary DEF Thread
      <4>. QED
        BY <2>1, <3>1, <3>3, <4>2
    <3>. QED
      BY <3>2, <3>3
  <2>3. ASSUME NEW t \in Threads, Sole(t)' PROVE Sole(t)
    BY <2>1, <2>3 DEF Sole
  <2>4. ASSUME NEW t \in Threads, Nested(stack'[t], level') PROVE Nested(stack[t], level)'
    BY <2>4 DEF Nested, TopNested, Chained, ChainedAt, Asked, LevelUnder
  <2>5. ASSUME NEW u \in Threads, NoLevels(stack'[u]) PROVE NoLevels(stack[u])'
    BY <2>5 DEF NoLevels
  <2>. QED
    BY <2>2, <2>3, <2>4, <2>5 DEF NestInv
<1>2. CASE UNCHANGED vars
  <2>1. UNCHANGED <<stack, level, program>>
    BY <1>2 DEF vars
  <2>2. ASSUME NEW t \in Threads
        PROVE  /\ Sole(t)' <=> Sole(t)
               /\ Nested(stack[t], level)' <=> Nested(stack'[t], level')
               /\ NoLevels(stack[t])' <=> NoLevels(stack'[t])
    BY <2>1 DEF Sole, Nested, TopNested, Chained, ChainedAt, Asked, LevelUnder, NoLevels
  <2>. QED
    BY <2>1, <2>2 DEF NestInv
<1>. QED
  BY <1>1, <1>2 DEF Next, Terminating

(* Guards nest: however a thread and the sinks it runs open and close them, *)
(* by returning or by an exception, and whatever the other threads log or   *)
(* install, each remembers the level of the one it is inside of, and the    *)
(* level in force is the one the innermost asked for.                       *)
THEOREM GuardsRestoreTheLevel == Spec => []GuardsNest
<1>1. Inv /\ NestInv => GuardsNest
  <2> SUFFICES ASSUME Inv, NestInv, NEW t \in program.ScopedLevel, Sole(t)
               PROVE  LET s == stack[t]
                      IN  /\ \A k \in 1..Len(s) : ChainedAt(s, k)
                          /\ (s = << >> \/ Top(t).fn # "set_level") => level = Asked(s)
    BY DEF GuardsNest, Sole, ChainedAt, Asked
  <2>1. t \in Threads
    BY LoggingAssumption DEF Inv, TypeOK
  <2>2. Nested(stack[t], level)
    BY <2>1 DEF NestInv
  <2>. QED
    BY <2>2, InForce DEF Nested, Chained, Top
<1>2. Init => AllAlternate /\ NestInv
  BY InitImplements, NestInit
<1>3. Inv /\ Inv' /\ AllAlternate /\ NestInv /\ [Next]_vars => AllAlternate' /\ NestInv'
  BY StepImplements, NestStep
<1>. QED
  BY <1>1, <1>2, <1>3, Invariance, PTL DEF Spec

=============================================================================
