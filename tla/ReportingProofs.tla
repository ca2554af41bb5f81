--------------------------- MODULE ReportingProofs ---------------------------
(***************************************************************************)
(* The safety of Reporting, for any number of queries in a life of MosDNS  *)
(* and any number of lines in the pipe.                                    *)
(***************************************************************************)
EXTENDS Reporting, FiniteSetTheorems, TLAPS

\* The queries whose value of f is in S.
Where(f, S) == {q \in Ids : f[q] \in S}

\* Every line this MosDNS has written.
Written == Logged \cup suppressed

\* A line belongs to a query of the running MosDNS.  When MosDNS has died its
\* queries are gone, but its lines still agree on the listener of each.
LineInv ==
    /\ \A line \in Written :
           running => pc[line.uqid] # "idle" /\ line.listener = listener[line.uqid]
    /\ \A l1, l2 \in Written : l1.uqid = l2.uqid => l1.listener = l2.listener

\* A query in boundaries has been reported, and what was dropped is internal.
BoundaryInv ==
    /\ \A q \in boundaries : \E line \in output \cup lost :
           line.uqid = q /\ line.what = "entry err" /\ line.deadline
    /\ \A line \in suppressed : line.what = "lookup" /\ line.deadline

\* A query has a result once Collect has seen it, and only then; what is
\* logged about it after that is not a disconnect.
ResultInv ==
    /\ \A q \in Ids : pc[q] \in {"idle", "exec"} => result[q] = "ok"
    /\ ~running => \A q \in Ids : pc[q] = "idle"
    /\ \A line \in Logged : running /\ line.what # "lookup" =>
           /\ pc[line.uqid] \in {"respond", "ended"}
           /\ ~(Wrapped(line.uqid) /\ Expected(result[line.uqid]))

\* The counters, as numbers of queries.
CounterInv ==
    /\ thread = Cardinality(Where(pc, {"exec"}))
    /\ queryTotal = Cardinality(Where(pc, {"exec", "report", "respond", "ended"}))
    /\ canceledTotal = Cardinality(Where(result, {"canceled", "reset"}))
    /\ errTotal = Cardinality(Where(result, {"deadline", "upstream"}))
    /\ cancelEvents \in Nat
    /\ cancelEvents <= Cardinality(Where(pc, {"respond", "ended"}))
                           + Cardinality(Where(pc, {"ended"}))

IInv == TypeOK /\ LineInv /\ BoundaryInv /\ ResultInv /\ CounterInv /\ SuppressedOnlyAfterReport
-----------------------------------------------------------------------------
\* The elements of a sequence of lines.
Elements(s) == {s[i] : i \in DOMAIN s}

\* What Append adds to the pipe.
LEMMA AppendElements ==
    ASSUME NEW s \in Seq(Lines), NEW line \in Lines
    PROVE  /\ Append(s, line) \in Seq(Lines)
           /\ Len(Append(s, line)) = Len(s) + 1
           /\ Elements(Append(s, line)) = Elements(s) \cup {line}
<1> DEFINE t == Append(s, line)
<1>1. /\ Len(s) \in Nat
      /\ t \in Seq(Lines) /\ Len(t) = Len(s) + 1
      /\ \A i \in 1..Len(s) : t[i] = s[i]
      /\ t[Len(s) + 1] = line
  OBVIOUS
<1> HIDE DEF t
<1>2. DOMAIN s = 1..Len(s) /\ DOMAIN t = 1..(Len(s) + 1)
  BY <1>1
<1>3. 1..(Len(s) + 1) = 1..Len(s) \cup {Len(s) + 1}
  BY <1>1
<1>4. Elements(t) = Elements(s) \cup {line}
  BY <1>1, <1>2, <1>3 DEF Elements
<1> QED BY <1>1, <1>4 DEF t

\* What the reader takes from the pipe.
LEMMA TailElements ==
    ASSUME NEW s \in Seq(Lines), s # <<>>
    PROVE  /\ Head(s) \in Lines
           /\ Tail(s) \in Seq(Lines)
           /\ Len(Tail(s)) = Len(s) - 1
           /\ Elements(s) = {Head(s)} \cup Elements(Tail(s))
<1>1. /\ Len(s) \in Nat \ {0}
      /\ \A i \in 1..Len(s) : s[i] \in Lines
      /\ Head(s) = s[1]
      /\ Tail(s) \in Seq(Lines)
      /\ Len(Tail(s)) = Len(s) - 1
      /\ \A i \in 1..(Len(s) - 1) : Tail(s)[i] = s[i + 1]
  OBVIOUS
<1>2. DOMAIN s = 1..Len(s) /\ DOMAIN Tail(s) = 1..(Len(s) - 1)
  BY <1>1
<1>3. \A x : x \in Elements(s) <=> x \in {Head(s)} \cup Elements(Tail(s))
  <2>1. ASSUME NEW i \in 1..Len(s)
        PROVE  s[i] \in {Head(s)} \cup Elements(Tail(s))
    <3>1. CASE i = 1
      BY <1>1, <3>1
    <3>2. CASE i # 1
      <4>1. i - 1 \in 1..(Len(s) - 1) /\ Tail(s)[i - 1] = s[i]
        BY <1>1, <3>2
      <4> QED BY <4>1, <1>2 DEF Elements
    <3> QED BY <3>1, <3>2
  <2>2. ASSUME NEW i \in 1..(Len(s) - 1)
        PROVE  Tail(s)[i] \in Elements(s)
    <3>1. i + 1 \in 1..Len(s) /\ Tail(s)[i] = s[i + 1]
      BY <1>1
    <3> QED BY <3>1, <1>2 DEF Elements
  <2>3. Head(s) \in Elements(s)
    BY <1>1, <1>2 DEF Elements
  <2> QED BY <2>1, <2>2, <2>3, <1>2 DEF Elements
<1> QED BY <1>1, <1>3

\* The queries in a state are finitely many, and at most NQueries.
LEMMA WhereFinite ==
    ASSUME NEW f, NEW S
    PROVE  /\ IsFiniteSet(Where(f, S))
           /\ Cardinality(Where(f, S)) \in 0..NQueries
<1>1. IsFiniteSet(Ids) /\ Cardinality(Ids) = NQueries
  BY ReportingAssumption, FS_Interval DEF Ids
<1>2. Where(f, S) \subseteq Ids
  BY DEF Where
<1>3. /\ IsFiniteSet(Where(f, S))
      /\ Cardinality(Where(f, S)) <= Cardinality(Ids)
  BY <1>1, <1>2, FS_Subset
<1>4. Cardinality(Where(f, S)) \in Nat
  BY <1>3, FS_CardinalityType
<1> QED BY <1>1, <1>3, <1>4

\* One query moves into S.
LEMMA WhereEnters ==
    ASSUME NEW f, NEW g, NEW q \in Ids, NEW S,
           \A p \in Ids \ {q} : g[p] = f[p],
           f[q] \notin S, g[q] \in S
    PROVE  Cardinality(Where(g, S)) = Cardinality(Where(f, S)) + 1
<1>1. Where(g, S) = Where(f, S) \cup {q} /\ q \notin Where(f, S)
  BY DEF Where
<1> QED BY <1>1, WhereFinite, FS_AddElement

\* One query moves out of S.
LEMMA WhereLeaves ==
    ASSUME NEW f, NEW g, NEW q \in Ids, NEW S,
           \A p \in Ids \ {q} : g[p] = f[p],
           f[q] \in S, g[q] \notin S
    PROVE  Cardinality(Where(g, S)) = Cardinality(Where(f, S)) - 1
<1>1. Where(g, S) = Where(f, S) \ {q} /\ q \in Where(f, S)
  BY DEF Where
<1> QED BY <1>1, WhereFinite, FS_RemoveElement

\* One query moves within S, or outside it.
LEMMA WhereStays ==
    ASSUME NEW f, NEW g, NEW q \in Ids, NEW S,
           \A p \in Ids \ {q} : g[p] = f[p],
           f[q] \in S <=> g[q] \in S
    PROVE  Where(g, S) = Where(f, S)
  BY DEF Where
-----------------------------------------------------------------------------
\* What is logged, by its parts.
LEMMA LoggedParts ==
    /\ Logged = (output \cup lost \cup {pending} \cup Elements(pipe)) \ {None}
    /\ Logged' = (output' \cup lost' \cup {pending'} \cup Elements(pipe')) \ {None}
  BY DEF Logged, Elements

\* A step that logs a line adds it, one of childLogWriter adds nothing.
LEMMA LogAdds ==
    ASSUME TypeOK, NEW line \in Lines, Log(line), UNCHANGED logVars
    PROVE  /\ pipe' \in Seq(Lines) /\ Len(pipe') <= PipeLimit
           /\ Logged' = Logged \cup {line}
           /\ Written' = Written \cup {line}
<1>1. pipe' = Append(pipe, line) /\ Len(pipe) < PipeLimit /\ pipe \in Seq(Lines)
  BY DEF Log, TypeOK
<1>2. /\ pipe' \in Seq(Lines) /\ Len(pipe') = Len(pipe) + 1
      /\ Elements(pipe') = Elements(pipe) \cup {line}
  BY <1>1, AppendElements
<1>3. Logged' = Logged \cup {line}
  BY <1>2, LoggedParts, NoneAssumption DEF logVars
<1>4. Len(pipe') <= PipeLimit
  BY <1>1, <1>2, ReportingAssumption
<1> QED BY <1>2, <1>3, <1>4 DEF Written, logVars

\* A part of a line that is pending is still counted as logged.
LEMMA ReadPartKeeps ==
    ASSUME TypeOK, ReadPart
    PROVE  /\ pipe' \in Seq(Lines) /\ Len(pipe') <= PipeLimit
           /\ pending' \in Lines
           /\ Logged' = Logged
           /\ Written' = Written
<1>1. /\ pipe \in Seq(Lines) /\ pipe # <<>> /\ Len(pipe) <= PipeLimit
      /\ pipe' = Tail(pipe) /\ pending' = Head(pipe) /\ pending = None
      /\ UNCHANGED <<output, suppressed, lost>>
  BY DEF ReadPart, TypeOK
<1>2. /\ Head(pipe) \in Lines /\ Tail(pipe) \in Seq(Lines) /\ Len(Tail(pipe)) = Len(pipe) - 1
      /\ Elements(pipe) = {Head(pipe)} \cup Elements(Tail(pipe))
  BY <1>1, TailElements
<1>3. Logged' = Logged
  BY <1>1, <1>2, LoggedParts
<1>4. Len(pipe') <= PipeLimit
  BY <1>1, <1>2, ReportingAssumption
<1> QED BY <1>1, <1>2, <1>3, <1>4 DEF Written

\* A line that is written or dropped was pending.
LEMMA PassKeeps ==
    ASSUME TypeOK, pending # None, Pass(pending), UNCHANGED pipe
    PROVE  /\ pending \in Lines /\ pending \in Logged
           /\ Logged' \subseteq Logged
           /\ Written' \subseteq Written
<1>1. pending \in Lines /\ pending \in Logged
  BY LoggedParts DEF TypeOK
<1>2. /\ pending' = None /\ lost' = lost
      /\ \/ output' = output /\ suppressed' = suppressed \cup {pending}
         \/ output' = output \cup {pending} /\ suppressed' = suppressed
  BY DEF Pass
<1>3. Logged' \subseteq Logged
  BY <1>2, LoggedParts
<1> QED BY <1>1, <1>2, <1>3 DEF Written

\* A failing write takes every line that is on its way.
LEMMA FailureKeeps ==
    ASSUME TypeOK, OutputFails
    PROVE  /\ pipe' \in Seq(Lines) /\ Len(pipe') <= PipeLimit
           /\ pending \in Lines /\ pending' \in {None} \cup Lines /\ lost' \subseteq Lines
           /\ Logged' = Logged
           /\ Written' = Written
<1>1. /\ pending \in Lines /\ pipe' = <<>> /\ UNCHANGED <<output, suppressed>>
      /\ lost' = lost \cup {pending} \cup Elements(pipe)
      /\ pending' \in {None} \cup Elements(pipe)
  BY DEF OutputFails, Elements, TypeOK
<1>2. Elements(pipe) \subseteq Lines /\ Elements(pipe') = {}
  BY <1>1 DEF TypeOK, Elements
<1>3. Logged' = Logged
  BY <1>1, <1>2, LoggedParts, NoneAssumption
<1>4. pipe' \in Seq(Lines) /\ Len(pipe') <= PipeLimit
  BY <1>1, ReportingAssumption
<1> QED BY <1>1, <1>2, <1>3, <1>4 DEF Written, TypeOK
-----------------------------------------------------------------------------
\* Counters: each step moves one query at most.
LEMMA CounterStep == IInv /\ [Next]_vars => CounterInv'
<1> SUFFICES ASSUME IInv, [Next]_vars
             PROVE  CounterInv'
  OBVIOUS
<1> DEFINE Exec == {"exec"}
           Seen == {"exec", "report", "respond", "ended"}
           Reported == {"respond", "ended"}
           Over == {"ended"}
           Cancels == {"canceled", "reset"}
           Errors == {"deadline", "upstream"}
           N(f, S) == Cardinality(Where(f, S))
<1>1. /\ thread = N(pc, Exec) /\ queryTotal = N(pc, Seen)
      /\ canceledTotal = N(result, Cancels) /\ errTotal = N(result, Errors)
      /\ cancelEvents \in Nat /\ cancelEvents <= N(pc, Reported) + N(pc, Over)
  BY DEF IInv, CounterInv
<1>2. /\ N(pc, Exec) \in Nat /\ N(pc, Seen) \in Nat
      /\ N(pc, Reported) \in Nat /\ N(pc, Over) \in Nat
      /\ N(result, Cancels) \in Nat /\ N(result, Errors) \in Nat
  BY WhereFinite
<1>3. SUFFICES /\ thread' = N(pc', Exec) /\ queryTotal' = N(pc', Seen)
               /\ canceledTotal' = N(result', Cancels) /\ errTotal' = N(result', Errors)
               /\ cancelEvents' \in Nat /\ cancelEvents' <= N(pc', Reported) + N(pc', Over)
  BY DEF CounterInv
<1>4. ASSUME NEW q \in Ids, NEW v, pc' = [pc EXCEPT ![q] = v]
      PROVE  pc'[q] = v /\ \A p \in Ids \ {q} : pc'[p] = pc[p]
  BY <1>4 DEF IInv, TypeOK
<1>5. CASE \E q \in Ids : Begin(q)
  <2>1. PICK q \in Ids : Begin(q)
    BY <1>5
  <2>2. pc[q] = "idle" /\ pc'[q] = "exec" /\ \A p \in Ids \ {q} : pc'[p] = pc[p]
    BY <1>4, <2>1 DEF Begin
  <2>3. N(pc', Exec) = N(pc, Exec) + 1
    BY <2>2, WhereEnters
  <2>4. N(pc', Seen) = N(pc, Seen) + 1
    BY <2>2, WhereEnters
  <2>5. N(pc', Reported) = N(pc, Reported) /\ N(pc', Over) = N(pc, Over)
    BY <2>2, WhereStays
  <2> HIDE DEF Exec, Seen, Reported, Over, Cancels, Errors, N
  <2> QED BY <1>1, <2>1, <2>3, <2>4, <2>5 DEF Begin
<1>6. CASE \E q \in Ids : Collect(q)
  <2>1. PICK q \in Ids : Collect(q)
    BY <1>6
  <2>2. PICK r \in Results :
            /\ result' = [result EXCEPT ![q] = r]
            /\ canceledTotal' = canceledTotal + (IF Expected(r) THEN 1 ELSE 0)
            /\ errTotal' = errTotal + (IF r = "ok" \/ Expected(r) THEN 0 ELSE 1)
    BY <2>1 DEF Collect
  <2>3. pc[q] = "exec" /\ pc'[q] = "report" /\ \A p \in Ids \ {q} : pc'[p] = pc[p]
    BY <1>4, <2>1 DEF Collect
  <2>4. result[q] = "ok" /\ result'[q] = r /\ \A p \in Ids \ {q} : result'[p] = result[p]
    BY <2>2, <2>3 DEF IInv, TypeOK, ResultInv
  <2>5. N(pc', Exec) = N(pc, Exec) - 1
    BY <2>3, WhereLeaves
  <2>6. /\ N(pc', Seen) = N(pc, Seen) /\ N(pc', Reported) = N(pc, Reported)
        /\ N(pc', Over) = N(pc, Over)
    BY <2>3, WhereStays
  <2>7. /\ r \in Cancels => N(result', Cancels) = N(result, Cancels) + 1
        /\ r \in Errors => N(result', Errors) = N(result, Errors) + 1
    BY <2>4, WhereEnters
  <2>8. /\ r \notin Cancels => N(result', Cancels) = N(result, Cancels)
        /\ r \notin Errors => N(result', Errors) = N(result, Errors)
    <3>1. result[q] \notin Cancels /\ result[q] \notin Errors
      BY <2>4
    <3> HIDE DEF Cancels, Errors
    <3>2. ASSUME NEW S, result[q] \notin S, r \notin S
          PROVE  Where(result', S) = Where(result, S)
      BY <2>4, <3>2, WhereStays
    <3> QED BY <3>1, <3>2
  <2>9. /\ Expected(r) <=> r \in Cancels
        /\ ~(r = "ok" \/ Expected(r)) <=> r \in Errors
    BY <2>2 DEF Results, Expected
  <2> HIDE DEF Exec, Seen, Reported, Over, Cancels, Errors, N
  <2> QED BY <1>1, <1>2, <2>1, <2>2, <2>5, <2>6, <2>7, <2>8, <2>9 DEF Collect
<1>7. CASE \E q \in Ids : Report(q)
  <2>1. PICK q \in Ids : Report(q)
    BY <1>7
  <2>2. pc[q] = "report" /\ pc'[q] = "respond" /\ \A p \in Ids \ {q} : pc'[p] = pc[p]
    BY <1>4, <2>1 DEF Report
  <2>3. N(pc', Reported) = N(pc, Reported) + 1
    BY <2>2, WhereEnters
  <2>4. N(pc', Exec) = N(pc, Exec) /\ N(pc', Seen) = N(pc, Seen) /\ N(pc', Over) = N(pc, Over)
    BY <2>2, WhereStays
  <2>5. cancelEvents' \in {cancelEvents, cancelEvents + 1}
    BY <2>1 DEF Report, Warn
  <2>6. UNCHANGED <<result, thread, queryTotal, errTotal, canceledTotal>>
    BY <2>1 DEF Report
  <2>7. N(result', Cancels) = N(result, Cancels) /\ N(result', Errors) = N(result, Errors)
    BY <2>6
  <2> HIDE DEF Exec, Seen, Reported, Over, Cancels, Errors, N
  <2> QED BY <1>1, <1>2, <2>3, <2>4, <2>5, <2>6, <2>7
<1>8. CASE \E q \in Ids : Respond(q)
  <2>1. PICK q \in Ids : Respond(q)
    BY <1>8
  <2>2. pc[q] = "respond" /\ pc'[q] = "ended" /\ \A p \in Ids \ {q} : pc'[p] = pc[p]
    BY <1>4, <2>1 DEF Respond
  <2>3. N(pc', Over) = N(pc, Over) + 1
    BY <2>2, WhereEnters
  <2>4. /\ N(pc', Exec) = N(pc, Exec) /\ N(pc', Seen) = N(pc, Seen)
        /\ N(pc', Reported) = N(pc, Reported)
    BY <2>2, WhereStays
  <2>5. cancelEvents' \in {cancelEvents, cancelEvents + 1}
    BY <2>1 DEF Respond, Warn
  <2>6. UNCHANGED <<result, thread, queryTotal, errTotal, canceledTotal>>
    BY <2>1 DEF Respond
  <2>7. N(result', Cancels) = N(result, Cancels) /\ N(result', Errors) = N(result, Errors)
    BY <2>6
  <2> HIDE DEF Exec, Seen, Reported, Over, Cancels, Errors, N
  <2> QED BY <1>1, <1>2, <2>3, <2>4, <2>5, <2>6, <2>7
<1>9. CASE Dies
  <2>1. /\ Where(pc', Exec) = {} /\ Where(pc', Seen) = {}
        /\ Where(pc', Reported) = {} /\ Where(pc', Over) = {}
    BY <1>9 DEF Dies, Where
  <2>2. Where(result', Cancels) = {} /\ Where(result', Errors) = {}
    BY <1>9 DEF Dies, Where
  <2> QED BY <1>9, <2>1, <2>2, FS_EmptySet DEF Dies
<1>10. CASE UNCHANGED <<pc, result, counters>>
  BY <1>10, <1>1 DEF counters
<1> QED BY <1>5, <1>6, <1>7, <1>8, <1>9, <1>10
        DEF Next, Handle, Copy, LookupTimesOut, Expire, ReadPart, ReadRest, Flush, OutputFails,
            Restart, vars, queries
-----------------------------------------------------------------------------
\* The parts of the invariant about lines and results.
TextInv == LineInv /\ BoundaryInv /\ ResultInv /\ SuppressedOnlyAfterReport

\* A handler moves its query on and adds at most one line, of its own.
LEMMA HandlerStep ==
    ASSUME IInv, NEW q \in Ids, Handle(q) \/ LookupTimesOut(q)
    PROVE  TextInv'
<1> USE DEF IInv, TypeOK
<1>1. running /\ running' /\ UNCHANGED logVars
  BY DEF Handle, Begin, Collect, Report, Respond, LookupTimesOut
<1>2. ASSUME UNCHANGED pipe
      PROVE  Logged' = Logged /\ Written' = Written
  BY <1>1, <1>2 DEF Logged, Written, logVars
<1>3. BoundaryInv' /\ SuppressedOnlyAfterReport'
  BY <1>1 DEF BoundaryInv, SuppressedOnlyAfterReport, logVars
<1>4. CASE Begin(q)
  BY <1>1, <1>2, <1>3, <1>4 DEF Begin, TextInv, LineInv, ResultInv, Wrapped
<1>5. CASE Collect(q)
  BY <1>1, <1>2, <1>3, <1>5 DEF Collect, TextInv, LineInv, ResultInv, Wrapped
<1>6. ASSUME NEW what \in {"entry err", "lookup"}, NEW deadline \in BOOLEAN,
             Log(Line(q, what, deadline))
      PROVE  LET line == Line(q, what, deadline)
             IN  /\ line.uqid = q /\ line.listener = listener[q] /\ line.what = what
                 /\ Logged' = Logged \cup {line} /\ Written' = Written \cup {line}
  <2>1. Line(q, what, deadline) \in Lines
    BY DEF Line, Lines
  <2>2. /\ Logged' = Logged \cup {Line(q, what, deadline)}
        /\ Written' = Written \cup {Line(q, what, deadline)}
    BY <1>1, <1>6, <2>1, LogAdds
  <2> QED BY <2>2 DEF Line
<1>7. CASE LookupTimesOut(q)
  <2> DEFINE line == Line(q, "lookup", TRUE)
  <2>1. /\ line.uqid = q /\ line.listener = listener[q] /\ line.what = "lookup"
        /\ Logged' = Logged \cup {line} /\ Written' = Written \cup {line}
    BY <1>6, <1>7 DEF LookupTimesOut
  <2>2. pc[q] # "idle" /\ UNCHANGED <<running, pc, listener, result>>
    BY <1>7 DEF LookupTimesOut
  <2> HIDE DEF line
  <2>3. LineInv'
    BY <1>1, <2>1, <2>2 DEF LineInv
  <2>4. ResultInv'
    BY <1>1, <2>1, <2>2 DEF ResultInv, Wrapped
  <2> QED BY <1>3, <2>3, <2>4 DEF TextInv
<1>8. CASE Report(q) /\ UNCHANGED pipe
  <2>1. /\ pc[q] = "report" /\ pc' = [pc EXCEPT ![q] = "respond"]
        /\ UNCHANGED <<running, listener, result>>
    BY <1>8 DEF Report
  <2> QED BY <1>1, <1>2, <1>3, <1>8, <2>1 DEF TextInv, LineInv, ResultInv, Wrapped
<1>9. CASE Report(q) /\ pipe' # pipe
  <2> DEFINE line == Line(q, "entry err", result[q] = "deadline")
  <2>1. Log(line) /\ ~(Wrapped(q) /\ Expected(result[q]))
    BY <1>9 DEF Report, Warn
  <2>2. /\ line.uqid = q /\ line.listener = listener[q]
        /\ Logged' = Logged \cup {line} /\ Written' = Written \cup {line}
    BY <1>6, <2>1
  <2>3. /\ pc[q] = "report" /\ pc' = [pc EXCEPT ![q] = "respond"]
        /\ UNCHANGED <<running, listener, result>>
    BY <1>9 DEF Report
  <2> HIDE DEF line
  <2>4. LineInv'
    BY <1>1, <2>2, <2>3 DEF LineInv
  <2>5. ResultInv'
    BY <1>1, <2>1, <2>2, <2>3 DEF ResultInv, Wrapped
  <2> QED BY <1>3, <2>4, <2>5 DEF TextInv
<1>10. CASE Respond(q)
  <2>1. UNCHANGED pipe
    BY <1>10 DEF Respond, Warn, Expected
  <2>2. pc[q] = "respond" /\ pc' = [pc EXCEPT ![q] = "ended"]
        /\ UNCHANGED <<running, listener, result>>
    BY <1>10 DEF Respond
  <2> QED BY <1>1, <1>2, <1>3, <2>1, <2>2 DEF TextInv, LineInv, ResultInv, Wrapped
<1> QED BY <1>4, <1>5, <1>7, <1>8, <1>9, <1>10 DEF Handle

\* The death of MosDNS leaves its lines.
LEMMA DiesStep == IInv /\ Dies => TextInv'
<1> SUFFICES ASSUME IInv, Dies PROVE TextInv'
  OBVIOUS
<1>1. Logged' = Logged /\ Written' = Written /\ ~running'
  BY DEF Dies, Logged, Written, logVars
<1>2. LineInv' /\ ResultInv'
  BY <1>1 DEF Dies, IInv, LineInv, ResultInv
<1>3. BoundaryInv' /\ SuppressedOnlyAfterReport'
  BY DEF Dies, IInv, BoundaryInv, SuppressedOnlyAfterReport, logVars
<1> QED BY <1>2, <1>3 DEF TextInv

\* childLogWriter writes or drops what is pending.
LEMMA CopyStep == IInv /\ Copy => TextInv'
<1> SUFFICES ASSUME IInv, Copy PROVE TextInv'
  OBVIOUS
<1>1. UNCHANGED <<running, queries>>
  BY DEF Copy, ReadPart, ReadRest, Flush
<1>2. Logged' \subseteq Logged /\ Written' \subseteq Written
  BY ReadPartKeeps, PassKeeps DEF IInv, Copy, ReadRest, Flush
<1>3. LineInv' /\ ResultInv'
  BY <1>1, <1>2 DEF IInv, LineInv, ResultInv, queries, Wrapped
<1>4. CASE ReadPart
  BY <1>3, <1>4 DEF ReadPart, IInv, TextInv, BoundaryInv, SuppressedOnlyAfterReport
<1>5. CASE ReadRest \/ Flush
  <2> DEFINE line == pending
  <2>1. line \in Lines /\ line \in Logged /\ Pass(line)
    BY <1>5, PassKeeps DEF ReadRest, Flush, IInv
  <2> HIDE DEF line
  <2>2. CASE Suppress(line)
    <3>1. /\ output' = output /\ suppressed' = suppressed \cup {line} /\ boundaries' = boundaries
          /\ lost' = lost /\ line.what = "lookup" /\ line.deadline /\ line.uqid \in boundaries
      BY <2>1, <2>2 DEF Pass, Remember, Suppress, Boundary
    <3>2. PICK reported \in output \cup lost :
              reported.uqid = line.uqid /\ reported.what = "entry err" /\ reported.deadline
      BY <3>1 DEF IInv, BoundaryInv
    <3>3. reported \in Lines /\ reported \in Logged
      BY NoneAssumption DEF IInv, TypeOK, Logged
    <3>4. reported.listener = line.listener
      BY <2>1, <3>2, <3>3 DEF IInv, LineInv, Written
    <3>5. [line EXCEPT !.what = "entry err"] = reported
      BY <2>1, <3>1, <3>2, <3>3, <3>4 DEF Lines
    <3>6. BoundaryInv' /\ SuppressedOnlyAfterReport'
      BY <3>1, <3>5 DEF IInv, BoundaryInv, SuppressedOnlyAfterReport
    <3> QED BY <1>3, <3>6 DEF TextInv
  <2>3. CASE ~Suppress(line)
    <3>1. /\ output' = output \cup {line} /\ suppressed' = suppressed /\ lost' = lost
          /\ \A q \in boundaries' : \/ q \in boundaries
                                    \/ q = line.uqid /\ line.what = "entry err" /\ line.deadline
      BY <2>1, <2>3 DEF Pass, Remember, Boundary
    <3>2. BoundaryInv' /\ SuppressedOnlyAfterReport'
      BY <3>1 DEF IInv, BoundaryInv, SuppressedOnlyAfterReport
    <3> QED BY <1>3, <3>2 DEF TextInv
  <2> QED BY <2>2, <2>3
<1> QED BY <1>4, <1>5 DEF Copy

\* The output fails: lines are lost, and suppress takes their queries as reported.
LEMMA FailureStep == IInv /\ OutputFails => TextInv'
<1> SUFFICES ASSUME IInv, OutputFails PROVE TextInv'
  OBVIOUS
<1>1. UNCHANGED <<running, queries, output, suppressed>>
  BY DEF OutputFails
<1>2. Logged' = Logged /\ Written' = Written
  BY FailureKeeps DEF IInv
<1>3. LineInv' /\ ResultInv'
  BY <1>1, <1>2 DEF IInv, LineInv, ResultInv, queries, Wrapped
<1>4. /\ lost \subseteq lost' /\ pending \in lost'
      /\ \A q \in boundaries' : \/ q \in boundaries
                                \/ /\ q = pending.uqid /\ pending.what = "entry err"
                                   /\ pending.deadline
  BY DEF OutputFails, Remember, Boundary
<1>5. BoundaryInv' /\ SuppressedOnlyAfterReport'
  BY <1>1, <1>4 DEF IInv, BoundaryInv, SuppressedOnlyAfterReport
<1> QED BY <1>3, <1>5 DEF TextInv

\* The window of the deduper, a new MosDNS with a new deduper, or nothing.
LEMMA OtherStep ==
    ASSUME IInv, (\E q \in Ids : Expire(q)) \/ Restart \/ UNCHANGED vars
    PROVE  TextInv'
<1> USE DEF IInv, TextInv
<1>1. ASSUME NEW q \in Ids, Expire(q) PROVE TextInv'
  <2>1. Logged' = Logged /\ Written' = Written
    BY <1>1 DEF Expire, Logged, Written
  <2> QED BY <1>1, <2>1 DEF Expire, LineInv, BoundaryInv, ResultInv, SuppressedOnlyAfterReport,
                            Wrapped, queries
<1>2. CASE Restart
  <2>1. Written' = {} /\ Logged' = {}
    BY <1>2, LoggedParts DEF Restart, Written, Elements
  <2> QED BY <1>2, <2>1 DEF Restart, FreshBoundaries, LineInv, BoundaryInv, ResultInv,
                            SuppressedOnlyAfterReport, queries
<1>3. CASE UNCHANGED vars
  <2>1. Logged' = Logged /\ Written' = Written
    BY <1>3 DEF vars, logVars, Logged, Written
  <2> QED BY <1>3, <2>1 DEF vars, queries, logVars, LineInv, BoundaryInv, ResultInv,
                            SuppressedOnlyAfterReport, Wrapped
<1> QED BY <1>1, <1>2, <1>3
-----------------------------------------------------------------------------
\* The bounds of the counters follow from what they count.
LEMMA CountersTyped ==
    CounterInv' => /\ thread' \in 0..NQueries /\ queryTotal' \in 0..NQueries
                   /\ errTotal' \in 0..NQueries /\ canceledTotal' \in 0..NQueries
                   /\ cancelEvents' \in 0..2 * NQueries
  BY WhereFinite, ReportingAssumption DEF CounterInv

\* Every step preserves the types of what is not counted.
LEMMA TypeStep == IInv /\ [Next]_vars => TypeOK'
<1> SUFFICES ASSUME IInv, [Next]_vars
             PROVE  TypeOK'
  OBVIOUS
<1> USE DEF IInv, Next, Handle, Copy, Begin, LookupTimesOut, Collect, Report, Respond, Warn, Dies,
            ReadPart, ReadRest, Flush, OutputFails, Expire, Restart, vars, queries, counters,
            logVars
<1>1. /\ thread' \in 0..NQueries /\ queryTotal' \in 0..NQueries
      /\ errTotal' \in 0..NQueries /\ canceledTotal' \in 0..NQueries
      /\ cancelEvents' \in 0..2 * NQueries
  BY CounterStep, CountersTyped
<1>2. running' \in BOOLEAN /\ looked' \in [Ids -> BOOLEAN]
  BY DEF TypeOK
<1>3. pc' \in [Ids -> {"idle", "ended"} \cup Running]
  BY DEF TypeOK, Running
<1>4. listener' \in [Ids -> Listeners]
  BY DEF TypeOK, Listeners
<1>5. result' \in [Ids -> Results]
  BY DEF TypeOK, Results
<1>6. boundaries' \subseteq Ids /\ output' \subseteq Lines /\ suppressed' \subseteq Lines
  BY DEF TypeOK, Pass, Remember, Boundary, Lines, FreshBoundaries
<1>7. pipe' \in Seq(Lines) /\ Len(pipe') <= PipeLimit
  <2>1. CASE UNCHANGED pipe
    BY <2>1 DEF TypeOK
  <2>2. CASE ReadPart
    BY <2>2, ReadPartKeeps
  <2>3. CASE UNCHANGED logVars /\ \E line \in Lines : Log(line)
    BY <2>3, LogAdds
  <2>4. ASSUME NEW q \in Ids, NEW what \in {"entry err", "failed to write response", "lookup"},
               NEW deadline \in BOOLEAN
        PROVE  Line(q, what, deadline) \in Lines
    BY DEF Line, Lines, TypeOK
  <2>5. CASE OutputFails
    BY <2>5, FailureKeeps
  <2> HIDE DEF OutputFails
  <2> QED BY <2>1, <2>2, <2>3, <2>4, <2>5
<1>8. pending' \in {None} \cup Lines
  BY ReadPartKeeps, FailureKeeps DEF TypeOK, Pass
<1>9. lost' \subseteq Lines
  BY FailureKeeps DEF TypeOK, Pass
<1> QED BY <1>1, <1>2, <1>3, <1>4, <1>5, <1>6, <1>7, <1>8, <1>9 DEF TypeOK
-----------------------------------------------------------------------------
\* The invariant holds when MosDNS has been started for the first time.
LEMMA InitInvariant == Init => IInv
<1> SUFFICES ASSUME Init PROVE IInv
  OBVIOUS
<1>1. /\ Where(pc, {"exec"}) = {} /\ Where(pc, {"exec", "report", "respond", "ended"}) = {}
      /\ Where(pc, {"respond", "ended"}) = {} /\ Where(pc, {"ended"}) = {}
      /\ Where(result, {"canceled", "reset"}) = {} /\ Where(result, {"deadline", "upstream"}) = {}
  BY DEF Init, Where
<1>2. CounterInv
  <2>1. Cardinality({}) = 0
    BY FS_EmptySet
  <2>2. /\ Cardinality(Where(pc, {"exec"})) = 0
        /\ Cardinality(Where(pc, {"exec", "report", "respond", "ended"})) = 0
        /\ Cardinality(Where(pc, {"respond", "ended"})) = 0
        /\ Cardinality(Where(pc, {"ended"})) = 0
        /\ Cardinality(Where(result, {"canceled", "reset"})) = 0
        /\ Cardinality(Where(result, {"deadline", "upstream"})) = 0
    BY <1>1, <2>1, Zenon
  <2> QED BY <2>2 DEF Init, CounterInv
<1>3. Logged = {} /\ Written = {}
  BY DEF Init, Logged, Written
<1>4. LineInv /\ BoundaryInv /\ ResultInv /\ SuppressedOnlyAfterReport
  BY <1>3 DEF Init, LineInv, BoundaryInv, ResultInv, SuppressedOnlyAfterReport
<1>5. running \in BOOLEAN /\ looked \in [Ids -> BOOLEAN]
  BY DEF Init
<1>6. /\ pc \in [Ids -> {"idle", "ended"} \cup Running]
      /\ listener \in [Ids -> Listeners]
      /\ result \in [Ids -> Results]
  BY DEF Init, Listeners, Results
<1>7. pipe \in Seq(Lines) /\ Len(pipe) <= PipeLimit
  BY ReportingAssumption DEF Init
<1>8. TypeOK
  BY <1>5, <1>6, <1>7, ReportingAssumption DEF Init, TypeOK
<1> QED BY <1>2, <1>4, <1>8 DEF IInv

\* Every step preserves the invariant.
LEMMA StepInvariant == IInv /\ [Next]_vars => IInv'
<1> SUFFICES ASSUME IInv, [Next]_vars
             PROVE  TextInv'
  BY TypeStep, CounterStep DEF IInv, TextInv
<1> QED BY HandlerStep, DiesStep, CopyStep, FailureStep, OtherStep DEF Next

\* The inductive invariant holds in every behaviour of MosDNS and its restarts.
LEMMA Invariance == Spec => []IInv
  BY InitInvariant, StepInvariant, PTL DEF Spec

(***************************************************************************)
(* Types, among them that no counter passes the number of queries and that *)
(* the gauge of queries in progress never becomes negative.                *)
(***************************************************************************)
THEOREM TypeCorrect == Spec => []TypeOK
<1>1. IInv => TypeOK
  BY DEF IInv
<1> QED BY <1>1, Invariance, PTL

(***************************************************************************)
(* An internal deadline warning is dropped only if the report of the same  *)
(* query of the same MosDNS has been written.                              *)
(***************************************************************************)
THEOREM NothingUnreportedIsDropped == Spec => []SuppressedOnlyAfterReport
<1>1. IInv => SuppressedOnlyAfterReport
  BY DEF IInv
<1> QED BY <1>1, Invariance, PTL

(***************************************************************************)
(* A disconnect of a TCP client is never logged and never counted as an    *)
(* error; every other failure is counted.                                  *)
(***************************************************************************)
THEOREM DisconnectsAreNoErrors == Spec => []DisconnectsAreQuiet
<1>1. IInv => DisconnectsAreQuiet
  <2> SUFFICES ASSUME IInv PROVE DisconnectsAreQuiet
    OBVIOUS
  <2> DEFINE Cancels == Where(result, {"canceled", "reset"})
             Errors == Where(result, {"deadline", "upstream"})
             Failed == {q \in Ids : pc[q] \in {"report", "respond", "ended"} /\ result[q] # "ok"}
             Visible == {q \in Ids : result[q] \in {"deadline", "upstream"}}
  <2>1. \A q \in Ids : result[q] # "ok" => pc[q] \in {"report", "respond", "ended"}
    BY DEF IInv, TypeOK, ResultInv, Running
  <2>2. Failed = Cancels \cup Errors /\ Cancels \cap Errors = {} /\ Visible = Errors
    BY <2>1 DEF Where, IInv, TypeOK, Results
  <2>3. canceledTotal = Cardinality(Cancels) /\ errTotal = Cardinality(Errors)
    BY DEF IInv, CounterInv
  <2>4. IsFiniteSet(Cancels) /\ IsFiniteSet(Errors) /\ Cardinality(Errors) \in Nat
        /\ Cardinality(Cancels) \in Nat
    BY WhereFinite
  <2> HIDE DEF Cancels, Errors, Failed, Visible
  <2>5. Cardinality(Failed) = Cardinality(Cancels) + Cardinality(Errors)
    <3>1. Cardinality(Cancels \cup Errors)
              = Cardinality(Cancels) + Cardinality(Errors) - Cardinality(Cancels \cap Errors)
      BY <2>4, FS_Union
    <3>2. Cardinality(Cancels \cap Errors) = 0
      BY <2>2, FS_EmptySet
    <3> QED BY <2>2, <2>4, <3>1, <3>2
  <2>6. canceledTotal + errTotal = Cardinality(Failed) /\ errTotal = Cardinality(Visible)
    BY <2>2, <2>3, <2>4, <2>5
  <2>7. \A line \in Logged :
            Wrapped(line.uqid) /\ result[line.uqid] = "canceled" => line.what = "lookup"
    <3> SUFFICES ASSUME NEW line \in Logged,
                        Wrapped(line.uqid), result[line.uqid] = "canceled"
                 PROVE  line.what = "lookup"
      OBVIOUS
    <3>1. line \in Lines
      <4>1. output \subseteq Lines /\ lost \subseteq Lines /\ pending \in {None} \cup Lines
            /\ \A i \in DOMAIN pipe : pipe[i] \in Lines
        BY DEF IInv, TypeOK
      <4> QED BY <4>1 DEF Logged
    <3>2. line.uqid \in Ids
      BY <3>1 DEF Lines
    <3>3. running
      BY <3>2 DEF IInv, ResultInv, TypeOK
    <3> QED BY <3>2, <3>3 DEF IInv, ResultInv, Expected
  <2> QED BY <2>6, <2>7 DEF DisconnectsAreQuiet, Failed, Visible
<1> QED BY <1>1, Invariance, PTL
-----------------------------------------------------------------------------
\* The line of a failure that is no disconnect.
IsReportOf(line, q) == line.uqid = q /\ line.what = "entry err"

\* A failed query whose handler has gone on has its line in the pipe, pending,
\* in the output, or lost to a failing write of it.
FailureIsLogged ==
    \A q \in Ids : pc[q] \in {"respond", "ended"} /\ result[q] \in {"deadline", "upstream"}
                       => \E line \in Logged : IsReportOf(line, q)

\* Such a line leaves the way to the output only when it has been handed to it:
\* it is neither suppressed nor lost with MosDNS, its last chunk or a restart,
\* and counts as lost to the output only in the step in which a write fails.
ReportsArrive ==
    \A line \in Logged : line.what = "entry err" =>
        /\ line \in Logged' \/ line \in output \cup lost
        /\ line \in lost' => line \in lost \/ OutputFails

\* A line stays where it was or moves on, unless it is suppressed.
LEMMA ReportsStay == IInv /\ [Next]_vars /\ ~Restart =>
    \A line \in Logged : line.what = "entry err" => line \in Logged'
<1> SUFFICES ASSUME IInv, [Next]_vars, ~Restart
             PROVE  \A line \in Logged : line.what = "entry err" => line \in Logged'
  OBVIOUS
<1>1. ASSUME NEW q \in Ids, Handle(q) \/ LookupTimesOut(q)
      PROVE  Logged \subseteq Logged'
  <2>1. UNCHANGED logVars
    BY <1>1 DEF Handle, Begin, Collect, Report, Respond, LookupTimesOut
  <2>2. CASE UNCHANGED pipe
    BY <2>1, <2>2 DEF Logged, logVars
  <2>3. CASE \E line \in Lines : Log(line)
    BY <2>1, <2>3, LogAdds DEF IInv
  <2>4. ASSUME NEW what \in {"entry err", "failed to write response", "lookup"},
               NEW deadline \in BOOLEAN
        PROVE  Line(q, what, deadline) \in Lines
    BY DEF Line, Lines, IInv, TypeOK
  <2> QED BY <1>1, <2>2, <2>3, <2>4
          DEF Handle, Begin, Collect, Report, Respond, LookupTimesOut, Warn
<1>2. CASE UNCHANGED <<pipe, pending, output, lost>>
  BY <1>2 DEF Logged
<1>3. CASE ReadPart
  BY <1>3, ReadPartKeeps DEF IInv
<1>4. CASE ReadRest \/ Flush
  <2>1. UNCHANGED <<pipe, lost>> /\ Pass(pending)
    BY <1>4 DEF ReadRest, Flush, Pass
  <2>2. /\ output \subseteq output'
        /\ pending.what = "entry err" => pending \in output'
    BY <2>1 DEF Pass, Suppress
  <2> QED BY <2>1, <2>2, LoggedParts
<1>5. CASE OutputFails
  BY <1>5, FailureKeeps DEF IInv
<1> QED BY <1>1, <1>2, <1>3, <1>4, <1>5
        DEF Next, Copy, Dies, Expire, vars, logVars

(***************************************************************************)
(* The safety half of FailureIsReported: Report has written the line of    *)
(* every failed query before its handler goes on, and childLogWriter, the  *)
(* deduper, the death of MosDNS and its restart take it nowhere but to the *)
(* output; it is lost only if a write of the output fails.                 *)
(***************************************************************************)
THEOREM ReportsAreNotLost == Spec => []FailureIsLogged /\ [][ReportsArrive]_vars
<1>1. Init => FailureIsLogged
  BY DEF Init, FailureIsLogged
<1>2. IInv /\ FailureIsLogged /\ [Next]_vars => FailureIsLogged'
  <2> SUFFICES ASSUME IInv, FailureIsLogged, [Next]_vars, NEW q \in Ids,
                      pc'[q] \in {"respond", "ended"}, result'[q] \in {"deadline", "upstream"}
               PROVE  \E line \in Logged' : IsReportOf(line, q)
    BY DEF FailureIsLogged
  <2>1. ~Restart
    BY DEF Restart, queries, IInv, ResultInv
  <2>2. CASE Report(q)
    <3> DEFINE line == Line(q, "entry err", result[q] = "deadline")
    <3>1. Log(line) /\ UNCHANGED logVars
      BY <2>2 DEF Report, Warn, Expected
    <3>2. line \in Lines /\ IsReportOf(line, q)
      BY DEF Line, Lines, IsReportOf, IInv, TypeOK
    <3> HIDE DEF line
    <3>3. line \in Logged'
      BY <3>1, <3>2, LogAdds DEF IInv
    <3> QED BY <3>2, <3>3
  <2>3. CASE ~Report(q)
    <3>1. pc[q] \in {"respond", "ended"} /\ result[q] = result'[q]
      BY <2>1, <2>3 DEF IInv, TypeOK, Next, Handle, Begin, Collect, Report, Respond, LookupTimesOut,
         Copy, ReadPart, ReadRest, Flush, OutputFails, Dies, Expire, vars, queries
    <3>2. PICK line \in Logged : IsReportOf(line, q)
      BY <3>1 DEF FailureIsLogged
    <3> QED BY <2>1, <3>2, ReportsStay DEF IsReportOf
  <2> QED BY <2>2, <2>3
<1>3. IInv /\ [Next]_vars => [ReportsArrive]_vars
  <2> SUFFICES ASSUME IInv, [Next]_vars PROVE ReportsArrive
    OBVIOUS
  <2>1. OutputFails \/ lost' \subseteq lost
    BY DEF Next, Handle, Begin, Collect, Report, Respond, LookupTimesOut, Copy, ReadPart,
       ReadRest, Flush, Pass, Dies, Expire, Restart, vars, logVars
  <2>2. CASE Restart
    BY <2>1, <2>2, LoggedParts DEF Restart, Elements, ReportsArrive
  <2> QED BY <2>1, <2>2, ReportsStay DEF ReportsArrive
<1> QED BY <1>1, <1>2, <1>3, Invariance, PTL DEF Spec
-----------------------------------------------------------------------------
\* The steps of the copying goroutine until line i of the pipe is written or
\* dropped: two for it and for every line before it, one for a pending one.
Turn(i) == 2 * i + (IF pending = None THEN 0 ELSE 1)

TurnsBound == \A i \in DOMAIN pipe : Turn(i) \in 2..2 * PipeLimit + 1

\* Each of them brings every line one step nearer, in its order, and nothing else
\* takes a line away or puts one before it, the death of MosDNS included; only a
\* failing write of the output loses the lines behind it.
LinesAdvance ==
    \A i \in DOMAIN pipe :
        \/ /\ Copy
           /\ \/ Turn(i) = 2 /\ pending' = pipe[i]
              \/ \E j \in DOMAIN pipe' : pipe'[j] = pipe[i] /\ Turn(j)' = Turn(i) - 1
        \/ OutputFails /\ pipe[i] \in lost'
        \/ ~Copy /\ i \in DOMAIN pipe' /\ pipe'[i] = pipe[i] /\ Turn(i)' = Turn(i)

\* The copying goroutine reads in order.
LEMMA CopyAdvances ==
    ASSUME IInv, Copy, NEW i \in DOMAIN pipe
    PROVE  \/ Turn(i) = 2 /\ pending' = pipe[i]
           \/ \E j \in DOMAIN pipe' : pipe'[j] = pipe[i] /\ Turn(j)' = Turn(i) - 1
<1>1. pipe \in Seq(Lines) /\ i \in 1..Len(pipe) /\ Len(pipe) \in Nat /\ i \in Int
  BY DEF IInv, TypeOK
<1>2. CASE ReadPart
  <2>1. pending = None /\ pending' = Head(pipe) /\ pipe' = Tail(pipe) /\ pipe # <<>>
    BY <1>2 DEF ReadPart
  <2>2. Head(pipe) # None
    BY <1>1, <2>1, TailElements, NoneAssumption
  <2>3. CASE i = 1
    BY <1>1, <2>1, <2>3 DEF Turn
  <2>4. CASE i # 1
    <3>1. i - 1 \in DOMAIN pipe' /\ pipe'[i - 1] = pipe[i]
      BY <1>1, <2>1, <2>4
    <3>2. Turn(i) = 2 * i + 0 /\ Turn(i - 1)' = 2 * (i - 1) + 1
      BY <2>1, <2>2 DEF Turn
    <3>3. 2 * (i - 1) + 1 = (2 * i + 0) - 1
      BY <1>1
    <3> QED BY <3>1, <3>2, <3>3
  <2> QED BY <2>3, <2>4
<1>3. CASE ReadRest \/ Flush
  <2>1. pending # None /\ pending' = None /\ pipe' = pipe
    BY <1>3 DEF ReadRest, Flush, Pass
  <2>2. Turn(i) = 2 * i + 1 /\ Turn(i)' = 2 * i + 0
    BY <2>1 DEF Turn
  <2>3. 2 * i + 0 = (2 * i + 1) - 1
    BY <1>1
  <2> QED BY <2>1, <2>2, <2>3
<1> QED BY <1>2, <1>3 DEF Copy

\* Everyone else appends to the pipe or leaves it alone.
LEMMA OthersAppend ==
    ASSUME IInv, Next, ~Copy, ~OutputFails, NEW i \in DOMAIN pipe
    PROVE  i \in DOMAIN pipe' /\ pipe'[i] = pipe[i] /\ Turn(i)' = Turn(i)
<1>1. pipe \in Seq(Lines) /\ pipe # <<>>
  BY DEF IInv, TypeOK
<1>2. /\ pending' = pending
      /\ pipe' = pipe \/ \E line : pipe' = Append(pipe, line)
  BY <1>1 DEF Next, Handle, Begin, Collect, Report, Respond, LookupTimesOut, Warn, Log, Dies,
              Expire, Restart, logVars
<1>3. i \in DOMAIN pipe' /\ pipe'[i] = pipe[i]
  <2>1. CASE pipe' = pipe
    BY <2>1
  <2>2. ASSUME NEW line, pipe' = Append(pipe, line)
        PROVE  i \in DOMAIN pipe' /\ pipe'[i] = pipe[i]
    BY <1>1, <2>2
  <2> QED BY <1>2, <2>1, <2>2
<1> QED BY <1>2, <1>3 DEF Turn

\* A failing write loses every line of the pipe.
LEMMA FailureTakes ==
    ASSUME OutputFails, NEW i \in DOMAIN pipe
    PROVE  pipe[i] \in lost'
  BY DEF OutputFails

(***************************************************************************)
(* The other safety half of FailureIsReported, a bound: a line written to  *)
(* the log is passed or dropped after at most twice as many steps of the   *)
(* copying goroutine as the pipe holds lines, and one: later lines never   *)
(* overtake it, and neither a cut chunk nor the end of MosDNS holds it up. *)
(* The exception is a line whose output fails before.                      *)
(***************************************************************************)
THEOREM LinesAreNear == Spec => []TurnsBound /\ [][LinesAdvance]_vars
<1>1. IInv => TurnsBound
  <2> SUFFICES ASSUME IInv, NEW i \in DOMAIN pipe PROVE Turn(i) \in 2..2 * PipeLimit + 1
    BY DEF TurnsBound
  <2>1. i \in 1..PipeLimit /\ PipeLimit \in Nat
    BY ReportingAssumption DEF IInv, TypeOK
  <2>2. Turn(i) = 2 * i + 0 \/ Turn(i) = 2 * i + 1
    BY DEF Turn
  <2> QED BY <2>1, <2>2
<1>2. IInv /\ [Next]_vars => [LinesAdvance]_vars
  BY CopyAdvances, OthersAppend, FailureTakes DEF LinesAdvance
<1> QED BY <1>1, <1>2, Invariance, PTL DEF Spec
=============================================================================
