------------------------------ MODULE Reporting ------------------------------
(***************************************************************************)
(* What an operator gets to know of a query that ends badly: the counters  *)
(* of guarddns_metrics_collector, the log of MosDNS behind the filter of   *)
(* guarddns_tcp_server, and the entrypoint's filter of that log, which     *)
(* drops internal deadline warnings of a query that is already reported.   *)
(*                                                                         *)
(* Queries run concurrently and their lookups may outlive them, so that    *)
(* internal lines come before or after the line of the request.  MosDNS    *)
(* may die at any moment; the next one numbers its queries from one again. *)
(***************************************************************************)
EXTENDS Integers, Sequences, FiniteSets

CONSTANTS
    NQueries,       \* bound: queries of one life of MosDNS
    PipeLimit,      \* bound: lines in the pipe
    None            \* no line

ASSUME ReportingAssumption ==
    /\ NQueries \in Nat \ {0}
    /\ PipeLimit \in Nat \ {0}

Ids == 1..NQueries          \* "uqid" in a line
Listeners == {"main_tcp", "main_udp", "secure_tcp", "secure_udp"}

\* How the sequence of a query ends: its client has gone, its deadline has
\* passed, an upstream reset the connection, or another upstream error.
Results == {"ok", "canceled", "deadline", "reset", "upstream"}

\* A line of the log.
Lines ==
    [uqid : Ids, listener : Listeners,
     what : {"entry err", "failed to write response", "lookup"}, deadline : BOOLEAN]

ASSUME NoneAssumption == None \notin Lines

VARIABLES
    running,        \* MosDNS runs
    pc,             \* per query: where its handler is
    listener,       \* per query
    result,         \* per query: how its sequence ended
    looked,         \* per query: its lookup has logged a deadline
    thread,         \* thread, the queries in the sequence
    queryTotal,     \* query_total
    errTotal,       \* err_total
    canceledTotal,  \* canceled_total
    cancelEvents,   \* guarddns_client_cancel_events_total
    pipe,           \* lines MosDNS has written
    pending,        \* the line childLogWriter has a part of
    boundaries,     \* d.boundaries
    output,         \* lines of this MosDNS written to the log of the container
    suppressed,     \* lines of this MosDNS dropped by the deduper
    lost            \* lines of this MosDNS that a failing write of the output met

counters == <<thread, queryTotal, errTotal, canceledTotal, cancelEvents>>
queries == <<pc, listener, result, looked>>
logVars == <<pending, boundaries, output, suppressed, lost>>
vars == <<running, queries, counters, pipe, logVars>>

Running == {"exec", "report", "respond"}

TypeOK ==
    /\ running \in BOOLEAN
    /\ pc \in [Ids -> {"idle", "ended"} \cup Running]
    /\ listener \in [Ids -> Listeners]
    /\ result \in [Ids -> Results]
    /\ looked \in [Ids -> BOOLEAN]
    /\ thread \in 0..NQueries
    /\ queryTotal \in 0..NQueries
    /\ errTotal \in 0..NQueries
    /\ canceledTotal \in 0..NQueries
    /\ cancelEvents \in 0..2 * NQueries
    /\ pipe \in Seq(Lines) /\ Len(pipe) <= PipeLimit
    /\ pending \in {None} \cup Lines
    /\ boundaries \subseteq Ids
    /\ output \subseteq Lines
    /\ suppressed \subseteq Lines
    /\ lost \subseteq Lines

Init ==
    /\ running = TRUE
    /\ pc = [q \in Ids |-> "idle"]
    /\ listener = [q \in Ids |-> "main_tcp"]
    /\ result = [q \in Ids |-> "ok"]
    /\ looked = [q \in Ids |-> FALSE]
    /\ thread = 0
    /\ queryTotal = 0
    /\ errTotal = 0
    /\ canceledTotal = 0
    /\ cancelEvents = 0
    /\ pipe = <<>>
    /\ pending = None
    /\ boundaries = {}
    /\ output = {}
    /\ suppressed = {}
    /\ lost = {}
-----------------------------------------------------------------------------
Line(q, what, deadline) ==
    [uqid |-> q, listener |-> listener[q], what |-> what, deadline |-> deadline]

\* The logger of MosDNS.  Once nobody reads the pipe, a write to it ends MosDNS.
Log(line) == lost = {} /\ Len(pipe) < PipeLimit /\ pipe' = Append(pipe, line)

\* Mutant of Expected: a deadline counts as a disconnect.
ExpectedEnd(r) == r \in {"canceled", "deadline", "reset"}

\* cancelclassify.Expected, by the type or the text of the error: the reset of
\* an upstream reads like that of a client.
Expected(r) == r \in {"canceled", "reset"}

\* Whether the logger of a listener is wrapped in a cancellationCore.
Wrapped(q) == listener[q] \in {"main_tcp", "secure_tcp"}

\* Mutant of Begin: the gauge is not raised.
BeginUncounted(q) ==
    /\ running /\ pc[q] = "idle"
    /\ \E l \in Listeners : listener' = [listener EXCEPT ![q] = l]
    /\ pc' = [pc EXCEPT ![q] = "exec"]
    /\ queryTotal' = queryTotal + 1
    /\ UNCHANGED <<running, result, looked, thread, errTotal, canceledTotal, cancelEvents, pipe,
                   logVars>>

\* A query arrives and enters Exec of the collector.
Begin(q) ==
    /\ running /\ pc[q] = "idle"
    /\ \E l \in Listeners : listener' = [listener EXCEPT ![q] = l]
    /\ pc' = [pc EXCEPT ![q] = "exec"]
    /\ thread' = thread + 1
    /\ queryTotal' = queryTotal + 1
    /\ UNCHANGED <<running, result, looked, errTotal, canceledTotal, cancelEvents, pipe, logVars>>

\* A lookup behind the main listeners logs its deadline, even after the query.
LookupTimesOut(q) ==
    /\ running /\ pc[q] # "idle" /\ listener[q] \in {"main_tcp", "main_udp"} /\ ~looked[q]
    /\ looked' = [looked EXCEPT ![q] = TRUE]
    /\ Log(Line(q, "lookup", TRUE))
    /\ UNCHANGED <<running, pc, listener, result, counters, logVars>>

\* Exec of the collector returns.
Collect(q) ==
    /\ running /\ pc[q] = "exec"
    /\ \E r \in Results :
           /\ r = "canceled" => Wrapped(q)
           /\ result' = [result EXCEPT ![q] = r]
           /\ canceledTotal' = canceledTotal + (IF Expected(r) THEN 1 ELSE 0)
           /\ errTotal' = errTotal + (IF r = "ok" \/ Expected(r) THEN 0 ELSE 1)
    /\ thread' = thread - 1
    /\ pc' = [pc EXCEPT ![q] = "report"]
    /\ UNCHANGED <<running, listener, looked, queryTotal, cancelEvents, pipe, logVars>>

\* Write of the cancellationCore, or of the plain core.
Warn(q, what, r) ==
    IF Wrapped(q) /\ Expected(r)
    THEN cancelEvents' = cancelEvents + 1 /\ UNCHANGED pipe
    ELSE Log(Line(q, what, r = "deadline")) /\ UNCHANGED cancelEvents

\* The entry handler logs the error of the sequence.
Report(q) ==
    /\ running /\ pc[q] = "report"
    /\ IF result[q] = "ok" THEN UNCHANGED <<cancelEvents, pipe>>
       ELSE Warn(q, "entry err", result[q])
    /\ pc' = [pc EXCEPT ![q] = "respond"]
    /\ UNCHANGED <<running, listener, result, looked, thread, queryTotal, errTotal, canceledTotal,
                   logVars>>

\* The response is written, unless the client of a TCP connection has gone.
Respond(q) ==
    /\ running /\ pc[q] = "respond"
    /\ \/ result[q] # "canceled" /\ UNCHANGED <<cancelEvents, pipe>>
       \/ Wrapped(q) /\ Warn(q, "failed to write response", "canceled")
    /\ pc' = [pc EXCEPT ![q] = "ended"]
    /\ UNCHANGED <<running, listener, result, looked, thread, queryTotal, errTotal, canceledTotal,
                   logVars>>

\* MosDNS exits or is killed, with its queries and counters, perhaps after half a line.
Dies ==
    /\ running
    /\ running' = FALSE
    /\ pc' = [q \in Ids |-> "idle"]
    /\ listener' = [q \in Ids |-> "main_tcp"]
    /\ result' = [q \in Ids |-> "ok"]
    /\ looked' = [q \in Ids |-> FALSE]
    /\ thread' = 0 /\ queryTotal' = 0
    /\ errTotal' = 0 /\ canceledTotal' = 0 /\ cancelEvents' = 0
    /\ UNCHANGED <<pipe, logVars>>
-----------------------------------------------------------------------------
\* A chunk ends in the middle of the next line.
ReadPart ==
    /\ pending = None /\ pipe # <<>>
    /\ pending' = Head(pipe)
    /\ pipe' = Tail(pipe)
    /\ UNCHANGED <<running, queries, counters, boundaries, output, suppressed, lost>>

\* The line that marks a query as reported.
Boundary(line) ==
    line.deadline /\ line.what = "entry err" /\ line.listener \in {"main_tcp", "main_udp"}

\* suppress: an internal deadline of a query that has been reported.
Suppress(line) == line.deadline /\ line.what = "lookup" /\ line.uqid \in boundaries

\* suppress remembers a report before it is written.
Remember(line) ==
    boundaries' = IF Boundary(line) THEN boundaries \cup {line.uqid} ELSE boundaries

\* suppress, then w.dst.Write.
Pass(line) ==
    /\ Remember(line)
    /\ IF Suppress(line)
       THEN suppressed' = suppressed \cup {line} /\ UNCHANGED output
       ELSE output' = output \cup {line} /\ UNCHANGED suppressed
    /\ pending' = None
    /\ UNCHANGED lost

\* The newline arrives.
ReadRest ==
    /\ pending # None /\ lost = {}
    /\ Pass(pending)
    /\ UNCHANGED <<running, queries, counters, pipe>>

\* Mutant of Flush: what is pending is dropped.
FlushNothing ==
    /\ ~running /\ pipe = <<>> /\ pending # None
    /\ pending' = None
    /\ UNCHANGED <<running, queries, counters, pipe, boundaries, output, suppressed, lost>>

\* cmd.Wait has returned and no newline will come.
Flush ==
    /\ ~running /\ pipe = <<>> /\ pending # None
    /\ Pass(pending)
    /\ UNCHANGED <<running, queries, counters, pipe>>

\* w.dst.Write fails, in Write or in Flush.  Copying ends with the error and the
\* pipe is closed; what Write had already taken from it is left to Flush.
OutputFails ==
    /\ pending # None /\ ~Suppress(pending) /\ (lost = {} \/ ~running)
    /\ Remember(pending)
    /\ lost' = lost \cup {pending} \cup {pipe[i] : i \in DOMAIN pipe}
    /\ pending' \in {None} \cup {pipe[i] : i \in {1} \cap DOMAIN pipe}
    /\ pipe' = <<>>
    /\ UNCHANGED <<running, queries, counters, output, suppressed>>

\* childLogDedupeWindow passes.
Expire(q) ==
    /\ q \in boundaries
    /\ boundaries' = boundaries \ {q}
    /\ UNCHANGED <<running, queries, counters, pipe, pending, output, suppressed, lost>>

\* Mutant of FreshBoundaries: one deduper serves every process of the child.
SameBoundaries == boundaries' = boundaries

\* newChildLogDeduper.
FreshBoundaries == boundaries' = {}

\* superviseChild starts MosDNS again, with new writers and a new deduper.
Restart ==
    /\ ~running /\ pipe = <<>> /\ pending = None
    /\ running' = TRUE
    /\ FreshBoundaries
    /\ output' = {} /\ suppressed' = {} /\ lost' = {}
    /\ UNCHANGED <<queries, counters, pipe, pending>>

Handle(q) == Begin(q) \/ Collect(q) \/ Report(q) \/ Respond(q)

Copy == ReadPart \/ ReadRest \/ Flush

Next ==
    \/ \E q \in Ids : Handle(q) \/ LookupTimesOut(q) \/ Expire(q)
    \/ Dies \/ Copy \/ OutputFails \/ Restart

Spec == Init /\ [][Next]_vars

\* Handlers and the copying goroutine of os/exec are scheduled.
FairSpec == Spec /\ WF_vars(Copy) /\ \A q \in Ids : WF_vars(Handle(q))
-----------------------------------------------------------------------------
(***************************************************************************)
(* "internal deadline warnings are suppressed only after the same query    *)
(* was reported at the request boundary": the line of the same query of    *)
(* the same MosDNS, although uqids repeat after a restart.  A report whose *)
(* writing failed counts: suppress does not learn of that.                 *)
(***************************************************************************)
SuppressedOnlyAfterReport ==
    \A line \in suppressed :
        [line EXCEPT !.what = "entry err"] \in output \cup lost

\* Lines on their way, arrived, or lost to a failing write.
Logged == (output \cup lost \cup {pending} \cup {pipe[i] : i \in DOMAIN pipe}) \ {None}

(***************************************************************************)
(* "Expected downstream TCP disconnects are counted separately and do not  *)
(* produce warning noise or increment DNS err_total": a client that goes   *)
(* away leaves no line, and the errors counted are the deadlines and       *)
(* upstream errors exactly, through concurrent queries and restarts.       *)
(***************************************************************************)
DisconnectsAreQuiet ==
    /\ \A line \in Logged :
           Wrapped(line.uqid) /\ result[line.uqid] = "canceled" => line.what = "lookup"
    /\ canceledTotal + errTotal =
           Cardinality({q \in Ids : pc[q] \in {"report", "respond", "ended"} /\ result[q] # "ok"})
    /\ errTotal = Cardinality({q \in Ids : result[q] \in {"deadline", "upstream"}})

(***************************************************************************)
(* "client-visible request failures remain actionable warnings": the line  *)
(* of a failed query reaches the output, across chunks, the filter and the *)
(* end of MosDNS.  Excepted are a line that meets a failing write of the   *)
(* output and an upstream's reset, which is taken for a client's on a TCP  *)
(* listener.                                                               *)
(***************************************************************************)
FailureIsReported ==
    \A q \in Ids :
        (pc[q] = "respond" /\ result[q] \in {"deadline", "upstream"})
            ~> \E line \in output \cup lost : line.uqid = q /\ line.what = "entry err"
=============================================================================
