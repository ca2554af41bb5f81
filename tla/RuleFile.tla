------------------------------ MODULE RuleFile ------------------------------
(***************************************************************************)
(* The rule file of internal/rulesplugin: a domain matcher kept in step    *)
(* with a file that an operator edits.  One goroutine at a time reloads    *)
(* (newRuleFile, then watch); it reads, sanitizes, may rewrite the file,   *)
(* and only then swaps the matcher.  The operator saves at any moment,     *)
(* between any two of those steps, and MosDNS may be restarted at any      *)
(* moment, which loses everything but the file.                            *)
(***************************************************************************)
EXTENDS Integers

CONSTANTS
    Rules,          \* domain expressions in canonical form
    Saves,          \* what an operator may save: contents or Absent
    Oversized,      \* the contents larger than maxRuleFileBytes
    Absent,         \* the file does not exist
    NoMatcher,      \* the nil matcher
    MaxSaves,       \* bound on the operator's saves
    MaxRestarts     \* bound on restarts of MosDNS

\* A line is a rule as sanitizeRules would write it, a rule in another
\* spelling (case, a missing type, an inline comment), a line that
\* normalizeRule rejects, or a comment or blank line.  A content is the set of
\* its lines: sanitizeRules keeps their order and the matcher does not see it.
\* Its size is known only as far as reload looks at it.  Sanitizing may make a
\* content smaller or larger, since a rule without a type is given one.
Line == [form : {"canonical", "spelled", "invalid", "comment"}, rule : Rules]

ASSUME RuleFileAssumption ==
    /\ Saves \subseteq {Absent} \cup SUBSET Line
    /\ Oversized \subseteq SUBSET Line /\ {} \notin Oversized
    /\ \A content \in SUBSET Line : content \notin {Absent, NoMatcher}
    /\ MaxSaves \in Nat
    /\ MaxRestarts \in Nat

VARIABLES
    file,           \* the file on disk
    saves,          \* operator saves so far
    restarts,       \* restarts so far
    pc,             \* where the goroutine is
    raw,            \* what reload has read
    matcher,        \* the content r.matcher was built from
    lastGood,       \* r.lastGood
    loaded,         \* r.loaded
    outcome,        \* what the last reload returned
    watching,       \* the directory has been added to the watcher
    events,         \* events for the file that watch has not received
    armed,          \* timerC is not nil
    closed,         \* Close has been called
    missed,         \* history: saved since the last read, with no event
    ours            \* history: the file is as a reload has written it

memory == <<matcher, lastGood, loaded>>
watch == <<watching, armed, closed>>
world == <<saves, restarts>>
history == <<missed, ours>>
vars == <<file, world, pc, raw, memory, outcome, watch, events, history>>

Reloading == {"read", "decide", "write", "rebuild", "commit"}
Stopped == {"closed", "failed"}

TypeOK ==
    /\ file \in {Absent} \cup SUBSET Line
    /\ saves \in 0..MaxSaves
    /\ restarts \in 0..MaxRestarts
    /\ pc \in Reloading \cup Stopped \cup {"add", "select"}
    /\ raw \in {Absent} \cup SUBSET Line
    /\ matcher \in {NoMatcher} \cup SUBSET Line
    /\ lastGood \in SUBSET Line
    /\ loaded \in BOOLEAN
    /\ outcome \in {"ok", "error"}
    /\ watching \in BOOLEAN
    /\ events \in Nat
    /\ armed \in BOOLEAN
    /\ closed \in BOOLEAN
    /\ missed \in BOOLEAN
    /\ ours \in BOOLEAN

\* MosDNS starts with whatever file is there.
Init ==
    /\ file \in Saves
    /\ saves = 0
    /\ restarts = 0
    /\ pc = "read"
    /\ raw = Absent
    /\ matcher = NoMatcher
    /\ lastGood = {}
    /\ loaded = FALSE
    /\ outcome = "ok"
    /\ watching = FALSE
    /\ events = 0
    /\ armed = FALSE
    /\ closed = FALSE
    /\ missed = FALSE
    /\ ours = FALSE
-----------------------------------------------------------------------------
\* Lines that are neither blank nor a comment: stats.meaningful counts them.
Meaningful(content) == {l \in content : l.form # "comment"}

Accepted(content) == {l \in content : l.form \in {"canonical", "spelled"}}

\* The cleaned file: the accepted rules, normalized, and nothing else.  It may
\* be oversized although the content is not.
Cleaned(content) == {[l EXCEPT !.form = "canonical"] : l \in Accepted(content)}

\* Mutant of Restoring: a file of invalid rules is taken as it is.
RestoringMissing == raw \in {Absent} \cup Oversized

\* The file is gone, too large, or, once something is loaded, all invalid.
Restoring ==
    \/ raw \in {Absent} \cup Oversized
    \/ /\ raw # Absent
       /\ loaded /\ Accepted(raw) = {} /\ Meaningful(raw) # {}

\* What this reload leaves in the file: the previous rules if it restores
\* (none before the first load), otherwise the sanitized ones.
Target == IF Restoring THEN lastGood ELSE Cleaned(raw)
-----------------------------------------------------------------------------
\* reload returns to newRuleFile or to watch.
Finish(result) ==
    /\ outcome' = result
    /\ pc' = IF watching THEN "select" ELSE IF result = "ok" THEN "add" ELSE "failed"

\* os.ReadFile.
Read ==
    /\ pc = "read"
    /\ raw' = file
    /\ pc' = "decide"
    /\ missed' = FALSE
    /\ UNCHANGED <<file, world, memory, outcome, watch, events, ours>>

\* os.ReadFile fails otherwise than because there is no file.
ReadFails ==
    /\ pc = "read" /\ file # Absent
    /\ Finish("error")
    /\ UNCHANGED <<file, world, raw, memory, watch, events, history>>

\* A restoring reload goes on to rewrite the file.
Restore ==
    /\ pc = "decide" /\ Restoring
    /\ pc' = "write"
    /\ UNCHANGED <<file, world, raw, memory, outcome, watch, events, history>>

\* Mutant of Build: the file is rewritten whether it differs or not.
BuildAndWrite ==
    /\ pc = "decide" /\ ~Restoring
    /\ pc' = "write"
    /\ UNCHANGED <<file, world, raw, memory, outcome, watch, events, history>>

\* buildMatcher, before the file is rewritten if it differs.
Build ==
    /\ pc = "decide" /\ ~Restoring
    /\ pc' = IF raw = Cleaned(raw) THEN "commit" ELSE "write"
    /\ UNCHANGED <<file, world, raw, memory, outcome, watch, events, history>>

\* buildMatcher, after a first load has cleared the file.
Rebuild ==
    /\ pc = "rebuild"
    /\ pc' = "commit"
    /\ UNCHANGED <<file, world, raw, memory, outcome, watch, events, history>>

\* A bundled rule file cannot be read.
BuildFails ==
    /\ (pc = "decide" /\ ~Restoring) \/ pc = "rebuild"
    /\ Finish("error")
    /\ UNCHANGED <<file, world, raw, memory, watch, events, history>>

\* os.Rename in writeFileAtomic, which the watcher reports like any save.
Write ==
    /\ pc = "write"
    /\ file' = Target
    /\ ours' = TRUE
    /\ events' = IF watching /\ ~closed THEN events + 1 ELSE events
    /\ IF Restoring /\ loaded
       THEN Finish("ok")
       ELSE pc' = (IF Restoring THEN "rebuild" ELSE "commit") /\ UNCHANGED outcome
    /\ UNCHANGED <<world, raw, memory, watch, missed>>

\* writeFileAtomic fails: the file is as it was.
WriteFails ==
    /\ pc = "write"
    /\ Finish("error")
    /\ UNCHANGED <<file, world, raw, memory, watch, events, history>>

\* Mutants of Commit: lastGood is not updated, or the events of reload's own
\* rewrite are dropped with all the others.
CommitMatcherOnly ==
    /\ pc = "commit"
    /\ matcher' = Target
    /\ loaded' = TRUE
    /\ Finish("ok")
    /\ UNCHANGED <<file, world, raw, lastGood, watch, events, history>>

CommitDropsEvents ==
    /\ pc = "commit"
    /\ matcher' = Target
    /\ lastGood' = Target
    /\ loaded' = TRUE
    /\ events' = 0
    /\ Finish("ok")
    /\ UNCHANGED <<file, world, raw, watch, history>>

\* The swap under r.mu.
Commit ==
    /\ pc = "commit"
    /\ matcher' = Target
    /\ lastGood' = Target
    /\ loaded' = TRUE
    /\ Finish("ok")
    /\ UNCHANGED <<file, world, raw, watch, events, history>>

\* w.Add and the go statement, after the first reload.
AddWatch ==
    /\ pc = "add"
    /\ watching' = TRUE
    /\ pc' = "select"
    /\ UNCHANGED <<file, world, raw, memory, outcome, armed, closed, events, history>>

\* The watcher cannot be created: newRuleFile returns the error.
AddWatchFails ==
    /\ pc = "add"
    /\ pc' = "failed"
    /\ UNCHANGED <<file, world, raw, memory, outcome, watch, events, history>>

\* case event: the debounce timer is started, or restarted.
TakeEvent ==
    /\ pc = "select" /\ events > 0
    /\ events' = events - 1
    /\ armed' = TRUE
    /\ UNCHANGED <<file, world, pc, raw, memory, outcome, watching, closed, history>>

\* case <-timerC, which a select may prefer to a closed done channel.
TimerFires ==
    /\ pc = "select" /\ armed
    /\ armed' = FALSE
    /\ pc' = "read"
    /\ UNCHANGED <<file, world, raw, memory, outcome, watching, closed, events, history>>

\* case <-r.done, or the closed event channel.
WatchReturns ==
    /\ pc = "select" /\ closed
    /\ pc' = "closed"
    /\ armed' = FALSE
    /\ UNCHANGED <<file, world, raw, memory, outcome, watching, closed, events, history>>
-----------------------------------------------------------------------------
\* Close, from another goroutine; the watcher delivers nothing any more.
Close ==
    /\ watching /\ ~closed
    /\ closed' = TRUE
    /\ events' = 0
    /\ UNCHANGED <<file, world, pc, raw, memory, outcome, watching, armed, history>>

\* The operator saves or removes the file.
Save ==
    /\ saves < MaxSaves
    /\ \E content \in Saves \ {file} : file' = content
    /\ saves' = saves + 1
    /\ ours' = FALSE
    /\ IF watching /\ ~closed
       THEN events' = events + 1 /\ UNCHANGED missed
       ELSE missed' = TRUE /\ UNCHANGED events
    /\ UNCHANGED <<restarts, pc, raw, memory, outcome, watch>>

\* MosDNS dies or has stopped, and is started again.
Restart ==
    /\ restarts < MaxRestarts
    /\ restarts' = restarts + 1
    /\ pc' = "read"
    /\ raw' = Absent
    /\ matcher' = NoMatcher
    /\ lastGood' = {}
    /\ loaded' = FALSE
    /\ outcome' = "ok"
    /\ watching' = FALSE
    /\ events' = 0
    /\ armed' = FALSE
    /\ closed' = FALSE
    /\ UNCHANGED <<file, saves, history>>

Goroutine ==
    \/ Read \/ ReadFails
    \/ Restore \/ Build \/ Rebuild \/ BuildFails
    \/ Write \/ WriteFails \/ Commit
    \/ AddWatch \/ AddWatchFails
    \/ TakeEvent \/ TimerFires \/ WatchReturns

Done == pc \in Stopped /\ UNCHANGED vars

Next == Goroutine \/ Close \/ Save \/ Restart \/ Done

Spec == Init /\ [][Next]_vars

\* The goroutine is scheduled, its timer fires and events are delivered.
FairSpec == Spec /\ WF_vars(Goroutine)
-----------------------------------------------------------------------------
\* watch has nothing left to do.
Idle == pc = "select" /\ events = 0 /\ ~armed /\ ~closed

(***************************************************************************)
(* When the watcher is idle after a reload that reported no error, the     *)
(* active rules are those of the file, which is in its sanitized form.  No *)
(* interleaving of saves, rewrites, the events of those rewrites and the   *)
(* debounce leaves them different: reload compares, rewrites and swaps in  *)
(* an order that lets every change cause one more reload.  The one change  *)
(* excepted is a save that the watcher was not yet there to report.        *)
(***************************************************************************)
SettledFileIsActive ==
    Idle /\ outcome = "ok" /\ ~missed => file = matcher

(***************************************************************************)
(* What reload has written, it answers from.  A restore puts back the      *)
(* rules in force and not older ones, a file is rewritten only when the    *)
(* matcher for it can be built, no failure stops reload between the two,   *)
(* and a MosDNS that has loaded a file of an earlier one agrees with it:   *)
(* until the operator saves again, file and active rules differ only       *)
(* between the rename and the swap.                                        *)
(***************************************************************************)
RewrittenFileIsActive ==
    ours /\ loaded /\ pc \notin {"rebuild", "commit"} => file = matcher

(***************************************************************************)
(* "so active policy is not lost": rules in force are replaced by none     *)
(* only because the file reload read had no line but blanks and comments,  *)
(* never because it was invalid, oversized or removed.                     *)
(***************************************************************************)
ClearedOnlyByEmptyFile ==
    [][matcher \notin {NoMatcher, {}} /\ matcher' = {}
           => raw \notin {Absent} \cup Oversized /\ Meaningful(raw) = {}]_vars

(***************************************************************************)
(* Every write of the sanitized file is itself an event.  The watcher does *)
(* not chase its own writes for ever: once the operator stops, it settles. *)
(* Excepted are rules that are too large once they are sanitized: reload   *)
(* rejects the file it has written and restores it, time after time.       *)
(***************************************************************************)
WatcherSettles == <>[](Idle \/ pc \in Stopped) \/ <>[](lastGood \in Oversized)

(***************************************************************************)
(* The file a reload has written, by sanitizing, restoring or clearing, is *)
(* not written again before the operator has saved: not by the reload that *)
(* its own event causes, not after a failure half way, and not by a MosDNS *)
(* started later, which reads it with nothing to restore from.  The one    *)
(* exception is again a file that sanitizing has made oversized.           *)
(***************************************************************************)
RewrittenOnce == [][Write => ~ours \/ file \in Oversized]_vars

(***************************************************************************)
(* "Saved changes are hot-reloaded": what the operator saves is read       *)
(* before it is replaced.  It does not hold: writeFileAtomic renames over  *)
(* whatever is in the file, not over what reload has read.                 *)
(***************************************************************************)
SavedChangeIsRead == [][Write => file = raw]_vars
=============================================================================
