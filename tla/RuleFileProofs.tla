--------------------------- MODULE RuleFileProofs ---------------------------
(***************************************************************************)
(* The safety of RuleFile, for any set of rules, any contents an operator  *)
(* may save and any number of saves and restarts.                          *)
(***************************************************************************)
EXTENDS RuleFile, TLAPS

\* Where the goroutine is says what it has set up.
ControlInv ==
    /\ ~watching => events = 0 /\ ~armed /\ ~closed
    /\ watching => loaded /\ pc \notin {"add", "failed"}
    /\ pc \in {"select", "closed"} => watching
    /\ pc = "add" => loaded /\ outcome = "ok"
    /\ pc \in Reloading => ~armed
    /\ ~loaded => matcher = NoMatcher /\ lastGood = {}
    /\ loaded => matcher = lastGood
    /\ pc \in Reloading /\ loaded => watching
    /\ pc = "rebuild" => Restoring /\ ~loaded
    /\ pc = "commit" => (Restoring => ~loaded)

\* No change of the file is known to watch, or unknown to it.
Quiet == events = 0 /\ ~armed /\ ~missed /\ ~closed

\* Without such a change, the file is what this point of reload expects.
FileInv ==
    Quiet =>
        /\ pc \in {"decide", "write"} => file = raw
        /\ pc \in {"rebuild", "commit"} => file = Target
        /\ pc \in {"add", "select"} /\ outcome = "ok" => file = lastGood

\* The same of a file that a reload has written, whatever else is known.
OursInv ==
    ours =>
        /\ pc \in {"decide", "write"} => file = raw
        /\ pc \in {"rebuild", "commit"} => file = Target
        /\ loaded /\ pc \notin {"rebuild", "commit"} => file = matcher

IInv == TypeOK /\ ControlInv /\ FileInv /\ OursInv

\* Sanitizing gives lines.
LEMMA CleanedTyped ==
    ASSUME NEW content \in SUBSET Line
    PROVE  Cleaned(content) \in SUBSET Line
  BY DEF Cleaned, Accepted, Line

\* Without an accepted rule nothing is left, and the other way round.
LEMMA CleanedEmpty ==
    ASSUME NEW content, Cleaned(content) = {}
    PROVE  Accepted(content) = {}
  BY DEF Cleaned

\* What a reload leaves in the file is a set of lines.
LEMMA TargetTyped ==
    ASSUME TypeOK
    PROVE  Target \in SUBSET Line
<1>1. CASE Restoring
  BY <1>1 DEF Target, TypeOK
<1>2. CASE ~Restoring
  <2>1. raw \in SUBSET Line
    BY <1>2 DEF TypeOK, Restoring
  <2> QED BY <1>2, <2>1, CleanedTyped DEF Target
<1> QED BY <1>1, <1>2

\* The invariant holds when MosDNS starts.
LEMMA InitInvariant == Init => IInv
<1> SUFFICES ASSUME Init PROVE IInv
  OBVIOUS
<1> USE RuleFileAssumption DEF Init
<1>1. TypeOK
  <2>1. /\ loaded \in BOOLEAN /\ watching \in BOOLEAN /\ armed \in BOOLEAN
        /\ closed \in BOOLEAN /\ missed \in BOOLEAN /\ ours \in BOOLEAN
    BY Zenon
  <2>2. /\ file \in {Absent} \cup SUBSET Line
        /\ raw \in {Absent} \cup SUBSET Line
        /\ matcher \in {NoMatcher} \cup SUBSET Line
        /\ lastGood \in SUBSET Line
    OBVIOUS
  <2>3. saves \in 0..MaxSaves /\ restarts \in 0..MaxRestarts /\ events \in Nat
    OBVIOUS
  <2>4. pc \in Reloading \cup Stopped \cup {"add", "select"} /\ outcome \in {"ok", "error"}
    BY DEF Reloading
  <2> QED BY <2>1, <2>2, <2>3, <2>4 DEF TypeOK
<1>2. ControlInv
  BY DEF ControlInv, Reloading
<1>3. FileInv /\ OursInv
  BY DEF FileInv, OursInv
<1> QED BY <1>1, <1>2, <1>3 DEF IInv

\* Every step keeps the types.
LEMMA TypeStep ==
    ASSUME TypeOK, Next
    PROVE  TypeOK'
<1> USE RuleFileAssumption DEF TypeOK, Reloading, Stopped, history
<1>1. CASE Read
  BY <1>1 DEF Read, world, memory, watch
<1>2. CASE ReadFails
  BY <1>2 DEF ReadFails, Finish, world, memory, watch
<1>3. CASE Restore \/ Build \/ Rebuild
  BY <1>3 DEF Restore, Build, Rebuild, world, memory, watch
<1>4. CASE BuildFails \/ WriteFails
  BY <1>4 DEF BuildFails, WriteFails, Finish, world, memory, watch
<1>5. CASE Write
  <2>1. Target \in SUBSET Line
    BY TargetTyped
  <2>2. file' \in {Absent} \cup SUBSET Line /\ events' \in Nat
    BY <1>5, <2>1 DEF Write
  <2>3. outcome' \in {"ok", "error"} /\ pc' \in Reloading \cup Stopped \cup {"add", "select"}
    BY <1>5 DEF Write, Finish
  <2> QED BY <1>5, <2>2, <2>3 DEF Write, world, memory, watch
<1>6. CASE Commit
  <2>1. Target \in SUBSET Line
    BY TargetTyped
  <2>2. matcher' \in {NoMatcher} \cup SUBSET Line /\ lastGood' \in SUBSET Line
    BY <1>6, <2>1 DEF Commit
  <2>3. loaded' \in BOOLEAN
    BY <1>6, Zenon DEF Commit
  <2> QED BY <1>6, <2>2, <2>3 DEF Commit, Finish, world, watch
<1>7. CASE AddWatch
  <2>1. watching' \in BOOLEAN
    BY <1>7, Zenon DEF AddWatch
  <2> QED BY <1>7, <2>1 DEF AddWatch, world, memory
<1>8. CASE AddWatchFails
  BY <1>8 DEF AddWatchFails, world, memory, watch
<1>9. CASE TakeEvent
  <2>1. armed' \in BOOLEAN
    BY <1>9, Zenon DEF TakeEvent
  <2> QED BY <1>9, <2>1 DEF TakeEvent, world, memory
<1>10. CASE TimerFires \/ WatchReturns
  <2>1. armed' \in BOOLEAN
    BY <1>10, Zenon DEF TimerFires, WatchReturns
  <2> QED BY <1>10, <2>1 DEF TimerFires, WatchReturns, world, memory
<1>11. CASE Close
  <2>1. closed' \in BOOLEAN
    BY <1>11, Zenon DEF Close
  <2> QED BY <1>11, <2>1 DEF Close, world, memory
<1>12. CASE Save
  <2>1. events' \in Nat
    BY <1>12 DEF Save
  <2>2. missed' = missed \/ missed' = TRUE
    BY <1>12, Zenon DEF Save
  <2>3. missed' \in BOOLEAN /\ ours' \in BOOLEAN
    BY <1>12, <2>2, Zenon DEF Save
  <2> QED BY <1>12, <2>1, <2>3 DEF Save, memory, watch
<1>13. CASE Restart
  <2>1. /\ loaded' \in BOOLEAN /\ watching' \in BOOLEAN /\ armed' \in BOOLEAN
        /\ closed' \in BOOLEAN /\ missed' \in BOOLEAN
    BY <1>13, Zenon DEF Restart
  <2> QED BY <1>13, <2>1 DEF Restart
<1>14. CASE Done
  BY <1>14 DEF Done, vars, world, memory, watch
<1> QED BY <1>1, <1>2, <1>3, <1>4, <1>5, <1>6, <1>7, <1>8, <1>9, <1>10, <1>11, <1>12, <1>13,
           <1>14 DEF Next, Goroutine

\* Every step keeps what the position of the goroutine says.
LEMMA ControlStep ==
    ASSUME IInv, Next
    PROVE  ControlInv'
<1> USE DEF ControlInv, Reloading, world, memory, watch
<1>0. TypeOK /\ ControlInv
  BY DEF IInv
<1>1. CASE Read
  BY <1>0, <1>1 DEF Read
<1>2. CASE ReadFails \/ BuildFails \/ WriteFails
  BY <1>0, <1>2 DEF ReadFails, BuildFails, WriteFails, Finish
<1>3. CASE Restore
  BY <1>0, <1>3 DEF Restore
<1>4. CASE Build
  BY <1>0, <1>4 DEF Build, Restoring
<1>5. CASE Rebuild
  BY <1>0, <1>5 DEF Rebuild, Restoring
<1>6. CASE Write
  BY <1>0, <1>6 DEF Write, Finish, Restoring, TypeOK
<1>7. CASE Commit
  BY <1>0, <1>7 DEF Commit, Finish, TypeOK
<1>8. CASE AddWatch
  BY <1>0, <1>8 DEF AddWatch
<1>9. CASE AddWatchFails
  BY <1>0, <1>9 DEF AddWatchFails
<1>10. CASE TakeEvent
  BY <1>0, <1>10 DEF TakeEvent
<1>11. CASE TimerFires \/ WatchReturns
  BY <1>0, <1>11 DEF TimerFires, WatchReturns
<1>12. CASE Close
  BY <1>0, <1>12 DEF Close, Restoring
<1>13. CASE Save
  BY <1>0, <1>13 DEF Save, Restoring
<1>14. CASE Restart
  BY <1>0, <1>14 DEF Restart
<1>15. CASE Done
  BY <1>0, <1>15 DEF Done, vars, Restoring
<1> QED BY <1>1, <1>2, <1>3, <1>4, <1>5, <1>6, <1>7, <1>8, <1>9, <1>10, <1>11, <1>12, <1>13,
           <1>14, <1>15 DEF Next, Goroutine

\* Every step keeps the file as the reload in progress expects it, or leaves
\* a trace of the change.
LEMMA FileStep ==
    ASSUME IInv, Next
    PROVE  FileInv'
<1> USE DEF FileInv, Quiet, Reloading, world, memory, watch, history
<1>0. TypeOK /\ ControlInv /\ FileInv
  BY DEF IInv
<1>1. CASE Read
  BY <1>1 DEF Read
<1>2. CASE ReadFails \/ BuildFails \/ WriteFails
  BY <1>2 DEF ReadFails, BuildFails, WriteFails, Finish
<1>3. CASE Restore
  BY <1>0, <1>3 DEF Restore
<1>4. CASE Build
  BY <1>0, <1>4 DEF Build, Target, Restoring
<1>5. CASE Rebuild
  BY <1>0, <1>5 DEF Rebuild, Target, Restoring
<1>6. CASE Write
  BY <1>0, <1>6 DEF Write, Finish, Target, Restoring, TypeOK, ControlInv
<1>7. CASE Commit
  BY <1>0, <1>7 DEF Commit, Finish
<1>8. CASE AddWatch
  BY <1>0, <1>8 DEF AddWatch
<1>9. CASE AddWatchFails
  BY <1>0, <1>9 DEF AddWatchFails
<1>10. CASE TakeEvent
  BY <1>0, <1>10 DEF TakeEvent
<1>11. CASE TimerFires \/ WatchReturns
  BY <1>0, <1>11 DEF TimerFires, WatchReturns
<1>12. CASE Close
  BY <1>0, <1>12 DEF Close
<1>13. CASE Save
  BY <1>0, <1>13 DEF Save, TypeOK
<1>14. CASE Restart
  BY <1>0, <1>14 DEF Restart
<1>15. CASE Done
  BY <1>0, <1>15 DEF Done, vars, Target, Restoring
<1> QED BY <1>1, <1>2, <1>3, <1>4, <1>5, <1>6, <1>7, <1>8, <1>9, <1>10, <1>11, <1>12, <1>13,
           <1>14, <1>15 DEF Next, Goroutine

\* Every step keeps a file that a reload has written in line with the reload.
LEMMA OursStep ==
    ASSUME IInv, Next
    PROVE  OursInv'
<1> USE DEF OursInv, Reloading, world, memory, watch, history
<1>0. TypeOK /\ ControlInv /\ OursInv
  BY DEF IInv
<1>1. CASE Read
  BY <1>0, <1>1 DEF Read
<1>2. CASE ReadFails \/ BuildFails \/ WriteFails
  BY <1>0, <1>2 DEF ControlInv, ReadFails, BuildFails, WriteFails, Finish
<1>3. CASE Restore
  BY <1>0, <1>3 DEF Restore
<1>4. CASE Build
  BY <1>0, <1>4 DEF Build, Target, Restoring
<1>5. CASE Rebuild
  BY <1>0, <1>5 DEF Rebuild, Target, Restoring
<1>6. CASE Write
  BY <1>0, <1>6 DEF Write, Finish, Target, Restoring, TypeOK, ControlInv
<1>7. CASE Commit
  BY <1>0, <1>7 DEF Commit, Finish
<1>8. CASE AddWatch
  BY <1>0, <1>8 DEF AddWatch
<1>9. CASE AddWatchFails
  BY <1>0, <1>9 DEF AddWatchFails
<1>10. CASE TakeEvent
  BY <1>0, <1>10 DEF TakeEvent
<1>11. CASE TimerFires \/ WatchReturns
  BY <1>0, <1>11 DEF TimerFires, WatchReturns
<1>12. CASE Close
  BY <1>0, <1>12 DEF Close, Target, Restoring
<1>13. CASE Save
  BY <1>0, <1>13 DEF Save, TypeOK
<1>14. CASE Restart
  BY <1>0, <1>14 DEF Restart
<1>15. CASE Done
  BY <1>0, <1>15 DEF Done, vars, Target, Restoring
<1> QED BY <1>1, <1>2, <1>3, <1>4, <1>5, <1>6, <1>7, <1>8, <1>9, <1>10, <1>11, <1>12, <1>13,
           <1>14, <1>15 DEF Next, Goroutine

\* The inductive invariant holds of every behaviour.
LEMMA Invariance == Spec => []IInv
<1>1. IInv /\ [Next]_vars => IInv'
  <2> SUFFICES ASSUME IInv, [Next]_vars PROVE IInv'
    OBVIOUS
  <2>1. CASE Next
    BY <2>1, TypeStep, ControlStep, FileStep, OursStep DEF IInv
  <2>2. CASE UNCHANGED vars
    BY <2>2 DEF IInv, TypeOK, ControlInv, FileInv, OursInv, Quiet, Target, Restoring,
                vars, world, memory, watch, history
  <2> QED BY <2>1, <2>2
<1> QED BY <1>1, InitInvariant, PTL DEF Spec
-----------------------------------------------------------------------------
(***************************************************************************)
(* Type correctness: reload never puts anything but rule lines into the    *)
(* file or the matcher.                                                    *)
(***************************************************************************)
THEOREM TypeCorrect == Spec => []TypeOK
  BY Invariance, PTL DEF IInv

(***************************************************************************)
(* A file that reload has written is the one it answers from, through      *)
(* failures, restores, saves and restarts, but for the moment between the  *)
(* rename and the swap.                                                    *)
(***************************************************************************)
THEOREM RewrittenAgrees == Spec => []RewrittenFileIsActive
<1>1. IInv => RewrittenFileIsActive
  BY DEF IInv, OursInv, RewrittenFileIsActive
<1> QED BY <1>1, Invariance, PTL

(***************************************************************************)
(* An idle watcher means that the file and the active rules are the same,  *)
(* unless a save came before the directory was watched.                    *)
(***************************************************************************)
THEOREM SettledAgrees == Spec => []SettledFileIsActive
<1>1. IInv => SettledFileIsActive
  BY DEF IInv, SettledFileIsActive, Idle, FileInv, Quiet, ControlInv
<1> QED BY <1>1, Invariance, PTL

(***************************************************************************)
(* Active rules are never lost to an invalid, oversized or missing file.   *)
(***************************************************************************)
THEOREM PolicyNotLost == Spec => ClearedOnlyByEmptyFile
<1>1. IInv /\ [Next]_vars =>
        [matcher \notin {NoMatcher, {}} /\ matcher' = {}
             => raw \notin {Absent} \cup Oversized /\ Meaningful(raw) = {}]_vars
  <2> SUFFICES ASSUME IInv, Next, matcher \notin {NoMatcher, {}}, matcher' = {}
               PROVE  raw \notin {Absent} \cup Oversized /\ Meaningful(raw) = {}
    OBVIOUS
  <2>1. NoMatcher # {}
    BY RuleFileAssumption
  <2>2. Commit
    BY <2>1 DEF Next, Goroutine, Read, ReadFails, Restore, Build, Rebuild, BuildFails, Write,
        WriteFails, AddWatch, AddWatchFails, TakeEvent, TimerFires, WatchReturns, Close, Save,
        Restart, Done, vars, memory
  <2>3. loaded /\ matcher = lastGood
    BY DEF IInv, ControlInv
  <2>4. ~Restoring /\ Target = {}
    BY <2>2, <2>3 DEF Commit, IInv, ControlInv
  <2>5. Accepted(raw) = {}
    BY <2>4, CleanedEmpty DEF Target
  <2> QED BY <2>3, <2>4, <2>5 DEF Restoring
<1> QED BY <1>1, Invariance, PTL DEF Spec, ClearedOnlyByEmptyFile
-----------------------------------------------------------------------------
(***************************************************************************)
(* The watcher and its own writes: the safety half of WatcherSettles.      *)
(***************************************************************************)
\* Rules that are written the way sanitizeRules writes them.
Canonical(content) == content \in SUBSET Line /\ \A l \in content : l.form = "canonical"

\* What a reload would leave as it is.
Sanitized(content) == Canonical(content) /\ content \notin Oversized

\* Neither the file nor the content that reload is about to judge gives it a
\* reason to rewrite the file.
Tidy == Sanitized(file) /\ (pc \in {"decide", "write"} => Sanitized(raw))

\* What a restore writes is canonical, and reload gets as far as writing only
\* because of a content that is not sanitized.
RewriteInv == Canonical(lastGood) /\ (pc = "write" => ~Sanitized(raw))

\* The file is rewritten only when that makes it tidy or oversized, and once it
\* is tidy only an operator changes it.
OneRewrite ==
    /\ Write => ~Tidy /\ (Tidy' \/ file' \in Oversized)
    /\ Tidy /\ ~Save => Tidy' /\ file' = file

\* Sanitizing makes every line canonical.
LEMMA CleanedCanonical ==
    ASSUME NEW content \in SUBSET Line
    PROVE  Canonical(Cleaned(content))
<1>1. Cleaned(content) \in SUBSET Line
  BY CleanedTyped
<1>2. \A l \in Cleaned(content) : l.form = "canonical"
  BY DEF Cleaned, Accepted, Line
<1> QED BY <1>1, <1>2 DEF Canonical

\* Sanitizing twice is sanitizing once, and a sanitized file is never taken
\* for one without valid rules.
LEMMA SanitizedStays ==
    ASSUME NEW content, Sanitized(content)
    PROVE  /\ Cleaned(content) = content
           /\ ~(Accepted(content) = {} /\ Meaningful(content) # {})
           /\ content \notin {Absent} \cup Oversized
<1> USE DEF Sanitized, Canonical
<1>1. Accepted(content) = content
  BY DEF Accepted
<1>2. \A l \in content : [l EXCEPT !.form = "canonical"] = l
  BY DEF Line
<1>3. Cleaned(content) = content
  BY <1>1, <1>2 DEF Cleaned
<1>4. content \notin {Absent} \cup Oversized
  BY RuleFileAssumption
<1> QED BY <1>1, <1>3, <1>4 DEF Meaningful

\* Whatever reload puts into the file is canonical.
LEMMA TargetCanonical ==
    ASSUME TypeOK, RewriteInv
    PROVE  Canonical(Target)
<1>1. CASE Restoring
  BY <1>1 DEF Target, RewriteInv
<1>2. CASE ~Restoring
  <2>1. raw \in SUBSET Line
    BY <1>2 DEF TypeOK, Restoring
  <2> QED BY <1>2, <2>1, CleanedCanonical DEF Target
<1> QED BY <1>1, <1>2

\* A sanitized content is not one to restore from.
LEMMA SanitizedBuilds ==
    ASSUME Sanitized(raw)
    PROVE  ~Restoring /\ Cleaned(raw) = raw
  BY SanitizedStays DEF Restoring

\* The reasons for a rewrite hold throughout.
LEMMA RewriteInvariance == Spec => []RewriteInv
<1>1. Init => RewriteInv
  BY RuleFileAssumption DEF Init, RewriteInv, Sanitized, Canonical
<1>2. TypeOK /\ RewriteInv /\ [Next]_vars => RewriteInv'
  <2> SUFFICES ASSUME TypeOK, RewriteInv, [Next]_vars PROVE RewriteInv'
    OBVIOUS
  <2> USE DEF world, memory, watch, history
  <2>1. CASE Restore
    <3>1. ~Sanitized(raw) /\ UNCHANGED <<raw, lastGood>>
      BY <2>1, SanitizedBuilds DEF Restore
    <3> QED BY <3>1 DEF RewriteInv, Sanitized, Canonical
  <2>2. CASE Build
    <3>1. pc' = "write" => ~Sanitized(raw)
      BY <2>2, SanitizedBuilds DEF Build
    <3>2. UNCHANGED <<raw, lastGood>>
      BY <2>2 DEF Build
    <3> QED BY <3>1, <3>2 DEF RewriteInv, Sanitized, Canonical
  <2>3. CASE Commit
    <3>1. Canonical(Target)
      BY TargetCanonical
    <3> QED BY <2>3, <3>1 DEF Commit, Finish, RewriteInv, Sanitized, Canonical
  <2>4. CASE Restart
    BY <2>4, RuleFileAssumption DEF Restart, RewriteInv, Sanitized, Canonical
  <2>5. CASE \/ Read \/ ReadFails \/ Rebuild \/ BuildFails \/ Write \/ WriteFails
             \/ AddWatch \/ AddWatchFails \/ TakeEvent \/ TimerFires \/ WatchReturns
    <3>1. lastGood' = lastGood /\ pc' # "write"
      BY <2>5 DEF Read, ReadFails, Rebuild, BuildFails, Write, WriteFails, AddWatch,
         AddWatchFails, TakeEvent, TimerFires, WatchReturns, Finish
    <3> QED BY <3>1 DEF RewriteInv, Sanitized, Canonical
  <2>6. CASE Close \/ Save \/ Done \/ UNCHANGED vars
    <3>1. UNCHANGED <<lastGood, pc, raw>>
      BY <2>6 DEF Close, Save, Done, vars
    <3> QED BY <3>1 DEF RewriteInv, Sanitized, Canonical
  <2> QED BY <2>1, <2>2, <2>3, <2>4, <2>5, <2>6 DEF Next, Goroutine
<1> QED BY <1>1, <1>2, TypeCorrect, PTL DEF Spec

\* What a step that does not save does to a tidy file: nothing.
LEMMA TidyStays ==
    ASSUME TypeOK, RewriteInv, Tidy, Next, ~Save
    PROVE  Tidy' /\ file' = file /\ ~Write
<1> USE DEF world, memory, watch
<1>1. ~Write
  BY DEF Write, Tidy, RewriteInv
<1>2. file' = file
  BY <1>1 DEF Next, Goroutine, Read, ReadFails, Restore, Build, Rebuild, BuildFails,
      WriteFails, Commit, AddWatch, AddWatchFails, TakeEvent, TimerFires, WatchReturns, Close,
      Restart, Done, vars
<1>3. CASE Read
  BY <1>1, <1>2, <1>3 DEF Read, Tidy, Sanitized, Canonical
<1>4. CASE ~Read
  <2>1. pc' \in {"decide", "write"} => raw' = raw /\ pc \in {"decide", "write"}
    BY <1>1, <1>4 DEF Next, Goroutine, ReadFails, Restore, Build, Rebuild, BuildFails,
      WriteFails, Commit, AddWatch, AddWatchFails, TakeEvent, TimerFires, WatchReturns, Close,
      Restart, Done, vars, Finish
  <2> QED BY <1>1, <1>2, <2>1 DEF Tidy, Sanitized, Canonical
<1> QED BY <1>1, <1>2, <1>3, <1>4

\* A rewrite leaves the file tidy, unless the rules have become too many.
LEMMA WriteTidies ==
    ASSUME TypeOK, RewriteInv, Write
    PROVE  ~Tidy /\ (Tidy' \/ file' \in Oversized)
<1>1. ~Tidy
  BY DEF Write, Tidy, RewriteInv
<1>2. Canonical(file') /\ pc' \notin {"decide", "write"}
  BY TargetCanonical DEF Write, Finish
<1> QED BY <1>1, <1>2 DEF Tidy, Sanitized, Canonical

\* A file that a reload has written is tidy, or too large.
OursTidy == ours /\ file \notin Oversized => Tidy

\* It stays so until the operator saves.
LEMMA OursTidyInvariance == Spec => []OursTidy
<1>1. Init => OursTidy
  BY DEF Init, OursTidy
<1>2. TypeOK /\ RewriteInv /\ OursTidy /\ [Next]_vars => OursTidy'
  <2> SUFFICES ASSUME TypeOK, RewriteInv, OursTidy, [Next]_vars PROVE OursTidy'
    OBVIOUS
  <2>1. CASE Write
    BY <2>1, WriteTidies DEF OursTidy
  <2>2. CASE Save
    BY <2>2 DEF Save, OursTidy
  <2>3. CASE Next /\ ~Write /\ ~Save
    <3>1. file' = file /\ ours' = ours
      BY <2>3 DEF Next, Goroutine, Read, ReadFails, Restore, Build, Rebuild, BuildFails,
         WriteFails, Commit, AddWatch, AddWatchFails, TakeEvent, TimerFires, WatchReturns,
         Close, Restart, Done, vars, history
    <3> QED BY <2>3, <3>1, TidyStays DEF OursTidy
  <2>4. CASE UNCHANGED vars
    BY <2>4 DEF vars, history, OursTidy, Tidy, Sanitized, Canonical
  <2> QED BY <2>1, <2>2, <2>3, <2>4
<1> QED BY <1>1, <1>2, TypeCorrect, RewriteInvariance, PTL DEF Spec

(***************************************************************************)
(* The watcher does not feed on its own writes, as long as the rules fit.  *)
(* Between two rewrites of the file there is a save of the operator, since *)
(* a rewrite, a restore of the last good rules included, leaves a file     *)
(* that no later reload, and no MosDNS started later, finds a reason to    *)
(* rewrite, unless sanitizing has made it larger than reload accepts.      *)
(***************************************************************************)
THEOREM OneRewritePerSave == Spec => RewrittenOnce /\ [][OneRewrite]_vars
<1>1. TypeOK /\ RewriteInv /\ [Next]_vars => [OneRewrite]_vars
  BY TidyStays, WriteTidies DEF OneRewrite
<1>2. TypeOK /\ RewriteInv /\ OursTidy => [Write => ~ours \/ file \in Oversized]_vars
  BY WriteTidies DEF OursTidy
<1> QED
  BY <1>1, <1>2, TypeCorrect, RewriteInvariance, OursTidyInvariance, PTL
     DEF Spec, RewrittenOnce

\* Oversized rules are loaded and in the file, and watch has a reload to do.
Looping ==
    /\ loaded /\ lastGood \in Oversized /\ file = lastGood
    /\ pc \in {"read", "decide", "write", "select"} /\ ~closed
    /\ pc \in {"decide", "write"} => raw = lastGood
    /\ pc = "select" => events > 0 \/ armed

\* Everything but a save, a failure and the end of MosDNS leaves it at that.
LoopsOn ==
    Looping /\ ~(Save \/ ReadFails \/ WriteFails \/ Close \/ Restart)
        => Looping' /\ file' = file /\ matcher' = matcher

(***************************************************************************)
(* The case that OneRewritePerSave and WorkIsBounded leave out.  Once      *)
(* rules that sanitizing has made too large are in force, the watcher does *)
(* not come to rest: each reload finds the file oversized, writes the same *)
(* rules back and thereby causes the next one.  Only a save, a failing     *)
(* read or write, or the end of MosDNS stops it.                           *)
(***************************************************************************)
THEOREM OversizedLoops == Spec => [][LoopsOn]_vars
<1>1. IInv /\ [Next]_vars => [LoopsOn]_vars
  <2> SUFFICES ASSUME IInv, Next, Looping,
                      ~Save, ~ReadFails, ~WriteFails, ~Close, ~Restart
               PROVE  Looping' /\ file' = file /\ matcher' = matcher
    BY DEF LoopsOn
  <2> USE DEF Looping, world, memory, watch
  <2>1. watching /\ events \in Nat
    BY DEF IInv, TypeOK, ControlInv, Reloading
  <2>2. pc \in {"decide", "write"} => Restoring /\ Target = lastGood
    BY DEF Restoring, Target
  <2>3. CASE Read
    BY <2>3 DEF Read
  <2>4. CASE Restore
    BY <2>4 DEF Restore
  <2>5. CASE Write
    <3>1. file' = lastGood /\ events' = events + 1 /\ pc' = "select"
      BY <2>1, <2>2, <2>5 DEF Write, Finish
    <3> QED BY <2>1, <2>5, <3>1 DEF Write
  <2>6. CASE TakeEvent
    BY <2>6 DEF TakeEvent
  <2>7. CASE TimerFires
    BY <2>7 DEF TimerFires
  <2>8. ~(\/ Build \/ Rebuild \/ BuildFails \/ Commit \/ AddWatch \/ AddWatchFails
          \/ WatchReturns \/ Done)
    BY <2>2 DEF Build, Rebuild, BuildFails, Commit, AddWatch, AddWatchFails, WatchReturns, Done,
       Stopped
  <2> QED BY <2>3, <2>4, <2>5, <2>6, <2>7, <2>8 DEF Next, Goroutine
<1> QED BY <1>1, Invariance, PTL DEF Spec, LoopsOn

\* The steps of the goroutine until reload returns and watch waits again.
ReloadSteps ==
    CASE pc = "read"     -> 7
      [] pc = "decide"   -> 6
      [] pc = "write"    -> 5
      [] pc = "rebuild"  -> 4
      [] pc = "commit"   -> 3
      [] pc = "add"      -> 2
      [] pc = "select"   -> 1
      [] pc \in Stopped -> 0

\* The work that is left: a reload for every event and for an armed timer, and
\* for a file that is not tidy the event of its rewrite.
TimerWork == IF armed THEN 1 ELSE 0
RewriteWork == IF Tidy THEN 0 ELSE 24
Work == 8 * (2 * events + TimerWork) + ReloadSteps + RewriteWork

\* The goroutine works its work off unless it writes oversized rules, a save
\* adds a bounded amount, and only a new process starts over.
WorkedOff ==
    /\ Goroutine => Work' < Work \/ (Write /\ file' \in Oversized)
    /\ Close => Work' <= Work
    /\ Save => Work' <= Work + 40
    /\ Restart => Work' <= 31

\* The work left is a natural number.
LEMMA WorkIsNat ==
    ASSUME TypeOK
    PROVE  Work \in Nat
<1>1. ReloadSteps \in 0..7
  BY DEF ReloadSteps, TypeOK, Reloading, Stopped
<1> QED BY <1>1 DEF Work, TimerWork, RewriteWork, TypeOK

\* Every step of the goroutine but a write of oversized rules uses up work.
LEMMA GoroutineWorks ==
    ASSUME TypeOK, RewriteInv, Goroutine, ~(Write /\ file' \in Oversized)
    PROVE  Work' < Work
<1> USE DEF world, memory, watch
<1>0. events \in Nat /\ armed \in BOOLEAN
  BY DEF TypeOK
<1>1. CASE Write
  <2>1. ~Tidy /\ Tidy'
    BY <1>1, WriteTidies
  <2>2. ReloadSteps = 5 /\ ReloadSteps' \in 0..4
    BY <1>1 DEF Write, Finish, ReloadSteps, Stopped
  <2>3. armed' = armed /\ (events' = events \/ events' = events + 1)
    BY <1>1 DEF Write
  <2> QED BY <1>0, <2>1, <2>2, <2>3 DEF Work, TimerWork, RewriteWork
<1>2. CASE ~Write
  <2>1. Tidy => Tidy'
    <3>1. ASSUME Tidy, Save PROVE FALSE
      BY <3>1 DEF Save, Goroutine, Read, ReadFails, Restore, Build, Rebuild, BuildFails, Write,
         WriteFails, Commit, AddWatch, AddWatchFails, TakeEvent, TimerFires, WatchReturns, TypeOK
    <3> QED BY <3>1, TidyStays DEF Next
  <2>2. CASE TakeEvent
    <3>1. events' = events - 1 /\ events > 0 /\ armed' = TRUE /\ ReloadSteps' = ReloadSteps
      BY <2>2 DEF TakeEvent, ReloadSteps
    <3>2. ReloadSteps \in 0..7
      BY DEF ReloadSteps, TypeOK, Reloading, Stopped
    <3> QED BY <1>0, <2>1, <3>1, <3>2 DEF Work, TimerWork, RewriteWork
  <2>3. CASE TimerFires
    <3>1. events' = events /\ armed /\ ~armed' /\ ReloadSteps = 1 /\ ReloadSteps' = 7
      BY <2>3 DEF TimerFires, ReloadSteps, Stopped
    <3> QED BY <1>0, <2>1, <3>1 DEF Work, TimerWork, RewriteWork
  <2>4. CASE WatchReturns
    <3>1. events' = events /\ ~armed' /\ ReloadSteps = 1 /\ ReloadSteps' = 0
      BY <2>4 DEF WatchReturns, ReloadSteps, Stopped
    <3> QED BY <1>0, <2>1, <3>1 DEF Work, TimerWork, RewriteWork
  <2>5. CASE ~TakeEvent /\ ~TimerFires /\ ~WatchReturns
    <3>1. events' = events /\ armed' = armed
      BY <1>2, <2>5 DEF Goroutine, Read, ReadFails, Restore, Build, Rebuild, BuildFails,
         WriteFails, Commit, AddWatch, AddWatchFails
    <3>2. \/ pc = "read"    /\ pc' \in {"decide", "select", "add", "failed"}
          \/ pc = "decide"  /\ pc' \in {"write", "commit", "select", "add", "failed"}
          \/ pc = "write"   /\ pc' \in {"select", "add", "failed"}
          \/ pc = "rebuild" /\ pc' \in {"commit", "select", "add", "failed"}
          \/ pc = "commit"  /\ pc' \in {"select", "add", "failed"}
          \/ pc = "add"     /\ pc' \in {"select", "failed"}
      BY <1>2, <2>5 DEF Goroutine, Read, ReadFails, Restore, Build, Rebuild, BuildFails,
         WriteFails, Commit, AddWatch, AddWatchFails, Finish
    <3>3. /\ ReloadSteps \in 0..7 /\ ReloadSteps' \in 0..7
          /\ ReloadSteps' < ReloadSteps
      BY <3>2 DEF ReloadSteps, Stopped
    <3>4. TimerWork \in 0..1 /\ TimerWork' = TimerWork
      BY <3>1 DEF TimerWork
    <3>5. RewriteWork \in 0..24 /\ RewriteWork' \in 0..24 /\ RewriteWork' <= RewriteWork
      BY <2>1 DEF RewriteWork
    <3>6. events \in Nat /\ events' = events
      BY <1>0, <3>1
    <3>7. \A e, t, r, q, w, v \in Int :
              r < q /\ w <= v => 8 * (2 * e + t) + r + w < 8 * (2 * e + t) + q + v
      OBVIOUS
    <3>8. /\ events \in Int /\ TimerWork \in Int /\ ReloadSteps \in Int /\ ReloadSteps' \in Int
          /\ RewriteWork \in Int /\ RewriteWork' \in Int
      BY <3>3, <3>4, <3>5, <3>6
    <3>9. 8 * (2 * events' + TimerWork') + ReloadSteps' + RewriteWork'
              < 8 * (2 * events + TimerWork) + ReloadSteps + RewriteWork
      BY <3>3, <3>4, <3>5, <3>6, <3>7, <3>8
    <3> QED BY <3>9 DEF Work
  <2> QED BY <2>2, <2>3, <2>4, <2>5
<1> QED BY <1>1, <1>2

(***************************************************************************)
(* The watcher comes to rest while the rules fit.  A save costs it at most *)
(* forty steps, the events of its own rewrites, the reloads they cause and *)
(* every failure included; nothing but a save, a new process or a rewrite  *)
(* that makes the file oversized gives it more to do.                      *)
(***************************************************************************)
THEOREM WorkIsBounded == Spec => [](Work \in Nat) /\ [][WorkedOff]_vars
<1>1. TypeOK => Work \in Nat
  BY WorkIsNat
<1>2. TypeOK /\ RewriteInv /\ [Next]_vars => [WorkedOff]_vars
  <2> SUFFICES ASSUME TypeOK, RewriteInv, Next PROVE WorkedOff
    OBVIOUS
  <2>0. events \in Nat /\ armed \in BOOLEAN /\ ReloadSteps \in 0..7
    BY DEF TypeOK, ReloadSteps, Reloading, Stopped
  <2>1. Goroutine => Work' < Work \/ (Write /\ file' \in Oversized)
    BY GoroutineWorks
  <2>2. ASSUME Close PROVE Work' <= Work
    <3>1. armed' = armed /\ events' = 0 /\ UNCHANGED <<file, pc, raw>>
      BY <2>2 DEF Close
    <3>2. (Tidy <=> Tidy') /\ ReloadSteps' = ReloadSteps
      BY <3>1 DEF Tidy, Sanitized, Canonical, ReloadSteps
    <3> QED BY <2>0, <3>1, <3>2 DEF Work, TimerWork, RewriteWork
  <2>3. ASSUME Save PROVE Work' <= Work + 40
    <3>1. /\ armed' = armed /\ pc' = pc
          /\ events' = events \/ events' = events + 1
      BY <2>3 DEF Save, watch
    <3>2. ReloadSteps' = ReloadSteps
      BY <3>1 DEF ReloadSteps
    <3> QED BY <2>0, <3>1, <3>2 DEF Work, TimerWork, RewriteWork
  <2>4. ASSUME Restart PROVE Work' <= 31
    <3>1. ~armed' /\ events' = 0 /\ ReloadSteps' = 7
      BY <2>4 DEF Restart, ReloadSteps, Stopped
    <3> QED BY <3>1 DEF Work, TimerWork, RewriteWork
  <2> QED BY <2>1, <2>2, <2>3, <2>4 DEF WorkedOff
<1> QED BY <1>1, <1>2, TypeCorrect, RewriteInvariance, PTL DEF Spec
=============================================================================
