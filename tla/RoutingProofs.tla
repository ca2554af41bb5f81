---------------------------- MODULE RoutingProofs ----------------------------
(***************************************************************************)
(* The safety of Routing, for any number and length of the attempts of the *)
(* circuit and any threshold above their sum.                              *)
(***************************************************************************)
EXTENDS Routing, FiniteSetTheorems, TLAPS

FakeipFallbacks == {"auto_forward_fallback", "fakeip_first"}

\* The steps that ask the rule files.
Matching == {"count_direct", "match_direct", "count_proxy", "match_proxy"}

\* Where each context can be, and under which fallback.
PlaceInv ==
    /\ pc["main"] \in MainSteps \cup Ended \cup {"cache", "ask"}
    /\ pc["prim"] \in {"recursive", "fakeip", "fakeip_checks"} \cup Ended
    /\ pc["sec"] \in {"standby", "encrypted", "keep", "cache", "ask"} \cup Ended
    /\ fallback = "none" => pc["prim"] = "failed" /\ pc["sec"] = "failed"
    /\ pc["main"] \in Matching \cup {"entry", "foreign", "cache", "ask"} => fallback = "none"
    /\ pc["main"] = "fallback" => fallback # "none"
    /\ pc["main"] \in {"classified", "revise", "validated"} => fallback = "classify_lookup"
    /\ pc["main"] = "returned" => fallback \in FakeipFallbacks
    /\ pc["prim"] = "recursive" => fallback = "classify_lookup"
    /\ pc["prim"] \in {"fakeip", "fakeip_checks"} => fallback \in FakeipFallbacks
    /\ pc["sec"] = "encrypted" => fallback = "classify_lookup"
    /\ pc["sec"] = "keep" => fallback = "auto_forward_fallback"
    /\ pc["sec"] \in {"cache", "ask"} => fallback = "fakeip_first"

\* What the branches taken so far say about the question and the rules.
RouteInv ==
    /\ pc["main"] \in Matching \cup {"foreign"} \/ fallback # "none" => listener = "main"
    /\ fallback \in FakeipFallbacks => auto /\ qtype = "A"
    /\ ~reloaded =>
           /\ pc["main"] \in {"count_proxy", "match_proxy", "foreign"} => "direct" \notin rules
           /\ pc["main"] = "foreign" => "proxy" \in rules
           /\ fallback # "none" => "direct" \notin rules
           /\ fallback \in {"classify_lookup", "auto_forward_fallback"} => "proxy" \notin rules

\* What the encrypted resolver said after the classifier, and where it is.
RevisionInv ==
    /\ revised \in {None} \cup Encrypted
    /\ fallback \in {"none", "fakeip_first"} => revised = None
    /\ pc["main"] \in {"fallback", "classified", "revise"} /\ fallback = "classify_lookup"
           => revised = None
    /\ pc["main"] = "validated" => revised # None /\ R["main"] = revised
    /\ fallback = "auto_forward_fallback"
           => revised # None /\ revised.kind \in {"cn", "foreign"}

\* The response each branch works on and hands back.
BranchInv ==
    /\ pc["sec"] = "cache" => R["sec"] = None
    /\ pc["sec"] = "ask" => R["sec"] = None \/ R["sec"].from = "encrypted"
    /\ pc["prim"] = "fakeip_checks" => R["prim"] # None /\ R["prim"].from = "mihomo"
    /\ pc["prim"] = "done" /\ fallback \in FakeipFallbacks
           => R["prim"].from = "mihomo" /\ R["prim"].kind = "fake"
    /\ pc["sec"] \in {"standby", "keep"} /\ fallback = "auto_forward_fallback"
           => R["sec"] = revised
    /\ pc["sec"] = "done" /\ fallback = "auto_forward_fallback" => R["sec"] = Clamped(revised)
    /\ pc["sec"] = "done" /\ fallback = "fakeip_first" => R["sec"].from = "encrypted"

\* The response in the main context, by the path it took.
AnswerInv ==
    /\ pc["main"] \in Matching \cup {"entry", "foreign", "cache"} => R["main"] = None
    /\ pc["main"] = "ask" => R["main"] = None \/ R["main"].from = "encrypted"
    /\ pc["main"] \in {"classified", "returned"} => R["main"] # None
    /\ Done /\ fallback = "none" => R["main"].from \in {"policy", "encrypted"}
    /\ Done /\ fallback = "classify_lookup" =>
           \/ revised = None /\ qtype = "A" /\ R["main"].kind = "cn"
           \/ revised # None /\ R["main"] = revised /\ ~(auto /\ Wanted)
    /\ Done \/ pc["main"] = "returned" =>
           /\ fallback = "auto_forward_fallback" =>
                  \/ R["main"] = Clamped(revised)
                  \/ R["main"].from = "mihomo" /\ R["main"].kind = "fake"
           /\ fallback = "fakeip_first" => R["main"].from \in {"mihomo", "encrypted"}

\* A fake-IP query is over before the threshold of its fallback.
BudgetInv == fallback \in FakeipFallbacks => elapsed <= CircuitBudget

\* A stand-by ends without a response by an error of the encrypted resolver,
\* or because the primary has one.
FailureInv == pc["main"] = "fallback" /\ pc["sec"] = "failed" => lost \/ pc["prim"] = "done"

\* The routes counted up to the branch, and after it.
CountInv ==
    /\ pc["main"] \in {"entry", "count_direct"} => decisions \cap Routes = {}
    /\ ~reloaded /\ listener = "main" =>
           /\ pc["main"] = "match_direct" => decisions \cap Routes = Counted("direct")
           /\ pc["main"] = "count_proxy" => decisions \cap Routes = {}
           /\ pc["main"] = "match_proxy" => decisions \cap Routes = Counted("proxy")
           /\ pc["main"] \notin Matching \cup {"entry"}
                  => \E route \in Routes : decisions \cap Routes = {route}

\* Where the query is, what its responses are, and what its failures mean.
ControlInv == PlaceInv /\ RouteInv /\ CountInv
ResponseInv == RevisionInv /\ BranchInv /\ AnswerInv /\ FakeNeverCached
ErrorInv == BudgetInv /\ FailureInv /\ StandbyIsErrorDriven /\ ResolutionSurvives

QueryInv == ControlInv /\ ResponseInv /\ ErrorInv

IInv == TypeOK /\ QueryInv
-----------------------------------------------------------------------------
\* An answer of a resolver.
LEMMA AnswerIsResponse ==
    ASSUME NEW from \in {"policy", "recursive", "encrypted", "mihomo"},
           NEW kind \in RealKinds \cup {"fake"}
    PROVE  /\ Answer(from, kind) \in Responses
           /\ Answer(from, kind) # None
           /\ Answer(from, kind).from = from /\ Answer(from, kind).kind = kind
<1>1. Answer(from, kind) \in Responses
  BY DEF Answer, Responses
<1>2. Answer(from, kind).from = from /\ Answer(from, kind).kind = kind
  BY DEF Answer
<1> QED BY <1>1, <1>2, NoneAssumption

\* An answer of the encrypted resolver.
LEMMA EncryptedIsResponse ==
    ASSUME NEW r \in Encrypted
    PROVE  r \in Responses /\ r # None /\ r.from = "encrypted" /\ r.kind \in RealKinds
  BY AnswerIsResponse DEF Encrypted

\* ttl 5 changes nothing but the TTL.
LEMMA ClampedIsResponse ==
    ASSUME NEW r \in Responses
    PROVE  /\ Clamped(r) \in Responses
           /\ Clamped(r) # None
           /\ Clamped(r).from = r.from /\ Clamped(r).kind = r.kind /\ Clamped(r).short
  BY NoneAssumption DEF Clamped, Responses

\* A query is rejected, or enters the path of its listener.
LEMMA EntryStep == IInv /\ (Reject \/ Enter) => QueryInv'
<1> SUFFICES ASSUME IInv, Reject \/ Enter
             PROVE  QueryInv'
  OBVIOUS
<1> USE DEF IInv, TypeOK, QueryInv, PlaceInv, Contexts, Ended, Matching, FakeipFallbacks,
           Goto, Respond, Decide, question, history, Enter, Reject
<1>1. ControlInv'
  BY AnswerIsResponse DEF ControlInv, RouteInv, CountInv, Counted, Routes, MainSteps,
     ResponseInv, AnswerInv
<1>2. ResponseInv'
  BY AnswerIsResponse, EncryptedIsResponse, ClampedIsResponse DEF ControlInv, RouteInv,
     ResponseInv, RevisionInv, BranchInv, AnswerInv, FakeNeverCached, Wanted, Done,
     RealKinds
<1>3. ErrorInv'
  BY RoutingAssumption DEF ControlInv, ErrorInv, BudgetInv, CircuitBudget, FailureInv,
     StandbyIsErrorDriven, ResolutionSurvives
<1> QED BY <1>1, <1>2, <1>3

\* The rule files are asked, or change between two questions.
LEMMA MatchStep == IInv /\ (CountDirect \/ MatchDirect \/ CountProxy \/ Reload) => QueryInv'
<1> SUFFICES ASSUME IInv, CountDirect \/ MatchDirect \/ CountProxy \/ Reload
             PROVE  QueryInv'
  OBVIOUS
<1> USE DEF IInv, TypeOK, QueryInv, PlaceInv, Contexts, Ended, Matching, FakeipFallbacks,
           Goto, Respond, Decide, question, history, CountDirect, CountProxy, MatchDirect,
           Reload
<1>1. ControlInv'
  BY AnswerIsResponse DEF ControlInv, RouteInv, CountInv, Counted, Routes, MainSteps,
     ResponseInv, AnswerInv
<1>2. ResponseInv'
  BY AnswerIsResponse, EncryptedIsResponse, ClampedIsResponse DEF ControlInv, RouteInv,
     ResponseInv, RevisionInv, BranchInv, AnswerInv, FakeNeverCached, Wanted, Done,
     RealKinds
<1>3. ErrorInv'
  BY RoutingAssumption DEF ControlInv, ErrorInv, BudgetInv, CircuitBudget, FailureInv,
     StandbyIsErrorDriven, ResolutionSurvives
<1> QED BY <1>1, <1>2, <1>3

\* A proxy name goes to foreign_path, an unknown one to the classifier.
LEMMA MatchProxyStep == IInv /\ (MatchProxy) => QueryInv'
<1> SUFFICES ASSUME IInv, MatchProxy
             PROVE  QueryInv'
  OBVIOUS
<1> USE DEF IInv, TypeOK, QueryInv, PlaceInv, Contexts, Ended, Matching, FakeipFallbacks,
           Goto, Respond, Decide, question, history, MatchProxy, Fork
<1>1. ControlInv'
  BY AnswerIsResponse DEF ControlInv, RouteInv, CountInv, Counted, Routes, MainSteps,
     ResponseInv, AnswerInv
<1>2. ResponseInv'
  BY AnswerIsResponse, EncryptedIsResponse, ClampedIsResponse DEF ControlInv, RouteInv,
     ResponseInv, RevisionInv, BranchInv, AnswerInv, FakeNeverCached, Wanted, Done,
     RealKinds
<1>3. ErrorInv'
  BY RoutingAssumption DEF ControlInv, ErrorInv, BudgetInv, CircuitBudget, FailureInv,
     StandbyIsErrorDriven, ResolutionSurvives
<1> QED BY <1>1, <1>2, <1>3

\* foreign_path forks fakeip_first or goes to the cache.
LEMMA ForeignStep == IInv /\ (Foreign) => QueryInv'
<1> SUFFICES ASSUME IInv, Foreign
             PROVE  QueryInv'
  OBVIOUS
<1> USE DEF IInv, TypeOK, QueryInv, PlaceInv, Contexts, Ended, Matching, FakeipFallbacks,
           Goto, Respond, Decide, question, history, Foreign, Fork, Forwards
<1>1. ControlInv'
  BY AnswerIsResponse DEF ControlInv, RouteInv, CountInv, Counted, Routes, MainSteps,
     ResponseInv, AnswerInv
<1>2. ResponseInv'
  BY AnswerIsResponse, EncryptedIsResponse, ClampedIsResponse DEF ControlInv, RouteInv,
     ResponseInv, RevisionInv, BranchInv, AnswerInv, FakeNeverCached, Wanted, Done,
     RealKinds
<1>3. ErrorInv'
  BY RoutingAssumption DEF ControlInv, ErrorInv, BudgetInv, CircuitBudget, FailureInv,
     StandbyIsErrorDriven, ResolutionSurvives
<1> QED BY <1>1, <1>2, <1>3

\* validated_foreign_path forks auto_forward_fallback or is done.
LEMMA ValidatedStep == IInv /\ (Validated) => QueryInv'
<1> SUFFICES ASSUME IInv, Validated
             PROVE  QueryInv'
  OBVIOUS
<1> USE DEF IInv, TypeOK, QueryInv, PlaceInv, Contexts, Ended, Matching, FakeipFallbacks,
           Goto, Respond, Decide, question, history, Validated, Fork, Wanted
<1>1. ControlInv'
  BY AnswerIsResponse DEF ControlInv, RouteInv, CountInv, Counted, Routes, MainSteps,
     ResponseInv, AnswerInv
<1>2. ResponseInv'
  BY AnswerIsResponse, EncryptedIsResponse, ClampedIsResponse DEF ControlInv, RouteInv,
     ResponseInv, RevisionInv, BranchInv, AnswerInv, FakeNeverCached, Wanted, Done,
     RealKinds
<1>3. ErrorInv'
  BY RoutingAssumption DEF ControlInv, ErrorInv, BudgetInv, CircuitBudget, FailureInv,
     StandbyIsErrorDriven, ResolutionSurvives
<1> QED BY <1>1, <1>2, <1>3

\* A fallback returns: a response of a branch is not None, and two failed
\* branches mean that an encrypted lookup has failed.
LEMMA JoinStep == IInv /\ (Join \/ JoinFails \/ Returned) => QueryInv'
<1> SUFFICES ASSUME IInv, Join \/ JoinFails \/ Returned
             PROVE  QueryInv'
  OBVIOUS
<1> USE DEF IInv, TypeOK, QueryInv, PlaceInv, Contexts, Ended, Matching, FakeipFallbacks,
           Goto, Respond, Decide, question, history, Join, JoinFails, Returned, BothFailed,
           Resolved
<1>1. ControlInv'
  BY AnswerIsResponse DEF ControlInv, RouteInv, CountInv, Counted, Routes, MainSteps,
     ResponseInv, AnswerInv
<1>2. ResponseInv'
  BY AnswerIsResponse, EncryptedIsResponse, ClampedIsResponse DEF ControlInv, RouteInv,
     ResponseInv, RevisionInv, BranchInv, AnswerInv, FakeNeverCached, Wanted, Done,
     RealKinds
<1>3. ErrorInv'
  BY RoutingAssumption DEF ControlInv, ErrorInv, BudgetInv, CircuitBudget, FailureInv,
     StandbyIsErrorDriven, ResolutionSurvives
<1> QED BY <1>1, <1>2, <1>3

\* The response of the classifier is accepted or dropped.
LEMMA ClassifyStep == IInv /\ (Classify) => QueryInv'
<1> SUFFICES ASSUME IInv, Classify
             PROVE  QueryInv'
  OBVIOUS
<1> USE DEF IInv, TypeOK, QueryInv, PlaceInv, Contexts, Ended, Matching, FakeipFallbacks,
           Goto, Respond, Decide, question, history, Classify, Domestic
<1>1. ControlInv'
  BY AnswerIsResponse DEF ControlInv, RouteInv, CountInv, Counted, Routes, MainSteps,
     ResponseInv, AnswerInv
<1>2. ResponseInv'
  BY AnswerIsResponse, EncryptedIsResponse, ClampedIsResponse DEF ControlInv, RouteInv,
     ResponseInv, RevisionInv, BranchInv, AnswerInv, FakeNeverCached, Wanted, Done,
     RealKinds
<1>3. ErrorInv'
  BY RoutingAssumption DEF ControlInv, ErrorInv, BudgetInv, CircuitBudget, FailureInv,
     StandbyIsErrorDriven, ResolutionSurvives
<1> QED BY <1>1, <1>2, <1>3

\* The encrypted resolver is asked in place of what was dropped.
LEMMA ReviseStep == IInv /\ (Revise) => QueryInv'
<1> SUFFICES ASSUME IInv, Revise
             PROVE  QueryInv'
  OBVIOUS
<1> USE DEF IInv, TypeOK, QueryInv, PlaceInv, Contexts, Ended, Matching, FakeipFallbacks,
           Goto, Respond, Decide, question, history, Revise
<1>1. ControlInv'
  BY AnswerIsResponse DEF ControlInv, RouteInv, CountInv, Counted, Routes, MainSteps,
     ResponseInv, AnswerInv
<1>2. ResponseInv'
  BY AnswerIsResponse, EncryptedIsResponse, ClampedIsResponse DEF ControlInv, RouteInv,
     ResponseInv, RevisionInv, BranchInv, AnswerInv, FakeNeverCached, Wanted, Done,
     RealKinds
<1>3. ErrorInv'
  BY RoutingAssumption DEF ControlInv, ErrorInv, BudgetInv, CircuitBudget, FailureInv,
     StandbyIsErrorDriven, ResolutionSurvives
<1> QED BY <1>1, <1>2, <1>3

\* The primary branch; only a fake A record of Mihomo is kept.
LEMMA PrimaryStep == IInv /\ (Recursive \/ Fakeip \/ FakeipChecks) => QueryInv'
<1> SUFFICES ASSUME IInv, Recursive \/ Fakeip \/ FakeipChecks
             PROVE  QueryInv'
  OBVIOUS
<1> USE DEF IInv, TypeOK, QueryInv, PlaceInv, Contexts, Ended, Matching, FakeipFallbacks,
           Goto, Respond, Decide, question, history, Fakeip, FakeipChecks, Recursive
<1>1. ControlInv'
  BY AnswerIsResponse DEF ControlInv, RouteInv, CountInv, Counted, Routes, MainSteps,
     ResponseInv, AnswerInv
<1>2. ResponseInv'
  BY AnswerIsResponse, EncryptedIsResponse, ClampedIsResponse DEF ControlInv, RouteInv,
     ResponseInv, RevisionInv, BranchInv, AnswerInv, FakeNeverCached, Wanted, Done,
     RealKinds
<1>3. ErrorInv'
  BY RoutingAssumption DEF ControlInv, ErrorInv, BudgetInv, CircuitBudget, FailureInv,
     StandbyIsErrorDriven, ResolutionSurvives
<1> QED BY <1>1, <1>2, <1>3

\* The stand-by; the budget keeps that of a fake-IP query from starting by
\* the threshold.
LEMMA StandbyStep == IInv /\ (Standby \/ StandDown \/ Keep) => QueryInv'
<1> SUFFICES ASSUME IInv, Standby \/ StandDown \/ Keep
             PROVE  QueryInv'
  OBVIOUS
<1> USE DEF IInv, TypeOK, QueryInv, PlaceInv, Contexts, Ended, Matching, FakeipFallbacks,
           Goto, Respond, Decide, question, history, Keep, StandDown, Standby
<1>1. ControlInv'
  BY AnswerIsResponse DEF ControlInv, RouteInv, CountInv, Counted, Routes, MainSteps,
     ResponseInv, AnswerInv
<1>2. ResponseInv'
  BY AnswerIsResponse, EncryptedIsResponse, ClampedIsResponse DEF ControlInv, RouteInv,
     ResponseInv, RevisionInv, BranchInv, AnswerInv, FakeNeverCached, Wanted, Done,
     RealKinds
<1>3. ErrorInv'
  BY RoutingAssumption DEF ControlInv, ErrorInv, BudgetInv, CircuitBudget, FailureInv,
     StandbyIsErrorDriven, ResolutionSurvives
<1> QED BY <1>1, <1>2, <1>3

\* The stand-by of the classifier.
LEMMA EncryptedLookupStep == IInv /\ (EncryptedLookup) => QueryInv'
<1> SUFFICES ASSUME IInv, EncryptedLookup
             PROVE  QueryInv'
  OBVIOUS
<1> USE DEF IInv, TypeOK, QueryInv, PlaceInv, Contexts, Ended, Matching, FakeipFallbacks,
           Goto, Respond, Decide, question, history, EncryptedLookup
<1>1. ControlInv'
  BY AnswerIsResponse DEF ControlInv, RouteInv, CountInv, Counted, Routes, MainSteps,
     ResponseInv, AnswerInv
<1>2. ResponseInv'
  BY AnswerIsResponse, EncryptedIsResponse, ClampedIsResponse DEF ControlInv, RouteInv,
     ResponseInv, RevisionInv, BranchInv, AnswerInv, FakeNeverCached, Wanted, Done,
     RealKinds
<1>3. ErrorInv'
  BY RoutingAssumption DEF ControlInv, ErrorInv, BudgetInv, CircuitBudget, FailureInv,
     StandbyIsErrorDriven, ResolutionSurvives
<1> QED BY <1>1, <1>2, <1>3

\* secure_cache answers, or leaves its hit in the context.
LEMMA LookupStep == IInv /\ (Lookup("main") \/ Lookup("sec")) => QueryInv'
<1> SUFFICES ASSUME IInv, Lookup("main") \/ Lookup("sec")
             PROVE  QueryInv'
  OBVIOUS
<1> USE DEF IInv, TypeOK, QueryInv, PlaceInv, Contexts, Ended, Matching, FakeipFallbacks,
           Goto, Respond, Decide, question, history, Lookup
<1>1. ControlInv'
  BY AnswerIsResponse DEF ControlInv, RouteInv, CountInv, Counted, Routes, MainSteps,
     ResponseInv, AnswerInv
<1>2. ResponseInv'
  BY AnswerIsResponse, EncryptedIsResponse, ClampedIsResponse DEF ControlInv, RouteInv,
     ResponseInv, RevisionInv, BranchInv, AnswerInv, FakeNeverCached, Wanted, Done,
     RealKinds
<1>3. ErrorInv'
  BY RoutingAssumption DEF ControlInv, ErrorInv, BudgetInv, CircuitBudget, FailureInv,
     StandbyIsErrorDriven, ResolutionSurvives
<1> QED BY <1>1, <1>2, <1>3

\* secure_unbound answers or fails; the cache keeps what is in the context.
LEMMA AskStep == IInv /\ (Ask("main") \/ Ask("sec")) => QueryInv'
<1> SUFFICES ASSUME IInv, Ask("main") \/ Ask("sec")
             PROVE  QueryInv'
  OBVIOUS
<1> USE DEF IInv, TypeOK, QueryInv, PlaceInv, Contexts, Ended, Matching, FakeipFallbacks,
           Goto, Respond, Decide, question, history, Ask
<1>1. ControlInv'
  BY AnswerIsResponse DEF ControlInv, RouteInv, CountInv, Counted, Routes, MainSteps,
     ResponseInv, AnswerInv
<1>2. ResponseInv'
  BY AnswerIsResponse, EncryptedIsResponse, ClampedIsResponse DEF ControlInv, RouteInv,
     ResponseInv, RevisionInv, BranchInv, AnswerInv, FakeNeverCached, Wanted, Done,
     RealKinds
<1>3. ErrorInv'
  BY RoutingAssumption DEF ControlInv, ErrorInv, BudgetInv, CircuitBudget, FailureInv,
     StandbyIsErrorDriven, ResolutionSurvives
<1> QED BY <1>1, <1>2, <1>3

\* The deadline, the clock, and other queries at the cache.
LEMMA EnvironmentStep == IInv /\ (Expires \/ Tick \/ CacheChanges \/ UNCHANGED vars) => QueryInv'
<1> SUFFICES ASSUME IInv, Expires \/ Tick \/ CacheChanges \/ UNCHANGED vars
             PROVE  QueryInv'
  OBVIOUS
<1> USE DEF IInv, TypeOK, QueryInv, PlaceInv, Contexts, Ended, Matching, FakeipFallbacks,
           Goto, Respond, Decide, question, history, CacheChanges, Expires, Tick, vars
<1>1. ControlInv'
  BY AnswerIsResponse DEF ControlInv, RouteInv, CountInv, Counted, Routes, MainSteps,
     ResponseInv, AnswerInv
<1>2. ResponseInv'
  BY AnswerIsResponse, EncryptedIsResponse, ClampedIsResponse DEF ControlInv, RouteInv,
     ResponseInv, RevisionInv, BranchInv, AnswerInv, FakeNeverCached, Wanted, Done,
     RealKinds
<1>3. ErrorInv'
  BY RoutingAssumption DEF ControlInv, ErrorInv, BudgetInv, CircuitBudget, FailureInv,
     StandbyIsErrorDriven, ResolutionSurvives
<1> QED BY <1>1, <1>2, <1>3
-----------------------------------------------------------------------------
\* TypeOK in parts: where the contexts are, the flags, the question, the
\* responses and the counters.
Positions == MainSteps \cup BranchSteps \cup Ended \cup {"cache", "ask"}

PositionsTyped == pc \in [Contexts -> Positions]

FlagsTyped == auto \in BOOLEAN /\ private \in BOOLEAN /\ lost \in BOOLEAN /\ reloaded \in BOOLEAN

QuestionTyped ==
    /\ rules \in SUBSET {"direct", "proxy"}
    /\ listener \in {"main", "secure"}
    /\ qtype \in {"A", "AAAA", "other"}
    /\ fallback \in {"none", "classify_lookup", "auto_forward_fallback", "fakeip_first"}
    /\ elapsed \in 0..Threshold

ResponsesTyped ==
    /\ cache \in {None} \cup Responses
    /\ R \in [Contexts -> {None} \cup Responses]
    /\ {verdict, revised} \subseteq {None} \cup Responses

DoneTyped == \A c \in Contexts : pc[c] = "done" => R[c] # None

CountersTyped == decisions \in SUBSET Decisions

\* The type invariant, by its parts.
LEMMA TypeParts ==
    /\ TypeOK <=> /\ PositionsTyped /\ FlagsTyped /\ QuestionTyped
                  /\ ResponsesTyped /\ DoneTyped /\ CountersTyped
    /\ TypeOK' <=> /\ PositionsTyped' /\ FlagsTyped' /\ QuestionTyped'
                   /\ ResponsesTyped' /\ DoneTyped' /\ CountersTyped'
  BY Zenon DEF TypeOK, PositionsTyped, Positions, FlagsTyped, QuestionTyped, ResponsesTyped,
               DoneTyped, CountersTyped

\* Types are preserved; that a context is done only with a response needs
\* what is known of the response it has got.
LEMMA TypeStep == IInv /\ [Next]_vars => TypeOK'
<1> SUFFICES ASSUME IInv, [Next]_vars
             PROVE  TypeOK'
  OBVIOUS
<1> USE TypeParts DEF IInv, Next, Main, Primary, Secondary, vars, question, history, Contexts,
        Reject, Enter, CountDirect, MatchDirect, CountProxy, MatchProxy, Foreign, Fork, Lookup,
        Ask, Join, JoinFails, Returned, Classify, Revise, Validated, Recursive, Fakeip,
        FakeipChecks, EncryptedLookup, Keep, Standby, StandDown, Expires, Tick, Reload,
        CacheChanges, Over, Goto, Respond, Decide, Counted
<1>1. PositionsTyped'
  BY DEF PositionsTyped, Positions, MainSteps, BranchSteps, Ended
<1>2. FlagsTyped'
  BY DEF FlagsTyped
<1>3. QuestionTyped'
  <2>1. Threshold \in Nat
    BY RoutingAssumption
  <2> QED BY <2>1 DEF QuestionTyped
<1>4. ResponsesTyped'
  BY AnswerIsResponse, EncryptedIsResponse, ClampedIsResponse
     DEF ResponsesTyped, RealKinds, QueryInv, ResponseInv, BranchInv, RevisionInv, ControlInv,
         PlaceInv
<1>5. DoneTyped'
  BY AnswerIsResponse, EncryptedIsResponse, ClampedIsResponse
     DEF PositionsTyped, ResponsesTyped, DoneTyped, QueryInv, ResponseInv, AnswerInv, BranchInv,
         RevisionInv, RealKinds, Resolved, ControlInv, PlaceInv
<1>6. CountersTyped'
  BY DEF CountersTyped, Decisions, Routes
<1> QED BY <1>1, <1>2, <1>3, <1>4, <1>5, <1>6
-----------------------------------------------------------------------------
\* The invariant holds of a query that arrives.
LEMMA InitInvariant == Init => IInv
<1> SUFFICES ASSUME Init PROVE IInv
  OBVIOUS
<1> USE DEF Init, Contexts
<1>1. TypeOK
  <2>1. PositionsTyped
    BY DEF PositionsTyped, Positions, MainSteps, Ended
  <2>2. FlagsTyped
    BY DEF FlagsTyped
  <2>3. QuestionTyped
    BY RoutingAssumption DEF QuestionTyped
  <2>4. ResponsesTyped /\ DoneTyped
    BY DEF ResponsesTyped, DoneTyped
  <2>5. CountersTyped
    BY DEF CountersTyped
  <2> QED BY <2>1, <2>2, <2>3, <2>4, <2>5, TypeParts
<1>2. ControlInv
  BY DEF ControlInv, PlaceInv, RouteInv, CountInv, MainSteps, Ended, Matching, FakeipFallbacks
<1>3. ResponseInv
  BY DEF ResponseInv, RevisionInv, BranchInv, AnswerInv, FakeNeverCached, FakeipFallbacks, Done
<1>4. ErrorInv
  BY DEF ErrorInv, BudgetInv, FailureInv, StandbyIsErrorDriven, ResolutionSurvives,
         FakeipFallbacks
<1> QED BY <1>1, <1>2, <1>3, <1>4 DEF IInv, QueryInv

\* Every step of the query and of its environment preserves the invariant.
LEMMA StepInvariant == IInv /\ [Next]_vars => IInv'
<1> SUFFICES ASSUME IInv, [Next]_vars
             PROVE  QueryInv'
  BY TypeStep DEF IInv
<1>1. CASE Main
  BY <1>1, EntryStep, MatchStep, MatchProxyStep, ForeignStep, ValidatedStep, JoinStep,
     ClassifyStep, ReviseStep, LookupStep, AskStep DEF Main
<1>2. CASE Primary
  BY <1>2, PrimaryStep DEF Primary
<1>3. CASE Secondary
  BY <1>3, StandbyStep, EncryptedLookupStep, LookupStep, AskStep DEF Secondary
<1>4. CASE Expires \/ Tick \/ Reload \/ CacheChanges \/ Over \/ UNCHANGED vars
  BY <1>4, MatchStep, EnvironmentStep DEF Over
<1> QED BY <1>1, <1>2, <1>3, <1>4 DEF Next

\* The inductive invariant holds in every behaviour of a query.
LEMMA Invariance == Spec => []IInv
  BY InitInvariant, StepInvariant, PTL DEF Spec

(***************************************************************************)
(* A context that is done has a response, and every variable its type.     *)
(***************************************************************************)
THEOREM TypeCorrect == Spec => []TypeOK
<1>1. IInv => TypeOK
  BY DEF IInv
<1> QED BY <1>1, Invariance, PTL

(***************************************************************************)
(* Nothing but answers of the encrypted resolver gets into secure_cache,   *)
(* which keeps whatever a lookup leaves in the context.                    *)
(***************************************************************************)
THEOREM CacheIsReal == Spec => []FakeNeverCached
<1>1. IInv => FakeNeverCached
  BY DEF IInv, QueryInv, ResponseInv
<1> QED BY <1>1, Invariance, PTL

(***************************************************************************)
(* The secure listener, direct names and, in secure-only mode, proxy names *)
(* are answered by the encrypted resolver only.                            *)
(***************************************************************************)
THEOREM SecurePath == Spec => []RealPathIsEncrypted
<1>1. IInv => RealPathIsEncrypted
  BY DEF IInv, TypeOK, QueryInv, ControlInv, RouteInv, ResponseInv, AnswerInv, FakeipFallbacks,
         RealPathIsEncrypted, Done
<1> QED BY <1>1, Invariance, PTL

(***************************************************************************)
(* An answer of the recursive resolver reaches the client only if it is a  *)
(* CN address; all others serve as a verdict.                              *)
(***************************************************************************)
THEOREM PlaintextIsDomestic == Spec => []PlaintextOnlyIfDomestic
<1>1. IInv => PlaintextOnlyIfDomestic
  BY EncryptedIsResponse, ClampedIsResponse
     DEF IInv, TypeOK, QueryInv, ControlInv, RouteInv, ResponseInv, RevisionInv, AnswerInv,
         PlaintextOnlyIfDomestic, Done
<1> QED BY <1>1, Invariance, PTL

(***************************************************************************)
(* What the encrypted resolver denied is never replaced by a fake address. *)
(***************************************************************************)
THEOREM DenialStays == Spec => []NegativeNotFaked
<1>1. IInv => NegativeNotFaked
  BY DEF IInv, TypeOK, QueryInv, ResponseInv, RevisionInv, AnswerInv, NegativeNotFaked, Done
<1> QED BY <1>1, Invariance, PTL

(***************************************************************************)
(* The real address that stands in for a fake one has its TTL clamped.     *)
(***************************************************************************)
THEOREM StandInIsTransient == Spec => []FallbackIsTransient
<1>1. IInv => FallbackIsTransient
  BY EncryptedIsResponse, ClampedIsResponse
     DEF IInv, TypeOK, QueryInv, ResponseInv, RevisionInv, AnswerInv, FallbackIsTransient, Done,
         Wanted
<1> QED BY <1>1, Invariance, PTL

(***************************************************************************)
(* For every threshold above the budget of the circuit, the stand-by of a  *)
(* fake-IP query starts only after the circuit has failed.                 *)
(***************************************************************************)
THEOREM ErrorDrivenStandby == Spec => []StandbyIsErrorDriven
<1>1. IInv => StandbyIsErrorDriven
  BY DEF IInv, QueryInv, ErrorInv
<1> QED BY <1>1, Invariance, PTL

(***************************************************************************)
(* Only the encrypted resolver or the deadline can make a query fail.      *)
(***************************************************************************)
THEOREM ResolutionIsNotLost == Spec => []ResolutionSurvives
<1>1. IInv => ResolutionSurvives
  BY DEF IInv, QueryInv, ErrorInv
<1> QED BY <1>1, Invariance, PTL

(***************************************************************************)
(* Without a reload, a query of the main listener is counted under exactly *)
(* one route.                                                              *)
(***************************************************************************)
THEOREM RouteIsCounted == Spec => []OneRouteCounted
<1>1. IInv => OneRouteCounted
  <2> SUFFICES ASSUME IInv, pc["main"] \in Ended, listener = "main", ~reloaded
               PROVE  Cardinality(decisions \cap Routes) = 1
    BY DEF OneRouteCounted
  <2>1. PICK route \in Routes : decisions \cap Routes = {route}
    BY DEF IInv, QueryInv, ControlInv, CountInv, Ended, Matching
  <2> QED BY <2>1, FS_Singleton
<1> QED BY <1>1, Invariance, PTL
-----------------------------------------------------------------------------
(***************************************************************************)
(* How long a query can take: the safety half of EveryQueryEnds.           *)
(***************************************************************************)
\* The steps that the main context has left at most.
MainLeft ==
    CASE pc["main"] \in Ended        -> 0
      [] pc["main"] = "ask"          -> 1
      [] pc["main"] = "cache"        -> 2
      [] pc["main"] = "returned"     -> 3
      [] pc["main"] = "fallback"     -> IF fallback = "classify_lookup" THEN 8 ELSE 4
      [] pc["main"] = "foreign"      -> 5
      [] pc["main"] = "validated"    -> 5
      [] pc["main"] = "revise"       -> 6
      [] pc["main"] = "classified"   -> 7
      [] pc["main"] = "match_proxy"  -> 9
      [] pc["main"] = "count_proxy"  -> 10
      [] pc["main"] = "match_direct" -> 11
      [] pc["main"] = "count_direct" -> 12
      [] pc["main"] = "entry"        -> 13

\* The steps that the branches of the fallback have left at most, and the time
\* that may pass before the stand-by does not wait any more.
PrimaryLeft ==
    CASE pc["prim"] = "fakeip"                         -> 2
      [] pc["prim"] \in {"recursive", "fakeip_checks"} -> 1
      [] pc["prim"] \in Ended                          -> 0
SecondaryLeft ==
    CASE pc["sec"] = "standby"                    -> 3
      [] pc["sec"] = "cache"                      -> 2
      [] pc["sec"] \in {"encrypted", "keep", "ask"} -> 1
      [] pc["sec"] \in Ended                      -> 0
BranchLeft == PrimaryLeft + SecondaryLeft + (Threshold - elapsed)

\* They are bounded, whatever the query.
LeftBound ==
    MainLeft \in 0..13 /\ PrimaryLeft \in 0..2 /\ SecondaryLeft \in 0..3
    /\ BranchLeft \in 0..Threshold + 5

\* Main goes forward; the branches do while main stays where it is; reloads of
\* the rules and other queries of the cache hold neither up.
QueryAdvances ==
    /\ Main \/ Expires => MainLeft' < MainLeft
    /\ Primary \/ Secondary \/ Tick => MainLeft' = MainLeft /\ BranchLeft' < BranchLeft
    /\ Reload \/ CacheChanges => UNCHANGED <<MainLeft, BranchLeft>>

\* The bounds follow from where the contexts can be.
LEMMA LeftBounded == IInv => LeftBound
<1> SUFFICES ASSUME IInv PROVE LeftBound
  OBVIOUS
<1>1. PlaceInv /\ elapsed \in 0..Threshold /\ Threshold \in Nat
  BY RoutingAssumption DEF IInv, TypeOK, QueryInv, ControlInv
<1>2. MainLeft \in 0..13
  BY <1>1 DEF PlaceInv, MainSteps, Ended, MainLeft
<1>3. PrimaryLeft \in 0..2
  BY <1>1 DEF PlaceInv, Ended, PrimaryLeft
<1>4. SecondaryLeft \in 0..3
  BY <1>1 DEF PlaceInv, Ended, SecondaryLeft
<1> QED BY <1>1, <1>2, <1>3, <1>4 DEF LeftBound, BranchLeft

\* Main never goes back, not even to the fallback it has left.
LEMMA MainAdvances ==
    ASSUME IInv, Main \/ Expires
    PROVE  MainLeft' < MainLeft
<1>0. pc \in [Contexts -> Positions] /\ "main" \in Contexts /\ PlaceInv
      /\ fallback \in {"none", "classify_lookup", "auto_forward_fallback", "fakeip_first"}
  BY DEF IInv, TypeOK, QueryInv, ControlInv, Positions, Contexts
<1>1. CASE Reject \/ Enter \/ CountDirect \/ MatchDirect \/ CountProxy
  <2>1. \/ pc["main"] = "entry" /\ pc'["main"] \in {"done", "cache", "count_direct"}
        \/ pc["main"] = "count_direct" /\ pc'["main"] = "match_direct"
        \/ pc["main"] = "match_direct" /\ pc'["main"] \in {"cache", "count_proxy"}
        \/ pc["main"] = "count_proxy" /\ pc'["main"] = "match_proxy"
    BY <1>0, <1>1 DEF Reject, Enter, CountDirect, MatchDirect, CountProxy, Goto
  <2> QED BY <2>1 DEF MainLeft, Ended
<1>2. CASE MatchProxy
  <2>1. /\ pc["main"] = "match_proxy"
        /\ \/ pc'["main"] = "foreign"
           \/ pc'["main"] = "fallback" /\ fallback' = "classify_lookup"
    BY <1>0, <1>2 DEF MatchProxy, Goto, Fork
  <2> QED BY <2>1 DEF MainLeft, Ended
<1>3. CASE Foreign \/ Validated
  <2>1. /\ pc["main"] \in {"foreign", "validated"}
        /\ \/ pc'["main"] \in {"cache", "done"}
           \/ /\ pc'["main"] = "fallback"
              /\ fallback' \in {"fakeip_first", "auto_forward_fallback"}
    BY <1>0, <1>3 DEF Foreign, Validated, Goto, Fork
  <2> QED BY <2>1 DEF MainLeft, Ended
<1>4. CASE Lookup("main") \/ Ask("main")
  <2>1. \/ pc["main"] = "cache" /\ pc'["main"] \in {"ask", "done"}
        \/ pc["main"] = "ask" /\ pc'["main"] \in {"done", "failed"}
    BY <1>0, <1>4 DEF Lookup, Ask, Goto
  <2> QED BY <2>1 DEF MainLeft, Ended
<1>5. CASE Join \/ JoinFails
  <2>1. /\ pc["main"] = "fallback"
        /\ \/ fallback = "classify_lookup" /\ pc'["main"] = "classified"
           \/ fallback # "classify_lookup" /\ pc'["main"] = "returned"
           \/ pc'["main"] = "failed"
    BY <1>0, <1>5 DEF Join, JoinFails, Goto
  <2> QED BY <2>1 DEF MainLeft, Ended
<1>6. CASE Returned \/ Classify \/ Revise
  <2>1. \/ pc["main"] = "returned" /\ pc'["main"] \in {"done", "cache"}
        \/ pc["main"] = "classified" /\ pc'["main"] \in {"done", "revise"}
        \/ pc["main"] = "revise" /\ pc'["main"] \in {"validated", "failed"}
    BY <1>0, <1>6 DEF Returned, Classify, Revise, Goto
  <2> QED BY <2>1 DEF MainLeft, Ended
<1>7. CASE Expires
  <2>1. pc["main"] \in {"ask", "revise", "fallback"} /\ pc'["main"] = "failed"
    BY <1>0, <1>7 DEF Expires, Goto
  <2> QED BY <2>1 DEF MainLeft, Ended
<1> QED BY <1>1, <1>2, <1>3, <1>4, <1>5, <1>6, <1>7 DEF Main

\* The branches go forward and leave main where it is.
LEMMA BranchAdvances ==
    ASSUME IInv, Primary \/ Secondary \/ Tick
    PROVE  MainLeft' = MainLeft /\ BranchLeft' < BranchLeft
<1>0. pc \in [Contexts -> Positions] /\ Contexts = {"main", "prim", "sec"}
  BY DEF IInv, TypeOK, Positions, Contexts
<1>1. /\ elapsed \in 0..Threshold /\ Threshold \in Nat
      /\ PrimaryLeft \in 0..2 /\ SecondaryLeft \in 0..3
  BY LeftBounded, RoutingAssumption DEF LeftBound, IInv, TypeOK
<1>2. CASE Primary
  <2>1. /\ pc'["main"] = pc["main"] /\ pc'["sec"] = pc["sec"]
        /\ UNCHANGED <<fallback, elapsed>>
        /\ \/ pc["prim"] \in {"recursive", "fakeip_checks"} /\ pc'["prim"] \in Ended
           \/ pc["prim"] = "fakeip" /\ pc'["prim"] \in {"fakeip_checks", "failed"}
    BY <1>0, <1>2 DEF Primary, Recursive, Fakeip, FakeipChecks, Goto, Ended
  <2>2. MainLeft' = MainLeft /\ SecondaryLeft' = SecondaryLeft
    BY <2>1 DEF MainLeft, SecondaryLeft
  <2>3. PrimaryLeft' \in 0..2 /\ PrimaryLeft' < PrimaryLeft
    BY <2>1 DEF PrimaryLeft, Ended
  <2>4. elapsed' = elapsed
    BY <2>1
  <2>5. \A p, q, t, e, x \in Int : p < q => p + t + (e - x) < q + t + (e - x)
    OBVIOUS
  <2>6. PrimaryLeft' \in Int /\ PrimaryLeft \in Int /\ SecondaryLeft \in Int
        /\ Threshold \in Int /\ elapsed \in Int
    BY <1>1, <2>3
  <2>7. PrimaryLeft' + SecondaryLeft + (Threshold - elapsed)
          < PrimaryLeft + SecondaryLeft + (Threshold - elapsed)
    BY <2>3, <2>5, <2>6
  <2> QED BY <2>2, <2>4, <2>7 DEF BranchLeft
<1>3. CASE Secondary
  <2>1. /\ pc'["main"] = pc["main"] /\ pc'["prim"] = pc["prim"]
        /\ UNCHANGED <<fallback, elapsed>>
        /\ \/ pc["sec"] = "standby" /\ pc'["sec"] \in {"encrypted", "keep", "cache", "failed"}
           \/ pc["sec"] = "cache" /\ pc'["sec"] \in {"ask", "done"}
           \/ pc["sec"] \in {"encrypted", "keep", "ask"} /\ pc'["sec"] \in Ended
    BY <1>0, <1>3 DEF Secondary, EncryptedLookup, Keep, Standby, StandDown, Lookup, Ask, Goto,
       Ended
  <2>2. MainLeft' = MainLeft /\ PrimaryLeft' = PrimaryLeft
    BY <2>1 DEF MainLeft, PrimaryLeft
  <2>3. SecondaryLeft' \in 0..3 /\ SecondaryLeft' < SecondaryLeft
    BY <2>1 DEF SecondaryLeft, Ended
  <2>4. elapsed' = elapsed
    BY <2>1
  <2>5. \A p, q, t, e, x \in Int : p < q => t + p + (e - x) < t + q + (e - x)
    OBVIOUS
  <2>6. SecondaryLeft' \in Int /\ SecondaryLeft \in Int /\ PrimaryLeft \in Int
        /\ Threshold \in Int /\ elapsed \in Int
    BY <1>1, <2>3
  <2>7. PrimaryLeft + SecondaryLeft' + (Threshold - elapsed)
          < PrimaryLeft + SecondaryLeft + (Threshold - elapsed)
    BY <2>3, <2>5, <2>6
  <2> QED BY <2>2, <2>4, <2>7 DEF BranchLeft
<1>4. CASE Tick
  <2>1. UNCHANGED <<pc, fallback>> /\ elapsed' = elapsed + 1 /\ elapsed < Threshold
    BY <1>4 DEF Tick
  <2>2. MainLeft' = MainLeft /\ PrimaryLeft' = PrimaryLeft /\ SecondaryLeft' = SecondaryLeft
    BY <2>1 DEF MainLeft, PrimaryLeft, SecondaryLeft
  <2> QED BY <1>1, <2>1, <2>2 DEF BranchLeft
<1> QED BY <1>2, <1>3, <1>4

(***************************************************************************)
(* A query takes at most thirteen steps of its own and, between two of     *)
(* them, at most Threshold + 5 of a fallback's branches and clock: no      *)
(* path of the sequences leads back to an earlier one, in either mode, and *)
(* neither reloads nor other queries prolong it.                           *)
(***************************************************************************)
THEOREM QueryIsBounded == Spec => []LeftBound /\ [][QueryAdvances]_vars
<1>1. IInv /\ [Next]_vars => [QueryAdvances]_vars
  <2> SUFFICES ASSUME IInv, Next PROVE QueryAdvances
    OBVIOUS
  <2>1. ASSUME Reload \/ CacheChanges PROVE UNCHANGED <<MainLeft, BranchLeft>>
    BY <2>1 DEF Reload, CacheChanges, MainLeft, BranchLeft, PrimaryLeft, SecondaryLeft
  <2> QED BY <2>1, MainAdvances, BranchAdvances DEF QueryAdvances
<1> QED BY <1>1, LeftBounded, Invariance, PTL DEF Spec

\* A context is at a step that it can take.
MainMoves ==
    \/ pc["main"] \notin Ended \cup {"fallback"}
    \/ pc["main"] = "fallback" /\ (pc["prim"] = "done" \/ pc["sec"] = "done" \/ BothFailed)
PrimaryMoves == pc["prim"] \notin Ended
SecondaryMoves ==
    \/ pc["sec"] \notin Ended \cup {"standby"}
    \/ pc["sec"] = "standby" /\ (pc["prim"] \in Ended \/ elapsed = Threshold)

(***************************************************************************)
(* A query is never stuck between its contexts: a main that waits for its  *)
(* fallback waits for a branch that has a step to take, and a stand-by     *)
(* that waits has a primary that has one.                                  *)
(***************************************************************************)
THEOREM QueryNeverStuck ==
    Spec => [](/\ pc["main"] \notin Ended => MainMoves \/ PrimaryMoves \/ SecondaryMoves
               /\ pc["sec"] \notin Ended => PrimaryMoves \/ SecondaryMoves)
<1>1. IInv => /\ pc["main"] \notin Ended => MainMoves \/ PrimaryMoves \/ SecondaryMoves
              /\ pc["sec"] \notin Ended => PrimaryMoves \/ SecondaryMoves
  BY DEF IInv, QueryInv, ControlInv, PlaceInv, Ended, MainMoves, PrimaryMoves, SecondaryMoves,
         BothFailed
<1> QED BY <1>1, Invariance, PTL
=============================================================================
