------------------------------- MODULE Routing -------------------------------
(***************************************************************************)
(* The split-DNS policy: the MosDNS sequences of config/mosdns.yaml.tmpl   *)
(* and of the foreign-path fragment chosen by AUTO_FORWARD, run for one    *)
(* query.                                                                  *)
(*                                                                         *)
(* A query is a main context and, inside a fallback, the two goroutines    *)
(* that run the primary and the secondary branch on copies of it.  The     *)
(* resolvers, Mihomo and the deadline of the query answer in any order;    *)
(* the rules of the name are reloaded, and other queries write to the      *)
(* cache they share with this one, between any two steps.                  *)
(*                                                                         *)
(* sequence, forward, cache and fallback are plugins of MosDNS, modelled   *)
(* from how the configuration uses them.  Time is counted, in units of     *)
(* 400 ms, only while a branch of a fallback is awaited.                   *)
(***************************************************************************)
EXTENDS Integers, FiniteSets

CONSTANTS
    Attempts,           \* attempts of auto_forward_circuit
    AttemptTimeout,     \* attempt_timeout_millis, in units
    Threshold,          \* threshold of the fallbacks, in units
    None                \* no response

ASSUME RoutingAssumption ==
    /\ Attempts \in Nat \ {0}
    /\ AttemptTimeout \in Nat \ {0}
    /\ Threshold \in Nat
    /\ Attempts * AttemptTimeout < Threshold

Contexts == {"main", "prim", "sec"}

\* What a resolver says of the name: an A record in cn_ips or not, no record,
\* or a negative RCode; "fake" is an A record of Mihomo.
RealKinds == {"cn", "foreign", "nodata", "nx", "servfail"}

Responses ==
    [from : {"policy", "recursive", "encrypted", "mihomo"},
     kind : RealKinds \cup {"fake"}, short : BOOLEAN]

ASSUME NoneAssumption == None \notin Responses

Answer(from, kind) == [from |-> from, kind |-> kind, short |-> FALSE]
Encrypted == {Answer("encrypted", kind) : kind \in RealKinds}

Routes == {"rejected_ipv6", "rejected_private", "direct", "proxy", "unknown"}
Decisions == Routes \cup
    {"secure_listener_rejected_ipv6", "secure_listener", "classified_domestic",
     "classified_overseas", "secure_non_cn", "secure_foreign", "validated_foreign",
     "fakeip_attempt", "fakeip_answer", "fallback_reuse_real", "fallback_secure_lookup"}

VARIABLES
    auto,           \* AUTO_FORWARD is set: foreign-mihomo.yaml is rendered
    rules,          \* which rule files match the name now
    cache,          \* what secure_cache holds for the name
    pc, R,          \* per context: its position, the response in it
    listener,       \* "main" (53) or "secure" (5304)
    qtype,          \* "A", "AAAA" or "other"
    private,        \* the name is in private_domains
    fallback,       \* the fallback plugin that runs, or ran last
    elapsed,        \* time since it was entered
    decisions,      \* decisions counted for this query
    verdict,        \* history: the response that classified the name
    revised,        \* history: the encrypted response asked for after it
    lost,           \* history: an encrypted lookup or the deadline failed it
    reloaded        \* history: the rules changed under the query

question == <<listener, qtype, private>>
history == <<verdict, revised, lost, reloaded>>
vars == <<auto, rules, cache, pc, R, question, fallback, elapsed, decisions, history>>

MainSteps ==
    {"entry", "count_direct", "match_direct", "count_proxy", "match_proxy", "foreign",
     "classified", "revise", "validated", "fallback", "returned"}
BranchSteps == {"standby", "recursive", "encrypted", "fakeip", "fakeip_checks", "keep"}
Ended == {"done", "failed"}

TypeOK ==
    /\ auto \in BOOLEAN
    /\ rules \in SUBSET {"direct", "proxy"}
    /\ cache \in {None} \cup Responses
    /\ pc \in [Contexts -> MainSteps \cup BranchSteps \cup Ended \cup {"cache", "ask"}]
    /\ R \in [Contexts -> {None} \cup Responses]
    /\ \A c \in Contexts : pc[c] = "done" => R[c] # None
    /\ listener \in {"main", "secure"}
    /\ qtype \in {"A", "AAAA", "other"}
    /\ private \in BOOLEAN
    /\ fallback \in {"none", "classify_lookup", "auto_forward_fallback", "fakeip_first"}
    /\ elapsed \in 0..Threshold
    /\ decisions \in SUBSET Decisions
    /\ {verdict, revised} \subseteq {None} \cup Responses
    /\ lost \in BOOLEAN
    /\ reloaded \in BOOLEAN

\* A query arrives at a listener, with any rules.
Init ==
    /\ auto \in BOOLEAN
    /\ rules \in SUBSET {"direct", "proxy"}
    /\ cache = None
    /\ pc = [main |-> "entry", prim |-> "failed", sec |-> "failed"]
    /\ R = [c \in Contexts |-> None]
    /\ listener \in {"main", "secure"}
    /\ qtype \in {"A", "AAAA", "other"}
    /\ private \in BOOLEAN
    /\ fallback = "none"
    /\ elapsed = 0
    /\ decisions = {}
    /\ verdict = None
    /\ revised = None
    /\ lost = FALSE
    /\ reloaded = FALSE
-----------------------------------------------------------------------------
Goto(c, where) == pc' = [pc EXCEPT ![c] = where]
Respond(c, response) == R' = [R EXCEPT ![c] = response]
Decide(labels) == decisions' = decisions \cup labels

\* Mutant of Counted: the counter has no condition.
CountedAlways(label) == {label}

\* guarddns_decision under a rule file.
Counted(label) == IF label \in rules THEN {label} ELSE {}

\* reject 0 and reject 3 at the head of the two entry sequences.
Reject ==
    /\ pc["main"] = "entry"
    /\ \/ /\ qtype = "AAAA"
          /\ Respond("main", Answer("policy", "nodata"))
          /\ Decide({IF listener = "main" THEN "rejected_ipv6"
                     ELSE "secure_listener_rejected_ipv6"})
       \/ /\ qtype # "AAAA" /\ listener = "main" /\ private
          /\ Respond("main", Answer("policy", "nx"))
          /\ Decide({"rejected_private"})
    /\ Goto("main", "done")
    /\ UNCHANGED <<auto, rules, cache, question, fallback, elapsed, history>>

\* secure_listener_path goes to secure_real_path, main_sequence to the rules.
Enter ==
    /\ pc["main"] = "entry" /\ qtype # "AAAA"
    /\ \/ listener = "secure" /\ Decide({"secure_listener"}) /\ Goto("main", "cache")
       \/ /\ listener = "main" /\ ~private
          /\ Goto("main", "count_direct") /\ UNCHANGED decisions
    /\ UNCHANGED <<auto, rules, cache, R, question, fallback, elapsed, history>>

\* Each rule file is asked twice: for the counter and for the branch.
CountDirect ==
    /\ pc["main"] = "count_direct"
    /\ Decide(Counted("direct"))
    /\ Goto("main", "match_direct")
    /\ UNCHANGED <<auto, rules, cache, R, question, fallback, elapsed, history>>

MatchDirect ==
    /\ pc["main"] = "match_direct"
    /\ Goto("main", IF "direct" \in rules THEN "cache" ELSE "count_proxy")
    /\ UNCHANGED <<auto, rules, cache, R, question, fallback, elapsed, decisions, history>>

CountProxy ==
    /\ pc["main"] = "count_proxy"
    /\ Decide(Counted("proxy"))
    /\ Goto("main", "match_proxy")
    /\ UNCHANGED <<auto, rules, cache, R, question, fallback, elapsed, history>>

\* The fallback plugin runs both branches on copies of the context.
Fork(plugin, primary) ==
    /\ fallback' = plugin
    /\ elapsed' = 0
    /\ pc' = [main |-> "fallback", prim |-> primary, sec |-> "standby"]
    /\ R' = [c \in Contexts |->
                IF c = "prim" /\ primary = "fakeip" THEN None ELSE R["main"]]

\* goto foreign_path, or, for an unknown name, classify_lookup.
MatchProxy ==
    /\ pc["main"] = "match_proxy"
    /\ IF "proxy" \in rules
       THEN Goto("main", "foreign") /\ UNCHANGED <<R, fallback, elapsed, decisions>>
       ELSE Decide({"unknown"}) /\ Fork("classify_lookup", "recursive")
    /\ UNCHANGED <<auto, rules, cache, question, history>>

\* Mutant of Forwards: the fragment of the other mode is rendered.
ForwardsAlways == qtype = "A"

Forwards == auto /\ qtype = "A"

\* foreign_path: Mihomo first for an A question, encrypted DNS otherwise.
Foreign ==
    /\ pc["main"] = "foreign"
    /\ IF Forwards
       THEN Fork("fakeip_first", "fakeip") /\ Decide({"fakeip_attempt"})
       ELSE /\ Goto("main", "cache") /\ Decide(IF auto THEN {} ELSE {"secure_foreign"})
            /\ UNCHANGED <<R, fallback, elapsed>>
    /\ UNCHANGED <<auto, rules, cache, question, history>>
-----------------------------------------------------------------------------
\* secure_cache: a hit may answer, or the resolver is asked all the same.
Lookup(c) ==
    /\ pc[c] = "cache"
    /\ \/ Goto(c, "ask") /\ R' \in {R, [R EXCEPT ![c] = IF cache = None THEN @ ELSE cache]}
       \/ cache # None /\ Respond(c, cache) /\ Goto(c, "done")
    /\ UNCHANGED <<auto, rules, cache, question, fallback, elapsed, decisions, history>>

\* secure_unbound answers; the cache keeps whatever response is left behind it.
Ask(c) ==
    /\ pc[c] = "ask"
    /\ \/ \E r \in Encrypted : Respond(c, r) /\ cache' = r /\ Goto(c, "done") /\ UNCHANGED lost
       \/ /\ Goto(c, "failed") /\ lost' = TRUE
          /\ cache' = (IF R[c] = None THEN cache ELSE R[c])
          /\ UNCHANGED R
    /\ UNCHANGED <<auto, rules, question, fallback, elapsed, decisions, verdict, revised, reloaded>>

\* recursive_lookup.
Recursive ==
    /\ pc["prim"] = "recursive"
    /\ \/ \E kind \in RealKinds : Respond("prim", Answer("recursive", kind)) /\ Goto("prim", "done")
       \/ Goto("prim", "failed") /\ UNCHANGED R
    /\ UNCHANGED <<auto, rules, cache, question, fallback, elapsed, decisions, history>>

\* encrypted_lookup, the stand-by of the classifier.
EncryptedLookup ==
    /\ pc["sec"] = "encrypted"
    /\ \/ \E r \in Encrypted : Respond("sec", r) /\ Goto("sec", "done") /\ UNCHANGED lost
       \/ Goto("sec", "failed") /\ lost' = TRUE /\ UNCHANGED R
    /\ UNCHANGED <<auto, rules, cache, question, fallback, elapsed, decisions, verdict, revised,
                   reloaded>>

\* fakeip_query up to the circuit, which may refuse, fail or time out.
Fakeip ==
    /\ pc["prim"] = "fakeip"
    /\ \/ \E kind \in {"fake", "nodata", "nx"} :
              Respond("prim", Answer("mihomo", kind)) /\ Goto("prim", "fakeip_checks")
       \/ Goto("prim", "failed") /\ UNCHANGED R
    /\ UNCHANGED <<auto, rules, cache, question, fallback, elapsed, decisions, history>>

\* The rest of fakeip_query: anything but an A record is dropped.
FakeipChecks ==
    /\ pc["prim"] = "fakeip_checks"
    /\ IF R["prim"].kind = "fake"
       THEN Goto("prim", "done") /\ Decide({"fakeip_answer"}) /\ UNCHANGED R
       ELSE Goto("prim", "failed") /\ Respond("prim", None) /\ UNCHANGED decisions
    /\ UNCHANGED <<auto, rules, cache, question, fallback, elapsed, history>>

\* Mutants of Clamped: the TTL is left as it is, or drop_resp comes first.
Unclamped(response) == response
Dropped(response) == None

\* ttl 5.
Clamped(response) == [response EXCEPT !.short = TRUE]

\* keep_real_response.
Keep ==
    /\ pc["sec"] = "keep"
    /\ Respond("sec", Clamped(R["sec"]))
    /\ Goto("sec", "done")
    /\ UNCHANGED <<auto, rules, cache, question, fallback, elapsed, decisions, history>>

\* The stand-by is needed: the primary has failed or the threshold is over.
Standby ==
    /\ pc["sec"] = "standby"
    /\ pc["prim"] = "failed" \/ elapsed = Threshold
    /\ \/ /\ fallback = "classify_lookup" /\ Goto("sec", "encrypted")
          /\ UNCHANGED <<R, decisions>>
       \/ /\ fallback = "auto_forward_fallback" /\ Goto("sec", "keep")
          /\ Decide({"fallback_reuse_real"}) /\ UNCHANGED R
       \/ /\ fallback = "fakeip_first" /\ Goto("sec", "cache")
          /\ Decide({"fallback_secure_lookup"}) /\ Respond("sec", None)
    /\ UNCHANGED <<auto, rules, cache, question, fallback, elapsed, history>>

\* primDone: the stand-by is not.
StandDown ==
    /\ pc["sec"] = "standby" /\ pc["prim"] = "done"
    /\ Goto("sec", "failed")
    /\ UNCHANGED <<auto, rules, cache, R, question, fallback, elapsed, decisions, history>>

\* The first response of the two is copied back.
Join ==
    /\ pc["main"] = "fallback"
    /\ \E c \in {"prim", "sec"} : pc[c] = "done" /\ Respond("main", R[c])
    /\ Goto("main", IF fallback = "classify_lookup" THEN "classified" ELSE "returned")
    /\ UNCHANGED <<auto, rules, cache, question, fallback, elapsed, decisions, history>>

\* Mutants of BothFailed: one failure is enough, or two are not.
PrimaryFailed == pc["prim"] = "failed"
NeverBoth == FALSE

BothFailed == pc["prim"] = "failed" /\ pc["sec"] = "failed"

\* The fallback, and with it the query, ends in an error.
JoinFails ==
    /\ pc["main"] = "fallback" /\ BothFailed
    /\ Goto("main", "failed")
    /\ UNCHANGED <<auto, rules, cache, R, question, fallback, elapsed, decisions, history>>

\* Mutant of Resolved: a response does not end foreign_path.
ResolvedUnlessA == qtype # "A"

\* has_resp.
Resolved == R["main"] # None

\* The fallback was the last step of its path, but for '!has_resp'.
Returned ==
    /\ pc["main"] = "returned"
    /\ Goto("main", IF Resolved THEN "done" ELSE "cache")
    /\ UNCHANGED <<auto, rules, cache, R, question, fallback, elapsed, decisions, history>>
-----------------------------------------------------------------------------
\* Mutant of Domestic: resp_ip is not asked for.
DomesticAny == qtype = "A" /\ R["main"].kind \in {"cn", "foreign"}

\* qtype 1, rcode 0, has_wanted_ans and resp_ip $cn_ips.
Domestic == qtype = "A" /\ R["main"].kind = "cn"

\* classify_path after its lookup: the answer is accepted, or only a verdict.
Classify ==
    /\ pc["main"] = "classified"
    /\ verdict' = R["main"]
    /\ IF Domestic
       THEN Goto("main", "done") /\ Decide({"classified_domestic"}) /\ UNCHANGED R
       ELSE Goto("main", "revise") /\ Decide({"classified_overseas"}) /\ Respond("main", None)
    /\ UNCHANGED <<auto, rules, cache, question, fallback, elapsed, revised, lost, reloaded>>

\* forward_unbound decides what the client receives.
Revise ==
    /\ pc["main"] = "revise"
    /\ \/ \E r \in Encrypted :
              /\ Respond("main", r)
              /\ revised' = r
              /\ Goto("main", "validated")
              /\ UNCHANGED lost
       \/ Goto("main", "failed") /\ lost' = TRUE /\ UNCHANGED <<R, revised>>
    /\ UNCHANGED <<auto, rules, cache, question, fallback, elapsed, decisions, verdict, reloaded>>

\* Mutant of Wanted: rcode and has_wanted_ans are not asked for.
WantedAny == qtype = "A"

\* qtype 1, rcode 0 and has_wanted_ans.
Wanted == qtype = "A" /\ R["main"].kind \in {"cn", "foreign"}

\* validated_foreign_path of either fragment.
Validated ==
    /\ pc["main"] = "validated"
    /\ IF auto /\ Wanted
       THEN /\ Decide({"validated_foreign", "fakeip_attempt"})
            /\ Fork("auto_forward_fallback", "fakeip")
       ELSE /\ Decide(IF auto THEN {} ELSE {"secure_non_cn"})
            /\ Goto("main", "done") /\ UNCHANGED <<R, fallback, elapsed>>
    /\ UNCHANGED <<auto, rules, cache, question, history>>

\* The deadline of the query, or its client, ends it where it waits.
Expires ==
    /\ pc["main"] \in {"ask", "revise", "fallback"}
    /\ Goto("main", "failed")
    /\ lost' = TRUE
    /\ UNCHANGED <<auto, rules, cache, R, question, fallback, elapsed, decisions, verdict, revised,
                   reloaded>>
-----------------------------------------------------------------------------
\* Mutant of CircuitBudget: the circuit tries once more.
CircuitBudgetRetry == (Attempts + 1) * AttemptTimeout

\* The circuit answers or fails within its attempts.
CircuitBudget == Attempts * AttemptTimeout

\* Time passes while the primary is awaited.
Tick ==
    /\ pc["sec"] = "standby" /\ elapsed < Threshold
    /\ \/ pc["prim"] = "recursive"
       \/ pc["prim"] = "fakeip" /\ elapsed < CircuitBudget
    /\ elapsed' = elapsed + 1
    /\ UNCHANGED <<auto, rules, cache, pc, R, question, fallback, decisions, history>>

\* A rule file is reloaded while the query has yet to ask it.
Reload ==
    /\ pc["main"] \in {"count_direct", "match_direct", "count_proxy", "match_proxy"}
    /\ \E new \in SUBSET {"direct", "proxy"} : new # rules /\ rules' = new
    /\ reloaded' = TRUE
    /\ UNCHANGED <<auto, cache, pc, R, question, fallback, elapsed, decisions, verdict, revised, lost>>

\* Another query has filled the cache, or the entry expires, before a lookup.
CacheChanges ==
    /\ \E c \in Contexts : pc[c] = "cache"
    /\ cache' \in {None} \cup Encrypted
    /\ UNCHANGED <<auto, rules, pc, R, question, fallback, elapsed, decisions, history>>

Over == (\A c \in Contexts : pc[c] \in Ended) /\ UNCHANGED vars

Main ==
    \/ Reject \/ Enter \/ CountDirect \/ MatchDirect \/ CountProxy \/ MatchProxy \/ Foreign
    \/ Lookup("main") \/ Ask("main") \/ Join \/ JoinFails \/ Returned
    \/ Classify \/ Revise \/ Validated

Primary == Recursive \/ Fakeip \/ FakeipChecks

Secondary == EncryptedLookup \/ Keep \/ Standby \/ StandDown \/ Lookup("sec") \/ Ask("sec")

Next ==
    \/ Main \/ Primary \/ Secondary \/ Expires
    \/ Tick \/ Reload \/ CacheChanges \/ Over

Spec == Init /\ [][Next]_vars

(***************************************************************************)
(* Goroutines are scheduled, and every exchange of a forward plugin or of  *)
(* the circuit ends.  The deadline of the query is not relied on.          *)
(***************************************************************************)
FairSpec == Spec /\ WF_vars(Main) /\ WF_vars(Primary) /\ WF_vars(Secondary)
-----------------------------------------------------------------------------
\* The client has received R["main"].
Done == pc["main"] = "done"

(***************************************************************************)
(* "Fake-IP is never cached by GuardDNS": nothing but the answers of the   *)
(* encrypted resolver gets into the cache, although the cache keeps any    *)
(* response it finds in the context, even that of a failed lookup.         *)
(***************************************************************************)
FakeNeverCached == cache # None => cache.from = "encrypted"

(***************************************************************************)
(* "Port 5304 always returns an encrypted real address", and so does       *)
(* secure-only mode for a proxy name and either mode for a direct name,    *)
(* whatever other rules it matches.                                        *)
(***************************************************************************)
RealPathIsEncrypted ==
    (/\ Done /\ R["main"].from # "policy"
     /\ \/ listener = "secure"
        \/ ~reloaded /\ "direct" \in rules
        \/ ~reloaded /\ "proxy" \in rules /\ ~auto)
        => R["main"].from = "encrypted"

(***************************************************************************)
(* "Everything else the recursive resolver said is only a verdict, never   *)
(* an answer": a plaintext answer reaches the client only as a CN address. *)
(***************************************************************************)
PlaintextOnlyIfDomestic ==
    Done /\ R["main"].from = "recursive" =>
        listener = "main" /\ qtype = "A" /\ R["main"].kind = "cn"

(***************************************************************************)
(* "DNSSEC failures remain SERVFAIL; NXDOMAIN and NODATA are not converted *)
(* to fake-IP": what the encrypted resolver denied, after the recursive    *)
(* one was discarded, stays denied.                                        *)
(***************************************************************************)
NegativeNotFaked ==
    (/\ Done /\ revised # None
     /\ revised.kind \in {"nodata", "nx", "servfail"})
        => R["main"] = revised

(***************************************************************************)
(* "a validated unknown-name response is reused for fallback with a        *)
(* five-second TTL": with Mihomo enabled, the real A record of a name that *)
(* was not domestic never reaches the client with its own TTL.             *)
(***************************************************************************)
FallbackIsTransient ==
    (/\ Done /\ auto /\ qtype = "A" /\ revised # None
     /\ R["main"].kind \in {"cn", "foreign"})
        => R["main"].short

(***************************************************************************)
(* "Above the circuit's own budget this branch becomes purely error-       *)
(* driven": no stand-by of a fake-IP query starts while the circuit may    *)
(* still answer.                                                           *)
(***************************************************************************)
StandbyIsErrorDriven ==
    (/\ fallback \in {"auto_forward_fallback", "fakeip_first"}
     /\ pc["sec"] \in {"keep", "cache", "ask", "done"})
        => pc["prim"] = "failed"

(***************************************************************************)
(* "Losing the recursive resolver must cost mainland names their local     *)
(* answer, not their resolution", and likewise losing Mihomo: a query      *)
(* fails only if the encrypted resolver or its own deadline failed it.     *)
(***************************************************************************)
ResolutionSurvives == pc["main"] = "failed" => lost

(***************************************************************************)
(* Each query of the main listener is counted under one route, unless a    *)
(* reload fell between the counter and the branch, which ask the rule file *)
(* one after the other.                                                    *)
(***************************************************************************)
OneRouteCounted ==
    pc["main"] \in Ended /\ listener = "main" /\ ~reloaded =>
        Cardinality(decisions \cap Routes) = 1

(***************************************************************************)
(* Every query ends, with a response or an error, even if its deadline     *)
(* never comes.                                                            *)
(***************************************************************************)
EveryQueryEnds == (pc["main"] = "entry") ~> (pc["main"] \in Ended)

(***************************************************************************)
(* "unknown names reach Mihomo only after their real response proves       *)
(* non-CN".  It does not hold: whatever is not a CN address counts as      *)
(* overseas, a SERVFAIL or an empty answer of the recursive resolver       *)
(* included, and the encrypted answer is not tested against cn_ips.        *)
(***************************************************************************)
UnknownForwardedOnlyIfNonCN ==
    fallback = "auto_forward_fallback" => verdict.kind = "foreign" \/ revised.kind = "foreign"
=============================================================================
