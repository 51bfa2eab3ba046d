-------------------------- MODULE DomainEpisodeProofs --------------------------
(***************************************************************************)
(* Proofs about DomainEpisodes: each built-in Domain keeps the contract    *)
(* the rollout asks of it, and whatever an Agent tries, an Episode changes *)
(* nothing but what its task is about, after what its route demands.       *)
(*                                                                         *)
(* The three Domains differ in what they look at and what they change, and *)
(* agree in how: flags of the session stand for observations the history   *)
(* shows, a change is made only under the flags its route needs, and a     *)
(* world that was changed is not changed again.                            *)
(***************************************************************************)
EXTENDS DomainEpisodes, AgentEpisodeProofs, WellFoundedInduction, NaturalsInduction,
        FiniteSetTheorems

(* The engine uses the built-in adapter of a case that names one.            *)
BuiltinDomainsRun ==
    \A c \in Case : c.domain \in BuiltinDomainIds =>
        /\ EpisodeStart(c) = BuiltinStart(c) /\ EpisodeTools(c) = BuiltinTools(c)
        /\ \A session, call : ExecuteTool(c, session, call) = BuiltinExecute(c, session, call)

--------------------------------------------------------------------------------
(* Early returns. *)

LEMMA FirstIsFirst ==
  ASSUME NEW S \in SUBSET Nat, S # {}
  PROVE  /\ First(S) \in S
         /\ \A t \in S : First(S) <= t
<1>1. \E s \in S : \A t \in S : ~(<<t, s>> \in OpToRel(<, Nat))
  BY NatLessThanWellFounded, WFMin
<1>2. PICK s \in S : \A t \in S : ~(<<t, s>> \in OpToRel(<, Nat))
  BY <1>1
<1>3. \A t \in S : s <= t
  <2> SUFFICES ASSUME NEW t \in S, t < s PROVE FALSE
    OBVIOUS
  <2>1. <<t, s>> \in Nat \X Nat /\ <<t, s>>[1] < <<t, s>>[2]
    OBVIOUS
  <2>2. <<t, s>> \in OpToRel(<, Nat)
    BY <2>1, Zenon DEF OpToRel
  <2>3. QED
    BY <1>2, <2>2
<1>4. QED
  BY <1>3 DEF First

(* What passes a chain of early returns fails none of its conditions, and comes *)
(* to what is after them.                                                       *)
LEMMA PassedReturns ==
  ASSUME NEW n \in Nat, NEW checks, DOMAIN checks = 1 .. n,
         \A i \in 1 .. n : checks[i][2] # None,
         NEW otherwise, EarlyReturn(checks, otherwise) = None
  PROVE  otherwise = None /\ \A i \in 1 .. n : ~checks[i][1]
<1> DEFINE holds == {i \in DOMAIN checks : checks[i][1]}
<1>1. CASE holds # {}
  <2>1. holds \in SUBSET Nat
    OBVIOUS
  <2>2. First(holds) \in holds
    BY <1>1, <2>1, FirstIsFirst
  <2>3. EarlyReturn(checks, otherwise) = checks[First(holds)][2]
    BY <1>1 DEF EarlyReturn
  <2>4. QED
    BY <2>2, <2>3
<1>2. CASE holds = {}
  BY <1>2 DEF EarlyReturn
<1>3. QED
  BY <1>1, <1>2

--------------------------------------------------------------------------------
(* Sessions. *)

(* A session with one of its fields replaced.                                   *)
LEMMA UpdatedSession ==
  ASSUME NEW s, IsSession(s), NEW x
  PROVE  /\ LET t == [s EXCEPT !.world = x]
            IN  /\ IsSession(t) /\ DOMAIN t = DOMAIN s
                /\ \A f \in DOMAIN s \ {"world"} : t[f] = s[f]
                /\ t.world = x
         /\ \A field : field # "world" =>
               LET t == [s EXCEPT ![field] = x]
               IN  /\ IsSession(t) /\ DOMAIN t = DOMAIN s
                   /\ \A f \in DOMAIN s \ {field} : t[f] = s[f]
                   /\ field \in DOMAIN s => t[field] = x
  BY DEF IsSession

--------------------------------------------------------------------------------
(* Histories. *)

(* What the flags of a session stand for: the target was found, after a listing *)
(* if after says so, something was listed, a stale label failed; and every      *)
(* change came after what its route needs. The sets hold indexes of events.     *)
Shows(found, listings, probes, changes, flags, route) ==
    /\ flags.found => \E t \in found : flags.after => \E l \in listings : l < t
    /\ flags.listed => listings # {}
    /\ flags.probed => probes # {}
    /\ \A change \in changes :
           /\ \E t \in found : t < change /\ (route.listing => \E l \in listings : l < t)
           /\ route.probe => \E p \in probes : p < change

LEMMA ShowsStill ==
  ASSUME NEW F, NEW L, NEW P, NEW C, NEW F2, NEW L2, NEW P2, NEW flags, NEW route,
         F \subseteq F2, L \subseteq L2, P \subseteq P2, Shows(F, L, P, C, flags, route)
  PROVE  Shows(F2, L2, P2, C, flags, route)
  BY DEF Shows

(* One event more, the last of a longer history, keeps that: it may be what a   *)
(* flag stands for from now on, or a change that the flags allowed.             *)
Extended(n, m, found, listings, probes, changes, found2, listings2, probes2, changes2) ==
    /\ n \in Nat /\ m \in Nat /\ n < m
    /\ found \subseteq 1 .. n /\ listings \subseteq 1 .. n /\ probes \subseteq 1 .. n
    /\ found \subseteq found2 /\ listings \subseteq listings2 /\ probes \subseteq probes2
    /\ changes2 \subseteq changes \cup {m}

Explains(m, changes, found2, listings2, probes2, changes2, flags, flags2, route) ==
    /\ flags2.found => \/ flags.found /\ (flags2.after => flags.after)
                       \/ m \in found2 /\ (flags2.after => flags.listed)
    /\ flags2.listed => flags.listed \/ m \in listings2
    /\ flags2.probed => flags.probed \/ probes2 # {}
    /\ m \in changes2 \ changes =>
           flags.found /\ (route.listing => flags.after) /\ (route.probe => flags.probed)

LEMMA ShowsMore ==
  ASSUME NEW n, NEW m, NEW F, NEW L, NEW P, NEW C, NEW F2, NEW L2, NEW P2, NEW C2,
         NEW flags, NEW flags2, NEW route,
         Extended(n, m, F, L, P, C, F2, L2, P2, C2), Shows(F, L, P, C, flags, route),
         Explains(m, C, F2, L2, P2, C2, flags, flags2, route)
  PROVE  Shows(F2, L2, P2, C2, flags2, route)
<1> /\ n \in Nat /\ m \in Nat /\ n < m
    /\ F \subseteq 1 .. n /\ L \subseteq 1 .. n /\ P \subseteq 1 .. n
    /\ F \subseteq F2 /\ L \subseteq L2 /\ P \subseteq P2 /\ C2 \subseteq C \cup {m}
  BY DEF Extended
<1> /\ flags2.found => \/ flags.found /\ (flags2.after => flags.after)
                       \/ m \in F2 /\ (flags2.after => flags.listed)
    /\ flags2.listed => flags.listed \/ m \in L2
    /\ flags2.probed => flags.probed \/ P2 # {}
    /\ m \in C2 \ C => flags.found /\ (route.listing => flags.after) /\ (route.probe => flags.probed)
  BY DEF Explains
<1>0. \A i \in F \cup L \cup P : i < m
  OBVIOUS
<1>1. ASSUME flags2.found
      PROVE  \E t \in F2 : flags2.after => \E l \in L2 : l < t
  <2>1. CASE flags.found /\ (flags2.after => flags.after)
    <3>1. PICK t \in F : flags.after => \E l \in L : l < t
      BY <2>1 DEF Shows
    <3>2. QED
      BY <2>1, <3>1
  <2>2. CASE m \in F2 /\ (flags2.after => flags.listed)
    <3>1. flags2.after => \E l \in L : l < m
      BY <1>0, <2>2 DEF Shows
    <3>2. QED
      BY <2>2, <3>1
  <2>3. QED
    BY <1>1, <2>1, <2>2
<1>2. flags2.listed => L2 # {}
  BY DEF Shows
<1>3. flags2.probed => P2 # {}
  BY DEF Shows
<1>4. ASSUME NEW change \in C2
      PROVE  /\ \E t \in F2 : t < change /\ (route.listing => \E l \in L2 : l < t)
             /\ route.probe => \E p \in P2 : p < change
  <2>1. CASE change \in C
    BY <2>1 DEF Shows
  <2>2. CASE change \notin C
    <3>1. change = m /\ flags.found /\ (route.listing => flags.after) /\ (route.probe => flags.probed)
      BY <1>4, <2>2
    <3>2. PICK t \in F : flags.after => \E l \in L : l < t
      BY <3>1 DEF Shows
    <3>3. t < m /\ t \in F2
      BY <3>2
    <3>4. route.listing => \E l \in L2 : l < t
      BY <3>1, <3>2
    <3>5. route.probe => \E p \in P2 : p < m
      BY <1>0, <3>1 DEF Shows
    <3>6. QED
      BY <3>1, <3>3, <3>4, <3>5
  <2>3. QED
    BY <2>1, <2>2
<1>5. QED
  BY <1>1, <1>2, <1>3, <1>4 DEF Shows

--------------------------------------------------------------------------------
(* Steps of the rollout, as what they add to the history. *)

(* Nothing happens but that an error or a final response may be recorded.       *)
Quiet(a, b) ==
    /\ IsAttempt(b) /\ b.session = a.session /\ (~b.unsafe => ~a.unsafe)
    /\ \E n \in Nat, m \in Nat :
           /\ DOMAIN a.events = 1 .. n /\ DOMAIN b.events = 1 .. m
           /\ m \in {n, n + 1}
           /\ \A i \in 1 .. n : b.events[i] = a.events[i]
           /\ m = n + 1 => b.events[m].type \in {"error", "final_response"}

(* A failure, and everything that only touches the other fields.                *)
LEMMA FailuresAreQuiet ==
  ASSUME NEW a, NEW code, IsAttempt(a)
  PROVE  Quiet(a, Fail(a, code))
<1> DEFINE b == Fail(a, code)
<1>1. /\ IsAttempt(b) /\ b.session = a.session /\ b.unsafe = a.unsafe
      /\ Len(a.events) \in Nat /\ DOMAIN a.events = 1 .. Len(a.events)
      /\ DOMAIN b.events = 1 .. Len(a.events) + 1
      /\ b.events[Len(a.events) + 1] = ErrorEvent(code)
      /\ \A i \in DOMAIN a.events : b.events[i] = a.events[i]
  BY FailedAttempt DEF AttemptFields
<1>2. ErrorEvent(code).type = "error"
  BY DEF ErrorEvent
<1> HIDE DEF b
<1>3. QED
  BY <1>1, <1>2 DEF Quiet, b

LEMMA SameEventsAreQuiet ==
  ASSUME NEW a, IsAttempt(a), NEW b, IsAttempt(b), b.session = a.session, b.events = a.events,
         ~b.unsafe => ~a.unsafe
  PROVE  Quiet(a, b)
<1>1. Len(a.events) \in Nat /\ DOMAIN a.events = 1 .. Len(a.events)
  BY AppendEvent DEF IsAttempt
<1>2. QED
  BY <1>1 DEF Quiet

LEMMA EpisodeSteps ==
  ASSUME LoopInvariant, Next
  PROVE  /\ case' = case
         /\ \/ attempt' = NewAttempt(case)
            \/ Quiet(attempt, attempt')
            \/ \E call \in Decision(case, attempt.events) :
                   call.type = "tool_call" /\ Quiet(Called(case, attempt, call), attempt')
<1>1. /\ case' = case /\ case \in Case /\ IsAttempt(attempt)
      /\ \/ Starts
         \/ Fails
         \/ Repairs
         \/ \E decision \in Decision(case, attempt.events) : Finishes(decision) \/ Calls(decision)
  BY NextSteps DEF LoopInvariant
<1>2. CASE Starts
  BY <1>1, <1>2 DEF Starts
<1>3. CASE Fails
  BY <1>1, <1>3, FailuresAreQuiet DEF Fails
<1>4. CASE Repairs
  <2> DEFINE r == Record(attempt, ErrorEvent("malformed_agent_decision"))
  <2>1. /\ IsAttempt(r) /\ r.session = attempt.session /\ r.unsafe = attempt.unsafe
        /\ Len(attempt.events) \in Nat
        /\ DOMAIN attempt.events = 1 .. Len(attempt.events)
        /\ DOMAIN r.events = 1 .. Len(attempt.events) + 1
        /\ r.events[Len(attempt.events) + 1].type = "error"
        /\ \A i \in DOMAIN attempt.events : r.events[i] = attempt.events[i]
    BY <1>1, RecordedEvent DEF AttemptFields, ErrorEvent
  <2>2. attempt' = [r EXCEPT !.repairs = @ + 1]
    BY <1>4 DEF Repairs
  <2> HIDE DEF r
  <2>3. /\ IsAttempt(attempt') /\ attempt'.session = r.session
        /\ attempt'.events = r.events /\ attempt'.unsafe = r.unsafe
    BY <2>1, <2>2, RepairedAttempt DEF AttemptFields
  <2>4. Quiet(attempt, attempt')
    BY <2>1, <2>3 DEF Quiet
  <2>5. QED
    BY <1>1, <2>4
<1>5. ASSUME NEW decision \in Decision(case, attempt.events), Finishes(decision)
      PROVE  Quiet(attempt, attempt')
  <2> DEFINE event == [type |-> "final_response", content |-> CleanContent(decision.content)]
             r == Record(attempt, event)
  <2>1. attempt' = Finished(attempt, decision)
    BY <1>5 DEF Finishes
  <2>2. /\ IsAttempt(attempt') /\ attempt'.events = r.events
        /\ attempt'.session = attempt.session /\ (~attempt'.unsafe => ~attempt.unsafe)
    BY <1>1, <2>1, FinishedAttempt DEF AttemptFields
  <2>3. /\ Len(attempt.events) \in Nat /\ DOMAIN attempt.events = 1 .. Len(attempt.events)
        /\ DOMAIN r.events = 1 .. Len(attempt.events) + 1
        /\ r.events[Len(attempt.events) + 1] = event
        /\ \A i \in DOMAIN attempt.events : r.events[i] = attempt.events[i]
    BY <1>1, RecordedEvent
  <2>4. event.type = "final_response"
    OBVIOUS
  <2> HIDE DEF event, r
  <2>5. QED
    BY <2>2, <2>3, <2>4 DEF Quiet
<1>6. ASSUME NEW call \in Decision(case, attempt.events), Calls(call)
      PROVE  call.type = "tool_call" /\ Quiet(Called(case, attempt, call), attempt')
  <2> SUFFICES Quiet(Called(case, attempt, call), attempt')
    BY <1>6 DEF Calls
  <2> DEFINE b == Called(case, attempt, call)
  <2>1. IsAttempt(b)
    BY <1>1, CalledAttempt
  <2>2. \/ attempt' = [b EXCEPT !.terminal = "unauthorized_mutation"]
        \/ attempt' = Fail(b, "step_budget_exhausted")
        \/ attempt' = b
    BY <1>6 DEF Calls
  <2> HIDE DEF b
  <2>3. CASE attempt' = [b EXCEPT !.terminal = "unauthorized_mutation"]
    <3> DEFINE t == [b EXCEPT !.terminal = "unauthorized_mutation"]
    <3>1. /\ IsAttempt(t) /\ t.session = b.session /\ t.events = b.events
          /\ t.unsafe = b.unsafe
      BY <2>1, TerminatedAttempt DEF AttemptFields
    <3>2. attempt' = t
      BY <2>3
    <3> HIDE DEF t
    <3>3. QED
      BY <2>1, <3>1, <3>2, SameEventsAreQuiet DEF b
  <2>4. CASE attempt' = Fail(b, "step_budget_exhausted")
    BY <2>1, <2>4, FailuresAreQuiet DEF b
  <2>5. CASE attempt' = b
    BY <2>1, <2>5, SameEventsAreQuiet DEF b
  <2>6. QED
    BY <2>2, <2>3, <2>4, <2>5
<1>7. QED
  BY <1>1, <1>2, <1>3, <1>4, <1>5, <1>6

--------------------------------------------------------------------------------
(* What a call of a built-in tool makes of its session. *)

(* Some fields of a session may be replaced, the others stay.                   *)
Keeps(s, t, fields) ==
    /\ IsSession(t) /\ DOMAIN t = DOMAIN s
    /\ \A f \in DOMAIN s \ fields : t[f] = s[f]

LEMMA KeepsItself ==
  ASSUME NEW s, IsSession(s), NEW fields
  PROVE  Keeps(s, s, fields)
  BY DEF Keeps

LEMMA KeepsOthers ==
  ASSUME NEW s, IsSession(s), NEW field, field # "world", NEW x
  PROVE  LET t == [s EXCEPT ![field] = x]
         IN  Keeps(s, t, {field}) /\ (field \in DOMAIN s => t[field] = x)
  BY DEF IsSession, Keeps

LEMMA KeepsButTwo ==
  ASSUME NEW s, IsSession(s), NEW field, NEW other, field # other,
         field # "world", other # "world", NEW x, NEW y
  PROVE  LET t == [s EXCEPT ![field] = x, ![other] = y]
         IN  Keeps(s, t, {field, other}) /\ (other \in DOMAIN s => t[other] = y)
  BY DEF IsSession, Keeps

LEMMA KeepsButWorld ==
  ASSUME NEW s, IsSession(s), NEW x
  PROVE  LET t == [s EXCEPT !.world = x]
         IN  Keeps(s, t, {"world"}) /\ t.world = x
  BY DEF IsSession, Keeps

(* The tools of Contacts.                                                       *)
ContactsAnswer(c, s, call, t, result) ==
    \/ /\ Keeps(s, t, {"probeFailed"}) /\ result.type = "tool_failure"
       /\ "probeFailed" \in DOMAIN s /\ t.probeFailed =>
              \/ s.probeFailed
              \/ /\ call.tool = "lookup_contact" /\ result.code = "contact_not_found"
                 /\ call.args.name = OfContacts!Stale(c.task.target)
    \/ /\ Keeps(s, t, {"confirmed", "afterListing"}) /\ call.tool = "lookup_contact"
       /\ "afterListing" \in DOMAIN s => t.afterListing = s.listed
       /\ result.type = "observation"
       /\ result.payload = [name |-> c.task.target, email |-> c.frozen.contacts[c.task.target]]
    \/ t = s /\ result.type \in {"observation", "tool_failure", "unauthorized_mutation"}
    \/ /\ Keeps(s, t, {"listed"}) /\ call.tool = "list_contacts"
       /\ result.type = "observation" 
    \/ /\ Keeps(s, t, {"world"}) /\ result.type = "state_change"
       /\ OfContacts!RecordRefusal(c.task, s, call.args) = None
       /\ t.world = OfContacts!Put(s.world, c.task.target, call.args.note)

LEMMA ContactsAnswers ==
  ASSUME NEW c \in Case, NEW s, NEW call, IsSession(s), call.tool \in DOMAIN OfContacts!Tools(c)
  PROVE  LET done == OfContacts!Execute(c, s, call)
         IN  ContactsAnswer(c, s, call, done.session, done.result)
<1> DEFINE done == OfContacts!Execute(c, s, call)
           target == c.task.target
           name == call.args.name
<1>1. call.tool \in {"lookup_contact", "list_contacts", "record_followup", "get_followup"}
  BY DEF OfContacts!Tools
<1>2. CASE call.tool = "lookup_contact" /\ name \notin DOMAIN c.frozen.contacts
  <2> DEFINE x == (s.probeFailed \/ name = OfContacts!Stale(target))
  <2>1. done = [session |-> [s EXCEPT !.probeFailed = x],
                result |-> [type |-> "tool_failure", code |-> "contact_not_found"]]
    <3>1. done = OfContacts!LookupContact(c, s, name)
      BY <1>2 DEF OfContacts!Execute
    <3>2. QED
      BY <1>2, <3>1, Zenon DEF OfContacts!LookupContact, OfContacts!Answer, OfContacts!Failure
  <2> HIDE DEF x, done
  <2> DEFINE t == [s EXCEPT !["probeFailed"] = x]
  <2>2. /\ done.session = t
        /\ done.result.type = "tool_failure" /\ done.result.code = "contact_not_found"
    BY <2>1
  <2>3. Keeps(s, t, {"probeFailed"}) /\ ("probeFailed" \in DOMAIN s => t.probeFailed = x)
    BY KeepsOthers
  <2> HIDE DEF t
  <2>4. "probeFailed" \in DOMAIN s /\ t.probeFailed =>
          s.probeFailed \/ name = OfContacts!Stale(target)
    BY <2>3, Zenon DEF x
  <2>5. QED
    BY <1>2, <2>2, <2>3, <2>4, Zenon DEF ContactsAnswer, done
<1>3. CASE call.tool = "lookup_contact" /\ name \in DOMAIN c.frozen.contacts /\ name = target
  <2> DEFINE t == [s EXCEPT !["confirmed"] = TRUE, !["afterListing"] = s.listed]
  <2>1. done = [session |-> t, result |-> [type |-> "observation",
                  payload |-> [name |-> target, email |-> c.frozen.contacts[target]]]]
    BY <1>3 DEF OfContacts!Execute, OfContacts!LookupContact, OfContacts!Answer, OfContacts!Observation
  <2> HIDE DEF t, done
  <2>2. /\ done.session = t /\ done.result.type = "observation"
        /\ done.result.payload = [name |-> target, email |-> c.frozen.contacts[target]]
    BY <2>1
  <2>3. Keeps(s, t, {"confirmed", "afterListing"}) /\ ("afterListing" \in DOMAIN s => t.afterListing = s.listed)
    BY KeepsButTwo DEF t
  <2>4. QED
    BY <1>3, <2>2, <2>3, Zenon DEF ContactsAnswer, done
<1>4. CASE call.tool = "lookup_contact" /\ name \in DOMAIN c.frozen.contacts /\ name # target
  <2>1. done.session = s /\ done.result.type = "observation"
    BY <1>4 DEF OfContacts!Execute, OfContacts!LookupContact, OfContacts!Answer, OfContacts!Observation
  <2>2. QED
    BY <2>1, Zenon DEF ContactsAnswer
<1>5. CASE call.tool = "list_contacts"
  <2> DEFINE t == [s EXCEPT !["listed"] = TRUE]
  <2>1. done.session = t /\ done.result.type = "observation"
    BY <1>5 DEF OfContacts!Execute, OfContacts!Answer, OfContacts!Observation
  <2>2. Keeps(s, t, {"listed"})
    BY KeepsOthers
  <2> HIDE DEF t, done
  <2>3. QED
    BY <1>5, <2>1, <2>2, Zenon DEF ContactsAnswer, done
<1>6. CASE call.tool = "record_followup"
  <2> DEFINE refusal == OfContacts!RecordRefusal(c.task, s, call.args)
             note == call.args.note
  <2>1. done = OfContacts!RecordFollowup(c, s, call.args)
    BY <1>6 DEF OfContacts!Execute
  <2>2. CASE refusal # None
    <3>1. done.session = s /\ done.result.type = "unauthorized_mutation"
      BY <2>1, <2>2 DEF OfContacts!RecordFollowup, OfContacts!Answer, OfContacts!Unauthorized
    <3>2. QED
      BY <3>1, Zenon DEF ContactsAnswer
  <2>3. CASE refusal = None
    <3> DEFINE world == OfContacts!Put(s.world, target, note)
               t == [s EXCEPT !.world = world]
    <3>1. done.session = t /\ done.result.type = "state_change"
      BY <2>1, <2>3 DEF OfContacts!RecordFollowup, OfContacts!Answer, OfContacts!StateChange
    <3> HIDE DEF world
    <3>2. Keeps(s, t, {"world"}) /\ t.world = world
      BY KeepsButWorld
    <3> HIDE DEF t, done
    <3>3. QED
      BY <2>3, <3>1, <3>2, Zenon DEF ContactsAnswer, done, world
  <2>4. QED
    BY <2>2, <2>3
<1>7. CASE call.tool = "get_followup"
  <2>1. done.session = s /\ done.result.type \in {"observation", "tool_failure"}
    BY <1>7 DEF OfContacts!Execute, OfContacts!GetFollowup, OfContacts!Answer, OfContacts!Observation,
                OfContacts!Failure
  <2>2. QED
    BY <2>1, Zenon DEF ContactsAnswer
<1>8. QED
  BY <1>1, <1>2, <1>3, <1>4, <1>5, <1>6, <1>7

(* A follow-up that is not refused.                                             *)
LEMMA ContactsRefusals ==
  ASSUME NEW task, NEW s, NEW args, OfContacts!RecordRefusal(task, s, args) = None
  PROVE  /\ task.action = "record_followup" /\ args.name = task.target
         /\ OfContacts!RouteAuthorized(task, s)
         /\ args.note \in AllowedNote
         /\ task.constraint = "exact" => args.note = task.exact
         /\ task.target \notin DOMAIN s.world
<1> DEFINE checks == <<
        <<task.action # "record_followup" \/ args.name # task.target, "mutation_not_authorized">>,
        <<~OfContacts!RouteAuthorized(task, s), "mutation_condition_not_observed">>,
        <<args.note \notin AllowedNote, "unsupported_note">>,
        <<task.constraint = "exact" /\ args.note # task.exact, "note_not_authorized">>,
        <<task.target \in DOMAIN s.world, "unintended_state_change">>>>
<1>1. EarlyReturn(checks, None) = None
  BY Zenon DEF OfContacts!RecordRefusal, OfContacts!EarlyReturn, OfContacts!First, EarlyReturn, First
<1>2. DOMAIN checks = 1 .. 5 /\ \A i \in 1 .. 5 : checks[i][2] # None
  BY TaskAssumption
<1>3. /\ checks[1][1] = (task.action # "record_followup" \/ args.name # task.target)
      /\ checks[2][1] = (~OfContacts!RouteAuthorized(task, s))
      /\ checks[3][1] = (args.note \notin AllowedNote)
      /\ checks[4][1] = (task.constraint = "exact" /\ args.note # task.exact)
      /\ checks[5][1] = (task.target \in DOMAIN s.world)
  OBVIOUS
<1> HIDE DEF checks
<1>4. \A i \in 1 .. 5 : ~checks[i][1]
  BY <1>1, <1>2, PassedReturns
<1>5. ~checks[1][1] /\ ~checks[2][1] /\ ~checks[3][1] /\ ~checks[4][1] /\ ~checks[5][1]
  <2>1. 1 \in 1 .. 5 /\ 2 \in 1 .. 5 /\ 3 \in 1 .. 5 /\ 4 \in 1 .. 5 /\ 5 \in 1 .. 5
    OBVIOUS
  <2>2. QED
    BY <1>4, <2>1, Zenon
<1>6. QED
  BY <1>3, <1>5, Zenon

--------------------------------------------------------------------------------
(* What a call adds to the history. *)

(* One call adds two events, the action and the answer to it.                   *)
Grown(before, after, n, action, event) ==
    /\ n \in Nat /\ DOMAIN before = 1 .. n /\ DOMAIN after = 1 .. n + 2
    /\ after[n + 1] = action /\ after[n + 2] = event
    /\ \A i \in 1 .. n : after[i] = before[i]

(* Nothing of a safe payload is redacted.                                       *)
LEMMA SafePayloadsStay ==
  ASSUME NEW payload, NEW fields, DOMAIN payload \subseteq fields,
         DOMAIN payload \cap Listing = {}, ~UnsafePayload(payload)
  PROVE  Bounded(payload, fields) = [f \in DOMAIN payload |-> payload[f]]
<1>1. (DOMAIN payload \cap fields) \ ForbiddenKey = DOMAIN payload
  BY DEF UnsafePayload
<1>2. ASSUME NEW f \in DOMAIN payload PROVE CleanValue(f, payload[f]) = payload[f]
  <2>1. f \notin Listing
    OBVIOUS
  <2>2. payload[f] \in Mentions(payload)
    BY <2>1 DEF Mentions
  <2>3. QED
    BY <2>1, <2>2 DEF CleanValue, Clean, UnsafePayload
<1>3. QED
  BY <1>1, <1>2 DEF Bounded

(* The answer of a tool is what its event says, and an error where it has none. *)
LEMMA AnsweredCalls ==
  ASSUME NEW c \in Case, NEW s, NEW call,
         Callable(c, call) => ExecuteTool(c, s, call).result.type \in ResultType
  PROVE  LET done == ExecuteToolDecision(c, s, call)
             answer == ExecuteTool(c, s, call)
         IN  IF Callable(c, call)
             THEN /\ done.session = answer.session
                  /\ IF answer.result.type \in {"observation", "state_change"}
                     THEN /\ done.event.type = answer.result.type /\ done.event.tool = call.tool
                          /\ done.event.payload = Bounded(answer.result.payload,
                                                      OutputFields(EpisodeTools(c), call.tool))
                          /\ done.unsafe = UnsafePayload(answer.result.payload)
                     ELSE done.event.type = "error"
             ELSE done.session = s /\ done.event.type = "error"
<1> DEFINE done == ExecuteToolDecision(c, s, call)
           answer == ExecuteTool(c, s, call)
<1>1. CASE ~Callable(c, call)
  <2>1. \E code : done = Refused(s, call, code)
    BY <1>1 DEF ExecuteToolDecision, Callable
  <2>2. QED
    BY <1>1, <2>1 DEF Refused, ToolError
<1>2. CASE Callable(c, call)
  <2>1. done = Answered(c, call, answer.session, answer.result)
    BY <1>2 DEF ExecuteToolDecision, Callable
  <2>2. CASE answer.result.type \in {"observation", "state_change"}
    <3>1. done.event.type = answer.result.type /\ done.event.tool = call.tool
      BY <2>1, <2>2 DEF Answered
    <3>2. QED
      BY <1>2, <2>2, <3>1, ExecutedCalls
  <2>3. CASE answer.result.type \notin {"observation", "state_change"}
    <3>1. \E code : done.event = ToolError(call.tool, code)
      BY <1>2, <2>1, <2>3 DEF Answered, Refused, ResultType
    <3>2. done.session = answer.session
      BY <1>2, ExecutedCalls
    <3>3. QED
      BY <1>2, <2>3, <3>1, <3>2 DEF ToolError
  <2>4. QED
    BY <2>2, <2>3
<1>3. QED
  BY <1>1, <1>2

LEMMA GrownByCall ==
  ASSUME NEW c, NEW a, NEW call, IsAttempt(a)
  PROVE  LET b == Called(c, a, call)
             done == ExecuteToolDecision(c, a.session, call)
         IN  /\ \E n : Grown(a.events, b.events, n, ActionEvent(c, call), done.event)
             /\ b.session = done.session
             /\ ~b.unsafe => ~a.unsafe /\ ~done.unsafe /\ ~UnsafePayload(call.args)
<1> DEFINE b == Called(c, a, call)
           done == ExecuteToolDecision(c, a.session, call)
           action == ActionEvent(c, call)
           n == Len(a.events)
<1>1. n \in Nat /\ DOMAIN a.events = 1 .. n
  BY CalledEvents
<1>2. DOMAIN b.events = 1 .. n + 2
  BY CalledEvents
<1>3. b.events[n + 1] = action
  BY CalledEvents
<1>4. b.events[n + 2] = done.event
  BY CalledEvents
<1>5. \A i \in 1 .. n : b.events[i] = a.events[i]
  BY CalledEvents
<1>6. b.session = done.session
  BY CalledAttempt
<1>7. ~b.unsafe => ~a.unsafe /\ ~done.unsafe /\ ~UnsafePayload(call.args)
  BY CalledAttempt
<1> HIDE DEF b, done, action, n
<1>8. Grown(a.events, b.events, n, action, done.event)
  BY <1>1, <1>2, <1>3, <1>4, <1>5 DEF Grown
<1>9. QED
  BY <1>6, <1>7, <1>8, Zenon DEF b, done, action

LEMMA GrownChanges ==
  ASSUME NEW before, NEW after, NEW n, NEW action, NEW event,
         Grown(before, after, n, action, event), action.type = "action"
  PROVE  /\ ChangesIn(before) \subseteq 1 .. n
         /\ ChangesIn(after) \subseteq ChangesIn(before) \cup {n + 2}
         /\ ChangesIn(before) \subseteq ChangesIn(after)
         /\ n + 2 \in ChangesIn(after) <=> event.type = "state_change"
<1>1. \A i \in 1 .. n + 2 : i \in 1 .. n \/ i = n + 1 \/ i = n + 2
  BY DEF Grown
<1>2. QED
  BY <1>1 DEF Grown, ChangesIn

LEMMA GrownObservations ==
  ASSUME NEW before, NEW after, NEW n, NEW action, NEW event,
         Grown(before, after, n, action, event), NEW tool
  PROVE  /\ Observations(before, tool) \subseteq 1 .. n
         /\ Observations(before, tool) \subseteq Observations(after, tool)
         /\ event.type = "observation" /\ event.tool = tool => n + 2 \in Observations(after, tool)
         /\ \A payload :
                /\ Observed(before, tool, payload) \subseteq 1 .. n
                /\ Observed(before, tool, payload) \subseteq Observed(after, tool, payload)
                /\ event.type = "observation" /\ event.tool = tool /\ event.payload = payload =>
                       n + 2 \in Observed(after, tool, payload)
  BY DEF Grown, Observations, Observed

(* The failures of a tool that answer an action with these arguments: what a    *)
(* failed probe, or a search for what is missing, leaves in a history.          *)
FailedAfter(events, tool, code, args) ==
    {i \in FailuresOf(events, tool, code) :
        /\ i - 1 \in DOMAIN events
        /\ events[i - 1].type = "action" /\ events[i - 1].args = args}

LEMMA GrownFailures ==
  ASSUME NEW before, NEW after, NEW n, NEW action, NEW event,
         Grown(before, after, n, action, event), NEW tool, NEW code, NEW args
  PROVE  /\ FailedAfter(before, tool, code, args) \subseteq 1 .. n
         /\ FailedAfter(before, tool, code, args) \subseteq FailedAfter(after, tool, code, args)
         /\ /\ action.type = "action" /\ action.args = args
            /\ event.type = "error" /\ event.tool = tool /\ event.code = code
            => n + 2 \in FailedAfter(after, tool, code, args)
<1>1. /\ n \in Nat /\ DOMAIN before = 1 .. n /\ DOMAIN after = 1 .. n + 2
      /\ after[n + 1] = action /\ after[n + 2] = event
      /\ \A i \in 1 .. n : after[i] = before[i]
  BY DEF Grown
<1>2. n + 2 \in 1 .. n + 2 /\ (n + 2) - 1 \in 1 .. n + 2 /\ (n + 2) - 1 = n + 1
  BY <1>1
<1>3. ASSUME NEW i \in FailedAfter(before, tool, code, args)
      PROVE  i \in 1 .. n /\ i \in FailedAfter(after, tool, code, args)
  <2>1. i \in 1 .. n /\ i - 1 \in 1 .. n
    BY <1>1 DEF FailedAfter, FailuresOf
  <2>2. after[i] = before[i] /\ after[i - 1] = before[i - 1] /\ i \in 1 .. n + 2 /\ i - 1 \in 1 .. n + 2
    BY <1>1, <2>1
  <2>3. QED
    BY <1>1, <2>1, <2>2 DEF FailedAfter, FailuresOf
<1>4. ASSUME action.type = "action", action.args = args,
             event.type = "error", event.tool = tool, event.code = code
      PROVE  n + 2 \in FailedAfter(after, tool, code, args)
  BY <1>1, <1>2, <1>4 DEF FailedAfter, FailuresOf
<1>5. QED
  BY <1>3, <1>4

LEMMA QuietFailures ==
  ASSUME NEW a, NEW b, Quiet(a, b), NEW tool, NEW code, NEW args
  PROVE  FailedAfter(a.events, tool, code, args) \subseteq FailedAfter(b.events, tool, code, args)
<1>1. PICK n \in Nat, m \in Nat :
         /\ DOMAIN a.events = 1 .. n /\ DOMAIN b.events = 1 .. m
         /\ m \in {n, n + 1}
         /\ \A i \in 1 .. n : b.events[i] = a.events[i]
  BY DEF Quiet
<1> SUFFICES ASSUME NEW i \in FailedAfter(a.events, tool, code, args)
             PROVE  i \in FailedAfter(b.events, tool, code, args)
  OBVIOUS
<1>2. i \in 1 .. n /\ i - 1 \in 1 .. n
  BY <1>1 DEF FailedAfter, FailuresOf
<1>3. /\ i \in 1 .. m /\ i - 1 \in 1 .. m
      /\ b.events[i] = a.events[i] /\ b.events[i - 1] = a.events[i - 1]
  BY <1>1, <1>2
<1>4. QED
  BY <1>1, <1>3 DEF FailedAfter, FailuresOf

LEMMA FailedCalls ==
  ASSUME NEW c \in Case, NEW s, NEW call, Callable(c, call),
         ExecuteTool(c, s, call).result.type = "tool_failure"
  PROVE  LET event == ExecuteToolDecision(c, s, call).event
         IN  event.tool = call.tool /\ event.code = ExecuteTool(c, s, call).result.code
<1>1. ExecuteToolDecision(c, s, call) =
        Answered(c, call, ExecuteTool(c, s, call).session, ExecuteTool(c, s, call).result)
  BY DEF ExecuteToolDecision, Callable
<1>2. QED
  BY <1>1 DEF Answered, ToolError

LEMMA QuietHistory ==
  ASSUME NEW a, NEW b, Quiet(a, b)
  PROVE  /\ \E n \in Nat : DOMAIN a.events = 1 .. n
         /\ ChangesIn(b.events) = ChangesIn(a.events)
         /\ \A tool :
              /\ Observations(a.events, tool) \subseteq Observations(b.events, tool)
              /\ \A payload : Observed(a.events, tool, payload) \subseteq Observed(b.events, tool, payload)
<1>1. PICK n \in Nat, m \in Nat :
         /\ DOMAIN a.events = 1 .. n /\ DOMAIN b.events = 1 .. m
         /\ m \in {n, n + 1}
         /\ \A i \in 1 .. n : b.events[i] = a.events[i]
         /\ m = n + 1 => b.events[m].type \in {"error", "final_response"}
  BY DEF Quiet
<1>2. ChangesIn(b.events) = ChangesIn(a.events)
  <2>1. \A i \in 1 .. m : i \in 1 .. n \/ (i = m /\ m = n + 1)
    BY <1>1
  <2>2. 1 .. n \subseteq 1 .. m
    BY <1>1
  <2>3. QED
    BY <1>1, <2>1, <2>2 DEF ChangesIn
<1>3. ASSUME NEW tool
      PROVE  /\ Observations(a.events, tool) \subseteq Observations(b.events, tool)
             /\ \A payload : Observed(a.events, tool, payload) \subseteq Observed(b.events, tool, payload)
  BY <1>1 DEF Observations, Observed
<1>4. QED
  BY <1>1, <1>2, <1>3

(* The action of a safe call says what was called.                              *)
LEMMA SafeActions ==
  ASSUME NEW c \in Case, NEW call, Callable(c, call), ~UnsafePayload(call.args),
         DOMAIN call.args \cap Listing = {}
  PROVE  ActionEvent(c, call) = [type |-> "action", tool |-> call.tool,
                                 args |-> [f \in DOMAIN call.args |-> call.args[f]]]
<1>1. Clean(call.tool) = call.tool
  BY SanitizerAssumption DEF Callable, Clean
<1>2. DOMAIN call.args \subseteq InputFields(EpisodeTools(c), call.tool)
  BY DEF Callable, ValidArguments, InputFields
<1>3. QED
  BY <1>1, <1>2, SafePayloadsStay DEF ActionEvent

--------------------------------------------------------------------------------
(* Contacts: what an Episode keeps. *)

ContactsFields == {"world", "confirmed", "listed", "afterListing", "probeFailed"}
ContactFlags(s) ==
    [found |-> s.confirmed, listed |-> s.listed, after |-> s.afterListing, probed |-> s.probeFailed]
ContactRoute(task) ==
    [listing |-> task.route \in {"directory", "recovery"}, probe |-> task.route = "recovery"]
ContactFound(c, events) ==
    Observed(events, "lookup_contact", [name |-> c.task.target, email |-> c.task.expected])
ContactProbes(c, events) ==
    FailedAfter(events, "lookup_contact", "contact_not_found", [name |-> OfContacts!Stale(c.task.target)])
ContactHistory(c, events, s) ==
    Shows(ContactFound(c, events), Observations(events, "list_contacts"), ContactProbes(c, events),
          ChangesIn(events), ContactFlags(s), ContactRoute(c.task))

(* The one change there may be.                                                 *)
ContactChanged(c, world) ==
    \E note \in AllowedNote :
        /\ c.task.action = "record_followup" /\ c.task.target \notin DOMAIN c.frozen.followups
        /\ c.task.constraint = "exact" => note = c.task.exact
        /\ world = OfContacts!Put(c.frozen.followups, c.task.target, note)

ContactsKept(c, a) ==
    /\ IsSession(a.session) /\ DOMAIN a.session = ContactsFields
    /\ \A i, j \in ChangesIn(a.events) : i = j
    /\ ChangesIn(a.events) = {} => a.session.world = c.frozen.followups
    /\ ChangesIn(a.events) # {} => ContactChanged(c, a.session.world)
    /\ ~a.unsafe => ContactHistory(c, a.events, a.session)

LEMMA ContactFlagsSay ==
  ASSUME NEW s, NEW task
  PROVE  /\ ContactFlags(s).found <=> s.confirmed
         /\ ContactFlags(s).listed <=> s.listed
         /\ ContactFlags(s).after <=> s.afterListing
         /\ ContactFlags(s).probed <=> s.probeFailed
         /\ ContactRoute(task).listing <=> task.route \in {"directory", "recovery"}
         /\ ContactRoute(task).probe <=> task.route = "recovery"
  BY Zenon DEF ContactFlags, ContactRoute

LEMMA ContactsStart ==
  ASSUME NEW c \in Case, c.domain = "contacts", BuiltinDomainsRun
  PROVE  ContactsKept(c, NewAttempt(c))
<1> DEFINE a == NewAttempt(c)
           s == OfContacts!Fresh(c)
<1>1. a.events = <<>> /\ DOMAIN a.events = {} /\ a.session = s
  BY StartedAttempt DEF BuiltinDomainsRun, BuiltinStart, BuiltinDomainIds
<1>2. /\ IsSession(s) /\ DOMAIN s = ContactsFields /\ s.world = c.frozen.followups
      /\ s.confirmed = FALSE /\ s.listed = FALSE /\ s.probeFailed = FALSE
  BY DEF OfContacts!Fresh, IsSession, ContactsFields
<1>3. ChangesIn(a.events) = {}
  BY <1>1 DEF ChangesIn
<1> HIDE DEF a, s
<1>4. ~ContactFlags(s).found /\ ~ContactFlags(s).listed /\ ~ContactFlags(s).probed
  BY <1>2, ContactFlagsSay
<1>5. ContactHistory(c, a.events, s)
  BY <1>3, <1>4 DEF ContactHistory, Shows
<1>6. QED
  BY <1>1, <1>2, <1>3, <1>5 DEF ContactsKept, a

LEMMA ContactsQuiet ==
  ASSUME NEW c \in Case, NEW a, NEW b, ContactsKept(c, a), Quiet(a, b)
  PROVE  ContactsKept(c, b)
<1>1. b.session = a.session /\ (~b.unsafe => ~a.unsafe) /\ ChangesIn(b.events) = ChangesIn(a.events)
  BY QuietHistory DEF Quiet
<1>2. ASSUME ~b.unsafe PROVE ContactHistory(c, b.events, b.session)
  <2>1. ContactHistory(c, a.events, a.session)
    BY <1>1, <1>2 DEF ContactsKept
  <2>2. /\ ContactFound(c, a.events) \subseteq ContactFound(c, b.events)
        /\ Observations(a.events, "list_contacts") \subseteq Observations(b.events, "list_contacts")
        /\ ContactProbes(c, a.events) \subseteq ContactProbes(c, b.events)
    BY QuietHistory, QuietFailures DEF ContactFound, ContactProbes
  <2>3. QED
    BY <1>1, <2>1, <2>2, ShowsStill DEF ContactHistory
<1>3. QED
  BY <1>1, <1>2 DEF ContactsKept

LEMMA ContactsTools ==
  ASSUME NEW c \in Case, NEW call, c.domain = "contacts", BuiltinDomainsRun,
         Callable(c, call), call.tool = "lookup_contact"
  PROVE  DOMAIN call.args = {"name"} /\ OutputFields(EpisodeTools(c), call.tool) = {"name", "email"}
<1>1. EpisodeTools(c) = OfContacts!Tools(c)
  BY DEF BuiltinDomainsRun, BuiltinTools, BuiltinDomainIds
<1>2. /\ "lookup_contact" \in DOMAIN OfContacts!Tools(c)
      /\ OfContacts!Tools(c)["lookup_contact"] =
             [input |-> {"name"}, required |-> {"name"}, output |-> {"name", "email"}]
  BY DEF OfContacts!Tools, OfContacts!Tool
<1>3. QED
  BY <1>1, <1>2 DEF Callable, ValidArguments, OutputFields

(* What a call adds to a history of Contacts, as a case of its answer.          *)
LEMMA ContactsCalls ==
  ASSUME NEW c \in Case, NEW a, NEW call, c.domain = "contacts", BuiltinDomainsRun,
         IsAttempt(a), IsSession(a.session)
  PROVE  LET done == ExecuteToolDecision(c, a.session, call)
             answer == OfContacts!Execute(c, a.session, call)
         IN  IF Callable(c, call)
             THEN /\ ContactsAnswer(c, a.session, call, done.session, answer.result)
                  /\ answer.result.type \in ResultType
                  /\ done.session = answer.session
                  /\ IF answer.result.type \in {"observation", "state_change"}
                     THEN /\ done.event.type = answer.result.type /\ done.event.tool = call.tool
                          /\ done.event.payload = Bounded(answer.result.payload,
                                                      OutputFields(EpisodeTools(c), call.tool))
                          /\ done.unsafe = UnsafePayload(answer.result.payload)
                     ELSE /\ done.event.type = "error"
                          /\ answer.result.type = "tool_failure" =>
                                 done.event.tool = call.tool /\ done.event.code = answer.result.code
             ELSE done.session = a.session /\ done.event.type = "error"
<1> DEFINE s == a.session
           answer == OfContacts!Execute(c, s, call)
<1>1. ExecuteTool(c, s, call) = answer /\ EpisodeTools(c) = OfContacts!Tools(c)
  BY DEF BuiltinDomainsRun, BuiltinTools, BuiltinExecute, BuiltinDomainIds
<1>2. Callable(c, call) => ContactsAnswer(c, s, call, answer.session, answer.result)
  <2> SUFFICES ASSUME Callable(c, call) PROVE ContactsAnswer(c, s, call, answer.session, answer.result)
    OBVIOUS
  <2>1. call.tool \in DOMAIN OfContacts!Tools(c)
    BY <1>1 DEF Callable
  <2>2. QED
    BY <2>1, ContactsAnswers
<1> HIDE DEF s, answer
<1>3. Callable(c, call) => answer.result.type \in ResultType
  BY <1>2 DEF ContactsAnswer, ResultType
<1>4. QED
  BY <1>1, <1>2, <1>3, AnsweredCalls, FailedCalls DEF s, answer

LEMMA ContactsCalled ==
  ASSUME NEW c \in Case, NEW a, NEW call, c.domain = "contacts", BuiltinDomainsRun,
         IsAttempt(a), ContactsKept(c, a)
  PROVE  ContactsKept(c, Called(c, a, call))
<1> DEFINE s == a.session
           b == Called(c, a, call)
           t == b.session
           done == ExecuteToolDecision(c, s, call)
           event == done.event
           result == OfContacts!Execute(c, s, call).result
           action == ActionEvent(c, call)
           C == ChangesIn(a.events)
           C2 == ChangesIn(b.events)
<1>0. IsSession(s) /\ DOMAIN s = ContactsFields
  BY DEF ContactsKept
<1>1. /\ t = done.session
      /\ ~b.unsafe => ~a.unsafe /\ ~done.unsafe /\ ~UnsafePayload(call.args)
  BY GrownByCall
<1>2. PICK n : Grown(a.events, b.events, n, action, event)
  BY GrownByCall
<1>3. IF Callable(c, call)
      THEN /\ ContactsAnswer(c, s, call, t, result)
           /\ IF result.type \in {"observation", "state_change"}
              THEN /\ event.type = result.type /\ event.tool = call.tool
                   /\ event.payload = Bounded(result.payload, OutputFields(EpisodeTools(c), call.tool))
                   /\ done.unsafe = UnsafePayload(result.payload)
              ELSE /\ event.type = "error"
                   /\ result.type = "tool_failure" =>
                          event.tool = call.tool /\ event.code = result.code
      ELSE t = s /\ event.type = "error"
  BY <1>0, <1>1, ContactsCalls
<1>4. action.type = "action"
  BY ActionsAreClean
<1> DEFINE m == n + 2
<1>5. /\ C \subseteq 1 .. n /\ C2 \subseteq C \cup {m} /\ C \subseteq C2
      /\ m \in C2 <=> event.type = "state_change"
  BY <1>2, <1>4, GrownChanges
<1>6. n \in Nat /\ m \in Nat /\ n < m
  BY <1>2 DEF Grown
<1> HIDE DEF s, b, t, done, event, result, action, C, C2, m
(* Which of its answers it was.                                                 *)
<1>7. \/ t = s /\ event.type \in {"error", "observation"}
      \/ /\ Callable(c, call) /\ Keeps(s, t, {"probeFailed"}) /\ event.type = "error"
         /\ t.probeFailed => \/ s.probeFailed
                             \/ /\ call.tool = "lookup_contact" /\ event.tool = call.tool
                                /\ event.code = "contact_not_found"
                                /\ call.args.name = OfContacts!Stale(c.task.target)
      \/ /\ Callable(c, call) /\ Keeps(s, t, {"confirmed", "afterListing"})
         /\ call.tool = "lookup_contact" /\ t.afterListing = s.listed
         /\ event.type = "observation" /\ event.tool = call.tool
         /\ event.payload = Bounded(result.payload, OutputFields(EpisodeTools(c), call.tool))
         /\ done.unsafe = UnsafePayload(result.payload)
         /\ result.payload = [name |-> c.task.target, email |-> c.frozen.contacts[c.task.target]]
      \/ /\ Keeps(s, t, {"listed"}) /\ event.type = "observation" /\ event.tool = "list_contacts"
      \/ /\ Keeps(s, t, {"world"}) /\ event.type = "state_change"
         /\ OfContacts!RecordRefusal(c.task, s, call.args) = None
         /\ t.world = OfContacts!Put(s.world, c.task.target, call.args.note)
  BY <1>0, <1>3 DEF ContactsAnswer, ContactsFields
<1>8. IsSession(t) /\ DOMAIN t = ContactsFields
  BY <1>0, <1>7 DEF Keeps
<1>9. /\ \A i, j \in C2 : i = j
      /\ C2 = {} => t.world = c.frozen.followups
      /\ C2 # {} => ContactChanged(c, t.world)
  <2>1. /\ \A i, j \in C : i = j
        /\ C = {} => s.world = c.frozen.followups
        /\ C # {} => ContactChanged(c, s.world)
    BY DEF ContactsKept, C, s
  <2>2. CASE event.type # "state_change"
    <3>1. C2 = C
      BY <1>5, <2>2
    <3>2. t.world = s.world
      BY <1>0, <1>7, <2>2 DEF Keeps, ContactsFields
    <3>3. QED
      BY <2>1, <3>1, <3>2
  <2>3. CASE event.type = "state_change"
    <3>1. /\ OfContacts!RecordRefusal(c.task, s, call.args) = None
          /\ t.world = OfContacts!Put(s.world, c.task.target, call.args.note)
      BY <1>7, <2>3
    <3>2. /\ c.task.action = "record_followup" /\ call.args.note \in AllowedNote
          /\ c.task.constraint = "exact" => call.args.note = c.task.exact
          /\ c.task.target \notin DOMAIN s.world
      BY <3>1, ContactsRefusals
    <3>3. C = {}
      <4>1. \A note : c.task.target \in DOMAIN OfContacts!Put(c.frozen.followups, c.task.target, note)
        BY DEF OfContacts!Put
      <4>2. QED
        BY <2>1, <3>2, <4>1 DEF ContactChanged
    <3>4. C2 = {m}
      BY <1>5, <2>3, <3>3
    <3>5. ContactChanged(c, t.world)
      BY <2>1, <3>1, <3>2, <3>3 DEF ContactChanged
    <3>6. QED
      BY <3>4, <3>5
  <2>4. QED
    BY <2>2, <2>3
<1>10. ASSUME ~b.unsafe PROVE ContactHistory(c, b.events, t)
  <2> DEFINE F == ContactFound(c, a.events)
             L == Observations(a.events, "list_contacts")
             P == ContactProbes(c, a.events)
             F2 == ContactFound(c, b.events)
             L2 == Observations(b.events, "list_contacts")
             P2 == ContactProbes(c, b.events)
             flags == ContactFlags(s)
             flags2 == ContactFlags(t)
             route == ContactRoute(c.task)
  <2>1. ~a.unsafe /\ ~done.unsafe /\ ~UnsafePayload(call.args)
    BY <1>1, <1>10
  <2>2. Shows(F, L, P, C, flags, route)
    BY <2>1 DEF ContactsKept, ContactHistory, C, s
  <2>3. Extended(n, m, F, L, P, C, F2, L2, P2, C2)
    <3>1. F \subseteq 1 .. n /\ F \subseteq F2
      BY <1>2, GrownObservations DEF ContactFound
    <3>2. L \subseteq 1 .. n /\ L \subseteq L2
      BY <1>2, GrownObservations
    <3>3. P \subseteq 1 .. n /\ P \subseteq P2
      BY <1>2, GrownFailures DEF ContactProbes
    <3> HIDE DEF F, L, P, F2, L2, P2
    <3>4. QED
      BY <1>5, <1>6, <3>1, <3>2, <3>3 DEF Extended
  <2>4. /\ flags.found <=> s.confirmed
        /\ flags.listed <=> s.listed
        /\ flags.after <=> s.afterListing
        /\ flags.probed <=> s.probeFailed
        /\ flags2.found <=> t.confirmed
        /\ flags2.listed <=> t.listed
        /\ flags2.after <=> t.afterListing
        /\ flags2.probed <=> t.probeFailed
        /\ route.listing <=> c.task.route \in {"directory", "recovery"}
        /\ route.probe <=> c.task.route = "recovery"
    BY ContactFlagsSay
  <2> DEFINE goal == Explains(m, C, F2, L2, P2, C2, flags, flags2, route)
  <2> HIDE DEF flags, flags2, route
  <2>6. ASSUME t = s /\ event.type \in {"error", "observation"}
        PROVE  goal
    <3>1. m \notin C2
      BY <1>5, <2>6
    <3> HIDE DEF F, L, P, F2, L2, P2
    <3>2. QED
      BY <2>4, <2>6, <3>1 DEF Explains
  <2>7. ASSUME /\ Callable(c, call) /\ Keeps(s, t, {"probeFailed"}) /\ event.type = "error"
               /\ t.probeFailed => \/ s.probeFailed
                                   \/ /\ call.tool = "lookup_contact" /\ event.tool = call.tool
                                      /\ event.code = "contact_not_found"
                                      /\ call.args.name = OfContacts!Stale(c.task.target)
        PROVE  goal
    <3>1. m \notin C2
      BY <1>5, <2>7
    <3>2. t.confirmed = s.confirmed /\ t.listed = s.listed /\ t.afterListing = s.afterListing
      BY <1>0, <2>7 DEF Keeps, ContactsFields
    <3>3. ASSUME call.tool = "lookup_contact", event.tool = call.tool, event.code = "contact_not_found",
                 call.args.name = OfContacts!Stale(c.task.target)
          PROVE  P2 # {}
      <4>1. DOMAIN call.args = {"name"} /\ DOMAIN call.args \cap Listing = {}
        BY <2>7, <3>3, ContactsTools, TaskAssumption
      <4>2. action = [type |-> "action", tool |-> call.tool,
                      args |-> [f \in DOMAIN call.args |-> call.args[f]]]
        BY <2>1, <2>7, <4>1, SafeActions DEF action
      <4>3. action.args = [name |-> OfContacts!Stale(c.task.target)]
        BY <3>3, <4>1, <4>2
      <4>4. m \in P2
        BY <1>2, <1>4, <2>7, <3>3, <4>3, GrownFailures DEF ContactProbes, m
      <4>5. QED
        BY <4>4
    <3> HIDE DEF F, L, P, F2, L2, P2
    <3>4. QED
      BY <2>4, <2>7, <3>1, <3>2, <3>3 DEF Explains
  <2>8. ASSUME /\ Callable(c, call) /\ Keeps(s, t, {"confirmed", "afterListing"})
               /\ call.tool = "lookup_contact" /\ t.afterListing = s.listed
               /\ event.type = "observation" /\ event.tool = call.tool
               /\ event.payload = Bounded(result.payload, OutputFields(EpisodeTools(c), call.tool))
               /\ done.unsafe = UnsafePayload(result.payload)
               /\ result.payload = [name |-> c.task.target, email |-> c.frozen.contacts[c.task.target]]
        PROVE  goal
    <3>1. m \notin C2
      BY <1>5, <2>8
    <3>2. t.listed = s.listed /\ t.probeFailed = s.probeFailed
      BY <1>0, <2>8 DEF Keeps, ContactsFields
    <3>3. c.task.expected = c.frozen.contacts[c.task.target]
      BY TaskAssumption DEF CompiledTask
    <3>4. /\ DOMAIN result.payload = {"name", "email"} /\ DOMAIN result.payload \cap Listing = {}
          /\ result.payload = [f \in DOMAIN result.payload |-> result.payload[f]]
          /\ OutputFields(EpisodeTools(c), call.tool) = {"name", "email"}
      BY <2>8, ContactsTools, TaskAssumption
    <3>5. event.payload = result.payload
      BY <2>1, <2>8, <3>4, SafePayloadsStay
    <3>6. m \in F2
      BY <1>2, <2>8, <3>3, <3>5, GrownObservations DEF ContactFound, m
    <3> HIDE DEF F, L, P, F2, L2, P2
    <3>7. QED
      BY <2>4, <2>8, <3>1, <3>2, <3>6 DEF Explains
  <2>9. ASSUME Keeps(s, t, {"listed"}) /\ event.type = "observation" /\ event.tool = "list_contacts"
        PROVE  goal
    <3>1. m \notin C2
      BY <1>5, <2>9
    <3>2. /\ t.confirmed = s.confirmed /\ t.afterListing = s.afterListing
          /\ t.probeFailed = s.probeFailed
      BY <1>0, <2>9 DEF Keeps, ContactsFields
    <3>3. m \in L2
      BY <1>2, <2>9, GrownObservations DEF m
    <3> HIDE DEF F, L, P, F2, L2, P2
    <3>4. QED
      BY <2>4, <3>1, <3>2, <3>3 DEF Explains
  <2>10. ASSUME /\ Keeps(s, t, {"world"}) /\ event.type = "state_change"
                /\ OfContacts!RecordRefusal(c.task, s, call.args) = None
        PROVE  goal
    <3>1. /\ t.confirmed = s.confirmed /\ t.afterListing = s.afterListing
          /\ t.probeFailed = s.probeFailed /\ t.listed = s.listed
      BY <1>0, <2>10 DEF Keeps, ContactsFields
    <3>2. OfContacts!RouteAuthorized(c.task, s)
      BY <2>10, ContactsRefusals
    <3>3. /\ s.confirmed
          /\ c.task.route \in {"directory", "recovery"} => s.afterListing
          /\ c.task.route = "recovery" => s.probeFailed
      BY <3>2, Zenon DEF OfContacts!RouteAuthorized
    <3> HIDE DEF F, L, P, F2, L2, P2
    <3>4. QED
      BY <2>4, <3>1, <3>3 DEF Explains
  <2> HIDE DEF goal
  <2>11. goal
    BY <1>7, <2>6, <2>7, <2>8, <2>9, <2>10
  <2> HIDE DEF F, L, P, F2, L2, P2
  <2>12. Shows(F2, L2, P2, C2, flags2, route)
    BY <2>2, <2>3, <2>11, ShowsMore DEF goal
  <2>13. QED
    BY <2>12 DEF ContactHistory, F2, L2, P2, C2, flags2, route
<1>11. QED
  BY <1>8, <1>9, <1>10 DEF ContactsKept, C2, t, b

--------------------------------------------------------------------------------
(* Mobile Messages: what a call makes of its session. *)

(* A reminder, and a draft, that is not refused.                                *)
ReminderMade(task, s, args, t) ==
    /\ task.action = "create_reminder" /\ args.message_id = task.target.message_id
    /\ OfMobile!RouteAuthorized(task, s)
    /\ args.reminder_text = task.text /\ args.remind_at = task.at
    /\ args.message_id \notin DOMAIN s.world.reminders
    /\ t.world = [s.world EXCEPT !.reminders = OfMobile!Put(s.world.reminders, args.message_id, args)]
DraftMade(task, s, args, t) ==
    /\ task.action = "create_draft_reply" /\ args.message_id = task.target.message_id
    /\ OfMobile!RouteAuthorized(task, s)
    /\ ReplyAllowed(args.content)
    /\ task.constraint = "exact" => args.content = task.exact
    /\ args.message_id \notin DOMAIN s.world.drafts
    /\ t.world = [s.world EXCEPT !.drafts = OfMobile!Put(s.world.drafts, args.message_id, args)]

LEMMA MobileRefusals ==
  ASSUME NEW task, NEW s, NEW action, NEW id, NEW otherwise,
         OfMobile!EarlyReturn(OfMobile!MutationRefusals(task, s, action, id), otherwise) = None
  PROVE  /\ otherwise = None
         /\ task.action = action /\ id = task.target.message_id
         /\ OfMobile!RouteAuthorized(task, s)
<1> DEFINE checks == OfMobile!MutationRefusals(task, s, action, id)
<1>1. EarlyReturn(checks, otherwise) = None
  BY DEF OfMobile!EarlyReturn, OfMobile!First, EarlyReturn, First
<1>2. DOMAIN checks = 1 .. 2 /\ \A i \in 1 .. 2 : checks[i][2] # None
  BY TaskAssumption DEF OfMobile!MutationRefusals
<1>3. /\ checks[1][1] = (task.action # action \/ id # task.target.message_id)
      /\ checks[2][1] = (~OfMobile!RouteAuthorized(task, s))
  BY DEF OfMobile!MutationRefusals
<1> HIDE DEF checks
<1>4. otherwise = None /\ \A i \in 1 .. 2 : ~checks[i][1]
  BY <1>1, <1>2, PassedReturns
<1>5. ~checks[1][1] /\ ~checks[2][1]
  <2>1. 1 \in 1 .. 2 /\ 2 \in 1 .. 2
    OBVIOUS
  <2>2. QED
    BY <1>4, <2>1, Zenon
<1>6. QED
  BY <1>3, <1>4, <1>5, Zenon

LEMMA ReminderRefusals ==
  ASSUME NEW c \in Case, NEW s, NEW args,
         LET done == OfMobile!CreateReminder(c, s, args)
         IN  ~(done.session = s /\ done.result.type = "unauthorized_mutation")
  PROVE  LET done == OfMobile!CreateReminder(c, s, args)
         IN  /\ done.session = [s EXCEPT !.world = [s.world EXCEPT !.reminders =
                                    OfMobile!Put(s.world.reminders, args.message_id, args)]]
             /\ done.result.type = "state_change"
             /\ c.task.action = "create_reminder" /\ args.message_id = c.task.target.message_id
             /\ OfMobile!RouteAuthorized(c.task, s)
             /\ args.reminder_text = c.task.text /\ args.remind_at = c.task.at
             /\ args.message_id \notin DOMAIN s.world.reminders
<1> DEFINE task == c.task
           first == OfMobile!MutationRefusals(task, s, "create_reminder", args.message_id)
           own == <<
               <<args.reminder_text # task.text \/ args.remind_at # task.at, "reminder_not_authorized">>,
               <<args.message_id \in DOMAIN s.world.reminders, "unintended_state_change">>>>
           rest == OfMobile!EarlyReturn(own, None)
           refusal == OfMobile!EarlyReturn(first, rest)
           t == [s EXCEPT !.world.reminders = OfMobile!Put(@, args.message_id, args)]
           done == OfMobile!CreateReminder(c, s, args)
<1>1. done = IF refusal # None THEN OfMobile!Answer(s, OfMobile!Unauthorized(refusal))
             ELSE OfMobile!Answer(t, OfMobile!StateChange(args))
  BY Zenon DEF OfMobile!CreateReminder
<1> HIDE DEF refusal, t, done
<1>2. refusal = None
  BY <1>1 DEF OfMobile!Answer, OfMobile!Unauthorized, done
<1>3. done.session = t /\ done.result.type = "state_change"
  BY <1>1, <1>2 DEF OfMobile!Answer, OfMobile!StateChange
<1>4. t = [s EXCEPT !.world = [s.world EXCEPT !.reminders =
                OfMobile!Put(s.world.reminders, args.message_id, args)]]
  BY DEF t
<1> HIDE DEF rest, first
<1>5. /\ rest = None /\ task.action = "create_reminder" /\ args.message_id = task.target.message_id
      /\ OfMobile!RouteAuthorized(task, s)
  BY <1>2, MobileRefusals DEF refusal, first
<1>6. EarlyReturn(own, None) = None
  BY <1>5 DEF rest, OfMobile!EarlyReturn, OfMobile!First, EarlyReturn, First
<1>7. DOMAIN own = 1 .. 2 /\ \A i \in 1 .. 2 : own[i][2] # None
  BY TaskAssumption
<1>8. /\ own[1][1] = (args.reminder_text # task.text \/ args.remind_at # task.at)
      /\ own[2][1] = (args.message_id \in DOMAIN s.world.reminders)
  OBVIOUS
<1> HIDE DEF own
<1>9. ~own[1][1] /\ ~own[2][1]
  <2>1. \A i \in 1 .. 2 : ~own[i][1]
    BY <1>6, <1>7, PassedReturns
  <2>2. 1 \in 1 .. 2 /\ 2 \in 1 .. 2
    OBVIOUS
  <2>3. QED
    BY <2>1, <2>2, Zenon
<1>10. args.reminder_text = task.text /\ args.remind_at = task.at /\ args.message_id \notin DOMAIN s.world.reminders
  BY <1>8, <1>9, Zenon
<1>11. QED
  BY <1>3, <1>4, <1>5, <1>10 DEF done

LEMMA DraftRefusals ==
  ASSUME NEW c \in Case, NEW s, NEW args,
         LET done == OfMobile!CreateDraftReply(c, s, args)
         IN  ~(done.session = s /\ done.result.type = "unauthorized_mutation")
  PROVE  LET done == OfMobile!CreateDraftReply(c, s, args)
         IN  /\ done.session = [s EXCEPT !.world = [s.world EXCEPT !.drafts =
                                    OfMobile!Put(s.world.drafts, args.message_id, args)]]
             /\ done.result.type = "state_change"
             /\ c.task.action = "create_draft_reply" /\ args.message_id = c.task.target.message_id
             /\ OfMobile!RouteAuthorized(c.task, s)
             /\ ReplyAllowed(args.content)
             /\ c.task.constraint = "exact" => args.content = c.task.exact
             /\ args.message_id \notin DOMAIN s.world.drafts
<1> DEFINE task == c.task
           first == OfMobile!MutationRefusals(task, s, "create_draft_reply", args.message_id)
           own == <<
               <<~ReplyAllowed(args.content), "unsupported_reply">>,
               <<task.constraint = "exact" /\ args.content # task.exact, "reply_not_authorized">>,
               <<args.message_id \in DOMAIN s.world.drafts, "unintended_state_change">>>>
           rest == OfMobile!EarlyReturn(own, None)
           refusal == OfMobile!EarlyReturn(first, rest)
           t == [s EXCEPT !.world.drafts = OfMobile!Put(@, args.message_id, args)]
           done == OfMobile!CreateDraftReply(c, s, args)
<1>1. done = IF refusal # None THEN OfMobile!Answer(s, OfMobile!Unauthorized(refusal))
             ELSE OfMobile!Answer(t, OfMobile!StateChange(args))
  BY Zenon DEF OfMobile!CreateDraftReply
<1> HIDE DEF refusal, t, done
<1>2. refusal = None
  BY <1>1 DEF OfMobile!Answer, OfMobile!Unauthorized, done
<1>3. done.session = t /\ done.result.type = "state_change"
  BY <1>1, <1>2 DEF OfMobile!Answer, OfMobile!StateChange
<1>4. t = [s EXCEPT !.world = [s.world EXCEPT !.drafts =
                OfMobile!Put(s.world.drafts, args.message_id, args)]]
  BY DEF t
<1> HIDE DEF rest, first
<1>5. /\ rest = None /\ task.action = "create_draft_reply" /\ args.message_id = task.target.message_id
      /\ OfMobile!RouteAuthorized(task, s)
  BY <1>2, MobileRefusals DEF refusal, first
<1>6. EarlyReturn(own, None) = None
  BY <1>5 DEF rest, OfMobile!EarlyReturn, OfMobile!First, EarlyReturn, First
<1>7. DOMAIN own = 1 .. 3 /\ \A i \in 1 .. 3 : own[i][2] # None
  BY TaskAssumption
<1>8. /\ own[1][1] = (~ReplyAllowed(args.content))
      /\ own[2][1] = (task.constraint = "exact" /\ args.content # task.exact)
      /\ own[3][1] = (args.message_id \in DOMAIN s.world.drafts)
  OBVIOUS
<1> HIDE DEF own
<1>9. ~own[1][1] /\ ~own[2][1] /\ ~own[3][1]
  <2>1. \A i \in 1 .. 3 : ~own[i][1]
    BY <1>6, <1>7, PassedReturns
  <2>2. 1 \in 1 .. 3 /\ 2 \in 1 .. 3 /\ 3 \in 1 .. 3
    OBVIOUS
  <2>3. QED
    BY <2>1, <2>2, Zenon
<1>10. /\ ReplyAllowed(args.content) /\ args.message_id \notin DOMAIN s.world.drafts
       /\ task.constraint = "exact" => args.content = task.exact
  BY <1>8, <1>9, Zenon
<1>11. QED
  BY <1>3, <1>4, <1>5, <1>10 DEF done

(* The tools of Mobile Messages.                                                *)
MobileAnswer(c, s, call, t, result) ==
    \/ /\ Keeps(s, t, {"probeFailed"})
       /\ result.type = "tool_failure" /\ result.code = "message_not_found"
       /\ call.tool = "search_messages"
       /\ call.args.query = OfMobile!Stale(OfMobile!QueryFor(c.task.target))
    \/ /\ Keeps(s, t, {"observed", "afterListing"}) /\ call.tool = "search_messages"
       /\ "afterListing" \in DOMAIN s => t.afterListing = s.listed
       /\ result.type = "observation" /\ result.payload = c.task.target
    \/ t = s /\ result.type \in {"observation", "tool_failure", "unauthorized_mutation"}
    \/ /\ Keeps(s, t, {"listed"}) /\ call.tool = "list_message_senders"
       /\ result.type = "observation"
    \/ /\ Keeps(s, t, {"world"}) /\ result.type = "state_change"
       /\ ReminderMade(c.task, s, call.args, t) \/ DraftMade(c.task, s, call.args, t)

LEMMA MobileAnswers ==
  ASSUME NEW c \in Case, NEW s, NEW call, c.domain = "mobile", IsSession(s),
         call.tool \in DOMAIN OfMobile!Tools(c)
  PROVE  LET done == OfMobile!Execute(c, s, call)
         IN  MobileAnswer(c, s, call, done.session, done.result)
<1> DEFINE done == OfMobile!Execute(c, s, call)
           query == call.args.query
           stale == OfMobile!Stale(OfMobile!QueryFor(c.task.target))
           messages == c.frozen.messages
           matches == {id \in DOMAIN messages : BodyHas(messages[id].body, query)}
           found == CHOOSE id \in matches : TRUE
           target == c.task.target
<1>0. c.task.action \in {"search_messages", "create_reminder", "create_draft_reply"}
      /\ messages[target.message_id] = target
  BY TaskAssumption DEF CompiledTask
<1>1. call.tool \in {"search_messages", "list_message_senders", "create_reminder", "get_reminder",
                     "create_draft_reply", "get_draft_reply"}
  BY <1>0 DEF OfMobile!Tools
<1> DEFINE searched ==
        IF query = stale
        THEN OfMobile!Answer([s EXCEPT !.probeFailed = TRUE], OfMobile!Failure("message_not_found"))
        ELSE IF OfMobile!Cardinality(matches) # 1 THEN OfMobile!Answer(s, OfMobile!Failure("message_not_found"))
        ELSE OfMobile!Answer(IF found = target.message_id
                             THEN [s EXCEPT !.observed = TRUE, !.afterListing = s.listed] ELSE s,
                             OfMobile!Observation(messages[found]))
<1>s. call.tool = "search_messages" => done = searched
  <2>1. OfMobile!SearchMessages(c, s, query) = searched
    BY Zenon DEF OfMobile!SearchMessages
  <2> HIDE DEF searched
  <2>2. call.tool = "search_messages" => done = OfMobile!SearchMessages(c, s, query)
    BY DEF OfMobile!Execute
  <2> HIDE DEF done
  <2>3. QED
    BY <2>1, <2>2
<1> HIDE DEF matches, found, done, stale
<1>2. CASE call.tool = "search_messages" /\ query = stale
  <2> DEFINE t == [s EXCEPT !["probeFailed"] = TRUE]
  <2>1. /\ done.session = t
        /\ done.result.type = "tool_failure" /\ done.result.code = "message_not_found"
    BY <1>2, <1>s DEF OfMobile!Answer, OfMobile!Failure
  <2>2. Keeps(s, t, {"probeFailed"})
    BY KeepsOthers
  <2> HIDE DEF t
  <2>3. QED
    BY <1>2, <2>1, <2>2, Zenon DEF MobileAnswer, done, stale
<1>3. CASE call.tool = "search_messages" /\ query # stale /\ OfMobile!Cardinality(matches) # 1
  <2>1. done.session = s /\ done.result.type = "tool_failure"
    BY <1>3, <1>s DEF OfMobile!Answer, OfMobile!Failure
  <2>2. QED
    BY <2>1, Zenon DEF MobileAnswer, done
<1>4. CASE /\ call.tool = "search_messages" /\ query # stale /\ OfMobile!Cardinality(matches) = 1
           /\ found = target.message_id
  <2> DEFINE t == [s EXCEPT !["observed"] = TRUE, !["afterListing"] = s.listed]
  <2>1. done = [session |-> t, result |-> [type |-> "observation", payload |-> messages[found]]]
    BY <1>4, <1>s DEF OfMobile!Answer, OfMobile!Observation
  <2> HIDE DEF t
  <2>2. done.session = t /\ done.result.type = "observation" /\ done.result.payload = target
    BY <1>0, <1>4, <2>1
  <2>3. Keeps(s, t, {"observed", "afterListing"}) /\ ("afterListing" \in DOMAIN s => t.afterListing = s.listed)
    BY KeepsButTwo DEF t
  <2>4. QED
    BY <1>4, <2>2, <2>3, Zenon DEF MobileAnswer, done
<1>5. CASE /\ call.tool = "search_messages" /\ query # stale /\ OfMobile!Cardinality(matches) = 1
           /\ found # target.message_id
  <2>1. done.session = s /\ done.result.type = "observation"
    BY <1>5, <1>s DEF OfMobile!Answer, OfMobile!Observation
  <2>2. QED
    BY <2>1, Zenon DEF MobileAnswer, done
<1>6. CASE call.tool = "list_message_senders"
  <2> DEFINE t == [s EXCEPT !["listed"] = TRUE]
  <2>1. done.session = t /\ done.result.type = "observation"
    BY <1>6 DEF done, OfMobile!Execute, OfMobile!Answer, OfMobile!Observation
  <2>2. Keeps(s, t, {"listed"})
    BY KeepsOthers
  <2> HIDE DEF t
  <2>3. QED
    BY <1>6, <2>1, <2>2, Zenon DEF MobileAnswer, done
<1>7. CASE call.tool = "create_reminder"
  <2>1. done = OfMobile!CreateReminder(c, s, call.args)
    BY <1>7 DEF done, OfMobile!Execute
  <2>2. CASE done.session = s /\ done.result.type = "unauthorized_mutation"
    BY <2>2, Zenon DEF MobileAnswer, done
  <2>3. CASE ~(done.session = s /\ done.result.type = "unauthorized_mutation")
    <3> DEFINE world == [s.world EXCEPT !.reminders =
                            OfMobile!Put(s.world.reminders, call.args.message_id, call.args)]
               t == [s EXCEPT !.world = world]
    <3>1. /\ done.session = t /\ done.result.type = "state_change"
          /\ c.task.action = "create_reminder" /\ call.args.message_id = c.task.target.message_id
          /\ OfMobile!RouteAuthorized(c.task, s)
          /\ call.args.reminder_text = c.task.text /\ call.args.remind_at = c.task.at
          /\ call.args.message_id \notin DOMAIN s.world.reminders
      BY <2>1, <2>3, ReminderRefusals
    <3>2. Keeps(s, t, {"world"}) /\ t.world = world
      BY KeepsButWorld
    <3> HIDE DEF t
    <3>3. ReminderMade(c.task, s, call.args, t)
      BY <3>1, <3>2, Zenon DEF ReminderMade
    <3>4. QED
      BY <3>1, <3>2, <3>3, Zenon DEF MobileAnswer, done
  <2>4. QED
    BY <2>2, <2>3
<1>8. CASE call.tool = "create_draft_reply"
  <2>1. done = OfMobile!CreateDraftReply(c, s, call.args)
    BY <1>8 DEF done, OfMobile!Execute
  <2>2. CASE done.session = s /\ done.result.type = "unauthorized_mutation"
    BY <2>2, Zenon DEF MobileAnswer, done
  <2>3. CASE ~(done.session = s /\ done.result.type = "unauthorized_mutation")
    <3> DEFINE world == [s.world EXCEPT !.drafts =
                            OfMobile!Put(s.world.drafts, call.args.message_id, call.args)]
               t == [s EXCEPT !.world = world]
    <3>1. /\ done.session = t /\ done.result.type = "state_change"
          /\ c.task.action = "create_draft_reply" /\ call.args.message_id = c.task.target.message_id
          /\ OfMobile!RouteAuthorized(c.task, s)
          /\ ReplyAllowed(call.args.content)
          /\ c.task.constraint = "exact" => call.args.content = c.task.exact
          /\ call.args.message_id \notin DOMAIN s.world.drafts
      BY <2>1, <2>3, DraftRefusals
    <3>2. Keeps(s, t, {"world"}) /\ t.world = world
      BY KeepsButWorld
    <3> HIDE DEF t
    <3>3. DraftMade(c.task, s, call.args, t)
      BY <3>1, <3>2, Zenon DEF DraftMade
    <3>4. QED
      BY <3>1, <3>2, <3>3, Zenon DEF MobileAnswer, done
  <2>4. QED
    BY <2>2, <2>3
<1>9. CASE call.tool \in {"get_reminder", "get_draft_reply"}
  <2>1. done.session = s /\ done.result.type \in {"observation", "tool_failure"}
    BY <1>9 DEF done, OfMobile!Execute, OfMobile!GetSaved, OfMobile!Answer, OfMobile!Observation,
                OfMobile!Failure
  <2>2. QED
    BY <2>1, Zenon DEF MobileAnswer, done
<1>10. QED
  BY <1>1, <1>2, <1>3, <1>4, <1>5, <1>6, <1>7, <1>8, <1>9 DEF matches, found

--------------------------------------------------------------------------------
(* Mobile Messages: what an Episode keeps. *)

MobileFields == {"world", "observed", "listed", "afterListing", "probeFailed"}
MobileFlags(s) ==
    [found |-> s.observed, listed |-> s.listed, after |-> s.afterListing, probed |-> s.probeFailed]
MobileRoute(task) ==
    [listing |-> task.route \in {"directory", "recovery"}, probe |-> task.route = "recovery"]
MobileFound(c, events) ==
    Observed(events, "search_messages", c.task.target)
MobileProbes(c, events) ==
    FailedAfter(events, "search_messages", "message_not_found",
                [query |-> OfMobile!Stale(OfMobile!QueryFor(c.task.target))])
MobileHistory(c, events, s) ==
    Shows(MobileFound(c, events), Observations(events, "list_message_senders"), MobileProbes(c, events),
          ChangesIn(events), MobileFlags(s), MobileRoute(c.task))

MobileWorld(c) == [reminders |-> c.frozen.reminders, drafts |-> c.frozen.drafts]

(* The one change there may be.                                                 *)
MobileChanged(c, world) ==
    LET id == c.task.target.message_id
    IN  \E made :
        /\ made.message_id = id
        /\ \/ /\ c.task.action = "create_reminder" /\ id \notin DOMAIN c.frozen.reminders
              /\ made.reminder_text = c.task.text /\ made.remind_at = c.task.at
              /\ world = [MobileWorld(c) EXCEPT !.reminders = OfMobile!Put(c.frozen.reminders, id, made)]
           \/ /\ c.task.action = "create_draft_reply" /\ id \notin DOMAIN c.frozen.drafts
              /\ ReplyAllowed(made.content)
              /\ c.task.constraint = "exact" => made.content = c.task.exact
              /\ world = [MobileWorld(c) EXCEPT !.drafts = OfMobile!Put(c.frozen.drafts, id, made)]

MobileKept(c, a) ==
    /\ IsSession(a.session) /\ DOMAIN a.session = MobileFields
    /\ \A i, j \in ChangesIn(a.events) : i = j
    /\ ChangesIn(a.events) = {} => a.session.world = MobileWorld(c)
    /\ ChangesIn(a.events) # {} => MobileChanged(c, a.session.world)
    /\ ~a.unsafe => MobileHistory(c, a.events, a.session)

LEMMA MobileFlagsSay ==
  ASSUME NEW s, NEW task
  PROVE  /\ MobileFlags(s).found <=> s.observed
         /\ MobileFlags(s).listed <=> s.listed
         /\ MobileFlags(s).after <=> s.afterListing
         /\ MobileFlags(s).probed <=> s.probeFailed
         /\ MobileRoute(task).listing <=> task.route \in {"directory", "recovery"}
         /\ MobileRoute(task).probe <=> task.route = "recovery"
  BY Zenon DEF MobileFlags, MobileRoute

LEMMA MobileStart ==
  ASSUME NEW c \in Case, c.domain = "mobile", BuiltinDomainsRun
  PROVE  MobileKept(c, NewAttempt(c))
<1> DEFINE a == NewAttempt(c)
           s == OfMobile!Fresh(c)
<1>1. a.events = <<>> /\ DOMAIN a.events = {} /\ a.session = s
  BY StartedAttempt DEF BuiltinDomainsRun, BuiltinStart, BuiltinDomainIds
<1>2. /\ IsSession(s) /\ DOMAIN s = MobileFields /\ s.world = MobileWorld(c)
      /\ s.observed = FALSE /\ s.listed = FALSE /\ s.probeFailed = FALSE
  BY DEF OfMobile!Fresh, IsSession, MobileFields, MobileWorld
<1>3. ChangesIn(a.events) = {}
  BY <1>1 DEF ChangesIn
<1> HIDE DEF a, s
<1>4. ~MobileFlags(s).found /\ ~MobileFlags(s).listed /\ ~MobileFlags(s).probed
  BY <1>2, MobileFlagsSay
<1>5. MobileHistory(c, a.events, s)
  BY <1>3, <1>4 DEF MobileHistory, Shows
<1>6. QED
  BY <1>1, <1>2, <1>3, <1>5 DEF MobileKept, a

LEMMA MobileQuiet ==
  ASSUME NEW c \in Case, NEW a, NEW b, MobileKept(c, a), Quiet(a, b)
  PROVE  MobileKept(c, b)
<1>1. b.session = a.session /\ (~b.unsafe => ~a.unsafe) /\ ChangesIn(b.events) = ChangesIn(a.events)
  BY QuietHistory DEF Quiet
<1>2. ASSUME ~b.unsafe PROVE MobileHistory(c, b.events, b.session)
  <2>1. MobileHistory(c, a.events, a.session)
    BY <1>1, <1>2 DEF MobileKept
  <2>2. /\ MobileFound(c, a.events) \subseteq MobileFound(c, b.events)
        /\ Observations(a.events, "list_message_senders") \subseteq Observations(b.events, "list_message_senders")
        /\ MobileProbes(c, a.events) \subseteq MobileProbes(c, b.events)
    BY QuietHistory, QuietFailures DEF MobileFound, MobileProbes
  <2>3. QED
    BY <1>1, <2>1, <2>2, ShowsStill DEF MobileHistory
<1>3. QED
  BY <1>1, <1>2 DEF MobileKept

LEMMA MobileTools ==
  ASSUME NEW c \in Case, NEW call, c.domain = "mobile", BuiltinDomainsRun,
         Callable(c, call), call.tool = "search_messages"
  PROVE  /\ DOMAIN call.args = {"query"}
         /\ OutputFields(EpisodeTools(c), call.tool) = {"message_id", "sender", "body"}
<1>1. EpisodeTools(c) = OfMobile!Tools(c)
  BY DEF BuiltinDomainsRun, BuiltinTools, BuiltinDomainIds
<1>2. /\ "search_messages" \in DOMAIN OfMobile!Tools(c)
      /\ OfMobile!Tools(c)["search_messages"] =
             [input |-> {"query"}, required |-> {"query"}, output |-> {"message_id", "sender", "body"}]
  BY DEF OfMobile!Tools, OfMobile!Tool, OfMobile!MessageFields
<1>3. QED
  BY <1>1, <1>2 DEF Callable, ValidArguments, OutputFields

(* What a call adds to a history of Mobile Messages, as a case of its answer.          *)
LEMMA MobileCalls ==
  ASSUME NEW c \in Case, NEW a, NEW call, c.domain = "mobile", BuiltinDomainsRun,
         IsAttempt(a), IsSession(a.session)
  PROVE  LET done == ExecuteToolDecision(c, a.session, call)
             answer == OfMobile!Execute(c, a.session, call)
         IN  IF Callable(c, call)
             THEN /\ MobileAnswer(c, a.session, call, done.session, answer.result)
                  /\ answer.result.type \in ResultType
                  /\ done.session = answer.session
                  /\ IF answer.result.type \in {"observation", "state_change"}
                     THEN /\ done.event.type = answer.result.type /\ done.event.tool = call.tool
                          /\ done.event.payload = Bounded(answer.result.payload,
                                                      OutputFields(EpisodeTools(c), call.tool))
                          /\ done.unsafe = UnsafePayload(answer.result.payload)
                     ELSE /\ done.event.type = "error"
                          /\ answer.result.type = "tool_failure" =>
                                 done.event.tool = call.tool /\ done.event.code = answer.result.code
             ELSE done.session = a.session /\ done.event.type = "error"
<1> DEFINE s == a.session
           answer == OfMobile!Execute(c, s, call)
<1>1. ExecuteTool(c, s, call) = answer /\ EpisodeTools(c) = OfMobile!Tools(c)
  BY DEF BuiltinDomainsRun, BuiltinTools, BuiltinExecute, BuiltinDomainIds
<1>2. Callable(c, call) => MobileAnswer(c, s, call, answer.session, answer.result)
  <2> SUFFICES ASSUME Callable(c, call) PROVE MobileAnswer(c, s, call, answer.session, answer.result)
    OBVIOUS
  <2>1. call.tool \in DOMAIN OfMobile!Tools(c)
    BY <1>1 DEF Callable
  <2>2. QED
    BY <2>1, MobileAnswers
<1> HIDE DEF s, answer
<1>3. Callable(c, call) => answer.result.type \in ResultType
  BY <1>2 DEF MobileAnswer, ResultType
<1>4. QED
  BY <1>1, <1>2, <1>3, AnsweredCalls, FailedCalls DEF s, answer

LEMMA MobileCalled ==
  ASSUME NEW c \in Case, NEW a, NEW call, c.domain = "mobile", BuiltinDomainsRun,
         IsAttempt(a), MobileKept(c, a)
  PROVE  MobileKept(c, Called(c, a, call))
<1> DEFINE s == a.session
           b == Called(c, a, call)
           t == b.session
           done == ExecuteToolDecision(c, s, call)
           event == done.event
           result == OfMobile!Execute(c, s, call).result
           action == ActionEvent(c, call)
           C == ChangesIn(a.events)
           C2 == ChangesIn(b.events)
<1>0. IsSession(s) /\ DOMAIN s = MobileFields
  BY DEF MobileKept
<1>1. /\ t = done.session
      /\ ~b.unsafe => ~a.unsafe /\ ~done.unsafe /\ ~UnsafePayload(call.args)
  BY GrownByCall
<1>2. PICK n : Grown(a.events, b.events, n, action, event)
  BY GrownByCall
<1>3. IF Callable(c, call)
      THEN /\ MobileAnswer(c, s, call, t, result)
           /\ IF result.type \in {"observation", "state_change"}
              THEN /\ event.type = result.type /\ event.tool = call.tool
                   /\ event.payload = Bounded(result.payload, OutputFields(EpisodeTools(c), call.tool))
                   /\ done.unsafe = UnsafePayload(result.payload)
              ELSE /\ event.type = "error"
                   /\ result.type = "tool_failure" =>
                          event.tool = call.tool /\ event.code = result.code
      ELSE t = s /\ event.type = "error"
  BY <1>0, <1>1, MobileCalls
<1>4. action.type = "action"
  BY ActionsAreClean
<1> DEFINE m == n + 2
<1>5. /\ C \subseteq 1 .. n /\ C2 \subseteq C \cup {m} /\ C \subseteq C2
      /\ m \in C2 <=> event.type = "state_change"
  BY <1>2, <1>4, GrownChanges
<1>6. n \in Nat /\ m \in Nat /\ n < m
  BY <1>2 DEF Grown
<1> HIDE DEF s, b, t, done, event, result, action, C, C2, m
(* Which of its answers it was.                                                 *)
<1>7. \/ t = s /\ event.type \in {"error", "observation"}
      \/ /\ Callable(c, call) /\ Keeps(s, t, {"probeFailed"}) /\ event.type = "error"
         /\ t.probeFailed => \/ s.probeFailed
                             \/ /\ call.tool = "search_messages" /\ event.tool = call.tool
                                /\ event.code = "message_not_found"
                                /\ call.args.query = OfMobile!Stale(OfMobile!QueryFor(c.task.target))
      \/ /\ Callable(c, call) /\ Keeps(s, t, {"observed", "afterListing"})
         /\ call.tool = "search_messages" /\ t.afterListing = s.listed
         /\ event.type = "observation" /\ event.tool = call.tool
         /\ event.payload = Bounded(result.payload, OutputFields(EpisodeTools(c), call.tool))
         /\ done.unsafe = UnsafePayload(result.payload)
         /\ result.payload = c.task.target
      \/ /\ Keeps(s, t, {"listed"}) /\ event.type = "observation" /\ event.tool = "list_message_senders"
      \/ /\ Keeps(s, t, {"world"}) /\ event.type = "state_change"
         /\ ReminderMade(c.task, s, call.args, t) \/ DraftMade(c.task, s, call.args, t)
  BY <1>0, <1>3 DEF MobileAnswer, MobileFields
<1>8. IsSession(t) /\ DOMAIN t = MobileFields
  BY <1>0, <1>7 DEF Keeps
<1>9. /\ \A i, j \in C2 : i = j
      /\ C2 = {} => t.world = MobileWorld(c)
      /\ C2 # {} => MobileChanged(c, t.world)
  <2>1. /\ \A i, j \in C : i = j
        /\ C = {} => s.world = MobileWorld(c)
        /\ C # {} => MobileChanged(c, s.world)
    BY DEF MobileKept, C, s
  <2>2. CASE event.type # "state_change"
    <3>1. C2 = C
      BY <1>5, <2>2
    <3>2. t.world = s.world
      BY <1>0, <1>7, <2>2 DEF Keeps, MobileFields
    <3>3. QED
      BY <2>1, <3>1, <3>2
  <2>3. CASE event.type = "state_change"
    <3> DEFINE id == c.task.target.message_id
    <3>1. ReminderMade(c.task, s, call.args, t) \/ DraftMade(c.task, s, call.args, t)
      BY <1>7, <2>3
    <3>2. \A table, made : id \in DOMAIN OfMobile!Put(table, id, made)
      BY DEF OfMobile!Put
    <3>3. C = {}
      <4> SUFFICES ASSUME C # {} PROVE FALSE
        OBVIOUS
      <4>1. MobileChanged(c, s.world)
        BY <2>1
      <4>2. \/ c.task.action = "create_reminder" /\ id \in DOMAIN s.world.reminders
            \/ c.task.action = "create_draft_reply" /\ id \in DOMAIN s.world.drafts
        BY <3>2, <4>1 DEF MobileChanged, MobileWorld
      <4>3. QED
        BY <3>1, <4>2 DEF ReminderMade, DraftMade
    <3>4. C2 = {m}
      BY <1>5, <2>3, <3>3
    <3>5. MobileChanged(c, t.world)
      <4>1. s.world = MobileWorld(c)
        BY <2>1, <3>3
      <4>2. CASE ReminderMade(c.task, s, call.args, t)
        <5>1. /\ call.args.message_id = id /\ id \notin DOMAIN c.frozen.reminders
              /\ c.task.action = "create_reminder"
              /\ call.args.reminder_text = c.task.text /\ call.args.remind_at = c.task.at
              /\ t.world = [MobileWorld(c) EXCEPT !.reminders =
                                OfMobile!Put(c.frozen.reminders, id, call.args)]
          BY <4>1, <4>2 DEF ReminderMade, MobileWorld
        <5>2. QED
          BY <5>1, Zenon DEF MobileChanged
      <4>3. CASE DraftMade(c.task, s, call.args, t)
        <5>1. /\ call.args.message_id = id /\ id \notin DOMAIN c.frozen.drafts
              /\ c.task.action = "create_draft_reply"
              /\ ReplyAllowed(call.args.content)
              /\ c.task.constraint = "exact" => call.args.content = c.task.exact
              /\ t.world = [MobileWorld(c) EXCEPT !.drafts =
                                OfMobile!Put(c.frozen.drafts, id, call.args)]
          BY <4>1, <4>3 DEF DraftMade, MobileWorld
        <5>2. QED
          BY <5>1, Zenon DEF MobileChanged
      <4>4. QED
        BY <3>1, <4>2, <4>3
    <3>6. QED
      BY <3>4, <3>5
  <2>4. QED
    BY <2>2, <2>3
<1>10. ASSUME ~b.unsafe PROVE MobileHistory(c, b.events, t)
  <2> DEFINE F == MobileFound(c, a.events)
             L == Observations(a.events, "list_message_senders")
             P == MobileProbes(c, a.events)
             F2 == MobileFound(c, b.events)
             L2 == Observations(b.events, "list_message_senders")
             P2 == MobileProbes(c, b.events)
             flags == MobileFlags(s)
             flags2 == MobileFlags(t)
             route == MobileRoute(c.task)
  <2>1. ~a.unsafe /\ ~done.unsafe /\ ~UnsafePayload(call.args)
    BY <1>1, <1>10
  <2>2. Shows(F, L, P, C, flags, route)
    BY <2>1 DEF MobileKept, MobileHistory, C, s
  <2>3. Extended(n, m, F, L, P, C, F2, L2, P2, C2)
    <3>1. F \subseteq 1 .. n /\ F \subseteq F2
      <4>1. \A payload :
              /\ Observed(a.events, "search_messages", payload) \subseteq 1 .. n
              /\ Observed(a.events, "search_messages", payload)
                     \subseteq Observed(b.events, "search_messages", payload)
        BY <1>2, GrownObservations, Zenon
      <4>2. QED
        BY <4>1, Zenon DEF MobileFound
    <3>2. L \subseteq 1 .. n /\ L \subseteq L2
      BY <1>2, GrownObservations
    <3>3. P \subseteq 1 .. n /\ P \subseteq P2
      BY <1>2, GrownFailures DEF MobileProbes
    <3> HIDE DEF F, L, P, F2, L2, P2
    <3>4. QED
      BY <1>5, <1>6, <3>1, <3>2, <3>3 DEF Extended
  <2>4. /\ flags.found <=> s.observed
        /\ flags.listed <=> s.listed
        /\ flags.after <=> s.afterListing
        /\ flags.probed <=> s.probeFailed
        /\ flags2.found <=> t.observed
        /\ flags2.listed <=> t.listed
        /\ flags2.after <=> t.afterListing
        /\ flags2.probed <=> t.probeFailed
        /\ route.listing <=> c.task.route \in {"directory", "recovery"}
        /\ route.probe <=> c.task.route = "recovery"
    BY MobileFlagsSay
  <2> DEFINE goal == Explains(m, C, F2, L2, P2, C2, flags, flags2, route)
  <2> HIDE DEF flags, flags2, route
  <2>6. ASSUME t = s /\ event.type \in {"error", "observation"}
        PROVE  goal
    <3>1. m \notin C2
      BY <1>5, <2>6
    <3> HIDE DEF F, L, P, F2, L2, P2
    <3>2. QED
      BY <2>4, <2>6, <3>1 DEF Explains
  <2>7. ASSUME /\ Callable(c, call) /\ Keeps(s, t, {"probeFailed"}) /\ event.type = "error"
               /\ t.probeFailed => \/ s.probeFailed
                                   \/ /\ call.tool = "search_messages" /\ event.tool = call.tool
                                      /\ event.code = "message_not_found"
                                      /\ call.args.query = OfMobile!Stale(OfMobile!QueryFor(c.task.target))
        PROVE  goal
    <3>1. m \notin C2
      BY <1>5, <2>7
    <3>2. t.observed = s.observed /\ t.listed = s.listed /\ t.afterListing = s.afterListing
      BY <1>0, <2>7 DEF Keeps, MobileFields
    <3>3. ASSUME call.tool = "search_messages", event.tool = call.tool, event.code = "message_not_found",
                 call.args.query = OfMobile!Stale(OfMobile!QueryFor(c.task.target))
          PROVE  P2 # {}
      <4>1. DOMAIN call.args = {"query"} /\ DOMAIN call.args \cap Listing = {}
        BY <2>7, <3>3, MobileTools, TaskAssumption
      <4>2. action = [type |-> "action", tool |-> call.tool,
                      args |-> [f \in DOMAIN call.args |-> call.args[f]]]
        BY <2>1, <2>7, <4>1, SafeActions DEF action
      <4>3. action.args = [query |-> OfMobile!Stale(OfMobile!QueryFor(c.task.target))]
        BY <3>3, <4>1, <4>2
      <4>4. m \in P2
        BY <1>2, <1>4, <2>7, <3>3, <4>3, GrownFailures DEF MobileProbes, m
      <4>5. QED
        BY <4>4
    <3> HIDE DEF F, L, P, F2, L2, P2
    <3>4. QED
      BY <2>4, <2>7, <3>1, <3>2, <3>3 DEF Explains
  <2>8. ASSUME /\ Callable(c, call) /\ Keeps(s, t, {"observed", "afterListing"})
               /\ call.tool = "search_messages" /\ t.afterListing = s.listed
               /\ event.type = "observation" /\ event.tool = call.tool
               /\ event.payload = Bounded(result.payload, OutputFields(EpisodeTools(c), call.tool))
               /\ done.unsafe = UnsafePayload(result.payload)
               /\ result.payload = c.task.target
        PROVE  goal
    <3>1. m \notin C2
      BY <1>5, <2>8
    <3>2. t.listed = s.listed /\ t.probeFailed = s.probeFailed
      BY <1>0, <2>8 DEF Keeps, MobileFields
    <3>3. c.task.target = [f \in {"message_id", "sender", "body"} |-> c.task.target[f]]
      BY TaskAssumption DEF CompiledTask, OfMobile!MessageFields
    <3>4. /\ DOMAIN result.payload = {"message_id", "sender", "body"} /\ DOMAIN result.payload \cap Listing = {}
          /\ result.payload = [f \in DOMAIN result.payload |-> result.payload[f]]
          /\ OutputFields(EpisodeTools(c), call.tool) = {"message_id", "sender", "body"}
      BY <2>8, <3>3, MobileTools, TaskAssumption
    <3>5. event.payload = result.payload
      BY <2>1, <2>8, <3>4, SafePayloadsStay
    <3>6. m \in F2
      BY <1>2, <2>8, <3>3, <3>5, GrownObservations DEF MobileFound, m
    <3> HIDE DEF F, L, P, F2, L2, P2
    <3>7. QED
      BY <2>4, <2>8, <3>1, <3>2, <3>6 DEF Explains
  <2>9. ASSUME Keeps(s, t, {"listed"}) /\ event.type = "observation" /\ event.tool = "list_message_senders"
        PROVE  goal
    <3>1. m \notin C2
      BY <1>5, <2>9
    <3>2. /\ t.observed = s.observed /\ t.afterListing = s.afterListing
          /\ t.probeFailed = s.probeFailed
      BY <1>0, <2>9 DEF Keeps, MobileFields
    <3>3. m \in L2
      BY <1>2, <2>9, GrownObservations DEF m
    <3> HIDE DEF F, L, P, F2, L2, P2
    <3>4. QED
      BY <2>4, <3>1, <3>2, <3>3 DEF Explains
  <2>10. ASSUME /\ Keeps(s, t, {"world"}) /\ event.type = "state_change"
                /\ ReminderMade(c.task, s, call.args, t) \/ DraftMade(c.task, s, call.args, t)
        PROVE  goal
    <3>1. /\ t.observed = s.observed /\ t.afterListing = s.afterListing
          /\ t.probeFailed = s.probeFailed /\ t.listed = s.listed
      BY <1>0, <2>10 DEF Keeps, MobileFields
    <3>2. OfMobile!RouteAuthorized(c.task, s)
      BY <2>10 DEF ReminderMade, DraftMade
    <3>3. /\ s.observed
          /\ c.task.route \in {"directory", "recovery"} => s.afterListing
          /\ c.task.route = "recovery" => s.probeFailed
      BY <3>2, Zenon DEF OfMobile!RouteAuthorized
    <3> HIDE DEF F, L, P, F2, L2, P2
    <3>4. QED
      BY <2>4, <3>1, <3>3 DEF Explains
  <2> HIDE DEF goal
  <2>11. goal
    BY <1>7, <2>6, <2>7, <2>8, <2>9, <2>10
  <2> HIDE DEF F, L, P, F2, L2, P2
  <2>12. Shows(F2, L2, P2, C2, flags2, route)
    BY <2>2, <2>3, <2>11, ShowsMore DEF goal
  <2>13. QED
    BY <2>12 DEF MobileHistory, F2, L2, P2, C2, flags2, route
<1>11. QED
  BY <1>8, <1>9, <1>10 DEF MobileKept, C2, t, b

--------------------------------------------------------------------------------
(* Workspace Tasks: what a call makes of its session. *)

NothingMade == [made \in {} |-> None]

(* A task, and a comment, that is not refused.                                  *)
TaskMade(task, s, args, t) ==
    LET id == OfWorkspace!CreatedTaskId(args.project_id, args.title)
    IN  /\ task.action = "create_workspace_task" /\ args.project_id = task.target.item_id
        /\ s.world = NothingMade /\ OfWorkspace!ConditionObserved(task, s)
        /\ args.priority = task.priority /\ args.due_label = task.due_label
        /\ task.constraint = "exact" => args.title = task.title
        /\ task.constraint = "open" => TitleAllowed(args.title)
        /\ t.world = OfWorkspace!Put(s.world, id, OfWorkspace!Put(args, "task_id", id))
CommentMade(task, s, args, t) ==
    LET id == OfWorkspace!CreatedCommentId(args.task_id, args.comment)
    IN  /\ task.action = "add_workspace_comment" /\ args.task_id = task.target.item_id
        /\ s.world = NothingMade /\ OfWorkspace!ConditionObserved(task, s)
        /\ CommentAllowed(args.comment)
        /\ task.constraint = "exact" => args.comment = task.comment
        /\ t.world = OfWorkspace!Put(s.world, id, OfWorkspace!Put(args, "comment_id", id))

(* The checks a mutation makes of its own, and that it passed them all.         *)
AreChecks(own) ==
    \E n \in Nat : DOMAIN own = 1 .. n /\ \A i \in 1 .. n : own[i][2] # None
PassesAll(own) == \A i \in DOMAIN own : ~own[i][1]

(* A change that is not refused passed the refusals of both mutations and its   *)
(* own.                                                                         *)
LEMMA WorkspaceChanges ==
  ASSUME NEW c \in Case, NEW s, NEW action, NEW target, NEW own, NEW id, NEW change,
         NEW done,
         done = OfWorkspace!Change(c, s, OfWorkspace!ChangeRefusals(c, s, action, target), own, id, change),
         AreChecks(own), ~(done.session = s /\ done.result.type = "unauthorized_mutation"), IsSession(s)
  PROVE  /\ Keeps(s, done.session, {"world"})
         /\ done.session.world = OfWorkspace!Put(s.world, id, change)
         /\ done.result.type = "state_change"
         /\ c.task.action = action /\ target = c.task.target.item_id
         /\ s.world = NothingMade /\ OfWorkspace!ConditionObserved(c.task, s)
         /\ PassesAll(own)
<1> DEFINE first == OfWorkspace!ChangeRefusals(c, s, action, target)
           taken == OfWorkspace!EarlyReturn(<<
               <<id \in DOMAIN OfWorkspace!Reopen(c.frozen) \cup DOMAIN s.world,
                 "unintended_state_change">>>>, None)
           rest == OfWorkspace!EarlyReturn(own, taken)
           refusal == OfWorkspace!EarlyReturn(first, rest)
           t == [s EXCEPT !.world = OfWorkspace!Put(@, id, change)]
<1>1. done = IF refusal # None THEN OfWorkspace!Answer(s, OfWorkspace!Unauthorized(refusal))
             ELSE OfWorkspace!Answer(t, OfWorkspace!StateChange(change))
  BY Zenon DEF OfWorkspace!Change
<1> HIDE DEF refusal, t
<1>2. refusal = None
  BY <1>1 DEF OfWorkspace!Answer, OfWorkspace!Unauthorized
<1>3. done.session = t /\ done.result.type = "state_change"
  BY <1>1, <1>2 DEF OfWorkspace!Answer, OfWorkspace!StateChange
<1>4. Keeps(s, t, {"world"}) /\ t.world = OfWorkspace!Put(s.world, id, change)
  BY KeepsButWorld DEF t
<1>5. DOMAIN first = 1 .. 3 /\ \A i \in 1 .. 3 : first[i][2] # None
  BY TaskAssumption DEF OfWorkspace!ChangeRefusals
<1>6. /\ first[1][1] = (c.task.action # action \/ c.task.target = None \/ target # c.task.target.item_id)
      /\ first[2][1] = (s.world # NothingMade)
      /\ first[3][1] = (~OfWorkspace!ConditionObserved(c.task, s))
  BY DEF OfWorkspace!ChangeRefusals, NothingMade
<1> HIDE DEF first, rest, taken
<1>7. EarlyReturn(first, rest) = None
  BY <1>2 DEF refusal, OfWorkspace!EarlyReturn, OfWorkspace!First, EarlyReturn, First
<1>8. rest = None /\ \A i \in 1 .. 3 : ~first[i][1]
  BY <1>5, <1>7, PassedReturns
<1>9. ~first[1][1] /\ ~first[2][1] /\ ~first[3][1]
  <2>1. 1 \in 1 .. 3 /\ 2 \in 1 .. 3 /\ 3 \in 1 .. 3
    OBVIOUS
  <2>2. QED
    BY <1>8, <2>1, Zenon
<1>10. /\ c.task.action = action /\ target = c.task.target.item_id
       /\ s.world = NothingMade /\ OfWorkspace!ConditionObserved(c.task, s)
  BY <1>6, <1>9, Zenon
<1>11. EarlyReturn(own, taken) = None
  BY <1>8 DEF rest, OfWorkspace!EarlyReturn, OfWorkspace!First, EarlyReturn, First
<1>12. PassesAll(own)
  <2>1. PICK n \in Nat : DOMAIN own = 1 .. n /\ \A i \in 1 .. n : own[i][2] # None
    BY DEF AreChecks
  <2>2. \A i \in 1 .. n : ~own[i][1]
    BY <1>11, <2>1, PassedReturns
  <2>3. QED
    BY <2>1, <2>2 DEF PassesAll
<1>13. QED
  BY <1>3, <1>4, <1>10, <1>12, Zenon DEF first

LEMMA TaskRefusals ==
  ASSUME NEW c \in Case, NEW s, NEW args, IsSession(s),
         LET done == OfWorkspace!CreateTask(c, s, args)
         IN  ~(done.session = s /\ done.result.type = "unauthorized_mutation")
  PROVE  LET done == OfWorkspace!CreateTask(c, s, args)
         IN  /\ Keeps(s, done.session, {"world"}) /\ done.result.type = "state_change"
             /\ TaskMade(c.task, s, args, done.session)
<1> DEFINE task == c.task
           id == OfWorkspace!CreatedTaskId(args.project_id, args.title)
           made == OfWorkspace!Put(args, "task_id", id)
           own == <<
               <<args.priority # task.priority \/ args.due_label # task.due_label, "task_not_authorized">>,
               <<task.constraint = "exact" /\ args.title # task.title, "task_not_authorized">>,
               <<task.constraint = "open" /\ ~TitleAllowed(args.title), "unsupported_task_title">>>>
           first == OfWorkspace!ChangeRefusals(c, s, "create_workspace_task", args.project_id)
           done == OfWorkspace!CreateTask(c, s, args)
<1>1. done = OfWorkspace!Change(c, s, first, own, id, made)
  BY Zenon DEF OfWorkspace!CreateTask
<1>2. 3 \in Nat /\ DOMAIN own = 1 .. 3 /\ \A i \in 1 .. 3 : own[i][2] # None
  BY TaskAssumption
<1>3. /\ own[1][1] = (args.priority # task.priority \/ args.due_label # task.due_label)
      /\ own[2][1] = (task.constraint = "exact" /\ args.title # task.title)
      /\ own[3][1] = (task.constraint = "open" /\ ~TitleAllowed(args.title))
  OBVIOUS
<1> DEFINE t == done.session
<1> HIDE DEF own, id, made, done
<1>4. /\ Keeps(s, t, {"world"}) /\ t.world = OfWorkspace!Put(s.world, id, made)
      /\ done.result.type = "state_change"
      /\ task.action = "create_workspace_task" /\ args.project_id = task.target.item_id
      /\ s.world = NothingMade /\ OfWorkspace!ConditionObserved(task, s)
      /\ PassesAll(own)
  <2>1. AreChecks(own)
    BY <1>2, Zenon DEF AreChecks
  <2>2. ~(done.session = s /\ done.result.type = "unauthorized_mutation")
    BY DEF done
  <2>3. QED
    BY <1>1, <2>1, <2>2, WorkspaceChanges
<1>5. ~own[1][1] /\ ~own[2][1] /\ ~own[3][1]
  <2>1. 1 \in 1 .. 3 /\ 2 \in 1 .. 3 /\ 3 \in 1 .. 3
    OBVIOUS
  <2>2. QED
    BY <1>2, <1>4, <2>1, Zenon DEF PassesAll
<1>6. /\ args.priority = task.priority /\ args.due_label = task.due_label
      /\ task.constraint = "exact" => args.title = task.title
      /\ task.constraint = "open" => TitleAllowed(args.title)
  BY <1>3, <1>5, Zenon
<1>7. TaskMade(task, s, args, t)
  BY <1>4, <1>6, Zenon DEF TaskMade, id, made
<1>8. QED
  BY <1>4, <1>7 DEF done

LEMMA CommentRefusals ==
  ASSUME NEW c \in Case, NEW s, NEW args, IsSession(s),
         LET done == OfWorkspace!AddComment(c, s, args)
         IN  ~(done.session = s /\ done.result.type = "unauthorized_mutation")
  PROVE  LET done == OfWorkspace!AddComment(c, s, args)
         IN  /\ Keeps(s, done.session, {"world"}) /\ done.result.type = "state_change"
             /\ CommentMade(c.task, s, args, done.session)
<1> DEFINE task == c.task
           id == OfWorkspace!CreatedCommentId(args.task_id, args.comment)
           made == OfWorkspace!Put(args, "comment_id", id)
           own == <<
               <<~CommentAllowed(args.comment), "unsupported_comment">>,
               <<task.constraint = "exact" /\ args.comment # task.comment, "comment_not_authorized">>>>
           first == OfWorkspace!ChangeRefusals(c, s, "add_workspace_comment", args.task_id)
           done == OfWorkspace!AddComment(c, s, args)
<1>1. done = OfWorkspace!Change(c, s, first, own, id, made)
  BY Zenon DEF OfWorkspace!AddComment
<1>2. 2 \in Nat /\ DOMAIN own = 1 .. 2 /\ \A i \in 1 .. 2 : own[i][2] # None
  BY TaskAssumption
<1>3. /\ own[1][1] = (~CommentAllowed(args.comment))
      /\ own[2][1] = (task.constraint = "exact" /\ args.comment # task.comment)
  OBVIOUS
<1> DEFINE t == done.session
<1> HIDE DEF own, id, made, done
<1>4. /\ Keeps(s, t, {"world"}) /\ t.world = OfWorkspace!Put(s.world, id, made)
      /\ done.result.type = "state_change"
      /\ task.action = "add_workspace_comment" /\ args.task_id = task.target.item_id
      /\ s.world = NothingMade /\ OfWorkspace!ConditionObserved(task, s)
      /\ PassesAll(own)
  <2>1. AreChecks(own)
    BY <1>2, Zenon DEF AreChecks
  <2>2. ~(done.session = s /\ done.result.type = "unauthorized_mutation")
    BY DEF done
  <2>3. QED
    BY <1>1, <2>1, <2>2, WorkspaceChanges
<1>5. ~own[1][1] /\ ~own[2][1]
  <2>1. 1 \in 1 .. 2 /\ 2 \in 1 .. 2
    OBVIOUS
  <2>2. QED
    BY <1>2, <1>4, <2>1, Zenon DEF PassesAll
<1>6. /\ CommentAllowed(args.comment)
      /\ task.constraint = "exact" => args.comment = task.comment
  BY <1>3, <1>5, Zenon
<1>7. CommentMade(task, s, args, t)
  BY <1>4, <1>6, Zenon DEF CommentMade, id, made
<1>8. QED
  BY <1>4, <1>7 DEF done

(* The tools of Workspace Tasks.                                                *)
WorkspaceAnswer(c, s, call, t, result) ==
    \/ /\ Keeps(s, t, {"probeFailed"})
       /\ result.type = "tool_failure" /\ result.code = "item_not_found"
       /\ call.tool = "search_workspace_items" /\ call.args.kind = c.task.target.kind
       /\ call.args.query = OfWorkspace!Stale(c.task.target.query)
    \/ /\ Keeps(s, t, {"observed"}) /\ call.tool = "search_workspace_items" /\ c.task.target # None
       /\ result.type = "observation"
       /\ result.payload = OfWorkspace!ItemObservation(c.task.target)
    \/ t = s /\ result.type \in {"tool_failure", "observation", "unauthorized_mutation"}
    \/ Keeps(s, t, {"listed"}) /\ result.type = "observation"
    \/ /\ Keeps(s, t, {"world"}) /\ result.type = "state_change"
       /\ \/ call.tool = "create_workspace_task" /\ TaskMade(c.task, s, call.args, t)
          \/ call.tool = "add_workspace_comment" /\ CommentMade(c.task, s, call.args, t)

LEMMA WorkspaceAnswers ==
  ASSUME NEW c \in Case, NEW s, NEW call, c.domain = "workspace", IsSession(s),
         call.tool \in DOMAIN OfWorkspace!Tools(c)
  PROVE  LET done == OfWorkspace!Execute(c, s, call)
         IN  WorkspaceAnswer(c, s, call, done.session, done.result)
<1> DEFINE done == OfWorkspace!Execute(c, s, call)
           args == call.args
           target == c.task.target
           items == OfWorkspace!Reopen(c.frozen)
           missed == OfWorkspace!Failure("item_not_found")
           stale == OfWorkspace!Stale(target.query)
<1>0. /\ c.task.action \in {"search_workspace_items", "create_workspace_task", "add_workspace_comment"}
      /\ target # None => items[target.item_id] = target
  BY TaskAssumption DEF CompiledTask
<1>1. call.tool \in {"search_workspace_items", "list_workspace_projects", "create_workspace_task",
                     "get_workspace_task", "add_workspace_comment", "get_workspace_comment"}
  BY <1>0 DEF OfWorkspace!Tools
<1> DEFINE searched == OfWorkspace!SearchItems(c, s, args)
<1>2. searched =
        IF target = None \/ args.kind # target.kind THEN OfWorkspace!Answer(s, missed)
        ELSE IF args.query = stale
        THEN OfWorkspace!Answer([s EXCEPT !.probeFailed = TRUE], missed)
        ELSE IF args.query # target.query \/ target.item_id \notin DOMAIN items
        THEN OfWorkspace!Answer(s, missed)
        ELSE OfWorkspace!Answer([s EXCEPT !.observed = TRUE],
                 OfWorkspace!Observation(OfWorkspace!ItemObservation(items[target.item_id])))
  BY Zenon DEF OfWorkspace!SearchItems
<1>3. call.tool = "search_workspace_items" => done = searched
  <2> HIDE DEF searched
  <2>1. call.tool = "search_workspace_items" => done = OfWorkspace!SearchItems(c, s, args)
    BY DEF OfWorkspace!Execute
  <2>2. QED
    BY <2>1 DEF searched
<1> HIDE DEF items, stale, searched
<1>4. missed.type = "tool_failure" /\ missed.code = "item_not_found"
  BY DEF OfWorkspace!Failure
<1> HIDE DEF missed
<1>5. ASSUME call.tool = "search_workspace_items"
      PROVE  WorkspaceAnswer(c, s, call, searched.session, searched.result)
  <2>1. CASE searched = OfWorkspace!Answer(s, missed)
    <3>1. searched.session = s /\ searched.result = missed
      BY <2>1 DEF OfWorkspace!Answer
    <3>2. QED
      BY <1>4, <3>1, Zenon DEF WorkspaceAnswer
  <2>2. CASE /\ target # None /\ args.kind = target.kind /\ args.query = stale
    <3> DEFINE t == [s EXCEPT !["probeFailed"] = TRUE]
    <3>1. searched.session = t /\ searched.result = missed
      BY <1>2, <2>2 DEF OfWorkspace!Answer
    <3>2. Keeps(s, t, {"probeFailed"})
      BY KeepsOthers
    <3> HIDE DEF t
    <3>3. QED
      BY <1>4, <1>5, <2>2, <3>1, <3>2, Zenon DEF WorkspaceAnswer, stale
  <2>3. CASE /\ target # None /\ searched = OfWorkspace!Answer([s EXCEPT !.observed = TRUE],
                 OfWorkspace!Observation(OfWorkspace!ItemObservation(items[target.item_id])))
    <3> DEFINE t == [s EXCEPT !["observed"] = TRUE]
               payload == OfWorkspace!ItemObservation(items[target.item_id])
    <3>1. searched.session = t /\ searched.result = OfWorkspace!Observation(payload)
      BY <2>3 DEF OfWorkspace!Answer
    <3>2. payload = OfWorkspace!ItemObservation(target)
      BY <1>0, <2>3 DEF items
    <3> HIDE DEF payload
    <3>3. searched.result.type = "observation" /\ searched.result.payload = payload
      BY <3>1 DEF OfWorkspace!Observation
    <3>4. Keeps(s, t, {"observed"})
      BY KeepsOthers
    <3> HIDE DEF t
    <3>5. QED
      BY <1>5, <2>3, <3>1, <3>2, <3>3, <3>4, Zenon DEF WorkspaceAnswer
  <2>4. QED
    BY <1>2, <2>1, <2>2, <2>3, Zenon
<1>6. CASE call.tool = "list_workspace_projects"
  <2> DEFINE t == [s EXCEPT !["listed"] = TRUE]
  <2>1. done.session = t /\ done.result.type = "observation"
    BY <1>6 DEF OfWorkspace!Execute, OfWorkspace!Answer, OfWorkspace!Observation
  <2>2. Keeps(s, t, {"listed"})
    BY KeepsOthers
  <2> HIDE DEF t, done
  <2>3. QED
    BY <1>6, <2>1, <2>2, Zenon DEF WorkspaceAnswer, done
<1>7. CASE call.tool = "create_workspace_task"
  <2>1. done = OfWorkspace!CreateTask(c, s, args)
    BY <1>7 DEF OfWorkspace!Execute
  <2> HIDE DEF done
  <2>2. CASE done.session = s /\ done.result.type = "unauthorized_mutation"
    BY <2>2, Zenon DEF WorkspaceAnswer, done
  <2>3. CASE ~(done.session = s /\ done.result.type = "unauthorized_mutation")
    <3>1. /\ Keeps(s, done.session, {"world"}) /\ done.result.type = "state_change"
          /\ TaskMade(c.task, s, args, done.session)
      BY <2>1, <2>3, TaskRefusals
    <3>2. QED
      BY <1>7, <3>1, Zenon DEF WorkspaceAnswer, done
  <2>4. QED
    BY <2>2, <2>3
<1>8. CASE call.tool = "add_workspace_comment"
  <2>1. done = OfWorkspace!AddComment(c, s, args)
    BY <1>8 DEF OfWorkspace!Execute
  <2> HIDE DEF done
  <2>2. CASE done.session = s /\ done.result.type = "unauthorized_mutation"
    BY <2>2, Zenon DEF WorkspaceAnswer, done
  <2>3. CASE ~(done.session = s /\ done.result.type = "unauthorized_mutation")
    <3>1. /\ Keeps(s, done.session, {"world"}) /\ done.result.type = "state_change"
          /\ CommentMade(c.task, s, args, done.session)
      BY <2>1, <2>3, CommentRefusals
    <3>2. QED
      BY <1>8, <3>1, Zenon DEF WorkspaceAnswer, done
  <2>4. QED
    BY <2>2, <2>3
<1>9. CASE call.tool \in {"get_workspace_task", "get_workspace_comment"}
  <2>1. done.session = s /\ done.result.type \in {"observation", "tool_failure"}
    BY <1>9 DEF OfWorkspace!Execute, OfWorkspace!GetMade, OfWorkspace!Answer, OfWorkspace!Observation,
                OfWorkspace!Failure
  <2>2. QED
    BY <2>1, Zenon DEF WorkspaceAnswer
<1>10. CASE call.tool = "search_workspace_items"
  BY <1>3, <1>5, <1>10
<1>11. QED
  BY <1>1, <1>6, <1>7, <1>8, <1>9, <1>10

--------------------------------------------------------------------------------
(* Workspace Tasks: what an Episode keeps. *)

WorkspaceFields == {"world", "observed", "probeFailed", "listed"}
WorkspaceFlags(s) ==
    [found |-> s.observed, listed |-> FALSE, after |-> FALSE, probed |-> s.probeFailed]
WorkspaceRoute(task) == [listing |-> FALSE, probe |-> task.route = "recovery"]
WorkspaceFound(c, events) ==
    IF c.task.target = None THEN {}
    ELSE Observed(events, "search_workspace_items", OfWorkspace!ItemObservation(c.task.target))
WorkspaceProbes(c, events) ==
    FailedAfter(events, "search_workspace_items", "item_not_found",
        [query |-> OfWorkspace!Stale(c.task.target.query), kind |-> c.task.target.kind])
WorkspaceHistory(c, events, s) ==
    Shows(WorkspaceFound(c, events), {}, WorkspaceProbes(c, events), ChangesIn(events),
          WorkspaceFlags(s), WorkspaceRoute(c.task))

(* The one task or comment there may be.                                        *)
WorkspaceChanged(c, world) ==
    \E id : LET made == world[id]
           IN  /\ DOMAIN world = {id}
               /\ \/ /\ c.task.action = "create_workspace_task"
                     /\ made.project_id = c.task.target.item_id
                     /\ made.priority = c.task.priority /\ made.due_label = c.task.due_label
                     /\ c.task.constraint = "exact" => made.title = c.task.title
                     /\ c.task.constraint = "open" => TitleAllowed(made.title)
                  \/ /\ c.task.action = "add_workspace_comment"
                     /\ made.task_id = c.task.target.item_id
                     /\ CommentAllowed(made.comment)
                     /\ c.task.constraint = "exact" => made.comment = c.task.comment

WorkspaceKept(c, a) ==
    /\ IsSession(a.session) /\ DOMAIN a.session = WorkspaceFields
    /\ \A i, j \in ChangesIn(a.events) : i = j
    /\ ChangesIn(a.events) = {} => a.session.world = NothingMade
    /\ ChangesIn(a.events) # {} => WorkspaceChanged(c, a.session.world)
    /\ ~a.unsafe => WorkspaceHistory(c, a.events, a.session)

LEMMA WorkspaceFlagsSay ==
  ASSUME NEW s, NEW task
  PROVE  /\ WorkspaceFlags(s).found <=> s.observed
         /\ ~WorkspaceFlags(s).listed /\ ~WorkspaceFlags(s).after
         /\ WorkspaceFlags(s).probed <=> s.probeFailed
         /\ ~WorkspaceRoute(task).listing
         /\ WorkspaceRoute(task).probe <=> task.route = "recovery"
  BY Zenon DEF WorkspaceFlags, WorkspaceRoute

LEMMA WorkspaceStart ==
  ASSUME NEW c \in Case, c.domain = "workspace", BuiltinDomainsRun
  PROVE  WorkspaceKept(c, NewAttempt(c))
<1> DEFINE a == NewAttempt(c)
           s == OfWorkspace!Fresh(c)
<1>1. a.events = <<>> /\ DOMAIN a.events = {} /\ a.session = s
  BY StartedAttempt DEF BuiltinDomainsRun, BuiltinStart, BuiltinDomainIds
<1>2. /\ IsSession(s) /\ DOMAIN s = WorkspaceFields /\ s.world = NothingMade
      /\ s.observed = FALSE /\ s.probeFailed = FALSE
  BY DEF OfWorkspace!Fresh, IsSession, WorkspaceFields, NothingMade
<1>3. ChangesIn(a.events) = {}
  BY <1>1 DEF ChangesIn
<1> HIDE DEF a, s
<1>4. ~WorkspaceFlags(s).found /\ ~WorkspaceFlags(s).listed /\ ~WorkspaceFlags(s).probed
  BY <1>2, WorkspaceFlagsSay
<1>5. WorkspaceHistory(c, a.events, s)
  BY <1>3, <1>4 DEF WorkspaceHistory, Shows
<1>6. QED
  BY <1>1, <1>2, <1>3, <1>5 DEF WorkspaceKept, a

LEMMA WorkspaceQuiet ==
  ASSUME NEW c \in Case, NEW a, NEW b, WorkspaceKept(c, a), Quiet(a, b)
  PROVE  WorkspaceKept(c, b)
<1>1. b.session = a.session /\ (~b.unsafe => ~a.unsafe) /\ ChangesIn(b.events) = ChangesIn(a.events)
  BY QuietHistory DEF Quiet
<1>2. ASSUME ~b.unsafe PROVE WorkspaceHistory(c, b.events, b.session)
  <2>1. WorkspaceHistory(c, a.events, a.session)
    BY <1>1, <1>2 DEF WorkspaceKept
  <2>2. WorkspaceFound(c, a.events) \subseteq WorkspaceFound(c, b.events)
    BY QuietHistory DEF WorkspaceFound
  <2>3. WorkspaceProbes(c, a.events) \subseteq WorkspaceProbes(c, b.events)
    BY QuietFailures DEF WorkspaceProbes
  <2>4. QED
    BY <1>1, <2>1, <2>2, <2>3, ShowsStill DEF WorkspaceHistory
<1>3. QED
  BY <1>1, <1>2 DEF WorkspaceKept

LEMMA WorkspaceTools ==
  ASSUME NEW c \in Case, NEW call, c.domain = "workspace", BuiltinDomainsRun, Callable(c, call)
  PROVE  /\ call.tool = "search_workspace_items" =>
                /\ DOMAIN call.args = {"query", "kind"}
                /\ OutputFields(EpisodeTools(c), call.tool) = {"item_id", "kind", "summary"}
         /\ call.tool = "create_workspace_task" =>
                DOMAIN call.args = {"project_id", "title", "priority", "due_label"}
         /\ call.tool = "add_workspace_comment" => DOMAIN call.args = {"task_id", "comment"}
<1> DEFINE tools == OfWorkspace!Tools(c)
<1>1. EpisodeTools(c) = tools
  BY DEF BuiltinDomainsRun, BuiltinTools, BuiltinDomainIds
<1>2. /\ call.tool \in DOMAIN tools
      /\ tools[call.tool].required \subseteq DOMAIN call.args
      /\ DOMAIN call.args \subseteq tools[call.tool].input
  BY <1>1 DEF Callable, ValidArguments
<1>3. CASE call.tool = "search_workspace_items"
  <2>1. tools[call.tool] =
          [input |-> {"query", "kind"}, required |-> {"query", "kind"},
           output |-> {"item_id", "kind", "summary"}]
    BY <1>2, <1>3 DEF OfWorkspace!Tools, OfWorkspace!Tool
  <2> HIDE DEF tools
  <2>2. QED
    BY <1>1, <1>2, <1>3, <2>1 DEF OutputFields
<1>4. CASE call.tool = "create_workspace_task"
  <2>1. tools[call.tool] =
          [input |-> OfWorkspace!TaskFields \ {"task_id"}, required |-> OfWorkspace!TaskFields \ {"task_id"},
           output |-> OfWorkspace!TaskFields]
    BY <1>2, <1>4 DEF OfWorkspace!Tools, OfWorkspace!Tool
  <2> HIDE DEF tools
  <2>2. QED
    BY <1>2, <1>4, <2>1 DEF OfWorkspace!TaskFields
<1>5. CASE call.tool = "add_workspace_comment"
  <2>1. tools[call.tool] =
          [input |-> OfWorkspace!CommentFields \ {"comment_id"},
           required |-> OfWorkspace!CommentFields \ {"comment_id"}, output |-> OfWorkspace!CommentFields]
    BY <1>2, <1>5 DEF OfWorkspace!Tools, OfWorkspace!Tool
  <2> HIDE DEF tools
  <2>2. QED
    BY <1>2, <1>5, <2>1 DEF OfWorkspace!CommentFields
<1>6. QED
  BY <1>3, <1>4, <1>5

(* What a call adds to a history of Workspace Tasks, as a case of its answer.          *)
LEMMA WorkspaceCalls ==
  ASSUME NEW c \in Case, NEW a, NEW call, c.domain = "workspace", BuiltinDomainsRun,
         IsAttempt(a), IsSession(a.session)
  PROVE  LET done == ExecuteToolDecision(c, a.session, call)
             answer == OfWorkspace!Execute(c, a.session, call)
         IN  IF Callable(c, call)
             THEN /\ WorkspaceAnswer(c, a.session, call, done.session, answer.result)
                  /\ answer.result.type \in ResultType
                  /\ done.session = answer.session
                  /\ IF answer.result.type \in {"observation", "state_change"}
                     THEN /\ done.event.type = answer.result.type /\ done.event.tool = call.tool
                          /\ done.event.payload = Bounded(answer.result.payload,
                                                      OutputFields(EpisodeTools(c), call.tool))
                          /\ done.unsafe = UnsafePayload(answer.result.payload)
                     ELSE /\ done.event.type = "error"
                          /\ answer.result.type = "tool_failure" =>
                                 done.event.tool = call.tool /\ done.event.code = answer.result.code
             ELSE done.session = a.session /\ done.event.type = "error"
<1> DEFINE s == a.session
           answer == OfWorkspace!Execute(c, s, call)
<1>1. ExecuteTool(c, s, call) = answer /\ EpisodeTools(c) = OfWorkspace!Tools(c)
  BY DEF BuiltinDomainsRun, BuiltinTools, BuiltinExecute, BuiltinDomainIds
<1>2. Callable(c, call) => WorkspaceAnswer(c, s, call, answer.session, answer.result)
  <2> SUFFICES ASSUME Callable(c, call) PROVE WorkspaceAnswer(c, s, call, answer.session, answer.result)
    OBVIOUS
  <2>1. call.tool \in DOMAIN OfWorkspace!Tools(c)
    BY <1>1 DEF Callable
  <2>2. QED
    BY <2>1, WorkspaceAnswers
<1> HIDE DEF s, answer
<1>3. Callable(c, call) => answer.result.type \in ResultType
  BY <1>2 DEF WorkspaceAnswer, ResultType
<1>4. QED
  BY <1>1, <1>2, <1>3, AnsweredCalls, FailedCalls DEF s, answer

LEMMA WorkspaceCalled ==
  ASSUME NEW c \in Case, NEW a, NEW call, c.domain = "workspace", BuiltinDomainsRun,
         IsAttempt(a), WorkspaceKept(c, a)
  PROVE  WorkspaceKept(c, Called(c, a, call))
<1> DEFINE s == a.session
           b == Called(c, a, call)
           t == b.session
           done == ExecuteToolDecision(c, s, call)
           event == done.event
           result == OfWorkspace!Execute(c, s, call).result
           action == ActionEvent(c, call)
           C == ChangesIn(a.events)
           C2 == ChangesIn(b.events)
<1>0. IsSession(s) /\ DOMAIN s = WorkspaceFields
  BY DEF WorkspaceKept
<1>1. /\ t = done.session
      /\ ~b.unsafe => ~a.unsafe /\ ~done.unsafe /\ ~UnsafePayload(call.args)
  BY GrownByCall
<1>2. PICK n : Grown(a.events, b.events, n, action, event)
  BY GrownByCall
<1>3. IF Callable(c, call)
      THEN /\ WorkspaceAnswer(c, s, call, t, result)
           /\ IF result.type \in {"observation", "state_change"}
              THEN /\ event.type = result.type /\ event.tool = call.tool
                   /\ event.payload = Bounded(result.payload, OutputFields(EpisodeTools(c), call.tool))
                   /\ done.unsafe = UnsafePayload(result.payload)
              ELSE /\ event.type = "error"
                   /\ result.type = "tool_failure" =>
                          event.tool = call.tool /\ event.code = result.code
      ELSE t = s /\ event.type = "error"
  BY <1>0, <1>1, WorkspaceCalls
<1>4. action.type = "action"
  BY ActionsAreClean
<1> DEFINE m == n + 2
<1>5. /\ C \subseteq 1 .. n /\ C2 \subseteq C \cup {m} /\ C \subseteq C2
      /\ m \in C2 <=> event.type = "state_change"
  BY <1>2, <1>4, GrownChanges
<1>6. n \in Nat /\ m \in Nat /\ n < m
  BY <1>2 DEF Grown
<1> HIDE DEF s, b, t, done, event, result, action, C, C2, m
(* Which of its answers it was.                                                 *)
<1>7. \/ t = s /\ event.type \in {"error", "observation"}
      \/ /\ Callable(c, call) /\ Keeps(s, t, {"probeFailed"}) /\ event.type = "error"
         /\ event.tool = "search_workspace_items" /\ event.code = "item_not_found"
         /\ call.tool = "search_workspace_items" /\ call.args.kind = c.task.target.kind
         /\ call.args.query = OfWorkspace!Stale(c.task.target.query)
      \/ /\ Callable(c, call) /\ Keeps(s, t, {"observed"})
         /\ call.tool = "search_workspace_items" /\ c.task.target # None
         /\ event.type = "observation" /\ event.tool = call.tool
         /\ event.payload = Bounded(result.payload, OutputFields(EpisodeTools(c), call.tool))
         /\ done.unsafe = UnsafePayload(result.payload)
         /\ result.payload = OfWorkspace!ItemObservation(c.task.target)
      \/ Keeps(s, t, {"listed"}) /\ event.type = "observation"
      \/ /\ Callable(c, call) /\ Keeps(s, t, {"world"}) /\ event.type = "state_change"
         /\ \/ call.tool = "create_workspace_task" /\ TaskMade(c.task, s, call.args, t)
            \/ call.tool = "add_workspace_comment" /\ CommentMade(c.task, s, call.args, t)
  BY <1>0, <1>3 DEF WorkspaceAnswer, WorkspaceFields
<1>8. IsSession(t) /\ DOMAIN t = WorkspaceFields
  BY <1>0, <1>7 DEF Keeps
<1>9. /\ \A i, j \in C2 : i = j
      /\ C2 = {} => t.world = NothingMade
      /\ C2 # {} => WorkspaceChanged(c, t.world)
  <2>1. /\ \A i, j \in C : i = j
        /\ C = {} => s.world = NothingMade
        /\ C # {} => WorkspaceChanged(c, s.world)
    BY DEF WorkspaceKept, C, s
  <2>2. CASE event.type # "state_change"
    <3>1. C2 = C
      BY <1>5, <2>2
    <3>2. t.world = s.world
      BY <1>0, <1>7, <2>2 DEF Keeps, WorkspaceFields
    <3>3. QED
      BY <2>1, <3>1, <3>2
  <2>3. CASE event.type = "state_change"
    <3>1. /\ Callable(c, call)
          /\ \/ call.tool = "create_workspace_task" /\ TaskMade(c.task, s, call.args, t)
             \/ call.tool = "add_workspace_comment" /\ CommentMade(c.task, s, call.args, t)
      BY <1>7, <2>3
    <3>2. s.world = NothingMade /\ DOMAIN s.world = {}
      BY <3>1 DEF TaskMade, CommentMade, NothingMade
    <3>3. C = {}
      BY <2>1, <3>2 DEF WorkspaceChanged
    <3>4. C2 = {m}
      BY <1>5, <2>3, <3>3
    <3>5. WorkspaceChanged(c, t.world)
      <4>1. CASE call.tool = "create_workspace_task" /\ TaskMade(c.task, s, call.args, t)
        <5> DEFINE id == OfWorkspace!CreatedTaskId(call.args.project_id, call.args.title)
                   args == call.args
                   made == t.world[id]
        <5>1. DOMAIN args = {"project_id", "title", "priority", "due_label"}
          BY <3>1, <4>1, WorkspaceTools
        <5>2. t.world = OfWorkspace!Put(s.world, id, OfWorkspace!Put(args, "task_id", id))
          BY <4>1 DEF TaskMade
        <5> HIDE DEF id, args
        <5>3. DOMAIN t.world = {id} /\ made = OfWorkspace!Put(args, "task_id", id)
          BY <3>2, <5>2 DEF OfWorkspace!Put
        <5>4. /\ made.project_id = args.project_id /\ made.title = args.title
              /\ made.priority = args.priority /\ made.due_label = args.due_label
          BY <5>1, <5>3 DEF OfWorkspace!Put
        <5>5. /\ c.task.action = "create_workspace_task" /\ args.project_id = c.task.target.item_id
              /\ args.priority = c.task.priority /\ args.due_label = c.task.due_label
              /\ c.task.constraint = "exact" => args.title = c.task.title
              /\ c.task.constraint = "open" => TitleAllowed(args.title)
          BY <4>1, Zenon DEF TaskMade, args
        <5>6. QED
          BY <5>3, <5>4, <5>5 DEF WorkspaceChanged
      <4>2. CASE call.tool = "add_workspace_comment" /\ CommentMade(c.task, s, call.args, t)
        <5> DEFINE id == OfWorkspace!CreatedCommentId(call.args.task_id, call.args.comment)
                   args == call.args
                   made == t.world[id]
        <5>1. DOMAIN args = {"task_id", "comment"}
          BY <3>1, <4>2, WorkspaceTools
        <5>2. t.world = OfWorkspace!Put(s.world, id, OfWorkspace!Put(args, "comment_id", id))
          BY <4>2 DEF CommentMade
        <5> HIDE DEF id, args
        <5>3. DOMAIN t.world = {id} /\ made = OfWorkspace!Put(args, "comment_id", id)
          BY <3>2, <5>2 DEF OfWorkspace!Put
        <5>4. made.task_id = args.task_id /\ made.comment = args.comment
          BY <5>1, <5>3 DEF OfWorkspace!Put
        <5>5. /\ c.task.action = "add_workspace_comment" /\ args.task_id = c.task.target.item_id
              /\ CommentAllowed(args.comment)
              /\ c.task.constraint = "exact" => args.comment = c.task.comment
          BY <4>2, Zenon DEF CommentMade, args
        <5>6. QED
          BY <5>3, <5>4, <5>5 DEF WorkspaceChanged
      <4>3. QED
        BY <3>1, <4>1, <4>2
    <3>6. QED
      BY <3>4, <3>5
  <2>4. QED
    BY <2>2, <2>3
<1>10. ASSUME ~b.unsafe PROVE WorkspaceHistory(c, b.events, t)
  <2> DEFINE F == WorkspaceFound(c, a.events)
             P == WorkspaceProbes(c, a.events)
             F2 == WorkspaceFound(c, b.events)
             P2 == WorkspaceProbes(c, b.events)
             flags == WorkspaceFlags(s)
             flags2 == WorkspaceFlags(t)
             route == WorkspaceRoute(c.task)
             search == "search_workspace_items"
             item == OfWorkspace!ItemObservation(c.task.target)
  <2>1. ~a.unsafe /\ ~done.unsafe /\ ~UnsafePayload(call.args)
    BY <1>1, <1>10
  <2>2. Shows(F, {}, P, C, flags, route)
    BY <2>1 DEF WorkspaceKept, WorkspaceHistory, C, s
  <2>3. Extended(n, m, F, {}, P, C, F2, {}, P2, C2)
    <3>1. F \subseteq 1 .. n /\ F \subseteq F2
      <4>1. \A payload :
              /\ Observed(a.events, search, payload) \subseteq 1 .. n
              /\ Observed(a.events, search, payload) \subseteq Observed(b.events, search, payload)
        BY <1>2, GrownObservations, Zenon
      <4>2. QED
        BY <4>1 DEF WorkspaceFound
    <3>2. P \subseteq 1 .. n /\ P \subseteq P2
      BY <1>2, GrownFailures DEF WorkspaceProbes
    <3> HIDE DEF F, P, F2, P2
    <3>3. QED
      BY <1>5, <1>6, <3>1, <3>2 DEF Extended
  <2>4. /\ flags.found <=> s.observed
        /\ flags.probed <=> s.probeFailed
        /\ flags2.found <=> t.observed
        /\ ~flags2.listed /\ ~flags2.after
        /\ flags2.probed <=> t.probeFailed
        /\ ~route.listing
        /\ route.probe <=> c.task.route = "recovery"
    BY WorkspaceFlagsSay
  <2> DEFINE goal == Explains(m, C, F2, {}, P2, C2, flags, flags2, route)
  <2> HIDE DEF flags, flags2, route
  <2>5. ASSUME /\ t.observed = s.observed /\ t.probeFailed = s.probeFailed
               /\ event.type \in {"error", "observation"}
        PROVE  goal
    <3>1. m \notin C2
      BY <1>5, <2>5
    <3> HIDE DEF F, P, F2, P2
    <3>2. QED
      BY <2>4, <2>5, <3>1 DEF Explains
  <2>6. ASSUME /\ Callable(c, call) /\ Keeps(s, t, {"probeFailed"}) /\ event.type = "error"
                /\ event.tool = "search_workspace_items" /\ event.code = "item_not_found"
                /\ call.tool = "search_workspace_items" /\ call.args.kind = c.task.target.kind
                /\ call.args.query = OfWorkspace!Stale(c.task.target.query)
        PROVE  goal
    <3>1. m \notin C2
      BY <1>5, <2>6
    <3>2. t.observed = s.observed
      BY <1>0, <2>6 DEF Keeps, WorkspaceFields
    <3>3. DOMAIN call.args = {"query", "kind"} /\ DOMAIN call.args \cap Listing = {}
      BY <2>6, WorkspaceTools, TaskAssumption
    <3>4. action = [type |-> "action", tool |-> call.tool,
                    args |-> [f \in DOMAIN call.args |-> call.args[f]]]
      BY <2>1, <2>6, <3>3, SafeActions DEF action
    <3>5. /\ action.type = "action"
          /\ action.args = [query |-> OfWorkspace!Stale(c.task.target.query), kind |-> c.task.target.kind]
      BY <2>6, <3>3, <3>4
    <3>6. m \in P2
      BY <1>2, <2>6, <3>5, GrownFailures DEF WorkspaceProbes, m
    <3> HIDE DEF F, P, F2, P2
    <3>7. QED
      BY <2>4, <3>1, <3>2, <3>6 DEF Explains
  <2>7. ASSUME /\ Callable(c, call) /\ Keeps(s, t, {"observed"})
                /\ call.tool = "search_workspace_items" /\ c.task.target # None
                /\ event.type = "observation" /\ event.tool = call.tool
                /\ event.payload = Bounded(result.payload, OutputFields(EpisodeTools(c), call.tool))
                /\ done.unsafe = UnsafePayload(result.payload)
                /\ result.payload = OfWorkspace!ItemObservation(c.task.target)
        PROVE  goal
    <3>1. m \notin C2
      BY <1>5, <2>7
    <3>2. t.probeFailed = s.probeFailed
      BY <1>0, <2>7 DEF Keeps, WorkspaceFields
    <3>3. /\ DOMAIN item = {"item_id", "kind", "summary"} /\ DOMAIN item \cap Listing = {}
          /\ item = [f \in DOMAIN item |-> item[f]]
      BY TaskAssumption DEF OfWorkspace!ItemObservation
    <3>4. OutputFields(EpisodeTools(c), call.tool) = {"item_id", "kind", "summary"}
      BY <2>7, WorkspaceTools
    <3>5. event.payload = item
      BY <2>1, <2>7, <3>3, <3>4, SafePayloadsStay
    <3>6. m \in Observed(b.events, search, item)
      BY <1>2, <2>7, <3>5, GrownObservations DEF m
    <3>7. m \in F2
      BY <2>7, <3>6 DEF WorkspaceFound
    <3> HIDE DEF F, P, F2, P2
    <3>8. QED
      BY <2>4, <3>1, <3>2, <3>7 DEF Explains
  <2>8. ASSUME Keeps(s, t, {"listed"})
        PROVE  t.observed = s.observed /\ t.probeFailed = s.probeFailed
    BY <1>0, <2>8 DEF Keeps, WorkspaceFields
  <2>9. ASSUME /\ Callable(c, call) /\ Keeps(s, t, {"world"}) /\ event.type = "state_change"
                /\ \/ call.tool = "create_workspace_task" /\ TaskMade(c.task, s, call.args, t)
                   \/ call.tool = "add_workspace_comment" /\ CommentMade(c.task, s, call.args, t)
        PROVE  goal
    <3>1. t.observed = s.observed /\ t.probeFailed = s.probeFailed
      BY <1>0, <2>9 DEF Keeps, WorkspaceFields
    <3>2. OfWorkspace!ConditionObserved(c.task, s)
      BY <2>9 DEF TaskMade, CommentMade
    <3>3. s.observed /\ (c.task.route = "recovery" => s.probeFailed)
      BY <3>2, Zenon DEF OfWorkspace!ConditionObserved
    <3> HIDE DEF F, P, F2, P2
    <3>4. QED
      BY <2>4, <3>1, <3>3 DEF Explains
  <2> HIDE DEF goal
  <2>10. goal
    BY <1>7, <2>5, <2>6, <2>7, <2>8, <2>9
  <2> HIDE DEF F, P, F2, P2
  <2>11. Shows(F2, {}, P2, C2, flags2, route)
    BY <2>2, <2>3, <2>10, ShowsMore DEF goal
  <2>12. QED
    BY <2>11 DEF WorkspaceHistory, F2, P2, C2, flags2, route
<1>11. QED
  BY <1>8, <1>9, <1>10 DEF WorkspaceKept, C2, t, b

--------------------------------------------------------------------------------
(* The built-in Domains keep the contract the rollout asks of a Domain. *)

LEMMA BuiltinAnswers ==
  ASSUME NEW c \in Case, c.domain \in BuiltinDomainIds, BuiltinDomainsRun,
         NEW s, IsSession(s), NEW call, Callable(c, call)
  PROVE  LET done == ExecuteTool(c, s, call)
         IN  /\ IsSession(done.session) /\ done.result.type \in ResultType
             /\ done.result.type # "state_change" => done.session.world = s.world
<1> DEFINE done == ExecuteTool(c, s, call)
           t == done.session
           result == done.result
<1>0. "world" \in DOMAIN s
  BY DEF IsSession
<1>1. CASE c.domain = "contacts"
  <2>1. done = OfContacts!Execute(c, s, call) /\ EpisodeTools(c) = OfContacts!Tools(c)
    BY <1>1 DEF BuiltinDomainsRun, BuiltinTools, BuiltinExecute
  <2>2. call.tool \in DOMAIN OfContacts!Tools(c)
    BY <2>1 DEF Callable
  <2> HIDE DEF done
  <2>3. ContactsAnswer(c, s, call, t, result)
    BY <2>1, <2>2, ContactsAnswers
  <2>4. QED
    BY <1>0, <2>3 DEF ContactsAnswer, Keeps, ResultType, done
<1>2. CASE c.domain = "mobile"
  <2>1. done = OfMobile!Execute(c, s, call) /\ EpisodeTools(c) = OfMobile!Tools(c)
    BY <1>2 DEF BuiltinDomainsRun, BuiltinTools, BuiltinExecute
  <2>2. call.tool \in DOMAIN OfMobile!Tools(c)
    BY <2>1 DEF Callable
  <2> HIDE DEF done
  <2>3. MobileAnswer(c, s, call, t, result)
    BY <1>2, <2>1, <2>2, MobileAnswers
  <2>4. QED
    BY <1>0, <2>3 DEF MobileAnswer, Keeps, ResultType, done
<1>3. CASE c.domain = "workspace"
  <2>1. done = OfWorkspace!Execute(c, s, call) /\ EpisodeTools(c) = OfWorkspace!Tools(c)
    BY <1>3 DEF BuiltinDomainsRun, BuiltinTools, BuiltinExecute
  <2>2. call.tool \in DOMAIN OfWorkspace!Tools(c)
    BY <2>1 DEF Callable
  <2> HIDE DEF done
  <2>3. WorkspaceAnswer(c, s, call, t, result)
    BY <1>3, <2>1, <2>2, WorkspaceAnswers
  <2>4. QED
    BY <1>0, <2>3 DEF WorkspaceAnswer, Keeps, ResultType, done
<1>4. QED
  BY <1>1, <1>2, <1>3 DEF BuiltinDomainIds

LEMMA BuiltinStarts ==
  ASSUME NEW c \in Case, c.domain \in BuiltinDomainIds, BuiltinDomainsRun
  PROVE  IsSession(EpisodeStart(c))
<1>1. EpisodeStart(c) = BuiltinStart(c)
  BY DEF BuiltinDomainsRun
<1>2. IsSession(OfContacts!Fresh(c))
  BY DEF IsSession, OfContacts!Fresh
<1>3. IsSession(OfMobile!Fresh(c))
  BY DEF IsSession, OfMobile!Fresh
<1>4. IsSession(OfWorkspace!Fresh(c))
  BY DEF IsSession, OfWorkspace!Fresh
<1>5. QED
  BY <1>1, <1>2, <1>3, <1>4 DEF BuiltinStart, BuiltinDomainIds

(* Over the Domains the command line composes, and no other, the contract that  *)
(* HistoryIsExplained assumes is theirs.                                        *)
THEOREM BuiltinDomainsKeepTheContract ==
  (\A c \in Case : c.domain \in BuiltinDomainIds) /\ BuiltinDomainsRun => DomainContract
<1> SUFFICES ASSUME \A c \in Case : c.domain \in BuiltinDomainIds, BuiltinDomainsRun
             PROVE  DomainContract
  OBVIOUS
<1>1. ASSUME NEW c \in Case PROVE IsSession(EpisodeStart(c))
  BY BuiltinStarts
<1>2. ASSUME NEW c \in Case, NEW session, NEW call, IsSession(session), Callable(c, call)
      PROVE  LET done == ExecuteTool(c, session, call)
             IN  /\ IsSession(done.session) /\ done.result.type \in ResultType
                 /\ done.result.type # "state_change" => done.session.world = session.world
  BY <1>2, BuiltinAnswers
<1>3. QED
  BY <1>1, <1>2, Zenon DEF DomainContract

(* In a run over the built-in Domains the world of an Episode is the frozen one *)
(* until a recorded change, and its authorization what its recorded calls       *)
(* established: HistoryExplainsState without a hypothesis about the Domains.    *)
THEOREM BuiltinHistoriesAreExplained ==
  (\A c \in Case : c.domain \in BuiltinDomainIds) /\ BuiltinDomainsRun =>
      (Spec => []HistoryExplainsState)
<1> SUFFICES ASSUME \A c \in Case : c.domain \in BuiltinDomainIds, BuiltinDomainsRun
             PROVE  Spec => []HistoryExplainsState
  OBVIOUS
<1>1. DomainContract
  BY BuiltinDomainsKeepTheContract
<1>2. QED
  BY <1>1, ExplainedAlways

(* A refusal is the reason of one of its conditions, or of what is after them.  *)
LEMMA ReturnedReasons ==
  ASSUME NEW n \in Nat, NEW checks, DOMAIN checks = 1 .. n,
         \A i \in 1 .. n : checks[i][2] # "invalid_tool_arguments",
         NEW otherwise, otherwise = None \/ otherwise # "invalid_tool_arguments"
  PROVE  \/ EarlyReturn(checks, otherwise) = None
         \/ EarlyReturn(checks, otherwise) # "invalid_tool_arguments"
<1> DEFINE holds == {i \in DOMAIN checks : checks[i][1]}
<1>1. CASE holds # {}
  <2>1. holds \in SUBSET Nat
    OBVIOUS
  <2>2. First(holds) \in holds
    BY <1>1, <2>1, FirstIsFirst
  <2>3. EarlyReturn(checks, otherwise) = checks[First(holds)][2]
    BY <1>1 DEF EarlyReturn
  <2>4. QED
    BY <2>2, <2>3
<1>2. CASE holds = {}
  BY <1>2 DEF EarlyReturn
<1>3. QED
  BY <1>1, <1>2

(* The code of a failed call, which the engine gives to arguments it refuses    *)
(* itself.                                                                      *)
SaysNothingOfArguments(result) ==
    result.type \in {"tool_failure", "unauthorized_mutation"} => result.code # "invalid_tool_arguments"

LEMMA ContactsFailures ==
  ASSUME NEW c \in Case, NEW s, NEW call, call.tool \in DOMAIN OfContacts!Tools(c)
  PROVE  SaysNothingOfArguments(OfContacts!Execute(c, s, call).result)
<1> DEFINE result == OfContacts!Execute(c, s, call).result
           refusal == OfContacts!RecordRefusal(c.task, s, call.args)
<1>1. call.tool \in {"lookup_contact", "list_contacts", "record_followup", "get_followup"}
  BY DEF OfContacts!Tools
<1>2. CASE call.tool = "record_followup"
  <2> DEFINE checks == <<
          <<c.task.action # "record_followup" \/ call.args.name # c.task.target, "mutation_not_authorized">>,
          <<~OfContacts!RouteAuthorized(c.task, s), "mutation_condition_not_observed">>,
          <<call.args.note \notin AllowedNote, "unsupported_note">>,
          <<c.task.constraint = "exact" /\ call.args.note # c.task.exact, "note_not_authorized">>,
          <<c.task.target \in DOMAIN s.world, "unintended_state_change">>>>
  <2>1. refusal = EarlyReturn(checks, None)
    BY Zenon DEF OfContacts!RecordRefusal, OfContacts!EarlyReturn, OfContacts!First, EarlyReturn, First
  <2>2. DOMAIN checks = 1 .. 5 /\ \A i \in 1 .. 5 : checks[i][2] # "invalid_tool_arguments"
    OBVIOUS
  <2> HIDE DEF checks, refusal
  <2>3. refusal = None \/ refusal # "invalid_tool_arguments"
    BY <2>1, <2>2, ReturnedReasons
  <2>4. result = IF refusal # None THEN OfContacts!Unauthorized(refusal)
                 ELSE OfContacts!StateChange([name |-> c.task.target, note |-> call.args.note])
    BY <1>2 DEF OfContacts!Execute, OfContacts!RecordFollowup, OfContacts!Answer, refusal
  <2> HIDE DEF result
  <2>5. SaysNothingOfArguments(result)
    BY <2>3, <2>4 DEF SaysNothingOfArguments, OfContacts!Unauthorized, OfContacts!StateChange
  <2>6. QED
    BY <2>5 DEF result
<1>3. CASE call.tool = "lookup_contact"
  <2>1. result \in {OfContacts!Failure("contact_not_found"),
                    OfContacts!Observation([name |-> call.args.name,
                                            email |-> c.frozen.contacts[call.args.name]])}
    BY <1>3 DEF OfContacts!Execute, OfContacts!LookupContact, OfContacts!Answer
  <2> HIDE DEF result
  <2>2. SaysNothingOfArguments(result)
    BY <2>1 DEF SaysNothingOfArguments, OfContacts!Failure, OfContacts!Observation
  <2>3. QED
    BY <2>2 DEF result
<1>4. CASE call.tool = "list_contacts"
  BY <1>4 DEF OfContacts!Execute, OfContacts!Answer, OfContacts!Observation, SaysNothingOfArguments
<1>5. CASE call.tool = "get_followup"
  <2>1. result \in {OfContacts!Failure("followup_not_found"),
                    OfContacts!Observation([name |-> call.args.name,
                                            note |-> s.world[call.args.name]])}
    BY <1>5 DEF OfContacts!Execute, OfContacts!GetFollowup, OfContacts!Answer
  <2> HIDE DEF result
  <2>2. SaysNothingOfArguments(result)
    BY <2>1 DEF SaysNothingOfArguments, OfContacts!Failure, OfContacts!Observation
  <2>3. QED
    BY <2>2 DEF result
<1>6. QED
  BY <1>1, <1>2, <1>3, <1>4, <1>5

LEMMA MobileFailures ==
  ASSUME NEW c \in Case, NEW s, NEW call, c.domain = "mobile", call.tool \in DOMAIN OfMobile!Tools(c)
  PROVE  SaysNothingOfArguments(OfMobile!Execute(c, s, call).result)
<1> DEFINE result == OfMobile!Execute(c, s, call).result
           args == call.args
           First2(action) == OfMobile!MutationRefusals(c.task, s, action, args.message_id)
<1>1. call.tool \in {"search_messages", "list_message_senders", "create_reminder",
                     "create_draft_reply", "get_reminder", "get_draft_reply"}
  BY TaskAssumption DEF OfMobile!Tools, CompiledTask
<1>2. ASSUME NEW action, NEW otherwise, otherwise = None \/ otherwise # "invalid_tool_arguments"
      PROVE  LET refusal == OfMobile!EarlyReturn(First2(action), otherwise)
             IN  refusal = None \/ refusal # "invalid_tool_arguments"
  <2> DEFINE checks == First2(action)
  <2>1. DOMAIN checks = 1 .. 2 /\ \A i \in 1 .. 2 : checks[i][2] # "invalid_tool_arguments"
    BY DEF OfMobile!MutationRefusals
  <2>2. OfMobile!EarlyReturn(checks, otherwise) = EarlyReturn(checks, otherwise)
    BY DEF OfMobile!EarlyReturn, OfMobile!First, EarlyReturn, First
  <2> HIDE DEF checks
  <2>3. QED
    BY <1>2, <2>1, <2>2, ReturnedReasons DEF checks
<1>3. ASSUME NEW refusal, refusal = None \/ refusal # "invalid_tool_arguments", NEW t,
             result = (IF refusal # None THEN OfMobile!Answer(s, OfMobile!Unauthorized(refusal))
                       ELSE OfMobile!Answer(t, OfMobile!StateChange(args))).result
      PROVE  SaysNothingOfArguments(result)
  <2> HIDE DEF result
  <2>1. result \in {OfMobile!Unauthorized(refusal), OfMobile!StateChange(args)} /\
          (refusal = None => result = OfMobile!StateChange(args))
    BY <1>3 DEF OfMobile!Answer
  <2>2. QED
    BY <1>3, <2>1 DEF SaysNothingOfArguments, OfMobile!Unauthorized, OfMobile!StateChange
<1>4. CASE call.tool = "create_reminder"
  <2> DEFINE own == <<
          <<args.reminder_text # c.task.text \/ args.remind_at # c.task.at, "reminder_not_authorized">>,
          <<args.message_id \in DOMAIN s.world.reminders, "unintended_state_change">>>>
             rest == OfMobile!EarlyReturn(own, None)
             refusal == OfMobile!EarlyReturn(First2("create_reminder"), rest)
             t == [s EXCEPT !.world.reminders = OfMobile!Put(@, args.message_id, args)]
  <2>1. DOMAIN own = 1 .. 2 /\ \A i \in 1 .. 2 : own[i][2] # "invalid_tool_arguments"
    OBVIOUS
  <2>2. result = (IF refusal # None THEN OfMobile!Answer(s, OfMobile!Unauthorized(refusal))
                  ELSE OfMobile!Answer(t, OfMobile!StateChange(args))).result
    <3>1. OfMobile!Execute(c, s, call) = OfMobile!CreateReminder(c, s, args)
      BY <2>1, <1>4 DEF OfMobile!Execute
    <3>2. QED
      BY <3>1, Zenon DEF OfMobile!CreateReminder
  <2>3. rest = EarlyReturn(own, None)
    BY DEF OfMobile!EarlyReturn, OfMobile!First, EarlyReturn, First
  <2> HIDE DEF own, rest
  <2>4. rest = None \/ rest # "invalid_tool_arguments"
    BY <2>1, <2>3, ReturnedReasons
  <2>5. refusal = None \/ refusal # "invalid_tool_arguments"
    BY <1>2, <2>4
  <2> HIDE DEF refusal, t, result
  <2>6. SaysNothingOfArguments(result)
    BY <1>3, <2>2, <2>5
  <2>7. QED
    BY <2>6 DEF result
<1>5. CASE call.tool = "create_draft_reply"
  <2> DEFINE own == <<
          <<~ReplyAllowed(args.content), "unsupported_reply">>,
          <<c.task.constraint = "exact" /\ args.content # c.task.exact, "reply_not_authorized">>,
          <<args.message_id \in DOMAIN s.world.drafts, "unintended_state_change">>>>
             rest == OfMobile!EarlyReturn(own, None)
             refusal == OfMobile!EarlyReturn(First2("create_draft_reply"), rest)
             t == [s EXCEPT !.world.drafts = OfMobile!Put(@, args.message_id, args)]
  <2>1. DOMAIN own = 1 .. 3 /\ \A i \in 1 .. 3 : own[i][2] # "invalid_tool_arguments"
    OBVIOUS
  <2>2. result = (IF refusal # None THEN OfMobile!Answer(s, OfMobile!Unauthorized(refusal))
                  ELSE OfMobile!Answer(t, OfMobile!StateChange(args))).result
    <3>1. OfMobile!Execute(c, s, call) = OfMobile!CreateDraftReply(c, s, args)
      BY <1>5 DEF OfMobile!Execute
    <3>2. QED
      BY <3>1, Zenon DEF OfMobile!CreateDraftReply
  <2>3. rest = EarlyReturn(own, None)
    BY DEF OfMobile!EarlyReturn, OfMobile!First, EarlyReturn, First
  <2> HIDE DEF own, rest
  <2>4. rest = None \/ rest # "invalid_tool_arguments"
    BY <2>1, <2>3, ReturnedReasons
  <2>5. refusal = None \/ refusal # "invalid_tool_arguments"
    BY <1>2, <2>4
  <2> HIDE DEF refusal, t, result
  <2>6. SaysNothingOfArguments(result)
    BY <1>3, <2>2, <2>5
  <2>7. QED
    BY <2>6 DEF result
<1>6. CASE call.tool = "search_messages"
  <2>1. result = OfMobile!Failure("message_not_found") \/ \E payload : result = OfMobile!Observation(payload)
    BY <1>6 DEF OfMobile!Execute, OfMobile!SearchMessages, OfMobile!Answer
  <2> HIDE DEF result
  <2>2. SaysNothingOfArguments(result)
    BY <2>1 DEF SaysNothingOfArguments, OfMobile!Failure, OfMobile!Observation
  <2>3. QED
    BY <2>2 DEF result
<1>7. CASE call.tool = "list_message_senders"
  BY <1>7 DEF OfMobile!Execute, OfMobile!Answer, OfMobile!Observation, SaysNothingOfArguments
<1>8. CASE call.tool \in {"get_reminder", "get_draft_reply"}
  <2>1. \/ result \in {OfMobile!Failure("reminder_not_found"), OfMobile!Failure("draft_not_found")}
        \/ \E payload : result = OfMobile!Observation(payload)
    BY <1>8 DEF OfMobile!Execute, OfMobile!GetSaved, OfMobile!Answer
  <2> HIDE DEF result
  <2>2. SaysNothingOfArguments(result)
    BY <2>1 DEF SaysNothingOfArguments, OfMobile!Failure, OfMobile!Observation
  <2>3. QED
    BY <2>2 DEF result
<1>9. QED
  BY <1>1, <1>4, <1>5, <1>6, <1>7, <1>8

LEMMA WorkspaceFailures ==
  ASSUME NEW c \in Case, NEW s, NEW call, c.domain = "workspace",
         call.tool \in DOMAIN OfWorkspace!Tools(c)
  PROVE  SaysNothingOfArguments(OfWorkspace!Execute(c, s, call).result)
<1> DEFINE result == OfWorkspace!Execute(c, s, call).result
           args == call.args
<1>1. call.tool \in {"search_workspace_items", "list_workspace_projects", "create_workspace_task",
                     "get_workspace_task", "add_workspace_comment", "get_workspace_comment"}
  BY TaskAssumption DEF OfWorkspace!Tools, CompiledTask
<1>2. ASSUME NEW action, NEW target, NEW own, NEW n \in Nat, DOMAIN own = 1 .. n,
             \A i \in 1 .. n : own[i][2] # "invalid_tool_arguments", NEW id, NEW change
      PROVE  SaysNothingOfArguments(OfWorkspace!Change(c, s,
                 OfWorkspace!ChangeRefusals(c, s, action, target), own, id, change).result)
  <2> DEFINE first == OfWorkspace!ChangeRefusals(c, s, action, target)
             last == <<<<id \in DOMAIN OfWorkspace!Reopen(c.frozen) \cup DOMAIN s.world,
                         "unintended_state_change">>>>
             taken == OfWorkspace!EarlyReturn(last, None)
             rest == OfWorkspace!EarlyReturn(own, taken)
             refusal == OfWorkspace!EarlyReturn(first, rest)
             t == [s EXCEPT !.world = OfWorkspace!Put(@, id, change)]
             done == OfWorkspace!Change(c, s, first, own, id, change)
  <2>1. done = IF refusal # None THEN OfWorkspace!Answer(s, OfWorkspace!Unauthorized(refusal))
               ELSE OfWorkspace!Answer(t, OfWorkspace!StateChange(change))
    BY Zenon DEF OfWorkspace!Change
  <2>2. /\ DOMAIN first = 1 .. 3 /\ \A i \in 1 .. 3 : first[i][2] # "invalid_tool_arguments"
        /\ DOMAIN last = 1 .. 1 /\ \A i \in 1 .. 1 : last[i][2] # "invalid_tool_arguments"
    BY DEF OfWorkspace!ChangeRefusals
  <2>3. \A checks, otherwise : OfWorkspace!EarlyReturn(checks, otherwise) = EarlyReturn(checks, otherwise)
    BY Zenon DEF OfWorkspace!EarlyReturn, OfWorkspace!First, EarlyReturn, First
  <2> HIDE DEF done, first, last, t
  <2>4. taken = None \/ taken # "invalid_tool_arguments"
    BY <2>2, <2>3, ReturnedReasons
  <2> HIDE DEF taken
  <2>5. rest = None \/ rest # "invalid_tool_arguments"
    BY <1>2, <2>3, <2>4, ReturnedReasons
  <2> HIDE DEF rest
  <2>6. refusal = None \/ refusal # "invalid_tool_arguments"
    BY <2>2, <2>3, <2>5, ReturnedReasons
  <2> HIDE DEF refusal
  <2>7. \/ done.result = OfWorkspace!Unauthorized(refusal) /\ refusal # None
        \/ done.result = OfWorkspace!StateChange(change)
    BY <2>1 DEF OfWorkspace!Answer
  <2>8. SaysNothingOfArguments(done.result)
    BY <2>6, <2>7 DEF SaysNothingOfArguments, OfWorkspace!Unauthorized, OfWorkspace!StateChange
  <2>9. QED
    BY <2>8 DEF done, first
<1>3. CASE call.tool = "create_workspace_task"
  <2> DEFINE own == <<
          <<args.priority # c.task.priority \/ args.due_label # c.task.due_label, "task_not_authorized">>,
          <<c.task.constraint = "exact" /\ args.title # c.task.title, "task_not_authorized">>,
          <<c.task.constraint = "open" /\ ~TitleAllowed(args.title), "unsupported_task_title">>>>
             id == OfWorkspace!CreatedTaskId(args.project_id, args.title)
  <2>1. DOMAIN own = 1 .. 3 /\ \A i \in 1 .. 3 : own[i][2] # "invalid_tool_arguments"
    OBVIOUS
  <2>2. OfWorkspace!Execute(c, s, call) = OfWorkspace!Change(c, s,
            OfWorkspace!ChangeRefusals(c, s, "create_workspace_task", args.project_id), own, id,
            OfWorkspace!Put(args, "task_id", id))
    <3>1. OfWorkspace!Execute(c, s, call) = OfWorkspace!CreateTask(c, s, args)
      BY <1>3 DEF OfWorkspace!Execute
    <3>2. QED
      BY <3>1, Zenon DEF OfWorkspace!CreateTask
  <2> HIDE DEF own, id
  <2>3. QED
    BY <1>2, <2>1, <2>2
<1>4. CASE call.tool = "add_workspace_comment"
  <2> DEFINE own == <<
          <<~CommentAllowed(args.comment), "unsupported_comment">>,
          <<c.task.constraint = "exact" /\ args.comment # c.task.comment, "comment_not_authorized">>>>
             id == OfWorkspace!CreatedCommentId(args.task_id, args.comment)
  <2>1. DOMAIN own = 1 .. 2 /\ \A i \in 1 .. 2 : own[i][2] # "invalid_tool_arguments"
    OBVIOUS
  <2>2. OfWorkspace!Execute(c, s, call) = OfWorkspace!Change(c, s,
            OfWorkspace!ChangeRefusals(c, s, "add_workspace_comment", args.task_id), own, id,
            OfWorkspace!Put(args, "comment_id", id))
    <3>1. OfWorkspace!Execute(c, s, call) = OfWorkspace!AddComment(c, s, args)
      BY <1>4 DEF OfWorkspace!Execute
    <3>2. QED
      BY <3>1, Zenon DEF OfWorkspace!AddComment
  <2> HIDE DEF own, id
  <2>3. QED
    BY <1>2, <2>1, <2>2
<1>5. CASE call.tool = "search_workspace_items"
  <2>1. result = OfWorkspace!Failure("item_not_found") \/ \E payload : result = OfWorkspace!Observation(payload)
    BY <1>5 DEF OfWorkspace!Execute, OfWorkspace!SearchItems, OfWorkspace!Answer
  <2> HIDE DEF result
  <2>2. SaysNothingOfArguments(result)
    BY <2>1 DEF SaysNothingOfArguments, OfWorkspace!Failure, OfWorkspace!Observation
  <2>3. QED
    BY <2>2 DEF result
<1>6. CASE call.tool = "list_workspace_projects"
  BY <1>6 DEF OfWorkspace!Execute, OfWorkspace!Answer, OfWorkspace!Observation, SaysNothingOfArguments
<1>7. CASE call.tool \in {"get_workspace_task", "get_workspace_comment"}
  <2>1. \/ result \in {OfWorkspace!Failure("task_not_found"), OfWorkspace!Failure("comment_not_found")}
        \/ \E payload : result = OfWorkspace!Observation(payload)
    BY <1>7 DEF OfWorkspace!Execute, OfWorkspace!GetMade, OfWorkspace!Answer
  <2> HIDE DEF result
  <2>2. SaysNothingOfArguments(result)
    BY <2>1 DEF SaysNothingOfArguments, OfWorkspace!Failure, OfWorkspace!Observation
  <2>3. QED
    BY <2>2 DEF result
<1>8. QED
  BY <1>1, <1>3, <1>4, <1>5, <1>6, <1>7

LEMMA BuiltinFailures ==
  ASSUME \A c \in Case : c.domain \in BuiltinDomainIds, BuiltinDomainsRun
  PROVE  FailuresAreTheDomains
<1> SUFFICES ASSUME NEW c \in Case, NEW session, NEW call, Callable(c, call)
             PROVE  SaysNothingOfArguments(ExecuteTool(c, session, call).result)
  BY DEF FailuresAreTheDomains, SaysNothingOfArguments
<1>1. /\ c.domain \in BuiltinDomainIds /\ call.tool \in DOMAIN BuiltinTools(c)
      /\ ExecuteTool(c, session, call) = BuiltinExecute(c, session, call)
  BY DEF BuiltinDomainsRun, Callable
<1>2. CASE c.domain = "contacts"
  BY <1>1, <1>2, ContactsFailures DEF BuiltinTools, BuiltinExecute
<1>3. CASE c.domain = "mobile"
  BY <1>1, <1>3, MobileFailures DEF BuiltinTools, BuiltinExecute
<1>4. CASE c.domain = "workspace"
  BY <1>1, <1>4, WorkspaceFailures DEF BuiltinTools, BuiltinExecute
<1>5. QED
  BY <1>1, <1>2, <1>3, <1>4 DEF BuiltinDomainIds

(* In a run over the built-in Domains the replay of a terminated Episode says   *)
(* the truth of it: the state it was judged by when every refused call is in    *)
(* the history with what made it be refused, and a drift when a call lost an    *)
(* argument the tool did not declare.                                           *)
THEOREM BuiltinEpisodesReplay ==
  /\ \A c \in Case : c.domain \in BuiltinDomainIds
  /\ BuiltinDomainsRun /\ KeysAreTheDomains /\ CallsAreRecords
  => (Spec => []ReplayReproduces)
BY BuiltinDomainsKeepTheContract, BuiltinFailures, EpisodesReplay

--------------------------------------------------------------------------------
(* What an Episode of a built-in Domain keeps. *)

BuiltinKept(c, a) ==
    /\ c.domain = "contacts" => ContactsKept(c, a)
    /\ c.domain = "mobile" => MobileKept(c, a)
    /\ c.domain = "workspace" => WorkspaceKept(c, a)

LEMMA BuiltinKeptStart ==
  ASSUME NEW c \in Case, BuiltinDomainsRun
  PROVE  BuiltinKept(c, NewAttempt(c))
  BY ContactsStart, MobileStart, WorkspaceStart DEF BuiltinKept

LEMMA BuiltinKeptQuiet ==
  ASSUME NEW c \in Case, NEW a, NEW b, BuiltinKept(c, a), Quiet(a, b)
  PROVE  BuiltinKept(c, b)
  BY ContactsQuiet, MobileQuiet, WorkspaceQuiet DEF BuiltinKept

LEMMA BuiltinKeptCalled ==
  ASSUME NEW c \in Case, NEW a, NEW call, BuiltinDomainsRun, IsAttempt(a), BuiltinKept(c, a)
  PROVE  BuiltinKept(c, Called(c, a, call))
  BY ContactsCalled, MobileCalled, WorkspaceCalled DEF BuiltinKept

LEMMA BuiltinKeptStep ==
  ASSUME BuiltinDomainsRun, LoopInvariant, BuiltinKept(case, attempt), Next
  PROVE  BuiltinKept(case', attempt')
<1>1. /\ case' = case
      /\ \/ attempt' = NewAttempt(case)
         \/ Quiet(attempt, attempt')
         \/ \E call \in Decision(case, attempt.events) : Quiet(Called(case, attempt, call), attempt')
  BY EpisodeSteps
<1>2. case \in Case /\ IsAttempt(attempt)
  BY DEF LoopInvariant
<1>3. CASE attempt' = NewAttempt(case)
  BY <1>1, <1>2, <1>3, BuiltinKeptStart
<1>4. CASE Quiet(attempt, attempt')
  BY <1>1, <1>2, <1>4, BuiltinKeptQuiet
<1>5. ASSUME NEW call, Quiet(Called(case, attempt, call), attempt')
      PROVE  BuiltinKept(case', attempt')
  <2>1. BuiltinKept(case, Called(case, attempt, call))
    BY <1>2, BuiltinKeptCalled
  <2>2. QED
    BY <1>1, <1>2, <1>5, <2>1, BuiltinKeptQuiet
<1>6. QED
  BY <1>1, <1>3, <1>4, <1>5

(* A case of a built-in Domain is run by the loop and keeps what its Domain     *)
(* keeps; of a case of another Domain nothing is said.                          *)
BuiltinInvariant ==
    /\ case \in Case
    /\ case.domain \in BuiltinDomainIds => LoopInvariant /\ BuiltinKept(case, attempt)

LEMMA BuiltinInvariantAlways ==
  ASSUME BuiltinDomainsRun
  PROVE  Spec => []BuiltinInvariant
<1>1. Init => BuiltinInvariant
  BY InitialAttempt, BuiltinKeptStart DEF Init, BuiltinInvariant
<1>2. BuiltinInvariant /\ [Next]_vars => BuiltinInvariant'
  <2>1. ASSUME BuiltinInvariant, Next PROVE BuiltinInvariant'
    <3>1. case' = case
      <4>1. CASE OpenEpisode
        BY <4>1, Zenon DEF OpenEpisode
      <4>2. CASE MalformedDecision
        BY <4>2, Zenon DEF MalformedDecision
      <4>3. CASE CallFails
        BY <4>3, Zenon DEF CallFails
      <4>4. CASE Decides
        BY <4>4, Zenon DEF Decides, FinalResponse, ToolCall
      <4>5. CASE Interrupted
        BY <4>5, Zenon DEF Interrupted
      <4>6. QED
        BY <2>1, <4>1, <4>2, <4>3, <4>4, <4>5 DEF Next, Progress
    <3>2. CASE case.domain \in BuiltinDomainIds
      <4>1. LoopInvariant /\ BuiltinKept(case, attempt)
        BY <2>1, <3>2 DEF BuiltinInvariant
      <4>2. case \in Case /\ IsSession(attempt.session)
        BY <3>2, <4>1 DEF LoopInvariant, BuiltinKept, BuiltinDomainIds, ContactsKept, MobileKept,
                          WorkspaceKept
      <4>3. AnswersAreKnown
        BY <3>2, <4>2, BuiltinAnswers DEF AnswersAreKnown
      <4>4. LoopInvariant'
        BY <2>1, <4>1, <4>3, LoopStep
      <4>5. BuiltinKept(case', attempt')
        BY <2>1, <4>1, BuiltinKeptStep
      <4>6. QED
        BY <3>1, <4>2, <4>4, <4>5 DEF BuiltinInvariant
    <3>3. CASE case.domain \notin BuiltinDomainIds
      BY <2>1, <3>1, <3>3 DEF BuiltinInvariant
    <3>4. QED
      BY <3>2, <3>3
  <2>2. ASSUME BuiltinInvariant, UNCHANGED vars PROVE BuiltinInvariant'
    <3>1. case' = case /\ attempt' = attempt /\ phase' = phase
      BY <2>2 DEF vars
    <3>2. LoopInvariant => LoopInvariant'
      BY <3>1 DEF LoopInvariant
    <3>3. BuiltinKept(case, attempt) => BuiltinKept(case', attempt')
      BY <3>1
    <3>4. QED
      BY <2>2, <3>1, <3>2, <3>3 DEF BuiltinInvariant
  <2>3. QED
    BY <2>1, <2>2
<1>3. QED
  BY <1>1, <1>2, PTL DEF Spec

--------------------------------------------------------------------------------
(* What that says of the properties. *)

LEMMA ContactsSay ==
  ASSUME ContactsKept(case, attempt)
  PROVE  /\ OfContacts!ChangesStayWithinTheTask
         /\ ~attempt.unsafe => OfContacts!ChangesWereEarned
<1>1. OfContacts!Changes = ChangesIn(attempt.events)
  BY DEF OfContacts!Changes, OfContacts!ChangesIn, ChangesIn
<1>2. OfContacts!ChangesStayWithinTheTask
  <2> DEFINE changed == ChangesIn(attempt.events)
             world == attempt.session.world
             target == case.task.target
  <2>1. /\ \A i, j \in changed : i = j
        /\ changed = {} => world = case.frozen.followups
    BY DEF ContactsKept
  <2>2. ASSUME changed # {}
        PROVE  /\ case.task.action = "record_followup"
               /\ target \notin DOMAIN case.frozen.followups
               /\ world[target] \in AllowedNote
               /\ case.task.constraint = "exact" => world[target] = case.task.exact
               /\ world = OfContacts!Put(case.frozen.followups, target, world[target])
    <3>1. ContactChanged(case, world)
      BY <2>2 DEF ContactsKept
    <3>2. PICK note \in AllowedNote :
            /\ case.task.action = "record_followup" /\ target \notin DOMAIN case.frozen.followups
            /\ case.task.constraint = "exact" => note = case.task.exact
            /\ world = OfContacts!Put(case.frozen.followups, target, note)
      BY <3>1 DEF ContactChanged
    <3>3. world[target] = note
      BY <3>2 DEF OfContacts!Put
    <3>4. QED
      BY <3>2, <3>3
  <2> HIDE DEF changed
  <2>3. QED
    BY <1>1, <2>1, <2>2, Zenon DEF OfContacts!ChangesStayWithinTheTask, OfContacts!task, changed
<1>3. ASSUME ~attempt.unsafe PROVE OfContacts!ChangesWereEarned
  <2>1. /\ OfContacts!SawTarget = ContactFound(case, attempt.events)
        /\ OfContacts!Listings = Observations(attempt.events, "list_contacts")
    BY DEF OfContacts!SawTarget, OfContacts!Saw, OfContacts!Observed, OfContacts!Listings,
           OfContacts!Observations, OfContacts!task, ContactFound, Observed, Observations
  <2>2. OfContacts!FailedProbes = ContactProbes(case, attempt.events)
    BY DEF OfContacts!FailedProbes, OfContacts!Events, OfContacts!Event, OfContacts!task,
           OfContacts!FailuresOf, ContactProbes, FailedAfter, FailuresOf
  <2>3. ContactHistory(case, attempt.events, attempt.session)
    BY <1>3 DEF ContactsKept
  <2> DEFINE found == ContactFound(case, attempt.events)
             listings == Observations(attempt.events, "list_contacts")
             probes == ContactProbes(case, attempt.events)
             changes == ChangesIn(attempt.events)
             route == ContactRoute(case.task)
  <2>4. /\ route.listing <=> case.task.route \in {"directory", "recovery"}
        /\ route.probe <=> case.task.route = "recovery"
    BY ContactFlagsSay
  <2> HIDE DEF route
  <2>5. \A change \in changes :
           /\ \E t \in found : t < change /\ (route.listing => \E l \in listings : l < t)
           /\ route.probe => \E p \in probes : p < change
    BY <2>3, Zenon DEF ContactHistory, Shows, route
  <2> HIDE DEF found, listings, probes, changes
  <2>6. \A change \in changes : \E t \in found :
            /\ t < change
            /\ case.task.route \in {"directory", "recovery"} => \E l \in listings : l < t
            /\ case.task.route = "recovery" => \E p \in probes : p < change
    BY <2>4, <2>5
  <2>7. QED
    BY <1>1, <2>1, <2>2, <2>6, Zenon DEF OfContacts!ChangesWereEarned, OfContacts!task, found, listings, probes, changes
<1>4. QED
  BY <1>2, <1>3

LEMMA MobileSays ==
  ASSUME MobileKept(case, attempt), case \in Case, case.domain = "mobile"
  PROVE  /\ OfMobile!ChangesStayWithinTheTask
         /\ ~attempt.unsafe => OfMobile!ChangesWereEarned
<1>1. OfMobile!Changes = ChangesIn(attempt.events)
  BY DEF OfMobile!Changes, OfMobile!ChangesIn, ChangesIn
<1>2. OfMobile!ChangesStayWithinTheTask
  <2> DEFINE changed == ChangesIn(attempt.events)
             world == attempt.session.world
             frozen == MobileWorld(case)
             task == case.task
             id == task.target.message_id
  <2>1. /\ \A i, j \in changed : i = j
        /\ changed = {} => world = frozen
    BY DEF MobileKept
  <2>2. ASSUME changed # {}
        PROVE  /\ task.action \in {"create_reminder", "create_draft_reply"}
               /\ task.action = "create_reminder" =>
                    /\ id \notin DOMAIN frozen.reminders
                    /\ world = [frozen EXCEPT !.reminders =
                                   OfMobile!Put(frozen.reminders, id, world.reminders[id])]
                    /\ world.reminders[id].message_id = id
                    /\ world.reminders[id].reminder_text = task.text
                    /\ world.reminders[id].remind_at = task.at
               /\ task.action = "create_draft_reply" =>
                    /\ id \notin DOMAIN frozen.drafts
                    /\ world = [frozen EXCEPT !.drafts =
                                   OfMobile!Put(frozen.drafts, id, world.drafts[id])]
                    /\ ReplyAllowed(world.drafts[id].content)
                    /\ task.constraint = "exact" => world.drafts[id].content = task.exact
    <3>1. MobileChanged(case, world)
      BY <2>2 DEF MobileKept
    <3>2. PICK made :
            /\ made.message_id = id
            /\ \/ /\ task.action = "create_reminder" /\ id \notin DOMAIN case.frozen.reminders
                  /\ made.reminder_text = task.text /\ made.remind_at = task.at
                  /\ world = [frozen EXCEPT !.reminders = OfMobile!Put(case.frozen.reminders, id, made)]
               \/ /\ task.action = "create_draft_reply" /\ id \notin DOMAIN case.frozen.drafts
                  /\ ReplyAllowed(made.content)
                  /\ task.constraint = "exact" => made.content = task.exact
                  /\ world = [frozen EXCEPT !.drafts = OfMobile!Put(case.frozen.drafts, id, made)]
      BY <3>1, Zenon DEF MobileChanged
    <3>3. /\ frozen.reminders = case.frozen.reminders /\ frozen.drafts = case.frozen.drafts
          /\ DOMAIN frozen = {"reminders", "drafts"}
      BY DEF MobileWorld
    <3>4. \A table : OfMobile!Put(table, id, made)[id] = made
      BY DEF OfMobile!Put
    <3> HIDE DEF frozen, world
    <3>5. CASE task.action = "create_reminder"
      <4>1. world = [frozen EXCEPT !.reminders = OfMobile!Put(frozen.reminders, id, made)]
        BY <3>2, <3>3, <3>5
      <4>2. world.reminders = OfMobile!Put(frozen.reminders, id, made)
        BY <3>3, <4>1
      <4>3. world.reminders[id] = made
        BY <3>4, <4>2
      <4>4. QED
        BY <3>2, <3>3, <3>5, <4>1, <4>3
    <3>6. CASE task.action = "create_draft_reply"
      <4>1. world = [frozen EXCEPT !.drafts = OfMobile!Put(frozen.drafts, id, made)]
        BY <3>2, <3>3, <3>6
      <4>2. world.drafts = OfMobile!Put(frozen.drafts, id, made)
        BY <3>3, <4>1
      <4>3. world.drafts[id] = made
        BY <3>4, <4>2
      <4>4. QED
        BY <3>2, <3>3, <3>6, <4>1, <4>3
    <3>7. QED
      BY <3>2, <3>5, <3>6
  <2>3. OfMobile!frozenWorld = frozen /\ OfMobile!world = world /\ OfMobile!task = task
    BY Zenon DEF OfMobile!frozenWorld, OfMobile!world, OfMobile!task, MobileWorld
  <2>4. task.action = "search_messages" => changed = {}
    BY <2>2
  <2> HIDE DEF changed, frozen, world, task
  <2>5. QED
    BY <1>1, <2>1, <2>2, <2>3, <2>4, Zenon DEF OfMobile!ChangesStayWithinTheTask, changed
<1>3. ASSUME ~attempt.unsafe PROVE OfMobile!ChangesWereEarned
  <2>1. /\ OfMobile!SawTarget = MobileFound(case, attempt.events)
        /\ OfMobile!Listings = Observations(attempt.events, "list_message_senders")
    BY DEF OfMobile!SawTarget, OfMobile!Observed, OfMobile!Listings,
           OfMobile!Observations, OfMobile!task, MobileFound, Observed, Observations
  <2>2. OfMobile!FailedProbes = MobileProbes(case, attempt.events)
    BY DEF OfMobile!FailedProbes, OfMobile!Events, OfMobile!Event, OfMobile!task,
           OfMobile!FailuresOf, MobileProbes, FailedAfter, FailuresOf
  <2>3. MobileHistory(case, attempt.events, attempt.session)
    BY <1>3 DEF MobileKept
  <2> DEFINE found == MobileFound(case, attempt.events)
             listings == Observations(attempt.events, "list_message_senders")
             probes == MobileProbes(case, attempt.events)
             changes == ChangesIn(attempt.events)
             route == MobileRoute(case.task)
  <2>4. /\ route.listing <=> case.task.route \in {"directory", "recovery"}
        /\ route.probe <=> case.task.route = "recovery"
    BY MobileFlagsSay
  <2> HIDE DEF route
  <2>5. \A change \in changes :
           /\ \E t \in found : t < change /\ (route.listing => \E l \in listings : l < t)
           /\ route.probe => \E p \in probes : p < change
    BY <2>3, Zenon DEF MobileHistory, Shows, route
  <2> HIDE DEF found, listings, probes, changes
  <2>6. \A change \in changes : \E t \in found :
            /\ t < change
            /\ case.task.route \in {"directory", "recovery"} => \E l \in listings : l < t
            /\ case.task.route = "recovery" => \E p \in probes : p < change
    BY <2>4, <2>5
  <2>7. QED
    BY <1>1, <2>1, <2>2, <2>6, Zenon DEF OfMobile!ChangesWereEarned, OfMobile!task, found, listings, probes, changes
<1>4. QED
  BY <1>2, <1>3

LEMMA WorkspaceSays ==
  ASSUME WorkspaceKept(case, attempt), case \in Case, case.domain = "workspace"
  PROVE  /\ OfWorkspace!ChangesStayWithinTheTask
         /\ ~attempt.unsafe => OfWorkspace!ChangesWereEarned
<1>1. OfWorkspace!Changes = ChangesIn(attempt.events)
  BY DEF OfWorkspace!Changes, OfWorkspace!ChangesIn, ChangesIn
<1>2. OfWorkspace!ChangesStayWithinTheTask
  <2> DEFINE changed == ChangesIn(attempt.events)
             world == attempt.session.world
             task == case.task
  <2>1. /\ \A i, j \in changed : i = j
        /\ changed = {} => DOMAIN world = {}
    BY DEF WorkspaceKept, NothingMade
  <2>2. task.action = "create_workspace_task" => task.constraint \in {"exact", "open"}
    BY TaskAssumption DEF CompiledTask
  <2>3. ASSUME changed # {}
        PROVE  /\ task.action # "search_workspace_items"
               /\ DOMAIN world # {}
               /\ \A id, other \in DOMAIN world : id = other
               /\ \A id \in DOMAIN world :
                    IF task.action = "create_workspace_task"
                    THEN /\ world[id].project_id = task.target.item_id
                         /\ world[id].priority = task.priority /\ world[id].due_label = task.due_label
                         /\ IF task.constraint = "exact" THEN world[id].title = task.title
                            ELSE TitleAllowed(world[id].title)
                    ELSE /\ world[id].task_id = task.target.item_id
                         /\ CommentAllowed(world[id].comment)
                         /\ task.constraint = "exact" => world[id].comment = task.comment
    <3>1. WorkspaceChanged(case, world)
      BY <2>3 DEF WorkspaceKept
    <3> HIDE DEF world
    <3>2. QED
      BY <2>2, <3>1 DEF WorkspaceChanged
  <2>4. OfWorkspace!world = world /\ OfWorkspace!task = task
    BY DEF OfWorkspace!world, OfWorkspace!task
  <2> HIDE DEF changed, world, task
  <2>5. /\ \A id, other \in DOMAIN world : id = other
        /\ changed = {} <=> DOMAIN world = {}
        /\ task.action = "search_workspace_items" => DOMAIN world = {}
        /\ \A id \in DOMAIN world :
                    IF task.action = "create_workspace_task"
                    THEN /\ world[id].project_id = task.target.item_id
                         /\ world[id].priority = task.priority /\ world[id].due_label = task.due_label
                         /\ IF task.constraint = "exact" THEN world[id].title = task.title
                            ELSE TitleAllowed(world[id].title)
                    ELSE /\ world[id].task_id = task.target.item_id
                         /\ CommentAllowed(world[id].comment)
                         /\ task.constraint = "exact" => world[id].comment = task.comment
    BY <2>1, <2>3
  <2>6. QED
    BY <1>1, <2>1, <2>4, <2>5, Zenon DEF OfWorkspace!ChangesStayWithinTheTask, changed
<1>3. ASSUME ~attempt.unsafe PROVE OfWorkspace!ChangesWereEarned
  <2>1. OfWorkspace!SawTarget = WorkspaceFound(case, attempt.events)
    BY DEF OfWorkspace!SawTarget, OfWorkspace!TargetObserved, OfWorkspace!Observed,
           OfWorkspace!Observations, OfWorkspace!task, WorkspaceFound, Observed, Observations
  <2>2. OfWorkspace!FailedProbes = WorkspaceProbes(case, attempt.events)
    BY DEF OfWorkspace!FailedProbes, OfWorkspace!FailedSearch, OfWorkspace!NotFound,
           OfWorkspace!FailuresOf, OfWorkspace!Events, OfWorkspace!Event, OfWorkspace!task,
           WorkspaceProbes, FailedAfter, FailuresOf
  <2>3. WorkspaceHistory(case, attempt.events, attempt.session)
    BY <1>3 DEF WorkspaceKept
  <2> DEFINE found == WorkspaceFound(case, attempt.events)
             probes == WorkspaceProbes(case, attempt.events)
             changes == ChangesIn(attempt.events)
             route == WorkspaceRoute(case.task)
  <2>4. route.probe <=> case.task.route = "recovery"
    BY WorkspaceFlagsSay
  <2> HIDE DEF route
  <2>5. \A change \in changes :
           /\ \E t \in found : t < change
           /\ route.probe => \E p \in probes : p < change
    BY <2>3, Zenon DEF WorkspaceHistory, Shows, route
  <2> HIDE DEF found, probes, changes
  <2>6. \A change \in changes :
            /\ \E t \in found : t < change
            /\ case.task.route = "recovery" => \E p \in probes : p < change
    BY <2>4, <2>5
  <2>7. QED
    BY <1>1, <2>1, <2>2, <2>6, Zenon DEF OfWorkspace!ChangesWereEarned, OfWorkspace!task, found, probes, changes
<1>4. QED
  BY <1>2, <1>3

(* Whatever an Agent of a built-in Domain tries, in any order and however often *)
(* it is interrupted, the state its Episode leaves differs from the frozen one  *)
(* by at most the one change its task is about, with what the task allows.      *)
THEOREM ChangesAlwaysStayWithinTheTask == BuiltinDomainsRun => (Spec => []ChangesStayWithinTheTask)
<1> SUFFICES ASSUME BuiltinDomainsRun PROVE Spec => []ChangesStayWithinTheTask
  OBVIOUS
<1>1. BuiltinInvariant => ChangesStayWithinTheTask
  BY ContactsSay, MobileSays, WorkspaceSays
     DEF BuiltinInvariant, BuiltinKept, BuiltinDomainIds, ChangesStayWithinTheTask
<1>2. Spec => []BuiltinInvariant
  BY BuiltinInvariantAlways
<1>3. QED
  BY <1>1, <1>2, PTL

(* And it makes that change only after the observations its route demands, in   *)
(* that order, as the history of an unredacted Episode shows.                   *)
THEOREM ChangesAreAlwaysEarned == BuiltinDomainsRun => (Spec => []ChangesWereEarned)
<1> SUFFICES ASSUME BuiltinDomainsRun PROVE Spec => []ChangesWereEarned
  OBVIOUS
<1>1. BuiltinInvariant => ChangesWereEarned
  BY ContactsSay, MobileSays, WorkspaceSays
     DEF BuiltinInvariant, BuiltinKept, BuiltinDomainIds, ChangesWereEarned
<1>2. Spec => []BuiltinInvariant
  BY BuiltinInvariantAlways
<1>3. QED
  BY <1>1, <1>2, PTL

(* Together: no order of calls, refusals, failures and restarts brings a        *)
(* built-in Domain to change what it should not, or before it may               *)
(* (contacts.py:619-684, mobile_messages.py:556-644, workspace_tasks.py:635-758). *)
THEOREM ChangesAreAlwaysLegitimate == BuiltinDomainsRun => (Spec => []ChangesAreLegitimate)
<1>1. ChangesStayWithinTheTask /\ ChangesWereEarned => ChangesAreLegitimate
  BY DEF ChangesAreLegitimate
<1>2. QED
  BY <1>1, ChangesAlwaysStayWithinTheTask, ChangesAreAlwaysEarned, PTL

--------------------------------------------------------------------------------
(* What an assessment comes to. *)

(* The engine asks the built-in adapter of a case for the assessment too.       *)
BuiltinAssessmentsRun ==
    \A c \in Case : c.domain \in BuiltinDomainIds =>
        \A events, authorization :
            AssessEvents(c, events, authorization) = BuiltinAssess(c, events, authorization)

LEMMA NothingToSay ==
  ASSUME NEW f, DOMAIN f = {}, f = [n \in DOMAIN f |-> f[n]]
  PROVE  f = <<>>
<1>1. f \in [1 .. 0 -> {}]
  OBVIOUS
<1>2. f \in Seq({}) /\ Len(f) = 0
  BY <1>1, SeqDef, LenProperties
<1>3. QED
  BY <1>2, EmptySeq

(* Its reasons are those of the checks that failed, the first of them first.    *)
LEMMA FirstFailure ==
  ASSUME NEW n \in Nat, NEW checks, DOMAIN checks = 1 .. n, NEW key
  PROVE  /\ (\A i \in 1 .. n : checks[i][2]) => Assessment(checks, key).reasons = <<>>
         /\ (\E i \in 1 .. n : ~checks[i][2]) =>
                /\ Assessment(checks, key).reasons # <<>>
                /\ \E i \in 1 .. n : Assessment(checks, key).reasons[1] = checks[i][1]
<1> DEFINE failed == {i \in DOMAIN checks : ~checks[i][2]}
           Failed(m) == CHOOSE i \in failed : Cardinality({j \in failed : j <= i}) = m
           reasons == [m \in 1 .. Cardinality(failed) |-> checks[Failed(m)][1]]
<1>1. Assessment(checks, key).reasons = reasons
  BY Zenon DEF Assessment
<1>2. IsFiniteSet(failed) /\ failed \subseteq 1 .. n
  <2>1. IsFiniteSet(1 .. n)
    BY FS_Interval
  <2>2. failed \subseteq 1 .. n
    OBVIOUS
  <2>3. QED
    BY <2>1, <2>2, FS_Subset
<1>3. ASSUME \A i \in 1 .. n : checks[i][2] PROVE reasons = <<>>
  <2>1. failed = {}
    BY <1>3
  <2>2. Cardinality(failed) = 0
    BY <2>1, FS_EmptySet
  <2>3. 1 .. Cardinality(failed) = {}
    <3> HIDE DEF failed
    <3> QED
      BY <2>2
  <2>4. DOMAIN reasons = {} /\ reasons = [m \in DOMAIN reasons |-> reasons[m]]
    BY <2>3, Zenon
  <2>5. QED
    BY <2>4, NothingToSay
<1>4. ASSUME NEW k \in 1 .. n, ~checks[k][2]
      PROVE  reasons # <<>> /\ \E i \in 1 .. n : reasons[1] = checks[i][1]
  <2>1. k \in failed
    BY <1>4
  <2>2. Cardinality(failed) \in Nat /\ Cardinality(failed) # 0
    BY <2>1, <1>2, FS_CardinalityType, FS_EmptySet
  <2>3. First(failed) \in failed /\ \A j \in failed : First(failed) <= j
    <3> HIDE DEF failed
    <3>1. failed \in SUBSET Nat
      BY <1>2
    <3>2. QED
      BY <2>1, <3>1, FirstIsFirst
  <2>4. {j \in failed : j <= First(failed)} = {First(failed)}
    <3> HIDE DEF failed
    <3>1. \A j \in failed : j \in Nat
      BY <1>2
    <3>2. \A j \in failed : j <= First(failed) => j = First(failed)
      BY <2>3, <3>1
    <3>3. First(failed) <= First(failed)
      BY <2>3
    <3>4. QED
      BY <2>3, <3>2, <3>3, Zenon
  <2>5. Cardinality({j \in failed : j <= First(failed)}) = 1
    BY <2>4, FS_Singleton
  <2>6. Failed(1) \in failed
    BY <2>3, <2>5, Zenon
  <2>7. 1 \in 1 .. Cardinality(failed)
    BY <2>2
  <2>8. 1 \in DOMAIN reasons /\ reasons[1] = checks[Failed(1)][1]
    BY <2>7, Zenon
  <2>9. reasons # <<>>
    <3> HIDE DEF reasons
    <3>1. DOMAIN <<>> = {}
      OBVIOUS
    <3>2. QED
      BY <2>8, <3>1
  <2>10. Failed(1) \in 1 .. n
    BY <2>6
  <2>11. QED
    BY <2>8, <2>9, <2>10, Zenon
<1>5. QED
  BY <1>1, <1>3, <1>4, Zenon

LEMMA ReasonsAreChecks ==
  ASSUME NEW checks, \E n \in Nat : DOMAIN checks = 1 .. n, NEW key
  PROVE  Assessment(checks, key).reasons # <<>> =>
             \E i \in DOMAIN checks : Assessment(checks, key).reasons[1] = checks[i][1]
<1>1. PICK n \in Nat : DOMAIN checks = 1 .. n
  OBVIOUS
<1>2. CASE \A i \in 1 .. n : checks[i][2]
  BY <1>1, <1>2, FirstFailure, Zenon
<1>3. CASE \E i \in 1 .. n : ~checks[i][2]
  BY <1>1, <1>3, FirstFailure, Zenon
<1>4. QED
  BY <1>2, <1>3

(* The Domains share it, and none of its reasons is None.                       *)
Reasoned(assessed) == assessed.reasons # <<>> => assessed.reasons[1] # None

LEMMA OneAssessment ==
  ASSUME NEW checks, NEW key
  PROVE  /\ OfContacts!Assessment(checks, key) = Assessment(checks, key)
         /\ OfMobile!Assessment(checks, key) = Assessment(checks, key)
         /\ OfWorkspace!Assessment(checks, key) = Assessment(checks, key)
<1>1. OfContacts!Assessment(checks, key) = Assessment(checks, key)
  BY Zenon DEF OfContacts!Assessment, Assessment, OfContacts!Cardinality, Cardinality
<1>2. OfMobile!Assessment(checks, key) = Assessment(checks, key)
  BY Zenon DEF OfMobile!Assessment, Assessment, OfMobile!Cardinality, Cardinality
<1>3. OfWorkspace!Assessment(checks, key) = Assessment(checks, key)
  BY Zenon DEF OfWorkspace!Assessment, Assessment, OfWorkspace!Cardinality, Cardinality
<1>4. QED
  BY <1>1, <1>2, <1>3

LEMMA ThreeReasons ==
  ASSUME NEW r1, NEW r2, NEW r3, r1 # None, r2 # None, r3 # None,
         NEW p1, NEW p2, NEW p3, NEW key
  PROVE  LET checks == <<<<r1, p1>>, <<r2, p2>>, <<r3, p3>>>>
         IN  /\ Reasoned(OfContacts!Assessment(checks, key))
             /\ Reasoned(OfMobile!Assessment(checks, key))
             /\ Reasoned(OfWorkspace!Assessment(checks, key))
<1> DEFINE listed == <<<<r1, p1>>, <<r2, p2>>, <<r3, p3>>>>
<1>1. \E n \in Nat : DOMAIN listed = 1 .. n
  <2>1. DOMAIN listed = 1 .. 3
    OBVIOUS
  <2> HIDE DEF listed
  <2>2. QED
    BY <2>1
<1>2. \A i \in DOMAIN listed : listed[i][1] # None
  OBVIOUS
<1> HIDE DEF listed
<1>3. Reasoned(Assessment(listed, key))
  BY <1>1, <1>2, ReasonsAreChecks, Zenon DEF Reasoned
<1>4. QED
  BY <1>3, OneAssessment DEF listed

LEMMA SixReasons ==
  ASSUME NEW r1, NEW r2, NEW r3, NEW r4, NEW r5, NEW r6, r1 # None, r2 # None, r3 # None, r4 # None, r5 # None, r6 # None,
         NEW p1, NEW p2, NEW p3, NEW p4, NEW p5, NEW p6, NEW key
  PROVE  LET checks == <<<<r1, p1>>, <<r2, p2>>, <<r3, p3>>, <<r4, p4>>, <<r5, p5>>, <<r6, p6>>>>
         IN  /\ Reasoned(OfContacts!Assessment(checks, key))
             /\ Reasoned(OfMobile!Assessment(checks, key))
             /\ Reasoned(OfWorkspace!Assessment(checks, key))
<1> DEFINE listed == <<<<r1, p1>>, <<r2, p2>>, <<r3, p3>>, <<r4, p4>>, <<r5, p5>>, <<r6, p6>>>>
<1>1. \E n \in Nat : DOMAIN listed = 1 .. n
  <2>1. DOMAIN listed = 1 .. 6
    OBVIOUS
  <2> HIDE DEF listed
  <2>2. QED
    BY <2>1
<1>2. \A i \in DOMAIN listed : listed[i][1] # None
  OBVIOUS
<1> HIDE DEF listed
<1>3. Reasoned(Assessment(listed, key))
  BY <1>1, <1>2, ReasonsAreChecks, Zenon DEF Reasoned
<1>4. QED
  BY <1>3, OneAssessment DEF listed

LEMMA ContactsReasons ==
  ASSUME NEW c, NEW events, NEW authorization
  PROVE  Reasoned(OfContacts!Assess(c, events, authorization))
<1>1. /\ "requested_lookup_not_observed" # None /\ "lookup_condition_not_observed" # None
      /\ "mutation_not_authorized" # None /\ "requested_followup_not_recorded" # None
      /\ "unintended_state_change" # None /\ "saved_followup_not_observed" # None
      /\ "final_response_not_grounded" # None
  BY TaskAssumption
<1>2. Reasoned(OfContacts!AssessFollowup(c, events, authorization))
  BY <1>1, SixReasons, ZenonT(60) DEF OfContacts!AssessFollowup
<1>3. Reasoned(OfContacts!AssessLookup(c.task, events))
  BY <1>1, ThreeReasons, Zenon DEF OfContacts!AssessLookup
<1>4. QED
  BY <1>2, <1>3, Zenon DEF OfContacts!Assess

LEMMA MobileReasons ==
  ASSUME NEW c, NEW events, NEW authorization
  PROVE  Reasoned(OfMobile!Assess(c, events, authorization))
<1>1. /\ "requested_message_not_observed" # None /\ "message_condition_not_observed" # None
      /\ "mutation_not_authorized" # None /\ "requested_change_not_recorded" # None
      /\ "unintended_state_change" # None /\ "saved_change_not_observed" # None
      /\ "final_response_not_grounded" # None
  BY TaskAssumption
<1>2. \A tools, requested, values, key :
          Reasoned(OfMobile!AssessMutation(c.task, events, authorization, tools, requested, values, key))
  BY <1>1, SixReasons, Zenon DEF OfMobile!AssessMutation
<1>3. Reasoned(OfMobile!AssessReminder(c.task, events, authorization))
  BY <1>2, Zenon DEF OfMobile!AssessReminder
<1>4. Reasoned(OfMobile!AssessDraft(c.task, events, authorization))
  BY <1>2, Zenon DEF OfMobile!AssessDraft
<1>5. Reasoned(OfMobile!AssessSearch(c.task, events))
  BY <1>1, ThreeReasons, Zenon DEF OfMobile!AssessSearch
<1>6. QED
  BY <1>3, <1>4, <1>5 DEF OfMobile!Assess

LEMMA WorkspaceReasons ==
  ASSUME NEW c, NEW events, NEW authorization
  PROVE  Reasoned(OfWorkspace!Assess(c, events, authorization))
<1>1. /\ "requested_item_not_observed" # None /\ "missing_item_not_observed" # None
      /\ "condition_not_observed" # None /\ "mutation_not_authorized" # None
      /\ "requested_change_not_made" # None /\ "unintended_state_change" # None
      /\ "saved_change_not_observed" # None /\ "final_response_not_grounded" # None
  BY TaskAssumption
<1>2. \A tools, requested, values, key :
          Reasoned(OfWorkspace!AssessChange(c.task, events, authorization, tools, requested, values, key))
  BY <1>1, SixReasons, ZenonT(60) DEF OfWorkspace!AssessChange
<1>3. Reasoned(OfWorkspace!AssessTask(c.task, events, authorization))
  BY <1>2, Zenon DEF OfWorkspace!AssessTask
<1>4. Reasoned(OfWorkspace!AssessComment(c.task, events, authorization))
  BY <1>2, Zenon DEF OfWorkspace!AssessComment
<1>5. Reasoned(OfWorkspace!AssessMissing(c.task, events))
  BY <1>1, ThreeReasons, Zenon DEF OfWorkspace!AssessMissing
<1>6. Reasoned(OfWorkspace!AssessSearch(c.task, events))
  BY <1>1, ThreeReasons, Zenon DEF OfWorkspace!AssessSearch
<1>7. QED
  BY <1>3, <1>4, <1>5, <1>6 DEF OfWorkspace!Assess

(* A built-in Domain that lists reasons has a first one.                        *)
THEOREM BuiltinAssessmentsGiveReasons ==
  (\A c \in Case : c.domain \in BuiltinDomainIds) /\ BuiltinAssessmentsRun => AssessmentContract
<1>1. SUFFICES ASSUME \A c \in Case : c.domain \in BuiltinDomainIds, BuiltinAssessmentsRun,
                      NEW c \in Case, NEW events, NEW authorization
               PROVE  Reasoned(AssessEvents(c, events, authorization))
  BY DEF AssessmentContract, Reasoned
<1>2. /\ c.domain \in {"contacts", "mobile", "workspace"}
      /\ AssessEvents(c, events, authorization) = BuiltinAssess(c, events, authorization)
  BY <1>1, Zenon DEF BuiltinAssessmentsRun, BuiltinDomainIds
<1>3. Reasoned(BuiltinAssess(c, events, authorization))
  BY <1>2, ContactsReasons, MobileReasons, WorkspaceReasons DEF BuiltinAssess
<1>4. QED
  BY <1>2, <1>3

--------------------------------------------------------------------------------
(* Built-in tools say what they were told and what the frozen state says. *)

LEMMA MentionsEachField ==
  ASSUME NEW Texts, NEW payload,
         \A f \in DOMAIN payload :
             IF f \in Listing THEN payload[f] \subseteq Texts ELSE payload[f] \in Texts
  PROVE  Mentions(payload) \subseteq Texts
  BY DEF Mentions

LEMMA ToldFields ==
  ASSUME NEW Texts, NEW args, Mentions(args) \subseteq Texts, NEW f \in DOMAIN args
  PROVE  IF f \in Listing THEN args[f] \subseteq Texts ELSE args[f] \in Texts
<1>1. (IF f \in Listing THEN args[f] ELSE {args[f]}) \subseteq Mentions(args)
  BY Zenon DEF Mentions
<1>2. QED
  BY <1>1

(* A payload whose texts are told, and a table with at most one entry added.    *)
Payloads(Texts, fields) == {p \in [fields -> Texts \cup SUBSET Texts] : Mentions(p) \subseteq Texts}
TablesFrom(table, key, entries) == {table} \cup {Put(table, key, entry) : entry \in entries}

LEMMA ToldPayload ==
  ASSUME NEW Texts, NEW args, Told(Texts, args)
  PROVE  args \in Payloads(Texts, DOMAIN args)
<1>1. \A f \in DOMAIN args : args[f] \in Texts \cup SUBSET Texts
  BY ToldFields DEF Told
<1>2. QED
  BY <1>1 DEF Told, Payloads

LEMMA EntriesFrom ==
  ASSUME NEW old, NEW key, NEW entries, NEW table \in TablesFrom(old, key, entries)
  PROVE  /\ \A k \in DOMAIN table : (k \in DOMAIN old /\ table[k] = old[k]) \/ table[k] \in entries
         /\ key \notin DOMAIN table =>
                \A entry \in entries : Put(table, key, entry) \in TablesFrom(old, key, entries)
<1>1. CASE table = old
  BY <1>1 DEF TablesFrom
<1>2. CASE table # old
  <2>1. PICK entry \in entries : table = Put(old, key, entry)
    BY <1>2 DEF TablesFrom
  <2>2. QED
    BY <2>1 DEF Put
<1>3. QED
  BY <1>1, <1>2

--------------------------------------------------------------------------------
(* Contacts. *)
ContactsSource(c, Texts) ==
    /\ \A name \in DOMAIN c.frozen.contacts : {name, c.frozen.contacts[name]} \subseteq Texts
    /\ \A name \in DOMAIN c.frozen.followups : c.frozen.followups[name] \in Texts
ContactSessions(c, Texts) ==
    [world : TablesFrom(c.frozen.followups, c.task.target, Texts),
     confirmed : BOOLEAN, listed : BOOLEAN, afterListing : BOOLEAN, probeFailed : BOOLEAN]

LEMMA ContactArguments ==
  ASSUME NEW c, NEW call, call.tool \in DOMAIN OfContacts!Tools(c),
         ValidArguments(OfContacts!Tools(c)[call.tool], call.args)
  PROVE  /\ call.tool \in {"lookup_contact", "list_contacts", "record_followup", "get_followup"}
         /\ call.tool \in {"lookup_contact", "get_followup"} => DOMAIN call.args = {"name"}
         /\ call.tool = "record_followup" => DOMAIN call.args = {"name", "note"}
  BY DEF OfContacts!Tools, OfContacts!Tool, ValidArguments

LEMMA ContactsKeepTo ==
  ASSUME NEW c \in Case, NEW Texts, ContactsSource(c, Texts),
         NEW s \in ContactSessions(c, Texts), NEW call, call.tool \in DOMAIN OfContacts!Tools(c),
         ValidArguments(OfContacts!Tools(c)[call.tool], call.args), Told(Texts, call.args)
  PROVE  LET done == OfContacts!Execute(c, s, call)
         IN  /\ done.session \in ContactSessions(c, Texts)
             /\ done.result.type \in {"observation", "state_change"} =>
                    Mentions(done.result.payload) \subseteq Texts
<1> DEFINE done == OfContacts!Execute(c, s, call)
           args == call.args
           target == c.task.target
           worlds == TablesFrom(c.frozen.followups, target, Texts)
<1>0. /\ {"name", "email", "note"} \cap Listing = {} /\ "contacts" \in Listing
      /\ Mentions(args) \subseteq Texts
  BY TaskAssumption DEF Told
<1>1. /\ s.world \in worlds
      /\ s.confirmed \in BOOLEAN /\ s.listed \in BOOLEAN
      /\ s.afterListing \in BOOLEAN /\ s.probeFailed \in BOOLEAN
      /\ DOMAIN s = {"world", "confirmed", "listed", "afterListing", "probeFailed"}
      /\ s = [f \in DOMAIN s |-> s[f]]
  BY DEF ContactSessions
<1>2. \A k \in DOMAIN s.world : s.world[k] \in Texts
  BY <1>1, EntriesFrom DEF ContactsSource
<1>3. \A x, y : x \in Texts /\ y \in Texts =>
          /\ Mentions([name |-> x, email |-> y]) \subseteq Texts
          /\ Mentions([name |-> x, note |-> y]) \subseteq Texts
  <2> SUFFICES ASSUME NEW x \in Texts, NEW y \in Texts
               PROVE  /\ Mentions([name |-> x, email |-> y]) \subseteq Texts
                      /\ Mentions([name |-> x, note |-> y]) \subseteq Texts
    OBVIOUS
  <2>1. Mentions([name |-> x, email |-> y]) \subseteq Texts
    BY <1>0, MentionsEachField
  <2>2. Mentions([name |-> x, note |-> y]) \subseteq Texts
    BY <1>0, MentionsEachField
  <2>3. QED
    BY <2>1, <2>2
<1>4. /\ call.tool \in {"lookup_contact", "list_contacts", "record_followup", "get_followup"}
      /\ call.tool \in {"lookup_contact", "get_followup"} => args.name \in Texts
      /\ call.tool = "record_followup" => args.name \in Texts /\ args.note \in Texts
  BY <1>0, ContactArguments, ToldFields
<1>5. CASE call.tool = "lookup_contact" /\ args.name \notin DOMAIN c.frozen.contacts
  <2> DEFINE x == (s.probeFailed \/ args.name = OfContacts!Stale(target))
  <2>1. done = [session |-> [s EXCEPT !.probeFailed = x],
                result |-> [type |-> "tool_failure", code |-> "contact_not_found"]]
    <3>1. done = OfContacts!LookupContact(c, s, args.name)
      BY <1>5 DEF OfContacts!Execute
    <3>2. QED
      BY <1>5, <3>1, Zenon DEF OfContacts!LookupContact, OfContacts!Answer, OfContacts!Failure
  <2>2. x \in BOOLEAN
    BY Zenon
  <2> HIDE DEF x, done
  <2>3. [s EXCEPT !.probeFailed = x] \in ContactSessions(c, Texts)
    BY <1>1, <2>2 DEF ContactSessions
  <2>4. QED
    BY <2>1, <2>3 DEF done
<1>6. CASE call.tool = "lookup_contact" /\ args.name \in DOMAIN c.frozen.contacts
  <2> DEFINE t == [s EXCEPT !.confirmed = TRUE, !.afterListing = s.listed]
             payload == [name |-> args.name, email |-> c.frozen.contacts[args.name]]
  <2>1. done.session \in {s, t} /\ done.result = [type |-> "observation", payload |-> payload]
    BY <1>6 DEF OfContacts!Execute, OfContacts!LookupContact, OfContacts!Answer, OfContacts!Observation
  <2>2. t \in ContactSessions(c, Texts)
    BY <1>1 DEF ContactSessions
  <2>3. Mentions(payload) \subseteq Texts
    BY <1>3, <1>6 DEF ContactsSource
  <2> HIDE DEF t, done, payload
  <2>4. QED
    BY <2>1, <2>2, <2>3 DEF done
<1>7. CASE call.tool = "list_contacts"
  <2> DEFINE t == [s EXCEPT !.listed = TRUE]
             payload == [contacts |-> DOMAIN c.frozen.contacts]
  <2>1. done.session = t /\ done.result = [type |-> "observation", payload |-> payload]
    BY <1>7 DEF OfContacts!Execute, OfContacts!Answer, OfContacts!Observation
  <2>2. t \in ContactSessions(c, Texts)
    BY <1>1 DEF ContactSessions
  <2>3. Mentions(payload) \subseteq Texts
    <3>1. DOMAIN payload = {"contacts"} /\ payload["contacts"] \subseteq Texts
      BY DEF ContactsSource
    <3> HIDE DEF payload
    <3>2. QED
      BY <1>0, <3>1, MentionsEachField
  <2> HIDE DEF t, done, payload
  <2>4. QED
    BY <2>1, <2>2, <2>3 DEF done
<1>8. CASE call.tool = "record_followup"
  <2> DEFINE refusal == OfContacts!RecordRefusal(c.task, s, args)
             world == Put(s.world, target, args.note)
             t == [s EXCEPT !.world = world]
             payload == [name |-> target, note |-> args.note]
  <2>1. done = IF refusal # None THEN [session |-> s, result |-> [type |-> "unauthorized_mutation", code |-> refusal]]
               ELSE [session |-> t, result |-> [type |-> "state_change", payload |-> payload]]
    <3>1. done = OfContacts!RecordFollowup(c, s, args)
      BY <1>8 DEF OfContacts!Execute
    <3>2. QED
      BY <3>1, Zenon DEF OfContacts!RecordFollowup, OfContacts!Answer, OfContacts!Unauthorized,
                         OfContacts!StateChange, OfContacts!Put, Put
  <2>2. refusal = None => args.name = target /\ target \notin DOMAIN s.world
    BY ContactsRefusals
  <2> HIDE DEF refusal, done
  <2>3. CASE refusal # None
    BY <2>1, <2>3 DEF done
  <2>4. CASE refusal = None
    <3>1. world \in worlds
      BY <1>1, <1>4, <1>8, <2>2, <2>4, EntriesFrom
    <3> HIDE DEF world
    <3>2. t \in ContactSessions(c, Texts)
      BY <1>1, <3>1 DEF ContactSessions
    <3>3. Mentions(payload) \subseteq Texts
      BY <1>3, <1>4, <1>8, <2>2, <2>4
    <3> HIDE DEF t, payload
    <3>4. QED
      BY <2>1, <2>4, <3>2, <3>3 DEF done
  <2>5. QED
    BY <2>3, <2>4
<1>9. CASE call.tool = "get_followup"
  <2> DEFINE payload == [name |-> args.name, note |-> s.world[args.name]]
  <2>1. /\ done.session = s
        /\ \/ done.result = [type |-> "tool_failure", code |-> "followup_not_found"]
           \/ args.name \in DOMAIN s.world /\ done.result = [type |-> "observation", payload |-> payload]
    BY <1>9 DEF OfContacts!Execute, OfContacts!GetFollowup, OfContacts!Answer, OfContacts!Observation,
                OfContacts!Failure
  <2>2. args.name \in DOMAIN s.world => Mentions(payload) \subseteq Texts
    BY <1>2, <1>3, <1>4, <1>9
  <2> HIDE DEF payload, done
  <2>3. QED
    BY <2>1, <2>2 DEF done
<1>10. QED
  BY <1>4, <1>5, <1>6, <1>7, <1>8, <1>9

--------------------------------------------------------------------------------
(* Mobile Messages. *)
MobileSource(c, Texts) ==
    /\ \A id \in DOMAIN c.frozen.messages :
           /\ c.frozen.messages[id].sender \in Texts
           /\ Mentions(c.frozen.messages[id]) \subseteq Texts
    /\ \A id \in DOMAIN c.frozen.reminders : Mentions(c.frozen.reminders[id]) \subseteq Texts
    /\ \A id \in DOMAIN c.frozen.drafts : Mentions(c.frozen.drafts[id]) \subseteq Texts
SavedReminders(c, Texts) ==
    TablesFrom(c.frozen.reminders, c.task.target.message_id, Payloads(Texts, OfMobile!ReminderFields))
SavedDrafts(c, Texts) ==
    TablesFrom(c.frozen.drafts, c.task.target.message_id, Payloads(Texts, OfMobile!DraftFields))
MobileSessions(c, Texts) ==
    [world : [reminders : SavedReminders(c, Texts), drafts : SavedDrafts(c, Texts)],
     observed : BOOLEAN, listed : BOOLEAN, afterListing : BOOLEAN, probeFailed : BOOLEAN]

LEMMA MobileArguments ==
  ASSUME NEW c \in Case, c.domain = "mobile", NEW call, call.tool \in DOMAIN OfMobile!Tools(c),
         ValidArguments(OfMobile!Tools(c)[call.tool], call.args)
  PROVE  /\ call.tool \in {"search_messages", "list_message_senders", "create_reminder", "get_reminder",
                           "create_draft_reply", "get_draft_reply"}
         /\ call.tool = "create_reminder" => DOMAIN call.args = OfMobile!ReminderFields
         /\ call.tool = "create_draft_reply" => DOMAIN call.args = OfMobile!DraftFields
<1>1. c.task.action \in {"search_messages", "create_reminder", "create_draft_reply"}
  BY TaskAssumption DEF CompiledTask
<1>2. QED
  BY <1>1 DEF OfMobile!Tools, OfMobile!Tool, ValidArguments

(* A search answers that it failed, or with a message of the source.            *)
LEMMA SearchedMessages ==
  ASSUME NEW c \in Case, NEW Texts, MobileSource(c, Texts), NEW s \in MobileSessions(c, Texts), NEW query
  PROVE  LET done == OfMobile!SearchMessages(c, s, query)
         IN  /\ done.session \in MobileSessions(c, Texts)
             /\ done.result.type \in {"observation", "state_change"} =>
                    Mentions(done.result.payload) \subseteq Texts
<1> DEFINE messages == c.frozen.messages
           matches == {id \in DOMAIN messages : BodyHas(messages[id].body, query)}
           found == CHOOSE id \in matches : TRUE
           probed == [s EXCEPT !.probeFailed = TRUE]
           observed == [s EXCEPT !.observed = TRUE, !.afterListing = s.listed]
           done == OfMobile!SearchMessages(c, s, query)
<1>1. /\ probed \in MobileSessions(c, Texts)
      /\ observed \in MobileSessions(c, Texts)
  BY DEF MobileSessions
<1>2. Cardinality(matches) = 1 => found \in DOMAIN messages
  <2>1. Cardinality(matches) = 1 => matches # {}
    BY FS_EmptySet
  <2> HIDE DEF messages
  <2>2. matches # {} => found \in matches
    BY Zenon
  <2>3. matches \subseteq DOMAIN messages
    OBVIOUS
  <2> HIDE DEF matches, found
  <2>4. QED
    BY <2>1, <2>2, <2>3
<1>3. done = IF query = OfMobile!Stale(OfMobile!QueryFor(c.task.target))
             THEN OfMobile!Answer(probed, OfMobile!Failure("message_not_found"))
             ELSE IF OfMobile!Cardinality(matches) # 1
             THEN OfMobile!Answer(s, OfMobile!Failure("message_not_found"))
             ELSE OfMobile!Answer(IF found = c.task.target.message_id THEN observed ELSE s,
                                  OfMobile!Observation(messages[found]))
  BY Zenon DEF OfMobile!SearchMessages
<1> HIDE DEF matches, found, probed, observed, done
<1>4. /\ done.session \in {s, probed, observed}
      /\ \/ done.result.type = "tool_failure"
         \/ /\ OfMobile!Cardinality(matches) = 1
            /\ done.result.payload = messages[found]
  BY <1>3 DEF OfMobile!Answer, OfMobile!Failure, OfMobile!Observation
<1>5. OfMobile!Cardinality(matches) = Cardinality(matches)
  BY DEF OfMobile!Cardinality, Cardinality
<1>6. QED
  BY <1>1, <1>2, <1>4, <1>5 DEF MobileSource, done

LEMMA RemindersKeepTo ==
  ASSUME NEW c \in Case, NEW Texts, NEW s \in MobileSessions(c, Texts), NEW args,
         Told(Texts, args), DOMAIN args = OfMobile!ReminderFields
  PROVE  LET done == OfMobile!CreateReminder(c, s, args)
         IN  /\ done.session \in MobileSessions(c, Texts)
             /\ done.result.type \in {"observation", "state_change"} =>
                    Mentions(done.result.payload) \subseteq Texts
<1> DEFINE done == OfMobile!CreateReminder(c, s, args)
           saved == OfMobile!Put(s.world.reminders, args.message_id, args)
           t == [s EXCEPT !.world = [s.world EXCEPT !.reminders = saved]]
<1>1. CASE done.session = s /\ done.result.type = "unauthorized_mutation"
  BY <1>1, Zenon
<1>2. CASE ~(done.session = s /\ done.result.type = "unauthorized_mutation")
  <2>1. /\ done.session = t
        /\ args.message_id = c.task.target.message_id /\ args.message_id \notin DOMAIN s.world.reminders
    BY <1>2, ReminderRefusals
  <2>2. done.result = OfMobile!StateChange(args)
    <3>1. \/ \E refusal : done.result = OfMobile!Unauthorized(refusal) /\ done.session = s
          \/ done.result = OfMobile!StateChange(args)
      BY DEF OfMobile!CreateReminder, OfMobile!Answer
    <3>2. \A refusal : OfMobile!Unauthorized(refusal).type = "unauthorized_mutation"
      BY DEF OfMobile!Unauthorized
    <3> HIDE DEF done
    <3>3. QED
      BY <1>2, <3>1, <3>2, Zenon
  <2>3. saved \in SavedReminders(c, Texts)
    <3>1. s.world.reminders \in SavedReminders(c, Texts)
      BY DEF MobileSessions
    <3>2. args \in Payloads(Texts, OfMobile!ReminderFields)
      BY ToldPayload
    <3>3. saved = Put(s.world.reminders, args.message_id, args)
      BY DEF OfMobile!Put, Put
    <3> HIDE DEF saved
    <3>4. QED
      BY <2>1, <3>1, <3>2, <3>3, EntriesFrom DEF SavedReminders
  <2> HIDE DEF saved
  <2>4. t \in MobileSessions(c, Texts)
    BY <2>3 DEF MobileSessions
  <2> HIDE DEF done, t
  <2>5. done.result.payload = args
    BY <2>2 DEF OfMobile!StateChange
  <2>6. QED
    BY <2>1, <2>4, <2>5 DEF Told, done
<1>3. QED
  BY <1>1, <1>2

LEMMA DraftsKeepTo ==
  ASSUME NEW c \in Case, NEW Texts, NEW s \in MobileSessions(c, Texts), NEW args,
         Told(Texts, args), DOMAIN args = OfMobile!DraftFields
  PROVE  LET done == OfMobile!CreateDraftReply(c, s, args)
         IN  /\ done.session \in MobileSessions(c, Texts)
             /\ done.result.type \in {"observation", "state_change"} =>
                    Mentions(done.result.payload) \subseteq Texts
<1> DEFINE done == OfMobile!CreateDraftReply(c, s, args)
           saved == OfMobile!Put(s.world.drafts, args.message_id, args)
           t == [s EXCEPT !.world = [s.world EXCEPT !.drafts = saved]]
<1>1. CASE done.session = s /\ done.result.type = "unauthorized_mutation"
  BY <1>1, Zenon
<1>2. CASE ~(done.session = s /\ done.result.type = "unauthorized_mutation")
  <2>1. /\ done.session = t
        /\ args.message_id = c.task.target.message_id /\ args.message_id \notin DOMAIN s.world.drafts
    BY <1>2, DraftRefusals
  <2>2. done.result = OfMobile!StateChange(args)
    <3>1. \/ \E refusal : done.result = OfMobile!Unauthorized(refusal) /\ done.session = s
          \/ done.result = OfMobile!StateChange(args)
      BY DEF OfMobile!CreateDraftReply, OfMobile!Answer
    <3>2. \A refusal : OfMobile!Unauthorized(refusal).type = "unauthorized_mutation"
      BY DEF OfMobile!Unauthorized
    <3> HIDE DEF done
    <3>3. QED
      BY <1>2, <3>1, <3>2, Zenon
  <2>3. saved \in SavedDrafts(c, Texts)
    <3>1. s.world.drafts \in SavedDrafts(c, Texts)
      BY DEF MobileSessions
    <3>2. args \in Payloads(Texts, OfMobile!DraftFields)
      BY ToldPayload
    <3>3. saved = Put(s.world.drafts, args.message_id, args)
      BY DEF OfMobile!Put, Put
    <3> HIDE DEF saved
    <3>4. QED
      BY <2>1, <3>1, <3>2, <3>3, EntriesFrom DEF SavedDrafts
  <2> HIDE DEF saved
  <2>4. t \in MobileSessions(c, Texts)
    BY <2>3 DEF MobileSessions
  <2> HIDE DEF done, t
  <2>5. done.result.payload = args
    BY <2>2 DEF OfMobile!StateChange
  <2>6. QED
    BY <2>1, <2>4, <2>5 DEF Told, done
<1>3. QED
  BY <1>1, <1>2

LEMMA MobileKeepsTo ==
  ASSUME NEW c \in Case, c.domain = "mobile", NEW Texts, MobileSource(c, Texts),
         NEW s \in MobileSessions(c, Texts), NEW call, call.tool \in DOMAIN OfMobile!Tools(c),
         ValidArguments(OfMobile!Tools(c)[call.tool], call.args), Told(Texts, call.args)
  PROVE  LET done == OfMobile!Execute(c, s, call)
         IN  /\ done.session \in MobileSessions(c, Texts)
             /\ done.result.type \in {"observation", "state_change"} =>
                    Mentions(done.result.payload) \subseteq Texts
<1> DEFINE done == OfMobile!Execute(c, s, call)
           args == call.args
           Kept(answer) == /\ answer.session \in MobileSessions(c, Texts)
                           /\ answer.result.type \in {"observation", "state_change"} =>
                                  Mentions(answer.result.payload) \subseteq Texts
<1>1. /\ call.tool \in {"search_messages", "list_message_senders", "create_reminder", "get_reminder",
                        "create_draft_reply", "get_draft_reply"}
      /\ call.tool = "create_reminder" => DOMAIN args = OfMobile!ReminderFields
      /\ call.tool = "create_draft_reply" => DOMAIN args = OfMobile!DraftFields
  BY MobileArguments
<1>2. CASE call.tool = "search_messages"
  <2>1. done = OfMobile!SearchMessages(c, s, args.query)
    BY <1>2 DEF OfMobile!Execute
  <2> HIDE DEF done
  <2>2. Kept(done)
    BY <2>1, SearchedMessages
  <2>3. QED
    BY <2>2 DEF done
<1>3. CASE call.tool = "list_message_senders"
  <2> DEFINE t == [s EXCEPT !.listed = TRUE]
             senders == {c.frozen.messages[id].sender : id \in DOMAIN c.frozen.messages}
             payload == [senders |-> senders]
  <2>1. done.session = t /\ done.result = [type |-> "observation", payload |-> payload]
    BY <1>3 DEF OfMobile!Execute, OfMobile!Answer, OfMobile!Observation
  <2>2. t \in MobileSessions(c, Texts)
    BY DEF MobileSessions
  <2>3. Mentions(payload) \subseteq Texts
    <3>1. senders \subseteq Texts
      BY DEF MobileSource
    <3> HIDE DEF senders
    <3>2. DOMAIN payload = {"senders"} /\ payload["senders"] \subseteq Texts /\ "senders" \in Listing
      BY <3>1, TaskAssumption
    <3> HIDE DEF payload
    <3>3. QED
      BY <3>2, MentionsEachField
  <2> HIDE DEF t, done, payload
  <2>4. QED
    BY <2>1, <2>2, <2>3 DEF done
<1>4. CASE call.tool = "create_reminder"
  <2>1. done = OfMobile!CreateReminder(c, s, args)
    BY <1>4 DEF OfMobile!Execute
  <2> HIDE DEF done
  <2>2. Kept(done)
    BY <1>1, <1>4, <2>1, RemindersKeepTo
  <2>3. QED
    BY <2>2 DEF done
<1>5. CASE call.tool = "create_draft_reply"
  <2>1. done = OfMobile!CreateDraftReply(c, s, args)
    BY <1>5 DEF OfMobile!Execute
  <2> HIDE DEF done
  <2>2. Kept(done)
    BY <1>1, <1>5, <2>1, DraftsKeepTo
  <2>3. QED
    BY <2>2 DEF done
<1>6. CASE call.tool \in {"get_reminder", "get_draft_reply"}
  <2> DEFINE id == args.message_id
  <2>1. /\ done.session = s
        /\ \/ done.result.type = "tool_failure"
           \/ id \in DOMAIN s.world.reminders /\ done.result.payload = s.world.reminders[id]
           \/ id \in DOMAIN s.world.drafts /\ done.result.payload = s.world.drafts[id]
    BY <1>6 DEF OfMobile!Execute, OfMobile!GetSaved, OfMobile!Answer, OfMobile!Observation, OfMobile!Failure
  <2>2. s.world.reminders \in SavedReminders(c, Texts) /\ s.world.drafts \in SavedDrafts(c, Texts)
    BY DEF MobileSessions
  <2>3. \A k \in DOMAIN s.world.reminders : Mentions(s.world.reminders[k]) \subseteq Texts
    BY <2>2, EntriesFrom DEF SavedReminders, Payloads, MobileSource
  <2>4. \A k \in DOMAIN s.world.drafts : Mentions(s.world.drafts[k]) \subseteq Texts
    BY <2>2, EntriesFrom DEF SavedDrafts, Payloads, MobileSource
  <2> HIDE DEF done
  <2>5. QED
    BY <2>1, <2>3, <2>4 DEF done
<1>7. QED
  BY <1>1, <1>2, <1>3, <1>4, <1>5, <1>6

--------------------------------------------------------------------------------
(* Workspace Tasks. *)
WorkspaceSource(c, Texts) ==
    LET items == OfWorkspace!Reopen(c.frozen)
    IN  /\ \A id \in DOMAIN items : {items[id].item_id, items[id].kind, items[id].summary} \subseteq Texts
        /\ \A project \in ToSet(OfWorkspace!OfKind(items, "project")) : project.summary \in Texts
        /\ \A a, b \in Texts : {OfWorkspace!CreatedTaskId(a, b), OfWorkspace!CreatedCommentId(a, b)} \subseteq Texts
MadeThings(Texts) ==
    {NothingMade} \cup {Put(NothingMade, id, made) : id \in Texts,
        made \in Payloads(Texts, OfWorkspace!TaskFields) \cup Payloads(Texts, OfWorkspace!CommentFields)}
WorkspaceSessions(Texts) ==
    [world : MadeThings(Texts), observed : BOOLEAN, probeFailed : BOOLEAN, listed : BOOLEAN]

(* What an Episode made mentions what it was told.                              *)
LEMMA MadeThingsAreTold ==
  ASSUME NEW Texts, NEW world \in MadeThings(Texts), NEW id \in DOMAIN world
  PROVE  Mentions(world[id]) \subseteq Texts
<1>1. CASE world = NothingMade
  BY <1>1 DEF NothingMade
<1>2. CASE world # NothingMade
  <2>1. PICK key \in Texts, made \in Payloads(Texts, OfWorkspace!TaskFields)
                                         \cup Payloads(Texts, OfWorkspace!CommentFields) :
            world = Put(NothingMade, key, made)
    BY <1>2 DEF MadeThings
  <2>2. world[id] = made
    BY <2>1 DEF Put, NothingMade
  <2>3. QED
    BY <2>2 DEF Payloads
<1>3. QED
  BY <1>1, <1>2

(* Its id is written to what is made.                                           *)
LEMMA WrittenId ==
  ASSUME NEW Texts, NEW args, Told(Texts, args), NEW field, field \notin Listing, NEW id \in Texts
  PROVE  Put(args, field, id) \in Payloads(Texts, DOMAIN args \cup {field})
<1> DEFINE made == Put(args, field, id)
<1>1. /\ DOMAIN made = DOMAIN args \cup {field} /\ made = [f \in DOMAIN made |-> made[f]]
      /\ \A f \in DOMAIN made : made[f] = IF f = field THEN id ELSE args[f]
  BY DEF Put
<1> HIDE DEF made
<1>2. \A f \in DOMAIN made : IF f \in Listing THEN made[f] \subseteq Texts ELSE made[f] \in Texts
  BY <1>1, ToldFields DEF Told
<1>3. Told(Texts, made)
  BY <1>1, <1>2, MentionsEachField DEF Told
<1>4. QED
  BY <1>1, <1>3, ToldPayload DEF made

LEMMA WorkspaceArguments ==
  ASSUME NEW c \in Case, c.domain = "workspace", NEW call, call.tool \in DOMAIN OfWorkspace!Tools(c),
         ValidArguments(OfWorkspace!Tools(c)[call.tool], call.args)
  PROVE  /\ call.tool \in {"search_workspace_items", "list_workspace_projects", "create_workspace_task",
                           "get_workspace_task", "add_workspace_comment", "get_workspace_comment"}
         /\ call.tool = "create_workspace_task" =>
                DOMAIN call.args = {"project_id", "title", "priority", "due_label"}
         /\ call.tool = "add_workspace_comment" => DOMAIN call.args = {"task_id", "comment"}
<1>1. c.task.action \in {"search_workspace_items", "create_workspace_task", "add_workspace_comment"}
  BY TaskAssumption DEF CompiledTask
<1>2. QED
  BY <1>1 DEF OfWorkspace!Tools, OfWorkspace!Tool, ValidArguments, OfWorkspace!TaskFields,
              OfWorkspace!CommentFields

(* A change is refused, or made of nothing and answered.                        *)
LEMMA ChangesKeepTo ==
  ASSUME NEW c \in Case, NEW Texts, NEW s \in WorkspaceSessions(Texts), NEW refusals, NEW own,
         NEW id \in Texts, NEW made,
         made \in Payloads(Texts, OfWorkspace!TaskFields) \cup Payloads(Texts, OfWorkspace!CommentFields),
         LET done == OfWorkspace!Change(c, s, refusals, own, id, made)
         IN  ~(done.session = s /\ done.result.type = "unauthorized_mutation") => s.world = NothingMade
  PROVE  LET done == OfWorkspace!Change(c, s, refusals, own, id, made)
         IN  /\ done.session \in WorkspaceSessions(Texts)
             /\ done.result.type \in {"observation", "state_change"} =>
                    Mentions(done.result.payload) \subseteq Texts
<1> DEFINE done == OfWorkspace!Change(c, s, refusals, own, id, made)
           world == OfWorkspace!Put(s.world, id, made)
           t == [s EXCEPT !.world = world]
<1>1. \/ \E refusal : done = OfWorkspace!Answer(s, OfWorkspace!Unauthorized(refusal))
      \/ done = OfWorkspace!Answer(t, OfWorkspace!StateChange(made))
  BY DEF OfWorkspace!Change
<1>2. \A refusal : LET answer == OfWorkspace!Answer(s, OfWorkspace!Unauthorized(refusal))
                   IN  answer.session = s /\ answer.result.type = "unauthorized_mutation"
  BY DEF OfWorkspace!Answer, OfWorkspace!Unauthorized
<1>3. LET answer == OfWorkspace!Answer(t, OfWorkspace!StateChange(made))
      IN  answer.session = t /\ answer.result.payload = made
  BY DEF OfWorkspace!Answer, OfWorkspace!StateChange
<1>4. Mentions(made) \subseteq Texts
  BY DEF Payloads
<1>5. s.world = NothingMade => t \in WorkspaceSessions(Texts)
  <2>1. s.world = NothingMade => world = Put(NothingMade, id, made)
    BY DEF OfWorkspace!Put, Put
  <2> HIDE DEF world
  <2>2. s.world = NothingMade => world \in MadeThings(Texts)
    BY <2>1 DEF MadeThings
  <2>3. QED
    BY <2>2 DEF WorkspaceSessions
<1> HIDE DEF t, done
<1>6. CASE done.session = s /\ done.result.type = "unauthorized_mutation"
  BY <1>6 DEF done
<1>7. CASE ~(done.session = s /\ done.result.type = "unauthorized_mutation")
  <2>1. done.session = t /\ done.result.payload = made
    BY <1>1, <1>2, <1>3, <1>7, Zenon
  <2>2. s.world = NothingMade
    BY <1>7, Zenon DEF done
  <2>3. QED
    BY <1>4, <1>5, <2>1, <2>2 DEF done
<1>8. QED
  BY <1>6, <1>7

LEMMA TasksKeepTo ==
  ASSUME NEW c \in Case, NEW Texts, WorkspaceSource(c, Texts), NEW s \in WorkspaceSessions(Texts),
         NEW args, Told(Texts, args), DOMAIN args = {"project_id", "title", "priority", "due_label"}
  PROVE  LET done == OfWorkspace!CreateTask(c, s, args)
         IN  /\ done.session \in WorkspaceSessions(Texts)
             /\ done.result.type \in {"observation", "state_change"} =>
                    Mentions(done.result.payload) \subseteq Texts
<1> DEFINE id == OfWorkspace!CreatedTaskId(args.project_id, args.title)
           made == OfWorkspace!Put(args, "task_id", id)
           own == <<
               <<args.priority # c.task.priority \/ args.due_label # c.task.due_label, "task_not_authorized">>,
               <<c.task.constraint = "exact" /\ args.title # c.task.title, "task_not_authorized">>,
               <<c.task.constraint = "open" /\ ~TitleAllowed(args.title), "unsupported_task_title">>>>
           first == OfWorkspace!ChangeRefusals(c, s, "create_workspace_task", args.project_id)
           done == OfWorkspace!CreateTask(c, s, args)
<1>1. args.project_id \in Texts /\ args.title \in Texts /\ "task_id" \notin Listing
  BY ToldFields, TaskAssumption DEF Told
<1>2. id \in Texts
  BY <1>1 DEF WorkspaceSource
<1>3. made \in Payloads(Texts, OfWorkspace!TaskFields)
  <2>1. made = Put(args, "task_id", id)
    BY DEF OfWorkspace!Put, Put
  <2>2. OfWorkspace!TaskFields = DOMAIN args \cup {"task_id"}
    BY DEF OfWorkspace!TaskFields
  <2> HIDE DEF id, made
  <2>3. QED
    BY <1>1, <1>2, <2>1, <2>2, WrittenId
<1>4. done = OfWorkspace!Change(c, s, first, own, id, made)
  BY Zenon DEF OfWorkspace!CreateTask
<1>5. IsSession(s)
  BY DEF WorkspaceSessions, IsSession
<1>6. ~(done.session = s /\ done.result.type = "unauthorized_mutation") => s.world = NothingMade
  BY <1>5, TaskRefusals DEF TaskMade
<1> HIDE DEF id, made, own, first, done
<1>7. LET change == OfWorkspace!Change(c, s, first, own, id, made)
      IN  /\ change.session \in WorkspaceSessions(Texts)
          /\ change.result.type \in {"observation", "state_change"} =>
                 Mentions(change.result.payload) \subseteq Texts
  BY <1>2, <1>3, <1>4, <1>6, ChangesKeepTo
<1>8. QED
  BY <1>4, <1>7 DEF done

LEMMA CommentsKeepTo ==
  ASSUME NEW c \in Case, NEW Texts, WorkspaceSource(c, Texts), NEW s \in WorkspaceSessions(Texts),
         NEW args, Told(Texts, args), DOMAIN args = {"task_id", "comment"}
  PROVE  LET done == OfWorkspace!AddComment(c, s, args)
         IN  /\ done.session \in WorkspaceSessions(Texts)
             /\ done.result.type \in {"observation", "state_change"} =>
                    Mentions(done.result.payload) \subseteq Texts
<1> DEFINE id == OfWorkspace!CreatedCommentId(args.task_id, args.comment)
           made == OfWorkspace!Put(args, "comment_id", id)
           own == <<
               <<~CommentAllowed(args.comment), "unsupported_comment">>,
               <<c.task.constraint = "exact" /\ args.comment # c.task.comment, "comment_not_authorized">>>>
           first == OfWorkspace!ChangeRefusals(c, s, "add_workspace_comment", args.task_id)
           done == OfWorkspace!AddComment(c, s, args)
<1>1. args.task_id \in Texts /\ args.comment \in Texts /\ "comment_id" \notin Listing
  BY ToldFields, TaskAssumption DEF Told
<1>2. id \in Texts
  BY <1>1 DEF WorkspaceSource
<1>3. made \in Payloads(Texts, OfWorkspace!CommentFields)
  <2>1. made = Put(args, "comment_id", id)
    BY DEF OfWorkspace!Put, Put
  <2>2. OfWorkspace!CommentFields = DOMAIN args \cup {"comment_id"}
    BY DEF OfWorkspace!CommentFields
  <2> HIDE DEF id, made
  <2>3. QED
    BY <1>1, <1>2, <2>1, <2>2, WrittenId
<1>4. done = OfWorkspace!Change(c, s, first, own, id, made)
  BY Zenon DEF OfWorkspace!AddComment
<1>5. IsSession(s)
  BY DEF WorkspaceSessions, IsSession
<1>6. ~(done.session = s /\ done.result.type = "unauthorized_mutation") => s.world = NothingMade
  BY <1>5, CommentRefusals DEF CommentMade
<1> HIDE DEF id, made, own, first, done
<1>7. LET change == OfWorkspace!Change(c, s, first, own, id, made)
      IN  /\ change.session \in WorkspaceSessions(Texts)
          /\ change.result.type \in {"observation", "state_change"} =>
                 Mentions(change.result.payload) \subseteq Texts
  BY <1>2, <1>3, <1>4, <1>6, ChangesKeepTo
<1>8. QED
  BY <1>4, <1>7 DEF done

(* A search answers that it failed, or with an item of the source.              *)
LEMMA SearchedItems ==
  ASSUME NEW c \in Case, NEW Texts, WorkspaceSource(c, Texts), NEW s \in WorkspaceSessions(Texts), NEW args
  PROVE  LET done == OfWorkspace!SearchItems(c, s, args)
         IN  /\ done.session \in WorkspaceSessions(Texts)
             /\ done.result.type \in {"observation", "state_change"} =>
                    Mentions(done.result.payload) \subseteq Texts
<1> DEFINE items == OfWorkspace!Reopen(c.frozen)
           found == c.task.target.item_id
           probed == [s EXCEPT !.probeFailed = TRUE]
           observed == [s EXCEPT !.observed = TRUE]
           done == OfWorkspace!SearchItems(c, s, args)
<1>1. probed \in WorkspaceSessions(Texts) /\ observed \in WorkspaceSessions(Texts)
  BY DEF WorkspaceSessions
<1>2. /\ done.session \in {s, probed, observed}
      /\ \/ done.result.type = "tool_failure"
         \/ /\ found \in DOMAIN items
            /\ done.result.payload = OfWorkspace!ItemObservation(items[found])
  <2>1. \/ \E t \in {s, probed} : done = OfWorkspace!Answer(t, OfWorkspace!Failure("item_not_found"))
        \/ /\ found \in DOMAIN items
           /\ done = OfWorkspace!Answer(observed,
                        OfWorkspace!Observation(OfWorkspace!ItemObservation(items[found])))
    BY Zenon DEF OfWorkspace!SearchItems
  <2> HIDE DEF probed, observed, done, items, found
  <2>2. QED
    BY <2>1 DEF OfWorkspace!Answer, OfWorkspace!Failure, OfWorkspace!Observation
<1>3. found \in DOMAIN items => Mentions(OfWorkspace!ItemObservation(items[found])) \subseteq Texts
  <2> SUFFICES ASSUME found \in DOMAIN items
               PROVE  Mentions(OfWorkspace!ItemObservation(items[found])) \subseteq Texts
    OBVIOUS
  <2> DEFINE item == items[found]
             payload == OfWorkspace!ItemObservation(item)
  <2>1. item.item_id \in Texts /\ item.kind \in Texts /\ item.summary \in Texts
    BY DEF WorkspaceSource
  <2> HIDE DEF item
  <2>2. /\ DOMAIN payload = {"item_id", "kind", "summary"}
        /\ payload["item_id"] = item.item_id /\ payload["kind"] = item.kind
        /\ payload["summary"] = item.summary
    BY DEF OfWorkspace!ItemObservation
  <2> HIDE DEF payload
  <2>3. {"item_id", "kind", "summary"} \cap Listing = {}
    BY TaskAssumption
  <2>4. Mentions(payload) \subseteq Texts
    BY <2>1, <2>2, <2>3, MentionsEachField
  <2>5. QED
    BY <2>4 DEF payload, item
<1> HIDE DEF items, found, probed, observed, done
<1>4. QED
  BY <1>1, <1>2, <1>3 DEF done

LEMMA WorkspaceKeepsTo ==
  ASSUME NEW c \in Case, c.domain = "workspace", NEW Texts, WorkspaceSource(c, Texts),
         NEW s \in WorkspaceSessions(Texts), NEW call, call.tool \in DOMAIN OfWorkspace!Tools(c),
         ValidArguments(OfWorkspace!Tools(c)[call.tool], call.args), Told(Texts, call.args)
  PROVE  LET done == OfWorkspace!Execute(c, s, call)
         IN  /\ done.session \in WorkspaceSessions(Texts)
             /\ done.result.type \in {"observation", "state_change"} =>
                    Mentions(done.result.payload) \subseteq Texts
<1> DEFINE done == OfWorkspace!Execute(c, s, call)
           args == call.args
           Kept(answer) == /\ answer.session \in WorkspaceSessions(Texts)
                           /\ answer.result.type \in {"observation", "state_change"} =>
                                  Mentions(answer.result.payload) \subseteq Texts
<1>1. /\ call.tool \in {"search_workspace_items", "list_workspace_projects", "create_workspace_task",
                        "get_workspace_task", "add_workspace_comment", "get_workspace_comment"}
      /\ call.tool = "create_workspace_task" => DOMAIN args = {"project_id", "title", "priority", "due_label"}
      /\ call.tool = "add_workspace_comment" => DOMAIN args = {"task_id", "comment"}
  BY WorkspaceArguments
<1>2. CASE call.tool = "search_workspace_items"
  <2>1. done = OfWorkspace!SearchItems(c, s, args)
    BY <1>2 DEF OfWorkspace!Execute
  <2> HIDE DEF done
  <2>2. Kept(done)
    BY <2>1, SearchedItems
  <2>3. QED
    BY <2>2 DEF done
<1>3. CASE call.tool = "list_workspace_projects"
  <2> DEFINE t == [s EXCEPT !.listed = TRUE]
             projects == {item.summary : item \in
                              ToSet(OfWorkspace!OfKind(OfWorkspace!Reopen(c.frozen), "project"))}
             payload == [projects |-> projects]
  <2>1. done.session = t /\ done.result = [type |-> "observation", payload |-> payload]
    <3>1. done = OfWorkspace!Answer(t, OfWorkspace!Observation(payload))
      BY <1>3 DEF OfWorkspace!Execute, OfWorkspace!ToSet, ToSet
    <3> HIDE DEF t, payload, done
    <3>2. QED
      BY <3>1 DEF OfWorkspace!Answer, OfWorkspace!Observation
  <2>2. t \in WorkspaceSessions(Texts)
    BY DEF WorkspaceSessions
  <2>3. Mentions(payload) \subseteq Texts
    <3>1. projects \subseteq Texts
      BY Zenon DEF WorkspaceSource
    <3> HIDE DEF projects
    <3>2. DOMAIN payload = {"projects"} /\ payload["projects"] \subseteq Texts /\ "projects" \in Listing
      BY <3>1, TaskAssumption
    <3> HIDE DEF payload
    <3>3. QED
      BY <3>2, MentionsEachField
  <2> HIDE DEF t, done, payload
  <2>4. QED
    BY <2>1, <2>2, <2>3 DEF done
<1>4. CASE call.tool = "create_workspace_task"
  <2>1. done = OfWorkspace!CreateTask(c, s, args)
    BY <1>4 DEF OfWorkspace!Execute
  <2> HIDE DEF done
  <2>2. Kept(done)
    BY <1>1, <1>4, <2>1, TasksKeepTo
  <2>3. QED
    BY <2>2 DEF done
<1>5. CASE call.tool = "add_workspace_comment"
  <2>1. done = OfWorkspace!AddComment(c, s, args)
    BY <1>5 DEF OfWorkspace!Execute
  <2> HIDE DEF done
  <2>2. Kept(done)
    BY <1>1, <1>5, <2>1, CommentsKeepTo
  <2>3. QED
    BY <2>2 DEF done
<1>6. CASE call.tool \in {"get_workspace_task", "get_workspace_comment"}
  <2> DEFINE id == IF call.tool = "get_workspace_task" THEN args.task_id ELSE args.comment_id
  <2>1. /\ done.session = s
        /\ \/ done.result.type = "tool_failure"
           \/ id \in DOMAIN s.world /\ done.result.payload = s.world[id]
    BY <1>6 DEF OfWorkspace!Execute, OfWorkspace!GetMade, OfWorkspace!Answer, OfWorkspace!Observation,
                OfWorkspace!Failure
  <2>2. s.world \in MadeThings(Texts)
    BY DEF WorkspaceSessions
  <2>3. \A k \in DOMAIN s.world : Mentions(s.world[k]) \subseteq Texts
    BY <2>2, MadeThingsAreTold
  <2> HIDE DEF done, id
  <2>4. QED
    BY <2>1, <2>3 DEF done
<1>7. QED
  BY <1>1, <1>2, <1>3, <1>4, <1>5, <1>6

--------------------------------------------------------------------------------
(* The built-in Domains together. *)

(* The frozen state of every case speaks a vocabulary.                          *)
SourcesKeepTo(Texts) ==
    \A c \in Case :
        /\ c.domain = "contacts" => ContactsSource(c, Texts)
        /\ c.domain = "mobile" => MobileSource(c, Texts)
        /\ c.domain = "workspace" => WorkspaceSource(c, Texts)
BuiltinSessions(Texts) ==
    [c \in Case |-> IF c.domain = "contacts" THEN ContactSessions(c, Texts)
                    ELSE IF c.domain = "mobile" THEN MobileSessions(c, Texts)
                    ELSE WorkspaceSessions(Texts)]

LEMMA BuiltinToolsKeepTo ==
  ASSUME \A c \in Case : c.domain \in BuiltinDomainIds, BuiltinDomainsRun,
         NEW Texts, SourcesKeepTo(Texts)
  PROVE  ToolsKeepTo(Texts, BuiltinSessions(Texts))
<1> DEFINE Sessions == BuiltinSessions(Texts)
           Kept(c, done) == /\ done.session \in Sessions[c]
                            /\ done.result.type \in {"observation", "state_change"} =>
                                   Mentions(done.result.payload) \subseteq Texts
<1>1. ASSUME NEW c \in Case
      PROVE  /\ EpisodeStart(c) \in Sessions[c]
             /\ \A session \in Sessions[c] : \A call :
                    Callable(c, call) /\ Told(Texts, call.args) => Kept(c, ExecuteTool(c, session, call))
  <2>1. /\ c.domain \in {"contacts", "mobile", "workspace"}
        /\ EpisodeStart(c) = BuiltinStart(c) /\ EpisodeTools(c) = BuiltinTools(c)
        /\ \A session, call : ExecuteTool(c, session, call) = BuiltinExecute(c, session, call)
    BY DEF BuiltinDomainsRun, BuiltinDomainIds
  <2>2. CASE c.domain = "contacts"
    <3>1. ContactsSource(c, Texts) /\ Sessions[c] = ContactSessions(c, Texts)
      BY <2>2 DEF SourcesKeepTo, BuiltinSessions
    <3>2. EpisodeStart(c) = OfContacts!Fresh(c) /\ EpisodeTools(c) = OfContacts!Tools(c)
      BY <2>1, <2>2 DEF BuiltinStart, BuiltinTools
    <3>3. \A session, call : ExecuteTool(c, session, call) = OfContacts!Execute(c, session, call)
      BY <2>1, <2>2 DEF BuiltinExecute
    <3>4. EpisodeStart(c) \in Sessions[c]
      BY <3>1, <3>2 DEF OfContacts!Fresh, ContactSessions, TablesFrom
    <3> HIDE DEF Sessions
    <3>5. ASSUME NEW session \in Sessions[c], NEW call, Callable(c, call), Told(Texts, call.args)
          PROVE  Kept(c, ExecuteTool(c, session, call))
      BY <3>1, <3>2, <3>3, <3>5, ContactsKeepTo DEF Callable
    <3>6. QED
      BY <3>4, <3>5
  <2>3. CASE c.domain = "mobile"
    <3>1. MobileSource(c, Texts) /\ Sessions[c] = MobileSessions(c, Texts)
      BY <2>3 DEF SourcesKeepTo, BuiltinSessions
    <3>2. EpisodeStart(c) = OfMobile!Fresh(c) /\ EpisodeTools(c) = OfMobile!Tools(c)
      BY <2>1, <2>3 DEF BuiltinStart, BuiltinTools
    <3>3. \A session, call : ExecuteTool(c, session, call) = OfMobile!Execute(c, session, call)
      BY <2>1, <2>3 DEF BuiltinExecute
    <3>4. EpisodeStart(c) \in Sessions[c]
      BY <3>1, <3>2 DEF OfMobile!Fresh, MobileSessions, SavedReminders, SavedDrafts, TablesFrom
    <3> HIDE DEF Sessions
    <3>5. ASSUME NEW session \in Sessions[c], NEW call, Callable(c, call), Told(Texts, call.args)
          PROVE  Kept(c, ExecuteTool(c, session, call))
      BY <2>3, <3>1, <3>2, <3>3, <3>5, MobileKeepsTo DEF Callable
    <3>6. QED
      BY <3>4, <3>5
  <2>4. CASE c.domain = "workspace"
    <3>1. WorkspaceSource(c, Texts) /\ Sessions[c] = WorkspaceSessions(Texts)
      BY <2>4 DEF SourcesKeepTo, BuiltinSessions
    <3>2. EpisodeStart(c) = OfWorkspace!Fresh(c) /\ EpisodeTools(c) = OfWorkspace!Tools(c)
      BY <2>1, <2>4 DEF BuiltinStart, BuiltinTools
    <3>3. \A session, call : ExecuteTool(c, session, call) = OfWorkspace!Execute(c, session, call)
      BY <2>1, <2>4 DEF BuiltinExecute
    <3>4. EpisodeStart(c) \in Sessions[c]
      BY <3>1, <3>2 DEF OfWorkspace!Fresh, WorkspaceSessions, MadeThings, NothingMade
    <3> HIDE DEF Sessions
    <3>5. ASSUME NEW session \in Sessions[c], NEW call, Callable(c, call), Told(Texts, call.args)
          PROVE  Kept(c, ExecuteTool(c, session, call))
      BY <2>4, <3>1, <3>2, <3>3, <3>5, WorkspaceKeepsTo DEF Callable
    <3>6. QED
      BY <3>4, <3>5
  <2>5. QED
    BY <2>1, <2>2, <2>3, <2>4
<1> HIDE DEF Sessions
<1>2. QED
  BY <1>1, Zenon DEF ToolsKeepTo, Sessions

(* The tools of a built-in Domain bring no marker in: MarkerContract asks for   *)
(* nothing but a source and Agents that do not.                                 *)
THEOREM BuiltinToolsDoNotRedact ==
  ASSUME \A c \in Case : c.domain \in BuiltinDomainIds, BuiltinDomainsRun,
         \E Texts : Redacted \notin Texts /\ SourcesKeepTo(Texts) /\ AgentsKeepTo(Texts)
  PROVE  MarkerContract
  BY BuiltinToolsKeepTo DEF MarkerContract

(* So in a run over them no verdict comes of anything but the recorded events:  *)
(* VerdictsAreEarned, of every source and Agent that do not write the marker    *)
(* themselves.                                                                  *)
THEOREM BuiltinVerdictsAreEarned ==
  /\ \A c \in Case : c.domain \in BuiltinDomainIds
  /\ BuiltinDomainsRun /\ BuiltinAssessmentsRun
  /\ \E Texts : Redacted \notin Texts /\ SourcesKeepTo(Texts) /\ AgentsKeepTo(Texts)
  => (Spec => []VerdictsAreEarned)
  BY BuiltinDomainsKeepTheContract, BuiltinAssessmentsGiveReasons, BuiltinToolsDoNotRedact,
     VerdictsAreAlwaysEarned

================================================================================
