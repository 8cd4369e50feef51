---------------------------- MODULE EventDispatch ----------------------------
(***************************************************************************)
(* Events: EventDispatcher asks the registry for the handlers that match   *)
(* an event, in their order, and awaits them one by one.  A handler may    *)
(* publish an event itself, as the two relays of the Team application do:  *)
(* the dispatches under way form a stack, which a cancellation of the      *)
(* request unwinds.  The handlers are the event definitions the linker has *)
(* registered.                                                             *)
(***************************************************************************)
EXTENDS RuntimeLinker

CONSTANT EventKey   \* the events that are published: [app, name], names as sequences

VARIABLES
    dispatches,   \* the dispatches under way, the outermost first
    report        \* the last dispatch that is over, and how it ended

eventVars == <<dispatches, report>>

NoReport == [answer |-> "none", event |-> None, ran |-> <<>>, results |-> <<>>, failures |-> <<>>]

EventInit == dispatches = <<>> /\ report = NoReport

EventPlaces == {i \in DOMAIN registered : registered[i].kind = "event"}
EventDefinitions == {registered[i] : i \in EventPlaces}

-----------------------------------------------------------------------------
(* EventPatternMatcher and InMemoryEventHandlerRegistry.matching. *)

PatternMatches(d, event) ==
    \/ d.pattern.kind = "exact" /\ d.pattern.name = event.name
    \/ d.pattern.kind = "prefix" /\ IsPrefix(d.pattern.name, event.name)

(* An event source is an application, or None for any. *)
Heard(d, event) == PatternMatches(d, event) /\ d.source \in {event.app, None}

Listed(event, anySource, exact) ==
    Picked(registered, {i \in EventPlaces :
        LET d == registered[i]
        IN  /\ Heard(d, event)
            /\ (d.source = None) <=> anySource
            /\ (d.pattern.kind = "exact") <=> exact})

(* Fault: the patterns of one application come after the handlers of any.  *)
MatchingExactFirst(event) ==
    Listed(event, FALSE, TRUE) \o Listed(event, TRUE, TRUE)
        \o Listed(event, FALSE, FALSE) \o Listed(event, TRUE, FALSE)

Matching(event) ==
    Listed(event, FALSE, TRUE) \o Listed(event, FALSE, FALSE)
        \o Listed(event, TRUE, TRUE) \o Listed(event, TRUE, FALSE)

(* RejectUnsupportedLegacyRegexMatcher: one handler registered with a      *)
(* regular expression makes the search for the handlers of any event fail. *)
Matchable == \A d \in EventDefinitions : d.pattern.kind # "regex"

-----------------------------------------------------------------------------
(* EventDispatcher.dispatch. *)

Owner(d) == <<d.app, d.plugin>>

(* `running` is the handler that is awaited, `ran` are those that were,    *)
(* each with its outcome and, a history, the report of the event a relay   *)
(* published.                                                              *)
Dispatch(event) ==
    [event |-> event, todo |-> Matching(event), running |-> None,
     closed |-> {}, results |-> <<>>, failures |-> <<>>, ran |-> <<>>]

Current == Last(dispatches)
Dispatching == dispatches # <<>>

(* The dispatch after its running handler is done; `inner` is the report of *)
(* a relay's event, or NoReport.                                           *)
WithOutcome(d, outcome, value, inner) ==
    LET entry == [handler |-> d.running, outcome |-> outcome, inner |-> inner]
        done == [d EXCEPT !.running = None, !.ran = Append(@, entry)]
    IN  CASE outcome = "none" -> done
          [] outcome = "raised" -> [done EXCEPT !.failures = Append(@, d.running)]
          [] outcome = "returned" ->
                 [done EXCEPT !.results = Append(@, [handler |-> d.running, value |-> value]),
                              !.closed = @ \cup {Owner(d.running)}]

Report(d, answer) ==
    [answer |-> answer, event |-> d.event, ran |-> d.ran, results |-> d.results, failures |-> d.failures]

(* What is left is passed over. *)
Finished(d) == \A i \in DOMAIN d.todo : Owner(d.todo[i]) \in d.closed

(* A dispatch that a request starts. *)
Publish(event) ==
    /\ dispatches = <<>>
    /\ report = NoReport
    /\ IF Matchable
       THEN dispatches' = <<Dispatch(event)>> /\ UNCHANGED report
       ELSE report' = [NoReport EXCEPT !.answer = "regex", !.event = event] /\ UNCHANGED dispatches
    /\ UNCHANGED linkerVars

(* The next handler whose owner has not answered is awaited. *)
CallHandler ==
    /\ Dispatching
    /\ Current.running = None
    /\ LET d == Current
           open == {i \in DOMAIN d.todo : Owner(d.todo[i]) \notin d.closed}
       IN  /\ open # {}
           /\ dispatches' = Append(Front(dispatches),
                  [d EXCEPT !.running = d.todo[Min(open)],
                            !.todo = SubSeq(d.todo, Min(open) + 1, Len(d.todo))])
    /\ UNCHANGED <<report, linkerVars>>

(* What the handlers of the code can come to.  The cleaner of private      *)
(* rights returns nothing; so does the relay of deletions, while the relay *)
(* of collections always returns.  Any other handler may do anything.      *)
Outcomes(d) ==
    IF d.handler \in {"private_rights", "relay_delete"} THEN {"none", "raised"}
    ELSE {"none", "returned", "raised"}

Relays(d) == d.handler \in {"relay_delete", "relay_collection"}
RelayedEvent(d) ==
    [app |-> "team", name |-> IF d.handler = "relay_delete" THEN <<"contacts", "delete">>
                                                           ELSE <<"contacts", "collection">>]

(* A handler of a package answers. *)
Handle(outcome) ==
    /\ Dispatching
    /\ LET d == Current
       IN  /\ d.running # None
           /\ ~Relays(d.running)
           /\ outcome \in Outcomes(d.running)
           /\ dispatches' = Append(Front(dispatches), WithOutcome(d, outcome, TRUE, NoReport))
    /\ UNCHANGED <<report, linkerVars>>

(* What a relay comes to when its own event is over: the one returns       *)
(* `value`, the other nothing, and an error is raised in both.             *)
RelayOutcome(relay, answer) ==
    IF answer = "unsupported" THEN "raised"
    ELSE IF relay.handler = "relay_delete" THEN "none"
    ELSE "returned"

(* The innermost dispatch is over, and with it the relay that waits for it.*)
EndsWith(answer, value) ==
    /\ report' = Report(Current, answer)
    /\ dispatches' =
           IF Len(dispatches) = 1 THEN <<>>
           ELSE LET outer == Last(Front(dispatches))
                IN  Append(Front(Front(dispatches)),
                           WithOutcome(outer, RelayOutcome(outer.running, answer), value, Report(Current, answer)))
    /\ UNCHANGED linkerVars

(* A handler of a package answers with what is neither of the two outcomes *)
(* a handler has: an AssertionError ends the dispatch.                     *)
HandleUnsupported ==
    /\ Dispatching
    /\ Current.running # None
    /\ Current.running.handler \notin {"private_rights", "relay_delete", "relay_collection"}
    /\ EndsWith("unsupported", FALSE)

(* A relay publishes the event of the Team application. *)
RelayEvent ==
    /\ Dispatching
    /\ Current.running # None
    /\ Relays(Current.running)
    /\ dispatches' = Append(dispatches, Dispatch(RelayedEvent(Current.running)))
    /\ UNCHANGED <<report, linkerVars>>

(* Fault: a relay answers if a handler of its event ran, result or not.    *)
EndDispatchRan ==
    /\ Dispatching
    /\ Current.running = None
    /\ Finished(Current)
    /\ EndsWith("done", Current.ran # <<>>)

(* A dispatch with no handler left reports; a relay's answer is whether    *)
(* there were results.                                                     *)
EndDispatch ==
    /\ Dispatching
    /\ Current.running = None
    /\ Finished(Current)
    /\ EndsWith("done", Current.results # <<>>)

(* The request is cancelled: a cancellation is no Exception, no dispatch   *)
(* catches it.                                                             *)
CancelDispatch ==
    /\ Dispatching
    /\ report' = Report(dispatches[1], "cancelled")
    /\ dispatches' = <<>>
    /\ UNCHANGED linkerVars

(* The publisher takes its report, or the exception. *)
TakeReport ==
    /\ ~Dispatching
    /\ report # NoReport
    /\ report' = NoReport
    /\ UNCHANGED <<dispatches, linkerVars>>

EventStep ==
    \/ CallHandler
    \/ (\E o \in {"none", "returned", "raised"} : Handle(o))
    \/ HandleUnsupported
    \/ RelayEvent
    \/ EndDispatch
    \/ TakeReport

-----------------------------------------------------------------------------
(* Properties. *)

(* The precedence of handlers, as a relation: the application's before     *)
(* those for any, exact names before patterns, first come first served.    *)
Position(d) == CHOOSE i \in DOMAIN registered : registered[i] = d
Before(d, e) ==
    LET any(x) == x.source = None
        loose(x) == x.pattern.kind # "exact"
    IN  \/ ~any(d) /\ any(e)
        \/ (any(d) <=> any(e)) /\ ~loose(d) /\ loose(e)
        \/ (any(d) <=> any(e)) /\ (loose(d) <=> loose(e)) /\ Position(d) < Position(e)

Said(d, i) == d.ran[i].outcome
Ran(d) == {d.ran[i].handler : i \in DOMAIN d.ran}

(* What is asked of a dispatch at any time, and when it is over. *)
InPrecedence(d) ==
    /\ \A i, j \in DOMAIN d.ran : i < j => Before(d.ran[i].handler, d.ran[j].handler)
    /\ \A i, j \in DOMAIN d.ran :
          i < j /\ Owner(d.ran[i].handler) = Owner(d.ran[j].handler) => Said(d, i) # "returned"
    /\ \A i \in DOMAIN d.ran : Heard(d.ran[i].handler, d.event)
    /\ {d.results[i].handler : i \in DOMAIN d.results} =
           {d.ran[i].handler : i \in {k \in DOMAIN d.ran : Said(d, k) = "returned"}}

NobodyLeftOut(d) ==
    \A h \in EventDefinitions :
        Heard(h, d.event) /\ h \notin Ran(d) =>
            \E i \in DOMAIN d.ran :
                /\ Said(d, i) = "returned"
                /\ Owner(d.ran[i].handler) = Owner(h)
                /\ Before(d.ran[i].handler, h)

(* What a relay comes to, of its own event. *)
RelaysAnswer(d) ==
    /\ \A i \in DOMAIN d.ran :
          LET relay == d.ran[i].handler
              inner == d.ran[i].inner
          IN  Relays(relay) =>
                 /\ inner.event = RelayedEvent(relay)
                 /\ InPrecedence(inner)
                 /\ CASE inner.answer = "done" ->
                            /\ NobodyLeftOut(inner)
                            /\ Said(d, i) = (IF relay.handler = "relay_collection" THEN "returned" ELSE "none")
                      [] inner.answer = "unsupported" -> Said(d, i) = "raised"
    /\ \A k \in DOMAIN d.results :
          Relays(d.results[k].handler) =>
              \E i \in DOMAIN d.ran :
                  LET inner == d.ran[i].inner
                  IN  /\ d.ran[i].handler = d.results[k].handler
                      /\ d.results[k].value <=> \E j \in DOMAIN inner.ran : Said(inner, j) = "returned"

(* Each owner of handlers answers an event at most once, and by the first  *)
(* of its handlers that answers at all: no handler runs out of its         *)
(* precedence or after its owner's answer; and when the event is over, a   *)
(* handler that heard it and did not run had its owner's answer before it, *)
(* so that a handler that raises, or returns nothing, silences nobody.     *)
(* The two relays publish events of the Team application, which keep the   *)
(* same rules: the answer of the one says whether a handler of its event   *)
(* answered, never whether one of the event it relays did, and the other   *)
(* never answers; an event that ends in an error is a relay that raised,   *)
(* and the event it relays goes on.                                        *)
AnsweredOncePerOwner ==
    /\ \A i \in DOMAIN dispatches : InPrecedence(dispatches[i]) /\ RelaysAnswer(dispatches[i])
    /\ report.answer = "done" => InPrecedence(report) /\ NobodyLeftOut(report) /\ RelaysAnswer(report)
=============================================================================
