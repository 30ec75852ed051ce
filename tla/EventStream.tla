---------------------------- MODULE EventStream ----------------------------
(***************************************************************************)
(* createSseClient and makeSseFn of the generated client: an asynchronous  *)
(* generator that connects, reads the server's events in whatever pieces   *)
(* the network cuts them into, and connects again when something fails.    *)
(* It runs while other code uses the client: every request passes through  *)
(* the interceptors that are registered as it is built.                    *)
(*                                                                         *)
(* An event is sent as three parts: its first line, which is the id line   *)
(* of an event with an id, up to the CR; that line's LF; and the rest, to  *)
(* where the event is complete.  The generator turns CR LF into LF in what *)
(* it has read: a CR at the end of a read becomes a line end of its own,   *)
(* and the LF that comes next is a blank line, which ends the event.       *)
(* Between two steps of the generator lies an await or a yield, or other   *)
(* code could not tell the two from one.                                   *)
(***************************************************************************)
EXTENDS ApiClient, SequencesExt

CONSTANTS Events, WithId, Rejected, Silent,  \* the server's log, as in EventFeed
          Crlf,                 \* the server ends its lines with CR LF, not LF
          Fns,                  \* interceptors that code may register
          MaxSlots,             \* bound: slots of the registry
          MaxChunk,             \* bound: parts that one read returns
          sseMaxRetryAttempts

ASSUME StreamAssumption ==
    /\ Events \in Nat
    /\ {WithId, Rejected, Silent} \subseteq SUBSET (1..Events)
    /\ Rejected \cap Silent = {}
    /\ Crlf \in BOOLEAN
    /\ NoInterceptor \notin Fns
    /\ sseMaxRetryAttempts \in Nat \ {0}

VARIABLES
    pc,           \* where the generator is
    attempt, lastEventId, aborted,
    received,     \* parts read on this connection, counted from the log's begin
    idLine,       \* the event whose first line the last read made an event of
                  \* its own, until that is handled: 0 for none
    pending,      \* events of the last read that are not handled yet, behind it
    fns,          \* interceptors.request.fns
    turn,         \* the loop over the interceptors: [i, array]
    handled,      \* history: the last event this connection handled
    yielded,      \* history: the last event the consumer was given
    ran, kept     \* history: interceptors the request went through, and those
                  \* registered from its start on

stream == <<attempt, lastEventId, received, idLine, pending, handled, yielded>>
request == <<turn, ran, kept>>
vars == <<pc, stream, aborted, fns, request>>

\* for..of goes over the array it began with: the registry's own, which use,
\* eject and update change in place, until clear() gives the registry a new one.
Live == <<>>
Array == IF turn.array = Live THEN fns ELSE turn.array

Registered(array) == ToSet(array) \ {NoInterceptor}

Init ==
    /\ pc = "top" /\ attempt = 0 /\ lastEventId = 0 /\ aborted = FALSE
    /\ received = 0 /\ idLine = 0 /\ pending = <<>> /\ handled = 0 /\ yielded = 0
    /\ fns = <<>>
    /\ turn = [i |-> 1, array |-> Live] /\ ran = {} /\ kept = {}

-----------------------------------------------------------------------------
(* The registry, changed by any code that holds the client. *)

Use(f) ==
    /\ f \notin Registered(fns) /\ Len(fns) < MaxSlots
    /\ fns' = use(fns, f)
    /\ UNCHANGED <<pc, stream, aborted, request>>

Eject(id) ==
    /\ exists(fns, id)
    /\ fns' = eject(fns, id)
    /\ kept' = kept \ {fns[id]}
    /\ UNCHANGED <<pc, stream, aborted, turn, ran>>

Update(id, f) ==
    /\ exists(fns, id) /\ f \notin Registered(fns)
    /\ fns' = update(fns, id, f)
    /\ kept' = kept \ {fns[id]}
    /\ UNCHANGED <<pc, stream, aborted, turn, ran>>

Clear ==
    /\ fns # <<>>
    /\ fns' = clear(fns)
    /\ turn' = IF turn.array = Live THEN [turn EXCEPT !.array = fns] ELSE turn
    /\ kept' = {}
    /\ UNCHANGED <<pc, stream, aborted, ran>>

-----------------------------------------------------------------------------
(* The generator. *)

\* catch: give up at the last attempt, else sleep.
FailOneLate ==
    pc' = IF attempt > sseMaxRetryAttempts THEN "done" ELSE "sleeping"

Fail ==
    pc' = IF attempt >= sseMaxRetryAttempts THEN "done" ELSE "sleeping"

\* The head of the loop.  The buffer is new; Last-Event-ID is lastEventId.
Connect ==
    /\ pc = "top" /\ ~aborted
    /\ pc' = "intercepting"
    /\ attempt' = attempt + 1
    /\ turn' = [i |-> 1, array |-> Live]
    /\ ran' = {} /\ kept' = Registered(fns)
    /\ UNCHANGED <<lastEventId, received, idLine, pending, handled, yielded, aborted, fns>>

LeaveAborted ==
    /\ pc = "top" /\ aborted
    /\ pc' = "done"
    /\ UNCHANGED <<stream, aborted, fns, request>>

\* onRequest: the next interceptor is awaited; it returns or throws.
Intercept ==
    /\ pc = "intercepting" /\ turn.i \in DOMAIN Array
    /\ turn' = [turn EXCEPT !.i = @ + 1]
    /\ \/ Array[turn.i] = NoInterceptor /\ UNCHANGED <<pc, ran>>
       \/ /\ Array[turn.i] # NoInterceptor
          /\ ran' = ran \cup {Array[turn.i]}
          /\ pc' = pc \/ Fail
    /\ UNCHANGED <<stream, aborted, fns, kept>>

Fetch ==
    /\ pc = "intercepting" /\ turn.i \notin DOMAIN Array
    /\ pc' = "connecting"
    /\ UNCHANGED <<stream, aborted, fns, request>>

\* A server that honours Last-Event-ID sends what lies behind it.
Connected ==
    /\ pc = "connecting" /\ ~aborted
    /\ pc' = "reading"
    /\ received' = 3 * lastEventId
    /\ idLine' = 0 /\ pending' = <<>>
    /\ handled' = lastEventId
    /\ UNCHANGED <<attempt, lastEventId, yielded, aborted, fns, request>>

\* No connection, a status that is not ok, no body, or the signal.
RefusedWithoutSignal ==
    /\ pc = "connecting" /\ ~aborted
    /\ Fail
    /\ UNCHANGED <<stream, aborted, fns, request>>

Refused ==
    /\ pc = "connecting"
    /\ Fail
    /\ UNCHANGED <<stream, aborted, fns, request>>

\* All that the last read completed is handled.
Drained == idLine = 0 /\ pending = <<>>

\* A read returns some parts: the events they complete are split off.  Behind a
\* CR that ended the read before, the LF completes the line before it.
Read ==
    /\ pc = "reading" /\ Drained /\ ~aborted
    /\ \E n \in 1..MaxChunk :
        /\ received + n <= 3 * Events
        /\ received' = received + n
        /\ pending' = [k \in 1..((received + n) \div 3 - received \div 3) |->
                            received \div 3 + k]
    /\ idLine' = IF Crlf /\ received % 3 = 1 THEN received \div 3 + 1 ELSE 0
    /\ UNCHANGED <<pc, attempt, lastEventId, handled, yielded, aborted, fns, request>>

\* An event that is a first line and no more: an id is remembered, and for want
\* of data nothing is yielded.
ParseIdLine ==
    /\ pc = "reading" /\ idLine # 0
    /\ lastEventId' = IF idLine \in WithId THEN idLine ELSE lastEventId
    /\ idLine' = 0
    /\ UNCHANGED <<pc, attempt, received, pending, handled, yielded, aborted, fns, request>>

\* The lines of one event: its id is remembered, then its data is validated,
\* and yielded if there is any.  Of one whose first line was handled before it,
\* this is the rest, and remembers the same id.
ParseBeforeId ==
    /\ pc = "reading" /\ idLine = 0 /\ pending # <<>>
    /\ handled' = Head(pending)
    /\ pending' = Tail(pending)
    /\ \/ /\ Head(pending) \in Rejected
          /\ Fail
          /\ UNCHANGED <<yielded, lastEventId>>
       \/ /\ Head(pending) \in Silent
          /\ lastEventId' = IF Head(pending) \in WithId THEN Head(pending) ELSE lastEventId
          /\ UNCHANGED <<pc, yielded>>
       \/ /\ Head(pending) \notin Rejected \cup Silent
          /\ lastEventId' = IF Head(pending) \in WithId THEN Head(pending) ELSE lastEventId
          /\ yielded' = Head(pending)
          /\ pc' = "yielded"
    /\ UNCHANGED <<attempt, received, idLine, aborted, fns, request>>

Parse ==
    /\ pc = "reading" /\ idLine = 0 /\ pending # <<>>
    /\ lastEventId' = IF Head(pending) \in WithId THEN Head(pending) ELSE lastEventId
    /\ handled' = Head(pending)
    /\ pending' = Tail(pending)
    /\ \/ Head(pending) \in Rejected /\ Fail /\ UNCHANGED yielded
       \/ Head(pending) \in Silent /\ UNCHANGED <<pc, yielded>>
       \/ /\ Head(pending) \notin Rejected \cup Silent
          /\ yielded' = Head(pending)
          /\ pc' = "yielded"
    /\ UNCHANGED <<attempt, received, idLine, aborted, fns, request>>

\* The server ends the stream, or the abort handler cancels the reader: the
\* loop is left, and what the buffer holds is dropped.
StreamEnds ==
    /\ pc = "reading" /\ Drained
    /\ pc' = "done"
    /\ UNCHANGED <<stream, aborted, fns, request>>

\* The connection breaks, or the signal errors the body first.
StreamBreaks ==
    /\ pc = "reading" /\ Drained
    /\ Fail
    /\ UNCHANGED <<stream, aborted, fns, request>>

\* The backoff is slept through, whatever the signal says.
WakeUp ==
    /\ pc = "sleeping"
    /\ pc' = "top"
    /\ UNCHANGED <<stream, aborted, fns, request>>

-----------------------------------------------------------------------------
(* The consumer. *)

\* for await asks for the next event.
Pull ==
    /\ pc = "yielded"
    /\ pc' = "reading"
    /\ UNCHANGED <<stream, aborted, fns, request>>

\* The consumer leaves its loop: return() runs the finally block.
Return ==
    /\ pc = "yielded"
    /\ pc' = "done"
    /\ UNCHANGED <<stream, aborted, fns, request>>

Abort ==
    /\ ~aborted
    /\ aborted' = TRUE
    /\ UNCHANGED <<pc, stream, fns, request>>

Generator ==
    \/ Connect \/ LeaveAborted \/ Intercept \/ Fetch \/ Connected \/ Refused
    \/ Read \/ ParseIdLine \/ Parse \/ StreamEnds \/ StreamBreaks \/ WakeUp

\* The registry is left alone once the stream is over.
Next ==
    \/ Generator \/ Pull \/ Return \/ Abort
    \/ pc # "done" /\
        \/ \E f \in Fns : Use(f)
        \/ \E id \in DOMAIN fns : Eject(id)
        \/ \E id \in DOMAIN fns, f \in Fns : Update(id, f)
        \/ Clear

Spec == Init /\ [][Next]_vars

\* Awaited things settle: interceptors, an aborted fetch, a read of a
\* cancelled reader, timers; and the consumer keeps asking.  A server may be
\* silent for ever: nothing is assumed of reads before the abort.
FairSpec == Spec /\ WF_vars(aborted /\ Generator) /\ WF_vars(Pull)

-----------------------------------------------------------------------------
(* Properties. *)

TypeOK ==
    /\ pc \in {"top", "intercepting", "connecting", "reading", "yielded", "sleeping", "done"}
    /\ attempt \in 0..sseMaxRetryAttempts
    /\ lastEventId \in {0} \cup WithId
    /\ aborted \in BOOLEAN
    /\ received \in 0..(3 * Events)
    /\ idLine \in 0..Events
    /\ pending \in Seq(1..Events)
    /\ fns \in Seq(Fns \cup {NoInterceptor})
    /\ turn \in [i : Nat \ {0}, array : Seq(Fns \cup {NoInterceptor})]
    /\ handled \in 0..Events /\ yielded \in 0..Events
    /\ ran \subseteq Fns /\ kept \subseteq Fns

\* The stream is the feed EventFeed describes, however reads cut the events and
\* wherever connections break: events come in their order, only those without
\* an id come twice, and none is lost, but for one that a read cuts between the
\* CR and the LF of its id line just before the connection breaks.
Feed == INSTANCE EventFeed WITH at <- handled, last <- yielded, over <- (pc = "done")
FeedSpec == Feed!FeedSpec

\* "normalize line endings": a server that ends its lines with CR LF feeds the
\* consumer like one that ends them with LF, which loses no event.
Normalized == INSTANCE EventFeed
                WITH Crlf <- FALSE,
                     at <- handled, last <- yielded, over <- (pc = "done")
LineEndsNormalized == Normalized!FeedSpec

\* A request is sent after every interceptor that was registered when it was
\* begun and still is: another one ejected meanwhile makes it skip none.
InterceptorsRun == pc = "connecting" => kept \subseteq ran

\* An abort ends the stream wherever it meets it: in an interceptor, in the
\* fetch, in a read, between two events of a read, or asleep.
AbortEndsStream == aborted ~> pc = "done"

=============================================================================
