--------------------------- MODULE EventStreamProofs ---------------------------
(***************************************************************************)
(* Proofs about EventStream, for any log, any interceptors, any cuts of    *)
(* the stream and any number of attempts: types, interceptors, and that    *)
(* the generator implements EventFeed.                                     *)
(***************************************************************************)
EXTENDS EventStream, SequenceTheorems, TLAPS

\* There is an attempt left wherever the generator may connect again.
AttemptsLeft == pc \in {"top", "sleeping"} => attempt < sseMaxRetryAttempts

\* The generator would resume behind what it handled last, but for events
\* without an id; or behind the next event, of which it knows the id alone.
Cursor ==
    \/ Feed!ResumesFrom(lastEventId, handled)
    \/ Crlf /\ handled + 1 \in WithId /\ lastEventId = handled + 1

\* The pending events are the ones that follow, up to the last complete one; an
\* id line that stands alone is that of the next.
ReadAhead ==
    pc \in {"reading", "yielded"} =>
        /\ idLine \in {0, handled + 1}
        /\ idLine # 0 => Crlf
        /\ handled + Len(pending) = received \div 3
        /\ \A k \in 1..Len(pending) : pending[k] = handled + k

\* The interceptors the request still owes are ahead in the registry; after
\* clear() it owes none.
Ahead ==
    /\ turn.array # Live => kept = {}
    /\ pc = "intercepting" =>
        \A f \in kept \ ran : \E j \in turn.i..Len(fns) : fns[j] = f
    /\ pc = "connecting" => kept \subseteq ran

StreamInv == TypeOK /\ AttemptsLeft /\ Cursor /\ ReadAhead /\ Ahead

Slots == Fns \cup {NoInterceptor}

-----------------------------------------------------------------------------
(* Parts and events.                                                       *)

\* Three parts make an event.
LEMMA Thirds ==
    ASSUME NEW a \in Nat, NEW b \in Nat, a <= b
    PROVE  /\ a \div 3 \in Nat /\ b \div 3 \in Nat
           /\ a \div 3 <= b \div 3
           /\ (3 * a) \div 3 = a
           /\ a < 3 * b => a \div 3 < b
OBVIOUS

\* What the server's log and the client's limits are.
LEMMA Constants ==
    /\ Events \in Nat
    /\ WithId \subseteq 1..Events
    /\ sseMaxRetryAttempts \in Nat \ {0}
    /\ NoInterceptor \notin Fns
BY StreamAssumption

-----------------------------------------------------------------------------
(* The registry.                                                           *)

\* A handle that exists is the index of an interceptor.
LEMMA HandleExists ==
    ASSUME NEW s \in Seq(Slots), NEW id, exists(s, id)
    PROVE  id \in 1..Len(s) /\ s[id] \in Fns
<1>1. (IF id \in DOMAIN s /\ s[id] # NoInterceptor THEN id ELSE 0) # 0
  BY DEF exists, getInterceptorIndex
<1>2. id \in DOMAIN s /\ s[id] # NoInterceptor
  BY <1>1
<1>3. DOMAIN s = 1..Len(s)
  BY LenProperties
<1> QED BY <1>2, <1>3, ElementOfSeq DEF Slots

\* What is registered are interceptors, each in some slot.
LEMMA RegisteredSlots ==
    ASSUME NEW s \in Seq(Slots)
    PROVE  /\ Registered(s) \subseteq Fns
           /\ \A f \in Registered(s) : \E j \in 1..Len(s) : s[j] = f
           /\ \A j \in 1..Len(s) : s[j] \in Fns => s[j] \in Registered(s)
<1>1. DOMAIN s = 1..Len(s)
  BY LenProperties
<1>2. \A j \in 1..Len(s) : s[j] \in Slots
  BY ElementOfSeq
<1> QED BY <1>1, <1>2, Constants DEF Registered, ToSet, Slots

-----------------------------------------------------------------------------
(* The invariant.  What an action leaves alone keeps its part of it.       *)

LEMMA InitInv == Init => StreamInv
<1> SUFFICES ASSUME Init PROVE StreamInv
  OBVIOUS
<1>1. <<>> \in Seq(Slots) /\ <<>> \in Seq(1..Events) /\ Len(<<>>) = 0
  BY EmptySeq
<1>2. TypeOK
  <2>1. 0 \in 0..sseMaxRetryAttempts /\ 0 \in 0..(3 * Events) /\ 0 \in 0..Events /\ 1 \in Nat \ {0}
    BY Constants
  <2>2. turn \in [i : Nat \ {0}, array : Seq(Slots)]
    BY <1>1, <2>1 DEF Init, Live
  <2> QED BY <1>1, <2>1, <2>2 DEF Init, TypeOK, Slots
<1>3. AttemptsLeft /\ Cursor /\ ReadAhead /\ Ahead
  BY Constants DEF Init, AttemptsLeft, Cursor, Feed!ResumesFrom, ReadAhead, Ahead
<1> QED BY <1>2, <1>3 DEF StreamInv

\* catch leads to where an attempt is left, or to the end.
LEMMA FailLeads ==
    ASSUME StreamInv, Fail, attempt' = attempt
    PROVE  /\ pc' \in {"sleeping", "done"}
           /\ AttemptsLeft'
<1>1. attempt \in Nat /\ sseMaxRetryAttempts \in Nat
  BY Constants DEF StreamInv, TypeOK
<1> QED BY <1>1 DEF Fail, AttemptsLeft

\* The registry and the loop over it, untouched.
LEMMA AheadKept ==
    ASSUME StreamInv, UNCHANGED <<fns, request>>,
           pc' = pc \/ pc' \notin {"intercepting", "connecting"}
    PROVE  Ahead'
BY DEF StreamInv, Ahead, request

\* The cursor and what was read, untouched.
LEMMA ReadKept ==
    ASSUME StreamInv, UNCHANGED <<lastEventId, received, idLine, pending, handled>>,
           pc' \in {"reading", "yielded"} => pc \in {"reading", "yielded"}
    PROVE  Cursor' /\ ReadAhead'
BY DEF StreamInv, Cursor, Feed!ResumesFrom, ReadAhead

\* The registry changes while the generator stands still.
LEMMA RegistryInv ==
    ASSUME StreamInv, UNCHANGED <<pc, stream, aborted, ran>>,
           fns' \in Seq(Slots), kept' \subseteq kept, turn' \in [i : {turn.i}, array : Seq(Slots)],
           turn'.array # Live => kept' = {},
           \A f \in kept' \ ran : \A j \in 1..Len(fns) :
                fns[j] = f => j \in 1..Len(fns') /\ fns'[j] = f
    PROVE  StreamInv'
<1>1. TypeOK'
  BY DEF StreamInv, TypeOK, stream, Slots
<1>2. AttemptsLeft' /\ Cursor' /\ ReadAhead'
  BY ReadKept DEF StreamInv, AttemptsLeft, stream
<1>3. Ahead'
  <2>1. ASSUME pc = "intercepting", NEW f \in kept' \ ran
        PROVE  \E j \in turn.i..Len(fns') : fns'[j] = f
    <3>1. PICK j \in turn.i..Len(fns) : fns[j] = f
      BY <2>1 DEF StreamInv, Ahead
    <3>2. turn.i \in Nat \ {0} /\ Len(fns) \in Nat /\ Len(fns') \in Nat
      BY LenProperties DEF StreamInv, TypeOK, Slots
    <3>3. j \in 1..Len(fns)
      BY <3>2
    <3>4. j \in 1..Len(fns') /\ fns'[j] = f
      BY <3>1, <3>3
    <3> QED BY <3>2, <3>4
  <2>2. turn'.i = turn.i
    OBVIOUS
  <2>3. pc = "connecting" => kept' \subseteq ran
    BY DEF StreamInv, Ahead
  <2> QED BY <2>1, <2>2, <2>3 DEF Ahead
<1> QED BY <1>1, <1>2, <1>3 DEF StreamInv

LEMMA UseInv ==
    ASSUME StreamInv, NEW f \in Fns, Use(f)
    PROVE  StreamInv'
<1>1. fns \in Seq(Slots) /\ turn \in [i : {turn.i}, array : Seq(Slots)]
  BY DEF StreamInv, TypeOK, Slots
<1>2. fns' = use(fns, f) /\ UNCHANGED <<pc, stream, aborted, ran, kept, turn>>
  BY DEF Use, request
<1>3. turn.array # Live => kept = {}
  BY DEF StreamInv, Ahead
<1>4. f \in Slots /\ fns' = Append(fns, f)
  BY <1>2 DEF Slots, use
<1>5. /\ fns' \in Seq(Slots)
      /\ \A j \in 1..Len(fns) : j \in 1..Len(fns') /\ fns'[j] = fns[j]
  BY <1>1, <1>4, AppendProperties, LenProperties
<1> QED BY <1>1, <1>2, <1>3, <1>5, RegistryInv

\* A slot is written whose interceptor is not kept.
LEMMA WriteInv ==
    ASSUME StreamInv, NEW id, exists(fns, id), NEW f \in Fns,
           fns' \in {eject(fns, id), update(fns, id, f)},
           kept' = kept \ {fns[id]},
           UNCHANGED <<pc, stream, aborted, turn, ran>>
    PROVE  StreamInv'
<1>1. fns \in Seq(Slots) /\ turn \in [i : {turn.i}, array : Seq(Slots)]
  BY DEF StreamInv, TypeOK, Slots
<1>2. PICK x \in Slots : fns' = [fns EXCEPT ![id] = x]
  BY DEF eject, update, Slots
<1>3. id \in 1..Len(fns)
  BY <1>1, HandleExists
<1>4. /\ fns' \in Seq(Slots) /\ Len(fns') = Len(fns)
      /\ \A j \in 1..Len(fns) : j # id => fns'[j] = fns[j]
  BY <1>1, <1>2, <1>3, ExceptSeq
<1>5. turn.array # Live => kept = {}
  BY DEF StreamInv, Ahead
<1> QED BY <1>1, <1>4, <1>5, RegistryInv

LEMMA EjectInv ==
    ASSUME StreamInv, NEW id \in DOMAIN fns, Eject(id)
    PROVE  StreamInv'
<1>1. fns[id] \in Fns
  BY HandleExists DEF StreamInv, TypeOK, Slots, Eject
<1> QED BY <1>1, WriteInv DEF Eject

LEMMA UpdateInv ==
    ASSUME StreamInv, NEW id \in DOMAIN fns, NEW f \in Fns, Update(id, f)
    PROVE  StreamInv'
BY WriteInv DEF Update

LEMMA ClearInv == StreamInv /\ Clear => StreamInv'
<1> SUFFICES ASSUME StreamInv, Clear PROVE StreamInv'
  OBVIOUS
<1>1. fns' = <<>> /\ kept' = {} /\ UNCHANGED <<pc, stream, aborted, ran>>
  BY DEF Clear, clear
<1>2. turn' \in [i : {turn.i}, array : Seq(Slots)]
  BY DEF StreamInv, TypeOK, Slots, Clear
<1> QED BY <1>1, <1>2, EmptySeq, RegistryInv

-----------------------------------------------------------------------------
(* The generator. *)

LEMMA ConnectInv == StreamInv /\ Connect => StreamInv'
<1> SUFFICES ASSUME StreamInv, Connect PROVE StreamInv'
  OBVIOUS
<1>1. fns \in Seq(Slots) /\ fns' = fns
  BY DEF StreamInv, TypeOK, Slots, Connect
<1>2. attempt' \in 0..sseMaxRetryAttempts
  BY Constants DEF StreamInv, TypeOK, AttemptsLeft, Connect
<1>3. turn' \in [i : Nat \ {0}, array : Seq(Slots)] /\ turn'.array = Live /\ turn'.i = 1
  BY EmptySeq DEF Connect, Live
<1>4. TypeOK'
  BY <1>1, <1>2, <1>3, RegisteredSlots DEF StreamInv, TypeOK, Connect, Slots
<1>5. Cursor' /\ ReadAhead'
  BY ReadKept DEF Connect
<1>6. AttemptsLeft'
  BY DEF Connect, AttemptsLeft
<1>7. Ahead'
  BY <1>1, <1>3, RegisteredSlots DEF Connect, Ahead
<1> QED BY <1>4, <1>5, <1>6, <1>7 DEF StreamInv

LEMMA LeaveAbortedInv == StreamInv /\ LeaveAborted => StreamInv'
<1> SUFFICES ASSUME StreamInv, LeaveAborted PROVE StreamInv'
  OBVIOUS
<1>1. TypeOK' /\ AttemptsLeft'
  BY DEF StreamInv, TypeOK, AttemptsLeft, LeaveAborted, stream, request
<1>2. Cursor' /\ ReadAhead'
  BY ReadKept DEF LeaveAborted, stream
<1>3. Ahead'
  BY AheadKept DEF LeaveAborted
<1> QED BY <1>1, <1>2, <1>3 DEF StreamInv

LEMMA InterceptInv == StreamInv /\ Intercept => StreamInv'
<1> SUFFICES ASSUME StreamInv, Intercept PROVE StreamInv'
  OBVIOUS
<1>1. /\ turn \in [i : Nat \ {0}, array : Seq(Slots)] /\ fns \in Seq(Slots)
      /\ turn' = [turn EXCEPT !.i = @ + 1]
      /\ UNCHANGED <<stream, aborted, fns, kept>>
  BY DEF StreamInv, TypeOK, Slots, Intercept
<1>2. Array \in Seq(Slots)
  BY <1>1 DEF Array
<1>3. turn.i \in 1..Len(Array) /\ Array[turn.i] \in Slots
  BY <1>2, LenProperties, ElementOfSeq DEF Intercept
<1>4. pc' = "intercepting" \/ (pc' \in {"sleeping", "done"} /\ AttemptsLeft')
  BY <1>1, FailLeads DEF Intercept, stream
<1>5. TypeOK'
  <2>1. turn' \in [i : Nat \ {0}, array : Seq(Slots)]
    BY <1>1
  <2>2. ran' \subseteq Fns
    BY <1>3 DEF StreamInv, TypeOK, Intercept, Slots
  <2>3. pc' \in {"intercepting", "sleeping", "done"}
    BY <1>4
  <2> QED BY <1>1, <2>1, <2>2, <2>3 DEF StreamInv, TypeOK, stream, Slots
<1>6. AttemptsLeft'
  BY <1>4 DEF AttemptsLeft
<1>7. Cursor' /\ ReadAhead'
  BY <1>1, <1>4, ReadKept DEF stream
<1>8. Ahead'
  <2>1. turn'.array # Live => kept' = {}
    BY <1>1 DEF StreamInv, Ahead
  <2>2. ASSUME NEW f \in kept' \ ran'
        PROVE  \E j \in turn'.i..Len(fns') : fns'[j] = f
    <3>1. f \in kept \ ran /\ f # NoInterceptor
      BY <1>1, <2>2, Constants DEF StreamInv, TypeOK, Intercept
    <3>2. PICK j \in turn.i..Len(fns) : fns[j] = f
      BY <3>1 DEF StreamInv, Ahead, Intercept
    <3>3. Array = fns
      BY <3>1 DEF StreamInv, Ahead, Array
    <3>4. j # turn.i
      BY <2>2, <3>1, <3>2, <3>3 DEF Intercept
    <3>5. j \in (turn.i + 1)..Len(fns)
      BY <1>1, <3>2, <3>4, LenProperties
    <3> QED BY <1>1, <3>2, <3>5
  <2> QED BY <1>4, <2>1, <2>2 DEF Ahead
<1> QED BY <1>5, <1>6, <1>7, <1>8 DEF StreamInv

LEMMA FetchInv == StreamInv /\ Fetch => StreamInv'
<1> SUFFICES ASSUME StreamInv, Fetch PROVE StreamInv'
  OBVIOUS
<1>1. TypeOK' /\ AttemptsLeft'
  BY DEF StreamInv, TypeOK, AttemptsLeft, Fetch, stream, request
<1>2. Cursor' /\ ReadAhead'
  BY ReadKept DEF Fetch, stream
<1>3. Ahead'
  <2>1. ASSUME NEW f \in kept \ ran PROVE FALSE
    <3>1. PICK j \in turn.i..Len(fns) : fns[j] = f
      BY <2>1 DEF StreamInv, Ahead, Fetch
    <3>2. turn.i \in Nat \ {0} /\ Len(fns) \in Nat /\ DOMAIN fns = 1..Len(fns)
      BY LenProperties DEF StreamInv, TypeOK
    <3>3. turn.i \notin 1..Len(fns)
      BY <2>1, <3>2 DEF StreamInv, Ahead, Fetch, Array
    <3> QED BY <3>1, <3>2, <3>3
  <2> QED BY <2>1 DEF StreamInv, Ahead, Fetch, request
<1> QED BY <1>1, <1>2, <1>3 DEF StreamInv

LEMMA ConnectedInv == StreamInv /\ Connected => StreamInv'
<1> SUFFICES ASSUME StreamInv, Connected PROVE StreamInv'
  OBVIOUS
<1>1. /\ lastEventId \in 0..Events
      /\ pc' = "reading" /\ received' = 3 * lastEventId
      /\ idLine' = 0 /\ pending' = <<>> /\ handled' = lastEventId
      /\ UNCHANGED <<attempt, lastEventId, yielded, aborted, fns, request>>
  BY Constants DEF StreamInv, TypeOK, Connected
<1>2. /\ pending' \in Seq(1..Events) /\ Len(pending') = 0
      /\ received' \in 0..(3 * Events) /\ handled' \in 0..Events
      /\ received' \div 3 = lastEventId
      /\ idLine' \in 0..Events
  BY <1>1, Constants, EmptySeq
<1>3. TypeOK'
  BY <1>1, <1>2 DEF StreamInv, TypeOK, request
<1>4. AttemptsLeft' /\ Ahead'
  BY <1>1, AheadKept DEF AttemptsLeft, Connected
<1>5. Cursor'
  BY <1>1, Constants DEF StreamInv, TypeOK, Cursor, Feed!ResumesFrom
<1>6. ReadAhead'
  BY <1>1, <1>2 DEF ReadAhead
<1> QED BY <1>3, <1>4, <1>5, <1>6 DEF StreamInv

LEMMA RefusedInv == StreamInv /\ (Refused \/ StreamBreaks) => StreamInv'
<1> SUFFICES ASSUME StreamInv, Refused \/ StreamBreaks PROVE StreamInv'
  OBVIOUS
<1>1. Fail /\ UNCHANGED <<stream, aborted, fns, request>>
  BY DEF Refused, StreamBreaks
<1>2. pc' \in {"sleeping", "done"} /\ AttemptsLeft'
  BY <1>1, FailLeads DEF stream
<1>3. TypeOK'
  BY <1>1, <1>2 DEF StreamInv, TypeOK, stream, request
<1>4. Cursor' /\ ReadAhead'
  BY <1>1, <1>2, ReadKept DEF stream
<1>5. Ahead'
  BY <1>1, <1>2, AheadKept
<1> QED BY <1>2, <1>3, <1>4, <1>5 DEF StreamInv

LEMMA ReadInv == StreamInv /\ Read => StreamInv'
<1> SUFFICES ASSUME StreamInv, Read PROVE StreamInv'
  OBVIOUS
<1> DEFINE from == received \div 3
           to   == received' \div 3
<1>1. /\ received \in Nat /\ received' \in Nat
      /\ received <= received' /\ received' <= 3 * Events
      /\ pending' = [k \in 1..(to - from) |-> from + k]
      /\ UNCHANGED <<pc, attempt, lastEventId, handled, yielded, aborted, fns, request>>
  BY Constants DEF StreamInv, TypeOK, Read
<1>2. /\ idLine' \in {0, from + 1}
      /\ idLine' # 0 => Crlf
      /\ received < 3 * Events
  BY Constants DEF StreamInv, TypeOK, Read, from
<1>3. /\ from \in Nat /\ to \in Nat /\ from <= to /\ to <= Events
      /\ to - from \in Nat
      /\ from < Events
  <2>1. from \in Nat /\ to \in Nat /\ from <= to
    BY <1>1, Thirds
  <2>2. 3 * Events \in Nat /\ (3 * Events) \div 3 = Events
    BY Constants, Thirds
  <2>3. to <= Events
    BY <1>1, <2>2, Thirds
  <2>4. from < Events
    BY <1>1, <1>2, Constants, Thirds
  <2> QED BY <2>1, <2>3, <2>4
<1> HIDE DEF from, to
<1>4. /\ pending' \in Seq(1..Events) /\ Len(pending') = to - from
      /\ \A k \in 1..Len(pending') : pending'[k] = from + k
  <2>1. \A k \in 1..(to - from) : from + k \in 1..Events
    BY <1>3, Constants
  <2>2. pending' \in [1..(to - from) -> 1..Events]
    BY <1>1, <2>1
  <2>3. DOMAIN pending' = 1..(to - from)
    BY <1>1
  <2>4. pending' \in Seq(1..Events)
    BY <1>3, <2>2, SeqDef
  <2>5. Len(pending') = to - from
    BY <1>3, <2>3, <2>4, LenProperties
  <2> QED BY <1>1, <2>4, <2>5
<1>5. handled = from
  <2>1. handled + Len(pending) = from /\ Len(pending) = 0
    BY EmptySeq DEF StreamInv, ReadAhead, Read, Drained, from
  <2> QED BY <2>1, Constants DEF StreamInv, TypeOK
<1>6. TypeOK'
  <2>1. idLine' \in 0..Events
    BY <1>2, <1>3, Constants
  <2> QED BY <1>1, <1>4, <2>1 DEF StreamInv, TypeOK, request
<1>7. AttemptsLeft' /\ Ahead'
  BY <1>1, AheadKept DEF StreamInv, AttemptsLeft
<1>8. Cursor'
  BY <1>1 DEF StreamInv, Cursor, Feed!ResumesFrom
<1>9. ReadAhead'
  <2>1. handled' + Len(pending') = received' \div 3
    BY <1>1, <1>3, <1>4, <1>5 DEF to
  <2>2. idLine' \in {0, handled' + 1} /\ (idLine' # 0 => Crlf)
    BY <1>1, <1>2, <1>5
  <2> QED BY <1>1, <1>4, <1>5, <2>1, <2>2 DEF ReadAhead
<1> QED BY <1>6, <1>7, <1>8, <1>9 DEF StreamInv

\* The event a read has pending is the one behind the last handled.
LEMMA NextPending ==
    ASSUME StreamInv, pc \in {"reading", "yielded"}, pending # <<>>
    PROVE  /\ Head(pending) = handled + 1
           /\ handled \in Nat /\ handled + 1 \in 1..Events
           /\ Tail(pending) \in Seq(1..Events)
           /\ handled + 1 + Len(Tail(pending)) = received \div 3
           /\ \A k \in 1..Len(Tail(pending)) : Tail(pending)[k] = handled + 1 + k
<1>1. pending \in Seq(1..Events) /\ handled \in Nat
  BY Constants DEF StreamInv, TypeOK
<1>2. /\ Head(pending) \in 1..Events
      /\ Tail(pending) \in Seq(1..Events)
      /\ Len(Tail(pending)) = Len(pending) - 1
      /\ \A k \in 1..Len(Tail(pending)) : Tail(pending)[k] = pending[k + 1]
      /\ Len(pending) \in Nat \ {0}
      /\ Head(pending) = pending[1]
  <2>1. Head(pending) = pending[1]
    BY <1>1
  <2>2. Len(pending) \in Nat \ {0}
    BY <1>1, EmptySeq
  <2> QED BY <1>1, <2>1, <2>2, HeadTailProperties
<1>3. /\ handled + Len(pending) = received \div 3
      /\ \A k \in 1..Len(pending) : pending[k] = handled + k
  BY DEF StreamInv, ReadAhead
<1>4. Head(pending) = handled + 1
  BY <1>2, <1>3
<1>5. handled + 1 + Len(Tail(pending)) = received \div 3
  BY <1>1, <1>2, <1>3
<1>6. ASSUME NEW k \in 1..Len(Tail(pending))
      PROVE  Tail(pending)[k] = handled + 1 + k
  <2>1. k \in Nat /\ k + 1 \in 1..Len(pending)
    BY <1>2
  <2>2. Tail(pending)[k] = handled + (k + 1)
    BY <1>2, <1>3, <2>1
  <2> QED BY <1>1, <2>1, <2>2
<1> QED BY <1>1, <1>2, <1>4, <1>5, <1>6

LEMMA ParseIdLineInv == StreamInv /\ ParseIdLine => StreamInv'
<1> SUFFICES ASSUME StreamInv, ParseIdLine PROVE StreamInv'
  OBVIOUS
<1>1. /\ idLine = handled + 1 /\ Crlf
      /\ idLine' = 0
      /\ lastEventId' = IF idLine \in WithId THEN idLine ELSE lastEventId
      /\ UNCHANGED <<pc, attempt, received, pending, handled, yielded, aborted, fns, request>>
  BY DEF StreamInv, ReadAhead, ParseIdLine
<1>2. TypeOK'
  BY <1>1, Constants DEF StreamInv, TypeOK, request
<1>3. AttemptsLeft' /\ ReadAhead' /\ Ahead'
  BY <1>1, AheadKept DEF StreamInv, AttemptsLeft, ReadAhead
<1>4. Cursor'
  BY <1>1 DEF StreamInv, Cursor, Feed!ResumesFrom
<1> QED BY <1>2, <1>3, <1>4 DEF StreamInv

LEMMA ParseInv == StreamInv /\ Parse => StreamInv'
<1> SUFFICES ASSUME StreamInv, Parse PROVE StreamInv'
  OBVIOUS
<1>1. /\ handled' = handled + 1 /\ handled \in Nat /\ handled' \in 1..Events
      /\ pending' = Tail(pending) /\ pending' \in Seq(1..Events)
      /\ lastEventId' = IF handled' \in WithId THEN handled' ELSE lastEventId
      /\ yielded' \in {handled', yielded}
      /\ idLine = 0
      /\ UNCHANGED <<attempt, received, idLine, aborted, fns, request>>
  BY NextPending DEF Parse
<1>2. pc' \in {"reading", "yielded"} \/ (pc' \in {"sleeping", "done"} /\ AttemptsLeft')
  BY <1>1, FailLeads DEF Parse
<1>3. TypeOK'
  <2>1. handled' \in 0..Events /\ yielded' \in 0..Events
    BY <1>1, Constants DEF StreamInv, TypeOK
  <2>2. lastEventId' \in {0} \cup WithId
    BY <1>1 DEF StreamInv, TypeOK
  <2>3. pc' \in {"reading", "yielded", "sleeping", "done"}
    BY <1>2
  <2> QED BY <1>1, <2>1, <2>2, <2>3 DEF StreamInv, TypeOK, request
<1>4. AttemptsLeft'
  BY <1>2 DEF AttemptsLeft
<1>5. Cursor'
  <2>1. CASE handled' \in WithId
    <3>1. WithId \subseteq Nat
      BY Constants
    <3> QED BY <1>1, <2>1, <3>1 DEF Cursor, Feed!ResumesFrom
  <2>2. CASE handled' \notin WithId
    <3>1. /\ lastEventId = 0 \/ lastEventId \in WithId
          /\ lastEventId <= handled
          /\ \A i \in WithId : i <= handled => i <= lastEventId
      BY <1>1, <2>2 DEF StreamInv, Cursor, Feed!ResumesFrom
    <3>2. WithId \subseteq Nat /\ lastEventId \in Nat
      BY Constants DEF StreamInv, TypeOK
    <3> QED BY <1>1, <2>2, <3>1, <3>2 DEF Cursor, Feed!ResumesFrom
  <2> QED BY <2>1, <2>2
<1>6. ReadAhead'
  BY <1>1, NextPending DEF Parse, ReadAhead
<1>7. Ahead'
  BY <1>1, <1>2, AheadKept
<1> QED BY <1>3, <1>4, <1>5, <1>6, <1>7 DEF StreamInv

\* The generator moves on and nothing else changes.
LEMMA MovesInv ==
    ASSUME StreamInv, UNCHANGED <<stream, aborted, fns, request>>,
           \/ pc' = "done"
           \/ pc = "sleeping" /\ pc' = "top"
           \/ pc = "yielded" /\ pc' = "reading"
    PROVE  StreamInv'
<1>1. TypeOK' /\ AttemptsLeft'
  BY DEF StreamInv, TypeOK, AttemptsLeft, stream, request
<1>2. Cursor' /\ ReadAhead'
  BY ReadKept DEF stream
<1>3. Ahead'
  BY AheadKept
<1> QED BY <1>1, <1>2, <1>3 DEF StreamInv

LEMMA AbortInv ==
    ASSUME StreamInv, UNCHANGED <<pc, stream, fns, request>>, aborted' \in BOOLEAN
    PROVE  StreamInv'
<1>1. TypeOK' /\ AttemptsLeft'
  BY DEF StreamInv, TypeOK, AttemptsLeft, stream, request
<1>2. Cursor' /\ ReadAhead' /\ Ahead'
  BY ReadKept, AheadKept DEF stream
<1> QED BY <1>1, <1>2 DEF StreamInv

LEMMA StepInv == StreamInv /\ [Next]_vars => StreamInv'
<1> SUFFICES ASSUME StreamInv, [Next]_vars PROVE StreamInv'
  OBVIOUS
<1>1. CASE Generator
  <2>1. CASE StreamEnds \/ WakeUp
    BY <2>1, MovesInv DEF StreamEnds, WakeUp
  <2> QED BY <1>1, <2>1, ConnectInv, LeaveAbortedInv, InterceptInv, FetchInv, ConnectedInv,
             RefusedInv, ReadInv, ParseIdLineInv, ParseInv DEF Generator
<1>2. CASE Pull \/ Return
  BY <1>2, MovesInv DEF Pull, Return
<1>3. CASE Abort
  BY <1>3, AbortInv DEF Abort
<1>4. CASE (\E f \in Fns : Use(f)) \/ Clear
  BY <1>4, UseInv, ClearInv
<1>5. CASE \/ \E id \in DOMAIN fns : Eject(id)
           \/ \E id \in DOMAIN fns, f \in Fns : Update(id, f)
  BY <1>5, EjectInv, UpdateInv
<1>6. CASE UNCHANGED vars
  <2>1. aborted \in BOOLEAN
    BY DEF StreamInv, TypeOK
  <2> QED BY <1>6, <2>1, AbortInv DEF vars
<1> QED BY <1>1, <1>2, <1>3, <1>4, <1>5, <1>6 DEF Next

LEMMA Invariance == Spec => []StreamInv
BY InitInv, StepInv, PTL DEF Spec

-----------------------------------------------------------------------------
(* The theorems.                                                           *)

\* The generator never makes more attempts than it may, and everything else
\* keeps its type, whatever the server, the consumer and the registry do.
THEOREM TypeCorrect == Spec => []TypeOK
<1>1. StreamInv => TypeOK
  BY DEF StreamInv
<1> QED BY <1>1, Invariance, PTL

\* No request is sent before every interceptor it owes has run, for any
\* registry and any changes while the request is built.
THEOREM InterceptorsCorrect == Spec => []InterceptorsRun
<1>1. StreamInv => InterceptorsRun
  BY DEF StreamInv, Ahead, InterceptorsRun
<1> QED BY <1>1, Invariance, PTL

\* The generator implements EventFeed: for any log, cuts and interruptions the
\* consumer gets the log's events in order and misses none, but for one at an
\* interruption that cuts the line end of its id from a server that sends CR LF.
THEOREM StreamFeeds == Spec => FeedSpec
<1>1. Init => Feed!FeedInit
  BY DEF Init, Feed!FeedInit
<1>2. StreamInv /\ [Next]_vars =>
        [Feed!Deliver \/ Feed!PassOver \/ Feed!Resume \/ Feed!Finish]_(Feed!feedVars)
  <2> SUFFICES ASSUME StreamInv, [Next]_vars
               PROVE  \/ Feed!Deliver \/ Feed!PassOver \/ Feed!Resume \/ Feed!Finish
                      \/ UNCHANGED <<handled, yielded, pc = "done">>
    BY DEF Feed!feedVars
  <2>1. CASE Parse
    <3>1. /\ handled' = handled + 1 /\ handled < Events /\ pc # "done"
          /\ \/ handled + 1 \in Rejected \cup Silent /\ yielded' = yielded
             \/ /\ handled + 1 \notin Rejected \cup Silent
                /\ yielded' = handled + 1 /\ pc' = "yielded"
      BY <2>1, NextPending, Constants DEF Parse
    <3> QED BY <3>1 DEF Feed!Deliver, Feed!PassOver
  <2>2. CASE Connected
    <3>1. handled' = lastEventId /\ yielded' = yielded /\ pc = "connecting" /\ pc' = "reading"
      BY <2>2 DEF Connected
    <3>2. Feed!ResumesFrom(handled', handled) \/ Feed!LosesNext
      BY <3>1 DEF StreamInv, Cursor, Feed!LosesNext
    <3> QED BY <3>1, <3>2 DEF Feed!Resume
  <2>3. ASSUME UNCHANGED <<handled, yielded>>, pc = "done" => pc' = "done"
        PROVE  Feed!Finish \/ UNCHANGED <<handled, yielded, pc = "done">>
    BY <2>3 DEF Feed!Finish
  <2>4. CASE \/ Connect \/ LeaveAborted \/ Intercept \/ Fetch \/ Refused \/ Read \/ ParseIdLine
             \/ StreamEnds \/ StreamBreaks \/ WakeUp \/ Pull \/ Return
    BY <2>3, <2>4 DEF Connect, LeaveAborted, Intercept, Fetch, Refused, Read, ParseIdLine,
                      StreamEnds, StreamBreaks, WakeUp, Pull, Return, stream
  <2>5. CASE \/ Abort \/ Clear \/ UNCHANGED vars
             \/ \E f \in Fns : Use(f)
             \/ \E id \in DOMAIN fns : Eject(id)
             \/ \E id \in DOMAIN fns, f \in Fns : Update(id, f)
    BY <2>3, <2>5 DEF Abort, Clear, Use, Eject, Update, vars, stream
  <2> QED BY <2>1, <2>2, <2>4, <2>5 DEF Next, Generator
<1> QED BY <1>1, <1>2, Invariance, PTL DEF Spec, FeedSpec, Feed!FeedSpec

\* From a server that ends its lines with LF no event is ever lost.
THEOREM LineFeedsLoseNothing ==
    ASSUME ~Crlf
    PROVE  Spec => LineEndsNormalized
<1>1. Feed!FeedInit => Normalized!FeedInit
  BY DEF Feed!FeedInit, Normalized!FeedInit
<1>2. [Feed!Deliver \/ Feed!PassOver \/ Feed!Resume \/ Feed!Finish]_(Feed!feedVars)
        => [Normalized!Deliver \/ Normalized!PassOver \/ Normalized!Resume
              \/ Normalized!Finish]_(Normalized!feedVars)
  BY DEF Feed!Deliver, Feed!PassOver, Feed!Resume, Feed!LosesNext, Feed!ResumesFrom,
         Feed!Finish, Feed!feedVars, Normalized!Deliver, Normalized!PassOver,
         Normalized!Resume, Normalized!ResumesFrom, Normalized!Finish, Normalized!feedVars
<1>. QED
  BY <1>1, <1>2, StreamFeeds, PTL
     DEF FeedSpec, Feed!FeedSpec, LineEndsNormalized, Normalized!FeedSpec

=============================================================================
