----------------------------- MODULE EventFeed -----------------------------
(***************************************************************************)
(* What the event stream of the generated client promises its consumer: a  *)
(* cursor over the server's log.  Events come in the order of the log and  *)
(* none is left out but those the client rejects or that carry no data;    *)
(* after an interruption the cursor is back at the last event with an id,  *)
(* so only events without one ever come twice.  From a server that ends    *)
(* its lines with CR LF an interruption may cost the event it cuts.        *)
(***************************************************************************)
EXTENDS Integers

CONSTANTS Events,    \* the log has the events 1..Events
          WithId,    \* events with an id line
          Rejected,  \* events the response validator throws on
          Silent,    \* events without a data line
          Crlf       \* the server ends its lines with CR LF

VARIABLES at,    \* the last event of the log that was handled
          last,  \* the last event the consumer was given, 0 before
          over

feedVars == <<at, last, over>>

\* r is the last event with an id that is not behind e, or 0.
ResumesFrom(r, e) ==
    /\ r = 0 \/ r \in WithId
    /\ r <= e
    /\ \A i \in WithId : i <= e => i <= r

FeedInit == at = 0 /\ last = 0 /\ over = FALSE

Deliver ==
    /\ ~over /\ at < Events
    /\ at + 1 \notin Rejected \cup Silent
    /\ at' = at + 1 /\ last' = at + 1
    /\ over' = FALSE

PassOver ==
    /\ ~over /\ at < Events
    /\ at + 1 \in Rejected \cup Silent
    /\ at' = at + 1
    /\ over' \in BOOLEAN
    /\ UNCHANGED last

\* The next event is given up when its id alone was understood.
LosesNext == Crlf /\ at + 1 \in WithId /\ at' = at + 1

Resume ==
    /\ ~over
    /\ ResumesFrom(at', at) \/ LosesNext
    /\ UNCHANGED <<last, over>>

Finish == ~over /\ over' = TRUE /\ UNCHANGED <<at, last>>

FeedSpec == FeedInit /\ [][Deliver \/ PassOver \/ Resume \/ Finish]_feedVars

=============================================================================
