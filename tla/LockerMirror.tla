---------------------------- MODULE LockerMirror ----------------------------
(***************************************************************************)
(* What table lockers promises, whoever writes it and however the writers  *)
(* interleave or die: it is a mirror of what InPost served.                *)
(*                                                                         *)
(*   - a row appears or changes only to something that was served under    *)
(*     that name and accepted by the filter, whole;                        *)
(*   - no row disappears;                                                  *)
(*   - the region columns are untouched by that, and are filled once, from *)
(*     the place the row has at that moment.                               *)
(***************************************************************************)
EXTENDS Naturals

CONSTANTS Lockers, Points,
          Accepted,          \* the points the filter lets through
          CountryOf, Poland, GminaAt, Nuts2At, Null, Absent

VARIABLES served,    \* every item InPost has served
          lockers    \* name -> row or Absent

mirrorVars == <<served, lockers>>

Init ==
    /\ served = {}
    /\ lockers = [n \in Lockers |-> Absent]

Serve ==
    /\ served \subseteq served'
    /\ served' \subseteq [name : Lockers, point : Points]
    /\ UNCHANGED lockers

\* The new value of row n is the old one with an accepted, served point.
MirrorsRow(n) ==
    \E p \in Accepted :
        /\ [name |-> n, point |-> p] \in served
        /\ lockers'[n] = IF lockers[n] = Absent
                         THEN [point |-> p, gmina |-> Null, nuts2 |-> Null]
                         ELSE [lockers[n] EXCEPT !.point = p]

Mirror ==
    /\ lockers' = [n \in Lockers |-> lockers'[n]]
    /\ \A n \in Lockers : lockers'[n] = lockers[n] \/ MirrorsRow(n)
    /\ UNCHANGED served

\* Polish rows without a gmina get the one that contains them, if any does.
JoinGminy ==
    /\ lockers' = [n \in Lockers |-> lockers'[n]]
    /\ \A n \in Lockers :
        \/ lockers'[n] = lockers[n]
        \/ /\ lockers[n] # Absent
           /\ CountryOf[n] = Poland
           /\ lockers[n].gmina = Null
           /\ lockers'[n] = [lockers[n] EXCEPT !.gmina = GminaAt[lockers[n].point.place]]
    /\ UNCHANGED served

JoinNuts2 ==
    /\ lockers' = [n \in Lockers |-> lockers'[n]]
    /\ \A n \in Lockers :
        \/ lockers'[n] = lockers[n]
        \/ /\ lockers[n] # Absent
           /\ lockers[n].nuts2 = Null
           /\ lockers'[n] = [lockers[n] EXCEPT !.nuts2 = Nuts2At[lockers[n].point.place]]
    /\ UNCHANGED served

Next == Serve \/ Mirror \/ JoinGminy \/ JoinNuts2

Spec == Init /\ [][Next]_mirrorVars

=============================================================================
