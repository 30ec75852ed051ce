----------------------------- MODULE InPostCrawl -----------------------------
(***************************************************************************)
(* One country crawled page by page while the upstream listing changes.    *)
(*                                                                         *)
(* InPostClient.iter_country asks for page 1, 2, ... and yields every item *)
(* of every page.  Each GET is retried by tenacity on transport errors and *)
(* on 429/5xx; any other error leaves the generator at once.  Between two  *)
(* requests InPost may publish or withdraw a point, which moves the        *)
(* records behind it to other pages.                                       *)
(*                                                                         *)
(* The items of a page are yielded in the step that receives the page: the *)
(* body is then in memory, and nothing the consumer does between two items *)
(* changes what the generator yields.                                      *)
(***************************************************************************)
EXTENDS Paging, FiniteSets, SequencesExt

CONSTANTS Records,    \* the points a country may list
          MaxChurn    \* bound: upstream changes during one crawl

ASSUME RecordsAssumption == IsFiniteSet(Records)
ASSUME MaxChurnAssumption == MaxChurn \in Nat

VARIABLES
    listing,            \* upstream: the country's records in serving order
    pc,                 \* "idle", "get" (a request is out), "done", "failed"
    crawl,              \* page, seen, total
    attempt,            \* which attempt of the current GET is out
    yielded,            \* every item yielded so far, in order
    (* observation only: what happened upstream since the crawl started *)
    published,          \* number of records inserted
    withdrawn,          \* number of records removed
    stable              \* records listed during the whole crawl

clientVars == <<pc, crawl, attempt, yielded>>
churnVars  == <<published, withdrawn, stable>>
vars == <<listing, clientVars, churnVars>>

Distinct(s) == IsInjective(s)

Init ==
    /\ listing \in {s \in UNION {[1 .. n -> Records] : n \in 0 .. Cardinality(Records)} :
                        Distinct(s)}
    /\ pc = "idle"
    /\ crawl = NewCrawl
    /\ attempt = 1
    /\ yielded = <<>>
    /\ published = 0
    /\ withdrawn = 0
    /\ stable = {}

-----------------------------------------------------------------------------
(* The client. *)

\* The generator is created and sends its first request.
StartCrawl ==
    /\ pc \in {"idle", "done", "failed"}
    /\ pc' = "get"
    /\ crawl' = NewCrawl
    /\ attempt' = 1
    /\ yielded' = <<>>
    /\ published' = 0
    /\ withdrawn' = 0
    /\ stable' = ToSet(listing)
    /\ UNCHANGED listing

\* The request is answered with the page: its items are yielded, and the
\* generator returns or asks for the next page with a fresh attempt count.
GetPage ==
    /\ pc = "get"
    /\ LET items == PageOf(listing, crawl.page)
           n     == Len(items)
           count == Len(listing)
       IN  /\ yielded' = yielded \o items
           /\ \/ /\ CrawlEnds(crawl, n, count)
                 /\ pc' = "done"
                 /\ UNCHANGED <<crawl, attempt>>
              \/ /\ ~CrawlEnds(crawl, n, count)
                 /\ crawl' = NextPage(crawl, n, count)
                 /\ attempt' = 1
                 /\ UNCHANGED pc
    /\ UNCHANGED <<listing, churnVars>>

\* Mutants: a retry that moves on to the next page; a retry around the page
\* loop, which yields the page again; a retry without stop_after_attempt; one
\* attempt too many.
GetFailsSkipsPage ==
    /\ pc = "get"
    /\ crawl' = [crawl EXCEPT !.page = @ + 1]
    /\ UNCHANGED <<listing, pc, attempt, yielded, churnVars>>
GetFailsYieldsAgain ==
    /\ pc = "get"
    /\ yielded = <<>>
    /\ yielded' = PageOf(listing, crawl.page)
    /\ UNCHANGED <<listing, pc, crawl, attempt, churnVars>>
GetFailsForever ==
    /\ pc = "get"
    /\ attempt' = IF attempt = MaxAttempts THEN 1 ELSE attempt + 1
    /\ UNCHANGED <<listing, pc, crawl, yielded, churnVars>>
GetFailsOnceMore ==
    /\ pc = "get"
    /\ attempt <= MaxAttempts
    /\ attempt' = attempt + 1
    /\ UNCHANGED <<listing, pc, crawl, yielded, churnVars>>

\* A transport error, a timeout, 429 or 5xx: tenacity sends the request
\* again, or re-raises when this was the last attempt.
GetFails ==
    /\ pc = "get"
    /\ \/ /\ attempt < MaxAttempts
          /\ attempt' = attempt + 1
          /\ UNCHANGED pc
       \/ /\ attempt = MaxAttempts
          /\ pc' = "failed"
          /\ UNCHANGED attempt
    /\ UNCHANGED <<listing, crawl, yielded, churnVars>>

\* Any other status >= 400 raises InPostAPIError, and a body that is not
\* JSON raises a ValueError: neither is retried.
GetRejected ==
    /\ pc = "get"
    /\ pc' = "failed"
    /\ UNCHANGED <<listing, crawl, attempt, yielded, churnVars>>

-----------------------------------------------------------------------------
(* InPost. *)

\* A point appears at any place of the listing.
Publish(r, i) ==
    /\ published + withdrawn < MaxChurn
    /\ r \notin ToSet(listing)
    /\ listing' = InsertAt(listing, i, r)
    /\ published' = published + 1
    /\ UNCHANGED <<clientVars, withdrawn, stable>>

\* A point disappears from the listing.
Withdraw(i) ==
    /\ published + withdrawn < MaxChurn
    /\ listing' = RemoveAt(listing, i)
    /\ withdrawn' = withdrawn + 1
    /\ stable' = stable \ {listing[i]}
    /\ UNCHANGED <<clientVars, published>>

Client == StartCrawl \/ GetPage \/ GetFails \/ GetRejected

Upstream ==
    \/ \E r \in Records, i \in 1 .. Len(listing) + 1 : Publish(r, i)
    \/ \E i \in 1 .. Len(listing) : Withdraw(i)

Next == Client \/ Upstream

Spec == Init /\ [][Next]_vars

\* Every GET ends: httpx gives up after its timeout, and a refused or
\* exhausted request ends the generator.  Nothing obliges anyone to start a
\* crawl or InPost to change its listing.
FairSpec == Spec /\ WF_vars(GetPage \/ GetFails \/ GetRejected)

-----------------------------------------------------------------------------
(* Properties. *)

\* Types of the client's state and of the history around it.
TypeOK ==
    /\ listing \in Seq(Records)
    /\ pc \in {"idle", "get", "done", "failed"}
    /\ crawl \in [page : Nat \ {0}, seen : Nat, total : Nat \cup {Unknown}]
    /\ attempt \in 1 .. MaxAttempts
    /\ yielded \in Seq(Records)
    /\ published \in Nat
    /\ withdrawn \in Nat
    /\ stable \in SUBSET Records

Repeats(s) == Len(s) - Cardinality(ToSet(s))

\* A crawl during which the listing did not change yields the listing: every
\* record, once, in the order served, whatever the page size and however many
\* requests had to be retried (iter_country's page/seen/total arithmetic).
QuietCrawlIsExact ==
    (pc = "done" /\ published + withdrawn = 0) => yielded = listing

\* Each upstream change costs a crawl at most one of the records that were
\* listed all along: a withdrawal moves one record back over a page boundary
\* already passed, a publication uses up one of the `total` items announced
\* by the first page.
LossBoundedByChurn ==
    pc = "done" => Cardinality(stable \ ToSet(yielded)) <= published + withdrawn

\* Only publications make a record come twice, and each at most once more:
\* the number of repeats a batch upsert may meet is bounded by them.
RepeatsBoundedByPublications ==
    Repeats(yielded) <= published

\* A crawl that met publications only misses nothing in the middle: what it
\* yields is the listing up to some point, and only the tail behind that
\* point is cut off by the stale `total`.
PublicationsCutOnlyTheTail ==
    (pc = "done" /\ withdrawn = 0) =>
        \A i \in 1 .. Len(listing) :
            (listing[i] \in stable /\ listing[i] \notin ToSet(yielded)) =>
                \A j \in i .. Len(listing) :
                    listing[j] \in ToSet(yielded) => listing[j] \notin stable

\* A crawl that met withdrawals only yields no record twice: shifting records
\* to earlier pages can hide them from the cursor, never show them again.
WithdrawalsNeverRepeat ==
    published = 0 => Distinct(yielded)

\* Every crawl returns or raises: the page loop and the retry loop are both
\* left, however the listing changes under them.
CrawlTerminates == pc = "get" ~> pc \in {"done", "failed"}

=============================================================================
