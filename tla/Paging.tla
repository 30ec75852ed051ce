------------------------------- MODULE Paging -------------------------------
(***************************************************************************)
(* The bookkeeping of InPostClient.iter_country, and what the points API   *)
(* answers to one GET /points?country=..&page=..&per_page=.. request.      *)
(*                                                                         *)
(* The API is outside the repository: it is modelled from how the client   *)
(* uses it, as a listing (a sequence of records in the order the API       *)
(* serves them) that is cut into pages at the moment each request is       *)
(* answered.                                                               *)
(***************************************************************************)
EXTENDS Integers, Sequences

CONSTANTS PerPage,      \* records per page, DEFAULT_PER_PAGE in the code
          MaxAttempts   \* attempts tenacity makes for one GET

ASSUME PerPageAssumption == PerPage \in Nat \ {0}
ASSUME MaxAttemptsAssumption == MaxAttempts \in Nat \ {0}

\* `total` before the first page has been read (None in the code).
Unknown == -1

\* How many records the pages before page p hold.
Offset(p) == (p - 1) * PerPage

Least(a, b) == IF a <= b THEN a ELSE b

\* The items of page p of a listing, as served when the request is answered.
PageOf(listing, p) ==
    SubSeq(listing, Offset(p) + 1, Least(Offset(p + 1), Len(listing)))

\* The generator's local variables when it starts.
NewCrawl == [page |-> 1, seen |-> 0, total |-> Unknown]

\* `total` is read from the first page of a crawl and never again.
TotalOnce(crawl, count) ==
    IF crawl.total = Unknown THEN count ELSE crawl.total

\* Mutant: a page count rounded down, so the last short page is never read.
CrawlEndsRoundedDown(crawl, n, count) ==
    crawl.page >= TotalOnce(crawl, count) \div PerPage

\* The generator returns after a page of n items when that page is empty, or
\* when it has yielded as many items as the first page announced.
CrawlEnds(crawl, n, count) ==
    \/ n = 0
    \/ crawl.seen + n >= TotalOnce(crawl, count)

\* Mutant: the loop forgets `page += 1`.
NextPageStuck(crawl, n, count) ==
    [page |-> crawl.page, seen |-> crawl.seen + n, total |-> TotalOnce(crawl, count)]

\* Otherwise it goes on to the next page.
NextPage(crawl, n, count) ==
    [page  |-> crawl.page + 1,
     seen  |-> crawl.seen + n,
     total |-> TotalOnce(crawl, count)]

=============================================================================
