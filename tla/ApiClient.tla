----------------------------- MODULE ApiClient -----------------------------
(***************************************************************************)
(* The generated API client without its transport: what it returns for a   *)
(* response, and its registry of interceptors.                             *)
(***************************************************************************)
EXTENDS Integers, Sequences

CONSTANTS NoInterceptor  \* null: a slot whose interceptor was ejected

-----------------------------------------------------------------------------
(* A response: status (0 when there is none: the connection failed or the  *)
(* body broke off), the kind of its Content-Type, and its body: "envelope" *)
(* (the JSON the API answers), "value" (other JSON), "garbage" or "empty". *)

Responses ==
    [status : {0, 200, 204, 500}, type : {"json", "text", "blob", "none"},
     body : {"envelope", "value", "garbage", "empty"}]

\* Without a Content-Type the body is handed on as a stream.
getParseAs(type) == IF type = "none" THEN "stream" ELSE type

\* What request() resolves to.  data "bare" is truthy without being an
\* envelope ({}, a text, a blob, a stream), "nothing" is falsy.
Resolved(response) ==
    LET data(d) == [data |-> d, error |-> FALSE]
        failed  == [data |-> "nothing", error |-> TRUE]
        kind    == getParseAs(response.type)
        empty   == response.status = 204 \/ response.body = "empty"
    IN  IF response.status \notin 200..299 \/ (kind = "json" /\ ~empty /\ response.body = "garbage")
        THEN failed  \* JSON.parse throws on garbage
        ELSE IF kind = "json" /\ ~empty /\ response.body = "envelope" THEN data("envelope")
        ELSE IF (kind = "text" /\ empty) \/ (kind = "stream" /\ response.status = 204)
        THEN data("nothing")
        ELSE data("bare")

-----------------------------------------------------------------------------
(* class Interceptors, over its array fns: a handle is an index.           *)

getInterceptorIndex(fns, id) ==
    IF id \in DOMAIN fns /\ fns[id] # NoInterceptor THEN id ELSE 0

exists(fns, id) == getInterceptorIndex(fns, id) # 0

use(fns, f) == Append(fns, f)

ejectBySplice(fns, id) ==
    IF exists(fns, id) THEN SubSeq(fns, 1, id - 1) \o SubSeq(fns, id + 1, Len(fns)) ELSE fns

eject(fns, id) == IF exists(fns, id) THEN [fns EXCEPT ![id] = NoInterceptor] ELSE fns

update(fns, id, f) == IF exists(fns, id) THEN [fns EXCEPT ![id] = f] ELSE fns

clear(fns) == <<>>

=============================================================================
