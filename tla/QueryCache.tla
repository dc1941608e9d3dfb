----------------------------- MODULE QueryCache -----------------------------
(***************************************************************************)
(* One query of the Studio's cache (TanStack Query, a library the views    *)
(* use through useQuery, setQueryData and invalidateQueries).  A fetch is  *)
(* answered by the server at one moment and lands on the page at a later   *)
(* one, so what lands may be older than what the page already shows.       *)
(* There is never more than one fetch of a query on its way.               *)
(***************************************************************************)
CONSTANT NoData   \* the query has never been answered

NoQuery == [data |-> NoData, fetch |-> "idle", answer |-> NoData]

\* A fetch that is only wanted (mount, interval) joins the one on its way.
Fetched(q) == IF q.fetch = "idle" THEN [q EXCEPT !.fetch = "asked"] ELSE q

\* invalidateQueries() and refetch() drop the fetch on its way and ask again, unless the
\* query has no data yet: then the fetch on its way is kept.
Invalidated(q) == IF q.data = NoData THEN Fetched(q)
                  ELSE [q EXCEPT !.fetch = "asked", !.answer = NoData]

AnsweredWith(q, v) == [q EXCEPT !.fetch = "answered", !.answer = v]
Landed(q) == [data |-> q.answer, fetch |-> "idle", answer |-> NoData]
Failed(q) == [q EXCEPT !.fetch = "idle", !.answer = NoData]

\* setQueryData() leaves a fetch on its way alone: its answer will overwrite the new data.
WithData(q, v) == [q EXCEPT !.data = v]
=============================================================================
