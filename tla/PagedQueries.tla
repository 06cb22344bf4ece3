---------------------------- MODULE PagedQueries ----------------------------
(***************************************************************************)
(* The three lists the owner reads page by page: the threads that match a  *)
(* text, the work that is pending, and the revisions of a thread's         *)
(* decisions (mysql_retriever.rs, cursors in domain/retriever.rs).         *)
(*                                                                         *)
(* A page is the first limit rows after the cursor; one more row is        *)
(* fetched to learn whether there is another page, and the next cursor is  *)
(* the key of the last row of the page.  Between two pages the rows change:*)
(* a new message lifts a thread, work is done or moved, decisions are      *)
(* added.  ORDER BY and the WHERE clause of the cursor are written down    *)
(* separately, as they are in the code: paging is right only if they agree.*)
(***************************************************************************)
EXTENDS Integers, FiniteSets

CONSTANTS
    Ids,          \* ids of the rows, compared as strings: here numbers
    Ranks,        \* match_rank of a thread: of 1 (contains) .. 3 (exact)
    Times,        \* latest_at, due_at and created_at
    Kinds,        \* source_kind of pending work, compared as strings
    created_at,   \* when a decision was made: part of its key, never changed
    Limit,        \* rows of a page
    MaxChanges,   \* bound: changes of the rows while a list is being read
    Lists         \* the lists of the instance

(* What the constants are to satisfy; an instance assumes it. *)
PagedAssumption ==
    /\ Limit \in Nat \ {0}
    /\ created_at \in [Ids -> Times]
    /\ Ids \subseteq Nat /\ Ranks \subseteq Nat /\ Times \subseteq Nat /\ Kinds \subseteq Nat
    /\ IsFiniteSet(Ids) /\ MaxChanges \in Nat /\ Lists \subseteq {"threads", "work", "decisions"}

VARIABLES
    list,      \* the list being read
    rows,      \* its rows now
    cursor,    \* where the next page begins, or a state of the reading
    read,      \* the ids of the pages so far, with how often each was returned
    stable,    \* rows that were there, unchanged, since the reading began
    changes

vars == <<list, rows, cursor, read, stable, changes>>

\* due_at_unix_secs IS NULL.
NULL == -1

\* The rows of a list, one per id.
RowsOf(l) ==
    CASE l = "threads" -> [id : Ids, rank : Ranks, at : Times]
      [] l = "work" -> [id : Ids, kind : Kinds, at : Times \cup {NULL}]
      [] l = "decisions" -> {[id |-> i, at |-> created_at[i]] : i \in Ids}

-----------------------------------------------------------------------------
(* ORDER BY                                                                *)

\* match_rank DESC, latest_at DESC, thread_id ASC
ThreadOrder(a, b) ==
    \/ a.rank > b.rank
    \/ a.rank = b.rank /\ a.at > b.at
    \/ a.rank = b.rank /\ a.at = b.at /\ a.id < b.id

\* due_at IS NULL, due_at, source_kind, source_id
WorkOrder(a, b) ==
    \/ a.at # NULL /\ b.at = NULL
    \/ a.at # NULL /\ b.at # NULL /\ a.at < b.at
    \/ a.at = b.at /\ a.kind < b.kind
    \/ a.at = b.at /\ a.kind = b.kind /\ a.id < b.id

\* created_at DESC, decision_id DESC
DecisionOrder(a, b) ==
    \/ a.at > b.at
    \/ a.at = b.at /\ a.id > b.id

-----------------------------------------------------------------------------
(* The WHERE clause of a cursor                                            *)

search_threads_page(c, r) ==
    \/ r.rank < c.rank
    \/ /\ r.rank = c.rank
       /\ \/ r.at < c.at
          \/ r.at = c.at /\ r.id > c.id

list_pending_owner_work_page_NoNull(c, r) ==
    \/ r.at # NULL /\ r.at > c.at
    \/ /\ r.at = c.at
       /\ \/ r.kind > c.kind
          \/ r.kind = c.kind /\ r.id > c.id

list_pending_owner_work_page(c, r) ==
    IF c.at # NULL
    THEN \/ r.at = NULL
         \/ /\ r.at # NULL
            /\ \/ r.at > c.at
               \/ /\ r.at = c.at
                  /\ \/ r.kind > c.kind
                     \/ r.kind = c.kind /\ r.id > c.id
    ELSE /\ r.at = NULL
         /\ \/ r.kind > c.kind
            \/ r.kind = c.kind /\ r.id > c.id

thread_decision_revisions(c, r) ==
    \/ r.at < c.at
    \/ r.at = c.at /\ r.id < c.id

Before(a, b) ==
    CASE list = "threads" -> ThreadOrder(a, b)
      [] list = "work" -> WorkOrder(a, b)
      [] list = "decisions" -> DecisionOrder(a, b)

After(c, r) ==
    CASE list = "threads" -> search_threads_page(c, r)
      [] list = "work" -> list_pending_owner_work_page(c, r)
      [] list = "decisions" -> thread_decision_revisions(c, r)

-----------------------------------------------------------------------------
(* Reading                                                                 *)

Start == [state |-> "start"]
End == [state |-> "end"]

\* A cursor carries the key of a row and nothing else of it.
ThreadSearchCursor(r) == [rank |-> r.rank, at |-> r.at, id |-> r.id]
PendingOwnerWorkCursor(r) == [at |-> r.at, kind |-> r.kind, id |-> r.id]
ThreadDecisionRevisionCursor(r) == [at |-> r.at, id |-> r.id]
At(r) ==
    [state |-> "at",
     row |-> CASE list = "threads" -> ThreadSearchCursor(r)
               [] list = "work" -> PendingOwnerWorkCursor(r)
               [] list = "decisions" -> ThreadDecisionRevisionCursor(r)]

Candidates == IF cursor = Start THEN rows ELSE {r \in rows : After(cursor.row, r)}
First(S, n) == {r \in S : Cardinality({q \in S : Before(q, r)}) < n}
Last(S) == CHOOSE r \in S : \A q \in S : q = r \/ Before(q, r)

\* LIMIT limit + 1; the cursor is the last row that is returned.
NextCursor(fetched, page) ==
    IF Cardinality(fetched) > Limit THEN At(Last(page)) ELSE End

NextPage ==
    /\ cursor # End
    /\ LET fetched == First(Candidates, Limit + 1)
           page == First(fetched, Limit)
       IN /\ read' = [i \in Ids |-> IF \E r \in page : r.id = i THEN read[i] + 1 ELSE read[i]]
          /\ cursor' = NextCursor(fetched, page)
    /\ UNCHANGED <<list, rows, stable, changes>>

\* Another reading begins, of the rows as they are now.
Again ==
    /\ cursor = End
    /\ cursor' = Start
    /\ read' = [i \in Ids |-> 0]
    /\ stable' = rows
    /\ changes' = 0
    /\ UNCHANGED <<list, rows>>

-----------------------------------------------------------------------------
(* The rows change                                                         *)

Change(after) ==
    /\ changes < MaxChanges /\ cursor # End
    /\ rows' = after
    /\ stable' = stable \cap after
    /\ changes' = changes + 1
    /\ UNCHANGED <<list, cursor, read>>

\* Work is done, a thread loses its last visible message, a source of a
\* decision is recalled.
Remove(r) == Change(rows \ {r})

\* A new thread, new work, a new decision.
Add(r) ==
    /\ \A q \in rows : q.id # r.id
    /\ Change(rows \cup {r})

\* A message lifts a thread, work is put off; a decision's key never changes.
Move(r, to) ==
    /\ list # "decisions"
    /\ to # r /\ to.id = r.id
    /\ list = "work" => to.kind = r.kind
    /\ list = "threads" => to.at >= r.at
    /\ Change((rows \ {r}) \cup {to})

Init ==
    /\ list \in Lists
    /\ rows = {}
    /\ cursor = End
    /\ read = [i \in Ids |-> 0]
    /\ stable = {}
    /\ changes = 0

\* While nobody reads, the rows may become anything.
Fill ==
    /\ cursor = End /\ rows = {}
    /\ \E r \in [Ids -> RowsOf(list)], S \in SUBSET Ids :
         /\ \A i \in Ids : r[i].id = i
         /\ rows' = {r[i] : i \in S}
    /\ UNCHANGED <<list, cursor, read, stable, changes>>

Next ==
    \/ Fill \/ Again \/ NextPage
    \/ \E r \in rows : Remove(r) \/ \E to \in RowsOf(list) : Move(r, to)
    \/ \E r \in RowsOf(list) : Add(r)

Spec == Init /\ [][Next]_vars /\ WF_vars(NextPage)

-----------------------------------------------------------------------------
(* Properties                                                              *)

TypeOK ==
    /\ list \in Lists
    /\ cursor \in {Start, End} \cup {[state |-> "at", row |-> r] : r \in RowsOf(list)}
    /\ rows \subseteq RowsOf(list) /\ stable \subseteq rows
    /\ \A a, b \in rows : a.id = b.id => a = b
    /\ read \in [Ids -> Nat] /\ changes \in 0 .. MaxChanges

\* Whatever is added, removed or moved between two pages, a row that was
\* there all the time with the same key is on exactly one page.
StableRowsOnce ==
    /\ \A r \in stable : read[r.id] <= 1
    /\ cursor = End => \A r \in stable : read[r.id] = 1

\* A decision keeps its key, so no revision is ever returned twice, not even
\* one that is withdrawn and comes back between two pages.
NoRevisionTwice == list = "decisions" => \A i \in Ids : read[i] <= 1

\* The strengthening that is inductive: of the stable rows, just those up to
\* the cursor have been returned, and no revision that is after it.
PagesInv ==
    /\ TypeOK /\ StableRowsOnce /\ NoRevisionTwice
    /\ cursor = Start => \A i \in Ids : read[i] = 0
    /\ cursor \notin {Start, End} =>
         /\ \A r \in stable : read[r.id] = IF Before(cursor.row, r) THEN 0 ELSE 1
         /\ list = "decisions" =>
              \A r \in RowsOf(list) : Before(cursor.row, r) => read[r.id] = 0

=============================================================================
