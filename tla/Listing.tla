------------------------------- MODULE Listing -------------------------------
(***************************************************************************)
(* The four paged listings of the backend: list_users(), list_records(),   *)
(* list_metrics() and list_logs() of the services, with Page.create() of   *)
(* schemas/common.py.  Each counts the rows that meet its conditions and   *)
(* then selects one page of them; both queries read the snapshot of the    *)
(* request's transaction.  A reader walks through the pages while others   *)
(* write.  Rows are their ids, with the value of the sort column, their    *)
(* category, and whether they meet the reader's other conditions.  The     *)
(* export of Analytics begins with the first page of the records.          *)
(***************************************************************************)
EXTENDS Naturals, Sequences, FiniteSets, SequencesExt

CONSTANTS
    size,      \* rows per page
    SortKeys,  \* values of a sort column that is not unique
    Categories,
    MaxRows,   \* bound: ids of a table
    MaxKeyed   \* bound: ids of a table that is listed by a column not unique

ASSUME ListingAssumption ==
    /\ size \in Nat \ {0}
    /\ SortKeys \subseteq Nat /\ SortKeys # {}
    /\ MaxRows \in Nat /\ MaxKeyed \in 0 .. MaxRows

Ids == 1 .. MaxRows

VARIABLES
    query,     \* the listing that is read, its sort column and its order
    rows,      \* the table, by id
    snapshot,  \* what the transaction of the request sees, or nothing
    page,      \* the page the reader asks for next
    step,      \* the next query, or "walked" after the last page
    answer,    \* the latest answer: items, total, page, pages
    seen,      \* history: the ids seen on this walk
    start,     \* history: the rows that met the conditions when it began
    shrank     \* history: a row was deleted or changed during the walk

listVars == <<query, rows, snapshot, page, step, answer, seen, start, shrank>>

(* The orders in which each listing can be asked for.  Only the export's   *)
(* condition on the category is told apart from the others.                *)
UsersQuery   == [list : {"users"}, by : {"id"}, order : {"asc"}, category : {"all"}]
LogsQuery    == [list : {"logs"}, by : {"id"}, order : {"desc"}, category : {"all"}]
MetricsQuery == [list : {"metrics"}, by : {"key"}, order : {"asc", "desc"}, category : {"all"}]
RecordsQuery == [list : {"records"}, by : {"id", "key"}, order : {"asc", "desc"}, category : {"all"}]
ExportQuery  == [list : {"export"}, by : {"key"}, order : {"desc"},
                 category : {"all"} \cup Categories]
Queries == UsersQuery \cup LogsQuery \cup MetricsQuery \cup RecordsQuery \cup ExportQuery

(* In the export a record that fails a condition which all queries share   *)
(* is left out, as if it was not there.                                    *)
Rows == [key : IF query.by = "id" THEN {CHOOSE k \in SortKeys : TRUE} ELSE SortKeys,
         match : IF query.list = "export" THEN {TRUE} ELSE BOOLEAN,
         category : IF query.list = "export" THEN Categories
                    ELSE {CHOOSE c \in Categories : TRUE}]
Tables == UNION {[S -> Rows] : S \in SUBSET Ids}

(* The ids that the bounds leave to the table that is listed. *)
Room == IF query.by = "id" THEN Ids ELSE 1 .. MaxKeyed

NoRows == <<>>
NoAnswer == [items |-> <<>>, total |-> 0, page |-> 0, pages |-> 0]

(* A table of any content, and nothing asked yet. *)
ListInit ==
    /\ query \in Queries
    /\ rows \in {t \in Tables : DOMAIN t \subseteq Room}
    /\ snapshot = NoRows
    /\ page = 1
    /\ step = "count"
    /\ answer = NoAnswer
    /\ seen = {}
    /\ start = {}
    /\ shrank = FALSE
-------------------------------------------------------------------------------
(* The conditions, which the count and the page share. *)
Matching(table) ==
    {id \in DOMAIN table :
        table[id].match /\ query.category \in {"all", table[id].category}}

(* Mutant of Precedes: the query has no ORDER BY. *)
PrecedesNever(table, a, b) == FALSE

Precedes(table, a, b) ==
    LET x == IF query.by = "id" THEN a ELSE table[a].key
        y == IF query.by = "id" THEN b ELSE table[b].key
    IN  IF query.order = "asc" THEN x < y ELSE x > y

(* ORDER BY: the database may return rows with equal keys in any order.    *)
Sorted(table) ==
    {s \in SetToSeqs(Matching(table)) :
        \A i, j \in DOMAIN s : i < j => ~Precedes(table, s[j], s[i])}

(* Mutant of Slice: the query has no LIMIT. *)
SliceUnlimited(s) == SubSeq(s, (page - 1) * size + 1, Len(s))

(* OFFSET (page - 1) * size LIMIT size. *)
Slice(s) ==
    LET last == IF page * size > Len(s) THEN Len(s) ELSE page * size
    IN  SubSeq(s, (page - 1) * size + 1, last)

(* Page.create() *)
CreatePage(items, total) ==
    [items |-> items, total |-> total, page |-> page, pages |-> (total + size - 1) \div size]

(* The transaction begins and counts.  The first page begins a new walk. *)
Count ==
    /\ step = "count"
    /\ snapshot' = rows
    /\ step' = "select"
    /\ IF page = 1
       THEN start' = Matching(rows) /\ shrank' = FALSE /\ seen' = {}
       ELSE UNCHANGED <<start, shrank, seen>>
    /\ UNCHANGED <<query, rows, page, answer>>

(* The export goes on with its next query in the same transaction. *)
Answer(items, total) ==
    /\ answer' = CreatePage(items, total)
    /\ seen' = seen \cup {items[i] : i \in DOMAIN items}
    /\ IF query.list = "export"
       THEN step' = "summary" /\ UNCHANGED <<page, snapshot>>
       ELSE /\ snapshot' = NoRows
            /\ IF page < answer'.pages
               THEN step' = "count" /\ page' = page + 1
               ELSE step' = "walked" /\ UNCHANGED page
    /\ UNCHANGED <<query, rows, start, shrank>>

(* Mutant of Select: the page is read after the snapshot is gone. *)
SelectCurrent ==
    /\ step = "select"
    /\ \E s \in Sorted(rows) : Answer(Slice(s), Cardinality(Matching(snapshot)))

(* The page is selected. *)
Select ==
    /\ step = "select"
    /\ \E s \in Sorted(snapshot) : Answer(Slice(s), Cardinality(Matching(snapshot)))

(* The reader goes back to the first page. *)
NewWalk ==
    /\ step = "walked"
    /\ step' = "count"
    /\ page' = 1
    /\ answer' = NoAnswer
    /\ seen' = {} /\ start' = {} /\ shrank' = FALSE
    /\ UNCHANGED <<query, rows, snapshot>>
-------------------------------------------------------------------------------
(* The others.  An AUTO_INCREMENT id is drawn before its commit, so a row  *)
(* may appear below ids that are visible already.                          *)
Insert ==
    /\ step # "walked"
    /\ \E id \in Room \ DOMAIN rows, r \in Rows :
          rows' = [i \in DOMAIN rows \cup {id} |-> IF i = id THEN r ELSE rows[i]]
    /\ UNCHANGED <<query, snapshot, page, step, answer, seen, start, shrank>>

(* Accounts and records are deleted and changed.  A log entry is not, but   *)
(* when its account is deleted its user_id becomes NULL, and it no longer  *)
(* meets a condition on that.  Metrics never change.                       *)
Change ==
    /\ step # "walked"
    /\ \E id \in DOMAIN rows :
          \/ /\ query.list \in {"users", "records", "export"}
             /\ \/ rows' = [i \in DOMAIN rows \ {id} |-> rows[i]]
                \/ \E r \in Rows \ {rows[id]} : rows' = [rows EXCEPT ![id] = r]
          \/ /\ query.list = "logs" /\ rows[id].match
             /\ rows' = [rows EXCEPT ![id].match = FALSE]
    /\ shrank' = TRUE
    /\ UNCHANGED <<query, snapshot, page, step, answer, seen, start>>

ListStep == Count \/ Select \/ NewWalk \/ Insert \/ Change
-------------------------------------------------------------------------------
ListTypeOK ==
    /\ query \in Queries
    /\ rows \in Tables
    /\ snapshot \in Tables
    /\ page \in Nat \ {0}
    /\ step \in {"count", "select", "summary", "categories", "trend", "walked"}
    /\ answer.items \in Seq(Ids) /\ Len(answer.items) <= size
    /\ seen \subseteq Ids
    /\ start \subseteq Ids
    /\ shrank \in BOOLEAN

(* An answer is of one piece, although rows come and go between its two    *)
(* queries: the items are as many as the total leaves for this page, no    *)
(* item is on it twice, and pages is the least number that holds total.    *)
PageAgrees ==
    LET a     == answer
        until == IF a.page * size < a.total THEN a.page * size ELSE a.total
        after == (a.page - 1) * size
    IN  a.page > 0 =>
          /\ Len(a.items) = IF until > after THEN until - after ELSE 0
          /\ Cardinality({a.items[i] : i \in DOMAIN a.items}) = Len(a.items)
          /\ a.pages * size >= a.total
          /\ (a.pages = 0 \/ (a.pages - 1) * size < a.total)

(* A walk through a listing in the order of its ids, the log and the       *)
(* accounts among them, meets every row there was when it began, whatever  *)
(* is inserted meanwhile; only a deletion or a change can hide one, which  *)
(* for the log is the deletion of an account that it is filtered by.  (A   *)
(* listing sorted by a column with equal values promises nothing like it.) *)
WalkMissesNothing ==
    step = "walked" /\ query.by = "id" /\ ~shrank => start \subseteq seen
===============================================================================
