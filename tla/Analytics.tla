------------------------------ MODULE Analytics ------------------------------
(***************************************************************************)
(* The report of GET /analytics/export (api/v1/analytics.py): the records  *)
(* as list_records() lists them, and the three aggregations of             *)
(* services/analytics_service.py, four queries one after the other in the  *)
(* transaction of the request, while others write.  The endpoints summary, *)
(* categories and trend are the same queries, each in a transaction of its *)
(* own.  The value of a record is its id, and its time a number of hours;  *)
(* mean, least and greatest value come from the rows of count and total.   *)
(***************************************************************************)
EXTENDS Listing

VARIABLE report   \* the sheets that are ready

vars == <<listVars, report>>

NoReport == [summary |-> [count |-> 0, total |-> 0], categories |-> <<>>, trend |-> <<>>]

Init == ListInit /\ report = NoReport

Aggregate(ids) ==
    [count |-> Cardinality(ids), total |-> SumFunction([id \in ids |-> id])]

(* GROUP BY an attribute, a function of the rows. *)
Grouped(ids, attribute) ==
    [v \in {attribute[id] : id \in ids} |-> Aggregate({id \in ids : attribute[id] = v})]

(* One query of the report, on the snapshot of its transaction. *)
Query(place, next) ==
    /\ step = place
    /\ step' = next
    /\ UNCHANGED <<query, rows, page, answer, seen, start, shrank>>

Summary ==
    /\ Query("summary", "categories")
    /\ report' = [report EXCEPT !.summary = Aggregate(Matching(snapshot))]
    /\ UNCHANGED snapshot

(* Mutant of AggregateByCategory: it reads what is committed by now. *)
AggregateByCategoryNow ==
    /\ Query("categories", "trend")
    /\ LET category == [id \in DOMAIN rows |-> rows[id].category]
       IN  report' = [report EXCEPT !.categories =
                         Grouped({id \in DOMAIN rows : rows[id].match}, category)]
    /\ UNCHANGED snapshot

(* aggregate_by_category(): the condition on the category is left out. *)
AggregateByCategory ==
    /\ Query("categories", "trend")
    /\ LET category == [id \in DOMAIN snapshot |-> snapshot[id].category]
       IN  report' = [report EXCEPT !.categories =
                         Grouped({id \in DOMAIN snapshot : snapshot[id].match}, category)]
    /\ UNCHANGED snapshot

(* The hours of a bucket of each granularity; days are short. *)
Span == [hour |-> 1, day |-> 2, month |-> 4]

Trend ==
    /\ Query("trend", "walked")
    /\ \E granularity \in DOMAIN Span :
          LET bucket == [id \in DOMAIN snapshot |-> snapshot[id].key \div Span[granularity]]
          IN  report' = [report EXCEPT !.trend = Grouped(Matching(snapshot), bucket)]
    /\ snapshot' = NoRows

Next ==
    \/ Count /\ report' = NoReport
    \/ (Select \/ NewWalk \/ Insert \/ Change) /\ UNCHANGED report
    \/ Summary \/ AggregateByCategory \/ Trend

Spec == Init /\ [][Next]_vars
-------------------------------------------------------------------------------
(* The values the variables take. *)
TypeOK ==
    /\ ListTypeOK
    /\ report.summary \in [count : Nat, total : Nat]
    /\ DOMAIN report.categories \subseteq Categories
    /\ \A b \in DOMAIN report.trend : report.trend[b].count \in 1 .. MaxRows

Sum(sheet) ==
    [count |-> SumFunction([v \in DOMAIN sheet |-> sheet[v].count]),
     total |-> SumFunction([v \in DOMAIN sheet |-> sheet[v].total])]

(* The sheets of a finished report are about one set of records: the       *)
(* buckets of the trend add up to the summary, and so do the categories,   *)
(* or the one that was asked for does; the list has the records the        *)
(* summary counts, up to its limit.                                        *)
ReportAgrees ==
    query.list = "export" /\ step = "walked" =>
        /\ Sum(report.trend) = report.summary
        /\ report.summary.count = answer.total
        /\ IF query.category = "all"
           THEN Sum(report.categories) = report.summary
           ELSE report.summary =
                   IF query.category \in DOMAIN report.categories
                   THEN report.categories[query.category]
                   ELSE NoReport.summary

(* Whatever is committed between the queries of an answer, it is of one    *)
(* piece: a page with its total, and a report sheet by sheet.              *)
AnswerAgrees == PageAgrees /\ ReportAgrees
===============================================================================
