----------------------------- MODULE ReportExport -----------------------------
(* The CSV export of a report (report-read.service.ts) while other requests    *)
(* write.  An export is four statements, each with its own snapshot: the       *)
(* counts, then the rows; those of an inventory report come from two lists,    *)
(* the balances and the catalogue without a balance.                           *)
EXTENDS Naturals, FiniteSets

CONSTANTS
  Reported,     \* products that may exist
  Limit         \* csvExportLimit, 10_000 in the code

ASSUME LimitAssumption == IsFiniteSet(Reported) /\ Limit \in Nat

VARIABLES
  catalog,     \* products that exist
  stocked,     \* those with a balance row
  export,      \* the export under way
  atRead       \* the rows there were when each list was read

exportVars == <<catalog, stocked, export, atRead>>

Lists == {"balances", "bare"}

Rows(list) == IF list = "balances" THEN stocked ELSE catalog \ stocked

NoExport == [step |-> "none"]

(* Other requests: a product is created, or receives its first balance.        *)
NewProduct(p) ==
  /\ p \notin catalog
  /\ catalog' = catalog \cup {p}
  /\ UNCHANGED <<stocked, export, atRead>>

FirstBalance(p) ==
  /\ p \in catalog \ stocked
  /\ stocked' = stocked \cup {p}
  /\ UNCHANGED <<catalog, export, atRead>>

BeginExport ==
  /\ export = NoExport
  /\ export' = [step |-> "counting", counts |-> <<>>, rows |-> <<>>]
  /\ atRead' = <<>>
  /\ UNCHANGED <<catalog, stocked>>

With(f, list, value) ==
  [l \in DOMAIN f \cup {list} |-> IF l = list THEN value ELSE f[l]]

Both(f) == DOMAIN f = Lists

(* The two counts run side by side, in either order.                           *)
Count(list) ==
  /\ export.step = "counting"
  /\ list \notin DOMAIN export.counts
  /\ export' = [export EXCEPT !.counts =
                  With(@, list, Cardinality(Rows(list)))]
  /\ UNCHANGED <<catalog, stocked, atRead>>

WithinLimit(total) == total <= Limit

CheckCounts ==
  /\ export.step = "counting"
  /\ Both(export.counts)
  /\ export' = IF WithinLimit(export.counts["balances"] + export.counts["bare"])
               THEN [export EXCEPT !.step = "reading"]
               ELSE [export EXCEPT !.step = "too large"]
  /\ UNCHANGED <<catalog, stocked, atRead>>

(* take: csvExportProbeLimit, one row more than an export may have.            *)
ProbeAtLimit == Limit
Probe == Limit + 1

ReadRows(list, rows) ==
  /\ export.step = "reading"
  /\ list \notin DOMAIN export.rows
  /\ rows \subseteq Rows(list)
  /\ \/ rows = Rows(list) /\ Cardinality(rows) <= Probe
     \/ Cardinality(rows) = Probe
  /\ export' = [export EXCEPT !.rows = With(@, list, rows)]
  /\ atRead' = With(atRead, list, Rows(list))
  /\ UNCHANGED <<catalog, stocked>>

AnswerExport ==
  /\ export.step = "reading"
  /\ Both(export.rows)
  /\ export' =
       IF WithinLimit(Cardinality(export.rows["balances"])
                        + Cardinality(export.rows["bare"]))
       THEN [export EXCEPT !.step = "answered"]
       ELSE [export EXCEPT !.step = "too large"]
  /\ UNCHANGED <<catalog, stocked, atRead>>

LeaveExport ==
  /\ export.step \in {"answered", "too large"}
  /\ export' = NoExport
  /\ atRead' = <<>>
  /\ UNCHANGED <<catalog, stocked>>

ExportInit ==
  /\ catalog \in SUBSET Reported
  /\ stocked \in SUBSET catalog
  /\ export = NoExport
  /\ atRead = <<>>

ExportNext ==
  \/ \E p \in Reported : NewProduct(p)
  \/ \E p \in Reported : FirstBalance(p)
  \/ BeginExport
  \/ \E list \in Lists : Count(list)
  \/ CheckCounts
  \/ \E list \in Lists, rows \in SUBSET Reported : ReadRows(list, rows)
  \/ AnswerExport
  \/ LeaveExport

ExportSpec == ExportInit /\ [][ExportNext]_exportVars

-----------------------------------------------------------------------------
Answered == export.step = "answered"

(* An export that is answered was cut nowhere: each of its lists holds every   *)
(* row there was when it was read, even if rows were added after the count     *)
(* passed (ensureCsvExportWithinLimit after the read, csvExportProbeLimit).    *)
ExportNotCut == Answered => export.rows = atRead

=============================================================================
