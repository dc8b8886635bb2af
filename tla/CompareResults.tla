--------------------------- MODULE CompareResults --------------------------
(***************************************************************************)
(* model/compare_results.py: compares the summary and the trace a bench    *)
(* wrote with those of the reference model.  A summary maps names to texts *)
(* and may lack some; a trace is a sequence of rows, each mapping names to *)
(* values; a trace that is absent is NoFile.                               *)
(***************************************************************************)
EXTENDS Sequences, Naturals

CONSTANTS
  Keys,     \* what is compared of the summaries: r0-r15, pc, c, z, v, s
  Fields,   \* what TRACE_RE asks of a row: the keys, addr and ir
  NoFile

(* dict.get: <<>> where there is nothing. *)
Get(summary, key) == IF key \in DOMAIN summary THEN <<summary[key]>> ELSE <<>>

Mismatches(rtl, ref) == {key \in Keys : Get(rtl, key) # Get(ref, key)}

(* Rows that do not have all the fields are skipped without a word. *)
load_trace(rows) ==
  LET loaded[n \in 0 .. Len(rows)] ==
        IF n = 0 THEN <<>>
        ELSE IF Fields \subseteq DOMAIN rows[n] THEN Append(loaded[n - 1], rows[n])
        ELSE loaded[n - 1]
  IN  loaded[Len(rows)]

SameRow(a, b) == \A field \in Fields : a[field] = b[field]

(* As if zip alone decided: the longer trace is cut. *)
SameRowsZipped(a, b) ==
  \A i \in 1 .. (IF Len(a) < Len(b) THEN Len(a) ELSE Len(b)) : SameRow(a[i], b[i])

SameRows(a, b) == Len(a) = Len(b) /\ \A i \in 1 .. Len(a) : SameRow(a[i], b[i])

trace_status(rtl, ref) ==
  IF rtl = NoFile \/ ref = NoFile THEN "not_run"
  ELSE IF SameRows(load_trace(rtl), load_trace(ref)) THEN "match" ELSE "mismatch"

(* The report and the exit code of main. *)
Report(rtl_summary, ref_summary, rtl_trace, ref_trace) ==
  LET status == trace_status(rtl_trace, ref_trace)
      bad    == Mismatches(rtl_summary, ref_summary)
  IN  [mismatch_fields |-> bad,
       trace_match     |-> status,
       exit            |-> IF bad # {} \/ status = "mismatch" THEN 1 ELSE 0]
=============================================================================
