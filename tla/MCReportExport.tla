---------------------------- MODULE MCReportExport ----------------------------
(* A small instance of ReportExport for TLC. *)
EXTENDS ReportExport, TLC

Op(type, id, expense, author) ==
  [type |-> type, id |-> id, expense |-> expense, author |-> author]

\* Two expenses and two settlements, so that a listing has several pages, one of
\* each by somebody who may join late; an adjustment of either expense.
SmallGroup ==
  {Op("expense", 1, 0, 1), Op("expense", 2, 0, 2), Op("adjustment", 1, 2, 2),
   Op("settlement", 1, 0, 1), Op("settlement", 2, 0, 2)}
===============================================================================
