----------------------------- MODULE HistoricalFill -----------------------------
(***************************************************************************)
(* The verification of a fill against an observed path                     *)
(* (historical-fill.ts): did the signed price of a package come down to a  *)
(* limit between the submission of an order and its end, did it not, or    *)
(* can the path not tell.                                                  *)
(*                                                                         *)
(* A path is a sequence of points with their instant and signed price; a   *)
(* credit is a negative price.  A price of None cannot be read.            *)
(*                                                                         *)
(* EndUnchecked is a faulty variant of the definition after it, for        *)
(* testing the properties.                                                 *)
(***************************************************************************)
EXTENDS OptionPackage

\* threshold is the working limit, or the bound that a conservative model
\* asks for, which is no higher.
Threshold(order) ==
  IF order.model = "CONSERVATIVE_CROSS" THEN order.bound ELSE order.limit

ValidOrder(order) ==
  /\ order.submittedAt < order.validUntil /\ order.maxGap > 0
  /\ order.model = "CONSERVATIVE_CROSS" => order.bound # None
  /\ order.bound # None => order.bound <= order.limit

InWindow(order, path) ==
  SelectSeq(path, LAMBDA p : /\ p.value # None
                             /\ order.submittedAt <= p.at /\ p.at <= order.validUntil)

\* The last point of an instant stands for it.
Points(order, path) ==
  LET read == InWindow(order, path)
      last == {i \in DOMAIN read : \A j \in DOMAIN read : read[j].at = read[i].at => j <= i}
  IN  SetToSortSeq({read[i] : i \in last}, LAMBDA p, q : p.at < q.at)

-----------------------------------------------------------------------------
(* How well the points cover the window.                                    *)

LargestGap(points) ==
  Max({0} \cup {points[i].at - points[i - 1].at : i \in 2..Len(points)})

CoversStart(order, points) == points[1].at <= order.submittedAt + order.maxGap
CoversEnd(order, points) == Last(points).at >= order.validUntil - order.maxGap

\* Leaves out the stretch after the last point.
EndUnchecked(order, points) ==
  IF points = <<>> THEN "INVALID"
  ELSE IF Len(points) < 2 \/ ~CoversStart(order, points) THEN "PARTIAL"
  ELSE IF LargestGap(points) > order.maxGap THEN "SPARSE" ELSE "COMPLETE"

PathQuality(order, points) ==
  IF points = <<>> THEN "INVALID"
  ELSE IF Len(points) < 2 \/ ~CoversStart(order, points) \/ ~CoversEnd(order, points)
  THEN "PARTIAL"
  ELSE IF LargestGap(points) > order.maxGap THEN "SPARSE" ELSE "COMPLETE"

-----------------------------------------------------------------------------
(* The verdict.                                                             *)

NoTouch(quality) ==
  IF quality = "COMPLETE"
  THEN [status |-> "NOT_TOUCHED", at |-> None, window |-> None,
        resolution |-> "COMPLETE_NO_TOUCH", confidence |-> "HIGH"]
  ELSE [status |-> "NOT_VERIFIABLE", at |-> None, window |-> None,
        resolution |-> "INSUFFICIENT", confidence |-> "LOW"]

Bounded(start, end) ==
  [status |-> "TOUCHED", at |-> None, window |-> <<start, end>>,
   resolution |-> "BOUNDED_INTERVAL", confidence |-> "LOW"]

Touch(order, points, i, quality) ==
  IF i = 1 /\ points[i].at > order.submittedAt THEN Bounded(order.submittedAt, points[i].at)
  ELSE IF /\ i > 1 /\ points[i].at - points[i - 1].at > order.maxGap
          /\ points[i - 1].value > Threshold(order)
  THEN Bounded(points[i - 1].at, points[i].at)
  ELSE [status |-> "TOUCHED", at |-> points[i].at, window |-> None,
        resolution |-> "OBSERVED_POINT",
        confidence |-> IF quality = "COMPLETE" THEN "HIGH" ELSE "MEDIUM"]

CompareAssumption(status, assumption) ==
  IF assumption \in {None, "PENDING"} \/ status = "NOT_VERIFIABLE" THEN "NOT_COMPARABLE"
  ELSE IF (status = "TOUCHED") = (assumption = "FILLED") THEN "AGREES" ELSE "DISAGREES"

VerifyFill(order, path) ==
  LET points  == Points(order, path)
      quality == PathQuality(order, points)
      touched == SelectInSeq(points, LAMBDA p : p.value <= Threshold(order))
      verdict == IF touched > 0 THEN Touch(order, points, touched, quality) ELSE NoTouch(quality)
  IN  verdict @@ [quality |-> quality,
                  comparison |-> CompareAssumption(verdict.status, order.assumption)]

=============================================================================
