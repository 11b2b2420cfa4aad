------------------------------ MODULE SqlLogic ------------------------------
(***************************************************************************)
(* The three-valued conditions of Spark SQL that the row checks under      *)
(* databricks/common are written in.  A filter keeps a row only when its   *)
(* condition is "true", so a condition and its negation may both drop it.  *)
(***************************************************************************)

Null == "null"

(* The & and | of column conditions, and ~.                                *)
AllOf(truths) ==
  IF "false" \in truths THEN "false" ELSE IF Null \in truths THEN Null ELSE "true"

AnyOf(truths) ==
  IF "true" \in truths THEN "true" ELSE IF Null \in truths THEN Null ELSE "false"

Negation(truth) == [true |-> "false", false |-> "true", null |-> Null][truth]

(* A comparison of a column with a value, a list or a range: NULL when the *)
(* column is.  isNotNull is never NULL.                                    *)
IsIn(value, values) ==
  IF value = Null THEN Null ELSE IF value \in values THEN "true" ELSE "false"

IsNotNull(value) == IF value = Null THEN "false" ELSE "true"

Holds(truth) == truth = "true"

=============================================================================
