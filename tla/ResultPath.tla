----------------------------- MODULE ResultPath -----------------------------
(***************************************************************************)
(* Which columns a path selects from the results of a function module.     *)
(* RfcResultSet walks the path twice: along the types for the schema, and  *)
(* along the values for the data.                                          *)
(*                                                                         *)
(* A name is a position: of a parameter in the results, of a field in its  *)
(* type.  A column is named by the path to it.                             *)
(***************************************************************************)
EXTENDS Integers, SequencesExt, FiniteSetsExt

(* Types of the SDK.  A table of a line type has one field without a name. *)
Scalar     == [kind |-> "scalar", fields |-> <<>>]
Struct(fs) == [kind |-> "struct", fields |-> fs]
Table(fs)  == [kind |-> "table", fields |-> fs]
Lines      == [kind |-> "lines", fields |-> <<Scalar>>]

To(p, k) == SubSeq(p, 1, k)

(* The type a path leads to; the empty path leads to all results.          *)
TypeAt(results, p) == FoldLeft(LAMBDA t, name : t.fields[name], Struct(results), p)

IsScalar(results, p) == TypeAt(results, p).kind = "scalar"
IsList(results, p)   == TypeAt(results, p).kind \in {"table", "lines"}

Children(results, p) == [i \in DOMAIN TypeAt(results, p).fields |-> Append(p, i)]

(* Every token names a field of the type before it.                        *)
PathFound(results, p) ==
  \A k \in DOMAIN p :
    /\ TypeAt(results, To(p, k - 1)).kind # "lines"
    /\ p[k] \in DOMAIN TypeAt(results, To(p, k - 1)).fields

(* The columns at the end of a path: its fields, or the end itself if that *)
(* is a scalar below the first level.                                      *)
ColumnsAt(results, p) ==
  IF Len(p) > 1 /\ IsScalar(results, p) THEN <<p>> ELSE Children(results, p)

InferResultSchema(results, p) == ColumnsAt(results, p)

(* The values are those of the first table on the path: what follows is    *)
(* not looked at.                                                          *)
ListDepths(results, p) == {k \in DOMAIN p : IsList(results, To(p, k))}

Pivoted(results, p) == ListDepths(results, p) # {}

ValuePath(results, p) ==
  IF Pivoted(results, p) THEN To(p, Min(ListDepths(results, p))) ELSE p

ValueColumns(results, p) == ColumnsAt(results, ValuePath(results, p))

(* A parameter that is a scalar has no columns.  Nor has a table of lines, *)
(* but there the message names the token behind the last one, which is not *)
(* there: what follows is undefined.                                       *)
PathConvertible(results, p) ==
  /\ ~ (Len(p) = 1 /\ IsScalar(results, p))
  /\ TypeAt(results, ValuePath(results, p)).kind # "lines"

PathUndefined(results, p) == TypeAt(results, ValuePath(results, p)).kind = "lines"

(* All values are lists: the columns of a table, or tables.                *)
IsTabularResult(results, p) ==
  \/ Pivoted(results, p)
  \/ \A s \in DOMAIN ValueColumns(results, p) : IsList(results, ValueColumns(results, p)[s])
=============================================================================
