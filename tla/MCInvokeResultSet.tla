------------------------- MODULE MCInvokeResultSet -------------------------
EXTENDS InvokeResultSet

Invoke(results, rows, path, selected) ==
  [results |-> results, rows |-> rows, path |-> path, selected |-> selected]

Row == <<Scalar, Struct(<<Scalar, Scalar>>), Scalar>>

(* A scalar, a structure with a table in it, a table, a table of lines.    *)
Mixed == <<Scalar, Struct(<<Scalar, Table(<<Scalar, Scalar>>)>>), Table(Row), Lines>>

Paths == {<<>>, <<1>>, <<2>>, <<3>>, <<4>>, <<5>>, <<2, 1>>, <<2, 2>>, <<2, 3>>,
          <<2, 1, 1>>, <<4, 1>>}

PathsBelowTable == {<<3, 1>>, <<3, 2>>, <<3, 3>>, <<2, 2, 2>>}

(* With no results, one scalar, only tables; with wanted columns.          *)
MCInvocations ==
  {Invoke(Mixed, n, path, <<>>) : n \in 0 .. 5, path \in Paths \cup PathsBelowTable}
    \cup {Invoke(Mixed, n, <<3>>, wanted) : n \in 0 .. 5,
                                            wanted \in {<<<<3, 3>>, <<3, 1>>>>, <<<<3, 4>>>>}}
    \cup {Invoke(<<Table(<<Scalar, Scalar>>)>>, n, <<1>>, <<<<1, 2>>, <<1, 1>>>>) : n \in {1, 3}}
    \cup {Invoke(<<Table(Row), Table(<<Scalar>>)>>, n, <<>>, <<>>) : n \in {0, 3}}
    \cup {Invoke(<<Lines>>, n, <<>>, <<>>) : n \in {0, 3}}
    \cup {Invoke(results, 0, <<>>, <<>>) : results \in {<<>>, <<Scalar>>}}
=============================================================================
