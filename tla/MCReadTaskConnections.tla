------------------------ MODULE MCReadTaskConnections ------------------------
EXTENDS ReadTaskConnections, TLC

CONSTANTS t1, t2

(* One scan of two columns, the first of a string type.                    *)
OneScan   == {<<1, 1>>, <<1, 2>>}
Strings   == {<<1, 1>>}

TwoThreads == {t1, t2}

(* Which thread is which makes no difference.                              *)
AnyThread == Permutations(TwoThreads)

(* Both functions have ET_DATA (a system where one has none is like one    *)
(* whose probe fails).  RFC_READ_TABLE fails for the table, or both do.    *)
TwoFunctions == {"/SAPDS/RFC_READ_TABLE2", "RFC_READ_TABLE"}
MCSystems    == {TwoFunctions}
OneOrBothFail == {{"RFC_READ_TABLE"}, TwoFunctions}
=============================================================================
