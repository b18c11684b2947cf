---------------------------- MODULE MCSapCatalog ----------------------------
(* Two sessions, two secrets and two tables, of which SAP has one at first.*)
(* TABLES is absent, the name of the other, a pattern for both, or both.   *)
EXTENDS SapCatalog

CONSTANTS s1, s2

MCSessions == {s1, s2}
MCTables == {"SFLIGHT", "SCARR"}
MCTablesAtFirst == {"SFLIGHT"}
MCSecrets == {"mine", "other"}
MCTablesOptions ==
  [names : {{}, {"SCARR"}}, patterns : {{}, {MCTables}}]
=============================================================================
