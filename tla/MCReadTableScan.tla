--------------------------- MODULE MCReadTableScan ---------------------------
EXTENDS ReadTableScan

MCScans == {<<0, 0>>, <<3, 0>>, <<4, 0>>, <<37, 0>>, <<132, 0>>,
            <<9, 7>>, <<5, 7>>, <<64, 64>>, <<80, 64>>,
            <<66, 66>>, <<72, 67>>, <<67, 67>>, <<72, 70>>, <<66, 70>>}
=============================================================================
