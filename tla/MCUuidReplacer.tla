--------------------------- MODULE MCUuidReplacer ---------------------------
EXTENDS UuidReplacer
\* Name 5 is a second spelling of UUID 1.
MCUuidOf == <<1, 2, 3, 4, 1>>
MCCanonical == <<1, 2, 3, 4>>
\* Rename, exchange, chain, cycle, two tables in one, an identity row, and
\* the tables ReadMapping refuses.
MCCsvs ==
    {<<<<1, 2>>>>, <<<<1, 2>>, <<2, 1>>>>, <<<<2, 3>>, <<1, 2>>>>, <<<<1, 2>>, <<2, 3>>, <<3, 1>>>>,
     <<<<1, 2>>, <<3, 4>>>>, <<<<1, 2>>, <<2, 1>>, <<3, 4>>>>, <<<<2, 1>>, <<3, 2>>, <<4, 3>>>>,
     <<<<1, 1>>, <<2, 3>>>>, <<>>, <<<<1, Bad>>>>, <<<<1, 2>>, <<1, 3>>>>, <<<<1, 3>>, <<2, 3>>>>}
MCWorlds == {{1}, {1, 2}, {1, 3}, {1, 2, 3}, {1, 2, 3, 4}, {1, 5}, {3, 5}}
=============================================================================
