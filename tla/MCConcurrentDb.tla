----------------------------- MODULE MCConcurrentDb -----------------------------
(* Two prefixes, one of them cut in ranges; a short key, one at the start of *)
(* a range and a large value that fills a table on its own.                  *)
EXTENDS KeyRanges

MCKeys == {<<0>>, <<0, 1>>, <<0, 1, 1>>, <<1, 0>>}

MCSize == [k \in MCKeys |-> IF k = <<0, 1>> THEN 2 ELSE 1]

MCDepth == [p \in Byte |-> IF p = 0 THEN 1 ELSE 0]

===============================================================================
