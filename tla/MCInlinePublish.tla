--------------------------- MODULE MCInlinePublish ---------------------------
EXTENDS InlinePublish, TLC

CONSTANTS s1, s2, s3, s4

\* s1 and s2 propose the same code in other words, s2 and s3 say the same of
\* other code; s3 is rejected as it is and s4 always.
ProseOf == (s1 :> "p1") @@ (s2 :> "p2") @@ (s3 :> "p2") @@ (s4 :> "p4")
CodeOf  == (s1 :> "c1") @@ (s2 :> "c1") @@ (s3 :> "c3") @@ (s4 :> "c4")
ShortLists == {<<s3>>}
=============================================================================
