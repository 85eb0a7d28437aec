---------------------------- MODULE MCWsPipeline -----------------------------
EXTENDS WsPipeline

\* A full message, one of a single field, and one that is all defaults.
MCObjects ==
  {Null, EmptyMsg, [EmptyMsg EXCEPT !.msgid = "ask"],
   [msgseq |-> 2, msgid |-> "login", content |-> <<"u8", "x">>]}

\* One text is not ASCII, and the platform reads it as something else.
MCCharset == [t \in Texts |-> IF t = "x" THEN "y" ELSE t]
==============================================================================
