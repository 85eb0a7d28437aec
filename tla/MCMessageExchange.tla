-------------------------- MODULE MCMessageExchange --------------------------
(* Integers of 3 bits; 4 and -5 do not fit. *)
EXTENDS MessageExchange

MCNumbers  == {-5, -4, 0, 4}
MCNames    == {"", "login"}
MCContents == {EmptyText, <<"b64", "x">>, <<"u8", "">>, <<"u8", "x">>}
\* Nothing stored, and defaults stored.
MCArrays   == {EmptyMsg, [msgseq |-> 0, msgid |-> "", content |-> EmptyText]}
\* 8 is cut to 0 and -9 to -1; an unknown field, a group's end and a repeated
\* field in every place; a default
\* that resets an earlier occurrence.
MCPeerMessages ==
  LET seq == <<1, 8>>  neg == <<1, -9>>  id == <<2, "move">>
      body == <<3, <<"u8", "y">> >>  new == <<4, "new">>  end == <<0, "">>
  IN  { <<id, neg>>, <<neg, id, seq>>, <<body, <<2, "">>, id>>, <<new, body>>,
        <<id, new, <<2, "">> >>, <<body, end, id>>, <<neg, end, seq>>,
        <<body, <<3, <<"u8", "">> >> >> }
==============================================================================
