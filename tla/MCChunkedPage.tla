--------------------------- MODULE MCChunkedPage ----------------------------
EXTENDS ChunkedPage

(* Text, characters that look like marks, a known and an unknown tag. *)
Parts == {<<"t">>, <<"<">>, <<"-", "<">>,
          <<"<", "!", "n", "-", ">">>, <<"<", "!", "u", "-", "u", "-", ">">>}

(* All pages of up to three parts, with nothing or a tail behind them: text, *)
(* a tag that is not closed, or one with a name that is too long.           *)
MCPages ==
  {<<>>} \cup
  {a \o b \o c \o tail : a \in Parts, b \in Parts \cup {<<>>}, c \in Parts \cup {<<>>},
                         tail \in {<<>>, <<"t", ">", "t", "t">>,
                                     <<"<", "!", "u", "u", "u", "u", "u", "-">>,
                                     <<"<", "!", "u", "u", "u", "u", "u", "u", "-", ">", "t">>}}

=============================================================================
