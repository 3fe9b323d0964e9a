----------------------------- MODULE MCFormData -----------------------------
EXTENDS FormData

Names == {<<"x">>, <<"x", "x", "x">>}

Values == {<<>>, <<"x">>, <<"x", "x", "x">>, <<"%", "d", "d", "x">>, <<"%", "a", "d">>}

(* A field with name n and value v. *)
AField(n, v) == n \o <<"=">> \o v

Pairs == {AField(n, v) : n \in Names, v \in Values}

(* One field, two fields, three, and one that is longer than the buffer. *)
MCBodies ==
  Pairs
    \cup {f \o <<"&">> \o g : f \in Pairs, g \in Pairs}
    \cup {f \o <<"&">> \o AField(<<"x">>, v) \o <<"&">> \o g :
            f \in {AField(<<"x", "x">>, <<"x">>), AField(<<"x">>, <<"%", "d", "d">>)},
            v \in {<<>>, <<"x", "x">>},
            g \in {AField(<<"x">>, <<"x">>), AField(<<"x">>, <<"d", "d", "x">>)}}
    \cup {AField(<<"x">>, <<"x">>) \o <<"&">>
            \o AField(<<"x", "x", "x", "x">>, <<"x", "x", "x", "x", "x", "x", "x">>)}

=============================================================================
