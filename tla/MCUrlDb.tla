------------------------------ MODULE MCUrlDb ------------------------------
(* Two hosts, one in the domain of the other, the paths /, //a, /a, /a/, /ab. *)
EXTENDS UrlDb

Sites  == {<<"com", "x">>, <<"com", "x", "a">>}
Paths  == {<<"">>, <<"", "a">>, <<"a">>, <<"a", "">>, <<"ab">>}
Sorted == <<"", "a", "ab">>
Begin  == {<<"", "">>, <<"a", "a">>, <<"ab", "ab">>,
           <<"a", "">>, <<"ab", "">>, <<"ab", "a">>}
Times  == {-1, 1}
=============================================================================
