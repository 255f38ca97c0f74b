------------------------------ MODULE MCNodes ------------------------------
(***************************************************************************)
(* Programs of a few nodes over a handful of words.                        *)
(***************************************************************************)
EXTENDS PreludeNodes

AllNodes == DOMAIN Prelude
Image == {<<"image">>}
Words == {<<"image">>, <<".">>}
Here == {<<".">>}
=============================================================================
