--------------------------- MODULE MCStreamStore ---------------------------
(* A small instance of StreamStore alone.                                   *)
EXTENDS StreamStore

\* Two requests of one owner.
TwoKeys == {<<"o1", "a">>, <<"o1", "b">>}
=============================================================================
