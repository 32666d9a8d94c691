-------------------------- MODULE MCPayloadStores --------------------------
(* A small instance of the payload stores.                                  *)
EXTENDS PayloadStores, TLC

CONSTANTS o1, o2   \* owners of streams

\* One stream request of each of two owners.
TwoOwners == {<<o1, "a">>, <<o2, "a">>}

\* Two uploads of one owner and one of another.
ThreeUploads == {<<"p1", "a">>, <<"p1", "b">>, <<"p2", "a">>}

\* The two owners of streams do the same; of contents and secrets only
\* equality matters.
Symmetry ==
  Permutations({o1, o2}) \cup Permutations(Contents) \cup Permutations(Secrets)
=============================================================================
