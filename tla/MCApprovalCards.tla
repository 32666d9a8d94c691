-------------------------- MODULE MCApprovalCards --------------------------
(* A small instance of ApprovalCards with two requests.                    *)
EXTENDS ApprovalCards

CONSTANT First   \* the request that is made first

\* Bound: there are clicks, or a second request.
FirstOnly == \A r \in Requests \ {First} : status[r] = "absent"
Bounded   == /\ status[First] = "absent" => FirstOnly
             /\ clicks # <<>> => FirstOnly

BoundedSpec ==
  /\ Init /\ [][Next /\ Bounded']_vars
  /\ WF_vars(Owner /\ Bounded') /\ WF_vars(Poller /\ Bounded')
=============================================================================
