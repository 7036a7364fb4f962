-------------------------- MODULE MCFeatureOwner --------------------------
(* Instance of FeatureOwner: local image 1, deployed images 2 and 3. *)
EXTENDS FeatureOwner

\* Each kind of environment event; two of set_owner and of those about the
\* API server and ctrmgrd itself; a second version that takes over.
MCScene ==
    {[may |-> {e}, max |-> 1] : e \in {"withdraw", "crash", "stop", "kill"}}
        \union {[may |-> {"owner"}, max |-> 2], [may |-> {"server", "fail", "restart"}, max |-> 2],
                [may |-> {"crash", "withdraw", "no_fallback"}, max |-> 0], [may |-> {"upgrade"}, max |-> 0]}
============================================================================
