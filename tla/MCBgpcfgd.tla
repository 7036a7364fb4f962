----------------------------- MODULE MCBgpcfgd -----------------------------
(* Small instances of Bgpcfgd. *)
EXTENDS Bgpcfgd

MCListRow == {<<"x">>, <<"y", "x">>}

Link == {"port", "addr"}
Loop == {"lo", "loip"}

PeerScene(vary, opts, max) ==
    [base |-> ({"asn"} \union Loop \union (IF "local" \in opts THEN Link ELSE {})) \ vary, vary |-> vary \union {"peer"},
     opts |-> opts, max |-> max]

OtherScene(vary, opts, max) == [base |-> {}, vary |-> vary, opts |-> opts, max |-> max]

\* The neighbour with each group of its dependencies in turn, the static
\* routes with the ASN, and the allow list.
MCScene ==
    {PeerScene({"asn"}, {"fail"}, 3), PeerScene(Loop, {}, 3), PeerScene({"addr"}, {"local"}, 2),
     PeerScene({"port"}, {"local", "vnet"}, 2), PeerScene({"meta"}, {"meta"}, 3),
     OtherScene({"asn"} \union Route, {}, 3), OtherScene({"asn", "r1"}, {"fail"}, 3),
     OtherScene({"c1", "c2", Empty}, {}, 3), OtherScene({"c1", "c2", "c3"}, {}, 3)}

\* Two lists of one deployment.
ListScene == {OtherScene({"c1", "c2"}, {}, 2)}
=============================================================================
