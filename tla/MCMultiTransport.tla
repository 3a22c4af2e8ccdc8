--------------------------- MODULE MCMultiTransport ---------------------------
(* An operation open to two kinds and one open to a single kind, over three   *)
(* wires of three kinds.                                                      *)
EXTENDS MultiTransport
MCKinds == {"http", "tcp", "websocket", "nats"}
MCKind == <<"websocket", "http", "tcp">>
MCOrders == {<<"tcp">>, <<"http", "nats", "tcp">>}
MCCalls == {"healthz", "get_matter", "gone"}
MCDeclared == [c \in MCCalls |-> IF c = "healthz" THEN {"http", "tcp", "nats"} ELSE {"http"}]
MCKnown == {"healthz", "get_matter"}
=============================================================================
