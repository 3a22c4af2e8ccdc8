---------------------------- MODULE MCOptoSync ----------------------------
EXTENDS OptoSync

Text(name, text, raw) ==
  [name |-> name, kind |-> "string", text |-> text, raw |-> raw, inner |-> ""]
Number(name) ==
  [name |-> name, kind |-> "number", text |-> "", raw |-> "", inner |-> ""]
Object(name, inner, raw) ==
  [name |-> name, kind |-> "object", text |-> "", raw |-> raw, inner |-> inner]

Body(text, members) == <<[text |-> text, members |-> members]>>

Sent(as, text) == [sent |-> as, text |-> text]
Plain(text) == Sent(text, text)

\* PATCH /v1/{id}/walk, the id in the path.
Walk(id, body) ==
  [delivery |-> "opto_sync_queued", bound |-> TRUE, operation |-> "upsert",
   from |-> "path", name |-> "{id}", key |-> "walk",
   template |-> <<"v1", "{id}", "walk">>, path |-> <<Plain("v1"), Plain(id), Plain("walk")>>,
   body |-> body, means |-> id]

\* PUT /v1, the id in field "id" of the body.
Put(body) ==
  [Walk("m1", body) EXCEPT !.from = "request", !.name = "id", !.key = "put",
                           !.template = <<"v1">>, !.path = <<Plain("v1")>>]

MCRequests ==
  {Walk("m1", Body("a", <<>>)), Walk("m1", Body("b", <<>>)), Walk("m2", Body("a", <<>>)),
   [Walk("m/1", Body("a", <<>>)) EXCEPT !.path[2] = Sent("m%2F1", "m/1")],
   Walk("m1", <<>>),
   [Walk("m1", <<>>) EXCEPT !.operation = "delete"],
   [Walk("m1", Body("a", <<>>)) EXCEPT !.operation = "delete"],
   [Walk("m1", Body("a", <<>>)) EXCEPT !.delivery = "direct"],
   [Walk("m1", Body("a", <<>>)) EXCEPT !.bound = FALSE],
   [Walk("m1", Body("a", <<>>)) EXCEPT !.template = <<"v1", "{*id}", "walk">>],
   [Walk("m1", Body("a", <<>>)) EXCEPT !.from = "minted"],
   Put(<<>>),
   Put(Body("plain", <<Text("id", "m1", "m1")>>)),
   Put(Body("number", <<Number("id")>>)),
   Put(Body("escaped", <<Text("id", "m1", "m2")>>)),
   Put(Body("value", <<Text("kind", "id", "id"), Text("id", "m1", "m1")>>)),
   Put(Body("nested", <<Object("meta", "id", "m2"), Text("id", "m1", "m1")>>))}
===========================================================================
