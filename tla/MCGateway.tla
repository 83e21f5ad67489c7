----------------------------- MODULE MCGateway -----------------------------
(* Two threads, two users; one key with a limit and one without.           *)
EXTENDS Gateway

CONSTANTS k1, k2

MCKeyUser  == [k \in Keys |-> IF k = k1 THEN "ann" ELSE "bob"]
MCKeyLimit == [k \in Keys |-> IF k = k1 THEN 2 ELSE 0]

MCWorkspaceOf == [w \in {1} |-> "ann"]

Token(form, prefix, secret) == [form |-> form, prefix |-> prefix, secret |-> secret]

Ann   == Token("bearer", k1, TRUE)
Bob   == Token("bearer", k2, TRUE)
Wrong == Token("bearer", k1, FALSE)

MCTokens == {Ann, Bob, Wrong}

R(route, token, arg) == [route |-> route, token |-> token, arg |-> arg]

\* Ann owns the workspace; Bob asks for her task and cannot create there.
MCRequests ==
  {R("create_task", Ann, 1), R("get_task", Ann, 1), R("summary", Ann, NoTask),
   R("create_task", Bob, 1), R("events", Bob, 1), R("runs", Wrong, NoTask),
   R("trace", Ann, 1), R("runs", Bob, NoTask), R("readyz", NoRequest.token, NoTask)}

=============================================================================
