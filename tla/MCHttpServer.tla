----------------------------- MODULE MCHttpServer -----------------------------
(* Requests for a small instance of HttpServer. *)
EXTENDS HttpServer

P(n) == [name |-> n, eq |-> TRUE]
Word(n) == [name |-> n, eq |-> FALSE]
Start(m, u) == [kind |-> "start", method |-> m, version |-> TRUE, url |-> u, parts |-> << >>]
Of(k) == [NoLine EXCEPT !.kind = k]
Body_(ps) == [Of("body") EXCEPT !.parts = ps]
Posting(ps) == <<Start("POST", "/"), Of("field"), Of("blank"), Body_(ps)>>

MCText ==
  [ get   |-> <<[Start("GET", "/a") EXCEPT !.parts = <<P("q"), P("r")>>], Of("field"), Of("blank")>>,
    head  |-> <<Start("HEAD", "/b"), Of("plain"), Of("field")>>,
    big   |-> <<Start("GET", "/a"), Of("blank")>>,
    old   |-> <<[Start("GET", "/a") EXCEPT !.version = FALSE], Of("blank")>>,
    post  |-> Posting(<<P("name"), P("phone")>>),
    half  |-> Posting(<<P("name"), Word("x"), P("city")>>),
    both  |-> Posting(<<Word("x"), P("phone"), P("name")>>),
    loop  |-> Posting(<<P("name"), Word("phone")>>) ]
MCClients == DOMAIN MCText
Long == {"get", "head", "big", "half", "both", "loop"}
Short == {"head", "old", "post"}
Restless == {"head", "big", "both"}
Present == {"/a"}
==============================================================================
