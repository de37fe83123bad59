-------------------------- MODULE MCControlRequests --------------------------
(***************************************************************************)
(* Requests that are well-formed, and some of each kind that are not.      *)
(***************************************************************************)
EXTENDS ControlRequests
CONSTANTS c1, c2, t1, t2

Req(kind, toml, head, declared, body) ==
    [kind |-> kind, toml |-> toml, head |-> head, declared |-> declared, body |-> body]

MCRequests == {
    Req("put", t1, 2, 2, 2), Req("put", t2, 1, 1, 1), Req("put", Garbage, 1, 1, 1),
    Req("put", t2, 1, 1, 2), Req("start", t1, 1, 0, 1), Req("start", t1, 1, 2, 2),
    Req("get", t1, 2, 0, 0), Req("other", t1, 1, 0, 0), Req("get", t1, 4, 0, 0),
    Req("start", t1, 1, None, 1), Req("start", t1, 1, 4, 4)}
=============================================================================
