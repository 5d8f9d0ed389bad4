--------------------------- MODULE AuthChallenge ----------------------------
(***************************************************************************)
(* src/http/mod.rs, build_auth_request: the URL of the token server and    *)
(* its query, from the parameters of a WWW-Authenticate header.  realm may *)
(* be anywhere among the parameters; the others become the query.          *)
(***************************************************************************)
EXTENDS Text

Quote == "quote"
Realm == <<"realm">>

ASSUME ChallengeSymbols == {"=", ",", Blank, Quote, "Bearer", "realm"} \subseteq Symbol

\* The first parameter of tail: its key, its value, and what is after it.
ReadParam(tail) ==
    LET kv     == SplitOnce(tail, "=")
        opened == IF kv = None THEN None ELSE StripPrefix(kv[1][2], Quote)
        closed == IF opened = None THEN None ELSE SplitOnce(opened[1], Quote)
    IN  IF closed = None THEN None
        ELSE Some([key |-> Trim(kv[1][1]), value |-> closed[1][1], after |-> closed[1][2]])

\* Fault: the parameters before realm are forgotten.
AddParamForgets(p, request, pending) ==
    IF p.key = Realm
    THEN <<Some([url |-> p.value, query |-> <<>>]), <<>> >>
    ELSE IF request # None
    THEN <<Some([request[1] EXCEPT !.query = Append(@, <<p.key, p.value>>)]), pending>>
    ELSE <<None, Append(pending, <<p.key, p.value>>)>>

\* One turn of the loop: the request so far, and the parameters without one.
AddParam(p, request, pending) ==
    IF p.key = Realm
    THEN <<Some([url |-> p.value, query |-> pending]), <<>> >>
    ELSE IF request # None
    THEN <<Some([request[1] EXCEPT !.query = Append(@, <<p.key, p.value>>)]), pending>>
    ELSE <<None, Append(pending, <<p.key, p.value>>)>>

\* One turn of the loop: a parameter, and a comma if it is not the last one; an error
\* returns None.
Turn(s) ==
    LET p == ReadParam(s.tail)
        rest == TrimStart(p[1].after)
        next == AddParam(p[1], s.request, s.pending)
    IN  IF s.returned THEN s
        ELSE IF p = None THEN [s EXCEPT !.request = None, !.returned = TRUE]
        ELSE IF rest # <<>> /\ StripPrefix(rest, ",") = None
        THEN [s EXCEPT !.request = None, !.returned = TRUE]
        ELSE [tail |-> IF rest = <<>> THEN <<>> ELSE Tail(rest), request |-> next[1],
              pending |-> next[2], returned |-> rest = <<>>]

\* Each turn takes a symbol of the tail at least, or returns.
Loop(tail) ==
    LET turns[n \in 0..Len(tail) + 1] ==
            IF n = 0 THEN [tail |-> tail, request |-> None, pending |-> <<>>, returned |-> FALSE]
            ELSE Turn(turns[n - 1])
    IN  turns[Len(tail) + 1].request

\* The symbol "Bearer" is the word and the blank that strip_prefix takes with it.
BuildAuthRequest(header) ==
    LET bearer == StripPrefix(header, "Bearer")
    IN  IF bearer = None THEN None ELSE Loop(bearer[1])
-----------------------------------------------------------------------------
\* A header as registries write it, with a blank before each key, =, and comma,
\* or without them.
WriteParam(p, blanks) == blanks \o p[1] \o blanks \o <<"=", Quote>> \o p[2] \o <<Quote>> \o blanks
WriteHeader(params, blanks) ==
    LET last[n \in 0..Len(params)] ==       \* the last n parameters
            IF n = 0 THEN <<>>
            ELSE WriteParam(params[Len(params) + 1 - n], blanks)
                 \o (IF n = 1 THEN <<>> ELSE <<",">>) \o last[n - 1]
    IN  <<"Bearer">> \o last[Len(params)]

\* The request for a list of parameters with one realm, not parsed but looked at as
\* a whole: the URL is the realm, and all the other parameters are sent, in their order.
Realms(params) == {p \in Range(params) : p[1] = Realm}
RequestFor(params) ==
    LET realm == LastAt(params, Realms(params))
    IN  IF realm = 0 THEN None
        ELSE Some([url   |-> params[realm][2],
                   query |-> Before(params, realm) \o After(params, realm)])

\* Headers that can be read: = is not in a key, a quote is not in a value, and the
\* blanks are around a key, not in it; and which have one realm at most.  What is
\* expected of a second realm is written nowhere; the code drops what came before it.
Readable(params, blanks) ==
    /\ \A i \in DOMAIN blanks : blanks[i] = Blank
    /\ \A i \in DOMAIN params :
          /\ ~Contains(params[i][1], "=") /\ ~Contains(params[i][2], Quote)
          /\ \A j \in {1, Len(params[i][1])} \intersect DOMAIN params[i][1] : params[i][1][j] # Blank
    /\ \A i, j \in DOMAIN params : params[i][1] = Realm /\ params[j][1] = Realm => i = j

\* A token is asked for with every parameter of the challenge, wherever realm is,
\* whatever the values contain; a challenge that ends in a comma is refused.
ChallengeIsSent(params, blanks) ==
  Readable(params, blanks) =>
    /\ BuildAuthRequest(WriteHeader(params, blanks)) = RequestFor(params)
    /\ BuildAuthRequest(WriteHeader(params, blanks) \o <<",">>) = None
=============================================================================
