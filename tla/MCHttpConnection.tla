------------------------- MODULE MCHttpConnection -------------------------
(* Small instances of a connection of the HTTP server for TLC.             *)
EXTENDS HttpConnection

Registration(method, name, does) == [method |-> method, url |-> name, does |-> does]
GetDemo == <<"/", "g", "e", "t", "d", "e", "m", "o">>
PostDemo == <<"/", "p", "o", "s", "t", "d", "e", "m", "o">>

(* Of four handlers the second hides the third, and the fourth is too much.*)
FourHandlers ==
    <<Registration("GET", GetDemo, "get"), Registration("POST", PostDemo, "post"),
      Registration("POST", PostDemo, "get"), Registration("GET", PostDemo, "get")>>

Index == <<"/", "i", "n", "d", "e", "x">> \o html
Zero == <<"/", "z">>
(* The other suffixes, none, suffixes that lack their dot with and without *)
(* something in its place, a directory, a file with a zero byte.           *)
OtherFiles ==
    {<<"/", "a">> \o css, <<"/", "a">> \o js, <<"/", "h", "t", "m", "l">>,
     <<"/", "x", "h", "t", "m", "l">>, <<"/", "j", "s">>, <<"/", "a", ".", "h", "t", "m">>, <<"/">>}
SomeFiles ==
    [url \in {Index, Zero} \cup OtherFiles |->
        IF url = Index THEN <<<<"f1", "f2">>, <<"f3">>>>
        ELSE IF url = Zero THEN <<<<"f1", "zero", "f2">>, <<"f3">>>>
        ELSE IF url = <<"/">> THEN <<>> ELSE <<<<"f1">>>>]
AnErrorPage == <<<<"e1", "e2">>, <<"e3">>>>

Want(method, url, header, body, length) ==
    [method |-> method, url |-> url, header |-> header, body |-> body, length |-> length]
Body == <<"b1", "b2">>

(* Headers shorter than the buffer, as long, and longer; bodies that are   *)
(* announced, not announced, and sent to a URL that ignores them.          *)
ManyRequests ==
    {Want("GET", url, 2, <<>>, 0) : url \in DOMAIN SomeFiles}
        \cup {Want("GET", GetDemo, n, <<>>, 0) : n \in 3..5}
        \cup {Want("POST", PostDemo, n, Body, 2) : n \in 2..4}
        \cup {Want("POST", PostDemo, 2, Body, 0), Want("GET", PostDemo, 2, <<>>, 0),
              Want("POST", <<"/", "o">>, 2, Body, 2)}
=============================================================================
