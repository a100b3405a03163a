--------------------------- MODULE MCHttpsServer ---------------------------
(* Small instances of the HTTPS server for TLC.                            *)
EXTENDS HttpsServer

Client(version, hello, kind, records, parts, ends) ==
    [tls |-> version, hello |-> hello, kind |-> kind, records |-> records, parts |-> parts,
     ends |-> ends]
Staying(kind, records, parts) == Client("1.3", 1, kind, records, parts, "stays")

(* Clients that may give up: a header in two records, a ClientHello in two *)
(* segments, a body in a record of its own.                                *)
GivingUp ==
    UNION {{Client("1.3", 1, "get", <<<<"line">>, <<"end">>>>, 2, ends),
            Client("1.3", 2, "get", <<<<"line", "end">>>>, 1, ends),
            Client("1.3", 1, "post", <<<<"line", "end">>, <<"b1">>>>, 1, ends)}
           : ends \in {"stays", "closes", "resets"}}

(* The header may be any number of records, the body comes with its end;   *)
(* the last two fill the buffer, one of them up to a zero byte.            *)
OneRecord ==
    {Staying(kind, <<<<"line", "end">>>>, 2) : kind \in {"file", "other"}}
    \cup {Staying("post", records, 2) :
        records \in {<<<<"line">>, <<"end", "b1", "b2">>>>,
                     <<<<"line">>, <<"line">>, <<"end", "b1">>>>,
                     <<<<"line">>, <<"line", "end", "b1", "b2">>>>,
                     <<<<"line", "line", "end", "b1", "zero">>>>}}

LongHandshake == {Client("1.2", n, "get", <<<<"line", "end">>>>, 1, "stays") : n \in {1, 2}}

(* Bodies in records of their own, each of which arrives in one piece.     *)
LateBody == {Staying("post", <<<<"line", "end", "b1">>, <<"b1">>, <<"b2">>>>, 1)}

(* The body does not fit with the header; the header is too long, or fills *)
(* the buffer.                                                             *)
Long ==
    {Staying("post", <<<<"line", "line", "end", "b1", "b1", "b2">>>>, 3),
     Staying("get", <<<<"line", "line", "line", "line", "line">>, <<"end">>>>, 2)}

Quick == Staying("get", <<<<"line", "end">>>>, 1)
Slow == Client("1.3", 2, "get", <<<<"line", "end">>>>, 1, "stays")

(* c2 comes before, after or together with c1, whatever that wants.        *)
Pairs ==
    {[c \in Conn |-> IF c = "c1" THEN r ELSE Quick] :
        r \in GivingUp \cup OneRecord \cup LongHandshake \cup LateBody \cup Long}
    \cup {[c \in Conn |-> Slow]}
TwoConns == {"c1", "c2"}
=============================================================================
