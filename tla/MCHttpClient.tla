---------------------------- MODULE MCHttpClient ----------------------------
(* Small instances of the request libraries for TLC.                       *)
EXTENDS HttpClient, TLC

TwoHosts == [r \in Request |-> IF r = "r1" THEN "h1" ELSE "h2"]
TwoRequests == {"r1", "r2"}

(* The second host, which is posted to with a bare URL, may be anything.   *)
SecondPosts == {"r2"}
TwoHostStates ==
    [t \in BOOLEAN |->
        {[h \in Host |-> IF h = "h1" THEN "none" ELSE k] :
            k \in {"unknown", "down"} \cup (IF t THEN {"noTls", "named", "Inc"} ELSE {"none"})}]

(* Responses of HTTP_server: no Content-Length, the server closes.  They   *)
(* are shorter than the buffer, as long, and longer.                       *)
Page(body) ==
    [header |-> 2, name |-> 0, value |-> 0, body |-> body, records |-> {2 + body},
     keepAlive |-> FALSE]

(* Responses with Content-Length: its line is units 2 and 3 of the header. *)
Announced(body, records, keep) ==
    [header |-> 4, name |-> 2, value |-> 3, body |-> body, records |-> records,
     keepAlive |-> keep]

(* TLS records that end with lines of the header and anywhere in the body, *)
(* or with the name of the length.  The second request gets little.        *)
Pages ==
    [t \in BOOLEAN |->
        {[r \in Request |-> IF r = "r1" THEN p ELSE IF t THEN Announced(0, {4}, TRUE) ELSE Page(1)] :
            p \in IF t THEN {Announced(2, {1, 3, 4, 5, 6}, TRUE), Announced(3, {4, 7}, FALSE),
                             Announced(2, {2, 6}, TRUE)}
                  ELSE {Page(5), Page(6), Announced(1, {5}, TRUE)}}]
=============================================================================
