------------------------------ MODULE MCShttpd ------------------------------
EXTENDS Shttpd, TLC
CONSTANTS c1, c2

R(h, m, t, n, b, s, o, d) ==
    [header |-> h, method |-> m, target |-> t, clen |-> n, body |-> b, deaf |-> d,
     script |-> [reads |-> s, out |-> o]]

\* c1 asks for a script: one that reads its input, and whose output it does not read
\* itself, one that does not, whose input is cut short, or none.  The header of c2 is
\* too long, and its page is refused; read in part, it may lead anywhere.
MCRequests ==
    c1 :> {R(1, "POST", "cgi", 1, 1, "line", 2, TRUE),
           R(1, "POST", "cgi", 2, 1, "nothing", 1, FALSE),
           R(1, "GET", "nocgi", Null, 0, "nothing", 0, FALSE)}
    @@ c2 :> {R(2, "OTHER", "up", Null, 0, "nothing", 0, FALSE)}

\* More output than the pipe holds.
LongRequests ==
    c1 :> {R(1, "GET", "cgi", Null, 0, "nothing", 3, FALSE)}
    @@ c2 :> {R(1, "GET", "file", Null, 0, "nothing", 0, FALSE)}
=============================================================================
