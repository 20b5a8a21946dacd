---------------------------- MODULE MCFilterPipe ----------------------------
(***************************************************************************)
(* Listings of up to three lines of every sort, and of four whose text is  *)
(* found, with a pipe of two lines.                                        *)
(***************************************************************************)
EXTENDS FilterPipe

Two(c, d) == <<" ", c, d>>
Bytes(c, d) == Two(c, d) \o Two(d, c) \o Two(c, c) \o Two(d, d)

Rejected == {[kind |-> k, text |-> << >>, decodes |-> FALSE] : k \in {"semicolon", "label", "plain"}}
Found(text, b) == [kind |-> "bytes", text |-> text, decodes |-> b]
Decoding == {Found(Bytes("0-9", "a-f"), TRUE), Found(Bytes("A-F", "0-9"), TRUE),
             Found(Bytes("a-f", "A-F") \o <<" ">>, FALSE)}

\* Nothing, seven digits, nine, another character, a comment, quit.
Odd == {Found(t, TRUE) : t \in
           {<< >>, <<" ">> \o Tail(Tail(Bytes("0-9", "a-f"))), Bytes("0-9", "a-f") \o <<"0-9">>,
            Bytes("0-9", "a-f") \o <<"other">>, <<" ", "#">>, <<" ", "q", "u", "i", "t">>}}

ListingsOf(n, lines) == {[k \in DOMAIN s |-> [kind |-> s[k].kind, text |-> s[k].text,
                                               decodes |-> s[k].decodes, id |-> k]] :
                            s \in [1 .. n -> lines]}
MCListings == UNION {ListingsOf(n, Rejected \union Decoding \union Odd) : n \in 0 .. 3}
              \union ListingsOf(4, Decoding \union {Found(<< >>, TRUE)})
=============================================================================
