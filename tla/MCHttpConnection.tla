-------------------------- MODULE MCHttpConnection --------------------------
(* Instances of HttpConnection for TLC: the messages of a client. *)
EXTENDS HttpConnection

Good(tokens, how, body) ==
    [ok |-> TRUE, tokens |-> tokens, method |-> how, body |-> body]

Malformed(tokens) ==
    [ok |-> FALSE, tokens |-> tokens, method |-> "get", body |-> <<>>]

Get      == Good(<<"get", "other", "end">>, "get", <<>>)
GetClose == Good(<<"get", "close", "end">>, "get", <<>>)
GetKeep  == Good(<<"get", "close", "keepAlive", "end">>, "get", <<>>)
Get10    == Good(<<"get10", "end">>, "get", <<>>)
Post0    == Good(<<"post", "length0", "end">>, "post", <<>>)
Post1    == Good(<<"post", "length1", "end", "a">>, "post", <<"a">>)
Post2    == Good(<<"post", "length2", "end", "b", "a">>, "post", <<"b", "a">>)

WellFormed  == {Get, GetClose, GetKeep, Get10, Post0, Post1, Post2}
AllMessages == WellFormed \cup
    {Malformed(<<"badMethod", "other", "end">>),
     Malformed(<<"badVersion", "other", "end">>),
     Malformed(<<"get", "noColon", "other", "end">>),
     Malformed(<<"post", "other", "end">>),
     Malformed(<<"post", "lengthBad", "end">>),
     Malformed(<<"post", "lengthNegative", "end">>)}
=============================================================================
