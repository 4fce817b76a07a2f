---------------------------- MODULE MCHttpSession ----------------------------
(* Instances of HttpSession for TLC: small alphabets of octets and clients. *)
EXTENDS HttpSession, TLC

MCRequestLines == {"get", "post", "head", "deep", "bad"}
MCMethodOf == [r \in MCRequestLines |->
                  CASE r = "post" -> "POST" [] r = "head" -> "HEAD" [] OTHER -> "GET"]
MCUrlOf == [r \in MCRequestLines |->
                CASE r = "deep" -> <<"/", "a", "/", "b">>
                  [] r = "bad" -> <<"/", "a", "?", "k">>
                  [] OTHER -> <<"/", "a", "?", "k", "=", "v">>]
MCContentLength == ("len1" :> 1) @@ ("len2" :> 2)
MCBound == {<<"/", "a">>}
MCAnswer == <<"a1", "a2", "a3">>
MCBadRequest == <<"e400">>
MCServerError == <<"e500">>

(* Whole requests; with a body, with two fields, pipelined, behind junk, with *)
(* a body longer than its length, without a handler, with a URL of two parts  *)
(* and with one that is refused, and one that never ends.                     *)
MCScripts ==
    {<<"get", "CR", "LF", "CR", "LF">>,
     <<"post", "LF", "len2", "LF", "LF", "x", "LF">>,
     <<"post", "LF", "len2", "x", "LF", "x", "len1", "LF", "LF", "x", "get">>,
     <<"post", "LF", "len2", "LF", "len1", "LF", "LF", "x", "x">>,
     <<"LF", "x", "LF", "get", "LF", "LF", "post", "LF", "LF">>,
     <<"x", "get", "LF", "LF">>, <<"len1", "get", "LF", "get", "LF", "LF">>,
     <<"head", "LF", "LF">>, <<"deep", "LF", "LF">>, <<"bad", "LF", "LF">>,
     <<"post", "LF", "len2", "LF", "LF", "x">>}

MCActs == {"answer", "silent", "close", "throw", "answer_throw"}
=============================================================================
