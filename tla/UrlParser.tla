------------------------------ MODULE UrlParser ------------------------------
(***************************************************************************)
(* HttpRequestParser (network/http-common.cpp) and split_by_substr()       *)
(* (common/stringutils.cpp) on which it rests.                             *)
(*                                                                         *)
(* A URL is a sequence of words and of the separators the parser looks     *)
(* for; "://" is one separator, ":" never stands before two "/".           *)
(***************************************************************************)
EXTENDS Integers, Sequences, SequencesExt, Functions

(* The first position from i on at which s has no part of a run any more. *)
RunEnd(s, d, i) ==
    CHOOSE j \in i .. Len(s) :
        /\ \A k \in i .. j : s[k] # d
        /\ j = Len(s) \/ s[j + 1] = d

(* The non-empty pieces between separators; with only_first the first two of *)
(* them, and what follows the second is dropped.                             *)
SplitBySubstr(s, d, onlyFirst) ==
    LET starts == SetToSortSeq({i \in 1 .. Len(s) : s[i] # d /\ (i = 1 \/ s[i - 1] = d)}, <)
        runs == [r \in 1 .. Len(starts) |-> SubSeq(s, starts[r], RunEnd(s, d, starts[r]))]
    IN  IF onlyFirst /\ Len(runs) > 2 THEN SubSeq(runs, 1, 2) ELSE runs

(* The outcome of a parser that throws. *)
Throws == [ok |-> FALSE]

(* "k=v" pairs, split; a later pair overwrites an earlier one with its key. *)
Params(pairs) ==
    IF \A i \in DOMAIN pairs : Len(pairs[i]) = 2
    THEN [ok |-> TRUE,
          params |-> [k \in {pairs[i][1] : i \in DOMAIN pairs} |->
                         LET at == {i \in DOMAIN pairs : pairs[i][1] = k}
                         IN  pairs[CHOOSE i \in at : \A j \in at : j <= i][2]]]
    ELSE Throws

ParseParams(s) ==
    LET fields == SplitBySubstr(s, "&", FALSE)
    IN  Params([i \in DOMAIN fields |-> SplitBySubstr(fields[i], "=", FALSE)])

(* "host:port", or nothing. *)
HostPort(parts) ==
    IF parts = <<>> THEN Throws
    ELSE [ok |-> TRUE, host |-> parts[1], port |-> IF Len(parts) = 1 THEN <<>> ELSE parts[2]]

ParseHostPort(s) ==
    IF s = <<>> THEN [ok |-> TRUE, host |-> <<>>, port |-> <<>>]
    ELSE HostPort(SplitBySubstr(s, ":", TRUE))

(* "path?params". *)
WithParams(path, params) ==
    IF params.ok THEN [ok |-> TRUE, path |-> path, params |-> params.params] ELSE Throws

RelativePath(parts) ==
    CASE parts = <<>> -> Throws
      [] Len(parts) = 1 -> [ok |-> TRUE, path |-> parts[1], params |-> <<>>]
      [] OTHER -> WithParams(parts[1], ParseParams(parts[2]))

ParseRelativePath(s) == RelativePath(SplitBySubstr(s, "?", TRUE))

(* The two parts together. *)
Located(protocol, hostPort, relative) ==
    IF hostPort.ok /\ relative.ok
    THEN [ok |-> TRUE, protocol |-> protocol, host |-> hostPort.host, port |-> hostPort.port,
          path |-> relative.path, params |-> relative.params]
    ELSE Throws

(* What follows "host/" is the path; alone it gets its slash back. *)
ParsePath(protocol, parts) ==
    CASE parts = <<>> -> Throws
      [] Len(parts) = 1 ->
            Located(protocol, ParseHostPort(<<>>), ParseRelativePath(<<"/">> \o parts[1]))
      [] OTHER -> Located(protocol, ParseHostPort(parts[1]), ParseRelativePath(parts[2]))

AfterScheme(parts) ==
    CASE parts = <<>> -> Throws
      [] Len(parts) = 1 -> ParsePath(<<>>, SplitBySubstr(parts[1], "/", TRUE))
      [] OTHER -> ParsePath(parts[1], SplitBySubstr(parts[2], "/", TRUE))

ParseUrl(url) == AfterScheme(SplitBySubstr(url, "://", TRUE))
=============================================================================
