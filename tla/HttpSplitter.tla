----------------------------- MODULE HttpSplitter -----------------------------
(***************************************************************************)
(* HttpStreamSplitter (network/http-common.cpp): finds one request in the  *)
(* octets of a connection, however these are cut into reads.               *)
(*                                                                         *)
(* A line without its end is compressed to few octets: a request line and  *)
(* a Content-Length field are one each, plain octets are those of a body   *)
(* or of junk and hold no blank and no colon.  content_oktets_counter is   *)
(* the length of content: push_char() changes both together.  download_name*)
(* is left out, nothing reads it.                                          *)
(***************************************************************************)
EXTENDS Integers, Sequences, SequencesExt

CONSTANTS
    REQUEST_LINES,  \* octets that stand for a request line
    CONTENT_LENGTH, \* octets that stand for a Content-Length field, and its value
    PLAIN,          \* all other octets but CR and LF
    CR, LF,
    Garbled         \* method of a request line that junk precedes

LengthFields == DOMAIN CONTENT_LENGTH

ASSUME OctetsAssumption ==
    /\ CONTENT_LENGTH \in [LengthFields -> Nat]
    /\ REQUEST_LINES \cap (LengthFields \cup PLAIN \cup {CR, LF, Garbled}) = {}
    /\ LengthFields \cap (PLAIN \cup {CR, LF}) = {} /\ PLAIN \cap {CR, LF} = {} /\ CR # LF

OCTETS == REQUEST_LINES \cup LengthFields \cup PLAIN \cup {CR, LF}

Splitters ==
    [state: {"wait_header", "parse_header", "read_content"}, line: Seq(OCTETS),
     request: REQUEST_LINES \cup {Garbled}, length: Nat, content: Seq(OCTETS)]

(* The splitter after the constructor or reset(). *)
NewSplitter ==
    [state |-> "wait_header", line |-> <<>>, request |-> Garbled, length |-> 0,
     content |-> <<>>]

(* Junk without blanks becomes part of the method, what follows the line part *)
(* of the version: the request is found in both cases.                        *)
RequestAt(line) ==
    {i \in DOMAIN line : line[i] \in REQUEST_LINES /\ \A j \in 1 .. i - 1 : line[j] \in PLAIN}

(* process_line_buffer() in WAIT_HEADER *)
StartsRequest(sp) ==
    IF RequestAt(sp.line) = {} THEN sp
    ELSE [sp EXCEPT !.state = "parse_header", !.length = 0, !.content = <<>>,
                    !.request = IF 1 \in RequestAt(sp.line) THEN sp.line[1] ELSE Garbled]

MutantReadsField(sp) ==
    IF sp.line = <<>> THEN [sp EXCEPT !.state = "read_content"]
    ELSE IF Last(sp.line) \in LengthFields
    THEN [sp EXCEPT !.length = CONTENT_LENGTH[Last(sp.line)]]
    ELSE sp

(* process_line_buffer() in PARSE_HEADER: a field is known by its name, at the *)
(* line's beginning; a negative length is taken for 0.                         *)
ReadsField(sp) ==
    IF sp.line = <<>> THEN [sp EXCEPT !.state = "read_content"]
    ELSE IF sp.line[1] \in LengthFields
    THEN [sp EXCEPT !.length = CONTENT_LENGTH[sp.line[1]]]
    ELSE sp

ProcessLine(sp) ==
    [(IF sp.state = "wait_header" THEN StartsRequest(sp) ELSE ReadsField(sp))
        EXCEPT !.line = <<>>]

Consumes(sp, ch) ==
    IF sp.state = "read_content" THEN [sp EXCEPT !.content = Append(@, ch)]
    ELSE CASE ch = CR -> sp
           [] ch = LF -> ProcessLine(sp)
           [] OTHER -> [sp EXCEPT !.line = Append(@, ch)]

(* push_char(): the octet, then the test of the trailing if, which completes a *)
(* request without a body at its empty line.                                   *)
PushChar(sp, ch) ==
    LET next == Consumes(sp, ch)
        ready == next.state = "read_content" /\ Len(next.content) >= next.length
    IN  [splitter |-> IF ready THEN [next EXCEPT !.state = "wait_header"] ELSE next,
         ready |-> ready]
-----------------------------------------------------------------------------
(* Reference: the request in a whole stream, without an automaton.            *)

Least(S) == CHOOSE i \in S : \A j \in S : i <= j

(* Lines end at an LF; CRs are no part of them: where the octets of a line are *)
(* in the stream.                                                             *)
LineEnds(s) == {i \in DOMAIN s : s[i] = LF}
LineTo(s, e) == {i \in 1 .. e - 1 : s[i] # CR /\ \A k \in i .. e - 1 : s[k] # LF}

FirstOctet(s, e) == s[Least(LineTo(s, e))]

(* A request line, behind junk or not, and a field with the length. *)
IsRequest(s, e) ==
    \E i \in LineTo(s, e) :
        s[i] \in REQUEST_LINES /\ \A j \in LineTo(s, e) : j < i => s[j] \in PLAIN
IsField(s, e) == LineTo(s, e) # {} /\ FirstOctet(s, e) \in LengthFields

(* The ends of the request lines, of the header, and of the fields in it. *)
Requests(s) == {e \in LineEnds(s) : IsRequest(s, e)}
HeaderEnds(s) ==
    {e \in LineEnds(s) : Requests(s) # {} /\ e > Least(Requests(s)) /\ LineTo(s, e) = {}}
Fields(s) ==
    {e \in LineEnds(s) : Least(Requests(s)) < e /\ e < Least(HeaderEnds(s)) /\ IsField(s, e)}
BodyLength(s) ==
    IF Fields(s) = {} THEN 0
    ELSE CONTENT_LENGTH[FirstOctet(s, CHOOSE e \in Fields(s) : \A f \in Fields(s) : f <= e)]

HasRequest(s) ==
    HeaderEnds(s) # {} /\ Len(s) >= Least(HeaderEnds(s)) + BodyLength(s)

RequestOf(s) ==
    LET octet == FirstOctet(s, Least(Requests(s)))
        end == Least(HeaderEnds(s))
    IN  [request |-> IF octet \in REQUEST_LINES THEN octet ELSE Garbled,
         content |-> SubSeq(s, end + 1, end + BodyLength(s))]
=============================================================================
