----------------------------- MODULE ConfParser -----------------------------
(***************************************************************************)
(* ConfigParser (conf-parser.cpp): reading a file of parameters line by    *)
(* line. "!include" ends the reading of the file, reads the other one and  *)
(* starts the file again from its beginning, skipping as many lines as     *)
(* were read; all of this shares one set of members, so the recursion is   *)
(* kept here as an explicit stack of include_parse() calls.                *)
(***************************************************************************)
EXTENDS Integers, Sequences, FiniteSets, SequencesExt

CONSTANTS
    FILES,              \* name -> its lines: [kind |-> "blank" | "set" | "bad"]
                        \*   or [kind |-> "include", of |-> name]
    UNTERMINATED,       \* the files whose last line has no '\n'
    MAIN_FILES,         \* the files the program reads
    MAX_READS           \* bound: calls of read() from outside

ConfFileLine == [kind : {"blank", "set", "bad"}] \cup [kind : {"include"}, of : STRING]

(* A line that includes a file that is there. *)
Includes(line) == line.kind = "include" /\ line.of \in DOMAIN FILES

(* No file includes itself, directly or through others: read() would never   *)
(* return.                                                                   *)
IncludesEnd ==
    \E depth \in [DOMAIN FILES -> 0 .. Cardinality(DOMAIN FILES)] :
        \A name \in DOMAIN FILES : \A i \in DOMAIN FILES[name] :
            Includes(FILES[name][i]) => depth[FILES[name][i].of] < depth[name]

ASSUME ConfAssumption ==
    /\ MAIN_FILES \subseteq DOMAIN FILES /\ UNTERMINATED \subseteq DOMAIN FILES
    /\ IsFiniteSet(DOMAIN FILES) /\ \A name \in DOMAIN FILES : FILES[name] \in Seq(ConfFileLine)
    /\ IncludesEnd

VARIABLES
    exceptions_enabled,
    my_filename,
    conf_file,          \* <<name, lines read so far>> of the open file, or <<>>
    line_num, skip_lines, eof,
    includes,           \* the include_parse() calls under way, innermost last:
                        \*   [line, name, rest: the file itself is being read again]
    reading,            \* "no", "yes" or "throwing"
    root, fresh,        \* the file of the call from outside; was skip_lines 0 then
    handled,            \* the lines <<name, number>> whose parameter was set (history)
    read_calls          \* bound: calls so far

confVars == <<exceptions_enabled, my_filename, conf_file, line_num, skip_lines, eof,
              includes, reading, root, fresh, handled, read_calls>>

ConfInit ==
    /\ exceptions_enabled = TRUE
    /\ my_filename = "" /\ conf_file = <<>>
    /\ line_num = 0 /\ skip_lines = 0 /\ eof = TRUE
    /\ includes = <<>> /\ reading = "no"
    /\ root = "" /\ fresh = FALSE /\ handled = <<>> /\ read_calls = 0

(* error(): with exceptions, or forced, the file is closed before the throw. *)
Throws(force_stop) == exceptions_enabled \/ force_stop

Fail ==
    /\ conf_file' = <<>> /\ eof' = TRUE
    /\ reading' = "throwing"

(* The opening part of read(). *)
Open(name) ==
    IF name \in DOMAIN FILES
    THEN conf_file' = <<name, 0>> /\ line_num' = 1 /\ eof' = FALSE /\ reading' = "yes"
    ELSE Fail /\ UNCHANGED line_num

ConfRead(name, again, exceptions) ==
    /\ reading = "no" /\ read_calls < MAX_READS
    /\ again => name = my_filename
    /\ my_filename' = name
    /\ exceptions_enabled' = exceptions
    /\ Open(name)
    /\ root' = name /\ fresh' = (skip_lines = 0) /\ handled' = <<>>
    /\ read_calls' = read_calls + 1
    /\ UNCHANGED <<skip_lines, includes>>

LastLine(name, i) == i = Len(FILES[name])

(* line_read(): line_num is moved on by the '\n', not by the line.           *)
NumberAfter(name, i) ==
    IF LastLine(name, i) /\ name \in UNTERMINATED THEN line_num ELSE line_num + 1

(* Bug: the line of the include itself is not skipped the second time.       *)
MutantSkipped(num) == num < skip_lines

Skipped(num) == num <= skip_lines

(* One turn of read()'s loop, for a line that is there. *)
ConfLine ==
    LET name == conf_file[1]
        i == conf_file[2] + 1
        num == NumberAfter(name, i)
        line == FILES[name][i]
        ignored == line.kind = "blank" \/ Skipped(num)
    IN  /\ reading = "yes" /\ conf_file # <<>> /\ ~eof
        /\ i <= Len(FILES[name])
        /\ line_num' = num
        /\ IF ~ignored /\ line.kind = "bad" /\ Throws(FALSE)
           THEN Fail /\ UNCHANGED <<handled, includes, my_filename, skip_lines>>
           ELSE IF ~ignored /\ line.kind = "include"
           THEN /\ includes' = Append(includes, [line |-> num, name |-> name, rest |-> FALSE])
                /\ my_filename' = line.of
                /\ skip_lines' = 0
                /\ conf_file' = <<>> /\ eof' = eof
                /\ reading' = "opening"
                /\ UNCHANGED handled
           ELSE /\ conf_file' = <<name, i>>
                /\ eof' = (LastLine(name, i) /\ name \in UNTERMINATED)
                /\ handled' = IF ignored \/ line.kind = "bad" THEN handled
                              ELSE Append(handled, <<name, i>>)
                /\ UNCHANGED <<reading, includes, my_filename, skip_lines>>
        /\ UNCHANGED <<exceptions_enabled, root, fresh, read_calls>>

(* The read() inside include_parse(), of the file included.                  *)
ConfInclude ==
    /\ reading = "opening"
    /\ Open(my_filename)
    /\ UNCHANGED <<exceptions_enabled, my_filename, skip_lines, includes, root, fresh,
                   handled, read_calls>>

(* The end of the file ends the loop. *)
ConfEof ==
    /\ reading = "yes" /\ conf_file # <<>> /\ ~eof
    /\ conf_file[2] = Len(FILES[conf_file[1]])
    /\ eof' = TRUE
    /\ UNCHANGED <<exceptions_enabled, my_filename, conf_file, line_num, skip_lines,
                   includes, reading, root, fresh, handled, read_calls>>

Frame == Last(includes)

(* Back in include_parse() after the included file: read the file again.     *)
Resume ==
    /\ my_filename' = Frame.name
    /\ skip_lines' = Frame.line
    /\ includes' = [includes EXCEPT ![Len(includes)].rest = TRUE]
    /\ Open(Frame.name)

(* read() returns: to its caller, to an include_parse() that goes on with    *)
(* the rest, or to one that has nothing left to do.                          *)
ConfReturn ==
    /\ reading = "yes" /\ (conf_file = <<>> \/ eof)
    /\ CASE includes = <<>> ->
                /\ conf_file' = <<>> /\ reading' = "no"
                /\ UNCHANGED <<my_filename, line_num, skip_lines, includes, eof>>
         [] includes # <<>> /\ Frame.rest ->
                /\ conf_file' = <<>>
                /\ includes' = Front(includes)
                /\ UNCHANGED <<my_filename, line_num, skip_lines, eof, reading>>
         [] OTHER -> Resume
    /\ UNCHANGED <<exceptions_enabled, root, fresh, handled, read_calls>>

(* An exception passes every call but the read() of an included file, whose  *)
(* handler throws another one if exceptions are on.                          *)
ConfUnwind ==
    /\ reading = "throwing"
    /\ CASE includes = <<>> ->
                /\ reading' = "no"
                /\ UNCHANGED <<my_filename, conf_file, line_num, skip_lines, includes, eof>>
         [] includes # <<>> /\ (Frame.rest \/ Throws(FALSE)) ->
                /\ includes' = Front(includes)
                /\ UNCHANGED <<my_filename, conf_file, line_num, skip_lines, eof, reading>>
         [] OTHER -> Resume
    /\ UNCHANGED <<exceptions_enabled, root, fresh, handled, read_calls>>

ConfNext ==
    \/ \E name \in MAIN_FILES, again, exceptions \in BOOLEAN :
           ConfRead(name, again, exceptions)
    \/ ConfLine \/ ConfInclude \/ ConfEof \/ ConfReturn \/ ConfUnwind

ConfSpec == ConfInit /\ [][ConfNext]_confVars

-----------------------------------------------------------------------------
(* What an include means: the lines of the other file, in its place. A file  *)
(* that is missing has none, a bad line is left out.                         *)
Inlined[name \in DOMAIN FILES] ==
    FlattenSeq([i \in DOMAIN FILES[name] |->
        LET line == FILES[name][i] IN
        IF Includes(line) THEN Inlined[line.of]
        ELSE IF line.kind = "set" THEN << <<name, i>> >> ELSE <<>>])

(* A file in which no last line without '\n' follows an include: that one    *)
(* has the number of the include's line and is skipped.                      *)
Regular[name \in DOMAIN FILES] ==
    /\ name \in UNTERMINATED /\ Len(FILES[name]) > 1 =>
            FILES[name][Len(FILES[name]) - 1].kind # "include"
    /\ \A i \in DOMAIN FILES[name] :
            Includes(FILES[name][i]) => Regular[FILES[name][i].of]

(* Reading a file handles the lines of it and of the files it includes, at   *)
(* any depth, each once and in the order of the inlined text, with nothing   *)
(* left out when it returns, although every file with an include is started  *)
(* again from its first line; unless skip_lines was left over from an        *)
(* earlier read().                                                           *)
IncludesAreInlined ==
    (fresh /\ Regular[root]) =>
        /\ IsPrefix(handled, Inlined[root])
        /\ reading = "no" /\ ~exceptions_enabled => handled = Inlined[root]
=============================================================================
