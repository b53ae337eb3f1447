---------------------------- MODULE RequestParser ----------------------------
(***************************************************************************)
(* The headers of requests: how they are written (request.h) and read        *)
(* (parsing.cpp).  A header is a sequence of characters; the four command    *)
(* words count as one character each.  Numbers are decimal; unsigned long    *)
(* and uint32_t have the moduli ULong and UInt32.                            *)
(***************************************************************************)
EXTENDS Integers, Sequences, FiniteSets

CONSTANTS
    FS_MAXUSERNAME, FS_MAXPATHNAME, FS_MAXFILENAME, FS_MAXFILEBLOCKS,
    ULong, UInt32,
    None,      \* the empty optional
    Thrown     \* an exception that parse_request does not catch

Digits == <<"0", "1", "2", "3", "4", "5", "6", "7", "8", "9">>
DigitValue(ch) == (CHOOSE i \in 1 .. 10 : Digits[i] = ch) - 1
IsDigit(ch) == \E i \in 1 .. 10 : Digits[i] = ch

-----------------------------------------------------------------------------
(* Writing.                                                                *)

path_to_string(path) ==
    LET str[k \in 0 .. Len(path)] == IF k = 0 THEN <<>> ELSE str[k - 1] \o <<"/">> \o path[k]
    IN  str[Len(path)]

to_string(n) ==
    LET str[k \in 0 .. n] ==
            IF k < 10 THEN <<Digits[k + 1]>> ELSE str[k \div 10] \o <<Digits[(k % 10) + 1]>>
    IN  str[n]

request_string(r) ==
    <<r.op, " ">> \o r.username \o <<" ">> \o path_to_string(r.path)
    \o (CASE r.op = "FS_DELETE" -> <<>>
          [] r.op = "FS_CREATE" -> <<" ", r.type>>
          [] r.op \in {"FS_READBLOCK", "FS_WRITEBLOCK"} -> <<" ">> \o to_string(r.block))

-----------------------------------------------------------------------------
(* Reading.                                                                *)

\* The parts of msg before the given positions.
Parts(msg, stops) ==
    LET stop(k) == IF k = 0 THEN 0 ELSE CHOOSE i \in stops : Cardinality({j \in stops : j <= i}) = k
    IN  [k \in 1 .. Cardinality(stops) |-> SubSeq(msg, stop(k - 1) + 1, stop(k) - 1)]

\* Fault: a delimiter at the end is followed by an empty part.
splitTrailing(msg, delimiter) ==
    Parts(msg, {i \in 1 .. Len(msg) : msg[i] = delimiter} \cup {Len(msg) + 1})

\* The parts between delimiters, without an empty one at the end.
split(msg, delimiter) ==
    LET delims == {i \in 1 .. Len(msg) : msg[i] = delimiter}
    IN  Parts(msg, IF Len(msg) \in delims \cup {0} THEN delims ELSE delims \cup {Len(msg) + 1})

\* External: std::stoul.  A sign, then the longest row of digits; what follows is ignored.
\* None if there is no digit (invalid_argument), Thrown if it does not fit (out_of_range).
stoul(token) ==
    LET digits == IF token[1] \in {"+", "-"} THEN Tail(token) ELSE token
        n == CHOOSE k \in 0 .. Len(digits) :
                /\ \A i \in 1 .. k : IsDigit(digits[i])
                /\ k < Len(digits) => ~IsDigit(digits[k + 1])
        value[k \in 0 .. n] == IF k = 0 THEN 0 ELSE 10 * value[k - 1] + DigitValue(digits[k])
    IN  IF n = 0 THEN None
        ELSE IF value[n] >= ULong THEN Thrown
        ELSE IF token[1] = "-" THEN (ULong - value[n]) % ULong
        ELSE value[n]

\* The block number of a read or write, cut to 32 bits.
BlockOf(token) ==
    IF token = <<>> THEN Thrown
    ELSE IF token[1] = "0" /\ Len(token) # 1 THEN None
    ELSE LET n == stoul(token)
         IN  IF n \in {None, Thrown} THEN n
             ELSE IF n % UInt32 > FS_MAXFILEBLOCKS THEN None ELSE n % UInt32

ValidPath(token) ==
    /\ token[1] = "/"
    /\ token[Len(token)] = "/" => Len(token) = 1
    /\ Len(token) <= FS_MAXPATHNAME

ParseCommand(tokens, path) ==
    LET cmd == tokens[1]
        block == BlockOf(tokens[4])
    IN  CASE cmd \in {<<"FS_READBLOCK">>, <<"FS_WRITEBLOCK">>} /\ Len(tokens) = 4 ->
               IF block \in {None, Thrown} THEN block
               ELSE [op |-> cmd[1], username |-> tokens[2], path |-> path, block |-> block]
          [] cmd = <<"FS_CREATE">> /\ Len(tokens) = 4 /\ tokens[4] \in {<<"f">>, <<"d">>} ->
               [op |-> cmd[1], username |-> tokens[2], path |-> path, type |-> tokens[4][1]]
          [] cmd = <<"FS_DELETE">> /\ Len(tokens) = 3 ->
               [op |-> cmd[1], username |-> tokens[2], path |-> path]
          [] OTHER -> None

\* parse_request, as a function of the tokens.
ParseTokens[tokens \in Seq(Seq(STRING))] ==
    LET path == split(Tail(tokens[3]), "/")
    IN  IF Len(tokens) < 3 THEN None
        ELSE IF Len(tokens[2]) > FS_MAXUSERNAME THEN None
        ELSE IF tokens[3] = <<>> THEN Thrown
        ELSE IF ~ValidPath(tokens[3]) THEN None
        ELSE IF \E i \in 1 .. Len(path) : Len(path[i]) > FS_MAXFILENAME THEN None
        ELSE ParseCommand(tokens, path)

parse_request(msg) == ParseTokens[split(msg, " ")]
=============================================================================
