---------------------------- MODULE MCConnection ----------------------------
(***************************************************************************)
(* Small instances of Connection for TLC.                                  *)
(***************************************************************************)
EXTENDS Connection, TLC

u == <<"u">>
d == <<"d">>
f == <<"f">>

Message(header, data) == [header |-> header, data |-> data]

\* The message for a request.
Asks(r) == Message(request_string(r), IF r.op = "FS_WRITEBLOCK" THEN r.data ELSE <<>>)

Create(path, type) == [op |-> "FS_CREATE", username |-> u, path |-> path, type |-> type]
Delete(path) == [op |-> "FS_DELETE", username |-> u, path |-> path]
ReadAt(path, b) == [op |-> "FS_READBLOCK", username |-> u, path |-> path, block |-> b]
WriteAt(path, b, data) ==
    [op |-> "FS_WRITEBLOCK", username |-> u, path |-> path, block |-> b, data |-> data]

\* A directory d with a file f of one block.
Owned(type, data) == [type |-> type, owner |-> u, data |-> data]
SmallTree ==
    (<<>> :> Owned("d", <<>>)) @@ (<<d>> :> Owned("d", <<>>))
    @@ (<<d, f>> :> Owned("f", << <<"x", "x">> >>))

\* Requests for one file: a write with too few data and one with too many, a delete, and a
\* read with a number that is not canonical.  Headers that are none: a number that does not
\* fit, and one that is too long.
DataMessages == {Asks(WriteAt(<<d, f>>, 0, <<"y", "x">>))}
ServeMessages ==
    {Asks(WriteAt(<<d, f>>, 0, data)) : data \in {<<"y">>, <<"y", "x", "y">>}}
    \cup {Asks(Delete(<<d, f>>))}
    \cup {Message(h, <<>>) :
            h \in {<<"FS_READBLOCK", " ", "u", " ", "/", "d", "/", "f", " ", "+", "0">>,
                   <<"FS_READBLOCK", " ", "u", " ", "/", "d", " ", "9", "9">>,
                   <<"FS_DELETE", " ", "u", " ", "/", "d", "/", "f", "/", "d", "/", "f", "f">>}}

\* Headers put together from words, good and bad ones, with one space between two words.
Commands == {<<"FS_CREATE">>, <<"FS_DELETE">>, <<"FS_READBLOCK">>, <<"FS_WRITEBLOCK">>, <<"x">>}
Usernames == {u, <<"/">>, <<"u", "u">>, <<>>}
Pathnames ==
    {<<"/">>, <<"/", "d">>, <<"d">>, <<"/", "d", "/">>, <<"/", "d", "/", "f">>, <<"/", "/", "d">>,
     <<"/", "d", "d">>, <<"/", "d", "/", "d", "/", "d">>, <<>>}
Arguments ==
    {<<"0">>, <<"2">>, <<"3">>, <<"1", "0">>, <<"1", "1">>, <<"0", "1">>, <<"-", "1">>, <<"+", "1">>,
     <<"1", "x">>, <<"1", "7">>, <<"9", "9">>, <<"f">>, <<"d">>, <<"x">>, <<>>}
Headers ==
    {c \o <<" ">> \o n \o <<" ">> \o p : c \in Commands, n \in Usernames, p \in Pathnames}
    \cup {c \o <<" ">> \o n \o <<" ">> \o p \o <<" ">> \o a :
            c \in Commands, n \in Usernames, p \in Pathnames, a \in Arguments}
    \cup {c \o <<" ">> \o n : c \in Commands, n \in Usernames}

\* Every request that fits the format, and every header that does not.
AllRequests ==
    {r \in [op : {"FS_CREATE"}, username : {u, <<>>}, path : {<<d>>, <<d, f>>}, type : {"f", "d"}]
           \cup [op : {"FS_DELETE"}, username : {u, <<>>}, path : {<<d>>, <<d, f>>}]
           \cup [op : {"FS_READBLOCK"}, username : {u}, path : {<<d, f>>}, block : 0 .. FS_MAXFILEBLOCKS]
           \cup [op : {"FS_WRITEBLOCK"}, username : {u}, path : {<<d, f>>},
                 block : 0 .. FS_MAXFILEBLOCKS, data : {<<"x", "x">>}] : Writable(r)}
ParseSamples ==
    {[header |-> request_string(r), request |-> r] : r \in AllRequests}
    \cup {[header |-> h, request |-> None] :
            h \in Headers \ {request_string(r) : r \in AllRequests}}

\* Where clients pause: before the last name or argument of the header and in the data,
\* or anywhere.
CutPoints(m) == {Len(m.header) - 2} \cup (Len(m.header) + 1 .. Len(Wire(m)))
Anywhere(m) == 0 .. Len(Wire(m))

Symmetric == Permutations(Clients)
=============================================================================
