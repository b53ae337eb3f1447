----------------------------- MODULE Connection -----------------------------
(***************************************************************************)
(* The server's end of its connections, src/networking.cpp: the main thread *)
(* accepts, a thread of its own reads each request byte by byte, executes   *)
(* it and answers.  The threads share the table of descriptors, in which a   *)
(* closed descriptor is given to the next connection, and the file system,   *)
(* here AtomicFileSystem, which FileSystem implements.                       *)
(*                                                                         *)
(* A step is one call of accept, recv, send or close, or the effect of      *)
(* execute_request.  What a thread computes on its own goes with the step    *)
(* before.                                                                  *)
(***************************************************************************)
EXTENDS RequestParser

CONSTANTS
    Clients,       \* each makes one connection
    Fds,           \* the server's descriptors for connections
    Messages,      \* what clients want to send: see Wire
    StartTree,     \* the files when the server starts
    FS_BLOCKSIZE,  \* the size of a block, in bytes
    NUL,           \* the null byte, also as data
    Pauses(_),     \* after how many bytes of a message the client may pause, or end
    Samples        \* the headers that the parser is checked on

ASSUME NoneAssumption == None \notin Clients \cup Fds

\* The characters of the longest header, counting a command word as one:
\* command, username, pathname and block number with three spaces and the null byte.
MAX_HEADER_SIZE ==
    1 + 1 + FS_MAXUSERNAME + 1 + FS_MAXPATHNAME + 1 + Len(to_string(FS_MAXFILEBLOCKS)) + 1

\* A message is a header and the data that follow it.
Wire(m) == m.header \o <<NUL>> \o m.data

VARIABLES
    client,    \* state of each client: "new", "open", "closed" or "reset"
    message,   \* what it wants to send
    sent,      \* how much of it has come to the server
    stream,    \* what has come and has not been received
    inbox,     \* what it has received
    sock,      \* the descriptor table: the client at the other end
    pc,        \* where the thread that serves the client is
    connectionfd, msg, request, handled,   \* its variables
    up,        \* the server runs
    tree, call, result   \* the file system: see AtomicFileSystem

clientVars == <<client, message, sent>>
fsVars == <<tree, call, result>>
locals == <<connectionfd, msg, request, handled>>
threadVars == <<pc, locals>>
vars == <<clientVars, stream, inbox, sock, threadVars, up, fsVars>>

FS == INSTANCE AtomicFileSystem WITH Threads <- Clients, Requests <- {}

Init ==
    /\ client = [c \in Clients |-> "new"]
    /\ message = [c \in Clients |-> None]
    /\ sent = [c \in Clients |-> 0]
    /\ stream = [c \in Clients |-> <<>>]
    /\ inbox = [c \in Clients |-> <<>>]
    /\ sock = [f \in Fds |-> None]
    /\ pc = [c \in Clients |-> "none"]
    /\ connectionfd = [c \in Clients |-> None]
    /\ msg = [c \in Clients |-> <<>>]
    /\ request = [c \in Clients |-> None]
    /\ handled = [c \in Clients |-> FALSE]
    /\ up = TRUE
    /\ tree = StartTree
    /\ FS!Init

-----------------------------------------------------------------------------
(* Clients and the network.  External: a stream delivers what was sent, in   *)
(* order; then recv blocks until the client ends, and returns 0, or -1 if    *)
(* the connection was reset.  A reset may overtake what has come before it:  *)
(* recv then returns bytes or -1.                                           *)

Connect(c) ==
    /\ client[c] = "new"
    /\ client' = [client EXCEPT ![c] = "open"]
    /\ \E m \in Messages : message' = [message EXCEPT ![c] = m]
    /\ UNCHANGED <<sent, stream, inbox, sock, threadVars, up, fsVars>>

Sends(c) ==
    /\ client[c] = "open"
    /\ \E n \in Pauses(message[c]) :
        /\ n > sent[c]
        /\ sent' = [sent EXCEPT ![c] = n]
        /\ stream' = [stream EXCEPT ![c] = @ \o SubSeq(Wire(message[c]), sent[c] + 1, n)]
    /\ UNCHANGED <<client, message, inbox, sock, threadVars, up, fsVars>>

Ends(c) ==
    /\ client[c] = "open"
    /\ \E how \in {"closed", "reset"} : client' = [client EXCEPT ![c] = how]
    /\ UNCHANGED <<message, sent, stream, inbox, sock, threadVars, up, fsVars>>

Peer(c) == sock[connectionfd[c]]

-----------------------------------------------------------------------------
(* The main thread.                                                         *)

\* server_listen: a connection is accepted and gets a thread.  If no descriptor is left,
\* accept fails and is called again.
Accept(c) ==
    /\ up /\ client[c] # "new" /\ pc[c] = "none"
    /\ \E f \in Fds :
        /\ sock[f] = None
        /\ sock' = [sock EXCEPT ![f] = c]
        /\ connectionfd' = [connectionfd EXCEPT ![c] = f]
    /\ pc' = [pc EXCEPT ![c] = "header"]
    /\ UNCHANGED <<clientVars, stream, inbox, msg, request, handled, up, fsVars>>

-----------------------------------------------------------------------------
(* handle_connection.                                                       *)

At(c, label) == up /\ pc[c] = label

Goto(c, label) == pc' = [pc EXCEPT ![c] = label]

\* Fault: the descriptor stays open.
CloseForgotten(c) == Goto(c, "end") /\ UNCHANGED sock

\* close(connectionfd), and the thread returns.
Close(c) ==
    /\ sock' = [sock EXCEPT ![connectionfd[c]] = None]
    /\ Goto(c, "end")

\* An exception that is not caught ends the server, with all its threads.
Terminate ==
    /\ up' = FALSE
    /\ pc' = [c \in Clients |-> IF pc[c] = "none" THEN "none" ELSE "end"]
    /\ sock' = [f \in Fds |-> None]

\* The request r goes to the file system.
Submit(c, r) ==
    /\ Goto(c, "execute")
    /\ request' = [request EXCEPT ![c] = r]
    /\ FS!Invoke(c, r)

\* The header has been read.
Parsed(c) ==
    LET r == parse_request(msg[c])
    IN  /\ \/ r = Thrown /\ Terminate /\ UNCHANGED <<request, fsVars>>
           \/ r = None /\ Goto(c, "close") /\ UNCHANGED <<sock, request, up, fsVars>>
           \/ /\ r \notin {None, Thrown} /\ r.op = "FS_WRITEBLOCK"
              /\ Goto(c, "data")
              /\ request' = [request EXCEPT ![c] = r]
              /\ UNCHANGED <<sock, up, fsVars>>
           \/ /\ r \notin {None, Thrown} /\ r.op # "FS_WRITEBLOCK"
              /\ Submit(c, r)
              /\ UNCHANGED <<sock, up>>
        /\ UNCHANGED <<connectionfd, msg, handled>>

\* Fault: the length of the header is not checked.
TooLongNever(header) == FALSE

\* One more byte and the header is longer than any.
TooLong(header) == Len(header) + 1 > MAX_HEADER_SIZE

RecvHeader(c) ==
    /\ At(c, "header")
    /\ LET p == Peer(c)
       IN  /\ stream[p] # <<>>
           /\ stream' = [stream EXCEPT ![p] = Tail(@)]
           /\ \/ TooLong(msg[c]) /\ Close(c) /\ UNCHANGED <<locals, up, fsVars>>
              \/ ~TooLong(msg[c]) /\ Head(stream[p]) = NUL /\ Parsed(c)
              \/ /\ ~TooLong(msg[c]) /\ Head(stream[p]) # NUL
                 /\ msg' = [msg EXCEPT ![c] = Append(@, Head(stream[p]))]
                 /\ UNCHANGED <<sock, pc, connectionfd, request, handled, up, fsVars>>
    /\ UNCHANGED <<clientVars, inbox>>

\* recv has returned 0: the loop ends, and what has come is taken for the header.
Ended(c) == stream[Peer(c)] = <<>> /\ client[Peer(c)] = "closed"

\* Fault: the loop goes on until the null byte.
EndOfHeaderIgnored(c) == FALSE /\ UNCHANGED vars

EndOfHeader(c) ==
    /\ At(c, "header") /\ Ended(c)
    /\ Parsed(c)
    /\ UNCHANGED <<clientVars, stream, inbox>>

\* recv has returned -1, in the header or in the data.
RecvFails(c) ==
    /\ At(c, "header") \/ At(c, "data")
    /\ client[Peer(c)] = "reset"
    /\ Close(c)
    /\ UNCHANGED <<clientVars, stream, inbox, locals, up, fsVars>>

\* The bytes that recv with MSG_WAITALL returns, in a block of zeroes.
BlockFrom(s) == [i \in 1 .. FS_BLOCKSIZE |-> IF i <= Len(s) THEN s[i] ELSE NUL]

WriteRequest(r, data) ==
    [op |-> r.op, username |-> r.username, path |-> r.path, block |-> r.block, data |-> data]

\* Fault: recv may return less than a block at a time.
WaitAllNot(c) == stream[Peer(c)] # <<>> \/ Ended(c)

\* MSG_WAITALL: a whole block, or what there is when the client ends.  If it has reset the
\* connection, recv returns the number of the bytes that have come, and -1 if there are none.
WaitAll(c) ==
    \/ Len(stream[Peer(c)]) >= FS_BLOCKSIZE
    \/ client[Peer(c)] = "closed"
    \/ client[Peer(c)] = "reset" /\ stream[Peer(c)] # <<>>

RecvData(c) ==
    /\ At(c, "data") /\ WaitAll(c)
    /\ LET s == stream[Peer(c)]
       IN  /\ Submit(c, WriteRequest(request[c], BlockFrom(s)))
           /\ stream' = [stream EXCEPT ![Peer(c)] = SubSeq(s, FS_BLOCKSIZE + 1, Len(s))]
    /\ UNCHANGED <<clientVars, inbox, sock, connectionfd, msg, handled, up>>

Execute(c) ==
    /\ At(c, "execute")
    /\ \/ FS!Do(c) /\ Goto(c, "reply") /\ handled' = [handled EXCEPT ![c] = TRUE]
       \/ FS!Refuse(c) /\ Goto(c, "close") /\ UNCHANGED handled
    /\ UNCHANGED <<clientVars, stream, inbox, sock, connectionfd, msg, request, up>>

\* send with MSG_NOSIGNAL: nothing arrives at a client that has ended.
Send(c, what) ==
    inbox' = IF Peer(c) # None /\ client[Peer(c)] = "open"
             THEN [inbox EXCEPT ![Peer(c)] = Append(@, what)] ELSE inbox

\* Fault: the connection is closed before the block of a read is sent.
SendHeaderCloses(c) ==
    /\ At(c, "reply")
    /\ Send(c, request_string(request[c]))
    /\ sock' = [sock EXCEPT ![connectionfd[c]] = None]
    /\ Goto(c, IF request[c].op = "FS_READBLOCK" THEN "reply_data" ELSE "end")
    /\ UNCHANGED <<clientVars, stream, locals, up, fsVars>>

SendHeader(c) ==
    /\ At(c, "reply")
    /\ Send(c, request_string(request[c]))
    /\ Goto(c, IF request[c].op = "FS_READBLOCK" THEN "reply_data" ELSE "close")
    /\ UNCHANGED <<clientVars, stream, sock, locals, up, fsVars>>

SendBlock(c) ==
    /\ At(c, "reply_data")
    /\ Send(c, result[c])
    /\ Goto(c, "close")
    /\ UNCHANGED <<clientVars, stream, sock, locals, up, fsVars>>

CloseConnection(c) ==
    /\ At(c, "close")
    /\ Close(c)
    /\ UNCHANGED <<clientVars, stream, inbox, locals, up, fsVars>>

handle_connection(c) ==
    \/ RecvHeader(c) \/ EndOfHeader(c) \/ RecvFails(c) \/ RecvData(c)
    \/ Execute(c) \/ SendHeader(c) \/ SendBlock(c) \/ CloseConnection(c)

Next ==
    \E c \in Clients :
        Connect(c) \/ Sends(c) \/ Ends(c) \/ Accept(c) \/ handle_connection(c)

Spec == Init /\ [][Next]_vars

\* Threads run, connections are accepted while there are descriptors, and no client keeps
\* its connection for ever.
FairSpec ==
    /\ Spec
    /\ \A c \in Clients :
        WF_vars(handle_connection(c)) /\ WF_vars(Accept(c)) /\ WF_vars(Ends(c))

-----------------------------------------------------------------------------
(* What clients send: a header, up to the first null byte, and data.  Neither *)
(* need be what handle_connection expects.                                  *)

Bytes == STRING \cup {NUL}

ASSUME MessagesAssumption ==
    \A m \in Messages :
        /\ m.header \in Seq(Bytes) /\ m.data \in Seq(Bytes)
        /\ \A i \in 1 .. Len(m.header) : m.header[i] # NUL
        /\ Pauses(m) \subseteq 0 .. Len(Wire(m))

ASSUME SizesAssumption == FS_BLOCKSIZE \in Nat /\ MAX_HEADER_SIZE \in Nat

-----------------------------------------------------------------------------
States == {"none", "header", "data", "execute", "reply", "reply_data", "close", "end"}

\* The types, and msg within the array of MAX_HEADER_SIZE + 1 bytes that handle_connection
\* has for it, with a null byte behind it.
TypeOK ==
    /\ client \in [Clients -> {"new", "open", "closed", "reset"}]
    /\ message \in [Clients -> Messages \cup {None}]
    /\ sock \in [Fds -> Clients \cup {None}]
    /\ up \in BOOLEAN
    /\ pc \in [Clients -> States]
    /\ connectionfd \in [Clients -> Fds \cup {None}]
    /\ handled \in [Clients -> BOOLEAN]
    /\ \A c \in Clients : Len(msg[c]) <= MAX_HEADER_SIZE

Serving(c) == pc[c] \notin {"none", "end"}

\* Each open descriptor belongs to the one thread that serves its client, so descriptors
\* are not lost on any path through handle_connection, and no thread uses one that is
\* closed or that has been given to another connection.
DescriptorsOwned ==
    /\ \A c \in Clients : Serving(c) => Peer(c) = c
    /\ \A f \in Fds : sock[f] # None =>
        Serving(sock[f]) /\ connectionfd[sock[f]] = f

\* The request that the message m makes: that of the header and, for a write, the data, in
\* a block of zeroes if they are fewer than a block, and without the rest if they are more.
IsWrite(m) ==
    LET r == parse_request(m.header) IN r \notin {None, Thrown} /\ r.op = "FS_WRITEBLOCK"

RequestOf(m) ==
    IF IsWrite(m) THEN WriteRequest(parse_request(m.header), BlockFrom(m.data))
    ELSE parse_request(m.header)

\* The part of a message that makes the request.
Needed(m) ==
    Len(m.header) + 1 + (IF ~IsWrite(m) THEN 0
                         ELSE IF Len(m.data) < FS_BLOCKSIZE THEN Len(m.data) ELSE FS_BLOCKSIZE)

\* The client has ended, by a close or a reset, before that part had come.
CutShort(c) == client[c] \in {"closed", "reset"} /\ sent[c] < Needed(message[c])

\* The file system executes what the client asked for: the request of the whole header,
\* with all the data, in whatever pieces they come (handle_connection).  Of a message that
\* was cut short nothing is said: what has come of it is taken for the whole.
Intended ==
    \A c \in Clients : call[c] # None /\ ~CutShort(c) => call[c] = RequestOf(message[c])

\* The answer to a request that was executed with success: the header of the request, and
\* the block if it was a read.  A client that has ended too early gets none.
Answer(c) ==
    LET r == RequestOf(message[c])
    IN  IF ~handled[c] \/ CutShort(c) THEN <<>>
        ELSE IF r.op = "FS_READBLOCK" THEN <<request_string(r), result[c]>>
        ELSE <<request_string(r)>>

\* What a client receives is the answer to its own request.  One that has sent its whole
\* request and stays has received all of it once its thread is done; a request that was
\* not executed gets no answer (the end of handle_connection).
AnswersTrue ==
    \A c \in Clients :
        /\ inbox[c] \in {SubSeq(Answer(c), 1, n) : n \in 0 .. Len(Answer(c))}
        /\ up /\ client[c] = "open" /\ pc[c] = "end" /\ sent[c] = Len(Wire(message[c]))
             => inbox[c] = Answer(c)

\* Every connection is served to its end, whatever the client does, unless the server
\* dies (server_listen, handle_connection).
Served == \A c \in Clients : client[c] # "new" ~> pc[c] = "end" \/ ~up

-----------------------------------------------------------------------------
(* The parser against the format that request_string writes.                *)

\* The requests that can be written: names without delimiters, within the limits.
Writable(r) ==
    LET without(s, chars) == \A i \in 1 .. Len(s) : s[i] \notin chars
    IN  /\ without(r.username, {" ", NUL}) /\ Len(r.username) <= FS_MAXUSERNAME
        /\ r.path # <<>> /\ r.path[Len(r.path)] # <<>>
        /\ \A i \in 1 .. Len(r.path) :
            without(r.path[i], {" ", "/", NUL}) /\ Len(r.path[i]) <= FS_MAXFILENAME
        /\ Len(path_to_string(r.path)) <= FS_MAXPATHNAME
        /\ r.op \in {"FS_READBLOCK", "FS_WRITEBLOCK"} => r.block <= FS_MAXFILEBLOCKS

\* A header in which the block number, if there is one, is written as to_string does.
Canonical(header, r) ==
    r.op \in {"FS_READBLOCK", "FS_WRITEBLOCK"} =>
        LET tokens == split(header, " ") IN tokens[4] = to_string(r.block)

\* parse_request undoes request_string.  Whatever it accepts is within the limits, however
\* the number is spelled and even if it had to be cut down, unless the path is the root.  A
\* header that is accepted and has a canonical block number, and no space at the end, is the
\* one that request_string writes for the result.
\* As it does not depend on the state, it is looked at once, before the first client comes.
ParserInverts ==
    (\A c \in Clients : client[c] = "new") => \A m \in Samples :
        LET r == parse_request(m.header)
        IN  /\ m.request # None /\ Writable(m.request) =>
                /\ ~TooLong(m.header)
                /\ r \notin {None, Thrown}
                /\ m.request = IF r.op = "FS_WRITEBLOCK" THEN WriteRequest(r, m.request.data) ELSE r
            /\ r \notin {None, Thrown} /\ r.path # <<>> =>
                /\ Writable(r)
                /\ Canonical(m.header, r) /\ m.header[Len(m.header)] # " " =>
                    request_string(r) = m.header
=============================================================================
