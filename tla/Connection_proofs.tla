-------------------------- MODULE Connection_proofs --------------------------
(***************************************************************************)
(* For any number of clients, descriptors and messages, however the bytes   *)
(* arrive: descriptors are owned, the file system is asked what the clients *)
(* meant, and the answers go to the clients that asked.                     *)
(*                                                                         *)
(* The invariant Safe says, of each client, which part of its message its   *)
(* thread has read and which is still in the stream, what its thread asked  *)
(* the file system, and how much of the answer has been sent.               *)
(***************************************************************************)
EXTENDS Connection, TLAPS

\* The prover of a leaf that names none.
USE ZenonT(30)

(* The invariant.                                                          *)

\* A descriptor for each thread that serves.
HasDescriptor == \A c \in Clients : Serving(c) => connectionfd[c] \in Fds

Inv ==
    /\ sock \in [Fds -> Clients \cup {None}]
    /\ pc \in [Clients -> States]
    /\ connectionfd \in [Clients -> Fds \cup {None}]
    /\ HasDescriptor /\ DescriptorsOwned

\* The functions that the steps change, and what is read and written.
OverClients(fun) == fun = [c \in Clients |-> fun[c]]

Types ==
    /\ client \in [Clients -> {"new", "open", "closed", "reset"}]
    /\ message \in [Clients -> Messages \cup {None}]
    /\ up \in BOOLEAN /\ handled \in [Clients -> BOOLEAN] /\ sent \in [Clients -> Nat]
    /\ stream \in [Clients -> Seq(Bytes)] /\ msg \in [Clients -> Seq(Bytes)]
    /\ OverClients(inbox) /\ OverClients(request) /\ OverClients(call) /\ OverClients(result)

\* What is in the stream are the bytes of the message behind the first n, as far as they
\* have been sent.
PartOf(s, w, n, k) ==
    n <= k /\ Len(s) = k - n /\ \A i \in 1 .. Len(s) : s[i] = w[n + i]

Behind(c, n) == PartOf(stream[c], Wire(message[c]), n, sent[c])

\* msg has the first bytes of the message, and none of them is the null byte.
HeaderRead(c) ==
    /\ Len(msg[c]) <= MAX_HEADER_SIZE
    /\ \A i \in 1 .. Len(msg[c]) : msg[c][i] = Wire(message[c])[i] /\ msg[c][i] # NUL
    /\ Behind(c, Len(msg[c]))

\* The header was that of a write, and the data come next.
DataNext(c) ==
    /\ request[c] \notin {None, Thrown} /\ request[c].op = "FS_WRITEBLOCK"
    /\ \/ CutShort(c)
       \/ request[c] = parse_request(message[c].header) /\ Behind(c, Len(message[c].header) + 1)

\* The part of the message that makes the request has not come yet.
Short(c) == sent[c] < Needed(message[c])

\* r is the request that the whole message makes, unless that was cut short.
Made(c, r) == CutShort(c) \/ (~Short(c) /\ r = RequestOf(message[c]))

\* The first of the two parts of an answer.
Reply(c) == <<request_string(RequestOf(message[c]))>>

\* What the file system was asked, and how far the answer is.
Asked(c) ==
    /\ pc[c] \in {"none", "header", "data"} => call[c] = None
    /\ call[c] # None => Made(c, call[c])
    /\ pc[c] = "execute" => request[c] = call[c]
    /\ handled[c] => /\ pc[c] \in {"reply", "reply_data", "close", "end"}
                     /\ call[c] # None /\ request[c] = call[c]
    /\ pc[c] \in {"reply", "reply_data"} => handled[c]

Answered(c) ==
    /\ inbox[c] = <<>> \/ (handled[c] /\ ~Short(c) /\ inbox[c] \in {Reply(c), Answer(c)})
    /\ pc[c] = "reply" => inbox[c] = <<>>
    /\ pc[c] = "reply_data" =>
        /\ call[c].op = "FS_READBLOCK" /\ inbox[c] \in {<<>>, Reply(c)}
        /\ client[c] = "open" => inbox[c] = Reply(c)
    /\ pc[c] \in {"close", "end"} /\ up /\ client[c] = "open" => inbox[c] = Answer(c)

ClientInv(c) ==
    /\ client[c] = "new" => pc[c] = "none" /\ sent[c] = 0
    /\ client[c] # "new" => message[c] \in Messages /\ sent[c] <= Len(Wire(message[c]))
    /\ Len(msg[c]) <= MAX_HEADER_SIZE
    /\ pc[c] = "none" => msg[c] = <<>>
    /\ pc[c] \in {"none", "header"} => HeaderRead(c)
    /\ pc[c] = "data" => DataNext(c)
    /\ Asked(c) /\ Answered(c)

Safe == Inv /\ Types /\ \A c \in Clients : ClientInv(c)

\* What the thread of c may do to the descriptors: go on with its own, or close it and end.
GoesOn(c) ==
    /\ Serving(c) /\ UNCHANGED <<sock, connectionfd>>
    /\ \E label \in States \ {"none", "end"} : Goto(c, label)

Closes(c) == Serving(c) /\ Close(c) /\ UNCHANGED connectionfd

Ending == Terminate /\ UNCHANGED connectionfd

-----------------------------------------------------------------------------
\* After the header the thread goes on, unless the server ends.
LEMMA ParsedLemma ==
    ASSUME NEW c \in Clients, Serving(c), Parsed(c)
    PROVE  GoesOn(c) \/ Ending
<1> DEFINE r == parse_request(msg[c])
<1>1. UNCHANGED connectionfd
    BY DEF Parsed
<1>2. CASE Terminate
    BY <1>1, <1>2 DEF Ending
<1>3. CASE Goto(c, "close") /\ UNCHANGED sock
    BY <1>1, <1>3 DEF GoesOn, States
<1>4. CASE Goto(c, "data") /\ UNCHANGED sock
    BY <1>1, <1>4 DEF GoesOn, States
<1>5. CASE Submit(c, r) /\ UNCHANGED sock
    BY <1>1, <1>5 DEF GoesOn, States, Submit
<1> QED BY <1>2, <1>3, <1>4, <1>5 DEF Parsed

\* Every step of a thread is one of three kinds, or reads one more byte of the header.
LEMMA HandleLemma ==
    ASSUME NEW c \in Clients, handle_connection(c)
    PROVE  GoesOn(c) \/ Closes(c) \/ Ending \/ UNCHANGED <<sock, pc, connectionfd>>
<1>1. CASE RecvHeader(c)
    <2>0. Serving(c)
        BY <1>1 DEF RecvHeader, At, Serving
    <2>1. CASE Close(c) /\ UNCHANGED locals
        BY <2>0, <2>1 DEF Closes, locals
    <2>2. CASE Parsed(c)
        BY <2>0, <2>2, ParsedLemma
    <2>3. CASE UNCHANGED <<sock, pc, connectionfd>>
        BY <2>3
    <2> QED BY <1>1, <2>1, <2>2, <2>3 DEF RecvHeader
<1>2. CASE EndOfHeader(c)
    BY <1>2, ParsedLemma DEF EndOfHeader, At, Serving
<1>3. CASE RecvFails(c)
    BY <1>3 DEF RecvFails, At, Serving, Closes, locals
<1>4. CASE RecvData(c)
    BY <1>4 DEF RecvData, Submit, At, Serving, GoesOn, States
<1>5. CASE Execute(c)
    <2>1. CASE Goto(c, "reply")
        BY <1>5, <2>1 DEF Execute, At, Serving, GoesOn, States
    <2>2. CASE Goto(c, "close")
        BY <1>5, <2>2 DEF Execute, At, Serving, GoesOn, States
    <2> QED BY <1>5, <2>1, <2>2 DEF Execute
<1>6. CASE SendHeader(c)
    <2>1. PICK label \in {"reply_data", "close"} : Goto(c, label)
        BY <1>6 DEF SendHeader
    <2> QED BY <1>6, <2>1 DEF SendHeader, At, Serving, GoesOn, States, locals
<1>7. CASE SendBlock(c)
    BY <1>7 DEF SendBlock, At, Serving, GoesOn, States, locals
<1>8. CASE CloseConnection(c)
    BY <1>8 DEF CloseConnection, At, Serving, Closes, locals
<1> QED BY <1>1, <1>2, <1>3, <1>4, <1>5, <1>6, <1>7, <1>8 DEF handle_connection

-----------------------------------------------------------------------------
LEMMA InvInit == Init => Inv
BY NoneAssumption DEF Init, Inv, HasDescriptor, DescriptorsOwned, Serving, Peer, States

\* Going on keeps the invariant.
LEMMA GoesOnKeeps == ASSUME Inv, NEW c \in Clients, GoesOn(c) PROVE Inv'
BY SMT DEF Inv, GoesOn, Goto, HasDescriptor, DescriptorsOwned, Serving, Peer

\* So does closing: the descriptor was the thread's own.
LEMMA ClosesKeeps == ASSUME Inv, NEW c \in Clients, Closes(c) PROVE Inv'
BY SMT, NoneAssumption
   DEF Inv, Closes, Close, Goto, HasDescriptor, DescriptorsOwned, Serving, Peer, States

\* So does the end of the server.
LEMMA EndingKeeps == ASSUME Inv, Ending PROVE Inv'
BY NoneAssumption
   DEF Inv, Ending, Terminate, HasDescriptor, DescriptorsOwned, Serving, Peer, States

\* So does accepting: the descriptor was free.
LEMMA AcceptKeeps == ASSUME Inv, NEW c \in Clients, Accept(c) PROVE Inv'
BY SMT, NoneAssumption
   DEF Inv, Accept, HasDescriptor, DescriptorsOwned, Serving, Peer, States

\* So does what leaves threads and descriptors alone.
LEMMA OtherKeeps == ASSUME Inv, UNCHANGED <<sock, pc, connectionfd>> PROVE Inv'
BY DEF Inv, HasDescriptor, DescriptorsOwned, Serving, Peer

LEMMA InvStep == Inv /\ [Next]_vars => Inv'
<1> SUFFICES ASSUME Inv, [Next]_vars PROVE Inv'
    OBVIOUS
<1>1. ASSUME NEW c \in Clients, Connect(c) \/ Sends(c) \/ Ends(c) PROVE Inv'
    BY <1>1, OtherKeeps DEF Connect, Sends, Ends, threadVars, locals
<1>2. ASSUME NEW c \in Clients, handle_connection(c) PROVE Inv'
    BY <1>2, HandleLemma, GoesOnKeeps, ClosesKeeps, EndingKeeps, OtherKeeps
<1>3. CASE UNCHANGED vars
    BY <1>3, OtherKeeps DEF vars, threadVars, locals
<1> QED BY <1>1, <1>2, <1>3, AcceptKeeps DEF Next

-----------------------------------------------------------------------------
(* Sequences and functions.                                                *)

LEMMA LenNat == ASSUME NEW s \in Seq(Bytes) PROVE Len(s) \in Nat
BY SMT

LEMMA ConcatFacts ==
    ASSUME NEW s \in Seq(Bytes), NEW u \in Seq(Bytes)
    PROVE  /\ s \o u \in Seq(Bytes) /\ Len(s \o u) = Len(s) + Len(u)
           /\ \A i \in 1 .. Len(s) : (s \o u)[i] = s[i]
           /\ \A i \in 1 .. Len(u) : (s \o u)[Len(s) + i] = u[i]
BY SMT

\* A message on the wire: its header, the null byte, its data.
LEMMA WireFacts ==
    ASSUME NEW m \in Messages
    PROVE  /\ Wire(m) \in Seq(Bytes) /\ Len(m.header) \in Nat /\ Len(m.data) \in Nat
           /\ Len(Wire(m)) = Len(m.header) + 1 + Len(m.data)
           /\ \A i \in 1 .. Len(m.header) : Wire(m)[i] = m.header[i] /\ m.header[i] # NUL
           /\ Wire(m)[Len(m.header) + 1] = NUL
           /\ \A i \in 1 .. Len(m.data) : Wire(m)[Len(m.header) + 1 + i] = m.data[i]
<1> DEFINE h == m.header
           n == <<NUL>>
           d == m.data
           f == h \o n
           w == f \o d
<1>1. h \in Seq(Bytes) /\ d \in Seq(Bytes) /\ n \in Seq(Bytes) /\ Len(n) = 1 /\ n[1] = NUL
    <2>1. NUL \in Bytes
        BY DEF Bytes
    <2> QED BY SMT, <2>1, MessagesAssumption
<1>2. Wire(m) = w
    BY DEF Wire
<1>3. \A i \in 1 .. Len(h) : h[i] # NUL
    BY MessagesAssumption
<1> HIDE DEF h, n, d
<1>4. /\ f \in Seq(Bytes) /\ Len(f) = Len(h) + 1 /\ Len(h) \in Nat
      /\ \A i \in 1 .. Len(h) : f[i] = h[i]
      /\ f[Len(h) + 1] = NUL
    <2>1. /\ f \in Seq(Bytes) /\ Len(f) = Len(h) + Len(n) /\ Len(h) \in Nat
          /\ \A i \in 1 .. Len(h) : f[i] = h[i]
          /\ \A i \in 1 .. Len(n) : f[Len(h) + i] = n[i]
        <3>1. h \in Seq(Bytes) /\ n \in Seq(Bytes) /\ Len(h) \in Nat
            BY <1>1, LenNat
        <3> QED BY <3>1, ConcatFacts
    <2> HIDE DEF f
    <2> QED BY SMT, <1>1, <2>1
<1> HIDE DEF f
<1>5. /\ w \in Seq(Bytes) /\ Len(w) = Len(f) + Len(d) /\ Len(d) \in Nat
      /\ \A i \in 1 .. Len(f) : w[i] = f[i]
      /\ \A i \in 1 .. Len(d) : w[Len(f) + i] = d[i]
    BY <1>1, <1>4, LenNat, ConcatFacts
<1> HIDE DEF w
<1>6. /\ w \in Seq(Bytes) /\ Len(h) \in Nat /\ Len(d) \in Nat /\ Len(w) = Len(h) + 1 + Len(d)
      /\ \A i \in 1 .. Len(h) : w[i] = h[i]
      /\ w[Len(h) + 1] = NUL
      /\ \A i \in 1 .. Len(d) : w[Len(h) + 1 + i] = d[i]
    BY SMT, <1>4, <1>5
<1> QED BY <1>2, <1>3, <1>6 DEF h, d

LEMMA NeededFacts ==
    ASSUME NEW m \in Messages
    PROVE  /\ Needed(m) \in Nat /\ Len(m.header) + 1 <= Needed(m)
           /\ ~IsWrite(m) => Needed(m) = Len(m.header) + 1
           /\ IsWrite(m) => Needed(m) = Len(m.header) + 1 + (IF Len(m.data) < FS_BLOCKSIZE THEN Len(m.data)
                                                            ELSE FS_BLOCKSIZE)
<1> DEFINE h == Len(m.header)
           d == Len(m.data)
           b == IF d < FS_BLOCKSIZE THEN d ELSE FS_BLOCKSIZE
<1>1. h \in Nat /\ d \in Nat /\ FS_BLOCKSIZE \in Nat
    BY WireFacts, SizesAssumption
<1>2. Needed(m) = h + 1 + (IF ~IsWrite(m) THEN 0 ELSE b)
    BY DEF Needed
<1> HIDE DEF h, d
<1>3. /\ h + 1 + 0 \in Nat /\ h + 1 <= h + 1 + 0 /\ h + 1 + 0 = h + 1
      /\ h + 1 + b \in Nat /\ h + 1 <= h + 1 + b
    BY SMT, <1>1
<1> HIDE DEF b
<1>4. CASE IsWrite(m)
    BY <1>2, <1>3, <1>4 DEF h, d, b
<1>5. CASE ~IsWrite(m)
    BY <1>2, <1>3, <1>5 DEF h
<1> QED BY <1>4, <1>5

-----------------------------------------------------------------------------
(* A step of one client, or of its thread, leaves the others alone.         *)

\* A function that is changed at c only.
Kept(fun, new, c) == new = fun \/ \E x : new = [fun EXCEPT ![c] = x]

LEMMA KeptLemma ==
    ASSUME NEW fun, NEW new, NEW c \in Clients, OverClients(fun), Kept(fun, new, c)
    PROVE  OverClients(new) /\ \A d \in Clients \ {c} : new[d] = fun[d]
<1>1. CASE new = fun
    BY <1>1
<1>2. ASSUME NEW x, new = [fun EXCEPT ![c] = x]
      PROVE  OverClients(new) /\ \A d \in Clients \ {c} : new[d] = fun[d]
    <2>1. DOMAIN fun = Clients
        BY DEF OverClients
    <2> QED BY <1>2, <2>1 DEF OverClients
<1> QED BY <1>1, <1>2 DEF Kept

LEMMA KeptAt ==
    ASSUME NEW fun, NEW new, NEW c \in Clients, NEW d \in Clients \ {c}, OverClients(fun), Kept(fun, new, c)
    PROVE  new[d] = fun[d]
<1>1. \A e \in Clients \ {c} : new[e] = fun[e]
    BY KeptLemma
<1> QED BY <1>1

LEMMA KeptType ==
    ASSUME NEW fun, NEW new, NEW c \in Clients, NEW T, fun \in [Clients -> T], Kept(fun, new, c), new[c] \in T
    PROVE  new \in [Clients -> T]
<1>1. CASE new = fun
    BY <1>1
<1>2. ASSUME NEW x, new = [fun EXCEPT ![c] = x] PROVE new \in [Clients -> T]
    BY <1>2
<1> QED BY <1>1, <1>2 DEF Kept

\* All but the descriptors and the tree.
StepOf(c) ==
    /\ Kept(client, client', c) /\ Kept(message, message', c) /\ Kept(sent, sent', c)
    /\ Kept(stream, stream', c) /\ Kept(inbox, inbox', c) /\ Kept(pc, pc', c)
    /\ Kept(msg, msg', c) /\ Kept(request, request', c) /\ Kept(handled, handled', c)
    /\ Kept(call, call', c) /\ Kept(result, result', c) /\ up' = up

Same(d) ==
    /\ client'[d] = client[d] /\ message'[d] = message[d] /\ sent'[d] = sent[d]
    /\ inbox'[d] = inbox[d] /\ msg'[d] = msg[d]
    /\ request'[d] = request[d] /\ handled'[d] = handled[d]
    /\ call'[d] = call[d] /\ result'[d] = result[d]

LEMMA AllOver ==
    ASSUME Types, Inv
    PROVE  /\ OverClients(client) /\ OverClients(message) /\ OverClients(sent) /\ OverClients(stream)
           /\ OverClients(pc) /\ OverClients(msg) /\ OverClients(handled)
BY DEF Types, Inv, OverClients

LEMMA OthersSame ==
    ASSUME Types, Inv, NEW c \in Clients, StepOf(c), NEW d \in Clients \ {c}
    PROVE  Same(d) /\ pc'[d] = pc[d] /\ stream'[d] = stream[d]
<1>1. client'[d] = client[d]
    BY AllOver, KeptAt DEF StepOf
<1>2. message'[d] = message[d]
    BY AllOver, KeptAt DEF StepOf
<1>3. sent'[d] = sent[d]
    BY AllOver, KeptAt DEF StepOf
<1>4. stream'[d] = stream[d]
    BY AllOver, KeptAt DEF StepOf
<1>5. pc'[d] = pc[d]
    BY AllOver, KeptAt DEF StepOf
<1>6. msg'[d] = msg[d]
    BY AllOver, KeptAt DEF StepOf
<1>7. handled'[d] = handled[d]
    BY AllOver, KeptAt DEF StepOf
<1>8. inbox'[d] = inbox[d]
    <2>1. OverClients(inbox) /\ Kept(inbox, inbox', c)
        BY DEF StepOf, Types
    <2> QED BY <2>1, KeptAt
<1>9. request'[d] = request[d]
    <2>1. OverClients(request) /\ Kept(request, request', c)
        BY DEF StepOf, Types
    <2> QED BY <2>1, KeptAt
<1>10. call'[d] = call[d]
    <2>1. OverClients(call) /\ Kept(call, call', c)
        BY DEF StepOf, Types
    <2> QED BY <2>1, KeptAt
<1>11. result'[d] = result[d]
    <2>1. OverClients(result) /\ Kept(result, result', c)
        BY DEF StepOf, Types
    <2> QED BY <2>1, KeptAt
<1> QED BY <1>1, <1>2, <1>3, <1>4, <1>5, <1>6, <1>7, <1>8, <1>9, <1>10, <1>11 DEF Same

LEMMA OverKept ==
    ASSUME Types, NEW c \in Clients, StepOf(c)
    PROVE  OverClients(inbox') /\ OverClients(request') /\ OverClients(call') /\ OverClients(result')
BY KeptLemma DEF StepOf, Types

\* What the invariant says of a client depends on that client only.
LEMMA SameParts ==
    ASSUME NEW d \in Clients, Same(d)
    PROVE  /\ CutShort(d)' <=> CutShort(d)
           /\ Short(d)' <=> Short(d)
           /\ Reply(d)' = Reply(d) /\ Answer(d)' = Answer(d)
           /\ stream'[d] = stream[d] =>
                (HeaderRead(d)' <=> HeaderRead(d)) /\ (DataNext(d)' <=> DataNext(d))
<1>1. stream'[d] = stream[d] => \A n : Behind(d, n)' <=> Behind(d, n)
    BY DEF Same, Behind
<1>2. stream'[d] = stream[d] => (HeaderRead(d)' <=> HeaderRead(d))
    BY <1>1 DEF Same, HeaderRead
<1>3. CutShort(d)' <=> CutShort(d)
    BY DEF Same, CutShort
<1>4. stream'[d] = stream[d] => (DataNext(d)' <=> DataNext(d))
    BY <1>1, <1>3 DEF Same, DataNext
<1>5. (Short(d)' <=> Short(d)) /\ Reply(d)' = Reply(d)
    BY DEF Same, Short, Reply
<1>6. Answer(d)' = Answer(d)
    BY <1>3 DEF Same, Answer
<1> QED BY <1>2, <1>3, <1>4, <1>5, <1>6

LEMMA SameKeeps ==
    ASSUME NEW d \in Clients, Same(d), ClientInv(d), up' => up,
           \/ pc'[d] = pc[d] /\ stream'[d] = stream[d]
           \/ pc[d] # "none" /\ pc'[d] = "end" /\ ~up'
    PROVE  ClientInv(d)'
<1>1. Asked(d)'
    BY SameParts DEF ClientInv, Asked, Made, Same
<1>2. Answered(d)'
    BY SameParts DEF ClientInv, Answered, Same
<1>3. /\ client'[d] = "new" => pc'[d] = "none" /\ sent'[d] = 0
      /\ client'[d] # "new" => message'[d] \in Messages /\ sent'[d] <= Len(Wire(message'[d]))
      /\ Len(msg'[d]) <= MAX_HEADER_SIZE /\ (pc'[d] = "none" => msg'[d] = <<>>)
    BY DEF ClientInv, Same
<1>4. (pc'[d] \in {"none", "header"} => HeaderRead(d)') /\ (pc'[d] = "data" => DataNext(d)')
    BY SameParts DEF ClientInv
<1> QED BY <1>1, <1>2, <1>3, <1>4 DEF ClientInv

LEMMA OthersKeep ==
    ASSUME Types, Inv, NEW c \in Clients, StepOf(c), NEW d \in Clients \ {c}, ClientInv(d)
    PROVE  ClientInv(d)'
<1>1. Same(d) /\ pc'[d] = pc[d] /\ stream'[d] = stream[d] /\ (up' => up)
    BY OthersSame DEF StepOf
<1> QED BY <1>1, SameKeeps

LEMMA TypesKept ==
    ASSUME Types, NEW c \in Clients, StepOf(c), client'[c] \in {"new", "open", "closed", "reset"},
           message'[c] \in Messages \cup {None}, handled'[c] \in BOOLEAN, sent'[c] \in Nat,
           stream'[c] \in Seq(Bytes), msg'[c] \in Seq(Bytes)
    PROVE  Types'
<1>1. /\ client' \in [Clients -> {"new", "open", "closed", "reset"}]
      /\ message' \in [Clients -> Messages \cup {None}]
    BY KeptType DEF Types, StepOf
<1>2. handled' \in [Clients -> BOOLEAN] /\ sent' \in [Clients -> Nat]
    BY KeptType DEF Types, StepOf
<1>3. stream' \in [Clients -> Seq(Bytes)] /\ msg' \in [Clients -> Seq(Bytes)]
    BY KeptType DEF Types, StepOf
<1> QED BY <1>1, <1>2, <1>3, OverKept DEF Types, StepOf

-----------------------------------------------------------------------------
(* Before a request has been executed, and when none is.                    *)

Fresh(c) == call[c] = None /\ handled[c] = FALSE /\ inbox[c] = <<>>

LEMMA FreshBefore ==
    ASSUME Types, NEW c \in Clients, ClientInv(c), pc[c] \in {"none", "header", "data"}
    PROVE  Fresh(c)
<1>1. call[c] = None /\ ~handled[c]
    BY DEF ClientInv, Asked
<1>2. handled[c] \in BOOLEAN
    BY DEF Types
<1> QED BY <1>1, <1>2 DEF Fresh, ClientInv, Answered

LEMMA FreshAfter ==
    ASSUME NEW c \in Clients, Fresh(c)', pc'[c] \notin {"execute", "reply", "reply_data"}
    PROVE  Asked(c)' /\ Answered(c)'
BY DEF Fresh, Asked, Answered, Answer

\* A step of a client, which its thread does not see yet.
LEMMA ConnectKeeps ==
    ASSUME Types, Inv, NEW c \in Clients, ClientInv(c), Connect(c)
    PROVE  StepOf(c) /\ Types' /\ ClientInv(c)'
<1>1. PICK m \in Messages :
        /\ client[c] = "new" /\ client' = [client EXCEPT ![c] = "open"]
        /\ message' = [message EXCEPT ![c] = m]
        /\ UNCHANGED <<sent, stream, inbox, sock, threadVars, up, fsVars>>
    BY DEF Connect
<1>2. StepOf(c)
    BY <1>1 DEF StepOf, Kept, threadVars, locals, fsVars
<1>3. /\ client'[c] = "open" /\ message'[c] = m /\ sent'[c] = sent[c] /\ stream'[c] = stream[c]
      /\ inbox'[c] = inbox[c] /\ msg'[c] = msg[c] /\ pc'[c] = pc[c]
      /\ handled'[c] = handled[c] /\ call'[c] = call[c]
    BY <1>1 DEF Types, threadVars, locals, fsVars
<1>4. Types'
    BY <1>2, <1>3, TypesKept DEF Types
<1>5. pc[c] = "none" /\ sent[c] = 0 /\ msg[c] = <<>> /\ HeaderRead(c) /\ Fresh(c)
    <2>1. pc[c] = "none"
        BY <1>1 DEF ClientInv
    <2> QED BY <1>1, <2>1, FreshBefore DEF ClientInv
<1>6. Asked(c)' /\ Answered(c)'
    BY <1>3, <1>5, FreshAfter DEF Fresh
<1>7. HeaderRead(c)'
    <2>0. /\ Len(msg[c]) <= MAX_HEADER_SIZE /\ Len(stream[c]) = sent[c] - Len(msg[c])
        BY <1>5 DEF HeaderRead, Behind, PartOf
    <2>1. Len(msg[c]) = 0
        BY SMT, <1>5
    <2>2. Len(stream[c]) = 0
        BY SMT, <2>0, <2>1, <1>5
    <2>3. (\A i \in 1 .. 0 : FALSE) /\ 0 <= 0 /\ 0 - 0 = 0
        BY SMT
    <2>4. Behind(c, 0)'
        BY <1>3, <1>5, <2>2, <2>3 DEF Behind, PartOf
    <2> QED BY <1>3, <2>0, <2>1, <2>3, <2>4 DEF HeaderRead
<1>8. sent'[c] <= Len(Wire(message'[c]))
    BY SMT, <1>3, <1>5, WireFacts
<1> QED BY <1>2, <1>3, <1>4, <1>5, <1>6, <1>7, <1>8 DEF ClientInv, HeaderRead

LEMMA EndsKeeps ==
    ASSUME Types, Inv, NEW c \in Clients, ClientInv(c), Ends(c)
    PROVE  StepOf(c) /\ Types' /\ ClientInv(c)'
<1>1. PICK how \in {"closed", "reset"} :
        /\ client[c] = "open" /\ client' = [client EXCEPT ![c] = how]
        /\ UNCHANGED <<message, sent, stream, inbox, sock, threadVars, up, fsVars>>
    BY DEF Ends
<1>2. StepOf(c)
    BY <1>1 DEF StepOf, Kept, threadVars, locals, fsVars
<1>3. /\ client'[c] = how /\ message' = message /\ sent' = sent /\ stream' = stream
      /\ inbox' = inbox /\ msg' = msg /\ pc' = pc /\ request' = request
      /\ handled' = handled /\ call' = call /\ result' = result /\ up' = up
    BY <1>1 DEF Types, threadVars, locals, fsVars
<1>4. Types'
    BY <1>2, <1>3, TypesKept DEF Types
<1>5. ~CutShort(c) /\ (CutShort(c)' <=> Short(c)) /\ (Short(c)' <=> Short(c)) /\ Reply(c)' = Reply(c)
    BY <1>1, <1>3 DEF CutShort, Short, Reply
<1>6. (HeaderRead(c) => HeaderRead(c)') /\ (DataNext(c) => DataNext(c)')
    BY <1>3, <1>5 DEF HeaderRead, DataNext, Behind
<1>7. Asked(c)'
    BY <1>3, <1>5 DEF ClientInv, Asked, Made
<1>8. Answered(c)'
    <2>1. ~Short(c) => Answer(c)' = Answer(c)
        BY <1>3, <1>5 DEF Answer
    <2> QED BY <1>3, <1>5, <2>1 DEF ClientInv, Answered
<1> QED BY <1>1, <1>2, <1>3, <1>4, <1>6, <1>7, <1>8 DEF ClientInv

\* More of the message in the stream.
LEMMA SentLemma ==
    ASSUME NEW s \in Seq(Bytes), NEW w \in Seq(Bytes), NEW a \in Nat, NEW b \in Nat, a < b, b <= Len(w),
           NEW n \in Nat, PartOf(s, w, n, a)
    PROVE  /\ s \o SubSeq(w, a + 1, b) \in Seq(Bytes)
           /\ PartOf(s \o SubSeq(w, a + 1, b), w, n, b)
<1> DEFINE u == SubSeq(w, a + 1, b)
           t == s \o u
<1>0. n <= a /\ Len(s) = a - n /\ \A i \in 1 .. Len(s) : s[i] = w[n + i]
    BY DEF PartOf
<1>1. u \in Seq(Bytes) /\ Len(u) = b - a /\ \A i \in 1 .. Len(u) : u[i] = w[a + i]
    <2>1. \A i \in a + 1 .. b : i \in 1 .. Len(w)
        BY SMT
    <2>2. u \in Seq(Bytes) /\ Len(u) = b - a
        BY SMT, <2>1
    <2>3. ASSUME NEW i \in 1 .. Len(u) PROVE u[i] = w[a + i]
        BY SMT, <2>2
    <2> QED BY <2>2, <2>3
<1> HIDE DEF u
<1>2. /\ t \in Seq(Bytes) /\ Len(t) = Len(s) + Len(u)
      /\ \A i \in 1 .. Len(s) : t[i] = s[i]
      /\ \A i \in 1 .. Len(u) : t[Len(s) + i] = u[i]
    BY <1>1, ConcatFacts
<1> HIDE DEF t
<1>3. /\ n <= a /\ Len(s) = a - n /\ Len(u) = b - a /\ Len(t) = Len(s) + Len(u)
      /\ Len(s) \in Nat /\ Len(u) \in Nat /\ Len(t) \in Nat
    BY <1>0, <1>1, <1>2, LenNat
<1>4. Len(t) = b - n /\ n <= b
    BY SMT, <1>3
<1>5. ASSUME NEW i \in 1 .. Len(t) PROVE t[i] = w[n + i]
    <2>1. CASE i <= Len(s)
        <3>1. i \in 1 .. Len(s)
            BY SMT, <2>1, <1>3
        <3> QED BY <3>1, <1>0, <1>2
    <2>2. CASE ~(i <= Len(s))
        <3> DEFINE j == i - Len(s)
        <3>1. j \in 1 .. Len(u) /\ i = Len(s) + j /\ a + j = n + i
            BY SMT, <2>2, <1>3
        <3> HIDE DEF j
        <3>2. t[i] = u[j] /\ u[j] = w[a + j]
            BY <3>1, <1>1, <1>2
        <3> QED BY <3>1, <3>2
    <2> QED BY <2>1, <2>2
<1>6. PartOf(t, w, n, b)
    BY <1>4, <1>5 DEF PartOf
<1> QED BY <1>2, <1>6 DEF t, u

LEMMA SendsKeeps ==
    ASSUME Types, Inv, NEW c \in Clients, ClientInv(c), Sends(c)
    PROVE  StepOf(c) /\ Types' /\ ClientInv(c)'
<1> DEFINE w == Wire(message[c])
           s == stream[c]
<1>1. PICK b \in Pauses(message[c]) :
        /\ client[c] = "open" /\ b > sent[c] /\ sent' = [sent EXCEPT ![c] = b]
        /\ stream' = [stream EXCEPT ![c] = @ \o SubSeq(Wire(message[c]), sent[c] + 1, b)]
        /\ UNCHANGED <<client, message, inbox, sock, threadVars, up, fsVars>>
    BY DEF Sends
<1>2. StepOf(c)
    BY <1>1 DEF StepOf, Kept, threadVars, locals, fsVars
<1>3. /\ client' = client /\ message' = message /\ sent'[c] = b
      /\ stream'[c] = s \o SubSeq(w, sent[c] + 1, b)
      /\ inbox' = inbox /\ msg' = msg /\ pc' = pc /\ request' = request
      /\ handled' = handled /\ call' = call /\ result' = result /\ up' = up
    BY <1>1 DEF Types, threadVars, locals, fsVars
<1>4. /\ message[c] \in Messages /\ sent[c] \in Nat /\ s \in Seq(Bytes) /\ msg[c] \in Seq(Bytes)
    BY <1>1 DEF ClientInv, Types
<1>5. w \in Seq(Bytes) /\ b \in 0 .. Len(w)
    BY <1>4, WireFacts, MessagesAssumption
<1>6. b \in Nat /\ sent[c] < b /\ b <= Len(w)
    BY SMT, <1>1, <1>4, <1>5
<1> HIDE DEF w, s
<1>7. ASSUME NEW n \in Nat, Behind(c, n)
      PROVE  stream'[c] \in Seq(Bytes) /\ Behind(c, n)'
    <2>1. PartOf(s, w, n, sent[c])
        BY <1>7 DEF Behind, w, s
    <2>2. stream'[c] \in Seq(Bytes) /\ PartOf(stream'[c], w, n, b)
        <3>1. /\ s \in Seq(Bytes) /\ w \in Seq(Bytes) /\ sent[c] \in Nat /\ b \in Nat
              /\ sent[c] < b /\ b <= Len(w) /\ n \in Nat /\ PartOf(s, w, n, sent[c])
            BY <1>4, <1>5, <1>6, <2>1
        <3>2. /\ s \o SubSeq(w, sent[c] + 1, b) \in Seq(Bytes)
              /\ PartOf(s \o SubSeq(w, sent[c] + 1, b), w, n, b)
            BY <3>1, SentLemma
        <3> QED BY <1>3, <3>2
    <2> QED BY <1>3, <2>2 DEF Behind, w
<1>8. stream'[c] \in Seq(Bytes)
    BY SMT, <1>3, <1>4, <1>5, <1>6
<1>9. Types'
    BY <1>2, <1>3, <1>4, <1>6, <1>8, TypesKept DEF Types
<1>10. ~CutShort(c) /\ ~CutShort(c)' /\ Reply(c)' = Reply(c) /\ Answer(c)' = Answer(c)
    BY <1>1, <1>3 DEF CutShort, Reply, Answer
<1>11. ~Short(c) => ~Short(c)'
    <2>1. Needed(message[c]) \in Nat /\ message'[c] = message[c]
        BY <1>3, <1>4, NeededFacts
    <2>2. ~(sent[c] < Needed(message[c])) => ~(b < Needed(message[c]))
        BY SMT, <1>4, <1>6, <2>1
    <2> QED BY <1>3, <2>1, <2>2 DEF Short
<1>12. HeaderRead(c) => HeaderRead(c)'
    <2>1. Len(msg[c]) \in Nat
        BY SMT, <1>4
    <2> QED BY <1>3, <1>7, <2>1 DEF HeaderRead
<1>13. DataNext(c) => DataNext(c)'
    <2>1. Len(message[c].header) + 1 \in Nat
        BY SMT, <1>4, WireFacts
    <2> QED BY <1>3, <1>7, <1>10, <2>1 DEF DataNext
<1>14. Asked(c)'
    BY <1>3, <1>10, <1>11 DEF ClientInv, Asked, Made
<1>15. Answered(c)'
    BY <1>3, <1>10, <1>11 DEF ClientInv, Answered
<1> QED BY <1>1, <1>2, <1>3, <1>4, <1>6, <1>9, <1>12, <1>13, <1>14, <1>15 DEF ClientInv, w

-----------------------------------------------------------------------------
(* The steps of a thread.                                                   *)

All == \A c \in Clients : ClientInv(c)

LEMMA StepKeeps ==
    ASSUME Types, Inv, All, NEW c \in Clients, StepOf(c), ClientInv(c)'
    PROVE  All'
BY OthersKeep DEF All

LEMMA PeerOwn ==
    ASSUME Inv, NEW c \in Clients, Serving(c)
    PROVE  Peer(c) = c
BY DEF Inv, DescriptorsOwned

\* What a client has sent and wants to send, and what it has received, is not the
\* thread's to change, but for the answer.
ClientSame(c) ==
    client'[c] = client[c] /\ message'[c] = message[c] /\ sent'[c] = sent[c] /\ msg'[c] = msg[c]

LEMMA ClientKeeps ==
    ASSUME NEW c \in Clients, ClientInv(c), ClientSame(c), pc[c] # "none",
           pc'[c] \in States \ {"none", "header", "data"}, Asked(c)', Answered(c)'
    PROVE  ClientInv(c)'
BY DEF ClientInv, ClientSame, States

LEMMA SameCut ==
    ASSUME NEW c \in Clients, ClientSame(c)
    PROVE  /\ CutShort(c)' <=> CutShort(c)
           /\ Short(c)' <=> Short(c)
           /\ Reply(c)' = Reply(c)
BY DEF ClientSame, CutShort, Short, Reply

LEMMA KnownMessage ==
    ASSUME NEW c \in Clients, ClientInv(c), pc[c] # "none"
    PROVE  client[c] # "new" /\ message[c] \in Messages /\ sent[c] <= Len(Wire(message[c]))
BY DEF ClientInv

\* No request: the thread goes to the end of the connection.
LEMMA GivesUp ==
    ASSUME Types, NEW c \in Clients, ClientInv(c), pc[c] \in {"header", "data"}, ClientSame(c),
           pc'[c] \in {"close", "end"}, call'[c] = call[c], handled'[c] = handled[c],
           inbox'[c] = inbox[c]
    PROVE  ClientInv(c)'
<1>1. Fresh(c)
    BY FreshBefore
<1>2. Fresh(c)'
    BY <1>1 DEF Fresh
<1>3. Asked(c)' /\ Answered(c)'
    BY <1>2, FreshAfter
<1> QED BY <1>3, ClientKeeps DEF States

\* The request goes to the file system.
LEMMA SubmitKeeps ==
    ASSUME Types, NEW c \in Clients, ClientInv(c), pc[c] \in {"header", "data"}, ClientSame(c), NEW r,
           pc'[c] = "execute", request'[c] = r, call'[c] = r, handled'[c] = handled[c],
           inbox'[c] = inbox[c], Made(c, r)
    PROVE  ClientInv(c)'
<1>1. Fresh(c)
    BY FreshBefore
<1>2. ~handled'[c] /\ inbox'[c] = <<>>
    BY <1>1 DEF Fresh
<1>3. CutShort(c)' \/ (~Short(c)' /\ r = RequestOf(message'[c]))
    BY SameCut DEF Made, ClientSame
<1>4. Asked(c)'
    BY <1>2, <1>3 DEF Asked, Made
<1>5. Answered(c)'
    BY <1>2 DEF Answered
<1> QED BY <1>4, <1>5, ClientKeeps DEF States

LEMMA AcceptOwn ==
    ASSUME Types, Inv, All, NEW c \in Clients, Accept(c)
    PROVE  Types' /\ All'
<1>1. StepOf(c)
    BY DEF Accept, StepOf, Kept, clientVars, fsVars
<1>2. /\ client' = client /\ message' = message /\ sent' = sent /\ stream' = stream
      /\ inbox' = inbox /\ msg' = msg /\ request' = request
      /\ handled' = handled /\ call' = call /\ result' = result
    BY DEF Accept, clientVars, fsVars
<1>3. Types'
    BY <1>1, <1>2, TypesKept DEF Types
<1>4. pc'[c] = "header" /\ pc[c] = "none" /\ client[c] # "new"
    BY DEF Accept, Inv
<1>5. ClientInv(c)
    BY DEF All
<1>6. Fresh(c) /\ HeaderRead(c)
    BY <1>4, <1>5, FreshBefore DEF ClientInv
<1>7. Asked(c)' /\ Answered(c)'
    <2>1. Fresh(c)'
        BY <1>2, <1>6 DEF Fresh
    <2> QED BY <2>1, <1>4, FreshAfter
<1>8. HeaderRead(c)'
    BY <1>2, <1>6 DEF HeaderRead, Behind
<1>9. ClientInv(c)'
    BY <1>2, <1>4, <1>5, <1>7, <1>8 DEF ClientInv
<1> QED BY <1>1, <1>3, <1>9, StepKeeps

\* The server ends.
LEMMA TerminateKeeps ==
    ASSUME Types, Inv, All, NEW c \in Clients, pc[c] # "none", Terminate, Kept(stream, stream', c),
           stream'[c] \in Seq(Bytes), UNCHANGED <<clientVars, inbox, msg, request, handled, fsVars>>
    PROVE  Types' /\ All'
<1>1. stream' \in [Clients -> Seq(Bytes)]
    BY KeptType DEF Types
<1>2. up' = FALSE /\ up' \in BOOLEAN
    BY DEF Terminate
<1>3. Types'
    BY <1>1, <1>2 DEF Types, clientVars, fsVars
<1>4. ASSUME NEW d \in Clients PROVE ClientInv(d)'
    <2>1. Same(d)
        BY DEF Same, clientVars, fsVars
    <2>2. ClientInv(d)
        BY DEF All
    <2>3. pc'[d] = IF pc[d] = "none" THEN "none" ELSE "end"
        BY DEF Terminate
    <2>4. CASE d = c
        BY <1>2, <2>1, <2>2, <2>3, <2>4, SameKeeps
    <2>5. CASE d # c
        <3>1. stream'[d] = stream[d]
            <4>1. d \in Clients \ {c} /\ OverClients(stream)
                BY <2>5, AllOver
            <4> QED BY <4>1, KeptAt
        <3>2. \/ pc'[d] = pc[d] /\ stream'[d] = stream[d]
              \/ pc[d] # "none" /\ pc'[d] = "end" /\ ~up'
            BY <1>2, <2>3, <3>1
        <3> QED BY <1>2, <2>1, <2>2, <3>2, SameKeeps
    <2> QED BY <2>4, <2>5
<1> QED BY <1>3, <1>4 DEF All

\* The header has been read: the whole of it, or what there was.
LEMMA ParsedKeeps ==
    ASSUME Types, Inv, All, NEW c \in Clients, pc[c] = "header", Parsed(c), Kept(stream, stream', c),
           stream'[c] \in Seq(Bytes), UNCHANGED <<clientVars, inbox>>,
           \/ CutShort(c)
           \/ msg[c] = message[c].header /\ Behind(c, Len(message[c].header) + 1)'
    PROVE  Types' /\ All'
<1> DEFINE r == parse_request(msg[c])
<1>1. UNCHANGED <<connectionfd, msg, handled>>
    BY DEF Parsed
<1>2. CASE Terminate /\ UNCHANGED <<request, fsVars>>
    BY <1>1, <1>2, TerminateKeeps DEF fsVars
<1>3. ClientInv(c) /\ ClientSame(c) /\ inbox'[c] = inbox[c] /\ handled'[c] = handled[c]
    BY <1>1 DEF All, ClientSame, clientVars
<1>4. ASSUME Kept(pc, pc', c), Kept(request, request', c), Kept(call, call', c), Kept(result, result', c),
             up' = up, ClientInv(c)'
      PROVE  Types' /\ All'
    <2>1. StepOf(c)
        BY <1>1, <1>4 DEF StepOf, Kept, clientVars
    <2>2. Types'
        BY <1>1, <2>1, TypesKept DEF Types, clientVars
    <2> QED BY <2>1, <2>2, <1>4, StepKeeps
<1>5. CASE r = None /\ Goto(c, "close") /\ UNCHANGED <<sock, request, up, fsVars>>
    <2>1. pc'[c] = "close" /\ call'[c] = call[c]
        BY <1>5 DEF Goto, Inv, fsVars
    <2>2. ClientInv(c)'
        BY <1>3, <2>1, GivesUp
    <2>3. /\ Kept(pc, pc', c) /\ Kept(request, request', c) /\ Kept(call, call', c)
          /\ Kept(result, result', c) /\ up' = up
        BY <1>5 DEF Kept, Goto, fsVars
    <2> QED BY <1>4, <2>2, <2>3
<1>6. CASE /\ r \notin {None, Thrown} /\ r.op = "FS_WRITEBLOCK"
           /\ Goto(c, "data")
           /\ request' = [request EXCEPT ![c] = r]
           /\ UNCHANGED <<sock, up, fsVars>>
    <2>1. pc'[c] = "data" /\ call'[c] = call[c]
        BY <1>6 DEF Goto, Inv, fsVars
    <2>2. request'[c] = r
        BY <1>6 DEF Types, OverClients
    <2>3. DataNext(c)'
        <3>1. CutShort(c) => CutShort(c)'
            BY <1>3, SameCut
        <3>2. request'[c] \notin {None, Thrown} /\ request'[c].op = "FS_WRITEBLOCK"
            BY <1>6, <2>2
        <3>3. message'[c] = message[c]
            BY <1>3 DEF ClientSame
        <3>4. \/ CutShort(c)'
              \/ request'[c] = parse_request(message'[c].header) /\ Behind(c, Len(message[c].header) + 1)'
            BY <2>2, <3>1, <3>3
        <3> QED BY <3>2, <3>4 DEF DataNext
    <2>4. Asked(c)' /\ Answered(c)'
        <3>1. Fresh(c)
            BY <1>3, FreshBefore
        <3>2. Fresh(c)'
            BY <1>3, <2>1, <3>1 DEF Fresh
        <3> QED BY <2>1, <3>2, FreshAfter
    <2>5. ClientInv(c)'
        BY <1>3, <2>1, <2>3, <2>4 DEF ClientInv, ClientSame
    <2>6. /\ Kept(pc, pc', c) /\ Kept(request, request', c) /\ Kept(call, call', c)
          /\ Kept(result, result', c) /\ up' = up
        BY <1>6 DEF Kept, Goto, fsVars
    <2> QED BY <1>4, <2>5, <2>6
<1>7. CASE /\ r \notin {None, Thrown} /\ r.op # "FS_WRITEBLOCK"
           /\ Submit(c, r)
           /\ UNCHANGED <<sock, up>>
    <2>1. pc'[c] = "execute" /\ request'[c] = r /\ call'[c] = r
        BY <1>7 DEF Submit, Goto, Inv, Types, OverClients, FS!Invoke
    <2>2. Made(c, r)
        <3> SUFFICES ASSUME ~CutShort(c) PROVE ~Short(c) /\ r = RequestOf(message[c])
            BY DEF Made
        <3>1. /\ message[c] \in Messages /\ sent[c] \in Nat /\ sent'[c] = sent[c]
              /\ message'[c] = message[c]
            BY <1>3, KnownMessage DEF Types, ClientSame
        <3>2. r = parse_request(message[c].header) /\ Len(message[c].header) + 1 <= sent[c]
            BY <3>1 DEF Behind, PartOf
        <3>3. ~IsWrite(message[c])
            BY <1>7, <3>2 DEF IsWrite
        <3>4. Needed(message[c]) \in Nat /\ Needed(message[c]) <= sent[c]
            BY <3>1, <3>2, <3>3, NeededFacts
        <3>5. ~(sent[c] < Needed(message[c]))
            BY SMT, <3>1, <3>4
        <3> QED BY <3>2, <3>3, <3>5 DEF Short, RequestOf
    <2>3. ClientInv(c)'
        BY <1>3, <2>1, <2>2, SubmitKeeps
    <2>4. /\ Kept(pc, pc', c) /\ Kept(request, request', c) /\ Kept(call, call', c)
          /\ Kept(result, result', c) /\ up' = up
        BY <1>7 DEF Kept, Submit, Goto, FS!Invoke
    <2> QED BY <1>4, <2>3, <2>4
<1> QED BY <1>2, <1>5, <1>6, <1>7 DEF Parsed

\* One byte is taken from the stream.
LEMMA TailLemma ==
    ASSUME NEW s \in Seq(Bytes), s # <<>>, NEW w, NEW n \in Nat, NEW k \in Nat, PartOf(s, w, n, k)
    PROVE  /\ Tail(s) \in Seq(Bytes) /\ PartOf(Tail(s), w, n + 1, k)
           /\ Head(s) = w[n + 1] /\ Head(s) \in Bytes
<1>0. n <= k /\ Len(s) = k - n /\ \A i \in 1 .. Len(s) : s[i] = w[n + i]
    BY DEF PartOf
<1>1. /\ Tail(s) \in Seq(Bytes) /\ Len(Tail(s)) = Len(s) - 1 /\ Len(s) \in Nat \ {0}
      /\ Head(s) = s[1] /\ Head(s) \in Bytes
      /\ \A i \in 1 .. Len(Tail(s)) : Tail(s)[i] = s[i + 1]
    BY SMT
<1>2. n + 1 <= k /\ Len(Tail(s)) = k - (n + 1) /\ 1 \in 1 .. Len(s)
    BY SMT, <1>0, <1>1
<1>3. ASSUME NEW i \in 1 .. Len(Tail(s)) PROVE Tail(s)[i] = w[(n + 1) + i]
    <2>1. i + 1 \in 1 .. Len(s) /\ n + (i + 1) = (n + 1) + i
        BY SMT, <1>1
    <2> QED BY <2>1, <1>0, <1>1
<1> QED BY <1>0, <1>1, <1>2, <1>3 DEF PartOf

LEMMA AppendFacts ==
    ASSUME NEW s \in Seq(Bytes), NEW x \in Bytes
    PROVE  /\ Append(s, x) \in Seq(Bytes) /\ Len(Append(s, x)) = Len(s) + 1 /\ Len(s) \in Nat
           /\ \A i \in 1 .. Len(s) : Append(s, x)[i] = s[i]
           /\ Append(s, x)[Len(s) + 1] = x
BY SMT

\* The first null byte is the one behind the header.
LEMMA FirstNull ==
    ASSUME NEW m \in Messages, NEW s \in Seq(Bytes), Len(s) < Len(Wire(m)), Wire(m)[Len(s) + 1] = NUL,
           \A i \in 1 .. Len(s) : s[i] = Wire(m)[i] /\ s[i] # NUL
    PROVE  s = m.header
<1> DEFINE w == Wire(m)
           h == m.header
<1>1. /\ w \in Seq(Bytes) /\ h \in Seq(Bytes)
      /\ \A i \in 1 .. Len(h) : w[i] = h[i] /\ h[i] # NUL
      /\ w[Len(h) + 1] = NUL
    BY WireFacts, MessagesAssumption
<1>2. /\ \A i \in 1 .. Len(s) : s[i] = w[i] /\ s[i] # NUL
      /\ w[Len(s) + 1] = NUL
    OBVIOUS
<1> HIDE DEF w, h
<1>3. Len(s) \in Nat /\ Len(h) \in Nat
    BY SMT, <1>1
<1>4. ~(Len(s) < Len(h))
    <2> SUFFICES ASSUME Len(s) < Len(h) PROVE FALSE
        OBVIOUS
    <2>1. Len(s) + 1 \in 1 .. Len(h)
        BY SMT, <1>3
    <2> QED BY <1>1, <1>2, <2>1
<1>5. ~(Len(h) < Len(s))
    <2> SUFFICES ASSUME Len(h) < Len(s) PROVE FALSE
        OBVIOUS
    <2>1. Len(h) + 1 \in 1 .. Len(s)
        BY SMT, <1>3
    <2> QED BY <1>1, <1>2, <2>1
<1>6. Len(s) = Len(h)
    BY SMT, <1>3, <1>4, <1>5
<1>7. \A i \in 1 .. Len(s) : s[i] = h[i]
    BY <1>1, <1>2, <1>6
<1>8. s = h
    BY SMT, <1>1, <1>6, <1>7
<1> QED BY <1>8 DEF h

LEMMA RecvHeaderKeeps ==
    ASSUME Types, Inv, All, NEW c \in Clients, RecvHeader(c)
    PROVE  Types' /\ All'
<1> DEFINE n == Len(msg[c])
           w == Wire(message[c])
<1>1. pc[c] = "header" /\ Peer(c) = c /\ ClientInv(c)
    BY PeerOwn DEF RecvHeader, At, Serving, All
<1>2. /\ stream[c] # <<>> /\ stream' = [stream EXCEPT ![c] = Tail(@)]
      /\ UNCHANGED <<clientVars, inbox>>
      /\ \/ Close(c) /\ UNCHANGED <<locals, up, fsVars>>
         \/ Head(stream[c]) = NUL /\ Parsed(c)
         \/ /\ ~TooLong(msg[c]) /\ Head(stream[c]) # NUL
            /\ msg' = [msg EXCEPT ![c] = Append(@, Head(stream[c]))]
            /\ UNCHANGED <<sock, pc, connectionfd, request, handled, up, fsVars>>
    BY <1>1 DEF RecvHeader
<1>3. /\ HeaderRead(c) /\ msg[c] \in Seq(Bytes) /\ stream[c] \in Seq(Bytes) /\ sent[c] \in Nat
      /\ client[c] # "new" /\ message[c] \in Messages /\ sent[c] <= Len(w)
    BY <1>1, KnownMessage DEF ClientInv, Types
<1>4. /\ \A i \in 1 .. n : msg[c][i] = w[i] /\ msg[c][i] # NUL
      /\ PartOf(stream[c], w, n, sent[c])
    BY <1>3 DEF HeaderRead, Behind
<1>5. n \in Nat
    BY SMT, <1>3
<1> HIDE DEF n
<1>6. /\ stream'[c] \in Seq(Bytes) /\ PartOf(stream'[c], w, n + 1, sent[c])
      /\ Head(stream[c]) = w[n + 1] /\ Head(stream[c]) \in Bytes /\ stream'[c] = Tail(stream[c])
    <2>1. stream'[c] = Tail(stream[c])
        BY <1>2 DEF Types
    <2> HIDE DEF w
    <2>2. /\ stream[c] \in Seq(Bytes) /\ stream[c] # <<>> /\ n \in Nat /\ sent[c] \in Nat
          /\ PartOf(stream[c], w, n, sent[c])
        BY <1>2, <1>3, <1>4, <1>5
    <2>3. /\ Tail(stream[c]) \in Seq(Bytes) /\ PartOf(Tail(stream[c]), w, n + 1, sent[c])
          /\ Head(stream[c]) = w[n + 1] /\ Head(stream[c]) \in Bytes
        BY <2>2, TailLemma
    <2> QED BY <2>1, <2>3
<1>7. Kept(stream, stream', c)
    BY <1>2 DEF Kept
<1>8. CASE Close(c) /\ UNCHANGED <<locals, up, fsVars>>
    <2>1. StepOf(c)
        BY <1>2, <1>7, <1>8 DEF StepOf, Kept, Close, Goto, clientVars, locals, fsVars
    <2>2. Types'
        BY <1>2, <1>6, <1>8, <2>1, TypesKept DEF Types, clientVars, locals, fsVars
    <2>3. /\ pc'[c] = "end" /\ ClientSame(c) /\ call'[c] = call[c] /\ handled'[c] = handled[c]
          /\ inbox'[c] = inbox[c]
        BY <1>2, <1>8 DEF Close, Goto, Inv, ClientSame, clientVars, locals, fsVars
    <2>4. ClientInv(c)'
        BY <1>1, <2>3, GivesUp
    <2> QED BY <2>1, <2>2, <2>4, StepKeeps
<1>9. CASE Head(stream[c]) = NUL /\ Parsed(c)
    <2>1. n < Len(w)
        <3>1. n + 1 <= sent[c]
            BY <1>6 DEF PartOf
        <3>2. Len(w) \in Nat
            BY SMT, <1>3, WireFacts
        <3> HIDE DEF w
        <3> QED BY SMT, <1>3, <1>5, <3>1, <3>2
    <2>2. msg[c] = message[c].header
        <3>1. Len(msg[c]) < Len(Wire(message[c])) /\ Wire(message[c])[Len(msg[c]) + 1] = NUL
            BY <1>6, <1>9, <2>1 DEF n
        <3>2. \A i \in 1 .. Len(msg[c]) : msg[c][i] = Wire(message[c])[i] /\ msg[c][i] # NUL
            BY <1>4 DEF n
        <3> QED BY <1>3, <3>1, <3>2, FirstNull
    <2>3. Behind(c, Len(message[c].header) + 1)'
        BY <1>2, <1>6, <2>2 DEF Behind, n, clientVars
    <2> QED BY <1>1, <1>2, <1>6, <1>7, <1>9, <2>2, <2>3, ParsedKeeps
<1>10. CASE /\ ~TooLong(msg[c]) /\ Head(stream[c]) # NUL
            /\ msg' = [msg EXCEPT ![c] = Append(@, Head(stream[c]))]
            /\ UNCHANGED <<sock, pc, connectionfd, request, handled, up, fsVars>>
    <2>1. StepOf(c)
        BY <1>2, <1>7, <1>10 DEF StepOf, Kept, clientVars, fsVars
    <2>2. msg'[c] = Append(msg[c], Head(stream[c]))
        BY <1>10 DEF Types
    <2>3. /\ msg'[c] \in Seq(Bytes) /\ Len(msg'[c]) = n + 1
          /\ \A i \in 1 .. n : msg'[c][i] = msg[c][i]
          /\ msg'[c][n + 1] = w[n + 1] /\ msg'[c][n + 1] # NUL
        <3> DEFINE x == Head(stream[c])
        <3>1. msg[c] \in Seq(Bytes) /\ x \in Bytes /\ x = w[n + 1] /\ x # NUL
            BY <1>3, <1>6, <1>10
        <3> HIDE DEF x
        <3>2. /\ Append(msg[c], x) \in Seq(Bytes) /\ Len(Append(msg[c], x)) = n + 1
              /\ \A i \in 1 .. n : Append(msg[c], x)[i] = msg[c][i]
              /\ Append(msg[c], x)[n + 1] = x
            BY <3>1, AppendFacts DEF n
        <3> QED BY <2>2, <3>1, <3>2 DEF x
    <2>4. Types'
        BY <1>2, <1>6, <1>10, <2>1, <2>3, TypesKept DEF Types, clientVars, fsVars
    <2>5. /\ client'[c] = client[c] /\ message'[c] = message[c] /\ sent'[c] = sent[c] /\ pc'[c] = pc[c]
          /\ call'[c] = call[c] /\ handled'[c] = handled[c] /\ inbox'[c] = inbox[c]
        BY <1>2, <1>10 DEF clientVars, fsVars
    <2>6. n + 1 <= MAX_HEADER_SIZE
        BY SMT, <1>5, <1>10, SizesAssumption DEF TooLong, n
    <2>7. ASSUME NEW i \in 1 .. n + 1 PROVE msg'[c][i] = w[i] /\ msg'[c][i] # NUL
        <3>1. i = n + 1 \/ i \in 1 .. n
            BY SMT, <1>5
        <3> QED BY <3>1, <1>4, <2>3
    <2>8. HeaderRead(c)'
        BY <1>6, <2>3, <2>5, <2>6, <2>7 DEF HeaderRead, Behind
    <2>9. Asked(c)' /\ Answered(c)'
        <3>1. Fresh(c)
            BY <1>1, FreshBefore
        <3>2. Fresh(c)'
            BY <2>5, <3>1 DEF Fresh
        <3> QED BY <1>1, <2>5, <3>2, FreshAfter
    <2>10. ClientInv(c)'
        BY <1>1, <1>3, <2>3, <2>5, <2>6, <2>8, <2>9 DEF ClientInv
    <2> QED BY <2>1, <2>4, <2>10, StepKeeps
<1> QED BY <1>2, <1>8, <1>9, <1>10

\* If the client closes before the null byte, the message is cut short.
LEMMA EndOfHeaderKeeps ==
    ASSUME Types, Inv, All, NEW c \in Clients, EndOfHeader(c)
    PROVE  Types' /\ All'
<1> DEFINE n == Len(msg[c])
           w == Wire(message[c])
           h == Len(message[c].header)
<1>1. pc[c] = "header" /\ Peer(c) = c /\ ClientInv(c)
    BY PeerOwn DEF EndOfHeader, At, Serving, All
<1>2. /\ stream[c] = <<>> /\ client[c] = "closed" /\ Parsed(c)
      /\ UNCHANGED <<clientVars, stream, inbox>>
    BY <1>1 DEF EndOfHeader, Ended
<1>3. /\ HeaderRead(c) /\ msg[c] \in Seq(Bytes) /\ stream[c] \in Seq(Bytes) /\ sent[c] \in Nat
      /\ message[c] \in Messages
    BY <1>1, KnownMessage DEF ClientInv, Types
<1>4. (\A i \in 1 .. n : w[i] # NUL) /\ Len(stream[c]) = sent[c] - n
    BY <1>3 DEF HeaderRead, Behind, PartOf
<1>5. n \in Nat
    BY SMT, <1>3
<1> DEFINE d == Len(message[c].data)
<1>6. h \in Nat /\ d \in Nat /\ Len(w) = h + 1 + d /\ w[h + 1] = NUL
    BY <1>3, WireFacts
<1> HIDE DEF n, w, h, d
<1>7. n = sent[c]
    BY SMT, <1>2, <1>3, <1>4, <1>5
<1>8. sent[c] < Needed(message[c])
    <2>1. h + 1 \notin 1 .. n
        BY <1>4, <1>6
    <2>2. Needed(message[c]) \in Nat /\ h + 1 <= Needed(message[c])
        BY <1>3, NeededFacts DEF h
    <2> QED BY SMT, <1>5, <1>6, <1>7, <2>1, <2>2
<1>9. CutShort(c)
    BY <1>2, <1>8 DEF CutShort
<1>10. Kept(stream, stream', c) /\ stream'[c] \in Seq(Bytes)
    BY <1>2, <1>3 DEF Kept
<1> QED BY <1>1, <1>2, <1>9, <1>10, ParsedKeeps

LEMMA RecvFailsKeeps ==
    ASSUME Types, Inv, All, NEW c \in Clients, RecvFails(c)
    PROVE  Types' /\ All'
<1>1. pc[c] \in {"header", "data"} /\ ClientInv(c)
    BY DEF RecvFails, At, All
<1>2. Close(c) /\ UNCHANGED <<clientVars, stream, inbox, locals, up, fsVars>>
    BY DEF RecvFails
<1>3. StepOf(c)
    BY <1>2 DEF StepOf, Kept, Close, Goto, clientVars, locals, fsVars
<1>4. Types'
    BY <1>2, <1>3, TypesKept DEF Types, clientVars, locals, fsVars
<1>5. /\ pc'[c] = "end" /\ ClientSame(c) /\ call'[c] = call[c] /\ handled'[c] = handled[c]
      /\ inbox'[c] = inbox[c]
    BY <1>2 DEF Close, Goto, Inv, ClientSame, clientVars, locals, fsVars
<1>6. ClientInv(c)'
    BY <1>1, <1>5, GivesUp
<1> QED BY <1>3, <1>4, <1>6, StepKeeps

\* Of a write that was not cut short, recv returns all the data that fit into the block.
LEMMA WholeBlock ==
    ASSUME NEW m \in Messages, IsWrite(m), NEW s \in Seq(Bytes), NEW k \in Nat,
           PartOf(s, Wire(m), Len(m.header) + 1, k), k <= Len(Wire(m)),
           Len(s) >= FS_BLOCKSIZE \/ ~(k < Needed(m))
    PROVE  ~(k < Needed(m)) /\ BlockFrom(s) = BlockFrom(m.data)
<1> DEFINE w == Wire(m)
           h == Len(m.header) + 1
           d == m.data
<1>1. /\ h \in Nat /\ Len(d) \in Nat /\ Len(s) \in Nat /\ Len(w) = h + Len(d)
      /\ \A i \in 1 .. Len(d) : w[h + i] = d[i]
    <2>1. /\ Len(d) \in Nat /\ Len(w) = h + Len(d) /\ Len(m.header) \in Nat
          /\ \A i \in 1 .. Len(d) : w[h + i] = d[i]
        BY WireFacts
    <2>2. h \in Nat
        BY SMT, <2>1
    <2> QED BY <2>1, <2>2, LenNat
<1>2. /\ Len(s) = k - h /\ k <= Len(w) /\ \A i \in 1 .. Len(s) : s[i] = w[h + i]
    BY DEF PartOf
<1>3. /\ Needed(m) = h + (IF Len(d) < FS_BLOCKSIZE THEN Len(d) ELSE FS_BLOCKSIZE)
      /\ FS_BLOCKSIZE \in Nat
    BY NeededFacts, SizesAssumption
<1> HIDE DEF w, h, d
<1>4. ~(k < Needed(m))
    BY SMT, <1>1, <1>2, <1>3
<1>5. ASSUME NEW i \in 1 .. FS_BLOCKSIZE
      PROVE  (IF i <= Len(s) THEN s[i] ELSE NUL) = (IF i <= Len(d) THEN d[i] ELSE NUL)
    <2>1. i <= Len(s) <=> i <= Len(d)
        BY SMT, <1>1, <1>2, <1>3, <1>4
    <2>2. CASE i <= Len(s)
        <3>1. i \in 1 .. Len(s) /\ i \in 1 .. Len(d)
            BY SMT, <1>1, <1>3, <2>1, <2>2
        <3> QED BY <1>1, <1>2, <2>1, <2>2, <3>1
    <2> QED BY <2>1, <2>2
<1>6. BlockFrom(s) = BlockFrom(d)
    BY <1>5 DEF BlockFrom
<1> QED BY <1>4, <1>6 DEF d

LEMMA RecvDataKeeps ==
    ASSUME Types, Inv, All, NEW c \in Clients, RecvData(c)
    PROVE  Types' /\ All'
<1> DEFINE s == stream[c]
           m == message[c]
           r == WriteRequest(request[c], BlockFrom(s))
<1>1. pc[c] = "data" /\ Peer(c) = c /\ ClientInv(c)
    BY PeerOwn DEF RecvData, At, Serving, All
<1>2. /\ Len(s) >= FS_BLOCKSIZE \/ client[c] \in {"closed", "reset"}
      /\ Submit(c, r)
      /\ stream' = [stream EXCEPT ![c] = SubSeq(s, FS_BLOCKSIZE + 1, Len(s))]
      /\ UNCHANGED <<clientVars, inbox, sock, connectionfd, msg, handled, up>>
    BY <1>1 DEF RecvData, WaitAll
<1>3. /\ DataNext(c) /\ s \in Seq(Bytes) /\ sent[c] \in Nat
      /\ m \in Messages /\ sent[c] <= Len(Wire(m))
    BY <1>1, KnownMessage DEF ClientInv, Types
<1>4. Made(c, r)
    <2> SUFFICES ASSUME ~CutShort(c) PROVE ~Short(c) /\ r = RequestOf(m)
        BY DEF Made
    <2>1. /\ request[c] \notin {None, Thrown} /\ request[c].op = "FS_WRITEBLOCK"
          /\ request[c] = parse_request(m.header) /\ PartOf(s, Wire(m), Len(m.header) + 1, sent[c])
        BY <1>3 DEF DataNext, Behind
    <2>2. IsWrite(m)
        BY <2>1 DEF IsWrite
    <2>3. Len(s) >= FS_BLOCKSIZE \/ ~(sent[c] < Needed(m))
        BY <1>2 DEF CutShort
    <2>4. ~(sent[c] < Needed(m)) /\ BlockFrom(s) = BlockFrom(m.data)
        <3> HIDE DEF s, m
        <3> QED BY <1>3, <2>1, <2>2, <2>3, WholeBlock
    <2>5. r = RequestOf(m)
        BY <2>1, <2>2, <2>4 DEF RequestOf
    <2> QED BY <2>4, <2>5 DEF Short
<1>5. stream'[c] \in Seq(Bytes)
    <2>1. stream'[c] = SubSeq(s, FS_BLOCKSIZE + 1, Len(s))
        BY <1>2 DEF Types
    <2> HIDE DEF s
    <2> QED BY SMT, <1>3, <2>1, SizesAssumption
<1> HIDE DEF r
<1>6. StepOf(c)
    BY <1>2 DEF StepOf, Kept, Submit, Goto, clientVars, FS!Invoke
<1>7. Types'
    BY <1>2, <1>5, <1>6, TypesKept DEF Types, clientVars
<1>8. /\ pc'[c] = "execute" /\ request'[c] = r /\ call'[c] = r /\ ClientSame(c)
      /\ handled'[c] = handled[c] /\ inbox'[c] = inbox[c]
    BY <1>2 DEF Submit, Goto, Inv, Types, OverClients, ClientSame, clientVars, FS!Invoke
<1>9. ClientInv(c)'
    BY <1>1, <1>4, <1>8, SubmitKeeps
<1> QED BY <1>6, <1>7, <1>9, StepKeeps

LEMMA ExecuteKeeps ==
    ASSUME Types, Inv, All, NEW c \in Clients, Execute(c)
    PROVE  Types' /\ All'
<1>1. /\ pc[c] = "execute" /\ ClientInv(c)
      /\ UNCHANGED <<clientVars, stream, inbox, sock, connectionfd, msg, request, up>>
    BY DEF Execute, At, All
<1>2. request[c] = call[c] /\ ~handled[c] /\ inbox[c] = <<>>
    BY <1>1 DEF ClientInv, Asked, Answered
<1>3. ClientSame(c) /\ (CutShort(c)' <=> CutShort(c)) /\ (Short(c)' <=> Short(c))
    BY <1>1, SameCut DEF ClientSame, clientVars
<1>4. CASE FS!Do(c) /\ Goto(c, "reply") /\ handled' = [handled EXCEPT ![c] = TRUE]
    <2>1. /\ call[c] # None /\ call' = call /\ pc'[c] = "reply" /\ handled'[c] = TRUE
          /\ \E x : result' = [result EXCEPT ![c] = x]
        BY <1>4 DEF FS!Do, Goto, Inv, Types
    <2>2. StepOf(c)
        BY <1>1, <1>4, <2>1 DEF StepOf, Kept, Goto, clientVars
    <2>3. Types'
        BY <1>1, <2>1, <2>2, TypesKept DEF Types, clientVars
    <2>4. Asked(c)'
        BY <1>1, <1>2, <1>3, <2>1 DEF ClientInv, Asked, Made, ClientSame
    <2>5. Answered(c)'
        BY <1>1, <1>2, <2>1 DEF Answered
    <2>6. ClientInv(c)'
        BY <1>1, <1>3, <2>1, <2>4, <2>5, ClientKeeps DEF States
    <2> QED BY <2>2, <2>3, <2>6, StepKeeps
<1>5. CASE FS!Refuse(c) /\ Goto(c, "close") /\ UNCHANGED handled
    <2>1. /\ call' = call /\ pc'[c] = "close" /\ handled' = handled
          /\ \E x : result' = [result EXCEPT ![c] = x]
        BY <1>5 DEF FS!Refuse, Goto, Inv
    <2>2. StepOf(c)
        BY <1>1, <1>5, <2>1 DEF StepOf, Kept, Goto, clientVars
    <2>3. Types'
        BY <1>1, <2>1, <2>2, TypesKept DEF Types, clientVars
    <2>4. Asked(c)'
        BY <1>1, <1>2, <1>3, <2>1 DEF ClientInv, Asked, Made, ClientSame
    <2>5. Answered(c)'
        BY <1>1, <1>2, <2>1 DEF Answered, Answer
    <2>6. ClientInv(c)'
        BY <1>1, <1>3, <2>1, <2>4, <2>5, ClientKeeps DEF States
    <2> QED BY <2>2, <2>3, <2>6, StepKeeps
<1> QED BY <1>4, <1>5 DEF Execute

\* What send does for a client that has not ended, and for one that has.
LEMMA SendLemma ==
    ASSUME Types, NEW c \in Clients, Peer(c) = c, NEW x, Send(c, x)
    PROVE  /\ Kept(inbox, inbox', c)
           /\ inbox'[c] = IF client[c] = "open" THEN Append(inbox[c], x) ELSE inbox[c]
<1>1. c # None
    BY NoneAssumption
<1>2. inbox' = IF client[c] = "open" THEN [inbox EXCEPT ![c] = Append(@, x)] ELSE inbox
    BY <1>1 DEF Send
<1>3. CASE client[c] = "open"
    BY <1>2, <1>3 DEF Types, OverClients, Kept
<1>4. CASE client[c] # "open"
    BY <1>2, <1>4 DEF Kept
<1> QED BY <1>3, <1>4

LEMMA SendHeaderKeeps ==
    ASSUME Types, Inv, All, NEW c \in Clients, SendHeader(c)
    PROVE  Types' /\ All'
<1> DEFINE h == request_string(RequestOf(message[c]))
           label == IF request[c].op = "FS_READBLOCK" THEN "reply_data" ELSE "close"
<1>1. /\ pc[c] = "reply" /\ Peer(c) = c /\ ClientInv(c)
      /\ Send(c, request_string(request[c])) /\ Goto(c, label)
      /\ UNCHANGED <<clientVars, stream, sock, locals, up, fsVars>>
    BY PeerOwn DEF SendHeader, At, Serving, All
<1>2. /\ handled[c] /\ call[c] # None /\ request[c] = call[c] /\ inbox[c] = <<>>
      /\ Made(c, call[c])
    BY <1>1 DEF ClientInv, Asked, Answered
<1>3. /\ Kept(inbox, inbox', c)
      /\ inbox'[c] = IF client[c] = "open" THEN Append(inbox[c], request_string(request[c])) ELSE inbox[c]
    BY <1>1, SendLemma
<1>4. StepOf(c)
    BY <1>1, <1>3 DEF StepOf, Kept, Goto, clientVars, locals, fsVars
<1>5. Types'
    BY <1>1, <1>4, TypesKept DEF Types, clientVars, locals, fsVars
<1>6. client[c] = "open" => ~Short(c) /\ call[c] = RequestOf(message[c]) /\ inbox'[c] = Reply(c)
    <2> SUFFICES ASSUME client[c] = "open"
                 PROVE  ~Short(c) /\ call[c] = RequestOf(message[c]) /\ inbox'[c] = Reply(c)
        OBVIOUS
    <2>0. ~Short(c) /\ call[c] = RequestOf(message[c])
        BY <1>2 DEF CutShort, Made
    <2>1. request_string(request[c]) = h
        BY <1>2, <2>0
    <2>2. inbox'[c] = Append(<<>>, h)
        BY <1>2, <1>3, <2>1
    <2> HIDE DEF h
    <2>3. inbox'[c] = <<h>>
        BY SMT, <2>2
    <2> QED BY <2>0, <2>3 DEF Reply, h
<1>7. client[c] # "open" => inbox'[c] = <<>>
    BY <1>2, <1>3
<1>8. /\ pc'[c] = label /\ ClientSame(c) /\ call'[c] = call[c] /\ handled'[c] = handled[c]
      /\ request'[c] = request[c] /\ result'[c] = result[c] /\ up' = up
    BY <1>1 DEF Goto, Inv, ClientSame, clientVars, locals, fsVars
<1> HIDE DEF h
<1>9. (CutShort(c)' <=> CutShort(c)) /\ (Short(c)' <=> Short(c)) /\ Reply(c)' = Reply(c)
    BY <1>8, SameCut
<1>10. Asked(c)'
    <2>2. pc'[c] \in {"reply_data", "close"}
        BY <1>8
    <2> HIDE DEF label
    <2> QED BY <1>2, <1>8, <1>9, <2>2 DEF Asked, Made, ClientSame
<1>11. Answered(c)'
    <2>1. client'[c] = client[c] /\ message'[c] = message[c]
        BY <1>8 DEF ClientSame
    <2>2. CASE call[c].op = "FS_READBLOCK"
        <3>1. pc'[c] = "reply_data"
            BY <1>2, <1>8, <2>2
        <3> HIDE DEF label
        <3> QED BY <1>2, <1>6, <1>7, <1>8, <1>9, <2>1, <2>2, <3>1 DEF Answered
    <2>3. CASE call[c].op # "FS_READBLOCK"
        <3>1. pc'[c] = "close"
            BY <1>2, <1>8, <2>3
        <3>2. client[c] = "open" => Answer(c)' = Reply(c)
            BY <1>2, <1>6, <1>8, <1>9, <2>1, <2>3 DEF Answer, Reply, CutShort
        <3> HIDE DEF label
        <3> QED BY <1>2, <1>6, <1>7, <1>8, <1>9, <2>1, <3>1, <3>2 DEF Answered
    <2> QED BY <2>2, <2>3
<1>12. ClientInv(c)'
    <2>1. pc'[c] \in States \ {"none", "header", "data"} /\ pc[c] # "none"
        BY <1>1, <1>8 DEF States
    <2> QED BY <1>1, <1>8, <1>10, <1>11, <2>1, ClientKeeps
<1> QED BY <1>4, <1>5, <1>12, StepKeeps

LEMMA PairAppend ==
    ASSUME NEW a, NEW b
    PROVE  Append(<<a>>, b) = <<a, b>>
<1>1. <<a>> \in Seq({a, b}) /\ <<a, b>> \in Seq({a, b}) /\ b \in {a, b}
    BY SMT
<1>2. /\ Len(<<a>>) = 1 /\ <<a>>[1] = a
      /\ Len(<<a, b>>) = 2 /\ <<a, b>>[1] = a /\ <<a, b>>[2] = b
    BY SMT
<1>3. /\ Append(<<a>>, b) \in Seq({a, b}) /\ Len(Append(<<a>>, b)) = 2
      /\ Append(<<a>>, b)[1] = a /\ Append(<<a>>, b)[2] = b
    BY SMT, <1>1, <1>2
<1> DEFINE s == Append(<<a>>, b)
           t == <<a, b>>
<1>4. s \in Seq({a, b}) /\ t \in Seq({a, b}) /\ Len(s) = 2 /\ Len(t) = 2 /\ s[1] = t[1] /\ s[2] = t[2]
    BY <1>1, <1>2, <1>3
<1> HIDE DEF s, t
<1>5. s = [i \in 1 .. 2 |-> s[i]] /\ t = [i \in 1 .. 2 |-> t[i]]
    BY SMT, <1>4
<1>6. \A i \in 1 .. 2 : i = 1 \/ i = 2
    BY SMT
<1>7. \A i \in 1 .. 2 : s[i] = t[i]
    BY <1>4, <1>6
<1> QED BY <1>5, <1>7 DEF s, t

LEMMA SendBlockKeeps ==
    ASSUME Types, Inv, All, NEW c \in Clients, SendBlock(c)
    PROVE  Types' /\ All'
<1> DEFINE h == request_string(RequestOf(message[c]))
<1>1. /\ pc[c] = "reply_data" /\ Peer(c) = c /\ ClientInv(c)
      /\ Send(c, result[c]) /\ Goto(c, "close")
      /\ UNCHANGED <<clientVars, stream, sock, locals, up, fsVars>>
    BY PeerOwn DEF SendBlock, At, Serving, All
<1>2. /\ handled[c] /\ call[c] # None /\ request[c] = call[c] /\ call[c].op = "FS_READBLOCK"
      /\ inbox[c] = <<>> \/ ~Short(c)
      /\ inbox[c] \in {<<>>, Reply(c)} /\ (client[c] = "open" => inbox[c] = Reply(c))
      /\ Made(c, call[c])
    BY <1>1 DEF ClientInv, Asked, Answered
<1>3. /\ Kept(inbox, inbox', c)
      /\ inbox'[c] = IF client[c] = "open" THEN Append(inbox[c], result[c]) ELSE inbox[c]
    BY <1>1, SendLemma
<1>4. StepOf(c)
    BY <1>1, <1>3 DEF StepOf, Kept, Goto, clientVars, locals, fsVars
<1>5. Types'
    BY <1>1, <1>4, TypesKept DEF Types, clientVars, locals, fsVars
<1>6. client[c] = "open" => inbox'[c] = <<h, result[c]>>
    <2> HIDE DEF h
    <2>1. Append(<<h>>, result[c]) = <<h, result[c]>>
        BY PairAppend
    <2>2. Reply(c) = <<h>>
        BY DEF Reply, h
    <2> QED BY <1>2, <1>3, <2>1, <2>2
<1>7. /\ pc'[c] = "close" /\ ClientSame(c) /\ call'[c] = call[c] /\ handled'[c] = handled[c]
      /\ request'[c] = request[c] /\ result'[c] = result[c] /\ up' = up
    BY <1>1 DEF Goto, Inv, ClientSame, clientVars, locals, fsVars
<1>8. (CutShort(c)' <=> CutShort(c)) /\ (Short(c)' <=> Short(c)) /\ Reply(c)' = Reply(c)
    BY <1>7, SameCut
<1>9. Asked(c)'
    BY <1>2, <1>7, <1>8 DEF Asked, Made, ClientSame
<1>10. Answered(c)'
    <2>1. client'[c] = client[c] /\ message'[c] = message[c]
        BY <1>7 DEF ClientSame
    <2>2. client[c] = "open" => ~Short(c) /\ call[c] = RequestOf(message[c])
        BY <1>2 DEF CutShort, Made
    <2>3. client[c] = "open" => Answer(c)' = <<h, result[c]>>
        BY <1>2, <1>7, <1>8, <2>1, <2>2 DEF Answer, CutShort
    <2> HIDE DEF h
    <2> QED BY <1>2, <1>3, <1>6, <1>7, <1>8, <2>1, <2>2, <2>3 DEF Answered
<1>11. ClientInv(c)'
    BY <1>1, <1>7, <1>9, <1>10, ClientKeeps DEF States
<1> QED BY <1>4, <1>5, <1>11, StepKeeps

LEMMA CloseKeeps ==
    ASSUME Types, Inv, All, NEW c \in Clients, CloseConnection(c)
    PROVE  Types' /\ All'
<1>1. /\ pc[c] = "close" /\ ClientInv(c) /\ Close(c)
      /\ UNCHANGED <<clientVars, stream, inbox, locals, up, fsVars>>
    BY DEF CloseConnection, At, All
<1>2. StepOf(c)
    BY <1>1 DEF StepOf, Kept, Close, Goto, clientVars, locals, fsVars
<1>3. Types'
    BY <1>1, <1>2, TypesKept DEF Types, clientVars, locals, fsVars
<1>4. /\ Same(c) /\ ClientSame(c) /\ pc'[c] = "end" /\ up' = up
    BY <1>1 DEF Close, Goto, Inv, Same, ClientSame, clientVars, locals, fsVars
<1>5. Asked(c)'
    BY <1>1, <1>4, SameParts DEF ClientInv, Asked, Made, Same
<1>6. Answered(c)'
    <2>1. Answered(c) /\ Answer(c)' = Answer(c) /\ Reply(c)' = Reply(c) /\ (Short(c)' <=> Short(c))
        BY <1>1, <1>4, SameParts DEF ClientInv
    <2>2. /\ client'[c] = client[c] /\ message'[c] = message[c] /\ inbox'[c] = inbox[c]
          /\ handled'[c] = handled[c]
        BY <1>4 DEF Same
    <2>3. up /\ client[c] = "open" => inbox[c] = Answer(c)
        BY <1>1, <2>1 DEF Answered
    <2>4. inbox[c] = <<>> \/ (handled[c] /\ ~Short(c) /\ inbox[c] \in {Reply(c), Answer(c)})
        BY <2>1 DEF Answered
    <2> QED BY <1>4, <2>1, <2>2, <2>3, <2>4 DEF Answered
<1>7. ClientInv(c)'
    BY <1>1, <1>4, <1>5, <1>6, ClientKeeps DEF States
<1> QED BY <1>2, <1>3, <1>7, StepKeeps

-----------------------------------------------------------------------------
LEMMA SafeInit == Init => Safe
<1> SUFFICES ASSUME Init PROVE Safe
    OBVIOUS
<1>1. Inv
    BY InvInit
<1>2. <<>> \in Seq(Bytes) /\ 0 \in Nat /\ Len(<<>>) = 0 /\ 0 <= 0 /\ 0 - 0 = 0 /\ (\A i \in 1 .. 0 : FALSE)
      /\ 0 <= MAX_HEADER_SIZE
    BY SMT, SizesAssumption
<1>3. Types
    BY <1>2 DEF Init, Types, OverClients, FS!Init
<1>4. ASSUME NEW c \in Clients PROVE ClientInv(c)
    <2>1. /\ client[c] = "new" /\ sent[c] = 0 /\ stream[c] = <<>> /\ inbox[c] = <<>> /\ pc[c] = "none"
          /\ msg[c] = <<>> /\ ~handled[c] /\ call[c] = None
        BY DEF Init, FS!Init
    <2>2. HeaderRead(c)
        BY <1>2, <2>1 DEF HeaderRead, Behind, PartOf
    <2>3. Asked(c) /\ Answered(c)
        BY <2>1 DEF Asked, Answered
    <2> QED BY <1>2, <2>1, <2>2, <2>3 DEF ClientInv
<1> QED BY <1>1, <1>3, <1>4 DEF Safe

LEMMA SafeStep == Safe /\ [Next]_vars => Safe'
<1> SUFFICES ASSUME Safe, [Next]_vars PROVE Safe'
    OBVIOUS
<1>1. Inv /\ Types /\ All
    BY DEF Safe, All
<1>2. Inv'
    BY <1>1, InvStep
<1>3. ASSUME NEW c \in Clients, Connect(c) \/ Sends(c) \/ Ends(c) PROVE Types' /\ All'
    <2>1. ClientInv(c)
        BY <1>1 DEF All
    <2>2. StepOf(c) /\ Types' /\ ClientInv(c)'
        BY <1>1, <1>3, <2>1, ConnectKeeps, SendsKeeps, EndsKeeps
    <2> QED BY <1>1, <2>2, StepKeeps
<1>4. ASSUME NEW c \in Clients, handle_connection(c) PROVE Types' /\ All'
    BY <1>1, <1>4, RecvHeaderKeeps, EndOfHeaderKeeps, RecvFailsKeeps, RecvDataKeeps, ExecuteKeeps,
       SendHeaderKeeps, SendBlockKeeps, CloseKeeps DEF handle_connection
<1>5. ASSUME UNCHANGED vars PROVE Types' /\ All'
    <2>1. Types'
        BY <1>1, <1>5 DEF Types, vars, clientVars, threadVars, locals, fsVars
    <2>2. ASSUME NEW c \in Clients PROVE ClientInv(c)'
        <3>1. /\ Same(c) /\ pc'[c] = pc[c] /\ stream'[c] = stream[c] /\ (up' => up)
            BY <1>5 DEF Same, vars, clientVars, threadVars, locals, fsVars
        <3>2. ClientInv(c)
            BY <1>1 DEF All
        <3> QED BY <3>1, <3>2, SameKeeps
    <2> QED BY <2>1, <2>2 DEF All
<1>6. Types' /\ All'
    BY <1>1, <1>3, <1>4, <1>5, AcceptOwn DEF Next
<1> QED BY <1>2, <1>6 DEF Safe, All

\* What a client receives is the beginning of its answer.
Beginnings(s) == {SubSeq(s, 1, n) : n \in 0 .. Len(s)}

LEMMA NoneOrAll ==
    ASSUME NEW S, NEW s \in Seq(S)
    PROVE  <<>> \in Beginnings(s) /\ s \in Beginnings(s)
<1>1. Len(s) \in 0 .. Len(s) /\ 0 \in 0 .. Len(s)
    BY SMT
<1>2. SubSeq(s, 1, 0) = <<>>
    BY SMT
<1>3. SubSeq(s, 1, Len(s)) = s
    BY SMT
<1> QED BY <1>1, <1>2, <1>3 DEF Beginnings

LEMMA FirstOnly ==
    ASSUME NEW S, NEW s \in Seq(S), Len(s) >= 1
    PROVE  <<s[1]>> \in Beginnings(s)
<1> DEFINE f == SubSeq(s, 1, 1)
           x == s[1]
<1>1. 1 \in 0 .. Len(s)
    BY SMT
<1>2. f \in Seq(S) /\ Len(f) = 1 /\ f[1] = x /\ x \in S
    BY SMT
<1> HIDE DEF f, x
<1>3. f = <<x>>
    BY SMT, <1>2
<1> QED BY <1>1, <1>3 DEF Beginnings, f, x

LEMMA PrefixLemma ==
    ASSUME NEW c \in Clients, Answered(c)
    PROVE  inbox[c] \in Beginnings(Answer(c))
<1> DEFINE h == request_string(RequestOf(message[c]))
<1>1. inbox[c] = <<>> \/ (handled[c] /\ ~CutShort(c) /\ inbox[c] \in {<<h>>, Answer(c)})
    BY DEF Answered, Reply, Short, CutShort
<1>2. /\ Answer(c) \in {<<>>, <<h>>, <<h, result[c]>>}
      /\ handled[c] /\ ~CutShort(c) => Answer(c) # <<>>
    <2>1. Answer(c) = IF ~handled[c] \/ CutShort(c) THEN <<>>
                      ELSE IF RequestOf(message[c]).op = "FS_READBLOCK" THEN <<h, result[c]>> ELSE <<h>>
        BY DEF Answer
    <2>2. <<h>> # <<>> /\ <<h, result[c]>> # <<>>
        <3> HIDE DEF h
        <3> QED BY SMT
    <2> QED BY <2>1, <2>2
<1> HIDE DEF h
<1>3. \A s \in {<<>>, <<h>>, <<h, result[c]>>} : <<>> \in Beginnings(s) /\ s \in Beginnings(s)
    <2>1. <<>> \in Seq({h, result[c]}) /\ <<h>> \in Seq({h, result[c]}) /\ <<h, result[c]>> \in Seq({h, result[c]})
        BY SMT
    <2> QED BY <2>1, NoneOrAll
<1>4. <<h>> \in Beginnings(<<h>>) /\ <<h>> \in Beginnings(<<h, result[c]>>)
    <2>1. <<h>> \in Seq({h, result[c]}) /\ <<h, result[c]>> \in Seq({h, result[c]})
        BY SMT
    <2>2. Len(<<h>>) = 1 /\ <<h>>[1] = h
        BY SMT
    <2>3. Len(<<h, result[c]>>) = 2 /\ <<h, result[c]>>[1] = h
        BY SMT
    <2>4. 1 >= 1 /\ 2 >= 1
        BY SMT
    <2> QED BY <2>1, <2>2, <2>3, <2>4, FirstOnly
<1> QED BY <1>1, <1>2, <1>3, <1>4

\* No descriptor is lost, and no thread uses one that is closed or another's, with any
\* number of connections at once (Accept, Close and every path of handle_connection).
THEOREM DescriptorsSafe == Spec => []DescriptorsOwned
<1>1. Inv => DescriptorsOwned
    BY DEF Inv
<1> QED BY <1>1, InvInit, InvStep, PTL DEF Spec

\* The array of handle_connection for the header is never too small, whatever is sent.
THEOREM HeaderFits == Spec => []TypeOK
<1>1. Safe => TypeOK
    BY DEF Safe, Inv, Types, ClientInv, TypeOK
<1> QED BY <1>1, SafeInit, SafeStep, PTL DEF Spec

\* The file system executes what the client asked for, unless the client closed or reset
\* the connection in the middle of it, whatever the messages are and however their bytes
\* arrive (RecvHeader, EndOfHeader, RecvData).
THEOREM RequestsIntended == Spec => []Intended
<1>1. Safe => Intended
    BY DEF Safe, ClientInv, Asked, Made, Intended
<1> QED BY <1>1, SafeInit, SafeStep, PTL DEF Spec

\* A client receives the answer to its own request and nothing else, and all of it if it
\* waits, whatever the other connections do.
THEOREM ClientsAnswered == Spec => []AnswersTrue
<1>1. Safe => AnswersTrue
    <2> SUFFICES ASSUME Safe, NEW c \in Clients
                 PROVE  /\ inbox[c] \in Beginnings(Answer(c))
                        /\ up /\ client[c] = "open" /\ pc[c] = "end" => inbox[c] = Answer(c)
        BY DEF AnswersTrue, Beginnings
    <2>1. Answered(c)
        BY DEF Safe, ClientInv
    <2>2. up /\ client[c] = "open" /\ pc[c] = "end" => inbox[c] = Answer(c)
        BY <2>1 DEF Answered
    <2> QED BY <2>1, <2>2, PrefixLemma
<1> QED BY <1>1, SafeInit, SafeStep, PTL DEF Spec
=============================================================================
