----------------------------- MODULE HttpServer -----------------------------
(* http.h: the one thread of the server accepts a connection, reads a       *)
(* request to its end, runs its handler, writes the answer and closes.      *)
(* A request is a head of HeadLen pieces and a body of Body[c] pieces, cut     *)
(* anywhere by the network; a client may hang up at any point of it.  A body *)
(* is announced as Content-Length: or content-length:, the two spellings     *)
(* read_request_raw looks for: under any other the body counts as none.      *)
EXTENDS Naturals, Sequences

CONSTANTS
    Clients,
    Quitters,    \* the clients that may hang up before they are answered
    Unreadable,  \* the clients whose Content-Length std::stoul throws on
    HeadLen, Body,\* pieces of a request: up to the blank line, and after it
    Backlog,     \* connections the kernel keeps for accept
    Nobody

ASSUME RequestAssumption ==
    /\ HeadLen \in Nat \ {0}
    /\ Body \in [Clients -> Nat]
    /\ Backlog \in Nat \ {0}
    /\ Quitters \subseteq Clients /\ Unreadable \subseteq Clients
    /\ Nobody \notin Clients

VARIABLES
    peer,      \* each client's end: "idle", "open" or "closed"
    sent,      \* how much of its request it has sent
    backlog,   \* the connections accept has not taken, oldest first
    pc,        \* "accept", "read", "handle", "write", "close" or "killed"
    client,    \* whose connection the thread serves
    got,       \* how much of the request it has read
    ran,       \* per client: what its handler worked on, "none", "part", "whole"
    answered   \* the clients whose answer has reached them

vars == <<peer, sent, backlog, pc, client, got, ran, answered>>
clientVars == <<peer, sent>>
requestVars == <<ran, answered>>

Init ==
    /\ peer = [c \in Clients |-> "idle"]
    /\ sent = [c \in Clients |-> 0]
    /\ backlog = <<>>
    /\ pc = "accept"
    /\ client = Nobody
    /\ got = 0
    /\ ran = [c \in Clients |-> "none"]
    /\ answered = {}

\* Mutant: the body is taken to be whatever came with the head.
HeadOnly(c) == HeadLen

\* What the two loops of read_request_raw wait for: the blank line, and then as
\* many bytes as the head announces, if that can be read.
Wanted(c) == IF c \in Unreadable THEN HeadLen ELSE HeadLen + Body[c]

-----------------------------------------------------------------------------
(* The clients and the kernel.                                              *)

Connect(c) ==
    /\ pc # "killed" /\ peer[c] = "idle" /\ Len(backlog) < Backlog
    /\ peer' = [peer EXCEPT ![c] = "open"]
    /\ backlog' = Append(backlog, c)
    /\ UNCHANGED <<sent, pc, client, got, requestVars>>

Send(c) ==
    /\ peer[c] = "open"
    /\ \E n \in (sent[c] + 1) .. (HeadLen + Body[c]) : sent' = [sent EXCEPT ![c] = n]
    /\ UNCHANGED <<peer, backlog, pc, client, got, requestVars>>

HangUp(c) ==
    /\ c \in Quitters /\ peer[c] = "open" /\ c \notin answered
    /\ peer' = [peer EXCEPT ![c] = "closed"]
    /\ UNCHANGED <<sent, backlog, pc, client, got, requestVars>>

\* Once the server has closed its end the client may come back.
Again(c) ==
    /\ peer[c] # "idle" /\ client # c
    /\ \A i \in DOMAIN backlog : backlog[i] # c
    /\ peer' = [peer EXCEPT ![c] = "idle"]
    /\ sent' = [sent EXCEPT ![c] = 0]
    /\ ran' = [ran EXCEPT ![c] = "none"]
    /\ answered' = answered \ {c}
    /\ UNCHANGED <<backlog, pc, client, got>>

-----------------------------------------------------------------------------
(* The thread.                                                              *)

\* Mutant: the buffer of the previous request is not emptied.
AcceptKeepsData ==
    /\ pc = "accept" /\ backlog # <<>>
    /\ pc' = "read" /\ client' = backlog[1] /\ backlog' = Tail(backlog)
    /\ UNCHANGED <<got, clientVars, requestVars>>

Accept ==
    /\ pc = "accept" /\ backlog # <<>>
    /\ pc' = "read" /\ client' = backlog[1] /\ backlog' = Tail(backlog)
    /\ got' = 0
    /\ UNCHANGED <<clientVars, requestVars>>

\* recv returns some of what has arrived.
Receive ==
    /\ pc = "read" /\ got < Wanted(client)
    /\ got' \in (got + 1) .. sent[client]
    /\ UNCHANGED <<clientVars, backlog, pc, client, requestVars>>

RequestRead ==
    /\ pc = "read" /\ got >= Wanted(client) /\ client \notin Unreadable
    /\ pc' = "handle"
    /\ UNCHANGED <<clientVars, backlog, client, got, requestVars>>

\* std::stoul throws on the announced length.  handle_connection reads the
\* request before its try block and nothing above it catches: the process ends.
LengthUnreadable ==
    /\ pc = "read" /\ got >= Wanted(client) /\ client \in Unreadable
    /\ pc' = "killed"
    /\ UNCHANGED <<clientVars, backlog, client, got, requestVars>>

\* Mutant: only an error ends the loop, and a recv of 0 bytes is tried again.
RetryOnZero ==
    /\ pc = "read" /\ got < Wanted(client) /\ peer[client] = "closed"
    /\ UNCHANGED vars

\* recv returns 0 or an error: what was read so far is taken for the request,
\* and nothing at all for no request.  A reset drops what was not read yet.
PeerGone ==
    /\ pc = "read" /\ got < Wanted(client) /\ peer[client] = "closed"
    /\ pc' = IF got = 0 THEN "close" ELSE "handle"
    /\ UNCHANGED <<clientVars, backlog, client, got, requestVars>>

\* A request line that is cut may still name a route, of a shorter table name or
\* row id; a request without its body is one with an empty body; one with half
\* a body is refused by parse_json before its handler changes anything.
MayRun(c) ==
    CASE got = HeadLen + Body[c] -> {"whole"}
      [] got = HeadLen /\ Body[c] > 0 -> {"part"}
      [] got < HeadLen -> {"none", "part"}
      [] OTHER -> {"none"}

\* parse_request and dispatch; an exception becomes an answer with status 500.
Handle ==
    /\ pc = "handle"
    /\ \E what \in MayRun(client) : ran' = [ran EXCEPT ![client] = what]
    /\ pc' = "write"
    /\ UNCHANGED <<clientVars, backlog, client, got, answered>>

WriteResponse ==
    /\ pc = "write" /\ peer[client] = "open"
    /\ answered' = answered \cup {client}
    /\ pc' = "close"
    /\ UNCHANGED <<clientVars, backlog, client, got, ran>>

\* Writing to a client that is gone is silent, or raises a SIGPIPE that nothing
\* in the program handles.
WriteToNobody ==
    /\ pc = "write" /\ peer[client] = "closed"
    /\ pc' \in {"close", "killed"}
    /\ UNCHANGED <<clientVars, backlog, client, got, requestVars>>

Close ==
    /\ pc = "close"
    /\ pc' = "accept" /\ client' = Nobody
    /\ UNCHANGED <<clientVars, backlog, got, requestVars>>

Serve == \/ Accept \/ Receive \/ RequestRead \/ LengthUnreadable \/ PeerGone
         \/ Handle \/ WriteResponse \/ WriteToNobody \/ Close

Next ==
    \/ Serve
    \/ \E c \in Clients : Connect(c) \/ Send(c) \/ HangUp(c) \/ Again(c)

\* The loop in listen never stops by itself.  A client that neither goes on
\* sending nor hangs up would hold the thread for ever: nothing in the code
\* times it out, so that clients do one or the other is assumed.
Spec ==
    /\ Init /\ [][Next]_vars
    /\ WF_vars(Serve)
    /\ \A c \in Clients : WF_vars(Send(c))

-----------------------------------------------------------------------------
TypeOK ==
    /\ peer \in [Clients -> {"idle", "open", "closed"}]
    /\ sent \in [Clients -> Nat] /\ \A c \in Clients : sent[c] <= HeadLen + Body[c]
    /\ backlog \in Seq(Clients) /\ Len(backlog) <= Backlog
    /\ pc \in {"accept", "read", "handle", "write", "close", "killed"}
    /\ (client = Nobody) <=> (pc = "accept")
    /\ client \in Clients \cup {Nobody}
    /\ client \in Clients => got <= sent[client]
    /\ ran \in [Clients -> {"none", "part", "whole"}]
    /\ answered \subseteq Clients

\* A handler works on a truncated request only when its client hung up while
\* sending, and whoever gets an answer gets the one to its whole request, however
\* the network cut it up (http.h:159, read_request_raw).
CutShortOnlyByHangUp ==
    \A c \in Clients :
        /\ ran[c] = "part" => peer[c] = "closed" /\ c \in Quitters
        /\ c \in answered => ran[c] = "whole"

\* Whoever connects and stays is answered, whatever the clients before it do,
\* unless one of them ended the process for all: by hanging up before its answer
\* was written, or by a Content-Length that is no number (http.h:90, listen;
\* http.h:178, read_request_raw).
Served ==
    \A c \in Clients \ Quitters :
        peer[c] = "open" ~>
          (c \in answered \/ (pc = "killed" /\ client \in Quitters \cup Unreadable))
=============================================================================
