----------------------------- MODULE HttpProofs -----------------------------
(***************************************************************************)
(* The safety of the one-threaded server of http.h, for any clients, any   *)
(* backlog and requests of any length.  That a handler meets a truncated   *)
(* request only behind a client that hung up rests on what the thread      *)
(* knows at each point of its loop, and on connections being separate:     *)
(* nothing of an earlier request is left where a new one is read.          *)
(***************************************************************************)
EXTENDS HttpServer, SequenceTheorems, TLAPS

\* A connection is new until its request is handled.
Fresh(c) == c \notin answered /\ ran[c] = "none"

\* Only quitters hang up, and a client without a connection has no answer.
PeersOk ==
    /\ \A c \in Clients : peer[c] = "closed" => c \in Quitters
    /\ \A c \in Clients : peer[c] = "idle" => Fresh(c) /\ c # client

\* Each connection waits once, untouched, and not while it is served.
QueueOk ==
    /\ \A i, j \in 1 .. Len(backlog) : backlog[i] = backlog[j] => i = j
    /\ \A i \in 1 .. Len(backlog) :
         /\ peer[backlog[i]] # "idle" /\ backlog[i] # client
         /\ Fresh(backlog[i])

\* What the thread knows of the connection it serves.
ThreadOk ==
    /\ got \in Nat
    /\ pc \in {"read", "handle"} => Fresh(client)
    /\ pc = "handle" => got = HeadLen + Body[client] \/ peer[client] = "closed"
    /\ pc = "write" => client \notin answered
    /\ pc = "write" /\ peer[client] = "open" => ran[client] = "whole"

HInv == TypeOK /\ PeersOk /\ QueueOk /\ ThreadOk /\ CutShortOnlyByHangUp

USE DEF HInv

-----------------------------------------------------------------------------
LEMMA InitInv == Init => HInv
<1> SUFFICES ASSUME Init PROVE HInv
  OBVIOUS
<1>1. TypeOK
  <2>1. \A c \in Clients : 0 <= HeadLen + Body[c]
    BY RequestAssumption
  <2> QED
    BY <2>1, RequestAssumption, EmptySeq DEF Init, TypeOK
<1>2. PeersOk /\ QueueOk /\ ThreadOk /\ CutShortOnlyByHangUp
  BY RequestAssumption DEF Init, PeersOk, QueueOk, ThreadOk, CutShortOnlyByHangUp, Fresh
<1> QED
  BY <1>1, <1>2

LEMMA ConnectStep == ASSUME HInv, NEW c \in Clients, Connect(c) PROVE HInv'
<1>1. /\ peer[c] = "idle" /\ peer' = [peer EXCEPT ![c] = "open"]
      /\ backlog' = Append(backlog, c) /\ Len(backlog) < Backlog
      /\ UNCHANGED <<sent, pc, client, got, ran, answered>>
  BY DEF Connect, requestVars
<1>2. /\ backlog \in Seq(Clients) /\ Len(backlog) \in Nat
      /\ \A i \in 1 .. Len(backlog) : backlog[i] \in Clients
  BY ElementOfSeq, LenProperties DEF TypeOK
<1>3. /\ backlog' \in Seq(Clients) /\ Len(backlog') = Len(backlog) + 1
      /\ \A i \in 1 .. Len(backlog) : backlog'[i] = backlog[i]
      /\ backlog'[Len(backlog) + 1] = c
  BY <1>1, <1>2, AppendProperties
<1>4. c # client /\ Fresh(c) /\ Fresh(c)'
  BY <1>1 DEF PeersOk, Fresh
<1>5. TypeOK'
  BY <1>1, <1>2, <1>3, RequestAssumption DEF TypeOK
<1>6. PeersOk'
  BY <1>1 DEF PeersOk, Fresh, TypeOK
<1>7. QueueOk'
  <2>1. \A i \in 1 .. Len(backlog) : backlog[i] # c
    BY <1>1 DEF QueueOk
  <2>2. \A i \in 1 .. Len(backlog') :
          i \in 1 .. Len(backlog) \/ i = Len(backlog) + 1
    BY <1>2, <1>3
  <2>3. \A i, j \in 1 .. Len(backlog') : backlog'[i] = backlog'[j] => i = j
    BY <1>2, <1>3, <2>1, <2>2 DEF QueueOk
  <2>4. ASSUME NEW i \in 1 .. Len(backlog')
        PROVE  /\ peer'[backlog'[i]] # "idle" /\ backlog'[i] # client'
               /\ backlog'[i] \notin answered' /\ ran'[backlog'[i]] = "none"
    <3>1. CASE i = Len(backlog) + 1
      BY <1>1, <1>3, <1>4, <3>1 DEF TypeOK, Fresh
    <3>2. CASE i \in 1 .. Len(backlog)
      BY <1>1, <1>2, <1>3, <2>1, <3>2 DEF QueueOk, TypeOK, Fresh
    <3> QED
      BY <2>2, <3>1, <3>2
  <2> QED
    BY <2>3, <2>4 DEF QueueOk, Fresh
<1>8. ThreadOk' /\ CutShortOnlyByHangUp'
  BY <1>1, <1>4 DEF ThreadOk, CutShortOnlyByHangUp, Fresh, TypeOK
<1> QED
  BY <1>5, <1>6, <1>7, <1>8

LEMMA SendStep == ASSUME HInv, NEW c \in Clients, Send(c) PROVE HInv'
<1>1. PICK n \in (sent[c] + 1) .. (HeadLen + Body[c]) : sent' = [sent EXCEPT ![c] = n]
  BY DEF Send
<1>2. UNCHANGED <<peer, backlog, pc, client, got, ran, answered>>
  BY DEF Send, requestVars
<1>3. TypeOK'
  <2>1. sent[c] \in Nat /\ HeadLen + Body[c] \in Nat
    BY RequestAssumption DEF TypeOK
  <2>2. /\ sent' \in [Clients -> Nat]
        /\ \A d \in Clients : sent'[d] <= HeadLen + Body[d] /\ sent[d] <= sent'[d]
    BY <1>1, <2>1, RequestAssumption DEF TypeOK
  <2>3. client \in Clients => got <= sent'[client]
    BY <2>1, <2>2, RequestAssumption DEF TypeOK, ThreadOk
  <2> QED
    BY <1>2, <2>2, <2>3 DEF TypeOK
<1>4. PeersOk' /\ QueueOk' /\ ThreadOk' /\ CutShortOnlyByHangUp'
  BY <1>2 DEF PeersOk, QueueOk, ThreadOk, CutShortOnlyByHangUp, Fresh
<1> QED
  BY <1>3, <1>4

LEMMA HangUpStep == ASSUME HInv, NEW c \in Clients, HangUp(c) PROVE HInv'
<1>1. /\ c \in Quitters /\ peer[c] = "open" /\ peer' = [peer EXCEPT ![c] = "closed"]
      /\ UNCHANGED <<sent, backlog, pc, client, got, ran, answered>>
  BY DEF HangUp, requestVars
<1>2. \A d \in Clients : peer'[d] = IF d = c THEN "closed" ELSE peer[d]
  BY <1>1 DEF TypeOK
<1>3. TypeOK'
  BY <1>1 DEF TypeOK
<1>4. PeersOk'
  BY <1>1, <1>2 DEF PeersOk, Fresh
<1>5. QueueOk'
  BY <1>1, <1>2, ElementOfSeq DEF QueueOk, TypeOK, Fresh
<1>6. ThreadOk' /\ CutShortOnlyByHangUp'
  BY <1>1, <1>2 DEF ThreadOk, CutShortOnlyByHangUp, Fresh, TypeOK
<1> QED
  BY <1>3, <1>4, <1>5, <1>6

\* The client is neither served nor waiting.
LEMMA AgainStep == ASSUME HInv, NEW c \in Clients, Again(c) PROVE HInv'
<1>1. /\ client # c /\ peer' = [peer EXCEPT ![c] = "idle"]
      /\ sent' = [sent EXCEPT ![c] = 0] /\ ran' = [ran EXCEPT ![c] = "none"]
      /\ answered' = answered \ {c}
      /\ UNCHANGED <<backlog, pc, client, got>>
      /\ \A i \in 1 .. Len(backlog) : backlog[i] # c
  BY DEF Again, TypeOK
<1>2. \A d \in Clients \ {c} :
        /\ peer'[d] = peer[d] /\ sent'[d] = sent[d] /\ ran'[d] = ran[d]
        /\ d \in answered' <=> d \in answered
  BY <1>1 DEF TypeOK
<1>3. peer'[c] = "idle" /\ sent'[c] = 0 /\ ran'[c] = "none" /\ c \notin answered'
  BY <1>1, RequestAssumption DEF TypeOK
<1>4. TypeOK'
  <2>1. /\ sent' \in [Clients -> Nat]
        /\ \A d \in Clients : sent'[d] <= HeadLen + Body[d]
    <3>1. \A d \in Clients : 0 <= HeadLen + Body[d]
      BY RequestAssumption
    <3>2. sent' \in [Clients -> Nat]
      BY <1>1 DEF TypeOK
    <3> QED
      BY <1>2, <1>3, <3>1, <3>2 DEF TypeOK
  <2>2. client \in Clients => got <= sent'[client]
    BY <1>1, <1>2 DEF TypeOK
  <2> QED
    BY <1>1, <2>1, <2>2 DEF TypeOK
<1>5. PeersOk'
  BY <1>1, <1>2, <1>3 DEF PeersOk, Fresh
<1>6. QueueOk'
  BY <1>1, <1>2, ElementOfSeq DEF QueueOk, TypeOK, Fresh
<1>7. ThreadOk'
  <2>1. pc # "accept" => client \in Clients
    BY DEF TypeOK
  <2> QED
    BY <1>1, <1>2, <2>1 DEF ThreadOk, Fresh
<1>8. CutShortOnlyByHangUp'
  BY <1>2, <1>3 DEF CutShortOnlyByHangUp
<1> QED
  BY <1>4, <1>5, <1>6, <1>7, <1>8

-----------------------------------------------------------------------------
\* The buffer is a new one and the connection a fresh one.
LEMMA AcceptStep == ASSUME HInv, Accept PROVE HInv'
<1>1. /\ pc = "accept" /\ backlog # <<>> /\ pc' = "read" /\ got' = 0
      /\ client' = backlog[1] /\ backlog' = Tail(backlog)
      /\ UNCHANGED <<peer, sent, ran, answered>>
  BY DEF Accept, clientVars, requestVars
<1>2. /\ backlog \in Seq(Clients) /\ Len(backlog) \in Nat \ {0}
      /\ \A i \in 1 .. Len(backlog) : backlog[i] \in Clients
  BY <1>1, ElementOfSeq, EmptySeq DEF TypeOK
<1>3. /\ backlog' \in Seq(Clients) /\ Len(backlog') = Len(backlog) - 1
      /\ \A i \in 1 .. Len(backlog') : backlog'[i] = backlog[i + 1]
  BY <1>1, <1>2, HeadTailProperties
<1>4. client' \in Clients /\ peer[client'] # "idle" /\ Fresh(client')
  BY <1>1, <1>2 DEF QueueOk
<1>5. TypeOK'
  BY <1>1, <1>2, <1>3, <1>4, RequestAssumption DEF TypeOK
<1>6. PeersOk'
  BY <1>1, <1>4 DEF PeersOk, Fresh
<1>7. QueueOk'
  <2>1. \A i \in 1 .. Len(backlog') : i + 1 \in 1 .. Len(backlog) /\ i + 1 # 1
    BY <1>2, <1>3
  <2>2. \A i \in 1 .. Len(backlog') : backlog[i + 1] # backlog[1]
    BY <1>2, <2>1 DEF QueueOk
  <2>3. \A i, j \in 1 .. Len(backlog') : backlog'[i] = backlog'[j] => i = j
    BY <1>2, <1>3, <2>1 DEF QueueOk
  <2> QED
    BY <1>1, <1>3, <2>1, <2>2, <2>3 DEF QueueOk, Fresh
<1>8. ThreadOk' /\ CutShortOnlyByHangUp'
  BY <1>1, <1>4 DEF ThreadOk, CutShortOnlyByHangUp, Fresh
<1> QED
  BY <1>5, <1>6, <1>7, <1>8

\* The steps of the thread that leave the clients and the queue alone.
LEMMA ServedOnly ==
    ASSUME HInv, UNCHANGED <<peer, sent, backlog, client>>, client \in Clients,
           \A c \in Clients \ {client} :
             ran'[c] = ran[c] /\ (c \in answered' <=> c \in answered)
    PROVE  PeersOk' /\ QueueOk'
<1>1. PeersOk'
  BY DEF PeersOk, Fresh
<1>2. QueueOk'
  BY ElementOfSeq DEF QueueOk, TypeOK, Fresh
<1> QED
  BY <1>1, <1>2

LEMMA ReadStep ==
    ASSUME HInv, Receive \/ RequestRead \/ LengthUnreadable \/ PeerGone
    PROVE  HInv'
<1>1. /\ pc = "read" /\ UNCHANGED <<peer, sent, backlog, client, ran, answered>>
      /\ client \in Clients /\ sent[client] \in 0 .. HeadLen + Body[client]
      /\ HeadLen + Body[client] \in Nat /\ got \in Nat /\ got <= sent[client]
  BY RequestAssumption DEF Receive, RequestRead, LengthUnreadable, PeerGone,
     clientVars, requestVars, TypeOK, ThreadOk
<1>2. PeersOk' /\ QueueOk' /\ CutShortOnlyByHangUp'
  BY <1>1, ServedOnly DEF CutShortOnlyByHangUp
<1>3. CASE Receive
  <2>1. pc' = pc /\ got' \in (got + 1) .. sent[client]
    BY <1>3 DEF Receive
  <2>2. got' \in Nat /\ got' <= sent[client]
    BY <1>1, <2>1
  <2> QED
    BY <1>1, <1>2, <2>1, <2>2 DEF TypeOK, ThreadOk, Fresh
<1>4. CASE RequestRead
  <2>1. pc' = "handle" /\ got' = got /\ got = HeadLen + Body[client]
    BY <1>1, <1>4 DEF RequestRead, Wanted
  <2> QED
    BY <1>1, <1>2, <2>1 DEF TypeOK, ThreadOk, Fresh
<1>5. CASE PeerGone
  <2>1. pc' \in {"close", "handle"} /\ got' = got /\ peer[client] = "closed"
    BY <1>5 DEF PeerGone
  <2> QED
    BY <1>1, <1>2, <2>1 DEF TypeOK, ThreadOk, Fresh
<1>6. CASE LengthUnreadable
  <2>1. pc' = "killed" /\ got' = got
    BY <1>6 DEF LengthUnreadable
  <2> QED
    BY <1>1, <1>2, <2>1 DEF TypeOK, ThreadOk
<1> QED
  BY <1>3, <1>4, <1>5, <1>6

\* A client that is still there has sent, and the thread has read, all of it.
LEMMA HandleStep == ASSUME HInv, Handle PROVE HInv'
<1>1. /\ pc = "handle" /\ pc' = "write"
      /\ UNCHANGED <<peer, sent, backlog, client, got, answered>>
      /\ client \in Clients /\ got \in Nat /\ Fresh(client)
      /\ peer[client] \in {"open", "closed"}
  BY DEF Handle, clientVars, TypeOK, ThreadOk, PeersOk
<1>2. PICK what \in MayRun(client) : ran' = [ran EXCEPT ![client] = what]
  BY DEF Handle
<1>3. what \in {"none", "part", "whole"}
  BY <1>2 DEF MayRun
<1>4. got = HeadLen + Body[client] => what = "whole"
  BY <1>1, <1>2, RequestAssumption DEF MayRun
<1>5. /\ ran'[client] = what
      /\ \A c \in Clients \ {client} : ran'[c] = ran[c]
  BY <1>1, <1>2 DEF TypeOK
<1>6. peer[client] = "open" => what = "whole"
  BY <1>1, <1>4 DEF ThreadOk
<1>7. TypeOK'
  BY <1>1, <1>2, <1>3 DEF TypeOK
<1>8. PeersOk' /\ QueueOk'
  BY <1>1, <1>5, ServedOnly
<1>9. ThreadOk'
  BY <1>1, <1>5, <1>6 DEF ThreadOk, Fresh
<1>10. CutShortOnlyByHangUp'
  <2>1. what = "part" => peer[client] = "closed" /\ client \in Quitters
    BY <1>1, <1>6 DEF PeersOk
  <2> QED
    BY <1>1, <1>5, <2>1 DEF CutShortOnlyByHangUp, Fresh
<1> QED
  BY <1>7, <1>8, <1>9, <1>10

LEMMA AnswerStep ==
    ASSUME HInv, WriteResponse \/ WriteToNobody
    PROVE  HInv'
<1>1. /\ pc = "write" /\ pc' \in {"close", "killed"}
      /\ UNCHANGED <<peer, sent, backlog, client, got, ran>>
      /\ client \in Clients /\ answered' \subseteq answered \cup {client}
      /\ answered \subseteq answered'
      /\ client \in answered' => ran[client] = "whole"
  BY DEF WriteResponse, WriteToNobody, clientVars, requestVars, TypeOK, ThreadOk
<1>2. TypeOK'
  BY <1>1 DEF TypeOK
<1>3. PeersOk' /\ QueueOk'
  BY <1>1, ServedOnly
<1>4. ThreadOk' /\ CutShortOnlyByHangUp'
  BY <1>1 DEF ThreadOk, CutShortOnlyByHangUp
<1> QED
  BY <1>2, <1>3, <1>4

LEMMA CloseStep == ASSUME HInv, Close PROVE HInv'
<1>1. /\ pc' = "accept" /\ client' = Nobody
      /\ UNCHANGED <<peer, sent, backlog, got, ran, answered>>
  BY DEF Close, clientVars, requestVars
<1>2. TypeOK'
  BY <1>1, RequestAssumption DEF TypeOK
<1>3. PeersOk' /\ CutShortOnlyByHangUp' /\ ThreadOk'
  BY <1>1, RequestAssumption DEF PeersOk, CutShortOnlyByHangUp, ThreadOk, Fresh
<1>4. QueueOk'
  <2>1. \A i \in 1 .. Len(backlog) : backlog[i] # Nobody
    BY ElementOfSeq, RequestAssumption DEF TypeOK
  <2> QED
    BY <1>1, <2>1 DEF QueueOk, Fresh
<1> QED
  BY <1>2, <1>3, <1>4

LEMMA StepInv == HInv /\ [Next]_vars => HInv'
<1> SUFFICES ASSUME HInv, [Next]_vars PROVE HInv'
  OBVIOUS
<1>1. CASE Serve
  BY <1>1, AcceptStep, ReadStep, HandleStep, AnswerStep, CloseStep DEF Serve
<1>2. ASSUME NEW c \in Clients, Connect(c) \/ Send(c) \/ HangUp(c) \/ Again(c)
      PROVE  HInv'
  BY <1>2, ConnectStep, SendStep, HangUpStep, AgainStep
<1>3. CASE UNCHANGED vars
  BY <1>3 DEF vars, TypeOK, PeersOk, QueueOk, ThreadOk, CutShortOnlyByHangUp, Fresh
<1> QED
  BY <1>1, <1>2, <1>3 DEF Next

LEMMA InvariantHolds == Spec => []HInv
BY InitInv, StepInv, PTL DEF Spec

-----------------------------------------------------------------------------
\* The thread never reads more than its client has sent, and serves nobody just
\* when it waits in accept.
THEOREM TypeCorrect == Spec => []TypeOK
<1>1. HInv => TypeOK
  OBVIOUS
<1> QED
  BY <1>1, InvariantHolds, PTL

\* However many clients there are, however the network cuts their requests and
\* whoever hangs up: a handler meets a truncated request only behind a client that
\* hung up while sending it, and an answer is the one to the whole request.
THEOREM NobodyElseIsCutShort == Spec => []CutShortOnlyByHangUp
<1>1. HInv => CutShortOnlyByHangUp
  OBVIOUS
<1> QED
  BY <1>1, InvariantHolds, PTL
=============================================================================
