--------------------------- MODULE GetFile_proofs ---------------------------
(***************************************************************************)
(* Proofs about the getfile protocol, for any clients, header, file and    *)
(* buffer lengths, and however the streams are cut into pieces.            *)
(***************************************************************************)
EXTENDS GetFile, SequenceTheorems, TLAPS

Whole == HeaderLength + FileLength

\* Bytes of the response that client c has taken from its connection.
Taken(c) == IF rstatus[c] = "OK" THEN HeaderLength + Len(got[c]) ELSE Len(buf[c])

\* What the client has received of the response and what is under way to it.
Arrived(c) == Taken(c) + Len(down[c])

Sequences == buf \in [Clients -> Seq(Nat)] /\ got \in [Clients -> Seq(Nat)]

\* Of a request, what was read is no more than what was sent.
RequestInOrder ==
    /\ \A c \in Clients : up[c] <= asked[c]
    /\ cur # Nobody => parsed + up[cur] <= asked[cur]

\* The server is with one client, which it serves once; until it has announced a
\* status nothing was sent.
ServerPlaced ==
    /\ spc \in {"request", "handler", "sending", "body", "close"} =>
          cur \in Clients /\ ~ closed[cur]
    /\ spc = "accept" => cur = Nobody
    /\ spc \in {"request", "handler"} => offset = 0
    /\ spc \in {"sending", "body"} => announced[cur] # "none"
    /\ spc = "sending" => ret \in {"body", "close"}

\* A connection holds the response from its beginning: of the client that is
\* served as much as was sent, of those that wait nothing.
Counts ==
    \A c \in Clients :
        /\ Arrived(c) <= Whole
        /\ c = cur => Arrived(c) <= offset
        /\ c = cur /\ ~ gone[c] => Arrived(c) = offset
        /\ c # cur /\ ~ closed[c] => Arrived(c) = 0
        /\ announced[c] = "none" => Arrived(c) = 0

\* Every byte is in its place: in the connection, in the header's buffer, in what
\* the callback got.
InPlace(c) ==
    /\ \A i \in 1 .. Len(down[c]) : down[c][i] = Taken(c) + i
    /\ \A i \in 1 .. Len(buf[c]) : buf[c][i] = i
    /\ \A i \in 1 .. Len(got[c]) :
          got[c][i] = i \/ (i = 1 /\ HeaderLength < Len(buf[c]))

Positions == \A c \in Clients : InPlace(c)

\* What gfc_perform has made of the response.
Outcome(c) ==
    /\ cpc[c] = "body" => rstatus[c] = "OK"
    /\ rstatus[c] = "OK" =>
          /\ cpc[c] \in {"body", "done", "dead", "silent"}
          /\ announced[c] = "OK"
          /\ fileLen[c] = FileLength
          /\ HeaderComplete(c)
    /\ rstatus[c] # "OK" => got[c] = <<>>
    /\ cpc[c] = "done" /\ rc[c] = -1 /\ rstatus[c] = "OK" => Len(got[c]) < FileLength
    /\ cpc[c] \in {"start", "send"} => buf[c] = <<>>
    /\ cpc[c] = "done" /\ rc[c] = -1 /\ rstatus[c] # "OK" => ~ HeaderComplete(c)
    /\ rc[c] = 0 =>
          /\ cpc[c] = "done"
          /\ HeaderComplete(c)
          /\ rstatus[c] = announced[c]
          /\ announced[c] = "OK" => Len(got[c]) = FileLength

Outcomes == \A c \in Clients : Outcome(c)

IInv ==
    TypeOK /\ Sequences /\ RequestInOrder /\ ServerPlaced /\ Counts /\ Positions /\ Outcomes
-----------------------------------------------------------------------------
(* Pieces of sequences.                                                    *)

LEMMA Front ==
  ASSUME NEW S, NEW t \in Seq(S), NEW k \in 1 .. Len(t)
  PROVE  /\ SubSeq(t, 1, k) \in Seq(S) /\ Len(SubSeq(t, 1, k)) = k
         /\ \A i \in 1 .. k : SubSeq(t, 1, k)[i] = t[i]
  OBVIOUS

LEMMA Remainder ==
  ASSUME NEW S, NEW t \in Seq(S), NEW k \in 1 .. Len(t)
  PROVE  /\ SubSeq(t, k + 1, Len(t)) \in Seq(S)
         /\ Len(SubSeq(t, k + 1, Len(t))) = Len(t) - k
         /\ \A i \in 1 .. Len(t) - k : SubSeq(t, k + 1, Len(t))[i] = t[k + i]
  OBVIOUS

LEMMA Joined ==
  ASSUME NEW S, NEW s \in Seq(S), NEW t \in Seq(S)
  PROVE  /\ s \o t \in Seq(S) /\ Len(s \o t) = Len(s) + Len(t)
         /\ \A i \in 1 .. Len(s) : (s \o t)[i] = s[i]
         /\ \A i \in 1 .. Len(t) : (s \o t)[Len(s) + i] = t[i]
  OBVIOUS

LEMMA Widen ==
  ASSUME NEW S, NEW T, S \subseteq T, NEW t \in Seq(S)
  PROVE  t \in Seq(T)
  OBVIOUS

LEMMA FromFunction ==
  ASSUME NEW S, NEW n \in Nat, NEW f, f \in [1 .. n -> S]
  PROVE  f \in Seq(S) /\ Len(f) = n
  OBVIOUS

LEMMA LongerNumbers ==
  ASSUME NEW S, NEW s \in Seq(S)
  PROVE  Len(s) \in Nat
  OBVIOUS

LEMMA Lengths ==
  /\ HeaderLength \in Nat /\ 0 < HeaderLength /\ FileLength \in Nat /\ Whole \in Nat
  /\ HeaderBuffer \in Nat /\ BodyBuffer \in Nat /\ SocketBuffer \in Nat
BY GetFileAssumption DEF Whole

LEMMA AllOf ==
  ASSUME NEW S, NEW t \in Seq(S)
  PROVE  SubSeq(t, 1, Len(t)) = t
  OBVIOUS

LEMMA Numbered ==
  ASSUME NEW n \in Nat, NEW f, f = [i \in 1 .. n |-> IF i = 1 THEN 0 ELSE i]
  PROVE  f \in Seq(Nat) /\ Len(f) = n /\ \A i \in 1 .. n : f[i] = i \/ i = 1
<1>1. f \in [1 .. n -> Nat] /\ \A i \in 1 .. n : f[i] = i \/ i = 1
  OBVIOUS
<1> QED
  BY <1>1, FromFunction

\* What gfc_perform writes of the bytes that came with the header: all of them, as
\* they are no more than the body.
LEMMA WithHeader ==
  ASSUME NEW s, NEW l \in Nat, l = Len(s), HeaderLength <= l, l <= Whole,
         NEW rest, rest = [i \in 1 .. Len(s) - HeaderLength |->
                            IF i = 1 THEN Zeroed ELSE s[HeaderLength + i] - HeaderLength],
         \A i \in 1 .. l : s[i] = i
  PROVE  /\ SubSeq(rest, 1, Smaller(Len(rest), FileLength)) \in Seq(Nat)
         /\ Len(SubSeq(rest, 1, Smaller(Len(rest), FileLength))) = l - HeaderLength
         /\ \A i \in 1 .. l - HeaderLength :
               SubSeq(rest, 1, Smaller(Len(rest), FileLength))[i] = i \/ i = 1
<1> DEFINE n == l - HeaderLength
<1>1. n \in Nat /\ n <= FileLength
  BY Lengths DEF Whole
<1>2. \A i \in 1 .. n : HeaderLength + i \in 1 .. l
  BY Lengths
<1>3. \A i \in 1 .. n : s[HeaderLength + i] = HeaderLength + i
  BY <1>2
<1>4. rest = [i \in 1 .. n |-> IF i = 1 THEN 0 ELSE s[HeaderLength + i] - HeaderLength]
  BY DEF Zeroed
<1>5. \A i \in 1 .. n : s[HeaderLength + i] - HeaderLength = i
  BY <1>3, Lengths
<1>6. rest = [i \in 1 .. n |-> IF i = 1 THEN 0 ELSE i]
  BY <1>4, <1>5
<1> HIDE DEF n
<1>7. rest \in Seq(Nat) /\ Len(rest) = n /\ \A i \in 1 .. n : rest[i] = i \/ i = 1
  BY <1>1, <1>6, Numbered
<1>8. Smaller(Len(rest), FileLength) = Len(rest)
  BY <1>1, <1>7, Lengths DEF Smaller
<1>9. SubSeq(rest, 1, Len(rest)) = rest
  BY <1>7, AllOf
<1> QED
  BY <1>7, <1>8, <1>9 DEF n

-----------------------------------------------------------------------------
(* The initial state, and what the types say.                              *)

\* The types without the lengths of the sequences, and the sequences.
Scalars ==
    /\ path \in [Clients -> Paths]
    /\ cpc \in [Clients -> {"start", "send", "header", "body",
                         "done", "dead", "silent"}]
    /\ up \in [Clients -> 0 .. HeaderLength]
    /\ asked \in [Clients -> 0 .. HeaderLength]
    /\ gone \in [Clients -> BOOLEAN] /\ closed \in [Clients -> BOOLEAN]
    /\ announced \in [Clients -> Statuses \cup {"none"}]
    /\ rstatus \in [Clients -> Statuses]
    /\ rc \in [Clients -> {0, -1}]
    /\ fileLen \in [Clients -> {0, FileLength}]
    /\ spc \in {"accept", "request", "handler", "sending", "body", "close", "killed"}
    /\ cur \in Clients \cup {Nobody}
    /\ parsed \in 0 .. HeaderLength
    /\ offset \in 0 .. HeaderLength + FileLength
    /\ chunk \in 0 .. HeaderLength + FileLength - offset
    /\ ret \in {"accept", "body", "close"}

Fits(c) ==
    /\ Len(down[c]) <= SocketBuffer
    /\ Len(buf[c]) <= HeaderBuffer
    /\ Len(got[c]) <= fileLen[c]

Streams ==
    /\ Sequences
    /\ down \in [Clients -> Seq(1 .. Whole)]
    /\ \A c \in Clients : Fits(c)

LEMMA TypesSplit == (TypeOK /\ Sequences) <=> (Scalars /\ Streams)
<1>1. (\A c \in Clients : Fits(c)) <=>
        /\ \A c \in Clients : Len(down[c]) <= SocketBuffer
        /\ \A c \in Clients : Len(buf[c]) <= HeaderBuffer
        /\ \A c \in Clients : Len(got[c]) <= fileLen[c]
  BY Zenon DEF Fits
<1>2. TypeOK => Scalars
  BY DEF TypeOK, Scalars
<1>3. TypeOK /\ Sequences => Streams
  BY <1>1, Zenon DEF TypeOK, Streams, Whole
<1>4. Scalars /\ Streams => TypeOK /\ Sequences
  <2> SUFFICES ASSUME Scalars, Streams
               PROVE  TypeOK
    BY Zenon DEF Streams
  <2>1. /\ \A c \in Clients : Len(down[c]) <= SocketBuffer
        /\ \A c \in Clients : Len(buf[c]) <= HeaderBuffer
        /\ \A c \in Clients : Len(got[c]) <= fileLen[c]
    BY <1>1, Zenon DEF Streams
  <2>2. down \in [Clients -> Seq(1 .. Whole)]
    BY Zenon DEF Streams
  <2> QED
    BY <2>1, <2>2 DEF TypeOK, Scalars, Whole
<1> QED
  BY <1>2, <1>3, <1>4, Zenon

LEMMA InitInv == Init => IInv
<1> SUFFICES ASSUME Init
             PROVE  IInv
  OBVIOUS
<1>1. /\ \A c \in Clients : buf[c] = <<>> /\ got[c] = <<>> /\ down[c] = <<>>
      /\ buf \in [Clients -> Seq(Nat)] /\ got \in [Clients -> Seq(Nat)]
      /\ down \in [Clients -> Seq(1 .. Whole)]
  BY DEF Init
<1>2. \A c \in Clients : Len(buf[c]) = 0 /\ Len(got[c]) = 0 /\ Len(down[c]) = 0
  <2>1. Len(<<>>) = 0
    OBVIOUS
  <2> QED
    BY <1>1, <2>1, Zenon
<1>3. Scalars
  BY Lengths DEF Init, Scalars, Statuses
<1>4. Streams
  <2>1. \A c \in Clients : fileLen[c] = 0
    BY DEF Init
  <2> QED
    BY <1>1, <1>2, <2>1, Lengths DEF Streams, Sequences, Fits
<1>5. RequestInOrder /\ ServerPlaced
  BY DEF Init, RequestInOrder, ServerPlaced
<1>a. \A c \in Clients : rstatus[c] = "INVALID" /\ rc[c] = -1 /\ cpc[c] = "start"
  BY DEF Init
<1>b. ASSUME NEW c \in Clients
      PROVE  Taken(c) = 0 /\ Arrived(c) = 0
  <2>1. Len(buf[c]) = 0 /\ Len(down[c]) = 0 /\ rstatus[c] = "INVALID"
    BY <1>2, <1>a
  <2> QED
    BY <2>1 DEF Arrived, Taken
<1>c. cur \notin Clients
  BY GetFileAssumption DEF Init
<1>6. Counts
  <2>1. 0 <= Whole
    BY Lengths
  <2>2. \A c \in Clients : c # cur
    BY <1>c
  <2> QED
    BY <1>b, <2>1, <2>2, Zenon DEF Counts
<1>7. Positions
  <2>1. 1 .. 0 = {}
    OBVIOUS
  <2> QED
    BY <1>2, <2>1, Zenon DEF Positions, InPlace
<1>8. Outcomes
  <2>1. "INVALID" # "OK" /\ -1 # 0 /\ "start" # "body" /\ "start" # "done"
    OBVIOUS
  <2> QED
    BY <1>1, <1>a, <2>1, Zenon DEF Outcomes, Outcome
<1> QED
  BY <1>3, <1>4, <1>5, <1>6, <1>7, <1>8, TypesSplit DEF IInv

\* The numbers of a client that the proofs calculate with.
LEMMA Numbers ==
  ASSUME TypeOK, Sequences, NEW c \in Clients
  PROVE  /\ buf[c] \in Seq(Nat) /\ got[c] \in Seq(Nat) /\ down[c] \in Seq(1 .. Whole)
         /\ Len(buf[c]) \in Nat /\ Len(got[c]) \in Nat /\ Len(down[c]) \in Nat
         /\ Taken(c) \in Nat
         /\ Arrived(c) = Taken(c) + Len(down[c])
<1>1. buf[c] \in Seq(Nat) /\ got[c] \in Seq(Nat)
  BY DEF Sequences
<1>2. down[c] \in Seq(1 .. Whole)
  BY TypesSplit DEF Streams
<1>3. Len(buf[c]) \in Nat /\ Len(got[c]) \in Nat /\ Len(down[c]) \in Nat
  BY <1>1, <1>2, LongerNumbers
<1>4. Taken(c) \in Nat
  BY <1>3, Lengths DEF Taken
<1> QED
  BY <1>1, <1>2, <1>3, <1>4 DEF Arrived
\* A whole header in the client's buffer was announced and sent.
LEMMA HeaderSeen ==
  ASSUME IInv, NEW c \in Clients, HeaderComplete(c) \/ rstatus[c] = "OK"
  PROVE  /\ 0 < Arrived(c)
         /\ announced[c] # "none"
         /\ c = cur => 0 < offset
<1>1. Len(buf[c]) \in Nat /\ Len(got[c]) \in Nat /\ Len(down[c]) \in Nat
      /\ Taken(c) \in Nat /\ Arrived(c) = Taken(c) + Len(down[c])
  BY Numbers DEF IInv
<1>2. 0 < Taken(c)
  BY <1>1, Lengths DEF Taken, HeaderComplete
<1>3. 0 < Arrived(c)
  BY <1>1, <1>2
<1>4. announced[c] = "none" => Arrived(c) = 0
  BY DEF IInv, Counts
<1>5. c = cur => Arrived(c) <= offset
  BY DEF IInv, Counts
<1>6. offset \in Nat
  BY Lengths DEF IInv, TypeOK
<1> QED
  BY <1>1, <1>3, <1>4, <1>5, <1>6

-----------------------------------------------------------------------------
(* Types.                                                                  *)

LEMMA ScalarsStep ==
  ASSUME IInv, [Next]_vars
  PROVE  Scalars' /\ RequestInOrder'
<1>0. Scalars
  BY TypesSplit DEF IInv
<1>r. RequestInOrder
  BY DEF IInv
<1>s. /\ spc \in {"request", "handler", "sending", "body", "close"} => cur \in Clients
      /\ spc = "accept" => cur = Nobody
      /\ spc \in {"request", "handler"} => offset = 0
  BY DEF IInv, ServerPlaced
<1>n. Nobody \notin Clients
  BY GetFileAssumption
<1> USE DEF Scalars, RequestInOrder
<1>1. ASSUME NEW c \in Clients,
             Connect(c) \/ SendRequestFails(c) \/ HeaderEnds(c) \/ BodyComplete(c) \/ BodyEnds(c)
      PROVE  Scalars' /\ RequestInOrder'
  <2>1. CASE Connect(c)
    BY <1>0, <1>r, <2>1 DEF Connect, Finish, server, Statuses
  <2>2. CASE SendRequestFails(c)
    BY <1>0, <1>r, <2>2 DEF SendRequestFails, Finish, server, Statuses
  <2>3. CASE HeaderEnds(c)
    <3>1. PICK s \in Statuses : Finish(c, -1, s)
      BY <2>3 DEF HeaderEnds, Statuses
    <3>2. UNCHANGED <<path, asked, buf, got, fileLen, up, down, server>>
      BY <2>3 DEF HeaderEnds
    <3> QED
      BY <1>0, <1>r, <3>1, <3>2 DEF Finish, server
  <2>4. CASE BodyComplete(c)
    BY <1>0, <1>r, <2>4 DEF BodyComplete, Finish, server, Statuses
  <2>5. CASE BodyEnds(c)
    BY <1>0, <1>r, <2>5 DEF BodyEnds, Finish, server, Statuses
  <2> QED
    BY <1>1, <2>1, <2>2, <2>3, <2>4, <2>5
<1>2. ASSUME NEW c \in Clients, NEW k \in 1 .. HeaderLength - asked[c], SendRequest(c, k)
      PROVE  Scalars' /\ RequestInOrder'
  <2>1. asked[c] \in Nat /\ up[c] \in Nat /\ k \in Nat /\ asked[c] + k <= HeaderLength
    BY <1>0, <1>2, Lengths
  <2>2. up[c] + k \in 0 .. HeaderLength /\ asked[c] + k \in 0 .. HeaderLength
        /\ up[c] + k <= asked[c] + k
    BY <1>r, <2>1, Lengths
  <2>3. Scalars'
    BY <1>0, <1>2, <2>2 DEF SendRequest, server
  <2>4. \A d \in Clients : up'[d] <= asked'[d]
    BY <1>0, <1>2, <1>r, <2>2 DEF SendRequest
  <2>5. cur # Nobody => parsed' + up'[cur] <= asked'[cur]
    BY <1>0, <1>2, <1>r, <2>1, Lengths DEF SendRequest, server
  <2>6. cur' = cur
    BY <1>2 DEF SendRequest, server
  <2> QED
    BY <2>3, <2>4, <2>5, <2>6
<1>3. ASSUME NEW c \in Clients, NEW k \in 1 .. Len(down[c]), RecvHeader(c, k) \/ RecvBody(c, k)
      PROVE  Scalars' /\ RequestInOrder'
  <2>1. UNCHANGED <<path, cpc, asked, rstatus, rc, fileLen, up, gone, server>>
    BY <1>3 DEF RecvHeader, RecvBody
  <2> QED
    BY <1>0, <1>r, <2>1 DEF server
<1>4. ASSUME NEW c \in Clients, ParseRefusal(c) \/ ParseOk(c)
      PROVE  Scalars' /\ RequestInOrder'
  <2>1. announced[c] # "none"
    BY <1>4, HeaderSeen DEF ParseRefusal, ParseOk
  <2>2. announced[c] \in Statuses
    BY <1>0, <2>1
  <2> QED
    BY <1>0, <1>4, <1>r, <2>2 DEF ParseRefusal, ParseOk, Finish, server, Statuses
<1>5. ASSUME NEW c \in Clients, Die(c) \/ Stall(c)
      PROVE  Scalars' /\ RequestInOrder'
  BY <1>0, <1>5, <1>r DEF Die, Stall, server
<1>6. ASSUME NEW c \in Clients, Accept(c)
      PROVE  Scalars' /\ RequestInOrder'
  <2>1. chunk \in 0 .. HeaderLength + FileLength - 0
    BY <1>0, Lengths
  <2>2. 0 + up[c] <= asked[c]
    BY <1>0, <1>r, Lengths
  <2> QED
    BY <1>0, <1>6, <1>r, <2>1, <2>2, Lengths DEF Accept, client
<1>7. ASSUME NEW k \in 1 .. (IF cur = Nobody THEN 0 ELSE up[cur]), RecvRequest(k)
      PROVE  Scalars' /\ RequestInOrder'
  <2>1. cur \in Clients /\ k \in 1 .. up[cur]
    BY <1>7, <1>s, <1>n DEF RecvRequest
  <2>2. up[cur] - k \in 0 .. HeaderLength /\ parsed + k \in 0 .. HeaderLength
        /\ parsed + k + (up[cur] - k) = parsed + up[cur] /\ up[cur] - k <= up[cur]
    BY <1>0, <1>r, <1>n, <2>1, Lengths
  <2>3. /\ UNCHANGED <<client, spc, cur, offset, chunk, ret, closed, announced, gone>>
        /\ up' = [up EXCEPT ![cur] = up[cur] - k] /\ parsed' = parsed + k
    BY <1>7 DEF RecvRequest
  <2>4. Scalars'
    BY <1>0, <2>1, <2>2, <2>3 DEF client
  <2>5. \A d \in Clients : up'[d] <= asked'[d]
    BY <1>0, <1>r, <2>1, <2>2, <2>3, Lengths DEF client
  <2>6. parsed' + up'[cur] <= asked'[cur]
    BY <1>0, <1>r, <1>n, <2>1, <2>2, <2>3 DEF client
  <2> QED
    BY <2>3, <2>4, <2>5, <2>6
<1>8. ASSUME NEW k \in 1 .. chunk, SendPiece(k)
      PROVE  Scalars' /\ RequestInOrder'
  <2>1. offset + k \in 0 .. HeaderLength + FileLength
        /\ chunk - k \in 0 .. HeaderLength + FileLength - (offset + k)
    BY <1>0, Lengths
  <2> QED
    BY <1>0, <1>8, <1>r, <2>1 DEF SendPiece, client
<1>9. CASE SendFails
  <2>1. 0 \in 0 .. HeaderLength + FileLength - offset
    BY <1>0, Lengths
  <2> QED
    BY <1>0, <1>9, <1>r, <2>1 DEF SendFails, client
<1>10. CASE RefuseInvalid \/ HandlerRefuses \/ HandlerAnnounces
  <2>1. PICK status \in Statuses, next \in {"body", "close"} :
           SendHeader(status, next) /\ cur \in Clients /\ offset = 0
    BY <1>10, <1>s DEF RefuseInvalid, HandlerRefuses, HandlerAnnounces, Statuses
  <2>2. HeaderLength \in 0 .. HeaderLength + FileLength - offset
    BY <2>1, Lengths
  <2> QED
    BY <1>0, <1>r, <2>1, <2>2 DEF SendHeader, BeginSend, client
<1>11. ASSUME NEW k \in 1 .. FileLength, HandlerSends(k)
       PROVE  Scalars' /\ RequestInOrder'
  <2>1. k \in 0 .. HeaderLength + FileLength - offset
    BY <1>0, <1>11, Lengths DEF HandlerSends
  <2> QED
    BY <1>0, <1>11, <1>r, <2>1 DEF HandlerSends, BeginSend, client
<1>12. CASE CallHandler \/ HandlerReturns \/ Close
  BY <1>0, <1>12, <1>r DEF CallHandler, HandlerReturns, Close, client
<1>13. CASE Idle \/ UNCHANGED vars
  BY <1>0, <1>13, <1>r DEF Idle, vars, client, server
<1> QED
  BY <1>1, <1>2, <1>3, <1>4, <1>5, <1>6, <1>7, <1>8, <1>9, <1>10, <1>11, <1>12, <1>13
  DEF Next, ClientStep, ServerStep

LEMMA ServerPlacedStep ==
  ASSUME IInv, [Next]_vars
  PROVE  ServerPlaced'
<1>0. /\ ServerPlaced /\ cur \in Clients \cup {Nobody} /\ Nobody \notin Clients
      /\ announced \in [Clients -> Statuses \cup {"none"}]
      /\ closed \in [Clients -> BOOLEAN]
      /\ offset \in Nat /\ ret \in {"accept", "body", "close"}
  BY GetFileAssumption, Lengths DEF IInv, TypeOK
<1> USE DEF ServerPlaced
<1>1. ASSUME NEW c \in Clients, ClientStep(c) \/ Die(c) \/ Stall(c)
      PROVE  ServerPlaced'
  <2>1. UNCHANGED server
    BY <1>1 DEF ClientStep, Connect, SendRequestFails, SendRequest, RecvHeader, RecvBody,
         HeaderEnds, ParseRefusal, ParseOk, BodyComplete, BodyEnds, Die, Stall
  <2> QED
    BY <1>0, <2>1 DEF server
<1>2. ASSUME NEW c \in Clients, Accept(c)
      PROVE  ServerPlaced'
  BY <1>0, <1>2 DEF Accept, Pending
<1>3. ASSUME NEW k, RecvRequest(k) \/ SendPiece(k)
      PROVE  ServerPlaced'
  <2>1. CASE RecvRequest(k)
    BY <1>0, <2>1 DEF RecvRequest
  <2>2. CASE SendPiece(k)
    <3>1. spc' \in {"body", "close", "sending"}
      BY <1>0, <2>2 DEF SendPiece
    <3>2. UNCHANGED <<cur, closed, announced, ret>> /\ cur \in Clients /\ ~ closed[cur]
          /\ announced[cur] # "none" /\ spc = "sending"
      BY <1>0, <2>2 DEF SendPiece
    <3> QED
      BY <1>0, <2>2, <3>1, <3>2 DEF SendPiece
  <2> QED
    BY <1>3, <2>1, <2>2
<1>4. CASE SendFails
  BY <1>0, <1>4 DEF SendFails
<1>5. CASE RefuseInvalid \/ HandlerRefuses \/ HandlerAnnounces
  BY <1>0, <1>5 DEF RefuseInvalid, HandlerRefuses, HandlerAnnounces, SendHeader, BeginSend
<1>6. ASSUME NEW k, HandlerSends(k)
      PROVE  ServerPlaced'
  BY <1>0, <1>6 DEF HandlerSends, BeginSend
<1>7. CASE CallHandler \/ HandlerReturns \/ Close
  BY <1>0, <1>7 DEF CallHandler, HandlerReturns, Close
<1>8. CASE Idle \/ UNCHANGED vars
  BY <1>0, <1>8 DEF Idle, vars, server
<1> QED
  BY <1>1, <1>2, <1>3, <1>4, <1>5, <1>6, <1>7, <1>8 DEF Next, ServerStep
-----------------------------------------------------------------------------
(* What a step does to the streams.                                        *)

\* A client that a step leaves alone has taken what it had.
LEMMA TakenKept ==
  ASSUME NEW c, buf'[c] = buf[c], got'[c] = got[c], rstatus'[c] = "OK" <=> rstatus[c] = "OK"
  PROVE  /\ Taken(c)' = Taken(c)
         /\ down'[c] = down[c] => Arrived(c)' = Arrived(c)
BY DEF Taken, Arrived

\* The steps that move no byte.
LEMMA QuietEffect ==
  ASSUME IInv,
         \/ \E c \in Clients :
              \/ Connect(c) \/ SendRequestFails(c) \/ HeaderEnds(c) \/ ParseRefusal(c)
              \/ BodyComplete(c) \/ BodyEnds(c) \/ Die(c) \/ Stall(c) \/ Accept(c)
              \/ \E k \in Nat : SendRequest(c, k)
         \/ \E k \in Nat : RecvRequest(k) \/ HandlerSends(k)
         \/ SendFails \/ RefuseInvalid \/ CallHandler \/ HandlerRefuses
         \/ HandlerAnnounces \/ HandlerReturns \/ Close \/ Idle \/ UNCHANGED vars
  PROVE  /\ UNCHANGED <<buf, got, down, fileLen>>
         /\ \A c \in Clients : rstatus'[c] = "OK" <=> rstatus[c] = "OK"
<1>0. /\ rstatus \in [Clients -> Statuses]
      /\ \A c \in Clients :
            /\ cpc[c] = "body" => rstatus[c] = "OK"
            /\ cpc[c] \notin {"body", "done", "dead", "silent"} => rstatus[c] # "OK"
  BY DEF IInv, TypeOK, Outcomes, Outcome
<1>1. ASSUME NEW c \in Clients,
             \/ Connect(c) \/ SendRequestFails(c) \/ HeaderEnds(c) \/ ParseRefusal(c)
             \/ BodyComplete(c) \/ BodyEnds(c) \/ Die(c) \/ Stall(c) \/ Accept(c)
             \/ \E k \in Nat : SendRequest(c, k)
      PROVE  /\ UNCHANGED <<buf, got, down, fileLen>>
             /\ \A d \in Clients : rstatus'[d] = "OK" <=> rstatus[d] = "OK"
  BY <1>0, <1>1 DEF Connect, SendRequestFails, HeaderEnds, ParseRefusal, BodyComplete, BodyEnds,
       Die, Stall, Accept, SendRequest, Finish, client, server
<1>2. ASSUME NEW k \in Nat, RecvRequest(k) \/ HandlerSends(k)
      PROVE  UNCHANGED <<buf, got, down, fileLen, rstatus>>
  BY <1>2 DEF RecvRequest, HandlerSends, BeginSend, client
<1>3. CASE \/ SendFails \/ RefuseInvalid \/ CallHandler \/ HandlerRefuses
           \/ HandlerAnnounces \/ HandlerReturns \/ Close \/ Idle \/ UNCHANGED vars
  <2>1. UNCHANGED <<buf, got, down, fileLen, rstatus>>
    BY <1>3 DEF SendFails, RefuseInvalid, CallHandler, HandlerRefuses, HandlerAnnounces,
         HandlerReturns, Close, Idle, vars, SendHeader, BeginSend, client
  <2> QED
    BY <2>1
<1> QED
  BY <1>1, <1>2, <1>3

\* The streams and places of one client.
Holds(c) == Fits(c) /\ InPlace(c)

\* A client that a step leaves alone.
LEMMA HoldsKept ==
  ASSUME NEW c \in Clients, Holds(c), buf'[c] = buf[c], got'[c] = got[c], down'[c] = down[c],
         fileLen'[c] = fileLen[c], rstatus'[c] = "OK" <=> rstatus[c] = "OK"
  PROVE  Holds(c)'
<1>1. Taken(c)' = Taken(c)
  BY TakenKept
<1>2. Fits(c)'
  BY DEF Holds, Fits
<1>3. InPlace(c)'
  BY <1>1 DEF Holds, InPlace
<1> QED
  BY <1>2, <1>3 DEF Holds

\* recv of header bytes: they go to the end of the buffer.
LEMMA RecvHeaderEffect ==
  ASSUME IInv, NEW c \in Clients, NEW k \in 1 .. Len(down[c]), RecvHeader(c, k)
  PROVE  /\ buf'[c] \in Seq(Nat) /\ down'[c] \in Seq(1 .. Whole)
         /\ buf' = [buf EXCEPT ![c] = buf'[c]] /\ down' = [down EXCEPT ![c] = down'[c]]
         /\ UNCHANGED <<got, rstatus, fileLen>>
         /\ Len(buf[c]) <= Len(buf'[c])
         /\ Arrived(c)' = Arrived(c)
         /\ Holds(c)'
<1>1. /\ buf[c] \in Seq(Nat) /\ down[c] \in Seq(1 .. Whole)
      /\ Len(buf[c]) \in Nat /\ Len(down[c]) \in Nat
      /\ buf \in [Clients -> Seq(Nat)] /\ down \in [Clients -> Seq(1 .. Whole)]
  BY Numbers, TypesSplit DEF IInv, Sequences, Streams
<1>2. /\ buf'[c] = buf[c] \o SubSeq(down[c], 1, k)
      /\ down'[c] = SubSeq(down[c], k + 1, Len(down[c]))
      /\ buf' = [buf EXCEPT ![c] = buf'[c]] /\ down' = [down EXCEPT ![c] = down'[c]]
      /\ UNCHANGED <<got, rstatus, fileLen>>
      /\ k <= HeaderBuffer - Len(buf[c])
  <2>1. /\ buf' = [buf EXCEPT ![c] = @ \o SubSeq(down[c], 1, k)]
        /\ down' = [down EXCEPT ![c] = SubSeq(@, k + 1, Len(@))]
        /\ UNCHANGED <<got, rstatus, fileLen>>
        /\ k <= HeaderBuffer - Len(buf[c])
    BY DEF RecvHeader
  <2> QED
    BY <1>1, <2>1, Zenon
<1>3. rstatus[c] # "OK" /\ got[c] = <<>>
  BY DEF RecvHeader, IInv, Outcomes, Outcome
<1>4. Taken(c) = Len(buf[c]) /\ Taken(c)' = Len(buf'[c])
  BY <1>2, <1>3 DEF Taken
<1>5. down[c] \in Seq(Nat)
  <2>1. 1 .. Whole \subseteq Nat
    BY Lengths
  <2> QED
    BY <1>1, <2>1, Widen
<1>6. /\ SubSeq(down[c], 1, k) \in Seq(Nat) /\ Len(SubSeq(down[c], 1, k)) = k
      /\ \A i \in 1 .. k : SubSeq(down[c], 1, k)[i] = down[c][i]
  BY <1>5, Front
<1>7. /\ down'[c] \in Seq(1 .. Whole) /\ Len(down'[c]) = Len(down[c]) - k
      /\ \A i \in 1 .. Len(down[c]) - k : down'[c][i] = down[c][k + i]
  <2>1. down'[c] = SubSeq(down[c], k + 1, Len(down[c]))
    BY <1>2
  <2>2. /\ SubSeq(down[c], k + 1, Len(down[c])) \in Seq(1 .. Whole)
        /\ Len(SubSeq(down[c], k + 1, Len(down[c]))) = Len(down[c]) - k
        /\ \A i \in 1 .. Len(down[c]) - k :
              SubSeq(down[c], k + 1, Len(down[c]))[i] = down[c][k + i]
    BY <1>1, Remainder, Zenon
  <2> QED
    BY <2>1, <2>2, Zenon
<1>8. /\ buf'[c] \in Seq(Nat) /\ Len(buf'[c]) = Len(buf[c]) + k
      /\ \A i \in 1 .. Len(buf[c]) : buf'[c][i] = buf[c][i]
      /\ \A i \in 1 .. k : buf'[c][Len(buf[c]) + i] = down[c][i]
  BY <1>1, <1>2, <1>6, Joined
<1>9. Arrived(c)' = Arrived(c)
  BY <1>1, <1>4, <1>7, <1>8 DEF Arrived
<1>10. /\ \A i \in 1 .. Len(down[c]) : down[c][i] = Len(buf[c]) + i
       /\ \A i \in 1 .. Len(buf[c]) : buf[c][i] = i
       /\ Fits(c)
  BY <1>4, TypesSplit DEF IInv, Positions, InPlace, Streams
<1> DEFINE b == Len(buf[c])
           d == Len(down[c])
<1>11. /\ b \in Nat /\ d \in Nat /\ k \in 1 .. d
       /\ Len(buf'[c]) = b + k /\ Len(down'[c]) = d - k
  BY <1>1, <1>7, <1>8
<1>12. \A i \in 1 .. d : down[c][i] = b + i
  BY <1>10
<1>13. \A i \in 1 .. d - k : down'[c][i] = down[c][k + i]
  BY <1>7
<1>14. /\ \A i \in 1 .. b : buf'[c][i] = i
       /\ \A i \in 1 .. k : buf'[c][b + i] = b + i
  <2>1. \A i \in 1 .. b : buf'[c][i] = buf[c][i] /\ buf[c][i] = i
    BY <1>8, <1>10
  <2>2. \A i \in 1 .. k : i \in 1 .. d /\ buf'[c][b + i] = down[c][i]
    <3>1. \A i \in 1 .. k : i \in 1 .. d
      BY <1>11
    <3> QED
      BY <1>8, <3>1, Zenon
  <2> QED
    BY <1>12, <2>1, <2>2
<1> HIDE DEF b, d
<1>15. \A i \in 1 .. d - k : down'[c][i] = b + k + i
  <2>1. \A i \in 1 .. d - k : k + i \in 1 .. d
    BY <1>11
  <2> QED
    BY <1>11, <1>12, <1>13, <2>1
<1>16. \A i \in 1 .. b + k : buf'[c][i] = i
  <2>1. \A i \in 1 .. b + k : i \in 1 .. b \/ (i - b \in 1 .. k /\ i = b + (i - b))
    BY <1>11
  <2> QED
    BY <1>14, <2>1
<1>17. InPlace(c)'
  <2>1. \A i \in 1 .. Len(got'[c]) : FALSE
    BY <1>2, <1>3
  <2>2. Taken(c)' = b + k
    BY <1>4, <1>11
  <2> QED
    BY <1>11, <1>15, <1>16, <2>1, <2>2, Zenon DEF InPlace
<1>18. Fits(c)'
  <2>1. Len(buf'[c]) <= HeaderBuffer
    BY <1>2, <1>11, Lengths DEF b
  <2>2. Len(down'[c]) <= SocketBuffer
    BY <1>10, <1>11, Lengths DEF d, Fits
  <2> QED
    BY <1>2, <1>10, <2>1, <2>2 DEF Fits
<1>19. Len(buf[c]) <= Len(buf'[c])
  BY <1>1, <1>8
<1>20. Holds(c)'
  BY <1>17, <1>18 DEF Holds
<1> QED
  BY <1>2, <1>7, <1>8, <1>9, <1>19, <1>20, Zenon
\* recv of body bytes: they go to the callback.
LEMMA RecvBodyEffect ==
  ASSUME IInv, NEW c \in Clients, NEW k \in 1 .. Len(down[c]), RecvBody(c, k)
  PROVE  /\ got'[c] \in Seq(Nat) /\ down'[c] \in Seq(1 .. Whole)
         /\ got' = [got EXCEPT ![c] = got'[c]] /\ down' = [down EXCEPT ![c] = down'[c]]
         /\ UNCHANGED <<buf, rstatus, fileLen>>
         /\ rstatus[c] = "OK"
         /\ Arrived(c)' = Arrived(c)
         /\ Holds(c)'
<1> DEFINE piece == [i \in 1 .. k |-> down[c][i] - HeaderLength]
           g == Len(got[c])
           d == Len(down[c])
<1>1. /\ got[c] \in Seq(Nat) /\ down[c] \in Seq(1 .. Whole)
      /\ g \in Nat /\ d \in Nat
      /\ got \in [Clients -> Seq(Nat)] /\ down \in [Clients -> Seq(1 .. Whole)]
  BY Numbers, TypesSplit DEF IInv, Sequences, Streams
<1>2. /\ got'[c] = got[c] \o piece
      /\ down'[c] = SubSeq(down[c], k + 1, d)
      /\ got' = [got EXCEPT ![c] = got'[c]] /\ down' = [down EXCEPT ![c] = down'[c]]
      /\ UNCHANGED <<buf, rstatus, fileLen>>
      /\ k <= Smaller(BodyBuffer, fileLen[c] - g)
      /\ cpc[c] = "body"
  <2>1. /\ got' = [got EXCEPT ![c] = @ \o piece]
        /\ down' = [down EXCEPT ![c] = SubSeq(@, k + 1, Len(@))]
        /\ UNCHANGED <<buf, rstatus, fileLen>>
        /\ k <= Smaller(BodyBuffer, fileLen[c] - g)
        /\ cpc[c] = "body"
    BY DEF RecvBody
  <2> QED
    BY <1>1, <2>1, Zenon
<1>3. rstatus[c] = "OK" /\ HeaderComplete(c) /\ fileLen[c] = FileLength
  BY <1>2 DEF IInv, Outcomes, Outcome
<1>4. Taken(c) = HeaderLength + g /\ Taken(c)' = HeaderLength + Len(got'[c])
  BY <1>2, <1>3 DEF Taken
<1>5. /\ \A i \in 1 .. d : down[c][i] = HeaderLength + g + i
      /\ \A i \in 1 .. g : got[c][i] = i \/ (i = 1 /\ HeaderLength < Len(buf[c]))
      /\ \A i \in 1 .. Len(buf[c]) : buf[c][i] = i
      /\ Fits(c)
  BY <1>4, TypesSplit DEF IInv, Positions, InPlace, Streams
<1>6. d \in Nat /\ g \in Nat /\ k \in 1 .. d /\ HeaderLength \in Nat
  BY <1>1, Lengths
<1>7. /\ down'[c] \in Seq(1 .. Whole) /\ Len(down'[c]) = d - k
      /\ \A i \in 1 .. d - k : down'[c][i] = down[c][k + i]
  <2>1. /\ SubSeq(down[c], k + 1, Len(down[c])) \in Seq(1 .. Whole)
        /\ Len(SubSeq(down[c], k + 1, Len(down[c]))) = Len(down[c]) - k
        /\ \A i \in 1 .. Len(down[c]) - k :
              SubSeq(down[c], k + 1, Len(down[c]))[i] = down[c][k + i]
    BY <1>1, Remainder, Zenon
  <2> QED
    BY <1>2, <2>1, Zenon
<1> HIDE DEF g, d
<1>8. piece = [i \in 1 .. k |-> g + i]
  <2>1. \A i \in 1 .. k : i \in 1 .. d
    BY <1>6
  <2>2. \A i \in 1 .. k : down[c][i] = HeaderLength + g + i
    BY <1>5, <2>1, Zenon
  <2> QED
    BY <1>6, <2>2
<1> HIDE DEF piece
<1>9. piece \in Seq(Nat) /\ Len(piece) = k /\ \A i \in 1 .. k : piece[i] = g + i
  <2>1. piece \in [1 .. k -> Nat] /\ \A i \in 1 .. k : piece[i] = g + i
    BY <1>6, <1>8
  <2>2. k \in Nat
    BY <1>6
  <2> QED
    BY <2>1, <2>2, FromFunction
<1>10. /\ got'[c] \in Seq(Nat) /\ Len(got'[c]) = g + k
       /\ \A i \in 1 .. g : got'[c][i] = got[c][i]
       /\ \A i \in 1 .. k : got'[c][g + i] = g + i
  <2>1. /\ got[c] \o piece \in Seq(Nat) /\ Len(got[c] \o piece) = Len(got[c]) + Len(piece)
        /\ \A i \in 1 .. Len(got[c]) : (got[c] \o piece)[i] = got[c][i]
        /\ \A i \in 1 .. Len(piece) : (got[c] \o piece)[Len(got[c]) + i] = piece[i]
    <3>1. got[c] \in Seq(Nat)
      BY <1>1
    <3>2. piece \in Seq(Nat)
      BY <1>9
    <3> QED
      BY <3>1, <3>2, Joined
  <2> QED
    BY <1>2, <1>9, <2>1, Zenon DEF g
<1>11. Arrived(c)' = Arrived(c)
  <2>1. Arrived(c) = Taken(c) + d /\ Arrived(c)' = Taken(c)' + Len(down'[c])
    BY DEF Arrived, d
  <2>2. Taken(c)' = HeaderLength + (g + k) /\ Len(down'[c]) = d - k
    BY <1>4, <1>7, <1>10, Zenon
  <2>3. Taken(c) = HeaderLength + g
    BY <1>4
  <2> QED
    BY <1>6, <2>1, <2>2, <2>3
<1>12. \A i \in 1 .. d - k : down'[c][i] = HeaderLength + (g + k) + i
  <2>1. \A i \in 1 .. d - k : k + i \in 1 .. d
    BY <1>6
  <2>2. \A i \in 1 .. d - k : down'[c][i] = HeaderLength + g + (k + i)
    BY <1>5, <1>7, <2>1, Zenon
  <2> QED
    BY <1>6, <2>2
<1>13. \A i \in 1 .. g + k :
          got'[c][i] = i \/ (i = 1 /\ HeaderLength < Len(buf[c]))
  <2>1. \A i \in 1 .. g + k : i \in 1 .. g \/ (i - g \in 1 .. k /\ i = g + (i - g))
    BY <1>6
  <2>2. \A i \in 1 .. g : got'[c][i] = i \/ (i = 1 /\ HeaderLength < Len(buf[c]))
    BY <1>5, <1>10, Zenon
  <2>3. \A i \in 1 .. k : got'[c][g + i] = g + i
    BY <1>10
  <2> HIDE DEF g
  <2> SUFFICES ASSUME NEW i \in 1 .. g + k
               PROVE  got'[c][i] = i \/ (i = 1 /\ HeaderLength < Len(buf[c]))
    OBVIOUS
  <2>4. CASE i \in 1 .. g
    BY <2>2, <2>4, Zenon
  <2>5. CASE i - g \in 1 .. k /\ i = g + (i - g)
    BY <2>3, <2>5, Zenon
  <2> QED
    BY <2>1, <2>4, <2>5
<1>14. InPlace(c)'
  <2>1. buf' = buf
    BY <1>2
  <2>2. Taken(c)' = HeaderLength + (g + k)
    BY <1>4, <1>10
  <2> QED
    BY <1>5, <1>7, <1>10, <1>12, <1>13, <2>1, <2>2, Zenon DEF InPlace
<1>15. Fits(c)'
  <2>1. Len(got'[c]) <= fileLen[c]
    BY <1>2, <1>3, <1>6, <1>10, Lengths DEF Smaller
  <2>2. Len(down'[c]) <= SocketBuffer
    BY <1>5, <1>6, <1>7, Lengths DEF d, Fits
  <2> QED
    BY <1>2, <1>5, <2>1, <2>2 DEF Fits
<1>16. Holds(c)'
  BY <1>14, <1>15 DEF Holds
<1> QED
  BY <1>2, <1>3, <1>7, <1>10, <1>11, <1>16, Zenon

\* The header is parsed: what came with it goes to the callback.
LEMMA ParseOkEffect ==
  ASSUME IInv, NEW c \in Clients, ParseOk(c)
  PROVE  /\ got'[c] \in Seq(Nat)
         /\ got' = [got EXCEPT ![c] = got'[c]]
         /\ rstatus' = [rstatus EXCEPT ![c] = "OK"]
         /\ fileLen' = [fileLen EXCEPT ![c] = FileLength]
         /\ UNCHANGED <<buf, down>>
         /\ Arrived(c)' = Arrived(c)
         /\ Holds(c)'
<1> DEFINE l == Len(buf[c])
           rest == PostHeader(c)
<1>1. /\ got \in [Clients -> Seq(Nat)]
      /\ rstatus \in [Clients -> Statuses]
      /\ fileLen \in [Clients -> {0, FileLength}]
      /\ l \in Nat /\ Len(down[c]) \in Nat /\ Arrived(c) = Taken(c) + Len(down[c])
  BY Numbers, TypesSplit DEF IInv, Sequences, Scalars
<1>2. /\ got' = [got EXCEPT ![c] = SubSeq(rest, 1, Smaller(Len(rest), FileLength))]
      /\ rstatus' = [rstatus EXCEPT ![c] = "OK"]
      /\ fileLen' = [fileLen EXCEPT ![c] = FileLength]
      /\ UNCHANGED <<buf, down>>
      /\ cpc[c] = "header" /\ HeaderLength <= l
  BY DEF ParseOk, HeaderComplete
<1>3. rstatus[c] # "OK"
  BY <1>2 DEF IInv, Outcomes, Outcome
<1>4. Taken(c) = l
  BY <1>3 DEF Taken
<1>5. l <= Whole
  <2>1. Arrived(c) <= Whole
    BY DEF IInv, Counts
  <2>2. Arrived(c) = l + Len(down[c])
    BY <1>1, <1>4, Zenon
  <2>3. l \in Nat /\ Len(down[c]) \in Nat
    BY <1>1
  <2> HIDE DEF l
  <2> QED
    BY <2>1, <2>2, <2>3, Lengths
<1>6. /\ \A i \in 1 .. l : buf[c][i] = i
      /\ \A i \in 1 .. Len(down[c]) : down[c][i] = l + i
      /\ Fits(c)
  BY <1>4, TypesSplit DEF IInv, Positions, InPlace, Streams
<1>7. rest = [i \in 1 .. Len(buf[c]) - HeaderLength |->
                 IF i = 1 THEN Zeroed ELSE buf[c][HeaderLength + i] - HeaderLength]
  BY DEF PostHeader
<1>8. got'[c] = SubSeq(rest, 1, Smaller(Len(rest), FileLength))
  BY <1>1, <1>2, Zenon
<1> HIDE DEF rest
<1>9. /\ SubSeq(rest, 1, Smaller(Len(rest), FileLength)) \in Seq(Nat)
      /\ Len(SubSeq(rest, 1, Smaller(Len(rest), FileLength))) = l - HeaderLength
      /\ \A i \in 1 .. l - HeaderLength :
            SubSeq(rest, 1, Smaller(Len(rest), FileLength))[i] = i \/ i = 1
  <2>1. l \in Nat /\ HeaderLength <= l
    BY <1>1, <1>2, Zenon
  <2>2. l = Len(buf[c])
    OBVIOUS
  <2>3. \A i \in 1 .. l : buf[c][i] = i
    BY <1>6, Zenon
  <2> HIDE DEF l
  <2> QED
    BY <1>5, <1>7, <2>1, <2>2, <2>3, WithHeader
<1>10. /\ got'[c] \in Seq(Nat) /\ Len(got'[c]) = l - HeaderLength
       /\ \A i \in 1 .. l - HeaderLength : got'[c][i] = i \/ i = 1
  BY <1>8, <1>9, Zenon
<1> HIDE DEF l
<1>11. Taken(c)' = l
  <2>1. rstatus'[c] = "OK"
    BY <1>1, <1>2
  <2>2. Taken(c)' = HeaderLength + Len(got'[c])
    BY <2>1 DEF Taken
  <2> QED
    BY <1>1, <1>10, <2>2, Lengths
<1>12. Arrived(c)' = Arrived(c)
  <2>1. Arrived(c)' = Taken(c)' + Len(down'[c])
    BY DEF Arrived
  <2> QED
    BY <1>1, <1>2, <1>4, <1>11, <2>1
<1>13. InPlace(c)'
  <2>1. buf'[c] = buf[c] /\ down'[c] = down[c] /\ Len(buf[c]) = l
    BY <1>2 DEF l
  <2>2. ASSUME NEW i \in 1 .. l - HeaderLength
        PROVE  HeaderLength < l
    BY <1>1, Lengths
  <2>3. \A i \in 1 .. l - HeaderLength :
           got'[c][i] = i \/ (i = 1 /\ HeaderLength < l)
    BY <1>10, <2>2, Zenon
  <2> QED
    BY <1>6, <1>10, <1>11, <2>1, <2>3, Zenon DEF InPlace
<1>14. Fits(c)'
  <2>1. fileLen'[c] = FileLength
    BY <1>1, <1>2
  <2>2. Len(got'[c]) <= FileLength
    BY <1>1, <1>5, <1>10, Lengths DEF Whole
  <2> QED
    BY <1>2, <1>6, <2>1, <2>2 DEF Fits
<1> QED
  BY <1>2, <1>8, <1>10, <1>12, <1>13, <1>14, Zenon DEF Holds

\* send to a client that is there: the next bytes go to the end of the stream.
LEMMA SendPieceEffect ==
  ASSUME IInv, NEW k \in 1 .. chunk, SendPiece(k), ~ gone[cur]
  PROVE  /\ cur \in Clients
         /\ down'[cur] \in Seq(1 .. Whole)
         /\ down' = [down EXCEPT ![cur] = down'[cur]]
         /\ UNCHANGED <<buf, got, rstatus, fileLen>>
         /\ Arrived(cur)' = Arrived(cur) + k
         /\ Holds(cur)'
<1> DEFINE piece == [i \in 1 .. k |-> offset + i]
           d == Len(down[cur])
<1>1. cur \in Clients /\ cur' = cur
  BY DEF SendPiece, IInv, ServerPlaced
<1>2. /\ down[cur] \in Seq(1 .. Whole) /\ d \in Nat /\ Taken(cur) \in Nat
      /\ Arrived(cur) = Taken(cur) + d
      /\ down \in [Clients -> Seq(1 .. Whole)]
  BY <1>1, Numbers, TypesSplit DEF IInv, Streams
<1>3. /\ down' = [down EXCEPT ![cur] = @ \o piece]
      /\ UNCHANGED <<buf, got, rstatus, fileLen>>
      /\ d + k <= SocketBuffer
  BY DEF SendPiece, client
<1>4. offset \in Nat /\ k \in Nat /\ 0 < k /\ offset + k <= Whole
  BY Lengths DEF IInv, TypeOK, Whole
<1>5. offset = Arrived(cur)
  BY <1>1 DEF IInv, Counts
<1>6. piece \in Seq(1 .. Whole) /\ Len(piece) = k /\ \A i \in 1 .. k : piece[i] = offset + i
  <2>1. piece \in [1 .. k -> 1 .. Whole] /\ \A i \in 1 .. k : piece[i] = offset + i
    BY <1>4, Lengths
  <2> QED
    BY <1>4, <2>1, FromFunction
<1> HIDE DEF piece
<1>7. down'[cur] = down[cur] \o piece /\ down' = [down EXCEPT ![cur] = down'[cur]]
  BY <1>1, <1>2, <1>3, Zenon
<1>8. /\ down'[cur] \in Seq(1 .. Whole) /\ Len(down'[cur]) = d + k
      /\ \A i \in 1 .. d : down'[cur][i] = down[cur][i]
      /\ \A i \in 1 .. k : down'[cur][d + i] = offset + i
  <2>1. /\ down[cur] \o piece \in Seq(1 .. Whole)
        /\ Len(down[cur] \o piece) = Len(down[cur]) + Len(piece)
        /\ \A i \in 1 .. Len(down[cur]) : (down[cur] \o piece)[i] = down[cur][i]
        /\ \A i \in 1 .. Len(piece) : (down[cur] \o piece)[Len(down[cur]) + i] = piece[i]
    <3>1. down[cur] \in Seq(1 .. Whole)
      BY <1>2
    <3>2. piece \in Seq(1 .. Whole)
      BY <1>6
    <3> QED
      BY <3>1, <3>2, Joined
  <2> QED
    BY <1>6, <1>7, <2>1, Zenon
<1>9. /\ \A i \in 1 .. d : down[cur][i] = Taken(cur) + i
      /\ \A i \in 1 .. Len(buf[cur]) : buf[cur][i] = i
      /\ \A i \in 1 .. Len(got[cur]) :
            got[cur][i] = i \/ (i = 1 /\ HeaderLength < Len(buf[cur]))
      /\ Fits(cur)
  BY <1>1, TypesSplit DEF IInv, Positions, InPlace, Streams
<1>10. Taken(cur)' = Taken(cur)
  BY <1>1, <1>3 DEF Taken
<1>11. Arrived(cur)' = Arrived(cur) + k
  BY <1>1, <1>2, <1>4, <1>8, <1>10 DEF Arrived
<1> HIDE DEF d
<1>12. \A i \in 1 .. d + k : down'[cur][i] = Taken(cur) + i
  <2> SUFFICES ASSUME NEW i \in 1 .. d + k
               PROVE  down'[cur][i] = Taken(cur) + i
    OBVIOUS
  <2>1. CASE i \in 1 .. d
    BY <1>8, <1>9, <2>1, Zenon
  <2>2. CASE i - d \in 1 .. k /\ i = d + (i - d)
    <3>1. down'[cur][i] = offset + (i - d)
      BY <1>8, <2>2, Zenon
    <3> QED
      BY <1>2, <1>4, <1>5, <3>1
  <2> QED
    BY <1>2, <1>4, <2>1, <2>2
<1>13. InPlace(cur)'
  BY <1>1, <1>3, <1>8, <1>9, <1>10, <1>12, Zenon DEF InPlace
<1>14. Fits(cur)'
  BY <1>1, <1>3, <1>8, <1>9 DEF Fits
<1> QED
  BY <1>1, <1>3, <1>7, <1>8, <1>11, <1>13, <1>14, Zenon DEF Holds
\* The step is one of those above, or a piece is lost that is sent to a client that
\* is gone.
LEMMA StepKinds ==
  ASSUME IInv, [Next]_vars
  PROVE  \/ /\ UNCHANGED <<buf, got, down, fileLen>>
            /\ \A c \in Clients : rstatus'[c] = "OK" <=> rstatus[c] = "OK"
         \/ \E c \in Clients : \E k \in 1 .. Len(down[c]) : RecvHeader(c, k) \/ RecvBody(c, k)
         \/ \E c \in Clients : ParseOk(c)
         \/ \E k \in 1 .. chunk : SendPiece(k) /\ ~ gone[cur]
<1>1. ASSUME NEW c \in Clients,
             \/ Connect(c) \/ SendRequestFails(c) \/ HeaderEnds(c) \/ ParseRefusal(c)
             \/ BodyComplete(c) \/ BodyEnds(c) \/ Die(c) \/ Stall(c) \/ Accept(c)
             \/ \E k \in 1 .. HeaderLength - asked[c] : SendRequest(c, k)
      PROVE  /\ UNCHANGED <<buf, got, down, fileLen>>
             /\ \A d \in Clients : rstatus'[d] = "OK" <=> rstatus[d] = "OK"
  <2>1. \A m, k : k \in 1 .. m => k \in Nat
    OBVIOUS
  <2> QED
    BY <1>1, <2>1, QuietEffect, Zenon
<1>2. ASSUME \/ \E k \in 1 .. (IF cur = Nobody THEN 0 ELSE up[cur]) : RecvRequest(k)
             \/ \E k \in 1 .. FileLength : HandlerSends(k)
             \/ SendFails \/ RefuseInvalid \/ CallHandler \/ HandlerRefuses
             \/ HandlerAnnounces \/ HandlerReturns \/ Close \/ Idle \/ UNCHANGED vars
      PROVE  /\ UNCHANGED <<buf, got, down, fileLen>>
             /\ \A d \in Clients : rstatus'[d] = "OK" <=> rstatus[d] = "OK"
  <2>1. \A m, k : k \in 1 .. m => k \in Nat
    OBVIOUS
  <2> QED
    BY <1>2, <2>1, QuietEffect, Zenon
<1>3. ASSUME NEW k \in 1 .. chunk, SendPiece(k), gone[cur]
      PROVE  UNCHANGED <<buf, got, down, fileLen, rstatus>>
  BY <1>3 DEF SendPiece, client
<1> QED
  BY <1>1, <1>2, <1>3 DEF Next, ClientStep, ServerStep

LEMMA StreamsStep ==
  ASSUME IInv, [Next]_vars
  PROVE  /\ Streams' /\ Positions'
<1>0. /\ buf \in [Clients -> Seq(Nat)] /\ got \in [Clients -> Seq(Nat)]
      /\ down \in [Clients -> Seq(1 .. Whole)]
      /\ rstatus \in [Clients -> Statuses] /\ fileLen \in [Clients -> {0, FileLength}]
  BY TypesSplit DEF IInv, Sequences, Streams, Scalars
<1>h. \A c \in Clients : Holds(c)
  BY TypesSplit DEF IInv, Holds, Streams, Positions
<1>q. SUFFICES /\ buf' \in [Clients -> Seq(Nat)] /\ got' \in [Clients -> Seq(Nat)]
               /\ down' \in [Clients -> Seq(1 .. Whole)]
               /\ \A c \in Clients : Holds(c)'
  BY Zenon DEF Streams, Sequences, Positions, Holds
<1>1. CASE /\ UNCHANGED <<buf, got, down, fileLen>>
           /\ \A c \in Clients : rstatus'[c] = "OK" <=> rstatus[c] = "OK"
  BY <1>0, <1>h, <1>1, HoldsKept
<1>2. ASSUME NEW c \in Clients, NEW k \in 1 .. Len(down[c]), RecvHeader(c, k)
      PROVE  /\ buf' \in [Clients -> Seq(Nat)] /\ got' \in [Clients -> Seq(Nat)]
             /\ down' \in [Clients -> Seq(1 .. Whole)]
             /\ \A d \in Clients : Holds(d)'
  <2>1. /\ buf'[c] \in Seq(Nat) /\ down'[c] \in Seq(1 .. Whole)
        /\ buf' = [buf EXCEPT ![c] = buf'[c]] /\ down' = [down EXCEPT ![c] = down'[c]]
        /\ UNCHANGED <<got, rstatus, fileLen>>
        /\ Holds(c)'
    BY <1>2, RecvHeaderEffect, Zenon
  <2>2. ASSUME NEW d \in Clients, d # c
        PROVE  Holds(d)'
    <3>1. buf'[d] = buf[d] /\ down'[d] = down[d]
      BY <1>0, <2>1, <2>2
    <3> QED
      BY <1>h, <2>1, <3>1, HoldsKept
  <2>3. buf' \in [Clients -> Seq(Nat)] /\ down' \in [Clients -> Seq(1 .. Whole)]
    BY <1>0, <2>1
  <2> QED
    BY <1>0, <2>1, <2>2, <2>3
<1>3. ASSUME NEW c \in Clients, NEW k \in 1 .. Len(down[c]), RecvBody(c, k)
      PROVE  /\ buf' \in [Clients -> Seq(Nat)] /\ got' \in [Clients -> Seq(Nat)]
             /\ down' \in [Clients -> Seq(1 .. Whole)]
             /\ \A d \in Clients : Holds(d)'
  <2>1. /\ got'[c] \in Seq(Nat) /\ down'[c] \in Seq(1 .. Whole)
        /\ got' = [got EXCEPT ![c] = got'[c]] /\ down' = [down EXCEPT ![c] = down'[c]]
        /\ UNCHANGED <<buf, rstatus, fileLen>>
        /\ Holds(c)'
    BY <1>3, RecvBodyEffect, Zenon
  <2>2. ASSUME NEW d \in Clients, d # c
        PROVE  Holds(d)'
    <3>1. got'[d] = got[d] /\ down'[d] = down[d]
      BY <1>0, <2>1, <2>2
    <3> QED
      BY <1>h, <2>1, <3>1, HoldsKept
  <2>3. got' \in [Clients -> Seq(Nat)] /\ down' \in [Clients -> Seq(1 .. Whole)]
    BY <1>0, <2>1
  <2> QED
    BY <1>0, <2>1, <2>2, <2>3
<1>4. ASSUME NEW c \in Clients, ParseOk(c)
      PROVE  /\ buf' \in [Clients -> Seq(Nat)] /\ got' \in [Clients -> Seq(Nat)]
             /\ down' \in [Clients -> Seq(1 .. Whole)]
             /\ \A d \in Clients : Holds(d)'
  <2>1. /\ got'[c] \in Seq(Nat)
        /\ got' = [got EXCEPT ![c] = got'[c]]
        /\ rstatus' = [rstatus EXCEPT ![c] = "OK"]
        /\ fileLen' = [fileLen EXCEPT ![c] = FileLength]
        /\ UNCHANGED <<buf, down>>
        /\ Holds(c)'
    BY <1>4, ParseOkEffect, Zenon
  <2>2. ASSUME NEW d \in Clients, d # c
        PROVE  Holds(d)'
    <3>1. got'[d] = got[d] /\ rstatus'[d] = rstatus[d] /\ fileLen'[d] = fileLen[d]
      BY <1>0, <2>1, <2>2
    <3> QED
      BY <1>h, <2>1, <3>1, HoldsKept
  <2>3. got' \in [Clients -> Seq(Nat)]
    BY <1>0, <2>1
  <2> QED
    BY <1>0, <2>1, <2>2, <2>3
<1>5. ASSUME NEW k \in 1 .. chunk, SendPiece(k), ~ gone[cur]
      PROVE  /\ buf' \in [Clients -> Seq(Nat)] /\ got' \in [Clients -> Seq(Nat)]
             /\ down' \in [Clients -> Seq(1 .. Whole)]
             /\ \A d \in Clients : Holds(d)'
  <2>1. /\ cur \in Clients
        /\ down'[cur] \in Seq(1 .. Whole)
        /\ down' = [down EXCEPT ![cur] = down'[cur]]
        /\ UNCHANGED <<buf, got, rstatus, fileLen>>
        /\ Holds(cur)'
    BY <1>5, SendPieceEffect, Zenon
  <2>2. ASSUME NEW d \in Clients, d # cur
        PROVE  Holds(d)'
    <3>1. down'[d] = down[d]
      BY <1>0, <2>1, <2>2
    <3> QED
      BY <1>h, <2>1, <3>1, HoldsKept
  <2>3. down' \in [Clients -> Seq(1 .. Whole)]
    BY <1>0, <2>1
  <2>4. cur' = cur
    BY <1>5 DEF SendPiece
  <2>5. \A d \in Clients : Holds(d)'
    BY <2>1, <2>2, <2>4
  <2> QED
    BY <1>0, <2>1, <2>3, <2>5
<1> QED
  BY <1>1, <1>2, <1>3, <1>4, <1>5, StepKinds

\* The steps that leave every count alone.
LEMMA CountsKept ==
  ASSUME Counts, UNCHANGED <<cur, offset>>,
         \A c \in Clients :
            /\ Arrived(c)' = Arrived(c)
            /\ ~ gone'[c] => ~ gone[c]
            /\ ~ closed'[c] => ~ closed[c]
            /\ announced'[c] = "none" => announced[c] = "none"
  PROVE  Counts'
BY DEF Counts, Whole

LEMMA CountsStep ==
  ASSUME IInv, [Next]_vars
  PROVE  Counts'
<1>0. /\ gone \in [Clients -> BOOLEAN] /\ closed \in [Clients -> BOOLEAN]
      /\ announced \in [Clients -> Statuses \cup {"none"}]
      /\ buf \in [Clients -> Seq(Nat)] /\ got \in [Clients -> Seq(Nat)]
      /\ down \in [Clients -> Seq(1 .. Whole)]
      /\ rstatus \in [Clients -> Statuses]
      /\ cur \in Clients \cup {Nobody} /\ Nobody \notin Clients
      /\ offset \in Nat
  <2>1. Scalars /\ Streams
    BY TypesSplit DEF IInv
  <2>2. offset \in Nat
    BY <2>1, Lengths DEF Scalars
  <2> QED
    BY <2>1, <2>2, GetFileAssumption DEF Sequences, Streams, Scalars
<1>c. /\ Counts
      /\ spc \in {"request", "handler", "sending", "body", "close"} =>
            cur \in Clients /\ ~ closed[cur]
      /\ spc = "accept" => cur = Nobody
  BY DEF IInv, ServerPlaced
<1>n. \A c \in Clients : Arrived(c) \in Nat
  <2> TAKE c \in Clients
  <2>1. Taken(c) \in Nat /\ Len(down[c]) \in Nat /\ Arrived(c) = Taken(c) + Len(down[c])
    BY Numbers DEF IInv
  <2> QED
    BY <2>1
<1>k. ASSUME UNCHANGED <<buf, got, down, fileLen>>,
             \A c \in Clients : rstatus'[c] = "OK" <=> rstatus[c] = "OK"
      PROVE  \A c \in Clients : Arrived(c)' = Arrived(c)
  BY <1>k, TakenKept
<1>1. ASSUME NEW c \in Clients,
             \/ Connect(c) \/ SendRequestFails(c) \/ HeaderEnds(c) \/ ParseRefusal(c)
             \/ BodyComplete(c) \/ BodyEnds(c) \/ Die(c) \/ Stall(c)
             \/ \E k \in 1 .. HeaderLength - asked[c] : SendRequest(c, k)
      PROVE  Counts'
  <2>1. \A m, k : k \in 1 .. m => k \in Nat
    OBVIOUS
  <2>2. \A d \in Clients : Arrived(d)' = Arrived(d)
    BY <1>1, <1>k, <2>1, QuietEffect, Zenon
  <2>3. UNCHANGED server /\ \A d \in Clients : ~ gone'[d] => ~ gone[d]
    BY <1>0, <1>1 DEF Connect, SendRequestFails, HeaderEnds, ParseRefusal, BodyComplete, BodyEnds,
         Die, Stall, SendRequest, Finish
  <2> QED
    BY <1>c, <2>2, <2>3, CountsKept DEF server
<1>2. ASSUME NEW c \in Clients, NEW k \in 1 .. Len(down[c]), RecvHeader(c, k) \/ RecvBody(c, k)
      PROVE  Counts'
  <2>1. /\ Arrived(c)' = Arrived(c)
        /\ down' = [down EXCEPT ![c] = down'[c]] /\ UNCHANGED rstatus
        /\ \/ buf' = [buf EXCEPT ![c] = buf'[c]] /\ UNCHANGED got
           \/ got' = [got EXCEPT ![c] = got'[c]] /\ UNCHANGED buf
    BY <1>2, RecvHeaderEffect, RecvBodyEffect, Zenon
  <2>2. ASSUME NEW d \in Clients, d # c
        PROVE  Arrived(d)' = Arrived(d)
    <3>1. buf'[d] = buf[d] /\ got'[d] = got[d] /\ down'[d] = down[d] /\ rstatus'[d] = rstatus[d]
      BY <1>0, <2>1, <2>2
    <3> QED
      BY <3>1, TakenKept
  <2>3. UNCHANGED <<gone, server>>
    BY <1>2 DEF RecvHeader, RecvBody
  <2> QED
    BY <1>c, <2>1, <2>2, <2>3, CountsKept DEF server
<1>3. ASSUME NEW c \in Clients, ParseOk(c)
      PROVE  Counts'
  <2>1. /\ Arrived(c)' = Arrived(c)
        /\ got' = [got EXCEPT ![c] = got'[c]]
        /\ rstatus' = [rstatus EXCEPT ![c] = "OK"]
        /\ UNCHANGED <<buf, down>>
    BY <1>3, ParseOkEffect, Zenon
  <2>2. ASSUME NEW d \in Clients, d # c
        PROVE  Arrived(d)' = Arrived(d)
    <3>1. buf'[d] = buf[d] /\ got'[d] = got[d] /\ down'[d] = down[d] /\ rstatus'[d] = rstatus[d]
      BY <1>0, <2>1, <2>2
    <3> QED
      BY <3>1, TakenKept
  <2>3. UNCHANGED <<gone, server>>
    BY <1>3 DEF ParseOk
  <2> QED
    BY <1>c, <2>1, <2>2, <2>3, CountsKept DEF server
<1>4. ASSUME NEW c \in Clients, Accept(c)
      PROVE  Counts'
  \* Nothing has arrived of the answer to a client that waits.
  <2>1. \A d \in Clients : Arrived(d)' = Arrived(d)
    BY <1>4, <1>k, QuietEffect, Zenon
  <2>2. cur' = c /\ offset' = 0 /\ UNCHANGED <<gone, closed, announced>>
        /\ cur = Nobody /\ ~ closed[c]
    BY <1>4, <1>c DEF Accept, Pending
  <2>3. Arrived(c) = 0
    BY <1>0, <1>c, <2>2 DEF Counts
  <2> QED
    BY <1>0, <1>c, <2>1, <2>2, <2>3 DEF Counts
<1>5. ASSUME NEW k \in 1 .. chunk, SendPiece(k)
      PROVE  Counts'
  <2>0. /\ cur \in Clients /\ offset' = offset + k /\ UNCHANGED <<cur, gone, closed, announced>>
        /\ k \in Nat /\ announced[cur] # "none"
    BY <1>5 DEF SendPiece, IInv, ServerPlaced
  <2>w. offset + k <= Whole
    BY <1>5, Lengths DEF IInv, TypeOK, Whole
  <2>1. CASE gone[cur]
    <3>1. \A d \in Clients : Arrived(d)' = Arrived(d)
      <4>1. UNCHANGED <<buf, got, down, fileLen, rstatus>>
        BY <1>5, <2>1 DEF SendPiece, client
      <4> QED
        BY <4>1, <1>k
    <3>2. Arrived(cur) <= offset + k
      BY <1>0, <1>c, <1>n, <2>0 DEF Counts
    <3> QED
      BY <1>c, <2>0, <2>1, <3>1, <3>2 DEF Counts, Whole
  <2>2. CASE ~ gone[cur]
    <3>1. /\ down' = [down EXCEPT ![cur] = down'[cur]]
          /\ UNCHANGED <<buf, got, rstatus, fileLen>>
          /\ Arrived(cur)' = Arrived(cur) + k
      BY <1>5, <2>2, SendPieceEffect, Zenon
    <3>2. ASSUME NEW d \in Clients, d # cur
          PROVE  Arrived(d)' = Arrived(d)
      <4>1. down'[d] = down[d]
        BY <1>0, <2>0, <3>1, <3>2
      <4> QED
        BY <3>1, <4>1, TakenKept
    <3>3. Arrived(cur) = offset
      BY <1>c, <2>0, <2>2 DEF Counts
    <3>4. \A d \in Clients : d = cur => Arrived(d)' = offset + k
      BY <2>0, <3>1, <3>3
    <3> QED
      BY <1>0, <1>c, <2>0, <2>w, <3>2, <3>4 DEF Counts, Whole
  <2> QED
    BY <2>1, <2>2
<1>6. CASE \/ SendFails \/ RefuseInvalid \/ CallHandler \/ HandlerRefuses
           \/ HandlerAnnounces \/ HandlerReturns \/ Idle \/ UNCHANGED vars
           \/ \E k \in 1 .. (IF cur = Nobody THEN 0 ELSE up[cur]) : RecvRequest(k)
           \/ \E k \in 1 .. FileLength : HandlerSends(k)
  <2>1. \A m, k : k \in 1 .. m => k \in Nat
    OBVIOUS
  <2>2. \A d \in Clients : Arrived(d)' = Arrived(d)
    BY <1>6, <1>k, <2>1, QuietEffect, Zenon
  <2>3. UNCHANGED <<cur, offset, gone>>
    BY <1>6 DEF SendFails, RefuseInvalid, CallHandler, HandlerRefuses, HandlerAnnounces,
         HandlerReturns, Idle, vars, server, RecvRequest, HandlerSends, SendHeader, BeginSend
  <2>4. \A d \in Clients : ~ closed'[d] => ~ closed[d]
    BY <1>0, <1>6 DEF SendFails, RefuseInvalid, CallHandler, HandlerRefuses, HandlerAnnounces,
         HandlerReturns, Idle, vars, server, RecvRequest, HandlerSends, SendHeader, BeginSend
  <2>5. \A d \in Clients : announced'[d] = "none" => announced[d] = "none"
    BY <1>0, <1>c, <1>6 DEF SendFails, RefuseInvalid, CallHandler, HandlerRefuses, HandlerAnnounces,
         HandlerReturns, Idle, vars, server, RecvRequest, HandlerSends, SendHeader, BeginSend
  <2> QED
    BY <1>c, <2>2, <2>3, <2>4, <2>5, CountsKept
<1>7. CASE Close
  <2>1. \A d \in Clients : Arrived(d)' = Arrived(d)
    BY <1>7, <1>k, QuietEffect, Zenon
  <2>2. /\ cur \in Clients /\ cur' = Nobody /\ UNCHANGED <<offset, announced, gone>>
        /\ closed' = [closed EXCEPT ![cur] = TRUE]
    BY <1>7, <1>c DEF Close
  <2>3. \A d \in Clients : ~ closed'[d] => d # cur /\ ~ closed[d]
    BY <1>0, <2>2
  <2> QED
    BY <1>0, <1>c, <2>1, <2>2, <2>3 DEF Counts, Whole
<1> QED
  BY <1>1, <1>2, <1>3, <1>4, <1>5, <1>6, <1>7 DEF Next, ClientStep, ServerStep
-----------------------------------------------------------------------------
(* Outcomes.                                                               *)

\* A client whose outcome a step leaves alone.
LEMMA OutcomeKept ==
  ASSUME NEW c \in Clients, Outcome(c), cpc'[c] = cpc[c], rstatus'[c] = rstatus[c],
         announced'[c] = announced[c], fileLen'[c] = fileLen[c], buf'[c] = buf[c],
         got'[c] = got[c], rc'[c] = rc[c]
  PROVE  Outcome(c)'
BY DEF Outcome, HeaderComplete

LEMMA OutcomesStep ==
  ASSUME IInv, [Next]_vars
  PROVE  Outcomes'
<1>0. /\ cpc \in [Clients -> {"start", "send", "header", "body", "done", "dead", "silent"}]
      /\ buf \in [Clients -> Seq(Nat)] /\ got \in [Clients -> Seq(Nat)]
      /\ announced \in [Clients -> Statuses \cup {"none"}]
      /\ rstatus \in [Clients -> Statuses] /\ rc \in [Clients -> {0, -1}]
      /\ fileLen \in [Clients -> {0, FileLength}]
  BY TypesSplit DEF IInv, Sequences, Scalars
<1>c. \A c \in Clients : Outcome(c)
  BY DEF IInv, Outcomes
<1>l. \A c \in Clients : Len(got[c]) \in Nat /\ Len(got[c]) <= fileLen[c]
  BY Numbers, TypesSplit DEF IInv, Streams, Fits
<1>o. SUFFICES \A c \in Clients : Outcome(c)'
  BY DEF Outcomes
<1>1. ASSUME NEW c \in Clients,
             \/ Connect(c) \/ SendRequestFails(c) \/ HeaderEnds(c) \/ ParseRefusal(c)
             \/ BodyComplete(c) \/ BodyEnds(c) \/ Die(c) \/ Stall(c)
             \/ \E k \in 1 .. HeaderLength - asked[c] : SendRequest(c, k)
      PROVE  \A d \in Clients : Outcome(d)'
  <2>1. UNCHANGED <<announced, fileLen, buf, got>>
    BY <1>1 DEF Connect, SendRequestFails, HeaderEnds, ParseRefusal, BodyComplete, BodyEnds,
         Die, Stall, SendRequest, server
  <2>2. \A d \in Clients : d # c => /\ cpc'[d] = cpc[d] /\ rstatus'[d] = rstatus[d]
                                    /\ rc'[d] = rc[d]
    BY <1>0, <1>1 DEF Connect, SendRequestFails, HeaderEnds, ParseRefusal, BodyComplete, BodyEnds,
         Die, Stall, SendRequest, Finish
  <2>3. Outcome(c) /\ (HeaderComplete(c)' <=> HeaderComplete(c))
        /\ Len(got[c]) \in Nat /\ Len(got[c]) <= fileLen[c]
    BY <1>c, <1>l, <2>1 DEF HeaderComplete
  <2>4. ASSUME \/ Connect(c) \/ SendRequestFails(c) \/ HeaderEnds(c) \/ Die(c) \/ Stall(c)
               \/ \E k \in 1 .. HeaderLength - asked[c] : SendRequest(c, k)
        PROVE  Outcome(c)'
    <3>1. buf[c] = <<>> => ~ HeaderComplete(c)
      BY Lengths DEF HeaderComplete
    <3>2. CASE Connect(c) \/ SendRequestFails(c) \/ HeaderEnds(c)
      <4>1. \/ /\ cpc'[c] = "send" /\ cpc[c] = "start"
               /\ rc'[c] = rc[c] /\ rstatus'[c] = rstatus[c]
            \/ /\ cpc'[c] = "done" /\ rc'[c] = -1 /\ rstatus'[c] \in {"INVALID", "ERROR"}
               /\ cpc[c] \in {"start", "send"} \/ (cpc[c] = "header" /\ ~ HeaderComplete(c))
        BY <1>0, <3>2 DEF Connect, SendRequestFails, HeaderEnds, Finish
      <4>2. rstatus[c] # "OK"
        BY <2>3, <4>1 DEF Outcome
      <4> QED
        BY <2>1, <2>3, <3>1, <4>1, <4>2 DEF Outcome
    <3>3. CASE Die(c) \/ Stall(c) \/ \E k \in 1 .. HeaderLength - asked[c] : SendRequest(c, k)
      <4>1. /\ rc'[c] = rc[c] /\ rstatus'[c] = rstatus[c]
            /\ \/ cpc'[c] \in {"dead", "silent"} /\ cpc[c] \in {"send", "header", "body"}
               \/ cpc'[c] \in {"send", "header"} /\ cpc[c] = "send"
        BY <1>0, <3>3 DEF Die, Stall, SendRequest
      <4> QED
        BY <2>1, <2>3, <4>1 DEF Outcome
    <3> QED
      BY <2>4, <3>2, <3>3
  <2>5. ASSUME ParseRefusal(c)
        PROVE  Outcome(c)'
    <3>1. /\ rstatus'[c] = announced[c] /\ rc'[c] = 0 /\ cpc'[c] = "done"
          /\ announced[c] # "OK" /\ HeaderComplete(c) /\ cpc[c] = "header"
      BY <1>0, <2>5 DEF ParseRefusal, Finish
    <3> QED
      BY <2>1, <2>3, <3>1 DEF Outcome
  <2>6. ASSUME BodyComplete(c)
        PROVE  Outcome(c)'
    <3>1. /\ rstatus'[c] = "OK" /\ rc'[c] = 0 /\ cpc'[c] = "done"
          /\ Len(got[c]) = fileLen[c] /\ cpc[c] = "body"
      BY <1>0, <2>6 DEF BodyComplete, Finish
    <3> QED
      BY <2>1, <2>3, <3>1 DEF Outcome
  <2>7. ASSUME BodyEnds(c)
        PROVE  Outcome(c)'
    <3>1. /\ rstatus'[c] = "OK" /\ rc'[c] = -1 /\ cpc'[c] = "done"
          /\ Len(got[c]) < fileLen[c] /\ cpc[c] = "body"
      BY <1>0, <2>7 DEF BodyEnds, Finish
    <3> QED
      BY <2>1, <2>3, <3>1 DEF Outcome
  <2>8. Outcome(c)'
    BY <1>1, <2>4, <2>5, <2>6, <2>7
  <2>9. ASSUME NEW d \in Clients, d # c
        PROVE  Outcome(d)'
    BY <1>c, <2>1, <2>2, <2>9, OutcomeKept
  <2> QED
    BY <2>8, <2>9
<1>2. ASSUME NEW c \in Clients, NEW k \in 1 .. Len(down[c]), RecvHeader(c, k)
      PROVE  \A d \in Clients : Outcome(d)'
  <2>1. /\ buf' = [buf EXCEPT ![c] = buf'[c]] /\ UNCHANGED <<got, rstatus, fileLen>>
    BY <1>2, RecvHeaderEffect, Zenon
  <2>2. UNCHANGED <<cpc, rc, announced>> /\ cpc[c] = "header"
    BY <1>2 DEF RecvHeader, server
  <2>3. Outcome(c)'
    BY <1>c, <2>1, <2>2 DEF Outcome
  <2>4. ASSUME NEW d \in Clients, d # c
        PROVE  Outcome(d)'
    <3>1. buf'[d] = buf[d]
      BY <1>0, <2>1, <2>4
    <3> QED
      BY <1>c, <2>1, <2>2, <3>1, OutcomeKept
  <2> QED
    BY <2>3, <2>4
<1>3. ASSUME NEW c \in Clients, NEW k \in 1 .. Len(down[c]), RecvBody(c, k)
      PROVE  \A d \in Clients : Outcome(d)'
  <2>1. /\ got' = [got EXCEPT ![c] = got'[c]] /\ UNCHANGED <<buf, rstatus, fileLen>>
        /\ rstatus[c] = "OK"
    BY <1>3, RecvBodyEffect, Zenon
  <2>2. UNCHANGED <<cpc, rc, announced>> /\ cpc[c] = "body"
    BY <1>3 DEF RecvBody, server
  <2>3. Outcome(c)'
    BY <1>c, <2>1, <2>2 DEF Outcome, HeaderComplete
  <2>4. ASSUME NEW d \in Clients, d # c
        PROVE  Outcome(d)'
    <3>1. got'[d] = got[d]
      BY <1>0, <2>1, <2>4
    <3> QED
      BY <1>c, <2>1, <2>2, <3>1, OutcomeKept
  <2> QED
    BY <2>3, <2>4
<1>4. ASSUME NEW c \in Clients, ParseOk(c)
      PROVE  \A d \in Clients : Outcome(d)'
  <2>1. /\ got' = [got EXCEPT ![c] = got'[c]]
        /\ rstatus' = [rstatus EXCEPT ![c] = "OK"]
        /\ fileLen' = [fileLen EXCEPT ![c] = FileLength]
        /\ UNCHANGED buf
    BY <1>4, ParseOkEffect, Zenon
  <2>2. /\ cpc' = [cpc EXCEPT ![c] = "body"] /\ UNCHANGED <<rc, announced>>
        /\ cpc[c] = "header" /\ announced[c] = "OK" /\ HeaderComplete(c)
    BY <1>4 DEF ParseOk, server
  <2>3. Outcome(c)'
    <3>1. rstatus'[c] = "OK" /\ fileLen'[c] = FileLength /\ cpc'[c] = "body"
      BY <1>0, <2>1, <2>2
    <3>2. rc[c] # 0 /\ HeaderComplete(c)'
      BY <1>c, <2>1, <2>2 DEF Outcome, HeaderComplete
    <3> QED
      BY <2>2, <3>1, <3>2 DEF Outcome
  <2>4. ASSUME NEW d \in Clients, d # c
        PROVE  Outcome(d)'
    <3>1. /\ got'[d] = got[d] /\ rstatus'[d] = rstatus[d] /\ fileLen'[d] = fileLen[d]
          /\ cpc'[d] = cpc[d]
      BY <1>0, <2>1, <2>2, <2>4
    <3> QED
      BY <1>c, <2>1, <2>2, <3>1, OutcomeKept
  <2> QED
    BY <2>3, <2>4
<1>5. CASE RefuseInvalid \/ HandlerRefuses \/ HandlerAnnounces
  \* The status is announced while nothing has been sent.
  <2>1. /\ UNCHANGED client /\ cur \in Clients /\ offset = 0
        /\ \A d \in Clients : d # cur => announced'[d] = announced[d]
    BY <1>0, <1>5 DEF RefuseInvalid, HandlerRefuses, HandlerAnnounces, SendHeader, BeginSend,
         IInv, ServerPlaced
  <2>2. ~ HeaderComplete(cur) /\ rstatus[cur] # "OK"
    BY <2>1, HeaderSeen
  <2>3. \A d \in Clients : d = cur => Outcome(d)'
    BY <1>c, <2>1, <2>2 DEF Outcome, client, HeaderComplete
  <2>4. \A d \in Clients : d # cur => Outcome(d)'
    BY <1>c, <2>1, OutcomeKept DEF client
  <2> QED
    BY <2>3, <2>4
<1>6. CASE \/ \E c \in Clients : Accept(c)
           \/ \E k \in 1 .. (IF cur = Nobody THEN 0 ELSE up[cur]) : RecvRequest(k)
           \/ \E k \in 1 .. chunk : SendPiece(k)
           \/ SendFails \/ CallHandler \/ HandlerReturns \/ Close \/ Idle \/ UNCHANGED vars
           \/ \E k \in 1 .. FileLength : HandlerSends(k)
  <2>1. UNCHANGED <<client, announced>>
    BY <1>6 DEF Accept, RecvRequest, SendPiece, SendFails, CallHandler, HandlerReturns, Close,
         Idle, vars, server, HandlerSends, BeginSend
  <2> QED
    BY <1>c, <2>1, OutcomeKept DEF client
<1> QED
  BY <1>1, <1>2, <1>3, <1>4, <1>5, <1>6 DEF Next, ClientStep, ServerStep

-----------------------------------------------------------------------------
(* Theorems.                                                               *)

\* The invariant holds in every behaviour.
LEMMA Invariance == Spec => []IInv
<1> DEFINE Inv == /\ Scalars /\ Streams /\ RequestInOrder /\ ServerPlaced
                  /\ Counts /\ Positions /\ Outcomes
<1>1. Init => Inv
  BY InitInv, TypesSplit DEF IInv
<1>2. Inv /\ [Next]_vars => Inv'
  <2> SUFFICES ASSUME Inv, [Next]_vars
               PROVE  Inv'
    OBVIOUS
  <2>1. IInv
    BY TypesSplit DEF IInv
  <2>2. Scalars' /\ RequestInOrder'
    BY <2>1, ScalarsStep
  <2>3. Streams' /\ Positions'
    BY <2>1, StreamsStep
  <2> QED
    BY <2>1, <2>2, <2>3, ServerPlacedStep, CountsStep, OutcomesStep
<1>3. Inv => IInv
  BY TypesSplit DEF IInv
<1> QED
  BY <1>1, <1>2, <1>3, PTL DEF Spec

\* The values of all variables stay within their types: above all no buffer is
\* overrun and no callback gets more than the announced length
\* (gfclient.c:164-168, 245-275).
THEOREM GetFileTyping == Spec => []TypeOK
<1>1. IInv => TypeOK
  BY DEF IInv
<1> QED
  BY <1>1, Invariance, PTL

\* The result of gfc_perform tells what arrived, for any lengths and however the
\* streams are cut (gfclient.h:87-92).
THEOREM GetFileResultTells == Spec => []ResultTellsOutcome
<1>1. IInv => ResultTellsOutcome
  <2> SUFFICES ASSUME IInv, NEW c \in Clients, cpc[c] = "done"
               PROVE  /\ rc[c] = 0 <=> WholeResponse(c)
                      /\ rc[c] = 0 => rstatus[c] = announced[c]
                      /\ rc[c] = -1 => (rstatus[c] = "OK" <=> HeaderComplete(c))
                      /\ announced[c] # "OK" => got[c] = <<>>
    BY Zenon DEF ResultTellsOutcome
  <2>1. Outcome(c)
    BY DEF IInv, Outcomes
  <2>2. rc[c] \in {0, -1}
    BY TypesSplit DEF IInv, Scalars
  <2>3. Len(got[c]) \in Nat
    BY Numbers DEF IInv
  <2>4. FileLength \in Nat /\ (Len(got[c]) < FileLength => Len(got[c]) # FileLength)
    BY <2>3, GetFileAssumption
  <2> QED
    BY <2>1, <2>2, <2>4 DEF Outcome, WholeResponse
<1> QED
  BY <1>1, Invariance, PTL

\* Every byte of the body is written in its place, but the first one when it came
\* with the header (gfclient.c:189-205).
THEOREM GetFileBodyInPlace == Spec => []BodyInPlace
<1>1. IInv => BodyInPlace
  BY Zenon DEF IInv, Positions, InPlace, BodyInPlace
<1> QED
  BY <1>1, Invariance, PTL
=============================================================================
