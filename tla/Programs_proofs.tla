--------------------------- MODULE Programs_proofs ---------------------------
(***************************************************************************)
(* Proofs about the stand-alone programs, for any clients and requests, any*)
(* length of the file, the bodies, the messages and the buffers, and       *)
(* however the streams are cut into pieces.                                *)
(***************************************************************************)
EXTENDS MCPrograms, SequenceTheorems, TLAPS

-----------------------------------------------------------------------------
(* A stream of items, and the sequences that hold a part of it.            *)

Items(w) == {w[i] : i \in Nat}

\* t holds the items of the stream w behind the first n.
Follows(w, n, t) == t \in Seq(Items(w)) /\ \A i \in 1 .. Len(t) : t[i] = w[n + i]

\* t, which follows n items, cut behind its first k elements.
Cut(w, n, t, k, f, b) ==
    /\ Follows(w, n, f) /\ Len(f) = k
    /\ Follows(w, n + k, b) /\ Len(b) = Len(t) - k

LEMMA CutPieces ==
  ASSUME NEW w, NEW n \in Nat, NEW t, Follows(w, n, t), NEW k \in 1 .. Len(t),
         NEW f, f = SubSeq(t, 1, k), NEW b, b = SubSeq(t, k + 1, Len(t))
  PROVE  Cut(w, n, t, k, f, b)
<1>1. t \in Seq(Items(w)) /\ \A i \in 1 .. Len(t) : t[i] = w[n + i]
  BY DEF Follows
<1>2. k \in Nat /\ 1 <= k /\ k <= Len(t) /\ Len(t) \in Nat
  BY <1>1
<1>3. f \in Seq(Items(w)) /\ Len(f) = k /\ \A i \in 1 .. k : f[i] = t[i]
  BY <1>1, <1>2
<1>4. b \in Seq(Items(w)) /\ Len(b) = Len(t) - k /\ \A i \in 1 .. Len(t) - k : b[i] = t[k + i]
  BY <1>1, <1>2
<1>5. \A i \in 1 .. k : f[i] = w[n + i]
  <2>1. \A i \in 1 .. k : i \in 1 .. Len(t)
    BY <1>2
  <2> QED
    BY <1>1, <1>3, <2>1
<1>6. ASSUME NEW i \in 1 .. Len(t) - k PROVE b[i] = w[(n + k) + i]
  <2>1. k + i \in 1 .. Len(t) /\ n + (k + i) = (n + k) + i
    BY <1>2
  <2> QED
    BY <1>1, <1>4, <2>1
<1> QED
  BY <1>3, <1>4, <1>5, <1>6 DEF Cut, Follows

\* The pieces of t, whatever it holds.
Pieces(S, t, k, f, b) ==
    /\ f \in Seq(S) /\ b \in Seq(S) /\ Len(f) = k /\ Len(b) = Len(t) - k
    /\ k = Len(t) => b = <<>>

LEMMA PiecesTyped ==
  ASSUME NEW S, NEW t \in Seq(S), NEW k \in 1 .. Len(t),
         NEW f, f = SubSeq(t, 1, k), NEW b, b = SubSeq(t, k + 1, Len(t))
  PROVE  Pieces(S, t, k, f, b)
<1>1. k \in Nat /\ 1 <= k /\ k <= Len(t) /\ Len(t) \in Nat
  OBVIOUS
<1>2. f \in Seq(S) /\ Len(f) = k
  BY <1>1
<1>3. b \in Seq(S) /\ Len(b) = Len(t) - k
  BY <1>1
<1>4. k = Len(t) => b = <<>>
  BY <1>1, <1>3
<1> QED
  BY <1>2, <1>3, <1>4 DEF Pieces

Joined(w, n, s, t, u) == Follows(w, n, u) /\ Len(u) = Len(s) + Len(t)

LEMMA JoinPieces ==
  ASSUME NEW w, NEW n \in Nat, NEW s, Follows(w, n, s), NEW t, Follows(w, n + Len(s), t),
         NEW u, u = s \o t
  PROVE  Joined(w, n, s, t, u)
<1>1. /\ s \in Seq(Items(w)) /\ \A i \in 1 .. Len(s) : s[i] = w[n + i]
      /\ t \in Seq(Items(w)) /\ \A i \in 1 .. Len(t) : t[i] = w[(n + Len(s)) + i]
  BY DEF Follows
<1>2. /\ u \in Seq(Items(w)) /\ Len(u) = Len(s) + Len(t)
      /\ Len(s) \in Nat /\ Len(t) \in Nat
      /\ \A i \in 1 .. Len(s) : u[i] = s[i]
      /\ \A i \in 1 .. Len(t) : u[Len(s) + i] = t[i]
  BY <1>1
<1>3. ASSUME NEW i \in 1 .. Len(u) PROVE u[i] = w[n + i]
  <2>1. CASE i \in 1 .. Len(s)
    BY <1>1, <1>2, <2>1
  <2>2. CASE i \notin 1 .. Len(s)
    <3>1. /\ i - Len(s) \in 1 .. Len(t) /\ i = Len(s) + (i - Len(s))
          /\ (n + Len(s)) + (i - Len(s)) = n + i
      BY <1>2, <2>2
    <3>2. u[i] = t[i - Len(s)]
      BY <1>2, <3>1
    <3> QED
      BY <1>1, <3>1, <3>2
  <2> QED
    BY <2>1, <2>2
<1> QED
  BY <1>2, <1>3 DEF Joined, Follows

LEMMA EmptyFollows ==
  ASSUME NEW w, NEW n PROVE Follows(w, n, <<>>) /\ Len(<<>>) = 0
BY DEF Follows

LEMMA BehindZero ==
  ASSUME NEW w, NEW s, Follows(w, 0, s)
  PROVE  Len(s) \in Nat /\ 0 + Len(s) = Len(s)
BY DEF Follows

\* What follows nothing is a beginning of the stream, and what is as long as a
\* beginning is that beginning.
Beginning(u, t) ==
    /\ Len(u) <= Len(t) /\ SubSeq(u, 1, Len(u)) = SubSeq(t, 1, Len(u))
    /\ Len(u) = Len(t) => u = t

LEMMA StreamBegins ==
  ASSUME NEW w, NEW u, Follows(w, 0, u), NEW m \in Nat, Len(u) <= m,
         NEW t, t = [i \in 1 .. m |-> w[i]]
  PROVE  Beginning(u, t) /\ Len(t) = m
<1>1. u \in Seq(Items(w)) /\ Len(u) \in Nat
  BY DEF Follows
<1>2. \A i \in 1 .. Len(u) : u[i] = w[i]
  <2>1. \A i \in 1 .. Len(u) : 0 + i = i
    BY <1>1
  <2> QED
    BY <2>1 DEF Follows
<1>3. t \in Seq(Items(w)) /\ Len(t) = m /\ \A i \in 1 .. m : t[i] = w[i]
  <2>1. \A i \in 1 .. m : w[i] \in Items(w)
    BY DEF Items
  <2> QED
    BY <2>1
<1>4. SubSeq(u, 1, Len(u)) = SubSeq(t, 1, Len(u))
  BY <1>1, <1>2, <1>3
<1>5. Len(u) = m => u = t
  BY <1>1, <1>2, <1>3
<1> QED
  BY <1>3, <1>4, <1>5 DEF Beginning

\* A piece from the middle of t.
Middle(w, n, k, f) == Follows(w, n, f) /\ Len(f) = k

LEMMA MiddlePiece ==
  ASSUME NEW w, NEW t, Follows(w, 0, t), NEW n \in Nat, NEW k \in Nat, n + k <= Len(t),
         NEW f, f = SubSeq(t, n + 1, n + k)
  PROVE  Middle(w, n, k, f)
<1>1. /\ t \in Seq(Items(w)) /\ Len(t) \in Nat
      /\ \A i \in 1 .. Len(t) : t[i] = w[i]
  <2>1. \A i \in 1 .. Len(t) : 0 + i = i
    BY DEF Follows
  <2> QED
    BY <2>1 DEF Follows
<1>2. f \in Seq(Items(w)) /\ Len(f) = k /\ \A i \in 1 .. k : f[i] = t[n + i]
  BY <1>1
<1>3. \A i \in 1 .. k : n + i \in 1 .. Len(t)
  BY <1>1
<1> QED
  BY <1>1, <1>2, <1>3 DEF Middle, Follows

\* A header in front of t, and what comes behind it.
Headed(S, s, t, u) ==
    u \in Seq(S) /\ u # <<>> /\ Head(u) = Head(s) /\ Tail(u) = Tail(s) \o t

LEMMA HeadStays ==
  ASSUME NEW S, NEW s \in Seq(S), s # <<>>, NEW t \in Seq(S), NEW u, u = s \o t
  PROVE  Headed(S, s, t, u)
<1>1. u \in Seq(S) /\ Len(u) = Len(s) + Len(t) /\ Len(s) \in Nat \ {0} /\ Len(t) \in Nat
  OBVIOUS
<1>2. u # <<>> /\ Head(u) = Head(s)
  BY <1>1
<1>3. Tail(u) = Tail(s) \o t
  BY <1>1
<1> QED
  BY <1>1, <1>2, <1>3 DEF Headed

First(S, h, u) == u \in Seq(S) /\ u # <<>> /\ Head(u) = h /\ Tail(u) = <<>>

LEMMA HeadFirst ==
  ASSUME NEW S, NEW h \in S, NEW u, u = <<>> \o <<h>>
  PROVE  First(S, h, u)
<1>1. u = <<h>>
  OBVIOUS
<1> QED
  BY <1>1 DEF First

\* What is cut into pieces and joined again is as long as before.
AddUp(n, k, l) ==
    /\ n + k \in Nat /\ n + k + l \in Nat
    /\ (n + k) + (l - k) = n + l
    /\ n + k + (l - k) = n + 0 + l

LEMMA PiecesAddUp ==
  ASSUME NEW n \in Nat, NEW k \in Nat, NEW l \in Nat
  PROVE  AddUp(n, k, l)
BY DEF AddUp

Sends(a, k, l, m) == a + k <= m /\ (a + k) + (l - k) = a + l

LEMMA SendsAddUp ==
  ASSUME NEW a \in Nat, NEW l \in Nat, NEW k \in 1 .. l, NEW m \in Nat, a + l <= m
  PROVE  Sends(a, k, l, m)
BY DEF Sends

-----------------------------------------------------------------------------
(* The file transfer programs.                                             *)

\* Byte i of the file is the number i.
File == [i \in Nat |-> i]

LEMMA BeginningOfFile ==
  ASSUME NEW u, Follows(File, 0, u), NEW m \in Nat, Len(u) <= m
  PROVE  /\ Transfer!IsPrefix(u, Transfer!Bytes(1, m))
         /\ Len(u) = m => u = Transfer!Bytes(1, m)
<1> DEFINE file == [i \in 1 .. m |-> File[i]]
<1>1. Transfer!Bytes(1, m) = file
  <2>1. m - 1 + 1 = m /\ \A i \in 1 .. m : 1 + i - 1 = i /\ File[i] = i
    BY DEF File
  <2> QED
    BY <2>1 DEF Transfer!Bytes
<1>2. Beginning(u, file) /\ Len(file) = m
  BY StreamBegins
<1> QED
  BY <1>1, <1>2, Zenon DEF Beginning, Transfer!IsPrefix

\* The bytes of the file that c has or is about to receive.
Arrived(c) == Len(output[c]) + Len(msg[c]) + Len(down[c])

TransferTypes ==
    /\ cpc \in [Clients -> {"start", "recv", "write", "done", "failed"}]
    /\ output \in [Clients -> Seq(Items(File))] /\ msg \in [Clients -> Seq(Items(File))]
    /\ down \in [Clients -> Seq(Items(File))]
    /\ conn \in [Clients -> {"open", "eof", "reset"}]
    /\ spc \in {"accept", "read", "send", "stopped"}
    /\ cur \in Clients \cup {Transfer!Nobody}
    /\ pos \in 0 .. FileLength
    /\ rest \in Seq(Items(File))
    /\ cut \subseteq Clients /\ skipped \subseteq Clients

\* The server has a connection of a client that has connected, and it is open;
\* outside the inner loop the buffer is empty.
Serving ==
    /\ cur = Transfer!Nobody <=> spc \in {"accept", "stopped"}
    /\ cur # Transfer!Nobody => conn[cur] = "open" /\ cpc[cur] # "start"
    /\ spc # "send" => rest = <<>>

\* What c has follows each other without a hole.
Flows(c) ==
    /\ Follows(File, 0, output[c])
    /\ Follows(File, Len(output[c]), msg[c])
    /\ Follows(File, Len(output[c]) + Len(msg[c]), down[c])

\* How much c has got, while it waits, while it is served, and afterwards.
Progress(c) ==
    /\ Arrived(c) <= FileLength
    /\ cpc[c] \in {"start", "recv", "done"} => msg[c] = <<>>
    /\ cpc[c] = "done" => down[c] = <<>> /\ conn[c] = "eof"
    /\ c # cur /\ conn[c] = "open" => Arrived(c) = 0
    /\ c = cur /\ ~ Transfer!Ended(c) =>
          Follows(File, Arrived(c), rest) /\ Arrived(c) + Len(rest) = pos
    /\ conn[c] = "eof" /\ cpc[c] # "failed" => c \in cut \/ Arrived(c) = FileLength

\* A client in whose stream a failed send left a hole is told nothing about.
TransferInv ==
    TransferTypes /\ Serving /\ \A c \in Clients \ skipped : Flows(c) /\ Progress(c)

LEMMA TransferConstants ==
  /\ FileLength \in Nat /\ BufSize \in Nat \ {0} /\ Transfer!Nobody \notin Clients
BY ProgramsAssumption DEF Transfer!Constraints

LEMMA TransferInit == Transfer!Init => TransferInv
<1> SUFFICES ASSUME Transfer!Init PROVE TransferInv
  OBVIOUS
<1> USE DEF Transfer!Init
<1>1. TransferTypes
  BY TransferConstants DEF TransferTypes
<1>2. Serving
  BY DEF Serving
<1>3. ASSUME NEW c \in Clients PROVE Flows(c) /\ Progress(c)
  <2>1. output[c] = <<>> /\ msg[c] = <<>> /\ down[c] = <<>> /\ cpc[c] = "start"
        /\ conn[c] = "open" /\ c # cur
    BY TransferConstants
  <2>2. Len(<<>>) = 0 /\ 0 + 0 = 0 /\ 0 + 0 + 0 = 0 /\ 0 <= FileLength
    BY TransferConstants
  <2>3. Arrived(c) = 0
    BY <2>1, <2>2 DEF Arrived
  <2>4. Flows(c)
    BY <2>1, <2>2, EmptyFollows, Zenon DEF Flows
  <2> QED
    BY <2>1, <2>2, <2>3, <2>4, Zenon DEF Progress
<1> QED
  BY <1>1, <1>2, <1>3 DEF TransferInv

\* The numbers of a client that the proofs calculate with.
LEMMA ClientNumbers ==
  ASSUME TransferTypes, NEW c \in Clients
  PROVE  /\ output[c] \in Seq(Items(File)) /\ msg[c] \in Seq(Items(File)) /\ down[c] \in Seq(Items(File))
         /\ Len(output[c]) \in Nat /\ Len(msg[c]) \in Nat /\ Len(down[c]) \in Nat
         /\ Arrived(c) \in Nat
         /\ Arrived(c) = Len(output[c]) + Len(msg[c]) + Len(down[c])
<1>1. output[c] \in Seq(Items(File)) /\ msg[c] \in Seq(Items(File)) /\ down[c] \in Seq(Items(File))
  BY DEF TransferTypes
<1>2. Len(output[c]) \in Nat /\ Len(msg[c]) \in Nat /\ Len(down[c]) \in Nat
  BY <1>1
<1>3. Arrived(c) = Len(output[c]) + Len(msg[c]) + Len(down[c])
  BY Zenon DEF Arrived
<1>4. AddUp(Len(output[c]), Len(msg[c]), Len(down[c]))
  BY <1>2, PiecesAddUp, Zenon
<1>5. Arrived(c) \in Nat
  BY <1>3, <1>4, Zenon DEF AddUp
<1> QED
  BY <1>1, <1>2, <1>3, <1>5

\* A client that a step leaves alone, and whose place at the server it keeps.
LEMMA SameClient ==
  ASSUME NEW c \in Clients, Flows(c), Progress(c),
         cpc'[c] = cpc[c], conn'[c] = conn[c],
         output'[c] = output[c], msg'[c] = msg[c], down'[c] = down[c],
         c = cur' <=> c = cur, c = cur => rest' = rest /\ pos' = pos,
         c \in cut => c \in cut'
  PROVE  Flows(c)' /\ Progress(c)'
<1>1. Flows(c)'
  BY Zenon DEF Flows
<1>2. Arrived(c)' = Arrived(c)
  BY Zenon DEF Arrived
<1>3. Transfer!Ended(c)' <=> Transfer!Ended(c)
  BY Zenon DEF Transfer!Ended
<1>4. Progress(c)'
  BY <1>2, <1>3, Zenon DEF Progress
<1> QED
  BY <1>1, <1>4

LEMMA TransferClientTypes ==
  ASSUME TransferTypes, NEW c \in Clients, Transfer!ClientStep(c)
  PROVE  TransferTypes'
<1>1. /\ msg[c] \in Seq(Items(File)) /\ down[c] \in Seq(Items(File))
      /\ output[c] \in Seq(Items(File))
  BY DEF TransferTypes
<1>2. UNCHANGED <<spc, cur, pos, rest, cut, skipped>>
  <2>1. UNCHANGED Transfer!server
    BY Zenon DEF Transfer!ClientStep, Transfer!Connect, Transfer!StreamEnds,
                 Transfer!WriteFails, Transfer!Recv, Transfer!Write
  <2> QED
    BY <2>1, Zenon DEF Transfer!server
<1>3. CASE Transfer!Connect(c) \/ Transfer!StreamEnds(c) \/ Transfer!WriteFails(c)
  BY <1>2, <1>3 DEF TransferTypes, Transfer!Connect, Transfer!StreamEnds, Transfer!WriteFails
<1>4. ASSUME NEW k \in 1 .. Len(down[c]), Transfer!Recv(c, k)
      PROVE  TransferTypes'
  <2> DEFINE f == SubSeq(down[c], 1, k)
             b == SubSeq(down[c], k + 1, Len(down[c]))
  <2>1. f \in Seq(Items(File)) /\ b \in Seq(Items(File))
    BY <1>1, PiecesTyped DEF Pieces
  <2>2. /\ UNCHANGED <<output, conn>> /\ msg' = [msg EXCEPT ![c] = f]
        /\ down' = [down EXCEPT ![c] = b] /\ cpc' = [cpc EXCEPT ![c] = "write"]
    BY <1>4, Zenon DEF Transfer!Recv
  <2> HIDE DEF f, b
  <2> QED
    BY <1>2, <2>1, <2>2 DEF TransferTypes
<1>5. ASSUME NEW k \in 1 .. Len(msg[c]), Transfer!Write(c, k)
      PROVE  TransferTypes'
  <2> DEFINE f == SubSeq(msg[c], 1, k)
             b == SubSeq(msg[c], k + 1, Len(msg[c]))
             u == output[c] \o f
  <2>1. f \in Seq(Items(File)) /\ b \in Seq(Items(File))
    BY <1>1, PiecesTyped DEF Pieces
  <2>2. /\ UNCHANGED <<down, conn>> /\ msg' = [msg EXCEPT ![c] = b]
        /\ output' = [output EXCEPT ![c] = u]
        /\ cpc' = [cpc EXCEPT ![c] = IF k = Len(msg[c]) THEN "recv" ELSE "write"]
    BY <1>5, Zenon DEF Transfer!Write
  <2> HIDE DEF f, b
  <2>3. u \in Seq(Items(File))
    BY <1>1, <2>1
  <2> HIDE DEF u
  <2> QED
    BY <1>2, <2>1, <2>2, <2>3 DEF TransferTypes
<1> QED
  BY <1>3, <1>4, <1>5, Zenon DEF Transfer!ClientStep

\* A step of a client leaves the other clients and the server alone.
LEMMA TransferClient ==
  ASSUME TransferInv, NEW c \in Clients, Transfer!ClientStep(c)
  PROVE  TransferInv'
<1>1. TransferTypes /\ Serving /\ \A d \in Clients \ skipped : Flows(d) /\ Progress(d)
  BY DEF TransferInv
<1>3. /\ output[c] \in Seq(Items(File)) /\ msg[c] \in Seq(Items(File)) /\ down[c] \in Seq(Items(File))
      /\ Len(output[c]) \in Nat /\ Len(msg[c]) \in Nat /\ Len(down[c]) \in Nat
      /\ Arrived(c) \in Nat
      /\ Arrived(c) = Len(output[c]) + Len(msg[c]) + Len(down[c])
  BY <1>1, ClientNumbers
<1>4. /\ UNCHANGED <<spc, cur, pos, rest, cut, skipped>>
      /\ conn' = conn \/ (spc = "stopped" /\ conn' = [conn EXCEPT ![c] = "reset"])
  <2> USE DEF Transfer!server
  <2>1. CASE Transfer!Connect(c)
    BY <2>1, Zenon DEF Transfer!Connect
  <2>2. CASE Transfer!StreamEnds(c) \/ Transfer!WriteFails(c)
    BY <2>2, Zenon DEF Transfer!StreamEnds, Transfer!WriteFails
  <2>3. CASE \E k \in 1 .. Len(down[c]) : Transfer!Recv(c, k)
    BY <2>3, Zenon DEF Transfer!Recv
  <2>4. CASE \E k \in 1 .. Len(msg[c]) : Transfer!Write(c, k)
    BY <2>4, Zenon DEF Transfer!Write
  <2> QED
    BY <2>1, <2>2, <2>3, <2>4 DEF Transfer!ClientStep
<1>5. Serving'
  <2>1. cur # Transfer!Nobody => conn' = conn /\ cpc'[cur] # "start"
    <3>1. \A d \in Clients : cpc[d] # "start" => cpc'[d] # "start"
      BY <1>1 DEF TransferTypes,
         Transfer!ClientStep, Transfer!Connect, Transfer!StreamEnds, Transfer!WriteFails,
         Transfer!Recv, Transfer!Write
    <3> QED
      BY <1>1, <1>4, <3>1 DEF TransferTypes, Serving
  <2> QED
    BY <1>1, <1>4, <2>1, Zenon DEF Serving
<1>6. ASSUME NEW d \in Clients \ skipped, d # c PROVE Flows(d)' /\ Progress(d)'
  <2>1. /\ cpc'[d] = cpc[d] /\ conn'[d] = conn[d]
        /\ output'[d] = output[d] /\ msg'[d] = msg[d] /\ down'[d] = down[d]
    BY <1>1, <1>6 DEF TransferTypes,
       Transfer!ClientStep, Transfer!Connect, Transfer!StreamEnds, Transfer!WriteFails,
       Transfer!Recv, Transfer!Write
  <2>2. Flows(d) /\ Progress(d)
    BY <1>1
  <2> QED
    BY <1>4, <2>1, <2>2, SameClient
<1>7. SUFFICES ASSUME c \notin skipped
               PROVE  TransferTypes' /\ Flows(c)' /\ Progress(c)'
  BY <1>1, <1>4, <1>5, <1>6, TransferClientTypes DEF TransferInv
<1>f. Flows(c) /\ Progress(c)
  BY <1>1, <1>7
<1>8. CASE Transfer!Connect(c)
  <2>1. /\ cpc[c] = "start" /\ UNCHANGED <<msg, output, down>>
        /\ \/ /\ cpc' = [cpc EXCEPT ![c] = "failed"]
              /\ conn' = conn \/ conn' = [conn EXCEPT ![c] = "reset"]
           \/ cpc' = [cpc EXCEPT ![c] = "recv"] /\ conn' = conn
    BY <1>8, Zenon DEF Transfer!Connect
  <2>2. TransferTypes'
    BY <1>1, <1>4, <2>1 DEF TransferTypes
  <2>3. Flows(c)' /\ Arrived(c)' = Arrived(c)
    BY <1>f, <2>1 DEF Flows, Arrived
  <2>4. \/ cpc'[c] = "failed" /\ conn'[c] \in {conn[c], "reset"}
        \/ cpc'[c] = "recv" /\ conn'[c] = conn[c]
    BY <1>1, <2>1 DEF TransferTypes
  <2>5. Progress(c)'
    BY <1>f, <1>4, <2>1, <2>3, <2>4 DEF Progress, Transfer!Ended
  <2> QED
    BY <2>2, <2>3, <2>5
<1>9. CASE Transfer!StreamEnds(c) \/ Transfer!WriteFails(c)
  <2>1. /\ cpc[c] \in {"recv", "write"} /\ UNCHANGED <<msg, output, down, conn>>
        /\ \/ cpc' = [cpc EXCEPT ![c] = "failed"]
           \/ /\ cpc' = [cpc EXCEPT ![c] = "done"]
              /\ down[c] = <<>> /\ conn[c] = "eof" /\ cpc[c] = "recv"
    BY <1>9 DEF Transfer!StreamEnds, Transfer!WriteFails
  <2>2. TransferTypes'
    BY <1>1, <1>4, <2>1 DEF TransferTypes
  <2>3. Flows(c)' /\ Arrived(c)' = Arrived(c)
    BY <1>f, <2>1 DEF Flows, Arrived
  <2>4. \/ cpc'[c] = "failed"
        \/ cpc'[c] = "done" /\ down[c] = <<>> /\ conn[c] = "eof" /\ cpc[c] = "recv"
    BY <1>1, <2>1 DEF TransferTypes
  <2>5. Progress(c)'
    BY <1>f, <1>4, <2>1, <2>3, <2>4, Zenon DEF Progress, Transfer!Ended
  <2> QED
    BY <2>2, <2>3, <2>5
<1>10. CASE \E k \in 1 .. Len(down[c]) : Transfer!Recv(c, k)
  <2>1. PICK k \in 1 .. Len(down[c]) : Transfer!Recv(c, k)
    BY <1>10
  <2> DEFINE f == SubSeq(down[c], 1, k)
             b == SubSeq(down[c], k + 1, Len(down[c]))
             n == Len(output[c])
  <2>2. /\ cpc[c] = "recv" /\ UNCHANGED <<output, conn>>
        /\ msg' = [msg EXCEPT ![c] = f]
        /\ down' = [down EXCEPT ![c] = b]
        /\ cpc' = [cpc EXCEPT ![c] = "write"]
    BY <2>1 DEF Transfer!Recv
  <2> HIDE DEF n
  <2>3. msg[c] = <<>> /\ Len(msg[c]) = 0
    BY <1>f, <2>2 DEF Progress
  <2>4. n \in Nat /\ n + Len(msg[c]) = n /\ n = Len(output[c])
    BY <1>3, <2>3 DEF n
  <2>5. Follows(File, n, down[c])
    BY <1>f, <2>4 DEF Flows
  <2>6. Cut(File, n, down[c], k, f, b)
    BY <2>4, <2>5, CutPieces
  <2> HIDE DEF f, b
  <2>7. /\ Follows(File, n, f) /\ Len(f) = k /\ Follows(File, n + Len(f), b) /\ Len(b) = Len(down[c]) - k
        /\ f \in Seq(Items(File)) /\ b \in Seq(Items(File))
    BY <2>6 DEF Cut, Follows
  <2>8. TransferTypes'
    BY <1>1, <1>4, <2>2, <2>7 DEF TransferTypes
  <2>9. output'[c] = output[c] /\ msg'[c] = f /\ down'[c] = b /\ cpc'[c] = "write"
        /\ conn'[c] = conn[c]
    BY <1>1, <2>2 DEF TransferTypes
  <2>10. Flows(c)'
    BY <1>f, <2>4, <2>7, <2>9, Zenon DEF Flows
  <2>11. Arrived(c)' = Arrived(c)
    <3>1. Arrived(c)' = n + k + (Len(down[c]) - k)
      BY <2>4, <2>7, <2>9, Zenon DEF Arrived
    <3>2. k \in Nat
      BY <1>3
    <3>3. AddUp(n, k, Len(down[c]))
      BY <1>3, <2>4, <3>2, PiecesAddUp, Zenon
    <3> QED
      BY <1>3, <2>3, <2>4, <3>1, <3>3, Zenon DEF AddUp
  <2>12. Progress(c)'
    BY <1>f, <1>4, <2>2, <2>9, <2>11, Zenon DEF Progress, Transfer!Ended
  <2> QED
    BY <2>8, <2>10, <2>12
<1>11. CASE \E k \in 1 .. Len(msg[c]) : Transfer!Write(c, k)
  <2>1. PICK k \in 1 .. Len(msg[c]) : Transfer!Write(c, k)
    BY <1>11
  <2> DEFINE f == SubSeq(msg[c], 1, k)
             b == SubSeq(msg[c], k + 1, Len(msg[c]))
             u == output[c] \o f
             n == Len(output[c])
  <2>2. /\ cpc[c] = "write" /\ UNCHANGED <<down, conn>>
        /\ output' = [output EXCEPT ![c] = u]
        /\ msg' = [msg EXCEPT ![c] = b]
        /\ cpc' = [cpc EXCEPT ![c] = IF k = Len(msg[c]) THEN "recv" ELSE "write"]
    BY <2>1 DEF Transfer!Write
  <2> HIDE DEF n
  <2>3. n \in Nat /\ n = Len(output[c]) /\ 0 + n = n /\ 0 \in Nat
    BY <1>3 DEF n
  <2>4. Follows(File, 0, output[c]) /\ Follows(File, n, msg[c]) /\ Follows(File, n + Len(msg[c]), down[c])
    BY <1>f, <2>3 DEF Flows
  <2>5. Cut(File, n, msg[c], k, f, b)
    BY <2>3, <2>4, CutPieces
  <2> HIDE DEF f, b
  <2>6. Follows(File, n, f) /\ Len(f) = k /\ Follows(File, n + k, b) /\ Len(b) = Len(msg[c]) - k
    BY <2>5 DEF Cut
  <2>7. Joined(File, 0, output[c], f, u)
    <3>1. Follows(File, 0 + Len(output[c]), f)
      BY <2>3, <2>6
    <3> QED
      BY <2>3, <2>4, <3>1, JoinPieces
  <2> HIDE DEF u
  <2>8. Follows(File, 0, u) /\ Len(u) = n + k /\ u \in Seq(Items(File)) /\ b \in Seq(Items(File))
    BY <2>3, <2>6, <2>7 DEF Joined, Follows
  <2>9. TransferTypes'
    BY <1>1, <1>4, <2>2, <2>8 DEF TransferTypes
  <2>10. /\ output'[c] = u /\ msg'[c] = b /\ down'[c] = down[c] /\ conn'[c] = conn[c]
         /\ cpc'[c] = IF k = Len(msg[c]) THEN "recv" ELSE "write"
    BY <1>1, <2>2 DEF TransferTypes
  <2>11. Len(u) + Len(b) = n + Len(msg[c])
    <3>1. k \in Nat
      BY <1>3
    <3>2. AddUp(n, k, Len(msg[c]))
      BY <1>3, <2>3, <3>1, PiecesAddUp, Zenon
    <3> QED
      BY <2>6, <2>8, <3>2, Zenon DEF AddUp
  <2>12. Flows(c)'
    BY <2>4, <2>6, <2>8, <2>10, <2>11, Zenon DEF Flows
  <2>13. Arrived(c)' = Arrived(c)
    BY <1>3, <2>3, <2>10, <2>11, Zenon DEF Arrived
  <2>14. cpc'[c] \in {"recv", "write"} /\ (cpc'[c] = "recv" => b = <<>>)
    BY <1>3, <2>6, <2>8, <2>10
  <2>15. Progress(c)'
    BY <1>f, <1>4, <2>2, <2>10, <2>13, <2>14 DEF Progress, Transfer!Ended
  <2> QED
    BY <2>9, <2>12, <2>15
<1> QED
  BY <1>8, <1>9, <1>10, <1>11 DEF Transfer!ClientStep

\* Wherever the server stops, its own client is cut off and those that wait are
\* reset.
LEMMA TransferStop == TransferInv /\ Transfer!Stop => TransferInv'
<1> SUFFICES ASSUME TransferInv, Transfer!Stop PROVE TransferInv'
  OBVIOUS
<1>1. TransferTypes /\ Serving /\ \A d \in Clients \ skipped : Flows(d) /\ Progress(d)
  BY DEF TransferInv
<1>2. /\ spc' = "stopped" /\ cur' = Transfer!Nobody /\ rest' = <<>>
      /\ cut' = cut \cup {c \in Clients : c = cur}
      /\ UNCHANGED <<pos, down, skipped, cpc, msg, output>>
      /\ conn' = [c \in Clients |->
                     IF ~ Transfer!Open(c) THEN conn[c]
                     ELSE IF c = cur THEN "eof" ELSE "reset"]
  BY Zenon DEF Transfer!Stop, Transfer!client
<1>3. TransferTypes'
  BY <1>1, <1>2 DEF TransferTypes
<1>4. Serving'
  BY <1>2, Zenon DEF Serving
<1>5. ASSUME NEW c \in Clients \ skipped PROVE Flows(c)' /\ Progress(c)'
  <2>1. Flows(c) /\ Progress(c)
    BY <1>1
  <2>2. Flows(c)' /\ Arrived(c)' = Arrived(c)
    BY <1>2, <2>1 DEF Flows, Arrived
  <2>3. cpc'[c] = cpc[c] /\ msg'[c] = msg[c] /\ down'[c] = down[c] /\ c # cur'
    BY <1>2, TransferConstants
  <2>4. /\ (c \in cut => c \in cut') /\ (c = cur => c \in cut')
        /\ conn'[c] = IF ~ (cpc[c] # "start" /\ conn[c] = "open") THEN conn[c]
                      ELSE IF c = cur THEN "eof" ELSE "reset"
    BY <1>2 DEF Transfer!Open
  <2>5. c = cur => cpc[c] # "start"
    BY <1>1, TransferConstants DEF Serving
  <2>6. Progress(c)'
    BY <2>1, <2>2, <2>3, <2>4, <2>5 DEF Progress
  <2> QED
    BY <2>2, <2>6
<1> QED
  BY <1>2, <1>3, <1>4, <1>5 DEF TransferInv

LEMMA NextBytes ==
  ASSUME NEW a \in Nat, NEW b \in Nat, a <= b
  PROVE  Follows(File, a, Transfer!Bytes(a + 1, b)) /\ a + Len(Transfer!Bytes(a + 1, b)) = b
<1> DEFINE bytes == [i \in 1 .. b - a |-> File[a + i]]
<1>1. Transfer!Bytes(a + 1, b) = bytes
  <2>1. /\ b - (a + 1) + 1 = b - a
        /\ \A i \in 1 .. b - a : a + 1 + i - 1 = a + i /\ File[a + i] = a + i
    BY DEF File
  <2> QED
    BY <2>1 DEF Transfer!Bytes
<1>2. b - a \in Nat /\ \A i \in 1 .. b - a : a + i \in Nat
  OBVIOUS
<1>3. /\ bytes \in Seq(Items(File)) /\ Len(bytes) = b - a
      /\ \A i \in 1 .. b - a : bytes[i] = File[a + i]
  <2>1. \A i \in 1 .. b - a : File[a + i] \in Items(File)
    BY <1>2 DEF Items
  <2> QED
    BY <1>2, <2>1
<1> HIDE DEF bytes
<1>4. Follows(File, a, bytes) /\ a + Len(bytes) = b
  BY <1>3 DEF Follows
<1> QED
  BY <1>1, <1>4

\* A step of the server that is no stop changes at most the client it serves.
LEMMA TransferReads ==
  ASSUME TransferInv,
         (\E c \in Clients : Transfer!Accept(c)) \/ Transfer!Read \/ Transfer!ReadEnds
  PROVE  TransferInv'
<1> USE TransferConstants
<1>1. TransferTypes /\ Serving /\ \A d \in Clients \ skipped : Flows(d) /\ Progress(d)
  BY DEF TransferInv
<1>2. UNCHANGED <<cpc, msg, output, down, skipped>>
  BY Zenon DEF Transfer!Accept, Transfer!Read, Transfer!ReadEnds, Transfer!client
<1>3. ASSUME NEW d \in Clients \ skipped PROVE Flows(d)' /\ Arrived(d)' = Arrived(d) /\ Arrived(d) \in Nat
  <2>1. Flows(d) /\ Arrived(d) \in Nat
    BY <1>1, ClientNumbers
  <2> QED
    BY <1>2, <2>1, Zenon DEF Flows, Arrived
<1>4. CASE \E c \in Clients : Transfer!Accept(c)
  <2>1. PICK c \in Clients : Transfer!Accept(c)
    BY <1>4
  <2>2. /\ spc = "accept" /\ spc' = "read" /\ cur' = c /\ pos' = 0
        /\ cpc[c] # "start" /\ conn[c] = "open"
        /\ UNCHANGED <<rest, cut, conn>>
    BY <2>1, Zenon DEF Transfer!Accept, Transfer!Open
  <2>3. cur = Transfer!Nobody /\ c # cur /\ rest = <<>>
    BY <1>1, <2>2 DEF Serving
  <2>4. TransferTypes' /\ Serving'
    BY <1>1, <1>2, <2>2, <2>3 DEF TransferTypes, Serving
  <2>5. ASSUME c \notin skipped PROVE Progress(c)'
    <3>1. Arrived(c) = 0 /\ Progress(c)
      BY <1>1, <2>2, <2>3, <2>5 DEF Progress
    <3>2. Follows(File, 0, rest') /\ 0 + Len(rest') = 0
      BY <2>2, <2>3, EmptyFollows
    <3>3. /\ Arrived(c)' = 0 /\ cpc' = cpc /\ msg' = msg /\ down' = down /\ conn' = conn
          /\ cut' = cut /\ cur' = c /\ pos' = 0
      BY <1>2, <1>3, <2>2, <2>5, <3>1
    <3> QED
      BY <3>1, <3>2, <3>3, Zenon DEF Progress
  <2>6. ASSUME NEW d \in Clients \ skipped, d # c PROVE Progress(d)'
    <3>1. Progress(d) /\ d # cur
      BY <1>1, <2>3
    <3>2. Arrived(d)' = Arrived(d)
      BY <1>3
    <3> QED
      BY <1>2, <2>2, <2>6, <3>1, <3>2, Zenon DEF Progress
  <2> QED
    BY <1>2, <1>3, <2>4, <2>5, <2>6 DEF TransferInv
<1>5. CASE Transfer!Read
  <2>1. /\ spc = "read" /\ spc' = "send" /\ pos < FileLength
        /\ pos' = Transfer!Smaller(pos + BufSize, FileLength)
        /\ rest' = Transfer!Bytes(pos + 1, pos')
        /\ UNCHANGED <<cur, cut, conn>>
    BY <1>5, Zenon DEF Transfer!Read
  <2>2. rest = <<>> /\ cur # Transfer!Nobody
    BY <1>1, <2>1 DEF Serving
  <2>3. pos \in Nat /\ pos' \in Nat /\ pos <= pos' /\ pos' <= FileLength
    BY <1>1, <2>1 DEF TransferTypes, Transfer!Smaller
  <2>4. Follows(File, pos, rest') /\ pos + Len(rest') = pos'
    BY <2>1, <2>3, NextBytes
  <2>5. TransferTypes'
    BY <1>1, <1>2, <2>1, <2>3, <2>4 DEF TransferTypes, Follows
  <2>6. Serving'
    BY <1>1, <1>2, <2>1, Zenon DEF Serving
  <2>7. ASSUME NEW c \in Clients \ skipped PROVE Progress(c)'
    <3>1. Progress(c) /\ Arrived(c) \in Nat /\ Arrived(c)' = Arrived(c)
      BY <1>1, <1>3
    <3>2. c = cur /\ ~ Transfer!Ended(c) => Arrived(c) = pos
      <4>1. c = cur /\ ~ Transfer!Ended(c) => Arrived(c) + Len(rest) = pos
        BY <3>1, Zenon DEF Progress
      <4>2. Len(rest) = 0 /\ Arrived(c) + 0 = Arrived(c)
        BY <2>2, <3>1
      <4> QED
        BY <4>1, <4>2
    <3> QED
      BY <1>2, <2>1, <2>4, <3>1, <3>2, Zenon DEF Progress, Transfer!Ended
  <2> QED
    BY <1>2, <1>3, <2>5, <2>6, <2>7 DEF TransferInv
<1>6. CASE Transfer!ReadEnds
  <2>1. /\ spc = "read" /\ spc' = "accept" /\ cur' = Transfer!Nobody
        /\ cut' = IF pos < FileLength THEN cut \cup {cur} ELSE cut
        /\ conn' = [conn EXCEPT ![cur] = "eof"]
        /\ UNCHANGED <<pos, rest>>
    BY <1>6, Zenon DEF Transfer!ReadEnds
  <2>2. rest = <<>> /\ cur # Transfer!Nobody /\ cur \in Clients /\ conn[cur] = "open"
    BY <1>1, <2>1 DEF Serving, TransferTypes
  <2>3. TransferTypes'
    BY <1>1, <1>2, <2>1, <2>2 DEF TransferTypes
  <2>4. Serving'
    BY <2>1, <2>2, Zenon DEF Serving
  <2>5. ASSUME NEW c \in Clients \ skipped, c # cur PROVE Progress(c)'
    <3>1. Progress(c) /\ Arrived(c)' = Arrived(c)
      BY <1>1, <1>3
    <3>2. conn'[c] = conn[c] /\ (c \in cut => c \in cut') /\ c # cur'
      BY <1>1, <2>1, <2>5 DEF TransferTypes
    <3> QED
      BY <1>2, <2>5, <3>1, <3>2, Zenon DEF Progress
  <2>6. \A c \in Clients \ skipped : c = cur => Progress(c)'
    <3> SUFFICES ASSUME NEW c \in Clients \ skipped, c = cur PROVE Progress(c)'
      OBVIOUS
    <3>1. Progress(c) /\ Arrived(c)' = Arrived(c) /\ Arrived(c) \in Nat
      BY <1>1, <1>3
    <3>2. conn'[c] = "eof" /\ conn[c] = "open" /\ (pos < FileLength => c \in cut') /\ c # cur'
      BY <1>1, <2>1, <2>2 DEF TransferTypes
    <3>3. cpc[c] # "done"
      BY <3>1, <3>2 DEF Progress
    <3>4. cpc[c] # "failed" => Arrived(c) = pos
      <4>1. cpc[c] # "failed" => Arrived(c) + Len(rest) = pos
        BY <3>1, <3>3 DEF Progress, Transfer!Ended
      <4>2. Len(rest) = 0 /\ Arrived(c) + 0 = Arrived(c)
        BY <2>2, <3>1
      <4> QED
        BY <4>1, <4>2
    <3>5. pos < FileLength \/ pos = FileLength
      BY <1>1 DEF TransferTypes
    <3> QED
      BY <1>2, <3>1, <3>2, <3>3, <3>4, <3>5, Zenon DEF Progress
  <2> QED
    BY <1>2, <1>3, <2>3, <2>4, <2>5, <2>6 DEF TransferInv
<1> QED
  BY <1>4, <1>5, <1>6

LEMMA TransferSend ==
  ASSUME TransferInv, NEW k \in 1 .. Len(rest), Transfer!Send(k)
  PROVE  TransferInv'
<1> USE TransferConstants
<1>1. TransferTypes /\ Serving /\ \A d \in Clients \ skipped : Flows(d) /\ Progress(d)
  BY DEF TransferInv
<1> DEFINE f == SubSeq(rest, 1, k)
           b == SubSeq(rest, k + 1, Len(rest))
<1>2. /\ spc = "send" /\ UNCHANGED <<cpc, msg, output, cur, pos, cut, skipped, conn>>
      /\ down' = IF Transfer!Ended(cur) THEN down ELSE [down EXCEPT ![cur] = down[cur] \o f]
      /\ rest' = b
      /\ spc' = IF k = Len(rest) THEN "read" ELSE "send"
  BY Zenon DEF Transfer!Send, Transfer!client
<1>3. cur \in Clients /\ conn[cur] = "open" /\ cpc[cur] # "start"
  BY <1>1, <1>2 DEF Serving, TransferTypes
<1>4. PICK c \in Clients : c = cur
  BY <1>3
<1>5. /\ rest \in Seq(Items(File)) /\ Len(rest) \in Nat /\ k \in Nat
      /\ f \in Seq(Items(File)) /\ b \in Seq(Items(File)) /\ Len(b) = Len(rest) - k
      /\ k = Len(rest) => b = <<>>
  <2>1. rest \in Seq(Items(File))
    BY <1>1 DEF TransferTypes
  <2>2. Len(rest) \in Nat /\ k \in Nat
    BY <2>1
  <2>3. Pieces(Items(File), rest, k, f, b)
    BY <2>1, PiecesTyped
  <2> QED
    BY <2>1, <2>2, <2>3, Zenon DEF Pieces
<1>6. c \notin skipped => Flows(c) /\ Progress(c)
  BY <1>1
<1>7. /\ output[c] \in Seq(Items(File)) /\ msg[c] \in Seq(Items(File)) /\ down[c] \in Seq(Items(File))
      /\ Len(output[c]) \in Nat /\ Len(msg[c]) \in Nat /\ Len(down[c]) \in Nat
      /\ Arrived(c) \in Nat
      /\ Arrived(c) = Len(output[c]) + Len(msg[c]) + Len(down[c])
  BY <1>1, ClientNumbers
<1>8. Serving'
  BY <1>1, <1>2, <1>3, <1>5, Zenon DEF Serving
<1>9. CASE Transfer!Ended(c)
  <2>1. down' = down
    BY <1>2, <1>4, <1>9
  <2>2. TransferTypes'
    BY <1>1, <1>2, <1>5, <2>1 DEF TransferTypes
  <2>3. ASSUME NEW d \in Clients \ skipped PROVE Flows(d)' /\ Progress(d)'
    <3>1. Flows(d) /\ Progress(d)
      BY <1>1
    <3>2. Flows(d)' /\ Arrived(d)' = Arrived(d)
      BY <1>2, <2>1, <3>1, Zenon DEF Flows, Arrived
    <3>3. d = cur => Transfer!Ended(d)
      BY <1>4, <1>9
    <3>4. Progress(d)'
      BY <1>2, <2>1, <3>1, <3>2, <3>3, Zenon DEF Progress, Transfer!Ended
    <3> QED
      BY <3>2, <3>4
  <2> QED
    BY <1>2, <1>8, <2>2, <2>3 DEF TransferInv
<1>10. ASSUME NEW d \in Clients \ skipped, d # c
       PROVE  Flows(d)' /\ Progress(d)'
  <2>1. Flows(d) /\ Progress(d) /\ d # cur
    BY <1>1, <1>4, <1>10
  <2>2. down'[d] = down[d]
    BY <1>1, <1>2, <1>4, <1>10 DEF TransferTypes
  <2> QED
    BY <1>2, <2>1, <2>2, SameClient
<1>11. TransferTypes'
  <2>1. /\ UNCHANGED <<cpc, msg, output, cur, pos, cut, skipped, conn>>
        /\ spc' \in {"read", "send"} /\ rest' \in Seq(Items(File))
    BY <1>2, <1>5, Zenon
  <2>2. down[c] \o f \in Seq(Items(File))
    BY <1>5, <1>7
  <2>3. down' \in [Clients -> Seq(Items(File))]
    BY <1>1, <1>2, <1>4, <2>2 DEF TransferTypes
  <2> QED
    BY <1>1, <2>1, <2>3 DEF TransferTypes
<1>12. CASE c \in skipped
  <2>1. \A d \in Clients \ skipped : Flows(d)' /\ Progress(d)'
    BY <1>10, <1>12
  <2> QED
    BY <1>2, <1>8, <1>11, <2>1 DEF TransferInv
<1>13. CASE ~ Transfer!Ended(c) /\ c \notin skipped
  <2> DEFINE u == down[c] \o f
             n == Len(output[c]) + Len(msg[c])
             a == Arrived(c)
  <2>1. down' = [down EXCEPT ![c] = u]
    BY <1>2, <1>4, <1>13
  <2>2. Follows(File, a, rest) /\ a + Len(rest) = pos
    BY <1>4, <1>6, <1>13, Zenon DEF Progress
  <2>3. Cut(File, a, rest, k, f, b)
    BY <1>7, <2>2, CutPieces
  <2> HIDE DEF f, b
  <2>4. Follows(File, a, f) /\ Len(f) = k /\ Follows(File, a + k, b)
    BY <2>3, Zenon DEF Cut
  <2>5. n \in Nat /\ n + Len(down[c]) = a
    <3>1. n \in Nat
      BY <1>7, PiecesAddUp, Zenon DEF AddUp
    <3> QED
      BY <1>7, <3>1, Zenon
  <2>6. Follows(File, n, down[c])
    BY <1>6, <1>13, Zenon DEF Flows
  <2> HIDE DEF n, a
  <2>7. Follows(File, n + Len(down[c]), f)
    BY <2>4, <2>5
  <2>8. Joined(File, n, down[c], f, u)
    BY <2>5, <2>6, <2>7, JoinPieces
  <2> HIDE DEF u
  <2>9. Follows(File, n, u) /\ Len(u) = Len(down[c]) + k /\ u \in Seq(Items(File))
    BY <2>4, <2>8 DEF Joined, Follows
  <2>11. down'[c] = u /\ \A d \in Clients : d # c => down'[d] = down[d]
    BY <1>1, <2>1 DEF TransferTypes
  <2>12. Flows(c)'
    BY <1>2, <1>6, <1>13, <2>9, <2>11, Zenon DEF Flows, n
  <2>13. Arrived(c)' = a + k
    <3>1. Arrived(c)' = n + Len(u)
      BY <1>2, <2>11, Zenon DEF Arrived, n
    <3>2. n + Len(u) = (n + Len(down[c])) + k
      BY <1>5, <1>7, <2>5, <2>9
    <3> QED
      BY <2>5, <3>1, <3>2
  <2>14. a + k <= FileLength /\ (a + k) + Len(b) = pos
    <3>1. pos <= FileLength /\ pos \in Nat
      BY <1>1 DEF TransferTypes
    <3>2. a \in Nat /\ a + Len(rest) <= FileLength
      BY <1>7, <2>2, <3>1, Zenon DEF a
    <3>3. Sends(a, k, Len(rest), FileLength)
      BY <1>5, <3>2, SendsAddUp, Zenon
    <3> QED
      BY <1>5, <2>2, <3>3, Zenon DEF Sends
  <2>15. Progress(c)'
    <3>1. cpc[c] \notin {"done", "failed"}
      BY <1>13 DEF Transfer!Ended
    <3> QED
      BY <1>2, <1>3, <1>4, <1>6, <1>13, <2>4, <2>13, <2>14, <3>1, Zenon
      DEF Progress, Transfer!Ended
  <2> QED
    BY <1>2, <1>8, <1>10, <1>11, <2>12, <2>15 DEF TransferInv
<1> QED
  BY <1>9, <1>12, <1>13

LEMMA TransferStep ==
  ASSUME TransferInv, Transfer!Next \/ UNCHANGED Transfer!vars
  PROVE  TransferInv'
<1>1. CASE Transfer!ServerStep
  <2>1. CASE Transfer!OpenFails
    BY <2>1, TransferStop, Zenon DEF Transfer!OpenFails
  <2>2. CASE \E k \in 1 .. Len(rest) : Transfer!Send(k)
    BY <2>2, TransferSend
  <2>3. CASE Transfer!SendFails
    <3>1. CASE Transfer!Stop
      BY <3>1, TransferStop
    <3>2. CASE ~ Transfer!Stop
      <4>1. /\ Transfer!Ended(cur) /\ spc = "send" /\ spc' = "read" /\ rest' = <<>>
            /\ UNCHANGED <<cpc, msg, output, cur, pos, cut, skipped, conn, down>>
        BY <2>3, <3>2, Zenon DEF Transfer!SendFails, Transfer!LeaveInnerLoop, Transfer!client
      <4>2. TransferTypes /\ Serving /\ \A d \in Clients \ skipped : Flows(d) /\ Progress(d)
        BY DEF TransferInv
      <4>3. TransferTypes' /\ Serving'
        BY <4>1, <4>2 DEF TransferTypes, Serving
      <4>4. ASSUME NEW d \in Clients \ skipped PROVE Flows(d)' /\ Progress(d)'
        <5>1. Flows(d) /\ Progress(d)
          BY <4>2
        <5>2. Flows(d)' /\ Arrived(d)' = Arrived(d)
          BY <4>1, <5>1, Zenon DEF Flows, Arrived
        <5>3. d = cur => Transfer!Ended(d)
          BY <4>1
        <5>4. Progress(d)'
          BY <4>1, <5>1, <5>2, <5>3, Zenon DEF Progress, Transfer!Ended
        <5> QED
          BY <5>2, <5>4
      <4> QED
        BY <4>1, <4>3, <4>4 DEF TransferInv
    <3> QED
      BY <3>1, <3>2
  <2> QED
    BY <1>1, <2>1, <2>2, <2>3, TransferReads, Zenon DEF Transfer!ServerStep
<1>2. CASE Transfer!Killed
  BY <1>2, TransferStop, Zenon DEF Transfer!Killed
<1>3. CASE \E c \in Clients : Transfer!ClientStep(c)
  BY <1>3, TransferClient
<1>4. CASE Transfer!Restart \/ Transfer!Idle \/ UNCHANGED Transfer!vars
  <2>1. /\ UNCHANGED <<cpc, msg, output, cur, pos, rest, cut, skipped, conn, down>>
        /\ spc' = spc \/ (spc = "stopped" /\ spc' = "accept")
    BY <1>4, Zenon DEF Transfer!Restart, Transfer!Idle, Transfer!vars, Transfer!client,
                       Transfer!server
  <2>2. TransferTypes /\ Serving /\ \A d \in Clients \ skipped : Flows(d) /\ Progress(d)
    BY DEF TransferInv
  <2>3. TransferTypes' /\ Serving'
    BY <2>1, <2>2 DEF TransferTypes, Serving
  <2>4. ASSUME NEW d \in Clients \ skipped PROVE Flows(d)' /\ Progress(d)'
    BY <2>1, <2>2, SameClient
  <2> QED
    BY <2>1, <2>3, <2>4 DEF TransferInv
<1>5. CASE Transfer!SendRefused
  <2>1. /\ spc = "send" /\ spc' = "read" /\ rest' = <<>> /\ skipped' = skipped \cup {cur}
        /\ UNCHANGED <<cpc, msg, output, cur, pos, cut, conn, down>>
    BY <1>5, Zenon DEF Transfer!SendRefused, Transfer!LeaveInnerLoop, Transfer!client
  <2>2. TransferTypes /\ Serving /\ \A d \in Clients \ skipped : Flows(d) /\ Progress(d)
    BY DEF TransferInv
  <2>3. TransferTypes' /\ Serving'
    BY <2>1, <2>2 DEF TransferTypes, Serving
  <2>4. ASSUME NEW d \in Clients \ skipped' PROVE Flows(d)' /\ Progress(d)'
    <3>1. Flows(d) /\ Progress(d) /\ d # cur
      BY <2>1, <2>2
    <3> QED
      BY <2>1, <3>1, SameClient
  <2> QED
    BY <2>3, <2>4 DEF TransferInv
<1> QED
  BY <1>1, <1>2, <1>3, <1>4, <1>5, Zenon DEF Transfer!Next

\* While the program runs, of the transfer programs.
TransferHolds == program = "transfer" => TransferInv

LEMMA TransferAlways == FairSpec => []TransferHolds
<1>1. Init => TransferHolds
  BY TransferInit DEF Init, TransferHolds
<1>2. TransferHolds /\ [Next]_all => TransferHolds'
  <2> SUFFICES ASSUME TransferHolds, [Next]_all, program' = "transfer"
               PROVE  TransferInv'
    BY DEF TransferHolds
  <2>1. program = "transfer" /\ (Transfer!Next \/ UNCHANGED Transfer!vars)
    BY Zenon DEF Next, all, both, transfer, TransferRuns, EchoRuns, ProxyRuns,
                 Transfer!vars, Transfer!client, Transfer!server
  <2> QED
    BY <2>1, TransferStep DEF TransferHolds
<1> QED
  BY <1>1, <1>2, PTL DEF FairSpec

\* What a client of transferserver has and gets is the beginning of the file,
\* however sends, receives and writes are cut and wherever the server stops,
\* unless a send to that client failed.
THEOREM TransferNoHole == FairSpec => []NoHole
<1>1. TransferHolds => NoHole
  <2> SUFFICES ASSUME TransferInv, NEW c \in Clients \ skipped
               PROVE  LET s == output[c] \o msg[c] \o down[c]
                          t == s \o (IF c = cur /\ ~ Transfer!Ended(c) THEN rest ELSE <<>>)
                      IN  Transfer!IsPrefix(t, Transfer!Bytes(1, FileLength))
    BY Zenon DEF TransferHolds, NoHole, Transfer!NoHole
  <2> DEFINE r == IF c = cur /\ ~ Transfer!Ended(c) THEN rest ELSE <<>>
             h == output[c] \o msg[c]
             s == h \o down[c]
             t == s \o r
  <2>1. TransferTypes /\ Flows(c) /\ Progress(c)
    BY DEF TransferInv
  <2>2. /\ Len(output[c]) \in Nat /\ Len(msg[c]) \in Nat /\ Len(down[c]) \in Nat
        /\ Arrived(c) \in Nat
        /\ Arrived(c) = Len(output[c]) + Len(msg[c]) + Len(down[c])
    BY <2>1, ClientNumbers
  <2>3. Follows(File, Arrived(c), r) /\ Arrived(c) + Len(r) <= FileLength
    <3>1. CASE c = cur /\ ~ Transfer!Ended(c)
      <4>1. r = rest /\ Follows(File, Arrived(c), rest) /\ Arrived(c) + Len(rest) = pos
        BY <2>1, <3>1, Zenon DEF Progress
      <4> QED
        BY <2>1, <4>1 DEF TransferTypes
    <3>2. CASE ~ (c = cur /\ ~ Transfer!Ended(c))
      <4>1. r = <<>>
        BY <3>2
      <4>2. Follows(File, Arrived(c), r) /\ Len(r) = 0
        BY <4>1, EmptyFollows
      <4>3. Arrived(c) <= FileLength
        BY <2>1, Zenon DEF Progress
      <4>4. Arrived(c) \in Nat
        BY <2>2
      <4>5. Arrived(c) + 0 = Arrived(c)
        BY <4>4
      <4> QED
        BY <4>2, <4>3, <4>5, Zenon
    <3> QED
      BY <3>1, <3>2
  <2> HIDE DEF r
  <2>4. 0 \in Nat /\ Follows(File, 0, output[c]) /\ Follows(File, 0 + Len(output[c]), msg[c])
    BY <2>1, <2>2 DEF Flows
  <2>5. Joined(File, 0, output[c], msg[c], h)
    BY <2>4, JoinPieces
  <2> HIDE DEF h
  <2>6. Follows(File, 0, h) /\ Len(h) = Len(output[c]) + Len(msg[c]) /\ Follows(File, 0 + Len(h), down[c])
    <3>1. Follows(File, 0, h) /\ Len(h) = Len(output[c]) + Len(msg[c])
      BY <2>5, Zenon DEF Joined
    <3>2. Len(h) \in Nat /\ 0 + Len(h) = Len(h)
      BY <3>1, BehindZero
    <3> QED
      BY <2>1, <3>1, <3>2, Zenon DEF Flows
  <2>7. Joined(File, 0, h, down[c], s)
    BY <2>4, <2>6, JoinPieces
  <2> HIDE DEF s
  <2>8. Follows(File, 0, s) /\ Len(s) = Arrived(c)
    BY <2>2, <2>6, <2>7, Zenon DEF Joined
  <2>9. Follows(File, 0 + Len(s), r)
    <3>1. 0 + Len(s) = Len(s)
      BY <2>8, BehindZero
    <3> QED
      BY <2>3, <2>8, <3>1
  <2>10. Joined(File, 0, s, r, t)
    BY <2>4, <2>8, <2>9, JoinPieces
  <2> HIDE DEF t
  <2>11. Follows(File, 0, t) /\ Len(t) <= FileLength /\ FileLength \in Nat
    BY <2>3, <2>8, <2>10, TransferConstants, Zenon DEF Joined
  <2>12. Transfer!IsPrefix(t, Transfer!Bytes(1, FileLength))
    BY <2>11, BeginningOfFile, Zenon
  <2> QED
    BY <2>12, Zenon DEF t, s, h, r
<1> QED
  BY <1>1, TransferAlways, PTL

\* A client of transferserver that exits with 0 has the whole file, unless the
\* server ended its own stream early or a send to it failed.
THEOREM TransferIsWhole == FairSpec => []SuccessIsWhole
<1>1. TransferHolds => SuccessIsWhole
  <2> SUFFICES ASSUME TransferInv, NEW c \in Clients \ skipped, cpc[c] = "done", c \notin cut
               PROVE  output[c] = Transfer!Bytes(1, FileLength)
    BY Zenon DEF TransferHolds, SuccessIsWhole, Transfer!SuccessIsWhole
  <2>1. TransferTypes /\ Flows(c) /\ Progress(c)
    BY DEF TransferInv
  <2>2. msg[c] = <<>> /\ down[c] = <<>> /\ Arrived(c) = FileLength
    BY <2>1 DEF Progress
  <2>3. Len(output[c]) \in Nat /\ Arrived(c) = Len(output[c]) + Len(msg[c]) + Len(down[c])
    BY <2>1, ClientNumbers
  <2>4. Len(msg[c]) = 0 /\ Len(down[c]) = 0 /\ Len(output[c]) + 0 + 0 = Len(output[c])
    BY <2>2, <2>3
  <2>5. Len(output[c]) = FileLength
    BY <2>2, <2>3, <2>4, Zenon
  <2>6. Follows(File, 0, output[c]) /\ Len(output[c]) <= FileLength /\ FileLength \in Nat
    BY <2>1, <2>5, TransferConstants DEF Flows
  <2> QED
    BY <2>5, <2>6, BeginningOfFile, Zenon
<1> QED
  BY <1>1, TransferAlways, PTL

-----------------------------------------------------------------------------
(* The simple proxy.                                                       *)

\* Byte i of what the origin has for r, and what may be on its wire.
Answer(r) == [i \in Nat |-> <<r, i>>]
Statuses == {"OK", "FILE_NOT_FOUND", "ERROR"}
Wire(r) == {Proxy!Header(s, n) : s \in Statuses, n \in {0, BodyLength}} \cup Items(Answer(r))

Status(r) == Head(stream[r]).status

ProxyTypes ==
    /\ origin \in [Requests -> Proxy!Origins]
    /\ pc \in [Requests -> {"waiting", "fetch", "decide", "body", "blocked",
                            "failed", "closed"}]
    /\ response = [r \in Requests |-> response[r]]
    /\ curl \in [Requests -> {"none", "ok", "error", "silent"}]
    /\ position \in [Requests -> Nat]
    /\ stream = [r \in Requests |-> stream[r]]
    /\ gone \in [Requests -> BOOLEAN]

\* What the worker has fetched is the beginning of the answer of its own origin,
\* and all of it if curl says so.
Fetched(r) ==
    /\ Follows(Answer(r), 0, response[r]) /\ Len(response[r]) <= BodyLength
    /\ curl[r] = "ok" => Len(response[r]) = BodyLength

\* What the client has been told has its reason.
Reason(r) ==
    \/ /\ Status(r) = "OK" /\ Head(stream[r]).length = BodyLength
       /\ origin[r] = "file"
       /\ Follows(Answer(r), 0, Tail(stream[r])) /\ Len(Tail(stream[r])) <= BodyLength
    \/ Status(r) = "FILE_NOT_FOUND" /\ (origin[r] = "missing" \/ curl[r] = "error")
    \/ Status(r) = "ERROR" /\ (curl[r] = "none" \/ (curl[r] = "ok" /\ origin[r] = "broken"))

\* How far the worker is, and what it has told: nothing before it decides.
Told(r) ==
    /\ stream[r] \in Seq(Wire(r))
    /\ stream[r] # <<>> => Reason(r)
    /\ pc[r] \in {"waiting", "fetch", "decide"} => stream[r] = <<>> /\ position[r] = 0
    /\ pc[r] = "waiting" => curl[r] = "none"
    /\ pc[r] = "decide" => curl[r] \in {"ok", "error"}
    /\ pc[r] = "body" => curl[r] = "ok" /\ origin[r] = "file"
    /\ pc[r] = "body" /\ ~ gone[r] =>
          stream[r] # <<>> /\ Status(r) = "OK" /\ Len(Tail(stream[r])) = position[r]
    /\ pc[r] = "failed" /\ ~ gone[r] =>
          IF stream[r] = <<>> THEN curl[r] = "none" ELSE Status(r) # "OK"
    /\ pc[r] = "closed" /\ ~ gone[r] =>
          stream[r] # <<>> /\ (Status(r) = "OK" => Len(Tail(stream[r])) = BodyLength)

ProxyInv == ProxyTypes /\ \A r \in Requests : Fetched(r) /\ Told(r)

LEMMA ProxyConstants == BodyLength \in Nat
BY ProgramsAssumption DEF Proxy!Constraints

LEMMA ProxyInit == Proxy!Init => ProxyInv
<1> SUFFICES ASSUME Proxy!Init PROVE ProxyInv
  OBVIOUS
<1>1. ProxyTypes
  BY DEF Proxy!Init, ProxyTypes
<1>2. ASSUME NEW r \in Requests PROVE Fetched(r) /\ Told(r)
  <2>1. /\ pc[r] = "waiting" /\ response[r] = <<>> /\ curl[r] = "none"
        /\ stream[r] = <<>> /\ position[r] = 0
    BY DEF Proxy!Init
  <2>2. Follows(Answer(r), 0, <<>>) /\ Len(<<>>) = 0 /\ 0 <= BodyLength
    BY EmptyFollows, ProxyConstants
  <2>3. Fetched(r)
    BY <2>1, <2>2 DEF Fetched
  <2>4. <<>> \in Seq(Wire(r))
    OBVIOUS
  <2>5. Told(r)
    BY <2>1, <2>4, Zenon DEF Told
  <2> QED
    BY <2>3, <2>5
<1> QED
  BY <1>1, <1>2 DEF ProxyInv

LEMMA BodyFollows ==
  ASSUME NEW r
  PROVE  Follows(Answer(r), 0, Proxy!Body(r)) /\ Len(Proxy!Body(r)) = BodyLength
<1> DEFINE body == [i \in 1 .. BodyLength |-> Answer(r)[i]]
<1>1. Proxy!Body(r) = body
  BY ProxyConstants DEF Proxy!Body, Answer
<1>2. \A i \in 1 .. BodyLength : Answer(r)[i] \in Items(Answer(r)) /\ 0 + i = i
  BY ProxyConstants DEF Items
<1>3. /\ body \in Seq(Items(Answer(r))) /\ Len(body) = BodyLength
      /\ \A i \in 1 .. BodyLength : body[i] = Answer(r)[0 + i]
  BY <1>2, ProxyConstants
<1> QED
  BY <1>1, <1>3, Zenon DEF Follows

LEMMA BeginningOfBody ==
  ASSUME NEW r, NEW u, Follows(Answer(r), 0, u), Len(u) <= BodyLength
  PROVE  /\ Proxy!IsPrefix(u, Proxy!Body(r))
         /\ Len(u) = BodyLength => u = Proxy!Body(r)
<1> DEFINE body == [i \in 1 .. BodyLength |-> Answer(r)[i]]
<1>1. Proxy!Body(r) = body
  BY ProxyConstants DEF Proxy!Body, Answer
<1>2. Beginning(u, body) /\ Len(body) = BodyLength
  BY StreamBegins, ProxyConstants
<1> QED
  BY <1>1, <1>2, Zenon DEF Beginning, Proxy!IsPrefix

\* A request that a step leaves alone.
LEMMA SameRequest ==
  ASSUME NEW r \in Requests, Fetched(r), Told(r), origin'[r] = origin[r],
         pc'[r] = pc[r], response'[r] = response[r], curl'[r] = curl[r],
         position'[r] = position[r], stream'[r] = stream[r], gone[r] => gone'[r]
  PROVE  Fetched(r)' /\ Told(r)'
<1>1. Fetched(r)'
  BY Zenon DEF Fetched
<1>2. Status(r)' = Status(r) /\ Reason(r)' = Reason(r)
  BY Zenon DEF Status, Reason
<1>3. Told(r)'
  BY <1>2, Zenon DEF Told
<1> QED
  BY <1>1, <1>3

\* What Deliver does to the streams and the workers.
Delivered(r, items, next, failed) ==
    \/ /\ ~ gone[r]
       /\ stream' = [stream EXCEPT ![r] = stream[r] \o items]
       /\ pc' = [pc EXCEPT ![r] = next]
    \/ /\ gone[r] /\ stream' = stream
       /\ pc' = pc \/ pc' = [pc EXCEPT ![r] = next] \/ pc' = [pc EXCEPT ![r] = failed]

LEMMA DeliverDelivers ==
  ASSUME NEW r, NEW items, NEW next, NEW failed, Proxy!Deliver(r, items, next, failed)
  PROVE  Delivered(r, items, next, failed)
BY Zenon DEF Proxy!Deliver, Delivered

\* The handler decides: its header is the first that the client gets.
LEMMA ProxyDecides ==
  ASSUME ProxyInv, NEW r \in Requests, Proxy!Refuse(r) \/ Proxy!Announce(r)
  PROVE  ProxyInv'
<1>1. ProxyTypes /\ \A q \in Requests : Fetched(q) /\ Told(q)
  BY DEF ProxyInv
<1>2. UNCHANGED <<origin, response, curl, position, gone>> /\ pc[r] = "decide"
  BY Zenon DEF Proxy!Refuse, Proxy!Announce
<1> DEFINE Why(s, n, next) ==
             \/ /\ s = "FILE_NOT_FOUND" /\ n = 0 /\ next = "failed"
                /\ curl[r] = "error" \/ origin[r] = "missing"
             \/ /\ s = "ERROR" /\ n = 0 /\ next = "failed"
                /\ curl[r] = "ok" /\ origin[r] = "broken"
             \/ /\ s = "OK" /\ n = BodyLength /\ next = "body"
                /\ curl[r] = "ok" /\ origin[r] = "file"
<1>3. PICK s \in Statuses, n \in {0, BodyLength}, next \in {"failed", "body"} :
         Why(s, n, next) /\ Delivered(r, <<Proxy!Header(s, n)>>, next, "failed")
  <2>1. CASE Proxy!Refuse(r)
    BY <2>1, DeliverDelivers, Zenon DEF Proxy!Refuse, Statuses
  <2>2. CASE Proxy!Announce(r)
    <3>1. curl[r] = "ok" /\ origin[r] = "file" /\ Len(response[r]) = BodyLength
      BY <1>1, <2>2, Zenon DEF Proxy!Announce, Fetched
    <3>2. Delivered(r, <<Proxy!Header("OK", BodyLength)>>, "body", "failed")
      BY <2>2, <3>1, DeliverDelivers, Zenon DEF Proxy!Announce
    <3> QED
      BY <3>1, <3>2, Zenon DEF Statuses
  <2> QED
    BY <2>1, <2>2
<1> DEFINE h == Proxy!Header(s, n)
           u == stream[r] \o <<h>>
<1>4. h \in Wire(r)
  BY DEF Wire
<1>5. stream[r] = <<>>
  BY <1>1, <1>2 DEF Told
<1>6. h.status = s /\ h.length = n
  BY DEF Proxy!Header
<1> HIDE DEF h
<1>7. First(Wire(r), h, u)
  BY <1>4, <1>5, HeadFirst
<1> HIDE DEF u, Why
<1>8. ProxyTypes' /\ \A q \in Requests : q # r => pc'[q] = pc[q] /\ stream'[q] = stream[q]
  BY <1>1, <1>2, <1>3 DEF ProxyTypes, Delivered, u
<1>9. ASSUME NEW q \in Requests, q # r PROVE Fetched(q)' /\ Told(q)'
  BY <1>1, <1>2, <1>8, <1>9, SameRequest
<1>10. Fetched(r) /\ Told(r)
  BY <1>1
<1>11. Fetched(r)'
  BY <1>2, <1>10, Zenon DEF Fetched
<1>12. Told(r)'
  <2>1. CASE ~ gone[r]
    <3>1. stream'[r] = u /\ pc'[r] = next
      BY <1>1, <1>3, <2>1 DEF ProxyTypes, Delivered, u, h
    <3>2. /\ stream'[r] \in Seq(Wire(r)) /\ stream'[r] # <<>> /\ Tail(stream'[r]) = <<>>
          /\ Status(r)' = s /\ Head(stream'[r]).length = n
      BY <1>6, <1>7, <3>1, Zenon DEF First, Status
    <3>3. Len(<<>>) = 0 /\ 0 <= BodyLength /\ Follows(Answer(r), 0, <<>>)
      BY ProxyConstants, EmptyFollows
    <3>4. Reason(r)'
      BY <1>2, <1>3, <3>2, <3>3, Zenon DEF Reason, Why
    <3>5. position[r] = 0
      BY <1>2, <1>10 DEF Told
    <3>6. next = "body" => s = "OK" /\ curl[r] = "ok" /\ origin[r] = "file"
      BY <1>3 DEF Why
    <3>7. next = "failed" => s # "OK"
      BY <1>3 DEF Why
    <3> QED
      BY <1>2, <3>1, <3>2, <3>3, <3>4, <3>5, <3>6, <3>7 DEF Told
  <2>2. CASE gone[r]
    <3>1. stream'[r] = <<>> /\ pc'[r] \in {"decide", "failed", next}
      BY <1>1, <1>2, <1>3, <1>5, <2>2 DEF ProxyTypes, Delivered
    <3>2. next = "body" => curl[r] = "ok" /\ origin[r] = "file"
      BY <1>3 DEF Why
    <3> QED
      BY <1>2, <1>10, <2>2, <3>1, <3>2 DEF Told
  <2> QED
    BY <2>1, <2>2
<1> QED
  BY <1>8, <1>9, <1>11, <1>12 DEF ProxyInv

\* The worker fetches: nothing is told.
LEMMA ProxyFetches ==
  ASSUME ProxyInv, NEW r \in Requests,
         \/ Proxy!Call(r) \/ Proxy!PerformReturns(r) \/ Proxy!OriginFallsSilent(r)
         \/ \E k \in 1 .. BodyLength - Len(response[r]) : Proxy!WriteCallback(r, k)
  PROVE  ProxyInv'
<1>1. ProxyTypes /\ \A q \in Requests : Fetched(q) /\ Told(q)
  BY DEF ProxyInv
<1>2. Fetched(r) /\ Told(r)
  BY <1>1
<1>3. UNCHANGED <<origin, position, stream, gone>>
  BY Zenon DEF Proxy!Call, Proxy!PerformReturns, Proxy!OriginFallsSilent, Proxy!WriteCallback
<1>4. CASE Proxy!Call(r)
  <2>1. /\ UNCHANGED <<response, curl>> /\ pc[r] = "waiting"
        /\ pc' = [pc EXCEPT ![r] = "fetch"] \/ pc' = [pc EXCEPT ![r] = "failed"]
    BY <1>4, Zenon DEF Proxy!Call
  <2>2. ProxyTypes' /\ \A q \in Requests : q # r => pc'[q] = pc[q]
    BY <1>1, <1>3, <2>1 DEF ProxyTypes
  <2>3. ASSUME NEW q \in Requests, q # r PROVE Fetched(q)' /\ Told(q)'
    BY <1>1, <1>3, <2>1, <2>2, <2>3, SameRequest
  <2>4. Fetched(r)'
    BY <1>2, <2>1, Zenon DEF Fetched
  <2>5. Told(r)'
    <3>1. pc'[r] \in {"fetch", "failed"} /\ stream[r] = <<>> /\ curl[r] = "none"
      BY <1>1, <1>2, <2>1 DEF ProxyTypes, Told
    <3> QED
      BY <1>2, <1>3, <2>1, <3>1 DEF Told
  <2> QED
    BY <2>2, <2>3, <2>4, <2>5 DEF ProxyInv
<1>5. CASE Proxy!PerformReturns(r)
  <2>1. /\ UNCHANGED response /\ pc[r] = "fetch" /\ pc' = [pc EXCEPT ![r] = "decide"]
        /\ \/ response[r] = Proxy!Body(r) /\ curl' = [curl EXCEPT ![r] = "ok"]
           \/ curl' = [curl EXCEPT ![r] = "error"]
    BY <1>5, Zenon DEF Proxy!PerformReturns
  <2>2. ProxyTypes' /\ \A q \in Requests : q # r => pc'[q] = pc[q] /\ curl'[q] = curl[q]
    BY <1>1, <1>3, <2>1 DEF ProxyTypes
  <2>3. ASSUME NEW q \in Requests, q # r PROVE Fetched(q)' /\ Told(q)'
    BY <1>1, <1>3, <2>1, <2>2, <2>3, SameRequest
  <2>4. Fetched(r)'
    <3>1. Len(Proxy!Body(r)) = BodyLength
      BY ProxyConstants DEF Proxy!Body
    <3>2. curl'[r] = "ok" => Len(response[r]) = BodyLength
      BY <1>1, <2>1, <3>1 DEF ProxyTypes
    <3> QED
      BY <1>2, <2>1, <3>2, Zenon DEF Fetched
  <2>5. Told(r)'
    <3>1. pc'[r] = "decide" /\ stream[r] = <<>> /\ curl'[r] \in {"ok", "error"} /\ position[r] = 0
      BY <1>1, <1>2, <2>1 DEF ProxyTypes, Told
    <3> QED
      BY <1>2, <1>3, <3>1 DEF Told
  <2> QED
    BY <2>2, <2>3, <2>4, <2>5 DEF ProxyInv
<1>6. CASE Proxy!OriginFallsSilent(r)
  <2>1. UNCHANGED <<response, pc>> /\ pc[r] = "fetch" /\ curl' = [curl EXCEPT ![r] = "silent"]
    BY <1>6, Zenon DEF Proxy!OriginFallsSilent
  <2>2. ProxyTypes' /\ curl'[r] = "silent" /\ \A q \in Requests : q # r => curl'[q] = curl[q]
    BY <1>1, <1>3, <2>1 DEF ProxyTypes
  <2>3. ASSUME NEW q \in Requests, q # r PROVE Fetched(q)' /\ Told(q)'
    BY <1>1, <1>3, <2>1, <2>2, <2>3, SameRequest
  <2>4. Fetched(r)'
    BY <1>2, <2>1, <2>2 DEF Fetched
  <2>5. Told(r)'
    BY <1>2, <1>3, <2>1, <2>2 DEF Told
  <2> QED
    BY <2>2, <2>3, <2>4, <2>5 DEF ProxyInv
<1>7. CASE \E k \in 1 .. BodyLength - Len(response[r]) : Proxy!WriteCallback(r, k)
  <2>1. PICK k \in 1 .. BodyLength - Len(response[r]) : Proxy!WriteCallback(r, k)
    BY <1>7
  <2> DEFINE n == Len(response[r])
             f == SubSeq(Proxy!Body(r), n + 1, n + k)
             u == response[r] \o f
  <2>2. /\ UNCHANGED <<pc, curl>> /\ pc[r] = "fetch" /\ curl[r] = "none"
        /\ response' = [response EXCEPT ![r] = u]
    BY <2>1, Zenon DEF Proxy!WriteCallback
  <2>3. Follows(Answer(r), 0, response[r]) /\ n \in Nat /\ 0 + n = n
    BY <1>2, BehindZero DEF Fetched
  <2>4. k \in Nat /\ n + k <= BodyLength
    BY <2>3, ProxyConstants
  <2>5. Follows(Answer(r), 0, Proxy!Body(r)) /\ Len(Proxy!Body(r)) = BodyLength
    BY BodyFollows
  <2>6. Middle(Answer(r), n, k, f)
    BY <2>3, <2>4, <2>5, MiddlePiece
  <2> HIDE DEF f
  <2>7. Joined(Answer(r), 0, response[r], f, u)
    <3>1. Follows(Answer(r), 0 + Len(response[r]), f)
      BY <2>3, <2>6, Zenon DEF Middle
    <3> QED
      BY <2>3, <3>1, JoinPieces
  <2> HIDE DEF u
  <2>8. Follows(Answer(r), 0, u) /\ Len(u) <= BodyLength
    BY <2>4, <2>6, <2>7, Zenon DEF Joined, Middle
  <2>9. /\ ProxyTypes' /\ response'[r] = u
        /\ \A q \in Requests : q # r => response'[q] = response[q]
    BY <1>1, <1>3, <2>2 DEF ProxyTypes
  <2>10. ASSUME NEW q \in Requests, q # r PROVE Fetched(q)' /\ Told(q)'
    BY <1>1, <1>3, <2>2, <2>9, <2>10, SameRequest
  <2>11. Fetched(r)'
    BY <2>2, <2>8, <2>9 DEF Fetched
  <2>12. Told(r)'
    BY <1>2, <1>3, <2>2 DEF Told
  <2> QED
    BY <2>9, <2>10, <2>11, <2>12 DEF ProxyInv
<1> QED
  BY <1>4, <1>5, <1>6, <1>7

\* The body goes out piece by piece, behind the header.
LEMMA ProxySends ==
  ASSUME ProxyInv, NEW r \in Requests, NEW k \in 1 .. BodyLength, Proxy!SendAll(r, k)
  PROVE  ProxyInv'
<1>1. ProxyTypes /\ \A q \in Requests : Fetched(q) /\ Told(q)
  BY DEF ProxyInv
<1>2. Fetched(r) /\ Told(r)
  BY <1>1
<1> DEFINE p == position[r]
           f == SubSeq(response[r], p + 1, p + k)
           u == stream[r] \o f
<1>3. /\ UNCHANGED <<origin, response, curl, gone>> /\ pc[r] = "body"
      /\ p + k <= Len(response[r])
      /\ position' = [position EXCEPT ![r] = p + k]
      /\ Delivered(r, f, "body", "failed")
  BY DeliverDelivers, Zenon DEF Proxy!SendAll
<1>4. p \in Nat /\ k \in Nat /\ p + k \in Nat /\ p + k <= BodyLength
  <2>1. Len(response[r]) = BodyLength
    BY <1>2, <1>3 DEF Told, Fetched
  <2>2. p \in Nat /\ k \in Nat
    BY <1>1, ProxyConstants DEF ProxyTypes
  <2> QED
    BY <1>3, <2>1, <2>2
<1>5. Follows(Answer(r), p, f) /\ Len(f) = k
  <2>1. Follows(Answer(r), 0, response[r])
    BY <1>2 DEF Fetched
  <2>2. Middle(Answer(r), p, k, f)
    BY <1>3, <1>4, <2>1, MiddlePiece
  <2> QED
    BY <2>2, Zenon DEF Middle
<1> HIDE DEF p, f
<1>6. /\ ProxyTypes' /\ position'[r] = p + k
      /\ \A q \in Requests :
            q # r => pc'[q] = pc[q] /\ stream'[q] = stream[q] /\ position'[q] = position[q]
  BY <1>1, <1>3, <1>4 DEF ProxyTypes, Delivered
<1>7. ASSUME NEW q \in Requests, q # r PROVE Fetched(q)' /\ Told(q)'
  BY <1>1, <1>3, <1>6, <1>7, SameRequest
<1>8. Fetched(r)'
  BY <1>2, <1>3, Zenon DEF Fetched
<1>9. Told(r)'
  <2>1. CASE ~ gone[r]
    <3>1. stream'[r] = u /\ pc'[r] = "body"
      BY <1>1, <1>3, <2>1 DEF ProxyTypes, Delivered
    <3>2. /\ stream[r] \in Seq(Wire(r)) /\ stream[r] # <<>> /\ Status(r) = "OK"
          /\ Len(Tail(stream[r])) = p /\ Reason(r)
      BY <1>2, <1>3, <2>1 DEF Told, p
    <3>3. f \in Seq(Wire(r))
      BY <1>5 DEF Follows, Wire
    <3> DEFINE t == Tail(stream[r])
    <3>4. Headed(Wire(r), stream[r], f, u)
      BY <3>2, <3>3, HeadStays
    <3>5. u \in Seq(Wire(r)) /\ u # <<>> /\ Head(u) = Head(stream[r]) /\ Tail(u) = t \o f
      BY <3>4, Zenon DEF Headed
    <3> HIDE DEF u
    <3>6. Follows(Answer(r), 0, t) /\ Head(stream[r]).length = BodyLength /\ origin[r] = "file"
      BY <3>2 DEF Reason
    <3>7. 0 + Len(t) = p /\ Len(t) = p
      BY <3>2, <3>6, BehindZero
    <3> DEFINE v == t \o f
    <3> HIDE DEF t
    <3>8. Joined(Answer(r), 0, t, f, v)
      BY <1>5, <3>6, <3>7, JoinPieces
    <3> HIDE DEF v
    <3>9. Follows(Answer(r), 0, v) /\ Len(v) = p + k
      BY <1>5, <3>7, <3>8, Zenon DEF Joined
    <3>10. /\ stream'[r] \in Seq(Wire(r)) /\ stream'[r] # <<>> /\ Status(r)' = "OK"
           /\ Head(stream'[r]).length = BodyLength /\ Tail(stream'[r]) = v
      BY <3>1, <3>2, <3>5, <3>6, Zenon DEF Status, v
    <3>11. Reason(r)'
      BY <1>3, <1>4, <3>6, <3>9, <3>10, Zenon DEF Reason
    <3>12. Len(Tail(stream'[r])) = position'[r]
      BY <1>6, <3>9, <3>10, Zenon
    <3> QED
      BY <1>2, <1>3, <3>1, <3>10, <3>11, <3>12 DEF Told
  <2>2. CASE gone[r]
    <3>1. stream'[r] = stream[r] /\ pc'[r] \in {"body", "failed"} /\ gone'[r]
      BY <1>1, <1>3, <2>2 DEF ProxyTypes, Delivered
    <3>2. Status(r)' = Status(r) /\ Reason(r)' = Reason(r)
      BY <1>3, <3>1, Zenon DEF Status, Reason
    <3> QED
      BY <1>2, <1>3, <3>1, <3>2 DEF Told
  <2> QED
    BY <2>1, <2>2
<1> QED
  BY <1>6, <1>7, <1>8, <1>9 DEF ProxyInv

\* The library's error message comes first only when the handler sent nothing.
LEMMA ProxyErrors ==
  ASSUME ProxyInv, NEW r \in Requests, Proxy!LibrarySendsError(r)
  PROVE  ProxyInv'
<1>1. ProxyTypes /\ \A q \in Requests : Fetched(q) /\ Told(q)
  BY DEF ProxyInv
<1>2. Fetched(r) /\ Told(r)
  BY <1>1
<1> DEFINE h == Proxy!Header("ERROR", 0)
           u == stream[r] \o <<h>>
<1>3. /\ UNCHANGED <<origin, response, curl, position, gone>> /\ pc[r] = "failed"
      /\ Delivered(r, <<h>>, "closed", "closed")
  BY DeliverDelivers, Zenon DEF Proxy!LibrarySendsError
<1>4. h \in Wire(r) /\ h.status = "ERROR"
  BY DEF Wire, Statuses, Proxy!Header
<1> HIDE DEF h
<1>5. ProxyTypes' /\ \A q \in Requests : q # r => pc'[q] = pc[q] /\ stream'[q] = stream[q]
  BY <1>1, <1>3 DEF ProxyTypes, Delivered
<1>6. ASSUME NEW q \in Requests, q # r PROVE Fetched(q)' /\ Told(q)'
  BY <1>1, <1>3, <1>5, <1>6, SameRequest
<1>7. Fetched(r)'
  BY <1>2, <1>3, Zenon DEF Fetched
<1>8. Told(r)'
  <2>1. CASE ~ gone[r] /\ stream[r] = <<>>
    <3>1. stream'[r] = u /\ pc'[r] = "closed"
      BY <1>1, <1>3, <2>1 DEF ProxyTypes, Delivered
    <3>2. First(Wire(r), h, u)
      BY <1>4, <2>1, HeadFirst
    <3> HIDE DEF u
    <3>3. stream'[r] \in Seq(Wire(r)) /\ stream'[r] # <<>> /\ Status(r)' = "ERROR"
      BY <1>4, <3>1, <3>2, Zenon DEF First, Status
    <3>4. curl[r] = "none"
      BY <1>2, <1>3, <2>1 DEF Told
    <3>5. Reason(r)'
      BY <1>3, <3>3, <3>4, Zenon DEF Reason
    <3> QED
      BY <1>2, <1>3, <3>1, <3>3, <3>5 DEF Told
  <2>2. CASE ~ gone[r] /\ stream[r] # <<>>
    <3>1. stream'[r] = u /\ pc'[r] = "closed"
      BY <1>1, <1>3, <2>2 DEF ProxyTypes, Delivered
    <3>2. stream[r] \in Seq(Wire(r)) /\ Status(r) # "OK" /\ Reason(r)
      BY <1>2, <1>3, <2>2 DEF Told
    <3>3. <<h>> \in Seq(Wire(r))
      BY <1>4
    <3>4. Headed(Wire(r), stream[r], <<h>>, u)
      BY <2>2, <3>2, <3>3, HeadStays
    <3> HIDE DEF u
    <3>5. stream'[r] \in Seq(Wire(r)) /\ stream'[r] # <<>> /\ Status(r)' = Status(r)
      BY <3>1, <3>4, Zenon DEF Headed, Status
    <3>6. Reason(r)'
      BY <1>3, <3>2, <3>5, Zenon DEF Reason
    <3> QED
      BY <1>2, <1>3, <3>1, <3>2, <3>5, <3>6 DEF Told
  <2>3. CASE gone[r]
    <3>1. stream'[r] = stream[r] /\ pc'[r] \in {"failed", "closed"} /\ gone'[r]
      BY <1>1, <1>3, <2>3 DEF ProxyTypes, Delivered
    <3>2. Status(r)' = Status(r) /\ Reason(r)' = Reason(r)
      BY <1>3, <3>1, Zenon DEF Status, Reason
    <3> QED
      BY <1>2, <1>3, <3>1, <3>2 DEF Told
  <2> QED
    BY <1>1, <2>1, <2>2, <2>3 DEF ProxyTypes
<1> QED
  BY <1>5, <1>6, <1>7, <1>8 DEF ProxyInv

LEMMA ProxyStep ==
  ASSUME ProxyInv, Proxy!Next \/ UNCHANGED Proxy!vars
  PROVE  ProxyInv'
<1>1. ProxyTypes /\ \A q \in Requests : Fetched(q) /\ Told(q)
  BY DEF ProxyInv
<1>2. CASE \E r \in Requests : \/ Proxy!WorkerStep(r) \/ Proxy!OriginFallsSilent(r)
                               \/ Proxy!SendBlocks(r) \/ Proxy!ClientLeaves(r)
  <2>1. PICK r \in Requests : \/ Proxy!WorkerStep(r) \/ Proxy!OriginFallsSilent(r)
                              \/ Proxy!SendBlocks(r) \/ Proxy!ClientLeaves(r)
    BY <1>2
  <2>2. Fetched(r) /\ Told(r)
    BY <1>1
  <2>3. CASE Proxy!ReturnsSize(r)
    <3>1. /\ UNCHANGED <<origin, response, curl, position, stream, gone>> /\ pc[r] = "body"
          /\ pc' = [pc EXCEPT ![r] = "closed"] /\ position[r] = Len(response[r])
      BY <2>3, Zenon DEF Proxy!ReturnsSize
    <3>2. /\ ProxyTypes' /\ pc'[r] = "closed"
          /\ \A q \in Requests : q # r => pc'[q] = pc[q]
      BY <1>1, <3>1 DEF ProxyTypes
    <3>3. ASSUME NEW q \in Requests, q # r PROVE Fetched(q)' /\ Told(q)'
      BY <1>1, <3>1, <3>2, <3>3, SameRequest
    <3>4. Fetched(r)'
      BY <2>2, <3>1, Zenon DEF Fetched
    <3>5. Status(r)' = Status(r) /\ Reason(r)' = Reason(r)
      BY <3>1, Zenon DEF Status, Reason
    <3>6. position[r] = BodyLength
      BY <2>2, <3>1 DEF Told, Fetched
    <3>7. Told(r)'
      BY <2>2, <3>1, <3>2, <3>5, <3>6 DEF Told
    <3> QED
      BY <3>2, <3>3, <3>4, <3>7 DEF ProxyInv
  <2>4. CASE Proxy!ClientLeaves(r)
    <3>1. /\ UNCHANGED <<origin, pc, response, curl, position, stream>>
          /\ gone' = [gone EXCEPT ![r] = TRUE]
      BY <2>4, Zenon DEF Proxy!ClientLeaves
    <3>2. ProxyTypes' /\ \A q \in Requests : gone[q] => gone'[q]
      BY <1>1, <3>1 DEF ProxyTypes
    <3>3. ASSUME NEW q \in Requests PROVE Fetched(q)' /\ Told(q)'
      BY <1>1, <3>1, <3>2, SameRequest
    <3> QED
      BY <3>2, <3>3 DEF ProxyInv
  <2>5. CASE \E k \in 1 .. BodyLength : Proxy!SendAll(r, k)
    BY <2>5, ProxySends
  <2>6. CASE Proxy!SendBlocks(r)
    <3>1. /\ UNCHANGED <<origin, response, curl, position, stream, gone>>
          /\ pc' = [pc EXCEPT ![r] = "blocked"]
      BY <2>6, Zenon DEF Proxy!SendBlocks
    <3>2. /\ ProxyTypes' /\ pc'[r] = "blocked"
          /\ \A q \in Requests : q # r => pc'[q] = pc[q]
      BY <1>1, <3>1 DEF ProxyTypes
    <3>3. ASSUME NEW q \in Requests, q # r PROVE Fetched(q)' /\ Told(q)'
      BY <1>1, <3>1, <3>2, <3>3, SameRequest
    <3>4. Fetched(r)'
      BY <2>2, <3>1, Zenon DEF Fetched
    <3>5. Status(r)' = Status(r) /\ Reason(r)' = Reason(r)
      BY <3>1, Zenon DEF Status, Reason
    <3>6. Told(r)'
      BY <2>2, <3>1, <3>2, <3>5 DEF Told
    <3> QED
      BY <3>2, <3>3, <3>4, <3>6 DEF ProxyInv
  <2> QED
    BY <2>1, <2>3, <2>4, <2>5, <2>6, ProxyFetches, ProxyDecides, ProxyErrors, Zenon
    DEF Proxy!WorkerStep
<1>3. CASE Proxy!Idle \/ UNCHANGED Proxy!vars
  <2>1. UNCHANGED <<origin, pc, response, curl, position, stream, gone>>
    BY <1>3, Zenon DEF Proxy!Idle, Proxy!vars
  <2>2. ProxyTypes'
    BY <1>1, <2>1 DEF ProxyTypes
  <2>3. ASSUME NEW q \in Requests PROVE Fetched(q)' /\ Told(q)'
    BY <1>1, <2>1, SameRequest
  <2> QED
    BY <2>2, <2>3 DEF ProxyInv
<1> QED
  BY <1>2, <1>3, Zenon DEF Proxy!Next

\* While the program runs, of the simple proxy.
ProxyHolds == program = "proxy" => ProxyInv

LEMMA ProxyAlways == FairSpec => []ProxyHolds
<1>1. Init => ProxyHolds
  BY ProxyInit DEF Init, ProxyHolds
<1>2. ProxyHolds /\ [Next]_all => ProxyHolds'
  <2> SUFFICES ASSUME ProxyHolds, [Next]_all, program' = "proxy"
               PROVE  ProxyInv'
    BY DEF ProxyHolds
  <2>1. program = "proxy" /\ (Proxy!Next \/ UNCHANGED Proxy!vars)
    BY Zenon DEF Next, all, proxy, TransferRuns, EchoRuns, ProxyRuns, Proxy!vars
  <2> QED
    BY <2>1, ProxyStep DEF ProxyHolds
<1> QED
  BY <1>1, <1>2, PTL DEF FairSpec

\* A client of the simple proxy gets the origin's answer whole, or a refusal for
\* a reason.
THEOREM ProxyIsHonest == FairSpec => []AnswerIsHonest
<1>1. ProxyHolds => AnswerIsHonest
  <2> SUFFICES ASSUME ProxyInv PROVE Proxy!AnswerIsHonest
    BY Zenon DEF ProxyHolds, AnswerIsHonest
  <2>1. ASSUME NEW r \in Requests, stream[r] # <<>>
        PROVE  CASE Status(r) = "OK" ->
                      /\ origin[r] = "file" /\ Head(stream[r]).length = BodyLength
                      /\ Proxy!IsPrefix(Tail(stream[r]), Proxy!Body(r))
                 [] Status(r) = "FILE_NOT_FOUND" ->
                      origin[r] = "missing" \/ curl[r] = "error"
                 [] Status(r) = "ERROR" ->
                      curl[r] = "none" \/ (curl[r] = "ok" /\ origin[r] = "broken")
    <3>1. Reason(r)
      BY <2>1 DEF ProxyInv, Told
    <3>2. Status(r) = "OK" => Proxy!IsPrefix(Tail(stream[r]), Proxy!Body(r))
      <4> SUFFICES ASSUME Status(r) = "OK"
                   PROVE  Proxy!IsPrefix(Tail(stream[r]), Proxy!Body(r))
        OBVIOUS
      <4>1. Follows(Answer(r), 0, Tail(stream[r])) /\ Len(Tail(stream[r])) <= BodyLength
        BY <3>1 DEF Reason
      <4> QED
        BY <4>1, BeginningOfBody
    <3> QED
      BY <3>1, <3>2 DEF Reason
  <2>2. ASSUME NEW r \in Requests, pc[r] = "closed", ~ gone[r]
        PROVE  stream[r] # <<>> /\ (Status(r) = "OK" => Tail(stream[r]) = Proxy!Body(r))
    <3>1. /\ stream[r] # <<>> /\ Reason(r)
          /\ Status(r) = "OK" => Len(Tail(stream[r])) = BodyLength
      BY <2>2 DEF ProxyInv, Told
    <3>2. Status(r) = "OK" => Follows(Answer(r), 0, Tail(stream[r]))
                              /\ Len(Tail(stream[r])) <= BodyLength
      BY <3>1 DEF Reason
    <3> QED
      BY <3>1, <3>2, BeginningOfBody
  <2> QED
    BY <2>1, <2>2, Zenon DEF Proxy!AnswerIsHonest, Status
<1> QED
  BY <1>1, ProxyAlways, PTL

-----------------------------------------------------------------------------
(* The echo programs.                                                      *)

\* Byte i of the message of c.
Speech(c) == [i \in Nat |-> <<c, i>>]

Echoed(c) == Len(msg[c]) + Len(down[c])
Sending(c) == c = cur /\ spc = "send"
Pending(c) == IF Sending(c) THEN rest ELSE <<>>

EchoTypes ==
    /\ cpc \in [Speakers -> {"start", "send", "recv", "write",
                              "done", "failed", "killed", "unsent"}]
    /\ conn \in [Speakers -> Echo!ConnStates]
    /\ msg = [c \in Speakers |-> msg[c]] /\ output = [c \in Speakers |-> output[c]]
    /\ up = [c \in Speakers |-> up[c]] /\ down = [c \in Speakers |-> down[c]]
    /\ spc \in {"accept", "recv", "send", "stopped"}
    /\ cur \in Speakers \cup {Echo!Nobody}

\* The server sends something, and to a client that it has.
Listening ==
    /\ cur = Echo!Nobody <=> spc \in {"accept", "stopped"}
    /\ spc = "send" => rest # <<>>

\* What c has got is the beginning of its message.
Heard(c) ==
    /\ Follows(Speech(c), 0, output[c]) /\ Len(output[c]) <= Length[c]
    /\ Follows(Speech(c), 0, msg[c]) /\ Follows(Speech(c), Len(msg[c]), down[c])
    /\ Echoed(c) <= Length[c]
    /\ up[c] \in Seq(Items(Speech(c)))

\* While the connection is open, what the server holds and what is on its way to
\* it is the next part of the message.
Underway(c) ==
    conn[c] = "open" =>
        /\ Follows(Speech(c), Echoed(c), Pending(c))
        /\ Follows(Speech(c), Echoed(c) + Len(Pending(c)), up[c])
        /\ Echoed(c) + Len(Pending(c)) + Len(up[c]) <= Length[c]

\* How far c is, and why its connection is as it is: who closed with echo still to
\* come has left early.
Speaking(c) ==
    /\ cpc[c] \in {"start", "send", "recv"} => msg[c] = <<>>
    /\ cpc[c] \in {"start", "send"} => down[c] = <<>> /\ up[c] = <<>> /\ ~ Sending(c)
    /\ cpc[c] = "write" => msg[c] # <<>>
    /\ conn[c] \in {"fin", "poked", "rst"} => Echo!Ended(c)
    /\ conn[c] = "fin" => Echo!LeftEarly(c) \/ (up[c] = <<>> /\ ~ Sending(c))
    /\ conn[c] \in {"poked", "rst"} => Echo!LeftEarly(c)

EchoInv ==
    EchoTypes /\ Listening /\ \A c \in Speakers : Heard(c) /\ Underway(c) /\ Speaking(c)

LEMMA EchoConstants == Length \in [Speakers -> Nat] /\ Echo!Nobody \notin Speakers
BY ProgramsAssumption DEF Echo!Constraints

LEMMA EchoInit == Echo!Init => EchoInv
<1> SUFFICES ASSUME Echo!Init PROVE EchoInv
  OBVIOUS
<1>1. EchoTypes
  BY DEF Echo!Init, EchoTypes, Echo!ConnStates
<1>2. Listening
  BY DEF Echo!Init, Listening
<1>3. ASSUME NEW c \in Speakers PROVE Heard(c) /\ Underway(c) /\ Speaking(c)
  <2>1. /\ cpc[c] = "start" /\ conn[c] = "none" /\ msg[c] = <<>> /\ output[c] = <<>>
        /\ up[c] = <<>> /\ down[c] = <<>> /\ spc = "accept"
    BY DEF Echo!Init
  <2>2. /\ Follows(Speech(c), 0, <<>>) /\ Len(<<>>) = 0 /\ 0 + 0 = 0 /\ 0 <= Length[c]
        /\ <<>> \in Seq(Items(Speech(c)))
    BY EmptyFollows, EchoConstants
  <2>3. Heard(c)
    BY <2>1, <2>2, Zenon DEF Heard, Echoed
  <2>4. Underway(c) /\ Speaking(c)
    BY <2>1 DEF Underway, Speaking, Sending
  <2> QED
    BY <2>3, <2>4
<1> QED
  BY <1>1, <1>2, <1>3 DEF EchoInv

LEMMA MessageFollows ==
  ASSUME NEW c \in Speakers
  PROVE  /\ Follows(Speech(c), 0, Echo!Message(c)) /\ Len(Echo!Message(c)) = Length[c]
         /\ \A u : Follows(Speech(c), 0, u) /\ Len(u) <= Length[c] =>
                  Echo!IsPrefix(u, Echo!Message(c))
<1> DEFINE message == [i \in 1 .. Length[c] |-> Speech(c)[i]]
<1>1. Length[c] \in Nat
  BY EchoConstants
<1>2. Echo!Message(c) = message
  BY <1>1 DEF Echo!Message, Speech
<1>3. \A i \in 1 .. Length[c] : Speech(c)[i] \in Items(Speech(c)) /\ 0 + i = i
  BY <1>1 DEF Items
<1>4. /\ message \in Seq(Items(Speech(c))) /\ Len(message) = Length[c]
      /\ \A i \in 1 .. Length[c] : message[i] = Speech(c)[0 + i]
  BY <1>1, <1>3
<1>5. ASSUME NEW u, Follows(Speech(c), 0, u), Len(u) <= Length[c]
      PROVE  Beginning(u, message)
  BY <1>1, <1>5, StreamBegins
<1> HIDE DEF message
<1> QED
  BY <1>2, <1>4, <1>5, Zenon DEF Follows, Beginning, Echo!IsPrefix

\* A client that a step leaves alone, and of which the server keeps what it holds.
LEMMA SameSpeaker ==
  ASSUME NEW c \in Speakers, Heard(c), Underway(c), Speaking(c),
         cpc'[c] = cpc[c], conn'[c] = conn[c], msg'[c] = msg[c], output'[c] = output[c],
         up'[c] = up[c], down'[c] = down[c],
         Sending(c)' <=> Sending(c), Sending(c) => rest' = rest
  PROVE  Heard(c)' /\ Underway(c)' /\ Speaking(c)'
<1>1. Echoed(c)' = Echoed(c)
  BY Zenon DEF Echoed
<1>2. Pending(c)' = Pending(c)
  BY Zenon DEF Pending
<1>3. Heard(c)'
  BY <1>1, Zenon DEF Heard
<1>4. Underway(c)'
  BY <1>1, <1>2, Zenon DEF Underway
<1>5. Echo!Ended(c)' = Echo!Ended(c) /\ Echo!LeftEarly(c)' = Echo!LeftEarly(c)
  BY Zenon DEF Echo!Ended, Echo!LeftEarly
<1>6. Speaking(c)'
  BY <1>5, Zenon DEF Speaking
<1> QED
  BY <1>3, <1>4, <1>6

LEMMA SpeakerNumbers ==
  ASSUME NEW c \in Speakers, Heard(c)
  PROVE  /\ Len(msg[c]) \in Nat /\ Len(down[c]) \in Nat /\ Len(up[c]) \in Nat
         /\ Echoed(c) \in Nat /\ Echoed(c) = Len(msg[c]) + Len(down[c])
         /\ Length[c] \in Nat
<1>1. Len(msg[c]) \in Nat /\ Len(down[c]) \in Nat /\ Len(up[c]) \in Nat
  BY DEF Heard, Follows
<1>2. AddUp(Len(msg[c]), Len(down[c]), 0)
  BY <1>1, PiecesAddUp
<1>3. Echoed(c) \in Nat /\ Echoed(c) = Len(msg[c]) + Len(down[c])
  BY <1>2, Zenon DEF AddUp, Echoed
<1> QED
  BY <1>1, <1>3, EchoConstants

\* The step of a client leaves the server and the other clients alone.
LEMMA EchoOthers ==
  ASSUME EchoInv, NEW c \in Speakers, Echo!ClientStep(c) \/ Echo!Die(c)
  PROVE  /\ UNCHANGED <<spc, cur, rest>> /\ ~ Echo!Ended(c)
         /\ \A d \in Speakers : d # c => Heard(d)' /\ Underway(d)' /\ Speaking(d)'
         /\ Listening'
<1>1. EchoTypes /\ Listening /\ \A d \in Speakers : Heard(d) /\ Underway(d) /\ Speaking(d)
  BY DEF EchoInv
<1>2. UNCHANGED <<spc, cur, rest>> /\ ~ Echo!Ended(c)
  <2>1. UNCHANGED Echo!server
    BY Zenon DEF Echo!ClientStep, Echo!Connect, Echo!TooLong, Echo!Send, Echo!Recv,
                 Echo!RecvFails, Echo!Write, Echo!Die
  <2>2. cpc[c] \in {"start", "send", "recv", "write"}
    BY DEF Echo!ClientStep, Echo!Connect, Echo!TooLong, Echo!Send, Echo!Recv,
           Echo!RecvFails, Echo!Write, Echo!Die
  <2> QED
    BY <2>1, <2>2 DEF Echo!server, Echo!Ended
<1>3. ASSUME NEW d \in Speakers, d # c
      PROVE  /\ cpc'[d] = cpc[d] /\ conn'[d] = conn[d] /\ msg'[d] = msg[d]
             /\ output'[d] = output[d] /\ up'[d] = up[d] /\ down'[d] = down[d]
  BY <1>1, <1>3 DEF EchoTypes, Echo!ClientStep, Echo!Connect, Echo!TooLong, Echo!Send,
     Echo!Recv, Echo!RecvFails, Echo!Write, Echo!Die, Echo!Exit
<1>4. ASSUME NEW d \in Speakers, d # c PROVE Heard(d)' /\ Underway(d)' /\ Speaking(d)'
  <2>1. (Sending(d)' <=> Sending(d)) /\ rest' = rest
    BY <1>2 DEF Sending
  <2> QED
    BY <1>1, <1>3, <1>4, <2>1, SameSpeaker
<1>5. Listening'
  BY <1>1, <1>2, Zenon DEF Listening
<1> QED
  BY <1>2, <1>4, <1>5

\* With m bytes received, d on their way, p at the server and u on their way to it.
Remains(m, d, p, u, l) == m < l \/ (d = 0 /\ p = 0 /\ u = 0)

LEMMA RemainsOf ==
  ASSUME NEW m \in Nat, NEW d \in Nat, NEW p \in Nat, NEW u \in Nat, NEW l \in Nat,
         m + d + p + u <= l
  PROVE  Remains(m, d, p, u, l)
BY DEF Remains

LEMMA PartFits ==
  ASSUME NEW m \in Nat, NEW d \in Nat, NEW l \in Nat, m + d <= l
  PROVE  m <= l
OBVIOUS

Regroup(m, d, r) == m + (d + r) = (m + d) + r

LEMMA Regrouped ==
  ASSUME NEW m \in Nat, NEW d \in Nat, NEW r \in Nat
  PROVE  Regroup(m, d, r)
BY DEF Regroup

Fits(e, u, l) == e <= l /\ e + 0 = e

LEMMA Fitting ==
  ASSUME NEW e \in Nat, NEW u \in Nat, NEW l \in Nat, e + u <= l
  PROVE  Fits(e, u, l)
BY DEF Fits

\* The client exits, and its connection tells what it had not read.
LEMMA EchoExit ==
  ASSUME EchoInv, NEW c \in Speakers,
         NEW how \in {"done", "failed", "killed", "unsent"}, Echo!Exit(c, how),
         UNCHANGED <<msg, up, down, spc, cur, rest>>,
         output' = output \/ output' = [output EXCEPT ![c] = msg[c]],
         \/ cpc[c] \in {"send", "write"}
         \/ cpc[c] = "recv" /\ (conn[c] = "reset" \/ how = "killed")
  PROVE  EchoTypes' /\ Heard(c)' /\ Underway(c)' /\ Speaking(c)'
<1>1. EchoTypes /\ Listening /\ Heard(c) /\ Underway(c) /\ Speaking(c)
  BY DEF EchoInv
<1>2. /\ cpc' = [cpc EXCEPT ![c] = how]
      /\ conn' = [conn EXCEPT ![c] = IF conn[c] # "open" THEN conn[c]
                                     ELSE IF down[c] = <<>> THEN "fin" ELSE "rst"]
  BY Zenon DEF Echo!Exit
<1>3. EchoTypes'
  BY <1>1, <1>2 DEF EchoTypes, Echo!ConnStates
<1>4. /\ cpc'[c] = how /\ Echo!Ended(c)'
      /\ conn'[c] = IF conn[c] # "open" THEN conn[c]
                    ELSE IF down[c] = <<>> THEN "fin" ELSE "rst"
      /\ output'[c] = output[c] \/ output'[c] = msg[c]
  BY <1>1, <1>2 DEF EchoTypes, Echo!Ended
<1>5. /\ Len(msg[c]) \in Nat /\ Len(down[c]) \in Nat /\ Len(up[c]) \in Nat
      /\ Echoed(c) \in Nat /\ Echoed(c) = Len(msg[c]) + Len(down[c])
      /\ Length[c] \in Nat
  BY <1>1, SpeakerNumbers
<1>6. Heard(c)'
  <2>1. Len(msg[c]) <= Length[c]
    <3>1. Len(msg[c]) + Len(down[c]) <= Length[c]
      BY <1>1, <1>5, Zenon DEF Heard
    <3> QED
      BY <1>5, <3>1, PartFits, Zenon
  <2> QED
    BY <1>1, <1>4, <2>1, Zenon DEF Heard, Echoed
<1>7. Underway(c)'
  <2>1. conn'[c] # "open"
    BY <1>4
  <2> QED
    BY <2>1 DEF Underway
<1>8. ~ Echo!Ended(c) /\ conn[c] \notin {"fin", "poked", "rst"}
  BY <1>1 DEF Speaking, Echo!Ended
<1>9. ASSUME conn[c] = "open", cpc[c] = "write" \/ how = "killed"
      PROVE  Echo!LeftEarly(c)' \/ (down[c] = <<>> /\ up[c] = <<>> /\ ~ Sending(c))
  <2>1. msg'[c] = msg[c] /\ (msg[c] # <<>> \/ cpc'[c] = "killed")
    BY <1>1, <1>4, <1>9 DEF Speaking
  <2>2. /\ Pending(c) \in Seq(Items(Speech(c)))
        /\ Echoed(c) + Len(Pending(c)) + Len(up[c]) <= Length[c]
    BY <1>1, <1>9 DEF Underway, Follows
  <2>3. Len(Pending(c)) \in Nat
    BY <2>2
  <2>4. Remains(Len(msg[c]), Len(down[c]), Len(Pending(c)), Len(up[c]), Length[c])
    BY <1>5, <2>2, <2>3, RemainsOf, Zenon
  <2>5. CASE Len(msg[c]) < Length[c]
    BY <1>4, <2>1, <2>5, Zenon DEF Echo!LeftEarly
  <2>6. CASE Len(down[c]) = 0 /\ Len(Pending(c)) = 0 /\ Len(up[c]) = 0
    <3>1. down[c] = <<>> /\ up[c] = <<>> /\ Pending(c) = <<>>
      BY <1>1, <2>2, <2>6 DEF Heard, Follows
    <3>2. ~ Sending(c)
      BY <1>1, <3>1, Zenon DEF Listening, Sending, Pending
    <3> QED
      BY <3>1, <3>2
  <2> QED
    BY <2>4, <2>5, <2>6, Zenon DEF Remains
<1>10. Sending(c)' = Sending(c)
  BY Zenon DEF Sending
<1>11. cpc[c] = "send" => down[c] = <<>> /\ up[c] = <<>> /\ ~ Sending(c)
  BY <1>1 DEF Speaking
<1>12. /\ conn'[c] = "fin" => Echo!LeftEarly(c)' \/ (up[c] = <<>> /\ ~ Sending(c))
       /\ conn'[c] \in {"poked", "rst"} => Echo!LeftEarly(c)'
  BY <1>4, <1>8, <1>9, <1>11
<1>13. Speaking(c)'
  <2>1. cpc'[c] \notin {"start", "send", "recv", "write"}
    BY <1>4
  <2> QED
    BY <1>4, <1>10, <1>12, <2>1, Zenon DEF Speaking
<1> QED
  BY <1>3, <1>6, <1>7, <1>13

LEMMA EchoClient ==
  ASSUME EchoInv, NEW c \in Speakers, Echo!ClientStep(c) \/ Echo!Die(c)
  PROVE  EchoInv'
<1>1. EchoTypes /\ Listening /\ Heard(c) /\ Underway(c) /\ Speaking(c)
  BY DEF EchoInv
<1>2. UNCHANGED <<spc, cur, rest>>
  BY EchoOthers
<1>3. SUFFICES EchoTypes' /\ Heard(c)' /\ Underway(c)' /\ Speaking(c)'
  BY EchoOthers DEF EchoInv
<1>4. /\ Len(msg[c]) \in Nat /\ Len(down[c]) \in Nat /\ Len(up[c]) \in Nat
      /\ Echoed(c) \in Nat /\ Echoed(c) = Len(msg[c]) + Len(down[c])
      /\ Length[c] \in Nat
  BY <1>1, SpeakerNumbers
<1>5. Sending(c)' = Sending(c) /\ Pending(c)' = Pending(c)
  BY <1>2, Zenon DEF Sending, Pending
<1>6. CASE Echo!TooLong(c) \/ Echo!RecvFails(c)
  <2>1. /\ Echo!Exit(c, "failed") /\ UNCHANGED <<msg, output, up, down>>
        /\ cpc[c] = "send" \/ (cpc[c] = "recv" /\ conn[c] = "reset")
    BY <1>6, Zenon DEF Echo!TooLong, Echo!RecvFails
  <2> QED
    BY <1>2, <2>1, EchoExit
<1>7. CASE Echo!Write(c)
  <2>1. PICK how \in {"done", "failed"} : Echo!Exit(c, how)
    BY <1>7, Zenon DEF Echo!Write
  <2>2. /\ UNCHANGED <<msg, up, down>> /\ cpc[c] = "write"
        /\ output' = output \/ output' = [output EXCEPT ![c] = msg[c]]
    BY <1>7, Zenon DEF Echo!Write
  <2> QED
    BY <1>2, <2>1, <2>2, EchoExit
<1>8. CASE Echo!Connect(c)
  <2>1. /\ UNCHANGED <<msg, output, up, down>> /\ cpc[c] = "start"
        /\ \/ cpc' = [cpc EXCEPT ![c] = "failed"] /\ conn' = conn
           \/ cpc' = [cpc EXCEPT ![c] = "send"] /\ conn' = [conn EXCEPT ![c] = "open"]
    BY <1>8, Zenon DEF Echo!Connect
  <2>2. EchoTypes'
    BY <1>1, <1>2, <2>1 DEF EchoTypes, Echo!ConnStates
  <2>3. /\ msg[c] = <<>> /\ down[c] = <<>> /\ up[c] = <<>> /\ ~ Sending(c)
        /\ conn[c] \notin {"fin", "poked", "rst"}
    BY <1>1, <2>1 DEF Speaking, Echo!Ended
  <2>4. \/ cpc'[c] = "failed" /\ conn'[c] = conn[c]
        \/ cpc'[c] = "send" /\ conn'[c] = "open"
    BY <1>1, <2>1 DEF EchoTypes
  <2>5. Heard(c)'
    BY <1>1, <2>1, Zenon DEF Heard, Echoed
  <2>6. Underway(c)'
    <3>1. Pending(c) = <<>> /\ Len(<<>>) = 0 /\ 0 + 0 = 0 /\ 0 <= Length[c]
      BY <1>4, <2>3 DEF Pending
    <3>2. Echoed(c)' = 0
      BY <2>1, <2>3, <3>1, Zenon DEF Echoed
    <3>3. Follows(Speech(c), 0, <<>>)
      BY EmptyFollows
    <3>4. Pending(c)' = <<>> /\ up'[c] = <<>>
      BY <1>5, <2>1, <2>3, <3>1, Zenon
    <3>5. Echoed(c)' + Len(Pending(c)') = 0 /\ 0 + Len(up'[c]) = 0
      BY <3>1, <3>2, <3>4, Zenon
    <3> QED
      BY <3>1, <3>2, <3>3, <3>4, <3>5, Zenon DEF Underway
  <2>7. Speaking(c)'
    BY <1>5, <2>1, <2>3, <2>4 DEF Speaking
  <2> QED
    BY <2>2, <2>5, <2>6, <2>7
<1>9. CASE Echo!Send(c)
  <2>1. CASE conn[c] = "reset"
    <3>1. /\ Echo!Exit(c, "failed") /\ UNCHANGED <<msg, output, up, down>>
          /\ cpc[c] = "send"
      BY <1>9, <2>1 DEF Echo!Send
    <3> QED
      BY <1>2, <3>1, EchoExit
  <2>2. CASE conn[c] # "reset"
    <3>1. /\ cpc[c] = "send" /\ conn[c] = "open" /\ UNCHANGED <<msg, output, down, conn>>
          /\ cpc' = [cpc EXCEPT ![c] = "recv"]
          /\ up' = [up EXCEPT ![c] = Echo!Message(c)]
      BY <1>9, <2>2, Zenon DEF Echo!Send
    <3>2. EchoTypes' /\ cpc'[c] = "recv" /\ up'[c] = Echo!Message(c)
      BY <1>1, <1>2, <3>1 DEF EchoTypes
    <3>3. msg[c] = <<>> /\ down[c] = <<>> /\ ~ Sending(c)
      BY <1>1, <3>1 DEF Speaking
    <3>4. /\ Follows(Speech(c), 0, Echo!Message(c)) /\ Len(Echo!Message(c)) = Length[c]
          /\ Echo!Message(c) \in Seq(Items(Speech(c)))
      BY MessageFollows DEF Follows
    <3>5. Heard(c)'
      BY <1>1, <3>1, <3>2, <3>4, Zenon DEF Heard, Echoed
    <3>6. Underway(c)'
      <4>1. /\ Pending(c) = <<>> /\ Len(<<>>) = 0 /\ 0 + 0 = 0
            /\ 0 + 0 + Length[c] <= Length[c]
        BY <1>4, <3>3 DEF Pending
      <4>2. Echoed(c)' = 0
        BY <3>1, <3>3, <4>1, Zenon DEF Echoed
      <4>3. Follows(Speech(c), 0, <<>>)
        BY EmptyFollows
      <4> QED
        BY <1>5, <3>2, <3>4, <4>1, <4>2, <4>3, Zenon DEF Underway
    <3>7. Speaking(c)'
      BY <1>5, <3>1, <3>2, <3>3 DEF Speaking
    <3> QED
      BY <3>2, <3>5, <3>6, <3>7
  <2> QED
    BY <2>1, <2>2
<1>10. CASE \E k \in 1 .. Len(down[c]) : Echo!Recv(c, k)
  <2>1. PICK k \in 1 .. Len(down[c]) : Echo!Recv(c, k)
    BY <1>10
  <2> DEFINE f == SubSeq(down[c], 1, k)
             b == SubSeq(down[c], k + 1, Len(down[c]))
  <2>2. /\ cpc[c] = "recv" /\ UNCHANGED <<output, conn, up>>
        /\ msg' = [msg EXCEPT ![c] = f]
        /\ down' = [down EXCEPT ![c] = b]
        /\ cpc' = [cpc EXCEPT ![c] = "write"]
    BY <2>1, Zenon DEF Echo!Recv
  <2>3. msg[c] = <<>> /\ Len(msg[c]) = 0
    BY <1>1, <2>2 DEF Speaking
  <2>4. Follows(Speech(c), 0, down[c]) /\ 0 \in Nat
    BY <1>1, <2>3 DEF Heard
  <2>5. Cut(Speech(c), 0, down[c], k, f, b)
    BY <2>4, CutPieces
  <2> HIDE DEF f, b
  <2>6. k \in Nat /\ k # 0 /\ 0 + k = k /\ k + (Len(down[c]) - k) = 0 + Len(down[c])
    BY <1>4
  <2>7. /\ Follows(Speech(c), 0, f) /\ Follows(Speech(c), Len(f), b)
        /\ Len(f) = k /\ Len(b) = Len(down[c]) - k
    BY <2>5, <2>6, Zenon DEF Cut
  <2>8. f # <<>>
    BY <2>6, <2>7 DEF Follows
  <2>9. EchoTypes' /\ cpc'[c] = "write" /\ msg'[c] = f /\ down'[c] = b
    BY <1>1, <1>2, <2>2 DEF EchoTypes
  <2>10. Echoed(c)' = Echoed(c)
    BY <2>3, <2>6, <2>7, <2>9, Zenon DEF Echoed
  <2>11. Heard(c)'
    BY <1>1, <2>2, <2>7, <2>9, <2>10, Zenon DEF Heard
  <2>12. Underway(c)'
    BY <1>1, <1>5, <2>2, <2>10, Zenon DEF Underway
  <2>13. conn[c] \notin {"fin", "poked", "rst"}
    BY <1>1, <2>2 DEF Speaking, Echo!Ended
  <2>14. Speaking(c)'
    BY <2>2, <2>8, <2>9, <2>13 DEF Speaking
  <2> QED
    BY <2>9, <2>11, <2>12, <2>14
<1>11. CASE Echo!Die(c)
  <2>1. /\ cpc[c] \in {"send", "recv", "write"} /\ UNCHANGED <<msg, output, up, down>>
        /\ Echo!Exit(c, IF cpc[c] = "send" THEN "unsent" ELSE "killed")
    BY <1>11, Zenon DEF Echo!Die
  <2>2. CASE cpc[c] = "send"
    <3>1. Echo!Exit(c, "unsent")
      BY <2>1, <2>2
    <3> QED
      BY <1>2, <2>1, <2>2, <3>1, EchoExit
  <2>3. CASE cpc[c] # "send"
    <3>1. Echo!Exit(c, "killed")
      BY <2>1, <2>3
    <3> QED
      BY <1>2, <2>1, <2>3, <3>1, EchoExit
  <2> QED
    BY <2>2, <2>3
<1> QED
  BY <1>6, <1>7, <1>8, <1>9, <1>10, <1>11, Zenon DEF Echo!ClientStep

LEMMA EchoStop ==
  ASSUME EchoInv, Echo!Stop
  PROVE  EchoInv'
<1>1. EchoTypes /\ Listening /\ \A d \in Speakers : Heard(d) /\ Underway(d) /\ Speaking(d)
  BY DEF EchoInv
<1>2. /\ spc' = "stopped" /\ cur' = Echo!Nobody /\ rest' = <<>>
      /\ conn' = [c \in Speakers |-> IF conn[c] \in {"none", "closed"} THEN conn[c]
                                     ELSE "reset"]
      /\ UNCHANGED <<cpc, msg, output, up, down>>
  BY Zenon DEF Echo!Stop, Echo!client
<1>3. EchoTypes'
  BY <1>1, <1>2 DEF EchoTypes, Echo!ConnStates
<1>4. Listening'
  BY <1>2 DEF Listening
<1>5. ASSUME NEW c \in Speakers PROVE Heard(c)' /\ Underway(c)' /\ Speaking(c)'
  <2>1. Heard(c) /\ Speaking(c)
    BY <1>1
  <2>2. Heard(c)'
    BY <1>2, <2>1, Zenon DEF Heard, Echoed
  <2>3. conn'[c] \in {"none", "closed", "reset"} /\ ~ Sending(c)'
    BY <1>2 DEF Sending
  <2>4. Underway(c)' /\ Speaking(c)'
    BY <1>2, <2>1, <2>3 DEF Underway, Speaking
  <2> QED
    BY <2>2, <2>4
<1> QED
  BY <1>3, <1>4, <1>5 DEF EchoInv

\* The steps of the server that move no bytes.
LEMMA EchoAccepts ==
  ASSUME EchoInv,
         \/ \E c \in Speakers : Echo!Accept(c)
         \/ Echo!StreamEnd \/ Echo!Restart \/ Echo!Idle \/ UNCHANGED Echo!vars
  PROVE  EchoInv'
<1>1. EchoTypes /\ Listening /\ \A d \in Speakers : Heard(d) /\ Underway(d) /\ Speaking(d)
  BY DEF EchoInv
<1>2. CASE UNCHANGED Echo!vars
  <2>1. UNCHANGED <<cpc, conn, msg, output, up, down, spc, cur, rest>>
    BY <1>2, Zenon DEF Echo!vars, Echo!client, Echo!server
  <2>2. EchoTypes' /\ Listening'
    BY <1>1, <2>1 DEF EchoTypes, Listening, Echo!LeftEarly, Echo!Ended
  <2>3. ASSUME NEW c \in Speakers PROVE Heard(c)' /\ Underway(c)' /\ Speaking(c)'
    <3>1. Sending(c)' = Sending(c)
      BY <2>1, Zenon DEF Sending
    <3> QED
      BY <1>1, <2>1, <3>1, SameSpeaker
  <2> QED
    BY <2>2, <2>3 DEF EchoInv
<1>3. CASE (\E c \in Speakers : Echo!Accept(c)) \/ Echo!Restart
  <2>1. /\ UNCHANGED <<cpc, conn, msg, output, up, down, rest>>
        /\ spc \in {"accept", "stopped"} /\ spc' \in {"accept", "recv"}
        /\ cur' \in Speakers \cup {Echo!Nobody}
        /\ cur' = Echo!Nobody <=> spc' = "accept"
    <3>1. CASE Echo!Restart
      BY <1>1, <3>1 DEF Echo!Restart, Echo!client, Listening
    <3>2. CASE \E c \in Speakers : Echo!Accept(c)
      BY <3>2, EchoConstants DEF Echo!Accept, Echo!client
    <3> QED
      BY <1>3, <3>1, <3>2
  <2>2. EchoTypes' /\ Listening'
    BY <1>1, <2>1 DEF EchoTypes, Listening
  <2>3. ASSUME NEW c \in Speakers PROVE Heard(c)' /\ Underway(c)' /\ Speaking(c)'
    <3>1. ~ Sending(c)' /\ ~ Sending(c)
      BY <2>1 DEF Sending
    <3> QED
      BY <1>1, <2>1, <3>1, SameSpeaker
  <2> QED
    BY <2>2, <2>3 DEF EchoInv
<1>4. CASE Echo!StreamEnd
  <2>1. /\ UNCHANGED <<cpc, msg, output, up, down, rest>>
        /\ spc = "recv" /\ spc' = "accept" /\ cur' = Echo!Nobody
        /\ conn' = [conn EXCEPT ![cur] = "closed"]
        /\ conn[cur] \in {"fin", "poked"}
    BY <1>4, Zenon DEF Echo!StreamEnd, Echo!client
  <2>2. EchoTypes' /\ Listening'
    BY <1>1, <2>1 DEF EchoTypes, Listening, Echo!ConnStates
  <2>3. ASSUME NEW c \in Speakers PROVE Heard(c)' /\ Underway(c)' /\ Speaking(c)'
    <3>1. Heard(c) /\ Underway(c) /\ Speaking(c) /\ ~ Sending(c)' /\ ~ Sending(c)
      BY <1>1, <2>1 DEF Sending
    <3>2. conn'[c] = conn[c] \/ conn'[c] = "closed"
      BY <1>1, <2>1 DEF EchoTypes
    <3>3. CASE conn'[c] = conn[c]
      BY <2>1, <3>1, <3>3, SameSpeaker
    <3>4. CASE conn'[c] = "closed"
      <4>1. Heard(c)'
        BY <2>1, <3>1, Zenon DEF Heard, Echoed
      <4>2. Underway(c)' /\ Speaking(c)'
        BY <2>1, <3>1, <3>4 DEF Underway, Speaking
      <4> QED
        BY <4>1, <4>2
    <3> QED
      BY <3>2, <3>3, <3>4
  <2> QED
    BY <2>2, <2>3 DEF EchoInv
<1> QED
  BY <1>2, <1>3, <1>4, Zenon DEF Echo!Idle

\* What the server receives it sends back, unless the client has closed.
LEMMA EchoReceives ==
  ASSUME EchoInv, cur \in Speakers, NEW k \in 1 .. Len(up[cur]), Echo!ServerRecv(k)
  PROVE  EchoInv'
<1>1. EchoTypes /\ Listening /\ \A d \in Speakers : Heard(d) /\ Underway(d) /\ Speaking(d)
  BY DEF EchoInv
<1>2. PICK c \in Speakers : c = cur
  OBVIOUS
<1> DEFINE f == SubSeq(up[c], 1, k)
           b == SubSeq(up[c], k + 1, Len(up[c]))
<1>3. /\ UNCHANGED <<cpc, msg, output, cur, conn, down>>
      /\ spc = "recv" /\ spc' = "send" /\ rest' = f
      /\ up' = [up EXCEPT ![c] = b]
  BY <1>2, Zenon DEF Echo!ServerRecv, Echo!client
<1>4. Heard(c) /\ Underway(c) /\ Speaking(c)
  BY <1>1
<1>5. /\ Len(msg[c]) \in Nat /\ Len(down[c]) \in Nat /\ Len(up[c]) \in Nat
      /\ Echoed(c) \in Nat /\ Echoed(c) = Len(msg[c]) + Len(down[c])
      /\ Length[c] \in Nat
  BY <1>4, SpeakerNumbers
<1>6. up[c] # <<>> /\ k \in 1 .. Len(up[c]) /\ k \in Nat /\ k # 0
  BY <1>2, <1>5
<1>7. Pieces(Items(Speech(c)), up[c], k, f, b)
  BY <1>4, <1>6, PiecesTyped DEF Heard
<1>8. conn[c] = "open" =>
        Cut(Speech(c), Echoed(c), up[c], k, f, b) /\ Echoed(c) + Len(up[c]) <= Length[c]
  <2> SUFFICES ASSUME conn[c] = "open"
               PROVE  Cut(Speech(c), Echoed(c), up[c], k, f, b)
                      /\ Echoed(c) + Len(up[c]) <= Length[c]
    OBVIOUS
  <2>1. Pending(c) = <<>> /\ Len(<<>>) = 0 /\ Echoed(c) + 0 = Echoed(c)
    BY <1>3, <1>5 DEF Pending, Sending
  <2>2. Follows(Speech(c), Echoed(c), up[c]) /\ Echoed(c) + Len(up[c]) <= Length[c]
    BY <1>4, <2>1, Zenon DEF Underway
  <2> QED
    BY <1>5, <1>6, <2>2, CutPieces
<1> HIDE DEF f, b
<1>9. f # <<>> /\ Len(f) = k /\ b \in Seq(Items(Speech(c)))
  BY <1>6, <1>7 DEF Pieces
<1>10. EchoTypes' /\ up'[c] = b /\ \A d \in Speakers : d # c => up'[d] = up[d]
  BY <1>1, <1>3 DEF EchoTypes
<1>11. Listening'
  BY <1>1, <1>3, <1>9 DEF Listening
<1>12. ASSUME NEW d \in Speakers, d # c PROVE Heard(d)' /\ Underway(d)' /\ Speaking(d)'
  <2>1. ~ Sending(d)' /\ ~ Sending(d)
    BY <1>2, <1>3, <1>12 DEF Sending
  <2> QED
    BY <1>1, <1>3, <1>10, <1>12, <2>1, SameSpeaker
<1>13. Heard(c)' /\ Echoed(c)' = Echoed(c)
  BY <1>3, <1>4, <1>9, <1>10, Zenon DEF Heard, Echoed
<1>14. Underway(c)'
  <2> SUFFICES ASSUME conn[c] = "open" PROVE Underway(c)'
    BY <1>3, Zenon DEF Underway
  <2>1. Pending(c)' = f
    BY <1>2, <1>3 DEF Pending, Sending
  <2>2. /\ Follows(Speech(c), Echoed(c), f) /\ Follows(Speech(c), Echoed(c) + k, b)
        /\ Len(b) = Len(up[c]) - k
    BY <1>8, Zenon DEF Cut
  <2>3. AddUp(Echoed(c), k, Len(up[c]))
    BY <1>5, <1>6, PiecesAddUp, Zenon
  <2>4. Echoed(c) + k + Len(b) <= Length[c]
    BY <1>8, <2>2, <2>3, Zenon DEF AddUp
  <2> QED
    BY <1>9, <1>10, <1>13, <2>1, <2>2, <2>4, Zenon DEF Underway
<1>15. Speaking(c)'
  <2>1. cpc[c] \notin {"start", "send"} /\ (conn[c] = "fin" => Echo!LeftEarly(c))
    BY <1>4, <1>6 DEF Speaking
  <2>2. Echo!LeftEarly(c)' = Echo!LeftEarly(c) /\ Echo!Ended(c)' = Echo!Ended(c)
    BY <1>3, Zenon DEF Echo!LeftEarly, Echo!Ended
  <2> QED
    BY <1>3, <1>4, <2>1, <2>2 DEF Speaking
<1> QED
  BY <1>10, <1>11, <1>12, <1>13, <1>14, <1>15 DEF EchoInv

LEMMA EchoSends ==
  ASSUME EchoInv, Echo!ServerSend
  PROVE  EchoInv'
<1>1. EchoTypes /\ Listening /\ \A d \in Speakers : Heard(d) /\ Underway(d) /\ Speaking(d)
  BY DEF EchoInv
<1>2. /\ UNCHANGED <<cpc, msg, output, cur, rest, up>>
      /\ spc = "send" /\ spc' = "recv"
      /\ down' = IF conn[cur] = "open" THEN [down EXCEPT ![cur] = down[cur] \o rest] ELSE down
      /\ conn' = IF conn[cur] = "fin" THEN [conn EXCEPT ![cur] = "poked"] ELSE conn
  BY Zenon DEF Echo!ServerSend, Echo!client
<1>3. PICK c \in Speakers : c = cur
  BY <1>1, <1>2 DEF EchoTypes, Listening
<1>4. Heard(c) /\ Underway(c) /\ Speaking(c)
  BY <1>1
<1>5. /\ Len(msg[c]) \in Nat /\ Len(down[c]) \in Nat /\ Len(up[c]) \in Nat
      /\ Echoed(c) \in Nat /\ Echoed(c) = Len(msg[c]) + Len(down[c])
      /\ Length[c] \in Nat
  BY <1>4, SpeakerNumbers
<1>6. EchoTypes' /\ Listening'
  <2>1. cpc' = cpc /\ spc' = "recv" /\ cur' = cur /\ cur # Echo!Nobody
    BY <1>1, <1>2 DEF Listening
  <2>2. conn' \in [Speakers -> Echo!ConnStates]
    BY <1>1, <1>2 DEF EchoTypes, Echo!ConnStates
  <2>3. down' = [d \in Speakers |-> down'[d]]
    BY <1>1, <1>2 DEF EchoTypes
  <2> QED
    BY <1>1, <1>2, <2>1, <2>2, <2>3 DEF EchoTypes, Listening
<1>7. Sending(c) /\ Pending(c) = rest /\ ~ Sending(c)' /\ Pending(c)' = <<>>
  BY <1>2, <1>3 DEF Sending, Pending
<1>8. ASSUME NEW d \in Speakers, d # c PROVE Heard(d)' /\ Underway(d)' /\ Speaking(d)'
  <2>1. ~ Sending(d)' /\ ~ Sending(d)
    BY <1>2, <1>3, <1>8 DEF Sending
  <2>2. conn'[d] = conn[d] /\ down'[d] = down[d]
    BY <1>1, <1>2, <1>3, <1>8 DEF EchoTypes
  <2> QED
    BY <1>1, <1>2, <2>1, <2>2, SameSpeaker
<1>9. CASE conn[c] = "open"
  <2> DEFINE u == down[c] \o rest
  <2>1. conn' = conn /\ down' = [down EXCEPT ![c] = u]
    BY <1>2, <1>3, <1>9
  <2>2. down'[c] = u
    BY <1>1, <2>1 DEF EchoTypes
  <2>3. /\ Follows(Speech(c), Echoed(c), rest)
        /\ Follows(Speech(c), Echoed(c) + Len(rest), up[c])
        /\ Echoed(c) + Len(rest) + Len(up[c]) <= Length[c]
    BY <1>4, <1>7, <1>9, Zenon DEF Underway
  <2>4. Follows(Speech(c), Len(msg[c]), down[c])
    BY <1>4, Zenon DEF Heard
  <2>5. Joined(Speech(c), Len(msg[c]), down[c], rest, u)
    BY <1>5, <2>3, <2>4, JoinPieces
  <2> HIDE DEF u
  <2>6. Follows(Speech(c), Len(msg[c]), u) /\ Len(u) = Len(down[c]) + Len(rest)
    BY <2>5, Zenon DEF Joined
  <2>7. Len(rest) \in Nat
    BY <2>3 DEF Follows
  <2>8. Echoed(c)' = Echoed(c) + Len(rest)
    <3>1. Echoed(c)' = Len(msg[c]) + (Len(down[c]) + Len(rest))
      BY <1>2, <2>2, <2>6, Zenon DEF Echoed
    <3>2. Regroup(Len(msg[c]), Len(down[c]), Len(rest))
      BY <1>5, <2>7, Regrouped, Zenon
    <3> QED
      BY <1>5, <3>1, <3>2, Zenon DEF Regroup
  <2>9. Fits(Echoed(c) + Len(rest), Len(up[c]), Length[c])
    <3>1. AddUp(Echoed(c), Len(rest), 0)
      BY <1>5, <2>7, PiecesAddUp
    <3>2. Echoed(c) + Len(rest) \in Nat
      BY <3>1, Zenon DEF AddUp
    <3> QED
      BY <1>5, <2>3, <3>2, Fitting, Zenon
  <2>10. Heard(c)'
    BY <1>2, <1>4, <2>2, <2>6, <2>8, <2>9, Zenon DEF Heard, Fits
  <2>11. Underway(c)'
    <3>1. /\ Follows(Speech(c), Echoed(c)', <<>>) /\ Len(<<>>) = 0
      BY EmptyFollows
    <3>2. Echoed(c)' + Len(Pending(c)') = Echoed(c) + Len(rest)
      BY <1>7, <2>8, <2>9, <3>1, Zenon DEF Fits
    <3> QED
      BY <1>2, <1>7, <2>3, <3>1, <3>2, Zenon DEF Underway
  <2>12. Speaking(c)'
    <3>1. cpc[c] \notin {"start", "send"} /\ conn'[c] = "open"
      BY <1>4, <1>7, <1>9, <2>1 DEF Speaking
    <3> QED
      BY <1>2, <1>4, <3>1 DEF Speaking
  <2> QED
    BY <1>6, <1>8, <2>10, <2>11, <2>12 DEF EchoInv
<1>10. CASE conn[c] # "open"
  <2>1. down' = down /\ (conn'[c] = conn[c] \/ (conn[c] = "fin" /\ conn'[c] = "poked"))
    BY <1>1, <1>2, <1>3, <1>10 DEF EchoTypes
  <2>2. Heard(c)'
    BY <1>2, <1>4, <2>1, Zenon DEF Heard, Echoed
  <2>3. Underway(c)'
    BY <1>10, <2>1 DEF Underway
  <2>4. Echo!LeftEarly(c)' = Echo!LeftEarly(c) /\ Echo!Ended(c)' = Echo!Ended(c)
    BY <1>2, Zenon DEF Echo!LeftEarly, Echo!Ended
  <2>5. conn[c] = "fin" => Echo!LeftEarly(c) /\ Echo!Ended(c)
    BY <1>4, <1>7 DEF Speaking
  <2>6. Speaking(c)'
    BY <1>2, <1>4, <1>7, <2>1, <2>4, <2>5 DEF Speaking
  <2> QED
    BY <1>6, <1>8, <2>2, <2>3, <2>6 DEF EchoInv
<1> QED
  BY <1>9, <1>10

LEMMA EchoStep ==
  ASSUME EchoInv, Echo!Next \/ UNCHANGED Echo!vars
  PROVE  EchoInv'
<1>1. EchoTypes /\ Listening
  BY DEF EchoInv
<1>2. spc \in {"recv", "send"} => cur \in Speakers
  BY <1>1 DEF EchoTypes, Listening
<1>3. CASE Echo!ServerStep
  <2>1. CASE Echo!RecvError \/ Echo!ServerSendFails
    BY <2>1, EchoStop, Zenon DEF Echo!RecvError, Echo!ServerSendFails
  <2>2. CASE \E k \in 1 .. (IF cur = Echo!Nobody THEN 0 ELSE Len(up[cur])) : Echo!ServerRecv(k)
    <3>1. PICK k \in 1 .. (IF cur = Echo!Nobody THEN 0 ELSE Len(up[cur])) : Echo!ServerRecv(k)
      BY <2>2
    <3>2. cur \in Speakers /\ cur # Echo!Nobody
      BY <1>2, <3>1, EchoConstants DEF Echo!ServerRecv
    <3>3. k \in 1 .. Len(up[cur])
      BY <3>1, <3>2
    <3> QED
      BY <3>1, <3>2, <3>3, EchoReceives
  <2> QED
    BY <1>3, <2>1, <2>2, EchoAccepts, EchoSends, Zenon DEF Echo!ServerStep
<1>4. CASE \E c \in Speakers : Echo!ClientStep(c) \/ Echo!Die(c)
  BY <1>4, EchoClient
<1>5. CASE Echo!AcceptFails
  BY <1>5, EchoStop, Zenon DEF Echo!AcceptFails
<1> QED
  BY <1>3, <1>4, <1>5, EchoAccepts, Zenon DEF Echo!Next

\* The steps on which the server exits.
LEMMA EchoExits ==
  ASSUME EchoInv, Echo!Next \/ UNCHANGED Echo!vars
  PROVE  Echo!ExitStep
<1>1. EchoTypes /\ Listening /\ \A d \in Speakers : Speaking(d)
  BY DEF EchoInv
<1>2. CASE Echo!AcceptFails
  BY <1>2, Zenon DEF Echo!AcceptFails, Echo!ExitStep
<1>3. CASE Echo!RecvError \/ Echo!ServerSendFails
  <2>1. spc \in {"recv", "send"} /\ conn[cur] \in {"poked", "rst"}
    BY <1>3, Zenon DEF Echo!RecvError, Echo!ServerSendFails
  <2>2. cur \in Speakers
    BY <1>1, <2>1 DEF EchoTypes, Listening
  <2>3. Echo!LeftEarly(cur)
    BY <1>1, <2>1, <2>2, Zenon DEF Speaking
  <2> QED
    BY <2>3, Zenon DEF Echo!ExitStep
<1>4. CASE Echo!ServerStep /\ ~ (Echo!RecvError \/ Echo!ServerSendFails)
  <2>1. spc' \in {"accept", "recv", "send"}
    BY <1>4 DEF Echo!ServerStep, Echo!Accept, Echo!ServerRecv, Echo!StreamEnd, Echo!ServerSend
  <2> QED
    BY <2>1 DEF Echo!ExitStep
<1>5. CASE \E c \in Speakers : Echo!ClientStep(c) \/ Echo!Die(c)
  <2>1. spc' = spc
    BY <1>5, EchoOthers
  <2> QED
    BY <2>1, Zenon DEF Echo!ExitStep
<1>6. CASE Echo!Restart \/ Echo!Idle \/ UNCHANGED Echo!vars
  <2>1. spc' = spc \/ spc' = "accept"
    BY <1>6, Zenon DEF Echo!Restart, Echo!Idle, Echo!vars, Echo!server
  <2> QED
    BY <2>1 DEF Echo!ExitStep
<1> QED
  BY <1>2, <1>3, <1>4, <1>5, <1>6, Zenon DEF Echo!Next

\* While the program runs, of the echo programs.
EchoHolds == program = "echo" => EchoInv

LEMMA EchoAlways == FairSpec => []EchoHolds
<1>1. Init => EchoHolds
  BY EchoInit DEF Init, EchoHolds
<1>2. EchoHolds /\ [Next]_all => EchoHolds'
  <2> SUFFICES ASSUME EchoHolds, [Next]_all, program' = "echo"
               PROVE  EchoInv'
    BY DEF EchoHolds
  <2>1. program = "echo" /\ (Echo!Next \/ UNCHANGED Echo!vars)
    BY Zenon DEF Next, all, both, transfer, TransferRuns, EchoRuns, ProxyRuns,
                 Echo!vars, Echo!client, Echo!server
  <2> QED
    BY <2>1, EchoStep DEF EchoHolds
<1> QED
  BY <1>1, <1>2, PTL DEF FairSpec

\* A client of echoserver prints the beginning of its own message, and nothing of
\* another client's.
THEOREM EchoIsOwn == FairSpec => []EchoesOwnMessage
<1>1. EchoHolds => EchoesOwnMessage
  <2> SUFFICES ASSUME EchoInv, NEW c \in Speakers
               PROVE  /\ Echo!IsPrefix(msg[c] \o down[c], Echo!Message(c))
                      /\ Echo!IsPrefix(output[c], Echo!Message(c))
    BY Zenon DEF EchoHolds, EchoesOwnMessage, Echo!EchoesOwnMessage
  <2> DEFINE u == msg[c] \o down[c]
  <2>1. Heard(c)
    BY DEF EchoInv
  <2>2. /\ Follows(Speech(c), 0, output[c]) /\ Len(output[c]) <= Length[c]
        /\ Follows(Speech(c), 0, msg[c]) /\ Follows(Speech(c), Len(msg[c]), down[c])
        /\ Len(msg[c]) + Len(down[c]) <= Length[c]
    BY <2>1, Zenon DEF Heard, Echoed
  <2>3. 0 \in Nat /\ Follows(Speech(c), 0 + Len(msg[c]), down[c])
    BY <2>2, BehindZero
  <2>4. Joined(Speech(c), 0, msg[c], down[c], u)
    BY <2>2, <2>3, JoinPieces
  <2> HIDE DEF u
  <2>5. Follows(Speech(c), 0, u) /\ Len(u) <= Length[c]
    BY <2>2, <2>4, Zenon DEF Joined
  <2> QED
    BY <2>2, <2>5, MessageFollows, Zenon DEF u
<1> QED
  BY <1>1, EchoAlways, PTL

\* Every step on which echoserver exits is a failed accept, or is taken while it
\* serves a client that ended after its send and without the whole echo.
THEOREM EchoExitExplained == FairSpec => ExitExplained
<1>1. EchoHolds /\ [Next]_all => [program = "echo" => Echo!ExitStep]_all
  <2> SUFFICES ASSUME EchoHolds, [Next]_all, program = "echo"
               PROVE  Echo!ExitStep
    BY Zenon
  <2>1. Echo!Next \/ UNCHANGED Echo!vars
    BY Zenon DEF Next, all, both, transfer, TransferRuns, EchoRuns, ProxyRuns,
                 Echo!vars, Echo!client, Echo!server
  <2> QED
    BY <2>1, EchoExits DEF EchoHolds
<1> QED
  BY <1>1, EchoAlways, PTL DEF FairSpec, ExitExplained
=============================================================================
