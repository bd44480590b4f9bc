----------------------------- MODULE MCPrograms -----------------------------
(***************************************************************************)
(* The stand-alone programs that share no process with each other: the     *)
(* file transfer programs, the echo programs and the simple proxy.  A      *)
(* behaviour is one of them, chosen in the initial state; the variables of *)
(* the others stay Unused.  Transfer and Echo name the same things alike.  *)
(***************************************************************************)
EXTENDS Integers, Sequences

CONSTANTS
    Clients, FileLength, BufSize, Faults,       \* of Transfer
    Speakers, Limit, Mortal,                    \* of Echo
    Requests, Threads, BodyLength               \* of SimpleProxy

VARIABLES
    program,
    cpc, msg, output, conn, down, spc, cur, rest,                   \* of both
    pos, cut, skipped,                                              \* Transfer
    up,                                                             \* Echo
    origin, pc, response, curl, position, stream, gone, alive       \* SimpleProxy

both == <<cpc, msg, output, conn, down, spc, cur, rest>>
transfer == <<pos, cut, skipped>>
proxy == <<origin, pc, response, curl, position, stream, gone, alive>>
all == <<program, both, transfer, up, proxy>>

Unused == "unused"

\* The messages of the speakers: empty, short, as long as the limit, too long.
Length == [c \in Speakers |-> CASE c = "empty" -> 0 [] c = "long" -> Limit + 1
                                [] OTHER -> Limit]

Transfer == INSTANCE Transfer
Echo     == INSTANCE Echo WITH Clients <- Speakers
Proxy    == INSTANCE SimpleProxy

ASSUME ProgramsAssumption ==
    Transfer!Constraints /\ Echo!Constraints /\ Proxy!Constraints

BothUnused ==
    /\ cpc = Unused /\ msg = Unused /\ output = Unused /\ conn = Unused
    /\ down = Unused /\ spc = Unused /\ cur = Unused /\ rest = Unused

TransferUnused == pos = Unused /\ cut = Unused /\ skipped = Unused

ProxyUnused ==
    /\ origin = Unused /\ pc = Unused /\ response = Unused /\ curl = Unused
    /\ position = Unused /\ stream = Unused /\ gone = Unused /\ alive = Unused

Init ==
    \/ /\ program = "transfer"
       /\ Transfer!Init /\ up = Unused /\ ProxyUnused
    \/ /\ program = "echo"
       /\ Echo!Init /\ TransferUnused /\ ProxyUnused
    \/ /\ program = "proxy"
       /\ Proxy!Init /\ BothUnused /\ TransferUnused /\ up = Unused

\* The program that runs leaves the others alone.
TransferRuns == program = "transfer" /\ UNCHANGED <<program, up, proxy>>
EchoRuns     == program = "echo" /\ UNCHANGED <<program, transfer, proxy>>
ProxyRuns    == program = "proxy" /\ UNCHANGED <<program, both, transfer, up>>

Next ==
    \/ TransferRuns /\ Transfer!Next
    \/ EchoRuns /\ Echo!Next
    \/ ProxyRuns /\ Proxy!Next

\* Both ends of a connection run on, and so do the workers of the proxy.  Nothing
\* makes a process die, accept fail, the operator start a server again, a client
\* leave or stop reading, or an origin fall silent.
Fairness ==
    /\ WF_all(TransferRuns /\ Transfer!ServerStep)
    /\ \A c \in Clients : WF_all(TransferRuns /\ Transfer!ClientStep(c))
    /\ WF_all(EchoRuns /\ Echo!ServerStep)
    /\ \A c \in Speakers : WF_all(EchoRuns /\ Echo!ClientStep(c))
    /\ \A r \in Requests : WF_all(ProxyRuns /\ Proxy!WorkerStep(r))

FairSpec == Init /\ [][Next]_all /\ Fairness

-----------------------------------------------------------------------------
(* The properties of the three modules, each of its own program.           *)

\* However sends, receives and writes are cut, a client of transferserver has and
\* gets the beginning of the file, unless a send to it failed
\* (transferserver.c:131-147).
NoHole == program = "transfer" => Transfer!NoHole

\* A client of transferserver that exits with 0 has the whole file, unless the
\* server ended its own stream early or a send to it failed
\* (transferclient.c:128-135).
SuccessIsWhole == program = "transfer" => Transfer!SuccessIsWhole

\* A client of echoserver prints the beginning of its own message
\* (echoserver.c:124-136).
EchoesOwnMessage == program = "echo" => Echo!EchoesOwnMessage

\* echoserver exits only when accept fails, or while it serves a client that has
\* ended after its send and without the whole echo (echoserver.c:117-141).
ExitExplained == [][program = "echo" => Echo!ExitStep]_all

\* A client of the simple proxy gets the origin's answer whole, or a refusal for
\* a reason (handle_with_curl.c:81-117).
AnswerIsHonest == program = "proxy" => Proxy!AnswerIsHonest

\* Every client of the file transfer exits, although one server serves them in
\* turn and may stop (transferserver.c:117-150).
EveryTransferEnds ==
    \A c \in Clients : <>(program = "transfer" => Transfer!Ended(c))

\* Every client of echoserver exits, unless both wait for each other because its
\* message is empty (echoclient.c:125-130).
EveryEchoEnds ==
    \A c \in Speakers :
        \/ <>(program = "echo" => Echo!Ended(c))
        \/ <>[](program = "echo" /\ Echo!BothWait)

\* Every request to the simple proxy is answered, unless it or all the threads are
\* held for ever: by silent origins, for curl has no time limit
\* (handle_with_curl.c:81), or by clients that stay and do not read, for gfs_send
\* has none (handle_with_curl.c:34); or SIGPIPE ends the proxy.
EveryRequestAnswered ==
    \A r \in Requests :
        \/ <>(program = "proxy" => Proxy!Answered(r))
        \/ <>[](program = "proxy" /\ (Proxy!Held(r) \/ Proxy!AllThreadsHeld))
=============================================================================
