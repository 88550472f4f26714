--------------------------- MODULE WarmScanDaemon ---------------------------
(***************************************************************************)
(* The warm-scan daemon of auto-refactor on a POSIX system: the daemons    *)
(* (daemon/server.ts), the clients that ask them for a scan                *)
(* (daemon/client.ts), the start and stop commands (cli/daemonCmd.ts) and  *)
(* the two files through which they find each other, the registry          *)
(* (daemon/registry.ts) and the socket.                                    *)
(*                                                                         *)
(* All daemons of a project have one registry file and one socket path.    *)
(* A registry record names the same path whoever wrote it; what it adds is *)
(* that somebody did.  A diff scan takes the way of a scan; status changes *)
(* nothing; a registry that cannot be written, protocol versions and       *)
(* malformed lines are left out.                                           *)
(***************************************************************************)
EXTENDS Integers, Sequences, FiniteSets

CONSTANTS
  MaxDaemons,  \* bounds the processes spawned; they are numbered in that order
  MaxCommands, \* bounds the runs of the start and stop commands; numbered as they begin
  Clients,     \* the users of DaemonClient
  Holders,     \* those that keep their connection and scan again; the others are tryWarmScan
  MaxScans,    \* bounds the scans of a holder
  MaxKills     \* bounds the crashes and the signals
ASSUME DaemonAssumption ==
  /\ {MaxDaemons, MaxCommands, MaxKills} \subseteq Nat /\ MaxScans \in Nat \ {0}
  /\ IsFiniteSet(Clients) /\ Holders \subseteq Clients

VARIABLES
  registry,  \* who wrote the registry file, NoDaemon when there is none
  endpoint,  \* whose socket the path leads to, NoDaemon when there is no file
  phase,     \* per daemon: how far startListening or shutdown has come
  due,       \* per daemon: whether its idle timer has run down
  pending,   \* per daemon: request id -> the client of the scan it tracks
  work,      \* per daemon: the scans handleScan is running
  frames,    \* per daemon: the shutdown frames it has not read
  client,    \* per client: what its call waits for
  conn,      \* per client: the daemon its socket is connected to
  asked,     \* per client: the number of its scan, which is its requestId
  sent,      \* per client: what the daemon has not read from its socket
  received,  \* per client: what it has not read from its socket
  answer,    \* per client, history: the scan whose report its last call returned
  command,   \* per command: what it does next
  kills,
  mishaps    \* history: what has gone wrong, recorded at its cause

files == <<registry, endpoint>>
daemons == <<phase, due, pending, work, frames>>
clients == <<client, conn, asked, sent, received, answer>>
vars == <<files, daemons, clients, command, kills, mishaps>>

Daemons == 1 .. MaxDaemons
Commands == 1 .. MaxCommands
NoDaemon == 0
NoClient == "none"
\* Every client numbers its messages from 1, so the first scan of each is "r2".
Requests == 1 .. MaxScans
Scans == Clients \X Requests
NoScan == <<NoClient, 0>>

Msg(type, scan) == [type |-> type, scan |-> scan]
Bare(type) == Msg(type, NoScan)

Record(what) == mishaps' = mishaps \union {what}
InProgress(k) == command[k] \in {"probing", "booting", "polling", "reaching", "waiting"}
Booting(d) == phase[d] \in {"starting", "cleared", "bound"}
Listening(d) == d # NoDaemon /\ phase[d] \in {"bound", "serving"}
\* Serving is answering at once; a daemon whose event loop is busy still serves.
Reachable == endpoint # NoDaemon /\ phase[endpoint] = "serving"
Waits(c) == client[c] \in {"hello", "scanning"}

Init ==
  /\ registry = NoDaemon /\ endpoint = NoDaemon
  /\ phase = [d \in Daemons |-> "unborn"] /\ due = [d \in Daemons |-> FALSE]
  /\ pending = [d \in Daemons |-> [r \in Requests |-> NoClient]]
  /\ work = [d \in Daemons |-> {}] /\ frames = [d \in Daemons |-> 0]
  /\ client = [c \in Clients |-> "new"] /\ conn = [c \in Clients |-> NoDaemon]
  /\ asked = [c \in Clients |-> 0] /\ answer = [c \in Clients |-> NoScan]
  /\ sent = [c \in Clients |-> <<>>] /\ received = [c \in Clients |-> <<>>]
  /\ command = [k \in Commands |-> "new"]
  /\ kills = 0 /\ mishaps = {}

-----------------------------------------------------------------------------
(* The life of a daemon.                                                    *)

\* Mutant: the path is bound without removing what a crashed daemon has left there.
RemoveSocketSkipped(d) ==
  /\ phase[d] = "starting"
  /\ phase' = [phase EXCEPT ![d] = "cleared"]
  /\ UNCHANGED <<files, due, pending, work, frames, clients, command, kills, mishaps>>

\* startListening removes what is at the path and waits for that ...
RemoveSocket(d) ==
  /\ phase[d] = "starting"
  /\ endpoint' = NoDaemon
  /\ phase' = [phase EXCEPT ![d] = "cleared"]
  /\ UNCHANGED <<registry, due, pending, work, frames, clients, command, kills, mishaps>>

\* ... then binds it, and a failure ends the process ...
Bind(d) ==
  /\ phase[d] = "cleared"
  /\ IF endpoint = NoDaemon
       THEN endpoint' = d /\ phase' = [phase EXCEPT ![d] = "bound"]
       ELSE phase' = [phase EXCEPT ![d] = "gone"] /\ UNCHANGED endpoint
  /\ UNCHANGED <<registry, due, pending, work, frames, clients, command, kills, mishaps>>

\* ... and, once bound, starts the idle timer and writes the registry.
Ready(d) ==
  /\ phase[d] = "bound"
  /\ registry' = d
  /\ phase' = [phase EXCEPT ![d] = "serving"]
  /\ due' = [due EXCEPT ![d] = FALSE]
  /\ UNCHANGED <<endpoint, pending, work, frames, clients, command, kills, mishaps>>

\* shutdown: forget the scans, clear the registry, close the server, which
\* unlinks the path; whoever the registry and the path belong to by then.
Shutdown(d) ==
  /\ phase[d] = "serving"
  /\ phase' = [phase EXCEPT ![d] = "stopping"]
  /\ pending' = [pending EXCEPT ![d] = [r \in Requests |-> NoClient]]
  /\ registry' = NoDaemon /\ endpoint' = NoDaemon
  /\ UNCHANGED <<work, clients, command>>

\* Ten minutes without a call of scheduleIdle.  By then every wait on this
\* daemon has ended: those of clients last two minutes, those of commands five
\* seconds; and it has read what was sent.  Scans may still be running.
IdlePasses(d) ==
  /\ phase[d] = "serving" /\ ~ due[d]
  /\ frames[d] = 0
  /\ \A c \in Clients : conn[c] = d => ~ Waits(c) /\ sent[c] = <<>>
  /\ \A k \in Commands : ~ InProgress(k)
  /\ due' = [due EXCEPT ![d] = TRUE]
  /\ UNCHANGED <<files, phase, pending, work, frames, clients, command, kills, mishaps>>

\* Mutant: the timer stops a daemon only while the registry names it, so as to remove
\* nobody else's files.
IdleFiresRegistered(d) ==
  /\ due[d] /\ registry = d
  /\ Shutdown(d)
  /\ UNCHANGED <<due, frames, kills, mishaps>>

IdleFires(d) ==
  /\ due[d]
  /\ Shutdown(d)
  /\ UNCHANGED <<due, frames, kills, mishaps>>

\* A shutdown frame of the stop command.
ShutdownRead(d) ==
  /\ frames[d] > 0
  /\ Shutdown(d)
  /\ frames' = [frames EXCEPT ![d] = @ - 1]
  /\ UNCHANGED <<due, kills, mishaps>>

KillCounted ==
  /\ kills < MaxKills /\ kills' = kills + 1
  /\ IF \E k \in Commands : InProgress(k) THEN Record("killed") ELSE UNCHANGED mishaps

\* SIGTERM, SIGINT or an exception nobody caught.
Signal(d) ==
  /\ KillCounted
  /\ Shutdown(d)
  /\ UNCHANGED <<due, frames>>

\* The process ends: its memory is gone, its sockets close, nobody reads them.
End(d) ==
  /\ phase' = [phase EXCEPT ![d] = "gone"]
  /\ due' = [due EXCEPT ![d] = FALSE]
  /\ pending' = [pending EXCEPT ![d] = [r \in Requests |-> NoClient]]
  /\ work' = [work EXCEPT ![d] = {}] /\ frames' = [frames EXCEPT ![d] = 0]
  /\ sent' = [c \in Clients |-> IF conn[c] = d THEN <<>> ELSE sent[c]]
  /\ UNCHANGED <<files, client, conn, asked, received, answer, command>>

\* shutdown's setImmediate.
Exit(d) ==
  /\ phase[d] = "stopping"
  /\ End(d)
  /\ UNCHANGED <<kills, mishaps>>

\* Killed: the registry and the socket file stay.
Crash(d) ==
  /\ phase[d] \notin {"unborn", "gone"}
  /\ KillCounted
  /\ End(d)

-----------------------------------------------------------------------------
(* A daemon and its sockets.                                                *)

\* handleHello and the scan case of handleMessage, and what a closed socket
\* does; scheduleIdle is in each of them, and in the handleConnection before
\* the hello, which does nothing else.
Greeted(d, c) ==
  /\ received' = [received EXCEPT ![c] = Append(@, Bare("hello_ack"))]
  /\ UNCHANGED <<pending, work>>

ScanAsked(d, scan) ==
  /\ pending' = [pending EXCEPT ![d][scan[2]] = scan[1]]
  /\ work' = [work EXCEPT ![d] = @ \union {scan}]
  /\ UNCHANGED received

\* abortSocketPending; nothing listens to the signal it raises.
Closed(d, c) ==
  /\ pending' = [pending EXCEPT ![d] = [r \in Requests |-> IF @[r] = c THEN NoClient ELSE @[r]]]
  /\ UNCHANGED <<work, received>>

\* Mutant: a frame is read without touching the idle timer.
ReadUntouched(d, c) ==
  /\ phase[d] = "serving" /\ conn[c] = d /\ sent[c] # <<>>
  /\ sent' = [sent EXCEPT ![c] = Tail(@)]
  /\ LET msg == Head(sent[c]) IN
     \/ msg.type = "hello" /\ Greeted(d, c)
     \/ msg.type = "scan" /\ ScanAsked(d, msg.scan)
     \/ msg.type = "close" /\ Closed(d, c)
  /\ UNCHANGED <<files, phase, due, frames, client, conn, asked, answer, command, kills, mishaps>>

Read(d, c) ==
  /\ phase[d] = "serving" /\ conn[c] = d /\ sent[c] # <<>>
  /\ sent' = [sent EXCEPT ![c] = Tail(@)]
  /\ due' = [due EXCEPT ![d] = FALSE]
  /\ LET msg == Head(sent[c]) IN
     \/ msg.type = "hello" /\ Greeted(d, c)
     \/ msg.type = "scan" /\ ScanAsked(d, msg.scan)
     \/ msg.type = "close" /\ Closed(d, c)
  /\ UNCHANGED <<files, phase, frames, client, conn, asked, answer, command, kills, mishaps>>

\* Mutant: the answer goes to the client on record for the request id.
ReplyToPending(d, scan, msg) ==
  LET c == pending[d][scan[2]] IN
  received' = IF c = NoClient \/ client[c] = "done" THEN received
              ELSE [received EXCEPT ![c] = Append(@, msg)]

\* handleScanSuccess or handleScanError, on the socket the scan came from: a
\* write to a socket its client has closed is lost.
Reply(d, scan, msg) ==
  received' = IF client[scan[1]] = "done" THEN received
              ELSE [received EXCEPT ![scan[1]] = Append(@, msg)]

\* handleScan has settled; the finally of runScan forgets the id.
ScanSettles(d, scan) ==
  /\ phase[d] = "serving" /\ scan \in work[d]
  /\ \E type \in {"scan_done", "error"} : Reply(d, scan, Msg(type, scan))
  /\ work' = [work EXCEPT ![d] = @ \ {scan}]
  /\ pending' = [pending EXCEPT ![d][scan[2]] = NoClient]
  /\ due' = [due EXCEPT ![d] = FALSE]
  /\ UNCHANGED <<files, phase, frames, client, conn, asked, sent, answer, command, kills, mishaps>>

-----------------------------------------------------------------------------
(* DaemonClient.  A call that fails is followed by a cold scan.             *)

Leave(c) ==
  /\ client' = [client EXCEPT ![c] = "done"]
  /\ sent' = IF phase[conn[c]] = "gone" THEN sent
             ELSE [sent EXCEPT ![c] = Append(@, Bare("close"))]
  /\ received' = [received EXCEPT ![c] = <<>>]

\* connect: without a registry the call returns at once; with one the socket
\* is connected, or refused, in the same turn.
Connect(c) ==
  /\ client[c] = "new" /\ registry # NoDaemon
  /\ IF Listening(endpoint)
       THEN /\ client' = [client EXCEPT ![c] = "hello"]
            /\ conn' = [conn EXCEPT ![c] = endpoint]
            /\ sent' = [sent EXCEPT ![c] = <<Bare("hello")>>]
       ELSE client' = [client EXCEPT ![c] = "done"] /\ UNCHANGED <<conn, sent>>
  /\ UNCHANGED <<files, daemons, asked, received, answer, command, kills, mishaps>>

\* scan: a pendingScan that is still there is overwritten.
Ask(c) ==
  /\ asked' = [asked EXCEPT ![c] = @ + 1]
  /\ sent' = [sent EXCEPT ![c] = Append(@, Msg("scan", <<c, asked[c] + 1>>))]
  /\ client' = [client EXCEPT ![c] = "scanning"]
  /\ answer' = [answer EXCEPT ![c] = NoScan]

\* connect has resolved; tryWarmScan goes on with its scan.
HelloAck(c) ==
  /\ client[c] = "hello" /\ received[c] # <<>>
  /\ received' = [received EXCEPT ![c] = Tail(@)]
  /\ IF c \in Holders
       THEN client' = [client EXCEPT ![c] = "ready"] /\ UNCHANGED <<asked, sent, answer>>
       ELSE Ask(c)
  /\ UNCHANGED <<files, daemons, conn, command, kills, mishaps>>

Scan(c) ==
  /\ client[c] = "ready" /\ phase[conn[c]] # "gone" /\ asked[c] < MaxScans
  /\ Ask(c)
  /\ UNCHANGED <<files, daemons, conn, received, command, kills, mishaps>>

\* The call returns; tryWarmScan then closes its client.
Settle(c, rest) ==
  IF c \in Holders
    THEN /\ client' = [client EXCEPT ![c] = "ready"]
         /\ received' = [received EXCEPT ![c] = rest]
         /\ UNCHANGED sent
    ELSE Leave(c)

\* handleScanDone and handleError settle the call that waits, whatever request
\* the message answers; one that nobody waits for is dropped.
Receive(c) ==
  /\ client[c] \in {"ready", "scanning"} /\ received[c] # <<>>
  /\ LET msg == Head(received[c]) rest == Tail(received[c]) IN
     IF client[c] = "scanning"
       THEN /\ Settle(c, rest)
            /\ answer' = [answer EXCEPT ![c] = IF msg.type = "scan_done" THEN msg.scan ELSE NoScan]
       ELSE /\ received' = [received EXCEPT ![c] = rest]
            /\ UNCHANGED <<client, sent, answer>>
  /\ UNCHANGED <<files, daemons, conn, asked, command, kills, mishaps>>

\* HANDSHAKE_TIMEOUT.
HelloTimeout(c) ==
  /\ client[c] = "hello"
  /\ Leave(c)
  /\ UNCHANGED <<files, daemons, conn, asked, answer, command, kills, mishaps>>

\* SCAN_TIMEOUT rejects the call and leaves the socket and the scan alone.
ScanTimeout(c) ==
  /\ client[c] = "scanning"
  /\ Settle(c, received[c])
  /\ IF c \in Holders THEN Record("keptAfterTimeout") ELSE UNCHANGED mishaps
  /\ UNCHANGED <<files, daemons, conn, asked, answer, command, kills>>

\* The daemon is gone, with it what it had not flushed.
Disconnect(c) ==
  /\ client[c] \in {"hello", "ready", "scanning"} /\ phase[conn[c]] = "gone"
  /\ Leave(c)
  /\ UNCHANGED <<files, daemons, conn, asked, answer, command, kills, mishaps>>

\* close.
Close(c) ==
  /\ client[c] = "ready"
  /\ Leave(c)
  /\ UNCHANGED <<files, daemons, conn, asked, answer, command, kills, mishaps>>

-----------------------------------------------------------------------------
(* The start and stop commands.  Connecting, hello and ping are one step:   *)
(* they change nothing but the idle timer of a daemon that answers.         *)

Go(k, next) == command' = [command EXCEPT ![k] = next]
Touch(d) == due' = [due EXCEPT ![d] = FALSE]
\* A command begins; another may not have ended.
Begins(k) ==
  /\ command[k] = "new" /\ \A j \in Commands : j < k => command[j] # "new"
  /\ IF \E j \in Commands : InProgress(j) THEN Record("overlap") ELSE UNCHANGED mishaps

\* A probe or a handshake runs into its timeout though a daemon listens.
BusyNoted == IF Listening(endpoint) THEN Record("busy") ELSE UNCHANGED mishaps

\* Mutant: the probe is left out: what the registry says is taken for stale.
BeginStartUnprobed(k) ==
  /\ Begins(k)
  /\ registry' = NoDaemon
  /\ Go(k, "booting")
  /\ UNCHANGED <<endpoint, daemons, clients, kills>>

\* checkExistingDaemon.
BeginStart(k) ==
  /\ Begins(k)
  /\ Go(k, IF registry = NoDaemon THEN "booting" ELSE "probing")
  /\ UNCHANGED <<files, daemons, clients, kills>>

ProbeAnswered(k) ==
  /\ command[k] = "probing" /\ Reachable
  /\ Touch(endpoint) /\ Go(k, "started")
  /\ UNCHANGED <<files, phase, pending, work, frames, clients, kills, mishaps>>

\* No answer within 300 ms: the entry is taken for stale and cleared.
ProbeFails(k) ==
  /\ command[k] = "probing" /\ BusyNoted
  /\ registry' = NoDaemon
  /\ Go(k, "booting")
  /\ UNCHANGED <<endpoint, daemons, clients, kills>>

\* spawnServerProcess.
Spawn(k) ==
  /\ command[k] = "booting"
  /\ \E d \in Daemons :
       /\ phase[d] = "unborn" /\ \A e \in Daemons : e < d => phase[e] # "unborn"
       /\ phase' = [phase EXCEPT ![d] = "starting"]
  /\ Go(k, "polling")
  /\ UNCHANGED <<files, due, pending, work, frames, clients, kills, mishaps>>

\* pollDaemonReady: a registry and a ping.
PollAnswered(k) ==
  /\ command[k] = "polling" /\ registry # NoDaemon /\ Reachable
  /\ Touch(endpoint) /\ Go(k, "started")
  /\ UNCHANGED <<files, phase, pending, work, frames, clients, kills, mishaps>>

\* Fifty polls, five seconds, which no boot is taken to last.
PollGivesUp(k) ==
  /\ command[k] = "polling" /\ ~ (registry # NoDaemon /\ Reachable)
  /\ \A d \in Daemons : ~ Booting(d)
  /\ Go(k, "failed")
  /\ UNCHANGED <<files, daemons, clients, kills, mishaps>>

\* Without a registry stopDaemon returns at once.
BeginStop(k) ==
  /\ Begins(k) /\ registry # NoDaemon
  /\ Go(k, "reaching")
  /\ UNCHANGED <<files, daemons, clients, kills>>

\* connect, then the shutdown frame, and the socket is destroyed.
StopSent(k) ==
  /\ command[k] = "reaching" /\ Reachable
  /\ Touch(endpoint)
  /\ frames' = [frames EXCEPT ![endpoint] = @ + 1]
  /\ Go(k, "waiting")
  /\ UNCHANGED <<files, phase, pending, work, clients, kills, mishaps>>

StopUnreachable(k) ==
  /\ command[k] = "reaching" /\ BusyNoted
  /\ registry' = NoDaemon
  /\ Go(k, "stopped")
  /\ UNCHANGED <<endpoint, daemons, clients, kills>>

\* The registry is gone, or thirty polls, three seconds, are over: stopDaemon
\* clears the registry and calls the daemon stopped.
StopReturns(k) ==
  /\ command[k] = "waiting"
  /\ IF registry # NoDaemon THEN Record("busy") ELSE UNCHANGED mishaps
  /\ registry' = NoDaemon
  /\ Go(k, "stopped")
  /\ UNCHANGED <<endpoint, daemons, clients, kills>>

-----------------------------------------------------------------------------
DaemonStep(d) ==
  \/ RemoveSocket(d) \/ Bind(d) \/ Ready(d) \/ ShutdownRead(d) \/ Exit(d)
  \/ \E c \in Clients : Read(d, c)
  \/ \E scan \in Scans : ScanSettles(d, scan)

ClientStep(c) ==
  \/ HelloAck(c) \/ Receive(c)
  \/ HelloTimeout(c) \/ ScanTimeout(c) \/ Disconnect(c)

CommandStep(k) ==
  \/ ProbeAnswered(k) \/ ProbeFails(k) \/ Spawn(k) \/ PollAnswered(k) \/ PollGivesUp(k)
  \/ StopSent(k) \/ StopUnreachable(k) \/ StopReturns(k)

System ==
  \/ \E d \in Daemons : DaemonStep(d) \/ IdlePasses(d) \/ IdleFires(d)
  \/ \E c \in Clients : ClientStep(c)
  \/ \E k \in Commands : CommandStep(k)

Environment ==
  \/ \E d \in Daemons : Signal(d) \/ Crash(d)
  \/ \E c \in Clients : Connect(c) \/ Scan(c) \/ Close(c)
  \/ \E k \in Commands : BeginStart(k) \/ BeginStop(k)

Next == System \/ Environment

\* Processes run, messages are read and timers fire; nobody has to begin
\* anything, and a holder may keep its connection for ever.  With the bounds
\* no process can keep another from its turn for ever.
Fairness == WF_vars(System)

Spec == Init /\ [][Next]_vars /\ Fairness

-----------------------------------------------------------------------------
(* Properties.                                                              *)

\* Every variable has its type.
TypeOK ==
  /\ registry \in 0 .. MaxDaemons /\ endpoint \in 0 .. MaxDaemons
  /\ phase \in [Daemons -> {"unborn", "starting", "cleared", "bound", "serving",
                            "stopping", "gone"}]
  /\ due \in [Daemons -> BOOLEAN]
  /\ pending \in [Daemons -> [Requests -> Clients \union {NoClient}]]
  /\ work \in [Daemons -> SUBSET Scans] /\ frames \in [Daemons -> Nat]
  /\ client \in [Clients -> {"new", "hello", "ready", "scanning", "done"}]
  /\ conn \in [Clients -> 0 .. MaxDaemons] /\ asked \in [Clients -> 0 .. MaxScans]
  /\ answer \in [Clients -> Scans \union {NoScan}]
  /\ command \in [Commands -> {"new", "probing", "booting", "polling", "reaching", "waiting",
                               "started", "failed", "stopped"}]
  /\ mishaps \subseteq {"killed", "overlap", "busy", "keptAfterTimeout"}

\* A daemon that serves is the one the registry and the socket lead to, so
\* there is one at most, and its shutdown takes nothing from another: unless
\* two commands ran at once, or one took a busy daemon for a dead or a stopped
\* one.  Then a second daemon has taken the path, and the first one's
\* shutdown, ten minutes later, cuts the second one off as well.
ServingIsReachable ==
  mishaps \intersect {"overlap", "busy"} = {} =>
    \A d \in Daemons : phase[d] = "serving" => registry = d /\ endpoint = d

\* Whatever a crash, a signal or an earlier command has left in the registry
\* and at the socket path, start brings a daemon up: unless another command
\* interferes, or the daemon is killed meanwhile.
StartSucceeds ==
  mishaps \intersect {"overlap", "busy", "killed"} = {} =>
    \A k \in Commands : command[k] # "failed"

\* The report a call returns is the one of the scan it asked for, though all
\* clients use the same request ids: unless a client scans again on the
\* connection on which a scan of its own has timed out.
AnswersOwnRequest ==
  "keptAfterTimeout" \notin mishaps =>
    \A c \in Clients : answer[c] # NoScan => answer[c] = <<c, asked[c]>>

\* The idle timer never shuts a daemon down that is running the scan of a
\* client that still waits for it.
IdleExitCutsNobodyOff ==
  [][\A d \in Daemons : IdleFires(d) =>
       \A scan \in work[d] : ~ (client[scan[1]] = "scanning" /\ asked[scan[1]] = scan[2])]_vars

\* No daemon stays for ever once it is no longer used, not even one that
\* nobody can reach: ten minutes without a message end it, as section 5.1 of
\* docs/01-architecture/03-daemon-and-ipc.md has it, whoever is connected.
DaemonsLeave == []<>(\A d \in Daemons : phase[d] # "serving")

\* The header of daemon/server.ts: "idle 10min with no connections or a shutdown
\* signal exits gracefully".  The timer asks for no connections: a client that keeps
\* its connection and is silent loses its daemon.
IdleExitOnlyUnconnected ==
  [][\A d \in Daemons : IdleFires(d) => \A c \in Clients : conn[c] = d => client[c] # "ready"]_vars

\* docs/01-architecture/03-daemon-and-ipc.md, 4.1: when a client disconnects its
\* scans are interrupted, and no orphan goes on using processor and memory.
NoOrphanScan ==
  \A d \in Daemons : \A scan \in work[d] :
    client[scan[1]] = "done" => sent[scan[1]] # <<>>

=============================================================================
