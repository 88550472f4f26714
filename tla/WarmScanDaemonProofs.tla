----------------------- MODULE WarmScanDaemonProofs -----------------------
(* For any numbers of daemons, commands, clients, scans and kills: a daemon   *)
(* that serves can be reached and is the only one, start brings one up, an    *)
(* answer is to the request that was asked, and the idle timer cuts nobody    *)
(* off, each up to the mishap that its property names.                        *)
EXTENDS WarmScanDaemon, TLAPS, SequenceTheorems

Alive(d) == Booting(d) \/ phase[d] = "serving"

\* What a client with a scans behind it may have said, and what it may be told.
Said(c, a) == {Bare("hello"), Bare("close")} \union {Msg("scan", <<c, n>>) : n \in 1 .. a}
Told(c, a) == {Bare("hello_ack")} \union {Msg(type, <<c, n>>) : type \in {"scan_done", "error"}, n \in 1 .. a}

\* Messages are of their own client; a scan runs where its client is connected,
\* and has been asked for.
Conversation(c) ==
  /\ sent[c] \in Seq(Said(c, asked[c])) /\ received[c] \in Seq(Told(c, asked[c]))
  /\ \A d \in Daemons : \A scan \in work[d] :
       scan[1] = c => conn[c] = d /\ scan[2] \in 1 .. asked[c]
  /\ client[c] \in {"new", "hello"} => asked[c] = 0
Conversations == \A c \in Clients : Conversation(c)

Channels ==
  sent = [c \in Clients |-> sent[c]] /\ received = [c \in Clients |-> received[c]]

\* An idle timer that has run down finds no scan that the client still waits for.
Unhurried(c) ==
  \A d \in Daemons : due[d] =>
    \A scan \in work[d] : scan[1] = c => ~ (client[c] = "scanning" /\ asked[c] = scan[2])

\* Nothing of a client is under way but what its call waits for.
NoWork(c) == \A d \in Daemons : \A scan \in work[d] : scan[1] # c
OnlyWork(c, n) == \A d \in Daemons : \A scan \in work[d] : scan[1] = c => scan[2] = n
Quiet(c) == sent[c] = <<>> /\ received[c] = <<>>
Greeting(c) ==
  /\ NoWork(c)
  /\ \/ sent[c] = <<Bare("hello")>> /\ received[c] = <<>>
     \/ sent[c] = <<>> /\ received[c] = <<Bare("hello_ack")>>
     \/ Quiet(c)
Asking(c) ==
  \/ sent[c] = <<Msg("scan", <<c, asked[c]>>)>> /\ received[c] = <<>> /\ NoWork(c)
  \/ Quiet(c) /\ OnlyWork(c, asked[c])
  \/ /\ sent[c] = <<>> /\ NoWork(c)
     /\ \E type \in {"scan_done", "error"} : received[c] = <<Msg(type, <<c, asked[c]>>)>>
InTurn(c) ==
  /\ client[c] \in {"new", "ready"} => Quiet(c) /\ NoWork(c)
  /\ client[c] = "hello" => Greeting(c)
  /\ client[c] = "scanning" => Asking(c)
  /\ answer[c] # NoScan => answer[c] = <<c, asked[c]>>

Served(c) == Conversation(c) /\ Unhurried(c) /\ ("keptAfterTimeout" \notin mishaps => InTurn(c))

\* One command at a time, and one daemon.
OneCommand == \A j, k \in Commands : InProgress(j) /\ InProgress(k) => j = k
OneDaemon == \A d, e \in Daemons : Alive(d) /\ Alive(e) => d = e
PolledFor == \A d \in Daemons : Booting(d) => \E k \in Commands : command[k] = "polling"
RoomToBoot == (\E k \in Commands : command[k] = "booting") => \A d \in Daemons : ~ Alive(d)
HoldsPath == \A d \in Daemons :
  /\ phase[d] = "cleared" => endpoint = NoDaemon
  /\ phase[d] = "bound" => endpoint = d
  /\ phase[d] = "serving" => registry = d /\ endpoint = d
Order == OneCommand /\ OneDaemon /\ PolledFor /\ RoomToBoot /\ HoldsPath
Orderly == mishaps \intersect {"overlap", "busy"} = {} => Order

\* A daemon that is waited for comes up: nothing is there to shut it down.
Fresh == \A d \in Daemons : phase[d] = "unborn" => ~ due[d] /\ frames[d] = 0
Awaited == mishaps \intersect {"overlap", "busy", "killed"} = {} =>
  /\ (\E k \in Commands : command[k] = "polling") =>
       \E d \in Daemons : Alive(d) /\ ~ due[d] /\ frames[d] = 0
  /\ \A k \in Commands : command[k] # "failed"

-----------------------------------------------------------------------------
(* Messages.                                                                *)

LEMMA Single ==
  ASSUME NEW m
  PROVE  Head(<<m>>) = m /\ Tail(<<m>>) = <<>> /\ <<m>> # <<>> /\ Append(<<>>, m) = <<m>>
  OBVIOUS

LEMMA Heard ==
  ASSUME NEW S, NEW s \in Seq(S), s # <<>>
  PROVE  Head(s) \in S /\ Tail(s) \in Seq(S)
  OBVIOUS

LEMMA Widened ==
  ASSUME NEW S, NEW T, S \subseteq T, NEW s \in Seq(S)
  PROVE  s \in Seq(T)
  BY SMT

LEMMA Added ==
  ASSUME NEW S, NEW s \in Seq(S), NEW m \in S
  PROVE  Append(s, m) \in Seq(S) /\ <<m>> \in Seq(S) /\ <<>> \in Seq(S)
  OBVIOUS

LEMMA Vocabulary ==
  ASSUME NEW c, NEW a \in Nat
  PROVE  /\ Bare("hello") \in Said(c, a) /\ Bare("close") \in Said(c, a)
         /\ Msg("scan", <<c, a + 1>>) \in Said(c, a + 1)
         /\ Said(c, a) \subseteq Said(c, a + 1) /\ Told(c, a) \subseteq Told(c, a + 1)
         /\ Bare("hello_ack") \in Told(c, a)
         /\ \A m \in Said(c, a) : m.type = "scan" => \E n \in 1 .. a : m.scan = <<c, n>>
         /\ \A m \in Told(c, a) : m.type = "scan_done" => \E n \in 1 .. a : m.scan = <<c, n>>
         /\ \A n \in 1 .. a, type \in {"scan_done", "error"} : Msg(type, <<c, n>>) \in Told(c, a)
  BY DEF Said, Told, Bare, Msg, NoScan

-----------------------------------------------------------------------------
(* The type invariant.                                                      *)

Typed == TypeOK /\ Channels /\ Conversations

LEMMA Bounds == {MaxDaemons, MaxCommands, MaxScans} \subseteq Nat /\ 1 \in Requests /\ Holders \subseteq Clients
  BY DaemonAssumption DEF Requests

LEMMA Endpoint == TypeOK /\ Reachable => endpoint \in Daemons
  BY Bounds DEF TypeOK, Reachable, Daemons, NoDaemon

\* The messages that are read, and what they say.
LEMMA Spoken ==
  ASSUME Typed, NEW c \in Clients
  PROVE  /\ asked[c] \in Nat
         /\ sent[c] # <<>> => /\ Head(sent[c]) \in Said(c, asked[c])
                              /\ Tail(sent[c]) \in Seq(Said(c, asked[c]))
                              /\ Head(sent[c]).type = "scan" => Head(sent[c]).scan \in Scans
         /\ received[c] # <<>> => /\ Head(received[c]) \in Told(c, asked[c])
                                  /\ Tail(received[c]) \in Seq(Told(c, asked[c]))
                                  /\ Head(received[c]).type = "scan_done" => Head(received[c]).scan \in Scans
  <1>1. asked[c] \in 0 .. MaxScans
    BY DEF Typed, TypeOK
  <1>2. asked[c] \in Nat /\ 1 .. asked[c] \subseteq Requests
    BY <1>1, Bounds DEF Requests
  <1>3. sent[c] \in Seq(Said(c, asked[c])) /\ received[c] \in Seq(Told(c, asked[c]))
    BY DEF Typed, Conversations, Conversation
  <1>4. sent[c] # <<>> => Head(sent[c]) \in Said(c, asked[c]) /\ Tail(sent[c]) \in Seq(Said(c, asked[c]))
    BY <1>3, Heard
  <1>5. received[c] # <<>> => Head(received[c]) \in Told(c, asked[c]) /\ Tail(received[c]) \in Seq(Told(c, asked[c]))
    BY <1>3, Heard
  <1>6. sent[c] # <<>> /\ Head(sent[c]).type = "scan" => Head(sent[c]).scan \in Scans
    <2> DEFINE m == Head(sent[c])
    <2> SUFFICES ASSUME sent[c] # <<>>, m.type = "scan" PROVE m.scan \in Scans
      OBVIOUS
    <2>1. m \in Said(c, asked[c])
      BY <1>4
    <2> HIDE DEF m
    <2>2. PICK n \in 1 .. asked[c] : m.scan = <<c, n>>
      BY <1>2, <2>1, Vocabulary
    <2> QED BY <1>2, <2>2 DEF Scans
  <1>7. received[c] # <<>> /\ Head(received[c]).type = "scan_done" => Head(received[c]).scan \in Scans
    <2> DEFINE m == Head(received[c])
    <2> SUFFICES ASSUME received[c] # <<>>, m.type = "scan_done" PROVE m.scan \in Scans
      OBVIOUS
    <2>1. m \in Told(c, asked[c])
      BY <1>5
    <2> HIDE DEF m
    <2>2. PICK n \in 1 .. asked[c] : m.scan = <<c, n>>
      BY <1>2, <2>1, Vocabulary
    <2> QED BY <1>2, <2>2 DEF Scans
  <1> QED BY <1>2, <1>4, <1>5, <1>6, <1>7

\* A daemon's own steps.
LEMMA DaemonTyped ==
  ASSUME Typed, NEW d \in Daemons,
         DaemonStep(d) \/ IdlePasses(d) \/ IdleFires(d) \/ Signal(d) \/ Crash(d)
  PROVE  TypeOK'
  <1> USE DEF Typed
  <1>1. CASE RemoveSocket(d) \/ Bind(d) \/ Ready(d) \/ IdlePasses(d)
    <2>0. d \in 0 .. MaxDaemons /\ NoDaemon \in 0 .. MaxDaemons
      BY Bounds DEF Daemons, NoDaemon
    <2>1. CASE RemoveSocket(d)
      BY <2>0, <2>1 DEF RemoveSocket, TypeOK, clients
    <2>2. CASE Bind(d)
      BY <2>0, <2>2 DEF Bind, TypeOK, clients
    <2>3. CASE Ready(d)
      BY <2>0, <2>3 DEF Ready, TypeOK, clients
    <2>4. CASE IdlePasses(d)
      BY <2>4 DEF IdlePasses, TypeOK, clients, files
    <2> QED BY <1>1, <2>1, <2>2, <2>3, <2>4
  <1>2. ASSUME Shutdown(d), mishaps' \subseteq mishaps \union {"killed"}, due' = due,
               frames' \in {frames, [frames EXCEPT ![d] = @ - 1]},
               frames' # frames => frames[d] > 0
        PROVE  TypeOK'
    <2>1. frames' \in [Daemons -> Nat]
      BY <1>2 DEF TypeOK
    <2>2. NoDaemon \in 0 .. MaxDaemons
      BY Bounds DEF NoDaemon
    <2>3. /\ phase' \in [Daemons -> {"unborn", "starting", "cleared", "bound", "serving", "stopping", "gone"}]
          /\ pending' \in [Daemons -> [Requests -> Clients \union {NoClient}]]
      BY <1>2 DEF Shutdown, TypeOK
    <2>4. UNCHANGED <<work, clients, command>> /\ registry' = NoDaemon /\ endpoint' = NoDaemon
      BY <1>2 DEF Shutdown
    <2> QED BY <1>2, <2>1, <2>2, <2>3, <2>4 DEF TypeOK, clients
  <1>3. KillCounted => mishaps' \subseteq mishaps \union {"killed"}
    BY DEF KillCounted, Record
  <1>4. CASE IdleFires(d) \/ ShutdownRead(d) \/ Signal(d)
    BY <1>2, <1>3, <1>4 DEF IdleFires, ShutdownRead, Signal
  <1>5. ASSUME End(d), mishaps' \subseteq mishaps \union {"killed"}
        PROVE  TypeOK'
    BY <1>5 DEF End, TypeOK, files
  <1>6. CASE Exit(d) \/ Crash(d)
    BY <1>3, <1>5, <1>6 DEF Exit, Crash
  <1>7. ASSUME NEW c \in Clients, Read(d, c) PROVE TypeOK'
    <2> DEFINE msg == Head(sent[c])
    <2>1. msg.type = "scan" => msg.scan \in Scans /\ msg.scan[1] \in Clients
      BY <1>7, Spoken DEF Read, Scans
    <2>2. /\ due' = [due EXCEPT ![d] = FALSE]
          /\ UNCHANGED <<files, phase, frames, client, conn, asked, answer, command, kills, mishaps>>
      BY <1>7 DEF Read
    <2>3. /\ pending' \in [Daemons -> [Requests -> Clients \union {NoClient}]]
          /\ work' \in [Daemons -> SUBSET Scans]
      <3>1. CASE msg.type = "hello" /\ Greeted(d, c)
        BY <3>1 DEF Greeted, TypeOK
      <3>2. CASE msg.type = "scan" /\ ScanAsked(d, msg.scan)
        <4> DEFINE scan == msg.scan
        <4>0. scan \in Scans /\ scan[1] \in Clients /\ ScanAsked(d, scan)
          BY <2>1, <3>2
        <4> HIDE DEF scan
        <4> QED BY <4>0 DEF ScanAsked, TypeOK
      <3>3. CASE msg.type = "close" /\ Closed(d, c)
        BY <3>3 DEF Closed, TypeOK
      <3> QED BY <1>7, <3>1, <3>2, <3>3 DEF Read
    <2> QED BY <2>2, <2>3 DEF TypeOK, files
  <1>8. ASSUME NEW scan \in Scans, ScanSettles(d, scan) PROVE TypeOK'
    BY <1>8 DEF ScanSettles, TypeOK, files
  <1> QED BY <1>1, <1>4, <1>6, <1>7, <1>8 DEF DaemonStep

\* A client's steps.
ClientMoves(c) == ClientStep(c) \/ Connect(c) \/ Scan(c) \/ Close(c)

LEMMA ClientTyped ==
  ASSUME Typed, NEW c \in Clients, ClientMoves(c)
  PROVE  TypeOK' /\ UNCHANGED <<files, daemons, command, kills>>
  <1> USE DEF Typed
  <1> DEFINE Goal == TypeOK' /\ UNCHANGED <<files, daemons, command, kills>>
  <1>1. ASSUME client' \in [Clients -> {"new", "hello", "ready", "scanning", "done"}],
               conn' \in [Clients -> 0 .. MaxDaemons], asked' \in [Clients -> 0 .. MaxScans],
               answer' \in [Clients -> Scans \union {NoScan}],
               mishaps' \subseteq mishaps \union {"keptAfterTimeout"},
               UNCHANGED <<files, daemons, command, kills>>
        PROVE  Goal
    BY <1>1 DEF TypeOK, files, daemons
  <1>2. ASSUME Leave(c), UNCHANGED <<files, daemons, conn, asked, answer, command, kills, mishaps>>
        PROVE  Goal
    <2>1. client' \in [Clients -> {"new", "hello", "ready", "scanning", "done"}]
      BY <1>2 DEF Leave, TypeOK
    <2> QED BY <1>1, <1>2, <2>1 DEF TypeOK
  <1>3. CASE HelloTimeout(c) \/ Disconnect(c) \/ Close(c)
    BY <1>2, <1>3 DEF HelloTimeout, Disconnect, Close
  <1>4. ASSUME NEW rest, Settle(c, rest)
        PROVE  client' \in [Clients -> {"new", "hello", "ready", "scanning", "done"}]
    BY <1>4 DEF Settle, Leave, TypeOK
  <1>5. CASE ScanTimeout(c)
    <2>1. client' \in [Clients -> {"new", "hello", "ready", "scanning", "done"}]
      BY <1>4, <1>5 DEF ScanTimeout
    <2>2. mishaps' \subseteq mishaps \union {"keptAfterTimeout"}
      BY <1>5 DEF ScanTimeout, Record
    <2>3. UNCHANGED <<files, daemons, conn, asked, answer, command, kills>>
      BY <1>5 DEF ScanTimeout
    <2> QED BY <1>1, <2>1, <2>2, <2>3 DEF TypeOK
  <1>6. CASE Receive(c)
    <2> DEFINE msg == Head(received[c])
    <2>1. UNCHANGED <<files, daemons, conn, asked, command, kills, mishaps>>
      BY <1>6 DEF Receive
    <2>2. client' \in [Clients -> {"new", "hello", "ready", "scanning", "done"}]
      <3>1. CASE client[c] = "scanning"
        BY <1>4, <1>6, <3>1 DEF Receive
      <3>2. CASE client[c] # "scanning"
        BY <1>6, <3>2 DEF Receive, TypeOK
      <3> QED BY <3>1, <3>2
    <2>3. msg.type = "scan_done" => msg.scan \in Scans
      BY <1>6, Spoken DEF Receive
    <2>4. answer' \in [Clients -> Scans \union {NoScan}]
      <3>1. CASE client[c] = "scanning"
        <4>1. PICK a : answer' = [answer EXCEPT ![c] = a] /\ a \in Scans \union {NoScan}
          BY <1>6, <2>3, <3>1 DEF Receive
        <4> QED BY <4>1 DEF TypeOK
      <3>2. CASE client[c] # "scanning"
        BY <1>6, <3>2 DEF Receive, TypeOK
      <3> QED BY <3>1, <3>2
    <2> QED BY <1>1, <2>1, <2>2, <2>4 DEF TypeOK
  <1>7. ASSUME Ask(c), asked[c] < MaxScans, UNCHANGED <<files, daemons, conn, command, kills, mishaps>>
        PROVE  Goal
    <2>1. asked' \in [Clients -> 0 .. MaxScans]
      BY <1>7, Bounds DEF Ask, TypeOK
    <2>2. /\ client' \in [Clients -> {"new", "hello", "ready", "scanning", "done"}]
          /\ answer' \in [Clients -> Scans \union {NoScan}]
      BY <1>7 DEF Ask, TypeOK
    <2> QED BY <1>1, <1>7, <2>1, <2>2 DEF TypeOK
  <1>8. CASE Scan(c)
    BY <1>7, <1>8 DEF Scan
  <1>9. CASE HelloAck(c)
    <2>1. asked[c] = 0 /\ asked[c] < MaxScans
      <3>1. asked[c] = 0
        BY <1>9 DEF HelloAck, Conversations, Conversation
      <3> QED BY <3>1, DaemonAssumption
    <2>2. CASE c \in Holders
      BY <1>1, <1>9, <2>2 DEF HelloAck, TypeOK
    <2>3. CASE c \notin Holders
      BY <1>7, <1>9, <2>1, <2>3 DEF HelloAck
    <2> QED BY <2>2, <2>3
  <1>10. CASE Connect(c)
    <2>1. /\ client' \in [Clients -> {"new", "hello", "ready", "scanning", "done"}]
          /\ conn' \in [Clients -> 0 .. MaxDaemons]
      BY <1>10 DEF Connect, TypeOK
    <2>2. UNCHANGED <<files, daemons, asked, answer, command, kills, mishaps>>
      BY <1>10 DEF Connect
    <2> QED BY <1>1, <2>1, <2>2 DEF TypeOK
  <1> QED BY <1>3, <1>5, <1>6, <1>8, <1>9, <1>10 DEF ClientMoves, ClientStep

\* A command's steps.
CommandMoves(k) == CommandStep(k) \/ BeginStart(k) \/ BeginStop(k)

LEMMA CommandTyped ==
  ASSUME Typed, NEW k \in Commands, CommandMoves(k)
  PROVE  TypeOK' /\ UNCHANGED <<clients, pending, work>>
  <1> USE DEF Typed, TypeOK, Go, Record, NoDaemon
  <1>0. 0 \in 0 .. MaxDaemons
    BY Bounds
  <1>1. CASE BeginStart(k) \/ BeginStop(k)
    BY <1>1 DEF BeginStart, BeginStop, Begins, files, daemons, clients
  <1>2. CASE ProbeAnswered(k) \/ PollAnswered(k)
    <2>1. endpoint \in Daemons
      BY <1>2, Endpoint DEF ProbeAnswered, PollAnswered
    <2>2. /\ due' = [due EXCEPT ![endpoint] = FALSE] /\ command' = [command EXCEPT ![k] = "started"]
          /\ UNCHANGED <<files, phase, pending, work, frames, clients, kills, mishaps>>
      BY <1>2 DEF ProbeAnswered, PollAnswered, Touch
    <2> QED BY <2>1, <2>2 DEF files, clients
  <1>3. CASE ProbeFails(k) \/ StopUnreachable(k)
    <2>1. PICK next \in {"booting", "stopped"} : command' = [command EXCEPT ![k] = next]
      BY <1>3 DEF ProbeFails, StopUnreachable
    <2>2. mishaps' \subseteq mishaps \union {"busy"}
      BY <1>3 DEF ProbeFails, StopUnreachable, BusyNoted
    <2>3. registry' = 0 /\ UNCHANGED <<endpoint, daemons, clients, kills>>
      BY <1>3 DEF ProbeFails, StopUnreachable
    <2> QED BY <1>0, <2>1, <2>2, <2>3 DEF daemons, clients
  <1>4. CASE Spawn(k)
    BY <1>4 DEF Spawn, files, clients
  <1>5. CASE PollGivesUp(k)
    BY <1>5 DEF PollGivesUp, files, daemons, clients
  <1>6. CASE StopSent(k)
    <2>1. endpoint \in Daemons
      BY <1>6, Endpoint DEF StopSent
    <2>2. /\ due' = [due EXCEPT ![endpoint] = FALSE] /\ command' = [command EXCEPT ![k] = "waiting"]
          /\ frames' = [frames EXCEPT ![endpoint] = @ + 1]
          /\ UNCHANGED <<files, phase, pending, work, clients, kills, mishaps>>
      BY <1>6 DEF StopSent, Touch
    <2> QED BY <2>1, <2>2 DEF files, clients
  <1>7. CASE StopReturns(k)
    <2>1. mishaps' \subseteq mishaps \union {"busy"}
      BY <1>7 DEF StopReturns
    <2> QED BY <1>0, <1>7, <2>1 DEF StopReturns, daemons, clients
  <1> QED BY <1>1, <1>2, <1>3, <1>4, <1>5, <1>6, <1>7 DEF CommandMoves, CommandStep

\* The steps of the system and of its environment, by who takes them.
LEMMA Movers ==
  ASSUME Next
  PROVE  \/ \E d \in Daemons : DaemonStep(d) \/ IdlePasses(d) \/ IdleFires(d) \/ Signal(d) \/ Crash(d)
         \/ \E c \in Clients : ClientMoves(c)
         \/ \E k \in Commands : CommandMoves(k)
  BY DEF Next, System, Environment, ClientMoves, CommandMoves

LEMMA NextTyped ==
  ASSUME Typed, [Next]_vars
  PROVE  TypeOK'
  <1>1. CASE UNCHANGED vars
    BY <1>1 DEF vars, files, daemons, clients, Typed, TypeOK
  <1> QED BY <1>1, Movers, DaemonTyped, ClientTyped, CommandTyped

-----------------------------------------------------------------------------
(* What is under way between a client and its daemon.                       *)

Served0 == \A c \in Clients : Served(c)

\* A client that a step leaves alone, but that its daemon may end.
LEMMA StaysServed ==
  ASSUME TypeOK, NEW c \in Clients, Served(c), sent'[c] \in {sent[c], <<>>},
         received'[c] = received[c], asked'[c] = asked[c], client'[c] = client[c],
         conn'[c] = conn[c], answer'[c] = answer[c], mishaps \subseteq mishaps',
         \A d \in Daemons : \A scan \in work'[d] : scan[1] = c => scan \in work[d],
         \A d \in Daemons : due'[d] => due[d]
  PROVE  Served(c)'
  <1>1. Conversation(c)'
    <2>1. <<>> \in Seq(Said(c, asked[c]))
      OBVIOUS
    <2>2. sent'[c] \in Seq(Said(c, asked'[c])) /\ received'[c] \in Seq(Told(c, asked'[c]))
      BY <2>1 DEF Served, Conversation
    <2> QED BY <2>2 DEF Served, Conversation
  <1>2. Unhurried(c)'
    BY DEF Served, Unhurried
  <1>3. (NoWork(c) => NoWork(c)') /\ (OnlyWork(c, asked[c]) => OnlyWork(c, asked[c])')
        /\ (NoWork(c) => OnlyWork(c, asked[c])')
    BY DEF NoWork, OnlyWork
  <1>4. InTurn(c) => InTurn(c)'
    BY <1>3, Single DEF InTurn, Quiet, Greeting, Asking
  <1> QED BY <1>1, <1>2, <1>4 DEF Served

\* Reading a message.
LEMMA ReadServes ==
  ASSUME Typed, Served0, NEW d \in Daemons, NEW c \in Clients, Read(d, c)
  PROVE  Served0'
  <1> DEFINE msg == Head(sent[c])
  <1>1. /\ UNCHANGED <<client, conn, asked, answer, mishaps>> /\ due' = [due EXCEPT ![d] = FALSE]
        /\ conn[c] = d /\ sent[c] # <<>> /\ sent' = [sent EXCEPT ![c] = Tail(@)]
    BY DEF Read
  <1>2. \/ msg.type = "hello" /\ received' = [received EXCEPT ![c] = Append(@, Bare("hello_ack"))] /\ work' = work
        \/ msg.type = "scan" /\ work' = [work EXCEPT ![d] = @ \union {msg.scan}] /\ received' = received
        \/ msg.type = "close" /\ UNCHANGED <<work, received>>
    BY DEF Read, Greeted, ScanAsked, Closed
  <1>3. asked[c] \in Nat /\ msg \in Said(c, asked[c]) /\ Tail(sent[c]) \in Seq(Said(c, asked[c]))
    BY <1>1, Spoken
  <1>4. msg.type = "scan" => \E n \in 1 .. asked[c] : msg.scan = <<c, n>>
    BY <1>3, Vocabulary
  <1>5. \A e \in Daemons : ~ due'[d] /\ (due'[e] => due[e]) /\ sent'[c] = Tail(sent[c])
    BY <1>1 DEF Typed, TypeOK, Channels
  <1> HIDE DEF msg
  <1>w. \A e \in Daemons : \A scan \in work'[e] :
          scan \in work[e] \/ (e = d /\ msg.type = "scan" /\ scan = msg.scan)
    <2>1. CASE work' = [work EXCEPT ![d] = @ \union {msg.scan}] /\ msg.type = "scan"
      BY <2>1 DEF Typed, TypeOK
    <2> QED BY <1>2, <2>1
  <1>6. ASSUME NEW x \in Clients, x # c PROVE Served(x)'
    <2>1. \A e \in Daemons : \A scan \in work'[e] : scan[1] = x => scan \in work[e]
      <3>1. msg.type = "scan" => msg.scan[1] = c
        BY <1>4
      <3> QED BY <1>w, <1>6, <3>1
    <2>2. sent'[x] = sent[x] /\ received'[x] = received[x]
      BY <1>1, <1>2, <1>6 DEF Typed, Channels
    <2> QED BY <1>1, <1>5, <2>1, <2>2, StaysServed DEF Served0, Typed
  <1>7. Served(c)'
    <2>0. Served(c) /\ c \in Clients /\ received[c] \in Seq(Told(c, asked[c]))
      BY DEF Served0, Served, Conversation
    <2>1. received'[c] \in Seq(Told(c, asked[c]))
      <3>1. Append(received[c], Bare("hello_ack")) \in Seq(Told(c, asked[c]))
        BY <1>3, <2>0, Vocabulary, Added
      <3> QED BY <1>2, <2>0, <3>1 DEF Typed, Channels
    <2>2. Conversation(c)'
      <3>1. \A e \in Daemons : \A scan \in work'[e] :
              scan \in work[e] \/ (e = d /\ \E n \in 1 .. asked[c] : scan = <<c, n>>)
        BY <1>w, <1>4
      <3>2. \A e \in Daemons : \A scan \in work'[e] :
              scan[1] = c => conn[c] = e /\ scan[2] \in 1 .. asked[c]
        BY <1>1, <2>0, <3>1 DEF Served, Conversation
      <3> QED BY <1>1, <1>3, <1>5, <2>0, <2>1, <3>2 DEF Served, Conversation
    <2>3. Unhurried(c)'
      <3> SUFFICES ASSUME NEW e \in Daemons, due'[e], NEW scan \in work'[e], scan[1] = c
                   PROVE  ~ (client[c] = "scanning" /\ asked[c] = scan[2])
        BY <1>1 DEF Unhurried
      <3>1. due[e] /\ e # d /\ scan \in work[e]
        BY <1>2, <1>5 DEF Typed, TypeOK, Channels
      <3> QED BY <2>0, <3>1 DEF Served, Unhurried
    <2>4. ASSUME InTurn(c) PROVE InTurn(c)'
      <3>1. CASE client[c] \in {"new", "ready"}
        BY <1>1, <2>4, <3>1 DEF InTurn, Quiet
      <3>2. CASE client[c] = "hello"
        <4>1. sent[c] = <<Bare("hello")>> /\ received[c] = <<>> /\ NoWork(c)
          BY <1>1, <2>4, <3>2 DEF InTurn, Greeting, Quiet
        <4>2. msg.type = "hello" /\ sent'[c] = <<>>
          BY <1>5, <4>1, Single DEF msg, Bare, Msg
        <4>3. received'[c] = <<Bare("hello_ack")>> /\ work' = work
          BY <1>2, <4>1, <4>2, Single DEF Typed, Channels
        <4> QED BY <1>1, <2>4, <3>2, <4>1, <4>2, <4>3 DEF InTurn, Greeting, NoWork
      <3>3. CASE client[c] = "scanning"
        <4>1. sent[c] = <<Msg("scan", <<c, asked[c]>>)>> /\ received[c] = <<>> /\ NoWork(c)
          BY <1>1, <2>4, <3>3 DEF InTurn, Asking, Quiet
        <4>2. msg.type = "scan" /\ msg.scan = <<c, asked[c]>> /\ sent'[c] = <<>>
          BY <1>5, <4>1, Single DEF msg, Msg
        <4>3. received'[c] = <<>> /\ \A e \in Daemons : \A scan \in work'[e] : scan \in work[e] \/ scan = <<c, asked[c]>>
          BY <1>2, <1>w, <4>1, <4>2
        <4>4. OnlyWork(c, asked[c])'
          BY <1>1, <4>1, <4>3 DEF NoWork, OnlyWork
        <4> QED BY <1>1, <2>4, <3>3, <4>2, <4>3, <4>4 DEF InTurn, Asking, Quiet
      <3>4. CASE client[c] = "done"
        BY <1>1, <2>4, <3>4 DEF InTurn
      <3> QED BY <3>1, <3>2, <3>3, <3>4 DEF Typed, TypeOK, Channels
    <2> QED BY <1>1, <2>0, <2>2, <2>3, <2>4 DEF Served
  <1> QED BY <1>6, <1>7 DEF Served0

\* Answering a scan.
LEMMA SettlingServes ==
  ASSUME Typed, Served0, NEW d \in Daemons, NEW scan \in Scans, ScanSettles(d, scan)
  PROVE  Served0'
  <1> DEFINE c == scan[1]
  <1>0. c \in Clients /\ scan = <<c, scan[2]>>
    BY DEF Scans
  <1>1. /\ UNCHANGED <<client, conn, asked, answer, mishaps, sent>>
        /\ due' = [due EXCEPT ![d] = FALSE] /\ work' = [work EXCEPT ![d] = @ \ {scan}] /\ scan \in work[d]
    BY DEF ScanSettles
  <1>2. PICK type \in {"scan_done", "error"} :
          received' = IF client[c] = "done" THEN received
                      ELSE [received EXCEPT ![c] = Append(@, Msg(type, scan))]
    BY DEF ScanSettles, Reply
  <1>3. \A e \in Daemons : (due'[e] => due[e]) /\ work'[e] \subseteq work[e]
    BY <1>1 DEF Typed, TypeOK, Channels
  <1> HIDE DEF c
  <1>4. ASSUME NEW x \in Clients, x # c PROVE Served(x)'
    <2>1. received'[x] = received[x]
      BY <1>2, <1>4
    <2> QED BY <1>1, <1>3, <2>1, StaysServed DEF Served0, Typed
  <1>5. CASE client[c] = "done"
    <2>1. received'[c] = received[c]
      BY <1>2, <1>5
    <2>2. Served(c)'
      BY <1>0, <1>1, <1>3, <2>1, StaysServed DEF Served0, Typed
    <2> QED BY <1>4, <2>2 DEF Served0
  <1>6. CASE client[c] # "done"
    <2>0. Served(c) /\ received[c] \in Seq(Told(c, asked[c])) /\ asked[c] \in Nat
          /\ scan[2] \in 1 .. asked[c] /\ conn[c] = d
      BY <1>0, <1>1, Spoken DEF Served0, Served, Conversation, c
    <2>1. received'[c] = Append(received[c], Msg(type, scan))
      <3>1. received' = [received EXCEPT ![c] = Append(@, Msg(type, scan))]
        BY <1>2, <1>6
      <3>2. c \in DOMAIN received
        BY <1>0 DEF Typed, Channels
      <3> QED BY <3>1, <3>2
    <2>2. received'[c] \in Seq(Told(c, asked[c]))
      <3>1. Msg(type, scan) \in Told(c, asked[c])
        BY <1>0, <2>0, Vocabulary
      <3> QED BY <2>0, <2>1, <3>1, Added
    <2>3. Conversation(c)' /\ Unhurried(c)'
      BY <1>1, <1>3, <2>0, <2>2 DEF Served, Conversation, Unhurried
    <2>4. ASSUME InTurn(c) PROVE InTurn(c)'
      <3>1. ~ NoWork(c)
        BY <1>0, <1>1 DEF NoWork, c
      <3>2. client[c] = "scanning" /\ Quiet(c) /\ OnlyWork(c, asked[c])
        BY <1>0, <1>6, <2>4, <3>1 DEF InTurn, Greeting, Asking, Typed, TypeOK
      <3>3. scan = <<c, asked[c]>>
        BY <1>0, <1>1, <3>2 DEF OnlyWork, c
      <3>4. NoWork(c)'
        <4> SUFFICES ASSUME NEW e \in Daemons, NEW s \in work'[e], s[1] = c PROVE FALSE
          BY DEF NoWork
        <4>1. s \in work[e] /\ s \in Scans
          BY <1>3 DEF Typed, TypeOK, Channels
        <4>2. e = d /\ s[2] = asked[c]
          BY <2>0, <3>2, <4>1 DEF Served, Conversation, OnlyWork
        <4>3. s = scan
          BY <3>3, <4>1, <4>2 DEF Scans
        <4> QED BY <1>1, <4>2, <4>3 DEF Typed, TypeOK, Channels
      <3>5. received'[c] = <<Msg(type, <<c, asked[c]>>)>>
        BY <2>1, <3>2, <3>3, Single DEF Quiet
      <3> QED BY <1>1, <2>4, <3>2, <3>4, <3>5 DEF InTurn, Asking, Quiet
    <2>5. Served(c)'
      BY <1>1, <2>0, <2>3, <2>4 DEF Served
    <2> QED BY <1>4, <2>5 DEF Served0
  <1> QED BY <1>5, <1>6

\* A daemon's other steps.
LEMMA DaemonServes ==
  ASSUME Typed, Served0, NEW d \in Daemons,
         DaemonStep(d) \/ IdlePasses(d) \/ IdleFires(d) \/ Signal(d) \/ Crash(d)
  PROVE  Served0'
  <1>1. ASSUME UNCHANGED <<client, conn, asked, received, answer>>,
               \A c \in Clients : sent'[c] \in {sent[c], <<>>}, mishaps \subseteq mishaps',
               \A e \in Daemons : work'[e] \subseteq work[e] /\ (due'[e] => due[e])
        PROVE  Served0'
    BY <1>1, StaysServed DEF Served0, Typed
  <1>2. KillCounted => mishaps \subseteq mishaps'
    BY DEF KillCounted, Record
  <1>3. CASE RemoveSocket(d) \/ Bind(d) \/ Ready(d)
    <2>1. UNCHANGED <<clients, work, mishaps>> /\ due' \in {due, [due EXCEPT ![d] = FALSE]}
      BY <1>3 DEF RemoveSocket, Bind, Ready
    <2>2. \A e \in Daemons : due'[e] => due[e]
      BY <2>1 DEF Typed, TypeOK
    <2> QED BY <1>1, <2>1, <2>2 DEF clients
  <1>4. CASE IdleFires(d) \/ ShutdownRead(d) \/ Signal(d)
    <2>1. UNCHANGED <<clients, work, due>> /\ mishaps \subseteq mishaps'
      BY <1>2, <1>4 DEF IdleFires, ShutdownRead, Signal, Shutdown
    <2> QED BY <1>1, <2>1 DEF clients
  <1>5. CASE Exit(d) \/ Crash(d)
    <2>1. End(d) /\ mishaps \subseteq mishaps'
      BY <1>2, <1>5 DEF Exit, Crash
    <2>2. UNCHANGED <<client, conn, asked, received, answer>>
      BY <2>1 DEF End
    <2>3. \A c \in Clients : sent'[c] \in {sent[c], <<>>}
      BY <2>1 DEF End
    <2>4. \A e \in Daemons : work'[e] \subseteq work[e] /\ (due'[e] => due[e])
      BY <2>1 DEF End, Typed, TypeOK
    <2> QED BY <1>1, <2>1, <2>2, <2>3, <2>4
  <1>6. CASE IdlePasses(d)
    <2>1. UNCHANGED <<work, client, conn, asked, sent, received, answer, mishaps>>
      BY <1>6 DEF IdlePasses, clients
    <2> SUFFICES ASSUME NEW c \in Clients PROVE Served(c)'
      BY DEF Served0
    <2>2. Served(c)
      BY DEF Served0
    <2>3. Conversation(c)' /\ (InTurn(c) => InTurn(c)')
      BY <2>1, <2>2 DEF Served, Conversation, InTurn, Quiet, NoWork, OnlyWork, Greeting, Asking
    <2>4. Unhurried(c)'
      <3> SUFFICES ASSUME NEW e \in Daemons, due'[e], NEW scan \in work[e], scan[1] = c
                   PROVE  ~ (client[c] = "scanning" /\ asked[c] = scan[2])
        BY <2>1 DEF Unhurried
      <3>1. conn[c] = e
        BY <2>2 DEF Served, Conversation
      <3>2. CASE due[e]
        BY <2>2, <3>2 DEF Served, Unhurried
      <3>3. CASE ~ due[e]
        <4>1. e = d
          BY <1>6, <3>3 DEF IdlePasses, Typed, TypeOK
        <4> QED BY <1>6, <3>1, <4>1 DEF IdlePasses, Waits
      <3> QED BY <3>2, <3>3
    <2> QED BY <2>1, <2>2, <2>3, <2>4 DEF Served
  <1> QED BY <1>3, <1>4, <1>5, <1>6, ReadServes, SettlingServes DEF DaemonStep

LEMMA CommandServes ==
  ASSUME Typed, Served0, NEW k \in Commands, CommandMoves(k)
  PROVE  Served0'
  <1>1. UNCHANGED <<clients, work>>
    BY CommandTyped
  <1>2. mishaps \subseteq mishaps' /\ \A d \in Daemons : due'[d] => due[d]
    <2>1. CASE BeginStart(k) \/ BeginStop(k)
      BY <2>1 DEF BeginStart, BeginStop, Begins, Record, daemons
    <2>2. CASE ProbeAnswered(k) \/ PollAnswered(k) \/ StopSent(k)
      <3>1. due' = [due EXCEPT ![endpoint] = FALSE] /\ mishaps' = mishaps
        BY <2>2 DEF ProbeAnswered, PollAnswered, StopSent, Touch
      <3> QED BY <3>1 DEF Typed, TypeOK
    <2>3. CASE ProbeFails(k) \/ StopUnreachable(k) \/ StopReturns(k)
      BY <2>3 DEF ProbeFails, StopUnreachable, StopReturns, BusyNoted, Record, daemons
    <2>4. CASE Spawn(k) \/ PollGivesUp(k)
      BY <2>4 DEF Spawn, PollGivesUp, daemons
    <2> QED BY <2>1, <2>2, <2>3, <2>4 DEF CommandMoves, CommandStep
  <1> QED BY <1>1, <1>2, StaysServed DEF Served0, Typed, clients

-----------------------------------------------------------------------------
(* A client's steps.                                                        *)

\* A client that has left.
LEMMA LeavingServes ==
  ASSUME Typed, NEW c \in Clients, Served(c), Leave(c), UNCHANGED <<work, conn, asked>>,
         answer'[c] \in {answer[c], NoScan, <<c, asked[c]>>}, mishaps \subseteq mishaps'
  PROVE  Served(c)'
  <1>1. asked[c] \in Nat /\ sent[c] \in Seq(Said(c, asked[c]))
    BY Spoken DEF Served, Conversation
  <1>2. client'[c] = "done" /\ received'[c] = <<>> /\ sent'[c] \in {sent[c], Append(sent[c], Bare("close"))}
    BY DEF Leave, Typed, TypeOK, Channels
  <1>3. sent'[c] \in Seq(Said(c, asked[c])) /\ received'[c] \in Seq(Told(c, asked[c]))
    <2>1. Append(sent[c], Bare("close")) \in Seq(Said(c, asked[c]))
      BY <1>1, Vocabulary, Added
    <2>2. <<>> \in Seq(Told(c, asked[c]))
      OBVIOUS
    <2> QED BY <1>1, <1>2, <2>1, <2>2
  <1>4. Conversation(c)'
    BY <1>2, <1>3 DEF Served, Conversation
  <1>5. Unhurried(c)'
    BY <1>2 DEF Unhurried
  <1>6. InTurn(c) => InTurn(c)'
    BY <1>2 DEF InTurn
  <1> QED BY <1>4, <1>5, <1>6 DEF Served

\* A client that asks, with nothing of it under way.
LEMMA AskingServes ==
  ASSUME Typed, NEW c \in Clients, Served(c), Ask(c), UNCHANGED <<work, conn, mishaps>>,
         \/ received' = received
         \/ received[c] # <<>> /\ received' = [received EXCEPT ![c] = Tail(@)],
         InTurn(c) => sent[c] = <<>> /\ received'[c] = <<>> /\ NoWork(c)
  PROVE  Served(c)'
  <1> DEFINE n == asked[c] + 1
  <1>0. n \in Nat /\ asked[c] \in Nat /\ n = asked[c] + 1
        /\ sent[c] \in Seq(Said(c, asked[c])) /\ received[c] \in Seq(Told(c, asked[c]))
    BY Spoken DEF Served, Conversation
  <1>1. /\ asked'[c] = n /\ client'[c] = "scanning" /\ answer'[c] = NoScan
        /\ sent'[c] = Append(sent[c], Msg("scan", <<c, n>>))
    BY DEF Ask, Typed, TypeOK, Channels
  <1> HIDE DEF n
  <1>2. sent'[c] \in Seq(Said(c, n)) /\ received'[c] \in Seq(Told(c, n))
    <2>1. Said(c, asked[c]) \subseteq Said(c, n) /\ Told(c, asked[c]) \subseteq Told(c, n)
          /\ Msg("scan", <<c, n>>) \in Said(c, n)
      BY <1>0, Vocabulary
    <2>2. received'[c] \in Seq(Told(c, asked[c]))
      <3>1. CASE received' = received
        BY <1>0, <3>1
      <3>2. CASE received[c] # <<>> /\ received' = [received EXCEPT ![c] = Tail(@)]
        <4>1. received'[c] = Tail(received[c])
          BY <3>2 DEF Typed, Channels
        <4>2. Tail(received[c]) \in Seq(Told(c, asked[c]))
          BY <1>0, <3>2, Heard
        <4> QED BY <4>1, <4>2
      <3> QED BY <3>1, <3>2
    <2>3. sent[c] \in Seq(Said(c, n)) /\ received'[c] \in Seq(Told(c, n))
      BY <1>0, <2>1, <2>2, Widened
    <2> QED BY <1>1, <2>1, <2>3, Added
  <1>3. \A d \in Daemons : \A scan \in work[d] :
          scan[1] = c => conn[c] = d /\ scan[2] \in 1 .. asked[c]
    BY DEF Served, Conversation
  <1>4. Conversation(c)'
    BY <1>0, <1>1, <1>2, <1>3 DEF Conversation
  <1>5. Unhurried(c)'
    BY <1>0, <1>1, <1>3 DEF Unhurried
  <1>6. ASSUME InTurn(c) PROVE InTurn(c)'
    <2>1. sent'[c] = <<Msg("scan", <<c, asked'[c]>>)>> /\ received'[c] = <<>> /\ NoWork(c)'
      BY <1>1, <1>6, Single DEF NoWork
    <2> QED BY <1>1, <2>1 DEF InTurn, Asking
  <1> QED BY <1>4, <1>5, <1>6 DEF Served

\* A client that comes to wait for nothing, or only for a greeting.
LEMMA WaitingServes ==
  ASSUME Typed, NEW c \in Clients, Served(c), UNCHANGED <<work, asked>>, mishaps \subseteq mishaps',
         client'[c] # "scanning", client'[c] \in {"new", "hello"} => asked[c] = 0,
         conn'[c] = conn[c] \/ client[c] = "new",
         sent'[c] \in Seq(Said(c, asked[c])), received'[c] \in Seq(Told(c, asked[c])),
         "keptAfterTimeout" \notin mishaps' => InTurn(c)'
  PROVE  Served(c)'
  <1>1. \A d \in Daemons : \A scan \in work[d] :
          scan[1] = c => conn'[c] = d /\ scan[2] \in 1 .. asked[c]
    BY DEF Served, Conversation
  <1>2. Conversation(c)'
    BY <1>1 DEF Served, Conversation
  <1>3. Unhurried(c)'
    BY DEF Unhurried
  <1> QED BY <1>2, <1>3 DEF Served

LEMMA ClientServes ==
  ASSUME Typed, Served0, NEW c \in Clients, ClientMoves(c)
  PROVE  Served0'
  <1>0. UNCHANGED <<due, work>> /\ Served(c) /\ asked[c] \in Nat
        /\ sent[c] \in Seq(Said(c, asked[c])) /\ received[c] \in Seq(Told(c, asked[c]))
    BY ClientTyped, Spoken DEF daemons, Served0, Served, Conversation
  <1>1. mishaps \subseteq mishaps'
    BY DEF ClientMoves, ClientStep, HelloAck, Receive, HelloTimeout, ScanTimeout, Disconnect, Connect,
           Scan, Close, Record
  <1>2. \A x \in Clients \ {c} :
          /\ sent'[x] = sent[x] /\ received'[x] = received[x] /\ asked'[x] = asked[x]
          /\ client'[x] = client[x] /\ conn'[x] = conn[x] /\ answer'[x] = answer[x]
    <2> USE DEF Typed, TypeOK, Channels
    <2>1. CASE HelloTimeout(c) \/ Disconnect(c) \/ Close(c)
      BY <2>1 DEF HelloTimeout, Disconnect, Close, Leave
    <2>2. CASE ScanTimeout(c)
      BY <2>2 DEF ScanTimeout, Settle, Leave
    <2>3. CASE Receive(c)
      BY <2>3 DEF Receive, Settle, Leave
    <2>4. CASE HelloAck(c)
      BY <2>4 DEF HelloAck, Ask
    <2>5. CASE Scan(c) \/ Connect(c)
      BY <2>5 DEF Scan, Ask, Connect
    <2> QED BY <2>1, <2>2, <2>3, <2>4, <2>5 DEF ClientMoves, ClientStep
  <1>3. ASSUME NEW x \in Clients, x # c PROVE Served(x)'
    BY <1>0, <1>1, <1>2, <1>3, StaysServed DEF Typed, Served0
  <1>4. Served(c)'
    <2>1. CASE HelloTimeout(c) \/ Disconnect(c) \/ Close(c)
      BY <1>0, <1>1, <2>1, LeavingServes DEF HelloTimeout, Disconnect, Close
    <2>2. CASE ScanTimeout(c)
      <3>1. CASE c \in Holders
        <4>1. /\ client' = [client EXCEPT ![c] = "ready"] /\ received' = [received EXCEPT ![c] = received[c]]
              /\ UNCHANGED <<sent, conn, asked>> /\ "keptAfterTimeout" \in mishaps'
          BY <2>2, <3>1 DEF ScanTimeout, Settle, Record
        <4>2. client'[c] = "ready" /\ received'[c] = received[c]
          BY <4>1 DEF Typed, TypeOK, Channels
        <4> QED BY <1>0, <1>1, <4>1, <4>2, WaitingServes
      <3>2. CASE c \notin Holders
        BY <1>0, <1>1, <2>2, <3>2, LeavingServes DEF ScanTimeout, Settle
      <3> QED BY <3>1, <3>2
    <2>3. CASE Receive(c)
      <3> DEFINE msg == Head(received[c])
      <3>0. UNCHANGED <<conn, asked, mishaps>> /\ client[c] \in {"ready", "scanning"} /\ received[c] # <<>>
            /\ Tail(received[c]) \in Seq(Told(c, asked[c]))
        BY <1>0, <2>3, Heard DEF Receive
      <3>1. CASE client[c] = "ready"
        <4>1. received'[c] = Tail(received[c]) /\ UNCHANGED <<client, sent, answer>>
          BY <2>3, <3>1 DEF Receive, Typed, Channels
        <4>2. ~ InTurn(c)
          BY <3>0, <3>1 DEF InTurn, Quiet
        <4> QED BY <1>0, <1>1, <3>0, <3>1, <4>1, <4>2, WaitingServes DEF Served
      <3>2. CASE client[c] = "scanning"
        <4>1. /\ Settle(c, Tail(received[c]))
              /\ answer' = [answer EXCEPT ![c] = IF msg.type = "scan_done" THEN msg.scan ELSE NoScan]
          BY <2>3, <3>2 DEF Receive
        <4>2. ASSUME InTurn(c)
              PROVE  /\ sent[c] = <<>> /\ NoWork(c) /\ Tail(received[c]) = <<>>
                     /\ answer'[c] \in {NoScan, <<c, asked[c]>>}
          <5>1. PICK type \in {"scan_done", "error"} : received[c] = <<Msg(type, <<c, asked[c]>>)>>
            BY <3>0, <3>2, <4>2 DEF InTurn, Asking, Quiet
          <5>2. msg.scan = <<c, asked[c]>> /\ Tail(received[c]) = <<>>
            BY <5>1, Single DEF Msg
          <5> HIDE DEF msg
          <5>3. answer'[c] \in {NoScan, <<c, asked[c]>>}
            BY <4>1, <5>2 DEF Typed, TypeOK
          <5>4. sent[c] = <<>> /\ NoWork(c)
            BY <3>0, <3>2, <4>2 DEF InTurn, Asking, Quiet
          <5> QED BY <5>2, <5>3, <5>4
        <4> HIDE DEF msg
        <4>3. CASE c \in Holders
          <5>1. client'[c] = "ready" /\ received'[c] = Tail(received[c]) /\ sent' = sent
            BY <4>1, <4>3 DEF Settle, Typed, TypeOK, Channels
          <5>2. InTurn(c) => InTurn(c)'
            BY <1>0, <3>0, <4>2, <5>1 DEF InTurn, Quiet, NoWork
          <5> QED BY <1>0, <1>1, <3>0, <5>1, <5>2, WaitingServes DEF Served
        <4>4. CASE c \notin Holders
          <5>1. Leave(c)
            BY <4>1, <4>4 DEF Settle
          <5>2. client'[c] = "done"
            BY <5>1 DEF Leave, Typed, TypeOK
          <5>3. InTurn(c) => InTurn(c)'
            BY <3>0, <4>2, <5>2 DEF InTurn
          <5>4. sent'[c] \in Seq(Said(c, asked[c])) /\ received'[c] \in Seq(Told(c, asked[c]))
            <6>1. sent'[c] \in {sent[c], Append(sent[c], Bare("close"))} /\ received'[c] = <<>>
              BY <5>1 DEF Leave, Typed, Channels
            <6>2. Append(sent[c], Bare("close")) \in Seq(Said(c, asked[c]))
              BY <1>0, Vocabulary, Added
            <6>3. <<>> \in Seq(Told(c, asked[c]))
              OBVIOUS
            <6> QED BY <1>0, <6>1, <6>2, <6>3
          <5> QED BY <1>0, <1>1, <3>0, <5>2, <5>3, <5>4, WaitingServes DEF Served
        <4> QED BY <4>3, <4>4
      <3> QED BY <3>0, <3>1, <3>2
    <2>4. CASE HelloAck(c)
      <3>0. UNCHANGED <<conn, mishaps>> /\ client[c] = "hello" /\ received[c] # <<>> /\ asked[c] = 0
            /\ received' = [received EXCEPT ![c] = Tail(@)] /\ received'[c] = Tail(received[c])
        BY <1>0, <2>4 DEF HelloAck, Served, Conversation, Typed, Channels
      <3>1. InTurn(c) => sent[c] = <<>> /\ received'[c] = <<>> /\ NoWork(c)
        BY <3>0, Single DEF InTurn, Greeting, Quiet
      <3>2. CASE c \in Holders
        <4>1. client'[c] = "ready" /\ UNCHANGED <<asked, sent, answer>>
          BY <2>4, <3>2 DEF HelloAck, Typed, TypeOK
        <4>2. InTurn(c) => InTurn(c)'
          BY <1>0, <3>1, <4>1 DEF InTurn, Quiet, NoWork
        <4>3. received'[c] \in Seq(Told(c, asked[c]))
          BY <1>0, <3>0, Heard
        <4> QED BY <1>0, <1>1, <3>0, <4>1, <4>2, <4>3, WaitingServes DEF Served
      <3>3. CASE c \notin Holders
        BY <1>0, <2>4, <3>0, <3>1, <3>3, AskingServes DEF HelloAck
      <3> QED BY <3>2, <3>3
    <2>5. CASE Scan(c)
      <3>1. Ask(c) /\ UNCHANGED <<conn, received, mishaps>> /\ client[c] = "ready"
        BY <2>5 DEF Scan
      <3>2. InTurn(c) => sent[c] = <<>> /\ received'[c] = <<>> /\ NoWork(c)
        BY <3>1 DEF InTurn, Quiet
      <3> QED BY <1>0, <3>1, <3>2, AskingServes
    <2>6. CASE Connect(c)
      <3>0. UNCHANGED <<asked, received, answer, mishaps>> /\ client[c] = "new" /\ asked[c] = 0
        BY <1>0, <2>6 DEF Connect, Served, Conversation
      <3>1. \/ client'[c] = "hello" /\ sent'[c] = <<Bare("hello")>>
            \/ client'[c] = "done" /\ sent'[c] = sent[c]
        BY <2>6 DEF Connect, Typed, TypeOK, Channels
      <3>2. sent'[c] \in Seq(Said(c, asked[c]))
        BY <1>0, <3>1, Vocabulary, Added
      <3>3. InTurn(c) => InTurn(c)'
        BY <1>0, <3>0, <3>1 DEF InTurn, Quiet, NoWork, Greeting
      <3> QED BY <1>0, <1>1, <3>0, <3>1, <3>2, <3>3, WaitingServes DEF Served
    <2> QED BY <2>1, <2>2, <2>3, <2>4, <2>5, <2>6 DEF ClientMoves, ClientStep
  <1> QED BY <1>3, <1>4 DEF Served0

\* The channels stay functions on the clients.
LEMMA NextChannels ==
  ASSUME Typed, [Next]_vars
  PROVE  Channels'
  <1> USE DEF Typed, Channels
  <1>1. ASSUME UNCHANGED clients PROVE Channels'
    BY <1>1 DEF clients
  <1>2. ASSUME NEW d \in Daemons,
               DaemonStep(d) \/ IdlePasses(d) \/ IdleFires(d) \/ Signal(d) \/ Crash(d)
        PROVE  Channels'
    <2>1. CASE RemoveSocket(d) \/ Bind(d) \/ Ready(d) \/ IdlePasses(d)
      BY <1>1, <2>1 DEF RemoveSocket, Bind, Ready, IdlePasses
    <2>2. CASE IdleFires(d) \/ ShutdownRead(d) \/ Signal(d)
      BY <1>1, <2>2 DEF IdleFires, ShutdownRead, Signal, Shutdown
    <2>3. CASE Exit(d) \/ Crash(d)
      BY <2>3 DEF Exit, Crash, End
    <2>4. ASSUME NEW c \in Clients, Read(d, c) PROVE Channels'
      BY <2>4 DEF Read, Greeted, ScanAsked, Closed
    <2>5. ASSUME NEW scan \in Scans, ScanSettles(d, scan) PROVE Channels'
      BY <2>5 DEF ScanSettles, Reply
    <2> QED BY <1>2, <2>1, <2>2, <2>3, <2>4, <2>5 DEF DaemonStep
  <1>3. ASSUME NEW c \in Clients, ClientMoves(c) PROVE Channels'
    <2>1. CASE HelloTimeout(c) \/ Disconnect(c) \/ Close(c)
      BY <2>1 DEF HelloTimeout, Disconnect, Close, Leave
    <2>2. CASE ScanTimeout(c)
      BY <2>2 DEF ScanTimeout, Settle, Leave
    <2>3. CASE Receive(c)
      BY <2>3 DEF Receive, Settle, Leave
    <2>4. CASE HelloAck(c)
      BY <2>4 DEF HelloAck, Ask
    <2>5. CASE Scan(c) \/ Connect(c)
      BY <2>5 DEF Scan, Ask, Connect
    <2> QED BY <1>3, <2>1, <2>2, <2>3, <2>4, <2>5 DEF ClientMoves, ClientStep
  <1>4. CASE UNCHANGED vars
    BY <1>1, <1>4 DEF vars
  <1> HIDE DEF Typed, Channels
  <1> QED BY <1>1, <1>2, <1>3, <1>4, Movers, CommandTyped

-----------------------------------------------------------------------------
(* One daemon at a time.                                                    *)

LEMMA Places ==
  Typed => /\ registry \in 0 .. MaxDaemons /\ endpoint \in 0 .. MaxDaemons
           /\ \A d \in Daemons : d # NoDaemon
  BY Bounds DEF Typed, TypeOK, Daemons, NoDaemon

\* A daemon's phase moves, and nobody else's.
LEMMA PhaseOrder ==
  ASSUME Typed, Order, NEW d \in Daemons, NEW to, phase' = [phase EXCEPT ![d] = to],
         command' = command, Alive(d), to \in {"cleared", "bound", "serving", "stopping", "gone"},
         to \in {"cleared", "bound"} => Booting(d),
         to = "cleared" => endpoint' = NoDaemon,
         to \in {"bound", "serving"} => endpoint' = d,
         to = "serving" => registry' = d
  PROVE  Order'
  <1>1. \A e \in Daemons : phase'[e] = IF e = d THEN to ELSE phase[e]
    BY DEF Typed, TypeOK
  <1>2. \A e \in Daemons : e # d => ~ Alive(e)
    BY DEF Order, OneDaemon
  <1>3. \A e \in Daemons : (Alive(e)' => e = d) /\ (Booting(e)' => Booting(e))
    BY <1>1, <1>2 DEF Alive, Booting
  <1>4. OneCommand'
    BY DEF Order, OneCommand, InProgress
  <1>5. OneDaemon' /\ PolledFor' /\ RoomToBoot'
    BY <1>3 DEF Order, OneDaemon, PolledFor, RoomToBoot
  <1>6. HoldsPath'
    BY <1>1, <1>2 DEF HoldsPath, Alive, Booting
  <1> QED BY <1>4, <1>5, <1>6 DEF Order

\* Nothing that counts moves, or a daemon that was not alive ends.
LEMMA SameOrder ==
  ASSUME Typed, Order, UNCHANGED <<files, command>>,
         \A d \in Daemons : phase'[d] = phase[d] \/ phase'[d] \in {"stopping", "gone"}
  PROVE  Order'
  <1>1. \A d \in Daemons : (Alive(d)' => Alive(d)) /\ (Booting(d)' => Booting(d))
    BY DEF Alive, Booting
  <1>2. OneCommand' /\ OneDaemon' /\ PolledFor' /\ RoomToBoot'
    BY <1>1 DEF Order, OneCommand, InProgress, OneDaemon, PolledFor, RoomToBoot
  <1>3. HoldsPath'
    BY DEF Order, HoldsPath, files
  <1> QED BY <1>2, <1>3 DEF Order

LEMMA DaemonOrder ==
  ASSUME Typed, Order, NEW d \in Daemons,
         DaemonStep(d) \/ IdlePasses(d) \/ IdleFires(d) \/ Signal(d) \/ Crash(d)
  PROVE  Order'
  <1>1. CASE RemoveSocket(d)
    BY <1>1, PhaseOrder DEF RemoveSocket, Alive, Booting
  <1>2. CASE Bind(d)
    <2>1. CASE endpoint = NoDaemon
      BY <1>2, <2>1, PhaseOrder DEF Bind, Alive, Booting
    <2>2. CASE endpoint # NoDaemon
      BY <1>2, <2>2, PhaseOrder DEF Bind, Alive, Booting
    <2> QED BY <2>1, <2>2
  <1>3. CASE Ready(d)
    <2>1. endpoint = d
      BY <1>3 DEF Ready, Order, HoldsPath
    <2> QED BY <1>3, <2>1, PhaseOrder DEF Ready, Alive, Booting
  <1>4. CASE IdleFires(d) \/ ShutdownRead(d) \/ Signal(d)
    <2>1. Shutdown(d)
      BY <1>4 DEF IdleFires, ShutdownRead, Signal
    <2> QED BY <2>1, PhaseOrder DEF Shutdown, Alive
  <1>5. CASE Exit(d) \/ Crash(d)
    <2>1. /\ \A e \in Daemons : phase'[e] \in {phase[e], "gone"}
          /\ UNCHANGED <<files, command>>
      BY <1>5 DEF Exit, Crash, End, Typed, TypeOK
    <2> QED BY <2>1, SameOrder
  <1>6. CASE IdlePasses(d)
    BY <1>6, SameOrder DEF IdlePasses
  <1>7. ASSUME NEW c \in Clients, Read(d, c) PROVE Order'
    BY <1>7, SameOrder DEF Read
  <1>8. ASSUME NEW scan \in Scans, ScanSettles(d, scan) PROVE Order'
    BY <1>8, SameOrder DEF ScanSettles
  <1> QED BY <1>1, <1>2, <1>3, <1>4, <1>5, <1>6, <1>7, <1>8 DEF DaemonStep

\* A command moves on to a step where it waits for no daemon to boot.
LEMMA CommandOrder ==
  ASSUME Typed, Order, NEW k \in Commands, NEW to, command' = [command EXCEPT ![k] = to],
         phase' = phase, endpoint' = endpoint,
         registry' = registry \/ \A d \in Daemons : phase[d] # "serving",
         to \in {"probing", "booting", "reaching", "waiting", "started", "failed", "stopped"},
         InProgress(k) \/ \A j \in Commands : ~ InProgress(j),
         command[k] = "polling" => \A d \in Daemons : ~ Booting(d),
         to = "booting" => \A d \in Daemons : ~ Alive(d)
  PROVE  Order'
  <1>1. \A j \in Commands : command'[j] = IF j = k THEN to ELSE command[j]
    BY DEF Typed, TypeOK
  <1>2. OneCommand'
    BY <1>1 DEF Order, OneCommand, InProgress
  <1>3. OneDaemon'
    BY DEF Order, OneDaemon, Alive, Booting
  <1>4. PolledFor'
    BY <1>1 DEF Order, PolledFor, Booting
  <1>5. RoomToBoot'
    BY <1>1 DEF Order, RoomToBoot, Alive, Booting
  <1>6. HoldsPath'
    BY DEF Order, HoldsPath
  <1> QED BY <1>2, <1>3, <1>4, <1>5, <1>6 DEF Order

LEMMA CommandMovesOrder ==
  ASSUME Typed, Order, NEW k \in Commands, CommandMoves(k),
         mishaps' \intersect {"overlap", "busy"} = {}
  PROVE  Order'
  <1>0. \A d \in Daemons : (phase[d] = "serving" => registry # NoDaemon)
          /\ (phase[d] \in {"bound", "serving"} => endpoint = d /\ Listening(endpoint))
    BY Places DEF Order, HoldsPath, Listening
  <1>1. ASSUME InProgress(k), command[k] # "polling"
        PROVE  \A d \in Daemons : ~ Booting(d)
    BY <1>1 DEF Order, OneCommand, PolledFor, InProgress
  <1>2. CASE BeginStart(k) \/ BeginStop(k)
    <2>1. \A j \in Commands : ~ InProgress(j)
      BY <1>2 DEF BeginStart, BeginStop, Begins, Record
    <2>2. \A d \in Daemons : ~ Booting(d)
      BY <2>1 DEF Order, PolledFor, InProgress
    <2>3. PICK to \in {"booting", "probing", "reaching"} :
            command' = [command EXCEPT ![k] = to] /\ (to = "booting" => registry = NoDaemon)
      BY <1>2 DEF BeginStart, BeginStop, Go
    <2>4. to = "booting" => \A d \in Daemons : ~ Alive(d)
      BY <1>0, <2>2, <2>3 DEF Alive
    <2> QED BY <1>2, <2>1, <2>2, <2>3, <2>4, CommandOrder DEF BeginStart, BeginStop, files, daemons
  <1>3. CASE ProbeAnswered(k) \/ StopSent(k)
    <2>1. InProgress(k) /\ command[k] # "polling"
      BY <1>3 DEF ProbeAnswered, StopSent, InProgress
    <2>2. PICK to \in {"started", "waiting"} : command' = [command EXCEPT ![k] = to]
      BY <1>3 DEF ProbeAnswered, StopSent, Go
    <2> QED BY <1>3, <2>1, <2>2, CommandOrder DEF ProbeAnswered, StopSent, files
  <1>4. CASE ProbeFails(k) \/ StopUnreachable(k)
    <2>1. InProgress(k) /\ command[k] # "polling" /\ ~ Listening(endpoint)
      BY <1>4 DEF ProbeFails, StopUnreachable, InProgress, BusyNoted, Record
    <2>2. \A d \in Daemons : ~ Alive(d)
      BY <1>0, <1>1, <2>1 DEF Alive
    <2>3. PICK to \in {"booting", "stopped"} : command' = [command EXCEPT ![k] = to]
      BY <1>4 DEF ProbeFails, StopUnreachable, Go
    <2> QED BY <1>4, <2>1, <2>2, <2>3, CommandOrder DEF ProbeFails, StopUnreachable, daemons, Alive
  <1>5. CASE StopReturns(k)
    <2>1. InProgress(k) /\ command[k] # "polling" /\ registry = NoDaemon
      BY <1>5 DEF StopReturns, InProgress, Record
    <2> QED BY <1>5, <2>1, CommandOrder DEF StopReturns, Go, daemons
  <1>6. CASE PollAnswered(k)
    <2>1. \A d \in Daemons : ~ Booting(d)
      <3>1. endpoint \in Daemons /\ phase[endpoint] = "serving"
        BY <1>6, Endpoint DEF PollAnswered, Typed, Reachable
      <3>2. Alive(endpoint) /\ ~ Booting(endpoint)
        BY <3>1 DEF Alive, Booting
      <3> QED BY <3>1, <3>2 DEF Order, OneDaemon, Alive
    <2>2. InProgress(k)
      BY <1>6 DEF PollAnswered, InProgress
    <2> QED BY <1>6, <2>1, <2>2, CommandOrder DEF PollAnswered, Go, files
  <1>7. CASE PollGivesUp(k)
    <2>1. InProgress(k)
      BY <1>7 DEF PollGivesUp, InProgress
    <2> QED BY <1>7, <2>1, CommandOrder DEF PollGivesUp, Go, files, daemons
  <1>8. CASE Spawn(k)
    <2>1. PICK d \in Daemons : phase[d] = "unborn" /\ phase' = [phase EXCEPT ![d] = "starting"]
      BY <1>8 DEF Spawn
    <2>2. \A e \in Daemons : phase'[e] = IF e = d THEN "starting" ELSE phase[e]
      BY <2>1 DEF Typed, TypeOK
    <2>3. command[k] = "booting" /\ UNCHANGED files
          /\ \A j \in Commands : command'[j] = IF j = k THEN "polling" ELSE command[j]
      BY <1>8 DEF Spawn, Go, Typed, TypeOK
    <2>4. \A e \in Daemons : ~ Alive(e) /\ (Alive(e)' => e = d)
      BY <2>2, <2>3 DEF Order, RoomToBoot, Alive, Booting
    <2>5. \A j \in Commands : InProgress(j) => j = k
      BY <2>3 DEF Order, OneCommand, InProgress
    <2>6. OneCommand' /\ OneDaemon'
      BY <2>3, <2>4, <2>5 DEF OneCommand, OneDaemon, InProgress
    <2>7. PolledFor' /\ RoomToBoot'
      BY <2>3, <2>5 DEF PolledFor, RoomToBoot, InProgress
    <2>8. HoldsPath'
      BY <2>2, <2>3 DEF Order, HoldsPath, files
    <2> QED BY <2>6, <2>7, <2>8 DEF Order
  <1> QED BY <1>2, <1>3, <1>4, <1>5, <1>6, <1>7, <1>8 DEF CommandMoves, CommandStep

\* What has gone wrong stays on record.
LEMMA Recorded == Next => mishaps \subseteq mishaps'
  <1>1. ASSUME NEW d \in Daemons,
               DaemonStep(d) \/ IdlePasses(d) \/ IdleFires(d) \/ Signal(d) \/ Crash(d)
        PROVE  mishaps \subseteq mishaps'
    BY <1>1 DEF DaemonStep, RemoveSocket, Bind, Ready, ShutdownRead, Exit, Read, ScanSettles,
                IdlePasses, IdleFires, Signal, Crash, KillCounted, Record
  <1>2. ASSUME NEW c \in Clients, ClientMoves(c) PROVE mishaps \subseteq mishaps'
    BY <1>2 DEF ClientMoves, ClientStep, HelloAck, Receive, HelloTimeout, ScanTimeout, Disconnect,
                Connect, Scan, Close, Record
  <1>3. ASSUME NEW k \in Commands, CommandMoves(k) PROVE mishaps \subseteq mishaps'
    BY <1>3 DEF CommandMoves, CommandStep, BeginStart, BeginStop, Begins, ProbeAnswered, ProbeFails, Spawn,
                PollAnswered, PollGivesUp, StopSent, StopUnreachable, StopReturns, BusyNoted, Record
  <1> QED BY <1>1, <1>2, <1>3, Movers

LEMMA NextOrderly ==
  ASSUME Typed, Orderly, [Next]_vars
  PROVE  Orderly'
  <1> SUFFICES ASSUME mishaps' \intersect {"overlap", "busy"} = {} PROVE Order'
    BY DEF Orderly
  <1>1. mishaps \subseteq mishaps'
    BY Recorded DEF vars
  <1>2. Order
    BY <1>1 DEF Orderly
  <1>3. CASE UNCHANGED vars
    BY <1>2, <1>3, SameOrder DEF vars, daemons
  <1>4. ASSUME NEW c \in Clients, ClientMoves(c) PROVE Order'
    BY <1>2, <1>4, ClientTyped, SameOrder DEF daemons
  <1> QED BY <1>2, <1>3, <1>4, DaemonOrder, CommandMovesOrder, Movers

-----------------------------------------------------------------------------
(* A daemon that a start waits for.                                         *)

Coming(d) == Alive(d) /\ ~ due[d] /\ frames[d] = 0

LEMMA NextFresh ==
  ASSUME Typed, Fresh, [Next]_vars
  PROVE  Fresh'
  <1>1. ASSUME \A d \in Daemons : phase'[d] = "unborn" =>
                 phase[d] = "unborn" /\ (due'[d] => due[d]) /\ frames'[d] \in {frames[d], 0}
        PROVE  Fresh'
    BY <1>1 DEF Fresh
  <1>2. ASSUME NEW d \in Daemons,
               DaemonStep(d) \/ IdlePasses(d) \/ IdleFires(d) \/ Signal(d) \/ Crash(d)
        PROVE  Fresh'
    <2> USE DEF Typed, TypeOK
    <2>1. CASE RemoveSocket(d) \/ Bind(d) \/ Ready(d) \/ IdlePasses(d)
      BY <1>1, <2>1 DEF RemoveSocket, Bind, Ready, IdlePasses
    <2>2. CASE IdleFires(d) \/ ShutdownRead(d) \/ Signal(d)
      BY <1>1, <2>2 DEF IdleFires, ShutdownRead, Signal, Shutdown
    <2>3. CASE Exit(d) \/ Crash(d)
      BY <1>1, <2>3 DEF Exit, Crash, End
    <2>4. ASSUME NEW c \in Clients, Read(d, c) PROVE Fresh'
      BY <1>1, <2>4 DEF Read
    <2>5. ASSUME NEW scan \in Scans, ScanSettles(d, scan) PROVE Fresh'
      BY <1>1, <2>5 DEF ScanSettles
    <2> QED BY <1>2, <2>1, <2>2, <2>3, <2>4, <2>5 DEF DaemonStep
  <1>3. ASSUME NEW c \in Clients, ClientMoves(c) PROVE Fresh'
    BY <1>1, <1>3, ClientTyped DEF daemons
  <1>4. ASSUME NEW k \in Commands, CommandMoves(k) PROVE Fresh'
    <2>1. CASE ProbeAnswered(k) \/ PollAnswered(k) \/ StopSent(k)
      <3>1. endpoint \in Daemons /\ phase[endpoint] = "serving" /\ phase' = phase
        BY <2>1, Endpoint DEF ProbeAnswered, PollAnswered, StopSent, Typed, Reachable
      <3>2. /\ due' = [due EXCEPT ![endpoint] = FALSE]
            /\ frames' \in {frames, [frames EXCEPT ![endpoint] = @ + 1]}
        BY <2>1 DEF ProbeAnswered, PollAnswered, StopSent, Touch
      <3> QED BY <1>1, <3>1, <3>2 DEF Typed, TypeOK
    <2>2. CASE Spawn(k)
      BY <1>1, <2>2 DEF Spawn, Typed, TypeOK
    <2>3. CASE UNCHANGED daemons
      BY <1>1, <2>3 DEF daemons
    <2> QED BY <1>4, <2>1, <2>2, <2>3 DEF CommandMoves, CommandStep, BeginStart, BeginStop, ProbeFails,
               PollGivesUp, StopUnreachable, StopReturns
  <1>5. CASE UNCHANGED vars
    BY <1>1, <1>5 DEF vars, daemons
  <1> QED BY <1>2, <1>3, <1>4, <1>5, Movers

\* A daemon does not end, and is told nothing, while a start waits for it.
LEMMA AwaitedLives ==
  ASSUME Typed, Order, NEW k \in Commands, command[k] = "polling", NEW d \in Daemons, Coming(d),
         NEW e \in Daemons,
         DaemonStep(e) \/ IdlePasses(e) \/ IdleFires(e) \/ Signal(e) \/ Crash(e),
         "killed" \notin mishaps'
  PROVE  Coming(d)'
  <1>0. InProgress(k) /\ ~ KillCounted
    BY DEF InProgress, KillCounted, Record
  <1> USE DEF Typed, TypeOK, Coming, Alive, Booting
  <1>1. CASE RemoveSocket(e) \/ Ready(e)
    BY <1>1 DEF RemoveSocket, Ready
  <1>2. CASE Bind(e)
    <2>1. endpoint = NoDaemon
      BY <1>2 DEF Bind, Order, HoldsPath
    <2> QED BY <1>2, <2>1 DEF Bind
  <1>3. CASE IdlePasses(e)
    BY <1>0, <1>3 DEF IdlePasses
  <1>4. CASE IdleFires(e) \/ ShutdownRead(e)
    <2>1. e # d
      BY <1>4 DEF IdleFires, ShutdownRead
    <2> QED BY <1>4, <2>1 DEF IdleFires, ShutdownRead, Shutdown
  <1>5. CASE Signal(e) \/ Crash(e)
    BY <1>0, <1>5 DEF Signal, Crash
  <1>6. CASE Exit(e)
    BY <1>6 DEF Exit, End
  <1>7. ASSUME NEW c \in Clients, Read(e, c) PROVE Coming(d)'
    BY <1>7 DEF Read
  <1>8. ASSUME NEW scan \in Scans, ScanSettles(e, scan) PROVE Coming(d)'
    BY <1>8 DEF ScanSettles
  <1> QED BY <1>1, <1>2, <1>3, <1>4, <1>5, <1>6, <1>7, <1>8 DEF DaemonStep

LEMMA NextAwaited ==
  ASSUME Typed, Orderly, Fresh, Awaited, [Next]_vars
  PROVE  Awaited'
  <1> DEFINE Polled == (\E k \in Commands : command[k] = "polling") => \E d \in Daemons : Coming(d)
  <1> DEFINE NoneFailed == \A k \in Commands : command[k] # "failed"
  <1> SUFFICES ASSUME mishaps' \intersect {"overlap", "busy", "killed"} = {}
               PROVE  Polled' /\ NoneFailed'
    BY DEF Awaited, Coming
  <1>1. mishaps \subseteq mishaps'
    BY Recorded DEF vars
  <1>2. Order /\ Polled /\ NoneFailed
    BY <1>1 DEF Orderly, Awaited, Coming
  <1>3. CASE UNCHANGED <<daemons, command>>
    <2>1. \A d \in Daemons : Coming(d) => Coming(d)'
      BY <1>3 DEF daemons, Coming, Alive, Booting
    <2> QED BY <1>2, <1>3, <2>1
  <1>4. ASSUME NEW e \in Daemons,
               DaemonStep(e) \/ IdlePasses(e) \/ IdleFires(e) \/ Signal(e) \/ Crash(e)
        PROVE  Polled' /\ NoneFailed'
    <2>1. command' = command
      BY <1>4 DEF DaemonStep, RemoveSocket, Bind, Ready, ShutdownRead, Exit, Read, ScanSettles,
                  IdlePasses, IdleFires, Signal, Crash, Shutdown, End
    <2>2. NoneFailed'
      BY <1>2, <2>1
    <2>3. ASSUME NEW k \in Commands, command'[k] = "polling" PROVE \E d \in Daemons : Coming(d)'
      <3>1. PICK d \in Daemons : Coming(d)
        BY <1>2, <2>1, <2>3
      <3> QED BY <1>2, <1>4, <2>1, <2>3, <3>1, AwaitedLives
    <2> QED BY <2>2, <2>3
  <1>5. ASSUME NEW k \in Commands, CommandMoves(k)
        PROVE  Polled' /\ NoneFailed'
    <2>0. InProgress(k) => \A j \in Commands : j # k => command[j] # "polling"
      BY <1>2 DEF Order, OneCommand, InProgress
    <2>1. CASE Spawn(k)
      <3>1. PICK d \in Daemons : phase[d] = "unborn" /\ phase' = [phase EXCEPT ![d] = "starting"]
        BY <2>1 DEF Spawn
      <3>2. Coming(d)'
        BY <2>1, <3>1 DEF Spawn, Fresh, Coming, Alive, Booting, Typed, TypeOK
      <3>3. NoneFailed'
        BY <1>2, <2>1 DEF Spawn, Go, Typed, TypeOK
      <3> QED BY <3>2, <3>3
    <2>2. CASE ProbeAnswered(k) \/ PollAnswered(k) \/ StopSent(k) \/ ProbeFails(k) \/ StopUnreachable(k) \/ StopReturns(k)
      <3>1. InProgress(k)
        BY <2>2 DEF ProbeAnswered, PollAnswered, StopSent, ProbeFails, StopUnreachable, StopReturns, InProgress
      <3>2. PICK to \in {"started", "waiting", "booting", "stopped"} : command' = [command EXCEPT ![k] = to]
        BY <2>2 DEF ProbeAnswered, PollAnswered, StopSent, ProbeFails, StopUnreachable, StopReturns, Go
      <3> QED BY <1>2, <2>0, <3>1, <3>2 DEF Typed, TypeOK
    <2>3. CASE BeginStart(k) \/ BeginStop(k)
      <3>1. PICK to \in {"probing", "booting", "reaching"} : command' = [command EXCEPT ![k] = to]
        BY <2>3 DEF BeginStart, BeginStop, Go
      <3>2. \A j \in Commands : ~ InProgress(j)
        BY <2>3 DEF BeginStart, BeginStop, Begins, Record
      <3> QED BY <1>2, <3>1, <3>2 DEF Typed, TypeOK, InProgress
    <2>4. CASE PollGivesUp(k)
      <3>1. PICK d \in Daemons : Coming(d)
        BY <1>2, <2>4 DEF PollGivesUp
      <3>2. phase[d] = "serving"
        BY <2>4, <3>1 DEF PollGivesUp, Coming, Alive
      <3>3. registry # NoDaemon /\ Reachable
        BY <1>2, <3>2, Places DEF Order, HoldsPath, Reachable
      <3> QED BY <2>4, <3>3 DEF PollGivesUp
    <2> QED BY <1>5, <2>1, <2>2, <2>3, <2>4 DEF CommandMoves, CommandStep
  <1>6. ASSUME NEW c \in Clients, ClientMoves(c) PROVE Polled' /\ NoneFailed'
    BY <1>3, <1>6, ClientTyped
  <1>7. CASE UNCHANGED vars
    BY <1>3, <1>7 DEF vars
  <1> HIDE DEF Polled, NoneFailed
  <1> QED BY <1>4, <1>5, <1>6, <1>7, Movers

-----------------------------------------------------------------------------
(* The theorems.                                                            *)

IInv == Typed /\ Served0 /\ Orderly /\ Fresh /\ Awaited

LEMMA InitIInv == Init => IInv
  <1> SUFFICES ASSUME Init PROVE IInv
    OBVIOUS
  <1> USE DEF Init
  <1>0. \A S : <<>> \in Seq(S)
    OBVIOUS
  <1>1. TypeOK /\ Channels
    BY Bounds DEF TypeOK, Channels, NoDaemon
  <1>2. \A c \in Clients : Conversation(c) /\ Unhurried(c) /\ InTurn(c)
    BY <1>0 DEF Conversation, Unhurried, InTurn, Quiet, NoWork
  <1>3. /\ \A d \in Daemons : phase[d] = "unborn" /\ ~ Alive(d) /\ ~ Booting(d)
        /\ \A k \in Commands : command[k] = "new" /\ ~ InProgress(k)
    BY DEF Alive, Booting, InProgress
  <1>4. Orderly
    BY <1>3 DEF Orderly, Order, OneCommand, OneDaemon, PolledFor, RoomToBoot, HoldsPath
  <1>5. Fresh /\ Awaited
    BY DEF Fresh, Awaited
  <1> QED BY <1>1, <1>2, <1>4, <1>5 DEF IInv, Typed, Conversations, Served0, Served

LEMMA NextIInv ==
  ASSUME IInv, [Next]_vars
  PROVE  IInv'
  <1> USE DEF IInv
  <1>1. Served0'
    <2>1. CASE UNCHANGED vars
      BY <2>1, StaysServed DEF Served0, vars, clients, daemons, Typed
    <2> QED BY <2>1, Movers, DaemonServes, ClientServes, CommandServes
  <1>2. Conversations'
    BY <1>1 DEF Served0, Served, Conversations
  <1> QED BY <1>1, <1>2, NextTyped, NextChannels, NextOrderly, NextFresh, NextAwaited DEF Typed

\* The inductive invariant of the daemon, its registry and its callers: types, the
\* channels, the order of boots and probes, and what a command waits for.
THEOREM Invariance == Spec => []IInv
  <1>1. IInv /\ [Next]_vars => IInv'
    BY NextIInv
  <1> QED BY <1>1, InitIInv, PTL DEF Spec

\* Every variable keeps its type, for any numbers of daemons, commands and clients.
THEOREM TypeCorrect == Spec => []TypeOK
  <1>1. IInv => TypeOK
    BY DEF IInv, Typed
  <1> QED BY <1>1, Invariance, PTL

\* A daemon that serves is the one that the registry and the socket path lead to,
\* and hence the only one, unless commands overlap or one meets a busy daemon
\* (runStart, probeDaemon, DaemonServer.listen and shutdown).
THEOREM ServingDaemonIsReachable == Spec => []ServingIsReachable
  <1>1. IInv => ServingIsReachable
    BY DEF IInv, Orderly, Order, HoldsPath, ServingIsReachable
  <1> QED BY <1>1, Invariance, PTL

\* The start command brings a daemon up, whatever is left in the registry and at
\* the socket path (runStart, waitForRegistry, startServer).
THEOREM StartsSucceed == Spec => []StartSucceeds
  <1>1. IInv => StartSucceeds
    BY DEF IInv, Awaited, StartSucceeds
  <1> QED BY <1>1, Invariance, PTL

\* A call returns the report of the scan it asked for, unless a client goes on with a
\* connection on which a scan has timed out (DaemonClient.scan, onMessage).
THEOREM AnswersAreOwn == Spec => []AnswersOwnRequest
  <1>1. IInv => AnswersOwnRequest
    BY DEF IInv, Served0, Served, InTurn, AnswersOwnRequest
  <1> QED BY <1>1, Invariance, PTL

\* The idle timer shuts down no daemon whose scan somebody waits for
\* (resetIdleTimer, handleScan).
THEOREM IdleExitIsSafe == Spec => IdleExitCutsNobodyOff
  <1>1. ASSUME IInv
        PROVE  \A d \in Daemons : IdleFires(d) =>
                 \A scan \in work[d] : ~ (client[scan[1]] = "scanning" /\ asked[scan[1]] = scan[2])
    BY <1>1 DEF IInv, Typed, TypeOK, Served0, Served, Unhurried, IdleFires, Scans
  <1>2. IInv /\ [Next]_vars =>
          [\A d \in Daemons : IdleFires(d) =>
             \A scan \in work[d] : ~ (client[scan[1]] = "scanning" /\ asked[scan[1]] = scan[2])]_vars
    BY <1>1
  <1> QED BY <1>2, Invariance, PTL DEF Spec, IdleExitCutsNobodyOff
=============================================================================
