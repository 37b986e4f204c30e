----------------------------- MODULE MCSessions -----------------------------
(* The sessions with a host: SSH around its channels, and Telnet, each part by itself;  *)
(* "part" says which one a behaviour is of, and the others stay in their first state.   *)
(*   login     one login with every content of the known_hosts files              *)
(*   busy      the SOCKS server with two clients and room for one                  *)
(*   forward   the SOCKS server with one client that sends more, fairness          *)
(*   channel   one channel of SshTransport, fairness                              *)
(*   telnet    the negotiation of a Telnet session: BINARY and NAWS                 *)
(*   options   the same with options that are refused or only agreed to, and less else *)
(*   bytes     its parser and its encoder                                      *)
EXTENDS SshForward, SshLogin

CONSTANTS p1, k1, k2, k3, first, second
VARIABLES part,
  t_load, conn, pc, stage, result, cancelled, offset, got, wake, queue, worker, running, progress,
  t_stopping, libssh, output, connected, incoming, wire, t_server
moving == <<conn, pc, stage, result, cancelled, offset, got, wake, queue, worker, running,
  progress, t_stopping, libssh, output, connected, incoming, wire, t_server>>
transport == <<t_load, moving>>

VARIABLES local, remote, requested, size, replies, users, toPeer, toUs, peerLocal, peerRemote,
  peerSize, garbled, lossy, asks, sends, resizes
telnet == <<local, remote, requested, size, replies, users, toPeer, toUs, peerLocal, peerRemote,
  peerSize, garbled, lossy, asks, sends, resizes>>
Telnet == INSTANCE TelnetChannel WITH queue <- users,
  LocalOptions <- {"binary", "naws"}, RemoteOptions <- {"binary"}, MaxTotal <- 3,
  Sizes <- {"small", "large"}, Default <- "small", Batch <- 2, MaxAsks <- 2, MaxSends <- 1, MaxResizes <- 1
Options == INSTANCE TelnetChannel WITH queue <- users,
  LocalOptions <- {"binary", "naws", "status"}, RemoteOptions <- {"binary", "echo"}, MaxTotal <- 2,
  Sizes <- {"small", "large"}, Default <- "small", Batch <- 2, MaxAsks <- 2, MaxSends <- 1, MaxResizes <- 1

CONSTANTS MaxSub, MaxWrites
VARIABLES binary, line, state, suboption, terminal, failed, wrote, typed, sent, writes
codec == <<binary, line, state, suboption, terminal, failed, wrote, typed, sent, writes>>
\* NOP, an offer, and subnegotiations: one with an escaped byte, one that is too long.
SomeCommands ==
  {<<"iac", "NOP">>, <<"iac", "WILL", "cr">>,
   <<"iac", "SB", "iac", "iac", "a", "iac", "SE">>,
   <<"iac", "SB", "a", "a", "iac", "iac", "iac", "SE">>, <<"iac", "SB", "a", "iac", "a">>}
Codec == INSTANCE TelnetCodec WITH
  wire <- line, Data <- {"a", "cr", "lf", "iac", "SE", "nul"}, Commands <- SomeCommands

ASSUME MCAssumption == Telnet!TelnetConstants /\ Options!TelnetConstants

MCTypeOf == [k \in {k1, k2, k3} |-> IF k = k3 THEN "ed25519" ELSE "rsa"]

\* Every policy of alternatives with one method, every order of two different factors, and a key
\* before either secret.
Single == {{<<m>> : m \in ms} : ms \in SUBSET Methods \ {{}}}
Ordered == {{<<m, n>>} : m \in Methods, n \in Methods} \ {{<<m, m>>} : m \in Methods}
MCPolicies == Single \cup Ordered \cup {{<<>>}, {<<"publickey", "interactive">>, <<"publickey", "password">>}}

BusyLoad == [clients |-> {first, second}, up |-> 1, down |-> 0]
ForwardLoad == [clients |-> {first}, up |-> 2, down |-> 2]
MCLoads == {BusyLoad, ForwardLoad}
Channel == INSTANCE SshTransport WITH load <- t_load, stopping <- t_stopping, server <- t_server,
  Channels <- {first}, Window <- 2, Room <- 1,
  Loads <- {[sends |-> [c \in {first} |-> 1], payload |-> [c \in {first} |-> 2], trouble |-> "none"]}

Idle == /\ left = [p \in Logins |-> {<<>>}] /\ known = {} /\ global = {}
        /\ key = [p \in Logins |-> k1] /\ identity = [p \in Logins |-> "none"]
MCInit ==
  /\ part \in {"login", "busy", "forward", "channel", "telnet", "options", "bytes"}
  /\ LoginInit /\ (part = "login" \/ Idle)
  /\ Channel!Init
  /\ Codec!Init /\ (part = "bytes" \/ ~binary)
  /\ Init /\ load = (IF part = "busy" THEN BusyLoad ELSE ForwardLoad)
  /\ IF part = "options" THEN Options!Init ELSE Telnet!Init
  /\ part \in {"telnet", "options"} \/ ~lossy

\* A step of one of the parts with fairness: of the action given for it.
Of(theForward, theChannel) ==
  /\ part \in {"forward", "channel"}
  /\ \/ part = "forward" /\ load' = load /\ theForward /\ UNCHANGED transport
     \/ part = "channel" /\ t_load' = t_load /\ theChannel /\ UNCHANGED vars
  /\ part' = part /\ UNCHANGED <<login, telnet, codec>>
MCNext ==
  \/ Of(Next, Channel!Next)
  \/ /\ part' = part /\ UNCHANGED transport
     /\ \/ part = "login" /\ LoginNext /\ UNCHANGED <<vars, telnet, codec>>
        \/ part = "busy" /\ Next /\ UNCHANGED <<login, telnet, codec>>
        \/ part = "telnet" /\ Telnet!Next /\ UNCHANGED <<login, vars, codec>>
        \/ part = "options" /\ Options!Next /\ UNCHANGED <<login, vars, codec>>
        \/ part = "bytes" /\ Codec!Next /\ UNCHANGED <<login, vars, telnet>>
moves == <<vars, transport>>
\* The fairness of the parts.  As one part moves, weak fairness of an action of each part is
\* that of their disjunction.
Continues(w) == Channel!Resume(w) \/ Channel!Throw(w) \/ Channel!Wake(w)
MCFairness ==
  /\ WF_moves(Of(EndLoop, Channel!Worker))
  /\ WF_moves(Of(Joined, Continues(<<first, "in">>)))
  /\ WF_moves(Of(Serve(first), Continues(<<first, "out">>)))
  /\ WF_moves(Of(PumpUp(first), Channel!Open(first) \/ Channel!Read(first)))
  /\ WF_moves(Of(PumpDown(first), Channel!Write(first)))
  /\ WF_moves(Of(FALSE, Channel!Replies(first) \/ Channel!SendsData(first) \/ Channel!SendsEof(first)))
  /\ WF_moves(Of(FALSE, Channel!Receives(first)))
MCSpec == MCInit /\ [][MCNext]_<<part, login, moves, telnet, codec>> /\ MCFairness

\* The properties of the parts, commented there.

\* Both ends of a Telnet session agree on the options, and each reads what the other wrote.
Negotiated ==
  /\ part = "telnet" => Telnet!TypeOK /\ Telnet!Agreement /\ Telnet!NeverOverstated
  /\ part = "options" => Options!TypeOK /\ Options!Agreement /\ Options!NeverOverstated
BytesExact == part = "bytes" =>
  Codec!TypeOK /\ Codec!ScreenExact /\ Codec!NothingWithheld /\ Codec!InputExact
\* A stopped server and a bridge that nobody uses end, and a channel carries all it is
\* given; as one part moves, this is one property.
Waiting ==
  \/ part = "forward" /\ Unsettled
  \/ part = "channel" /\ ~Channel!Carried
PartsEnd == Waiting ~> ~Waiting
=============================================================================
