-------------------------- MODULE MCTerminalWindow --------------------------
(* The machines of the windows of the terminal, each by itself: "scene" says which one a  *)
(* behaviour is of, and the others rest.                                        *)
(*                                                                         *)
(* Receiving: two files, one of them larger than the buffer.  Sending: four bytes *)
(* in frames of two through a send buffer of three, which holds a frame, is        *)
(* filled by one, and splits one.  Macros: two rules that overlap, a line that is   *)
(* cut and a queue that is full.  Window: every request, a device that returns, two *)
(* connections, a carrier that drops.  Selection: a view of two rows and two above. *)
(* Share: two callers on one share of an SMB server.  Shares: three callers and two of    *)
(* its shares, sessions that fail or are lost.                                  *)
EXTENDS TransferReceiver, TransferSender, TerminalSelection, TerminalRuntime,
        SmbClient, TLC

MCNames == {"a", "b"}
MCBatch == <<[name |-> "a", size |-> 3], [name |-> "b", size |-> 1]>>
MCChunks == {1, 2}
MCRequests == {"text", "transfer", "auto", "break", "encoding"}
MCEncodings == {"utf-8", "latin"}
MCDevices == BOOLEAN

CONSTANTS x, y, CR, LF
MCRules == << [seeks |-> <<x, y>>, reply |-> <<y, x>>], [seeks |-> <<y>>, reply |-> <<x>>] >>
VARIABLES notifications, line, carriage, acted, rule, reply, generation, text, ended, out, owed
macros == <<notifications, line, carriage, acted, rule, reply, generation, text, ended, out, owed>>
Macros == INSTANCE ReceivedMacros WITH
  Letters <- {x, y}, Rules <- MCRules, LineCapacity <- 2, QueueCapacity <- 3, SendChunk <- 1,
  MaxText <- 5, MaxConnections <- 2, send <- reply

MCRoles == {("1" :> p[1]) @@ ("2" :> p[2]) :
              p \in {<<"read", "write">>, <<"stat", "modify">>}}

VARIABLES lifetime, connections, opened_sessions, opened, where, wants, using, ending, losses
shares == <<lifetime, connections, opened_sessions, opened, where, wants, using, ending, losses>>
Shares == INSTANCE SmbServer WITH
  queue <- connections, sessions <- opened_sessions, pc <- where, stop <- ending,
  Callers <- {"1", "2", "3"}, Shares <- {"IPC$", "a"}, MaxLosses <- 2

ASSUME MCAssumption ==
  Shares!ServerConstants /\ Macros!MacrosConstants

-----------------------------------------------------------------------------
VARIABLE scene
Sending == scene = "send"
all == <<scene, vars, sender, macros, runtime, mouse, smb, shares>>

MCInit ==
  /\ scene \in {"receive", "send", "macros", "window", "selection", "share", "shares"}
  /\ Init /\ (scene = "receive" \/ target = [n \in Names |-> << >>])
  /\ SendInit /\ (Sending \/ protocol = "zmodem")
  /\ Macros!Init /\ InitWith(scene = "window") /\ SelectionInit
  /\ SmbInit /\ (scene = "share" \/ kind["1"] = "read")
  /\ Shares!Init /\ (scene = "shares" \/ wants = [c \in {"1", "2", "3"} |-> "a"])
MCNext ==
  /\ scene' = scene
  /\ \/ /\ UNCHANGED <<smb, shares>>
        /\ \/ scene = "receive" /\ Next /\ UNCHANGED <<sender, macros, runtime, mouse>>
           \/ Sending /\ SendNext /\ UNCHANGED <<vars, macros, runtime, mouse>>
           \/ scene = "macros" /\ Macros!Next /\ UNCHANGED <<vars, sender, runtime, mouse>>
           \/ scene = "window" /\ RuntimeNext /\ UNCHANGED <<vars, sender, macros, mouse>>
           \/ scene = "selection" /\ SelectionNext /\ UNCHANGED <<vars, sender, macros, runtime>>
     \/ /\ UNCHANGED <<vars, sender, macros, runtime, mouse>>
        /\ \/ scene = "share" /\ SmbNext /\ UNCHANGED shares
           \/ scene = "shares" /\ Shares!Next /\ UNCHANGED smb
           \/ /\ scene \in {"share", "shares"} /\ ~SmbUnsettled /\ ~Shares!Unsettled
              /\ UNCHANGED <<smb, shares>>
\* The fairness of each machine, in its scene; where a behaviour ends anyway, that of all its
\* actions together is enough.
MCFairness ==
  /\ WF_sender(Sending /\ Progress /\ UNCHANGED <<scene, vars>>)
  /\ WF_runtime(scene = "window" /\ FrameWith(FALSE))
  /\ WF_runtime(scene = "window" /\ Serves)
  /\ WF_mouse(scene = "selection" /\ Paint) /\ WF_mouse(scene = "selection" /\ Resume)
  /\ WF_mouse(scene = "selection" /\ Validates)
  /\ WF_smb(scene = "share" /\ Proceeds)
  /\ WF_shares(scene = "shares" /\ Shares!Proceeds)
MCSpec == MCInit /\ [][MCNext]_all /\ MCFairness

\* The properties of the machines that are instances, commented in their modules.
InstancesSound ==
  (scene = "macros" => Macros!MacrosExact) /\ (scene = "shares" => Shares!ServerSound)
\* Each of their liveness properties says that something which waits does so no longer;
\* as only one scene moves, they are one property.
Waits ==
  \/ (Sending /\ send_pc # "over") \/ Unsettled \/ waits.release
  \/ (scene = "share" /\ SmbUnsettled) \/ (scene = "shares" /\ Shares!Unsettled)
Ends == Waits ~> ~Waits
=============================================================================
