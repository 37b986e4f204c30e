----------------------------- MODULE TelnetCodec -----------------------------
(***************************************************************************)
(* The byte parser and the encoder of telnet-protocol.cpp, between the          *)
(* programs at both ends: what one end writes the other end reads, whatever     *)
(* commands stand between and wherever a read or a write is cut.               *)
(*                                                                         *)
(* A byte is named by what it may mean; every one of them may also be data.     *)
(* The mode of a direction does not change here (TelnetChannel does that).      *)
(***************************************************************************)
EXTENDS Naturals, Sequences, SequencesExt

CONSTANTS Data,       \* bytes that programs write
          Commands,   \* sequences of bytes that the peer may put between them
          MaxSub,     \* bytes of a subnegotiation (4096)
          MaxWrites   \* bound: bytes and commands that are written

VARIABLES
  binary,           \* remote_binary_enabled = local_binary_enabled
  wire,             \* bytes from the peer that are not read
  state, suboption, \* the parser
  terminal,         \* terminal_data so far
  failed,           \* length_error, or the connection is over
  wrote,            \* what the peer's program wrote
  typed, sent,      \* what the terminal wrote; the bytes that left for the peer
  writes

receiving == <<wire, state, suboption, terminal, failed, wrote>>
sending == <<typed, sent>>
vars == <<binary, receiving, sending, writes>>

States == {"data", "data_cr", "command", "negotiation", "suboption", "suboption_command"}

TypeOK ==
  /\ state \in States /\ Len(suboption) <= MaxSub
  /\ failed \in {"no", "length", "over"} /\ writes \in 0..MaxWrites

Init ==
  /\ binary \in BOOLEAN /\ wire = <<>> /\ state = "data" /\ suboption = <<>> /\ terminal = <<>> /\ failed = "no"
  /\ wrote = <<>> /\ typed = <<>> /\ sent = <<>> /\ writes = 0

-----------------------------------------------------------------------------
(* The peer's end (RFC 854, 856): a carriage return is followed by LF or NUL, or  *)
(* by neither when the peer is careless.                                       *)

Framings(b) == IF b = "iac" THEN {<<"iac", "iac">>}
               ELSE IF b = "cr" /\ ~binary THEN {<<"cr", "nul">>, <<"cr">>} ELSE {<<b>>}

MayWrite == failed = "no" /\ writes < MaxWrites /\ writes' = writes + 1

PeerWrites(b) ==
  /\ MayWrite /\ wrote' = Append(wrote, b) /\ \E f \in Framings(b) : wire' = wire \o f
  /\ UNCHANGED <<state, suboption, terminal, failed, sending>>

PeerEndsLine ==
  /\ MayWrite /\ wrote' = wrote \o <<"cr", "lf">> /\ wire' = wire \o <<"cr", "lf">>
  /\ UNCHANGED <<state, suboption, terminal, failed, sending>>

PeerCommands(c) ==
  /\ MayWrite /\ wire' = wire \o c
  /\ UNCHANGED <<state, suboption, terminal, failed, wrote, sending>>

-----------------------------------------------------------------------------
(* receive: one byte; what was pending before it is in state.                  *)

Show(bytes) == terminal' = terminal \o bytes
To(s) == state' = s

Raw == binary

\* handle_data_byte, with what a pending carriage return showed before it.
DataByte(b, before) ==
  IF b = "iac" THEN To("command") /\ Show(before)
  ELSE IF Raw THEN To("data") /\ Show(Append(before, b))
  ELSE IF b = "cr" THEN To("data_cr") /\ Show(before)
  ELSE IF b = "nul" THEN To("data") /\ Show(before)
  ELSE To("data") /\ Show(Append(before, b))

HandledAgain(b) == DataByte(b, <<"cr">>)

DataCrByte(b) ==
  IF b = "lf" THEN To("data") /\ Show(<<"cr", "lf">>)
  ELSE IF b = "nul" THEN To("data") /\ Show(<<"cr">>)
  ELSE HandledAgain(b)

Fits == Len(suboption) < MaxSub

Collect(b) ==
  IF Fits THEN suboption' = Append(suboption, b) /\ To("suboption") /\ UNCHANGED failed
  ELSE failed' = "length" /\ UNCHANGED <<suboption, state>>

Receive ==
  /\ wire # <<>> /\ failed = "no" /\ wire' = Tail(wire)
  /\ LET b == Head(wire) IN
     \/ state = "data" /\ DataByte(b, <<>>) /\ UNCHANGED <<suboption, failed>>
     \/ state = "data_cr" /\ DataCrByte(b) /\ UNCHANGED <<suboption, failed>>
     \/ /\ state = "command" /\ UNCHANGED failed
        /\ To(CASE b = "iac" -> "data" [] b \in {"WILL", "WONT", "DO", "DONT"} -> "negotiation"
                [] b = "SB" -> "suboption" [] OTHER -> "data")
        /\ Show(IF b = "iac" THEN <<"iac">> ELSE <<>>)
        /\ suboption' = IF b = "SB" THEN <<>> ELSE suboption
     \/ state = "negotiation" /\ To("data") /\ UNCHANGED <<suboption, terminal, failed>>
     \/ /\ state = "suboption" /\ UNCHANGED terminal
        /\ IF b = "iac" THEN To("suboption_command") /\ UNCHANGED <<suboption, failed>>
           ELSE Collect(b)
     \/ /\ state = "suboption_command" /\ UNCHANGED terminal
        /\ IF b = "iac" THEN Collect(b)
           ELSE /\ To("data") /\ UNCHANGED failed
                /\ suboption' = IF b = "SE" THEN <<>> ELSE suboption
  /\ UNCHANGED <<wrote, sending, writes>>

\* Fault: a pending carriage return is forgotten.
NothingPending == <<>>
PendingCr == IF state = "data_cr" THEN <<"cr">> ELSE <<>>

\* finish_receive: the connection ends after any byte.
FinishReceive ==
  /\ failed = "no" /\ failed' = "over"
  /\ Show(PendingCr) /\ To("data") /\ suboption' = <<>>
  /\ UNCHANGED <<wire, wrote, sending, writes>>

-----------------------------------------------------------------------------
(* encode_user_input: one write of the terminal.                               *)

Escaped(b) == IF b = "iac" THEN <<"iac", "iac">> ELSE <<b>>

EncodeAt(bytes, i) ==
  IF binary \/ bytes[i] # "cr"
    THEN IF ~binary /\ bytes[i] = "lf" /\ i > 1 /\ bytes[i - 1] = "cr" THEN <<>>
         ELSE Escaped(bytes[i])
  ELSE IF i < Len(bytes) /\ bytes[i + 1] = "lf" THEN <<"cr", "lf">> ELSE <<"cr", "nul">>

Encode(bytes) == FlattenSeq([i \in DOMAIN bytes |-> EncodeAt(bytes, i)])

Type(bytes) ==
  /\ failed = "no" /\ writes + Len(bytes) <= MaxWrites /\ writes' = writes + Len(bytes)
  /\ typed' = typed \o bytes /\ sent' = sent \o Encode(bytes)
  /\ UNCHANGED receiving

-----------------------------------------------------------------------------
\* NUL is no character of the network virtual terminal.
Written == IF binary THEN Data ELSE Data \ {"nul"}
Next ==
  /\ binary' = binary
  /\ \/ \E b \in Written : PeerWrites(b)
     \/ PeerEndsLine \/ \E c \in Commands : PeerCommands(c)
     \/ Receive \/ FinishReceive
     \/ \E b \in Written, d \in Written : Type(<<b>>) \/ Type(<<b, d>>)

Spec == Init /\ [][Next]_vars

-----------------------------------------------------------------------------
(* Properties                                                               *)

\* The terminal shows what the peer's program wrote and nothing else, although
\* commands and cuts fall anywhere, also after a carriage return
\* (telnet-protocol.cpp:57-99, 217-275).
ScreenExact == IsPrefix(terminal, wrote)

\* When everything has been read, or the connection ends after it, nothing is kept
\* back but a carriage return that waits for its second byte
\* (telnet-protocol.cpp:49-55, 81-99).
NothingWithheld ==
  wire = <<>> /\ state = "data" /\ failed # "length" => terminal = wrote

\* How the peer reads what was sent: its own end of RFC 854 and 856.
Decoded[bytes \in Seq(Data \cup {"nul"})] ==
  IF bytes = <<>> THEN <<>>
  ELSE IF Head(bytes) = "iac" THEN <<"iac">> \o Decoded[Tail(Tail(bytes))]
  ELSE IF Head(bytes) = "cr" /\ ~binary
    THEN (IF bytes[2] = "lf" THEN <<"cr", "lf">> ELSE <<"cr">>) \o Decoded[Tail(Tail(bytes))]
  ELSE <<Head(bytes)>> \o Decoded[Tail(bytes)]

\* The peer decodes what was typed, wherever a write is cut (telnet-protocol.cpp:277-296).
InputExact ==
  /\ \A i \in DOMAIN sent : sent[i] = "iac" => \E j \in {i - 1, i + 1} \cap DOMAIN sent : sent[j] = "iac"
  /\ Decoded[sent] = typed
=============================================================================
