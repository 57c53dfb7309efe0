----------------------------- MODULE Northbound -----------------------------
(***************************************************************************)
(* One mapped point between a field device and the clients of the gateway: *)
(* the register codec (main/modbus/modbus_access.c), controlled writes     *)
(* (main/services/control_service.c) and the northbound Modbus TCP server  *)
(* (main/modbus/modbus_tcp_server.c).                                      *)
(*                                                                         *)
(* The poller copies the device's registers into the state pool as one     *)
(* number.  A northbound read answers register by register out of the      *)
(* pool; a write goes through control_service_write_point() to the device. *)
(* A byte has Base values instead of 256, everything else keeps its width: *)
(* a register is two bytes, INT32 and UINT32 are two registers.  64 bit    *)
(* types only have more registers; FLOAT32/64 differ from them in what the *)
(* bits mean, BCD16 in its digits, and ASCII has no number.                *)
(***************************************************************************)
EXTENDS Integers, Sequences, FiniteSets

CONSTANTS Base,        \* values of a byte
          PointModels, \* mappings: [type, order, scale, offset, min, max]
          Commands,    \* engineering values that clients write
          MaxClients,  \* max_clients of the server
          MaxPolls, MaxConnects  \* bounds

\* A byte has more than one value; the code's has 256.
ASSUME BaseAssumption == Base \in Nat \ {0, 1}
ASSUME ServerAssumption == MaxClients \in Nat /\ MaxPolls \in Nat

VARIABLES
  point,     \* the AMM entry, writable and active
  regs,      \* the registers of the device
  states,    \* history of the point's raw_value in the state pool
  reply,     \* registers of the northbound read under way
  from,      \* history: Len(states) when it began, 0: no read
  command,   \* the engineering value of the last accepted write, <<>>: none
  listed,    \* s_status.active_clients
  serving,   \* client tasks
  connects

northVars == <<point, regs, states, reply, from, command, listed, serving,
               connects>>

Types  == {"BOOL", "INT16", "UINT16", "BITFIELD16", "INT32", "UINT32"}
Orders == {"ABCD", "CDAB", "BADC", "DCBA"}
Words  == 0..(Base * Base - 1)
\* Numbers are whole: a scale factor of 1 or more, an offset, a range.
Mappings == [type : Types, order : Orders, scale : Nat \ {0}, offset : Int,
             min : Int, max : Int]
ASSUME PointsAssumption == PointModels \subseteq Mappings
                           /\ Commands \subseteq Int
Span   == Base * Base

\* modbus_register_count_for_type()
Count(type) == IF type \in {"INT32", "UINT32"} THEN 2 ELSE 1
Values(n)   == IF n = 1 THEN Span ELSE Span * Span
Contents    == [1..Count(point.type) -> Words]

Swapped(w) == (w % Base) * Base + w \div Base
Bytewise(order) == order \in {"BADC", "DCBA"}
Wordwise(order) == order \in {"CDAB", "DCBA"}

\* the two steps that encoding and ordered_bits() share: reverse the words,
\* then swap the bytes in each
Ordered(ws, order) ==
  LET n == Len(ws)
      reversed == IF Wordwise(order) THEN [i \in 1..n |-> ws[n + 1 - i]]
                                     ELSE ws
  IN IF Bytewise(order) THEN [i \in 1..n |-> Swapped(reversed[i])]
                        ELSE reversed

(* Mutant: the order of the words is forgotten on the way out. *)
InOrderBytewise(ws, order) ==
  IF Bytewise(order) THEN [i \in DOMAIN ws |-> Swapped(ws[i])] ELSE ws

\* modbus_encode_number(): single registers ignore the order
InOrder(ws, order) == IF Len(ws) = 1 THEN ws ELSE Ordered(ws, order)
Encode(v, p) ==
  LET bits == v % Values(Count(p.type))
  IN IF p.type = "BOOL" THEN <<IF v # 0 THEN 1 ELSE 0>>
     ELSE IF Count(p.type) = 1 THEN InOrder(<<bits>>, p.order)
     ELSE InOrder(<<bits \div Span, bits % Span>>, p.order)

\* modbus_convert_to_number(), bit_index 0
Decode(ws, p) ==
  LET o    == Ordered(ws, p.order)
      bits == IF Len(ws) = 1 THEN o[1] ELSE o[1] * Span + o[2]
      n    == Values(Len(ws))
  IN CASE p.type = "BOOL" -> IF ws[1] # 0 THEN 1 ELSE 0
       [] p.type = "BITFIELD16" -> bits % 2
       [] p.type \in {"UINT16", "UINT32"} -> bits
       [] OTHER -> IF bits >= n \div 2 THEN bits - n ELSE bits

\* llround(): halves away from zero
Rounded(a, b) == IF a >= 0 THEN (2 * a + b) \div (2 * b)
                 ELSE -((2 * (-a) + b) \div (2 * b))
RawOf(eng, p) == Rounded(eng - p.offset, p.scale)
EngOf(raw, p) == raw * p.scale + p.offset

\* control_service's encode_value(): a BOOL takes the number unrounded
WireWords(eng, p) == IF p.type = "BOOL"
                     THEN <<IF eng # p.offset THEN 1 ELSE 0>>
                     ELSE Encode(RawOf(eng, p), p)

NorthInit ==
  /\ point \in PointModels
  /\ regs = [i \in 1..Count(point.type) |-> 0]
  /\ states = <<>> /\ reply = <<>> /\ from = 0
  /\ command = <<>>
  /\ listed = 0 /\ serving = 0 /\ connects = 0
-----------------------------------------------------------------------------
(* The field. *)
DeviceChanges ==
  /\ regs' \in Contents \ {regs}
  /\ command' = <<>>
  /\ UNCHANGED <<point, states, reply, from, listed, serving, connects>>

\* modbus_poll_task ... tcm_state_pool_update()
PollPoint ==
  /\ Len(states) < MaxPolls
  /\ states' = Append(states, Decode(regs, point))
  /\ UNCHANGED <<point, regs, reply, from, command, listed, serving,
                 connects>>
-----------------------------------------------------------------------------
(* control_service_write_point() *)
Supported(p) == p.type # "BITFIELD16"
Accepts(eng) == point.min <= eng /\ eng <= point.max /\ Supported(point)

WritePoint(eng) ==
  /\ Accepts(eng)
  /\ regs' = WireWords(eng, point)
  /\ command' = <<eng>>
  /\ UNCHANGED <<point, states, reply, from, listed, serving, connects>>

\* MCP, MQTT, automation, the web API
ControlWrite == \E eng \in Commands : WritePoint(eng)

\* write_single(): the register is taken as an unsigned number
NorthWriteSingle ==
  /\ serving > 0
  /\ \E w \in IF point.type = "BOOL" THEN {0, 1} ELSE Words :
       WritePoint(EngOf(w, point))

\* write_multiple_registers(): as many registers as the type has
NorthWriteMultiple ==
  /\ serving > 0 /\ point.type # "BOOL"
  /\ \E ws \in Contents : WritePoint(EngOf(Decode(ws, point), point))
-----------------------------------------------------------------------------
(* process_pdu() for a read: read_word() for one register after another. *)
ReadBegins ==
  /\ serving > 0 /\ from = 0 /\ states # <<>>
  /\ from' = Len(states)
  /\ UNCHANGED <<point, regs, states, reply, command, listed, serving,
                 connects>>

ReadWord ==
  /\ from # 0 /\ Len(reply) < Count(point.type)
  /\ reply' = Append(reply,
                Encode(states[Len(states)], point)[Len(reply) + 1])
  /\ UNCHANGED <<point, regs, states, from, command, listed, serving,
                 connects>>

Answered == from # 0 /\ Len(reply) = Count(point.type)
SendReply ==
  /\ Answered
  /\ reply' = <<>> /\ from' = 0
  /\ UNCHANGED <<point, regs, states, command, listed, serving, connects>>
-----------------------------------------------------------------------------
(* server_task and client_task; there are at most MaxClients of these. *)
Connect(up) ==
  /\ connects < MaxConnects
  /\ listed < MaxClients
  /\ connects' = connects + 1
  /\ serving' = serving + up
  /\ UNCHANGED <<point, regs, states, reply, from, command>>

Accept == Connect(1) /\ listed' = listed + 1

\* no memory for the client's task: the place is given back
NoTask == Connect(0) /\ listed' = listed

Disconnect ==
  /\ serving > 0
  /\ serving' = serving - 1 /\ listed' = listed - 1
  /\ IF serving' = 0 THEN reply' = <<>> /\ from' = 0
                     ELSE UNCHANGED <<reply, from>>
  /\ UNCHANGED <<point, regs, states, command, connects>>

NorthNext ==
  \/ DeviceChanges \/ PollPoint
  \/ ControlWrite \/ NorthWriteSingle \/ NorthWriteMultiple
  \/ ReadBegins \/ ReadWord \/ SendReply
  \/ Accept \/ NoTask \/ Disconnect

NorthSpec == NorthInit /\ [][NorthNext]_northVars
-----------------------------------------------------------------------------
NorthTypeOK ==
  /\ regs \in Contents
  /\ Len(states) <= MaxPolls
  /\ listed = serving /\ serving \in 0..MaxClients
  /\ Len(reply) <= Count(point.type) /\ from \in 0..Len(states)
  /\ \A i \in DOMAIN reply : reply[i] \in Words

(* A controlled write arrives: when the raw number of an accepted command  *)
(* fits the type, polling the registers that were written gives that       *)
(* number back, in every byte order for types of two registers, and in the *)
(* orders that do not swap bytes for single registers; for a BOOL when the *)
(* command is one of its two engineering values, since any other sets it,  *)
(* also one that rounds to 0.                                              *)
Fitting(raw, p) ==
  CASE p.type = "BOOL" -> raw \in {0, 1}
    [] p.type \in {"UINT16", "UINT32"} ->
                raw \in 0..(Values(Count(p.type)) - 1)
    [] OTHER -> LET half == Values(Count(p.type)) \div 2
                IN raw \in (-half)..(half - 1)
WriteReadsBack ==
  command # <<>> /\ Fitting(RawOf(command[1], point), point)
    /\ (point.type = "BOOL"
          => command[1] = EngOf(RawOf(command[1], point), point))
    /\ (Count(point.type) = 2 \/ ~Bytewise(point.order))
    => Decode(regs, point) = RawOf(command[1], point)

=============================================================================
