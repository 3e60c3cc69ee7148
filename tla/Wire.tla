--------------------------------- MODULE Wire ---------------------------------
(***************************************************************************)
(* The requests of one client in game and their answers: the client sends  *)
(* packets in the body of a request, the server reads them one at a time   *)
(* and hands each to its handler, which may wait or raise; handlers of     *)
(* this and other requests put packets in the player's queue, and the      *)
(* answer takes what is there.                                             *)
(***************************************************************************)
EXTENDS Packets

CONSTANTS ClientSends,  \* packets the client may send: [id, values]
          ServerSends,  \* packets handlers may send it: [id, values]
          NumSlots,     \* slots of a match (16)
          MaxPackets,   \* bound: packets of all requests
          MaxReplies    \* bound: packets that are put in the queue

VARIABLES
    playerRestricted,  \* whether the player is restricted
    posted,            \* how many packets were sent
    sent,              \* history: the packets of the request
    at,                \* "idle", "reading" or "handling" (the packet that was read last)
    body,              \* what is left to be read of the request
    handled,           \* history: what was handed to handlers during the request
    queue,             \* Player._packet_queue
    enqueued,          \* history: the packets that were put in the queue
    received           \* history: the bytes of the answers

wireVars == <<playerRestricted, posted, sent, at, body, handled, queue, enqueued, received>>

-----------------------------------------------------------------------------
(* The packets of the client: what the class of a packet reads of it *)

I32Packets == {2, 16, 38, 40, 51, 70, 73, 74, 79, 87, 93, 98, 99, 108, 109}
EmptyPackets == {3, 4, 17, 21, 29, 30, 33, 39, 44, 49, 52, 54, 55, 56, 59, 60, 77}
MessagePackets == {1, 25, 82}
ChannelNamePackets == {63, 78}      \* channel join and part
ListPackets == {85, 97}             \* user stats and user presence requests
MatchDataPackets == {31, 41, 90}    \* create match, change settings, change password
FramePackets == {18}
RawPackets == {47}                  \* match score update

FieldPackets == I32Packets \cup EmptyPackets \cup MessagePackets \cup ChannelNamePackets
                  \cup ListPackets \cup {0, 32}
Handled == FieldPackets \cup MatchDataPackets \cup FramePackets \cup RawPackets

Fields(id) ==
    CASE id \in I32Packets -> <<"i32">>
      [] id \in EmptyPackets -> <<>>
      [] id \in MessagePackets -> Message
      [] id \in ChannelNamePackets -> <<"string">>
      [] id \in ListPackets -> <<"i32 list">>
      [] id = 0 -> <<"u8", "string", "string", "u32", "u8", "i32">>    \* change action
      [] id = 32 -> <<"i32", "string">>                                \* join match

\* Members of ClientPackets no class is registered for; other ids are no members.
Unhandled == {20, 68, 84}
Members == Handled \cup Unhandled

\* @register(..., restricted=True)
RestrictedIds == {0, 2, 3, 4, 63, 78, 79, 85}

PacketMap == IF playerRestricted THEN RestrictedIds ELSE Handled

\* ChangeAction: relax and autopilot are modes of their own; the bits are dropped
\* where there is no such mode.
Relax(mods) == (mods \div 128) % 2 = 1
Autopilot(mods) == (mods \div 8192) % 2 = 1

ActionMode(mods, mode) ==
    IF Relax(mods) THEN IF mode = 3 THEN <<mods - 128, mode>> ELSE <<mods, mode + 4>>
    ELSE IF Autopilot(mods)
         THEN IF mode \in 1..3 THEN <<mods - 8192, mode>> ELSE <<mods, mode + 8>>
         ELSE <<mods, mode>>

\* The values of that packet with the mode that its mods say
WithMode(values) ==
    LET mode == ActionMode(values[4], values[5])
    IN [values EXCEPT ![4] = mode[1], ![5] = mode[2]]

\* What was read, with that mode; and what was read, behind the bytes it is read of
Named(read) == Got(WithMode(read.value), read.rest)
Behind(raw, read) == Got(<<raw>> \o read.value, read.rest)

\* The constructor of the packet's class, reading from the bytes left.
ReadPacket(id, b, length) ==
    CASE id \in MatchDataPackets -> ReadMatch(b, NumSlots)
      [] id \in FramePackets -> Behind(Take(b, length), ReadBundle(b))
      [] id \in RawPackets -> Got(Take(b, length), Drop(b, length))
      [] id = 0 -> Named(ReadFields(Fields(0), b))
      [] id \in FieldPackets \ {0} -> ReadFields(Fields(id), b)

\* The body of a packet as the game writes it, for these readers; of others it is any bytes.
ClientBody(p) ==
    CASE p.id \in MatchDataPackets -> WriteMatch(p.values[1], TRUE)
      [] p.id \in FramePackets -> WriteBundle(p.values[1])
      [] p.id \in FieldPackets -> WriteFields(Fields(p.id), p.values)
      [] OTHER -> p.values[1]

\* What the handler of the packet is to be handed of it.
Handed(p) ==
    CASE p.id \in MatchDataPackets -> MatchAsRead(p.values[1], TRUE)
      [] p.id \in FramePackets -> <<ClientBody(p)>> \o BundleAsRead(p.values[1])
      [] p.id \in RawPackets -> p.values[1]
      [] p.id = 0 -> WithMode(p.values)
      [] OTHER -> p.values

\* The client's reading of a packet of the server
ReadByClient(id, b) ==
    CASE ServerPackets[id] = <<"match">> -> ReadMatch(b, NumSlots)
      [] ServerPackets[id] = <<"raw">> -> Got(<<b>>, <<>>)
      [] OTHER -> ReadFields(ServerPackets[id], b)

\* What the client is to find in a packet.
ToBeFound(p) ==
    IF ServerPackets[p.id] = <<"match">> THEN MatchAsRead(p.values[1], p.values[2]) ELSE p.values

-----------------------------------------------------------------------------
(* Whatever the packets hold, it is what their fields are for. *)

IsClientPacket(p) ==
    /\ p.id \in 0..MaxU16 /\ Len(ClientBody(p)) <= MaxI32
    /\ CASE p.id \in MatchDataPackets -> IsMatch(p.values[1], NumSlots)
         [] p.id \in FramePackets -> IsBundle(p.values[1])
         [] p.id \in FieldPackets -> Fitting(Fields(p.id), p.values)
         [] OTHER -> p.values[1] \in Seq(Byte)

IsServerPacket(p) ==
    /\ p.id \in DOMAIN ServerPackets /\ p.id \in 0..MaxU16
    /\ Len(PacketBody(p.id, p.values)) <= MaxI32
    /\ CASE ServerPackets[p.id] = <<"match">> ->
              IsMatch(p.values[1], NumSlots) /\ p.values[2] \in BOOLEAN
         [] ServerPackets[p.id] = <<"raw">> -> p.values \in [1..1 -> Seq(Byte)]
         [] OTHER -> Fitting(ServerPackets[p.id], p.values)

ASSUME WireAssumption ==
    /\ NumSlots \in Nat /\ {MaxPackets, MaxReplies} \subseteq Nat
    /\ \A p \in ClientSends : IsClientPacket(p)
    /\ \A p \in ServerSends : IsServerPacket(p)

WireInit ==
    /\ playerRestricted \in BOOLEAN
    /\ posted = 0
    /\ sent = <<>>
    /\ at = "idle"
    /\ body = <<>>
    /\ handled = <<>>
    /\ queue = <<>> /\ enqueued = <<>> /\ received = <<>>

-----------------------------------------------------------------------------
Written(packets) == FlattenSeq([k \in DOMAIN packets |-> Packet(packets[k].id, ClientBody(packets[k]))])

\* The client sends the packets it has; whether it heard of a restriction or not.
Post(packets) ==
    /\ at = "idle"
    /\ posted' = posted + Len(packets) /\ posted' <= MaxPackets
    /\ sent' = packets
    /\ body' = Written(packets)
    /\ at' = "reading"
    /\ handled' = <<>>
    /\ UNCHANGED <<playerRestricted, queue, enqueued, received>>

\* _read_header
HeaderId == Number(Take(body, 2), FALSE)
HeaderLength == Number(SubSeq(body, 4, 7), FALSE)
AfterHeader == Drop(body, 7)

\* __next__: a packet that is not handled is skipped by its length.
Skip ==
    /\ at = "reading" /\ body # <<>>
    /\ HeaderId \in Members \ PacketMap
    /\ body' = Drop(AfterHeader, HeaderLength)
    /\ UNCHANGED <<playerRestricted, posted, sent, at, handled, queue, enqueued, received>>

\* The packet that __next__ returns is handed to its handler.
Hand(read) ==
    /\ handled' = Append(handled, [id |-> HeaderId, value |-> read.value])
    /\ body' = read.rest

\* __next__: a packet that is handled takes what it reads, whatever its length.
Read ==
    /\ at = "reading" /\ body # <<>>
    /\ HeaderId \in PacketMap
    /\ Hand(ReadPacket(HeaderId, AfterHeader, HeaderLength))
    /\ at' = "handling"
    /\ UNCHANGED <<playerRestricted, posted, sent, queue, enqueued, received>>

\* The handler returns to bancho_handler, which takes the next packet.
Return ==
    /\ at = "handling"
    /\ at' = "reading"
    /\ UNCHANGED <<playerRestricted, posted, sent, body, handled, queue, enqueued, received>>

\* The request ends with what the handler raised, or with the exception of
\* ClientPackets(id): its other packets are lost, the queue is left as it is.
Raise ==
    /\ at = "handling" \/ (at = "reading" /\ body # <<>> /\ HeaderId \notin Members)
    /\ at' = "idle"
    /\ body' = <<>>
    /\ UNCHANGED <<playerRestricted, posted, sent, handled, queue, enqueued, received>>

\* Player.enqueue: by this request's handler, or by any other at any time.
Enqueue(p) ==
    /\ Len(enqueued) < MaxReplies
    /\ enqueued' = Append(enqueued, p)
    /\ queue' = Append(queue, WritePacket(p.id, p.values))
    /\ UNCHANGED <<playerRestricted, posted, sent, at, body, handled, received>>

\* The body is read: Player.dequeue
Answer ==
    /\ at = "reading" /\ body = <<>>
    /\ received' = received \o FlattenSeq(queue)
    /\ queue' = <<>>
    /\ at' = "idle"
    /\ UNCHANGED <<playerRestricted, posted, sent, body, handled, enqueued>>

Requests == UNION {[1..n -> ClientSends] : n \in 0..MaxPackets}

WireNext ==
    \/ \E packets \in Requests : Post(packets)
    \/ Skip \/ Read \/ Return \/ Raise \/ Answer
    \/ \E p \in ServerSends : Enqueue(p)

WireSpec == WireInit /\ [][WireNext]_wireVars

-----------------------------------------------------------------------------
(* Properties *)

WireTypeOK ==
    /\ playerRestricted \in BOOLEAN
    /\ posted \in 0..MaxPackets
    /\ \A k \in DOMAIN sent : sent[k] \in ClientSends
    /\ at \in {"idle", "reading", "handling"}
    /\ \A k \in DOMAIN handled : handled[k].id \in Handled
    /\ \A k \in DOMAIN body : body[k] \in 0..255
    /\ Len(queue) <= Len(enqueued) /\ Len(enqueued) <= MaxReplies

Known(packets) == Only(packets, {k \in DOMAIN packets : packets[k].id \in PacketMap})

\* Whatever a request carries, the handlers are handed the packets there is a
\* handler for, in the order in which they were sent, each with the values that
\* were sent in it; and all of them once the request has been read to its end.
HandledAreSent ==
    LET known == Known(sent) IN
    /\ Len(handled) <= Len(known)
    /\ \A k \in DOMAIN handled :
         handled[k].id = known[k].id /\ handled[k].value = Handed(known[k])
    /\ at = "reading" /\ body = <<>> => Len(handled) = Len(known)
    /\ at = "reading" =>
         \E n \in 0..Len(sent) : body = Written(SubSeq(sent, n + 1, Len(sent)))

\* The packets the client finds in what it has received, one after the other
ReadAnswers(b) ==
    LET read[k \in 0 .. Len(b) \div 7] ==
          IF k = 0 THEN Got(<<>>, b)
          ELSE LET before == read[k - 1]
                   next == before.rest
                   id == Number(Take(next, 2), FALSE)
                   length == Number(SubSeq(next, 4, 7), FALSE)
                   found == ReadByClient(id, SubSeq(next, 8, 7 + length))
               IN IF next = <<>> THEN before
                  ELSE Got(Append(before.value, [id |-> id, value |-> found.value]),
                           Drop(next, 7 + length))
    IN read[Len(b) \div 7].value

\* Every packet that was put in the queue is in it or was sent with an answer, once
\* and in order, whatever requests failed in between; and the client that reads
\* it finds the values that were written.
RepliesArrive ==
    ReadAnswers(received \o FlattenSeq(queue)) =
      [k \in DOMAIN enqueued |-> [id |-> enqueued[k].id, value |-> ToBeFound(enqueued[k])]]

\* Packets mean the same at both ends, in both directions.
PacketsArrive == HandledAreSent /\ RepliesArrive
=============================================================================
