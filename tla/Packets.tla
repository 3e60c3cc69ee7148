------------------------------- MODULE Packets -------------------------------
(***************************************************************************)
(* The binary format of bancho: how the server reads the packets of a      *)
(* client's request and writes its own.  Bytes are numbers; a string is    *)
(* the sequence of its bytes in UTF-8, a float the sequence of its bytes,  *)
(* so that only the placing of either in a packet is modelled.             *)
(***************************************************************************)
EXTENDS Integers, SequencesExt, TLC

Byte == 0..255

Drop(b, n) == SubSeq(b, n + 1, Len(b))
Take(b, n) == SubSeq(b, 1, n)

\* The elements of a sequence at some positions
Only(s, which) == FlattenSeq([k \in DOMAIN s |-> IF k \in which THEN <<s[k]>> ELSE <<>>])

-----------------------------------------------------------------------------
(* Numbers *)

Signed == {"i8", "i16", "i32", "i64"}
Unsigned == {"u8", "u16", "u32"}
Floats == {"f32", "f64"}

Width(type) ==
    CASE type \in {"u8", "i8"} -> 1
      [] type \in {"u16", "i16"} -> 2
      [] type \in {"u32", "i32", "f32"} -> 4
      [] type \in {"i64", "f64"} -> 8

Place == <<1, 256, 65536, 16777216>>

\* int.to_bytes and struct.pack in "little" order, of a number of at most 31 bits
LittleEndian(n, width) ==
    LET magnitude == IF n >= 0 THEN n ELSE -(n + 1)
        digit(k) == IF k > 4 THEN 0 ELSE (magnitude \div Place[k]) % 256
    IN [k \in 1..width |-> IF n >= 0 THEN digit(k) ELSE 255 - digit(k)]

\* int.from_bytes and struct.unpack, of such a number: all bytes but four are its sign.
Number(bytes, signed) ==
    LET negative == signed /\ bytes[Len(bytes)] > 127
        digit(k) == IF k > Len(bytes) THEN 0 ELSE IF negative THEN 255 - bytes[k] ELSE bytes[k]
        magnitude == digit(1) + 256 * digit(2) + 65536 * digit(3) + 16777216 * digit(4)
    IN IF negative THEN -magnitude - 1 ELSE magnitude

-----------------------------------------------------------------------------
(* Strings: nothing, or a mark, the length in base 128 and the bytes *)

\* write_uleb128
Uleb128(n) ==
    LET bytes[m \in 0..n] ==
          IF m < 128 THEN <<m>> ELSE <<128 + (m % 128)>> \o bytes[m \div 128]
    IN bytes[n]

WriteString(s) == IF s = <<>> THEN <<0>> ELSE <<11>> \o Uleb128(Len(s)) \o s

\* A value that was read, and the bytes that follow it.
Got(value, rest) == [value |-> value, rest |-> rest]

\* The first byte of a length that is not marked as having another after it
LastDigit(b) == CHOOSE k \in 1..Len(b) : b[k] < 128 /\ \A j \in 1 .. k - 1 : b[j] >= 128

ReadLength(b) ==
    LET size == LastDigit(b)
        length[k \in 1..size] == IF k = size THEN b[k] ELSE (b[k] % 128) + 128 * length[k + 1]
    IN Got(length[1], Drop(b, size))

ReadString(b) ==
    IF b[1] # 11 THEN Got(<<>>, Drop(b, 1))
    ELSE LET length == ReadLength(Drop(b, 1))
         IN Got(Take(length.rest, length.value), Drop(length.rest, length.value))

-----------------------------------------------------------------------------
(* Lists of numbers, their length in two bytes *)

WriteI32List(l) == LittleEndian(Len(l), 2) \o FlattenSeq([k \in DOMAIN l |-> LittleEndian(l[k], 4)])

\* Read as unsigned numbers, which the ids that clients send are.
ReadI32List(b) ==
    LET length == Number(Take(b, 2), FALSE)
    IN Got([k \in 1..length |-> Number(SubSeq(b, 4 * k - 1, 4 * k + 2), FALSE)],
           Drop(b, 2 + 4 * length))

-----------------------------------------------------------------------------
(* Fields, one after the other *)

ReadField(type, b) ==
    CASE type = "string" -> ReadString(b)
      [] type = "i32 list" -> ReadI32List(b)
      [] type \in Floats -> Got(Take(b, Width(type)), Drop(b, Width(type)))
      [] type \in Signed \cup Unsigned ->
           Got(Number(Take(b, Width(type)), type \in Signed), Drop(b, Width(type)))

\* What was read, and the fields that follow it.
Then(done, next) == Got(Append(done.value, next.value), next.rest)
ReadNext(done, type) == Then(done, ReadField(type, done.rest))

ReadOn(done, types) ==
    LET read[k \in 0..Len(types)] == IF k = 0 THEN done ELSE ReadNext(read[k - 1], types[k])
    IN read[Len(types)]

ReadFields(types, b) == ReadOn(Got(<<>>, b), types)

WriteField(type, v) ==
    CASE type = "string" -> WriteString(v)
      [] type = "i32 list" -> WriteI32List(v)
      [] type \in Floats \cup {"raw"} -> v
      [] type \in Signed \cup Unsigned -> LittleEndian(v, Width(type))

WriteFields(types, values) == FlattenSeq([k \in DOMAIN types |-> WriteField(types[k], values[k])])

Times(n, type) == [k \in 1..n |-> type]

Message == <<"string", "string", "string", "i32">>   \* sender, text, recipient, sender's id
Channel == <<"string", "string", "u16">>             \* name, topic, players

\* The values that a field of a type is for, numbers up to 31 bits
MaxI16 == 32767
MaxU16 == 65535
MaxI32 == 2147483647
Numbers(type) ==
    CASE type = "u8" -> 0..255
      [] type = "i8" -> -128..127
      [] type = "u16" -> 0..MaxU16
      [] type = "i16" -> -MaxI16 - 1 .. MaxI16
      [] type = "u32" -> 0..MaxI32
      [] type \in {"i32", "i64"} -> -MaxI32 - 1 .. MaxI32

FieldTypes == {"string", "i32 list"} \cup Floats \cup Signed \cup Unsigned

Holds(type, v) ==
    CASE type = "string" -> v \in Seq(Byte)
      [] type = "i32 list" -> v \in Seq(0..MaxI32) /\ Len(v) <= MaxU16
      [] type \in Floats -> v \in [1..Width(type) -> Byte]
      [] type \in Signed \cup Unsigned -> v \in Numbers(type)

Fitting(types, values) ==
    /\ types \in Seq(FieldTypes)
    /\ values = [k \in DOMAIN types |-> values[k]]
    /\ \A k \in DOMAIN types : Holds(types[k], values[k])

-----------------------------------------------------------------------------
(* Matches *)

\* SlotStatus.has_player: one of the bits of not ready, ready, no map, playing
\* and complete is set.
HasPlayer(status) == (status % 128) \div 4 # 0
Occupied(statuses) == {k \in DOMAIN statuses : HasPlayer(statuses[k])}

\* As read_match reads them; write_match writes no sign, which these numbers do not have.
MatchHead == <<"i16", "i8", "i8", "i32", "string">>   \* id, in progress, type, mods, name
MatchMap == <<"string", "i32", "string">>
MatchTail == <<"i8", "i8", "i8", "i8">>               \* mode, win condition, team type, freemods

\* Mutant: who sits in a slot is written of every slot that is not empty.
WriteMatchSeats(slots) ==
    FlattenSeq([k \in DOMAIN slots |->
      IF slots[k].player # 0 THEN LittleEndian(slots[k].player, 4) ELSE <<>>])

\* write_match: the ids of those whose status says that they sit in a slot.
WriteSeats(slots) ==
    FlattenSeq([k \in DOMAIN slots |->
      IF HasPlayer(slots[k].status) THEN LittleEndian(slots[k].player, 4) ELSE <<>>])

\* "osu expects \x0b\x00 if there's a password, but it's not being sent, and \x00
\* if there's no password."
WritePassword(passwd, sent) == IF passwd # <<>> /\ ~sent THEN <<11, 0>> ELSE WriteString(passwd)

Of(slots, field) == [k \in DOMAIN slots |-> slots[k][field]]

WriteMatch(m, sendPassword) ==
    WriteFields(MatchHead, <<m.id, m.inProgress, 0, m.mods, m.name>>)
      \o WritePassword(m.passwd, sendPassword)
      \o WriteFields(MatchMap, <<m.mapName, m.mapId, m.mapMd5>>)
      \o Of(m.slots, "status") \o Of(m.slots, "team")
      \o WriteSeats(m.slots)
      \o LittleEndian(m.host, 4)
      \o WriteFields(MatchTail, <<m.mode, m.winCondition, m.teamType, m.freemods>>)
      \o (IF m.freemods = 1
          THEN FlattenSeq([k \in DOMAIN m.slots |-> LittleEndian(m.slots[k].mods, 4)]) ELSE <<>>)
      \o LittleEndian(m.seed, 4)

\* After the slots: the ids of those whose status says that they sit there, and the host
ReadSeats(slots, n) ==
    LET statuses == SubSeq(slots.value, 10, 9 + n)
    IN ReadOn(slots, Times(Len(Only(statuses, Occupied(statuses))) + 1, "i32"))

\* After the settings: with freemods the slots' mods, and the seed
ReadSlotMods(settings, n) ==
    LET mods == IF Last(settings.value) = 1 THEN n ELSE 0
    IN ReadOn(settings, Times(mods + 1, "i32"))

\* read_match, of a match with n slots (16): status and team of the slots, who sits in
\* them, the settings and the slots' mods.
ReadMatch(b, n) ==
    LET head == ReadFields(MatchHead, b)
        password == ReadOn(head, <<"string">>)
        map == ReadOn(password, MatchMap)
        slots == ReadOn(map, Times(2 * n, "i8"))
        seats == ReadSeats(slots, n)
        settings == ReadOn(seats, MatchTail)
    IN ReadSlotMods(settings, n)

\* A match with n slots, the numbers in the range that is read as it was written
IsMatch(m, n) ==
    /\ m.id \in 0..MaxI16 /\ m.inProgress \in 0..1
    /\ {m.mods, m.host, m.seed} \subseteq 0..MaxI32
    /\ m.passwd \in Seq(Byte) /\ m.name \in Seq(Byte)
    /\ Fitting(MatchMap, <<m.mapName, m.mapId, m.mapMd5>>)
    /\ m.slots \in Seq([status : 0..127, team : 0..127, player : 0..MaxI32, mods : 0..MaxI32])
    /\ Len(m.slots) = n
    /\ {m.mode, m.winCondition, m.teamType} \subseteq 0..127 /\ m.freemods \in 0..1

\* What either side is to find in a match, when the password is sent or not.
MatchAsRead(m, sendPassword) ==
    <<m.id, m.inProgress, 0, m.mods, m.name, IF sendPassword THEN m.passwd ELSE <<>>,
      m.mapName, m.mapId, m.mapMd5>>
      \o Of(m.slots, "status") \o Of(m.slots, "team")
      \o Only(Of(m.slots, "player"), Occupied(Of(m.slots, "status")))
      \o <<m.host, m.mode, m.winCondition, m.teamType, m.freemods>>
      \o (IF m.freemods = 1 THEN Of(m.slots, "mods") ELSE <<>>)
      \o <<m.seed>>

-----------------------------------------------------------------------------
(* Frames of a player that is watched *)

ReplayFrame == <<"u8", "u8", "f32", "f32", "i32">>
ScoreFrame == <<"i32", "u8", "u16", "u16", "u16", "u16", "u16", "u16", "i32", "u16", "u16",
                "u8", "u8", "u8", "u8">>   \* SCOREFRAME_FMT; the last: whether it is of score v2

Portions(v2) == IF v2 = 1 THEN <<"f64", "f64">> ELSE <<>>

\* As many frames as the number says that was read last
ReadFrames(extra) == ReadOn(extra, FlattenSeq(Times(extra.value[2], ReplayFrame)))

\* The last of the score says whether it has the portions of score v2.
ReadPortions(score) == ReadOn(score, Portions(Last(score.value)))

\* read_replayframe_bundle: the frames, what was done last, read_scoreframe, and the
\* number of the bundle.
ReadBundle(b) ==
    LET extra == ReadFields(<<"i32", "u16">>, b)
        frames == ReadFrames(extra)
        score == ReadOn(frames, <<"u8">> \o ScoreFrame)
        portions == ReadPortions(score)
    IN ReadOn(portions, <<"u16">>)

\* What the game sends of it, and what is to be found there.
WriteBundle(f) ==
    WriteFields(<<"i32", "u16">>, <<f.extra, Len(f.frames)>>)
      \o FlattenSeq([k \in DOMAIN f.frames |-> WriteFields(ReplayFrame, f.frames[k])])
      \o WriteFields(<<"u8">> \o ScoreFrame, <<f.action>> \o f.score)
      \o WriteFields(Portions(Last(f.score)), f.portions)
      \o WriteFields(<<"u16">>, <<f.sequence>>)

BundleAsRead(f) ==
    <<f.extra, Len(f.frames)>> \o FlattenSeq(f.frames) \o <<f.action>> \o f.score
      \o f.portions \o <<f.sequence>>

IsBundle(f) ==
    /\ Holds("i32", f.extra) /\ f.action \in 0..8 /\ Holds("u16", f.sequence)   \* ReplayAction
    /\ Len(f.frames) \in 0..MaxU16 /\ f.frames = [k \in 1..Len(f.frames) |-> f.frames[k]]
    /\ \A k \in DOMAIN f.frames : Fitting(ReplayFrame, f.frames[k])
    /\ Fitting(ScoreFrame, f.score) /\ Last(f.score) \in 0..1
    /\ Fitting(Portions(Last(f.score)), f.portions)

-----------------------------------------------------------------------------
(* What the server writes: the fields of its packets by their ids *)

SessionPackets ==
    (5 :> <<"i32">>)            \* login_reply
      @@ (7 :> Message)         \* send_message
      @@ (8 :> <<>>)            \* pong
      @@ (9 :> <<"string">>)    \* change_username

SpectatorPackets ==
    (12 :> <<"i32", "u8">>)                     \* logout
      @@ (13 :> <<"i32">>) @@ (14 :> <<"i32">>) \* spectator_joined, spectator_left
      @@ (15 :> <<"raw">>)      \* spectate_frames
      @@ (19 :> <<>>)           \* version_update
      @@ (22 :> <<"i32">>)      \* spectator_cant_spectate
      @@ (23 :> <<>>)           \* get_attention
      @@ (24 :> <<"string">>)   \* notification

MatchPackets ==
    (26 :> <<"match">>) @@ (27 :> <<"match">>)  \* update_match, new_match
      @@ (28 :> <<"i32">>)      \* dispose_match
      @@ (34 :> <<>>)           \* toggle_block_non_friend_dm
      @@ (36 :> <<"match">>) @@ (37 :> <<>>)    \* match_join_success, match_join_fail
      @@ (42 :> <<"i32">>) @@ (43 :> <<"i32">>) \* fellow_spectator_joined, _left
      @@ (46 :> <<"match">>)    \* match_start
      @@ (48 :> ScoreFrame)     \* match_score_update
      @@ (50 :> <<>>) @@ (53 :> <<>>)           \* transfer_host, all_players_loaded
      @@ (57 :> <<"i32">>)      \* match_player_failed
      @@ (58 :> <<>>) @@ (61 :> <<>>)           \* match_complete, match_skip

ChannelPackets ==
    (64 :> <<"string">>) @@ (66 :> <<"string">>)    \* channel_join, channel_kick
      @@ (65 :> Channel) @@ (67 :> Channel)     \* channel_info, channel_auto_join
      @@ (71 :> <<"i32">>)      \* bancho_privileges
      @@ (72 :> <<"i32 list">>) \* friends_list

MenuPackets ==
    (75 :> <<"i32">>)           \* protocol_version
      @@ (76 :> <<"string">>)   \* main_menu_icon
      @@ (80 :> <<>>)           \* monitor
      @@ (81 :> <<"i32">>)      \* match_player_skipped

NoticePackets ==
    (86 :> <<"i32">>)           \* restart_server
      @@ (88 :> Message)        \* match_invite
      @@ (89 :> <<>>)           \* channel_info_end
      @@ (91 :> <<"string">>)   \* match_change_password
      @@ (92 :> <<"i32">>) @@ (94 :> <<"i32">>) \* silence_end, user_silenced
      @@ (95 :> <<"i32">>) @@ (96 :> <<"i32 list">>)    \* user_presence_single, _bundle
      @@ (100 :> Message) @@ (101 :> Message)   \* user_dm_blocked, target_silenced
      @@ (102 :> <<>>)          \* version_update_forced
      @@ (103 :> <<"i32">>)     \* switch_server
      @@ (104 :> <<>>)          \* account_restricted
      @@ (105 :> <<"string">>)  \* rtx
      @@ (106 :> <<>>)          \* match_abort
      @@ (107 :> <<"string">>)  \* switch_tournament_server

UserStats == <<"i32", "u8", "string", "string", "i32", "u8", "i32", "i64", "f32", "i32", "i64",
               "i32", "u16">>
UserPresence == <<"i32", "string", "u8", "u8", "u8", "f32", "f32", "i32">>

ServerPackets ==
    SessionPackets @@ SpectatorPackets @@ MatchPackets @@ ChannelPackets @@ MenuPackets
      @@ NoticePackets @@ (11 :> UserStats) @@ (83 :> UserPresence)

\* write: the id, a byte that is not used, the size and the fields
Packet(id, body) == LittleEndian(id, 2) \o <<0>> \o LittleEndian(Len(body), 4) \o body

PacketBody(id, values) ==
    IF ServerPackets[id] = <<"match">> THEN WriteMatch(values[1], values[2])
    ELSE WriteFields(ServerPackets[id], values)

WritePacket(id, values) == Packet(id, PacketBody(id, values))

\* user_stats: performance points that two bytes do not hold are shown as the score.
StatsValues(id, status, stats) ==
    LET over == stats.pp > 65535 IN
    <<id, status.action, status.info, status.md5, status.mods, status.mode % 4, status.map,
      IF over THEN stats.pp ELSE stats.rscore, stats.acc, stats.plays, stats.tscore, stats.rank,
      IF over THEN 0 ELSE stats.pp>>

\* user_presence: the offset from UTC is moved to be positive; privileges and mode
\* share a byte.
PresenceValues(id, name, offset, country, privileges, mode, place, rank) ==
    <<id, name, offset + 24, country, privileges + 32 * (mode % 4), place[1], place[2], rank>>
=============================================================================
