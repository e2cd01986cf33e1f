-------------------------------- MODULE Wire --------------------------------
(***************************************************************************)
(* The frames of the WebSocket (protocol.rs): what a reader makes of a     *)
(* frame that a peer of this or of another version laid out.               *)
(*                                                                         *)
(* A frame is a sequence of bytes.  A byte below 256 is itself; the i-th   *)
(* byte of an opaque value v is 256 * v + i, so that a reader that is off  *)
(* by one reads no value at all.  The body of a JSON message is one        *)
(* element of the frame, a function of the keys that were written.         *)
(* Booleans are 0 and 1, an optional value is a sequence of at most one.   *)
(***************************************************************************)
EXTENDS Integers, Sequences, SequencesExt

CONSTANTS
    HeaderSizes,        \* lengths of the JSON header of a TerrainTiles frame
    TileCounts,         \* how many tiles such a frame names
    TileSizes,          \* samples per edge
    MaxFrame,           \* MAX_FRAME_BYTES
    ConfigureBuilds     \* the builds that a page asks for

ASSUME SizesAssumption ==
    /\ HeaderSizes \subseteq 1..255
    /\ TileCounts \subseteq 0..255
    /\ TileSizes \subseteq Nat
    /\ MaxFrame \in Nat

VARIABLES
    sent,               \* the message
    frame,              \* its bytes, as a peer of some version laid them out
    got                 \* what the reader made of them: nothing yet, or a result

vars == <<sent, frame, got>>

------------------------------------------------------------------------------
(* Bytes.                                                                  *)

Garbled == 0

\* f32::NAN
NaN == 250

Option(v) == {<<>>, <<v>>}

Le(v, n) == [i \in 1..n |-> 256 * v + i]

FromLe(s) == LET v == s[1] \div 256 IN IF s = Le(v, Len(s)) THEN v ELSE Garbled

\* n bytes at an offset, which counts from zero.
At(d, at, n) == FromLe(SubSeq(d, at + 1, at + n))

Floats(vs) == FlattenSeq([i \in DOMAIN vs |-> Le(vs[i], 4)])

FloatsAt(d, at, n) == [i \in 1..n |-> At(d, at + 4 * (i - 1), 4)]

\* A string of the model is empty or of two bytes, none of them a terminator.
Texts == {<<>>, Le(7, 2)}

\* The string at an offset, up to its terminator or to the end of the frame.
TextAt(d, at) ==
    LET rest == SubSeq(d, at + 1, Len(d)) IN
    IF Contains(rest, 0)
    THEN SubSeq(rest, 1, SelectInSeq(rest, LAMBDA b : b = 0) - 1)
    ELSE rest

Failed(reason) == [refused |-> reason]

TooShort == Failed("MessageTooShort")

UnknownType == Failed("UnknownMessageType")

Invalid == Failed("InvalidPayload")

\* A slice that begins past the end of the frame.
Panicked == [panicked |-> "out of range"]

Tag == [StateUpdate |-> 1, HandshakeAck |-> 2, CommandAck |-> 3, NshResponse |-> 4,
        ConnectionStatus |-> 5, VehicleMessage |-> 6, Shutdown |-> 7,
        ConfigResult |-> 8, TerrainOrigin |-> 9, PreflightStatus |-> 10,
        PreflightApplyResult |-> 11, SnapshotCaptured |-> 12, RestoreResult |-> 13,
        Capabilities |-> 14, TerrainNeed |-> 15, Command |-> 16, Handshake |-> 17,
        NshCommand |-> 18, ConfigureBuild |-> 19, RequestPreflightCheck |-> 20,
        ApplyPreflightParams |-> 21, SnapshotStored |-> 22, RestoreSnapshot |-> 23,
        TerrainTiles |-> 24, ResetResult |-> 25]

------------------------------------------------------------------------------
(* The state frame, which grew three times.                                *)

StateUpdates ==
    [kind : {"StateUpdate"}, timestamp_us : {11}, position_ned : {<<12, 13, 14>>},
     velocity_ned : {<<15, 16, 17>>}, quaternion_wxyz : {<<18, 19, 20, 21>>},
     angular_velocity : {<<22, 23, 24>>}, motor_rpms : {<<25, 26, 27, 28>>},
     battery_voltage : {29}, battery_percent : {100}, armed : {0, 1},
     flight_mode : {3}, packets_per_sec : {30}, landed_state : {0, 1},
     battery_terminal_voltage : Option(31), battery_current_a : Option(32),
     board_stall : {<<>>, <<0>>, <<1>>}]

MinSize == 86
LegacySize == 87
LoadSize == 95
StallSize == 96

OrNaN(v) == IF v = <<>> THEN NaN ELSE v[1]

LegacyBytes(m) ==
    <<Tag.StateUpdate>> \o Le(m.timestamp_us, 8) \o Floats(m.position_ned)
    \o Floats(m.velocity_ned) \o Floats(m.quaternion_wxyz)
    \o Floats(m.angular_velocity) \o Floats(m.motor_rpms) \o Le(m.battery_voltage, 4)
    \o <<m.battery_percent, m.armed, m.flight_mode>> \o Le(m.packets_per_sec, 2)
    \o <<m.landed_state>>

StateUpdateBytes(m) ==
    LegacyBytes(m) \o
    IF m.board_stall # <<>>
    THEN Floats(<<OrNaN(m.battery_terminal_voltage), OrNaN(m.battery_current_a)>>)
         \o m.board_stall
    ELSE IF m.battery_terminal_voltage # <<>> /\ m.battery_current_a # <<>>
    THEN Floats(m.battery_terminal_voltage \o m.battery_current_a)
    ELSE <<>>

\* The fields after packets_per_sec are read by the length of the frame.
StateUpdateOf(d, load, stall) ==
    [kind |-> "StateUpdate", timestamp_us |-> At(d, 1, 8),
     position_ned |-> FloatsAt(d, 9, 3), velocity_ned |-> FloatsAt(d, 21, 3),
     quaternion_wxyz |-> FloatsAt(d, 33, 4), angular_velocity |-> FloatsAt(d, 49, 3),
     motor_rpms |-> FloatsAt(d, 61, 4), battery_voltage |-> At(d, 77, 4),
     battery_percent |-> d[82], armed |-> d[83], flight_mode |-> d[84],
     packets_per_sec |-> At(d, 84, 2),
     landed_state |-> IF Len(d) > MinSize THEN d[87] ELSE 0,
     battery_terminal_voltage |-> IF load THEN <<At(d, 87, 4)>> ELSE <<>>,
     battery_current_a |-> IF load THEN <<At(d, 91, 4)>> ELSE <<>>,
     board_stall |-> stall]

\* Mutant of StateUpdateFrom: a frame without the flag says "no stall".
StateUpdateFromZero(d) ==
    IF Len(d) < MinSize THEN TooShort
    ELSE IF d[1] # Tag.StateUpdate THEN UnknownType
    ELSE StateUpdateOf(d, Len(d) >= LoadSize,
                       IF Len(d) >= StallSize THEN <<d[96]>> ELSE <<0>>)

StateUpdateFrom(d) ==
    IF Len(d) < MinSize THEN TooShort
    ELSE IF d[1] # Tag.StateUpdate THEN UnknownType
    ELSE StateUpdateOf(d, Len(d) >= LoadSize,
                       IF Len(d) >= StallSize THEN <<d[96]>> ELSE <<>>)

------------------------------------------------------------------------------
(* Frames of fixed fields and strings, from the daemon.                    *)

HandshakeAcks ==
    [kind : {"HandshakeAck"}, version : {<<1, 2, 3>>}, pixhawk_connected : {0, 1},
     serial_port : Texts]

HandshakeAckBytes(m) ==
    <<Tag.HandshakeAck>> \o m.version \o <<m.pixhawk_connected>> \o m.serial_port \o <<0>>

ConnectionStatuses ==
    [kind : {"ConnectionStatus"}, connected : {0, 1}, reconnecting : {0, 1},
     retry_count : {4}, serial_port : Texts, fc_model : {<<>>, Le(8, 2)},
     bootloader_suspected : {0, 1}]

ConnectionStatusBytes(m) ==
    <<Tag.ConnectionStatus, m.connected, m.reconnecting, m.retry_count>>
    \o m.serial_port \o <<0>> \o m.fc_model \o <<0>> \o <<m.bootloader_suspected>>

VehicleMessages ==
    [kind : {"VehicleMessage"}, severity : 0..7, timestamp_ms : {33}, text : Texts]

VehicleMessageBytes(m) ==
    <<Tag.VehicleMessage, m.severity>> \o Le(m.timestamp_ms, 4) \o m.text \o <<0>>

NshResponses ==
    [kind : {"NshResponse"}, request_id : {34}, success : {0, 1}, complete : {0, 1},
     output : Texts]

NshResponseBytes(m) ==
    <<Tag.NshResponse>> \o Le(m.request_id, 4) \o <<m.success, m.complete>>
    \o m.output \o <<0>>

CommandAcks ==
    [kind : {"CommandAck"}, command_id : {35}, success : {0}, error : Texts]
    \cup [kind : {"CommandAck"}, command_id : {35}, success : {1}, error : {<<>>}]

CommandAckBytes(m) ==
    <<Tag.CommandAck>> \o Le(m.command_id, 4) \o <<m.success>>
    \o IF m.success = 1 THEN <<>> ELSE m.error \o <<0>>

TerrainOrigins ==
    [kind : {"TerrainOrigin"}, ref_lat : {36}, ref_lon : {37}, ref_alt : {38},
     source : 0..2]

TerrainOriginBytes(m) ==
    <<Tag.TerrainOrigin>> \o Le(m.ref_lat, 8) \o Le(m.ref_lon, 8) \o Le(m.ref_alt, 4)
    \o <<m.source>>

\* The page's reader of these frames: the layout that the types document.
BrowserRead(d) ==
    CASE d[1] = Tag.HandshakeAck ->
            [kind |-> "HandshakeAck", version |-> SubSeq(d, 2, 4),
             pixhawk_connected |-> d[5], serial_port |-> TextAt(d, 5)]
      [] d[1] = Tag.ConnectionStatus ->
            LET port == TextAt(d, 4)
                model == TextAt(d, 5 + Len(port)) IN
            [kind |-> "ConnectionStatus", connected |-> d[2], reconnecting |-> d[3],
             retry_count |-> d[4], serial_port |-> port, fc_model |-> model,
             bootloader_suspected |-> d[7 + Len(port) + Len(model)]]
      [] d[1] = Tag.VehicleMessage ->
            [kind |-> "VehicleMessage", severity |-> d[2], timestamp_ms |-> At(d, 2, 4),
             text |-> TextAt(d, 6)]
      [] d[1] = Tag.NshResponse ->
            [kind |-> "NshResponse", request_id |-> At(d, 1, 4), success |-> d[6],
             complete |-> d[7], output |-> TextAt(d, 7)]
      [] d[1] = Tag.CommandAck ->
            [kind |-> "CommandAck", command_id |-> At(d, 1, 4), success |-> d[6],
             error |-> IF d[6] = 1 THEN <<>> ELSE TextAt(d, 6)]
      [] d[1] = Tag.TerrainOrigin ->
            [kind |-> "TerrainOrigin", ref_lat |-> At(d, 1, 8), ref_lon |-> At(d, 9, 8),
             ref_alt |-> At(d, 17, 4), source |-> d[22]]

------------------------------------------------------------------------------
(* Binary requests of the page.                                            *)

CommandType == [Arm |-> 0, Disarm |-> 1, Takeoff |-> 2, Land |-> 3, Rtl |-> 4,
                SetMode |-> 5, EmergencyStop |-> 6, Recharge |-> 7, ResetVehicle |-> 8]

Commands ==
    {[kind |-> "Command", command_id |-> 41, command_type |-> t,
      takeoff_altitude |-> alt, set_mode_value |-> mode] :
        t \in DOMAIN CommandType, alt \in Option(42), mode \in Option(5)}

\* What a command says: the payloads of the other types are not written.
Meant(m) ==
    [m EXCEPT !.takeoff_altitude = IF m.command_type = "Takeoff" THEN @ ELSE <<>>,
              !.set_mode_value = IF m.command_type = "SetMode" THEN @ ELSE <<>>]

CommandBytes(m) ==
    <<Tag.Command>> \o Le(m.command_id, 4) \o <<CommandType[m.command_type]>>
    \o Floats(Meant(m).takeoff_altitude) \o Meant(m).set_mode_value

CommandFrom(d) ==
    IF Len(d) < 6 THEN TooShort
    ELSE IF d[1] # Tag.Command THEN UnknownType
    ELSE IF \A t \in DOMAIN CommandType : CommandType[t] # d[6]
    THEN Failed("InvalidCommandType")
    ELSE LET type == CHOOSE t \in DOMAIN CommandType : CommandType[t] = d[6] IN
         IF \/ type = "Takeoff" /\ Len(d) < 10
            \/ type = "SetMode" /\ Len(d) < 7
         THEN Invalid
         ELSE [kind |-> "Command", command_id |-> At(d, 1, 4), command_type |-> type,
               takeoff_altitude |-> IF type = "Takeoff" THEN <<At(d, 6, 4)>> ELSE <<>>,
               set_mode_value |-> IF type = "SetMode" THEN <<d[7]>> ELSE <<>>]

NshCommands ==
    [kind : {"NshCommand"}, request_id : {43}, timeout_ms : {44}, command : Texts]

NshCommandBytes(m) ==
    <<Tag.NshCommand>> \o Le(m.request_id, 4) \o Le(m.timeout_ms, 2) \o m.command \o <<0>>

NshCommandFrom(d) ==
    IF Len(d) < 8 THEN TooShort
    ELSE IF d[1] # Tag.NshCommand THEN UnknownType
    ELSE [kind |-> "NshCommand", request_id |-> At(d, 1, 4), timeout_ms |-> At(d, 5, 2),
          command |-> TextAt(d, 7)]

------------------------------------------------------------------------------
(* JSON messages: a value that is absent is a key that is not written.     *)

ConfigResults ==
    [kind : {"ConfigResult"}, state : {"configuring"}, success : {1}, error : {<<>>},
     config : Option("applied"), stage : Option("pushing_params"), px4_health : {<<>>}]
    \cup [kind : {"ConfigResult"}, state : {"ready"}, success : {1}, error : {<<>>},
          config : {<<"applied">>}, stage : {<<>>},
          px4_health : {<<"healthy">>, <<"unknown">>, <<"not_applicable">>}]
    \cup [kind : {"ConfigResult"}, state : {"error"}, success : {0}, error : {<<"e">>},
          config : {<<>>}, stage : {<<>>}, px4_health : {<<>>}]

ResetResults ==
    [kind : {"ResetResult"}, state : {"resetting"}, stage : {<<"restarting_ekf">>},
     error : {<<>>}, px4_health : {<<>>}]
    \cup [kind : {"ResetResult"}, state : {"ready"}, stage : {<<>>}, error : {<<>>},
          px4_health : {<<"healthy">>, <<"unknown">>, <<"not_applicable">>}]
    \cup [kind : {"ResetResult"}, state : {"error"}, stage : {<<>>}, error : {<<"e">>},
          px4_health : {<<>>}]

PreflightStatuses ==
    [kind : {"PreflightStatus"}, connected : {0, 1}, hitl_enabled : {0, 1},
     is_quadrotor : {0, 1}, readiness : {"unknown", "ready", "not_ready"},
     board_identity : Option("board")]

PreflightApplyResults ==
    [kind : {"PreflightApplyResult"},
     state : {"capturing", "applying", "rebooting", "verifying", "done", "error"},
     success : {0, 1}, error : Option("e")]

SnapshotsCaptured ==
    [kind : {"SnapshotCaptured"}, board_identity : {"board"},
     params : {<<>>, <<[name |-> "MAV_TYPE", value |-> 2, param_type |-> "int32"]>>}]

\* Only a list that is empty is left out.
RestoreResults ==
    [kind : {"RestoreResult"}, state : {"writing", "verifying", "done", "error"},
     success : {0, 1}, error : Option("e"),
     mismatches : {<<>>, <<[name |-> "MAV_TYPE", expected |-> 2, actual |-> 1]>>}]

DaemonCapabilities ==
    [kind : {"Capabilities"}, protocol_revision : {2},
     features : {<<"param_snapshot", "param_restore", "board_identity",
                   "heartbeat_probe", "provisioning_broadcast", "link_state">>}]

TerrainNeeds ==
    [kind : {"TerrainNeed"}, coords : {<<>>, <<<<1, 2, 3>>>>}]

SnapshotsStored ==
    [kind : {"SnapshotStored"}, board_identity : {"board"}, stored : {0, 1},
     error : Option("quota")]

RestoreSnapshots ==
    [kind : {"RestoreSnapshot"}, board_identity : {"board"}, params : {<<>>, <<"param">>}]

\* FlightLocation, by whether it is a place on Earth.
Locations == {"valid", "invalid"}

\* The profile is the set of noise values that the page sends.
ConfigureFields ==
    [kind : {"ConfigureBuild"}, motor_slug : {"motor"}, prop_slug : Option("prop"),
     frame_slug : Option("frame"), esc_slug : Option("esc"), fc_slug : Option("fc"),
     battery_slug : Option("battery"), gps_slug : Option("gps"),
     battery_capacity_mah : Seq(Nat), esc_count : {<<>>, <<1>>, <<4>>},
     flight_location : {<<>>} \cup {<<l>> : l \in Locations},
     profile : SUBSET {"gyro", "accel", "baro", "mag", "h", "alt", "vel"},
     sensor_match_type : {<<>>, <<"exact">>, <<"mcu_family">>, <<"average">>, <<"junk">>}]

ASSUME BuildsAssumption == ConfigureBuilds \subseteq ConfigureFields

\* skip_serializing_if, or a default of serde: the key may be missing.
MayBeAbsent(kind) ==
    CASE kind = "ConfigureBuild" -> DOMAIN (CHOOSE m \in ConfigureBuilds : TRUE)
                                    \ {"kind", "motor_slug", "profile"}
      [] kind = "PreflightStatus" -> {"board_identity"}
      [] OTHER -> {"error", "config", "stage", "px4_health", "mismatches"}

\* default_battery_capacity_mah and its like; a location that is missing is
\* FlightLocation::DEFAULT, once the build is resolved.
DefaultOf(key) ==
    CASE key = "battery_capacity_mah" -> <<1500>>
      [] key = "esc_count" -> <<1>>
      [] OTHER -> <<>>

JsonBytes(m) ==
    <<Tag[m.kind],
      [key \in {k \in DOMAIN m : k \in MayBeAbsent(m.kind) => m[k] # <<>>} |-> m[key]]>>

JsonFrom(d, keys) ==
    IF Len(d) < 2 THEN TooShort
    ELSE IF ~(keys \ MayBeAbsent(d[2].kind) \subseteq DOMAIN d[2]) THEN Invalid
    ELSE [key \in keys |-> IF key \in DOMAIN d[2] THEN d[2][key] ELSE DefaultOf(key)]

ConfigureBuildFrom(d) == JsonFrom(d, DOMAIN (CHOOSE m \in ConfigureBuilds : TRUE))

SnapshotStoredFrom(d) == JsonFrom(d, {"kind", "board_identity", "stored", "error"})

RestoreSnapshotFrom(d) == JsonFrom(d, {"kind", "board_identity", "params"})

------------------------------------------------------------------------------
(* Elevation tiles: a header of some length, then the samples.             *)

Samples(count, size) ==
    [t \in 1..count |-> [i \in 1..size * size |-> 50 + 10 * t + i]]

\* A page says how large its tiles are; it may be wrong about it, and about
\* how many flags it sends.
TileFrames ==
    {[kind |-> "TerrainTiles", header_len |-> h, coords |-> n, approximate |-> flags,
      tile_size |-> said, tiles |-> Samples(n, size)] :
        h \in HeaderSizes, n \in TileCounts, flags \in {0, 1, 2},
        said \in TileSizes \cup {0}, size \in TileSizes}

Pad(headerEnd) == (4 - (headerEnd % 4)) % 4

HeaderBytes(m) == <<Tag.TerrainTiles, m.header_len, 0, 0, 0>> \o Le(40, m.header_len)

TileBytes(m) == FlattenSeq([t \in DOMAIN m.tiles |-> Floats(m.tiles[t])])

TerrainTilesBytes(m) == HeaderBytes(m) \o TileBytes(m)

\* The page aligns the samples, once every daemon takes them so.
Filler(n) == [i \in 1..n |-> 0]

PaddedTilesBytes(m) ==
    HeaderBytes(m) \o Filler(Pad(5 + m.header_len)) \o TileBytes(m)

\* A page that errs: its filler has another length, or bytes follow the samples.
StrayTilesBytes(m, filler, tail) ==
    ((HeaderBytes(m) \o Filler(filler)) \o TileBytes(m)) \o Filler(tail)

\* saturating_sub: what is left of a frame, or nothing.
Left(d, at) == IF Len(d) > at THEN Len(d) - at ELSE 0

\* Mutant of BodyStart: the tag and the length are not counted.
BodyStartOfHeader(d, headerEnd, expected) ==
    IF Left(d, headerEnd) = expected THEN headerEnd
    ELSE IF Left(d, headerEnd + Pad(headerEnd - 5)) = expected
    THEN headerEnd + Pad(headerEnd - 5)
    ELSE -1

\* Where the samples begin, or -1: by the length that is left alone.
BodyStart(d, headerEnd, expected) ==
    IF Left(d, headerEnd) = expected THEN headerEnd
    ELSE IF Left(d, headerEnd + Pad(headerEnd)) = expected
    THEN headerEnd + Pad(headerEnd)
    ELSE -1

TilesAt(d, start, n, size) ==
    [t \in 1..n |-> FloatsAt(d, start + 4 * size * size * (t - 1), size * size)]

\* The header is parsed as one value: it stands for what the sender put there.
TerrainTilesFrom(d, header) ==
    LET headerEnd == 5 + d[2]
        size == header.tile_size
        n == header.coords
        start == BodyStart(d, headerEnd, n * 4 * size * size) IN
    IF Len(d) > MaxFrame THEN Invalid
    ELSE IF Len(d) < headerEnd THEN TooShort
    ELSE IF \/ At(d, 5, d[2]) = Garbled
            \/ size = 0
            \/ header.approximate # 0 /\ header.approximate # n
            \/ start < 0
    THEN Invalid
    ELSE IF start > Len(d) THEN Panicked
    ELSE [header EXCEPT !.tiles = TilesAt(d, start, n, size)]

------------------------------------------------------------------------------
(* Who sends and reads what.                                               *)

Json == ConfigResults \cup ResetResults \cup PreflightStatuses
        \cup PreflightApplyResults \cup SnapshotsCaptured \cup RestoreResults
        \cup DaemonCapabilities \cup TerrainNeeds

Outgoing == StateUpdates \cup HandshakeAcks \cup ConnectionStatuses \cup VehicleMessages
            \cup NshResponses \cup CommandAcks \cup TerrainOrigins \cup Json

Bare == {[kind |-> k] :
            k \in {"Handshake", "Shutdown", "RequestPreflightCheck",
                   "ApplyPreflightParams"}}

Incoming == Commands \cup NshCommands \cup TileFrames \cup ConfigureBuilds
            \cup SnapshotsStored \cup RestoreSnapshots \cup Bare

OutgoingBytes(m) ==
    CASE m.kind = "StateUpdate" -> StateUpdateBytes(m)
      [] m.kind = "HandshakeAck" -> HandshakeAckBytes(m)
      [] m.kind = "CommandAck" -> CommandAckBytes(m)
      [] m.kind = "NshResponse" -> NshResponseBytes(m)
      [] m.kind = "ConnectionStatus" -> ConnectionStatusBytes(m)
      [] m.kind = "VehicleMessage" -> VehicleMessageBytes(m)
      [] m.kind = "TerrainOrigin" -> TerrainOriginBytes(m)
      [] OTHER -> JsonBytes(m)

PageBytes(m) ==
    CASE m.kind = "Command" -> CommandBytes(m)
      [] m.kind = "NshCommand" -> NshCommandBytes(m)
      [] m.kind = "TerrainTiles" -> TerrainTilesBytes(m)
      [] m.kind \in {"ConfigureBuild", "SnapshotStored", "RestoreSnapshot"} -> JsonBytes(m)
      [] OTHER -> <<Tag[m.kind]>>

\* A message as a peer of this version lays it out.
ThisVersion(m) == IF m \in Outgoing THEN OutgoingBytes(m) ELSE PageBytes(m)

IncomingFrom(d, header) ==
    CASE d = <<>> -> TooShort
      [] d[1] = Tag.Command -> CommandFrom(d)
      [] d[1] = Tag.NshCommand -> NshCommandFrom(d)
      [] d[1] = Tag.TerrainTiles -> TerrainTilesFrom(d, header)
      [] d[1] = Tag.ConfigureBuild -> ConfigureBuildFrom(d)
      [] d[1] = Tag.SnapshotStored -> SnapshotStoredFrom(d)
      [] d[1] = Tag.RestoreSnapshot -> RestoreSnapshotFrom(d)
      [] OTHER -> IF \E m \in Bare : Tag[m.kind] = d[1]
                  THEN CHOOSE m \in Bare : Tag[m.kind] = d[1]
                  ELSE UnknownType

\* A message that says what its type requires.
Complete(m) ==
    CASE m.kind = "TerrainTiles" ->
            /\ m.tile_size # 0
            /\ m.approximate \in {0, m.coords}
            /\ \A t \in DOMAIN m.tiles : Len(m.tiles[t]) = m.tile_size * m.tile_size
            /\ Len(PaddedTilesBytes(m)) <= MaxFrame
      [] m.kind = "Command" ->
            /\ m.command_type = "Takeoff" => m.takeoff_altitude # <<>>
            /\ m.command_type = "SetMode" => m.set_mode_value # <<>>
      [] OTHER -> TRUE

Reader ==
    IF sent \in Incoming THEN IncomingFrom(frame, sent)
    ELSE IF sent.kind = "StateUpdate" THEN StateUpdateFrom(frame)
    ELSE IF sent \in Json THEN JsonFrom(frame, DOMAIN sent)
    ELSE BrowserRead(frame)

------------------------------------------------------------------------------
Init ==
    /\ sent \in Outgoing \cup Incoming
    /\ frame = <<>>
    /\ got = <<>>

\* The daemon of this version writes, or a page of this version.
Write ==
    /\ frame = <<>>
    /\ frame' = ThisVersion(sent)
    /\ UNCHANGED <<sent, got>>

\* A page that aligns its samples.
WritePadded ==
    /\ frame = <<>>
    /\ sent.kind = "TerrainTiles"
    /\ frame' = PaddedTilesBytes(sent)
    /\ UNCHANGED <<sent, got>>

\* A page that puts a few bytes where none belong, fewer than a sample has.
WriteStray(filler, tail) ==
    /\ frame = <<>>
    /\ sent.kind = "TerrainTiles"
    /\ filler + tail \in 1..3
    /\ frame' = StrayTilesBytes(sent, filler, tail)
    /\ UNCHANGED <<sent, got>>

\* A daemon that is older than the last fields of a frame does not write them.
WriteOld(n) ==
    /\ frame = <<>>
    /\ sent.kind = "StateUpdate"
    /\ n < Len(OutgoingBytes(sent))
    /\ frame' = SubSeq(OutgoingBytes(sent), 1, n)
    /\ UNCHANGED <<sent, got>>

\* A peer that is newer appends a byte that this version knows nothing of.
WriteNew ==
    /\ frame = <<>>
    /\ sent.kind \in {"StateUpdate", "Command", "NshCommand", "ConnectionStatus"}
    /\ Complete(sent)
    /\ sent.kind = "StateUpdate" => sent.board_stall # <<>>
    /\ frame' = Append(ThisVersion(sent), 77)
    /\ UNCHANGED <<sent, got>>

\* A page that does not terminate its command.
WriteUnterminated ==
    /\ frame = <<>>
    /\ sent.kind = "NshCommand"
    /\ frame' = Front(PageBytes(sent))
    /\ UNCHANGED <<sent, got>>

Read ==
    /\ frame # <<>>
    /\ got = <<>>
    /\ got' = <<Reader>>
    /\ UNCHANGED <<sent, frame>>

Next ==
    \/ Write
    \/ WritePadded
    \/ \E filler, tail \in 0..3 : WriteStray(filler, tail)
    \/ \E n \in {MinSize - 1, MinSize, LegacySize, LoadSize} : WriteOld(n)
    \/ WriteNew
    \/ WriteUnterminated
    \/ Read

Spec == Init /\ [][Next]_vars

------------------------------------------------------------------------------
(* Properties.                                                             *)

Accepted == got # <<>> /\ DOMAIN got[1] \cap {"refused", "panicked"} = {}

\* Tiles that are laid out in one of the two ways that the reader knows.
Placed == frame \in {TerrainTilesBytes(sent), PaddedTilesBytes(sent)}

\* Tiles that are laid out in neither, and are as long as if they were padded.
Shifted ==
    /\ sent.kind = "TerrainTiles"
    /\ ~Placed
    /\ Len(frame) = Len(PaddedTilesBytes(sent))

\* What a reader may say of a field that it was not told.
Unknown(field) ==
    CASE field = "landed_state" -> {0}
      [] field \in {"battery_terminal_voltage", "battery_current_a"} -> {<<>>, <<NaN>>}
      [] field = "board_stall" -> {<<>>}
      [] sent.kind = "ConfigureBuild" /\ sent[field] = <<>> -> {DefaultOf(field)}
      [] OTHER -> {}

Said(m) == IF m.kind = "Command" THEN Meant(m) ELSE m

\* "Absent on daemons that predate the field: unknown, not 0": whatever the
\* version of the peer, a field that a reader takes from a frame is the one that
\* was sent or is openly unknown, and a request is never taken for another one,
\* but for tiles with as many stray bytes as their filler would have.
NothingInvented ==
    (Accepted /\ ~Shifted) =>
        /\ DOMAIN got[1] = DOMAIN sent
        /\ \A field \in DOMAIN sent :
                got[1][field] = Said(sent)[field] \/ got[1][field] \in Unknown(field)

\* Both placements of the samples are accepted, and no other that can be told
\* apart by its length: complete tiles are read as sent, sample by sample, other
\* bytes are refused unless they are as many as the filler, and the reader goes
\* past the end only where there are no tiles (TerrainTiles::from_bytes).
TilesPlacedOnce ==
    (got # <<>> /\ sent.kind = "TerrainTiles") =>
        /\ (Placed /\ Complete(sent)) => got[1] = sent
        /\ Accepted => (Placed /\ got[1] = sent) \/ Shifted
        /\ got[1] = Panicked => ~Placed /\ sent.coords = 0

==============================================================================
