------------------------------ MODULE Recorder ------------------------------
(***************************************************************************)
(* The way of a frame through run_live() (src/src/modes/run_live.cpp): it  *)
(* is decoded with the DBC of its interface, becomes the current frame of  *)
(* its id, feeds the Lua model, is turned into a protobuf message and      *)
(* written to the log that is open (src/src/logger/McapLogger.cpp); and    *)
(* what src/src/logger/McapReader.cpp makes of the file afterwards.        *)
(*                                                                         *)
(* Names, ids and payloads are model values.  What dbcppp decodes from a   *)
(* payload is one value per payload, and what is written on the wire is    *)
(* the value of each field number with its wire type.  Frames come one by  *)
(* one on the asio thread, and the log is opened and closed between them:  *)
(* LogControl.tla is about when.                                           *)
(***************************************************************************)
EXTENDS Integers, Sequences, SequencesExt, Functions, Filters

CONSTANTS
  Interfaces,  \* the configured interfaces
  Ids,         \* the CAN ids that are received
  Payloads,    \* the payloads: whether one is long enough, and its multiplexer
  Bus,         \* the frames that may be received
  Dbc,         \* by interface with a DBC, the messages by id
  Safe,        \* sanitize() on the names of messages and signals
  MaxFrames,   \* bound: frames received
  MaxLogs      \* bound: logs opened

Always == "always"  \* a signal that is in every frame of its message

ASSUME DbcAssumption ==
  /\ DOMAIN Dbc \subseteq Interfaces
  /\ \A i \in DOMAIN Dbc : DOMAIN Dbc[i] \subseteq Ids
  /\ \A i \in DOMAIN Dbc : \A id \in DOMAIN Dbc[i] :
       /\ Dbc[i][id].name \in DOMAIN Safe
       /\ \A n \in DOMAIN Dbc[i][id].signals : Dbc[i][id].signals[n].name \in DOMAIN Safe
\* What sanitize() returns begins with no digit, as "0x100" does.
ASSUME SafeAssumption == \A x \in DOMAIN Safe : Safe[x] \notin Ids
ASSUME BoundsAssumption == MaxFrames \in Nat /\ MaxLogs \in Nat

Frames == [interface : Interfaces, id : Ids, payload : Payloads]

ASSUME BusAssumption == Bus \subseteq Frames

VARIABLES
  shown,   \* the frames of each DataFrameSet
  store,   \* values_ of the SignalStore
  logging, \* a log is open: it is the last of files
  last_ts, \* the keys of last_ts_
  files,   \* every log: schemas, channels, messages, and the maps of its writer
  heard    \* every frame, with the log it was written to, or 0 (history)

vars == <<shown, store, logging, last_ts, files, heard>>

-----------------------------------------------------------------------------
(* Decoding.                                                               *)

Known(f) == f.interface \in DOMAIN Dbc /\ f.id \in DOMAIN Dbc[f.interface]
Message(f) == Dbc[f.interface][f.id]

\* The signals of a frame: none of a frame that is too short for its message,
\* and a multiplexed one only under its switch value.
Decode(f) ==
  IF ~Known(f) \/ ~f.payload.long THEN <<>>
  ELSE LET signals == Message(f).signals
           active == {n \in DOMAIN signals : signals[n].when \in {Always, f.payload.mux}}
       IN [x \in {signals[n].name : n \in active} |-> f.payload]

MsgName(f) == IF Known(f) /\ f.payload.long THEN Message(f).name ELSE ""

\* insert_or_assign() of a map.
Put(map, x, v) == [y \in DOMAIN map \cup {x} |-> IF y = x THEN v ELSE map[y]]

\* Mutant: the signals of the frame before are not kept.
Current_Replaced(set, f) ==
  Put(set, f.id, [payload |-> f.payload, decoded |-> Decode(f), name |-> MsgName(f)])

\* The frame becomes the current one of its id; if nothing could be decoded from
\* it the signals of the one before stay.
Current(set, f) ==
  LET new == [payload |-> f.payload, decoded |-> Decode(f), name |-> MsgName(f)]
      kept == /\ f.id \in DOMAIN set
              /\ DOMAIN new.decoded = {} /\ DOMAIN set[f.id].decoded # {}
  IN Put(set, f.id, IF kept THEN [new EXCEPT !.decoded = set[f.id].decoded,
                                             !.name = IF @ = "" THEN set[f.id].name ELSE @]
                            ELSE new)

\* The signals of the frame replace their values, the others stay.
Stored(values, f) ==
  LET new == {<<f.interface, MsgName(f), n>> : n \in DOMAIN Decode(f)}
  IN [k \in DOMAIN values \cup new |-> IF k \in new THEN f.payload ELSE values[k]]

-----------------------------------------------------------------------------
(* The protobuf types.                                                     *)

Distinct(names) == \A m, n \in DOMAIN names : names[m] = names[n] => m = n
SafeNames(msg) == [n \in DOMAIN msg.signals |-> Safe[msg.signals[n].name]]

\* A file descriptor with two types, or a type with two fields, of one name is
\* not built, and then the interface has no ProtoLog at all.
Typed(i) ==
  /\ i \in DOMAIN Dbc
  /\ \A a, b \in DOMAIN Dbc[i] : Safe[Dbc[i][a].name] = Safe[Dbc[i][b].name] => a = b
  /\ \A id \in DOMAIN Dbc[i] : Distinct(SafeNames(Dbc[i][id]))

HasType(f) == Typed(f.interface) /\ Known(f)

\* A type of the protobuf library: the name and kind of each field number.
Type(msg) == [name |-> Safe[msg.name],
              fields |-> [n \in DOMAIN msg.signals |-> <<SafeNames(msg)[n], "double">>]]
FallbackType == [name |-> "RawCanFrame", fields |-> << <<"data", "uint32">> >>]
RawType == [name |-> "RawFrame", fields |-> << <<"can_id", "uint32">>, <<"payload", "uint32">> >>]
ScalarType == [name |-> "ScalarValue", fields |-> << <<"value", "double">> >>]

\* Mutant: the fields are numbered in each message anew.
Serialized_Packed(f) ==
  [n \in 1..Len(SelectSeq(Message(f).signals, LAMBDA s : s.name \in DOMAIN Decode(f))) |->
     <<"double", f.payload>>]

\* What is on the wire, by field number.
Serialized(f) ==
  LET msg == Message(f)
  IN [n \in {m \in DOMAIN msg.signals : msg.signals[m].name \in DOMAIN Decode(f)} |->
        <<"double", f.payload>>]
SerializedFallback(f) == << <<"uint32", f.payload>> >>
SerializedRaw(f) == << <<"uint32", f.id>>, <<"uint32", f.payload>> >>

-----------------------------------------------------------------------------
(* The writer.                                                             *)

\* Mutant: the maps of the log before are kept.
NewLog_KeepIds ==
  LET maps == IF files = <<>> THEN [schemas_ |-> <<>>, channels_ |-> <<>>]
              ELSE [schemas_ |-> Last(files).schemas_, channels_ |-> Last(files).channels_]
  IN [schemas |-> <<>>, channels |-> <<>>, messages |-> <<>>,
      schemas_ |-> maps.schemas_, channels_ |-> maps.channels_]

NewLog == [schemas |-> <<>>, channels |-> <<>>, messages |-> <<>>,
           schemas_ |-> <<>>, channels_ |-> <<>>]

\* get_or_register_schema(): one schema per name.
WithSchema(log, type) ==
  IF type.name \in DOMAIN log.schemas_ THEN log
  ELSE [log EXCEPT !.schemas = Append(@, type),
                   !.schemas_ = Put(@, type.name, Len(log.schemas) + 1)]

\* get_or_register_channel(): one channel per topic, with the schema it was first
\* asked for.
WithChannel(log, topic, schema) ==
  IF topic \in DOMAIN log.channels_ THEN log
  ELSE [log EXCEPT !.channels = Append(@, [topic |-> topic, schema |-> schema]),
                   !.channels_ = Put(@, topic, Len(log.channels) + 1)]

Written(log, topic, type, data) ==
  LET a == WithSchema(log, type)
      b == WithChannel(a, topic, a.schemas_[type.name])
  IN [b EXCEPT !.messages = Append(@, [channel |-> b.channels_[topic], data |-> data])]

\* The topic is made of the interface and the type, or the id of a frame without,
\* and of what is written.
TopicOf(f, kind) == <<f.interface, IF HasType(f) THEN Safe[Message(f).name] ELSE f.id, kind>>
OutputTopic == <<"model", "script", "output">>

\* The type of the data channel, and what goes into it.
DataType(f) == IF HasType(f) THEN Type(Message(f)) ELSE FallbackType
DataBytes(f) == IF HasType(f) THEN Serialized(f) ELSE SerializedFallback(f)

\* Mutant: the raw bytes are written only of frames without a type.
Logged_RawFallback(log, f, ratio) ==
  LET data == Written(log, TopicOf(f, "data"), DataType(f), DataBytes(f))
      raw == IF HasType(f) THEN data
             ELSE Written(data, TopicOf(f, "raw"), RawType, SerializedRaw(f))
  IN IF ratio THEN Written(raw, TopicOf(f, "update_ratio"), ScalarType, <<>>) ELSE raw

\* Three channels: the decoded signals, the bytes, and from the second frame of an
\* id on the time since the one before.
Logged(log, f, ratio) ==
  LET data == Written(log, TopicOf(f, "data"), DataType(f), DataBytes(f))
      raw == Written(data, TopicOf(f, "raw"), RawType, SerializedRaw(f))
  IN IF ratio THEN Written(raw, TopicOf(f, "update_ratio"), ScalarType, <<>>) ELSE raw

LoggedOutput(log) == Written(log, OutputTopic, ScalarType, <<>>)

-----------------------------------------------------------------------------
(* The reader.                                                             *)

\* What does not lead to a schema of the file is passed over.
Readable(file, m) ==
  m.channel \in DOMAIN file.channels /\ file.channels[m.channel].schema \in DOMAIN file.schemas

Topic(file, m) == file.channels[m.channel].topic
TypeOf(file, m) == file.schemas[file.channels[m.channel].schema]
OfKind(file, kind) ==
  Filter(file.messages, {m \in Range(file.messages) : Readable(file, m) /\ Topic(file, m)[3] = kind})

Zero == <<>>

\* A field that is not on the wire, or with another wire type, reads as zero.
Field(type, data, n) ==
  IF n \in DOMAIN data /\ data[n][1] = type.fields[n][2] THEN data[n][2] ELSE Zero

Numbered(type, name) == {n \in DOMAIN type.fields : type.fields[n][1] = name}

\* What is handed to on_frame: every double field of the type.
ReplayedFrame(file, m) ==
  LET type == TypeOf(file, m)
      doubles == {n \in DOMAIN type.fields : type.fields[n][2] = "double"}
  IN [interface |-> Topic(file, m)[1], name |-> Topic(file, m)[2],
      signals |-> [x \in {type.fields[n][1] : n \in doubles} |->
                     Field(type, m.data, CHOOSE n \in doubles : type.fields[n][1] = x)]]

OnFrame(file) ==
  LET ms == OfKind(file, "data") IN [k \in DOMAIN ms |-> ReplayedFrame(file, ms[k])]

\* What is handed to on_send: the id and the bytes, if the type has such fields.
OnSend(file) ==
  LET ms == Filter(OfKind(file, "raw"),
                   {m \in Range(file.messages) :
                      \A x \in {"can_id", "payload"} : Numbered(TypeOf(file, m), x) # {}})
      Get(m, x) == Field(TypeOf(file, m), m.data, CHOOSE n \in Numbered(TypeOf(file, m), x) : TRUE)
  IN [k \in DOMAIN ms |-> <<Topic(file, ms[k])[1], Get(ms[k], "can_id"), Get(ms[k], "payload")>>]

-----------------------------------------------------------------------------
(* The steps.                                                              *)

Init ==
  /\ shown = [i \in Interfaces |-> <<>>]
  /\ store = <<>>
  /\ logging = FALSE /\ last_ts = {}
  /\ files = <<>> /\ heard = <<>>

\* The callback of a socket; the script of the model may fail.
Receive(f) ==
  /\ Len(heard) < MaxFrames
  /\ shown' = [shown EXCEPT ![f.interface] = Current(@, f)]
  /\ store' = Stored(store, f)
  /\ IF logging
     THEN \E valid \in BOOLEAN :
            /\ files' = [files EXCEPT ![Len(files)] =
                           Logged(IF valid THEN LoggedOutput(@) ELSE @, f,
                                  <<f.interface, f.id>> \in last_ts)]
            /\ last_ts' = last_ts \cup {<<f.interface, f.id>>}
     ELSE UNCHANGED <<files, last_ts>>
  /\ heard' = Append(heard, [frame |-> f, log |-> IF logging THEN Len(files) ELSE 0])
  /\ UNCHANGED logging

Start ==
  /\ ~logging /\ Len(files) < MaxLogs
  /\ logging' = TRUE /\ files' = Append(files, NewLog)
  /\ UNCHANGED <<shown, store, last_ts, heard>>

Stop ==
  /\ logging /\ logging' = FALSE /\ last_ts' = {}
  /\ UNCHANGED <<shown, store, files, heard>>

Next ==
  \/ \E f \in Bus : Receive(f)
  \/ Start
  \/ Stop

Spec == Init /\ [][Next]_vars

-----------------------------------------------------------------------------
(* What is shown, computed and recorded.                                   *)

Heard == [frame : Bus, log : 0..MaxLogs]
Of(i, id) == Filter(heard, {h \in Heard : h.frame.interface = i /\ h.frame.id = id})
In(n) == Filter(heard, {h \in Heard : h.log = n})
Decodable == {h \in Heard : DOMAIN Decode(h.frame) # {}}
With(s) == {h \in Heard : s \in DOMAIN Decode(h.frame)}

\* The maps of the writer lead to what is in its own file.
TypeOK ==
  /\ logging \in BOOLEAN /\ last_ts \subseteq Interfaces \X Ids
  /\ \A i \in Interfaces : DOMAIN shown[i] \subseteq Ids
  /\ heard \in Seq([frame : Bus, log : 0..Len(files)])
  /\ \A n \in DOMAIN files :
       /\ Range(files[n].schemas_) = DOMAIN files[n].schemas
       /\ Range(files[n].channels_) = DOMAIN files[n].channels

\* The current frame of an id has the payload of the last frame and the signals of
\* the last one that could be decoded, whatever came in between
\* (src/src/frame/DataFrameSet.cpp:13).
ShownDecoded ==
  \A i \in Interfaces, id \in Ids :
    LET all == Of(i, id)
        good == Filter(all, Decodable)
    IN IF all = <<>> THEN id \notin DOMAIN shown[i]
       ELSE /\ shown[i][id].payload = Last(all).frame.payload
            /\ shown[i][id].decoded = IF good = <<>> THEN <<>> ELSE Decode(Last(good).frame)

\* No other message of the DBC has the name of this one.
OwnName(i, id) ==
  i \in DOMAIN Dbc /\ id \in DOMAIN Dbc[i] =>
    \A x \in DOMAIN Dbc[i] : Dbc[i][x].name = Dbc[i][id].name => x = id

\* The model reads of each signal the value it had when it was last decoded, also
\* while the multiplexer selects others (src/src/model/SignalStore.cpp:3).
StoreLatest ==
  \A i \in Interfaces, id \in Ids : OwnName(i, id) =>
    \A s \in UNION {DOMAIN Decode(h.frame) : h \in Range(Of(i, id))} :
      LET with == Filter(Of(i, id), With(s))
      IN store[<<i, MsgName(Last(with).frame), s>>] = Last(with).frame.payload

\* What is shown and what the model computes with is of the last decodable frames.
LastDecoded == ShownDecoded /\ StoreLatest

Reserved == {FallbackType.name, RawType.name, ScalarType.name}
TypeNames == {Safe[Dbc[x[1]][x[2]].name] : x \in {y \in Interfaces \X Ids :
                Typed(y[1]) /\ y[2] \in DOMAIN Dbc[y[1]]}}

\* A log that is replayed to the bus sends what was received while it was open, with
\* id, bytes and interface and in order, whether or not there is a DBC, unless one
\* names a message like a type of the logger (src/src/logger/McapLogger.cpp:280).
RawExact ==
  TypeNames \cap Reserved = {} =>
    \A n \in DOMAIN files :
      OnSend(files[n]) = [k \in DOMAIN In(n) |->
        <<In(n)[k].frame.interface, In(n)[k].frame.id, In(n)[k].frame.payload>>]

\* The types that other interfaces have under the name are the same.
Agreed(f) ==
  /\ Safe[Message(f).name] \notin Reserved
  /\ \A i \in DOMAIN Dbc : Typed(i) => \A id \in DOMAIN Dbc[i] :
       Safe[Dbc[i][id].name] = Safe[Message(f).name] => Type(Dbc[i][id]) = Type(Message(f))

\* Replayed to the TUI it shows each frame with its interface and name, and every
\* signal that was decoded with its value, if the DBCs agree on the message; and no
\* signal of a frame without a type, unless a DBC names a message like that of such
\* frames (src/src/logger/McapLogger.cpp:47).
DataExact ==
  \A n \in DOMAIN files :
    LET read == OnFrame(files[n])
    IN /\ Len(read) = Len(In(n))
       /\ \A k \in DOMAIN read :
            LET f == In(n)[k].frame
            IN /\ <<read[k].interface, read[k].name, "data">> = TopicOf(f, "data")
               /\ ~HasType(f) /\ FallbackType.name \notin TypeNames =>
                    DOMAIN read[k].signals = {}
               /\ HasType(f) /\ Agreed(f) =>
                    \A s \in DOMAIN Decode(f) :
                      /\ Safe[s] \in DOMAIN read[k].signals
                      /\ read[k].signals[Safe[s]] = f.payload

=============================================================================
