--------------------------- MODULE RecorderProofs ---------------------------
(***************************************************************************)
(* Theorems about the recording pipeline, for any DBCs, frames and bounds: *)
(* what is shown and computed is of the last decodable frames, and what is *)
(* replayed from a log is what was written to it.                          *)
(***************************************************************************)
EXTENDS Recorder, SequenceLemmas

\* What there is in a log: types, topics, messages, and the maps of its writer.
Types == {FallbackType, RawType, ScalarType} \cup {Type(Message(f)) : f \in {g \in Bus : HasType(g)}}
Kinds == {"data", "raw"}
Topics ==
  {OutputTopic} \cup {TopicOf(f, kind) : f \in Bus, kind \in Kinds \cup {"update_ratio"}}
DataOf(f, kind) == IF kind = "raw" THEN SerializedRaw(f) ELSE DataBytes(f)
Datas == {<<>>} \cup {DataOf(f, kind) : f \in Bus, kind \in Kinds}
Channels == [topic : Topics, schema : Nat]
Messages == [channel : Nat, data : Datas]
Partial(S) == UNION {[D -> Nat] : D \in SUBSET S}
Logs == [schemas : Seq(Types), channels : Seq(Channels), messages : Seq(Messages),
         schemas_ : Partial({t.name : t \in Types}), channels_ : Partial(Topics)]

\* The type of a channel has the name of that of the frames whose topic it has.
Fits(topic, name) ==
  /\ topic[3] = "raw" => name = RawType.name
  /\ \A f \in Bus : topic = TopicOf(f, "data") => name = DataType(f).name

\* The maps of a writer lead to what is in its own file, and a message to its
\* channel and its type.
SchemasInv(log) ==
  /\ Range(log.schemas_) = 1..Len(log.schemas)
  /\ \A x \in DOMAIN log.schemas_ : log.schemas[log.schemas_[x]].name = x
ChannelsInv(log) ==
  /\ Range(log.channels_) = 1..Len(log.channels)
  /\ \A x \in DOMAIN log.channels_ : log.channels[log.channels_[x]].topic = x
TypesInv(log) ==
  \A c \in 1..Len(log.channels) :
     /\ log.channels[c].schema \in 1..Len(log.schemas)
     /\ Fits(log.channels[c].topic, log.schemas[log.channels[c].schema].name)
MessagesInv(log) ==
  \A k \in 1..Len(log.messages) : log.messages[k].channel \in 1..Len(log.channels)
LogInv(log) ==
  /\ log \in Logs /\ SchemasInv(log)
  /\ ChannelsInv(log) /\ TypesInv(log) /\ MessagesInv(log)

\* The messages of a kind are those of the frames that were heard, one by one.
Matches(log, kind, hs) ==
  /\ Len(OfKind(log, kind)) = Len(hs)
  /\ \A k \in 1..Len(hs) :
       LET m == OfKind(log, kind)[k]
       IN /\ m.channel \in 1..Len(log.channels)
          /\ log.channels[m.channel].topic = TopicOf(hs[k].frame, kind)
          /\ m.data = DataOf(hs[k].frame, kind)
Recorded(log, hs) == LogInv(log) /\ \A kind \in Kinds : Matches(log, kind, hs)

FilesInv ==
  /\ files \in Seq(Logs) /\ Len(files) <= MaxLogs
  /\ heard \in Seq([frame : Bus, log : 0..Len(files)])
  /\ \A n \in 1..Len(files) : Recorded(files[n], In(n))
  /\ logging \in BOOLEAN /\ (logging => Len(files) > 0)
  /\ last_ts \subseteq Interfaces \X Ids

\* The model has the value of each signal that was decoded.
Signals == UNION {DOMAIN Decode(f) : f \in Bus}
Stores(i, id, s) ==
  LET with == Filter(Of(i, id), With(s))
      key == <<i, MsgName(Last(with).frame), s>>
  IN with # <<>> => key \in DOMAIN store /\ store[key] = Last(with).frame.payload
StoreInv == \A i \in Interfaces, id \in Ids : OwnName(i, id) => \A s \in Signals : Stores(i, id, s)

\* What is shown of an id that was heard, and that it is shown.
Shows(i, id) ==
  LET all == Of(i, id)
      good == Filter(all, Decodable)
  IN IF all = <<>> THEN id \notin DOMAIN shown[i]
     ELSE /\ id \in DOMAIN shown[i]
          /\ shown[i][id].payload = Last(all).frame.payload
          /\ shown[i][id].decoded = IF good = <<>> THEN <<>> ELSE Decode(Last(good).frame)

ShownInv ==
  /\ DOMAIN shown = Interfaces
  /\ \A i \in Interfaces : DOMAIN shown[i] \subseteq Ids
  /\ \A i \in Interfaces, id \in Ids : Shows(i, id)

RecInv == FilesInv /\ ShownInv /\ StoreInv

-----------------------------------------------------------------------------
(* Functions that are added to.                                            *)

LEMMA PutType ==
  ASSUME NEW S, NEW f \in Partial(S), NEW x \in S, NEW v \in Nat
  PROVE  Put(f, x, v) \in Partial(S)
<1>1. PICK D \in SUBSET S : f \in [D -> Nat]
  BY DEF Partial
<1>2. Put(f, x, v) \in [D \cup {x} -> Nat]
  BY <1>1 DEF Put
<1>3. D \cup {x} \in SUBSET S
  BY <1>1
<1>. QED  BY <1>2, <1>3 DEF Partial

LEMMA PartialType ==
  ASSUME NEW S, NEW f \in Partial(S)
  PROVE  DOMAIN f \subseteq S /\ \A x \in DOMAIN f : f[x] \in Nat
<1>1. PICK D \in SUBSET S : f \in [D -> Nat]
  BY DEF Partial
<1>. QED  BY <1>1

\* A name that is new is given the next number.
LEMMA NextNumber ==
  ASSUME NEW f, NEW n \in Nat, Range(f) = 1..n, NEW x, x \notin DOMAIN f
  PROVE  Range(Put(f, x, n + 1)) = 1..n+1
<1>. DEFINE g == Put(f, x, n + 1)
<1>1. /\ DOMAIN g = DOMAIN f \cup {x} /\ g[x] = n + 1
      /\ \A y \in DOMAIN f : g[y] = f[y]
  BY DEF Put
<1>2. Range(f) = {f[y] : y \in DOMAIN f} /\ Range(g) = {g[y] : y \in DOMAIN g}
  BY DEF Range
<1>. HIDE DEF g
<1>3. {g[y] : y \in DOMAIN g} = {n + 1} \cup {f[y] : y \in DOMAIN f}
  BY <1>1
<1>4. {n + 1} \cup 1..n = 1..n+1
  OBVIOUS
<1>5. Range(g) = 1..n+1
  BY <1>2, <1>3, <1>4, Zenon
<1>. QED  BY <1>5 DEF g

LEMMA RangeHas ==
  ASSUME NEW f, NEW x \in DOMAIN f
  PROVE  f[x] \in Range(f)
BY DEF Range

-----------------------------------------------------------------------------
(* What is written to a log.                                               *)

\* A log goes on where another ends.
Extends(new, log) ==
  /\ Len(log.schemas) <= Len(new.schemas)
  /\ \A x \in 1..Len(log.schemas) : new.schemas[x] = log.schemas[x]
  /\ Len(log.channels) <= Len(new.channels)
  /\ \A c \in 1..Len(log.channels) : new.channels[c] = log.channels[c]

Log(s, c, m, n, d) ==
  [schemas |-> s, channels |-> c, messages |-> m, schemas_ |-> n, channels_ |-> d]

LEMMA LogType ==
  ASSUME NEW log \in Logs
  PROVE  /\ log = Log(log.schemas, log.channels, log.messages, log.schemas_, log.channels_)
         /\ log.schemas \in Seq(Types) /\ log.channels \in Seq(Channels)
         /\ log.messages \in Seq(Messages)
         /\ log.schemas_ \in Partial({t.name : t \in Types}) /\ log.channels_ \in Partial(Topics)
         /\ Len(log.schemas) \in Nat /\ Len(log.channels) \in Nat /\ Len(log.messages) \in Nat
<1>. DEFINE A == Seq(Types)
            B == Seq(Channels)
            C == Seq(Messages)
            D == Partial({t.name : t \in Types})
            E == Partial(Topics)
<1>1. log \in [schemas : A, channels : B, messages : C, schemas_ : D, channels_ : E]
  BY DEF Logs
<1>. HIDE DEF A, B, C, D, E
<1>2. /\ log = [schemas |-> log.schemas, channels |-> log.channels, messages |-> log.messages,
                schemas_ |-> log.schemas_, channels_ |-> log.channels_]
      /\ log.schemas \in A /\ log.channels \in B /\ log.messages \in C
      /\ log.schemas_ \in D /\ log.channels_ \in E
  BY <1>1
<1>. QED  BY <1>2, LenProperties DEF A, B, C, D, E, Log

LEMMA LogMade ==
  ASSUME NEW s \in Seq(Types), NEW c \in Seq(Channels), NEW m \in Seq(Messages),
         NEW n \in Partial({t.name : t \in Types}), NEW d \in Partial(Topics)
  PROVE  Log(s, c, m, n, d) \in Logs
<1>. DEFINE A == Seq(Types)
            B == Seq(Channels)
            C == Seq(Messages)
            D == Partial({t.name : t \in Types})
            E == Partial(Topics)
<1>1. s \in A /\ c \in B /\ m \in C /\ n \in D /\ d \in E
  OBVIOUS
<1>. HIDE DEF A, B, C, D, E
<1>2. [schemas |-> s, channels |-> c, messages |-> m, schemas_ |-> n, channels_ |-> d]
        \in [schemas : A, channels : B, messages : C, schemas_ : D, channels_ : E]
  BY <1>1
<1>. QED  BY <1>2 DEF A, B, C, D, E, Logs, Log

LEMMA NewLogInv == LogInv(NewLog)
<1>1. <<>> \in Seq(Types) /\ <<>> \in Seq(Channels) /\ <<>> \in Seq(Messages)
  OBVIOUS
<1>2. \A S : <<>> \in Partial(S)
  <2>. SUFFICES ASSUME NEW S PROVE <<>> \in Partial(S)
    OBVIOUS
  <2>1. <<>> \in [{} -> Nat] /\ {} \in SUBSET S
    OBVIOUS
  <2>. QED  BY <2>1 DEF Partial
<1>3. NewLog \in Logs
  BY <1>1, <1>2, LogMade DEF NewLog, Log
<1>4. Range(<<>>) = {} /\ Len(<<>>) = 0 /\ DOMAIN <<>> = {} /\ 1..0 = {}
  BY DEF Range
<1>. QED  BY <1>3, <1>4 DEF LogInv, SchemasInv, ChannelsInv, TypesInv, MessagesInv, NewLog

LEMMA ExtendsSelf ==
  ASSUME NEW log, LogInv(log)
  PROVE  Extends(log, log)
<1>1. Len(log.schemas) \in Nat /\ Len(log.channels) \in Nat
  BY LogType DEF LogInv
<1>. QED  BY <1>1 DEF Extends

LEMMA ExtendsTrans ==
  ASSUME NEW a, LogInv(a), NEW b, LogInv(b), NEW c, LogInv(c), Extends(b, a), Extends(c, b)
  PROVE  Extends(c, a)
<1>1. /\ Len(a.schemas) \in Nat /\ Len(b.schemas) \in Nat /\ Len(c.schemas) \in Nat
      /\ Len(a.channels) \in Nat /\ Len(b.channels) \in Nat /\ Len(c.channels) \in Nat
  BY LogType DEF LogInv
<1>2. \A l, m, n \in Nat : l <= m /\ m <= n => l <= n /\ 1..l \subseteq 1..m
  OBVIOUS
<1>. QED  BY <1>1, <1>2 DEF Extends

LEMMA SetNames ==
  ASSUME NEW s, NEW c, NEW m, NEW n, NEW d, NEW log, NEW x, log = Log(s, c, m, n, d)
  PROVE  [log EXCEPT !.schemas_ = x] = Log(s, c, m, x, d)
BY DEF Log

LEMMA SetTopics ==
  ASSUME NEW s, NEW c, NEW m, NEW n, NEW d, NEW log, NEW x, log = Log(s, c, m, n, d)
  PROVE  [log EXCEPT !.channels_ = x] = Log(s, c, m, n, x)
BY DEF Log

LEMMA SchemaMade ==
  ASSUME NEW s, NEW c, NEW m, NEW n, NEW d, NEW log, NEW type, log = Log(s, c, m, n, d),
         type.name \notin DOMAIN n
  PROVE  WithSchema(log, type) = Log(Append(s, type), c, m, Put(n, type.name, Len(s) + 1), d)
<1>. DEFINE new == [log EXCEPT !.schemas = Append(s, type)]
<1>1. log.schemas = s /\ log.schemas_ = n
  BY DEF Log
<1>2. new = Log(Append(s, type), c, m, n, d) /\ new.schemas_ = n
  BY DEF Log
<1>3. WithSchema(log, type) = [new EXCEPT !.schemas_ = Put(n, type.name, Len(s) + 1)]
  BY <1>1, <1>2, Zenon DEF WithSchema
<1>. HIDE DEF new
<1>4. [new EXCEPT !.schemas_ = Put(n, type.name, Len(s) + 1)]
        = Log(Append(s, type), c, m, Put(n, type.name, Len(s) + 1), d)
  BY <1>2, SetNames
<1>. QED  BY <1>3, <1>4, Zenon

LEMMA ChannelMade ==
  ASSUME NEW s, NEW c, NEW m, NEW n, NEW d, NEW log, NEW topic, NEW schema,
         log = Log(s, c, m, n, d), topic \notin DOMAIN d
  PROVE  WithChannel(log, topic, schema)
           = Log(s, Append(c, [topic |-> topic, schema |-> schema]), m, n,
                 Put(d, topic, Len(c) + 1))
<1>. DEFINE chan == [topic |-> topic, schema |-> schema]
            new == [log EXCEPT !.channels = Append(c, chan)]
<1>1. log.channels = c /\ log.channels_ = d
  BY DEF Log
<1>2. new = Log(s, Append(c, chan), m, n, d) /\ new.channels_ = d
  BY DEF Log
<1>3. WithChannel(log, topic, schema) = [new EXCEPT !.channels_ = Put(d, topic, Len(c) + 1)]
  BY <1>1, <1>2, Zenon DEF WithChannel
<1>. HIDE DEF new, chan
<1>4. [new EXCEPT !.channels_ = Put(d, topic, Len(c) + 1)]
        = Log(s, Append(c, chan), m, n, Put(d, topic, Len(c) + 1))
  BY <1>2, SetTopics
<1>. QED  BY <1>3, <1>4, Zenon DEF chan

LEMMA MessageMade ==
  ASSUME NEW s, NEW c, NEW m, NEW n, NEW d, NEW log, NEW x, log = Log(s, c, m, n, d)
  PROVE  [log EXCEPT !.messages = Append(@, x)] = Log(s, c, Append(m, x), n, d)
BY DEF Log

\* get_or_register_schema() leads to a schema of the name.
LEMMA WithSchemaStep ==
  ASSUME NEW log, LogInv(log), NEW type \in Types
  PROVE  LET a == WithSchema(log, type)
         IN /\ LogInv(a) /\ Extends(a, log)
            /\ a.messages = log.messages /\ a.channels = log.channels
            /\ a.schemas_[type.name] \in 1..Len(a.schemas)
            /\ a.schemas[a.schemas_[type.name]].name = type.name
<1>1. CASE type.name \in DOMAIN log.schemas_
  <2>1. WithSchema(log, type) = log
    BY <1>1 DEF WithSchema
  <2>2. log.schemas_[type.name] \in 1..Len(log.schemas)
    <3>1. Range(log.schemas_) = 1..Len(log.schemas)
      BY DEF LogInv, SchemasInv
    <3>. QED  BY <1>1, <3>1, RangeHas
  <2>3. log.schemas[log.schemas_[type.name]].name = type.name
    BY <1>1 DEF LogInv, SchemasInv
  <2>. QED  BY <2>1, <2>2, <2>3, ExtendsSelf, Zenon
<1>2. CASE type.name \notin DOMAIN log.schemas_
  <2>. DEFINE a == WithSchema(log, type)
              n == Len(log.schemas)
              put == Put(log.schemas_, type.name, n + 1)
              seq == Append(log.schemas, type)
  <2>1. log \in Logs /\ SchemasInv(log) /\ ChannelsInv(log) /\ TypesInv(log) /\ MessagesInv(log)
    BY DEF LogInv
  <2>2. a = Log(seq, log.channels, log.messages, put, log.channels_)
    <3>1. log = Log(log.schemas, log.channels, log.messages, log.schemas_, log.channels_)
      BY <2>1, LogType
    <3>2. type.name \notin DOMAIN log.schemas_
      BY <1>2
    <3>. QED  BY <3>1, <3>2, SchemaMade
  <2>3. n \in Nat /\ Len(seq) = n + 1 /\ seq \in Seq(Types) /\ seq[n+1] = type
        /\ \A x \in 1..n : seq[x] = log.schemas[x]
    <3>. DEFINE old == log.schemas
    <3>1. old \in Seq(Types)
      BY <2>1, LogType
    <3>. HIDE DEF old
    <3>2. LET new == Append(old, type)
          IN /\ Len(old) \in Nat /\ Len(new) = Len(old) + 1 /\ new \in Seq(Types)
             /\ new[Len(old)+1] = type /\ \A x \in 1..Len(old) : new[x] = old[x]
      BY <3>1, LenProperties, AppendProperties
    <3>. QED  BY <3>2 DEF old
  <2>4. put \in Partial({t.name : t \in Types}) /\ Range(put) = 1..n+1
    <3>1. type.name \in {t.name : t \in Types} /\ n + 1 \in Nat
      BY <2>3
    <3>2. Range(log.schemas_) = 1..n
      BY <2>1 DEF SchemasInv
    <3>. HIDE DEF n
    <3>. QED  BY <1>2, <2>1, <2>3, <3>1, <3>2, LogType, PutType, NextNumber
  <2>5. DOMAIN put = DOMAIN log.schemas_ \cup {type.name} /\ put[type.name] = n + 1
        /\ \A x \in DOMAIN log.schemas_ : put[x] = log.schemas_[x]
    BY <1>2 DEF Put
  <2>6. a \in Logs
    <3>. HIDE DEF a, seq, put
    <3>. QED  BY <2>1, <2>2, <2>3, <2>4, LogType, LogMade
  <2>7. /\ a.schemas = seq /\ a.channels = log.channels /\ a.messages = log.messages
        /\ a.schemas_ = put /\ a.channels_ = log.channels_
    <3>. HIDE DEF a, seq, put
    <3>. QED  BY <2>2 DEF Log
  <2>. HIDE DEF a, put, seq
  <2>8. SchemasInv(a)
    <3>1. Range(a.schemas_) = 1..Len(a.schemas)
      BY <2>3, <2>4, <2>7
    <3>2. ASSUME NEW x \in DOMAIN put
          PROVE  seq[put[x]].name = x
      <4>1. CASE x = type.name
        BY <2>3, <2>5, <4>1
      <4>2. CASE x # type.name
        <5>1. x \in DOMAIN log.schemas_ /\ put[x] = log.schemas_[x]
          BY <2>5, <4>2
        <5>2. log.schemas_[x] \in 1..n
          BY <2>1, <5>1, RangeHas DEF SchemasInv
        <5>3. log.schemas[log.schemas_[x]].name = x
          BY <2>1, <5>1 DEF SchemasInv
        <5>. QED  BY <2>3, <5>1, <5>2, <5>3, Zenon
      <4>. QED  BY <4>1, <4>2
    <3>. QED  BY <2>7, <3>1, <3>2 DEF SchemasInv
  <2>9. ChannelsInv(a) /\ MessagesInv(a)
    BY <2>1, <2>7, Zenon DEF ChannelsInv, MessagesInv
  <2>10. 1..n \subseteq 1..n+1
    BY <2>3
  <2>11. TypesInv(a)
    <3>1. ASSUME NEW c \in 1..Len(log.channels)
          PROVE  /\ log.channels[c].schema \in 1..Len(seq)
                 /\ Fits(log.channels[c].topic, seq[log.channels[c].schema].name)
      <4>1. log.channels[c].schema \in 1..n
            /\ Fits(log.channels[c].topic, log.schemas[log.channels[c].schema].name)
        BY <2>1, Zenon DEF TypesInv
      <4>2. log.channels[c].schema \in 1..n+1
            /\ seq[log.channels[c].schema] = log.schemas[log.channels[c].schema]
        BY <2>3, <2>10, <4>1
      <4>. QED  BY <2>3, <4>1, <4>2, Zenon
    <3>. QED  BY <2>7, <3>1, Zenon DEF TypesInv
  <2>12. Extends(a, log)
    <3>1. n <= n + 1 /\ Len(log.channels) <= Len(log.channels)
      BY <2>1, <2>3, LogType
    <3>. QED  BY <2>3, <2>7, <3>1 DEF Extends
  <2>13. put[type.name] \in 1..Len(seq) /\ seq[put[type.name]].name = type.name
    BY <2>3, <2>5
  <2>14. LogInv(a)
    BY <2>6, <2>8, <2>9, <2>11, Zenon DEF LogInv
  <2>. QED  BY <2>7, <2>12, <2>13, <2>14, Zenon DEF a
<1>. QED  BY <1>1, <1>2

\* get_or_register_channel() leads to a channel of the topic.
LEMMA WithChannelStep ==
  ASSUME NEW log, LogInv(log), NEW topic \in Topics, NEW schema \in 1..Len(log.schemas),
         Fits(topic, log.schemas[schema].name)
  PROVE  LET b == WithChannel(log, topic, schema)
         IN /\ LogInv(b) /\ Extends(b, log) /\ b.messages = log.messages
            /\ b.channels_[topic] \in 1..Len(b.channels)
            /\ b.channels[b.channels_[topic]].topic = topic
<1>1. CASE topic \in DOMAIN log.channels_
  <2>1. WithChannel(log, topic, schema) = log
    BY <1>1 DEF WithChannel
  <2>2. log.channels_[topic] \in 1..Len(log.channels)
    <3>1. Range(log.channels_) = 1..Len(log.channels)
      BY DEF LogInv, ChannelsInv
    <3>. QED  BY <1>1, <3>1, RangeHas
  <2>3. log.channels[log.channels_[topic]].topic = topic
    BY <1>1 DEF LogInv, ChannelsInv
  <2>. QED  BY <2>1, <2>2, <2>3, ExtendsSelf, Zenon
<1>2. CASE topic \notin DOMAIN log.channels_
  <2>. DEFINE b == WithChannel(log, topic, schema)
              n == Len(log.channels)
              chan == [topic |-> topic, schema |-> schema]
              put == Put(log.channels_, topic, n + 1)
              seq == Append(log.channels, chan)
  <2>1. log \in Logs /\ SchemasInv(log) /\ ChannelsInv(log) /\ TypesInv(log) /\ MessagesInv(log)
    BY DEF LogInv
  <2>2. b = Log(log.schemas, seq, log.messages, log.schemas_, put)
    <3>1. log = Log(log.schemas, log.channels, log.messages, log.schemas_, log.channels_)
      BY <2>1, LogType
    <3>2. topic \notin DOMAIN log.channels_
      BY <1>2
    <3>. QED  BY <3>1, <3>2, ChannelMade
  <2>3. n \in Nat /\ Len(seq) = n + 1 /\ seq \in Seq(Channels) /\ seq[n+1] = chan
        /\ \A c \in 1..n : seq[c] = log.channels[c]
    <3>. DEFINE old == log.channels
    <3>1. old \in Seq(Channels) /\ schema \in Nat
      <4>1. old \in Seq(Channels) /\ Len(log.schemas) \in Nat
        BY <2>1, LogType, Zenon
      <4>. QED  BY <4>1
    <3>2. chan \in Channels
      BY <3>1 DEF Channels
    <3>. HIDE DEF old, chan
    <3>3. LET new == Append(old, chan)
          IN /\ Len(old) \in Nat /\ Len(new) = Len(old) + 1 /\ new \in Seq(Channels)
             /\ new[Len(old)+1] = chan /\ \A c \in 1..Len(old) : new[c] = old[c]
      BY <3>1, <3>2, LenProperties, AppendProperties
    <3>. QED  BY <3>3 DEF old
  <2>4. put \in Partial(Topics) /\ Range(put) = 1..n+1
    <3>1. n + 1 \in Nat
      BY <2>3
    <3>2. Range(log.channels_) = 1..n
      BY <2>1 DEF ChannelsInv
    <3>. HIDE DEF n
    <3>. QED  BY <1>2, <2>1, <2>3, <3>1, <3>2, LogType, PutType, NextNumber
  <2>5. DOMAIN put = DOMAIN log.channels_ \cup {topic} /\ put[topic] = n + 1
        /\ \A x \in DOMAIN log.channels_ : put[x] = log.channels_[x]
    BY <1>2 DEF Put
  <2>6. b \in Logs
    <3>. HIDE DEF b, seq, put
    <3>. QED  BY <2>1, <2>2, <2>3, <2>4, LogType, LogMade
  <2>7. /\ b.schemas = log.schemas /\ b.channels = seq /\ b.messages = log.messages
        /\ b.schemas_ = log.schemas_ /\ b.channels_ = put
    <3>. HIDE DEF b, seq, put
    <3>. QED  BY <2>2 DEF Log
  <2>8. chan.topic = topic /\ chan.schema = schema
    OBVIOUS
  <2>. HIDE DEF b, put, seq, chan
  <2>9. ChannelsInv(b)
    <3>1. Range(b.channels_) = 1..Len(b.channels)
      BY <2>3, <2>4, <2>7
    <3>2. ASSUME NEW x \in DOMAIN put
          PROVE  seq[put[x]].topic = x
      <4>1. CASE x = topic
        BY <2>3, <2>5, <2>8, <4>1
      <4>2. CASE x # topic
        <5>1. x \in DOMAIN log.channels_ /\ put[x] = log.channels_[x]
          BY <2>5, <4>2
        <5>2. log.channels_[x] \in 1..n
          BY <2>1, <5>1, RangeHas DEF ChannelsInv
        <5>3. log.channels[log.channels_[x]].topic = x
          BY <2>1, <5>1 DEF ChannelsInv
        <5>. QED  BY <2>3, <5>1, <5>2, <5>3, Zenon
      <4>. QED  BY <4>1, <4>2
    <3>. QED  BY <2>7, <3>1, <3>2 DEF ChannelsInv
  <2>10. 1..n \subseteq 1..n+1 /\ \A c \in 1..n+1 : c \in 1..n \/ c = n + 1
    BY <2>3
  <2>11. SchemasInv(b)
    BY <2>1, <2>7, Zenon DEF SchemasInv
  <2>12. MessagesInv(b)
    <3>1. \A k \in 1..Len(log.messages) : log.messages[k].channel \in 1..n
      BY <2>1, Zenon DEF MessagesInv
    <3>. QED  BY <2>3, <2>7, <2>10, <3>1 DEF MessagesInv
  <2>13. TypesInv(b)
    <3>1. ASSUME NEW c \in 1..n+1
          PROVE  /\ seq[c].schema \in 1..Len(log.schemas)
                 /\ Fits(seq[c].topic, log.schemas[seq[c].schema].name)
      <4>1. CASE c \in 1..n
        BY <2>1, <2>3, <4>1, Zenon DEF TypesInv
      <4>2. CASE c = n + 1
        BY <2>3, <2>8, <4>2, Zenon
      <4>. QED  BY <2>10, <4>1, <4>2
    <3>. QED  BY <2>3, <2>7, <3>1, Zenon DEF TypesInv
  <2>14. Extends(b, log)
    <3>1. n <= n + 1 /\ Len(log.schemas) <= Len(log.schemas)
      BY <2>1, <2>3, LogType
    <3>. QED  BY <2>3, <2>7, <3>1 DEF Extends
  <2>15. put[topic] \in 1..Len(seq) /\ seq[put[topic]].topic = topic
    BY <2>3, <2>5, <2>8
  <2>16. LogInv(b)
    BY <2>6, <2>9, <2>11, <2>12, <2>13, Zenon DEF LogInv
  <2>. QED  BY <2>7, <2>14, <2>15, <2>16, Zenon DEF b
<1>. QED  BY <1>1, <1>2

\* A message is added, on a channel of its topic.
LEMMA WrittenStep ==
  ASSUME NEW log, LogInv(log), NEW topic \in Topics, NEW type \in Types, NEW data \in Datas,
         Fits(topic, type.name)
  PROVE  LET w == Written(log, topic, type, data)
         IN /\ LogInv(w) /\ Extends(w, log)
            /\ \E c \in 1..Len(w.channels) :
                 /\ w.channels[c].topic = topic
                 /\ w.messages = Append(log.messages, [channel |-> c, data |-> data])
<1>. DEFINE a == WithSchema(log, type)
            b == WithChannel(a, topic, a.schemas_[type.name])
            c == b.channels_[topic]
            msg == [channel |-> c, data |-> data]
            w == Written(log, topic, type, data)
<1>1. /\ LogInv(a) /\ Extends(a, log) /\ a.messages = log.messages
      /\ a.schemas_[type.name] \in 1..Len(a.schemas)
      /\ a.schemas[a.schemas_[type.name]].name = type.name
  BY WithSchemaStep
<1>2. LogInv(b) /\ Extends(b, a) /\ b.messages = a.messages
      /\ c \in 1..Len(b.channels) /\ b.channels[c].topic = topic
  <2>. HIDE DEF a
  <2>1. Fits(topic, a.schemas[a.schemas_[type.name]].name)
    BY <1>1
  <2>2. ASSUME NEW n, n = a.schemas_[type.name]
        PROVE  LET x == WithChannel(a, topic, n)
               IN /\ LogInv(x) /\ Extends(x, a) /\ x.messages = a.messages
                  /\ x.channels_[topic] \in 1..Len(x.channels)
                  /\ x.channels[x.channels_[topic]].topic = topic
    BY <1>1, <2>1, <2>2, WithChannelStep
  <2>. QED  BY <2>2, Zenon
<1>3. Extends(b, log)
  <2>. HIDE DEF a, b
  <2>. QED  BY <1>1, <1>2, ExtendsTrans, Zenon
<1>4. w = [b EXCEPT !.messages = Append(@, msg)]
  BY Zenon DEF Written
<1>. HIDE DEF a, b, c, w
<1>5. b \in Logs /\ w = Log(b.schemas, b.channels, Append(b.messages, msg), b.schemas_, b.channels_)
  <2>. HIDE DEF msg
  <2>1. b \in Logs
    BY <1>2 DEF LogInv
  <2>2. b = Log(b.schemas, b.channels, b.messages, b.schemas_, b.channels_)
    BY <2>1, LogType
  <2>3. [b EXCEPT !.messages = Append(@, msg)]
          = Log(b.schemas, b.channels, Append(b.messages, msg), b.schemas_, b.channels_)
    BY <2>2, MessageMade
  <2>. QED  BY <1>4, <2>1, <2>3, Zenon
<1>6. msg \in Messages /\ msg.channel = c
  <2>1. c \in Nat
    <3>1. Len(b.channels) \in Nat
      BY <1>5, LogType
    <3>. QED  BY <1>2, <3>1
  <2>. QED  BY <2>1 DEF Messages
<1>7. /\ w.schemas = b.schemas /\ w.channels = b.channels
      /\ w.messages = Append(b.messages, msg)
      /\ w.schemas_ = b.schemas_ /\ w.channels_ = b.channels_
  <2>. HIDE DEF msg
  <2>. QED  BY <1>5 DEF Log
<1>8. /\ Append(b.messages, msg) \in Seq(Messages) /\ Len(b.messages) \in Nat
      /\ Len(Append(b.messages, msg)) = Len(b.messages) + 1
      /\ Append(b.messages, msg)[Len(b.messages) + 1] = msg
      /\ \A k \in 1..Len(b.messages) : Append(b.messages, msg)[k] = b.messages[k]
  <2>. DEFINE old == b.messages
  <2>1. old \in Seq(Messages)
    BY <1>5, LogType
  <2>. HIDE DEF old, msg
  <2>2. /\ Append(old, msg) \in Seq(Messages) /\ Len(old) \in Nat
        /\ Len(Append(old, msg)) = Len(old) + 1 /\ Append(old, msg)[Len(old) + 1] = msg
        /\ \A k \in 1..Len(old) : Append(old, msg)[k] = old[k]
    BY <1>6, <2>1, LenProperties, AppendProperties
  <2>. QED  BY <2>2 DEF old
<1>. HIDE DEF msg
<1>9. w \in Logs
  BY <1>5, <1>8, LogType, LogMade
<1>10. SchemasInv(w) /\ ChannelsInv(w) /\ TypesInv(w)
  BY <1>2, <1>7, Zenon DEF LogInv, SchemasInv, ChannelsInv, TypesInv
<1>11. MessagesInv(w)
  <2>1. \A k \in 1..Len(b.messages) : b.messages[k].channel \in 1..Len(b.channels)
    BY <1>2 DEF LogInv, MessagesInv
  <2>2. \A k \in 1..Len(b.messages)+1 : k \in 1..Len(b.messages) \/ k = Len(b.messages) + 1
    BY <1>8
  <2>. QED  BY <1>2, <1>6, <1>7, <1>8, <2>1, <2>2, Zenon DEF MessagesInv
<1>12. LogInv(w)
  BY <1>9, <1>10, <1>11, Zenon DEF LogInv
<1>13. Extends(w, log)
  BY <1>3, <1>7, Zenon DEF Extends
<1>14. c \in 1..Len(w.channels) /\ w.channels[c].topic = topic
       /\ w.messages = Append(log.messages, [channel |-> c, data |-> data])
  BY <1>1, <1>2, <1>7, Zenon DEF msg
<1>. QED  BY <1>12, <1>13, <1>14, Zenon DEF w

-----------------------------------------------------------------------------
(* Topics and types.                                                       *)

LEMMA Kind ==
  ASSUME NEW f, NEW kind
  PROVE  TopicOf(f, kind)[3] = kind
BY DEF TopicOf

LEMMA TopicType ==
  ASSUME NEW f \in Bus
  PROVE  /\ \A kind \in Kinds \cup {"update_ratio"} : TopicOf(f, kind) \in Topics
         /\ DataType(f) \in Types /\ RawType \in Types /\ ScalarType \in Types
         /\ DataBytes(f) \in Datas /\ SerializedRaw(f) \in Datas /\ <<>> \in Datas
<1>1. \A kind \in Kinds \cup {"update_ratio"} : TopicOf(f, kind) \in Topics
  BY DEF Topics
<1>2. DataType(f) \in Types
  <2>1. CASE HasType(f)
    <3>1. DataType(f) = Type(Message(f)) /\ f \in {g \in Bus : HasType(g)}
      BY <2>1 DEF DataType
    <3>. QED  BY <3>1, Zenon DEF Types
  <2>2. CASE ~HasType(f)
    BY <2>2, Zenon DEF DataType, Types
  <2>. QED  BY <2>1, <2>2
<1>3. RawType \in Types /\ ScalarType \in Types
  BY Zenon DEF Types
<1>4. DataOf(f, "data") \in Datas /\ DataOf(f, "raw") \in Datas /\ <<>> \in Datas
  BY DEF Datas, Kinds
<1>. QED  BY <1>1, <1>2, <1>3, <1>4 DEF DataOf

\* A frame without a type and one with a type do not share a topic.
LEMMA DataFits ==
  ASSUME NEW f \in Bus
  PROVE  Fits(TopicOf(f, "data"), DataType(f).name)
<1>1. TopicOf(f, "data")[3] # "raw"
  BY Kind
<1>2. ASSUME NEW g \in Bus, TopicOf(f, "data") = TopicOf(g, "data")
      PROVE  DataType(f).name = DataType(g).name
  <2>. DEFINE Second(h) == IF HasType(h) THEN Safe[Message(h).name] ELSE h.id
  <2>1. Second(f) = Second(g)
    <3>1. TopicOf(f, "data")[2] = Second(f) /\ TopicOf(g, "data")[2] = Second(g)
      BY DEF TopicOf
    <3>. QED  BY <1>2, <3>1
  <2>2. ASSUME NEW h \in Bus
        PROVE  h.id \in Ids /\ (HasType(h) => Safe[Message(h).name] \notin Ids)
    <3>1. h.id \in Ids
      BY BusAssumption DEF Frames
    <3>2. HasType(h) => Message(h).name \in DOMAIN Safe
      BY DbcAssumption DEF HasType, Known, Message
    <3>. QED  BY <3>1, <3>2, SafeAssumption
  <2>3. HasType(f) <=> HasType(g)
    BY <2>1, <2>2
  <2>4. CASE HasType(f)
    <3>1. DataType(f) = Type(Message(f)) /\ DataType(g) = Type(Message(g))
      BY <2>3, <2>4 DEF DataType
    <3>2. Safe[Message(f).name] = Safe[Message(g).name]
      BY <2>1, <2>3, <2>4
    <3>. QED  BY <3>1, <3>2 DEF Type
  <2>5. CASE ~HasType(f)
    BY <2>3, <2>5 DEF DataType
  <2>. QED  BY <2>4, <2>5
<1>. QED  BY <1>1, <1>2 DEF Fits

LEMMA RawFits ==
  ASSUME NEW f \in Bus
  PROVE  Fits(TopicOf(f, "raw"), RawType.name)
<1>1. \A g \in Bus : TopicOf(f, "raw") # TopicOf(g, "data")
  <2>. SUFFICES ASSUME NEW g \in Bus
                PROVE  TopicOf(f, "raw") # TopicOf(g, "data")
    OBVIOUS
  <2>1. TopicOf(f, "raw")[3] = "raw" /\ TopicOf(g, "data")[3] = "data"
    BY Kind
  <2>. QED  BY <2>1
<1>. QED  BY <1>1 DEF Fits

LEMMA ScalarFits ==
  ASSUME NEW topic, topic[3] \notin Kinds
  PROVE  Fits(topic, ScalarType.name)
<1>1. topic[3] # "raw" /\ topic[3] # "data"
  BY DEF Kinds
<1>2. \A g \in Bus : topic # TopicOf(g, "data")
  <2>. SUFFICES ASSUME NEW g \in Bus
                PROVE  topic # TopicOf(g, "data")
    OBVIOUS
  <2>1. TopicOf(g, "data")[3] = "data"
    BY Kind
  <2>. QED  BY <1>1, <2>1
<1>. QED  BY <1>1, <1>2 DEF Fits

-----------------------------------------------------------------------------
(* The messages of a kind.                                                 *)

\* The set that OfKind selects.
OnKind(log, kind) ==
  {m \in Range(log.messages) : Readable(log, m) /\ Topic(log, m)[3] = kind}

LEMMA OnKindDef ==
  ASSUME NEW log, LogInv(log), NEW kind, NEW k \in 1..Len(log.messages)
  PROVE  log.messages[k] \in OnKind(log, kind)
           <=> log.channels[log.messages[k].channel].topic[3] = kind
<1>1. log \in Logs
  BY DEF LogInv
<1>2. /\ DOMAIN log.messages = 1..Len(log.messages)
      /\ DOMAIN log.channels = 1..Len(log.channels)
      /\ DOMAIN log.schemas = 1..Len(log.schemas)
  <2>1. log.messages \in Seq(Messages) /\ log.channels \in Seq(Channels) /\ log.schemas \in Seq(Types)
    BY <1>1, LogType
  <2>. QED  BY <2>1, LenProperties
<1>3. log.messages[k] \in Range(log.messages)
  BY <1>2, RangeHas
<1>4. log.messages[k].channel \in 1..Len(log.channels)
  BY DEF LogInv, MessagesInv
<1>5. log.channels[log.messages[k].channel].schema \in 1..Len(log.schemas)
  BY <1>4 DEF LogInv, TypesInv
<1>6. Readable(log, log.messages[k])
  BY <1>2, <1>4, <1>5, Zenon DEF Readable
<1>. QED  BY <1>3, <1>6 DEF OnKind, Topic

LEMMA OfKindType ==
  ASSUME NEW log, LogInv(log), NEW kind
  PROVE  OfKind(log, kind) \in Seq(Messages) /\ Len(OfKind(log, kind)) \in Nat
<1>1. log.messages \in Seq(Messages)
  BY LogType DEF LogInv
<1>2. OfKind(log, kind) \in Seq(Messages)
  BY <1>1, FilterSeq DEF OfKind
<1>. QED  BY <1>2, LenProperties

LEMMA OfKindStep ==
  ASSUME NEW log, LogInv(log), NEW w, LogInv(w), Extends(w, log), NEW kind,
         NEW msg \in Messages, w.messages = Append(log.messages, msg)
  PROVE  OfKind(w, kind) = IF w.channels[msg.channel].topic[3] = kind
                           THEN Append(OfKind(log, kind), msg) ELSE OfKind(log, kind)
<1>a. \A k \in 1..Len(log.messages) : log.messages[k] \in OnKind(log, kind)
        <=> log.channels[log.messages[k].channel].topic[3] = kind
  BY OnKindDef
<1>b. \A k \in 1..Len(w.messages) : w.messages[k] \in OnKind(w, kind)
        <=> w.channels[w.messages[k].channel].topic[3] = kind
  BY OnKindDef
<1>. DEFINE old == log.messages
            R == OnKind(log, kind)
            S == OnKind(w, kind)
<1>1. old \in Seq(Messages) /\ Len(old) \in Nat
  BY LogType DEF LogInv
<1>2. OfKind(w, kind) = Filter(w.messages, S) /\ OfKind(log, kind) = Filter(old, R)
  BY DEF OfKind, OnKind
<1>3. /\ Len(w.messages) = Len(old) + 1 /\ w.messages[Len(old)+1] = msg
      /\ \A k \in 1..Len(old) : w.messages[k] = old[k]
  <2>. HIDE DEF old
  <2>1. /\ Len(Append(old, msg)) = Len(old) + 1 /\ Append(old, msg)[Len(old)+1] = msg
        /\ \A k \in 1..Len(old) : Append(old, msg)[k] = old[k]
    BY <1>1, AppendProperties
  <2>. QED  BY <2>1, Zenon DEF old
<1>4. \A k \in 1..Len(old) : old[k] \in S <=> old[k] \in R
  <2>. SUFFICES ASSUME NEW k \in 1..Len(old)
                PROVE  old[k] \in S <=> old[k] \in R
    OBVIOUS
  <2>1. k \in 1..Len(w.messages)
    BY <1>1, <1>3
  <2>2. w.messages[k] \in S <=> w.channels[old[k].channel].topic[3] = kind
    <3>1. w.messages[k] \in S <=> w.channels[w.messages[k].channel].topic[3] = kind
      BY <1>b, <2>1, Zenon
    <3>. QED  BY <1>3, <3>1, Zenon
  <2>3. old[k] \in R <=> log.channels[old[k].channel].topic[3] = kind
    BY <1>a, Zenon
  <2>4. w.channels[old[k].channel] = log.channels[old[k].channel]
    BY DEF Extends, LogInv, MessagesInv
  <2>. QED  BY <1>3, <2>2, <2>3, <2>4, Zenon
<1>5. msg \in S <=> w.channels[msg.channel].topic[3] = kind
  <2>1. Len(old) + 1 \in 1..Len(w.messages)
    BY <1>1, <1>3
  <2>2. w.messages[Len(old)+1] \in S
          <=> w.channels[w.messages[Len(old)+1].channel].topic[3] = kind
    <3>. DEFINE last == Len(old) + 1
    <3>1. last \in 1..Len(w.messages)
      BY <2>1
    <3>. HIDE DEF last, S
    <3>2. w.messages[last] \in OnKind(w, kind)
            <=> w.channels[w.messages[last].channel].topic[3] = kind
      BY <1>b, <3>1, Zenon
    <3>. QED  BY <3>2 DEF S, last
  <2>. QED  BY <1>3, <2>2, Zenon
<1>6. Filter(w.messages, S) = IF msg \in S THEN Append(Filter(old, S), msg) ELSE Filter(old, S)
  <2>. HIDE DEF old, S
  <2>1. Filter(Append(old, msg), S) = IF msg \in S THEN Append(Filter(old, S), msg) ELSE Filter(old, S)
    BY <1>1, FilterAppend
  <2>. QED  BY <2>1, Zenon DEF old
<1>7. Filter(old, S) = Filter(old, R)
  <2>. HIDE DEF old, S, R
  <2>. QED  BY <1>1, <1>4, FilterAgree
<1>. HIDE DEF old, R, S
<1>. QED  BY <1>2, <1>5, <1>6, <1>7, Zenon

LEMMA MatchesKept ==
  ASSUME NEW log, LogInv(log), NEW w, LogInv(w), Extends(w, log), NEW kind, NEW hs,
         Matches(log, kind, hs), OfKind(w, kind) = OfKind(log, kind)
  PROVE  Matches(w, kind, hs)
<1>1. 1..Len(log.channels) \subseteq 1..Len(w.channels)
  <2>1. Len(log.channels) \in Nat /\ Len(w.channels) \in Nat /\ Len(log.channels) <= Len(w.channels)
    BY LogType DEF LogInv, Extends
  <2>. QED  BY <2>1
<1>2. \A c \in 1..Len(log.channels) : w.channels[c] = log.channels[c]
  BY DEF Extends
<1>3. ASSUME NEW k \in 1..Len(hs)
      PROVE  LET m == OfKind(w, kind)[k]
             IN /\ m.channel \in 1..Len(w.channels)
                /\ w.channels[m.channel].topic = TopicOf(hs[k].frame, kind)
                /\ m.data = DataOf(hs[k].frame, kind)
  <2>. DEFINE m == OfKind(log, kind)[k]
  <2>1. /\ m.channel \in 1..Len(log.channels)
        /\ log.channels[m.channel].topic = TopicOf(hs[k].frame, kind)
        /\ m.data = DataOf(hs[k].frame, kind)
    BY DEF Matches
  <2>2. OfKind(w, kind)[k] = m
    OBVIOUS
  <2>. HIDE DEF m
  <2>. QED  BY <1>1, <1>2, <2>1, <2>2
<1>. QED  BY <1>3, Zenon DEF Matches

LEMMA MatchesAdded ==
  ASSUME NEW log, LogInv(log), NEW w, LogInv(w), Extends(w, log), NEW kind,
         NEW hs \in Seq(Heard), NEW h \in Heard, Matches(log, kind, hs),
         NEW msg \in Messages, OfKind(w, kind) = Append(OfKind(log, kind), msg),
         msg.channel \in 1..Len(w.channels),
         w.channels[msg.channel].topic = TopicOf(h.frame, kind),
         msg.data = DataOf(h.frame, kind)
  PROVE  Matches(w, kind, Append(hs, h))
<1>. DEFINE new == Append(hs, h)
            old == OfKind(log, kind)
            all == OfKind(w, kind)
            n == Len(hs)
<1>1. /\ n \in Nat /\ Len(new) = n + 1 /\ new[n+1] = h
      /\ \A k \in 1..n : new[k] = hs[k]
  <2>. DEFINE T == Heard
  <2>1. hs \in Seq(T) /\ h \in T
    OBVIOUS
  <2>. HIDE DEF T
  <2>. QED  BY <2>1, LenProperties, AppendProperties
<1>2. Len(all) = n + 1 /\ all[n+1] = msg /\ \A k \in 1..n : all[k] = old[k]
  <2>1. old \in Seq(Messages) /\ Len(old) = n
    BY OfKindType DEF Matches
  <2>. HIDE DEF old, all
  <2>2. /\ Len(Append(old, msg)) = Len(old) + 1 /\ Append(old, msg)[Len(old)+1] = msg
        /\ \A k \in 1..Len(old) : Append(old, msg)[k] = old[k]
    BY <2>1, AppendProperties
  <2>. QED  BY <2>1, <2>2, Zenon DEF old, all
<1>3. 1..Len(log.channels) \subseteq 1..Len(w.channels)
  <2>1. Len(log.channels) \in Nat /\ Len(w.channels) \in Nat /\ Len(log.channels) <= Len(w.channels)
    BY LogType DEF LogInv, Extends
  <2>. QED  BY <2>1
<1>4. \A c \in 1..Len(log.channels) : w.channels[c] = log.channels[c]
  BY DEF Extends
<1>5. \A k \in 1..n : /\ old[k].channel \in 1..Len(log.channels)
                      /\ log.channels[old[k].channel].topic = TopicOf(hs[k].frame, kind)
                      /\ old[k].data = DataOf(hs[k].frame, kind)
  BY Zenon DEF Matches
<1>. HIDE DEF new, old, all
<1>6. ASSUME NEW k \in 1..n
      PROVE  /\ all[k].channel \in 1..Len(w.channels)
             /\ w.channels[all[k].channel].topic = TopicOf(new[k].frame, kind)
             /\ all[k].data = DataOf(new[k].frame, kind)
  <2>1. all[k] = old[k] /\ new[k] = hs[k]
    BY <1>1, <1>2
  <2>2. /\ old[k].channel \in 1..Len(log.channels)
        /\ log.channels[old[k].channel].topic = TopicOf(hs[k].frame, kind)
        /\ old[k].data = DataOf(hs[k].frame, kind)
    BY <1>5
  <2>3. old[k].channel \in 1..Len(w.channels)
        /\ w.channels[old[k].channel] = log.channels[old[k].channel]
    BY <1>3, <1>4, <2>2
  <2>. QED  BY <2>1, <2>2, <2>3, Zenon
<1>7. \A k \in 1..n+1 : k \in 1..n \/ k = n + 1
  BY <1>1
<1>8. \A k \in 1..n+1 : /\ all[k].channel \in 1..Len(w.channels)
                        /\ w.channels[all[k].channel].topic = TopicOf(new[k].frame, kind)
                        /\ all[k].data = DataOf(new[k].frame, kind)
  <2>. HIDE DEF n
  <2>. QED  BY <1>1, <1>2, <1>6, <1>7, Zenon
<1>9. Len(all) = Len(new)
  BY <1>1, <1>2, Zenon
<1>. QED  BY <1>1, <1>8, <1>9, Zenon DEF Matches, all, new

LEMMA WrittenMatches ==
  ASSUME NEW log, LogInv(log), NEW topic \in Topics, NEW type \in Types, NEW data \in Datas,
         Fits(topic, type.name), NEW kind \in Kinds, NEW hs \in Seq(Heard), NEW h \in Heard,
         Matches(log, kind, hs)
  PROVE  LET w == Written(log, topic, type, data)
         IN /\ topic[3] # kind => Matches(w, kind, hs)
            /\ topic = TopicOf(h.frame, kind) /\ data = DataOf(h.frame, kind) =>
                 Matches(w, kind, Append(hs, h))
<1>. DEFINE w == Written(log, topic, type, data)
<1>1. LogInv(w) /\ Extends(w, log)
  BY WrittenStep
<1>2. PICK c \in 1..Len(w.channels) :
        /\ w.channels[c].topic = topic
        /\ w.messages = Append(log.messages, [channel |-> c, data |-> data])
  BY WrittenStep
<1>. DEFINE msg == [channel |-> c, data |-> data]
<1>. HIDE DEF w
<1>3. msg \in Messages /\ msg.channel = c /\ msg.data = data
  <2>1. Len(w.channels) \in Nat
    BY <1>1, LogType DEF LogInv
  <2>2. c \in Nat
    BY <2>1
  <2>. QED  BY <2>2 DEF Messages
<1>4. w.messages = Append(log.messages, msg)
  BY <1>2
<1>. HIDE DEF msg
<1>5. OfKind(w, kind) = IF topic[3] = kind THEN Append(OfKind(log, kind), msg) ELSE OfKind(log, kind)
  BY <1>1, <1>2, <1>3, <1>4, OfKindStep
<1>6. CASE topic[3] # kind
  <2>1. Matches(w, kind, hs)
    BY <1>1, <1>5, <1>6, MatchesKept
  <2>2. topic # TopicOf(h.frame, kind)
    BY <1>6, Kind
  <2>. QED  BY <2>1, <2>2 DEF w
<1>7. CASE topic[3] = kind
  <2>1. ASSUME topic = TopicOf(h.frame, kind), data = DataOf(h.frame, kind)
        PROVE  Matches(w, kind, Append(hs, h))
    <3>1. OfKind(w, kind) = Append(OfKind(log, kind), msg)
      BY <1>5, <1>7
    <3>2. /\ msg.channel \in 1..Len(w.channels)
          /\ w.channels[msg.channel].topic = TopicOf(h.frame, kind)
          /\ msg.data = DataOf(h.frame, kind)
      BY <1>2, <1>3, <2>1
    <3>. QED  BY <1>1, <1>3, <3>1, <3>2, MatchesAdded
  <2>. QED  BY <1>7, <2>1 DEF w
<1>. QED  BY <1>6, <1>7

LEMMA RecordedScalar ==
  ASSUME NEW log, NEW hs \in Seq(Heard), Recorded(log, hs), NEW h \in Heard,
         NEW topic \in Topics, topic[3] \notin Kinds
  PROVE  Recorded(Written(log, topic, ScalarType, <<>>), hs)
<1>. DEFINE w == Written(log, topic, ScalarType, <<>>)
            type == ScalarType
            data == <<>>
<1>1. type \in Types /\ data \in Datas /\ Fits(topic, type.name)
  BY TopicType, ScalarFits DEF Types, Datas
<1>2. LogInv(log) /\ \A kind \in Kinds : Matches(log, kind, hs)
  BY DEF Recorded
<1>. HIDE DEF type, data
<1>3. LogInv(Written(log, topic, type, data))
  BY <1>1, <1>2, WrittenStep
<1>4. ASSUME NEW kind \in Kinds
      PROVE  Matches(Written(log, topic, type, data), kind, hs)
  <2>1. topic[3] # kind /\ Matches(log, kind, hs)
    BY <1>2
  <2>. QED  BY <1>1, <1>2, <2>1, WrittenMatches
<1>. QED  BY <1>3, <1>4, Zenon DEF Recorded, type, data

\* The output of the model is neither raw nor data.
LEMMA RecordedOutput ==
  ASSUME NEW log, NEW hs \in Seq(Heard), Recorded(log, hs), NEW h \in Heard
  PROVE  Recorded(LoggedOutput(log), hs)
<1>1. OutputTopic \in Topics
  BY DEF Topics
<1>2. OutputTopic[3] \notin Kinds
  BY DEF OutputTopic, Kinds
<1>. QED  BY <1>1, <1>2, RecordedScalar DEF LoggedOutput

\* A frame is one message of each kind.
LEMMA RecordedFrame ==
  ASSUME NEW log, NEW hs \in Seq(Heard), Recorded(log, hs), NEW h \in Heard,
         NEW ratio \in BOOLEAN
  PROVE  Recorded(Logged(log, h.frame, ratio), Append(hs, h))
<1>. DEFINE f == h.frame
            new == Append(hs, h)
            data == Written(log, TopicOf(f, "data"), DataType(f), DataBytes(f))
            raw == Written(data, TopicOf(f, "raw"), RawType, SerializedRaw(f))
<1>1. f \in Bus /\ new \in Seq(Heard)
  <2>. DEFINE T == Heard
  <2>1. hs \in Seq(T) /\ h \in T /\ f \in Bus
    BY DEF Heard
  <2>. HIDE DEF T, f
  <2>. QED  BY <2>1, AppendProperties DEF T
<1>. HIDE DEF f
<1>2. /\ TopicOf(f, "data") \in Topics /\ TopicOf(f, "raw") \in Topics
      /\ TopicOf(f, "update_ratio") \in Topics
      /\ DataType(f) \in Types /\ RawType \in Types
      /\ DataBytes(f) \in Datas /\ SerializedRaw(f) \in Datas
      /\ Fits(TopicOf(f, "data"), DataType(f).name) /\ Fits(TopicOf(f, "raw"), RawType.name)
      /\ DataOf(f, "data") = DataBytes(f) /\ DataOf(f, "raw") = SerializedRaw(f)
      /\ "data" \in Kinds /\ "raw" \in Kinds
      /\ TopicOf(f, "data")[3] = "data" /\ TopicOf(f, "raw")[3] = "raw"
      /\ TopicOf(f, "update_ratio")[3] \notin Kinds
  <2>1. /\ TopicOf(f, "data")[3] = "data" /\ TopicOf(f, "raw")[3] = "raw"
        /\ TopicOf(f, "update_ratio")[3] = "update_ratio"
    BY Kind
  <2>2. "data" \in Kinds /\ "raw" \in Kinds /\ "update_ratio" \notin Kinds
    BY DEF Kinds
  <2>3. Fits(TopicOf(f, "data"), DataType(f).name) /\ Fits(TopicOf(f, "raw"), RawType.name)
    BY <1>1, DataFits, RawFits
  <2>4. DataOf(f, "data") = DataBytes(f) /\ DataOf(f, "raw") = SerializedRaw(f)
    BY DEF DataOf
  <2>. QED  BY <1>1, <2>1, <2>2, <2>3, <2>4, TopicType
<1>3. LogInv(log) /\ Matches(log, "data", hs) /\ Matches(log, "raw", hs)
  BY <1>2, Zenon DEF Recorded
<1>4. LogInv(data) /\ Matches(data, "data", new) /\ Matches(data, "raw", hs)
  <2>1. LogInv(data)
    BY <1>2, <1>3, WrittenStep
  <2>2. Matches(data, "data", new)
    BY <1>2, <1>3, WrittenMatches DEF f
  <2>3. Matches(data, "raw", hs)
    <3>1. TopicOf(f, "data")[3] # "raw"
      BY Kind
    <3>. QED  BY <1>2, <1>3, <3>1, WrittenMatches
  <2>. QED  BY <2>1, <2>2, <2>3
<1>. HIDE DEF data, new
<1>5. LogInv(raw) /\ Matches(raw, "data", new) /\ Matches(raw, "raw", new)
  <2>1. LogInv(raw)
    BY <1>2, <1>4, WrittenStep
  <2>2. Matches(raw, "data", new)
    <3>1. TopicOf(f, "raw")[3] # "data"
      BY Kind
    <3>. QED  BY <1>1, <1>2, <1>4, <3>1, WrittenMatches
  <2>3. Matches(raw, "raw", new)
    BY <1>2, <1>4, WrittenMatches DEF f, new
  <2>. QED  BY <2>1, <2>2, <2>3
<1>. HIDE DEF raw
<1>6. Recorded(raw, new)
  <2>1. \A kind \in Kinds : kind = "data" \/ kind = "raw"
    BY DEF Kinds
  <2>. QED  BY <1>5, <2>1, Zenon DEF Recorded
<1>7. Logged(log, f, ratio)
        = IF ratio THEN Written(raw, TopicOf(f, "update_ratio"), ScalarType, <<>>) ELSE raw
  BY Zenon DEF Logged, raw, data
<1>8. Recorded(Written(raw, TopicOf(f, "update_ratio"), ScalarType, <<>>), new)
  BY <1>1, <1>2, <1>6, RecordedScalar
<1>. QED  BY <1>6, <1>7, <1>8, Zenon DEF f, new

-----------------------------------------------------------------------------
(* What is read.                                                           *)

LEMMA MessageRead ==
  ASSUME NEW log, NEW hs \in Seq(Heard), Recorded(log, hs), NEW kind \in Kinds,
         NEW k \in 1..Len(hs)
  PROVE  LET m == OfKind(log, kind)[k]
             f == hs[k].frame
         IN /\ f \in Bus /\ m \in Range(log.messages) /\ m \in Messages
            /\ Topic(log, m) = TopicOf(f, kind) /\ m.data = DataOf(f, kind)
            /\ TypeOf(log, m) \in Types /\ Fits(TopicOf(f, kind), TypeOf(log, m).name)
<1>. DEFINE ms == OfKind(log, kind)
            m == ms[k]
            f == hs[k].frame
<1>1. LogInv(log) /\ Matches(log, kind, hs)
  BY DEF Recorded
<1>2. hs[k] \in Heard
  <2>. DEFINE T == Heard
  <2>1. hs \in Seq(T)
    OBVIOUS
  <2>. HIDE DEF T
  <2>2. hs[k] \in T
    BY <2>1, ElementOfSeq
  <2>. QED  BY <2>2 DEF T
<1>3. f \in Bus
  BY <1>2 DEF Heard
<1>4. ms \in Seq(Messages \cap OnKind(log, kind))
  <2>1. log.messages \in Seq(Messages)
    BY <1>1, LogType DEF LogInv
  <2>2. Filter(log.messages, OnKind(log, kind)) \in Seq(Messages \cap OnKind(log, kind))
    BY <2>1, FilterType
  <2>. QED  BY <2>2 DEF OfKind, OnKind
<1>5. m \in Messages /\ m \in Range(log.messages)
  <2>1. Len(ms) = Len(hs)
    BY <1>1 DEF Matches
  <2>. HIDE DEF ms
  <2>2. ms[k] \in Messages \cap OnKind(log, kind)
    BY <1>4, <2>1, ElementOfSeq
  <2>3. OnKind(log, kind) \subseteq Range(log.messages)
    BY DEF OnKind
  <2>. QED  BY <2>2, <2>3
<1>6. /\ m.channel \in 1..Len(log.channels)
      /\ log.channels[m.channel].topic = TopicOf(f, kind) /\ m.data = DataOf(f, kind)
  BY <1>1, Zenon DEF Matches
<1>. HIDE DEF m, f, ms
<1>7. /\ log.channels[m.channel].schema \in 1..Len(log.schemas)
      /\ Fits(log.channels[m.channel].topic, log.schemas[log.channels[m.channel].schema].name)
  BY <1>1, <1>6 DEF LogInv, TypesInv
<1>8. log.schemas[log.channels[m.channel].schema] \in Types
  <2>. DEFINE s == log.schemas
              x == log.channels[m.channel].schema
  <2>1. s \in Seq(Types) /\ x \in 1..Len(s)
    BY <1>1, <1>7, LogType DEF LogInv
  <2>. HIDE DEF s, x
  <2>2. s[x] \in Types
    BY <2>1, ElementOfSeq
  <2>. QED  BY <2>2 DEF s, x
<1>9. Topic(log, m) = TopicOf(f, kind)
  BY <1>6 DEF Topic
<1>10. TypeOf(log, m) \in Types /\ Fits(TopicOf(f, kind), TypeOf(log, m).name)
  BY <1>6, <1>7, <1>8 DEF TypeOf
<1>. QED  BY <1>3, <1>5, <1>6, <1>9, <1>10, Zenon DEF m, f, ms

\* A type that no DBC has the name of is one of the logger's.
LEMMA TypeNamed ==
  ASSUME NEW t \in Types
  PROVE  \/ t \in {FallbackType, RawType, ScalarType}
         \/ \E f \in Bus : HasType(f) /\ t = Type(Message(f)) /\ t.name \in TypeNames
<1>. SUFFICES ASSUME t \notin {FallbackType, RawType, ScalarType}
              PROVE  \E f \in Bus : HasType(f) /\ t = Type(Message(f)) /\ t.name \in TypeNames
  OBVIOUS
<1>1. PICK f \in {g \in Bus : HasType(g)} : t = Type(Message(f))
  BY Zenon DEF Types
<1>2. f.interface \in Interfaces /\ f.id \in Ids
  BY BusAssumption DEF Frames
<1>3. Typed(f.interface) /\ f.id \in DOMAIN Dbc[f.interface]
  BY DEF HasType, Known
<1>4. t.name = Safe[Dbc[f.interface][f.id].name]
  BY <1>1 DEF Type, Message
<1>5. t.name \in TypeNames
  <2>. DEFINE x == <<f.interface, f.id>>
              S == {y \in Interfaces \X Ids : Typed(y[1]) /\ y[2] \in DOMAIN Dbc[y[1]]}
  <2>1. x \in Interfaces \X Ids /\ x[1] = f.interface /\ x[2] = f.id
    BY <1>2
  <2>. HIDE DEF x
  <2>2. x \in S
    BY <1>3, <2>1
  <2>3. t.name = Safe[Dbc[x[1]][x[2]].name]
    BY <1>4, <2>1
  <2>. QED  BY <2>2, <2>3, Zenon DEF TypeNames
<1>. QED  BY <1>1, <1>5

LEMMA Names ==
  /\ FallbackType.name = "RawCanFrame" /\ RawType.name = "RawFrame"
  /\ ScalarType.name = "ScalarValue"
  /\ Reserved = {"RawCanFrame", "RawFrame", "ScalarValue"}
BY DEF FallbackType, RawType, ScalarType, Reserved

\* What is sent of the raw messages is what was received.
LEMMA RawReads ==
  ASSUME NEW log, NEW hs \in Seq(Heard), Recorded(log, hs), TypeNames \cap Reserved = {}
  PROVE  OnSend(log) = [k \in DOMAIN hs |->
           <<hs[k].frame.interface, hs[k].frame.id, hs[k].frame.payload>>]
<1>. DEFINE all == OfKind(log, "raw")
            Has == {m \in Range(log.messages) :
                      \A x \in {"can_id", "payload"} : Numbered(TypeOf(log, m), x) # {}}
            ms == Filter(all, Has)
<1>1. Numbered(RawType, "can_id") = {1} /\ Numbered(RawType, "payload") = {2}
  BY DEF Numbered, RawType
<1>2. ASSUME NEW k \in 1..Len(hs)
      PROVE  LET f == hs[k].frame
                 m == all[k]
             IN /\ m \in Range(log.messages) /\ m \in Messages
                /\ Topic(log, m) = TopicOf(f, "raw") /\ m.data = SerializedRaw(f)
                /\ TypeOf(log, m) = RawType
  <2>. DEFINE f == hs[k].frame
              m == all[k]
  <2>1. "raw" \in Kinds
    BY DEF Kinds
  <2>2. /\ f \in Bus /\ m \in Range(log.messages) /\ m \in Messages
        /\ Topic(log, m) = TopicOf(f, "raw") /\ m.data = DataOf(f, "raw")
        /\ TypeOf(log, m) \in Types /\ Fits(TopicOf(f, "raw"), TypeOf(log, m).name)
    BY <2>1, MessageRead
  <2>. HIDE DEF f, m
  <2>3. TypeOf(log, m).name = RawType.name
    BY <2>2, Kind DEF Fits
  <2>4. TypeOf(log, m).name \notin TypeNames
    BY <2>3, Names
  <2>5. TypeOf(log, m) \in {FallbackType, RawType, ScalarType}
    BY <2>2, <2>4, TypeNamed
  <2>6. TypeOf(log, m) = RawType
    BY <2>3, <2>5, Names
  <2>7. m.data = SerializedRaw(f)
    BY <2>2 DEF DataOf
  <2>. QED  BY <2>2, <2>6, <2>7 DEF f, m
<1>3. LogInv(log) /\ Len(all) = Len(hs) /\ all \in Seq(Messages)
  <2>1. LogInv(log) /\ Matches(log, "raw", hs)
    BY DEF Recorded, Kinds
  <2>. QED  BY <2>1, OfKindType DEF Matches
<1>4. ms = all
  <2>1. \A k \in 1..Len(all) : all[k] \in Has <=> all[k] \in Messages
    <3>. SUFFICES ASSUME NEW k \in 1..Len(all)
                  PROVE  all[k] \in Has /\ all[k] \in Messages
      OBVIOUS
    <3>1. all[k] \in Range(log.messages) /\ all[k] \in Messages /\ TypeOf(log, all[k]) = RawType
      BY <1>2, <1>3
    <3>. HIDE DEF all
    <3>2. \A x \in {"can_id", "payload"} : Numbered(TypeOf(log, all[k]), x) # {}
      BY <1>1, <3>1
    <3>. QED  BY <3>1, <3>2
  <2>. HIDE DEF all, Has
  <2>2. Filter(all, Has) = Filter(all, Messages)
    BY <1>3, <2>1, FilterAgree
  <2>. QED  BY <1>3, <2>2, FilterAll
<1>. DEFINE Get(m, x) == Field(TypeOf(log, m), m.data,
                               CHOOSE n \in Numbered(TypeOf(log, m), x) : TRUE)
<1>5. OnSend(log) = [k \in DOMAIN ms |->
                       <<Topic(log, ms[k])[1], Get(ms[k], "can_id"), Get(ms[k], "payload")>>]
  BY Zenon DEF OnSend
<1>6. DOMAIN all = 1..Len(hs) /\ DOMAIN hs = 1..Len(hs)
  <2>. HIDE DEF all
  <2>. QED  BY <1>3, LenProperties
<1>7. ASSUME NEW k \in 1..Len(hs)
      PROVE  <<Topic(log, all[k])[1], Get(all[k], "can_id"), Get(all[k], "payload")>>
               = <<hs[k].frame.interface, hs[k].frame.id, hs[k].frame.payload>>
  <2>. DEFINE f == hs[k].frame
              m == all[k]
  <2>1. /\ Topic(log, m) = TopicOf(f, "raw") /\ m.data = SerializedRaw(f)
        /\ TypeOf(log, m) = RawType
    BY <1>2
  <2>. HIDE DEF f, m
  <2>2. (CHOOSE n \in {1} : TRUE) = 1 /\ (CHOOSE n \in {2} : TRUE) = 2
    OBVIOUS
  <2>3. Get(m, "can_id") = Field(RawType, SerializedRaw(f), 1)
    BY <1>1, <2>1, <2>2, Zenon
  <2>4. Get(m, "payload") = Field(RawType, SerializedRaw(f), 2)
    BY <1>1, <2>1, <2>2, Zenon
  <2>5. Field(RawType, SerializedRaw(f), 1) = f.id /\ Field(RawType, SerializedRaw(f), 2) = f.payload
    BY DEF Field, RawType, SerializedRaw
  <2>6. Topic(log, m)[1] = f.interface
    BY <2>1 DEF TopicOf
  <2>. QED  BY <2>3, <2>4, <2>5, <2>6, Zenon DEF f, m
<1>. HIDE DEF all, ms, Get
<1>. QED  BY <1>4, <1>5, <1>6, <1>7

\* A signal that was decoded is read from its own field.
LEMMA SignalRead ==
  ASSUME NEW f \in Bus, HasType(f), NEW s \in DOMAIN Decode(f)
  PROVE  LET t == Type(Message(f))
             doubles == {n \in DOMAIN t.fields : t.fields[n][2] = "double"}
         IN /\ Safe[s] \in {t.fields[n][1] : n \in doubles}
            /\ Field(t, Serialized(f), CHOOSE n \in doubles : t.fields[n][1] = Safe[s]) = f.payload
<1>. DEFINE msg == Message(f)
            D == DOMAIN msg.signals
            t == Type(msg)
            doubles == {n \in DOMAIN t.fields : t.fields[n][2] = "double"}
<1>1. \E n \in D : msg.signals[n].name = s
  <2>1. Known(f) /\ f.payload.long
    <3>. SUFFICES ASSUME ~Known(f) \/ ~f.payload.long
                  PROVE  FALSE
      OBVIOUS
    <3>1. Decode(f) = <<>>
      BY Zenon DEF Decode
    <3>2. DOMAIN <<>> = {}
      OBVIOUS
    <3>. QED  BY <3>1, <3>2
  <2>. DEFINE active == {n \in D : msg.signals[n].when \in {Always, f.payload.mux}}
              decoded == {msg.signals[n].name : n \in active}
  <2>2. Decode(f) = [x \in decoded |-> f.payload]
    BY <2>1, Zenon DEF Decode
  <2>3. s \in decoded
    <3>. HIDE DEF decoded
    <3>. QED  BY <2>2
  <2>. QED  BY <2>3
<1>2. PICK n \in D : msg.signals[n].name = s
  BY <1>1
<1>3. /\ DOMAIN t.fields = D
      /\ \A m \in D : t.fields[m] = <<Safe[msg.signals[m].name], "double">>
  <2>1. t.fields = [m \in D |-> <<SafeNames(msg)[m], "double">>]
    BY DEF Type
  <2>2. \A m \in D : SafeNames(msg)[m] = Safe[msg.signals[m].name]
    BY DEF SafeNames
  <2>. HIDE DEF t
  <2>. QED  BY <2>1, <2>2
<1>4. \A a, b \in D : Safe[msg.signals[a].name] = Safe[msg.signals[b].name] => a = b
  <2>1. Distinct(SafeNames(msg))
    <3>1. f.interface \in DOMAIN Dbc /\ f.id \in DOMAIN Dbc[f.interface] /\ Typed(f.interface)
      BY DEF HasType, Known, Typed
    <3>. QED  BY <3>1 DEF Typed, Message
  <2>. QED  BY <2>1 DEF Distinct, SafeNames
<1>. HIDE DEF t, D
<1>5. doubles = D
  BY <1>3
<1>6. t.fields[n][1] = Safe[s] /\ t.fields[n][2] = "double"
  BY <1>2, <1>3
<1>7. \A m \in doubles : t.fields[m][1] = Safe[s] => m = n
  <2>. SUFFICES ASSUME NEW m \in D, t.fields[m][1] = Safe[s]
                PROVE  m = n
    BY <1>5
  <2>1. Safe[msg.signals[m].name] = Safe[msg.signals[n].name]
    BY <1>2, <1>3
  <2>. QED  BY <1>4, <2>1
<1>8. (CHOOSE m \in doubles : t.fields[m][1] = Safe[s]) = n
  <2>1. n \in doubles /\ t.fields[n][1] = Safe[s]
    BY <1>5, <1>6
  <2>. HIDE DEF doubles
  <2>. QED  BY <1>7, <2>1
<1>9. Safe[s] \in {t.fields[m][1] : m \in doubles}
  <2>1. n \in doubles /\ t.fields[n][1] = Safe[s]
    BY <1>5, <1>6
  <2>. HIDE DEF doubles
  <2>. QED  BY <2>1
<1>10. n \in DOMAIN Serialized(f) /\ Serialized(f)[n] = <<"double", f.payload>>
  <2>. DEFINE S == {m \in DOMAIN Message(f).signals :
                      Message(f).signals[m].name \in DOMAIN Decode(f)}
  <2>1. n \in S
    BY <1>2 DEF D
  <2>2. Serialized(f) = [m \in S |-> <<"double", f.payload>>]
    BY Zenon DEF Serialized
  <2>. HIDE DEF S
  <2>. QED  BY <2>1, <2>2
<1>11. Field(t, Serialized(f), n) = f.payload
  <2>1. <<"double", f.payload>>[1] = "double" /\ <<"double", f.payload>>[2] = f.payload
    OBVIOUS
  <2>. QED  BY <1>6, <1>10, <2>1, Zenon DEF Field
<1>. QED  BY <1>8, <1>9, <1>11, Zenon DEF t

\* What is read of a data message that is that of a frame.
LEMMA FrameRead ==
  ASSUME NEW log, NEW f \in Bus, NEW m, Topic(log, m) = TopicOf(f, "data"),
         m.data = DataOf(f, "data"), TypeOf(log, m) \in Types,
         Fits(TopicOf(f, "data"), TypeOf(log, m).name)
  PROVE  LET read == ReplayedFrame(log, m)
         IN /\ <<read.interface, read.name, "data">> = TopicOf(f, "data")
            /\ ~HasType(f) /\ FallbackType.name \notin TypeNames => DOMAIN read.signals = {}
            /\ HasType(f) /\ Agreed(f) =>
                 \A s \in DOMAIN Decode(f) :
                   /\ Safe[s] \in DOMAIN read.signals
                   /\ read.signals[Safe[s]] = f.payload
<1>. DEFINE t == TypeOf(log, m)
            read == ReplayedFrame(log, m)
            doubles == {n \in DOMAIN t.fields : t.fields[n][2] = "double"}
            names == {t.fields[n][1] : n \in doubles}
<1>1. /\ read.interface = Topic(log, m)[1] /\ read.name = Topic(log, m)[2]
      /\ read.signals = [x \in names |->
           Field(t, m.data, CHOOSE n \in doubles : t.fields[n][1] = x)]
  BY DEF ReplayedFrame
<1>2. t.name = DataType(f).name
  BY DEF Fits
<1>3. <<read.interface, read.name, "data">> = TopicOf(f, "data")
  BY <1>1 DEF TopicOf
<1>4. ASSUME ~HasType(f), FallbackType.name \notin TypeNames
      PROVE  DOMAIN read.signals = {}
  <2>1. t.name = FallbackType.name
    BY <1>2, <1>4 DEF DataType
  <2>2. t = FallbackType
    <3>. HIDE DEF t
    <3>1. t \in {FallbackType, RawType, ScalarType}
      BY <1>4, <2>1, TypeNamed DEF t
    <3>. QED  BY <2>1, <3>1, Names
  <2>3. \A n \in DOMAIN FallbackType.fields : FallbackType.fields[n][2] # "double"
    BY DEF FallbackType
  <2>. HIDE DEF t, read
  <2>4. names = {}
    BY <2>2, <2>3
  <2>. HIDE DEF names
  <2>. QED  BY <1>1, <2>4
<1>5. ASSUME HasType(f), Agreed(f), NEW s \in DOMAIN Decode(f)
      PROVE  Safe[s] \in DOMAIN read.signals /\ read.signals[Safe[s]] = f.payload
  <2>1. t.name = Safe[Message(f).name] /\ t.name \notin Reserved
    BY <1>2, <1>5 DEF DataType, Type, Agreed
  <2>2. t = Type(Message(f))
    <3>. HIDE DEF t
    <3>1. t \notin {FallbackType, RawType, ScalarType}
      BY <2>1, Names
    <3>2. PICK g \in Bus : HasType(g) /\ t = Type(Message(g))
      BY <3>1, TypeNamed DEF t
    <3>3. /\ g.interface \in DOMAIN Dbc /\ Typed(g.interface)
          /\ g.id \in DOMAIN Dbc[g.interface]
          /\ Message(g) = Dbc[g.interface][g.id]
      BY <3>2 DEF HasType, Known, Message
    <3>4. Safe[Message(g).name] = Safe[Message(f).name]
      BY <2>1, <3>2 DEF Type
    <3>5. Type(Message(g)) = Type(Message(f))
      BY <1>5, <3>3, <3>4 DEF Agreed
    <3>. QED  BY <3>2, <3>5
  <2>3. m.data = Serialized(f)
    <3>1. m.data = DataBytes(f)
      BY DEF DataOf
    <3>. QED  BY <1>5, <3>1 DEF DataBytes
  <2>4. /\ Safe[s] \in names
        /\ Field(t, m.data, CHOOSE n \in doubles : t.fields[n][1] = Safe[s]) = f.payload
    <3>. HIDE DEF t
    <3>1. LET u == Type(Message(f))
              ds == {n \in DOMAIN u.fields : u.fields[n][2] = "double"}
          IN /\ Safe[s] \in {u.fields[n][1] : n \in ds}
             /\ Field(u, Serialized(f), CHOOSE n \in ds : u.fields[n][1] = Safe[s]) = f.payload
      BY <1>5, SignalRead
    <3>. QED  BY <2>2, <2>3, <3>1, Zenon
  <2>. HIDE DEF t, read, names
  <2>. QED  BY <1>1, <2>4
<1>. QED  BY <1>3, <1>4, <1>5, Zenon

\* Replayed data is one frame for one that was received.
LEMMA DataReads ==
  ASSUME NEW log, NEW hs \in Seq(Heard), Recorded(log, hs)
  PROVE  LET read == OnFrame(log)
         IN /\ Len(read) = Len(hs)
            /\ \A k \in DOMAIN read :
                 LET f == hs[k].frame
                 IN /\ <<read[k].interface, read[k].name, "data">> = TopicOf(f, "data")
                    /\ ~HasType(f) /\ FallbackType.name \notin TypeNames =>
                         DOMAIN read[k].signals = {}
                    /\ HasType(f) /\ Agreed(f) =>
                         \A s \in DOMAIN Decode(f) :
                           /\ Safe[s] \in DOMAIN read[k].signals
                           /\ read[k].signals[Safe[s]] = f.payload
<1>. DEFINE read == OnFrame(log)
            ms == OfKind(log, "data")
<1>1. "data" \in Kinds
  BY DEF Kinds
<1>2. Len(ms) = Len(hs) /\ Len(ms) \in Nat /\ ms \in Seq(Messages)
  BY <1>1, OfKindType DEF Recorded, Matches
<1>3. DOMAIN ms = 1..Len(hs)
  <2>. HIDE DEF ms
  <2>. QED  BY <1>2, LenProperties
<1>4. read = [k \in 1..Len(hs) |-> ReplayedFrame(log, ms[k])]
  BY <1>3 DEF OnFrame
<1>. HIDE DEF read
<1>5. DOMAIN read = 1..Len(hs) /\ \A k \in 1..Len(hs) : read[k] = ReplayedFrame(log, ms[k])
  <2>. HIDE DEF ms
  <2>. QED  BY <1>4
<1>6. Len(read) = Len(hs)
  <2>1. read = [k \in 1..Len(hs) |-> read[k]]
    <3>. HIDE DEF ms
    <3>. QED  BY <1>4, <1>5
  <2>2. Len(hs) \in Nat
    BY <1>2
  <2>. QED  BY <2>1, <2>2, SequenceLen
<1>7. ASSUME NEW k \in 1..Len(hs)
      PROVE  LET f == hs[k].frame
             IN /\ <<read[k].interface, read[k].name, "data">> = TopicOf(f, "data")
                /\ ~HasType(f) /\ FallbackType.name \notin TypeNames =>
                     DOMAIN read[k].signals = {}
                /\ HasType(f) /\ Agreed(f) =>
                     \A s \in DOMAIN Decode(f) :
                       /\ Safe[s] \in DOMAIN read[k].signals
                       /\ read[k].signals[Safe[s]] = f.payload
  <2>. DEFINE f == hs[k].frame
              m == ms[k]
  <2>1. /\ f \in Bus /\ Topic(log, m) = TopicOf(f, "data") /\ m.data = DataOf(f, "data")
        /\ TypeOf(log, m) \in Types /\ Fits(TopicOf(f, "data"), TypeOf(log, m).name)
    BY <1>1, MessageRead
  <2>2. read[k] = ReplayedFrame(log, m)
    BY <1>5
  <2>. HIDE DEF f, m
  <2>3. LET r == ReplayedFrame(log, m)
        IN /\ <<r.interface, r.name, "data">> = TopicOf(f, "data")
           /\ ~HasType(f) /\ FallbackType.name \notin TypeNames => DOMAIN r.signals = {}
           /\ HasType(f) /\ Agreed(f) =>
                \A s \in DOMAIN Decode(f) :
                  /\ Safe[s] \in DOMAIN r.signals /\ r.signals[Safe[s]] = f.payload
    BY <2>1, FrameRead
  <2>. QED  BY <2>2, <2>3, Zenon DEF f
<1>. QED  BY <1>5, <1>6, <1>7, Zenon DEF read

-----------------------------------------------------------------------------
(* The files.                                                              *)

LEMMA HeardType ==
  ASSUME NEW n \in Nat, n <= MaxLogs
  PROVE  /\ [frame : Bus, log : 0..n] \subseteq Heard
         /\ Seq([frame : Bus, log : 0..n]) \subseteq Seq(Heard)
<1>1. 0..n \subseteq 0..MaxLogs
  BY BoundsAssumption
<1>2. [frame : Bus, log : 0..n] \subseteq Heard
  BY <1>1 DEF Heard
<1>. QED  BY <1>2, SeqMonotonic

LEMMA InType ==
  ASSUME FilesInv, NEW n
  PROVE  In(n) \in Seq(Heard) /\ heard \in Seq(Heard) /\ Len(files) \in Nat
<1>1. Len(files) \in Nat /\ Len(files) <= MaxLogs /\ heard \in Seq([frame : Bus, log : 0..Len(files)])
  BY LenProperties DEF FilesInv
<1>2. heard \in Seq(Heard)
  BY <1>1, HeardType
<1>3. In(n) \in Seq(Heard)
  BY <1>2, FilterSeq DEF In
<1>. QED  BY <1>1, <1>2, <1>3

LEMMA FilesInit == Init => FilesInv
<1>. SUFFICES ASSUME Init
              PROVE  FilesInv
  OBVIOUS
<1>1. files = <<>> /\ heard = <<>> /\ logging = FALSE /\ last_ts = {}
  BY DEF Init
<1>2. files \in Seq(Logs) /\ Len(files) = 0 /\ heard \in Seq([frame : Bus, log : 0..Len(files)])
  BY <1>1, EmptySeq
<1>3. Len(files) <= MaxLogs /\ 1..Len(files) = {}
  BY <1>2, BoundsAssumption
<1>. QED  BY <1>1, <1>2, <1>3 DEF FilesInv

LEMMA FilesStart ==
  ASSUME FilesInv, Start
  PROVE  FilesInv'
<1>. DEFINE n == Len(files)
            T == [frame : Bus, log : 0..n]
<1>1. /\ n \in Nat /\ files \in Seq(Logs) /\ heard \in Seq(T) /\ n <= MaxLogs
      /\ heard \in Seq(Heard)
  BY LenProperties, InType DEF FilesInv
<1>2. NewLog \in Logs
  BY NewLogInv DEF LogInv
<1>3. files' = Append(files, NewLog) /\ n < MaxLogs /\ logging' = TRUE
      /\ UNCHANGED <<heard, last_ts>>
  BY DEF Start
<1>4. /\ files' \in Seq(Logs) /\ Len(files') = n + 1 /\ files'[n+1] = NewLog
      /\ \A k \in 1..n : files'[k] = files[k]
  BY <1>1, <1>2, <1>3, AppendProperties
<1>5. heard' \in Seq([frame : Bus, log : 0..Len(files')])
  <2>1. 0..n \subseteq 0..n+1
    BY <1>1
  <2>2. T \subseteq [frame : Bus, log : 0..n+1]
    BY <2>1
  <2>3. Seq(T) \subseteq Seq([frame : Bus, log : 0..n+1])
    BY <2>2, SeqMonotonic
  <2>. QED  BY <1>1, <1>3, <1>4, <2>3
<1>6. ASSUME NEW k \in 1..n+1
      PROVE  Recorded(files'[k], In(k)')
  <2>1. In(k)' = In(k)
    BY <1>3 DEF In
  <2>2. CASE k \in 1..n
    <3>1. Recorded(files[k], In(k))
      BY <2>2 DEF FilesInv
    <3>. QED  BY <1>4, <2>1, <2>2, <3>1, Zenon
  <2>3. CASE k = n + 1
    <3>1. In(k) = <<>>
      <4>1. T \cap {h \in Heard : h.log = k} = {}
        <5>. SUFFICES ASSUME NEW h \in T, h.log = k
                      PROVE  FALSE
          OBVIOUS
        <5>1. h.log \in 0..n
          OBVIOUS
        <5>. QED  BY <1>1, <2>3, <5>1
      <4>. HIDE DEF T
      <4>. QED  BY <1>1, <4>1, FilterNone DEF In
    <3>2. \A kind : Matches(NewLog, kind, <<>>)
      <4>. SUFFICES ASSUME NEW kind
                    PROVE  Matches(NewLog, kind, <<>>)
        OBVIOUS
      <4>1. OfKind(NewLog, kind) = <<>>
        <5>1. NewLog.messages = <<>>
          BY DEF NewLog
        <5>. QED  BY <5>1, FilterEmpty DEF OfKind
      <4>2. Len(<<>>) = 0 /\ 1..0 = {}
        OBVIOUS
      <4>. QED  BY <4>1, <4>2 DEF Matches
    <3>3. Recorded(NewLog, <<>>)
      BY <3>2, NewLogInv DEF Recorded
    <3>. QED  BY <1>4, <2>1, <2>3, <3>1, <3>3
  <2>4. k \in 1..n \/ k = n + 1
    BY <1>1
  <2>. QED  BY <2>2, <2>3, <2>4
<1>7. Len(files') <= MaxLogs /\ Len(files') > 0
  BY <1>1, <1>3, <1>4, BoundsAssumption
<1>8. \A k \in 1..Len(files') : Recorded(files'[k], In(k)')
  BY <1>4, <1>6
<1>9. last_ts' \subseteq Interfaces \X Ids
  BY <1>3 DEF FilesInv
<1>. QED  BY <1>3, <1>4, <1>5, <1>7, <1>8, <1>9 DEF FilesInv

LEMMA FilesStop ==
  ASSUME FilesInv, Stop
  PROVE  FilesInv'
<1>1. logging' = FALSE /\ last_ts' = {} /\ UNCHANGED <<files, heard>>
  BY DEF Stop
<1>2. \A n : In(n)' = In(n)
  BY <1>1 DEF In
<1>. QED  BY <1>1, <1>2 DEF FilesInv

LEMMA FilesReceive ==
  ASSUME FilesInv, NEW f \in Bus, Receive(f)
  PROVE  FilesInv'
<1>. DEFINE n == Len(files)
            T == [frame : Bus, log : 0..n]
            h == [frame |-> f, log |-> IF logging THEN n ELSE 0]
<1>1. /\ n \in Nat /\ files \in Seq(Logs) /\ heard \in Seq(T) /\ n <= MaxLogs
      /\ heard \in Seq(Heard) /\ (logging => n > 0) /\ logging \in BOOLEAN
      /\ last_ts \subseteq Interfaces \X Ids
  BY LenProperties, InType DEF FilesInv
<1>2. h \in T /\ h \in Heard /\ h.frame = f /\ h.log = IF logging THEN n ELSE 0
  <2>1. h \in T
    BY <1>1
  <2>. QED  BY <1>1, <2>1, HeardType
<1>3. heard' = Append(heard, h) /\ logging' = logging
  BY DEF Receive
<1>4. heard' \in Seq(T)
  <2>. HIDE DEF T, h
  <2>. QED  BY <1>1, <1>2, <1>3, AppendProperties
<1>5. \A k : In(k)' = IF h.log = k THEN Append(In(k), h) ELSE In(k)
  <2>. SUFFICES ASSUME NEW k
                PROVE  In(k)' = IF h.log = k THEN Append(In(k), h) ELSE In(k)
    OBVIOUS
  <2>. DEFINE S == {x \in Heard : x.log = k}
              U == Heard
  <2>1. h \in S <=> h.log = k
    BY <1>2
  <2>2. heard \in Seq(U) /\ h \in U
    BY <1>1, <1>2
  <2>3. In(k) = Filter(heard, S) /\ In(k)' = Filter(heard', S)
    BY DEF In, Heard
  <2>. HIDE DEF h, S, U
  <2>4. Filter(Append(heard, h), S) = IF h \in S THEN Append(Filter(heard, S), h) ELSE Filter(heard, S)
    BY <2>2, FilterAppend
  <2>. QED  BY <1>3, <2>1, <2>3, <2>4
<1>6. CASE ~logging
  <2>1. files' = files /\ last_ts' = last_ts
    BY <1>6 DEF Receive
  <2>2. \A k \in 1..n : In(k)' = In(k)
    <3>1. \A k \in 1..n : h.log # k
      BY <1>2, <1>6
    <3>. HIDE DEF h
    <3>. QED  BY <1>5, <3>1
  <2>3. \A k \in 1..Len(files') : Recorded(files'[k], In(k)')
    BY <2>1, <2>2 DEF FilesInv
  <2>4. heard' \in Seq([frame : Bus, log : 0..Len(files')])
    BY <1>4, <2>1
  <2>. HIDE DEF h, T
  <2>. QED  BY <1>1, <1>3, <2>1, <2>3, <2>4 DEF FilesInv
<1>7. CASE logging
  <2>. DEFINE old == files[n]
              ratio == <<f.interface, f.id>> \in last_ts
  <2>1. PICK valid \in BOOLEAN :
          files' = [files EXCEPT ![n] = Logged(IF valid THEN LoggedOutput(@) ELSE @, f, ratio)]
    BY <1>7 DEF Receive
  <2>. DEFINE mid == IF valid THEN LoggedOutput(old) ELSE old
              new == Logged(mid, f, ratio)
  <2>2. n \in 1..n
    BY <1>1, <1>7
  <2>3. Recorded(old, In(n))
    BY <2>2 DEF FilesInv
  <2>4. Recorded(mid, In(n))
    <3>1. Recorded(LoggedOutput(old), In(n))
      BY <1>2, <2>3, InType, RecordedOutput
    <3>. QED  BY <2>3, <3>1
  <2>5. Recorded(new, Append(In(n), h))
    <3>1. ratio \in BOOLEAN /\ In(n) \in Seq(Heard)
      BY InType
    <3>. HIDE DEF mid, ratio, h
    <3>2. Recorded(Logged(mid, h.frame, ratio), Append(In(n), h))
      BY <1>2, <2>4, <3>1, RecordedFrame
    <3>. QED  BY <1>2, <3>2, Zenon
  <2>6. files' = [files EXCEPT ![n] = new]
    BY <2>1, Zenon
  <2>7. new \in Logs
    BY <2>5 DEF Recorded, LogInv
  <2>. HIDE DEF new
  <2>8. /\ files' \in Seq(Logs) /\ Len(files') = n /\ files'[n] = new
        /\ \A k \in 1..n : k # n => files'[k] = files[k]
    BY <1>1, <2>2, <2>6, <2>7, ExceptSeq
  <2>9. ASSUME NEW k \in 1..n
        PROVE  Recorded(files'[k], In(k)')
    <3>1. CASE k = n
      <4>1. In(k)' = Append(In(n), h)
        <5>1. h.log = n
          BY <1>2, <1>7
        <5>. HIDE DEF h
        <5>. QED  BY <1>5, <3>1, <5>1
      <4>. QED  BY <2>5, <2>8, <3>1, <4>1
    <3>2. CASE k # n
      <4>1. In(k)' = In(k)
        <5>1. h.log = n
          BY <1>2, <1>7
        <5>. HIDE DEF h
        <5>. QED  BY <1>5, <3>2, <5>1
      <4>2. Recorded(files[k], In(k))
        BY DEF FilesInv
      <4>. QED  BY <2>8, <3>2, <4>1, <4>2
    <3>. QED  BY <3>1, <3>2
  <2>10. heard' \in Seq([frame : Bus, log : 0..Len(files')])
    BY <1>4, <2>8
  <2>11. last_ts' \subseteq Interfaces \X Ids
    <3>1. last_ts' = last_ts \cup {<<f.interface, f.id>>}
      BY <1>7 DEF Receive
    <3>2. <<f.interface, f.id>> \in Interfaces \X Ids
      BY BusAssumption DEF Frames
    <3>. QED  BY <1>1, <3>1, <3>2
  <2>. HIDE DEF h, T
  <2>. QED  BY <1>1, <1>3, <2>8, <2>9, <2>10, <2>11 DEF FilesInv
<1>. QED  BY <1>1, <1>6, <1>7

LEMMA FilesNext ==
  ASSUME FilesInv, [Next]_vars
  PROVE  FilesInv'
<1>1. ASSUME NEW f \in Bus, Receive(f)
      PROVE  FilesInv'
  BY <1>1, FilesReceive
<1>2. CASE Start
  BY <1>2, FilesStart
<1>3. CASE Stop
  BY <1>3, FilesStop
<1>4. CASE UNCHANGED vars
  <2>1. UNCHANGED <<files, heard, logging, last_ts>>
    BY <1>4 DEF vars
  <2>2. \A n : In(n)' = In(n)
    BY <2>1 DEF In
  <2>. QED  BY <2>1, <2>2 DEF FilesInv
<1>. QED  BY <1>1, <1>2, <1>3, <1>4 DEF Next

-----------------------------------------------------------------------------
(* What is shown.                                                          *)

LEMMA LastAppend ==
  ASSUME NEW T, NEW s \in Seq(T), NEW x \in T
  PROVE  Append(s, x) # <<>> /\ Last(Append(s, x)) = x /\ Append(s, x) \in Seq(T)
<1>1. Len(Append(s, x)) = Len(s) + 1 /\ Append(s, x)[Len(s)+1] = x /\ Append(s, x) \in Seq(T)
      /\ Len(s) \in Nat
  BY LenProperties, AppendProperties
<1>2. Len(<<>>) = 0 /\ Len(s) + 1 # 0
  BY <1>1
<1>. QED  BY <1>1, <1>2, Zenon DEF Last

LEMMA LastType ==
  ASSUME NEW T, NEW s \in Seq(T), s # <<>>
  PROVE  Last(s) \in T
<1>1. Len(s) \in 1..Len(s)
  BY EmptySeq, LenProperties
<1>2. s[Len(s)] \in T
  BY <1>1, ElementOfSeq
<1>. QED  BY <1>2 DEF Last

LEMMA DecodeEmpty ==
  ASSUME NEW f, DOMAIN Decode(f) = {}
  PROVE  Decode(f) = <<>>
<1>1. CASE ~Known(f) \/ ~f.payload.long
  BY <1>1, Zenon DEF Decode
<1>2. CASE ~(~Known(f) \/ ~f.payload.long)
  <2>. DEFINE signals == Message(f).signals
              active == {n \in DOMAIN signals : signals[n].when \in {Always, f.payload.mux}}
              decoded == {signals[n].name : n \in active}
  <2>1. Decode(f) = [x \in decoded |-> f.payload]
    BY <1>2, Zenon DEF Decode
  <2>. HIDE DEF decoded
  <2>2. decoded = {}
    BY <2>1
  <2>. QED  BY <2>1, <2>2
<1>. QED  BY <1>1, <1>2

\* The frame that is current afterwards.
LEMMA CurrentDomain ==
  ASSUME NEW set, NEW f
  PROVE  DOMAIN Current(set, f) = DOMAIN set \cup {f.id}
BY DEF Current, Put

LEMMA CurrentOthers ==
  ASSUME NEW set, NEW f
  PROVE  \A y \in DOMAIN set : y # f.id => Current(set, f)[y] = set[y]
BY DEF Current, Put

LEMMA CurrentStep ==
  ASSUME NEW set, NEW f
  PROVE  /\ Current(set, f)[f.id].payload = f.payload
         /\ Current(set, f)[f.id].decoded =
              IF f.id \in DOMAIN set /\ DOMAIN Decode(f) = {} /\ DOMAIN set[f.id].decoded # {}
              THEN set[f.id].decoded ELSE Decode(f)
<1>. DEFINE new == [payload |-> f.payload, decoded |-> Decode(f), name |-> MsgName(f)]
            old == set[f.id].decoded
            kept == f.id \in DOMAIN set /\ DOMAIN new.decoded = {} /\ DOMAIN old # {}
            first == [new EXCEPT !.decoded = old]
            name == IF new.name = "" THEN set[f.id].name ELSE new.name
            second == [first EXCEPT !.name = name]
            rec == IF kept THEN second ELSE new
<1>1. new.decoded = Decode(f) /\ new.payload = f.payload
  OBVIOUS
<1>2. first = [payload |-> f.payload, decoded |-> old, name |-> MsgName(f)]
  OBVIOUS
<1>3. second.payload = f.payload /\ second.decoded = old
  <2>. HIDE DEF name, first
  <2>. QED  BY <1>2
<1>4. first.name = new.name
  BY <1>2
<1>5. Current(set, f) = Put(set, f.id, rec)
  <2>1. [new EXCEPT !.decoded = old, !.name = IF @ = "" THEN set[f.id].name ELSE @] = second
    BY <1>4, Zenon
  <2>2. Current(set, f)
          = Put(set, f.id, IF kept THEN [new EXCEPT !.decoded = old,
                                                    !.name = IF @ = "" THEN set[f.id].name ELSE @]
                           ELSE new)
    BY Zenon DEF Current
  <2>. QED  BY <2>1, <2>2, Zenon
<1>6. rec.payload = f.payload /\ rec.decoded = IF kept THEN old ELSE Decode(f)
  <2>. HIDE DEF second, new, kept
  <2>. QED  BY <1>1, <1>3
<1>. HIDE DEF rec
<1>7. Current(set, f)[f.id] = rec
  BY <1>5 DEF Put
<1>. QED  BY <1>1, <1>6, <1>7, Zenon

\* What is heard of an id, and of it what a set selects, with one more.
Adds(i, id, f, h) ==
  /\ h.frame = f
  /\ Of(i, id) \in Seq(Heard)
  /\ Of(i, id)' = IF f.interface = i /\ f.id = id THEN Append(Of(i, id), h) ELSE Of(i, id)
  /\ \A S : Filter(Append(Of(i, id), h), S)
         = IF h \in S THEN Append(Filter(Of(i, id), S), h) ELSE Filter(Of(i, id), S)

LEMMA OfStep ==
  ASSUME FilesInv, NEW f \in Bus, Receive(f), NEW i, NEW id
  PROVE  \E h \in Heard : Adds(i, id, f, h)
<1>. DEFINE h == [frame |-> f, log |-> IF logging THEN Len(files) ELSE 0]
            U == Heard
            R == {x \in Heard : x.frame.interface = i /\ x.frame.id = id}
<1>1. heard \in Seq(U) /\ Len(files) \in Nat /\ Len(files) <= MaxLogs /\ logging \in BOOLEAN
  BY InType DEF FilesInv
<1>2. h \in U /\ h.frame = f
  BY <1>1, BoundsAssumption DEF Heard
<1>3. heard' = Append(heard, h)
  BY DEF Receive
<1>4. h \in R <=> f.interface = i /\ f.id = id
  BY <1>2
<1>5. Of(i, id) = Filter(heard, R) /\ Of(i, id)' = Filter(heard', R)
  BY DEF Of, Heard
<1>. HIDE DEF h, U, R
<1>6. Of(i, id) \in Seq(U)
  BY <1>1, <1>5, FilterSeq
<1>7. Of(i, id)' = IF h \in R THEN Append(Of(i, id), h) ELSE Of(i, id)
  BY <1>1, <1>2, <1>3, <1>5, FilterAppend
<1>8. \A S : Filter(Append(Of(i, id), h), S)
               = IF h \in S THEN Append(Filter(Of(i, id), S), h) ELSE Filter(Of(i, id), S)
  <2>. DEFINE s == Of(i, id)
  <2>1. s \in Seq(U)
    BY <1>6
  <2>. HIDE DEF s
  <2>2. \A S : Filter(Append(s, h), S) = IF h \in S THEN Append(Filter(s, S), h) ELSE Filter(s, S)
    BY <1>2, <2>1, FilterAppend
  <2>. QED  BY <2>2 DEF s
<1>9. Adds(i, id, f, h)
  BY <1>2, <1>4, <1>6, <1>7, <1>8, Zenon DEF Adds, U
<1>. QED  BY <1>2, <1>9, Zenon DEF U

LEMMA ShownInit == Init => ShownInv
<1>. SUFFICES ASSUME Init
              PROVE  ShownInv
  OBVIOUS
<1>1. shown = [i \in Interfaces |-> <<>>] /\ heard = <<>>
  BY DEF Init
<1>2. DOMAIN <<>> = {}
  OBVIOUS
<1>3. \A i, id : Of(i, id) = <<>>
  BY <1>1, FilterEmpty DEF Of
<1>. QED  BY <1>1, <1>2, <1>3 DEF ShownInv, Shows

LEMMA ShownReceive ==
  ASSUME FilesInv, ShownInv, NEW f \in Bus, Receive(f)
  PROVE  ShownInv'
<1>1. f.interface \in Interfaces /\ f.id \in Ids
  BY BusAssumption DEF Frames
<1>2. shown' = [shown EXCEPT ![f.interface] = Current(@, f)]
  BY DEF Receive
<1>3. DOMAIN shown = Interfaces
  BY DEF ShownInv
<1>4. /\ DOMAIN shown' = Interfaces
      /\ shown'[f.interface] = Current(shown[f.interface], f)
      /\ \A i \in Interfaces : i # f.interface => shown'[i] = shown[i]
  BY <1>1, <1>2, <1>3
<1>5. \A i \in Interfaces : DOMAIN shown[i] \subseteq Ids
  BY DEF ShownInv
<1>6. \A i \in Interfaces : DOMAIN shown'[i] \subseteq Ids
  <2>. SUFFICES ASSUME NEW i \in Interfaces
                PROVE  DOMAIN shown'[i] \subseteq Ids
    OBVIOUS
  <2>1. DOMAIN Current(shown[f.interface], f) = DOMAIN shown[f.interface] \cup {f.id}
    BY CurrentDomain, Zenon
  <2>. QED  BY <1>1, <1>4, <1>5, <2>1
<1>7. ASSUME NEW i \in Interfaces, NEW id \in Ids
      PROVE  Shows(i, id)'
  <2>0. PICK h \in Heard : Adds(i, id, f, h)
    BY OfStep, Zenon
  <2>1. /\ h \in Heard
        /\ h.frame = f
        /\ Of(i, id) \in Seq(Heard)
        /\ Of(i, id)' = IF f.interface = i /\ f.id = id THEN Append(Of(i, id), h) ELSE Of(i, id)
        /\ \A S : Filter(Append(Of(i, id), h), S)
             = IF h \in S THEN Append(Filter(Of(i, id), S), h) ELSE Filter(Of(i, id), S)
    BY <2>0, Zenon DEF Adds
  <2>. DEFINE all == Of(i, id)
              good == Filter(all, Decodable)
  <2>2. Shows(i, id)
    BY DEF ShownInv
  <2>3. CASE ~(f.interface = i /\ f.id = id)
    <3>1. Of(i, id)' = all
      BY <2>1, <2>3
    <3>2. /\ id \in DOMAIN shown'[i] <=> id \in DOMAIN shown[i]
          /\ id \in DOMAIN shown[i] => shown'[i][id] = shown[i][id]
      <4>1. CASE i # f.interface
        BY <1>4, <4>1
      <4>2. CASE i = f.interface
        <5>1. DOMAIN Current(shown[i], f) = DOMAIN shown[i] \cup {f.id}
          BY CurrentDomain, Zenon
        <5>2. \A y \in DOMAIN shown[i] : y # f.id => Current(shown[i], f)[y] = shown[i][y]
          BY CurrentOthers, Zenon
        <5>3. shown'[i] = Current(shown[i], f) /\ id # f.id
          BY <1>4, <2>3, <4>2
        <5>. QED  BY <5>1, <5>2, <5>3
      <4>. QED  BY <4>1, <4>2
    <3>. QED  BY <2>2, <3>1, <3>2 DEF Shows, Decodable, Heard
  <2>4. CASE f.interface = i /\ f.id = id
    <3>1. all \in Seq(Heard) /\ Of(i, id)' = Append(all, h)
      BY <2>1, <2>4
    <3>2. Filter(Append(all, h), Decodable) = IF h \in Decodable THEN Append(good, h) ELSE good
      BY <2>1
    <3>3. Append(all, h) # <<>> /\ Last(Append(all, h)) = h
      <4>. HIDE DEF all
      <4>. QED  BY <3>1, LastAppend
    <3>4. Append(good, h) # <<>> /\ Last(Append(good, h)) = h
          /\ (good # <<>> => Last(good) \in Decodable)
      <4>1. good \in Seq(Heard) /\ good \in Seq(Heard \cap Decodable)
        <5>. HIDE DEF all
        <5>. QED  BY <3>1, FilterSeq, FilterType
      <4>. HIDE DEF good
      <4>. QED  BY <4>1, LastAppend, LastType
    <3>5. h \in Decodable <=> DOMAIN Decode(f) # {}
      BY <2>1 DEF Decodable
    <3>. DEFINE set == shown[i]
    <3>6. /\ id \in DOMAIN shown'[i]
          /\ shown'[i][id].payload = f.payload
          /\ shown'[i][id].decoded =
               IF id \in DOMAIN set /\ DOMAIN Decode(f) = {} /\ DOMAIN set[id].decoded # {}
               THEN set[id].decoded ELSE Decode(f)
      <4>1. /\ f.id \in DOMAIN Current(set, f)
            /\ Current(set, f)[f.id].payload = f.payload
            /\ Current(set, f)[f.id].decoded =
                 IF f.id \in DOMAIN set /\ DOMAIN Decode(f) = {} /\ DOMAIN set[f.id].decoded # {}
                 THEN set[f.id].decoded ELSE Decode(f)
        <5>. HIDE DEF set
        <5>1. DOMAIN Current(set, f) = DOMAIN set \cup {f.id}
          BY CurrentDomain, Zenon
        <5>2. f.id \in DOMAIN Current(set, f)
          BY <5>1
        <5>. QED  BY <5>2, CurrentStep, Zenon
      <4>2. shown'[i] = Current(set, f) /\ id = f.id
        BY <1>4, <2>4
      <4>. QED  BY <4>1, <4>2, Zenon
    <3>7. shown'[i][id].decoded
            = LET g == Filter(Append(all, h), Decodable)
              IN IF g = <<>> THEN <<>> ELSE Decode(Last(g).frame)
      <4>1. CASE DOMAIN Decode(f) # {}
        BY <2>1, <3>2, <3>4, <3>5, <3>6, <4>1, Zenon
      <4>2. CASE DOMAIN Decode(f) = {}
        <5>1. Filter(Append(all, h), Decodable) = good /\ Decode(f) = <<>>
          BY <3>2, <3>5, <4>2, DecodeEmpty
        <5>2. CASE good = <<>>
          <6>1. id \in DOMAIN set => set[id].decoded = <<>>
            BY <2>2, <5>2 DEF Shows
          <6>2. DOMAIN <<>> = {}
            OBVIOUS
          <6>3. shown'[i][id].decoded = <<>>
            BY <3>6, <5>1, <6>1, <6>2, Zenon
          <6>. QED  BY <5>1, <5>2, <6>3, Zenon
        <5>3. CASE good # <<>>
          <6>1. all # <<>>
            BY <5>3, FilterEmpty
          <6>2. id \in DOMAIN set /\ set[id].decoded = Decode(Last(good).frame)
            BY <2>2, <5>3, <6>1 DEF Shows
          <6>3. DOMAIN Decode(Last(good).frame) # {}
            BY <3>4, <5>3 DEF Decodable
          <6>4. shown'[i][id].decoded = Decode(Last(good).frame)
            BY <3>6, <4>2, <6>2, <6>3, Zenon
          <6>. QED  BY <5>1, <5>3, <6>4, Zenon
        <5>. QED  BY <5>2, <5>3
      <4>. QED  BY <4>1, <4>2
    <3>8. Decodable' = Decodable
      BY DEF Decodable, Heard
    <3>. HIDE DEF all, good, set
    <3>. QED  BY <2>1, <3>1, <3>3, <3>6, <3>7, Zenon DEF Shows
  <2>. QED  BY <2>3, <2>4
<1>. QED  BY <1>4, <1>6, <1>7, Zenon DEF ShownInv

-----------------------------------------------------------------------------
(* What the model computes with.                                           *)

LEMMA DecodedKnown ==
  ASSUME NEW f, NEW s \in DOMAIN Decode(f)
  PROVE  Known(f) /\ f.payload.long /\ MsgName(f) = Dbc[f.interface][f.id].name
<1>1. Known(f) /\ f.payload.long
  <2>. SUFFICES ASSUME ~Known(f) \/ ~f.payload.long
                PROVE  FALSE
    OBVIOUS
  <2>1. Decode(f) = <<>>
    BY Zenon DEF Decode
  <2>2. DOMAIN <<>> = {}
    OBVIOUS
  <2>. QED  BY <2>1, <2>2
<1>. QED  BY <1>1 DEF MsgName, Message

LEMMA StoreInit == Init => StoreInv
<1>. SUFFICES ASSUME Init
              PROVE  StoreInv
  OBVIOUS
<1>1. \A i, id : Of(i, id) = <<>>
  BY FilterEmpty DEF Of, Init
<1>2. \A i, id, s : Filter(Of(i, id), With(s)) = <<>>
  BY <1>1, FilterEmpty
<1>. QED  BY <1>2 DEF StoreInv, Stores

LEMMA StoreReceive ==
  ASSUME FilesInv, StoreInv, NEW f \in Bus, Receive(f)
  PROVE  StoreInv'
<1>. DEFINE new == {<<f.interface, MsgName(f), n>> : n \in DOMAIN Decode(f)}
<1>1. /\ DOMAIN store' = DOMAIN store \cup new
      /\ \A k \in new : store'[k] = f.payload
      /\ \A k \in DOMAIN store : k \notin new => store'[k] = store[k]
  <2>1. store' = [k \in DOMAIN store \cup new |-> IF k \in new THEN f.payload ELSE store[k]]
    BY DEF Receive, Stored
  <2>. HIDE DEF new
  <2>. QED  BY <2>1
<1>2. ASSUME NEW i \in Interfaces, NEW id \in Ids, OwnName(i, id), NEW s \in Signals
      PROVE  Stores(i, id, s)'
  <2>0. PICK h \in Heard : Adds(i, id, f, h)
    BY OfStep, Zenon
  <2>1. /\ h \in Heard
        /\ h.frame = f
        /\ Of(i, id) \in Seq(Heard)
        /\ Of(i, id)' = IF f.interface = i /\ f.id = id THEN Append(Of(i, id), h) ELSE Of(i, id)
        /\ \A S : Filter(Append(Of(i, id), h), S)
             = IF h \in S THEN Append(Filter(Of(i, id), S), h) ELSE Filter(Of(i, id), S)
    BY <2>0, Zenon DEF Adds
  <2>. DEFINE all == Of(i, id)
              with == Filter(all, With(s))
              last == Last(with).frame
              key == <<i, MsgName(last), s>>
  <2>2. Stores(i, id, s)
    BY <1>2 DEF StoreInv
  <2>3. With(s)' = With(s)
    BY DEF With, Heard
  <2>4. h \in With(s) <=> s \in DOMAIN Decode(f)
    BY <2>1 DEF With
  <2>5. CASE f.interface = i /\ f.id = id /\ s \in DOMAIN Decode(f)
    <3>1. Filter(Of(i, id), With(s))' = Append(with, h)
      BY <2>1, <2>3, <2>4, <2>5
    <3>2. Last(Append(with, h)) = h
      <4>1. with \in Seq(Heard)
        <5>. HIDE DEF all
        <5>. QED  BY <2>1, FilterSeq DEF all
      <4>. HIDE DEF with
      <4>. QED  BY <4>1, LastAppend
    <3>. HIDE DEF with
    <3>3. <<i, MsgName(f), s>> \in new
      BY <2>5
    <3>4. <<i, MsgName(f), s>> \in DOMAIN store' /\ store'[<<i, MsgName(f), s>>] = f.payload
      <4>. HIDE DEF new
      <4>. QED  BY <1>1, <3>3
    <3>. HIDE DEF new
    <3>. QED  BY <2>1, <3>1, <3>2, <3>4 DEF Stores, MsgName, Known, Message
  <2>6. CASE ~(f.interface = i /\ f.id = id /\ s \in DOMAIN Decode(f))
    <3>1. Filter(Of(i, id), With(s))' = with
      BY <2>1, <2>3, <2>4, <2>6
    <3>2. ASSUME with # <<>>
          PROVE  key \notin new
      <4>. DEFINE R == {x \in Heard : x.frame.interface = i /\ x.frame.id = id}
      <4>1. Last(with) \in R /\ Last(with) \in With(s)
        <5>1. all \in Seq(Heard \cap R)
          <6>1. heard \in Seq(Heard) /\ all = Filter(heard, R)
            BY InType DEF Of
          <6>. HIDE DEF R, all
          <6>. QED  BY <6>1, FilterType
        <5>2. with \in Seq((Heard \cap R) \cap With(s))
          <6>. HIDE DEF R, all
          <6>. QED  BY <5>1, FilterType
        <5>. HIDE DEF R, with
        <5>3. Last(with) \in (Heard \cap R) \cap With(s)
          BY <3>2, <5>2, LastType
        <5>. QED  BY <5>3
      <4>2. last.interface = i /\ last.id = id /\ s \in DOMAIN Decode(last)
        BY <4>1 DEF With
      <4>. HIDE DEF last, with, all, R
      <4>. SUFFICES ASSUME NEW n \in DOMAIN Decode(f), key = <<f.interface, MsgName(f), n>>
                    PROVE  FALSE
        OBVIOUS
      <4>3. i = f.interface /\ MsgName(last) = MsgName(f) /\ n = s
        OBVIOUS
      <4>4. f.id # id
        BY <2>6, <4>3
      <4>5. MsgName(last) = Dbc[i][id].name /\ id \in DOMAIN Dbc[i] /\ i \in DOMAIN Dbc
        BY <4>2, DecodedKnown DEF Known
      <4>6. MsgName(f) = Dbc[i][f.id].name /\ f.id \in DOMAIN Dbc[i]
        BY <4>3, DecodedKnown DEF Known
      <4>. QED  BY <1>2, <4>3, <4>4, <4>5, <4>6 DEF OwnName
    <3>3. ASSUME with # <<>>
          PROVE  key \in DOMAIN store' /\ store'[key] = last.payload
      <4>1. key \in DOMAIN store /\ store[key] = last.payload
        BY <2>2, <3>3, Zenon DEF Stores
      <4>2. key \notin new
        BY <3>2, <3>3
      <4>. HIDE DEF new, key, last
      <4>. QED  BY <1>1, <4>1, <4>2
    <3>. HIDE DEF new
    <3>. QED  BY <3>1, <3>3 DEF Stores, MsgName, Known, Message
  <2>. QED  BY <2>5, <2>6
<1>. QED  BY <1>2 DEF StoreInv, OwnName, Signals

-----------------------------------------------------------------------------
(* The theorems.                                                           *)

LEMMA RecInit == Init => RecInv
BY FilesInit, ShownInit, StoreInit DEF RecInv

LEMMA RecNext == RecInv /\ [Next]_vars => RecInv'
<1>. SUFFICES ASSUME RecInv, [Next]_vars
              PROVE  RecInv'
  OBVIOUS
<1>1. FilesInv /\ ShownInv /\ StoreInv
  BY DEF RecInv
<1>2. FilesInv'
  BY <1>1, FilesNext
<1>3. ASSUME NEW f \in Bus, Receive(f)
      PROVE  ShownInv' /\ StoreInv'
  BY <1>1, <1>3, ShownReceive, StoreReceive
<1>4. ASSUME shown' = shown, store' = store, heard' = heard
      PROVE  ShownInv' /\ StoreInv'
  <2>1. ShownInv'
    BY <1>1, <1>4 DEF ShownInv, Shows, Of, Decodable, Heard
  <2>2. \A i, id, s : Filter(Of(i, id), With(s))' = Filter(Of(i, id), With(s))
    BY <1>4 DEF Of, With, Heard
  <2>3. ASSUME NEW i, NEW id, NEW s, Stores(i, id, s)
        PROVE  Stores(i, id, s)'
    <3>. DEFINE with == Filter(Of(i, id), With(s))
    <3>1. with' = with
      BY <2>2
    <3>. HIDE DEF with
    <3>2. Last(with)' = Last(with)
      BY <3>1
    <3>. QED  BY <1>4, <2>3, <3>1, <3>2 DEF Stores, with, MsgName, Known, Message
  <2>4. StoreInv'
    BY <1>1, <2>3 DEF StoreInv, OwnName, Signals
  <2>. QED  BY <2>1, <2>4
<1>5. Start \/ Stop \/ UNCHANGED vars => shown' = shown /\ store' = store /\ heard' = heard
  BY DEF Start, Stop, vars
<1>6. ShownInv' /\ StoreInv'
  BY <1>3, <1>4, <1>5 DEF Next
<1>. QED  BY <1>2, <1>6 DEF RecInv

LEMMA RecAlways == Spec => []RecInv
BY RecInit, RecNext, PTL DEF Spec

LEMMA FilesOK ==
  ASSUME FilesInv
  PROVE  /\ TypeNames \cap Reserved = {} => \A n \in DOMAIN files :
              OnSend(files[n]) = [k \in DOMAIN In(n) |->
                <<In(n)[k].frame.interface, In(n)[k].frame.id, In(n)[k].frame.payload>>]
         /\ DataExact
<1>1. DOMAIN files = 1..Len(files)
  BY LenProperties DEF FilesInv
<1>2. ASSUME NEW n \in 1..Len(files)
      PROVE  In(n) \in Seq(Heard) /\ Recorded(files[n], In(n))
  BY InType DEF FilesInv
<1>3. ASSUME TypeNames \cap Reserved = {}, NEW n \in 1..Len(files)
      PROVE  OnSend(files[n]) = [k \in DOMAIN In(n) |->
               <<In(n)[k].frame.interface, In(n)[k].frame.id, In(n)[k].frame.payload>>]
  BY <1>2, <1>3, RawReads
<1>4. ASSUME NEW n \in 1..Len(files)
      PROVE  LET read == OnFrame(files[n])
             IN /\ Len(read) = Len(In(n))
                /\ \A k \in DOMAIN read :
                     LET f == In(n)[k].frame
                     IN /\ <<read[k].interface, read[k].name, "data">> = TopicOf(f, "data")
                        /\ ~HasType(f) /\ FallbackType.name \notin TypeNames =>
                             DOMAIN read[k].signals = {}
                        /\ HasType(f) /\ Agreed(f) =>
                             \A s \in DOMAIN Decode(f) :
                               /\ Safe[s] \in DOMAIN read[k].signals
                               /\ read[k].signals[Safe[s]] = f.payload
  <2>. DEFINE hs == In(n)
              log == files[n]
  <2>1. hs \in Seq(Heard) /\ Recorded(log, hs)
    BY <1>2
  <2>. HIDE DEF hs, log
  <2>2. LET read == OnFrame(log)
        IN /\ Len(read) = Len(hs)
           /\ \A k \in DOMAIN read :
                LET f == hs[k].frame
                IN /\ <<read[k].interface, read[k].name, "data">> = TopicOf(f, "data")
                   /\ ~HasType(f) /\ FallbackType.name \notin TypeNames =>
                        DOMAIN read[k].signals = {}
                   /\ HasType(f) /\ Agreed(f) =>
                        \A s \in DOMAIN Decode(f) :
                          /\ Safe[s] \in DOMAIN read[k].signals
                          /\ read[k].signals[Safe[s]] = f.payload
    BY <2>1, DataReads
  <2>. QED  BY <2>2, Zenon DEF hs, log
<1>5. DataExact
  BY <1>1, <1>4, Zenon DEF DataExact
<1>. QED  BY <1>1, <1>3, <1>5, Zenon

\* A log that is replayed to the bus sends what was received while it was open, in
\* order (src/src/logger/McapLogger.cpp:280).
THEOREM RawRecorded == Spec => []RawExact
<1>1. RecInv => RawExact
  BY FilesOK DEF RecInv, RawExact
<1>. QED  BY <1>1, RecAlways, PTL

\* Replayed to the TUI it shows each frame with the signals that were decoded
\* (src/src/logger/McapLogger.cpp:47).
THEOREM DataRecorded == Spec => []DataExact
<1>1. RecInv => DataExact
  BY FilesOK DEF RecInv
<1>. QED  BY <1>1, RecAlways, PTL

\* What is shown and computed with is of the last decodable frames of the id
\* (src/src/frame/DataFrameSet.cpp:13, src/src/model/SignalStore.cpp:3).
THEOREM DecodedLast == Spec => []LastDecoded
<1>1. ASSUME RecInv
      PROVE  ShownDecoded
  <2>1. \A i \in Interfaces, id \in Ids : Shows(i, id)
    BY <1>1 DEF RecInv, ShownInv
  <2>. QED  BY <2>1 DEF ShownDecoded, Shows
<1>2. ASSUME RecInv
      PROVE  StoreLatest
  <2>. SUFFICES ASSUME NEW i \in Interfaces, NEW id \in Ids, OwnName(i, id),
                       NEW h \in Range(Of(i, id)), NEW s \in DOMAIN Decode(h.frame)
                PROVE  LET with == Filter(Of(i, id), With(s))
                       IN store[<<i, MsgName(Last(with).frame), s>>] = Last(with).frame.payload
    BY Zenon DEF StoreLatest
  <2>1. FilesInv /\ StoreInv
    BY <1>2 DEF RecInv
  <2>2. Of(i, id) \in Seq(Heard)
    <3>1. heard \in Seq(Heard)
      BY <2>1, InType
    <3>. QED  BY <3>1, FilterSeq DEF Of
  <2>. DEFINE all == Of(i, id)
  <2>3. h \in Heard
    <3>1. DOMAIN all = 1..Len(all) /\ \A k \in 1..Len(all) : all[k] \in Heard
      <4>. DEFINE T == Heard
      <4>1. all \in Seq(T)
        BY <2>2
      <4>. HIDE DEF all, T
      <4>2. DOMAIN all = 1..Len(all) /\ \A k \in 1..Len(all) : all[k] \in T
        BY <4>1, LenProperties, ElementOfSeq
      <4>. QED  BY <4>2 DEF T
    <3>2. PICK k \in DOMAIN all : h = all[k]
      BY DEF Range
    <3>. QED  BY <3>1, <3>2
  <2>4. h \in With(s) /\ s \in Signals
    <3>1. h.frame \in Bus
      BY <2>3 DEF Heard
    <3>. QED  BY <2>3, <3>1 DEF With, Signals
  <2>5. Filter(all, With(s)) # <<>>
    <3>1. h \in Range(all)
      OBVIOUS
    <3>. HIDE DEF all
    <3>. QED  BY <2>2, <2>4, <3>1, FilterFinds DEF all
  <2>6. Stores(i, id, s)
    BY <2>1, <2>4 DEF StoreInv
  <2>. QED  BY <2>5, <2>6 DEF Stores
<1>3. RecInv => LastDecoded
  BY <1>1, <1>2 DEF LastDecoded
<1>. QED  BY <1>3, RecAlways, PTL

\* The maps of the writer lead to what is in its own file
\* (src/src/logger/McapLogger.cpp:142).
THEOREM TypeCorrect == Spec => []TypeOK
<1>1. ASSUME RecInv
      PROVE  TypeOK
  <2>1. FilesInv /\ ShownInv
    BY <1>1 DEF RecInv
  <2>2. ASSUME NEW n \in DOMAIN files
        PROVE  /\ Range(files[n].schemas_) = DOMAIN files[n].schemas
               /\ Range(files[n].channels_) = DOMAIN files[n].channels
    <3>. DEFINE log == files[n]
    <3>1. n \in 1..Len(files)
      BY <2>1, LenProperties DEF FilesInv
    <3>2. LogInv(log)
      BY <2>1, <3>1 DEF FilesInv, Recorded
    <3>. HIDE DEF log
    <3>3. log.schemas \in Seq(Types) /\ log.channels \in Seq(Channels)
      BY <3>2, LogType DEF LogInv
    <3>4. DOMAIN log.schemas = 1..Len(log.schemas) /\ DOMAIN log.channels = 1..Len(log.channels)
      BY <3>3, LenProperties
    <3>. QED  BY <3>2, <3>4 DEF LogInv, SchemasInv, ChannelsInv, log
  <2>. QED  BY <2>1, <2>2 DEF TypeOK, FilesInv, ShownInv
<1>. QED  BY <1>1, RecAlways, PTL
=============================================================================
