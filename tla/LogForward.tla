----------------------------- MODULE LogForward -----------------------------
(* The enclave's log lines on their way to the helper: the tracing layer that    *)
(* writes spans and events as length-prefixed fields (tracing_layer.rs, Layer),  *)
(* one vsock connection per event, and the helper's log server that makes one    *)
(* read of it and parses what it got (enclave_log_server.rs, Log::from_raw).     *)
(* A buffer is a sequence of units: bytes 0 .. Radix - 1, and names, which hold  *)
(* no newline.                                                                   *)
EXTENDS Naturals, Sequences, SequencesExt

CONSTANTS
  Radix, LenDigits,  \* bytes: 256, and digits of a length: 8
  NL,                \* the newline byte, 10
  BufSize,           \* the server's buffer: 8192
  Levels,            \* the values of a priority, one byte each (get_raw_level)
  Callsites,         \* metadata: [name, target, file, line], file and line possibly None
  Values,            \* what messages and user fields are
  None,
  MaxDepth, MaxFields, MaxUnderWay   \* bounds: spans, fields of a span, events not shown yet

ASSUME ByteAssumption == Radix \in Nat /\ Radix > 1 /\ NL \in 0 .. Radix - 1
ASSUME BoundAssumption == {LenDigits, BufSize, MaxDepth, MaxFields, MaxUnderWay} \subseteq Nat

\* What is left of n after each of its digits, the lowest first.
Rest(n) ==
  LET left[d \in 0 .. LenDigits] == IF d = 0 THEN n ELSE left[d - 1] \div Radix IN left

\* Strings are bytes, and their lengths are usize.
IsString(s) == s \in Seq(0 .. Radix - 1) /\ Rest(Len(s))[LenDigits] = 0

ASSUME StringAssumption ==
  /\ \A s \in Values \cup Levels : IsString(s)
  /\ \A l \in Levels : Len(l) = 1
  /\ \A c \in Callsites :
       /\ IsString(c.name) /\ IsString(c.target)
       /\ c.file # None => IsString(c.file)
       /\ c.line # None => IsString(c.line)

PRIORITY == <<Radix>>
TARGET == <<Radix + 1>>
CODE_FILE == <<Radix + 2>>
CODE_LINE == <<Radix + 3>>
MESSAGE == <<Radix + 4>>
NAME == <<Radix + 5>>
USER == <<Radix + 6>>

\* What a field of an event may be called: Layer::new sets no prefix, so that
\* user fields share the names of the metadata (sanitize_name: in upper case).
UserNames == {USER, TARGET, PRIORITY}

VARIABLES
  spans,        \* the fields of the spans the enclave is in, from the root
  queue,        \* events sent and not accepted yet, as their fields
  spc,          \* the server's step; "dead": its thread has panicked
  event, raw,   \* the event on its connection, and what the read returned of it
  index, log    \* from_raw: flag_index_next, and the values by key

server == <<event, raw, index, log>>
logVars == <<spans, queue, spc, server>>

Field(k, v) == [key |-> k, value |-> v]

-----------------------------------------------------------------------------
\* The layer.

\* to_le_bytes
Digits(n) == [d \in 1 .. LenDigits |-> Rest(n)[d - 1] % Radix]

\* put_field, put_value and put_debug
PutField(f) == f.key \o <<NL>> \o Digits(Len(f.value)) \o f.value \o <<NL>>

Encode(fields) == FlattenSeq([i \in DOMAIN fields |-> PutField(fields[i])])

\* "S{depth}_", in front of the names of a span's fields
SpanKey(depth, k) == <<Radix + 10 + depth>> \o k

\* put_metadata
Metadata(c) ==
  <<Field(TARGET, c.target)>>
  \o (IF c.file = None THEN <<>> ELSE <<Field(CODE_FILE, c.file)>>)
  \o (IF c.line = None THEN <<>> ELSE <<Field(CODE_LINE, c.line)>>)

InSpan(depth, fields) ==
  [i \in DOMAIN fields |-> Field(SpanKey(depth, fields[i].key), fields[i].value)]

\* on_new_span, whose depth is the number of spans around it
NewSpan(c) ==
  /\ Len(spans) < MaxDepth
  /\ spans' = Append(spans, InSpan(Len(spans), <<Field(NAME, c.name)>> \o Metadata(c)))
  /\ UNCHANGED <<queue, spc, server>>

\* on_record, in the innermost span
RecordField(v) ==
  /\ spans # <<>> /\ Len(Last(spans)) < MaxFields
  /\ spans' = [spans EXCEPT ![Len(spans)] =
                 @ \o InSpan(Len(spans) - 1, <<Field(USER, v)>>)]
  /\ UNCHANGED <<queue, spc, server>>

ExitSpan ==
  /\ spans # <<>>
  /\ spans' = Front(spans)
  /\ UNCHANGED <<queue, spc, server>>

UnderWay == Len(queue) + (IF spc \in {"read", "parse", "show"} THEN 1 ELSE 0)

\* on_event: the fields of the spans, the metadata, the message and perhaps a
\* field.  It is sent on a connection of its own, if there is a listener; what
\* cannot be sent is dropped.
OnEvent(c, level, fields) ==
  /\ spc \notin {"listen", "dead"} /\ UnderWay < MaxUnderWay
  /\ queue' = Append(queue, FlattenSeq(spans) \o <<Field(PRIORITY, level)>>
                             \o Metadata(c) \o fields)
  /\ UNCHANGED <<spans, spc, server>>

-----------------------------------------------------------------------------
\* The server.

Listen ==
  /\ spc = "listen"
  /\ spc' = "accept"
  /\ UNCHANGED <<spans, queue, server>>

Accept ==
  /\ spc = "accept" /\ queue # <<>>
  /\ event' = Head(queue) /\ queue' = Tail(queue) /\ spc' = "read"
  /\ UNCHANGED <<spans, raw, index, log>>

\* One read, of what has arrived or what the buffer holds, if that is less; then
\* from_raw begins with the default log.
Read ==
  /\ spc = "read"
  /\ \E n \in 0 .. Len(Encode(event)) :
       /\ n <= BufSize
       /\ raw' = SubSeq(Encode(event), 1, n)
  /\ index' = 0 /\ log' = <<>> /\ spc' = "parse"
  /\ UNCHANGED <<spans, queue, event>>

\* Accepting or reading fails: the connection is dropped, and the listener, with
\* the events that wait at it, a second later.
Fails ==
  /\ spc \in {"accept", "read"}
  /\ spc' = "sleep" /\ event' = <<>>
  /\ UNCHANGED <<spans, queue, raw, index, log>>

Wake ==
  /\ spc = "sleep"
  /\ queue' = <<>> /\ spc' = "listen"
  /\ UNCHANGED <<spans, server>>

\* from_raw: the indices of the field that begins at flag_index_next.
Newlines == {i \in index .. Len(raw) - 1 : raw[i + 1] = NL}
KeyEnd == CHOOSE i \in Newlines : \A j \in Newlines : i <= j
ValueBegin == KeyEnd + 1 + LenDigits
ValueLen ==
  LET upper[d \in 0 .. LenDigits] ==   \* the number the highest d digits make
        IF d = 0 THEN 0 ELSE raw[ValueBegin + 1 - d] + Radix * upper[d - 1]
  IN  upper[LenDigits]
ValueEnd == ValueBegin + ValueLen

\* There is a whole one: its name, its length and its value.
HasField ==
  /\ Newlines # {}
  /\ KeyEnd - index < Len(raw) - 1
  /\ ValueBegin < Len(raw)
  /\ ValueEnd <= Len(raw)

\* The copy of a priority into an array of one byte.
Panics(f) == f.key = PRIORITY /\ Len(f.value) # 1

FieldRead == Field(SubSeq(raw, index + 1, KeyEnd), SubSeq(raw, ValueBegin + 1, ValueEnd))

\* update, where the last value of a key counts; a priority of one byte that is
\* no level is ignored
Update(l, k, v) ==
  IF k = PRIORITY /\ v \notin Levels THEN l
  ELSE [x \in {k} \cup DOMAIN l |-> IF x = k THEN v ELSE l[x]]

\* Variants: the newline after a value is taken for a part of the next name; the
\* loop does not get on from an empty value.
ParseFieldNoNewline ==
  /\ spc = "parse" /\ HasField /\ ~Panics(FieldRead)
  /\ index' = ValueEnd
  /\ log' = Update(log, FieldRead.key, FieldRead.value)
  /\ UNCHANGED <<spans, queue, spc, event, raw>>

ParseFieldStuck ==
  /\ spc = "parse" /\ HasField /\ ~Panics(FieldRead)
  /\ index' = IF ValueLen = 0 THEN index ELSE ValueEnd + 1
  /\ log' = Update(log, FieldRead.key, FieldRead.value)
  /\ UNCHANGED <<spans, queue, spc, event, raw>>

ParseField ==
  /\ spc = "parse" /\ HasField /\ ~Panics(FieldRead)
  /\ index' = ValueEnd + 1
  /\ log' = Update(log, FieldRead.key, FieldRead.value)
  /\ UNCHANGED <<spans, queue, spc, event, raw>>

\* The copy panics and unwinds the server's thread: connection, listener and what
\* waits at it are dropped, and nothing starts the thread again.
UpdatePanics ==
  /\ spc = "parse" /\ HasField /\ Panics(FieldRead)
  /\ spc' = "dead" /\ queue' = <<>>
  /\ UNCHANGED <<spans, server>>

\* The loop's breaks.
ParseEnds ==
  /\ spc = "parse" /\ ~HasField
  /\ spc' = "show"
  /\ UNCHANGED <<spans, queue, server>>

\* process_log writes the line and the next connection is accepted.
Show ==
  /\ spc = "show"
  /\ spc' = "accept" /\ event' = <<>> /\ raw' = <<>> /\ index' = 0 /\ log' = <<>>
  /\ UNCHANGED <<spans, queue>>

-----------------------------------------------------------------------------
LogInit ==
  /\ spans = <<>> /\ queue = <<>> /\ spc = "listen"
  /\ event = <<>> /\ raw = <<>> /\ index = 0 /\ log = <<>>

EventFields ==
  {<<Field(MESSAGE, v)>> : v \in Values}
  \cup {<<Field(MESSAGE, v), Field(k, w)>> : k \in UserNames, v \in Values, w \in Values}

LogNext ==
  \/ \E c \in Callsites : NewSpan(c)
  \/ \E v \in Values : RecordField(v)
  \/ ExitSpan
  \/ \E c \in Callsites, level \in Levels, f \in EventFields : OnEvent(c, level, f)
  \/ Listen \/ Accept \/ Read \/ Fails \/ Wake
  \/ ParseField \/ UpdatePanics \/ ParseEnds \/ Show

\* The server's thread is scheduled.
LogSpec ==
  /\ LogInit /\ [][LogNext]_logVars
  /\ WF_logVars(Listen \/ Accept \/ Wake \/ Read
                \/ ParseField \/ UpdatePanics \/ ParseEnds \/ Show)

-----------------------------------------------------------------------------
\* The values by key: the last one counts, priorities that are none do not.
Counts(f) == f.key = PRIORITY => f.value \in Levels
Setting(fields, k) == {i \in DOMAIN fields : fields[i].key = k /\ Counts(fields[i])}
LogOf(fields) ==
  [k \in {fields[i].key : i \in {j \in DOMAIN fields : Counts(fields[j])}} |->
     fields[Max(Setting(fields, k))].value]

\* The line shown is made of whole fields of one event, the first ones, each
\* with the value it was logged with, newlines in values and newline bytes in
\* lengths notwithstanding; and of all that arrived whole.
ShowsWholeFields ==
  spc = "show" => \E n \in 0 .. Len(event) :
    /\ log = LogOf(SubSeq(event, 1, n))
    /\ Len(Encode(SubSeq(event, 1, n))) <= Len(raw) + 1
    /\ n < Len(event) => Len(Encode(SubSeq(event, 1, n + 1))) > Len(raw)

\* An event that was sent is shown or lost with its listener: from_raw comes to
\* an end and the server turns to the next connection, whatever part of the
\* event arrived.  The one thing that stops it for good is an event with a user
\* field named like the priority and a value of another length than one, which
\* Log::update (tracing_layer.rs:360) cannot copy.
KeepsServing ==
  UnderWay > 0 ~> \/ spc \in {"show", "sleep"}
                  \/ spc = "dead" /\ \E i \in DOMAIN event : Panics(event[i])
=============================================================================
