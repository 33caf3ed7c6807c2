------------------------------- MODULE Framing -------------------------------
(* read_u16_payload and write_u16_payload (src/utils.rs): how states,          *)
(* configurations and responses are cut out of a byte stream between enclave    *)
(* and host.  The other modules take the stream for a queue of messages; this   *)
(* one shows that the two functions make it one, whatever pieces the reads      *)
(* return, until the connection ends inside a frame.                             *)
EXTENDS SequencesExt, Naturals

CONSTANTS
  Base,       \* values of a byte (256)
  Payloads,   \* byte sequences callers may ask to be written
  MaxFrames   \* bound: frames written in one behaviour

ASSUME BaseAssumption == Base \in Nat /\ Base > 1
ASSUME PayloadAssumption == Payloads \subseteq Seq(0 .. Base - 1)
ASSUME FramesAssumption == MaxFrames \in Nat

MaxPayload == Base * Base - 1   \* u16::MAX

VARIABLES
  wire,        \* bytes written and not yet read
  link,        \* "open"; "closed": the end of file follows the bytes;
               \* "reset": reads fail at once
  sent,        \* payloads written completely
  reader,      \* "length", "body", or "failed" after an error
  want,        \* `l`, the length announced by the frame being read
  got,         \* state_raw[..total]
  delivered    \* payloads returned by read_u16_payload

vars == <<wire, link, sent, reader, want, got, delivered>>

Init ==
  /\ wire = <<>> /\ link = "open" /\ sent = <<>>
  /\ reader = "length" /\ want = 0 /\ got = <<>> /\ delivered = <<>>

\* Two bytes, little end first; `as u16` keeps the length modulo the width.
LengthBytes(n) == <<n % Base, (n \div Base) % Base>>
Frame(p) == LengthBytes(Len(p)) \o p

-----------------------------------------------------------------------------
\* A variant without the check against u16::MAX.
WriteUnchecked(p) ==
  /\ link = "open" /\ Len(sent) < MaxFrames
  /\ wire' = wire \o Frame(p)
  /\ sent' = Append(sent, p)
  /\ UNCHANGED <<link, reader, want, got, delivered>>

\* write_u16_payload.  A payload that is too long is an error and nothing is
\* written.
Write(p) ==
  /\ link = "open" /\ Len(sent) < MaxFrames
  /\ Len(p) <= MaxPayload
  /\ wire' = wire \o Frame(p)
  /\ sent' = Append(sent, p)
  /\ UNCHANGED <<link, reader, want, got, delivered>>

\* The writer ends after some of the bytes of a frame, or between frames.
Die(p) ==
  /\ link = "open" /\ Len(p) <= MaxPayload
  /\ link' = "closed"
  /\ \E n \in 0 .. Len(Frame(p)) - 1 : wire' = wire \o SubSeq(Frame(p), 1, n)
  /\ UNCHANGED <<sent, reader, want, got, delivered>>

\* The connection is reset: what was not read is discarded.
Reset ==
  /\ link # "reset"
  /\ link' = "reset"
  /\ wire' = <<>>
  /\ UNCHANGED <<sent, reader, want, got, delivered>>

-----------------------------------------------------------------------------
\* A variant that takes the bytes of the length in the wrong order.
ReadLengthBigEndian ==
  /\ reader = "length" /\ Len(wire) >= 2
  /\ wire' = SubSeq(wire, 3, Len(wire))
  /\ want' = wire[2] + Base * wire[1]
  /\ got' = <<>>
  /\ IF want' = 0
       THEN delivered' = Append(delivered, <<>>) /\ UNCHANGED reader
       ELSE reader' = "body" /\ UNCHANGED delivered
  /\ UNCHANGED <<link, sent>>

\* read_exact of the length.
ReadLength ==
  /\ reader = "length" /\ Len(wire) >= 2
  /\ wire' = SubSeq(wire, 3, Len(wire))
  /\ want' = wire[1] + Base * wire[2]
  /\ got' = <<>>
  /\ IF want' = 0
       THEN delivered' = Append(delivered, <<>>) /\ UNCHANGED reader
       ELSE reader' = "body" /\ UNCHANGED delivered
  /\ UNCHANGED <<link, sent>>

LengthError ==
  /\ reader = "length" /\ link # "open" /\ Len(wire) < 2
  /\ reader' = "failed"
  /\ wire' = <<>>
  /\ UNCHANGED <<link, sent, want, got, delivered>>

\* Variant: a loop without the break at the end of the file.
BodyNeverEnds == reader = "body" /\ link # "open" /\ wire = <<>> /\ UNCHANGED vars

\* One turn of the loop: a read returns n bytes of those that have arrived.
ReadBody(n) ==
  /\ reader = "body" /\ n <= Len(wire) /\ n <= want - Len(got)
  /\ got' = got \o SubSeq(wire, 1, n)
  /\ wire' = SubSeq(wire, n + 1, Len(wire))
  /\ IF Len(got') >= want
       THEN reader' = "length" /\ delivered' = Append(delivered, got')
       ELSE UNCHANGED <<reader, delivered>>
  /\ UNCHANGED <<link, sent, want>>

\* The end of the file or an error inside a payload: what was read is returned
\* as if it were all, unless nothing was.  A blocking stream reports an error
\* when its connection is gone; one on a connection that lives on is left out.
BodyEnds ==
  /\ reader = "body" /\ link # "open" /\ wire = <<>>
  /\ IF got = <<>>
       THEN reader' = "failed" /\ UNCHANGED delivered
       ELSE reader' = "length" /\ delivered' = Append(delivered, got)
  /\ UNCHANGED <<wire, link, sent, want, got>>

Next ==
  \/ \E p \in Payloads : Write(p) \/ Die(p)
  \/ Reset
  \/ ReadLength \/ LengthError
  \/ \E n \in 1 .. MaxPayload : ReadBody(n)
  \/ BodyEnds

Spec == Init /\ [][Next]_vars

\* The reader is called again and again (the loops of the state syncers), and a
\* read returns when there is something to return.
Fairness ==
  /\ WF_vars(ReadLength)
  /\ WF_vars(\E n \in 1 .. MaxPayload : ReadBody(n))
  /\ WF_vars(BodyEnds) /\ WF_vars(LengthError)

FairSpec == Spec /\ Fairness

-----------------------------------------------------------------------------
\* The start of a payload that was not read to its end.
Truncated(q, p) == q # <<>> /\ IsStrictPrefix(q, p)

\* What is read is what was written, in order, however the bytes arrive.  Only
\* the last payload may be the start of another: of one its writer did not
\* finish, or of one whose end a reset discarded.
InStep ==
  /\ \A i \in DOMAIN delivered : i <= Len(sent) =>
       \/ delivered[i] = sent[i]
       \/ i = Len(delivered) /\ link = "reset" /\ Truncated(delivered[i], sent[i])
  /\ Len(delivered) > Len(sent) =>
       /\ link # "open" /\ wire = <<>>
       /\ Len(delivered) = Len(sent) + 1
       /\ \E p \in Payloads : Truncated(Last(delivered), p)

\* Every payload that was written completely is read in the end, unless the
\* connection is reset.
AllRead == \A i \in 1 .. MaxFrames : (Len(sent) >= i) ~> (Len(delivered) >= i \/ link = "reset")

\* After the connection has ended the reader fails, instead of returning
\* payloads for ever.
ReaderNotices == (link # "open") ~> (reader = "failed")
=============================================================================
