----------------------------- MODULE Transport -----------------------------
(***************************************************************************)
(* The connections a Shadowsocks proxy stacks on TCP, in one direction and *)
(* one layer at a time: the AEAD and the stream cipher connections          *)
(* (transport/shadowsocks) and both directions of TLS obfuscation           *)
(* (transport/simple-obfs).  Each layer runs on an ordered byte stream and  *)
(* is shown to be one again (module ByteStream), which is what allows       *)
(* proxy/shadowsocks to put one on top of another.                          *)
(*                                                                         *)
(* The wire is a sequence of tokens.  A two-byte size, an authentication    *)
(* tag and a salt are one token each; sealing keeps the nonce, the place    *)
(* and the extent of every token, so that Open fails on anything but the    *)
(* whole box under the same nonce.  io.ReadFull is one step: nobody else    *)
(* reads the connection while it waits.                                     *)
(***************************************************************************)
EXTENDS Integers, Sequences

CONSTANTS
  Layers,       \* subset of {"aead", "stream", "tlsUp", "tlsDown"}
  Length,       \* bound on the bytes written
  MaxPayload,   \* payloadSizeMask, bufSize of shadowstream, chunkSize
  Buffers,      \* sizes of the slices the callers pass to Read
  FirstHeader,  \* bytes before the size of the first TLS record
  Header        \* bytes before the size of a later one: type and version

ASSUME TransportAssumption ==
  /\ Layers \subseteq {"aead", "stream", "tlsUp", "tlsDown"}
  /\ Length \in Nat /\ MaxPayload \in Nat \ {0} /\ Buffers \subseteq Nat \ {0}
  /\ FirstHeader \in Nat \ {0} /\ Header \in Nat \ {0}

VARIABLES
  layer,
  sent, delivered, closed, broken, end,   \* as in ByteStream
  todo,   \* bytes of the current Write not yet passed down
  wire,   \* tokens written below and not yet read
  w,      \* writer: first write done, nonces or key stream used, gave up
  r       \* reader: next step, nonces or key stream used, size, remain, buf

below == <<wire, w, r, todo>>
vars  == <<layer, sent, delivered, closed, broken, end, below>>

Tag == 1
Garbage == 0

Token(kind, val, at) == [kind |-> kind, val |-> val, at |-> at]
Plain(kind, vals) == [i \in 1..Len(vals) |-> Token(kind, vals[i], <<>>)]
Heads(n) == [i \in 1..n |-> Token("head", Garbage, <<>>)]

\* cipher.AEAD: Seal and Open.
Seal(nonce, vals) ==
  [i \in 1..(Len(vals) + Tag) |->
     Token("box", IF i <= Len(vals) THEN vals[i] ELSE Garbage, <<nonce, i, Len(vals)>>)]
Vals(box) == [i \in 1..(Len(box) - Tag) |-> box[i].val]
Opens(nonce, box) == box = Seal(nonce, Vals(box))

Init ==
  /\ layer \in Layers
  /\ sent = <<>> /\ delivered = <<>>
  /\ closed = FALSE /\ broken = FALSE /\ end = "none"
  /\ todo = 0 /\ wire = <<>>
  /\ w = [init |-> FALSE, count |-> 0, failed |-> FALSE]
  /\ r = [at |-> "first", count |-> 0, size |-> 0, remain |-> 0, buf |-> <<>>]

-----------------------------------------------------------------------------
(***************************************************************************)
(* The writing side.                                                       *)
(***************************************************************************)
Write ==
  /\ ~closed /\ todo = 0 /\ ~w.failed
  /\ \E k \in 1..(Length - Len(sent)) :
       /\ sent' = sent \o [i \in 1..k |-> Len(sent) + i]
       /\ todo' = k
  /\ UNCHANGED <<layer, delivered, closed, broken, end, wire, w, r>>

\* initWriter: the salt, or the IV, goes out before the first byte.
Prologue ==
  /\ todo > 0 /\ ~w.init /\ ~broken
  /\ wire' = Append(wire, Token("salt", Garbage, <<>>))
  /\ w' = [w EXCEPT !.init = TRUE]
  /\ UNCHANGED <<layer, sent, delivered, closed, broken, end, todo, r>>
WriteSalt == layer = "aead" /\ Prologue
WriteIV   == layer = "stream" /\ Prologue

\* One turn of a Write loop puts a frame on the connection below.
Pass(n, frame, count) ==
  /\ wire' = wire \o frame
  /\ todo' = todo - n
  /\ w' = [w EXCEPT !.init = TRUE, !.count = @ + count]
  /\ UNCHANGED <<layer, sent, delivered, closed, broken, end, r>>

Chunk  == IF todo < MaxPayload THEN todo ELSE MaxPayload
Out(n) == SubSeq(sent, Len(sent) - todo + 1, Len(sent) - todo + n)

\* Mutant: the nonce is not incremented between the size and the payload.
AEADFrameOneNonce(n) == Seal(w.count, <<n>>) \o Seal(w.count, Out(n))
AEADFrame(n) == Seal(w.count, <<n>>) \o Seal(w.count + 1, Out(n))
WriteAEAD ==
  /\ layer = "aead" /\ w.init /\ todo > 0 /\ ~broken
  /\ Pass(Chunk, AEADFrame(Chunk), 2)

StreamFrame(n) == [i \in 1..n |-> Token("byte", Out(n)[i], <<w.count + i>>)]
WriteStream ==
  /\ layer = "stream" /\ w.init /\ todo > 0 /\ ~broken
  /\ Pass(Chunk, StreamFrame(Chunk), Chunk)

\* The first chunk travels in the session ticket of the client hello, with the
\* other extensions behind it.
Sized(n) == Plain("size", <<n>>) \o Plain("byte", Out(n))
HelloFrame(n)  == Heads(FirstHeader) \o Sized(n) \o Heads(1)
RecordFrame(n) == Heads(Header) \o Sized(n)
WriteTLS ==
  /\ layer = "tlsUp" /\ todo > 0 /\ ~broken
  /\ Pass(Chunk, IF w.init THEN RecordFrame(Chunk) ELSE HelloFrame(Chunk), 0)

\* The simple-obfs server: records of a size of its own choice, the first
\* behind the server hello and the change of cipher.
ServerFrame(n) == Heads(IF w.init THEN Header ELSE FirstHeader) \o Sized(n)
ServerWrite ==
  /\ layer = "tlsDown" /\ todo > 0 /\ ~broken
  /\ \E n \in 1..todo : Pass(n, ServerFrame(n), 0)

\* Mutant: a failed write counts a whole chunk as written and goes on.
WriteFailsCounted ==
  /\ todo > 0 /\ broken
  /\ todo' = todo - MaxPayload
  /\ UNCHANGED <<layer, sent, delivered, closed, broken, end, wire, w, r>>
\* The connection below refuses the write: Write returns the error and
\* io.CopyBuffer does not call it again.
WriteFails ==
  /\ todo > 0 /\ broken
  /\ todo' = 0 /\ w' = [w EXCEPT !.failed = TRUE]
  /\ UNCHANGED <<layer, sent, delivered, closed, broken, end, wire, r>>

Close ==
  /\ ~closed /\ todo = 0
  /\ closed' = TRUE
  /\ UNCHANGED <<layer, sent, delivered, broken, end, below>>

\* The TCP connection is reset: what is in flight may be lost.
Break ==
  /\ ~broken /\ end = "none"
  /\ broken' = TRUE
  /\ \E n \in 0..Len(wire) : wire' = SubSeq(wire, 1, n)
  /\ UNCHANGED <<layer, sent, delivered, closed, end, w, r, todo>>

-----------------------------------------------------------------------------
(***************************************************************************)
(* The reading side.                                                       *)
(***************************************************************************)
writing == <<layer, sent, closed, broken, w, todo>>

\* io.ReadFull of k bytes can succeed, or runs into the end of the connection:
\* io.EOF when nothing was read, io.ErrUnexpectedEOF or the network's error.
Full(k)  == Len(wire) >= k
Short(k) == Len(wire) < k /\ (broken \/ closed)
Ended(k) == IF ~broken /\ wire = <<>> THEN "eof" ELSE "error"

Take(k) == SubSeq(wire, 1, k)
Drop(k) == wire' = SubSeq(wire, k + 1, Len(wire))

\* ReadFull of k bytes fails and Read returns the error.
GiveUp(k) ==
  /\ Short(k)
  /\ end' = Ended(k) /\ wire' = <<>>
  /\ UNCHANGED <<writing, delivered, r>>

Return(vals) == delivered' = delivered \o vals

\* initReader: the salt, or the IV; the reader exists once it has been read.
SkipPrologue(next) ==
  /\ end = "none" /\ r.at = "first"
  /\ \/ /\ Full(1) /\ Drop(1)
        /\ r' = [r EXCEPT !.at = next]
        /\ UNCHANGED <<writing, delivered, end>>
     \/ GiveUp(1)
ReadSalt == layer = "aead" /\ SkipPrologue("size")
ReadIV   == layer = "stream" /\ SkipPrologue("data")

\* Reader.read, first half: the size and its tag.
AfterSize(n) == [r EXCEPT !.at = "data", !.size = n, !.count = @ + 1]
ReadAEADSize ==
  /\ layer = "aead" /\ end = "none" /\ r.at = "size" /\ r.buf = <<>>
  /\ \/ /\ Full(1 + Tag) /\ Drop(1 + Tag)
        /\ LET box == Take(1 + Tag)
               ok  == Opens(r.count, box) /\ box[1].val # 0
           IN  /\ r' = AfterSize(box[1].val)
               /\ end' = IF ok THEN "none" ELSE "error"
        /\ UNCHANGED <<writing, delivered>>
     \/ GiveUp(1 + Tag)

\* Mutant: the buffer goes back to the pool after the first copy from it.
KeepNothing(data, b) == <<>>
\* Copy what fits into the caller's slice and keep the rest.
Keep(data, b) == SubSeq(data, b + 1, Len(data))
Give(data, b) == SubSeq(data, 1, IF b < Len(data) THEN b ELSE Len(data))

\* Reader.read, second half, and Read: straight into a slice that can hold any
\* record, through r.buf otherwise.
ReadAEADData ==
  /\ layer = "aead" /\ end = "none" /\ r.at = "data"
  /\ \/ /\ Full(r.size + Tag) /\ Drop(r.size + Tag)
        /\ LET box == Take(r.size + Tag) IN
             IF Opens(r.count, box)
             THEN \E b \in Buffers :
                    /\ Return(Give(Vals(box), b)) /\ UNCHANGED end
                    /\ r' = [r EXCEPT !.at = "size", !.count = @ + 1,
                                      !.buf = Keep(Vals(box), b)]
             ELSE end' = "error" /\ UNCHANGED <<delivered, r>>
        /\ UNCHANGED writing
     \/ GiveUp(r.size + Tag)

ReadAEADBuf ==
  /\ layer = "aead" /\ end = "none" /\ r.buf # <<>>
  /\ \E b \in Buffers :
       /\ Return(Give(r.buf, b))
       /\ r' = [r EXCEPT !.buf = Keep(@, b)]
  /\ UNCHANGED <<writing, end, wire>>

\* A single Read of the connection below returns what has arrived, up to b.
Arrived(b) == 1..(IF b < Len(wire) THEN b ELSE Len(wire))

Decrypt(t, at) == IF t.at = <<at>> THEN t.val ELSE Garbage
ReadStream ==
  /\ layer = "stream" /\ end = "none" /\ r.at = "data"
  /\ \/ \E b \in Buffers : \E n \in Arrived(b) :
          /\ Drop(n) /\ Return([i \in 1..n |-> Decrypt(wire[i], r.count + i)])
          /\ r' = [r EXCEPT !.count = @ + n]
          /\ UNCHANGED <<writing, end>>
     \/ GiveUp(1)

\* TLSObfs.read: the header before the size is skipped unread.
ReadTLSHeader ==
  /\ layer = "tlsDown" /\ end = "none" /\ r.at \in {"first", "head"} /\ r.remain = 0
  /\ LET k == IF r.at = "first" THEN FirstHeader ELSE Header IN
       \/ /\ Full(k) /\ Drop(k)
          /\ r' = [r EXCEPT !.at = "size"]
          /\ UNCHANGED <<writing, delivered, end>>
       \/ GiveUp(k)

\* A size that cannot be read makes Read return 0, nil: the caller reads on.
ReadTLSSize ==
  /\ layer = "tlsDown" /\ end = "none" /\ r.at = "size"
  /\ \/ Full(1) /\ Drop(1) /\ r' = [r EXCEPT !.at = "data", !.size = wire[1].val]
     \/ Short(1) /\ r' = [r EXCEPT !.at = "head"] /\ UNCHANGED wire
  /\ UNCHANGED <<writing, delivered, end>>

Bytes(n) == [i \in 1..n |-> wire[i].val]

\* ReadFull of n bytes into the caller's slice; what came before an error is
\* returned with it.
ReadInto(n, remain) ==
  LET m == IF Full(n) THEN n ELSE Len(wire) IN
    /\ Full(n) \/ Short(n)
    /\ Drop(m) /\ Return(Bytes(m))
    /\ end' = IF Full(n) THEN "none" ELSE Ended(n)
    /\ r' = [r EXCEPT !.at = "head", !.remain = remain - m]
    /\ UNCHANGED writing

\* A record larger than the slice is left to be read by later calls.
Left(length, n) == length - n
ReadTLSData ==
  /\ layer = "tlsDown" /\ end = "none" /\ r.at = "data"
  /\ \E b \in Buffers :
       \/ /\ r.size > b
          /\ \/ \E n \in Arrived(b) :
                  /\ Drop(n) /\ Return(Bytes(n))
                  /\ r' = [r EXCEPT !.at = "head", !.remain = Left(r.size, n)]
                  /\ UNCHANGED <<writing, end>>
             \/ GiveUp(1)
       \/ r.size <= b /\ ReadInto(r.size, r.size)

ReadTLSRemain ==
  /\ layer = "tlsDown" /\ end = "none" /\ r.at = "head" /\ r.remain > 0
  /\ \E b \in Buffers :
       ReadInto(IF r.remain > b THEN b ELSE r.remain, r.remain)

\* The simple-obfs server takes a record apart as a whole.
ServerRead ==
  /\ layer = "tlsUp" /\ end = "none"
  /\ LET h == IF r.at = "first" THEN FirstHeader ELSE Header
         t == IF r.at = "first" THEN 1 ELSE 0
         n == IF Full(h + 1) THEN wire[h + 1].val ELSE 0
     IN  \/ /\ Full(h + 1) /\ Full(h + 1 + n + t) /\ Drop(h + 1 + n + t)
            /\ Return([i \in 1..n |-> wire[h + 1 + i].val])
            /\ r' = [r EXCEPT !.at = "head"]
            /\ UNCHANGED <<writing, end>>
         \/ GiveUp(h + 1 + n + t)

-----------------------------------------------------------------------------
Send ==
  \/ WriteSalt \/ WriteIV \/ WriteAEAD \/ WriteStream \/ WriteTLS
  \/ ServerWrite \/ WriteFails
Read ==
  \/ ReadSalt \/ ReadIV \/ ReadAEADSize \/ ReadAEADData \/ ReadAEADBuf \/ ReadStream
  \/ ReadTLSHeader \/ ReadTLSSize \/ ReadTLSData \/ ReadTLSRemain \/ ServerRead

Next == Write \/ Close \/ Break \/ Send \/ Read

\* Write is a loop of the calling goroutine; io.CopyBuffer reads until Read
\* returns an error.  Nothing obliges an application to write or to close.
Spec == Init /\ [][Next]_vars /\ WF_vars(Send) /\ WF_vars(Read)

-----------------------------------------------------------------------------
\* Type invariant: the bytes written are 1, 2, 3, ..., a Write call never has a
\* negative number of bytes left to pass down.
TypeOK ==
  /\ layer \in Layers /\ end \in {"none", "eof", "error"}
  /\ closed \in BOOLEAN /\ broken \in BOOLEAN
  /\ todo \in 0..Length
  /\ \A i \in DOMAIN sent : sent[i] = i
  /\ Len(sent) <= Length
  /\ w \in [init : BOOLEAN, count : Nat, failed : BOOLEAN]
  /\ r.at \in {"first", "size", "data", "head"}
  /\ r.count \in Nat /\ r.size \in Nat /\ r.remain \in Nat

\* A layer implements a byte stream: nothing is lost, repeated, reordered or
\* garbled whatever the sizes of the reads, io.EOF is the true end, and a
\* reader that keeps reading gets there.
Stream == INSTANCE ByteStream WITH sent <- sent, delivered <- delivered, closed <- closed,
                                   broken <- broken, end <- end
ImplementsByteStream == Stream!Spec

\* The boxes on the wire carry the nonces from the reader's up to the writer's,
\* each once and in order: no nonce seals two boxes, and only a broken
\* connection makes the two sides lose count of each other.
NonceOrder ==
  layer = "aead" =>
    LET boxes  == {i \in 1..Len(wire) : wire[i].kind = "box" /\ wire[i].at[2] = 1}
        nonces == {wire[i].at[1] : i \in boxes}
    IN  /\ \A i, j \in boxes : i < j => wire[i].at[1] < wire[j].at[1]
        /\ \E n \in r.count..w.count : nonces = r.count..(n - 1) /\ (~broken => n = w.count)

\* Bytes a TLS reader still owes its caller are the next ones on the wire: a
\* later Read never takes a header for data.
RemainOnWire ==
  layer = "tlsDown" /\ ~broken =>
    /\ r.remain <= Len(wire)
    /\ \A i \in 1..r.remain : wire[i].kind = "byte"
    /\ r.remain < Len(wire) /\ r.at = "head" => wire[r.remain + 1].kind = "head"

\* Writer and reader agree on what comes next on the wire, however writes,
\* records and reads are cut (Writer.Write, Reader.read, TLSObfs.read).
SidesInStep == NonceOrder /\ RemainOnWire
=============================================================================
