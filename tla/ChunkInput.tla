----------------------------- MODULE ChunkInput -----------------------------
(***************************************************************************)
(* The input side of a session: ngx_rtmp_recv puts messages together from  *)
(* the chunks of several chunk streams, whatever pieces the socket hands   *)
(* over, and ngx_rtmp_set_chunk_size moves what has been collected to      *)
(* buffers of a new pool in the middle of it.                              *)
(*                                                                         *)
(* The wire is a sequence of units: the one or two units of a basic        *)
(* header, the message header (left out in a chunk of type 3), and units   *)
(* of payload.  A message that announces a chunk size has one unit.  Time  *)
(* stamps and acknowledgements are left out.  One action of the server is  *)
(* one pass of the loop in ngx_rtmp_recv; nothing else touches this state. *)
(*                                                                         *)
(* The chain of a chunk stream is circular in the code and a sequence      *)
(* here, oldest buffer first; the buffer that is being filled is `cur`,    *)
(* which the code has linked to stream 0 while in_csid is 0 and to         *)
(* in_csid afterwards.                                                     *)
(***************************************************************************)
EXTENDS Integers, SequencesExt

CONSTANTS
    Streams,        \* chunk stream ids below max_streams
    Wide,           \* those whose basic header takes two units
    Sizes,          \* chunk sizes a peer announces
    DefaultSize,    \* NGX_RTMP_DEFAULT_CHUNK_SIZE
    Lengths,        \* payload lengths of messages
    MaxMessages,    \* bound: messages the peer sends
    MaxWire,        \* bound: units on the wire
    NULL

MaxHeader == 3      \* NGX_RTMP_MAX_CHUNK_HEADER, in units

ASSUME ChunkAssumption ==
    /\ Streams \subseteq Nat \ {0} /\ Wide \subseteq Streams
    /\ Sizes \subseteq Nat \ {0} /\ DefaultSize \in Nat \ {0}
    /\ Lengths \subseteq Nat
    /\ {MaxMessages, MaxWire} \subseteq Nat

VARIABLES
    \* the peer
    msgs,       \* messages begun: stream, length, announced size or 0
    order,      \* messages whose last chunk is sent, by number
    under,      \* per stream, the message under way and what is sent of it
    psize,      \* the peer's chunk size
    wire,       \* sent and not yet read
    \* the server
    up,         \* FALSE once the session is finalized
    in_csid, in_chunk_size,
    cur,        \* buffer being filled
    chain,      \* in_streams[n].in without cur
    free,       \* in_streams[0].in without cur
    len,        \* in_streams[n].len
    hdr,        \* in_streams[n].hdr: mlen, and whether type is MSG_CHUNK_SIZE
    old,        \* old_pos and old_size: what follows the last chunk, or NULL
    in_pool, in_old_pool,
    got         \* payloads handed to ngx_rtmp_receive_message

peerVars == <<msgs, order, under, psize>>
inVars   == <<in_csid, in_chunk_size, cur, chain, free, len, hdr, old, in_pool, in_old_pool, got>>
vars     == <<peerVars, wire, up, inVars>>

-----------------------------------------------------------------------------
(* Units and buffers. *)

Wider       == [t |-> "wide"]
Basic(c, f) == [t |-> "basic", csid |-> c, fmt |-> f]
MsgHdr(m)   == [t |-> "header", mlen |-> m.length, size |-> m.size > 0]
Unit(k, i, m) == [t |-> "data", msg |-> k, at |-> i, size |-> m.size]


\* ngx_rtmp_alloc_in_buf for a chunk size and a pool.
NewBuf(size, pool) == [data |-> <<>>, pos |-> 0, room |-> size + MaxHeader, pool |-> pool]

\* From b->pos to b->last.
Load(b) == SubSeq(b.data, b.pos + 1, Len(b.data))

Loads(bufs) == FlattenSeq([i \in DOMAIN bufs |-> Load(bufs[i])])

Init ==
    /\ msgs = <<>> /\ order = <<>> /\ wire = <<>> /\ got = <<>>
    /\ under = [c \in Streams |-> NULL]
    /\ psize = DefaultSize /\ in_chunk_size = DefaultSize
    /\ up = TRUE
    /\ in_csid = 0
    /\ cur = NULL /\ free = <<>> /\ chain = [c \in Streams |-> <<>>]
    /\ len = [c \in Streams |-> 0]
    /\ hdr = [c \in Streams |-> [mlen |-> 0, size |-> FALSE]]
    /\ old = NULL
    /\ in_pool = 1 /\ in_old_pool = NULL

-----------------------------------------------------------------------------
(* The peer sends a chunk: the next one of a message, or the first one of a *)
(* new message, whose header it may leave out when it is the same as the    *)
(* one before on the stream.  It never makes its chunks smaller.            *)

Former(c) == SelectLastInSeq(msgs, LAMBDA m : m.csid = c)

Chunk(c, k, from, fmt, m) ==
    LET till == IF m.length - from > psize THEN from + psize ELSE m.length
    IN  /\ wire' = wire \o (IF c \in Wide THEN <<Wider>> ELSE <<>>) \o <<Basic(c, fmt)>>
                        \o (IF fmt = 0 THEN <<MsgHdr(m)>> ELSE <<>>)
                        \o [i \in 1 .. till - from |-> Unit(k, from + i, m)]
        /\ under' = [under EXCEPT ![c] = IF till = m.length THEN NULL
                                         ELSE [msg |-> k, sent |-> till]]
        /\ order' = IF till = m.length THEN Append(order, k) ELSE order
        /\ psize' = IF till = m.length /\ m.size > 0 THEN m.size ELSE psize

PeerBegins(c, m, fmt) ==
    /\ up /\ Len(wire) < MaxWire /\ Len(msgs) < MaxMessages
    /\ under[c] = NULL
    /\ fmt = 3 => Former(c) # 0 /\ MsgHdr(msgs[Former(c)]) = MsgHdr(m)
    /\ msgs' = Append(msgs, m)
    /\ Chunk(c, Len(msgs) + 1, 0, fmt, m)

PeerContinues(c) ==
    /\ up /\ Len(wire) < MaxWire
    /\ under[c] # NULL
    /\ Chunk(c, under[c].msg, under[c].sent, 3, msgs[under[c].msg])
    /\ UNCHANGED msgs

PeerSends ==
    /\ \E c \in Streams :
          \/ \E n \in Lengths, fmt \in {0, 3} :
                PeerBegins(c, [csid |-> c, length |-> n, size |-> 0], fmt)
          \/ \E n \in {z \in Sizes : z >= psize} :
                PeerBegins(c, [csid |-> c, length |-> 1, size |-> n], 0)
          \/ PeerContinues(c)
    /\ UNCHANGED <<up, inVars>>

-----------------------------------------------------------------------------
(* Chunk headers at the start of a buffer. *)

BasicAt(d)    == IF d[1] = Wider THEN 2 ELSE 1
Csid(d)       == d[BasicAt(d)].csid
HeaderLen(d)  == BasicAt(d) + (IF d[BasicAt(d)].fmt = 0 THEN 1 ELSE 0)
HeaderDone(d) == Len(d) >= BasicAt(d) /\ Len(d) >= HeaderLen(d)

\* The header of the message that the chunk in d belongs to.
HdrOf(d) ==
    IF HeaderLen(d) = BasicAt(d) THEN hdr[Csid(d)]
    ELSE [mlen |-> d[HeaderLen(d)].mlen, size |-> d[HeaderLen(d)].size]

\* fsize, what is missing of the message, and the payload in d.
Missing(d)  == HdrOf(d).mlen - len[Csid(d)]
Carried(d)  == Len(d) - HeaderLen(d)
Expected(d) == IF Missing(d) < in_chunk_size THEN Missing(d) ELSE in_chunk_size

\* Changed on purpose: one unit of what follows is waited for.
ReadyLate(d) == HeaderDone(d) /\ Carried(d) > Expected(d)

\* The chunk in d is complete.
Ready(d) == HeaderDone(d) /\ Carried(d) >= Expected(d)

\* The buffer cut after its chunk, and what follows.
Cut(b) ==
    [b EXCEPT !.pos = HeaderLen(b.data),
              !.data = SubSeq(b.data, 1, HeaderLen(b.data) + Expected(b.data))]
Rest(b) == SubSeq(b.data, HeaderLen(b.data) + Expected(b.data) + 1, Len(b.data))

-----------------------------------------------------------------------------
(* ngx_rtmp_set_chunk_size. *)

\* A load is added to the last of the new buffers.  When it does not fit, what
\* does fit is copied, but b->last of that buffer stays where it was.
Copied(out, load, size, pool) ==
    LET last == out[Len(out)]
        fits == last.room - Len(last.data)
    IN  IF fits >= Len(load)
        THEN [out EXCEPT ![Len(out)].data = @ \o load]
        ELSE Append(out, [NewBuf(size, pool) EXCEPT !.data = SubSeq(load, fits + 1, Len(load))])

Moved(bufs, size, pool) ==
    FoldLeft(LAMBDA out, b : Copied(out, Load(b), size, pool), <<NewBuf(size, pool)>>, bufs)

\* The chains after a change that a message on stream c has asked for.
ChainsMoved(c, size, pool) ==
    [n \in Streams |-> IF n = c \/ chain[n] = <<>> THEN <<>> ELSE Moved(chain[n], size, pool)]

-----------------------------------------------------------------------------
(* One pass of ngx_rtmp_recv with the buffer b, filled. *)

\* More is needed; the buffer stays where it is.
Waits(b) ==
    /\ ~ Ready(b.data)
    /\ cur' = IF HeaderDone(b.data) THEN [b EXCEPT !.pos = HeaderLen(b.data)] ELSE b
    /\ in_csid' = IF Len(b.data) >= BasicAt(b.data) THEN Csid(b.data) ELSE 0
    /\ hdr' = IF HeaderDone(b.data) THEN [hdr EXCEPT ![Csid(b.data)] = HdrOf(b.data)] ELSE hdr
    /\ old' = NULL
    /\ UNCHANGED <<in_chunk_size, chain, len, got, in_pool>>

\* A chunk is complete and its message is not.
Fragment(b, others) ==
    LET c == Csid(b.data)
    IN  /\ Ready(b.data) /\ Missing(b.data) > in_chunk_size
        /\ len' = [len EXCEPT ![c] = @ + in_chunk_size]
        /\ chain' = [chain EXCEPT ![c] = Append(@, Cut(b))]
        /\ hdr' = [hdr EXCEPT ![c] = HdrOf(b.data)]
        /\ old' = [data |-> Rest(b), pool |-> b.pool]
        /\ cur' = NULL /\ in_csid' = 0
        /\ free' = others
        /\ UNCHANGED <<in_chunk_size, got, in_pool>>

\* A message is complete and is handled.
Message(b, others) ==
    LET c == Csid(b.data)
        payload == Loads(Append(chain[c], Cut(b)))
    IN  /\ Ready(b.data) /\ Missing(b.data) <= in_chunk_size
        /\ got' = Append(got, payload)
        /\ len' = [len EXCEPT ![c] = 0]
        /\ hdr' = [hdr EXCEPT ![c] = HdrOf(b.data)]
        /\ old' = [data |-> Rest(b), pool |-> b.pool]
        /\ cur' = NULL /\ in_csid' = 0
        /\ IF HdrOf(b.data).size
           THEN /\ in_chunk_size' = payload[1].size
                /\ in_pool' = in_pool + 1
                /\ chain' = ChainsMoved(c, payload[1].size, in_pool + 1)
                /\ free' = <<>>
           ELSE /\ chain' = [chain EXCEPT ![c] = <<>>]
                /\ free' = Append(chain[c], Cut(b)) \o others
                /\ UNCHANGED <<in_chunk_size, in_pool>>

\* Changed on purpose: the old pool goes at once.
NoOldPool == NULL

\* ngx_rtmp_finalize_set_chunk_size destroys the old pool as soon as what
\* follows the message has been copied, or at once when nothing follows.
OldPool ==
    IF in_pool' # in_pool /\ old'.data # <<>> THEN in_pool ELSE NULL

Pass(b, others) ==
    /\ \/ Waits(b) /\ free' = others
       \/ Fragment(b, others)
       \/ Message(b, others)
    /\ in_old_pool' = OldPool
    /\ UNCHANGED <<peerVars, up>>

\* The buffer of the pass and the rest of stream 0.
Buffer == IF cur # NULL THEN cur
          ELSE IF free # <<>> THEN Head(free) ELSE NewBuf(in_chunk_size, in_pool)
Others == IF cur = NULL /\ free # <<>> THEN Tail(free) ELSE free

\* Changed on purpose: the buffer is not emptied before it is read into.
AsItIs(b) == b

\* b->pos = b->last = b->start
Emptied(b) == IF old # NULL THEN [b EXCEPT !.pos = 0, !.data = <<>>] ELSE b

\* What followed the last chunk is moved to the next buffer.
Reuse ==
    /\ up /\ old # NULL /\ old.data # <<>>
    /\ Pass([Buffer EXCEPT !.pos = 0, !.data = old.data], Others)
    /\ UNCHANGED wire

\* Some units are read from the socket, as many as it has or fewer.
Read ==
    LET b == Emptied(Buffer)
    IN  /\ up /\ (old # NULL => old.data = <<>>)
        /\ \E n \in 1 .. Len(wire) :
              /\ n <= b.room - Len(b.data)
              /\ Pass([b EXCEPT !.data = @ \o SubSeq(wire, 1, n)], Others)
              /\ wire' = SubSeq(wire, n + 1, Len(wire))

\* There is nothing to read: the loop ends, and old_pos with it.
Again ==
    /\ up /\ old # NULL /\ old.data = <<>>
    /\ free' = <<Emptied(Buffer)>> \o Others
    /\ old' = NULL
    /\ UNCHANGED <<peerVars, wire, up, in_csid, in_chunk_size, cur, chain, len, hdr, in_pool,
                   in_old_pool, got>>

\* The connection breaks, or a handler fails.
Drop ==
    /\ up
    /\ up' = FALSE
    /\ UNCHANGED <<peerVars, wire, inVars>>

Next ==
    \/ PeerSends
    \/ Reuse
    \/ Read
    \/ Again
    \/ Drop

Spec == Init /\ [][Next]_vars

-----------------------------------------------------------------------------
(* Properties. *)

\* What the peer sent, message by message.
Sent(k) == [i \in 1 .. msgs[k].length |-> Unit(k, i, msgs[k])]

\* Every message that is handled is one the peer sent, whole, in the order in
\* which their last chunks were sent, however the chunks of streams were mixed
\* and the socket cut them (ngx_rtmp_recv, ngx_rtmp_set_chunk_size).
Intact ==
    /\ Len(got) <= Len(order)
    /\ \A i \in DOMAIN got : got[i] = Sent(order[i])

\* Nothing is held back: when all that was sent has been read, every message
\* has been handled (the loop of ngx_rtmp_recv uses up what it has read).
NothingHeld ==
    up /\ wire = <<>> /\ (old # NULL => old.data = <<>>) => Len(got) = Len(order)

Buffers == ToSet(free) \cup UNION {ToSet(chain[c]) : c \in Streams}
             \cup (IF cur = NULL THEN {} ELSE {cur})

\* No buffer that input will still be read into or out of belongs to a pool
\* that ngx_rtmp_finalize_set_chunk_size has destroyed, and the bytes that
\* follow a chunk size message stay until they are copied.
PoolsAlive ==
    /\ \A b \in Buffers : b.pool \in {in_pool, in_old_pool}
    /\ old # NULL /\ old.data # <<>> => old.pool \in {in_pool, in_old_pool}


=============================================================================
