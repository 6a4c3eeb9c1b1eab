# A verification project for cashpack

cashpack is an HPACK (RFC 7541) codec library in C: an encoder and a decoder
that compress HTTP/2 header lists by keeping, each on its side of a connection,
the same *dynamic table* of recently sent fields. The library is a passive
state machine: it has no threads, no timers and no I/O, every function runs in
the caller's thread and leaves its state in a `struct hpack`. What makes it hard
is that two such state machines, driven by applications at the two ends of a
connection, must stay identical entry by entry, across evictions, resizes that
are announced by one end and applied by both at the same point of the stream,
soft limits, reallocations and errors.

This directory models that core in TLA+, checks it on small instances with TLC
and proves part of it for every instance with TLAPS.

## 1. Inventory

| component | source | state | operations |
|---|---|---|---|
| tables | `lib/hpack_tbl.c`, `inc/tbl/hpack_static.h` | the octets after `struct hpack`: entries, newest first, each with `pre_sz`, `nam_sz`, `val_sz`; `sz.len`, `cnt` | `HPT_adjust`, `HPT_index`, `HPT_field`, `HPT_search`, `HPT_foreach`, `hpt_move_evicted` |
| memory, resizing, limits | `lib/hpack.c` ("Memory management") | `sz.{mem,max,lim,cap,nxt,min}`, `magic`, `ctx.hp` | `hpack_encoder`, `hpack_decoder`, `hpack_resize`, `hpack_limit`, `hpack_trim`, `hpack_free`, `hpack_realloc` |
| listing, monitoring | `lib/hpack.c` ("Tables probing") | borrows `ctx` | `hpack_dynamic`, `hpack_tables`, `hpack_foreach`, `hpack_monitor` |
| encoder | `lib/hpack.c` ("Encoder") | `ctx.{res,flg}` | `hpack_encode`, `hpack_encode_update`, `hpack_cap`, `hpack_auto_index` |
| decoder | `lib/hpack.c` ("Decoder") | `ctx.{res,flg,len,ptr}`, `state` (where a block was cut) | `hpack_decode`, `hpack_skip`, `hpack_decode_fields` |
| integers | `lib/hpack_int.c`, `lib/hpiencode.c` | `state.{v,m}` | `HPI_decode`, `HPI_encode` |
| Huffman | `lib/hpack_huf.c`, `gen/` | `state.{bits,blen,oct}` | `HPH_decode`, `HPH_encode`, `HPH_size` |
| output buffers | `lib/hpack_dec.c`, `lib/hpack_enc.c` | `ctx.{buf,ptr,len,fld}` | `HPD_puts`, `HPD_notify`, `HPE_putb`, `HPE_send` |
| validation | `lib/hpack_val.c` | none | `HPV_token`, `HPV_value`, ... |
| events | `lib/hpack_ctx.c` | `ctx.res` | `HPC_notify` |

**How they interact.** `hpack_encode` and `hpack_decode` read the sizes that
`hpack_resize` and `hpack_limit` have left, signal (or expect) table updates at
the head of a block, and call into the tables, which look only at
`sz.{len,max,lim,nxt}`. The results go to the application through the event
callback. The two codecs never share memory; they interact through the octets
of the blocks and through the acknowledgement of HTTP/2 settings, on which
`hpack_resize` is called at each end.

**What is hard.**

* *Interleaving of the two ends.* The encoder applies a resize some blocks
  after the decoder's application has announced it; blocks that were encoded before and after
  are on the wire together.
* *Protocol sequences.* `lim`, `cap`, `max`, `nxt`, `min` and `mem` are related
  by assertions that hold only if all earlier calls, on other blocks, have kept
  them: creation, limits, resizes, trims.
* *Stale state.* `ctx.hp` after
  the codec has moved; a context borrowed while a block is open; names that lie
  in the table that is being moved; fields that are moved in the output buffer
  before they are complete.
* *Blocks in pieces.* A block may be cut at any octet, within an integer, a
  string or a Huffman code, and decoding resumes from `struct hpack_state`.
* *Boundaries.* A table full to the octet; entries larger than the table; a
  size of zero; indices whose octets set the bits that mark an update.
* *Partial failure.* Allocators that fail, and codecs that become defunct.

There is no concurrency inside the library, nothing is persisted, and the
connection is reliable and ordered: crashes, losses, reorderings and timeouts
are not part of this system.

**What makes each part correct.**

| part | property | here |
|---|---|---|
| tables | entries lie back to back, end at `sz.len`, within the limit | `TablesSound`, `TableHolds` |
| memory | the table never outgrows its allocation, and there is memory for all the limit allows | `MemorySuffices`, `TableHolds` |
| API | no assertion fails in any sequence of calls the manual allows | `NoAbort`, `DecoderHolds` |
| encoder with decoder | the peer accepts what is sent; the tables are the same; the fields come out as they went in | `PeerAccepts`, `InSync`, `ListsArrive` |
| decoder with any peer | the peer is held to the size it was told, and updates come only at the head of a block | `HeldToSize`, `UpdatesBeforePlain`, `UpdatesBeforeFields` |
| integers, Huffman | the value and the characters are those the RFC gives the octets, wherever a block is cut, and nothing overflows | `LengthExact`, `LengthRead`, `LengthWrites`, `SameCharacters`, `Aligned`, `StringRefused`, `LargeRefused`, `ReadAsFlagged` |
| decoder and its buffer | a block in pieces is decoded as whole representations are; fields are given complete and in order, or the message is skipped or refused, as the size of the buffer has it | `InStep`, `AsWhole`, `FieldsGiven`, `Measured`, `BufferHolds`, `ResultBySize` |
| field lists | an iteration gives every field and ends | `FieldsGiven`, `IterationEnds` |
| octets of the table | links, sizes and strings stay whole through moves, evictions and copies, and the entries are those of an abstract table | `Linked`, `StringsWhole`, `ImplementsTable` |

`PROJECT.json` lists the hazards one by one, each at its line, with the
properties that cover it or the reason none does yet.

## 2. Modules

```
HpackTable ── HpackMemory ── HpackEncoder ── HpackDecoder ─┬─ HpackSession ── MCSession
    the codec as a record, one operator per function       │       └ implements HeaderLists
                                                           ├─ HpackReceiver ── MCReceiver
                                                           └─ HpackPieces ── HpackBlocks ── MCBlocks
HpackInt ──┬─ HpackLiteral ─┬─ MCLiteral
HpackHuffman ┘                └─ HpackLiteralProofs
HpackLayout ── MCLayout
    └ implements DynamicTable
Intervals ─┬─ HpackLayoutProofs
           └─ HpackCodecProofs ─┬─ HpackReceiverProofs
                                ├─ HpackMirrorProofs ── HpackSessionProofs
                                └─ HpackBlocksProofs
```

(Left to right: EXTENDS. HpackCodecProofs also extends HpackDecoder,
HpackReceiverProofs HpackReceiver, HpackSessionProofs HpackSession,
HpackBlocksProofs HpackBlocks and HpackLayoutProofs HpackLayout. Intervals has
the lemmas about least and largest elements and the induction along an interval
that the proofs share.)

**HpackTable, HpackMemory, HpackEncoder, HpackDecoder** hold no variables. A
codec is a record with the fields of `struct hpack` the control flow depends
on, and every function of the C code is an operator that takes the codec and
gives it as the call leaves it, under the function's own name. They are
separate from the specifications that use them since both ends have a codec and
each end's is driven by the same functions.

| model | code |
|---|---|
| `hp.tbl`, entries `[fld, pos]` | the entries and `DIFF(hp->tbl, he)` |
| `hp.len` | `sz.len` |
| `hp.mem max lim cap nxt min` | `struct hpack_size`; -1 means unset, as there |
| `hp.magic` | `magic`; `"ABORTED"` stands for a process whose assertion has failed |
| `hp.realloc` | whether `hpack_alloc.realloc` is set |
| `hp.res` | `ctx.res`: `"OK"`, `"BLK"` or an error |
| `hp.upd` | `HPACK_CTX_CAN_UPD` |
| `hp.self` | `ctx.hp == hp` |

* *HpackTable*: eviction (`HPT_adjust`), insertion of a field whose name lies
  outside the table (`HPT_index`) or is that of an entry (`hpt_move_evicted`,
  which spoils the table when the name does not fit in the padding of an entry,
  `Pad`), lookup and search. The C code keeps the table as octets and walks it by entry sizes; the
  model keeps a sequence and, with it, each entry's offset, and updates
  `sz.len` the way the code does, so that the two may disagree. `LaidOut`
  is what the walks of the code assert.
* *HpackMemory*: creation, `hpack_realloc`, `hpack_resize`, `hpack_limit`,
  `hpack_trim`, `hpack_foreach`, with their early returns, their assertions
  (that of `hpack_realloc` on the length included) and the failures of the
  allocator.
* *HpackEncoder*: `hpack_encode`, one field to a call (a longer list is several
  calls with `cut` set): the updates that head a block, automatic indexing,
  refusals (an unknown type, an index, a string too long or not valid),
  insertion. Its output is a sequence of *representations*: what the
  octets say, with the literal strings. Each also carries the field the
  application meant, which the decoder uses only where the strings are literal.
* *HpackDecoder*: `hpack_decode`, one whole representation to a call, including
  the order in which the checks at the head of its loop are made and the way it
  recognises an update by one bit (`LooksLikeUpdate`, with the constant
  `UpdateBit` in the place of 32).

**HpackSession** has the state `enc`, `dec`, `wire`, `ret`, `got` and one
action per call of the API at each end. The acknowledgement of a resize travels
on `wire` in order with the blocks (`Acknowledge` calls `hpack_resize` at the
encoder, `Resize` at the decoder), as HTTP/2 SETTINGS do. A codec on which a
call has failed is defunct and is not called again.

**HeaderLists** is the abstract specification: a sequence of fields goes in and
comes out unchanged, complete and in order. The refinement mapping takes
`pending` to the fields on the wire, as the application meant them, and
`arrived` to what the decoder last gave.

**HpackReceiver** is a decoder against an arbitrary peer: any representation
may come at any time, valid or not: literals of the three kinds, with a name
index or without, indexed fields with any index, zero included, and updates. Its
application trims the decoder as two of the precautions below would have it: only
while no resize waits, and with a `realloc` that does not move it (`Trim`).

**HpackInt, HpackHuffman** are the integer representation and the Huffman code
as functions on octets. A decoder's state between two octets is a record with
the members of `struct hpack_state`: the integer with its 16-bit value and 8-bit
weight, the Huffman decoder with its table, its 16-bit register and the number
of bits in it. The Huffman tables are not copied from the generated header but
derived from the set of codes: which codes a table has under its prefix, and what
each of its entries says of them. The generators come to the same entries by
shifting and masking prefixes (`msk` and `ref`), which is not modelled.

**HpackLiteral** reads a string literal with them, an octet to a step, each of
which may be the first of a new call (`cut`). Beside the decoder, `meant` keeps
what RFC 7541 says of the same octets: the value of the length as an unbounded
sum, and the bits matched against the code one by one. Any octet is tried in
every state of the Huffman decoder.

| model | code |
|---|---|
| `int.bsy v m` | `state.bsy`, `state.stt.hpi.{v,m}` |
| `isHuf` | `state.magic` being `HUF_STATE_MAGIC`, or the local `huf` before that |
| `left` | `state.stt.str.len` |
| `huf.node bits blen` | `state.stt.str.{dec,bits,blen}`; a node is a table's prefix |
| `eos` | the local of `HPH_decode` |

**HpackPieces** is `hpack_decode` on some octets of a block: the loop, the steps
of a field and what is kept of them between two calls, the checks at the start
of a call, and the output buffer with `hpd_skip`. It works on the record `d`,
with the codec of HpackMemory in it, and takes `hpack_decode_update`,
`HPT_index` and `HPT_field` from the modules of the codec. An octet is a token
here: which representation it belongs to, whether another octet of an integer
follows, how many characters it completes.

**HpackBlocks** is an application that decodes blocks as they come: `Begin` and
`Continue` give any number of octets to `hpack_decode` or to
`hpack_decode_fields`, `NextField` is the loop around the latter, `Skip` is
`hpack_skip`, `Resize` is `hpack_resize` at any time. They follow the test
applications of the repository (`tst.c`, `hdecode.c`, `fdecode.c`). The peer is
arbitrary within `Blocks`, and may fail to send the end of a block. Next to `d`,
the variable `whole` is a codec that runs HpackDecoder on the representations of
the same blocks, without pieces and without a buffer; `want` are the fields and
the errors it finds. The properties relate the two.

**HpackLayout** is the memory of an encoder's table, a cell for each member of
an entry's header, each octet of padding and each octet of a string. `Index`,
`IndexNamed` (the name is that of an entry) and `Limit` evict, move and write the
cells in the order of the code; what an entry is, is found as the code finds it,
by `nam_sz`, `val_sz` and `pre_sz` from the start of the memory. The fields read
this way implement **DynamicTable**, the table of RFC 7541 as a queue bounded by
size (`ImplementsTable`).

### Precautions

The code does not cope with some sequences of calls. The constant `Discipline`
of HpackSession and of HpackBlocks names, one by one, the precautions their
applications take. The runs that pass take all of them. With one left out of
their configurations (`SessionResize.cfg`, for the first and the last
`SessionLimit.cfg`, and `Blocks.cfg`), TLC finds the property in the last column
violated (in `SessionLimit.cfg`, `Careful`, the invariant behind it, some steps
before). The most telling of those that contradict a statement of the
repository are runs of their own (section 4).

| HpackSession | without it | violated |
|---|---|---|
| `"limit"` | a resize or a second limit after a limit was applied fails an assertion (`hpack.c:185`) | `NoAbort`, run `limit_reapplied` |
| `"raise"` | resizes to two sizes above the maximum make the peer refuse the first update (`hpack.c:778`) | `PeerAccepts`, run `double_raise` |
| `"trim"` | `hpack_trim` looks at the maximum in force and gives back memory a pending resize reserved (`hpack.c:285`) | `MemorySuffices` |
| `"move"` | a shrinking `realloc` that moves the codec fails the next assertion on `ctx.hp` (`hpack.c:291`) | `NoAbort` |
| `"list"` | listing the tables inside a block loses the state of the block (`hpack.c:355`) | `InSync`, `PeerAccepts` |
| `"names"` | a field indexed with the name of an entry, given or found by the automatic index, when the name and its null character do not fit in the padding of an entry, is written over the header of its neighbour (`hpack_tbl.c:367`), and the next walk fails an assertion | `NoAbort`, run `layout_name` for the octets |
| `"memory"` | a `hpack_limit` between the allocation and the maximum reserves nothing (`hpack.c:250`), and a resize without `realloc` then finds the limit beyond the allocation (`hpack.c:191`) | `NoAbort` |

| HpackBlocks | without it | violated |
|---|---|---|
| `"skip"` | a new message after SKP without `hpack_skip` is refused with ARG, which stays in `ctx.res` and fails the next assertion (`hpack.c:814`); `hpack_skip` in the middle of a block turns its SKP into OK (`hpack.c:975`) | `NoAbort`, `ResultBySize` |
| `"buffer"` | another buffer in the middle of a block is refused with ARG, which stays in `ctx.res` (`hpack.c:810`) | `NoAbort` |
| `"iterate"` | a resize in the middle of an iteration finds FLD in `ctx.res` and fails an assertion (`hpack.c:175`) | `NoAbort` |

The theorems of section 5 say which of the precautions they need: the types and
the tables `"names"`, the assertions and the memory also `"limit"`, `"memory"`,
`"trim"` and `"move"`, the agreement of the two ends and the header lists all
seven; those about blocks in pieces all three of HpackBlocks.

## 3. Runs that pass

| run | module | properties | shows |
|---|---|---|---|
| `session_resize` | MCSession, `SessionResize.cfg` | `Inductive`, `NoAbort`, `PeerAccepts`, `InSync`, `MemorySuffices`, `ListsArrive` | through every interleaving of resizes (four sizes, one of them refused for want of memory), acknowledgements, blocks (some with a field of no type), trims and listings the two ends agree and HeaderLists is implemented |
| `session_limit` | MCSession, `SessionLimit.cfg` | `TypeOK`, `NoAbort`, `PeerAccepts`, `InSync`, `TablesSound`, `Careful` (which implies `MemorySuffices`) | the same with soft limits at creation and later, a limit beyond the largest size, memory managers without `realloc`, allocations that fail, and names the codecs refuse |
| `literal` | MCLiteral, `Literal.cfg` | `TypeOK`, `LengthExact`, `LengthRead`, `LengthWrites`, `SameCharacters`, `Aligned`, `StringRefused` | lengths below 65536 are decoded to their value and encoded back, for any continuation and wherever they are cut; in every state of the Huffman decoder every octet gives the characters the code gives its bits and leaves fewer than eight of them (the assertion of `hpack_huf.c:78`), and strings are refused for exactly the reasons the RFC has |
| `blocks` | MCBlocks, `Blocks.cfg` | `TypeOK`, `NoAbort`, `InStep`, `AsWhole`, `FieldsGiven`, `Measured`, `BufferHolds`, `ResultBySize`, `Inductive`, `IterationEnds` | every cut of every block, with a buffer that holds some of them, leaves the decoder where whole representations leave it and gives the application what the block says; iterations end |
| `layout` | MCLayout, `Layout.cfg` | `TypeOK`, `Linked`, `StringsWhole`, `Inductive`, `ImplementsTable` | after any insertions, evictions and copies of names that lie in the table its octets are those of an abstract dynamic table, as long as a name with its null character fits in the padding of an entry |
| `receiver` | MCReceiver, `Receiver.cfg` | `TypeOK`, `DecoderHolds`, `TableHolds`, `HeldToSize`, `UpdatesBeforePlain`, `Inductive` | whatever the peer sends, no assertion of the decoder fails, the table stays within the size and the memory, the peer is held to the last size announced whenever no resize waits, and a field that does not look like an update closes the head of the block |

**Bounds.**

* Entries take 2 to 5 octets (`Overhead` is 1 in the place of 32) and the
  maximum is at most 9: a table holds up to four entries; one insertion or
  resize evicts none, some or all of them; some fields fit in no table. The
  code only adds and compares sizes, so that scaling them loses nothing but
  the widths: `MaxSize` stands for 65535, and one of the sizes is above it
  where the code checks for that.
* `Pad` is 2 in `session_resize` and 3 in `session_limit`, in the place of 10
  octets, and names have 1 and 2 octets: in the first, names of entries are used
  that fit in the padding exactly, and others are left out by `"names"`; in the
  second all are used. No string is longer than `MaxSize`, so that the refusal
  with `INT` is modelled and does not occur.
* One static entry, of which one field shares the name: static and dynamic
  matches of a full field, of a name only, and none at all occur.
* Two names and two values, with two fields that are exchanged; the search with
  a name that matches and a value that does not goes through the static entry.
* `MaxWire` bounds what is on the wire before another call: the encoder may be
  two items ahead, and a block with two updates makes it four. That is
  enough for a resize to be acknowledged between two blocks that are
  both on their way.
* Resizes: 0, one below, one above the initial maximum, and one beyond
  `MaxSize`. With one resize below and one above, an interval of several
  resizes has every order of `min`, `nxt` and `max` but two rises.
* `UpdateBit` is 2 with indices up to 6 in the receiver, so that of the indices
  of an indexed field 2, 3 and 6 set the bit and 1, 4 and 5 do not. In the
  session the same constant makes ordinary indices look like updates, which
  must do no harm between a codec and its own peer.

* *literal*: a length continues with up to 40 octets, so that the 8-bit weight
  wraps; each is one of ten at the ends of what a group can hold, with and
  without the bit that another follows. Huffman strings have up to 5 octets, any
  octets: the longest code has 30 bits, so that all of the tables are entered,
  in every alignment they can be reached in with five octets, and ended from.
* *blocks*: a buffer of 6 octets and fields of 3, 4, 6 and 7: two fit, one fits
  with a move, one never fits. Blocks have up to three representations, of each
  kind, with names and values that are literal, indexed, empty, refused, raw or
  Huffman coded; numbers from `IntMask` on take two octets, so that there is a
  cut in an integer too. The table has a maximum of 8 and is resized to 3.
* *layout*: 36 cells hold up to three entries of 10 to 13 cells; `Limits` has
  one below the largest entry, one for two and one for three. `Pad` is 3 in the
  place of 10 octets, and names have 1 and 2 octets, so that the longest fits in
  the padding exactly, as one of 9 octets does in the code. Pieces are longer
  than names.

`CHECK_DEADLOCK FALSE` is set because the system may stop: a defunct codec is
never called again, and an application need not call anything.

**Fairness.** The library does nothing by itself; whether anything ever happens
is up to the applications. The one thing an application is bound to do is the
loop around `hpack_decode_fields`, which the manual prescribes and `fdecode.c`
has: as long as the result is `FLD` it calls again. HpackBlocks assumes weak
fairness of `NextField` and of nothing else, and `IterationEnds` says that the
loop then ends, with every field given. Every other property is a safety
property, the refinements of HeaderLists and DynamicTable included.

Every property of these runs is matched in `PROJECT.json` by a *mutant*, a
plausible bug in one definition under which TLC finds the property violated. The
mutated definitions stand in the modules just above the definitions they
would replace, and nothing uses them.

## 4. Runs that end in a violation

Each of these checks one statement of the repository about the program, and TLC
finds a behaviour of the code that contradicts it. All have been reproduced
with a build of the library.

| run | what the code does | what is said |
|---|---|---|
| `receiver_masked` | after a resize, a block whose first octet is 0xa0 (index 32) is decoded with `OK`, and an update may follow it: the checks at `hpack.c:831` are skipped for any octet with bit 0x20 | `hpack_tbl.h:55,57`, the results `UPD` and `RSZ` |
| `limit_reapplied` | a resize after a limit has been applied fails `assert(hp->sz.lim == hp->sz.cap)` at `hpack.c:185` | `hpack_alloc.3.rst:134`, the limit need not be reapplied |
| `double_raise` | resizes 7 and 8 from 6 are signalled as 7 then 8, and the decoder compares the 7 with 6 (`hpack.c:778`) | `hpack_priv.h:136`, the table may be resized more than once |
| `flag_reread` | a Huffman string whose length is cut behind its first octet is read as a raw string: `hpack.c:612` takes the flag from the first octet of each call | `hpack_decode.3.rst:80`, the decoder resumes where it left |
| `length_large` | 0x7f 0x80 0x80 0x04, which stands for 65663, is decoded as 127: the third group loses its high bits in the 16-bit sum (`hpack_int.c:61`) | `hpack_tbl.h:37`, the result `INT` |
| `layout_name` | a field is indexed with a name of 3 octets that lies in the table, one more than the padding leaves room for (10 in the code): `val_sz` of the newest surviving entry is overwritten (`hpack_tbl.c:367`) | the assertion at `hpack_tbl.c:147` |

`hpt_move_evicted` has a second flaw, for names of 64 octets and more: the pieces
of the name are all written to the same place, and when the entry stays each is
read from where the table has moved to. `MCLayout` with `Pad = 6` and
`Chunk = 2` shows it as a violation of `StringsWhole`.

## 5. Theorems

All proofs are checked by TLAPS with no assumption but those named in the
modules: `SizeAssumption`, `MaxSizeAssumption`, `StringAssumption`,
`UpdateBitAssumption`, `SessionAssumption`, `ReceiverAssumption`,
`PieceAssumption`, `BlocksAssumption`, `LiteralAssumption` and `LayoutAssumption`
say that sizes and bounds are naturals, that an entry has an overhead of at least
one octet and a name of at least one, and that the inputs are of their types
(LayoutAssumption also that two values are not both empty, since what lies in the
memory could not tell them apart);
`StaticAssumption`, that the names of the static table are names a decoder
accepts, as those of `inc/tbl/hpack_static.h` are. Nothing bounds the number of
entries, fields, sizes or items on the wire. The theorems that need precautions
have them as a hypothesis on the constant `Discipline`: `ShortNames` (`"names"`),
`Precautions` (the five of NoAbort) or `AllPrecautions` of the session, the `Precautions` of HpackBlocksProofs.
They are met by the configurations of the two session runs and of `blocks`.

**The tables, for short names of entries.** The names that a field takes from an
entry fit, with their null character, in the padding of an entry: at most 9
octets in the code. Names that are given as strings, or that are static, are of
any length. Without this hypothesis the theorems do not hold: `hpt_move_evicted`
loses the layout. No other precaution is needed.

* `SessionTablesSound`: `Spec => []TablesSound`. After any sequence of calls at
  the two ends, both tables lie back to back from offset 0, end at `sz.len`, and
  (while no assertion has failed) are within the limit in force.
* `SessionTypeOK`: `Spec => []TypeOK`.
* `SessionInductive`: `Spec => []Inductive`, the invariant both follow from.
  Neither is inductive alone: eviction computes offsets from those of the
  entries that stay, so typing needs the layout; the layout needs entries of the
  right type; and the sizes that a decoded or encoded update takes from `nxt`
  and `min` are sizes, and not the mark -1, only because `min` is set exactly
  when `nxt` is (`Ordered`). `Healthy` is the conjunction, and it is a
  property of one codec, kept by each function whatever its arguments, but for
  the names.
* `IndexSound`, `EncodeHealthy`, `DecodeHealthy`: the lemmas that carry the
  argument. From `MaxOf` (a finite non-empty set of naturals has a maximum)
  `KeptType` says where the loop of `HPT_adjust` stops; `EvictSound` and
  `InsertSound` say that what remains is laid out; `AdjustSound` and
  `IndexOutside` add that it fits, and `IndexSound` that this is also so for a name
  that lies in the table and is short. HpackCodecProofs lifts this to the functions
  of HpackMemory, to each phase of an encoded block's head and to each kind of
  representation, and HpackSessionProofs has one step per action.

**The decoder, whatever its peer sends.** `ReceiverDecoderHolds`,
`ReceiverTableHolds`, `ReceiverHeldToSize`, `ReceiverUpdatesBeforePlain` and
`ReceiverTypeOK` are the properties of the run `receiver` for every instance. The
invariant, `Inductive` of HpackReceiver, adds to `Healthy` what the sizes of a
decoder keep to (`DecoderHealthy`): the limit is at most the maximum, and the
memory at least the maximum in force and the one announced. `DecodeDecoder`
shows that hpack_decode keeps it for any representation; the representation
may be one no encoder writes. The name of a field lies in the decoder's buffer, so
that no hypothesis on names is needed. `HeldToSize` speaks of the states in which
no resize waits; that a block which begins with a masked index may be decoded
and leave one waiting is finding `receiver_masked`.

**Assertions and memory, with five precautions.** `SessionNoAbort` and
`SessionMemorySuffices` follow from `SessionCareful`: `Spec => []Careful`.
`Careful` is DecoderHealthy at one end and `EncoderHealthy` at the other, where
there is more to say: a limit in force is below the maximum and nothing waits
beside it; a limit that waits is above the resizes that wait; the memory is
there for what may come, but for a limit set at creation, which bears on an empty
table (`LimitWaits`). `EncodeEncoder` carries it through the
updates at the head of a block.

**The two ends, with all seven.** `SessionPeerAccepts`, `SessionInSync` and
`SessionListsArrive`. The last is the refinement: `Spec => ListsArrive`, the
session implements HeaderLists, by a step of it or a stutter for every action.

* What the next item does to a decoder depends on its `View` alone: the table,
  the sizes but for the memory, and where in a block it is (`Stage`).
  `Reads(a, rep, b)` says that a representation takes every healthy decoder of
  view `a` to view `b`, accepted, with the field the encoder was asked for;
  `Awaits` is the same of an acknowledgement. `Leads(w, a, b)` chains
  them along a sequence of items.
* The invariant, `Synced`: what is on the wire leads from the decoder's view to
  one that the encoder mirrors (`Mirror`). Without the wire in it the invariant
  would not survive a call at the encoder's end; without `Reads` for *every*
  decoder of a view, nothing could be said of items that are decoded later.
  `EncoderPrompt` adds what `"raise"` and `"list"` are for: in a
  block nothing is left to signal, the smallest maximum that waits is one the
  peer may be sent, and no name in the table is one a decoder refuses.
* `EncodeLeads` is the step that matters: what hpack_encode writes leads the
  encoder's mirror before to its mirror after. `LowestLeads`, `MaximumLeads` and
  `SoftLimitLeads` do it for the three updates, each of which
  must be the one the decoder expects and evict the same entries; `FieldReads` for
  the field, literal or indexed, inserted or not; `AutoIndexMeans` says that
  what the search finds is the field that was asked for. `ResizeLeads`
  and `ResizeTaken` are the two ends of an acknowledgement.
* For the lists, `FieldsTogether` shows that the fields among two sequences of
  items are those of the first, then those of the second; a call of
  hpack_encode adds one (`EncodeGives`), hpack_decode takes the first
  (`FirstSent`), and by `Reads` gives what was meant. `FieldsIn` is a recursive
  function, and `GathersEnd` shows what it is without an induction
  theorem, from the least natural number at which it might fail.

**Integers, for any octets and any value.** The octets a length may continue
with and their number are constants of HpackLiteral without a bound.

* `LiteralLengthExact`: `Spec => []LengthExact`. HPI_decode returns the value of
  the octets when it is a `uint16_t`, and refuses none of these. The converse,
  that others are refused, is not true (finding `length_large`).
* `LiteralLengthRead`: `Spec => []LengthRead`, the invariant it follows from.
  The 8-bit weight is 7 times the number of groups for the first three only,
  and wraps from the 37th on. What saves the value is that by then it has
  no more bits to come: `LengthRead` bounds it by what one and two groups
  can hold, `GroupExact` says what a group does at the weights 0, 7 and 14, and
  `GroupBeyond` that zeros leave the sum alone at any weight.
* `LiteralLengthWrites`: `Spec => []LengthWrites`. `ReadBack` is the lemma for
  every prefix and every value: what HPI_encode writes, HPI_decode takes to the
  last octet and reads as the same value. `GroupsRun` unfolds the loop over
  the one to three groups a `uint16_t` has; that there are no more makes the proof
  possible without induction. `WrittenLength` and the bounds of `LengthRead` say
  that nothing shorter would have been read as this value.

**Blocks in pieces, for every cut.** `BlocksTypeOK`, `BlocksNoAbort`,
`BlocksInStep`, `BlocksAsWhole`, `BlocksFieldsGiven`, `BlocksMeasured`,
`BlocksBufferHolds` and `BlocksResultBySize`: all the safety properties of
HpackBlocks, for any set of blocks, any cuts, any size of the buffer and any
resizes, under its three precautions. Together they say that the decoder that is
given octets is the one HpackSession and HpackReceiver have, which is given whole
representations. They follow from `BlocksInductive`: `Spec => []Inductive`.

* `Inductive` is stated in HpackBlocks. None of the properties is inductive: that
  the codec is left as whole representations leave it says nothing of a block
  that has been cut. There the invariant (`InsideBlock`) has the
  representation the decoder is in, and by its step, `bsy` and `left` its place in it
  (`Place`): the octets to come are those of the block from that place on. It has
  what is kept of the field (`Reading`), what lies in the buffer
  (`Held`, `Dropped`), and `Future`: whole representations, from the codec
  and the fields as they are *now*, would make of the rest of the block what `want`
  has, which is what they made of all of it when it began. A call that ends
  with an error leaves only what the result may be (`Failed`).
* HpackBlocksProofs has the invariant a second time as `Good`, a formula of
  parts with a name each and of the decoder as an argument, so that lemmas can be about
  any decoder and not about the variable; `InductiveUnfolds` and
  `InductiveFolds` say that the two are the same.
* The functions the model is built from are recursive functions over an interval
  (`FirstOctets`, `Outcome`, `DecodeOctets`, `SumOf`). `Reaches` is the
  induction they need, from the least natural number at which one might fail.
  `OctetsAre` and `OctetsInBlock` say where the octets of a
  representation lie in a block, `OutcomeNext` that the outcome of a block is
  that of the representations behind its first, from what that one leaves.
* An octet is a step of the induction along a piece (`PieceGood`):
  one that leaves the representation incomplete changes nothing that
  `Future` depends on, and the last one is one step of `WholeRep`. What makes the second
  true is that the checks and changes of hpack_decode, spread here over
  the head of the loop, the end of the name and the end of the value, are in the order in
  which HpackDecoder makes them.
* `Rooms` of the fields of a block, against what has been written and dropped,
  decides the result: a buffer that was once too small stays too small for the
  fields together, and every field that was dropped had been notified before.

**The octets of the table, for short names.** `LayoutTypeOK`, `LayoutLinked`,
`LayoutStringsWhole` and the refinement `LayoutImplementsTable`:
`Spec => ImplementsTable`, for any memory, limits, names and values. The
hypothesis `ShortNames` says that a name and its null character fit in the
padding of an entry and in `tmp`: the names of at most 9 octets in the code,
since the padding has 10 and `tmp` 64. It holds in `Layout.cfg`, fails in
`LayoutName.cfg`, and finding `layout_name` is what happens without it.

* They follow from `LayoutInductive`: `Spec => []Inductive`. That the walks find
  headers is not inductive: eviction walks backwards by `pre_sz`, which is right
  only if the forward walk by `nam_sz` and `val_sz` ends at the same places, and
  a name can be copied only if its octets are whole. The invariant says where
  each field ends and that its cells are there (`Lie`).
* In the proofs this is `Laid`, of any memory and not of the variable. `DynamicIs`,
  `BackIs` and `GoneIs` say where the walks lead in it, `AdjustIs` what
  HPT_adjust keeps, `NewestIs` that DynamicTable keeps the same.
* `RoomMoved` is where ShortNames is needed. The table moves by `namsz`, the name
  is written behind the place of the new header, and the table moves by the rest.
  What the name overwrites in between are the last `namsz` octets of a header,
  that of the newest entry, and these are padding. `RoomGiven` is the same for a
  name that is the application's, which overwrites nothing.
* What moves may lose its padding and the newest entry gets its `pre_sz` only now:
  `EntryMoved` and `Behind` say that it is the same entry all the same. `ReadIs`
  says that no other string can be read where one lies.

`Inductive` of the four specifications, `Careful` and `LengthRead` are also checked by
TLC, so that the formulas that are proved are ones that have been seen to hold and, by their
mutants, to fail. `Synced` is not: it quantifies over views and over
runs of any kind. `InSync` is what remains of it where the wire is empty.

**Checked by TLC only:**

* the other properties of HpackLiteral. They are about Huffman strings: what
  the tables put out depends on the 257 entries of the code, and on strings of
  bits taken one by one, which is an induction over data;
* `IterationEnds`, a liveness property, which is out of the prover's reach;
* what becomes of names of ten octets and more in HpackLayout, where the code is
  wrong.

## 6. Abstractions, and what is not modelled

* In the session and in the receiver a representation is sent and decoded
  whole, and the output buffers suffice. That the code may be given a block in
  pieces, and a small buffer, is the subject of HpackPieces and HpackBlocks,
  whose `AsWhole` justifies the abstraction.
* HpackPieces has tokens for octets: that a string of octets has a length and
  characters is the subject of HpackLiteral. The Huffman flag of a length that
  is cut (finding `flag_reread`) is therefore right in HpackPieces. Raw strings
  are written to the buffer an octet at a time and not a piece at a time:
  what has been written and moved at the end of the piece is the same.
* In the session the entries have no octets. Copying a name that lies in the table while
  the table moves over it (`hpt_move_evicted`) yields the name when it is shorter than
  the padding of an entry: that is what HpackLayout shows, and
  HpackLayoutProofs proves. When it is not, the table is taken to be lost and the
  assertion of the next walk to fail at once, where the code goes on until
  something walks the table.
* `hpack_check_buffer` compares the end of the buffer with that of the previous
  call. A buffer with another start and the same end passes in the code;
  HpackPieces has the same buffer or one that ends elsewhere.
* `HPV_token` and `HPV_value` refuse a string with `CHR` or `HDR`; the model has
  `CHR` for both, since the codec is as defunct after either.
* The length of a Huffman string is cast to 16 bits (`hpack.c:1012`). The
  strings that HpackLiteral encodes are short, and the cast does nothing there.
* The arithmetic of the generators of the Huffman tables (`gen/`): HpackHuffman
  derives the tables from the set of codes.
* HpackLayout leaves the maximum out: `HPT_adjust` sees the one limit in force.
  A member of a header that has been overwritten reads as 0, and what it
  contains in the code is any number.
* When `hpack_decode` or `hpack_encode` fails, the codec is defunct and what it
  has done to its sizes and its table by then is never read again; the model
  does not follow it there.
* Calls with wrong arguments, which return `HPACK_RES_ARG` and leave the codec
  alone; `hpack_free`; `hpack_monitor` and the unknown fields it allows;
  `hpack_clean_field`.
* The encoding buffer (`hpack_enc.c`), which hands out the octets of a block in
  DATA events of the buffer's size, and lists of several fields in one call of
  `hpack_encode`. With them, the loss of octets when automatic indexing refuses
  a field in the middle of a list (`hpack.c:1249`).
* Validation of names and values (`hpack_val.c`): `BadName` and `BadValue` are
  any sets.
* Events: what an application sees of the decoder is in `ret` and `got` of
  HpackSession and in `heard` of HpackPieces.
* The tests other than the decoding applications, the manual's programs, the
  build, and the text that `hpack_dump` writes.

## 7. Plan

Done: the core (HpackTable to HpackReceiver), the integers and Huffman strings
(HpackInt, HpackHuffman, HpackLiteral), partial decoding with its buffer, skipping
and field lists (HpackPieces, HpackBlocks), the octets of the table
(HpackLayout). What is left, in this order:

1. **Encoding buffer**: `HPE_putb`, `HPE_bcat` and `HPE_send`: the octets of a
   block do not depend on how it is split; lists of several fields.
2. **Monitoring**: `hpack_monitor` and the decoder that starts in the middle of
   a session.

Outside of the prover's reach and left to TLC: anything about ENABLED and
fairness, and what recursive functions over data (the Huffman codec) compute for
every input.
