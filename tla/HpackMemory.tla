----------------------------- MODULE HpackMemory -----------------------------
(***************************************************************************)
(* Creation, reallocation, resizing, limiting and trimming of a codec      *)
(* (lib/hpack.c, "Memory management").  Each operator is one function of   *)
(* the API: it takes the codec and returns it as the call leaves it.       *)
(*                                                                         *)
(* Fields of the record hp, with their names in struct hpack:              *)
(*   magic    "ENCODER", "DECODER", "DEFUNCT", or "ABORTED" once an        *)
(*            assertion of the code has failed                             *)
(*   realloc  whether the memory manager has a realloc operation           *)
(*   mem max lim cap len nxt min   struct hpack_size                       *)
(*   tbl      the dynamic table, see HpackTable                            *)
(*   res      ctx.res: "OK" between blocks, "BLK" inside one, or an error  *)
(*   upd      HPACK_CTX_CAN_UPD of ctx.flg                                 *)
(*   self     whether ctx.hp still points to the codec                     *)
(***************************************************************************)
EXTENDS HpackTable

CONSTANT MaxSize    \* UINT16_MAX

ASSUME MaxSizeAssumption == MaxSize \in Nat

Usable(hp) == hp.magic \in {"ENCODER", "DECODER"}

\* A codec that has failed: every later call on it returns HPACK_RES_ARG.
Defunct(hp) == [hp EXCEPT !.magic = IF @ = "ABORTED" THEN @ ELSE "DEFUNCT"]
-----------------------------------------------------------------------------
hpack_new(magic, mem, max, realloc) ==
    [magic |-> magic, realloc |-> realloc, mem |-> mem, max |-> max,
     lim |-> -1, cap |-> -1, len |-> 0, nxt |-> -1, min |-> -1,
     tbl |-> <<>>, res |-> "OK", upd |-> FALSE, self |-> TRUE]

\* hpack_encoder: the allocation is what the initial limit needs, and the
\* limit waits in cap.  A negative lim means no limit.
hpack_encoder(max, lim, realloc) ==
    IF lim < 0 THEN hpack_new("ENCODER", max, max, realloc)
    ELSE [hpack_new("ENCODER", lim, max, realloc) EXCEPT !.cap = lim]

hpack_decoder(max, rsz, realloc) ==
    hpack_new("DECODER", IF rsz >= max THEN rsz ELSE max, max, realloc)

(***************************************************************************)
(* hpack_realloc: the table only ever grows here.  The result also carries *)
(* the code's return value; oom says whether the allocator fails.          *)
(***************************************************************************)
ReallocStays(hp, mem, oom) ==   \* mutant of hpack_realloc: mem is not grown
    [hp |-> hp, ret |-> "OK"]

ReallocStale(hp, mem, oom) ==   \* mutant: ctx.hp is not set again
    IF mem <= hp.mem THEN [hp |-> hp, ret |-> "OK"]
    ELSE [hp |-> [hp EXCEPT !.mem = mem, !.self = FALSE], ret |-> "OK"]

hpack_realloc(hp, mem, oom) ==
    IF mem <= hp.mem THEN [hp |-> hp, ret |-> "OK"]
    ELSE IF hp.len > mem THEN [hp |-> Abort(hp), ret |-> "OK"]
    ELSE IF ~hp.realloc THEN [hp |-> hp, ret |-> "REA"]
    ELSE IF oom THEN [hp |-> hp, ret |-> "OOM"]
    ELSE [hp |-> [hp EXCEPT !.mem = mem, !.self = TRUE], ret |-> "OK"]

(***************************************************************************)
(* hpack_resize: the peer decoder's new maximum is recorded, not applied:  *)
(* nxt is the last one, min the smallest since the last block.  Memory is  *)
(* reserved at once, for the soft limit of an encoder when it has one.     *)
(***************************************************************************)
ResizeMemory(hp, len) ==
    IF hp.magic = "ENCODER" /\ hp.lim >= 0 THEN hp.lim
    ELSE IF hp.magic = "ENCODER" /\ hp.cap >= 0 THEN hp.cap
    ELSE len

ResizeAsserts(hp, room) ==
    hp.magic = "ENCODER" =>
        IF hp.lim >= 0
        THEN hp.lim = hp.cap /\ hp.lim <= hp.mem /\ hp.lim >= hp.len
        ELSE hp.cap <= room

ResizeKeepsMin(hp, len, oom) ==     \* mutant of hpack_resize: min only set once
    LET grown == hpack_realloc(hp, ResizeMemory(hp, len), oom)
    IN  IF hp.res # "OK" \/ grown.ret # "OK" THEN hp
        ELSE [grown.hp EXCEPT !.nxt = len, !.min = IF @ < 0 THEN len ELSE @]

hpack_resize(hp, len, oom) ==
    LET room  == IF hp.realloc THEN MaxSize ELSE hp.mem
        mem   == ResizeMemory(hp, len)
        grown == hpack_realloc(hp, mem, oom)
    IN  IF hp.res # "OK" THEN (IF hp.res = "BLK" THEN hp ELSE Abort(hp))
        ELSE IF ~ResizeAsserts(hp, room) THEN Abort(hp)
        ELSE IF mem > room \/ grown.ret # "OK" THEN Defunct(hp)
        ELSE [grown.hp EXCEPT
                !.nxt = len,
                !.min = IF @ < 0 \/ @ > len THEN len ELSE @]

LimitUnreserved(hp, len, oom) ==    \* mutant of hpack_limit: mem is not grown
    IF hp.res # "OK" \/ len > MaxSize THEN hp ELSE [hp EXCEPT !.cap = len]

\* hpack_limit: a soft limit for the next block, at an encoder.
hpack_limit(hp, len, oom) ==
    LET mem   == IF len >= hp.max /\ hp.mem < hp.max THEN hp.max ELSE hp.mem
        grown == hpack_realloc(hp, mem, oom)
    IN  IF hp.res # "OK" THEN (IF hp.res = "BLK" THEN hp ELSE Abort(hp))
        ELSE IF len > MaxSize THEN hp
        ELSE IF grown.ret = "REA" THEN hp
        ELSE IF grown.ret = "OOM" THEN Defunct(hp)
        ELSE [grown.hp EXCEPT !.cap = len]

\* hpack_trim: give back the memory above the size in force.  When realloc
\* moves the codec, nobody tells ctx.hp.
hpack_trim(hp, oom, moves) ==
    LET size == IF hp.magic = "ENCODER" THEN HPACK_LIMIT(hp) ELSE hp.max
    IN  IF ~hp.realloc THEN hp
        ELSE IF hp.res # "OK" THEN (IF hp.res = "BLK" THEN hp ELSE Abort(hp))
        ELSE IF hp.lim > hp.max THEN Abort(hp)
        ELSE IF hp.mem > size /\ ~oom
        THEN [hp EXCEPT !.mem = size, !.self = @ /\ ~moves]
        ELSE hp

\* hpack_dynamic and hpack_tables: the walk is passive but the context it
\* borrows is zeroed first.
hpack_foreach(hp) == [hp EXCEPT !.res = "OK", !.upd = FALSE, !.self = TRUE]
-----------------------------------------------------------------------------
\* What ctx.res may hold: the state of a block, or an error.
Results == {"OK", "BLK", "FLD", "ARG", "BUF", "INT", "BIG", "IDX", "LEN", "CHR",
            "UPD"}

Codec == [magic   : {"ENCODER", "DECODER", "DEFUNCT", "ABORTED"},
          realloc : BOOLEAN,
          mem     : Nat,
          max     : Nat,
          lim     : Nat \cup {-1},
          cap     : Nat \cup {-1},
          len     : Int,
          nxt     : Nat \cup {-1},
          min     : Nat \cup {-1},
          tbl     : Seq(Entry),
          res     : Results,
          upd     : BOOLEAN,
          self    : BOOLEAN]

\* The resizes that wait for the next block: both marks or none, and the
\* smallest below the last.
Ordered(hp) == hp.min <= hp.nxt /\ (hp.min < 0 <=> hp.nxt < 0)

\* What every call leaves true of a codec.
Healthy(hp) == hp \in Codec /\ Sound(hp) /\ Ordered(hp)
=============================================================================
