----------------------------- MODULE HpackTable -----------------------------
(***************************************************************************)
(* The indexing tables of an HPACK codec (lib/hpack_tbl.c).                *)
(*                                                                         *)
(* A codec is a record hp with the fields of struct hpack that the control *)
(* flow depends on.  This module reads and writes tbl, len and the size    *)
(* fields max, lim and nxt; the other fields belong to the modules that    *)
(* extend this one.                                                        *)
(*                                                                         *)
(* hp.tbl is the dynamic table, newest entry first.  An entry is           *)
(* [fld, pos]: the field and the offset of the entry from the start of the *)
(* table, DIFF(hp->tbl, he) in the code.  The code reaches an entry by     *)
(* walking sizes (hpt_dynamic) or pre_sz links (HPT_adjust); the offsets   *)
(* are what the two walks must agree on.  hp.len is sz.len, the number of  *)
(* octets the code believes the table occupies.                            *)
(***************************************************************************)
EXTENDS Integers, Sequences, FiniteSetsExt

CONSTANTS
    Name,       \* header field names
    Value,      \* header field values
    NameSize,   \* nam_sz of a name
    ValueSize,  \* val_sz of a value
    Overhead,   \* HPACK_OVERHEAD
    Pad,        \* octets of padding in struct hpt_entry: 10
    Chunk,      \* octets of tmp in hpt_move_evicted: 64
    StaticTable \* the static table, a sequence of fields

Field == [nam : Name, val : Value]
Entry == [fld : Field, pos : Nat]
Static == Len(StaticTable)      \* HPACK_STATIC

ASSUME SizeAssumption ==
    /\ NameSize \in [Name -> Nat \ {0}]
    /\ ValueSize \in [Value -> Nat]
    /\ Overhead \in Nat \ {0}
    /\ Pad \in Nat /\ Chunk \in Nat /\ Pad <= Chunk
    /\ StaticTable \in Seq(Field)

SizeOf(fld) == Overhead + NameSize[fld.nam] + ValueSize[fld.val]

\* HPACK_LIMIT: the size in force, the soft limit when there is one.
HPACK_LIMIT(hp) == IF hp.lim >= 0 THEN hp.lim ELSE hp.max

\* Where the k newest entries end.
EndOf(tbl, k) == IF k = 0 THEN 0 ELSE tbl[k].pos + SizeOf(tbl[k].fld)

\* An assertion of the code that fails ends the process.
Abort(hp) == [hp EXCEPT !.magic = "ABORTED"]
-----------------------------------------------------------------------------
(***************************************************************************)
(* HPT_adjust(ctx, len): drop the oldest entries, one at a time, until len *)
(* (the length the table has, or would have) is within the limit.  Kept is *)
(* the number of entries when the loop stops.                              *)
(***************************************************************************)
KeptOneOver(hp, len) ==     \* mutant of Kept: one octet too many may stay
    LET left(k) == len - (EndOf(hp.tbl, Len(hp.tbl)) - EndOf(hp.tbl, k))
    IN  Max({k \in 0..Len(hp.tbl) : k = 0 \/ left(k) <= HPACK_LIMIT(hp) + 1})

Kept(hp, len) ==
    LET left(k) == len - (EndOf(hp.tbl, Len(hp.tbl)) - EndOf(hp.tbl, k))
    IN  Max({k \in 0..Len(hp.tbl) : k = 0 \/ left(k) <= HPACK_LIMIT(hp)})

Evict(hp, k) ==
    [hp EXCEPT !.tbl = SubSeq(@, 1, k),
               !.len = @ - (EndOf(hp.tbl, Len(hp.tbl)) - EndOf(hp.tbl, k))]

HPT_adjust(hp, len) ==
    IF hp.lim <= hp.max \/ hp.nxt > hp.max
    THEN Evict(hp, Kept(hp, len))
    ELSE Abort(hp)

(***************************************************************************)
(* HPT_index: make room for the field, then insert it at the head of the   *)
(* table, the other entries moving up by its size.  A field larger than    *)
(* the limit empties the table and is not inserted.  The name lies outside *)
(* the table: a decoder has it in its buffer, an encoder in the static     *)
(* table or in the field it was given.                                     *)
(***************************************************************************)
Insert(hp, fld) ==
    LET moved == [i \in DOMAIN hp.tbl |->
                    [hp.tbl[i] EXCEPT !.pos = @ + SizeOf(fld)]]
    IN  [hp EXCEPT !.tbl = <<[fld |-> fld, pos |-> 0]>> \o moved,
                   !.len = @ + SizeOf(fld)]

HPT_index(hp, fld) ==
    LET fit == HPT_adjust(hp, hp.len + SizeOf(fld))
    IN  IF hp.lim > hp.max THEN Abort(hp)
        ELSE IF SizeOf(fld) > HPACK_LIMIT(hp) THEN fit
        ELSE Insert(fit, fld)

(***************************************************************************)
(* HPT_index when hpt_overlap finds the name in the table.                 *)
(* hpt_move_evicted takes a piece of the name aside, moves what remains of *)
(* the table by the size of the piece only, and puts the piece where the   *)
(* new entry has its name: over the header of the entry next to it, whose  *)
(* last octets are padding.  A name that does not fit in the padding with  *)
(* its null character writes the sizes next to it, and a name of more than *)
(* one piece is put together wrong.  HpackLayout has the octets; here what *)
(* the table holds is lost while sz.len still counts it, and the assertion *)
(* that fails in the next walk (hpack_tbl.c:147) is taken to fail at once. *)
(***************************************************************************)
hpt_move_evicted(hp, fld) ==
    LET done == HPT_index(hp, fld)
    IN  IF /\ SizeOf(fld) <= HPACK_LIMIT(hp)
           /\ \/ NameSize[fld.nam] >= Pad /\ Len(done.tbl) > 1
              \/ NameSize[fld.nam] >= Chunk
        THEN Abort([done EXCEPT !.tbl = <<>>])
        ELSE done
-----------------------------------------------------------------------------
(***************************************************************************)
(* Lookups.  Static indices come first, then the dynamic table.            *)
(***************************************************************************)
Indices(hp) == 1..(Static + Len(hp.tbl))

HPT_field(hp, idx) ==
    IF idx <= Static THEN StaticTable[idx] ELSE hp.tbl[idx - Static].fld

(***************************************************************************)
(* HPT_search: an exact match in the static table, then the newest exact   *)
(* match in the dynamic table, then a name: the oldest dynamic one, or     *)
(* else the static one the binary search probed last, which is any of the  *)
(* static entries of that name.  The results are records [idx, full], full *)
(* when the value matched as well; idx 0 when nothing matched.             *)
(***************************************************************************)
SearchNameAsFull(hp, fld) ==    \* mutant of HPT_search: the value is ignored
    LET names == {i \in Indices(hp) : HPT_field(hp, i).nam = fld.nam}
    IN  [idx : IF names = {} THEN {0} ELSE {Max(names)}, full : {names # {}}]

HPT_search(hp, fld) ==
    LET exact == {i \in Indices(hp) : HPT_field(hp, i) = fld}
        names == {i \in Indices(hp) : HPT_field(hp, i).nam = fld.nam}
        idx   == IF exact # {} THEN {Min(exact)}
                 ELSE IF names = {} THEN {0}
                 ELSE IF Max(names) > Static THEN {Max(names)}
                 ELSE names
    IN  [idx : idx, full : {exact # {}}]
-----------------------------------------------------------------------------
(***************************************************************************)
(* What HPT_foreach, HPT_search and hpt_dynamic assert of every table they *)
(* walk: the entries lie back to back from offset 0 and end at sz.len.     *)
(***************************************************************************)
LaidOut(hp) ==
    /\ \A i \in DOMAIN hp.tbl : hp.tbl[i].pos = EndOf(hp.tbl, i - 1)
    /\ hp.len = EndOf(hp.tbl, Len(hp.tbl))

Fits(hp) == hp.len <= HPACK_LIMIT(hp)

Sound(hp) == LaidOut(hp) /\ (hp.magic # "ABORTED" => Fits(hp))
=============================================================================
