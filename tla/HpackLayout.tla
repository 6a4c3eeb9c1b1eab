----------------------------- MODULE HpackLayout -----------------------------
(***************************************************************************)
(* The memory of an encoder's dynamic table (lib/hpack_tbl.c): how entries *)
(* lie in it, how they are reached, evicted and moved, and how a name that *)
(* lies in it is copied when its entry may be evicted.                     *)
(*                                                                         *)
(* Memory is a function of cells, one for each octet of a string and one   *)
(* for each member of struct hpt_entry: magic, pre_sz, nam_sz and val_sz,  *)
(* then Pad cells for its padding.  An entry is its header, the name, the  *)
(* value, each with a null character: the Overhead is that of the header   *)
(* and the two null characters, as HPACK_OVERHEAD is 30 octets and 2.      *)
(*                                                                         *)
(* A cell is [is, n]: what was written there, and a number: the value of a *)
(* member, or the position of an octet in its string.  Cells beyond the    *)
(* table's length are blank between two calls: nothing reads them.         *)
(***************************************************************************)
EXTENDS Integers, Sequences, FiniteSetsExt

CONSTANTS
    Name, Value,            \* the strings; one value at most is empty
    NameSize, ValueSize,    \* and their lengths
    Pad,                    \* cells of padding in an entry: 10 octets
    Chunk,                  \* size of tmp in hpt_move_evicted: 64 octets
    Memory,                 \* cells allocated, hp->sz.mem
    Limits,                 \* limits the table may be given
    Garbage                 \* what is read where no name or value lies

ASSUME LayoutAssumption ==
    /\ NameSize \in [Name -> Nat \ {0}]
    /\ ValueSize \in [Value -> Nat]
    /\ Pad \in Nat /\ Chunk \in Nat \ {0}
    /\ Memory \in Nat /\ Limits \subseteq 0..Memory
    /\ Garbage \notin Name \cup Value
    /\ "nul" \notin Name \cup Value
    /\ \A v, w \in Value : ValueSize[v] = 0 /\ ValueSize[w] = 0 => v = w

Header == 4 + Pad           \* HPT_HEADERSZ
Overhead == Header + 2      \* HPACK_OVERHEAD

VARIABLES
    mem,    \* the cells of the table
    len,    \* sz.len
    cnt,    \* the number of entries
    lim     \* the limit

vars == <<mem, len, cnt, lim>>

Field == [nam : Name, val : Value]
SizeOf(fld) == Overhead + NameSize[fld.nam] + ValueSize[fld.val]

Blank == [is |-> "blank", n |-> 0]
Nul == [is |-> "nul", n |-> 0]
Cell(is, n) == [is |-> is, n |-> n]

\* The cells of a string, with its null character.
String(str, size) ==
    [i \in 0..size |-> IF i < size THEN Cell(str, i) ELSE Nul]
-----------------------------------------------------------------------------
(***************************************************************************)
(* memcpy of cells to an offset, and memmove within the memory.            *)
(***************************************************************************)
Copy(m, to, cells) ==
    [i \in DOMAIN m |-> IF i - to \in DOMAIN cells THEN cells[i - to] ELSE m[i]]

Move(m, to, from, n) ==
    [i \in DOMAIN m |-> IF i \in to..(to + n - 1) THEN m[i - to + from]
                        ELSE m[i]]

\* A member of the header at an offset; any number when something else has been
\* written there, taken as 0.
Member(m, off, member) ==
    LET at == off + CASE member = "magic" -> 0 [] member = "pre_sz" -> 1
                      [] member = "nam_sz" -> 2 [] member = "val_sz" -> 3
    IN  IF at \in DOMAIN m /\ m[at].is = member THEN m[at].n ELSE 0

Span(m, off) == Overhead + Member(m, off, "nam_sz") + Member(m, off, "val_sz")

\* hpt_dynamic: the offset of an entry, by the sizes of those before it.
hpt_dynamic(m, idx) ==
    LET at[k \in 1..idx] == IF k = 1 THEN 0 ELSE at[k - 1] + Span(m, at[k - 1])
    IN  at[idx]
-----------------------------------------------------------------------------
(***************************************************************************)
(* HPT_adjust(ctx, need): the number of entries that stay and the length   *)
(* they leave.  The oldest one is found by the sizes, the others from it   *)
(* by pre_sz.                                                              *)
(***************************************************************************)
LinksForward(m, count, size, need, limit) ==    \* mutant: without pre_sz
    LET back[k \in 1..count] ==
            IF k = count THEN hpt_dynamic(m, count) ELSE 0
        gone[k \in 0..count] ==
            IF k = count THEN 0 ELSE gone[k + 1] + Span(m, back[k + 1])
        left == Max({k \in 0..count : k = 0 \/ need - gone[k] <= limit})
    IN  [cnt |-> left, len |-> size - gone[left]]

HPT_adjust(m, count, size, need, limit) ==
    LET back[k \in 1..count] ==
            IF k = count THEN hpt_dynamic(m, count)
            ELSE back[k + 1] - Member(m, back[k + 1], "pre_sz")
        gone[k \in 0..count] ==
            IF k = count THEN 0 ELSE gone[k + 1] + Span(m, back[k + 1])
        left == Max({k \in 0..count : k = 0 \/ need - gone[k] <= limit})
    IN  [cnt |-> left, len |-> size - gone[left]]

(***************************************************************************)
(* hpt_move_evicted: the name at offset nam is taken through tmp a piece   *)
(* at a time, each before the table moves over it by as much, and the      *)
(* table moves by the rest of need; nam_ptr stays behind the header of the *)
(* new entry.                                                              *)
(***************************************************************************)
hpt_move_evicted(m, nam, namsz, need, size) ==
    LET pieces == (namsz + Chunk - 1) \div Chunk
        taken(p) == Min({p * Chunk, namsz})
        up[p \in 0..pieces] ==
            IF p = 0 THEN m
            ELSE LET from == taken(p - 1)
                     to   == taken(p)
                     tmp  == [i \in 0..(to - from - 1) |->
                                 up[p - 1][nam + from + i]]
                 IN  Copy(Move(up[p - 1], to, from, size), Header, tmp)
    IN  Move(up[pieces], need, namsz, size)

NameAfterMove(m, fld, from, size) ==    \* mutant: the table moves first
    LET need  == SizeOf(fld)
        moved == Move(Copy(m, 1, [i \in {0} |-> Cell("pre_sz", need)]), need, 0,
                      size)
    IN  Copy(moved, Header,
             IF from < 0 THEN String(fld.nam, NameSize[fld.nam])
             ELSE [i \in 0..NameSize[fld.nam] |-> moved[from + i]])

\* HPT_index, once the field fits: the newest entry is linked to the one to
\* come, the others move, and the name is copied, from offset from when it lies
\* in the table.
MakeRoom(m, fld, from, size) ==
    LET need   == SizeOf(fld)
        linked == Copy(m, 1, [i \in {0} |-> Cell("pre_sz", need)])
    IN  IF from >= 0
        THEN hpt_move_evicted(linked, from, NameSize[fld.nam] + 1, need, size)
        ELSE Copy(Move(linked, need, 0, size), Header,
                  String(fld.nam, NameSize[fld.nam]))

\* The header is written last.
HeaderOf(fld) ==
    [i \in 0..3 |-> CASE i = 0 -> Cell("magic", 0)
                      [] i = 1 -> Cell("pre_sz", 0)
                      [] i = 2 -> Cell("nam_sz", NameSize[fld.nam])
                      [] OTHER -> Cell("val_sz", ValueSize[fld.val])]

Write(m, fld) ==
    Copy(Copy(m, Header + NameSize[fld.nam] + 1,
              String(fld.val, ValueSize[fld.val])),
         0, HeaderOf(fld))

Forget(m, size) == [i \in DOMAIN m |-> IF i < size THEN m[i] ELSE Blank]

HPT_index(fld, from) ==
    LET need == SizeOf(fld)
        left == HPT_adjust(mem, cnt, len, len + need, lim)
    IN  IF need > lim
        THEN /\ cnt' = left.cnt /\ len' = left.len
             /\ mem' = Forget(mem, left.len)
        ELSE /\ cnt' = left.cnt + 1 /\ len' = left.len + need
             /\ \E m \in {MakeRoom(mem, fld, from, left.len)} :
                   mem' = Forget(Write(m, fld), left.len + need)
-----------------------------------------------------------------------------
Init ==
    /\ mem = [i \in 0..(Memory - 1) |-> Blank]
    /\ len = 0 /\ cnt = 0
    /\ lim \in Limits

\* hpack_encode_dynamic: a field whose name is the application's, or that of a
\* static entry.
Index(fld) ==
    /\ HPT_index(fld, -1)
    /\ UNCHANGED lim

NameAt(k) == hpt_dynamic(mem, k) + Header

\* The string of a set that lies at an offset, with its null character.
Read(m, set, sizes, at) ==
    LET Lies(s, from) == \A i \in 0..sizes[s] :
            /\ from + i \in DOMAIN m
            /\ m[from + i] = String(s, sizes[s])[i]
    IN  CHOOSE s \in set \cup {Garbage} : \E from \in {at} :
            IF s = Garbage THEN \A t \in set : ~ Lies(t, from)
            ELSE Lies(s, from)

\* A field whose name is that of an entry (HPACK_FLG_NAM_IDX).
IndexNamed(k, val) ==
    /\ k <= cnt
    /\ \E nam \in {Read(mem, Name, NameSize, NameAt(k))} :
          /\ nam # Garbage
          /\ HPT_index([nam |-> nam, val |-> val], NameAt(k))
    /\ UNCHANGED lim

\* The table is resized, or limited.
Limit(n) ==
    LET left == HPT_adjust(mem, cnt, len, len, n)
    IN  /\ lim' = n
        /\ cnt' = left.cnt /\ len' = left.len
        /\ mem' = Forget(mem, left.len)

Next ==
    \/ \E fld \in Field : Index(fld)
    \/ \E k \in 1..cnt, val \in Value : IndexNamed(k, val)
    \/ \E n \in Limits : Limit(n)

Spec == Init /\ [][Next]_vars
-----------------------------------------------------------------------------
TypeOK ==
    /\ DOMAIN mem = 0..(Memory - 1)
    /\ len \in 0..Memory
    /\ cnt \in Nat
    /\ lim \in Limits

\* What HPT_foreach, HPT_search, hpt_dynamic and HPT_adjust assert of every
\* entry they reach: a header is there, linked to the entry before it, with a
\* name; and the entries end where the table does.
Linked ==
    LET off(k) == hpt_dynamic(mem, k)
    IN  /\ \A k \in 1..cnt :
              /\ off(k) < len
              /\ mem[off(k)] = Cell("magic", 0)
              /\ Member(mem, off(k), "nam_sz") > 0
              /\ mem[off(k) + 1] =
                    Cell("pre_sz", IF k = 1 THEN 0 ELSE off(k) - off(k - 1))
        /\ len = IF cnt = 0 THEN 0 ELSE off(cnt) + Span(mem, off(cnt))

\* The field of an entry, as HPT_field gives it.
HPT_field(m, off) ==
    [nam |-> Read(m, Name, NameSize, off + Header),
     val |-> Read(m, Value, ValueSize,
                  off + Header + Member(m, off, "nam_sz") + 1)]

\* The name and the value of an entry lie where its header says, whole, and
\* their sizes are those of the header.
StringsWhole ==
    \A k \in 1..cnt : \E off \in {hpt_dynamic(mem, k)} :
        /\ HPT_field(mem, off) \in Field
        /\ Span(mem, off) = SizeOf(HPT_field(mem, off))

\* The entries the walks reach are those of a dynamic table: the fields added
\* last, whatever has been moved, evicted or copied within the memory.
Table ==
    CHOOSE fields \in {[k \in 1..cnt |-> HPT_field(m, hpt_dynamic(m, k))] :
                          m \in {mem}} : TRUE

(***************************************************************************)
(* The inductive invariant behind these, for short names: the fields flds  *)
(* lie in m one behind the other, the k-th of them up to end[k].           *)
(***************************************************************************)
EntryAt(m, off, fld, pre) ==
    /\ m[off] = Cell("magic", 0)
    /\ m[off + 1] = Cell("pre_sz", pre)
    /\ m[off + 2] = Cell("nam_sz", NameSize[fld.nam])
    /\ m[off + 3] = Cell("val_sz", ValueSize[fld.val])
    /\ \A i \in 0..NameSize[fld.nam] :
          m[off + Header + i] = String(fld.nam, NameSize[fld.nam])[i]
    /\ \A i \in 0..ValueSize[fld.val] :
          m[off + Header + NameSize[fld.nam] + 1 + i]
          = String(fld.val, ValueSize[fld.val])[i]

Lie(m, flds, end) ==
    /\ end[0] = 0
    /\ \A k \in 1..Len(flds) :
          /\ end[k] = end[k - 1] + SizeOf(flds[k])
          /\ EntryAt(m, end[k - 1], flds[k],
                     IF k = 1 THEN 0 ELSE SizeOf(flds[k - 1]))

Inductive ==
    /\ TypeOK /\ len <= lim
    /\ \E flds \in {Table} :
          /\ flds \in Seq(Field) /\ Len(flds) = cnt
          /\ \E end \in {[k \in 0..cnt |->
                            IF k = 0 THEN 0
                            ELSE hpt_dynamic(mem, k)
                                 + Span(mem, hpt_dynamic(mem, k))]} :
                Lie(mem, flds, end) /\ len = end[cnt]

Abstract == INSTANCE DynamicTable WITH
    Size <- [f \in Field |-> SizeOf(f)],
    table <- Table, limit <- lim

ImplementsTable == Abstract!Spec
=============================================================================
