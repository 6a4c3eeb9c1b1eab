---------------------------- MODULE DynamicTable ----------------------------
(***************************************************************************)
(* What a dynamic table is for the two ends of a connection (RFC 7541,     *)
(* sections 2.3.2 and 4): the fields added last, the newest first, as many *)
(* of them as fit in its limit.                                            *)
(***************************************************************************)
EXTENDS Integers, Sequences, FiniteSetsExt

CONSTANTS
    Field,      \* the fields
    Size,       \* the size of each, a positive number, overhead included
    Limits      \* the limits it may be given

VARIABLES
    table,  \* the fields
    limit   \* its limit

\* The size of the k newest of some fields.
Total(fields, k) ==
    LET sum[i \in 0..k] == IF i = 0 THEN 0 ELSE sum[i - 1] + Size[fields[i]]
    IN  sum[k]

\* The newest of some fields, as many as fit in room octets.
Newest(fields, room) ==
    SubSeq(fields, 1, Max({k \in 0..Len(fields) :
                            k = 0 \/ Total(fields, k) <= room}))

Init == table = <<>> /\ limit \in Limits

\* The oldest fields make room for the new one, which is not kept if it fits
\* in no table of this limit.
Add(f) ==
    /\ UNCHANGED limit
    /\ table' = IF Size[f] > limit THEN <<>>
                ELSE <<f>> \o Newest(table, limit - Size[f])

SetLimit(n) ==
    /\ limit' = n
    /\ table' = Newest(table, n)

Next == (\E f \in Field : Add(f)) \/ (\E n \in Limits : SetLimit(n))

Spec == Init /\ [][Next]_<<table, limit>>
=============================================================================
