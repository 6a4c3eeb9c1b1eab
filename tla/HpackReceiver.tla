---------------------------- MODULE HpackReceiver ----------------------------
(***************************************************************************)
(* A decoder and a peer that sends any sequence of representations: its    *)
(* encoder may be of another make, late, or wrong.  The application        *)
(* announces table sizes, calls hpack_resize for each once it has been     *)
(* acknowledged, and decodes what comes.  It takes the precautions that    *)
(* HpackSession names "trim" and "move": it calls hpack_trim while no      *)
(* resize waits only, and its realloc leaves a codec that shrinks where it *)
(* is.                                                                     *)
(***************************************************************************)
EXTENDS HpackDecoder

CONSTANTS
    InitialMax,     \* size the decoder is created with
    Announced,      \* sizes the application may announce
    Updates,        \* sizes the peer may signal
    MaxIndex,       \* largest index the peer may use
    Fields          \* the fields it may send

ASSUME ReceiverAssumption ==
    /\ InitialMax \in 0..MaxSize
    /\ Announced \subseteq Nat
    /\ Updates \subseteq Nat
    /\ MaxIndex \in Nat
    /\ Fields \subseteq Field /\ Fields # {}

VARIABLES
    dec,    \* the decoder
    told,   \* the last size announced and acknowledged
    body    \* what has been decoded of the block: "none" but updates, only
            \* "masked" fields, which look like updates, or a "plain" one

vars == <<dec, told, body>>

\* What the peer may send next.  The field of an indexed representation is
\* looked up, so that any will do.
Reps ==
    [typ : {"IDX"}, num : 0..MaxIndex, fld : {CHOOSE f \in Fields : TRUE},
     cut : BOOLEAN]
    \cup [typ : {"DYN", "LIT", "NVR"}, num : 0..MaxIndex, fld : Fields,
          cut : BOOLEAN]
    \cup [typ : {"UPD"}, num : Updates, fld : {NoField}, cut : BOOLEAN]
-----------------------------------------------------------------------------
Init ==
    /\ dec = hpack_decoder(InitialMax, -1, TRUE)
    /\ told = InitialMax
    /\ body = "none"

Announce(n, oom) ==
    /\ dec.magic = "DECODER"
    /\ dec' = hpack_resize(dec, n, oom)
    /\ told' = IF dec.res = "OK" THEN n ELSE told
    /\ UNCHANGED body

Receive(rep) ==
    /\ dec.magic = "DECODER"
    /\ dec' = hpack_decode(dec, rep).hp
    /\ body' = IF ~rep.cut THEN "none"
                ELSE IF rep.typ = "UPD" THEN body
                ELSE IF LooksLikeUpdate(rep) /\ body # "plain" THEN "masked"
                ELSE "plain"
    /\ UNCHANGED told

\* With the precautions "trim" and "move".
Trim(oom) ==
    /\ dec.magic = "DECODER"
    /\ dec.nxt < 0
    /\ dec' = hpack_trim(dec, oom, FALSE)
    /\ UNCHANGED <<told, body>>

Next ==
    \/ \E n \in Announced, oom \in BOOLEAN : Announce(n, oom)
    \/ \E rep \in Reps : Receive(rep)
    \/ \E oom \in BOOLEAN : Trim(oom)

Spec == Init /\ [][Next]_vars
-----------------------------------------------------------------------------
TypeOK ==
    /\ dec \in Codec
    /\ told \in Nat
    /\ body \in {"none", "masked", "plain"}

\* No peer makes an assertion of the decoder fail: not those of HPT_adjust and
\* HPT_index on the sizes, nor those of hpack_decode and hpack_resize on the
\* resizes that wait.
DecoderHolds == dec.magic # "ABORTED"

\* Whatever the peer inserts and signals, the table is laid out, within its
\* limit, and within the memory hpack_resize and hpack_trim left it.
TableHolds == Sound(dec) /\ (Usable(dec) => dec.len <= dec.mem)

\* While no resize waits to be signalled, the peer is held to the last size the
\* application told it, not to one of those announced before: the update that
\* ended the wait has taken it over in hpack_decode_update, however many resizes
\* it was for.  A block that begins with a field that looks like an update may
\* be decoded and leave a resize waiting (UpdatesBeforeFields).
HeldToSize ==
    Usable(dec) /\ dec.nxt < 0 => dec.max = told /\ HPACK_LIMIT(dec) <= told

\* Past the first field that does not look like an update, no update is
\* missing, and hpack_decode accepts none before the next block.
UpdatesBeforePlain ==
    Usable(dec) /\ body = "plain" => dec.nxt < 0 /\ ~dec.upd

\* The inductive invariant behind all of these.  Resizes are told between two
\* blocks only, and the last size told is the one that waits, or the one in
\* force; a field that does not look like an update keeps the block closed to
\* updates until it ends.
Inductive ==
    /\ DecoderHealthy(dec)
    /\ told \in Nat
    /\ body \in {"none", "masked", "plain"}
    /\ dec.magic = "DECODER" =>
          /\ told = IF dec.nxt < 0 THEN dec.max ELSE dec.nxt
          /\ body # "none" => dec.res = "BLK"
          /\ body = "plain" => dec.nxt < 0 /\ ~dec.upd

\* Past the first field of a block, of whatever kind, no update is missing and
\* none is accepted: what the results RSZ ("a table update was expected after a
\* table resize but didn't occur") and UPD ("a table update occurred at a wrong
\* time") are for.
UpdatesBeforeFields ==
    Usable(dec) /\ body # "none" => dec.nxt < 0 /\ ~dec.upd
=============================================================================
