----------------------------- MODULE CardMemory -----------------------------
(***************************************************************************)
(* The memory a shell program is kept in: the blocks of a MIFARE card      *)
(* behind SelectedCard, or of a file behind CardImage.  Block 1 is the     *)
(* GWY1 header, the others hold the payload, a chunk each; manufacturer    *)
(* and trailer blocks are never written and are left out.                  *)
(*                                                                         *)
(* A payload is the sequence of its chunks.  Its length in the header is   *)
(* counted in chunks: the padding of the last one is part of the chunk.    *)
(***************************************************************************)
EXTENDS Integers, Sequences

CONSTANTS
    Medium,     \* "card" or "image"
    Chunk,      \* 16-byte blocks of programs
    Blank,      \* a block of zeros
    Torn,       \* a block whose write was cut off
    NumBlocks,  \* payload blocks (46 on a Classic 1K card)
    Program,    \* payloads that are well-formed signed envelopes
    NoProgram,  \* no readable program
    Digest,     \* content_id(), 64 bits of SHA-256
    NoId,       \* content id bytes that are no payload's
    Fault       \* what may go wrong, see MemoryFault

MemoryFault == {"crash",    \* SIGKILL of a command
                "raises",   \* a write raises, having changed the block or not
                "silent",   \* a write changes nothing and does not tell
                "torn",     \* a write leaves something else than asked
                "unread",   \* a block cannot be read
                "removed"}  \* the card is taken off the reader

Cell == Chunk \cup {Blank, Torn}

Contents == UNION {[1..n -> Cell] : n \in 0..NumBlocks}

ASSUME MemoryAssumption ==
    /\ Medium \in {"card", "image"}
    /\ NumBlocks \in Nat \ {0}
    /\ Torn \notin Chunk
    /\ Program \subseteq UNION {[1..n -> Chunk] : n \in 1..NumBlocks}
    /\ NoProgram \notin Program
    /\ DOMAIN Digest = Contents
    /\ \A c \in Contents : Digest[c] # NoId
    /\ Fault \subseteq MemoryFault
    \* A block of an image is written by one write() to a regular file.
    /\ Medium = "image" => Fault \subseteq {"crash", "raises"}

-----------------------------------------------------------------------------

\* payload[:length] of the payload blocks.
Prefix(d, n) == [i \in 1..n |-> d[i]]

SHELL_FLAG == 1

\* A decoded block 1.  "magic" stands for all that CardHeader.decode checks:
\* magic, version and a length within the capacity.
Header == [magic : BOOLEAN, flags : {0, SHELL_FLAG}, length : 0..NumBlocks,
           cid : {Digest[c] : c \in Contents} \cup {NoId}]

InvalidHeader == [magic |-> FALSE, flags |-> 0, length |-> 0, cid |-> NoId]

HeaderOf(payload) == [magic |-> TRUE, flags |-> SHELL_FLAG,
                      length |-> Len(payload), cid |-> Digest[payload]]

\* Mutant: the content id is written but not compared.
ReadableUnchecked(h, d) ==
    /\ h.magic
    /\ h.flags = SHELL_FLAG
    /\ Prefix(d, h.length) \in Program

\* read_payload, then the flags and the envelope in read_program.
Readable(h, d) ==
    /\ h.magic
    /\ Digest[Prefix(d, h.length)] = h.cid
    /\ h.flags = SHELL_FLAG
    /\ Prefix(d, h.length) \in Program

\* No payload shares a program's content id; only the theorems that say so
\* assume it.
NoCollisions == \A c \in Contents, p \in Program : Digest[c] = Digest[p] => c = p

ReadProgram(h, d) == IF Readable(h, d) THEN Prefix(d, h.length) ELSE NoProgram

-----------------------------------------------------------------------------

\* Half-written headers: every field is the old or the new one; a length or a
\* content id of several bytes may also be a mixture of both.  One of the two
\* headers is always zeros, so that a mixed length is not above both.
TornHeaders(old, new) ==
    [magic : {old.magic, new.magic}, flags : {old.flags, new.flags},
     length : 0..(IF old.length > new.length THEN old.length ELSE new.length),
     cid : {old.cid, new.cid, NoId}]

\* What a write of "new" over "old" leaves in the block, and whether
\* write_block got as far as its readback.  mfrc522 0.0.7 reports nothing.
WriteOutcome(old, new, torn) ==
    {[now |-> new, ok |-> TRUE]}
    \cup (IF "raises" \in Fault THEN [now : {old, new}, ok : {FALSE}] ELSE {})
    \cup (IF "silent" \in Fault THEN {[now |-> old, ok |-> TRUE]} ELSE {})
    \cup (IF "torn" \in Fault THEN [now : torn, ok : BOOLEAN] ELSE {})
=============================================================================
