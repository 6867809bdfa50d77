-------------------------------- MODULE Image --------------------------------
(***************************************************************************)
(* The image format between pack_image.py, which writes it, and bridge.py, *)
(* which reads it back: magic, number of files, a table of fixed entries   *)
(* (name padded with NUL, offset, length), and the data behind it.  The    *)
(* two scripts do not share a definition of the layout.                    *)
(*                                                                         *)
(* Bytes are numbers.  A letter is the bytes that UTF-8 has for it, and a  *)
(* text a sequence of letters; a name stands for its bytes, which          *)
(* pack_image.py has encoded, so that they decode to it again.             *)
(***************************************************************************)
EXTENDS Integers, Sequences, SequencesExt, FiniteSetsExt

CONSTANT NameLen   \* NAME_LEN of both scripts, TFS_NAME_LEN

-----------------------------------------------------------------------------
(* pack_image.py                                                           *)

MAGIC  == <<84, 66, 88, 73, 77, 71>>          \* "TBXIMG"
KERNEL == <<107, 101, 114, 110, 101, 108>>    \* "kernel"

ASSUME ImageAssumption == NameLen \in Nat /\ NameLen > Len(KERNEL)

\* struct.pack("<I", n), which raises when n is beyond 32 bits.
Pack32(n) == <<n % 256, (n \div 256) % 256, (n \div 65536) % 256, (n \div 16777216) % 256>>

Fits32(n) == n \div 65536 < 65536

Padded(name) == name \o [i \in 1 .. NameLen - Len(name) |-> 0]

\* Where the data of the first of n files begins.
DataOffset(n) == Len(MAGIC) + 4 + (NameLen + 4 + 4) * n

\* A mistake the checks rule out: the cursor is advanced before it is written.
CursorLate(entries, i) ==
    FoldLeft(LAMBDA c, e : c + Len(e.data), DataOffset(Len(entries)), SubSeq(entries, 1, i))

\* cursor at the i-th turn of the loop.
Cursor(entries, i) ==
    FoldLeft(LAMBDA c, e : c + Len(e.data), DataOffset(Len(entries)), SubSeq(entries, 1, i - 1))

Table(entries) ==
    FlattenSeq([i \in DOMAIN entries |->
        Padded(entries[i].name) \o Pack32(Cursor(entries, i)) \o Pack32(Len(entries[i].data))])

Entries(kernel_data, init_files) ==
    << [name |-> KERNEL, data |-> kernel_data] >> \o init_files

\* A name that is too long and a number that is too large raise an error, before anything
\* is written.
Packable(kernel_data, init_files) ==
    LET entries == Entries(kernel_data, init_files) IN
    /\ \A i \in DOMAIN init_files : Len(init_files[i].name) < NameLen
    /\ Fits32(Len(entries))
    /\ \A i \in DOMAIN entries : Fits32(Cursor(entries, i)) /\ Fits32(Len(entries[i].data))

pack_image(kernel_data, init_files) ==
    LET entries == Entries(kernel_data, init_files) IN
    MAGIC \o Pack32(Len(entries)) \o Table(entries)
          \o FlattenSeq([i \in DOMAIN entries |-> entries[i].data])

-----------------------------------------------------------------------------
(* bridge.py                                                               *)

\* data[from:to]: what there is of it.
Slice(data, from, to) ==
    SubSeq(data, from + 1, IF to < Len(data) THEN to ELSE Len(data))

\* struct.unpack_from("<I", data, pos)
Unpack32(data, pos) ==
    data[pos + 1] + 256 * data[pos + 2] + 65536 * data[pos + 3] + 16777216 * data[pos + 4]

\* split(b"\x00", 1)[0]
UpToNul(s) == LET nul == SelectInSeq(s, LAMBDA b : b = 0) IN
              IF nul = 0 THEN s ELSE SubSeq(s, 1, nul - 1)

\* The bytes of a letter whose first is b; 0: there is none.
LetterSize(b) == CASE b < 128          -> 1
                   [] b \in 194 .. 223 -> 2
                   [] b \in 224 .. 239 -> 3
                   [] b \in 240 .. 244 -> 4
                   [] OTHER            -> 0

\* Which byte may follow b: the rest would be letters that a shorter form has, surrogates,
\* or beyond the last letter.
Second(b) == CASE b = 224 -> 160 .. 191
               [] b = 237 -> 128 .. 159
               [] b = 240 -> 144 .. 191
               [] b = 244 -> 128 .. 143
               [] OTHER   -> 128 .. 191

\* The bytes p are a letter, or the beginning of one.
BeginsLetter(p) ==
    /\ Len(p) \in 1 .. LetterSize(p[1])
    /\ Len(p) > 1 => p[2] \in Second(p[1])
    /\ \A i \in 3 .. Len(p) : p[i] \in 128 .. 191

IsLetter(p) == BeginsLetter(p) /\ Len(p) = LetterSize(p[1])

Replacement == <<239, 191, 189>>   \* U+FFFD

\* The decoder after the bytes p of a letter: it is part of the text when it is complete.
Taken(text, p) == IF IsLetter(p) THEN [text |-> Append(text, p), part |-> <<>>]
                                 ELSE [text |-> text, part |-> p]

\* The decoder gets a byte.  One that does not go on with the letter makes a U+FFFD of its
\* beginning; it begins a letter itself, or is a U+FFFD too.
GetByte(s, b) ==
    LET broken == IF s.part = <<>> THEN s.text ELSE Append(s.text, Replacement)
    IN  IF BeginsLetter(Append(s.part, b)) THEN Taken(s.text, Append(s.part, b))
        ELSE IF BeginsLetter(<<b>>)        THEN Taken(broken, <<b>>)
        ELSE [text |-> Append(broken, Replacement), part |-> <<>>]

NoBytes == [text |-> <<>>, part |-> <<>>]

\* decode("utf-8", errors="replace")
Decoded(bytes) ==
    LET end == FoldLeft(GetByte, NoBytes, bytes)
    IN  IF end.part = <<>> THEN end.text ELSE Append(end.text, Replacement)

EntryAt(data, i) ==
    LET pos    == 10 + (NameLen + 8) * (i - 1)
        offset == Unpack32(data, pos + NameLen)
        length == Unpack32(data, pos + NameLen + 4)
    IN  [name    |-> UpToNul(Slice(data, pos, pos + NameLen)),
         content |-> Decoded(Slice(data, offset, offset + length))]

\* Whether parse_image raises: a wrong magic, or an unpack_from beyond the end.
Raises(data) ==
    \/ Slice(data, 0, 6) # MAGIC
    \/ Len(data) < 10
    \/ Len(data) < 10 + (NameLen + 8) * Unpack32(data, 6)

parse_image(data) ==
    IF Raises(data) THEN [raised |-> TRUE, files |-> <<>>]
    ELSE [raised |-> FALSE, files |-> [i \in 1 .. Unpack32(data, 6) |-> EntryAt(data, i)]]
=============================================================================
