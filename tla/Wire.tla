-------------------------------- MODULE Wire --------------------------------
(***************************************************************************)
(* The encoding of objects: OutputStream and InputStream with their        *)
(* implementations ByteOutputStream, StreamSize (which only counts what a  *)
(* ByteOutputStream would write, for the size in a packet's header) and    *)
(* ByteInputStream.                                                        *)
(*                                                                         *)
(* A class is described by what its serialize writes and, separately, by   *)
(* what its deserialize reads: two sequences of fields.  What is written   *)
(* is a sequence of tokens, one for each primitive value: its width in     *)
(* bytes, its width as StreamSize counts it, the member it is the value    *)
(* of, and, when reading depends on it (a length, a count, a flag), the    *)
(* value.  The streams are built without alignment.                        *)
(***************************************************************************)
EXTENDS Naturals, Sequences

-----------------------------------------------------------------------------
\* Fields.

Prim(t, m)       == [k |-> "prim", t |-> t, m |-> m]
Octet(m)         == Prim("octet", m)
Bool(m)          == Prim("boolean", m)
Char(m)          == Prim("char", m)
Short(m)         == Prim("short", m)
UShort(m)        == Prim("ushort", m)
Long(m)          == Prim("long", m)
ULong(m)         == Prim("ulong", m)
LongLong(m)      == Prim("longlong", m)
ULongLong(m)     == Prim("ulonglong", m)
Str(m)           == [k |-> "str", m |-> m]
Octets(n, m)     == [k |-> "octets", n |-> n, m |-> m]  \* a fixed number of octets
Blob(m)          == [k |-> "blob", m |-> m]             \* a size, and as many octets
Obj(c, m)        == [k |-> "obj", of |-> c, m |-> m]    \* a member of class c
List(t, c, m)    == [k |-> "list", t |-> t, of |-> c, m |-> m]
Sel(t, m, cases) == [k |-> "sel", t |-> t, m |-> m, cases |-> cases]
Opt(f)           == Sel("boolean", f.m, << <<>>, <<f>> >>)
Alt(m, f, g)     == Sel("boolean", m, << <<g>>, <<f>> >>)

Class(out, in)   == [out |-> out, in |-> in]

-----------------------------------------------------------------------------
\* The widths of the primitive types.

CountSize ==
    [octet |-> 1, boolean |-> 1, char |-> 1, short |-> 2, ushort |-> 2,
     long |-> 4, ulong |-> 4, longlong |-> 8, ulonglong |-> 8]
WriteSize ==
    [octet |-> 1, boolean |-> 1, char |-> 1, short |-> 2, ushort |-> 2,
     long |-> 4, ulong |-> 4, longlong |-> 8, ulonglong |-> 8]
\* Mutant: a short is read as a long.
ReadSizeWide ==
    [octet |-> 1, boolean |-> 1, char |-> 1, short |-> 4, ushort |-> 2,
     long |-> 4, ulong |-> 4, longlong |-> 8, ulonglong |-> 8]
ReadSize ==
    [octet |-> 1, boolean |-> 1, char |-> 1, short |-> 2, ushort |-> 2,
     long |-> 4, ulong |-> 4, longlong |-> 8, ulonglong |-> 8]

Token(t, m, v) == [w |-> WriteSize[t], c |-> CountSize[t], m |-> m, v |-> v]

\* write_octet_array: nothing is written for an empty array.
WriteArray(n, m) == IF n = 0 THEN <<>> ELSE <<[w |-> n, c |-> n, m |-> m, v |-> 0]>>

\* write_string: the length, which includes the final NUL, and the characters.
WriteString(l, m) == <<Token("ulong", m, l + 1), [w |-> l + 1, c |-> l + 1, m |-> m, v |-> 0]>>

Small(n) == IF n = 0 THEN {0} ELSE {0, 1}

-----------------------------------------------------------------------------
RECURSIVE Written(_), Counted(_)
Written(toks) == IF toks = <<>> THEN 0 ELSE Head(toks).w + Written(Tail(toks))
Counted(toks) == IF toks = <<>> THEN 0 ELSE Head(toks).c + Counted(Tail(toks))

-----------------------------------------------------------------------------
\* Where a reader is: the tokens that are left, whether each token so far was
\* read with its width, and the members that were given the value of another.
Start(toks) == [ok |-> TRUE, rest |-> toks, wrong |-> {}]

Take(w, at, r) ==
    IF ~r.ok \/ w = 0 THEN r
    ELSE IF r.rest # <<>> /\ Head(r.rest).w = w
         THEN [r EXCEPT !.rest = Tail(@),
                        !.wrong = IF Head(r.rest).m = at THEN @ ELSE @ \cup {<<at, Head(r.rest).m>>}]
         ELSE [r EXCEPT !.ok = FALSE]

\* The value of the next token.
Peek(r) == IF r.rest = <<>> THEN 0 ELSE Head(r.rest).v
=============================================================================
