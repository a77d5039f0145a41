------------------------------- MODULE Layout -------------------------------
(***************************************************************************)
(* Standard-access layout of a data block (plc_code/layout): compute_layout *)
(* and the recursive descent _place / _place_composite / _place_array /     *)
(* _place_scalar over one write cursor.                                    *)
(*                                                                         *)
(* The Python call stack is the sequence `work': a task places one node or *)
(* closes one container.  A step is one call of a placing function, up to  *)
(* the calls it makes itself.  A path is the sequence of positions of a    *)
(* member in its containers; `a[0]' and `a.b' are both one position more.  *)
(***************************************************************************)
EXTENDS Integers, Sequences, SequencesExt

CONSTANTS Types,        \* the declared types that occur
          Registry,     \* UDT name -> its fields
          Blocks        \* the blocks laid out, with `force' of the call

(***************************************************************************)
(* [kind |-> "elementary", bits]    [kind |-> "struct", fields]            *)
(* [kind |-> "string", length]      [kind |-> "array", count, elem]        *)
(* [kind |-> "wstring", length]     [kind |-> "udt", name]                 *)
(***************************************************************************)
ASSUME TypesAssumption ==
    \A t \in Types :
        \/ t.kind = "elementary" /\ t.bits \in Nat \ {0}
                                  /\ (t.bits = 1 \/ t.bits % 8 = 0)
        \/ t.kind \in {"string", "wstring"} /\ t.length \in Nat
        \/ t.kind = "struct" /\ t.fields \in Seq(Types)
        \/ t.kind = "array" /\ t.count \in Nat /\ t.elem \in Types
        \/ t.kind = "udt"
ASSUME RegistryAssumption ==
    \A n \in DOMAIN Registry : Registry[n] \in Seq(Types)
\* A block is a DATA_BLOCK; typed by a UDT, or with the fields of its VAR section.
ASSUME BlocksAssumption ==
    \A b \in Blocks : /\ b.optimized \in BOOLEAN /\ b.force \in BOOLEAN
                      /\ b.typed \in BOOLEAN /\ b.fields \in Seq(Types)

VARIABLES block,        \* the call's argument
          byte, bit,    \* _Cursor
          work,         \* what the call stack still has to do, next first
          out,          \* the members emitted so far
          outcome       \* "called", "placing", "done" or the error raised

vars == <<block, byte, bit, work, out, outcome>>

Place(t, p) == [do |-> "place", type |-> t, path |-> p]
Close(k)    == [do |-> "close", slot |-> k]
\* One task per field, in declaration order.
Children(fields, p) == [i \in DOMAIN fields |-> Place(fields[i], Append(p, i))]
\* One task per index of an array, row-major.
Elements(t, p) == [i \in 1 .. t.count |-> Place(t.elem, Append(p, i))]

-----------------------------------------------------------------------------
(* The cursor.                                                             *)

\* Mutant: the open byte of Bools is written over.
BitsLeftOpen == byte
\* close_bits: the byte after an open byte of Bools.
Closed == IF bit > 0 THEN byte + 1 ELSE byte

\* Mutant: rule 4 forgotten, everything on the next byte.
NeverEven == Closed
\* align_even: the next even byte.
Even == Closed + (Closed % 2)

\* Mutant: the ninth Bool in the first byte.
NineBits == IF bit = 8 THEN [byte |-> byte + 1, bit |-> 0]
                       ELSE [byte |-> byte, bit |-> bit + 1]
\* The cursor behind the bit taken by take_bit.
AfterBit == IF bit = 7 THEN [byte |-> byte + 1, bit |-> 0]
                       ELSE [byte |-> byte, bit |-> bit + 1]

-----------------------------------------------------------------------------
IsBool(t)   == t.kind = "elementary" /\ t.bits = 1
IsScalar(t) == t.kind \in {"elementary", "string", "wstring"}

\* Bytes of a scalar that is not a Bool.
Bytes(t) == CASE t.kind = "elementary" -> t.bits \div 8
              [] t.kind = "string"     -> t.length + 2
              [] t.kind = "wstring"    -> 2 * t.length + 4

\* Mutant: a padding byte even where the cursor is even.
AlwaysPads(t) == IF Bytes(t) >= 2 THEN Even + 2 ELSE Closed
\* Where take_bytes puts a scalar: only single bytes may be odd.
ScalarStart(t) == IF Bytes(t) >= 2 THEN Even ELSE Closed

\* A member at the address <<y, b>>; the size of a container is still open.
Member(w, y, b, n, l) == [path |-> w.path, type |-> w.type, byte |-> y, bit |-> b,
                          bits |-> n, leaf |-> l]

Init ==
    /\ block \in Blocks
    /\ byte = 0 /\ bit = 0 /\ work = <<>> /\ out = <<>>
    /\ outcome = "called"

Stop(o) == outcome' = o /\ UNCHANGED <<block, byte, bit, work, out>>

\* compute_layout: the refusals, or the fields of the block.
Compute ==
    /\ outcome = "called"
    /\ \/ block.optimized /\ ~block.force /\ Stop("OptimizedBlockError")
       \/ /\ ~block.optimized \/ block.force
          /\ block.typed /\ block.base \notin DOMAIN Registry
          /\ Stop("UnknownTypeError")
       \/ /\ ~block.optimized \/ block.force
          /\ block.typed => block.base \in DOMAIN Registry
          /\ work' = Children(IF block.typed THEN Registry[block.base]
                                             ELSE block.fields, <<>>)
          /\ outcome' = "placing"
          /\ UNCHANGED <<block, byte, bit, out>>

Now(d) == outcome = "placing" /\ work # <<>> /\ Head(work).do = d
Node     == Head(work).type
Emit(m)  == out' = Append(out, m)

PlaceBool ==
    /\ Now("place") /\ IsBool(Node)
    /\ Emit(Member(Head(work), byte, bit, 1, TRUE))
    /\ byte' = AfterBit.byte /\ bit' = AfterBit.bit
    /\ work' = Tail(work)
    /\ UNCHANGED <<block, outcome>>

PlaceScalar ==
    /\ Now("place") /\ IsScalar(Node) /\ ~IsBool(Node)
    /\ Emit(Member(Head(work), ScalarStart(Node), 0, 8 * Bytes(Node), TRUE))
    /\ byte' = ScalarStart(Node) + Bytes(Node) /\ bit' = 0
    /\ work' = Tail(work)
    /\ UNCHANGED <<block, outcome>>

\* A container starts on an even byte; its size is filled in when it is closed.
Open(tasks) ==
    /\ byte' = Even /\ bit' = 0
    /\ Emit(Member(Head(work), Even, 0, 0, FALSE))
    /\ work' = tasks \o <<Close(Len(out) + 1)>> \o Tail(work)
    /\ UNCHANGED <<block, outcome>>

PlaceStruct ==
    /\ Now("place") /\ Node.kind = "struct"
    /\ Open(Children(Node.fields, Head(work).path))

PlaceArray ==
    /\ Now("place") /\ Node.kind = "array"
    /\ Open(Elements(Node, Head(work).path))

PlaceUdt ==
    /\ Now("place") /\ Node.kind = "udt"
    /\ \/ /\ Node.name \in DOMAIN Registry
          /\ Open(Children(Registry[Node.name], Head(work).path))
       \/ Node.name \notin DOMAIN Registry /\ Stop("UnknownTypeError")

\* Mutant: the extent of a container without its padding.
Unpadded(k) == 8 * (Closed - out[k].byte)
\* Size in bits of the container of slot k once it is closed.
Extent(k) == 8 * (Even - out[k].byte)

CloseContainer ==
    /\ Now("close")
    /\ byte' = Even /\ bit' = 0
    /\ out' = [out EXCEPT ![Head(work).slot].bits = Extent(Head(work).slot)]
    /\ work' = Tail(work)
    /\ UNCHANGED <<block, outcome>>

\* layout_fields returns: the total is rounded up to an even byte.
Return ==
    /\ outcome = "placing" /\ work = <<>>
    /\ byte' = Even /\ bit' = 0
    /\ outcome' = "done"
    /\ UNCHANGED <<block, work, out>>

Next == \/ Compute \/ PlaceBool \/ PlaceScalar \/ PlaceStruct
        \/ PlaceArray \/ PlaceUdt \/ CloseContainer \/ Return

Spec == Init /\ [][Next]_vars

-----------------------------------------------------------------------------
Addr(m) == 8 * m.byte + m.bit
End(m)  == Addr(m) + m.bits
Cursor  == 8 * byte + bit
Slots   == 1 .. Len(out)
Opened  == {work[i].slot : i \in {j \in DOMAIN work : work[j].do = "close"}}

Members == [path : Seq(Nat), type : Types, byte : Nat, bit : 0 .. 7, bits : Nat, leaf : BOOLEAN]
PlaceTasks == [do : {"place"}, type : Types, path : Seq(Nat)]
CloseTasks == [do : {"close"}, slot : Slots]

\* The cursor is a bit of a byte, what was emitted are members, and what is
\* left to do are nodes of known types and containers already emitted.
TypeOK ==
    /\ block \in Blocks
    /\ byte \in Nat /\ bit \in 0 .. 7
    /\ out \in Seq(Members)
    /\ work \in Seq(PlaceTasks \cup CloseTasks)
    /\ outcome \in {"called", "placing", "done", "OptimizedBlockError",
                    "UnknownTypeError"}

\* No two scalars of a block share a bit: Bools packed into one byte, a byte
\* behind a half-filled one, odd-sized strings and nested containers included.
LeavesDisjoint ==
    \A i \in Slots : \A j \in i + 1 .. Len(out) :
        out[i].leaf /\ out[j].leaf => End(out[i]) <= Addr(out[j])

\* Whatever is two bytes or more, and every container, starts on an even byte.
EvenStarts ==
    \A i \in Slots : ~out[i].leaf \/ out[i].bits >= 16
                        => out[i].byte % 2 = 0 /\ out[i].bit = 0

\* No padding is ever two bytes: from one scalar to the next, and from the
\* last one to the cursor, fewer than 16 bits are left free, however many
\* containers (empty ones too) are opened and closed between them.
NoLeafIn(S) == \A k \in S : ~out[k].leaf
PaddingIsMinimal ==
    \A i \in Slots : out[i].leaf =>
        /\ \A j \in i + 1 .. Len(out) :
             out[j].leaf /\ NoLeafIn(i + 1 .. j - 1) => Addr(out[j]) - End(out[i]) < 16
        /\ NoLeafIn(i + 1 .. Len(out)) => Cursor - End(out[i]) < 16

\* A closed container holds exactly its own members: those whose path runs
\* through it lie inside its extent, all others outside, and the extent is
\* a whole number of words.
ContainersHold ==
    \A k \in Slots \ Opened : ~out[k].leaf =>
        /\ out[k].bits % 16 = 0
        /\ \A i \in Slots : out[i].leaf =>
             IF IsPrefix(out[k].path, out[i].path)
             THEN Addr(out[k]) <= Addr(out[i]) /\ End(out[i]) <= End(out[k])
             ELSE End(out[i]) <= Addr(out[k]) \/ End(out[k]) <= Addr(out[i])
=============================================================================
