------------------------------ MODULE MCLayout ------------------------------
(***************************************************************************)
(* Layout for TLC: every block of up to three fields out of thirteen types. *)
(***************************************************************************)
EXTENDS Layout

Elementary(n) == [kind |-> "elementary", bits |-> n]
Struct(f)     == [kind |-> "struct", fields |-> f]
ArrayOf(n, t) == [kind |-> "array", count |-> n, elem |-> t]
Udt(n)        == [kind |-> "udt", name |-> n]

Bit == Elementary(1)
Byte == Elementary(8)
Word  == Elementary(16)
Text == [kind |-> "string", length |-> 1]      \* 3 bytes, even start
Wide == [kind |-> "wstring", length |-> 0]

MCRegistry == [motor |-> <<Bit, Word, Byte>>, flag |-> <<Bit>>, empty |-> <<>>]

FieldTypes == {Bit, Byte, Word, Text, Udt("motor"), Udt("empty"), Udt("missing"),
               Struct(<<Byte, Struct(<<Bit>>), Bit>>),
               ArrayOf(9, Bit), ArrayOf(3, Byte), ArrayOf(2, Udt("flag")),
               ArrayOf(2, Struct(<<Wide, Byte>>)), ArrayOf(0, Word)}

RECURSIVE Closure(_)
Closure(t) == {t} \cup CASE t.kind = "struct" -> UNION {Closure(f) : f \in Range(t.fields)}
                         [] t.kind = "array"  -> Closure(t.elem)
                         [] OTHER             -> {}
MCTypes == UNION {Closure(t) : t \in FieldTypes}

Plain(f) == [optimized |-> FALSE, force |-> FALSE, typed |-> FALSE, base |-> "", fields |-> f]
MCBlocks ==
    {Plain(f) : f \in BoundedSeq(FieldTypes, 3)}
    \cup {[optimized |-> o, force |-> f, typed |-> TRUE, base |-> n, fields |-> <<>>] :
             o, f \in BOOLEAN, n \in {"motor", "missing"}}

=============================================================================
