---------------------------- MODULE LayoutProofs ----------------------------
(***************************************************************************)
(* Theorems about Layout, for every set of types, every registry and every *)
(* block.  The argument: the cursor is behind everything emitted and, until *)
(* the next scalar, at most at the word boundary after the last one; and   *)
(* the call stack visits the declarations in preorder, so that what is     *)
(* placed between the opening and the closing of a container is its own.   *)
(* At the end the cursor is the total of the block.                        *)
(***************************************************************************)
EXTENDS Layout, TLAPS

\* The next word boundary at or after an address in bits.
WordUp(a) == 16 * ((a + 15) \div 16)

\* Nothing emitted starts or ends behind the cursor.
CursorIsBehind ==
    \A i \in Slots : /\ out[i].byte <= byte
                     /\ out[i].leaf => End(out[i]) <= Cursor

\* Since the last scalar the cursor moved to a word boundary at most.
CursorIsNear ==
    \A i \in Slots : out[i].leaf /\ NoLeafIn(i + 1 .. Len(out))
                        => Cursor <= WordUp(End(out[i]))

\* What is left to close are containers.
ClosesContainers ==
    \A i \in DOMAIN work : work[i].do = "close" => ~out[work[i].slot].leaf

\* Closer than a word, among the members already emitted.
GapsAreSmall ==
    \A i \in Slots : \A j \in i + 1 .. Len(out) :
        out[i].leaf /\ out[j].leaf /\ NoLeafIn(i + 1 .. j - 1)
            => Addr(out[j]) - End(out[i]) < 16

\* The inductive invariant.
IInv ==
    /\ TypeOK
    /\ CursorIsBehind
    /\ CursorIsNear
    /\ ClosesContainers
    /\ LeavesDisjoint
    /\ EvenStarts
    /\ GapsAreSmall

-----------------------------------------------------------------------------
(* The cursor.                                                             *)

\* Closing a byte and going to a word boundary moves the cursor forward, and
\* never past a word boundary the cursor had not passed.
LEMMA CursorMoves ==
    ASSUME byte \in Nat, bit \in 0 .. 7
    PROVE  /\ Closed \in Nat /\ Cursor <= 8 * Closed
           /\ Even \in Nat /\ Even % 2 = 0 /\ Closed <= Even /\ byte <= Closed
           /\ \A e \in Nat : Cursor <= WordUp(e)
                 => 8 * Closed <= WordUp(e) /\ 8 * Even <= WordUp(e)
<1>1. Closed \in Nat /\ Cursor <= 8 * Closed /\ byte <= Closed
  BY DEF Closed, Cursor
<1>2. Even \in Nat /\ Even % 2 = 0 /\ Closed <= Even
  BY <1>1 DEF Even
<1>3. ASSUME NEW e \in Nat, Cursor <= WordUp(e)
      PROVE  8 * Closed <= WordUp(e) /\ 8 * Even <= WordUp(e)
  <2> DEFINE k == (e + 15) \div 16
  <2>1. k \in Nat
    OBVIOUS
  <2>2. 8 * byte + bit <= 16 * k
    BY <1>3 DEF WordUp, Cursor
  <2>3. Closed <= 2 * k
    <3> HIDE DEF k
    <3> QED BY <2>1, <2>2 DEF Closed
  <2>4. Even <= 2 * k
    <3> HIDE DEF k
    <3> QED BY <2>1, <2>3, <1>1 DEF Even
  <2> QED BY <2>1, <2>3, <2>4, <1>1, <1>2 DEF WordUp
<1> QED BY <1>1, <1>2, <1>3

\* A word boundary is fewer than 16 bits away.
LEMMA WordUpIsNear ==
    \A e \in Nat : WordUp(e) \in Nat /\ e <= WordUp(e) /\ WordUp(e) - e < 16
BY DEF WordUp

\* Tasks for the fields of a container, and for the elements of an array.
LEMMA TasksArePlaced ==
    /\ \A f \in Seq(Types), p \in Seq(Nat) : Children(f, p) \in Seq(PlaceTasks)
    /\ \A t \in Types, p \in Seq(Nat) :
         t.kind = "array" => Elements(t, p) \in Seq(PlaceTasks)
<1>1. ASSUME NEW f \in Seq(Types), NEW p \in Seq(Nat) PROVE Children(f, p) \in Seq(PlaceTasks)
  <2>1. \A i \in 1 .. Len(f) : Place(f[i], Append(p, i)) \in PlaceTasks
    BY DEF Place, PlaceTasks
  <2> QED BY <2>1 DEF Children
<1>2. ASSUME NEW t \in Types, NEW p \in Seq(Nat), t.kind = "array"
      PROVE  Elements(t, p) \in Seq(PlaceTasks)
  <2>1. t.count \in Nat /\ t.elem \in Types
    BY <1>2, TypesAssumption
  <2>2. \A i \in 1 .. t.count : Place(t.elem, Append(p, i)) \in PlaceTasks
    BY <2>1 DEF Place, PlaceTasks
  <2> QED BY <2>1, <2>2 DEF Elements
<1> QED BY <1>1, <1>2

-----------------------------------------------------------------------------
(* What a step does to the members.                                        *)

\* The conjuncts of the invariant about the members.
MembersInv ==
    /\ byte \in Nat /\ bit \in 0 .. 7 /\ out \in Seq(Members)
    /\ CursorIsBehind /\ CursorIsNear
    /\ LeavesDisjoint /\ EvenStarts /\ GapsAreSmall

\* Addresses are natural numbers of bits.
LEMMA AddrType ==
    \A m \in Members : /\ Addr(m) \in Nat /\ End(m) \in Nat /\ Addr(m) <= End(m)
                       /\ m.byte \in Nat /\ m.bit \in 0 .. 7 /\ m.bits \in Nat
                       /\ m.leaf \in BOOLEAN /\ 8 * m.byte <= Addr(m)
BY DEF Members, Addr, End

\* A scalar put between the cursor and the next word boundary, the cursor
\* moved behind it, keeps the members apart, aligned and close.
LEMMA EmitLeaf ==
    ASSUME MembersInv, NEW m \in Members, m.leaf, out' = Append(out, m),
           Cursor <= Addr(m),
           \A e \in Nat : Cursor <= WordUp(e) => Addr(m) <= WordUp(e),
           m.bits >= 16 => m.byte % 2 = 0 /\ m.bit = 0,
           byte' \in Nat, bit' \in 0 .. 7, Cursor' = End(m),
           byte <= byte', m.byte <= byte'
    PROVE  MembersInv'
<1> DEFINE n == Len(out)
<1>1. /\ n \in Nat /\ out' \in Seq(Members) /\ Len(out') = n + 1 /\ out'[n + 1] = m
      /\ \A i \in 1 .. n : out'[i] = out[i] /\ out[i] \in Members
  BY DEF MembersInv
<1>2. Slots' = 1 .. n + 1 /\ Slots = 1 .. n
  BY <1>1 DEF Slots
<1>3. Cursor \in Nat /\ Cursor' \in Nat /\ Addr(m) \in Nat /\ End(m) \in Nat /\ Addr(m) <= End(m)
  <2>1. byte \in Nat /\ bit \in 0 .. 7
    BY DEF MembersInv
  <2>2. Cursor \in Nat
    BY <2>1 DEF Cursor
  <2> QED BY <2>2, AddrType
<1> HIDE DEF n
<1>4. \A i \in 1 .. n : out[i].leaf => End(out[i]) \in Nat /\ End(out[i]) <= Addr(m)
  BY <1>1, <1>2, <1>3, AddrType DEF MembersInv, CursorIsBehind
<1>5. CursorIsBehind'
  <2> SUFFICES ASSUME NEW i \in 1 .. n + 1
               PROVE  /\ out'[i].byte <= byte'
                      /\ out'[i].leaf => End(out'[i]) <= Cursor'
    BY <1>2 DEF CursorIsBehind, End, Addr
  <2>1. CASE i = n + 1
    BY <2>1, <1>1, <1>3
  <2>2. CASE i \in 1 .. n
    <3>1. out[i].byte <= byte /\ out[i].byte \in Nat
      BY <2>2, <1>1, <1>2, AddrType DEF MembersInv, CursorIsBehind
    <3> QED BY <2>2, <3>1, <1>1, <1>3, <1>4 DEF MembersInv
  <2> QED BY <2>1, <2>2, <1>1
<1>6. CursorIsNear'
  <2> SUFFICES ASSUME NEW i \in 1 .. n + 1, out'[i].leaf,
                      \A k \in i + 1 .. n + 1 : ~out'[k].leaf
               PROVE  Cursor' <= WordUp(End(out'[i]))
    BY <1>1, <1>2 DEF CursorIsNear, NoLeafIn, End, Addr, WordUp
  <2>1. i = n + 1
    BY <1>1
  <2> QED BY <2>1, <1>1, <1>3, WordUpIsNear
<1>7. LeavesDisjoint'
  <2> SUFFICES ASSUME NEW i \in 1 .. n + 1, NEW j \in i + 1 .. n + 1,
                      out'[i].leaf, out'[j].leaf
               PROVE  End(out'[i]) <= Addr(out'[j])
    BY <1>1, <1>2 DEF LeavesDisjoint, End, Addr
  <2>1. i \in 1 .. n
    BY <1>1
  <2>2. CASE j = n + 1
    BY <2>1, <2>2, <1>1, <1>4
  <2>3. CASE j \in i + 1 .. n
    BY <2>1, <2>3, <1>1, <1>2 DEF MembersInv, LeavesDisjoint, n
  <2> QED BY <2>2, <2>3, <1>1
<1>8. EvenStarts'
  BY <1>1, <1>2 DEF MembersInv, EvenStarts
<1>9. GapsAreSmall'
  <2> SUFFICES ASSUME NEW i \in 1 .. n + 1, NEW j \in i + 1 .. n + 1,
                      out'[i].leaf, out'[j].leaf, \A k \in i + 1 .. j - 1 : ~out'[k].leaf
               PROVE  Addr(out'[j]) - End(out'[i]) < 16
    BY <1>1, <1>2 DEF GapsAreSmall, NoLeafIn, End, Addr
  <2>1. i \in 1 .. n
    BY <1>1
  <2>2. CASE j = n + 1
    <3>1. NoLeafIn(i + 1 .. Len(out))
      BY <2>1, <2>2, <1>1 DEF NoLeafIn, n
    <3>2. Cursor <= WordUp(End(out[i]))
      BY <2>1, <3>1, <1>1, <1>2 DEF MembersInv, CursorIsNear
    <3>3. Addr(m) <= WordUp(End(out[i]))
      BY <2>1, <3>2, <1>1, <1>4
    <3>4. End(out[i]) \in Nat /\ End(out[i]) <= Addr(m)
      BY <2>1, <1>1, <1>4
    <3>5. Addr(m) - End(out[i]) < 16
      <4> DEFINE e == End(out[i])
      <4>1. WordUp(e) \in Nat /\ WordUp(e) - e < 16
        BY <3>4, WordUpIsNear
      <4> QED BY <4>1, <3>3, <3>4, <1>3
    <3> QED BY <2>1, <2>2, <3>5, <1>1
  <2>3. CASE j \in i + 1 .. n
    <3>1. NoLeafIn(i + 1 .. j - 1)
      BY <2>1, <2>3, <1>1 DEF NoLeafIn
    <3> QED BY <2>1, <2>3, <3>1, <1>1, <1>2 DEF MembersInv, GapsAreSmall, n
  <2> QED BY <2>2, <2>3, <1>1
<1> QED BY <1>1, <1>5, <1>6, <1>7, <1>8, <1>9 DEF MembersInv

\* Going to a word boundary, with nothing emitted or only the size of
\* containers changed, keeps them so too.
LEMMA MoveCursor ==
    ASSUME MembersInv, out' \in Seq(Members), Len(out') = Len(out),
           \A i \in Slots : /\ out'[i].byte = out[i].byte /\ out'[i].bit = out[i].bit
                            /\ out'[i].leaf = out[i].leaf
                            /\ out[i].leaf => out'[i].bits = out[i].bits,
           byte' = Even, bit' = 0
    PROVE  MembersInv'
<1>1. /\ Even \in Nat /\ byte <= Even /\ Cursor <= 8 * Even /\ Cursor \in Nat
      /\ Cursor' = 8 * Even
      /\ \A e \in Nat : Cursor <= WordUp(e) => 8 * Even <= WordUp(e)
  BY CursorMoves DEF MembersInv, Cursor, Even, Closed
<1>2. Slots' = Slots /\ Slots = 1 .. Len(out) /\ Len(out) \in Nat
  BY DEF Slots, MembersInv
<1>3. \A i \in Slots : /\ out[i] \in Members /\ Addr(out'[i]) = Addr(out[i])
                       /\ out[i].leaf => End(out'[i]) = End(out[i])
  BY <1>2 DEF MembersInv, Addr, End
<1> HIDE DEF Slots
<1>4. \A i \in Slots : \A S : S \subseteq Slots => (NoLeafIn(S)' <=> NoLeafIn(S))
  BY DEF NoLeafIn
<1>5. CursorIsBehind'
  <2> SUFFICES ASSUME NEW i \in Slots
               PROVE  out'[i].byte <= byte' /\ (out'[i].leaf => End(out'[i]) <= Cursor')
    BY <1>2 DEF CursorIsBehind, End, Addr
  <2>1. /\ out[i].byte <= byte /\ out[i].byte \in Nat /\ End(out[i]) \in Nat
        /\ out[i].leaf => End(out[i]) <= Cursor
    BY <1>3, AddrType DEF MembersInv, CursorIsBehind
  <2> QED BY <2>1, <1>1, <1>3 DEF MembersInv
<1>6. CursorIsNear'
  <2> SUFFICES ASSUME NEW i \in Slots, out'[i].leaf, \A k \in i + 1 .. Len(out) : ~out'[k].leaf
               PROVE  Cursor' <= WordUp(End(out'[i]))
    BY <1>2 DEF CursorIsNear, NoLeafIn, WordUp, End, Addr
  <2>1. NoLeafIn(i + 1 .. Len(out)) /\ out[i].leaf
    BY <1>2 DEF NoLeafIn
  <2>2. Cursor <= WordUp(End(out[i])) /\ End(out[i]) \in Nat
    BY <2>1, <1>3, AddrType DEF MembersInv, CursorIsNear
  <2> QED BY <2>1, <2>2, <1>1, <1>3
<1>7. LeavesDisjoint'
  <2> SUFFICES ASSUME NEW i \in Slots, NEW j \in i + 1 .. Len(out), out'[i].leaf, out'[j].leaf
               PROVE  End(out'[i]) <= Addr(out'[j])
    BY <1>2 DEF LeavesDisjoint, End, Addr
  <2>1. j \in Slots
    BY <1>2
  <2>2. End(out[i]) <= Addr(out[j])
    BY <2>1 DEF MembersInv, LeavesDisjoint
  <2> QED BY <2>1, <2>2, <1>3
<1>8. EvenStarts'
  BY <1>2 DEF MembersInv, EvenStarts
<1>9. GapsAreSmall'
  <2> SUFFICES ASSUME NEW i \in Slots, NEW j \in i + 1 .. Len(out),
                      out'[i].leaf, out'[j].leaf, \A k \in i + 1 .. j - 1 : ~out'[k].leaf
               PROVE  Addr(out'[j]) - End(out'[i]) < 16
    BY <1>2 DEF GapsAreSmall, NoLeafIn, End, Addr
  <2>1. j \in Slots /\ NoLeafIn(i + 1 .. j - 1)
    BY <1>2 DEF NoLeafIn
  <2>2. Addr(out[j]) - End(out[i]) < 16
    BY <2>1 DEF MembersInv, GapsAreSmall
  <2> QED BY <2>1, <2>2, <1>3
<1> QED BY <1>1, <1>5, <1>6, <1>7, <1>8, <1>9 DEF MembersInv

\* Opening a container at the word boundary keeps them so too.
LEMMA EmitContainer ==
    ASSUME MembersInv, NEW m \in Members, ~m.leaf, out' = Append(out, m),
           m.byte = Even, m.bit = 0, byte' = Even, bit' = 0
    PROVE  MembersInv'
<1> DEFINE n == Len(out)
<1>1. /\ n \in Nat /\ out' \in Seq(Members) /\ Len(out') = n + 1 /\ out'[n + 1] = m
      /\ \A i \in 1 .. n : out'[i] = out[i] /\ out[i] \in Members
  BY DEF MembersInv
<1>2. Slots' = 1 .. n + 1 /\ Slots = 1 .. n
  BY <1>1 DEF Slots
<1>3. /\ Even \in Nat /\ byte <= Even /\ Cursor <= 8 * Even /\ Cursor \in Nat
      /\ Cursor' = 8 * Even /\ Even % 2 = 0
      /\ \A e \in Nat : Cursor <= WordUp(e) => 8 * Even <= WordUp(e)
  BY CursorMoves DEF MembersInv, Cursor, Even, Closed
<1> HIDE DEF n
<1>5. CursorIsBehind'
  <2> SUFFICES ASSUME NEW i \in 1 .. n + 1
               PROVE  out'[i].byte <= byte' /\ (out'[i].leaf => End(out'[i]) <= Cursor')
    BY <1>2 DEF CursorIsBehind, End, Addr
  <2>1. CASE i = n + 1
    BY <2>1, <1>1, <1>3
  <2>2. CASE i \in 1 .. n
    <3>1. /\ out[i].byte <= byte /\ out[i].byte \in Nat /\ End(out[i]) \in Nat
          /\ out[i].leaf => End(out[i]) <= Cursor
      BY <2>2, <1>1, <1>2, AddrType DEF MembersInv, CursorIsBehind
    <3> QED BY <2>2, <3>1, <1>1, <1>3 DEF MembersInv
  <2> QED BY <2>1, <2>2, <1>1
<1>6. CursorIsNear'
  <2> SUFFICES ASSUME NEW i \in 1 .. n + 1, out'[i].leaf, \A k \in i + 1 .. n + 1 : ~out'[k].leaf
               PROVE  Cursor' <= WordUp(End(out'[i]))
    BY <1>1, <1>2 DEF CursorIsNear, NoLeafIn, WordUp, End, Addr
  <2>1. i \in 1 .. n
    BY <1>1
  <2>2. NoLeafIn(i + 1 .. Len(out)) /\ out[i].leaf
    BY <2>1, <1>1 DEF NoLeafIn, n
  <2>3. Cursor <= WordUp(End(out[i])) /\ End(out[i]) \in Nat
    BY <2>1, <2>2, <1>1, <1>2, AddrType DEF MembersInv, CursorIsNear
  <2> QED BY <2>1, <2>3, <1>1, <1>3
<1>7. LeavesDisjoint'
  <2> SUFFICES ASSUME NEW i \in 1 .. n + 1, NEW j \in i + 1 .. n + 1, out'[i].leaf, out'[j].leaf
               PROVE  End(out'[i]) <= Addr(out'[j])
    BY <1>1, <1>2 DEF LeavesDisjoint, End, Addr
  <2>1. i \in 1 .. n /\ j \in i + 1 .. n
    BY <1>1
  <2> QED BY <2>1, <1>1, <1>2 DEF MembersInv, LeavesDisjoint, n
<1>8. EvenStarts'
  BY <1>1, <1>2, <1>3 DEF MembersInv, EvenStarts
<1>9. GapsAreSmall'
  <2> SUFFICES ASSUME NEW i \in 1 .. n + 1, NEW j \in i + 1 .. n + 1,
                      out'[i].leaf, out'[j].leaf, \A k \in i + 1 .. j - 1 : ~out'[k].leaf
               PROVE  Addr(out'[j]) - End(out'[i]) < 16
    BY <1>1, <1>2 DEF GapsAreSmall, NoLeafIn, End, Addr
  <2>1. i \in 1 .. n /\ j \in i + 1 .. n
    BY <1>1
  <2>2. NoLeafIn(i + 1 .. j - 1)
    BY <2>1, <1>1 DEF NoLeafIn
  <2> QED BY <2>1, <2>2, <1>1, <1>2 DEF MembersInv, GapsAreSmall, n
<1> QED BY <1>1, <1>3, <1>5, <1>6, <1>7, <1>8, <1>9 DEF MembersInv

-----------------------------------------------------------------------------
(* The invariant.                                                          *)

\* The conjuncts about what is left to do.
WorkInv ==
    /\ block \in Blocks
    /\ work \in Seq(PlaceTasks \cup CloseTasks)
    /\ ClosesContainers
    /\ outcome \in {"called", "placing", "done", "OptimizedBlockError", "UnknownTypeError"}

LEMMA InvSplit == IInv <=> MembersInv /\ WorkInv
BY DEF IInv, TypeOK, MembersInv, WorkInv

\* A node of a known type, and where the cursor puts it, make a member.
LEMMA NodeIsTyped ==
    ASSUME IInv, Now("place")
    PROVE  /\ Head(work) \in PlaceTasks /\ Node \in Types /\ Head(work).path \in Seq(Nat)
           /\ Tail(work) \in Seq(PlaceTasks \cup CloseTasks)
           /\ \A i \in 1 .. Len(Tail(work)) : Tail(work)[i] = work[i + 1]
<1>1. work \in Seq(PlaceTasks \cup CloseTasks) /\ work # <<>> /\ Head(work).do = "place"
  BY DEF IInv, TypeOK, Now
<1>2. Head(work) \in PlaceTasks \cup CloseTasks
  BY <1>1
<1>3. Head(work) \in PlaceTasks
  BY <1>1, <1>2 DEF CloseTasks
<1> QED BY <1>1, <1>3 DEF PlaceTasks, Node

\* The bytes of a scalar that is not a Bool.
LEMMA BytesType ==
    \A t \in Types : IsScalar(t) /\ ~IsBool(t) => Bytes(t) \in Nat \ {0}
<1> SUFFICES ASSUME NEW t \in Types, IsScalar(t), ~IsBool(t) PROVE Bytes(t) \in Nat \ {0}
  OBVIOUS
<1>1. CASE t.kind = "elementary"
  <2>1. t.bits \in Nat \ {0} /\ t.bits % 8 = 0
    BY <1>1, TypesAssumption DEF IsBool
  <2>2. t.bits \div 8 \in Nat \ {0}
    BY <2>1
  <2> QED BY <1>1, <2>2 DEF Bytes
<1>2. CASE t.kind = "string"
  BY <1>2, TypesAssumption DEF Bytes
<1>3. CASE t.kind = "wstring"
  BY <1>3, TypesAssumption DEF Bytes
<1> QED BY <1>1, <1>2, <1>3 DEF IsScalar

\* Sequences over a set are sequences over a larger one.
LEMMA SeqMono ==
    ASSUME NEW S, NEW T, S \subseteq T, NEW s \in Seq(S)
    PROVE  s \in Seq(T)
<1>1. Len(s) \in Nat /\ s = [i \in 1 .. Len(s) |-> s[i]] /\ \A i \in 1 .. Len(s) : s[i] \in T
  OBVIOUS
<1> QED BY <1>1

\* Dropping the first task keeps the rest well formed, members appended or not.
LEMMA DropTask ==
    ASSUME IInv, work # <<>>, work' = Tail(work), Len(out) <= Len(out'),
           out' \in Seq(Members), \A i \in Slots : out'[i].leaf = out[i].leaf,
           block' = block, outcome' = outcome
    PROVE  WorkInv'
<1>1. work \in Seq(PlaceTasks \cup CloseTasks) /\ Len(out) \in Nat /\ Len(out') \in Nat
  BY DEF IInv, TypeOK
<1>2. Slots \subseteq Slots' /\ PlaceTasks' = PlaceTasks
  BY <1>1 DEF Slots, PlaceTasks
<1>3. CloseTasks \subseteq CloseTasks'
  BY <1>2 DEF CloseTasks
<1>4. work' \in Seq(PlaceTasks \cup CloseTasks) /\ \A i \in DOMAIN work' : work'[i] = work[i + 1] /\ i + 1 \in DOMAIN work
  BY <1>1
<1>5. work' \in Seq((PlaceTasks \cup CloseTasks)')
  <2>1. PlaceTasks \cup CloseTasks \subseteq (PlaceTasks \cup CloseTasks)'
    BY <1>2, <1>3
  <2> QED BY <1>4, <2>1, SeqMono, Zenon
<1>6. ClosesContainers'
  <2> SUFFICES ASSUME NEW i \in DOMAIN work', work'[i].do = "close"
               PROVE  ~out'[work'[i].slot].leaf
    BY DEF ClosesContainers
  <2>1. work[i + 1] \in PlaceTasks \cup CloseTasks /\ work[i + 1].do = "close"
    BY <1>1, <1>4
  <2>2. work[i + 1].slot \in Slots
    BY <2>1 DEF PlaceTasks, CloseTasks
  <2>3. ~out[work[i + 1].slot].leaf
    BY <1>4, <2>1 DEF IInv, ClosesContainers
  <2> QED BY <2>2, <2>3, <1>4
<1> QED BY <1>5, <1>6 DEF WorkInv, IInv, TypeOK

\* Opening a container, its content put in front of what is left to do.
LEMMA OpenInv ==
    ASSUME IInv, Now("place"), NEW tasks \in Seq(PlaceTasks), Open(tasks)
    PROVE  IInv'
<1> DEFINE m == Member(Head(work), Even, 0, 0, FALSE)
           closing == <<Close(Len(out) + 1)>>
           rest == Tail(work)
<1>1. /\ byte \in Nat /\ bit \in 0 .. 7 /\ out \in Seq(Members) /\ Even \in Nat
      /\ MembersInv /\ work \in Seq(PlaceTasks \cup CloseTasks)
  BY CursorMoves, InvSplit DEF MembersInv, WorkInv
<1>2. m \in Members /\ ~m.leaf /\ m.byte = Even /\ m.bit = 0
  <2>1. Head(work).path \in Seq(Nat) /\ Head(work).type \in Types
    BY NodeIsTyped DEF Node
  <2> QED BY <2>1, <1>1 DEF Member, Members
<1>3. /\ out' = Append(out, m) /\ byte' = Even /\ bit' = 0
      /\ work' = tasks \o closing \o rest /\ block' = block /\ outcome' = outcome
  BY DEF Open, Emit
<1> HIDE DEF m
<1>4. MembersInv'
  BY <1>1, <1>2, <1>3, EmitContainer
<1>5. /\ Len(out) \in Nat /\ Slots' = 1 .. Len(out) + 1 /\ Slots = 1 .. Len(out)
      /\ out'[Len(out) + 1] = m /\ \A i \in Slots : out'[i] = out[i]
  BY <1>1, <1>3 DEF Slots
<1>6. /\ PlaceTasks \cup CloseTasks \subseteq (PlaceTasks \cup CloseTasks)'
      /\ PlaceTasks \subseteq (PlaceTasks \cup CloseTasks)'
      /\ Close(Len(out) + 1) \in (PlaceTasks \cup CloseTasks)'
  BY <1>5 DEF PlaceTasks, CloseTasks, Close
<1> DEFINE T == (PlaceTasks \cup CloseTasks)'
<1>7. rest \in Seq(PlaceTasks \cup CloseTasks) /\ \A i \in 1 .. Len(rest) : rest[i] = work[i + 1]
  BY NodeIsTyped
<1> HIDE DEF rest, T
<1>8. tasks \in Seq(T) /\ closing \in Seq(T) /\ rest \in Seq(T)
  <2>1. tasks \in Seq(T)
    BY <1>6, SeqMono, Zenon DEF T
  <2>2. rest \in Seq(T)
    BY <1>6, <1>7, SeqMono, Zenon DEF T
  <2>3. closing \in Seq(T)
    BY <1>6 DEF T
  <2> QED BY <2>1, <2>2, <2>3
<1>9. work' \in Seq(T)
  BY <1>3, <1>8
<1>10. ClosesContainers'
  <2> SUFFICES ASSUME NEW i \in DOMAIN work', work'[i].do = "close"
               PROVE  ~out'[work'[i].slot].leaf
    BY DEF ClosesContainers
  <2>1. /\ i \in Nat \ {0}
        /\ \/ i \in 1 .. Len(tasks) /\ work'[i] = tasks[i]
           \/ i = Len(tasks) + 1 /\ work'[i] = Close(Len(out) + 1)
           \/ i - Len(tasks) - 1 \in 1 .. Len(rest) /\ work'[i] = rest[i - Len(tasks) - 1]
    BY <1>3, <1>8
  <2>2. CASE i \in 1 .. Len(tasks) /\ work'[i] = tasks[i]
    <3>1. tasks[i] \in PlaceTasks
      BY <2>2
    <3> QED BY <2>2, <3>1 DEF PlaceTasks
  <2>3. CASE work'[i] = Close(Len(out) + 1)
    BY <2>3, <1>2, <1>5 DEF Close
  <2>4. CASE i - Len(tasks) - 1 \in 1 .. Len(rest) /\ work'[i] = rest[i - Len(tasks) - 1]
    <3>1. PICK j \in DOMAIN work : work'[i] = work[j]
      <4>0. work # <<>>
        BY DEF Now
      <4>1. i - Len(tasks) \in DOMAIN work
        <5>1. Len(rest) = Len(work) - 1
          BY <4>0, <1>1 DEF rest
        <5> QED BY <2>1, <2>4, <5>1, <1>1, <1>8
      <4>2. work'[i] = work[i - Len(tasks)]
        <5>1. (i - Len(tasks) - 1) + 1 = i - Len(tasks)
          BY <2>1, <1>8
        <5> QED BY <2>4, <5>1, <1>7
      <4> QED BY <4>1, <4>2
    <3>2. work[j] \in PlaceTasks \cup CloseTasks /\ ~out[work[j].slot].leaf
      BY <3>1, <1>1 DEF IInv, ClosesContainers
    <3>3. work[j].slot \in Slots
      BY <3>1, <3>2 DEF PlaceTasks, CloseTasks
    <3> QED BY <3>1, <3>2, <3>3, <1>5
  <2> QED BY <2>1, <2>2, <2>3, <2>4
<1>11. WorkInv'
  BY <1>3, <1>9, <1>10, InvSplit DEF WorkInv, T
<1> QED BY <1>4, <1>11, InvSplit, PTL

\* Every step keeps the invariant.
LEMMA StepIInv == IInv /\ [Next]_vars => IInv'
<1> SUFFICES ASSUME IInv, [Next]_vars PROVE IInv'
  OBVIOUS
<1>0. /\ byte \in Nat /\ bit \in 0 .. 7 /\ out \in Seq(Members)
      /\ MembersInv /\ WorkInv /\ work \in Seq(PlaceTasks \cup CloseTasks)
  BY InvSplit DEF MembersInv, WorkInv
<1>c. /\ Closed \in Nat /\ Cursor <= 8 * Closed
      /\ Even \in Nat /\ Even % 2 = 0 /\ Closed <= Even /\ byte <= Closed
      /\ \A e \in Nat : Cursor <= WordUp(e)
            => 8 * Closed <= WordUp(e) /\ 8 * Even <= WordUp(e)
  BY <1>0, CursorMoves
<1>1. ASSUME NEW o \in {"OptimizedBlockError", "UnknownTypeError"}, Stop(o) PROVE IInv'
  BY <1>1 DEF Stop, IInv, TypeOK, CursorIsBehind, CursorIsNear, ClosesContainers, LeavesDisjoint,
     EvenStarts, GapsAreSmall, NoLeafIn, Slots, Cursor, Addr, End, CloseTasks, PlaceTasks, WordUp
<1>2. CASE Compute
  <2>1. CASE \/ block.optimized /\ ~block.force /\ Stop("OptimizedBlockError")
             \/ block.typed /\ block.base \notin DOMAIN Registry /\ Stop("UnknownTypeError")
    BY <2>1, <1>1
  <2>2. CASE /\ block.typed => block.base \in DOMAIN Registry
             /\ work' = Children(IF block.typed THEN Registry[block.base] ELSE block.fields, <<>>)
             /\ outcome' = "placing" /\ UNCHANGED <<block, byte, bit, out>>
    <3> DEFINE f == IF block.typed THEN Registry[block.base] ELSE block.fields
    <3>1. block \in Blocks
      BY <1>0 DEF WorkInv
    <3>2. f \in Seq(Types)
      BY <2>2, <3>1, BlocksAssumption, RegistryAssumption
    <3>3. <<>> \in Seq(Nat)
      OBVIOUS
    <3>4. work' \in Seq(PlaceTasks)
      BY <2>2, <3>2, <3>3, TasksArePlaced, Zenon DEF f
    <3>5. Slots' = Slots /\ (PlaceTasks \cup CloseTasks)' = PlaceTasks \cup CloseTasks
      BY <2>2 DEF Slots, PlaceTasks, CloseTasks
    <3>6. work' \in Seq((PlaceTasks \cup CloseTasks)')
      BY <3>4, <3>5, SeqMono, Zenon
    <3>7. \A i \in DOMAIN work' : work'[i].do = "place"
      <4>1. \A i \in DOMAIN work' : work'[i] \in PlaceTasks
        BY <3>4
      <4> QED BY <4>1 DEF PlaceTasks
    <3>8. ClosesContainers'
      BY <3>7 DEF ClosesContainers
    <3>9. WorkInv'
      BY <2>2, <3>1, <3>6, <3>8 DEF WorkInv
    <3>10. MembersInv'
      BY <1>0, <2>2 DEF MembersInv, CursorIsBehind, CursorIsNear, LeavesDisjoint, EvenStarts,
         GapsAreSmall, NoLeafIn, Slots, Cursor, Addr, End, WordUp
    <3> QED BY <3>9, <3>10, InvSplit, PTL
  <2> QED BY <1>2, <2>1, <2>2 DEF Compute
<1>3. CASE PlaceBool
  <2> DEFINE m == Member(Head(work), byte, bit, 1, TRUE)
  <2>1. /\ Now("place") /\ out' = Append(out, m) /\ byte' = AfterBit.byte /\ bit' = AfterBit.bit
        /\ work' = Tail(work) /\ block' = block /\ outcome' = outcome
    BY <1>3 DEF PlaceBool, Emit
  <2>2. m \in Members /\ m.leaf /\ m.byte = byte /\ m.bit = bit /\ m.bits = 1
    <3>1. Head(work).path \in Seq(Nat) /\ Head(work).type \in Types
      BY <2>1, NodeIsTyped DEF Node
    <3> QED BY <3>1, <1>0 DEF Member, Members
  <2> HIDE DEF m
  <2>3. /\ byte' \in Nat /\ bit' \in 0 .. 7 /\ byte <= byte' /\ m.byte <= byte'
        /\ Cursor' = End(m) /\ Cursor <= Addr(m)
        /\ \A e \in Nat : Cursor <= WordUp(e) => Addr(m) <= WordUp(e)
    <3>1. byte' \in Nat /\ bit' \in 0 .. 7 /\ byte <= byte' /\ 8 * byte' + bit' = 8 * byte + bit + 1
      BY <1>0, <2>1 DEF AfterBit
    <3>2. Addr(m) = Cursor /\ End(m) = Cursor + 1 /\ Cursor \in Nat
      BY <1>0, <2>2 DEF Cursor, Addr, End
    <3>3. Cursor' = Cursor + 1
      BY <3>1 DEF Cursor
    <3> QED BY <1>0, <2>2, <3>1, <3>2, <3>3
  <2>4. MembersInv'
    BY <1>0, <2>1, <2>2, <2>3, EmitLeaf
  <2>5. Len(out) <= Len(out') /\ out' \in Seq(Members) /\ \A i \in Slots : out'[i].leaf = out[i].leaf
    BY <1>0, <2>1, <2>2 DEF Slots
  <2>6. WorkInv'
    BY <2>1, <2>5, DropTask DEF Now
  <2> QED BY <2>4, <2>6, InvSplit, PTL
<1>4. CASE PlaceScalar
  <2> DEFINE m == Member(Head(work), ScalarStart(Node), 0, 8 * Bytes(Node), TRUE)
  <2>1. /\ Now("place") /\ IsScalar(Node) /\ ~IsBool(Node) /\ out' = Append(out, m)
        /\ byte' = ScalarStart(Node) + Bytes(Node) /\ bit' = 0
        /\ work' = Tail(work) /\ block' = block /\ outcome' = outcome
    BY <1>4 DEF PlaceScalar, Emit
  <2>2. /\ Head(work).path \in Seq(Nat) /\ Head(work).type \in Types /\ Node = Head(work).type
        /\ Bytes(Node) \in Nat \ {0}
    BY <2>1, NodeIsTyped, BytesType DEF Node
  <2>3. /\ ScalarStart(Node) \in Nat /\ byte <= ScalarStart(Node) /\ Cursor <= 8 * ScalarStart(Node)
        /\ \A e \in Nat : Cursor <= WordUp(e) => 8 * ScalarStart(Node) <= WordUp(e)
        /\ Bytes(Node) >= 2 => ScalarStart(Node) % 2 = 0
    <3>1. CASE Bytes(Node) >= 2
      BY <3>1, <1>c, <1>0, <2>2 DEF ScalarStart, Cursor
    <3>2. CASE ~(Bytes(Node) >= 2)
      BY <3>2, <1>c DEF ScalarStart
    <3> QED BY <3>1, <3>2
  <2>4. /\ m \in Members /\ m.leaf /\ m.byte = ScalarStart(Node) /\ m.bit = 0
        /\ m.bits = 8 * Bytes(Node)
    BY <2>2, <2>3 DEF Member, Members
  <2> HIDE DEF m
  <2>5. /\ byte' \in Nat /\ bit' \in 0 .. 7 /\ byte <= byte' /\ m.byte <= byte'
        /\ Cursor' = End(m) /\ Cursor <= Addr(m)
        /\ \A e \in Nat : Cursor <= WordUp(e) => Addr(m) <= WordUp(e)
        /\ m.bits >= 16 => m.byte % 2 = 0 /\ m.bit = 0
    <3> DEFINE a == ScalarStart(Node)  n == Bytes(Node)
    <3>1. a \in Nat /\ n \in Nat \ {0} /\ byte' = a + n /\ bit' = 0 /\ byte <= a /\ Cursor <= 8 * a
      BY <2>1, <2>2, <2>3
    <3>2. m.byte = a /\ m.bit = 0 /\ m.bits = 8 * n
      BY <2>4
    <3>3. \A e \in Nat : Cursor <= WordUp(e) => 8 * a <= WordUp(e)
      BY <2>3
    <3>4. n >= 2 => a % 2 = 0
      BY <2>3
    <3> HIDE DEF a, n
    <3>5. Addr(m) = 8 * a /\ End(m) = 8 * a + 8 * n
      BY <3>1, <3>2 DEF Addr, End
    <3>6. Cursor' = 8 * a + 8 * n
      BY <3>1 DEF Cursor
    <3> QED BY <1>0, <3>1, <3>2, <3>3, <3>4, <3>5, <3>6
  <2>6. MembersInv'
    BY <1>0, <2>1, <2>4, <2>5, EmitLeaf
  <2>7. Len(out) <= Len(out') /\ out' \in Seq(Members) /\ \A i \in Slots : out'[i].leaf = out[i].leaf
    BY <1>0, <2>1, <2>4 DEF Slots
  <2>8. WorkInv'
    BY <2>1, <2>7, DropTask DEF Now
  <2> QED BY <2>6, <2>8, InvSplit, PTL
<1>5. CASE PlaceStruct
  <2>1. Now("place") /\ Node.kind = "struct" /\ Open(Children(Node.fields, Head(work).path))
    BY <1>5 DEF PlaceStruct
  <2>2. Node \in Types /\ Head(work).path \in Seq(Nat)
    BY <2>1, NodeIsTyped
  <2>3. Node.fields \in Seq(Types)
    BY <2>1, <2>2, TypesAssumption
  <2> QED BY <2>1, <2>2, <2>3, TasksArePlaced, OpenInv
<1>6. CASE PlaceArray
  <2>1. Now("place") /\ Node.kind = "array" /\ Open(Elements(Node, Head(work).path))
    BY <1>6 DEF PlaceArray
  <2> QED BY <2>1, NodeIsTyped, TasksArePlaced, OpenInv
<1>7. CASE PlaceUdt
  <2>1. CASE Stop("UnknownTypeError")
    BY <2>1, <1>1
  <2>2. CASE /\ Now("place") /\ Node.name \in DOMAIN Registry
             /\ Open(Children(Registry[Node.name], Head(work).path))
    BY <2>2, NodeIsTyped, TasksArePlaced, OpenInv, RegistryAssumption
  <2> QED BY <1>7, <2>1, <2>2 DEF PlaceUdt
<1>8. CASE CloseContainer
  <2> DEFINE s == Head(work).slot
  <2>1. /\ Now("close") /\ byte' = Even /\ bit' = 0 /\ work' = Tail(work)
        /\ out' = [out EXCEPT ![s].bits = Extent(s)] /\ block' = block /\ outcome' = outcome
    BY <1>8 DEF CloseContainer
  <2>2. Head(work) = work[1] /\ 1 \in DOMAIN work /\ work[1] \in PlaceTasks \cup CloseTasks
    BY <1>0, <2>1 DEF Now
  <2>3. s \in Slots /\ ~out[s].leaf
    BY <2>1, <2>2 DEF Now, PlaceTasks, CloseTasks, IInv, ClosesContainers
  <2>4. Slots = DOMAIN out /\ out[s] \in Members /\ out[s].byte \in Nat /\ out[s].byte <= byte
    BY <1>0, <2>3, AddrType DEF Slots, IInv, CursorIsBehind
  <2>5. Extent(s) \in Nat
    <3>1. Even \in Nat /\ out[s].byte <= Even
      BY <1>0, <1>c, <2>4
    <3> QED BY <2>4, <3>1 DEF Extent
  <2>6. [out[s] EXCEPT !.bits = Extent(s)] \in Members
    BY <2>4, <2>5 DEF Members
  <2>7. /\ out' \in Seq(Members) /\ Len(out') = Len(out)
        /\ \A i \in Slots : out'[i] = IF i = s THEN [out[s] EXCEPT !.bits = Extent(s)] ELSE out[i]
    <3> HIDE DEF s
    <3>1. out' = [out EXCEPT ![s] = [out[s] EXCEPT !.bits = Extent(s)]]
      BY <2>1
    <3> QED BY <3>1, <1>0, <2>3, <2>4, <2>6
  <2>8. \A i \in Slots : /\ out'[i].byte = out[i].byte /\ out'[i].bit = out[i].bit
                         /\ out'[i].leaf = out[i].leaf
                         /\ out[i].leaf => out'[i].bits = out[i].bits
    <3> HIDE DEF s
    <3> QED BY <2>3, <2>4, <2>7 DEF Members
  <2>9. MembersInv'
    BY <1>0, <2>1, <2>7, <2>8, MoveCursor
  <2>10. WorkInv'
    BY <1>0, <2>1, <2>7, <2>8, DropTask DEF Now
  <2> QED BY <2>9, <2>10, InvSplit, PTL
<1>9. CASE Return
  <2>1. /\ byte' = Even /\ bit' = 0 /\ outcome' = "done" /\ block' = block /\ work' = work /\ out' = out
    BY <1>9 DEF Return
  <2>2. MembersInv'
    BY <1>0, <2>1, MoveCursor
  <2>3. WorkInv'
    BY <1>0, <2>1 DEF WorkInv, ClosesContainers, PlaceTasks, CloseTasks, Slots
  <2> QED BY <2>2, <2>3, InvSplit, PTL
<1>10. CASE UNCHANGED vars
  BY <1>10 DEF vars, IInv, TypeOK, CursorIsBehind, CursorIsNear, ClosesContainers, LeavesDisjoint,
     EvenStarts, GapsAreSmall, NoLeafIn, Slots, Cursor, Addr, End, CloseTasks, PlaceTasks, WordUp
<1> QED BY <1>2, <1>3, <1>4, <1>5, <1>6, <1>7, <1>8, <1>9, <1>10 DEF Next

\* The first call satisfies the invariant.
LEMMA InitIInv == Init => IInv
BY DEF Init, IInv, TypeOK, CursorIsBehind, CursorIsNear, ClosesContainers, LeavesDisjoint,
   EvenStarts, GapsAreSmall, Slots

LEMMA Invariant == Spec => []IInv
<1>1. Init => IInv
  BY InitIInv
<1>2. IInv /\ [Next]_vars => IInv'
  BY StepIInv
<1> QED BY <1>1, <1>2, PTL DEF Spec

-----------------------------------------------------------------------------
\* The state of a layout is typed in every step.
THEOREM LayoutTypeCorrect == Spec => []TypeOK
<1>1. IInv => TypeOK
  BY DEF IInv
<1> QED BY <1>1, Invariant, PTL

\* Whatever the declarations, no two scalars of a block share a bit.
THEOREM ScalarsNeverOverlap == Spec => []LeavesDisjoint
<1>1. IInv => LeavesDisjoint
  BY DEF IInv
<1> QED BY <1>1, Invariant, PTL

\* Words, longer scalars, strings and containers start on even bytes.
THEOREM WordsAreAligned == Spec => []EvenStarts
<1>1. IInv => EvenStarts
  BY DEF IInv
<1> QED BY <1>1, Invariant, PTL

\* Alignment never leaves two free bytes between neighbouring scalars.
THEOREM NoWordIsWasted == Spec => []PaddingIsMinimal
<1>1. IInv => PaddingIsMinimal
  <2> SUFFICES ASSUME IInv, NEW i \in Slots, out[i].leaf
               PROVE  /\ \A j \in i + 1 .. Len(out) :
                           out[j].leaf /\ NoLeafIn(i + 1 .. j - 1) => Addr(out[j]) - End(out[i]) < 16
                      /\ NoLeafIn(i + 1 .. Len(out)) => Cursor - End(out[i]) < 16
    BY DEF PaddingIsMinimal
  <2>1. End(out[i]) \in Nat /\ Cursor \in Nat
    <3>1. out[i] \in Members /\ byte \in Nat /\ bit \in 0 .. 7
      BY DEF IInv, TypeOK, Slots
    <3> QED BY <3>1, AddrType DEF Cursor
  <2>2. ASSUME NoLeafIn(i + 1 .. Len(out)) PROVE Cursor - End(out[i]) < 16
    <3>1. Cursor <= WordUp(End(out[i]))
      BY <2>2 DEF IInv, CursorIsNear
    <3>2. WordUp(End(out[i])) \in Nat /\ WordUp(End(out[i])) - End(out[i]) < 16
      BY <2>1, WordUpIsNear
    <3> QED BY <2>1, <3>1, <3>2
  <2> QED BY <2>2 DEF IInv, GapsAreSmall
<1> QED BY <1>1, Invariant, PTL

-----------------------------------------------------------------------------
(* Containers.  A path names a member by its position in each container it  *)
(* is in, so that `inside' is a matter of prefixes.  The call stack goes    *)
(* through the declarations in preorder: the paths still to be placed are   *)
(* apart from each other and from those placed, and those of a container    *)
(* are exactly the ones above its Close task.                               *)

\* No layout has been begun before the fields are known.
NothingYet == outcome = "called" => out = <<>> /\ work = <<>>

IsPlace(q) == work[q].do = "place"
IsClose(q) == work[q].do = "close"

\* No node left to place is inside another one left to place.
TasksApart ==
    \A p, q \in DOMAIN work :
        IsPlace(p) /\ IsPlace(q) /\ p # q => ~IsPrefix(work[p].path, work[q].path)

\* No member has been placed before the container it is in.
TasksFresh ==
    \A q \in DOMAIN work : IsPlace(q) =>
        \A i \in Slots : ~IsPrefix(work[q].path, out[i].path)
MembersFresh ==
    \A k \in Slots : \A i \in 1 .. k - 1 : ~IsPrefix(out[k].path, out[i].path)

\* The nodes above a Close task are inside its container, those below are not.
TasksInside ==
    \A p, q \in DOMAIN work : IsClose(p) /\ IsPlace(q) =>
        (q < p <=> IsPrefix(out[work[p].slot].path, work[q].path))

\* Nothing is left to place in a closed container.
TasksOutside ==
    \A k \in Slots \ Opened : ~out[k].leaf =>
        \A q \in DOMAIN work : IsPlace(q) => ~IsPrefix(out[k].path, work[q].path)

\* All that was placed since a container was opened, while it is open, is in it.
MembersInside ==
    \A k \in Opened : \A j \in k + 1 .. Len(out) : IsPrefix(out[k].path, out[j].path)

PathInv ==
    /\ NothingYet /\ TasksApart /\ TasksFresh /\ MembersFresh
    /\ TasksInside /\ TasksOutside /\ MembersInside

\* Addresses rise with the slots, and no member starts inside a scalar.
AddressesRise ==
    \A i \in Slots : \A j \in i + 1 .. Len(out) :
        Addr(out[i]) <= Addr(out[j]) /\ (out[i].leaf => End(out[i]) <= Addr(out[j]))

\* The extent of a closed container, behind its start and up to the cursor.
ClosedHold ==
    \A k \in Slots \ Opened : ~out[k].leaf =>
        /\ out[k].bits % 16 = 0 /\ End(out[k]) <= Cursor
        /\ \A j \in k + 1 .. Len(out) : out[j].leaf =>
             IF IsPrefix(out[k].path, out[j].path)
             THEN End(out[j]) <= End(out[k])
             ELSE End(out[k]) <= Addr(out[j])

HoldInv == AddressesRise /\ ClosedHold

\* Prefixes of paths, element by element.
LEMMA PrefixIs ==
    ASSUME NEW p \in Seq(Nat), NEW q \in Seq(Nat)
    PROVE  IsPrefix(p, q) <=> Len(p) <= Len(q) /\ \A i \in 1 .. Len(p) : p[i] = q[i]
<1>1. Len(p) \in Nat /\ Len(q) \in Nat
  OBVIOUS
<1>2. SubSeq(p, 1, Len(p)) = [i \in 1 .. Len(p) |-> p[i]]
  BY <1>1
<1>3. Len(p) <= Len(q) => SubSeq(q, 1, Len(p)) = [i \in 1 .. Len(p) |-> q[i]]
  BY <1>1
<1>4. ([i \in 1 .. Len(p) |-> p[i]] = [i \in 1 .. Len(p) |-> q[i]])
        <=> \A i \in 1 .. Len(p) : p[i] = q[i]
  <2> DEFINE f == [i \in 1 .. Len(p) |-> p[i]]
             g == [i \in 1 .. Len(p) |-> q[i]]
  <2>1. ASSUME f = g, NEW i \in 1 .. Len(p) PROVE p[i] = q[i]
    <3>1. f[i] = g[i]
      BY <2>1
    <3> QED BY <3>1
  <2>2. ASSUME \A i \in 1 .. Len(p) : p[i] = q[i] PROVE f = g
    BY <2>2
  <2> QED BY <2>1, <2>2
<1> QED BY <1>2, <1>3, <1>4 DEF IsPrefix

\* The path of a member is inside that of its container, and inside nothing
\* else that the container is not inside of.
LEMMA PrefixOfChild ==
    ASSUME NEW h \in Seq(Nat), NEW x \in Seq(Nat), NEW i \in Nat, NEW j \in Nat
    PROVE  /\ IsPrefix(h, h) /\ IsPrefix(h, Append(h, i)) /\ ~IsPrefix(Append(h, i), h)
           /\ IsPrefix(x, Append(h, i)) <=> IsPrefix(x, h) \/ x = Append(h, i)
           /\ IsPrefix(Append(h, i), x) => IsPrefix(h, x)
           /\ IsPrefix(Append(h, i), Append(h, j)) => i = j
<1>1. /\ Append(h, i) \in Seq(Nat) /\ Len(Append(h, i)) = Len(h) + 1 /\ Append(h, i)[Len(h) + 1] = i
      /\ \A n \in 1 .. Len(h) : Append(h, i)[n] = h[n]
      /\ Append(h, j) \in Seq(Nat) /\ Len(Append(h, j)) = Len(h) + 1 /\ Append(h, j)[Len(h) + 1] = j
  OBVIOUS
<1>2. Len(h) \in Nat /\ Len(x) \in Nat
  OBVIOUS
<1> DEFINE c == Append(h, i)  d == Append(h, j)
<1>3. c \in Seq(Nat) /\ d \in Seq(Nat)
  BY <1>1
<1> HIDE DEF c, d
<1>4. IsPrefix(h, h) /\ IsPrefix(h, c) /\ ~IsPrefix(c, h)
  <2>1. IsPrefix(h, h)
    BY <1>2, PrefixIs
  <2>2. Len(h) <= Len(c) /\ \A n \in 1 .. Len(h) : h[n] = c[n]
    BY <1>1, <1>2 DEF c
  <2>3. ~(Len(c) <= Len(h))
    BY <1>1, <1>2 DEF c
  <2> QED BY <1>3, <2>1, <2>2, <2>3, PrefixIs
<1>5. IsPrefix(c, x) => IsPrefix(h, x)
  <2> SUFFICES ASSUME IsPrefix(c, x) PROVE IsPrefix(h, x)
    OBVIOUS
  <2>1. Len(c) <= Len(x) /\ \A n \in 1 .. Len(c) : c[n] = x[n]
    BY <1>3, PrefixIs
  <2>2. Len(h) <= Len(x) /\ \A n \in 1 .. Len(h) : h[n] = x[n]
    BY <1>1, <1>2, <2>1 DEF c
  <2> QED BY <2>2, PrefixIs
<1>6. IsPrefix(x, h) => IsPrefix(x, c)
  <2> SUFFICES ASSUME IsPrefix(x, h) PROVE IsPrefix(x, c)
    OBVIOUS
  <2>1. Len(x) <= Len(h) /\ \A n \in 1 .. Len(x) : x[n] = h[n]
    BY PrefixIs
  <2>2. Len(x) <= Len(c) /\ \A n \in 1 .. Len(x) : x[n] = c[n]
    BY <1>1, <1>2, <2>1 DEF c
  <2> QED BY <1>3, <2>2, PrefixIs
<1>7. x = c => IsPrefix(x, c)
  BY <1>3, PrefixIs
<1>8. ASSUME IsPrefix(x, c), ~IsPrefix(x, h) PROVE x = c
  <2>1. Len(x) <= Len(c) /\ \A n \in 1 .. Len(x) : x[n] = c[n]
    BY <1>3, <1>8, PrefixIs
  <2>2. ~(Len(x) <= Len(h))
    <3> SUFFICES ASSUME Len(x) <= Len(h) PROVE FALSE
      OBVIOUS
    <3>1. \A n \in 1 .. Len(x) : x[n] = h[n]
      BY <1>1, <1>2, <2>1 DEF c
    <3> QED BY <1>8, <3>1, PrefixIs
  <2>3. Len(x) = Len(c)
    BY <1>1, <1>2, <2>1, <2>2 DEF c
  <2> QED BY <1>3, <2>1, <2>3
<1>9. ASSUME IsPrefix(c, d) PROVE i = j
  <2>1. \A n \in 1 .. Len(c) : c[n] = d[n]
    BY <1>3, <1>9, PrefixIs
  <2>2. Len(h) + 1 \in 1 .. Len(c)
    BY <1>1, <1>2 DEF c
  <2> QED BY <1>1, <2>1, <2>2 DEF c, d
<1> QED BY <1>4, <1>5, <1>6, <1>7, <1>8, <1>9 DEF c, d

-----------------------------------------------------------------------------
(* The paths, step by step.                                                *)

\* What is left to do, and the members, element by element.
LEMMA WorkTyped ==
    ASSUME IInv
    PROVE  /\ Len(work) \in Nat /\ DOMAIN work = 1 .. Len(work)
           /\ Len(out) \in Nat /\ Slots = 1 .. Len(out)
           /\ \A q \in DOMAIN work : IsPlace(q) => work[q].path \in Seq(Nat)
           /\ \A q \in DOMAIN work : IsClose(q) => work[q].slot \in Slots /\ work[q].slot \in Opened
           /\ \A k \in Opened : k \in Slots /\ \E q \in DOMAIN work : IsClose(q) /\ work[q].slot = k
           /\ \A i \in Slots : out[i] \in Members /\ out[i].path \in Seq(Nat)
<1>1. work \in Seq(PlaceTasks \cup CloseTasks) /\ out \in Seq(Members)
  BY DEF IInv, TypeOK
<1>2. \A q \in DOMAIN work : work[q] \in PlaceTasks \cup CloseTasks
  BY <1>1
<1>3. \A q \in DOMAIN work : IsPlace(q) => work[q].path \in Seq(Nat)
  BY <1>2 DEF IsPlace, PlaceTasks, CloseTasks
<1>4. \A q \in DOMAIN work : IsClose(q) => work[q].slot \in Slots
  BY <1>2 DEF IsClose, PlaceTasks, CloseTasks
<1>5. /\ \A q \in DOMAIN work : IsClose(q) => work[q].slot \in Opened
      /\ \A k \in Opened : \E q \in DOMAIN work : IsClose(q) /\ work[q].slot = k
  BY DEF IsClose, Opened
<1>6. \A i \in Slots : out[i] \in Members /\ out[i].path \in Seq(Nat)
  <2>1. \A i \in Slots : out[i] \in Members
    BY <1>1 DEF Slots
  <2> QED BY <2>1 DEF Members
<1>7. Len(work) \in Nat /\ DOMAIN work = 1 .. Len(work) /\ Len(out) \in Nat /\ Slots = 1 .. Len(out)
  BY <1>1 DEF Slots
<1> QED BY <1>3, <1>4, <1>5, <1>6, <1>7

\* The next task is done: the others move up.
LEMMA TasksMoveUp ==
    ASSUME IInv, work # <<>>, work' = Tail(work)
    PROVE  /\ Head(work) = work[1] /\ 1 \in DOMAIN work
           /\ Len(work') \in Nat /\ DOMAIN work' = 1 .. Len(work')
           /\ \A q \in DOMAIN work' : /\ q + 1 \in DOMAIN work /\ q + 1 # 1
                                      /\ work'[q] = work[q + 1]
           /\ \A q \in DOMAIN work : q # 1 => q - 1 \in DOMAIN work' /\ work'[q - 1] = work[q]
<1>1. work \in Seq(PlaceTasks \cup CloseTasks)
  BY DEF IInv, TypeOK
<1>2. Len(work) \in Nat \ {0} /\ DOMAIN work = 1 .. Len(work)
  BY <1>1
<1>3. /\ Head(work) = work[1] /\ Len(work') = Len(work) - 1 /\ DOMAIN work' = 1 .. Len(work')
      /\ \A q \in 1 .. Len(work) - 1 : work'[q] = work[q + 1]
  BY <1>1, <1>2
<1>4. ASSUME NEW q \in DOMAIN work, q # 1
      PROVE  q - 1 \in DOMAIN work' /\ work'[q - 1] = work[q]
  <2>1. q - 1 \in 1 .. Len(work) - 1 /\ (q - 1) + 1 = q
    BY <1>2, <1>4
  <2>2. work'[q - 1] = work[(q - 1) + 1]
    BY <1>3, <2>1
  <2> QED BY <1>3, <2>1, <2>2
<1>5. \A q \in DOMAIN work' : q + 1 \in DOMAIN work /\ q + 1 # 1 /\ work'[q] = work[q + 1]
  BY <1>2, <1>3
<1> QED BY <1>2, <1>3, <1>4, <1>5

\* One member more.
LEMMA OneMore ==
    ASSUME IInv, NEW m \in Members, out' = Append(out, m)
    PROVE  /\ Len(out') = Len(out) + 1 /\ Slots' = 1 .. Len(out) + 1
           /\ out'[Len(out) + 1] = m /\ \A i \in Slots : out'[i] = out[i]
<1>1. out \in Seq(Members)
  BY DEF IInv, TypeOK
<1> QED BY <1>1 DEF Slots

\* A scalar is placed.
LEMMA LeafPaths ==
    ASSUME IInv, PathInv, Now("place"), work' = Tail(work), outcome' = outcome,
           NEW m \in Members, m.leaf, m.path = Head(work).path, out' = Append(out, m)
    PROVE  PathInv' /\ Opened' = Opened
<1> DEFINE n == Len(out)
<1>1. outcome = "placing" /\ work # <<>> /\ Head(work).do = "place"
  BY DEF Now
<1>2. /\ Head(work) = work[1] /\ 1 \in DOMAIN work
      /\ Len(work') \in Nat /\ DOMAIN work' = 1 .. Len(work')
      /\ \A q \in DOMAIN work' : q + 1 \in DOMAIN work /\ q + 1 # 1 /\ work'[q] = work[q + 1]
      /\ \A q \in DOMAIN work : q # 1 => q - 1 \in DOMAIN work' /\ work'[q - 1] = work[q]
  BY <1>1, TasksMoveUp
<1>3. /\ Len(out') = n + 1 /\ Slots' = 1 .. n + 1 /\ out'[n + 1] = m
      /\ \A i \in Slots : out'[i] = out[i]
  BY OneMore
<1>4. /\ n \in Nat /\ Slots = 1 .. n /\ DOMAIN work = 1 .. Len(work) /\ Len(work) \in Nat
      /\ \A q \in DOMAIN work : IsClose(q) => work[q].slot \in Slots /\ work[q].slot \in Opened
      /\ \A k \in Opened : k \in Slots /\ \E q \in DOMAIN work : IsClose(q) /\ work[q].slot = k
  BY WorkTyped
<1>5. IsPlace(1) /\ ~IsClose(1) /\ m.path = work[1].path
  BY <1>1, <1>2 DEF IsPlace, IsClose
<1>6. \A q \in DOMAIN work' : (IsPlace(q)' <=> IsPlace(q + 1)) /\ (IsClose(q)' <=> IsClose(q + 1))
  BY <1>2 DEF IsPlace, IsClose
<1>7. Opened' = Opened
  <2>1. ASSUME NEW k \in Opened PROVE k \in Opened'
    <3>1. PICK q \in DOMAIN work : IsClose(q) /\ work[q].slot = k
      BY <1>4
    <3>2. q # 1 /\ q - 1 \in DOMAIN work' /\ work'[q - 1] = work[q]
      BY <1>2, <1>5, <3>1
    <3> QED BY <3>1, <3>2 DEF Opened, IsClose
  <2>2. ASSUME NEW k \in Opened' PROVE k \in Opened
    <3>1. PICK q \in DOMAIN work' : work'[q].do = "close" /\ work'[q].slot = k
      BY DEF Opened
    <3>2. IsClose(q + 1) /\ work[q + 1].slot = k /\ q + 1 \in DOMAIN work
      BY <1>2, <3>1 DEF IsClose
    <3> QED BY <1>4, <3>2
  <2> QED BY <2>1, <2>2
<1>8. NothingYet'
  BY <1>1 DEF NothingYet
<1>9. TasksApart'
  <2> SUFFICES ASSUME NEW p \in DOMAIN work', NEW q \in DOMAIN work', IsPlace(p)', IsPlace(q)',
                      p # q
               PROVE  ~IsPrefix(work'[p].path, work'[q].path)
    BY DEF TasksApart
  <2>1. /\ p + 1 \in DOMAIN work /\ IsPlace(p + 1) /\ work'[p] = work[p + 1]
        /\ q + 1 \in DOMAIN work /\ IsPlace(q + 1) /\ work'[q] = work[q + 1]
    BY <1>2, <1>6
  <2>2. p + 1 # q + 1
    BY <1>2
  <2> QED BY <2>1, <2>2 DEF PathInv, TasksApart
<1>10. TasksFresh'
  <2> SUFFICES ASSUME NEW q \in DOMAIN work', IsPlace(q)', NEW i \in Slots'
               PROVE  ~IsPrefix(work'[q].path, out'[i].path)
    BY DEF TasksFresh
  <2>1. q + 1 \in DOMAIN work /\ q + 1 # 1 /\ IsPlace(q + 1) /\ work'[q] = work[q + 1]
    BY <1>2, <1>6
  <2>2. CASE i \in Slots
    BY <1>3, <2>1, <2>2 DEF PathInv, TasksFresh
  <2>3. CASE i = n + 1
    BY <1>2, <1>3, <1>5, <2>1, <2>3 DEF PathInv, TasksApart
  <2> QED BY <1>3, <1>4, <2>2, <2>3
<1>11. MembersFresh'
  <2> SUFFICES ASSUME NEW k \in Slots', NEW i \in 1 .. k - 1
               PROVE  ~IsPrefix(out'[k].path, out'[i].path)
    BY DEF MembersFresh
  <2>1. i \in Slots
    BY <1>3, <1>4
  <2>2. CASE k \in Slots
    BY <1>3, <2>1, <2>2 DEF PathInv, MembersFresh
  <2>3. CASE k = n + 1
    BY <1>2, <1>3, <1>5, <2>1, <2>3 DEF PathInv, TasksFresh
  <2> QED BY <1>3, <1>4, <2>2, <2>3
<1>12. TasksInside'
  <2> SUFFICES ASSUME NEW p \in DOMAIN work', NEW q \in DOMAIN work', IsClose(p)', IsPlace(q)'
               PROVE  q < p <=> IsPrefix(out'[work'[p].slot].path, work'[q].path)
    BY DEF TasksInside
  <2>1. /\ p + 1 \in DOMAIN work /\ IsClose(p + 1) /\ work'[p] = work[p + 1]
        /\ q + 1 \in DOMAIN work /\ IsPlace(q + 1) /\ work'[q] = work[q + 1]
    BY <1>2, <1>6
  <2>2. q + 1 < p + 1 <=> IsPrefix(out[work[p + 1].slot].path, work[q + 1].path)
    BY <2>1 DEF PathInv, TasksInside
  <2>3. out'[work[p + 1].slot] = out[work[p + 1].slot]
    BY <1>3, <1>4, <2>1
  <2>4. q + 1 < p + 1 <=> q < p
    BY <1>2
  <2> QED BY <2>1, <2>2, <2>3, <2>4
<1>13. TasksOutside'
  <2> SUFFICES ASSUME NEW k \in Slots' \ Opened', ~out'[k].leaf, NEW q \in DOMAIN work', IsPlace(q)'
               PROVE  ~IsPrefix(out'[k].path, work'[q].path)
    BY DEF TasksOutside
  <2>1. k \in Slots \ Opened /\ out'[k] = out[k]
    BY <1>3, <1>4, <1>7
  <2> QED BY <1>2, <1>6, <2>1 DEF PathInv, TasksOutside
<1>14. MembersInside'
  <2> SUFFICES ASSUME NEW k \in Opened, NEW j \in k + 1 .. n + 1
               PROVE  IsPrefix(out'[k].path, out'[j].path)
    BY <1>3, <1>7 DEF MembersInside
  <2>1. k \in Slots /\ out'[k] = out[k]
    BY <1>3, <1>4
  <2>2. CASE j \in k + 1 .. n
    <3>1. j \in Slots
      BY <1>4, <2>1, <2>2
    <3> QED BY <1>3, <2>1, <2>2, <3>1 DEF PathInv, MembersInside
  <2>3. CASE j = n + 1
    <3>1. PICK p \in DOMAIN work : IsClose(p) /\ work[p].slot = k
      BY <1>4
    <3>2. 1 < p
      BY <1>4, <1>5, <3>1
    <3>3. IsPrefix(out[work[p].slot].path, work[1].path)
      BY <1>2, <1>5, <3>1, <3>2 DEF PathInv, TasksInside
    <3> QED BY <1>3, <1>5, <2>1, <2>3, <3>1, <3>3
  <2>4. j \in k + 1 .. n \/ j = n + 1
    <3>1. k \in Nat
      BY <1>4, <2>1
    <3>2. n \in Nat
      BY <1>4
    <3> HIDE DEF n
    <3> QED BY <3>1, <3>2
  <2> QED BY <2>2, <2>3, <2>4
<1> QED BY <1>7, <1>8, <1>9, <1>10, <1>11, <1>12, <1>13, <1>14 DEF PathInv

\* A container is closed.
LEMMA ClosePaths ==
    ASSUME IInv, PathInv, Now("close"), work' = Tail(work), outcome' = outcome,
           Len(out') = Len(out),
           \A i \in Slots : out'[i].path = out[i].path /\ out'[i].leaf = out[i].leaf
    PROVE  PathInv' /\ Opened' \subseteq Opened /\ Opened \subseteq Opened' \cup {Head(work).slot}
<1>1. outcome = "placing" /\ work # <<>> /\ Head(work).do = "close"
  BY DEF Now
<1>2. /\ Head(work) = work[1] /\ 1 \in DOMAIN work
      /\ Len(work') \in Nat /\ DOMAIN work' = 1 .. Len(work')
      /\ \A q \in DOMAIN work' : q + 1 \in DOMAIN work /\ q + 1 # 1 /\ work'[q] = work[q + 1]
      /\ \A q \in DOMAIN work : q # 1 => q - 1 \in DOMAIN work' /\ work'[q - 1] = work[q]
  BY <1>1, TasksMoveUp
<1>3. /\ Len(out) \in Nat /\ Slots = 1 .. Len(out) /\ Slots' = Slots
      /\ DOMAIN work = 1 .. Len(work) /\ Len(work) \in Nat
      /\ \A q \in DOMAIN work : IsClose(q) => work[q].slot \in Slots /\ work[q].slot \in Opened
      /\ \A k \in Opened : k \in Slots /\ \E q \in DOMAIN work : IsClose(q) /\ work[q].slot = k
  BY WorkTyped DEF Slots
<1>4. IsClose(1)
  BY <1>1, <1>2 DEF IsClose
<1>5. \A q \in DOMAIN work' : (IsPlace(q)' <=> IsPlace(q + 1)) /\ (IsClose(q)' <=> IsClose(q + 1))
  BY <1>2 DEF IsPlace, IsClose
<1>6. Opened' \subseteq Opened
  <2> SUFFICES ASSUME NEW k \in Opened' PROVE k \in Opened
    OBVIOUS
  <2>1. PICK q \in DOMAIN work' : work'[q].do = "close" /\ work'[q].slot = k
    BY DEF Opened
  <2>2. IsClose(q + 1) /\ work[q + 1].slot = k /\ q + 1 \in DOMAIN work
    BY <1>2, <2>1 DEF IsClose
  <2> QED BY <1>3, <2>2
<1>7. Opened \subseteq Opened' \cup {Head(work).slot}
  <2> SUFFICES ASSUME NEW k \in Opened, k # Head(work).slot PROVE k \in Opened'
    OBVIOUS
  <2>1. PICK q \in DOMAIN work : IsClose(q) /\ work[q].slot = k
    BY <1>3
  <2>2. q # 1 /\ q - 1 \in DOMAIN work' /\ work'[q - 1] = work[q]
    BY <1>2, <2>1
  <2> QED BY <2>1, <2>2 DEF Opened, IsClose
<1>8. NothingYet'
  BY <1>1 DEF NothingYet
<1>9. TasksApart'
  <2> SUFFICES ASSUME NEW p \in DOMAIN work', NEW q \in DOMAIN work', IsPlace(p)', IsPlace(q)',
                      p # q
               PROVE  ~IsPrefix(work'[p].path, work'[q].path)
    BY DEF TasksApart
  <2>1. /\ p + 1 \in DOMAIN work /\ IsPlace(p + 1) /\ work'[p] = work[p + 1]
        /\ q + 1 \in DOMAIN work /\ IsPlace(q + 1) /\ work'[q] = work[q + 1]
    BY <1>2, <1>5
  <2>2. p + 1 # q + 1
    BY <1>2
  <2> QED BY <2>1, <2>2 DEF PathInv, TasksApart
<1>10. TasksFresh' /\ MembersFresh'
  <2>1. TasksFresh'
    BY <1>2, <1>3, <1>5 DEF PathInv, TasksFresh
  <2>2. \A k \in Slots : \A i \in 1 .. k - 1 : i \in Slots
    BY <1>3
  <2>3. MembersFresh'
    BY <1>3, <2>2 DEF PathInv, MembersFresh
  <2> QED BY <2>1, <2>3
<1>11. TasksInside'
  <2> SUFFICES ASSUME NEW p \in DOMAIN work', NEW q \in DOMAIN work', IsClose(p)', IsPlace(q)'
               PROVE  q < p <=> IsPrefix(out'[work'[p].slot].path, work'[q].path)
    BY DEF TasksInside
  <2>1. /\ p + 1 \in DOMAIN work /\ IsClose(p + 1) /\ work'[p] = work[p + 1]
        /\ q + 1 \in DOMAIN work /\ IsPlace(q + 1) /\ work'[q] = work[q + 1]
    BY <1>2, <1>5
  <2>2. q + 1 < p + 1 <=> IsPrefix(out[work[p + 1].slot].path, work[q + 1].path)
    BY <2>1 DEF PathInv, TasksInside
  <2>3. out'[work[p + 1].slot].path = out[work[p + 1].slot].path
    BY <1>3, <2>1
  <2>4. q + 1 < p + 1 <=> q < p
    BY <1>2
  <2> QED BY <2>1, <2>2, <2>3, <2>4
<1>12. TasksOutside'
  <2> SUFFICES ASSUME NEW k \in Slots \ Opened', ~out[k].leaf, NEW q \in DOMAIN work', IsPlace(q)'
               PROVE  ~IsPrefix(out[k].path, work'[q].path)
    BY <1>3 DEF TasksOutside
  <2>1. q + 1 \in DOMAIN work /\ IsPlace(q + 1) /\ work'[q] = work[q + 1]
    BY <1>2, <1>5
  <2>2. CASE k \notin Opened
    BY <2>1, <2>2 DEF PathInv, TasksOutside
  <2>3. CASE k = Head(work).slot
    <3>1. ~(q + 1 < 1)
      BY <1>2
    <3> QED BY <1>2, <1>4, <2>1, <2>3, <3>1 DEF PathInv, TasksInside
  <2> QED BY <1>7, <2>2, <2>3
<1>13. MembersInside'
  <2> SUFFICES ASSUME NEW k \in Opened', NEW j \in k + 1 .. Len(out)
               PROVE  IsPrefix(out'[k].path, out'[j].path)
    BY DEF MembersInside
  <2>1. k \in Opened /\ k \in Slots /\ j \in Slots
    BY <1>3, <1>6
  <2> QED BY <1>3, <2>1 DEF PathInv, MembersInside
<1> QED BY <1>6, <1>7, <1>8, <1>9, <1>10, <1>11, <1>12, <1>13 DEF PathInv

\* What is left to do once a container has been opened: its own nodes, its
\* Close task and what there was.
OpensTo(tasks, h) ==
    /\ Len(tasks) \in Nat /\ Len(work') \in Nat /\ DOMAIN work' = 1 .. Len(work')
    /\ \A q \in DOMAIN work' :
         \/ q <= Len(tasks) /\ work'[q].do = "place" /\ work'[q].path = Append(h, q)
         \/ q = Len(tasks) + 1 /\ work'[q] = Close(Len(out) + 1)
         \/ /\ q > Len(tasks) + 1 /\ q - Len(tasks) \in DOMAIN work /\ q - Len(tasks) > 1
            /\ work'[q] = work[q - Len(tasks)]
    /\ Len(tasks) + 1 \in DOMAIN work' /\ work'[Len(tasks) + 1] = Close(Len(out) + 1)
    /\ \A q \in DOMAIN work : q > 1 => /\ q + Len(tasks) \in DOMAIN work'
                                       /\ work'[q + Len(tasks)] = work[q]

\* The nodes of a container are one position below it.
LEMMA ChildrenBelow ==
    ASSUME IInv, Now("place"), NEW tasks \in Seq(PlaceTasks), Open(tasks),
           \A i \in 1 .. Len(tasks) : tasks[i].path = Append(Head(work).path, i)
    PROVE  OpensTo(tasks, Head(work).path)
<1> DEFINE front == tasks \o <<Close(Len(out) + 1)>>
           rest  == Tail(work)
           T == PlaceTasks \cup {Close(Len(out) + 1)} \cup CloseTasks
           h == Head(work).path
<1>1. work \in Seq(PlaceTasks \cup CloseTasks) /\ work # <<>>
  BY DEF IInv, TypeOK, Now
<1>2. /\ Len(work) \in Nat \ {0} /\ DOMAIN work = 1 .. Len(work)
      /\ rest \in Seq(PlaceTasks \cup CloseTasks) /\ Len(rest) = Len(work) - 1
      /\ \A q \in 1 .. Len(rest) : rest[q] = work[q + 1]
  BY <1>1
<1>3. /\ front \in Seq(PlaceTasks \cup {Close(Len(out) + 1)}) /\ Len(front) = Len(tasks) + 1
      /\ Len(tasks) \in Nat
      /\ \A q \in 1 .. Len(tasks) : front[q] = tasks[q]
      /\ front[Len(tasks) + 1] = Close(Len(out) + 1)
  OBVIOUS
<1>4. work' = front \o rest
  <2>1. work' = tasks \o <<Close(Len(out) + 1)>> \o rest
    BY DEF Open
  <2> QED BY <2>1
<1>5. front \in Seq(T) /\ rest \in Seq(T)
  BY <1>2, <1>3, SeqMono
<1> HIDE DEF front, rest, T
<1>6. /\ Len(work') = Len(front) + Len(rest) /\ DOMAIN work' = 1 .. Len(work')
      /\ \A q \in 1 .. Len(work') :
           work'[q] = IF q <= Len(front) THEN front[q] ELSE rest[q - Len(front)]
  BY <1>4, <1>5
<1>7. \A q \in 1 .. Len(tasks) : tasks[q].do = "place" /\ tasks[q].path = Append(h, q)
  <2>1. \A q \in 1 .. Len(tasks) : tasks[q] \in PlaceTasks
    OBVIOUS
  <2> QED BY <2>1 DEF PlaceTasks
<1> DEFINE l == Len(tasks)
<1>8. l \in Nat /\ Len(front) = l + 1 /\ Len(rest) = Len(work) - 1 /\ Len(work') = l + Len(work)
  BY <1>2, <1>3, <1>6
<1> HIDE DEF l, h
<1>9. ASSUME NEW q \in DOMAIN work'
      PROVE  \/ q <= l /\ work'[q].do = "place" /\ work'[q].path = Append(h, q)
             \/ q = l + 1 /\ work'[q] = Close(Len(out) + 1)
             \/ q > l + 1 /\ q - l \in DOMAIN work /\ q - l > 1 /\ work'[q] = work[q - l]
  <2>1. q \in 1 .. l + Len(work)
    BY <1>6, <1>8
  <2>2. CASE q <= l
    <3>1. q \in 1 .. l /\ work'[q] = front[q]
      BY <1>6, <1>8, <2>1, <2>2
    <3>2. work'[q] = tasks[q]
      BY <1>3, <3>1 DEF l
    <3> QED BY <1>7, <2>2, <3>1, <3>2 DEF l
  <2>3. CASE q = l + 1
    <3>1. work'[q] = front[l + 1]
      BY <1>6, <1>8, <2>1, <2>3
    <3> QED BY <1>3, <2>3, <3>1 DEF l
  <2>4. CASE q > l + 1
    <3>1. work'[q] = rest[q - (l + 1)] /\ q - (l + 1) \in 1 .. Len(rest)
      BY <1>2, <1>6, <1>8, <2>1, <2>4
    <3>2. (q - (l + 1)) + 1 = q - l /\ q - l \in DOMAIN work /\ q - l > 1
      BY <1>2, <1>8, <2>1, <2>4
    <3>3. rest[q - (l + 1)] = work[(q - (l + 1)) + 1]
      BY <1>2, <3>1
    <3> QED BY <2>4, <3>1, <3>2, <3>3
  <2> QED BY <1>8, <2>1, <2>2, <2>3, <2>4
<1>10. l + 1 \in DOMAIN work' /\ work'[l + 1] = Close(Len(out) + 1)
  <2>1. l + 1 \in DOMAIN work'
    BY <1>2, <1>6, <1>8
  <2>2. ~(l + 1 <= l) /\ ~(l + 1 > l + 1)
    BY <1>8
  <2> QED BY <1>9, <2>1, <2>2
<1>11. ASSUME NEW q \in DOMAIN work, q > 1
       PROVE  q + l \in DOMAIN work' /\ work'[q + l] = work[q]
  <2>1. q + l \in DOMAIN work' /\ (q + l) - l = q /\ ~(q + l <= l) /\ q + l # l + 1
    BY <1>2, <1>6, <1>8, <1>11
  <2> QED BY <1>9, <2>1
<1> QED BY <1>2, <1>6, <1>8, <1>9, <1>10, <1>11 DEF OpensTo, l, h

\* A container is opened.
LEMMA OpenPaths ==
    ASSUME IInv, PathInv, Now("place"), outcome' = outcome,
           NEW tasks, OpensTo(tasks, Head(work).path),
           NEW m \in Members, ~m.leaf, m.path = Head(work).path, out' = Append(out, m)
    PROVE  PathInv' /\ Opened' = Opened \cup {Len(out) + 1}
<1> DEFINE n == Len(out)
           l == Len(tasks)
           h == work[1].path
<1>1. outcome = "placing" /\ work # <<>> /\ Head(work).do = "place"
  BY DEF Now
<1>2. /\ n \in Nat /\ Slots = 1 .. n /\ DOMAIN work = 1 .. Len(work) /\ Len(work) \in Nat
      /\ \A q \in DOMAIN work : IsPlace(q) => work[q].path \in Seq(Nat)
      /\ \A q \in DOMAIN work : IsClose(q) => work[q].slot \in Slots /\ work[q].slot \in Opened
      /\ \A k \in Opened : k \in Slots /\ \E q \in DOMAIN work : IsClose(q) /\ work[q].slot = k
      /\ \A i \in Slots : out[i].path \in Seq(Nat)
  BY WorkTyped
<1>3. Head(work) = work[1] /\ 1 \in DOMAIN work
  <2>1. work \in Seq(PlaceTasks \cup CloseTasks)
    BY DEF IInv, TypeOK
  <2> QED BY <1>1, <2>1
<1>4. IsPlace(1) /\ ~IsClose(1) /\ m.path = h /\ h \in Seq(Nat)
  BY <1>1, <1>2, <1>3 DEF IsPlace, IsClose
<1>5. /\ Len(out') = n + 1 /\ Slots' = 1 .. n + 1 /\ out'[n + 1] = m
      /\ \A i \in Slots : out'[i] = out[i]
  BY OneMore
<1>6. /\ l \in Nat /\ Len(work') \in Nat /\ DOMAIN work' = 1 .. Len(work')
      /\ l + 1 \in DOMAIN work' /\ work'[l + 1] = Close(n + 1)
      /\ \A q \in DOMAIN work : q > 1 => q + l \in DOMAIN work' /\ work'[q + l] = work[q]
  BY DEF OpensTo
<1>7. ASSUME NEW q \in DOMAIN work', IsPlace(q)'
      PROVE  \/ q \in Nat /\ q <= l /\ work'[q].path = Append(h, q)
             \/ /\ q > l + 1 /\ q - l \in DOMAIN work /\ q - l > 1
                /\ IsPlace(q - l) /\ work'[q] = work[q - l]
  <2>1. \/ q <= l /\ work'[q].path = Append(h, q)
        \/ q = l + 1 /\ work'[q] = Close(n + 1)
        \/ q > l + 1 /\ q - l \in DOMAIN work /\ q - l > 1 /\ work'[q] = work[q - l]
    BY <1>3 DEF OpensTo
  <2>2. work'[q] # Close(n + 1)
    BY <1>7 DEF IsPlace, Close
  <2> QED BY <1>6, <1>7, <2>1, <2>2 DEF IsPlace
<1>8. ASSUME NEW p \in DOMAIN work', IsClose(p)'
      PROVE  \/ p = l + 1 /\ work'[p].slot = n + 1
             \/ /\ p > l + 1 /\ p - l \in DOMAIN work /\ p - l > 1
                /\ IsClose(p - l) /\ work'[p] = work[p - l]
  <2>1. \/ p <= l /\ work'[p].do = "place"
        \/ p = l + 1 /\ work'[p] = Close(n + 1)
        \/ p > l + 1 /\ p - l \in DOMAIN work /\ p - l > 1 /\ work'[p] = work[p - l]
    BY <1>3 DEF OpensTo
  <2> QED BY <1>6, <1>8, <2>1 DEF IsClose, Close
<1>9. \A q \in DOMAIN work : q > 1 \/ q = 1
  BY <1>2
<1> HIDE DEF l, n, h
<1>10. \A x \in Seq(Nat), i \in Nat, j \in Nat :
          /\ IsPrefix(h, h) /\ IsPrefix(h, Append(h, i)) /\ ~IsPrefix(Append(h, i), h)
          /\ IsPrefix(x, Append(h, i)) <=> IsPrefix(x, h) \/ x = Append(h, i)
          /\ IsPrefix(Append(h, i), x) => IsPrefix(h, x)
          /\ IsPrefix(Append(h, i), Append(h, j)) => i = j
  BY <1>4, PrefixOfChild
<1>11. Opened' = Opened \cup {n + 1}
  <2>1. ASSUME NEW k \in Opened PROVE k \in Opened'
    <3>1. PICK q \in DOMAIN work : IsClose(q) /\ work[q].slot = k
      BY <1>2
    <3>2. q > 1
      BY <1>4, <1>9, <3>1
    <3>3. q + l \in DOMAIN work' /\ work'[q + l] = work[q]
      BY <1>6, <3>2
    <3> QED BY <3>1, <3>3 DEF Opened, IsClose
  <2>2. n + 1 \in Opened'
    BY <1>6 DEF Opened, Close
  <2>3. ASSUME NEW k \in Opened' PROVE k \in Opened \/ k = n + 1
    <3>1. PICK q \in DOMAIN work' : work'[q].do = "close" /\ work'[q].slot = k
      BY DEF Opened
    <3>2. IsClose(q)'
      BY <3>1 DEF IsClose
    <3>3. CASE work'[q].slot = n + 1
      BY <3>1, <3>3
    <3>4. CASE q - l \in DOMAIN work /\ IsClose(q - l) /\ work'[q] = work[q - l]
      BY <1>2, <3>1, <3>4
    <3> QED BY <1>8, <3>2, <3>3, <3>4
  <2> QED BY <2>1, <2>2, <2>3
<1>12. NothingYet'
  BY <1>1 DEF NothingYet
<1>13. TasksApart'
  <2> SUFFICES ASSUME NEW p \in DOMAIN work', NEW q \in DOMAIN work', IsPlace(p)', IsPlace(q)',
                      p # q, IsPrefix(work'[p].path, work'[q].path)
               PROVE  FALSE
    BY DEF TasksApart
  <2>1. CASE p \in Nat /\ work'[p].path = Append(h, p) /\ q \in Nat /\ work'[q].path = Append(h, q)
    BY <1>4, <1>10, <2>1
  <2>2. CASE p \in Nat /\ work'[p].path = Append(h, p) /\ q - l \in DOMAIN work /\ q - l > 1
             /\ IsPlace(q - l) /\ work'[q] = work[q - l]
    <3>1. work[q - l].path \in Seq(Nat) /\ IsPrefix(Append(h, p), work[q - l].path)
      BY <1>2, <2>2
    <3>2. IsPrefix(h, work[q - l].path)
      BY <1>10, <2>2, <3>1
    <3>3. 1 # q - l
      BY <2>2, <1>2
    <3> QED BY <1>3, <1>4, <2>2, <3>2, <3>3 DEF PathInv, TasksApart, h
  <2>3. CASE q \in Nat /\ work'[q].path = Append(h, q) /\ p - l \in DOMAIN work /\ p - l > 1
             /\ IsPlace(p - l) /\ work'[p] = work[p - l]
    <3>1. work[p - l].path \in Seq(Nat) /\ IsPrefix(work[p - l].path, Append(h, q))
      BY <1>2, <2>3
    <3>2. IsPrefix(work[p - l].path, h) \/ work[p - l].path = Append(h, q)
      BY <1>10, <2>3, <3>1
    <3>3. IsPrefix(work[p - l].path, h) \/ IsPrefix(h, work[p - l].path)
      <4>1. IsPrefix(h, Append(h, q))
        BY <1>4, <1>10, <2>3
      <4> QED BY <3>2, <4>1
    <3>4. 1 # p - l
      BY <2>3, <1>2
    <3> QED BY <1>3, <1>4, <2>3, <3>3, <3>4 DEF PathInv, TasksApart, h
  <2>4. CASE p - l \in DOMAIN work /\ IsPlace(p - l) /\ work'[p] = work[p - l]
             /\ q - l \in DOMAIN work /\ IsPlace(q - l) /\ work'[q] = work[q - l]
    <3>1. p - l # q - l
      BY <1>6
    <3> QED BY <2>4, <3>1 DEF PathInv, TasksApart
  <2> QED BY <1>7, <2>1, <2>2, <2>3, <2>4
<1>14. TasksFresh'
  <2> SUFFICES ASSUME NEW q \in DOMAIN work', IsPlace(q)', NEW i \in Slots',
                      IsPrefix(work'[q].path, out'[i].path)
               PROVE  FALSE
    BY DEF TasksFresh
  <2>0. i \in Slots \/ i = n + 1
    BY <1>2, <1>5 DEF n
  <2>1. CASE q \in Nat /\ work'[q].path = Append(h, q) /\ i \in Slots
    <3>1. out'[i] = out[i] /\ out[i].path \in Seq(Nat)
      BY <1>2, <1>5, <2>1
    <3>2. IsPrefix(h, out[i].path)
      BY <1>10, <2>1, <3>1
    <3> QED BY <1>3, <1>4, <2>1, <3>2 DEF PathInv, TasksFresh, h
  <2>2. CASE q \in Nat /\ work'[q].path = Append(h, q) /\ i = n + 1
    BY <1>4, <1>5, <1>10, <2>2 DEF n
  <2>3. CASE q - l \in DOMAIN work /\ q - l > 1 /\ IsPlace(q - l) /\ work'[q] = work[q - l]
             /\ i \in Slots
    BY <1>5, <2>3 DEF PathInv, TasksFresh
  <2>4. CASE q - l \in DOMAIN work /\ q - l > 1 /\ IsPlace(q - l) /\ work'[q] = work[q - l]
             /\ i = n + 1
    <3>1. IsPrefix(work[q - l].path, h) /\ q - l # 1
      BY <1>2, <1>4, <1>5, <2>4 DEF n
    <3> QED BY <1>3, <1>4, <2>4, <3>1 DEF PathInv, TasksApart, h
  <2> QED BY <1>7, <2>0, <2>1, <2>2, <2>3, <2>4
<1>15. MembersFresh'
  <2> SUFFICES ASSUME NEW k \in Slots', NEW i \in 1 .. k - 1
               PROVE  ~IsPrefix(out'[k].path, out'[i].path)
    BY DEF MembersFresh
  <2>1. i \in Slots
    BY <1>2, <1>5 DEF n
  <2>2. CASE k \in Slots
    BY <1>5, <2>1, <2>2 DEF PathInv, MembersFresh
  <2>3. CASE k = n + 1
    <3>1. ~IsPrefix(h, out[i].path)
      BY <1>3, <1>4, <2>1 DEF PathInv, TasksFresh, h
    <3>2. out'[k] = m /\ out'[i] = out[i]
      BY <1>5, <2>1, <2>3 DEF n
    <3> QED BY <1>4, <3>1, <3>2
  <2>4. k \in Slots \/ k = n + 1
    <3>1. n \in Nat /\ Slots = 1 .. n /\ Slots' = 1 .. n + 1
      BY <1>2, <1>5 DEF n
    <3> QED BY <3>1
  <2> QED BY <2>2, <2>3, <2>4
<1>16. TasksInside'
  <2> SUFFICES ASSUME NEW p \in DOMAIN work', NEW q \in DOMAIN work', IsClose(p)', IsPlace(q)'
               PROVE  q < p <=> IsPrefix(out'[work'[p].slot].path, work'[q].path)
    BY DEF TasksInside
  <2>0. p \in Nat /\ q \in Nat
    BY <1>6
  <2>1. CASE p = l + 1 /\ work'[p].slot = n + 1 /\ q <= l /\ work'[q].path = Append(h, q)
    <3>1. IsPrefix(h, Append(h, q))
      BY <1>4, <1>10, <2>0
    <3>2. q < p
      BY <1>6, <2>0, <2>1
    <3> QED BY <1>4, <1>5, <2>1, <3>1, <3>2 DEF n
  <2>2. CASE p = l + 1 /\ work'[p].slot = n + 1 /\ q > l + 1 /\ q - l \in DOMAIN work
             /\ q - l > 1 /\ IsPlace(q - l) /\ work'[q] = work[q - l]
    <3>1. ~(q < p) /\ q - l # 1
      BY <1>6, <2>0, <2>2
    <3>2. ~IsPrefix(h, work[q - l].path)
      BY <1>3, <1>4, <2>2, <3>1 DEF PathInv, TasksApart, h
    <3> QED BY <1>4, <1>5, <2>2, <3>1, <3>2 DEF n
  <2>3. CASE p > l + 1 /\ p - l \in DOMAIN work /\ p - l > 1 /\ IsClose(p - l)
             /\ work'[p] = work[p - l] /\ q <= l /\ work'[q].path = Append(h, q)
    <3>1. q < p /\ 1 < p - l
      BY <1>6, <2>0, <2>3
    <3>2. work[p - l].slot \in Slots /\ out[work[p - l].slot].path \in Seq(Nat)
      BY <1>2, <2>3
    <3>3. IsPrefix(out[work[p - l].slot].path, h)
      BY <1>3, <1>4, <2>3, <3>1 DEF PathInv, TasksInside, h
    <3>4. IsPrefix(out[work[p - l].slot].path, Append(h, q))
      BY <1>10, <2>0, <3>2, <3>3
    <3> QED BY <1>5, <2>3, <3>1, <3>2, <3>4
  <2>4. CASE p - l \in DOMAIN work /\ IsClose(p - l) /\ work'[p] = work[p - l]
             /\ q - l \in DOMAIN work /\ IsPlace(q - l) /\ work'[q] = work[q - l]
    <3>1. q < p <=> q - l < p - l
      BY <1>6, <2>0
    <3>2. q - l < p - l <=> IsPrefix(out[work[p - l].slot].path, work[q - l].path)
      BY <2>4 DEF PathInv, TasksInside
    <3>3. work[p - l].slot \in Slots
      BY <1>2, <2>4
    <3> QED BY <1>5, <2>4, <3>1, <3>2, <3>3
  <2> QED BY <1>7, <1>8, <2>1, <2>2, <2>3, <2>4
<1>17. TasksOutside'
  <2> SUFFICES ASSUME NEW k \in Slots' \ Opened', ~out'[k].leaf, NEW q \in DOMAIN work', IsPlace(q)',
                      IsPrefix(out'[k].path, work'[q].path)
               PROVE  FALSE
    BY DEF TasksOutside
  <2>1. k \in Slots \ Opened /\ out'[k] = out[k] /\ out[k].path \in Seq(Nat)
    BY <1>2, <1>5, <1>11 DEF n
  <2>2. CASE q \in Nat /\ work'[q].path = Append(h, q)
    <3>1. ~IsPrefix(out[k].path, h)
      BY <1>3, <1>4, <2>1 DEF PathInv, TasksOutside, h
    <3>2. out[k].path = Append(h, q)
      BY <1>10, <2>1, <2>2, <3>1
    <3>3. IsPrefix(h, out[k].path)
      BY <1>4, <1>10, <2>2, <3>2
    <3> QED BY <1>3, <1>4, <2>1, <3>3 DEF PathInv, TasksFresh, h
  <2>3. CASE q - l \in DOMAIN work /\ IsPlace(q - l) /\ work'[q] = work[q - l]
    BY <2>1, <2>3 DEF PathInv, TasksOutside
  <2> QED BY <1>7, <2>2, <2>3
<1>18. MembersInside'
  <2> SUFFICES ASSUME NEW k \in Opened', NEW j \in k + 1 .. n + 1
               PROVE  IsPrefix(out'[k].path, out'[j].path)
    BY <1>5 DEF MembersInside, n
  <2>1. k \in Opened /\ k \in Slots /\ out'[k] = out[k]
    <3>1. n \in Nat
      BY <1>2 DEF n
    <3>2. k # n + 1
      BY <3>1
    <3> QED BY <1>2, <1>5, <1>11, <3>2
  <2>2. CASE j \in k + 1 .. n
    <3>1. j \in Slots
      BY <1>2, <2>1, <2>2 DEF n
    <3> QED BY <1>5, <2>1, <2>2, <3>1 DEF PathInv, MembersInside, n
  <2>3. CASE j = n + 1
    <3>1. PICK p \in DOMAIN work : IsClose(p) /\ work[p].slot = k
      BY <1>2, <2>1
    <3>2. 1 < p
      BY <1>2, <1>4, <3>1
    <3>3. IsPrefix(out[work[p].slot].path, work[1].path)
      BY <1>3, <1>4, <3>1, <3>2 DEF PathInv, TasksInside
    <3> QED BY <1>4, <1>5, <2>1, <2>3, <3>1, <3>3 DEF n, h
  <2> QED BY <1>2, <2>1, <2>2, <2>3 DEF n
<1> QED BY <1>11, <1>12, <1>13, <1>14, <1>15, <1>16, <1>17, <1>18 DEF PathInv, n

\* Paths are not touched by a step that neither places nor closes.
LEMMA StillPaths ==
    ASSUME PathInv, UNCHANGED <<work, out>>, NothingYet' PROVE PathInv'
<1>1. Slots' = Slots /\ Opened' = Opened
  BY DEF Slots, Opened
<1>2. TasksApart' /\ TasksFresh' /\ MembersFresh'
  BY <1>1 DEF PathInv, TasksApart, TasksFresh, MembersFresh, IsPlace
<1>3. TasksInside' /\ TasksOutside' /\ MembersInside'
  BY <1>1 DEF PathInv, TasksInside, TasksOutside, MembersInside, IsPlace, IsClose
<1> QED BY <1>2, <1>3 DEF PathInv

\* The fields of the block: each is a position at the top.
LEMMA FieldsPaths ==
    ASSUME out = <<>>, NEW f \in Seq(Types), work' = Children(f, <<>>), out' = out,
           outcome' = "placing"
    PROVE  PathInv' /\ Slots' = {} /\ Opened' = {}
<1>1. /\ DOMAIN work' = 1 .. Len(f) /\ Len(f) \in Nat
      /\ \A q \in DOMAIN work' : work'[q].do = "place" /\ work'[q].path = Append(<<>>, q)
  BY DEF Children, Place
<1>2. Slots' = {}
  BY DEF Slots
<1>3. \A q \in DOMAIN work' : ~IsClose(q)'
  BY <1>1 DEF IsClose
<1>4. Opened' = {}
  BY <1>3 DEF Opened, IsClose
<1>5. TasksApart'
  <2> SUFFICES ASSUME NEW p \in DOMAIN work', NEW q \in DOMAIN work', p # q
               PROVE  ~IsPrefix(work'[p].path, work'[q].path)
    BY DEF TasksApart
  <2>1. p \in Nat /\ q \in Nat /\ <<>> \in Seq(Nat)
    BY <1>1
  <2>2. ~IsPrefix(Append(<<>>, p), Append(<<>>, q))
    BY <2>1, PrefixOfChild
  <2> QED BY <1>1, <2>2
<1> QED BY <1>2, <1>3, <1>4, <1>5 DEF PathInv, NothingYet, TasksFresh, MembersFresh, TasksInside,
           TasksOutside, MembersInside

-----------------------------------------------------------------------------
(* The addresses, step by step.                                            *)

\* Everything emitted starts, and every scalar ends, at or before the cursor.
LEMMA CursorAtEnd ==
    ASSUME IInv
    PROVE  /\ Cursor \in Nat
           /\ \A i \in Slots : /\ Addr(out[i]) \in Nat /\ End(out[i]) \in Nat
                               /\ Addr(out[i]) <= Cursor /\ Addr(out[i]) <= End(out[i])
                               /\ out[i].leaf => End(out[i]) <= Cursor
<1>1. byte \in Nat /\ bit \in 0 .. 7 /\ \A i \in Slots : out[i] \in Members
  BY WorkTyped DEF IInv, TypeOK
<1>2. ASSUME NEW i \in Slots
      PROVE  /\ Addr(out[i]) \in Nat /\ End(out[i]) \in Nat
             /\ Addr(out[i]) <= Cursor /\ Addr(out[i]) <= End(out[i])
             /\ out[i].leaf => End(out[i]) <= Cursor
  <2>1. /\ Addr(out[i]) \in Nat /\ End(out[i]) \in Nat /\ Addr(out[i]) <= End(out[i])
        /\ out[i].byte \in Nat /\ out[i].bit \in 0 .. 7
    BY <1>1, AddrType
  <2>2. out[i].leaf => End(out[i]) <= Cursor
    BY DEF IInv, CursorIsBehind
  <2>3. ~out[i].leaf => out[i].bit = 0 /\ out[i].byte <= byte
    BY DEF IInv, CursorIsBehind, EvenStarts
  <2>4. ~out[i].leaf => Addr(out[i]) <= Cursor
    BY <1>1, <2>1, <2>3 DEF Addr, Cursor
  <2>5. Cursor \in Nat
    BY <1>1 DEF Cursor
  <2> QED BY <2>1, <2>2, <2>4, <2>5
<1>3. Cursor \in Nat
  BY <1>1 DEF Cursor
<1> QED BY <1>2, <1>3

\* A member is emitted at the cursor or behind it; it is a scalar and was not
\* left to place in a closed container, or it is a container and stays open.
LEMMA EmitHold ==
    ASSUME IInv, PathInv, HoldInv, NEW m \in Members, out' = Append(out, m),
           Cursor <= Addr(m), Addr(m) <= Cursor', Cursor' \in Nat,
           \/ /\ m.leaf /\ Opened' = Opened
              /\ \A k \in Slots \ Opened : ~out[k].leaf => ~IsPrefix(out[k].path, m.path)
           \/ ~m.leaf /\ Opened' = Opened \cup {Len(out) + 1}
    PROVE  HoldInv'
<1> DEFINE n == Len(out)
<1>1. /\ n \in Nat /\ Slots = 1 .. n /\ Len(out') = n + 1 /\ Slots' = 1 .. n + 1
      /\ out'[n + 1] = m /\ \A i \in Slots : out'[i] = out[i]
  BY WorkTyped, OneMore
<1>2. /\ Cursor \in Nat /\ Addr(m) \in Nat
      /\ \A i \in Slots : /\ Addr(out[i]) \in Nat /\ End(out[i]) \in Nat
                          /\ Addr(out[i]) <= Cursor /\ Addr(out[i]) <= End(out[i])
                          /\ out[i].leaf => End(out[i]) <= Cursor
  BY CursorAtEnd, AddrType
<1> HIDE DEF n
<1>3. AddressesRise'
  <2> SUFFICES ASSUME NEW i \in Slots', NEW j \in i + 1 .. n + 1
               PROVE  /\ Addr(out'[i]) <= Addr(out'[j])
                      /\ out'[i].leaf => End(out'[i]) <= Addr(out'[j])
    BY <1>1 DEF AddressesRise, Addr, End
  <2>1. i \in Slots /\ out'[i] = out[i] /\ (j \in i + 1 .. n \/ j = n + 1)
    BY <1>1
  <2>2. CASE j \in i + 1 .. n
    <3>1. j \in Slots /\ out'[j] = out[j]
      BY <1>1, <2>1, <2>2
    <3> QED BY <2>1, <2>2, <3>1 DEF HoldInv, AddressesRise, n
  <2>3. CASE j = n + 1
    <3>1. Addr(out[i]) <= Addr(m) /\ (out[i].leaf => End(out[i]) <= Addr(m))
      BY <1>2, <2>1
    <3> QED BY <1>1, <2>1, <2>3, <3>1
  <2> QED BY <2>1, <2>2, <2>3
<1>4. ClosedHold'
  <2> SUFFICES ASSUME NEW k \in Slots' \ Opened', ~out'[k].leaf
               PROVE  /\ out'[k].bits % 16 = 0 /\ End(out'[k]) <= Cursor'
                      /\ \A j \in k + 1 .. n + 1 : out'[j].leaf =>
                           IF IsPrefix(out'[k].path, out'[j].path)
                           THEN End(out'[j]) <= End(out'[k])
                           ELSE End(out'[k]) <= Addr(out'[j])
    BY <1>1 DEF ClosedHold, Addr, End
  <2>1. k \in Slots \ Opened /\ out'[k] = out[k] /\ ~out[k].leaf
    BY <1>1, WorkTyped DEF n
  <2>2. /\ out[k].bits % 16 = 0 /\ End(out[k]) <= Cursor
        /\ \A j \in k + 1 .. n : out[j].leaf =>
             IF IsPrefix(out[k].path, out[j].path)
             THEN End(out[j]) <= End(out[k])
             ELSE End(out[k]) <= Addr(out[j])
    BY <2>1 DEF HoldInv, ClosedHold, n
  <2>3. End(out[k]) <= Addr(m) /\ End(out[k]) <= Cursor'
    BY <1>2, <2>1, <2>2
  <2>4. ASSUME NEW j \in k + 1 .. n + 1, out'[j].leaf
        PROVE  IF IsPrefix(out'[k].path, out'[j].path)
               THEN End(out'[j]) <= End(out'[k])
               ELSE End(out'[k]) <= Addr(out'[j])
    <3>1. j \in k + 1 .. n \/ j = n + 1
      BY <1>1, <2>1
    <3>2. CASE j \in k + 1 .. n
      <4>1. j \in Slots /\ out'[j] = out[j]
        BY <1>1, <2>1, <3>2
      <4> QED BY <2>1, <2>2, <2>4, <3>2, <4>1
    <3>3. CASE j = n + 1
      <4>1. out'[j] = m /\ ~IsPrefix(out[k].path, m.path)
        BY <1>1, <2>1, <2>4, <3>3
      <4> QED BY <2>1, <2>3, <4>1
    <3> QED BY <3>1, <3>2, <3>3
  <2> QED BY <2>1, <2>2, <2>3, <2>4
<1> QED BY <1>3, <1>4 DEF HoldInv

\* A container is closed: it ends on a word behind all that it holds.
LEMMA CloseHold ==
    ASSUME IInv, PathInv, HoldInv, NEW s \in Opened, ~out[s].leaf,
           byte' = Even, bit' = 0, Len(out') = Len(out),
           \A i \in Slots : /\ out'[i].path = out[i].path /\ out'[i].leaf = out[i].leaf
                            /\ out'[i].byte = out[i].byte /\ out'[i].bit = out[i].bit
                            /\ i # s => out'[i] = out[i],
           out'[s].bits = Extent(s),
           Opened \subseteq Opened' \cup {s}
    PROVE  HoldInv'
<1> DEFINE n == Len(out)
<1>1. /\ n \in Nat /\ Slots = 1 .. n /\ Slots' = Slots /\ s \in Slots
      /\ \A i \in Slots : out[i] \in Members
  BY WorkTyped DEF Slots
<1>2. /\ Cursor \in Nat
      /\ \A i \in Slots : /\ Addr(out[i]) \in Nat /\ End(out[i]) \in Nat
                          /\ Addr(out[i]) <= Cursor /\ Addr(out[i]) <= End(out[i])
                          /\ out[i].leaf => End(out[i]) <= Cursor
  BY CursorAtEnd
<1>3. byte \in Nat /\ bit \in 0 .. 7
  BY DEF IInv, TypeOK
<1>4. /\ Closed \in Nat /\ Cursor <= 8 * Closed
      /\ Even \in Nat /\ Even % 2 = 0 /\ Closed <= Even /\ byte <= Closed
  BY <1>3, CursorMoves
<1>5. Cursor' = 8 * Even /\ Cursor <= 8 * Even
  BY <1>2, <1>4 DEF Cursor
<1>6. \A i \in Slots : /\ Addr(out'[i]) = Addr(out[i]) /\ (i # s => End(out'[i]) = End(out[i]))
                       /\ out[i].leaf => i # s
  BY DEF Addr, End
<1>7. out[s].byte \in Nat /\ out[s].byte % 2 = 0 /\ out[s].bit = 0 /\ out[s].byte <= byte
  BY <1>1 DEF IInv, EvenStarts, CursorIsBehind, Members
<1>8. End(out'[s]) = 8 * Even /\ Extent(s) % 16 = 0
  <2>1. Addr(out'[s]) = 8 * out[s].byte
    BY <1>1, <1>6, <1>7 DEF Addr
  <2>2. Extent(s) = 8 * (Even - out[s].byte)
    BY DEF Extent
  <2>3. End(out'[s]) = 8 * Even
    <3> DEFINE b == out[s].byte  e == Even
    <3>1. End(out'[s]) = Addr(out'[s]) + Extent(s)
      BY DEF End
    <3>2. b \in Nat /\ e \in Nat /\ Addr(out'[s]) = 8 * b /\ Extent(s) = 8 * (e - b)
      BY <1>4, <1>7, <2>1, <2>2
    <3> HIDE DEF b, e
    <3>3. 8 * b + 8 * (e - b) = 8 * e
      BY <3>2
    <3> QED BY <3>1, <3>2, <3>3 DEF e
  <2>4. Extent(s) % 16 = 0
    <3> DEFINE b == out[s].byte  e == Even
    <3>1. b \in Nat /\ e \in Nat /\ b % 2 = 0 /\ e % 2 = 0 /\ Extent(s) = 8 * (e - b)
      BY <1>4, <1>7, <2>2
    <3> HIDE DEF b, e
    <3> QED BY <3>1
  <2> QED BY <2>3, <2>4
<1> HIDE DEF n
<1>9. AddressesRise'
  <2> SUFFICES ASSUME NEW i \in Slots, NEW j \in i + 1 .. n
               PROVE  /\ Addr(out'[i]) <= Addr(out'[j])
                      /\ out'[i].leaf => End(out'[i]) <= Addr(out'[j])
    BY <1>1 DEF AddressesRise, Addr, End, n
  <2>1. j \in Slots
    BY <1>1
  <2>2. Addr(out[i]) <= Addr(out[j]) /\ (out[i].leaf => End(out[i]) <= Addr(out[j]))
    BY DEF HoldInv, AddressesRise, n
  <2> QED BY <1>6, <2>1, <2>2
<1>10. ClosedHold'
  <2> SUFFICES ASSUME NEW k \in Slots \ Opened', ~out[k].leaf
               PROVE  /\ out'[k].bits % 16 = 0 /\ End(out'[k]) <= Cursor'
                      /\ \A j \in k + 1 .. n : out[j].leaf =>
                           IF IsPrefix(out[k].path, out[j].path)
                           THEN End(out'[j]) <= End(out'[k])
                           ELSE End(out'[k]) <= Addr(out'[j])
    <3>1. \A k \in Slots : \A j \in k + 1 .. n : j \in Slots
      BY <1>1
    <3> QED BY <1>1, <3>1 DEF ClosedHold, Addr, End, n
  <2>0. \A j \in k + 1 .. n : j \in Slots
    BY <1>1
  <2>1. CASE k = s
    <3>1. ASSUME NEW j \in k + 1 .. n, out[j].leaf
          PROVE  IsPrefix(out[k].path, out[j].path) /\ End(out'[j]) <= End(out'[k])
      <4>1. IsPrefix(out[k].path, out[j].path)
        BY <2>1 DEF PathInv, MembersInside, n
      <4>2. End(out'[j]) = End(out[j]) /\ End(out[j]) <= Cursor /\ End(out[j]) \in Nat
        BY <1>2, <1>6, <2>0, <3>1
      <4>3. End(out[j]) <= 8 * Even
        BY <1>2, <1>4, <1>5, <4>2
      <4> QED BY <1>8, <2>1, <4>1, <4>2, <4>3
    <3>2. out'[k].bits % 16 = 0 /\ End(out'[k]) <= Cursor'
      BY <1>4, <1>5, <1>8, <2>1
    <3> QED BY <3>1, <3>2
  <2>2. CASE k # s
    <3>1. k \notin Opened /\ out'[k] = out[k]
      BY <2>2
    <3>2. /\ out[k].bits % 16 = 0 /\ End(out[k]) <= Cursor
          /\ \A j \in k + 1 .. n : out[j].leaf =>
               IF IsPrefix(out[k].path, out[j].path)
               THEN End(out[j]) <= End(out[k])
               ELSE End(out[k]) <= Addr(out[j])
      BY <3>1 DEF HoldInv, ClosedHold, n
    <3>3. End(out'[k]) = End(out[k]) /\ End(out[k]) <= Cursor' /\ out'[k].bits % 16 = 0
      <4>1. End(out[k]) \in Nat /\ End(out[k]) <= 8 * Even
        BY <1>2, <1>4, <1>5, <3>2
      <4> QED BY <1>5, <3>1, <3>2, <4>1
    <3>4. \A j \in k + 1 .. n : out[j].leaf => /\ End(out'[j]) = End(out[j])
                                               /\ Addr(out'[j]) = Addr(out[j])
      BY <1>6, <2>0
    <3> QED BY <3>2, <3>3, <3>4
  <2> QED BY <2>1, <2>2
<1> QED BY <1>9, <1>10 DEF HoldInv

\* A step that only moves the cursor forward.
LEMMA StillHold ==
    ASSUME IInv, HoldInv, UNCHANGED <<work, out>>, Cursor <= Cursor', Cursor' \in Nat
    PROVE  HoldInv'
<1>1. Slots' = Slots /\ Opened' = Opened
  BY DEF Slots, Opened
<1>2. AddressesRise'
  BY <1>1 DEF HoldInv, AddressesRise, Addr, End
<1>3. ASSUME NEW k \in Slots, End(out[k]) <= Cursor PROVE End(out[k]) <= Cursor'
  <2>1. Cursor \in Nat /\ End(out[k]) \in Nat
    BY CursorAtEnd
  <2> QED BY <1>3, <2>1
<1>4. ClosedHold'
  BY <1>1, <1>3 DEF HoldInv, ClosedHold, Addr, End
<1> QED BY <1>2, <1>4 DEF HoldInv

-----------------------------------------------------------------------------
(* Every step.                                                             *)

\* The nodes of a container are one position below it, those of an array too.
LEMMA ChildPaths ==
    \A f \in Seq(Types), p \in Seq(Nat) :
        \A i \in 1 .. Len(Children(f, p)) : Children(f, p)[i].path = Append(p, i)
<1> SUFFICES ASSUME NEW f \in Seq(Types), NEW p \in Seq(Nat), NEW i \in 1 .. Len(Children(f, p))
             PROVE  Children(f, p)[i].path = Append(p, i)
  OBVIOUS
<1>1. i \in DOMAIN f
  BY DEF Children
<1>2. Children(f, p)[i] = Place(f[i], Append(p, i))
  BY <1>1 DEF Children
<1> QED BY <1>2 DEF Place

LEMMA ElementPaths ==
    \A t \in Types, p \in Seq(Nat) : t.kind = "array" =>
        \A i \in 1 .. Len(Elements(t, p)) : Elements(t, p)[i].path = Append(p, i)
<1> SUFFICES ASSUME NEW t \in Types, NEW p \in Seq(Nat), t.kind = "array",
                    NEW i \in 1 .. Len(Elements(t, p))
             PROVE  Elements(t, p)[i].path = Append(p, i)
  OBVIOUS
<1>1. t.count \in Nat
  BY TypesAssumption
<1>2. i \in 1 .. t.count
  BY <1>1 DEF Elements
<1>3. Elements(t, p)[i] = Place(t.elem, Append(p, i))
  BY <1>2 DEF Elements
<1> QED BY <1>3 DEF Place

\* Opening a container keeps what holds of the paths and of the addresses.
LEMMA OpenNest ==
    ASSUME IInv, PathInv, HoldInv, Now("place"), NEW tasks \in Seq(PlaceTasks), Open(tasks),
           \A i \in 1 .. Len(tasks) : tasks[i].path = Append(Head(work).path, i)
    PROVE  PathInv' /\ HoldInv'
<1> DEFINE m == Member(Head(work), Even, 0, 0, FALSE)
<1>1. byte \in Nat /\ bit \in 0 .. 7 /\ Even \in Nat /\ Cursor <= 8 * Closed /\ Closed <= Even
      /\ Closed \in Nat
  <2>1. byte \in Nat /\ bit \in 0 .. 7
    BY DEF IInv, TypeOK
  <2> QED BY <2>1, CursorMoves
<1>2. m \in Members /\ ~m.leaf /\ m.path = Head(work).path /\ m.byte = Even /\ m.bit = 0
  <2>1. Head(work).path \in Seq(Nat) /\ Head(work).type \in Types
    BY NodeIsTyped DEF Node
  <2> QED BY <2>1, <1>1 DEF Member, Members
<1>3. out' = Append(out, m) /\ byte' = Even /\ bit' = 0 /\ outcome' = outcome
  BY DEF Open, Emit
<1> HIDE DEF m
<1>4. OpensTo(tasks, Head(work).path)
  BY ChildrenBelow
<1>5. PathInv' /\ Opened' = Opened \cup {Len(out) + 1}
  BY <1>2, <1>3, <1>4, OpenPaths
<1>6. Addr(m) = 8 * Even /\ Cursor' = 8 * Even
  BY <1>1, <1>2, <1>3 DEF Addr, Cursor
<1>7. Cursor <= Addr(m) /\ Addr(m) <= Cursor' /\ Cursor' \in Nat
  <2>1. Cursor \in Nat
    BY <1>1 DEF Cursor
  <2> QED BY <1>1, <1>6, <2>1
<1>8. HoldInv'
  BY <1>2, <1>3, <1>5, <1>7, EmitHold
<1> QED BY <1>5, <1>8

\* Placing a scalar at or behind the cursor keeps it too.
LEMMA LeafNest ==
    ASSUME IInv, PathInv, HoldInv, Now("place"), work' = Tail(work), outcome' = outcome,
           NEW m \in Members, m.leaf, m.path = Head(work).path, out' = Append(out, m),
           Cursor <= Addr(m), Cursor' = End(m)
    PROVE  PathInv' /\ HoldInv'
<1>1. PathInv' /\ Opened' = Opened
  BY LeafPaths
<1>2. Head(work) = work[1] /\ 1 \in DOMAIN work /\ IsPlace(1)
  <2>1. work \in Seq(PlaceTasks \cup CloseTasks) /\ work # <<>> /\ Head(work).do = "place"
    BY DEF IInv, TypeOK, Now
  <2> QED BY <2>1 DEF IsPlace
<1>3. \A k \in Slots \ Opened : ~out[k].leaf => ~IsPrefix(out[k].path, m.path)
  BY <1>2 DEF PathInv, TasksOutside
<1>4. Addr(m) <= Cursor' /\ Cursor' \in Nat
  BY AddrType
<1>5. HoldInv'
  BY <1>1, <1>3, <1>4, EmitHold
<1> QED BY <1>1, <1>5

\* Every step keeps what holds of the paths and of the addresses.
LEMMA StepNest == IInv /\ PathInv /\ HoldInv /\ [Next]_vars => PathInv' /\ HoldInv'
<1> SUFFICES ASSUME IInv, PathInv, HoldInv, [Next]_vars PROVE PathInv' /\ HoldInv'
  OBVIOUS
<1>0. /\ byte \in Nat /\ bit \in 0 .. 7 /\ out \in Seq(Members) /\ block \in Blocks
      /\ work \in Seq(PlaceTasks \cup CloseTasks)
  BY DEF IInv, TypeOK
<1>c. /\ Closed \in Nat /\ Cursor <= 8 * Closed
      /\ Even \in Nat /\ Even % 2 = 0 /\ Closed <= Even /\ byte <= Closed
  BY <1>0, CursorMoves
<1>n. Cursor \in Nat
  BY <1>0 DEF Cursor
<1>1. ASSUME UNCHANGED <<byte, bit, work, out>>, NothingYet' PROVE PathInv' /\ HoldInv'
  <2>1. Cursor' = Cursor
    BY <1>1 DEF Cursor
  <2>2. HoldInv'
    BY <1>n, <1>1, <2>1, StillHold
  <2> QED BY <1>1, <2>2, StillPaths
<1>2. CASE Compute
  <2>1. ASSUME NEW o \in {"OptimizedBlockError", "UnknownTypeError"}, Stop(o)
        PROVE  PathInv' /\ HoldInv'
    <3>1. UNCHANGED <<byte, bit, work, out>> /\ NothingYet'
      BY <2>1 DEF Stop, NothingYet
    <3> QED BY <1>1, <3>1
  <2>2. CASE \/ block.optimized /\ ~block.force /\ Stop("OptimizedBlockError")
             \/ block.typed /\ block.base \notin DOMAIN Registry /\ Stop("UnknownTypeError")
    BY <2>1, <2>2
  <2>3. CASE /\ block.typed => block.base \in DOMAIN Registry
             /\ work' = Children(IF block.typed THEN Registry[block.base] ELSE block.fields, <<>>)
             /\ outcome' = "placing" /\ UNCHANGED <<block, byte, bit, out>>
    <3> DEFINE f == IF block.typed THEN Registry[block.base] ELSE block.fields
    <3>1. f \in Seq(Types)
      BY <1>0, <2>3, BlocksAssumption, RegistryAssumption
    <3>2. out = <<>>
      BY <1>2 DEF Compute, PathInv, NothingYet
    <3>3. work' = Children(f, <<>>) /\ out' = out /\ outcome' = "placing"
      BY <2>3
    <3> HIDE DEF f
    <3>4. PathInv' /\ Slots' = {} /\ Opened' = {}
      BY <3>1, <3>2, <3>3, FieldsPaths
    <3>5. HoldInv'
      BY <3>4 DEF HoldInv, AddressesRise, ClosedHold
    <3> QED BY <3>4, <3>5
  <2> QED BY <1>2, <2>2, <2>3 DEF Compute
<1>3. CASE PlaceBool
  <2> DEFINE m == Member(Head(work), byte, bit, 1, TRUE)
  <2>1. /\ Now("place") /\ out' = Append(out, m) /\ byte' = AfterBit.byte /\ bit' = AfterBit.bit
        /\ work' = Tail(work) /\ outcome' = outcome
    BY <1>3 DEF PlaceBool, Emit
  <2>2. /\ m \in Members /\ m.leaf /\ m.path = Head(work).path
        /\ m.byte = byte /\ m.bit = bit /\ m.bits = 1
    <3>1. Head(work).path \in Seq(Nat) /\ Head(work).type \in Types
      BY <2>1, NodeIsTyped DEF Node
    <3> QED BY <3>1, <1>0 DEF Member, Members
  <2> HIDE DEF m
  <2>3. Addr(m) = Cursor /\ End(m) = Cursor + 1
    BY <1>0, <2>2 DEF Cursor, Addr, End
  <2>4. 8 * byte' + bit' = 8 * byte + bit + 1
    BY <1>0, <2>1 DEF AfterBit
  <2>5. Cursor' = End(m) /\ Cursor <= Addr(m)
    BY <1>n, <2>3, <2>4 DEF Cursor
  <2> QED BY <2>1, <2>2, <2>5, LeafNest
<1>4. CASE PlaceScalar
  <2> DEFINE m == Member(Head(work), ScalarStart(Node), 0, 8 * Bytes(Node), TRUE)
             a == ScalarStart(Node)
             b == Bytes(Node)
  <2>1. /\ Now("place") /\ IsScalar(Node) /\ ~IsBool(Node) /\ out' = Append(out, m)
        /\ byte' = a + b /\ bit' = 0 /\ work' = Tail(work) /\ outcome' = outcome
    BY <1>4 DEF PlaceScalar, Emit
  <2>2. /\ Head(work).path \in Seq(Nat) /\ Head(work).type \in Types /\ Node = Head(work).type
        /\ b \in Nat \ {0}
    BY <2>1, NodeIsTyped, BytesType DEF Node
  <2>3. a \in Nat /\ Cursor <= 8 * a
    BY <1>c, <1>n DEF ScalarStart
  <2>4. /\ m \in Members /\ m.leaf /\ m.path = Head(work).path
        /\ m.byte = a /\ m.bit = 0 /\ m.bits = 8 * b
    BY <2>2, <2>3 DEF Member, Members
  <2> HIDE DEF m, a, b
  <2>5. Addr(m) = 8 * a /\ End(m) = 8 * a + 8 * b
    BY <2>2, <2>3, <2>4 DEF Addr, End
  <2>6. Cursor' = 8 * a + 8 * b
    BY <2>1, <2>2, <2>3 DEF Cursor
  <2>7. Cursor <= Addr(m) /\ Cursor' = End(m)
    BY <2>3, <2>5, <2>6
  <2> QED BY <2>1, <2>4, <2>7, LeafNest
<1>5. CASE PlaceStruct
  <2>1. Now("place") /\ Node.kind = "struct" /\ Open(Children(Node.fields, Head(work).path))
    BY <1>5 DEF PlaceStruct
  <2>2. Node \in Types /\ Head(work).path \in Seq(Nat)
    BY <2>1, NodeIsTyped
  <2>3. Node.fields \in Seq(Types)
    BY <2>1, <2>2, TypesAssumption
  <2> QED BY <2>1, <2>2, <2>3, TasksArePlaced, ChildPaths, OpenNest
<1>6. CASE PlaceArray
  <2>1. Now("place") /\ Node.kind = "array" /\ Open(Elements(Node, Head(work).path))
    BY <1>6 DEF PlaceArray
  <2>2. Node \in Types /\ Head(work).path \in Seq(Nat)
    BY <2>1, NodeIsTyped
  <2> QED BY <2>1, <2>2, TasksArePlaced, ElementPaths, OpenNest
<1>7. CASE PlaceUdt
  <2>1. CASE Now("place") /\ Stop("UnknownTypeError")
    <3>1. UNCHANGED <<byte, bit, work, out>> /\ NothingYet'
      BY <2>1 DEF Stop, NothingYet
    <3> QED BY <1>1, <3>1
  <2>2. CASE /\ Now("place") /\ Node.name \in DOMAIN Registry
             /\ Open(Children(Registry[Node.name], Head(work).path))
    <3>1. Registry[Node.name] \in Seq(Types) /\ Head(work).path \in Seq(Nat)
      BY <2>2, NodeIsTyped, RegistryAssumption
    <3> QED BY <2>2, <3>1, TasksArePlaced, ChildPaths, OpenNest
  <2> QED BY <1>7, <2>1, <2>2 DEF PlaceUdt
<1>8. CASE CloseContainer
  <2> DEFINE s == Head(work).slot
  <2>1. /\ Now("close") /\ byte' = Even /\ bit' = 0 /\ work' = Tail(work)
        /\ out' = [out EXCEPT ![s].bits = Extent(s)] /\ outcome' = outcome
    BY <1>8 DEF CloseContainer
  <2>2. Head(work) = work[1] /\ 1 \in DOMAIN work /\ work[1].do = "close"
    BY <1>0, <2>1 DEF Now
  <2>3. s \in Slots /\ s \in Opened /\ ~out[s].leaf
    BY <2>2, WorkTyped DEF IsClose, IInv, ClosesContainers
  <2>4. Slots = DOMAIN out /\ Len(out) \in Nat /\ \A i \in Slots : out[i] \in Members
    BY <1>0 DEF Slots
  <2> HIDE DEF s
  <2>5. out' = [out EXCEPT ![s] = [out[s] EXCEPT !.bits = Extent(s)]]
    BY <2>1
  <2>6. /\ Len(out') = Len(out)
        /\ \A i \in Slots : out'[i] = IF i = s THEN [out[s] EXCEPT !.bits = Extent(s)] ELSE out[i]
    BY <1>0, <2>3, <2>4, <2>5
  <2>7. /\ \A i \in Slots : /\ out'[i].path = out[i].path /\ out'[i].leaf = out[i].leaf
                            /\ out'[i].byte = out[i].byte /\ out'[i].bit = out[i].bit
                            /\ i # s => out'[i] = out[i]
        /\ out'[s].bits = Extent(s)
    BY <2>3, <2>4, <2>6 DEF Members
  <2>8. PathInv' /\ Opened \subseteq Opened' \cup {s}
    BY <2>1, <2>6, <2>7, ClosePaths DEF s
  <2>9. HoldInv'
    BY <2>1, <2>3, <2>6, <2>7, <2>8, CloseHold
  <2> QED BY <2>8, <2>9
<1>9. CASE Return
  <2>1. byte' = Even /\ bit' = 0 /\ outcome' = "done" /\ UNCHANGED <<work, out>>
    BY <1>9 DEF Return
  <2>2. Cursor' = 8 * Even
    BY <1>c, <2>1 DEF Cursor
  <2>3. Cursor <= Cursor' /\ Cursor' \in Nat
    BY <1>c, <1>n, <2>2
  <2>4. HoldInv'
    BY <2>1, <2>3, StillHold
  <2>5. NothingYet'
    BY <2>1 DEF NothingYet
  <2> QED BY <2>1, <2>4, <2>5, StillPaths
<1>10. CASE UNCHANGED vars
  <2>1. UNCHANGED <<byte, bit, work, out>> /\ NothingYet'
    BY <1>10 DEF vars, PathInv, NothingYet
  <2> QED BY <1>1, <2>1
<1> QED BY <1>2, <1>3, <1>4, <1>5, <1>6, <1>7, <1>8, <1>9, <1>10 DEF Next

\* In every state, the nodes and the members of a container are where the
\* preorder of the declarations puts them, and the addresses rise with them.
THEOREM NestInvariance == Spec => [](PathInv /\ HoldInv)
<1>1. Init => PathInv /\ HoldInv
  BY DEF Init, PathInv, HoldInv, NothingYet, TasksApart, TasksFresh, MembersFresh, TasksInside,
     TasksOutside, MembersInside, AddressesRise, ClosedHold, Slots, Opened
<1> QED BY <1>1, StepNest, Invariant, PTL DEF Spec

\* A closed container holds its own members and no others, whatever is nested
\* in it and however deep.
THEOREM ContainersHoldTheirs == Spec => []ContainersHold
<1>1. IInv /\ PathInv /\ HoldInv => ContainersHold
  <2> SUFFICES ASSUME IInv, PathInv, HoldInv, NEW k \in Slots \ Opened, ~out[k].leaf
               PROVE  /\ out[k].bits % 16 = 0
                      /\ \A i \in Slots : out[i].leaf =>
                           IF IsPrefix(out[k].path, out[i].path)
                           THEN Addr(out[k]) <= Addr(out[i]) /\ End(out[i]) <= End(out[k])
                           ELSE End(out[i]) <= Addr(out[k]) \/ End(out[k]) <= Addr(out[i])
    BY DEF ContainersHold
  <2>1. /\ out[k].bits % 16 = 0
        /\ \A j \in k + 1 .. Len(out) : out[j].leaf =>
             IF IsPrefix(out[k].path, out[j].path)
             THEN End(out[j]) <= End(out[k])
             ELSE End(out[k]) <= Addr(out[j])
    BY DEF HoldInv, ClosedHold
  <2>2. ASSUME NEW i \in Slots, out[i].leaf
        PROVE  IF IsPrefix(out[k].path, out[i].path)
               THEN Addr(out[k]) <= Addr(out[i]) /\ End(out[i]) <= End(out[k])
               ELSE End(out[i]) <= Addr(out[k]) \/ End(out[k]) <= Addr(out[i])
    <3>1. Slots = 1 .. Len(out) /\ Len(out) \in Nat /\ i # k
      BY <2>2, WorkTyped
    <3>2. CASE i \in 1 .. k - 1
      <4>1. ~IsPrefix(out[k].path, out[i].path)
        BY <3>2 DEF PathInv, MembersFresh
      <4>2. k \in i + 1 .. Len(out)
        BY <3>1, <3>2
      <4>3. End(out[i]) <= Addr(out[k])
        BY <2>2, <4>2 DEF HoldInv, AddressesRise
      <4> QED BY <4>1, <4>3
    <3>3. CASE i \in k + 1 .. Len(out)
      <4>1. Addr(out[k]) <= Addr(out[i])
        BY <3>3 DEF HoldInv, AddressesRise
      <4> QED BY <2>1, <2>2, <3>3, <4>1
    <3>4. i \in 1 .. k - 1 \/ i \in k + 1 .. Len(out)
      BY <3>1
    <3> QED BY <3>2, <3>3, <3>4
  <2> QED BY <2>1, <2>2
<1> QED BY <1>1, NestInvariance, Invariant, PTL

-----------------------------------------------------------------------------
(* The size of the whole block.                                            *)

\* As long as there is no scalar, no address has been given away: empty
\* containers, however deep, take no room.
NothingTaken == NoLeafIn(Slots) => byte = 0 /\ bit = 0

\* layout_fields returns with the cursor on a word.
DoneIsEven == outcome = "done" => byte % 2 = 0 /\ bit = 0 /\ work = <<>>

TotalInv == NothingTaken /\ DoneIsEven

\* The total of a block: it holds every member, and is the end of the last
\* scalar up to the next word, or nothing where there is none.
TotalIsTight ==
    outcome = "done" =>
        /\ byte % 2 = 0 /\ bit = 0
        /\ \A i \in Slots : End(out[i]) <= Cursor
        /\ \A i \in Slots : out[i].leaf /\ NoLeafIn(i + 1 .. Len(out))
                                => Cursor = WordUp(End(out[i]))
        /\ NoLeafIn(Slots) => Cursor = 0

\* The cursor is moved to a word, and the scalars stay what they are.
LEMMA EvenTotal ==
    ASSUME IInv, TotalInv, byte' = Even, bit' = 0, Slots \subseteq Slots',
           \A i \in Slots : out'[i].leaf = out[i].leaf
    PROVE  NothingTaken' /\ byte' % 2 = 0
<1>1. byte \in Nat /\ bit \in 0 .. 7
  BY DEF IInv, TypeOK
<1>2. Even % 2 = 0
  BY <1>1, CursorMoves
<1>3. ASSUME NoLeafIn(Slots)' PROVE byte' = 0
  <2>1. NoLeafIn(Slots)
    BY <1>3 DEF NoLeafIn
  <2>2. byte = 0 /\ bit = 0
    BY <2>1 DEF TotalInv, NothingTaken
  <2> QED BY <2>2 DEF Even, Closed
<1> QED BY <1>2, <1>3 DEF NothingTaken

\* A scalar is emitted.
LEMMA LeafTotal ==
    ASSUME IInv, Now("place"), NEW m, m.leaf, out' = Append(out, m), outcome' = outcome
    PROVE  TotalInv'
<1>1. Len(out) + 1 \in Slots' /\ out'[Len(out) + 1] = m
  BY DEF IInv, TypeOK, Slots
<1>2. ~NoLeafIn(Slots)'
  BY <1>1 DEF NoLeafIn
<1> QED BY <1>2 DEF TotalInv, NothingTaken, DoneIsEven, Now

\* A container is opened.
LEMMA OpenTotal ==
    ASSUME IInv, TotalInv, Now("place"), NEW tasks, Open(tasks)
    PROVE  TotalInv'
<1>1. PICK m : out' = Append(out, m)
  BY DEF Open, Emit
<1>2. Slots \subseteq Slots' /\ \A i \in Slots : out'[i] = out[i]
  BY <1>1 DEF IInv, TypeOK, Slots
<1>3. NothingTaken'
  BY <1>2, EvenTotal DEF Open
<1> QED BY <1>3 DEF TotalInv, DoneIsEven, Now, Open

LEMMA StepTotal == IInv /\ TotalInv /\ [Next]_vars => TotalInv'
<1> SUFFICES ASSUME IInv, TotalInv, [Next]_vars PROVE TotalInv'
  OBVIOUS
<1>1. CASE UNCHANGED <<byte, bit, out>> /\ outcome' # "done"
  BY <1>1 DEF TotalInv, NothingTaken, DoneIsEven, NoLeafIn, Slots
<1>2. CASE Compute
  BY <1>1, <1>2 DEF Compute, Stop
<1>3. CASE PlaceBool
  <2>1. Now("place") /\ outcome' = outcome
        /\ out' = Append(out, Member(Head(work), byte, bit, 1, TRUE))
    BY <1>3 DEF PlaceBool, Emit
  <2>2. Member(Head(work), byte, bit, 1, TRUE).leaf
    BY DEF Member
  <2> QED BY <2>1, <2>2, LeafTotal
<1>4. CASE PlaceScalar
  <2> DEFINE m == Member(Head(work), ScalarStart(Node), 0, 8 * Bytes(Node), TRUE)
  <2>1. Now("place") /\ outcome' = outcome /\ out' = Append(out, m)
    BY <1>4 DEF PlaceScalar, Emit
  <2>2. m.leaf
    BY DEF Member
  <2> QED BY <2>1, <2>2, LeafTotal
<1>5. CASE PlaceStruct
  BY <1>5, OpenTotal DEF PlaceStruct
<1>6. CASE PlaceArray
  BY <1>6, OpenTotal DEF PlaceArray
<1>7. CASE PlaceUdt
  BY <1>1, <1>7, OpenTotal DEF PlaceUdt, Stop
<1>8. CASE CloseContainer
  <2> DEFINE s == Head(work).slot
  <2>1. /\ Now("close") /\ byte' = Even /\ bit' = 0 /\ outcome' = outcome
        /\ out' = [out EXCEPT ![s].bits = Extent(s)]
    BY <1>8 DEF CloseContainer
  <2>2. out \in Seq(Members) /\ Slots = DOMAIN out
    BY DEF IInv, TypeOK, Slots
  <2> HIDE DEF s
  <2>3. Slots' = Slots
    <3>1. Len(out') = Len(out)
      BY <2>1, <2>2
    <3> QED BY <3>1 DEF Slots
  <2>4. \A i \in Slots : out'[i].leaf = out[i].leaf
    BY <2>1, <2>2 DEF Members
  <2>5. NothingTaken'
    BY <2>1, <2>3, <2>4, EvenTotal
  <2> QED BY <2>1, <2>5 DEF TotalInv, DoneIsEven, Now
<1>9. CASE Return
  <2>1. /\ byte' = Even /\ bit' = 0 /\ work = <<>> /\ work' = work /\ out' = out
    BY <1>9 DEF Return
  <2>2. NothingTaken' /\ byte' % 2 = 0
    BY <2>1, EvenTotal DEF Slots
  <2> QED BY <2>1, <2>2 DEF TotalInv, DoneIsEven
<1>10. CASE UNCHANGED vars
  BY <1>10 DEF vars, TotalInv, NothingTaken, DoneIsEven, NoLeafIn, Slots
<1> QED BY <1>2, <1>3, <1>4, <1>5, <1>6, <1>7, <1>8, <1>9, <1>10 DEF Next

\* The total compute_layout returns is right for every block: it is a whole
\* number of words, holds every member and every container, and is as small as
\* the alignment of the last scalar allows (rules.py:192).
THEOREM TotalIsRight == Spec => []TotalIsTight
<1>1. Init => TotalInv
  <2> SUFFICES ASSUME Init PROVE TotalInv
    OBVIOUS
  <2> QED BY DEF Init, TotalInv, NothingTaken, DoneIsEven
<1>2. IInv /\ HoldInv /\ TotalInv => TotalIsTight
  <2> SUFFICES ASSUME IInv, HoldInv, TotalInv, outcome = "done"
               PROVE  /\ byte % 2 = 0 /\ bit = 0
                      /\ \A i \in Slots : End(out[i]) <= Cursor
                      /\ \A i \in Slots : out[i].leaf /\ NoLeafIn(i + 1 .. Len(out))
                                              => Cursor = WordUp(End(out[i]))
                      /\ NoLeafIn(Slots) => Cursor = 0
    BY DEF TotalIsTight
  <2>1. byte % 2 = 0 /\ bit = 0 /\ work = <<>> /\ byte \in Nat
    BY DEF TotalInv, DoneIsEven, IInv, TypeOK
  <2>2. Opened = {}
    BY <2>1 DEF Opened
  <2>3. ASSUME NEW i \in Slots PROVE End(out[i]) <= Cursor
    <3>1. CASE out[i].leaf
      BY <3>1, CursorAtEnd
    <3>2. CASE ~out[i].leaf
      BY <2>2, <3>2 DEF HoldInv, ClosedHold
    <3> QED BY <3>1, <3>2
  <2>4. ASSUME NEW i \in Slots, out[i].leaf, NoLeafIn(i + 1 .. Len(out))
        PROVE  Cursor = WordUp(End(out[i]))
    <3> DEFINE e == End(out[i])
    <3>1. e \in Nat /\ e <= Cursor
      BY <2>3, CursorAtEnd
    <3>2. Cursor <= WordUp(e)
      BY <2>4 DEF IInv, CursorIsNear
    <3>3. PICK h \in Nat : byte = 2 * h
      BY <2>1
    <3>4. Cursor = 16 * h
      BY <2>1, <3>3 DEF Cursor
    <3> HIDE DEF e
    <3> DEFINE k == (e + 15) \div 16
    <3>5. k \in Nat /\ 16 * k <= e + 15 /\ WordUp(e) = 16 * k
      BY <3>1 DEF WordUp
    <3> HIDE DEF k
    <3>6. h <= k /\ 16 * k <= 16 * h + 15
      BY <3>1, <3>2, <3>4, <3>5
    <3>7. h = k
      BY <3>5, <3>6
    <3> QED BY <3>4, <3>5, <3>7 DEF e
  <2>5. NoLeafIn(Slots) => Cursor = 0
    BY DEF TotalInv, NothingTaken, Cursor
  <2> QED BY <2>1, <2>3, <2>4, <2>5
<1> QED BY <1>1, <1>2, StepTotal, NestInvariance, Invariant, PTL DEF Spec
=============================================================================
