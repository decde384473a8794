--------------------------- MODULE FlyAgentProofs ---------------------------
(***************************************************************************)
(* Proofs about FlowExport and FlyAgent, for every command line, every     *)
(* exporter that sends what FeedAssumption says, and every frame.          *)
(***************************************************************************)
EXTENDS FlyAgent, Lemmas

-----------------------------------------------------------------------------
(* A template's offsets.                                                   *)

LEMMA FieldIs ==
  ASSUME NEW ipfix \in BOOLEAN, NEW f \in Fields(ipfix)
  PROVE  /\ f.ie \in DOMAIN Slot \cup {"other"} /\ f.len \in Nat
         /\ f.ent \in BOOLEAN /\ (f.ent => ipfix) /\ Fixed(f.len) \in Nat
<1>1. f.ie \in DOMAIN Slot \cup {"other"} /\ f.ent \in IF ipfix THEN BOOLEAN ELSE {FALSE}
  BY DEF Fields
<1>2. f.len \in 0..VARLEN
  BY DEF Fields
<1>3. f.len \in Nat
  <2>1. VARLEN \in Nat
    BY DEF VARLEN
  <2>. QED BY <1>2, <2>1
<1>. QED BY <1>1, <1>3 DEF Fixed

(* The ends of the fields are what their definition says.                  *)
LEMMA EndsAre ==
  ASSUME NEW ipfix \in BOOLEAN, NEW layout \in Seq(Fields(ipfix))
  PROVE  /\ Ends(layout) \in [0..Len(layout) -> Nat]
         /\ Ends(layout)[0] = 0
         /\ \A j \in 1..Len(layout) :
              Ends(layout)[j] = Ends(layout)[j - 1] + Fixed(layout[j].len)
<1>. DEFINE n == Len(layout)
            fix == [j \in DOMAIN layout |-> Fixed(layout[j].len)]
<1>1. n \in Nat /\ DOMAIN layout = 1..n /\ \A j \in 1..n : Fixed(layout[j].len) \in Nat
  <2>1. \A j \in 1..n : layout[j] \in Fields(ipfix)
    BY ElementOfSeq
  <2>. QED BY <2>1, FieldIs, LenProperties
<1>2. fix \in Seq(Nat) /\ Len(fix) = n /\ \A j \in 1..n : fix[j] = Fixed(layout[j].len)
  <2>1. fix \in [1..n -> Nat]
    BY <1>1
  <2>. QED BY <1>1, <2>1, FunctionIsSeq
<1>3. Ends(layout) = Sums(fix)
  BY DEF Ends
<1>. HIDE DEF fix, n
<1>4. \A j \in 1..n : Sums(fix)[j] = Sums(fix)[j - 1] + fix[j]
  BY <1>2, SumsAre
<1>5. Sums(fix) \in [0..n -> Nat] /\ Sums(fix)[0] = 0
  BY <1>2, SumsAre
<1>. QED BY <1>2, <1>3, <1>4, <1>5 DEF n

(* A field that goes to a slot of the template ...                         *)
Mapped(f) == ~f.ent /\ f.ie \in DOMAIN Slot
Goes(f, s) == Mapped(f) /\ Slot[f.ie] = s
IsSix(f) == Mapped(f) /\ f.ie \in {"v6src", "v6dst"}

LEMMA SlotIs == \A ie \in DOMAIN Slot : Slot[ie] \in Slots
BY DEF Slot, Slots

Partial == [at : [Slots -> Int], isv6 : BOOLEAN, variable : BOOLEAN, len : Nat]

(* ... changes that one.                                                   *)
LEMMA AddFieldIs ==
  ASSUME NEW ipfix \in BOOLEAN, NEW t \in Partial, NEW f \in Fields(ipfix)
  PROVE  LET u == AddField(t, f, ipfix)
         IN  /\ u \in Partial /\ u.len = t.len + Fixed(f.len)
             /\ u.variable = (t.variable \/ f.len = VARLEN)
             /\ u.isv6 = (t.isv6 \/ IsSix(f))
             /\ \A s \in Slots : u.at[s] = IF Goes(f, s) THEN t.len ELSE t.at[s]
<1>. DEFINE u == AddField(t, f, ipfix)
            mapped == ~(ipfix /\ f.ent) /\ f.ie \in DOMAIN Slot
            at == IF mapped THEN [t.at EXCEPT ![Slot[f.ie]] = t.len] ELSE t.at
            six == t.isv6 \/ (mapped /\ f.ie \in {"v6src", "v6dst"})
            var == t.variable \/ f.len = VARLEN
            len == t.len + Fixed(f.len)
<1>1. u = [at |-> at, isv6 |-> six, variable |-> var, len |-> len]
  BY DEF AddField
<1>2. /\ t.at \in [Slots -> Int] /\ t.isv6 \in BOOLEAN /\ t.variable \in BOOLEAN
      /\ t.len \in Nat
  BY DEF Partial
<1>3. mapped = Mapped(f)
  BY FieldIs DEF Mapped
<1>4. at \in [Slots -> Int] /\ \A s \in Slots : at[s] = IF Goes(f, s) THEN t.len ELSE t.at[s]
  <2>1. CASE mapped
    <3>1. Slot[f.ie] \in Slots
      BY <2>1, SlotIs
    <3>. DEFINE a == Slot[f.ie]
                g == t.at
    <3>2. at = [g EXCEPT ![a] = t.len] /\ g \in [Slots -> Int] /\ a \in Slots
      BY <1>2, <2>1, <3>1
    <3>3. \A s \in Slots : Goes(f, s) = (s = a)
      BY <1>3, <2>1 DEF Goes
    <3>. HIDE DEF a, g, at
    <3>4. at \in [Slots -> Int] /\ \A s \in Slots : at[s] = IF s = a THEN t.len ELSE g[s]
      BY <1>2, <3>2
    <3>. QED BY <3>3, <3>4 DEF g
  <2>2. CASE ~mapped
    BY <1>2, <1>3, <2>2 DEF Goes
  <2>. QED BY <2>1, <2>2
<1>5. six \in BOOLEAN /\ var \in BOOLEAN /\ len \in Nat
  BY <1>2, FieldIs
<1>6. six = (t.isv6 \/ IsSix(f))
  BY <1>3 DEF IsSix
<1>. HIDE DEF at, six, var, len, mapped
<1>7. u \in Partial
  BY <1>1, <1>4, <1>5 DEF Partial
<1>8. u.at = at /\ u.isv6 = six /\ u.variable = var /\ u.len = len
  BY <1>1
<1>. QED BY <1>4, <1>6, <1>7, <1>8 DEF var, len, u

(***************************************************************************)
(* The offset of a slot is where a field that goes there begins, and there *)
(* is none if no field does; a record is as long as its fields, unless one *)
(* of them is of variable length.                                          *)
(***************************************************************************)
FieldsUpTo(t, layout, k) ==
  /\ t \in Partial
  /\ t.len = Ends(layout)[k]
  /\ t.variable = (\E j \in 1..k : layout[j].len = VARLEN)
  /\ t.isv6 = (\E j \in 1..k : IsSix(layout[j]))
  /\ \A s \in Slots :
       \/ t.at[s] = ABSENT /\ \A j \in 1..k : ~Goes(layout[j], s)
       \/ \E j \in 1..k : Goes(layout[j], s) /\ t.at[s] = Ends(layout)[j - 1]

LEMMA NoFields ==
  ASSUME NEW ipfix \in BOOLEAN, NEW layout \in Seq(Fields(ipfix))
  PROVE  FieldsUpTo(NoOffsets, layout, 0)
<1>1. Ends(layout)[0] = 0
  BY EndsAre
<1>2. NoOffsets \in Partial
  BY DEF NoOffsets, Partial, ABSENT
<1>3. /\ NoOffsets.len = 0 /\ NoOffsets.variable = FALSE /\ NoOffsets.isv6 = FALSE
      /\ \A s \in Slots : NoOffsets.at[s] = ABSENT
  BY DEF NoOffsets
<1>4. \A j \in 1..0 : FALSE
  OBVIOUS
<1>. QED BY <1>1, <1>2, <1>3, <1>4 DEF FieldsUpTo

LEMMA OneMoreField ==
  ASSUME NEW ipfix \in BOOLEAN, NEW layout \in Seq(Fields(ipfix)), NEW t,
         NEW k \in Nat, k + 1 \in 1..Len(layout), FieldsUpTo(t, layout, k)
  PROVE  FieldsUpTo(AddField(t, layout[k + 1], ipfix), layout, k + 1)
<1>. DEFINE f == layout[k + 1]
            u == AddField(t, f, ipfix)
            E == Ends(layout)
<1>1. f \in Fields(ipfix)
  BY ElementOfSeq
<1>2. /\ u \in Partial /\ u.len = t.len + Fixed(f.len)
      /\ u.variable = (t.variable \/ f.len = VARLEN)
      /\ u.isv6 = (t.isv6 \/ IsSix(f))
      /\ \A s \in Slots : u.at[s] = IF Goes(f, s) THEN t.len ELSE t.at[s]
  <2>1. t \in Partial
    BY DEF FieldsUpTo
  <2>. HIDE DEF f
  <2>. QED BY <1>1, <2>1, AddFieldIs
<1>3. E[k + 1] = E[(k + 1) - 1] + Fixed(f.len) /\ (k + 1) - 1 = k
  BY EndsAre
<1>4. /\ \A j \in 1..k : j \in 1..k + 1
      /\ \A j \in 1..k + 1 : j = k + 1 \/ j \in 1..k
      /\ k + 1 \in 1..k + 1
  OBVIOUS
<1>. HIDE DEF u, E
<1>5. /\ t.len = E[k]
      /\ t.variable = (\E j \in 1..k : layout[j].len = VARLEN)
      /\ t.isv6 = (\E j \in 1..k : IsSix(layout[j]))
      /\ \A s \in Slots :
           \/ t.at[s] = ABSENT /\ \A j \in 1..k : ~Goes(layout[j], s)
           \/ \E j \in 1..k : Goes(layout[j], s) /\ t.at[s] = E[j - 1]
  BY DEF FieldsUpTo, E
<1>6. u.len = E[k + 1]
  BY <1>2, <1>3, <1>5
<1>7. /\ u.variable = (\E j \in 1..k + 1 : layout[j].len = VARLEN)
      /\ u.isv6 = (\E j \in 1..k + 1 : IsSix(layout[j]))
  BY <1>2, <1>4, <1>5
<1>8. ASSUME NEW s \in Slots
      PROVE  \/ u.at[s] = ABSENT /\ \A j \in 1..k + 1 : ~Goes(layout[j], s)
             \/ \E j \in 1..k + 1 : Goes(layout[j], s) /\ u.at[s] = E[j - 1]
  <2>1. CASE Goes(f, s)
    <3>1. u.at[s] = E[(k + 1) - 1]
      BY <1>2, <1>3, <1>5, <2>1
    <3>. QED BY <1>4, <2>1, <3>1
  <2>2. CASE ~Goes(f, s)
    <3>1. u.at[s] = t.at[s]
      BY <1>2, <2>2
    <3>. QED BY <1>4, <1>5, <2>2, <3>1
  <2>. QED BY <2>1, <2>2
<1>. QED BY <1>2, <1>6, <1>7, <1>8 DEF FieldsUpTo, u, E

LEMMA OffsetsAre ==
  ASSUME NEW ipfix \in BOOLEAN, NEW layout \in Seq(Fields(ipfix))
  PROVE  \E t : /\ FieldsUpTo(t, layout, Len(layout))
                /\ Offsets(layout, ipfix) =
                     [at |-> t.at, isv6 |-> t.isv6,
                      len |-> IF t.variable THEN 0 ELSE t.len]
<1>. DEFINE n == Len(layout)
            step == [j \in 1..n |-> [t \in Partial |-> AddField(t, layout[j], ipfix)]]
            Def(g) == g = [j \in 0..n |-> IF j = 0 THEN NoOffsets
                                          ELSE AddField(g[j - 1], layout[j], ipfix)]
<1>1. n \in Nat /\ \A j \in 1..n : layout[j] \in Fields(ipfix)
  BY LenProperties, ElementOfSeq
<1>2. NoOffsets \in Partial
  BY NoFields DEF FieldsUpTo
<1>3. step \in [1..n -> [Partial -> Partial]]
  <2>1. \A j \in 1..n : \A t \in Partial : AddField(t, layout[j], ipfix) \in Partial
    BY <1>1, AddFieldIs
  <2>. QED BY <2>1
<1>4. PICK h \in [0..n -> Partial] : Steps(h, n, NoOffsets, step)
  <2>. HIDE DEF step, n
  <2>. QED BY <1>1, <1>2, <1>3, PrefixFunction
<1>5. ASSUME NEW j \in 1..n PROVE h[j] = AddField(h[j - 1], layout[j], ipfix)
  <2>1. h[j - 1] \in Partial /\ h[j] = step[j][h[j - 1]]
    <3>1. j - 1 \in 0..n
      BY <1>1
    <3>. QED BY <1>4, <3>1 DEF Steps
  <2>2. \A t \in Partial : step[j][t] = AddField(t, layout[j], ipfix)
    OBVIOUS
  <2>. HIDE DEF step
  <2>. QED BY <2>1, <2>2
<1>6. Def(h)
  <2>. HIDE DEF step, n
  <2>1. \A j \in 0..n : j # 0 => j \in 1..n
    BY <1>1
  <2>2. \A j \in 0..n : h[j] = IF j = 0 THEN NoOffsets
                               ELSE AddField(h[j - 1], layout[j], ipfix)
    BY <1>4, <1>5, <2>1 DEF Steps
  <2>. QED BY <2>2
<1>7. Def(CHOOSE g : Def(g))
  <2>. HIDE DEF Def
  <2>. QED BY <1>6
<1>. DEFINE to == CHOOSE g : Def(g)
<1>8. Offsets(layout, ipfix) =
        [at |-> to[n].at, isv6 |-> to[n].isv6,
         len |-> IF to[n].variable THEN 0 ELSE to[n].len]
  BY DEF Offsets
<1>9. Def(to)
  BY <1>7
<1>. HIDE DEF to, step, n
<1>10. to[0] = NoOffsets /\ \A j \in 1..n : to[j] = AddField(to[j - 1], layout[j], ipfix)
  <2>1. (\A j \in 1..n : j \in 0..n /\ j # 0) /\ 0 \in 0..n
    BY <1>1
  <2>. QED BY <1>9, <2>1
<1>. DEFINE T == {k \in Nat : k <= n => FieldsUpTo(to[k], layout, k)}
<1>11. \A k \in Nat : k \in T
  <2>1. 0 \in T
    BY <1>10, NoFields
  <2>2. ASSUME NEW k \in T PROVE k + 1 \in T
    <3>. SUFFICES ASSUME k + 1 <= n PROVE FieldsUpTo(to[k + 1], layout, k + 1)
      OBVIOUS
    <3>1. k \in Nat /\ k + 1 \in 1..n /\ (k + 1) - 1 = k /\ FieldsUpTo(to[k], layout, k)
      BY <1>1
    <3>2. to[k + 1] = AddField(to[k], layout[k + 1], ipfix)
      BY <1>10, <3>1
    <3>. QED BY <3>1, <3>2, OneMoreField DEF n
  <2>3. T \in SUBSET Nat
    OBVIOUS
  <2>. HIDE DEF T
  <2>. QED BY <2>1, <2>2, <2>3, InductiveSet
<1>12. FieldsUpTo(to[n], layout, n)
  BY <1>1, <1>11
<1>. QED BY <1>8, <1>12 DEF n

-----------------------------------------------------------------------------
(* Reading a data set with the offsets of its own layout.                  *)

LEMMA Divides ==
  ASSUME NEW k \in Nat, NEW w \in Nat \ {0}, NEW o \in 0..w - 1
  PROVE  (k * w + o) \div w = k /\ (k * w + o) % w = o
OBVIOUS

(* A field ends no later than one behind it.                               *)
LEMMA EndsRise ==
  ASSUME NEW ipfix \in BOOLEAN, NEW layout \in Seq(Fields(ipfix)),
         NEW i \in 0..Len(layout), NEW j \in 0..Len(layout), i <= j
  PROVE  Ends(layout)[i] <= Ends(layout)[j]
<1>. DEFINE n == Len(layout)
            fix == [k \in DOMAIN layout |-> Fixed(layout[k].len)]
<1>1. fix \in Seq(Nat) /\ Len(fix) = n
  <2>1. \A k \in 1..n : layout[k] \in Fields(ipfix)
    BY ElementOfSeq
  <2>2. fix \in [1..n -> Nat] /\ n \in Nat
    BY <2>1, FieldIs, LenProperties
  <2>. QED BY <2>2, FunctionIsSeq
<1>2. Ends(layout) = Sums(fix)
  BY DEF Ends
<1>. HIDE DEF fix
<1>. QED BY <1>1, <1>2, SumsRise

(* What is read where a field begins, with its length, is that field.      *)
LEMMA ReadIs ==
  ASSUME NEW ipfix \in BOOLEAN, NEW set, IsDataSet(set, ipfix),
         NEW j \in 1..Len(set.layout), Mapped(set.layout[j]),
         set.layout[j].len # VARLEN, set.layout[j].len > 0,
         NEW k \in 1..Len(set.flows)
  PROVE  Read(set, (k - 1) * Width(set.layout) + Ends(set.layout)[j - 1],
              set.layout[j].len) = Value(set.flows[k], set.layout[j].ie)
<1>. DEFINE layout == set.layout
            n == Len(layout)
            E == Ends(layout)
            w == Width(layout)
            o == E[j - 1]
            size == layout[j].len
            pos == (k - 1) * w + o
            hits == {i \in DOMAIN layout : E[i - 1] = pos % w /\ layout[i].len = size}
<1>1. /\ layout \in Seq(Fields(ipfix)) /\ n \in Nat /\ DOMAIN layout = 1..n
      /\ j \in 1..n /\ size \in Nat /\ size > 0 /\ k \in 1..Len(set.flows)
      /\ Len(set.flows) \in Nat
  <2>1. layout \in Seq(Fields(ipfix)) /\ Len(set.flows) \in Nat
    BY LenProperties DEF IsDataSet, IsSeq
  <2>2. layout[j].len \in Nat
    <3>1. layout[j] \in Fields(ipfix)
      BY <2>1, ElementOfSeq
    <3>. QED BY <3>1, FieldIs
  <2>. QED BY <2>1, <2>2
<1>2. w = E[n]
  BY DEF Width
<1>3. /\ \A i \in 0..n : E[i] \in Nat
      /\ \A i \in 1..n : E[i] = E[i - 1] + Fixed(layout[i].len)
  <2>. HIDE DEF layout
  <2>. QED BY <1>1, EndsAre
<1>4. \A a, b \in 0..n : a <= b => E[a] <= E[b]
  <2>. HIDE DEF layout
  <2>. QED BY <1>1, EndsRise
<1>5. Read(set, pos, size) =
        IF pos \div w + 1 > Len(set.flows) \/ hits = {} THEN Garbage
        ELSE LET i == CHOOSE i \in hits : TRUE
             IN  IF layout[i].ie = "other" \/ layout[i].ent THEN Garbage
                 ELSE Value(set.flows[pos \div w + 1], layout[i].ie)
  BY DEF Read
<1>6. Fixed(size) = size
  BY DEF Fixed
<1>. HIDE DEF layout, n, E, w, size
<1>7. o \in Nat /\ o + size = E[j] /\ E[j] <= w /\ w \in Nat
  <2>1. j - 1 \in 0..n /\ j \in 0..n /\ n \in 0..n /\ j <= n
    BY <1>1
  <2>2. E[j] = E[j - 1] + size
    BY <1>1, <1>3, <1>6 DEF size
  <2>. QED BY <1>2, <1>3, <1>4, <2>1, <2>2
<1>8. w \in Nat \ {0} /\ o \in 0..w - 1 /\ k - 1 \in Nat
  BY <1>1, <1>3, <1>7
<1>9. pos \div w = k - 1 /\ pos % w = o
  <2>. HIDE DEF o
  <2>. QED BY <1>8, Divides
<1>. HIDE DEF pos
<1>10. hits = {j}
  <2>1. j \in hits
    BY <1>1, <1>9 DEF size
  <2>2. ASSUME NEW i \in hits PROVE i = j
    <3>1. i \in 1..n /\ E[i - 1] = o /\ layout[i].len = size
      BY <1>1, <1>9
    <3>2. i - 1 \in 0..n /\ j - 1 \in 0..n /\ i \in 0..n /\ j \in 0..n
      BY <1>1, <3>1
    <3>3. E[i] = o + size /\ E[j] = o + size
      BY <1>3, <1>6, <1>7, <3>1
    <3>4. ~(i <= j - 1)
      <4>1. ~(E[i] <= E[j - 1])
        BY <1>1, <1>7, <3>3
      <4>. QED BY <1>4, <3>2, <4>1
    <3>5. ~(j <= i - 1)
      <4>1. ~(E[j] <= E[i - 1])
        BY <1>1, <1>7, <3>1, <3>3
      <4>. QED BY <1>4, <3>2, <4>1
    <3>. QED BY <1>1, <3>1, <3>4, <3>5
  <2>. QED BY <2>1, <2>2
<1>11. (k - 1) + 1 = k /\ k <= Len(set.flows)
  BY <1>1
<1>12. layout[j].ie # "other" /\ ~layout[j].ent
  BY DEF Mapped, Slot, layout
<1>. HIDE DEF hits, o
<1>13. (CHOOSE i \in hits : TRUE) = j /\ hits # {}
  BY <1>10
<1>14. Read(set, pos, size) = Value(set.flows[k], layout[j].ie)
  <2>1. ~(pos \div w + 1 > Len(set.flows) \/ hits = {}) /\ pos \div w + 1 = k
    BY <1>1, <1>9, <1>11, <1>13
  <2>. QED BY <1>5, <1>12, <1>13, <2>1
<1>. QED BY <1>14 DEF pos, o, size, w, E, layout

(* The offsets of a plain layout.                                          *)
LEMMA PlainOffsets ==
  ASSUME NEW ipfix \in BOOLEAN, NEW layout \in Seq(Fields(ipfix)), Plain(layout)
  PROVE  LET np == Offsets(layout, ipfix)
         IN  /\ np.len = Width(layout) /\ np.len \in Nat
             /\ np.isv6 = Has(layout, "v6src")
             /\ \A s \in Slots :
                  \/ np.at[s] = ABSENT /\ \A j \in 1..Len(layout) : ~Goes(layout[j], s)
                  \/ \E j \in 1..Len(layout) :
                       Goes(layout[j], s) /\ np.at[s] = Ends(layout)[j - 1]
<1>1. PICK t : /\ FieldsUpTo(t, layout, Len(layout))
               /\ Offsets(layout, ipfix) =
                    [at |-> t.at, isv6 |-> t.isv6,
                     len |-> IF t.variable THEN 0 ELSE t.len]
  BY OffsetsAre
<1>2. DOMAIN layout = 1..Len(layout)
  BY LenProperties
<1>3. ~t.variable
  BY <1>1, <1>2 DEF FieldsUpTo, Plain
<1>4. /\ Offsets(layout, ipfix).at = t.at /\ Offsets(layout, ipfix).len = t.len
      /\ Offsets(layout, ipfix).isv6 = t.isv6
  BY <1>1, <1>3
<1>5. t.len = Width(layout) /\ t.len \in Nat
  BY <1>1 DEF FieldsUpTo, Partial, Width
<1>6. t.isv6 = Has(layout, "v6src")
  <2>1. (\E j \in 1..Len(layout) : IsSix(layout[j])) =
          (Has(layout, "v6src") \/ Has(layout, "v6dst"))
    <3>1. {"v6src", "v6dst"} \subseteq DOMAIN Slot
      BY DEF Slot
    <3>. QED BY <1>2, <3>1 DEF IsSix, Mapped, Has
  <2>2. Has(layout, "v6src") = Has(layout, "v6dst")
    BY DEF Plain
  <2>3. t.isv6 = (\E j \in 1..Len(layout) : IsSix(layout[j]))
    BY <1>1 DEF FieldsUpTo
  <2>4. Has(layout, "v6src") \in BOOLEAN /\ Has(layout, "v6dst") \in BOOLEAN
    BY DEF Has
  <2>. QED BY <2>1, <2>2, <2>3, <2>4
<1>. QED BY <1>1, <1>4, <1>5, <1>6 DEF FieldsUpTo

(* A slot has only fields of one element, and they have its length.        *)
OfFamily(ie, layout) ==
  /\ ie \in {"v4src", "v4dst"} => ~Has(layout, "v6src")
  /\ ie \in {"v6src", "v6dst"} => Has(layout, "v6src")

LEMMA OwnElement ==
  ASSUME NEW ipfix \in BOOLEAN, NEW layout \in Seq(Fields(ipfix)), Plain(layout),
         NEW ie \in DOMAIN Slot, OfFamily(ie, layout), NEW j \in 1..Len(layout)
  PROVE  /\ Goes(layout[j], Slot[ie]) = (Mapped(layout[j]) /\ layout[j].ie = ie)
         /\ Goes(layout[j], Slot[ie]) => layout[j].len = ReadLen[ie]
                                         /\ layout[j].len # VARLEN
<1>1. DOMAIN layout = 1..Len(layout)
  BY LenProperties
<1>2. ASSUME Goes(layout[j], Slot[ie]) PROVE layout[j].ie = ie
  <2>1. layout[j].ie \in DOMAIN Slot /\ Slot[layout[j].ie] = Slot[ie] /\ ~layout[j].ent
    BY <1>2 DEF Goes, Mapped
  <2>2. /\ layout[j].ie = "v4src" => Has(layout, "v4src")
        /\ layout[j].ie = "v4dst" => Has(layout, "v4dst")
        /\ layout[j].ie = "v6src" => Has(layout, "v6src")
        /\ layout[j].ie = "v6dst" => Has(layout, "v6dst")
    BY <1>1, <2>1 DEF Has
  <2>3. /\ Has(layout, "v4src") # Has(layout, "v6src")
        /\ Has(layout, "v4src") = Has(layout, "v4dst")
        /\ Has(layout, "v6src") = Has(layout, "v6dst")
    BY DEF Plain
  <2>4. /\ layout[j].ie \in {"v4src", "v4dst"} => ie \notin {"v6src", "v6dst"}
        /\ layout[j].ie \in {"v6src", "v6dst"} => ie \notin {"v4src", "v4dst"}
    BY <2>2, <2>3 DEF OfFamily
  <2>5. \A a, b \in DOMAIN Slot : Slot[a] = Slot[b] =>
          \/ a = b
          \/ a \in {"v4src", "v4dst"} /\ b \in {"v6src", "v6dst"}
          \/ a \in {"v6src", "v6dst"} /\ b \in {"v4src", "v4dst"}
    BY DEF Slot
  <2>. QED BY <2>1, <2>4, <2>5
<1>3. Goes(layout[j], Slot[ie]) => layout[j].len = ReadLen[ie] /\ layout[j].len # VARLEN
  <2>1. DOMAIN ReadLen = DOMAIN Slot
    BY DEF ReadLen, Slot
  <2>. QED BY <1>1, <1>2, <2>1 DEF Plain, Goes, Mapped
<1>. QED BY <1>2, <1>3 DEF Goes

LEMMA ReadLenIs == \A ie \in DOMAIN Slot : ReadLen[ie] \in Nat \ {0}
BY DEF ReadLen, Slot

(* What the decoder reads for an information element of a plain layout is  *)
(* the flow's value of it, or the layout has no such field.                *)
LEMMA FieldIsValue ==
  ASSUME NEW ipfix \in BOOLEAN, NEW set, IsDataSet(set, ipfix), Plain(set.layout),
         NEW ie \in DOMAIN Slot, OfFamily(ie, set.layout),
         NEW k \in 1..Len(set.flows)
  PROVE  LET np == Offsets(set.layout, ipfix)
         IN  /\ Has(set.layout, ie) = FldOk(np, Slot[ie], ReadLen[ie])
             /\ Has(set.layout, ie) = (np.at[Slot[ie]] # ABSENT)
             /\ Has(set.layout, ie) =>
                  Field(np, set, k, Slot[ie], ReadLen[ie]) = Value(set.flows[k], ie)
<1>. DEFINE layout == set.layout
            np == Offsets(layout, ipfix)
            n == Len(layout)
            s == Slot[ie]
            size == ReadLen[ie]
            E == Ends(layout)
<1>1. layout \in Seq(Fields(ipfix)) /\ s \in Slots /\ DOMAIN layout = 1..n /\ n \in Nat
  BY SlotIs, LenProperties DEF IsDataSet
<1>2. /\ np.len = Width(layout) /\ np.len \in Nat
      /\ \/ np.at[s] = ABSENT /\ \A j \in 1..n : ~Goes(layout[j], s)
         \/ \E j \in 1..n : Goes(layout[j], s) /\ np.at[s] = E[j - 1]
  <2>. HIDE DEF s, layout
  <2>. QED BY <1>1, PlainOffsets DEF layout
<1>3. \A j \in 1..n :
        /\ Goes(layout[j], s) = (Mapped(layout[j]) /\ layout[j].ie = ie)
        /\ Goes(layout[j], s) => layout[j].len = size /\ layout[j].len # VARLEN
  BY <1>1, OwnElement
<1>4. Has(layout, ie) = \E j \in 1..n : Goes(layout[j], s)
  <2>. HIDE DEF s, layout
  <2>. QED BY <1>1, <1>3 DEF Has, Mapped
<1>5. ASSUME NEW j \in 1..n, Goes(layout[j], s), np.at[s] = E[j - 1]
      PROVE  /\ np.at[s] # ABSENT /\ np.at[s] + size <= np.len
             /\ Field(np, set, k, s, size) = Value(set.flows[k], ie)
  <2>1. /\ Mapped(layout[j]) /\ layout[j].ie = ie
        /\ layout[j].len = size /\ layout[j].len # VARLEN /\ size \in Nat /\ size > 0
    <3>1. size \in Nat \ {0}
      BY ReadLenIs
    <3>2. size > 0 /\ size \in Nat
      <4>. HIDE DEF size
      <4>. QED BY <3>1
    <3>3. /\ Goes(layout[j], s) = (Mapped(layout[j]) /\ layout[j].ie = ie)
          /\ Goes(layout[j], s) => layout[j].len = size /\ layout[j].len # VARLEN
      BY <1>3
    <3>4. Mapped(layout[j]) \in BOOLEAN
      BY DEF Mapped
    <3>. HIDE DEF size, s, layout
    <3>. QED BY <1>5, <3>2, <3>3, <3>4
  <2>2. /\ E[j - 1] \in Nat /\ E[j] = E[j - 1] + size /\ E[j] <= E[n] /\ E[n] \in Nat
    <3>1. j - 1 \in 0..n /\ j \in 0..n /\ n \in 0..n /\ j <= n
      BY <1>1
    <3>2. E \in [0..n -> Nat] /\ E[j] = E[j - 1] + Fixed(layout[j].len)
      <4>. HIDE DEF layout
      <4>. QED BY <1>1, EndsAre
    <3>3. E[j] <= E[n]
      <4>. HIDE DEF layout
      <4>. QED BY <1>1, <3>1, EndsRise
    <3>4. Fixed(layout[j].len) = size
      BY <2>1 DEF Fixed
    <3>. HIDE DEF E, size
    <3>. QED BY <3>1, <3>2, <3>3, <3>4
  <2>3. np.at[s] # ABSENT /\ np.at[s] + size <= np.len
    <3>1. Width(layout) = E[n]
      BY DEF Width
    <3>. HIDE DEF np, s, size, E
    <3>. QED BY <1>2, <1>5, <2>1, <2>2, <3>1 DEF ABSENT
  <2>4. Read(set, (k - 1) * Width(layout) + E[j - 1], layout[j].len) =
          Value(set.flows[k], layout[j].ie)
    BY <2>1, ReadIs
  <2>5. Field(np, set, k, s, size) = Read(set, (k - 1) * np.len + np.at[s], size)
    BY DEF Field
  <2>. HIDE DEF np, s, size, E, layout
  <2>. QED BY <1>2, <1>5, <2>1, <2>3, <2>4, <2>5
<1>. HIDE DEF np, s, size, E, layout, n
<1>6. CASE \E j \in 1..n : Goes(layout[j], s)
  <2>1. PICK j \in 1..n : Goes(layout[j], s) /\ np.at[s] = E[j - 1]
    BY <1>2, <1>6
  <2>. QED BY <1>4, <1>5, <2>1 DEF FldOk, np, s, size, layout
<1>7. CASE ~ \E j \in 1..n : Goes(layout[j], s)
  <2>1. np.at[s] = ABSENT
    BY <1>2, <1>7
  <2>. QED BY <1>4, <1>7, <2>1 DEF FldOk, np, s, size, layout
<1>. QED BY <1>6, <1>7

(* A record that can be read with the offsets of its own layout says what  *)
(* its flow was.                                                           *)
LEMMA RecordIsTruth ==
  ASSUME NEW ipfix \in BOOLEAN, NEW set, IsDataSet(set, ipfix), Plain(set.layout),
         NEW k \in 1..Len(set.flows), NEW guess, NEW np,
         np = Offsets(set.layout, ipfix),
         Readable(np, Protocol(np, set, k, guess))
  PROVE  Record(np, set, k, guess) = Truth(set.flows[k], set.layout)
<1>. DEFINE layout == set.layout
            f == set.flows[k]
            p == Protocol(np, set, k, guess)
            size == IF np.isv6 THEN 16 ELSE 4
            src == IF f.v6 THEN "v6src" ELSE "v4src"
            dst == IF f.v6 THEN "v6dst" ELSE "v4dst"
<1>1. IsFlow(f) /\ f.v6 = Has(layout, "v6src") /\ f.v6 = np.isv6 /\ f.v6 \in BOOLEAN
  <2>1. f \in ToSet(set.flows)
    BY LenProperties DEF IsDataSet, IsSeq, ToSet
  <2>2. np.isv6 = Has(layout, "v6src")
    BY PlainOffsets DEF IsDataSet
  <2>. QED BY <2>1, <2>2 DEF IsDataSet, IsFlow
<1>2. ASSUME NEW ie \in DOMAIN Slot, OfFamily(ie, layout)
      PROVE  /\ Has(layout, ie) = FldOk(np, Slot[ie], ReadLen[ie])
             /\ Has(layout, ie) = (np.at[Slot[ie]] # ABSENT)
             /\ Has(layout, ie) =>
                  Field(np, set, k, Slot[ie], ReadLen[ie]) = Value(f, ie)
  BY <1>2, FieldIsValue
<1>3. /\ Slot["proto"] = "proto" /\ ReadLen["proto"] = 1
      /\ Slot["flags"] = "flags" /\ ReadLen["flags"] = 1
      /\ Slot["sport"] = "sport" /\ ReadLen["sport"] = 2
      /\ Slot["dport"] = "dport" /\ ReadLen["dport"] = 2
      /\ Slot["icmp"] = "icmp" /\ ReadLen["icmp"] = 2
      /\ {"proto", "flags", "sport", "dport", "icmp"} \subseteq DOMAIN Slot
  BY DEF Slot, ReadLen
<1>4. /\ src \in DOMAIN Slot /\ dst \in DOMAIN Slot
      /\ Slot[src] = "src" /\ Slot[dst] = "dst"
      /\ ReadLen[src] = size /\ ReadLen[dst] = size
  BY <1>1 DEF Slot, ReadLen
<1>5. OfFamily(src, layout) /\ OfFamily(dst, layout)
  BY <1>1 DEF OfFamily
<1>6. \A ie \in {"proto", "flags", "sport", "dport", "icmp"} : OfFamily(ie, layout)
  BY DEF OfFamily
<1>. HIDE DEF layout, f
<1>7. /\ FldOk(np, "src", size) /\ FldOk(np, "dst", size) /\ FldOk(np, "proto", 1)
      /\ NeedsPorts(p) \/ NeedsType(p)
      /\ NeedsPorts(p) => FldOk(np, "sport", 2) /\ FldOk(np, "dport", 2)
      /\ NeedsType(p)  => FldOk(np, "icmp", 2)
  BY DEF Readable
<1>. HIDE DEF size, src, dst
<1>8. ASSUME NEW ie \in {"proto", "flags", "sport", "dport", "icmp"},
             FldOk(np, Slot[ie], ReadLen[ie])
      PROVE  Field(np, set, k, Slot[ie], ReadLen[ie]) = Value(f, ie)
  BY <1>2, <1>3, <1>6, <1>8
<1>9. p = f.proto
  <2>1. Field(np, set, k, "proto", 1) = f.proto
    <3>1. Value(f, "proto") = f.proto
      BY DEF Value
    <3>. QED BY <1>3, <1>7, <1>8, <3>1
  <2>2. f.proto # Garbage
    BY <1>1, GarbageAssumption DEF IsFlow
  <2>. QED BY <2>1, <2>2 DEF Protocol
<1>. HIDE DEF p
<1>10. /\ Field(np, set, k, "src", size) = <<f.name, src>>
       /\ Field(np, set, k, "dst", size) = <<f.name, dst>>
  <2>1. /\ Field(np, set, k, "src", size) = Value(f, src)
        /\ Field(np, set, k, "dst", size) = Value(f, dst)
    BY <1>2, <1>4, <1>5, <1>7
  <2>2. Value(f, src) = <<f.name, src>> /\ Value(f, dst) = <<f.name, dst>>
    BY <1>1 DEF Value, src, dst
  <2>. QED BY <2>1, <2>2
<1>11. NeedsPorts(p) => /\ Field(np, set, k, "sport", 2) = <<f.name, "sport">>
                        /\ Field(np, set, k, "dport", 2) = <<f.name, "dport">>
  <2>1. Value(f, "sport") = <<f.name, "sport">> /\ Value(f, "dport") = <<f.name, "dport">>
    BY DEF Value
  <2>. QED BY <1>3, <1>7, <1>8, <2>1
<1>12. NeedsType(p) => Field(np, set, k, "icmp", 2) = <<f.name, "icmp">>
  <2>1. Value(f, "icmp") = <<f.name, "icmp">>
    BY DEF Value
  <2>. QED BY <1>3, <1>7, <1>8, <2>1
<1>13. /\ FldOk(np, "flags", 1) = Has(layout, "flags")
       /\ FldOk(np, "flags", 1) => Field(np, set, k, "flags", 1) = f.flags
  <2>1. Value(f, "flags") = f.flags
    BY DEF Value
  <2>. QED BY <1>2, <1>3, <1>6, <1>8, <2>1
<1>14. /\ NeedsType(p) => ~NeedsPorts(p)
       /\ NeedsPorts(p) = NeedsPorts(f.proto)
       /\ (IF NeedsPorts(p) THEN np.isv6 ELSE p = "icmp6") = f.v6
  BY <1>1, <1>7, <1>9 DEF NeedsPorts, NeedsType, IsFlow
<1>15. Record(np, set, k, guess) =
         [src |-> <<f.name, src>>, dst |-> <<f.name, dst>>,
          data1 |-> <<f.name, IF NeedsPorts(f.proto) THEN "sport" ELSE "icmp">>,
          data2 |-> <<f.name, IF NeedsPorts(f.proto) THEN "dport" ELSE "icmp">>,
          flag |-> CASE f.proto = "tcp" -> IF Has(layout, "flags")
                                           THEN TcpFlag(f.flags) ELSE "ACK"
                     [] f.proto = "udp" -> "UDP"
                     [] OTHER           -> "ICMP",
          v6 |-> f.v6]
  <2>. DEFINE get(slot, n) == Field(np, set, k, slot, n)
              flag == CASE p = "tcp" -> IF FldOk(np, "flags", 1)
                                        THEN TcpFlag(get("flags", 1)) ELSE "ACK"
                        [] p = "udp" -> "UDP"
                        [] OTHER     -> "ICMP"
              six  == IF NeedsPorts(p) THEN np.isv6 ELSE p = "icmp6"
              data1 == IF NeedsPorts(p) THEN get("sport", 2) ELSE get("icmp", 2)
              data2 == IF NeedsPorts(p) THEN get("dport", 2) ELSE get("icmp", 2)
  <2>1. Record(np, set, k, guess) =
          [src |-> get("src", size), dst |-> get("dst", size),
           data1 |-> data1, data2 |-> data2, flag |-> flag, v6 |-> six]
    BY DEF Record, p, size
  <2>2. /\ data1 = <<f.name, IF NeedsPorts(f.proto) THEN "sport" ELSE "icmp">>
        /\ data2 = <<f.name, IF NeedsPorts(f.proto) THEN "dport" ELSE "icmp">>
    BY <1>7, <1>11, <1>12, <1>14
  <2>3. flag = CASE f.proto = "tcp" -> IF Has(layout, "flags")
                                       THEN TcpFlag(f.flags) ELSE "ACK"
                 [] f.proto = "udp" -> "UDP"
                 [] OTHER           -> "ICMP"
    BY <1>9, <1>13
  <2>4. six = f.v6
    BY <1>14
  <2>. HIDE DEF flag, six, data1, data2
  <2>. QED BY <1>10, <2>1, <2>2, <2>3, <2>4
<1>. QED BY <1>1, <1>15 DEF Truth, src, dst, f, layout

(* The decoder can read exactly the flows that tell what it needs.         *)
LEMMA ReadableIfTold ==
  ASSUME NEW ipfix \in BOOLEAN, NEW set, IsDataSet(set, ipfix), Plain(set.layout),
         NEW k \in 1..Len(set.flows), NEW guess, NEW np,
         np = Offsets(set.layout, ipfix)
  PROVE  Readable(np, Protocol(np, set, k, guess)) <=> Told(set.flows[k], set.layout)
<1>. DEFINE layout == set.layout
            f == set.flows[k]
            p == Protocol(np, set, k, guess)
            size == IF np.isv6 THEN 16 ELSE 4
            src == IF f.v6 THEN "v6src" ELSE "v4src"
            dst == IF f.v6 THEN "v6dst" ELSE "v4dst"
<1>1. IsFlow(f) /\ f.v6 = np.isv6 /\ f.v6 = Has(layout, "v6src") /\ f.v6 \in BOOLEAN
  <2>1. f \in ToSet(set.flows)
    BY LenProperties DEF IsDataSet, IsSeq, ToSet
  <2>2. np.isv6 = Has(layout, "v6src")
    BY PlainOffsets DEF IsDataSet
  <2>. QED BY <2>1, <2>2 DEF IsDataSet, IsFlow
<1>2. ASSUME NEW ie \in DOMAIN Slot, OfFamily(ie, layout)
      PROVE  /\ Has(layout, ie) = FldOk(np, Slot[ie], ReadLen[ie])
             /\ Has(layout, ie) =>
                  Field(np, set, k, Slot[ie], ReadLen[ie]) = Value(f, ie)
  BY <1>2, FieldIsValue
<1>3. /\ Slot["proto"] = "proto" /\ ReadLen["proto"] = 1
      /\ Slot["sport"] = "sport" /\ ReadLen["sport"] = 2
      /\ Slot["dport"] = "dport" /\ ReadLen["dport"] = 2
      /\ Slot["icmp"] = "icmp" /\ ReadLen["icmp"] = 2
      /\ {"proto", "sport", "dport", "icmp"} \subseteq DOMAIN Slot
  BY DEF Slot, ReadLen
<1>4. /\ src \in DOMAIN Slot /\ dst \in DOMAIN Slot
      /\ Slot[src] = "src" /\ Slot[dst] = "dst"
      /\ ReadLen[src] = size /\ ReadLen[dst] = size
  BY <1>1 DEF Slot, ReadLen
<1>5. OfFamily(src, layout) /\ OfFamily(dst, layout)
  BY <1>1 DEF OfFamily
<1>6. \A ie \in {"proto", "sport", "dport", "icmp"} : OfFamily(ie, layout)
  BY DEF OfFamily
<1>7. Has(layout, src) = Has(layout, dst)
  <2>1. /\ Has(layout, "v4src") = Has(layout, "v4dst")
        /\ Has(layout, "v6src") = Has(layout, "v6dst")
    BY DEF Plain
  <2>. HIDE DEF layout, f
  <2>. QED BY <1>1, <2>1
<1>. HIDE DEF layout, f
<1>8. /\ FldOk(np, "proto", 1) = Has(layout, "proto")
      /\ FldOk(np, "sport", 2) = Has(layout, "sport")
      /\ FldOk(np, "dport", 2) = Has(layout, "dport")
      /\ FldOk(np, "icmp", 2) = Has(layout, "icmp")
  BY <1>2, <1>3, <1>6
<1>9. FldOk(np, "src", size) = Has(layout, src) /\ FldOk(np, "dst", size) = Has(layout, dst)
  <2>. HIDE DEF size, src, dst
  <2>. QED BY <1>2, <1>4, <1>5
<1>10. ASSUME Has(layout, "proto") PROVE p = f.proto
  <2>1. Field(np, set, k, "proto", 1) = f.proto
    <3>1. Value(f, "proto") = f.proto
      BY DEF Value
    <3>. QED BY <1>2, <1>3, <1>6, <1>10, <3>1
  <2>2. f.proto # Garbage
    BY <1>1, GarbageAssumption DEF IsFlow
  <2>. QED BY <2>1, <2>2 DEF Protocol
<1>11. Readable(np, p) <=>
         /\ Has(layout, src) /\ Has(layout, "proto")
         /\ NeedsPorts(p) \/ NeedsType(p)
         /\ NeedsPorts(p) => Has(layout, "sport") /\ Has(layout, "dport")
         /\ NeedsType(p)  => Has(layout, "icmp")
  <2>1. Readable(np, p) <=>
          /\ FldOk(np, "src", size) /\ FldOk(np, "dst", size) /\ FldOk(np, "proto", 1)
          /\ NeedsPorts(p) \/ NeedsType(p)
          /\ NeedsPorts(p) => FldOk(np, "sport", 2) /\ FldOk(np, "dport", 2)
          /\ NeedsType(p)  => FldOk(np, "icmp", 2)
    BY DEF Readable
  <2>. HIDE DEF p, size, src, dst
  <2>. QED BY <1>7, <1>8, <1>9, <2>1
<1>12. Told(f, layout) <=>
         /\ Has(layout, "proto") /\ Has(layout, src)
         /\ IF NeedsPorts(f.proto) THEN Has(layout, "sport") /\ Has(layout, "dport")
            ELSE NeedsType(f.proto) /\ Has(layout, "icmp")
  <2>1. Plain(layout)
    BY DEF layout
  <2>. QED BY <2>1 DEF Told
<1>13. ~(NeedsPorts(f.proto) /\ NeedsType(f.proto))
  BY DEF NeedsPorts, NeedsType
<1>. HIDE DEF p, src
<1>14. Readable(np, p) <=> Told(f, layout)
  BY <1>10, <1>11, <1>12, <1>13
<1>. QED BY <1>14 DEF p, f, layout

(* What one flow of a set adds to its records, read with its own layout.   *)
TruthOf(f, layout) == IF Told(f, layout) THEN <<Truth(f, layout)>> ELSE <<>>

(* How many records there is room for is a number.                         *)
LEMMA CountIsInt ==
  ASSUME NEW ipfix \in BOOLEAN, NEW set, IsDataSet(set, ipfix), NEW np,
         np.len \in Nat, Usable(np)
  PROVE  (SetLen(set) - SET_HDR) \div np.len \in Int
<1>1. /\ set.layout \in Seq(Fields(ipfix)) /\ Len(set.flows) \in Nat
      /\ set.pad \in 0..3 /\ set.kind = "data"
  BY LenProperties DEF IsDataSet, IsSeq
<1>2. Width(set.layout) \in Nat
  <2>1. Len(set.layout) \in 0..Len(set.layout)
    BY <1>1, LenProperties
  <2>. QED BY <1>1, <2>1, EndsAre DEF Width
<1>3. np.len \in Nat \ {0}
  BY DEF Usable
<1>. DEFINE all == Len(set.flows) * Width(set.layout)
<1>4. all \in Nat /\ SetLen(set) = SET_HDR + all + set.pad
  BY <1>1, <1>2 DEF SetLen
<1>. HIDE DEF all
<1>5. SetLen(set) - SET_HDR \in Int
  BY <1>1, <1>4 DEF SET_HDR
<1>. QED BY <1>3, <1>5

(* The records of a data set are those of the positions that can be read.  *)
LEMMA RecordsIn ==
  ASSUME NEW ipfix \in BOOLEAN, NEW set, IsDataSet(set, ipfix), NEW guess, NEW np,
         np.len \in Nat, NEW S,
         \A k \in Nat \ {0} : k <= (SetLen(set) - SET_HDR) \div np.len /\ Usable(np)
              /\ Readable(np, Protocol(np, set, k, guess))
           => Record(np, set, k, guess) \in S
  PROVE  Records(np, set, guess) \in Seq(S)
<1>. DEFINE count == (SetLen(set) - SET_HDR) \div np.len
            wanted(k) == Readable(np, Protocol(np, set, k, guess))
            s == [k \in 1..count |->
                    IF wanted(k) THEN <<Record(np, set, k, guess)>> ELSE <<>>]
<1>1. CASE ~Usable(np)
  <2>1. Records(np, set, guess) = <<>>
    BY <1>1 DEF Records
  <2>. QED BY <2>1
<1>2. CASE Usable(np)
  <2>1. Records(np, set, guess) = FlattenSeq(s)
    BY <1>2 DEF Records
  <2>2. count \in Int
    BY <1>2, CountIsInt
  <2>3. \A k \in 1..count : wanted(k) => Record(np, set, k, guess) \in S
    <3>. HIDE DEF count
    <3>1. \A k \in 1..count : k \in Nat \ {0} /\ k <= count
      BY <2>2
    <3>. QED BY <1>2, <3>1 DEF count
  <2>. HIDE DEF count, wanted
  <2>4. count \in Nat \/ s = <<>>
    <3>1. count \notin Nat => 1..count = {}
      BY <2>2
    <3>2. 1..count = {} => s = <<>>
      OBVIOUS
    <3>. QED BY <3>1, <3>2
  <2>5. s \in Seq(Seq(S))
    <3>1. CASE count \in Nat
      <4>1. s \in [1..count -> Seq(S)]
        BY <2>3
      <4>. HIDE DEF s
      <4>. QED BY <3>1, <4>1, FunctionIsSeq
    <3>2. CASE s = <<>>
      <4>. HIDE DEF s
      <4>. QED BY <3>2
    <3>. QED BY <2>4, <3>1, <3>2
  <2>. HIDE DEF s
  <2>. QED BY <2>1, <2>5, FlattenType
<1>. QED BY <1>1, <1>2

(* A set has room for its own flows only, the padding being too short.     *)
LEMMA CountIs ==
  ASSUME NEW ipfix \in BOOLEAN, NEW set, IsDataSet(set, ipfix), Plain(set.layout),
         NEW np, np = Offsets(set.layout, ipfix),
         Usable(np), NEW size \in {4, 16}, FldOk(np, "src", size)
  PROVE  (SetLen(set) - SET_HDR) \div np.len = Len(set.flows)
<1>1. /\ set.layout \in Seq(Fields(ipfix)) /\ Len(set.flows) \in Nat
      /\ set.pad \in 0..3 /\ set.kind = "data"
  BY LenProperties DEF IsDataSet, IsSeq
<1>2. np.len = Width(set.layout) /\ np.len \in Nat
  BY <1>1, PlainOffsets
<1>3. np.len \in Nat \ {0} /\ np.at["src"] # ABSENT
  BY <1>2 DEF Usable
<1>4. np.at["src"] \in Nat
  <2>1. "src" \in Slots
    BY DEF Slots
  <2>2. PICK j \in 1..Len(set.layout) : np.at["src"] = Ends(set.layout)[j - 1]
    BY <1>1, <1>3, <2>1, PlainOffsets
  <2>3. j - 1 \in 0..Len(set.layout)
    BY <1>1, LenProperties
  <2>. QED BY <1>1, <2>2, <2>3, EndsAre
<1>5. 4 <= np.len
  BY <1>3, <1>4 DEF FldOk
<1>. DEFINE l == Len(set.flows)
            w == np.len
            o == set.pad
            all == l * w
<1>6. SetLen(set) - SET_HDR = all + o
  <2>1. all \in Nat
    BY <1>1, <1>3
  <2>2. SetLen(set) = SET_HDR + all + o
    BY <1>1, <1>2 DEF SetLen
  <2>. HIDE DEF all
  <2>. QED BY <1>1, <2>1, <2>2 DEF SET_HDR
<1>7. (l * w + o) \div w = l
  <2>1. l \in Nat /\ w \in Nat \ {0} /\ o \in 0..w - 1
    BY <1>1, <1>3, <1>5
  <2>. HIDE DEF l, w, o
  <2>. QED BY <2>1, Divides
<1>. QED BY <1>6, <1>7

(* The records of a set read with its own layout: those of the flows that  *)
(* tell enough, one after the other.                                       *)
LEMMA RecordsAre ==
  ASSUME NEW ipfix \in BOOLEAN, NEW set, IsDataSet(set, ipfix), Plain(set.layout),
         NEW guess, NEW np, np = Offsets(set.layout, ipfix)
  PROVE  Records(np, set, guess) =
           FlattenSeq([k \in DOMAIN set.flows |-> TruthOf(set.flows[k], set.layout)])
<1>. DEFINE n == Len(set.flows)
            told == [k \in DOMAIN set.flows |-> TruthOf(set.flows[k], set.layout)]
            count == (SetLen(set) - SET_HDR) \div np.len
            wanted(k) == Readable(np, Protocol(np, set, k, guess))
            read == [k \in 1..count |->
                       IF wanted(k) THEN <<Record(np, set, k, guess)>> ELSE <<>>]
            size == IF np.isv6 THEN 16 ELSE 4
            T == {Truth(set.flows[k], set.layout) : k \in 1..n}
<1>1. n \in Nat /\ DOMAIN set.flows = 1..n
  BY LenProperties DEF IsDataSet, IsSeq
<1>2. \A k \in 1..n : wanted(k) <=> Told(set.flows[k], set.layout)
  BY ReadableIfTold
<1>3. Usable(np) => Records(np, set, guess) = FlattenSeq(read)
  BY DEF Records
<1>4. ~Usable(np) => Records(np, set, guess) = <<>>
  BY DEF Records
<1>. HIDE DEF wanted, T
<1>5. CASE Usable(np) /\ FldOk(np, "src", size)
  <2>1. count = n
    <3>1. size \in {4, 16}
      OBVIOUS
    <3>. HIDE DEF size
    <3>. QED BY <1>5, <3>1, CountIs
  <2>2. \A k \in 1..n : (IF wanted(k) THEN <<Record(np, set, k, guess)>> ELSE <<>>) =
                        TruthOf(set.flows[k], set.layout)
    <3>1. \A k \in 1..n : wanted(k) =>
            Record(np, set, k, guess) = Truth(set.flows[k], set.layout)
      BY RecordIsTruth DEF wanted
    <3>. QED BY <1>2, <3>1 DEF TruthOf
  <2>. HIDE DEF count
  <2>3. read = told
    BY <1>1, <2>1, <2>2
  <2>. QED BY <1>3, <1>5, <2>3
<1>6. CASE ~(Usable(np) /\ FldOk(np, "src", size))
  <2>1. \A k : Usable(np) => ~wanted(k)
    BY <1>6 DEF wanted, Readable
  <2>2. \A k \in 1..n : ~wanted(k)
    <3>1. ASSUME NEW k \in 1..n, wanted(k) PROVE Usable(np)
      <4>1. FldOk(np, "src", size) /\ FldOk(np, "dst", size) /\ FldOk(np, "proto", 1)
        BY <3>1 DEF wanted, Readable
      <4>2. np.at["src"] \in Nat /\ np.len \in Nat
        <5>1. "src" \in Slots /\ np.at["src"] # ABSENT
          BY <4>1 DEF Slots, FldOk
        <5>2. np.len \in Nat /\ \E j \in 1..Len(set.layout) :
                np.at["src"] = Ends(set.layout)[j - 1]
          BY <5>1, PlainOffsets DEF IsDataSet
        <5>3. set.layout \in Seq(Fields(ipfix)) /\ Len(set.layout) \in Nat
          BY LenProperties DEF IsDataSet
        <5>4. \A j \in 1..Len(set.layout) : j - 1 \in 0..Len(set.layout)
          BY <5>3
        <5>. QED BY <5>2, <5>3, <5>4, EndsAre
      <4>3. np.len > 0
        BY <4>1, <4>2 DEF FldOk
      <4>. QED BY <4>1, <4>3 DEF Usable, FldOk
    <3>. QED BY <2>1, <3>1
  <2>3. Records(np, set, guess) = <<>>
    <3>1. \A k \in 1..count : Usable(np) => read[k] = <<>>
      BY <2>1
    <3>2. ASSUME Usable(np) PROVE FlattenSeq(read) = <<>>
      <4>. DEFINE S == {guess}
                  c == count
      <4>1. read = [k \in 1..c |-> <<>>]
        BY <2>1, <3>2
      <4>. HIDE DEF read, S, c
      <4>2. CASE 1..c = {}
        <5>1. read = <<>>
          BY <4>1, <4>2
        <5>. QED BY <5>1 DEF FlattenSeq
      <4>3. CASE 1..c # {}
        <5>1. c \in Nat
          <6>. QED BY <3>2, <4>3, CountIsInt, PlainOffsets DEF c, IsDataSet
        <5>2. read \in [1..c -> Seq(S)]
          BY <4>1
        <5>3. read \in Seq(Seq(S)) /\ Len(read) = c
          BY <5>1, <5>2, FunctionIsSeq
        <5>4. \A a \in 1..Len(read) : read[a] = <<>>
          BY <4>1, <5>3
        <5>. QED BY <5>3, <5>4, FlattenNone
      <4>. QED BY <4>2, <4>3
    <3>. QED BY <1>3, <1>4, <3>2
  <2>4. FlattenSeq(told) = <<>>
    <3>1. \A k \in 1..n : told[k] = <<>>
      BY <1>1, <1>2, <2>2 DEF TruthOf
    <3>2. told \in [1..n -> Seq(T)]
      <4>1. told = [k \in 1..n |-> <<>>]
        BY <1>1, <1>2, <2>2 DEF TruthOf
      <4>. HIDE DEF told
      <4>. QED BY <4>1
    <3>. HIDE DEF told, n
    <3>3. told \in Seq(Seq(T)) /\ Len(told) = n
      BY <1>1, <3>2, FunctionIsSeq
    <3>. QED BY <3>1, <3>3, FlattenNone
  <2>. QED BY <2>3, <2>4
<1>. QED BY <1>5, <1>6

(* The records of a plain layout read with its own offsets are those of    *)
(* flows of the set, the padding behind them is never taken for one.       *)
LEMMA RecordsAreTruths ==
  ASSUME NEW ipfix \in BOOLEAN, NEW set, IsDataSet(set, ipfix), Plain(set.layout),
         NEW guess, NEW np, np = Offsets(set.layout, ipfix)
  PROVE  Records(np, set, guess)
           \in Seq({Truth(f, set.layout) : f \in ToSet(set.flows)})
<1>. DEFINE T == {Truth(f, set.layout) : f \in ToSet(set.flows)}
            told == [k \in DOMAIN set.flows |-> TruthOf(set.flows[k], set.layout)]
            n == Len(set.flows)
<1>1. n \in Nat /\ DOMAIN set.flows = 1..n /\ \A k \in 1..n : set.flows[k] \in ToSet(set.flows)
  BY LenProperties, ElementOfSeq DEF IsDataSet, IsSeq
<1>2. \A k \in 1..n : TruthOf(set.flows[k], set.layout) \in Seq(T)
  <2>1. \A k \in 1..n : Truth(set.flows[k], set.layout) \in T
    BY <1>1
  <2>. HIDE DEF T, n
  <2>. QED BY <2>1 DEF TruthOf
<1>. HIDE DEF T, n
<1>3. told \in Seq(Seq(T))
  <2>1. told \in [1..n -> Seq(T)]
    BY <1>1, <1>2
  <2>. HIDE DEF told
  <2>. QED BY <1>1, <2>1, FunctionIsSeq
<1>4. Records(np, set, guess) = FlattenSeq(told)
  BY RecordsAre
<1>. HIDE DEF told
<1>. QED BY <1>3, <1>4, FlattenType DEF T

-----------------------------------------------------------------------------
(* Calls.                                                                  *)

IsFrame(t, via) == t = FrameTask(t.frame, t.text, via) /\ IsCaptured(t.frame)

IsReading(t) ==
  /\ t = [task |-> "reader", msg |-> t.msg, len |-> t.len, next |-> t.next,
          off |-> t.off]
  /\ t.next \in Nat \ {0}
  /\ \E x \in Feed[setup] : t.msg = Carried(setup, x)

(* Nothing, or a captured frame, or a datagram and maybe a frame sampled   *)
(* in it, with the guard up if the datagram comes from a capture.          *)
AtRest == stack = <<>> /\ suspend = 0

InCapture ==
  /\ suspend = 0 /\ setup.source # "socket"
  /\ \E t : stack = <<t>> /\ IsFrame(t, "captured") /\ t.frame \in Feed[setup]

InDatagram ==
  /\ suspend = (IF Translates THEN 1 ELSE 0) /\ setup.reads # "none"
  /\ \E r : /\ IsReading(r)
            /\ stack = <<r>> \/ \E t : stack = <<t, r>> /\ IsFrame(t, "sampled")

CallsInv ==
  /\ setup \in Setups /\ hasCache = MakesCache(setup) /\ alive \in BOOLEAN
  /\ AtRest \/ InCapture \/ InDatagram
  /\ DiesOnlyBehindSnort

LEMMA CallsInit == Init => CallsInv
BY DEF Init, CallsInv, AtRest, DiesOnlyBehindSnort

(* A stack of one call and of two. *)
LEMMA One ==
  ASSUME NEW t
  PROVE  /\ <<t>> # <<>> /\ <<t>>[1] = t /\ Tail(<<t>>) = <<>> /\ Len(<<t>>) = 1
         /\ \A u : <<u>> \o <<>> = <<u>>
         /\ \A u, v : <<u, v>> \o <<>> = <<u, v>>
OBVIOUS

LEMMA Two ==
  ASSUME NEW t, NEW r
  PROVE  /\ <<t, r>> # <<>> /\ <<t, r>>[1] = t /\ <<t, r>>[2] = r
         /\ Tail(<<t, r>>) = <<r>> /\ Len(<<t, r>>) = 2
OBVIOUS

LEMMA Tasks ==
  /\ \A t, via : IsFrame(t, via) => t.task = "frame" /\ t.via = via
  /\ \A t : IsReading(t) => t.task = "reader"
BY DEF IsFrame, IsReading, FrameTask

(* A frame is being worked on ... *)
LEMMA FrameOnTop ==
  ASSUME CallsInv, InFrame
  PROVE  \/ InCapture /\ stack = <<Top>> /\ Pop = <<>> /\ IsFrame(Top, "captured")
            /\ Top.frame \in Feed[setup]
         \/ /\ InDatagram /\ IsFrame(Top, "sampled")
            /\ \E r : IsReading(r) /\ stack = <<Top, r>> /\ Pop = <<r>>
<1>1. ~AtRest /\ Top.task = "frame"
  BY DEF AtRest, InFrame
<1>2. CASE InCapture
  <2>1. PICK t : stack = <<t>> /\ IsFrame(t, "captured") /\ t.frame \in Feed[setup]
    BY <1>2 DEF InCapture
  <2>. QED BY <1>2, <2>1, One DEF Top, Pop
<1>3. CASE InDatagram
  <2>1. PICK r : /\ IsReading(r)
                 /\ stack = <<r>> \/ \E t : stack = <<t, r>> /\ IsFrame(t, "sampled")
    BY <1>3 DEF InDatagram
  <2>2. stack # <<r>>
    BY <1>1, <2>1, One, Tasks DEF Top
  <2>3. PICK t : stack = <<t, r>> /\ IsFrame(t, "sampled")
    BY <2>1, <2>2
  <2>. QED BY <1>3, <2>1, <2>3, Two DEF Top, Pop
<1>. QED BY <1>1, <1>2, <1>3 DEF CallsInv

(* ... or a datagram.                                                      *)
LEMMA ReaderOnTop ==
  ASSUME CallsInv, InReader
  PROVE  InDatagram /\ stack = <<Top>> /\ Pop = <<>> /\ IsReading(Top)
<1>1. ~AtRest /\ Top.task = "reader"
  BY DEF AtRest, InReader
<1>2. ~InCapture
  <2>1. ASSUME NEW t, stack = <<t>>, IsFrame(t, "captured") PROVE FALSE
    BY <1>1, <2>1, One, Tasks DEF Top
  <2>. QED BY <2>1 DEF InCapture
<1>3. InDatagram
  BY <1>1, <1>2 DEF CallsInv
<1>4. PICK r : /\ IsReading(r)
               /\ stack = <<r>> \/ \E t : stack = <<t, r>> /\ IsFrame(t, "sampled")
  BY <1>3 DEF InDatagram
<1>5. ASSUME NEW t, stack = <<t, r>>, IsFrame(t, "sampled") PROVE FALSE
  BY <1>1, <1>5, Two, Tasks DEF Top
<1>. QED BY <1>3, <1>4, <1>5, One DEF Top, Pop

(* What is understood is an export for which the feed has been made.       *)
LEMMA ReaderKnows ==
  ASSUME CallsInv, InReader, Understood(Top)
  PROVE  /\ Top.msg \in Exports(setup) /\ Top.msg.kind = setup.reads
         /\ IF Top.msg.kind = "sflow"
            THEN /\ IsSeq(Top.msg.samples) /\ Len(Top.msg.samples) \in Nat
                 /\ \A x \in ToSet(Top.msg.samples) : IsCaptured(x.frame)
            ELSE /\ IsSeq(Top.msg.sets)
                 /\ \A set \in ToSet(Top.msg.sets) :
                      \/ IsTemplateSet(set, Top.msg.kind = "ipfix")
                      \/ set.kind = "options"
                      \/ /\ IsDataSet(set, Top.msg.kind = "ipfix")
                         /\ <<Top.msg.id, set.tid>> \in Keys
<1>1. /\ Top.msg # NoExport /\ Top.msg.kind = setup.reads
      /\ \E x \in Feed[setup] : Top.msg = Carried(setup, x)
  BY ReaderOnTop DEF Understood, IsReading
<1>2. Top.msg \in Exports(setup)
  BY <1>1 DEF Exports
<1>3. setup \in Setups
  BY DEF CallsInv
<1>. QED BY <1>1, <1>2, <1>3, FeedAssumption, LenProperties DEF IsSeq

LEMMA ThisSetIs ==
  ASSUME CallsInv, InReader, HasSet(Top)
  PROVE  /\ Understood(Top) /\ Top.msg.kind # "sflow"
         /\ Top.msg.kind \in {"netflow", "ipfix"}
         /\ ThisSet \in ToSet(Top.msg.sets)
<1>1. /\ Understood(Top) /\ Top.msg.kind # "sflow" /\ Top.next <= Len(Top.msg.sets)
      /\ Top.next \in Nat \ {0}
  BY ReaderOnTop DEF HasSet, IsReading
<1>2. IsSeq(Top.msg.sets) /\ Top.msg.kind = setup.reads
  BY <1>1, ReaderKnows
<1>3. ThisSet \in ToSet(Top.msg.sets)
  <2>1. Len(Top.msg.sets) \in Nat
    BY <1>2, LenProperties DEF IsSeq
  <2>2. Top.next \in 1..Len(Top.msg.sets)
    BY <1>1, <2>1
  <2>. QED BY <1>2, <2>2 DEF ThisSet, ToSet, IsSeq
<1>4. setup.reads # "none" /\ setup.reads \in Protocols
  BY ReaderOnTop, FlyAssumption DEF InDatagram, CallsInv
<1>. QED BY <1>1, <1>2, <1>3, <1>4 DEF Protocols

LEMMA CallsNext == CallsInv /\ [Next]_vars => CallsInv'
<1>. SUFFICES ASSUME CallsInv, [Next]_vars PROVE CallsInv'
  OBVIOUS
<1>0. setup \in Setups /\ hasCache = MakesCache(setup) /\ alive \in BOOLEAN
  BY DEF CallsInv
<1>1. ASSUME NEW x \in Feed[setup], Arrive(x) PROVE CallsInv'
  <2>1. /\ alive /\ stack = <<>>
        /\ UNCHANGED <<setup, hasCache, cache, sent, suspend, alive>>
        /\ stack' = IF setup.source = "socket" THEN <<Reader(x, MsgLen(x))>>
                    ELSE <<FrameTask(x, IF setup.source = "snort" /\ setup.report
                                        THEN "incident" ELSE "", "captured")>>
    BY <1>1 DEF Arrive
  <2>2. suspend = 0
    <3>1. (~InCapture) /\ ~InDatagram
      BY <2>1, One, Two DEF InCapture, InDatagram
    <3>. QED BY <3>1 DEF CallsInv, AtRest
  <2>3. CASE setup.source = "socket"
    <3>1. \E r : IsReading(r)' /\ stack' = <<r>>
      <4>1. PICK r : r = Reader(x, MsgLen(x))
        OBVIOUS
      <4>2. /\ r = [task |-> "reader", msg |-> r.msg, len |-> r.len,
                    next |-> r.next, off |-> r.off]
            /\ r.next = 1 /\ r.msg = x
        BY <4>1 DEF Reader
      <4>3. Carried(setup', x) = x
        BY <2>1, <2>3 DEF Carried
      <4>4. IsReading(r)'
        <5>1. r.next \in Nat \ {0}
          BY <4>2
        <5>2. \E y \in Feed[setup'] : r.msg = Carried(setup', y)
          BY <2>1, <4>2, <4>3
        <5>. QED BY <4>2, <5>1, <5>2 DEF IsReading
      <4>. QED BY <2>1, <2>3, <4>1, <4>4
    <3>2. ~Translates' /\ setup'.reads # "none" /\ suspend' = 0
      BY <1>0, <2>1, <2>2, <2>3, FlyAssumption DEF Translates
    <3>3. InDatagram'
      BY <2>1, <2>3, <3>1, <3>2 DEF InDatagram
    <3>. QED BY <1>0, <2>1, <3>3 DEF CallsInv, DiesOnlyBehindSnort, MakesCache
  <2>4. CASE setup.source # "socket"
    <3>1. PICK t : stack' = <<t>> /\ IsFrame(t, "captured") /\ t.frame = x
      <4>. DEFINE text == IF setup.source = "snort" /\ setup.report
                          THEN "incident" ELSE ""
                  t == FrameTask(x, text, "captured")
      <4>1. stack' = <<t>>
        BY <2>1, <2>4
      <4>2. IsFrame(t, "captured") /\ t.frame = x
        <5>1. IsCaptured(x)
          BY <1>0, <2>4, FrameAssumption
        <5>. HIDE DEF text
        <5>. QED BY <5>1 DEF IsFrame, FrameTask
      <4>. QED BY <4>1, <4>2
    <3>2. InCapture'
      BY <2>1, <2>2, <2>4, <3>1 DEF InCapture
    <3>. QED BY <1>0, <2>1, <3>2 DEF CallsInv, DiesOnlyBehindSnort, MakesCache
  <2>. QED BY <2>3, <2>4
<1>2. ASSUME InFrame, stack' = Pop, UNCHANGED <<setup, hasCache, suspend, alive>>
      PROVE  CallsInv'
  <2>1. CASE InCapture /\ Pop = <<>>
    <3>1. AtRest'
      BY <1>2, <2>1 DEF AtRest, InCapture
    <3>. QED BY <1>0, <1>2, <3>1 DEF CallsInv, DiesOnlyBehindSnort, MakesCache
  <2>2. CASE InDatagram /\ \E r : IsReading(r) /\ Pop = <<r>>
    <3>1. PICK r : IsReading(r) /\ Pop = <<r>>
      BY <2>2
    <3>2. IsReading(r)'
      BY <1>2, <3>1 DEF IsReading, Carried
    <3>3. InDatagram'
      BY <1>2, <2>2, <3>1, <3>2 DEF InDatagram, Translates
    <3>. QED BY <1>0, <1>2, <3>3 DEF CallsInv, DiesOnlyBehindSnort, MakesCache
  <2>. QED BY <1>2, <2>1, <2>2, FrameOnTop
<1>3. CASE TranslateFrame
  <2>1. /\ InFrame /\ Translates /\ suspend = 0 /\ suspend' = 1
        /\ UNCHANGED <<setup, hasCache, alive>>
        /\ \E l : stack' = <<Reader(Top.frame.payload, l)>> \o Pop
    BY <1>3 DEF TranslateFrame, Decodes
  <2>2. ~InDatagram
    BY <2>1 DEF InDatagram
  <2>3. Pop = <<>> /\ Top.frame \in Feed[setup]
    BY <2>1, <2>2, FrameOnTop
  <2>4. PICK l : stack' = <<Reader(Top.frame.payload, l)>>
    BY <2>1, <2>3, One
  <2>5. setup.reads # "none" /\ setup.source # "socket"
    BY <2>1 DEF Translates
  <2>. DEFINE r == Reader(Top.frame.payload, l)
  <2>6. /\ r = [task |-> "reader", msg |-> r.msg, len |-> r.len,
                next |-> r.next, off |-> r.off]
        /\ r.next = 1 /\ r.msg = Carried(setup, Top.frame)
    BY <2>5 DEF Reader, Carried
  <2>. HIDE DEF r
  <2>7. InDatagram'
    <3>1. PICK q : q = r
      OBVIOUS
    <3>2. IsReading(q)'
      <4>1. /\ q = [task |-> "reader", msg |-> q.msg, len |-> q.len,
                    next |-> q.next, off |-> q.off]
            /\ q.next \in Nat \ {0}
        BY <2>6, <3>1
      <4>2. \E x \in Feed[setup'] : q.msg = Carried(setup', x)
        BY <2>1, <2>3, <2>6, <3>1
      <4>. QED BY <4>1, <4>2 DEF IsReading
    <3>3. stack' = <<q>>
      BY <2>4, <3>1 DEF r
    <3>. QED BY <2>1, <2>5, <3>2, <3>3 DEF InDatagram, Translates
  <2>. QED BY <1>0, <2>1, <2>7 DEF CallsInv, DiesOnlyBehindSnort, MakesCache
<1>4. ASSUME InReader, NEW t, t.next \in Nat \ {0}, t.msg = Top.msg,
             t = [task |-> "reader", msg |-> t.msg, len |-> t.len, next |-> t.next,
                  off |-> t.off],
             \/ stack' = <<t>> \o Pop
             \/ \E f : /\ IsCaptured(f)
                      /\ stack' = <<FrameTask(f, "", "sampled"), t>> \o Pop,
             UNCHANGED <<setup, hasCache, suspend, alive>>
      PROVE  CallsInv'
  <2>1. InDatagram /\ Pop = <<>> /\ IsReading(Top)
    BY <1>4, ReaderOnTop
  <2>2. IsReading(t)'
    BY <1>4, <2>1 DEF IsReading, Carried
  <2>3. stack' = <<t>> \/ \E u : stack' = <<u, t>> /\ IsFrame(u, "sampled")
    <3>1. CASE stack' = <<t>> \o Pop
      BY <2>1, <3>1, One
    <3>2. ASSUME NEW f, IsCaptured(f),
                 stack' = <<FrameTask(f, "", "sampled"), t>> \o Pop
          PROVE  \E u : stack' = <<u, t>> /\ IsFrame(u, "sampled")
      <4>1. stack' = <<FrameTask(f, "", "sampled"), t>>
        BY <2>1, <3>2, One
      <4>2. IsFrame(FrameTask(f, "", "sampled"), "sampled")
        BY <3>2 DEF IsFrame, FrameTask
      <4>. QED BY <4>1, <4>2
    <3>. QED BY <1>4, <3>1, <3>2
  <2>4. InDatagram'
    BY <1>4, <2>1, <2>2, <2>3 DEF InDatagram, Translates
  <2>. QED BY <1>0, <1>4, <2>4 DEF CallsInv, DiesOnlyBehindSnort, MakesCache
<1>5. ASSUME InReader, NEW by
      PROVE  LET t == Advanced(Top, by)
             IN  /\ t.next \in Nat \ {0} /\ t.msg = Top.msg
                 /\ t = [task |-> "reader", msg |-> t.msg, len |-> t.len,
                         next |-> t.next, off |-> t.off]
  <2>1. IsReading(Top)
    BY <1>5, ReaderOnTop
  <2>2. \A u : IsReading(u) =>
          Advanced(u, by) = [task |-> "reader", msg |-> u.msg, len |-> u.len,
                             next |-> u.next + 1, off |-> u.off + by]
    <3>2. ASSUME NEW u, IsReading(u)
          PROVE  u = [task |-> "reader", msg |-> u.msg, len |-> u.len,
                      next |-> u.next, off |-> u.off]
      BY <3>2 DEF IsReading
    <3>3. \A u : Advanced(u, by) = [u EXCEPT !.next = u.next + 1, !.off = u.off + by]
      BY DEF Advanced
    <3>4. ASSUME NEW u, IsReading(u), NEW n2, NEW o2
          PROVE  [u EXCEPT !.next = n2, !.off = o2]
                   = [task |-> "reader", msg |-> u.msg, len |-> u.len,
                      next |-> n2, off |-> o2]
      <4>. DEFINE v == [task |-> "reader", msg |-> u.msg, len |-> u.len,
                        next |-> n2, off |-> u.off]
      <4>1. [u EXCEPT !.next = n2] = v
        BY <3>4 DEF IsReading
      <4>2. [u EXCEPT !.next = n2, !.off = o2] = [[u EXCEPT !.next = n2] EXCEPT !.off = o2]
        OBVIOUS
      <4>3. [v EXCEPT !.off = o2] = [task |-> "reader", msg |-> u.msg, len |-> u.len,
                                     next |-> n2, off |-> o2]
        OBVIOUS
      <4>. HIDE DEF v
      <4>. QED BY <4>1, <4>2, <4>3
    <3>. QED BY <3>3, <3>4, ZenonT(30)
  <2>3. Advanced(Top, by) = [task |-> "reader", msg |-> Top.msg, len |-> Top.len,
                             next |-> Top.next + 1, off |-> Top.off + by]
    BY <2>1, <2>2
  <2>4. Top.next + 1 \in Nat \ {0}
    BY <2>1 DEF IsReading
  <2>. QED BY <2>3, <2>4
<1>6. CASE ReadSample
  <2>. DEFINE t == IF GoesOn(Top) THEN Advanced(Top, SampleLen(Top.msg.samples[Top.next]))
                   ELSE [Top EXCEPT !.next = Len(Top.msg.samples) + 1]
  <2>1. /\ InReader /\ HasSample(Top) /\ UNCHANGED <<setup, hasCache, suspend, alive>>
        /\ stack' = <<FrameTask(Top.msg.samples[Top.next].frame, "", "sampled"), t>> \o Pop
    BY <1>6 DEF ReadSample
  <2>2. /\ t.next \in Nat \ {0} /\ t.msg = Top.msg
        /\ t = [task |-> "reader", msg |-> t.msg, len |-> t.len,
                next |-> t.next, off |-> t.off]
    <3>1. CASE GoesOn(Top)
      BY <1>5, <2>1, <3>1
    <3>2. CASE ~GoesOn(Top)
      <4>1. IsReading(Top) /\ Len(Top.msg.samples) \in Nat
        BY <2>1, ReaderOnTop, ReaderKnows DEF HasSample
      <4>2. t = [task |-> "reader", msg |-> Top.msg, len |-> Top.len,
                 next |-> Len(Top.msg.samples) + 1, off |-> Top.off]
        <5>1. t = [Top EXCEPT !.next = Len(Top.msg.samples) + 1]
          BY <3>2
        <5>2. \A u, n : IsReading(u) =>
                [u EXCEPT !.next = n] = [task |-> "reader", msg |-> u.msg,
                                         len |-> u.len, next |-> n, off |-> u.off]
          BY DEF IsReading
        <5>. HIDE DEF t
        <5>. QED BY <4>1, <5>1, <5>2
      <4>3. Len(Top.msg.samples) + 1 \in Nat \ {0}
        BY <4>1
      <4>. HIDE DEF t
      <4>. QED BY <4>2, <4>3
    <3>. QED BY <3>1, <3>2
  <2>3. IsCaptured(Top.msg.samples[Top.next].frame)
    <3>1. /\ IsSeq(Top.msg.samples) /\ Top.next \in 1..Len(Top.msg.samples)
          /\ \A x \in ToSet(Top.msg.samples) : IsCaptured(x.frame)
      <4>1. /\ Understood(Top) /\ Top.msg.kind = "sflow"
            /\ Top.next <= Len(Top.msg.samples) /\ Top.next \in Nat \ {0}
        BY <2>1, ReaderOnTop DEF HasSample, IsReading
      <4>2. /\ IsSeq(Top.msg.samples) /\ Len(Top.msg.samples) \in Nat
            /\ \A x \in ToSet(Top.msg.samples) : IsCaptured(x.frame)
        BY <2>1, <4>1, ReaderKnows
      <4>. QED BY <4>1, <4>2
    <3>2. Top.msg.samples[Top.next] \in ToSet(Top.msg.samples)
      BY <3>1, ElementOfSeq DEF IsSeq
    <3>. QED BY <3>1, <3>2
  <2>. HIDE DEF t
  <2>. QED BY <1>4, <2>1, <2>2, <2>3
<1>7. CASE ReadTemplate \/ SkipOptions \/ ReadData
  <2>1. InReader /\ stack' = NextSet /\ UNCHANGED <<setup, hasCache, suspend, alive>>
    BY <1>7 DEF ReadTemplate, SkipOptions, ReadData, InSet
  <2>. DEFINE t == Advanced(Top, SetLen(ThisSet))
  <2>2. /\ t.next \in Nat \ {0} /\ t.msg = Top.msg
        /\ t = [task |-> "reader", msg |-> t.msg, len |-> t.len,
                next |-> t.next, off |-> t.off]
    BY <1>5, <2>1
  <2>3. stack' = <<t>> \o Pop
    BY <2>1 DEF NextSet
  <2>. HIDE DEF t
  <2>. QED BY <1>4, <2>1, <2>2, <2>3
<1>8. CASE NoCache
  <2>1. /\ InReader /\ HasSet(Top) /\ ~hasCache /\ alive' = FALSE
        /\ UNCHANGED <<setup, hasCache, suspend, stack>>
    BY <1>8 DEF NoCache, InSet
  <2>2. Top.msg.kind = setup.reads /\ Top.msg.kind \in {"netflow", "ipfix"}
    BY <2>1, ThisSetIs DEF Understood
  <2>3. setup.source = "snort"
    BY <1>0, <2>1, <2>2 DEF MakesCache
  <2>4. AtRest' = AtRest /\ InCapture' = InCapture /\ InDatagram' = InDatagram
    BY <2>1 DEF AtRest, InCapture, InDatagram, IsReading, Carried, Translates
  <2>. QED BY <1>0, <2>1, <2>2, <2>3, <2>4 DEF CallsInv, DiesOnlyBehindSnort, MakesCache
<1>9. CASE ReaderReturns
  <2>1. /\ InReader /\ Lower /\ stack' = Pop /\ UNCHANGED <<setup, hasCache, alive>>
    BY <1>9 DEF ReaderReturns
  <2>2. InDatagram /\ Pop = <<>>
    BY <2>1, ReaderOnTop
  <2>3. AtRest'
    BY <2>1, <2>2 DEF AtRest, Lower, InDatagram
  <2>. QED BY <1>0, <2>1, <2>3 DEF CallsInv, DiesOnlyBehindSnort, MakesCache
<1>10. CASE UNCHANGED vars
  <2>1. UNCHANGED <<setup, hasCache, suspend, stack, alive>>
    BY <1>10 DEF vars
  <2>2. AtRest' = AtRest /\ InCapture' = InCapture /\ InDatagram' = InDatagram
    BY <2>1 DEF AtRest, InCapture, InDatagram, IsReading, Carried, Translates
  <2>. QED BY <1>0, <2>1, <2>2 DEF CallsInv, DiesOnlyBehindSnort, MakesCache
<1>11. CASE IgnoreFrame \/ ShowFrame
  BY <1>2, <1>11 DEF IgnoreFrame, ShowFrame
<1>. QED BY <1>1, <1>3, <1>6, <1>7, <1>8, <1>9, <1>10, <1>11 DEF Next, Step

LEMMA CallsHold == Spec => []CallsInv
BY CallsInit, CallsNext, PTL DEF Spec

(* A tool dies for want of a template cache only behind Snort, with the    *)
(* two decoders that need one.                                             *)
THEOREM Dies == Spec => []DiesOnlyBehindSnort
<1>1. CallsInv => DiesOnlyBehindSnort
  BY DEF CallsInv
<1>. QED BY <1>1, CallsHold, PTL

-----------------------------------------------------------------------------
(* What the cache holds comes from a layout that an exporter of the key    *)
(* sends.                                                                  *)
SentAs(s, id, tid, np) ==
  \E l \in Layouts(s, id, tid) :
    l \in Seq(Fields(s.reads = "ipfix")) /\ np = Offsets(l, s.reads = "ipfix")

CacheInv ==
  /\ cache \in [Keys -> Offset \cup {Missing}] /\ DOMAIN sent = Keys
  /\ \A k \in Keys : cache[k] = Missing \/ SentAs(setup, k[1], k[2], cache[k])

LEMMA OffsetsType ==
  ASSUME NEW ipfix \in BOOLEAN, NEW l \in Seq(Fields(ipfix))
  PROVE  Offsets(l, ipfix) \in Offset
<1>1. PICK t : /\ t \in Partial
               /\ Offsets(l, ipfix) = [at |-> t.at, isv6 |-> t.isv6,
                                       len |-> IF t.variable THEN 0 ELSE t.len]
  BY OffsetsAre DEF FieldsUpTo
<1>2. t.at \in [Slots -> Int] /\ t.isv6 \in BOOLEAN /\ t.len \in Nat
  BY <1>1 DEF Partial
<1>3. (IF t.variable THEN 0 ELSE t.len) \in Nat
  BY <1>2
<1>. QED BY <1>1, <1>2, <1>3 DEF Offset

(* The layouts of a message that is read are among those of its key.       *)
LEMMA LayoutsOf ==
  ASSUME CallsInv, InReader, HasSet(Top), NEW tid
  PROVE  SetLayouts(ThisSet, tid) \subseteq Layouts(setup, Top.msg.id, tid)
<1>1. Top.msg \in Exports(setup) /\ ThisSet \in ToSet(Top.msg.sets)
  BY ThisSetIs, ReaderKnows
<1>. QED BY <1>1 DEF Layouts

LEMMA CacheNext == CallsInv /\ CacheInv /\ [Next]_vars => CacheInv'
<1>. SUFFICES ASSUME CallsInv, CacheInv, [Next]_vars PROVE CacheInv'
  OBVIOUS
<1>1. CASE UNCHANGED <<setup, cache, sent>>
  BY <1>1 DEF CacheInv
<1>2. CASE ReadTemplate
  <2>. DEFINE t == ThisSet.templates[1]
              np == Offsets(t.layout, Top.msg.kind = "ipfix")
              key == <<Top.msg.id, t.tid>>
  <2>1. /\ InReader /\ HasSet(Top) /\ ThisSet.kind = "template"
        /\ cache' = [cache EXCEPT ![key] = np]
        /\ DOMAIN sent' = Keys /\ setup' = setup
    BY <1>2 DEF ReadTemplate, InSet, Key, ThisSet
  <2>2. Top.msg.kind = setup.reads /\ IsTemplateSet(ThisSet, setup.reads = "ipfix")
    <3>1. /\ Top.msg.kind = setup.reads
          /\ \/ IsTemplateSet(ThisSet, Top.msg.kind = "ipfix")
             \/ ThisSet.kind = "options"
             \/ IsDataSet(ThisSet, Top.msg.kind = "ipfix")
      BY <2>1, ThisSetIs, ReaderKnows
    <3>. QED BY <2>1, <3>1 DEF IsDataSet
  <2>3. t \in ToSet(ThisSet.templates) /\ t.layout \in Seq(Fields(setup.reads = "ipfix"))
    <3>1. 1 \in 1..Len(ThisSet.templates)
      BY <2>2, LenProperties DEF IsTemplateSet, IsSeq
    <3>. QED BY <2>2, <3>1, LenProperties DEF IsTemplateSet, IsSeq, ToSet
  <2>4. t.layout \in Layouts(setup, Top.msg.id, t.tid)
    <3>1. t.layout \in SetLayouts(ThisSet, t.tid)
      BY <2>1, <2>3 DEF SetLayouts
    <3>. QED BY <2>1, <3>1, LayoutsOf
  <2>5. np \in Offset /\ SentAs(setup, Top.msg.id, t.tid, np)
    BY <2>2, <2>3, <2>4, OffsetsType DEF SentAs
  <2>6. key[1] = Top.msg.id /\ key[2] = t.tid
    OBVIOUS
  <2>. HIDE DEF np, key, t
  <2>7. cache' \in [Keys -> Offset \cup {Missing}]
    BY <2>1, <2>5 DEF CacheInv
  <2>8. ASSUME NEW k \in Keys
        PROVE  cache'[k] = Missing \/ SentAs(setup, k[1], k[2], cache'[k])
    <3>1. CASE k = key
      BY <2>1, <2>5, <2>6, <3>1 DEF CacheInv
    <3>2. CASE k # key
      BY <2>1, <3>2 DEF CacheInv
    <3>. QED BY <3>1, <3>2
  <2>. QED BY <2>1, <2>7, <2>8 DEF CacheInv
<1>3. ASSUME ~ReadTemplate PROVE UNCHANGED <<setup, cache, sent>>
  BY <1>3 DEF Next, Step, Arrive, IgnoreFrame, ShowFrame, TranslateFrame, ReadSample,
     SkipOptions, ReadData, NoCache, ReaderReturns, vars
<1>. QED BY <1>1, <1>2, <1>3

LEMMA CacheHolds == Spec => []CacheInv
<1>1. Init => CacheInv
  BY DEF Init, CacheInv
<1>. QED BY <1>1, CacheNext, CallsHold, PTL DEF Spec

(* Every variable has its type, calls nest at most two deep, and a         *)
(* template's offsets are offsets, for every command line and exporter.    *)
THEOREM TypeCorrect == Spec => []TypeOK
<1>1. ASSUME CallsInv, CacheInv PROVE TypeOK
  <2>1. /\ setup \in Setups /\ alive \in BOOLEAN /\ hasCache \in BOOLEAN
        /\ suspend \in {0, 1}
    BY <1>1 DEF CallsInv, MakesCache, AtRest, InCapture, InDatagram
  <2>2. Len(stack) <= 2 /\ \A i \in DOMAIN stack : stack[i].task \in {"frame", "reader"}
    <3>1. CASE stack = <<>>
      BY <3>1
    <3>2. ASSUME NEW t, stack = <<t>>, t.task \in {"frame", "reader"}
          PROVE  /\ Len(stack) <= 2
                 /\ \A i \in DOMAIN stack : stack[i].task \in {"frame", "reader"}
      BY <3>2
    <3>3. ASSUME NEW t, NEW r, stack = <<t, r>>, t.task = "frame", r.task = "reader"
          PROVE  /\ Len(stack) <= 2
                 /\ \A i \in DOMAIN stack : stack[i].task \in {"frame", "reader"}
      BY <3>3
    <3>. QED BY <1>1, <3>1, <3>2, <3>3, Tasks DEF CallsInv, AtRest, InCapture, InDatagram
  <2>. QED BY <1>1, <2>1, <2>2 DEF TypeOK, CacheInv
<1>. QED BY <1>1, CallsHold, CacheHolds, PTL

-----------------------------------------------------------------------------
(* What becomes of the input.                                              *)

(* What may be said of a record, on a command line. *)
Honest(s, e) ==
  /\ e.via = "captured" /\ s.reads # "none" /\ s.source # "socket" => e.flag # "UDP"
  /\ e.via = "flow" =>
       \/ e.rec \in {Truth(f, e.set.layout) : f \in ToSet(e.set.flows)}
       \/ ~Plain(e.set.layout)
       \/ Layouts(s, e.id, e.set.tid) # {e.set.layout}

AreHonest(s, es) == \E W : es \in Seq(W) /\ \A e \in W : Honest(s, e)

LEMMA HonestConcat ==
  ASSUME NEW s, NEW a, NEW b, AreHonest(s, a), AreHonest(s, b)
  PROVE  AreHonest(s, a \o b)
<1>1. PICK V : a \in Seq(V) /\ \A e \in V : Honest(s, e)
  BY DEF AreHonest
<1>2. PICK W : b \in Seq(W) /\ \A e \in W : Honest(s, e)
  BY DEF AreHonest
<1>3. a \in Seq(V \cup W) /\ b \in Seq(V \cup W)
  BY <1>1, <1>2
<1>4. a \o b \in Seq(V \cup W)
  BY <1>3
<1>. QED BY <1>1, <1>2, <1>4 DEF AreHonest

(* The sound that goes with a record says nothing more. *)
LEMMA EmitType ==
  ASSUME NEW W, NEW record \in W, NEW flag, NEW located,
         [via |-> "sound", flag |-> flag] \in W
  PROVE  Emit(record, flag, located) \in Seq(W)
<1>1. (IF setup.geoip /\ ~located THEN <<>> ELSE <<record>>) \in Seq(W)
  OBVIOUS
<1>2. (IF setup.sound THEN <<[via |-> "sound", flag |-> flag]>> ELSE <<>>) \in Seq(W)
  OBVIOUS
<1>3. \A a, b \in Seq(W) : a \o b \in Seq(W)
  OBVIOUS
<1>. QED BY <1>1, <1>2, <1>3 DEF Emit

LEMMA SoundIsHonest ==
  ASSUME NEW s, NEW flag
  PROVE  Honest(s, [via |-> "sound", flag |-> flag])
BY DEF Honest

(* Under -t a captured UDP datagram is not shown as a packet ... *)
LEMMA FrameIsHonest ==
  ASSUME CallsInv, InFrame, ~Decodes(Top.frame), NEW ip
  PROVE  Honest(setup, FrameRecord(Top, ip))
<1>. DEFINE e == FrameRecord(Top, ip)
<1>1. e.via = Top.via /\ e.flag = FrameFlag(Top.frame)
  BY DEF FrameRecord
<1>2. CASE InCapture /\ IsFrame(Top, "captured")
  <2>1. e.via # "flow"
    BY <1>1, <1>2, Tasks
  <2>2. ASSUME Translates PROVE e.flag # "UDP"
    <3>1. Top.frame.proto # "udp"
      BY <1>2, <2>2 DEF Decodes, InCapture
    <3>2. TcpFlag(Top.frame.flags) # "UDP"
      BY GarbageAssumption DEF TcpFlag, Flags
    <3>. QED BY <1>1, <3>1, <3>2 DEF FrameFlag
  <2>. HIDE DEF e
  <2>. QED BY <2>1, <2>2 DEF Honest, Translates, e
<1>3. CASE IsFrame(Top, "sampled")
  <2>1. e.via = "sampled"
    BY <1>1, <1>3, Tasks
  <2>. HIDE DEF e
  <2>. QED BY <2>1 DEF Honest, e
<1>. QED BY <1>2, <1>3, FrameOnTop

(* ... and a data set decoded with its own layout tells what was measured. *)
LEMMA ShownIsHonest ==
  ASSUME NEW ipfix \in BOOLEAN, NEW set, IsDataSet(set, ipfix), NEW id, NEW guess,
         NEW found, NEW np, NEW s, ipfix = (s.reads = "ipfix"),
         SentAs(s, id, set.tid, np)
  PROVE  AreHonest(s, Shown(np, id, set, guess, found))
<1>. DEFINE own == Plain(set.layout) /\ Layouts(s, id, set.tid) = {set.layout}
            R == IF own THEN {Truth(f, set.layout) : f \in ToSet(set.flows)}
                 ELSE {Record(np, set, k, guess) : k \in Nat \ {0}}
            recs == Records(np, set, guess)
            flow(r) == [via |-> "flow", id |-> id, set |-> set, rec |-> r]
            sound(r) == [via |-> "sound", flag |-> r.flag]
            W == {flow(r) : r \in R} \cup {sound(r) : r \in R}
            emit(r) == Emit(flow(r), r.flag,
                            Placed(r.src, set, found) /\ Placed(r.dst, set, found))
            all == [i \in DOMAIN recs |-> emit(recs[i])]
<1>1. PICK l \in Layouts(s, id, set.tid) :
        l \in Seq(Fields(ipfix)) /\ np = Offsets(l, ipfix)
  BY DEF SentAs
<1>2. recs \in Seq(R)
  <2>1. CASE own
    <3>1. l = set.layout
      BY <1>1, <2>1
    <3>2. Records(np, set, guess)
            \in Seq({Truth(f, set.layout) : f \in ToSet(set.flows)})
      <4>1. Plain(set.layout) /\ np = Offsets(set.layout, ipfix)
        BY <1>1, <2>1, <3>1
      <4>2. ipfix \in BOOLEAN /\ IsDataSet(set, ipfix)
        OBVIOUS
      <4>. QED BY ONLY <4>1, <4>2, RecordsAreTruths
    <3>3. R = {Truth(f, set.layout) : f \in ToSet(set.flows)}
      BY <2>1
    <3>. HIDE DEF R
    <3>. QED BY <3>2, <3>3
  <2>2. CASE ~own
    <3>1. np.len \in Nat
      BY <1>1, OffsetsType DEF Offset
    <3>2. \A k \in Nat \ {0} : Record(np, set, k, guess) \in R
      BY <2>2
    <3>. HIDE DEF R
    <3>. QED BY <3>1, <3>2, RecordsIn
  <2>. QED BY <2>1, <2>2
<1>3. \A r \in R : Honest(s, flow(r)) /\ Honest(s, sound(r))
  <2>1. \A r \in R : own => r \in {Truth(f, set.layout) : f \in ToSet(set.flows)}
    OBVIOUS
  <2>. HIDE DEF R
  <2>. QED BY <2>1 DEF Honest
<1>4. \A r \in R : emit(r) \in Seq(W)
  <2>1. \A r \in R : flow(r) \in W /\ sound(r) \in W
    OBVIOUS
  <2>. HIDE DEF R, W
  <2>. QED BY <2>1, EmitType
<1>. HIDE DEF R, W, emit, recs
<1>5. all \in Seq(Seq(W))
  <2>1. recs \in [1..Len(recs) -> R] /\ Len(recs) \in Nat /\ DOMAIN recs = 1..Len(recs)
    BY <1>2, LenProperties
  <2>2. all \in [1..Len(recs) -> Seq(W)]
    BY <1>4, <2>1
  <2>. QED BY <2>1, <2>2, FunctionIsSeq
<1>6. Shown(np, id, set, guess, found) = FlattenSeq(all)
  BY DEF Shown, emit, recs
<1>7. FlattenSeq(all) \in Seq(W)
  <2>. HIDE DEF all
  <2>. QED BY <1>5, FlattenType
<1>8. \A e \in W : Honest(s, e)
  BY <1>3 DEF W
<1>. QED BY <1>6, <1>7, <1>8 DEF AreHonest

OutInv == AreHonest(setup, out)

LEMMA NothingIsHonest == \A s : AreHonest(s, <<>>)
<1>. DEFINE W == {}
<1>1. <<>> \in Seq(W)
  OBVIOUS
<1>2. \A s : \A e \in W : Honest(s, e)
  OBVIOUS
<1>. HIDE DEF W
<1>. QED BY <1>1, <1>2 DEF AreHonest

LEMMA OutNext == CallsInv /\ CacheInv /\ OutInv /\ [Next]_vars => OutInv'
<1>. SUFFICES ASSUME CallsInv, CacheInv, OutInv, [Next]_vars PROVE OutInv'
  OBVIOUS
<1>1. ASSUME NEW new, AreHonest(setup, new), out' = out \o new, setup' = setup
      PROVE  OutInv'
  <2>1. AreHonest(setup, out \o new)
    BY <1>1, HonestConcat DEF OutInv
  <2>. QED BY <1>1, <2>1 DEF OutInv
<1>2. CASE UNCHANGED <<setup, out>>
  BY <1>2 DEF OutInv
<1>3. CASE \E x \in Feed[setup] : Arrive(x)
  <2>1. out' = <<>> /\ setup' = setup
    BY <1>3 DEF Arrive
  <2>. QED BY <2>1, NothingIsHonest DEF OutInv
<1>4. CASE ShowFrame
  <2>1. PICK ip : /\ InFrame /\ ~Decodes(Top.frame) /\ setup' = setup
                  /\ out' = out \o Emit(FrameRecord(Top, ip), FrameFlag(Top.frame),
                                        Top.frame.located)
    BY <1>4 DEF ShowFrame
  <2>. DEFINE e == FrameRecord(Top, ip)
              sound == [via |-> "sound", flag |-> FrameFlag(Top.frame)]
              W == {e, sound}
  <2>2. Honest(setup, e) /\ Honest(setup, sound)
    BY <2>1, FrameIsHonest, SoundIsHonest
  <2>3. Emit(e, FrameFlag(Top.frame), Top.frame.located) \in Seq(W)
    <3>1. e \in W /\ sound \in W
      OBVIOUS
    <3>. HIDE DEF W, e
    <3>. QED BY <3>1, EmitType
  <2>4. AreHonest(setup, Emit(e, FrameFlag(Top.frame), Top.frame.located))
    <3>. HIDE DEF e, sound
    <3>. QED BY <2>2, <2>3 DEF AreHonest
  <2>. QED BY <1>1, <2>1, <2>4
<1>5. CASE ReadData
  <2>. DEFINE np == cache[<<Top.msg.id, ThisSet.tid>>]
  <2>1. /\ InReader /\ HasSet(Top) /\ ThisSet.kind = "data" /\ setup' = setup
        /\ \/ UNCHANGED out
           \/ /\ np # Missing
              /\ \E guess, found : out' = out \o Shown(np, Top.msg.id, ThisSet, guess, found)
    BY <1>5 DEF ReadData, InSet, ThisSet, Key
  <2>2. /\ IsDataSet(ThisSet, setup.reads = "ipfix")
        /\ <<Top.msg.id, ThisSet.tid>> \in Keys
    <3>1. /\ Top.msg.kind = setup.reads
          /\ \/ IsTemplateSet(ThisSet, Top.msg.kind = "ipfix")
             \/ ThisSet.kind = "options"
             \/ /\ IsDataSet(ThisSet, Top.msg.kind = "ipfix")
                /\ <<Top.msg.id, ThisSet.tid>> \in Keys
      BY <2>1, ThisSetIs, ReaderKnows
    <3>. QED BY <2>1, <3>1 DEF IsTemplateSet
  <2>3. np # Missing => SentAs(setup, Top.msg.id, ThisSet.tid, np)
    BY <2>2 DEF CacheInv
  <2>4. CASE UNCHANGED out
    BY <1>2, <2>1, <2>4
  <2>5. ASSUME np # Missing, NEW guess, NEW found,
               out' = out \o Shown(np, Top.msg.id, ThisSet, guess, found)
        PROVE  OutInv'
    <3>1. AreHonest(setup, Shown(np, Top.msg.id, ThisSet, guess, found))
      <4>. HIDE DEF np
      <4>. QED BY <2>2, <2>3, <2>5, ShownIsHonest
    <3>. QED BY <1>1, <2>1, <2>5, <3>1
  <2>. QED BY <2>1, <2>4, <2>5
<1>6. ASSUME ~(\E x \in Feed[setup] : Arrive(x)), ~ShowFrame, ~ReadData
      PROVE  UNCHANGED <<setup, out>>
  BY <1>6 DEF Next, Step, IgnoreFrame, TranslateFrame, ReadSample, ReadTemplate,
     SkipOptions, NoCache, ReaderReturns, vars
<1>. QED BY <1>2, <1>3, <1>4, <1>5, <1>6

LEMMA OutHolds == Spec => []OutInv
<1>1. Init => OutInv
  BY NothingIsHonest DEF Init, OutInv
<1>. QED BY <1>1, OutNext, CallsHold, CacheHolds, PTL DEF Spec

LEMMA OutIs ==
  ASSUME OutInv
  PROVE  \A i \in DOMAIN out : Honest(setup, out[i])
<1>1. PICK W : out \in Seq(W) /\ \A e \in W : Honest(setup, e)
  BY DEF OutInv, AreHonest
<1>. QED BY <1>1

(* At most one datagram is being read, the guard is up exactly while one   *)
(* from a capture is, and no captured UDP datagram becomes a ball under    *)
(* -t: for every nesting of frames and datagrams.                          *)
THEOREM Once == Spec => []TranslatedOnce
<1>1. ASSUME CallsInv, OutInv PROVE TranslatedOnce
  <2>1. Translates => \A i \in DOMAIN out : out[i].via = "captured" => out[i].flag # "UDP"
    BY <1>1, OutIs DEF Honest, Translates
  <2>2. /\ \A i, j \in DOMAIN stack : IsReader(stack[i]) /\ IsReader(stack[j]) => i = j
        /\ (suspend = 1) <=> Translates /\ \E i \in DOMAIN stack : IsReader(stack[i])
    <3>1. CASE AtRest
      BY <3>1 DEF AtRest
    <3>2. CASE InCapture
      <4>1. PICK t : stack = <<t>> /\ t.task = "frame" /\ suspend = 0
        BY <3>2, Tasks DEF InCapture
      <4>2. \A i \in DOMAIN stack : ~IsReader(stack[i])
        BY <4>1 DEF IsReader
      <4>. QED BY <4>1, <4>2
    <3>3. CASE InDatagram
      <4>1. PICK r : /\ r.task = "reader"
                     /\ stack = <<r>> \/ \E t : stack = <<t, r>> /\ t.task = "frame"
        BY <3>3, Tasks DEF InDatagram
      <4>2. \E j \in DOMAIN stack : \A i \in DOMAIN stack : IsReader(stack[i]) <=> i = j
        <5>1. CASE stack = <<r>>
          BY <4>1, <5>1 DEF IsReader
        <5>2. ASSUME NEW t, stack = <<t, r>>, t.task = "frame"
              PROVE  \A i \in DOMAIN stack : IsReader(stack[i]) <=> i = 2
          <6>1. DOMAIN stack = {1, 2} /\ stack[1] = t /\ stack[2] = r
            BY <5>2
          <6>. QED BY <4>1, <5>2, <6>1 DEF IsReader
        <5>3. ASSUME NEW t, stack = <<t, r>> PROVE 2 \in DOMAIN stack
          BY <5>3
        <5>. QED BY <4>1, <5>1, <5>2, <5>3
      <4>. QED BY <3>3, <4>2 DEF InDatagram
    <3>. QED BY <1>1, <3>1, <3>2, <3>3 DEF CallsInv
  <2>. QED BY <2>1, <2>2 DEF TranslatedOnce
<1>. QED BY <1>1, CallsHold, OutHolds, PTL

(* For every exporter, template and order of arrival: a record that is no  *)
(* flow of its data set has a shared key or a layout that is not plain.    *)
THEOREM Misread == Spec => []MisreadOnlyIfShared
<1>1. ASSUME OutInv PROVE MisreadOnlyIfShared
  BY <1>1, OutIs DEF Honest, MisreadOnlyIfShared
<1>. QED BY <1>1, OutHolds, PTL

-----------------------------------------------------------------------------
(* The length checks of the packet chain.                                  *)

LEMMA HeaderLenIs ==
  /\ DOMAIN HeaderLen = {"tcp", "udp", "icmp", "icmp6"}
  /\ \A p \in {"tcp", "udp", "icmp", "icmp6"} : HeaderLen[p] \in Nat /\ HeaderLen[p] >= 2
BY DEF HeaderLen

(* Walking IPv6 extension headers: they end before the packet does, with   *)
(* room for two bytes, exactly if no check on the way fails.               *)
LEMMA BehindIp6Is ==
  ASSUME NEW f, IsCaptured(f), NEW len \in Int, NEW need \in Nat, need >= 2
  PROVE  /\ BehindIp6(f, len) \in Int
         /\ Total(f.exts) \in Nat
         /\ BehindIp6(f, len) >= need <=> len >= 40 + Total(f.exts) + need
<1>. DEFINE n == Len(f.exts)
            at == Sums(f.exts)
            sum == Total(f.exts)
            off(j) == 40 + at[j]
            short(j) == off(j - 1) + 8 > len \/ off(j) >= len
            cut == len < 40 \/ \E j \in DOMAIN f.exts : short(j)
<1>1. /\ f.exts \in Seq(Nat) /\ n \in Nat /\ DOMAIN f.exts = 1..n
      /\ \A j \in 1..n : f.exts[j] \in Nat /\ f.exts[j] >= 8
  BY LenProperties, ElementOfSeq DEF IsCaptured
<1>2. BehindIp6(f, len) = IF cut THEN CUT ELSE len - off(n)
  BY DEF BehindIp6
<1>3. sum = at[n]
  BY DEF Total
<1>4. /\ \A j \in 0..n : at[j] \in Nat /\ at[j] <= at[n]
      /\ \A j \in 1..n : at[j] = at[j - 1] + f.exts[j]
  <2>1. at \in [0..n -> Nat] /\ \A j \in 1..n : at[j] = at[j - 1] + f.exts[j]
    BY <1>1, SumsAre
  <2>2. \A j \in 0..n : at[j] <= at[n]
    BY <1>1, SumsRise
  <2>. QED BY <2>1, <2>2
<1>. HIDE DEF n, at, sum
<1>5. at[n] \in Nat
  BY <1>1, <1>4
<1>6. ASSUME len >= 40 + sum + need PROVE ~cut
  <2>1. ASSUME NEW j \in 1..n PROVE ~short(j)
    <3>1. j \in 0..n /\ j - 1 \in 0..n
      BY <1>1
    <3>2. /\ at[j] \in Nat /\ at[j - 1] \in Nat /\ at[j] <= at[n]
          /\ at[j] = at[j - 1] + f.exts[j] /\ f.exts[j] >= 8 /\ f.exts[j] \in Nat
      BY <1>1, <1>4, <3>1
    <3>. QED BY <1>3, <1>5, <1>6, <3>2
  <2>. QED BY <1>1, <1>3, <1>5, <1>6, <2>1
<1>. HIDE DEF cut
<1>7. CASE cut
  BY <1>2, <1>3, <1>5, <1>6, <1>7 DEF CUT, sum
<1>8. CASE ~cut
  BY <1>2, <1>3, <1>5, <1>8 DEF CUT, sum
<1>. QED BY <1>7, <1>8

(* A frame is handled exactly if all of its headers are there.             *)
LEMMA HandledIfComplete ==
  ASSUME NEW f, IsCaptured(f), NEW link
  PROVE  Handled(f, Chain(f, link).l4) <=> Complete(f, link)
<1>. DEFINE start == IF link = "loopback" THEN 4 ELSE IF f.vlan THEN 18 ELSE 14
            ip == IF link = "loopback" THEN BehindNull(f) ELSE BehindEther(f)
            l4 == Chain(f, link).l4
            need == HeaderLen[f.proto]
<1>1. f.caplen \in Nat /\ f.ihl \in Nat /\ f.vlan \in BOOLEAN
  BY DEF IsCaptured
<1>2. start \in Nat /\ ip = IF f.caplen < start THEN CUT ELSE f.caplen - start
  BY <1>1 DEF BehindNull, BehindEther, CUT
<1>3. l4 = IF link = "loopback" \/ f.type = "ip4" THEN BehindIp4(f, ip)
           ELSE IF f.type = "ip6" THEN BehindIp6(f, ip) ELSE CUT
  BY DEF Chain
<1>4. HeadersLen(f, link) = start + IF f.type = "ip4" THEN f.ihl ELSE 40 + Total(f.exts)
  BY DEF HeadersLen
<1>5. Handled(f, l4) <=> /\ f.proto \in {"tcp", "udp", "icmp", "icmp6"}
                         /\ f.proto = "icmp" => f.type = "ip4"
                         /\ f.proto = "icmp6" => f.type = "ip6"
                         /\ l4 >= need
  BY HeaderLenIs DEF Handled
<1>6. Complete(f, link) <=>
        /\ f.type \in (IF link = "loopback" THEN {"ip4"} ELSE {"ip4", "ip6"})
        /\ f.type = "ip4" => f.ihl >= 20
        /\ f.proto \in {"tcp", "udp", IF f.type = "ip4" THEN "icmp" ELSE "icmp6"}
        /\ f.caplen >= HeadersLen(f, link) + need
  BY DEF Complete
<1>7. f.proto \in {"tcp", "udp", "icmp", "icmp6"} => need \in Nat /\ need >= 2
  BY HeaderLenIs
<1>. HIDE DEF start, ip, l4, need
<1>8. SUFFICES ASSUME f.proto \in {"tcp", "udp", "icmp", "icmp6"}
               PROVE  Handled(f, l4) <=> Complete(f, link)
  <2>1. f.proto \notin {"tcp", "udp", "icmp", "icmp6"} =>
          ~Handled(f, l4) /\ ~Complete(f, link)
    BY <1>5, <1>6
  <2>. QED BY <2>1 DEF l4
<1>9. CASE f.type = "ip4"
  <2>1. l4 = BehindIp4(f, ip)
    BY <1>3, <1>9
  <2>2. BehindIp4(f, ip) = IF ip < 20 \/ f.ihl < 20 \/ f.ihl > ip THEN CUT ELSE ip - f.ihl
    BY <1>9 DEF BehindIp4
  <2>3. l4 >= need <=> f.ihl >= 20 /\ f.caplen >= start + f.ihl + need
    BY <1>1, <1>2, <1>7, <1>8, <2>1, <2>2 DEF CUT
  <2>4. HeadersLen(f, link) + need = start + f.ihl + need
    BY <1>4, <1>9
  <2>. QED BY <1>5, <1>6, <1>8, <1>9, <2>3, <2>4
<1>10. CASE f.type = "ip6" /\ link # "loopback"
  <2>1. l4 = BehindIp6(f, ip)
    BY <1>3, <1>10
  <2>2. ip \in Int
    BY <1>1, <1>2 DEF CUT
  <2>3. Total(f.exts) \in Nat /\ (BehindIp6(f, ip) >= need <=> ip >= 40 + Total(f.exts) + need)
    BY <1>7, <1>8, <2>2, BehindIp6Is
  <2>4. l4 >= need <=> f.caplen >= start + (40 + Total(f.exts)) + need
    BY <1>1, <1>2, <1>7, <1>8, <2>1, <2>3 DEF CUT
  <2>5. HeadersLen(f, link) + need = start + (40 + Total(f.exts)) + need
    BY <1>4, <1>10
  <2>. QED BY <1>5, <1>6, <1>8, <1>10, <2>4, <2>5
<1>11. CASE f.type # "ip4" /\ ~(f.type = "ip6" /\ link # "loopback")
  <2>1. l4 = CUT
    BY <1>3, <1>11 DEF BehindIp4
  <2>2. ~(l4 >= need)
    BY <1>7, <1>8, <2>1 DEF CUT
  <2>. QED BY <1>5, <1>6, <1>11, <2>2
<1>. QED BY <1>9, <1>10, <1>11

LEMMA ShortSeqs ==
  ASSUME NEW T, NEW a \in T, NEW b \in T
  PROVE  /\ <<>> \in Seq(T) /\ <<a>> \in Seq(T) /\ <<a, b>> \in Seq(T)
OBVIOUS

(* What a frame adds to what its input has been turned into.               *)
LEMMA EmitAdds ==
  ASSUME NEW W, NEW o \in Seq(W), NEW record, record.via # "sound", NEW flag, NEW located
  PROVE  LET all == o \o Emit(record, flag, located)
         IN  {i \in Len(o) + 1..Len(all) : all[i].via = record.via} =
             IF setup.geoip /\ ~located THEN {} ELSE {Len(o) + 1}
<1>. DEFINE sound == [via |-> "sound", flag |-> flag]
            new == Emit(record, flag, located)
            all == o \o new
            S == W \cup {record, sound}
            shown == {i \in Len(o) + 1..Len(all) : all[i].via = record.via}
<1>1. sound.via = "sound"
  OBVIOUS
<1>. HIDE DEF sound
<1>2. o \in Seq(S) /\ Len(o) \in Nat
  BY LenProperties
<1>3. \/ new = <<>> /\ setup.geoip /\ ~located
      \/ new = <<sound>> /\ setup.geoip /\ ~located
      \/ new = <<record>> /\ ~(setup.geoip /\ ~located)
      \/ new = <<record, sound>> /\ ~(setup.geoip /\ ~located)
  <2>. DEFINE a == IF setup.geoip /\ ~located THEN <<>> ELSE <<record>>
              b == IF setup.sound THEN <<sound>> ELSE <<>>
  <2>1. new = a \o b
    BY DEF Emit, sound
  <2>2. /\ <<>> \o <<>> = <<>> /\ <<>> \o <<sound>> = <<sound>>
        /\ <<record>> \o <<>> = <<record>>
        /\ <<record>> \o <<sound>> = <<record, sound>>
    <3>. DEFINE T == {record, sound}
    <3>1. <<>> \in Seq(T) /\ <<sound>> \in Seq(T) /\ <<record>> \in Seq(T)
      <4>1. record \in T /\ sound \in T
        OBVIOUS
      <4>. HIDE DEF T
      <4>. QED BY <4>1, ShortSeqs
    <3>2. /\ <<>> \o <<>> = <<>> /\ <<>> \o <<sound>> = <<sound>>
          /\ <<record>> \o <<>> = <<record>>
      <4>. HIDE DEF T
      <4>. QED BY <3>1, ConcatEmptySeq
    <3>3. <<record>> \o <<sound>> = <<record, sound>>
      <4>1. record \in T /\ sound \in T
        OBVIOUS
      <4>. HIDE DEF T
      <4>. QED BY <4>1, Pair
    <3>. QED BY <3>2, <3>3
  <2>3. \/ a = <<>> /\ setup.geoip /\ ~located
        \/ a = <<record>> /\ ~(setup.geoip /\ ~located)
    OBVIOUS
  <2>4. b = <<>> \/ b = <<sound>>
    OBVIOUS
  <2>. HIDE DEF a, b, new
  <2>. QED BY <2>1, <2>2, <2>3, <2>4
<1>4. new \in Seq(S)
  <2>1. record \in S /\ sound \in S
    OBVIOUS
  <2>. HIDE DEF new, S
  <2>2. /\ <<>> \in Seq(S) /\ <<sound>> \in Seq(S) /\ <<record>> \in Seq(S)
        /\ <<record, sound>> \in Seq(S)
    BY <2>1, ShortSeqs
  <2>. QED BY <1>3, <2>2
<1>. HIDE DEF S, new
<1>5. /\ Len(all) = Len(o) + Len(new) /\ Len(new) \in Nat
      /\ \A i \in Len(o) + 1..Len(all) : all[i] = new[i - Len(o)]
  BY <1>2, <1>4, ConcatProperties, LenProperties
<1>. HIDE DEF all
<1>6. CASE new = <<>> /\ setup.geoip /\ ~located
  BY <1>2, <1>5, <1>6 DEF all, new
<1>7. CASE new = <<sound>> /\ setup.geoip /\ ~located
  <2>1. Len(new) = 1 /\ new[1] = sound
    BY <1>7
  <2>2. \A i \in Len(o) + 1..Len(all) : i = Len(o) + 1
    BY <1>2, <1>5, <2>1
  <2>3. \A i \in Len(o) + 1..Len(all) : all[i] = sound
    BY <1>2, <1>5, <2>1, <2>2
  <2>4. shown = {}
    BY <1>1, <2>3
  <2>. QED BY <1>7, <2>4 DEF all, new
<1>8. CASE new = <<record>> /\ ~(setup.geoip /\ ~located)
  <2>1. Len(new) = 1 /\ new[1] = record
    BY <1>8
  <2>2. /\ \A i \in Len(o) + 1..Len(all) : i = Len(o) + 1
        /\ Len(o) + 1 \in Len(o) + 1..Len(all)
    BY <1>2, <1>5, <2>1
  <2>3. all[Len(o) + 1] = record
    BY <1>2, <1>5, <2>1, <2>2
  <2>4. shown = {Len(o) + 1}
    BY <2>2, <2>3
  <2>. QED BY <1>8, <2>4 DEF all, new
<1>9. CASE new = <<record, sound>> /\ ~(setup.geoip /\ ~located)
  <2>1. Len(new) = 2 /\ new[1] = record /\ new[2] = sound
    BY <1>9
  <2>2. /\ \A i \in Len(o) + 1..Len(all) : i = Len(o) + 1 \/ i = Len(o) + 2
        /\ Len(o) + 1 \in Len(o) + 1..Len(all) /\ Len(o) + 2 \in Len(o) + 1..Len(all)
    BY <1>2, <1>5, <2>1
  <2>3. all[Len(o) + 1] = record /\ all[Len(o) + 2] = sound
    BY <1>2, <1>5, <2>1, <2>2
  <2>4. shown = {Len(o) + 1}
    BY <1>1, <2>2, <2>3
  <2>. QED BY <1>9, <2>4 DEF all, new
<1>. QED BY <1>3, <1>6, <1>7, <1>8, <1>9

(* One record for each frame whose headers are all there, and none for any *)
(* other, from every source, for every captured length and however many    *)
(* extension headers there are.                                            *)
THEOREM FramesShown == Spec => ShownIffComplete
<1>1. ASSUME CallsInv, OutInv, [Next]_vars, InFrame, stack' # stack
      PROVE  LET new == {i \in Len(out) + 1..Len(out') : out'[i].via = Top.via}
                 due == /\ Complete(Top.frame, Link(Top))
                        /\ Top.frame.proto = "udp" /\ Translates => Top.via = "sampled"
                        /\ setup.geoip => Top.frame.located
             IN  Cardinality(new) = IF due THEN 1 ELSE 0
  <2>. DEFINE c == Chain(Top.frame, Link(Top))
              complete == Complete(Top.frame, Link(Top))
              new == {i \in Len(out) + 1..Len(out') : out'[i].via = Top.via}
              due == /\ complete
                     /\ Top.frame.proto = "udp" /\ Translates => Top.via = "sampled"
                     /\ setup.geoip => Top.frame.located
  <2>1. /\ IsCaptured(Top.frame) /\ Top.via \in {"captured", "sampled"}
        /\ Translates => (Top.via = "sampled" <=> suspend = 1) /\ suspend \in {0, 1}
    <3>1. CASE InCapture /\ IsFrame(Top, "captured")
      BY <3>1, Tasks DEF IsFrame, InCapture
    <3>2. CASE InDatagram /\ IsFrame(Top, "sampled")
      BY <3>2, Tasks DEF IsFrame, InDatagram
    <3>. QED BY <1>1, <3>1, <3>2, FrameOnTop
  <2>2. Handled(Top.frame, c.l4) <=> complete
    BY <2>1, HandledIfComplete
  <2>3. Decodes(Top.frame) <=> Top.frame.proto = "udp" /\ Translates /\ Top.via # "sampled"
    BY <2>1 DEF Decodes
  <2>4. PICK W : out \in Seq(W)
    BY <1>1 DEF OutInv, AreHonest
  <2>5. IgnoreFrame \/ ShowFrame \/ TranslateFrame
    <3>1. ~InReader /\ stack # <<>>
      BY <1>1 DEF InFrame, InReader
    <3>. QED BY <1>1, <3>1 DEF Next, Step, Arrive, ReadSample, ReadTemplate, SkipOptions,
           ReadData, NoCache, ReaderReturns, InSet, vars
  <2>. HIDE DEF complete
  <2>6. CASE IgnoreFrame \/ TranslateFrame
    <3>1. out' = out /\ ~due
      BY <2>2, <2>3, <2>6 DEF IgnoreFrame, TranslateFrame
    <3>2. new = {}
      <4>1. \A i \in Len(out) + 1..Len(out) : FALSE
        BY <2>4, LenProperties
      <4>. QED BY <3>1, <4>1
    <3>. QED BY <3>1, <3>2, FS_EmptySet DEF complete
  <2>7. CASE ShowFrame
    <3>. DEFINE r == FrameRecord(Top, c.ip)
    <3>1. /\ Handled(Top.frame, c.l4) /\ ~Decodes(Top.frame)
          /\ out' = out \o Emit(r, FrameFlag(Top.frame), Top.frame.located)
      BY <2>7 DEF ShowFrame
    <3>2. r.via = Top.via /\ r.via # "sound"
      BY <2>1 DEF FrameRecord
    <3>3. due <=> ~(setup.geoip /\ ~Top.frame.located)
      BY <2>2, <2>3, <3>1
    <3>4. new = IF setup.geoip /\ ~Top.frame.located THEN {} ELSE {Len(out) + 1}
      <4>. HIDE DEF r
      <4>1. {i \in Len(out) + 1..Len(out') : out'[i].via = r.via} =
            IF setup.geoip /\ ~Top.frame.located THEN {} ELSE {Len(out) + 1}
        BY <2>4, <3>1, <3>2, EmitAdds
      <4>. QED BY <3>2, <4>1
    <3>. HIDE DEF new, due
    <3>5. Cardinality(new) = IF due THEN 1 ELSE 0
      BY <3>3, <3>4, FS_EmptySet, FS_Singleton
    <3>. QED BY <3>5 DEF new, due, complete
  <2>. QED BY <2>5, <2>6, <2>7
<1>2. CallsInv /\ OutInv /\ [Next]_vars =>
        [InFrame /\ stack' # stack =>
           LET new == {i \in Len(out) + 1..Len(out') : out'[i].via = Top.via}
               due == /\ Complete(Top.frame, Link(Top))
                      /\ Top.frame.proto = "udp" /\ Translates => Top.via = "sampled"
                      /\ setup.geoip => Top.frame.located
           IN  Cardinality(new) = IF due THEN 1 ELSE 0]_vars
  BY <1>1
<1>. QED BY <1>2, CallsHold, OutHolds, PTL DEF Spec, ShownIffComplete

-----------------------------------------------------------------------------
(* Every flow of a data set, in order.                                     *)

(* What may be shown of a flow.                                            *)
ShownOf(f, layout) ==
  IF Told(f, layout) /\ (setup.geoip => f.located) THEN <<Truth(f, layout)>> ELSE <<>>

(* Under the key of a template that was the first of its set are the       *)
(* offsets of its layout.                                                  *)
FrontInv ==
  \A k \in Keys : \A l \in Seq(Fields(setup.reads = "ipfix")) :
    sent[k] = [layout |-> l, front |-> TRUE] =>
      cache[k] = Offsets(l, setup.reads = "ipfix")

LEMMA FrontInit == Init => FrontInv
<1>. SUFFICES ASSUME Init, NEW k \in Keys, NEW l \in Seq(Fields(setup.reads = "ipfix")),
                     sent[k] = [layout |-> l, front |-> TRUE]
              PROVE  FALSE
  BY DEF FrontInv
<1>1. sent[k] = Missing
  BY DEF Init
<1>2. l \in Seq(Fields(TRUE))
  <2>1. Fields(setup.reads = "ipfix") \subseteq Fields(TRUE)
    BY DEF Fields
  <2>. DEFINE A == Fields(setup.reads = "ipfix")
              B == Fields(TRUE)
  <2>2. l \in Seq(A) /\ A \subseteq B
    BY <2>1
  <2>. HIDE DEF A, B
  <2>3. l \in Seq(B)
    BY <2>2
  <2>. QED BY <2>3 DEF B
<1>3. [layout |-> l, front |-> TRUE] \in Announced
  BY <1>2 DEF Announced
<1>. QED BY <1>1, <1>3, FlyAssumption

LEMMA FrontNext == CallsInv /\ CacheInv /\ FrontInv /\ [Next]_vars => FrontInv'
<1>. SUFFICES ASSUME CallsInv, CacheInv, FrontInv, [Next]_vars PROVE FrontInv'
  OBVIOUS
<1>1. CASE UNCHANGED <<setup, cache, sent>>
  BY <1>1 DEF FrontInv
<1>2. CASE ReadTemplate
  <2>. DEFINE ts == ThisSet.templates
              ipfix == setup.reads = "ipfix"
              key(t) == <<Top.msg.id, t.tid>>
              first(k) == CHOOSE j \in DOMAIN ts : ts[j].tid = k[2]
  <2>1. /\ InReader /\ HasSet(Top) /\ ThisSet.kind = "template" /\ setup' = setup
        /\ cache' = [cache EXCEPT ![key(ts[1])] = Offsets(ts[1].layout, Top.msg.kind = "ipfix")]
        /\ \A k \in Keys :
             sent'[k] = IF \E t \in ToSet(ts) : k = key(t)
                        THEN [layout |-> ts[first(k)].layout, front |-> first(k) = 1]
                        ELSE sent[k]
    BY <1>2 DEF ReadTemplate, InSet, Key, ThisSet
  <2>2. Top.msg.kind = setup.reads /\ IsSeq(ts) /\ ts # <<>>
    <3>1. /\ Top.msg.kind = setup.reads
          /\ \/ IsTemplateSet(ThisSet, Top.msg.kind = "ipfix")
             \/ ThisSet.kind = "options"
             \/ IsDataSet(ThisSet, Top.msg.kind = "ipfix")
      BY <2>1, ThisSetIs, ReaderKnows
    <3>. QED BY <2>1, <3>1 DEF IsDataSet, IsTemplateSet
  <2>3. ts[1] \in ToSet(ts) /\ \A t \in ToSet(ts) : \E j \in DOMAIN ts : t = ts[j]
    <3>1. 1 \in 1..Len(ts)
      BY <2>2, LenProperties DEF IsSeq
    <3>. QED BY <2>2, <3>1, LenProperties DEF IsSeq, ToSet
  <2>. HIDE DEF ts
  <2>4. ASSUME NEW k \in Keys, NEW l \in Seq(Fields(ipfix)),
               sent'[k] = [layout |-> l, front |-> TRUE]
        PROVE  cache'[k] = Offsets(l, ipfix)
    <3>1. CASE \E t \in ToSet(ts) : k = key(t)
      <4>1. PICK t \in ToSet(ts) : k = key(t)
        BY <3>1
      <4>2. k[2] = t.tid
        BY <4>1
      <4>3. ts[first(k)].tid = k[2]
        BY <2>3, <4>2
      <4>. HIDE DEF first
      <4>4. [layout |-> ts[first(k)].layout, front |-> first(k) = 1] =
            [layout |-> l, front |-> TRUE]
        BY <2>1, <2>4, <3>1
      <4>5. first(k) = 1 /\ l = ts[1].layout
        BY <4>4
      <4>6. k = key(ts[1])
        BY <4>1, <4>2, <4>3, <4>5
      <4>7. cache'[k] = Offsets(ts[1].layout, Top.msg.kind = "ipfix")
        BY <2>1, <4>6 DEF CacheInv
      <4>. QED BY <2>2, <4>5, <4>7
    <3>2. CASE ~ \E t \in ToSet(ts) : k = key(t)
      <4>1. sent[k] = [layout |-> l, front |-> TRUE] /\ k # key(ts[1])
        BY <2>1, <2>3, <2>4, <3>2
      <4>2. cache'[k] = cache[k]
        BY <2>1, <4>1 DEF CacheInv
      <4>. QED BY <4>1, <4>2 DEF FrontInv
    <3>. QED BY <3>1, <3>2
  <2>. QED BY <2>1, <2>4 DEF FrontInv
<1>3. ASSUME ~ReadTemplate PROVE UNCHANGED <<setup, cache, sent>>
  BY <1>3 DEF Next, Step, Arrive, IgnoreFrame, ShowFrame, TranslateFrame, ReadSample,
     SkipOptions, ReadData, NoCache, ReaderReturns, vars
<1>. QED BY <1>1, <1>2, <1>3

LEMMA FrontHolds == Spec => []FrontInv
BY FrontInit, FrontNext, CallsHold, CacheHolds, PTL DEF Spec

(* The records among what is sent for one.                                 *)
Rec(e) == IF e.via = "flow" THEN <<e.rec>> ELSE <<>>

LEMMA RecsOfEmit ==
  ASSUME NEW W, NEW T, NEW e \in W, e.via = "flow", NEW flag, NEW located,
         [via |-> "sound", flag |-> flag] \in W,
         NEW pick \in [W -> Seq(T)], \A x \in W : pick[x] = Rec(x)
  PROVE  FlatMap(Emit(e, flag, located), pick) =
           IF setup.geoip /\ ~located THEN <<>> ELSE <<e.rec>>
<1>. DEFINE sound == [via |-> "sound", flag |-> flag]
            a == IF setup.geoip /\ ~located THEN <<>> ELSE <<e>>
            b == IF setup.sound THEN <<sound>> ELSE <<>>
            c == IF setup.geoip /\ ~located THEN <<>> ELSE <<e.rec>>
<1>1. Emit(e, flag, located) = a \o b
  BY DEF Emit
<1>2. sound.via # "flow" /\ sound \in W
  OBVIOUS
<1>3. a \in Seq(W) /\ b \in Seq(W)
  OBVIOUS
<1>4. FlatMap(<<e>>, pick) = <<e.rec>> /\ FlatMap(<<>>, pick) = <<>>
  BY FlatMapOne DEF Rec
<1>. HIDE DEF sound
<1>5. FlatMap(<<sound>>, pick) = <<>>
  BY <1>2, FlatMapOne DEF Rec
<1>6. FlatMap(a, pick) = c
  BY <1>4
<1>7. FlatMap(b, pick) = <<>>
  BY <1>4, <1>5
<1>8. c \in Seq(T)
  <2>1. pick[e] = <<e.rec>> /\ pick[e] \in Seq(T)
    BY DEF Rec
  <2>. QED BY <2>1
<1>. HIDE DEF a, b, c
<1>9. FlatMap(a \o b, pick) = FlatMap(a, pick) \o FlatMap(b, pick)
  BY <1>3, FlatMapConcat
<1>10. c \o <<>> = c
  BY <1>8, ConcatEmptySeq
<1>. QED BY <1>1, <1>6, <1>7, <1>9, <1>10 DEF c

(* A flow's own addresses are where the flow is.                           *)
LEMMA TruthIsPlaced ==
  ASSUME NEW ipfix \in BOOLEAN, NEW set, IsDataSet(set, ipfix), NEW f \in ToSet(set.flows),
         NEW found
  PROVE  LET r == Truth(f, set.layout)
         IN  (Placed(r.src, set, found) /\ Placed(r.dst, set, found)) = f.located
<1>. DEFINE r == Truth(f, set.layout)
            src == IF f.v6 THEN "v6src" ELSE "v4src"
            dst == IF f.v6 THEN "v6dst" ELSE "v4dst"
<1>1. r.src = <<f.name, src>> /\ r.dst = <<f.name, dst>>
  BY DEF Truth
<1>2. src \in DOMAIN Slot /\ dst \in DOMAIN Slot
  BY DEF Slot
<1>3. /\ \A ie \in DOMAIN Slot : <<f.name, ie>> # Garbage
      /\ \A g \in ToSet(set.flows) : f.name = g.name => f.located = g.located
      /\ f.located \in BOOLEAN
  BY DEF IsDataSet, IsFlow
<1>. HIDE DEF src, dst, r
<1>4. ASSUME NEW ie \in DOMAIN Slot PROVE Placed(<<f.name, ie>>, set, found) = f.located
  <2>1. <<f.name, ie>>[1] = f.name /\ <<f.name, ie>> # Garbage
    BY <1>3
  <2>2. Placed(<<f.name, ie>>, set, found) =
          \E g \in ToSet(set.flows) : g.name = f.name /\ g.located
    BY <2>1 DEF Placed
  <2>. QED BY <1>3, <2>2
<1>. QED BY <1>1, <1>2, <1>3, <1>4 DEF r

(* What is shown of a data set that is read with its own layout: one       *)
(* record for each flow that tells enough and may be shown, in order.      *)
LEMMA ShownAre ==
  ASSUME NEW ipfix \in BOOLEAN, NEW set, IsDataSet(set, ipfix), Plain(set.layout),
         NEW id, NEW guess, NEW found, NEW np, np = Offsets(set.layout, ipfix)
  PROVE  LET shown == Shown(np, id, set, guess, found)
         IN  /\ \E W : shown \in Seq(W)
             /\ FlattenSeq([i \in DOMAIN shown |-> Rec(shown[i])]) =
                FlattenSeq([k \in DOMAIN set.flows |-> ShownOf(set.flows[k], set.layout)])
<1>. DEFINE F == ToSet(set.flows)
            T == {Truth(f, set.layout) : f \in F}
            recs == Records(np, set, guess)
            here(r) == Placed(r.src, set, found) /\ Placed(r.dst, set, found)
            flow(r) == [via |-> "flow", id |-> id, set |-> set, rec |-> r]
            sound(r) == [via |-> "sound", flag |-> r.flag]
            W == {flow(r) : r \in T} \cup {sound(r) : r \in T}
            emit(r) == Emit(flow(r), r.flag, here(r))
            may(r) == IF setup.geoip /\ ~here(r) THEN <<>> ELSE <<r>>
            h == [r \in T |-> emit(r)]
            pick == [e \in W |-> Rec(e)]
            q == [r \in T |-> may(r)]
            t == [f \in F |-> TruthOf(f, set.layout)]
            u == [f \in F |-> ShownOf(f, set.layout)]
            shown == Shown(np, id, set, guess, found)
<1>1. set.flows \in Seq(F)
  BY DEF IsDataSet, IsSeq
<1>2. recs \in Seq(T)
  BY RecordsAreTruths
<1>3. recs = FlatMap(set.flows, t)
  <2>1. recs = FlattenSeq([k \in DOMAIN set.flows |-> TruthOf(set.flows[k], set.layout)])
    BY RecordsAre
  <2>2. [k \in DOMAIN set.flows |-> TruthOf(set.flows[k], set.layout)] = Each(set.flows, t)
    <3>1. \A k \in DOMAIN set.flows : t[set.flows[k]] = TruthOf(set.flows[k], set.layout)
      BY DEF ToSet
    <3>. HIDE DEF t
    <3>. QED BY <3>1 DEF Each
  <2>. HIDE DEF recs, t
  <2>. QED BY <2>1, <2>2 DEF FlatMap
<1>4. shown = FlatMap(recs, h)
  <2>1. shown = FlattenSeq([i \in DOMAIN recs |-> emit(recs[i])])
    BY DEF Shown
  <2>2. [i \in DOMAIN recs |-> emit(recs[i])] = Each(recs, h)
    <3>. HIDE DEF T, recs, emit
    <3>1. \A i \in DOMAIN recs : recs[i] \in T
      BY <1>2
    <3>2. \A i \in DOMAIN recs : h[recs[i]] = emit(recs[i])
      BY <3>1
    <3>. HIDE DEF h
    <3>. QED BY <3>2 DEF Each
  <2>. HIDE DEF recs, shown, emit, h
  <2>. QED BY <2>1, <2>2 DEF FlatMap
<1>5. \A r \in T : flow(r) \in W /\ sound(r) \in W
  OBVIOUS
<1>6. \A r \in T : flow(r).via = "flow" /\ flow(r).rec = r
  OBVIOUS
<1>7. pick \in [W -> Seq(T)] /\ \A e \in W : pick[e] = Rec(e)
  <2>1. ASSUME NEW e \in W PROVE Rec(e) \in Seq(T)
    <3>1. (\E r \in T : e = flow(r)) \/ (\E r \in T : e = sound(r))
      OBVIOUS
    <3>2. \A r \in T : sound(r).via # "flow"
      OBVIOUS
    <3>. HIDE DEF T, W, flow, sound
    <3>3. CASE \E r \in T : e = flow(r)
      <4>1. PICK r \in T : e = flow(r)
        BY <3>3
      <4>2. Rec(e) = <<r>>
        BY <1>6, <4>1 DEF Rec
      <4>. QED BY <4>2
    <3>4. CASE \E r \in T : e = sound(r)
      <4>1. Rec(e) = <<>>
        BY <3>2, <3>4 DEF Rec
      <4>. QED BY <4>1
    <3>. QED BY <3>1, <3>3, <3>4
  <2>. HIDE DEF T, W
  <2>. QED BY <2>1
<1>8. h \in [T -> Seq(W)] /\ \A r \in T : h[r] = emit(r)
  <2>1. ASSUME NEW r \in T PROVE emit(r) \in Seq(W)
    <3>1. flow(r) \in W /\ sound(r) \in W
      BY <1>5
    <3>. HIDE DEF T, W, flow, here
    <3>. QED BY <3>1, EmitType
  <2>. HIDE DEF T, W, emit
  <2>. QED BY <2>1
<1>9. \A r \in T : q[r] = FlatMap(h[r], pick)
  <2>1. ASSUME NEW r \in T PROVE FlatMap(emit(r), pick) = may(r)
    <3>1. flow(r) \in W /\ sound(r) \in W /\ flow(r).via = "flow" /\ flow(r).rec = r
      BY <1>5, <1>6
    <3>. HIDE DEF T, W, flow, here, pick
    <3>2. FlatMap(Emit(flow(r), r.flag, here(r)), pick) =
            IF setup.geoip /\ ~here(r) THEN <<>> ELSE <<flow(r).rec>>
      BY <1>7, <3>1, RecsOfEmit
    <3>. QED BY <3>1, <3>2
  <2>. HIDE DEF T, emit, may, h, pick
  <2>. QED BY <1>8, <2>1
<1>10. t \in [F -> Seq(T)] /\ q \in [T -> Seq(T)]
  <2>1. \A f \in F : TruthOf(f, set.layout) \in Seq(T)
    <3>1. \A f \in F : Truth(f, set.layout) \in T
      OBVIOUS
    <3>. HIDE DEF T, F
    <3>. QED BY <3>1 DEF TruthOf
  <2>2. \A r \in T : may(r) \in Seq(T)
    <3>. HIDE DEF T, here
    <3>. QED OBVIOUS
  <2>. HIDE DEF T, F, may
  <2>. QED BY <2>1, <2>2
<1>11. \A f \in F : u[f] = FlatMap(t[f], q)
  <2>1. ASSUME NEW f \in F PROVE FlatMap(TruthOf(f, set.layout), q) = ShownOf(f, set.layout)
    <3>. DEFINE r == Truth(f, set.layout)
    <3>1. r \in T
      OBVIOUS
    <3>2. here(r) = f.located
      BY TruthIsPlaced
    <3>3. q[r] = may(r)
      BY <3>1
    <3>. HIDE DEF T, r, q, here
    <3>4. FlatMap(<<r>>, q) = q[r] /\ FlatMap(<<>>, q) = <<>>
      BY <1>10, <3>1, FlatMapOne
    <3>. QED BY <3>2, <3>3, <3>4 DEF TruthOf, ShownOf, r
  <2>. HIDE DEF F, q
  <2>. QED BY <2>1
<1>12. FlattenSeq([k \in DOMAIN set.flows |-> ShownOf(set.flows[k], set.layout)]) =
       FlatMap(set.flows, u)
  <2>1. [k \in DOMAIN set.flows |-> ShownOf(set.flows[k], set.layout)] = Each(set.flows, u)
    <3>1. \A k \in DOMAIN set.flows : u[set.flows[k]] = ShownOf(set.flows[k], set.layout)
      BY DEF ToSet
    <3>. HIDE DEF u
    <3>. QED BY <3>1 DEF Each
  <2>. HIDE DEF u
  <2>. QED BY <2>1 DEF FlatMap
<1>. HIDE DEF F, T, W, recs, h, pick, q, t, u, here, emit, may, shown
<1>13. shown \in Seq(W)
  BY <1>2, <1>4, <1>8, FlatMapType
<1>14. FlattenSeq([i \in DOMAIN shown |-> Rec(shown[i])]) = FlatMap(shown, pick)
  <2>1. \A i \in DOMAIN shown : shown[i] \in W
    BY <1>13
  <2>2. [i \in DOMAIN shown |-> Rec(shown[i])] = Each(shown, pick)
    BY <1>7, <2>1 DEF Each
  <2>. QED BY <2>2 DEF FlatMap
<1>15. FlatMap(shown, pick) = FlatMap(recs, q)
  <2>1. Maps(h, T, W) /\ Maps(pick, W, T) /\ Joins(q, h, pick, T)
    BY <1>7, <1>8, <1>9 DEF Maps, Joins
  <2>2. FlatMap(FlatMap(recs, h), pick) = FlatMap(recs, q)
    BY <1>2, <2>1, FlatMapTwice
  <2>. QED BY <1>4, <2>2
<1>16. FlatMap(recs, q) = FlatMap(set.flows, u)
  <2>1. Maps(t, F, T) /\ Maps(q, T, T) /\ Joins(u, t, q, F)
    BY <1>10, <1>11 DEF Maps, Joins
  <2>2. FlatMap(FlatMap(set.flows, t), q) = FlatMap(set.flows, u)
    BY <1>1, <2>1, FlatMapTwice
  <2>. QED BY <1>3, <2>2
<1>. QED BY <1>12, <1>13, <1>14, <1>15, <1>16 DEF shown

(***************************************************************************)
(* Whatever other exporters sent in between: a data set whose exporter's   *)
(* last template under its id was the first of its set gives one record    *)
(* for each flow that the template tells enough about, in order, and each  *)
(* says what that flow was.                                                *)
(***************************************************************************)
THEOREM Measured == Spec => FlowsAsMeasured
<1>1. ASSUME CallsInv, CacheInv, OutInv, FrontInv, [Next]_vars,
             OwnTemplate({TRUE}), stack' # stack
      PROVE  ShowsTheFlows
  <2>. DEFINE set == ThisSet
              key == <<Top.msg.id, set.tid>>
              ipfix == setup.reads = "ipfix"
              np == cache[key]
  <2>1. /\ InReader /\ HasSet(Top) /\ set.kind = "data" /\ Plain(set.layout)
        /\ sent[key] = [layout |-> set.layout, front |-> TRUE]
    BY <1>1 DEF OwnTemplate, InSet, ThisSet
  <2>2. IsDataSet(set, ipfix) /\ key \in Keys
    <3>1. /\ Top.msg.kind = setup.reads
          /\ \/ IsTemplateSet(set, Top.msg.kind = "ipfix")
             \/ set.kind = "options"
             \/ /\ IsDataSet(set, Top.msg.kind = "ipfix")
                /\ <<Top.msg.id, set.tid>> \in Keys
      BY <1>1, <2>1, ThisSetIs, ReaderKnows
    <3>. QED BY <2>1, <3>1 DEF IsTemplateSet
  <2>3. np = Offsets(set.layout, ipfix) /\ np # Missing
    <3>1. np = Offsets(set.layout, ipfix)
      BY <1>1, <2>1, <2>2 DEF FrontInv, IsDataSet
    <3>2. Offsets(set.layout, ipfix) \in Offset
      BY <2>2, OffsetsType DEF IsDataSet
    <3>. QED BY <3>1, <3>2, FlyAssumption
  <2>4. ReadData
    <3>1. Top.msg.kind # "sflow" /\ stack # <<>> /\ ~InFrame
      BY <1>1, <2>1, ThisSetIs DEF InReader, InFrame
    <3>2. ~ReadSample /\ ~ReaderReturns /\ ~NoCache
      BY <1>1, <2>1, <3>1 DEF ReadSample, HasSample, ReaderReturns, NoCache
    <3>3. ~ReadTemplate /\ ~SkipOptions
      BY <2>1 DEF ReadTemplate, SkipOptions, InSet, ThisSet
    <3>. QED BY <1>1, <3>1, <3>2, <3>3 DEF Next, Step, Arrive, IgnoreFrame, ShowFrame,
           TranslateFrame, vars
  <2>5. PICK guess, found : out' = out \o Shown(np, Top.msg.id, set, guess, found)
    BY <2>3, <2>4 DEF ReadData, Key
  <2>. DEFINE shown == Shown(np, Top.msg.id, set, guess, found)
              n == Len(out') - Len(out)
  <2>6. PICK V : out \in Seq(V)
    BY <1>1 DEF OutInv, AreHonest
  <2>7. /\ \E W : shown \in Seq(W)
        /\ FlattenSeq([i \in DOMAIN shown |-> Rec(shown[i])]) =
           FlattenSeq([k \in DOMAIN set.flows |-> ShownOf(set.flows[k], set.layout)])
    <3>1. Plain(set.layout) /\ ipfix \in BOOLEAN
      BY <2>1
    <3>. DEFINE id == Top.msg.id
    <3>. HIDE DEF set, ipfix, np, id
    <3>2. LET s == Shown(np, id, set, guess, found)
          IN  /\ \E W : s \in Seq(W)
              /\ FlattenSeq([i \in DOMAIN s |-> Rec(s[i])]) =
                 FlattenSeq([k \in DOMAIN set.flows |-> ShownOf(set.flows[k], set.layout)])
      BY ONLY <2>2, <2>3, <3>1, ShownAre
    <3>. QED BY <3>2 DEF id
  <2>8. PICK W : shown \in Seq(W)
    BY <2>7
  <2>. HIDE DEF shown
  <2>9. n = Len(shown) /\ DOMAIN shown = 1..n /\ \A i \in 1..n : out'[Len(out) + i] = shown[i]
    <3>. DEFINE S == V \cup W
    <3>1. out \in Seq(S) /\ shown \in Seq(S)
      BY <2>6, <2>8
    <3>. HIDE DEF S
    <3>2. /\ Len(out \o shown) = Len(out) + Len(shown)
          /\ \A i \in 1..Len(out) + Len(shown) :
               (out \o shown)[i] = IF i <= Len(out) THEN out[i] ELSE shown[i - Len(out)]
          /\ Len(out) \in Nat /\ Len(shown) \in Nat /\ DOMAIN shown = 1..Len(shown)
      BY <3>1, ConcatProperties, LenProperties
    <3>3. out' = out \o shown
      BY <2>5 DEF shown
    <3>4. n = Len(shown)
      BY <3>2, <3>3
    <3>5. ASSUME NEW i \in 1..n PROVE out'[Len(out) + i] = shown[i]
      <4>1. /\ Len(out) + i \in 1..Len(out) + Len(shown) /\ ~(Len(out) + i <= Len(out))
            /\ (Len(out) + i) - Len(out) = i
        BY <3>2, <3>4
      <4>. QED BY <3>2, <3>3, <4>1
    <3>. QED BY <3>2, <3>4, <3>5
  <2>. HIDE DEF n
  <2>. DEFINE new(i) == out'[Len(out) + i]
  <2>10. [i \in 1..n |-> IF new(i).via = "flow" THEN <<new(i).rec>> ELSE <<>>] =
         [i \in DOMAIN shown |-> Rec(shown[i])]
    BY <2>9 DEF Rec
  <2>11. \A k \in DOMAIN set.flows :
           ShownOf(set.flows[k], set.layout) =
             IF Told(set.flows[k], set.layout) /\ (setup.geoip => set.flows[k].located)
             THEN <<Truth(set.flows[k], set.layout)>> ELSE <<>>
    BY DEF ShownOf
  <2>. QED BY <2>7, <2>10, <2>11 DEF ShowsTheFlows, n
<1>2. CallsInv /\ CacheInv /\ OutInv /\ FrontInv /\ [Next]_vars =>
        [OwnTemplate({TRUE}) /\ stack' # stack => ShowsTheFlows]_vars
  BY <1>1
<1>. QED BY <1>2, CallsHold, CacheHolds, OutHolds, FrontHolds, PTL
       DEF Spec, FlowsAsMeasured

=============================================================================
