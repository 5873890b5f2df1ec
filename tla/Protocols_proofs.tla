-------------------------- MODULE Protocols_proofs ---------------------------
(***************************************************************************)
(* The parsers of the three protocols: however the stream of replies is    *)
(* cut, the responses they return are those of the replies, in order, and  *)
(* between two replies none is owed.                                       *)
(***************************************************************************)
EXTENDS Protocols, SumTheorems, SequenceTheorems

-----------------------------------------------------------------------------
(* Replies                                                                 *)

Kinds == {"+", "-", ":", "$", "*", "data", "VALUE", "END", "STORED",
          "SERVER_ERROR", "SUCCESS", "EBUSY", "ENOMEM", "KEY_ENOENT", "AUTH_ERROR"}

Items == [kind : Kinds, n : Int]

Statuses == {"SUCCESS", "EBUSY", "ENOMEM", "KEY_ENOENT", "AUTH_ERROR"}

\* Every reply of a Redis server.
RedisReply(reply) ==
    \/ \E kind \in {"+", "-", ":"} : reply = Line(kind)
    \/ reply = << Item("$", -1) >>
    \/ \E n \in Nat : reply = Bulk(n)
    \/ \E n \in 0..Slots : reply = Ranges(n)

\* Every reply of memcached to the text protocol.
TextReply(reply) ==
    \/ \E kind \in {"SERVER_ERROR", "STORED"} : reply = Line(kind)
    \/ \E n \in Nat : reply = Sections(n)

\* Every reply of memcached to the binary protocol.
BinaryReply(reply) ==
    \/ reply = << Item("SUCCESS", 0) >>
    \/ \E status \in Statuses, n \in Nat \ {0} : reply = Packet(status, n)

IsReply(reply) ==
    \/ config.protocol = "redis" /\ RedisReply(reply)
    \/ config.protocol = "memcache_text" /\ TextReply(reply)
    \/ config.protocol = "memcache_binary" /\ BinaryReply(reply)

LEMMA ItemType ==
    ASSUME NEW kind \in Kinds, NEW n \in Int
    PROVE  /\ Item(kind, n) \in Items
           /\ Item(kind, n).kind = kind /\ Item(kind, n).n = n
BY DEF Items, Item

LEMMA Before ==
    ASSUME NEW S, NEW item \in S, NEW t \in Seq(S)
    PROVE  /\ << item >> \o t \in Seq(S) /\ Len(<< item >> \o t) = Len(t) + 1
           /\ (<< item >> \o t)[1] = item
           /\ \A i \in 1..Len(t) : (<< item >> \o t)[i + 1] = t[i]
           /\ Head(<< item >> \o t) = item /\ Tail(<< item >> \o t) = t
<1>1. Head(<< item >> \o t) = item /\ Tail(<< item >> \o t) = t
  OBVIOUS
<1> QED  BY <1>1

LEMMA After ==
    ASSUME NEW S, NEW item \in S, NEW s \in Seq(S)
    PROVE  /\ s \o << item >> \in Seq(S) /\ Len(s \o << item >>) = Len(s) + 1
           /\ (s \o << item >>)[Len(s) + 1] = item
           /\ \A i \in 1..Len(s) : (s \o << item >>)[i] = s[i]
OBVIOUS

LEMMA Regroup ==
    ASSUME NEW s \in Seq(Items), NEW t \in Seq(Items), NEW u \in Seq(Items)
    PROVE  (s \o t) \o u = s \o (t \o u)
BY ConcatAssociative

LEMMA EmptyParts ==
    ASSUME NEW s \in Seq(Items), NEW t \in Seq(Items), s \o t = << >>
    PROVE  s = << >>
<1>1. Len(s \o t) = Len(s) + Len(t) /\ Len(s) \in Nat /\ Len(t) \in Nat
  BY ConcatProperties, LenProperties
<1>2. Len(s \o t) = 0
  OBVIOUS
<1> QED  BY <1>1, <1>2, EmptySeq

LEMMA LineShape ==
    ASSUME NEW kind \in Kinds
    PROVE  /\ Line(kind) \in Seq(Items) /\ Len(Line(kind)) = 1
           /\ Line(kind)[1] = Item(kind, 0)
<1> DEFINE item == Item(kind, 0)
<1>1. item \in Items
  BY ItemType
<1> HIDE DEF item
<1>2. << item >> \in Seq(Items) /\ Len(<< item >>) = 1 /\ << item >>[1] = item
  BY <1>1
<1> QED  BY <1>2 DEF Line, item

LEMMA PairShape ==
    ASSUME NEW first \in Items, NEW second \in Items
    PROVE  /\ << first, second >> \in Seq(Items) /\ Len(<< first, second >>) = 2
           /\ << first, second >>[1] = first /\ << first, second >>[2] = second
OBVIOUS

\* The item at place q of a range.
InRange(q) ==
    IF q = 1 THEN Item("*", 3) ELSE IF q = 4 THEN Item("*", 2)
    ELSE IF q = 5 THEN Item("$", 1) ELSE IF q = 6 THEN Item("data", 1)
    ELSE Item(":", 0)

LEMMA RangeShape ==
    /\ Len(OneRange) = 7
    /\ \A q \in 1..7 : OneRange[q] = InRange(q) /\ InRange(q) \in Items
<1>1. Len(OneRange) = 7
  BY DEF OneRange
<1>2. ASSUME NEW q \in 1..7 PROVE OneRange[q] = InRange(q) /\ InRange(q) \in Items
  <2>1. q = 1 \/ q = 2 \/ q = 3 \/ q = 4 \/ q = 5 \/ q = 6 \/ q = 7
    OBVIOUS
  <2>2. InRange(q) \in Items
    BY <2>1, ItemType DEF InRange, Kinds
  <2>3. OneRange[q] = InRange(q)
    BY <2>1 DEF OneRange, InRange
  <2> QED  BY <2>2, <2>3
<1> QED  BY <1>1, <1>2

LEMMA KindInRange ==
    ASSUME NEW q \in 0..6, NEW item, item = InRange(q + 1)
    PROVE  /\ item.kind = (IF q \in {0, 3} THEN "*" ELSE IF q = 4 THEN "$"
                            ELSE IF q = 5 THEN "data" ELSE ":")
           /\ q = 0 => item.n = 3
           /\ q = 3 => item.n = 2
           /\ q = 4 => item.n = 1
<1>1. q = 0 \/ q = 1 \/ q = 2 \/ q = 3 \/ q = 4 \/ q = 5 \/ q = 6
  OBVIOUS
<1> QED  BY <1>1 DEF InRange, Item

LEMMA RangesShape ==
    ASSUME NEW n \in Nat
    PROVE  /\ Ranges(n) \in Seq(Items) /\ Len(Ranges(n)) = 7 * n + 1
           /\ Ranges(n)[1] = Item("*", n)
           /\ \A i \in 1..(7 * n) : Ranges(n)[i + 1] = InRange(((i - 1) % 7) + 1)
<1> DEFINE rest == [i \in 1..(n * 7) |-> InRange(((i - 1) % 7) + 1)]
           first == Item("*", n)
<1>1. first \in Items
  BY ItemType DEF Kinds
<1>2. \A i \in 1..(n * 7) : ((i - 1) % 7) + 1 \in 1..7
  OBVIOUS
<1>3. /\ rest \in Seq(Items) /\ Len(rest) = n * 7
      /\ \A i \in 1..(n * 7) : rest[i] = InRange(((i - 1) % 7) + 1)
  <2>1. \A i \in 1..(n * 7) : InRange(((i - 1) % 7) + 1) \in Items
    BY <1>2, RangeShape
  <2>2. rest \in [1..(n * 7) -> Items]
    BY <2>1
  <2>3. n * 7 \in Nat
    OBVIOUS
  <2> QED  BY <2>2, <2>3, SeqDef, LenProperties
<1>4. Ranges(n) = << first >> \o rest
  <2>1. [i \in 1..(n * Len(OneRange)) |-> OneRange[((i - 1) % Len(OneRange)) + 1]] = rest
    BY <1>2, RangeShape
  <2> QED  BY <2>1 DEF Ranges
<1> HIDE DEF rest, first
<1>5. /\ Ranges(n) \in Seq(Items) /\ Len(Ranges(n)) = Len(rest) + 1
      /\ Ranges(n)[1] = first
      /\ \A i \in 1..Len(rest) : Ranges(n)[i + 1] = rest[i]
  <2>1. rest \in Seq(Items)
    BY <1>3
  <2>2. /\ << first >> \o rest \in Seq(Items) /\ Len(<< first >> \o rest) = Len(rest) + 1
        /\ (<< first >> \o rest)[1] = first
        /\ \A i \in 1..Len(rest) : (<< first >> \o rest)[i + 1] = rest[i]
    BY <1>1, <2>1, Before
  <2> QED  BY <1>4, <2>2, Zenon
<1>6. n * 7 = 7 * n
  OBVIOUS
<1>7. Len(Ranges(n)) = 7 * n + 1
  BY <1>3, <1>5, <1>6
<1>8. \A i \in 1..(7 * n) : Ranges(n)[i + 1] = InRange(((i - 1) % 7) + 1)
  BY <1>3, <1>5, <1>6
<1> QED  BY <1>5, <1>7, <1>8 DEF first

LEMMA SectionsShape ==
    ASSUME NEW n \in Nat
    PROVE  /\ Sections(n) \in Seq(Items) /\ Len(Sections(n)) = 2 * n + 1
           /\ Sections(n)[2 * n + 1] = Item("END", 0)
           /\ \A i \in 1..(2 * n) :
                 Sections(n)[i] = Item(IF i % 2 = 1 THEN "VALUE" ELSE "data", 1)
<1> DEFINE values == [i \in 1..(2 * n) |-> Item(IF i % 2 = 1 THEN "VALUE" ELSE "data", 1)]
           end == Item("END", 0)
<1>1. /\ values \in Seq(Items) /\ Len(values) = 2 * n
      /\ \A i \in 1..(2 * n) :
            values[i] = Item(IF i % 2 = 1 THEN "VALUE" ELSE "data", 1)
  <2>1. \A i \in 1..(2 * n) : Item(IF i % 2 = 1 THEN "VALUE" ELSE "data", 1) \in Items
    BY DEF Item, Items, Kinds
  <2>2. values \in [1..(2 * n) -> Items] /\ 2 * n \in Nat
    BY <2>1
  <2> QED  BY <2>2, SeqDef, LenProperties
<1>2. end \in Items
  BY ItemType DEF Kinds
<1>3. Sections(n) = values \o << end >>
  BY DEF Sections, Line
<1> HIDE DEF values, end
<1>4. /\ Sections(n) \in Seq(Items) /\ Len(Sections(n)) = Len(values) + 1
      /\ Sections(n)[Len(values) + 1] = end
      /\ \A i \in 1..Len(values) : Sections(n)[i] = values[i]
  <2>1. values \in Seq(Items)
    BY <1>1
  <2>2. /\ values \o << end >> \in Seq(Items) /\ Len(values \o << end >>) = Len(values) + 1
        /\ (values \o << end >>)[Len(values) + 1] = end
        /\ \A i \in 1..Len(values) : (values \o << end >>)[i] = values[i]
    BY <1>2, <2>1, After
  <2> QED  BY <1>3, <2>2, Zenon
<1>5. Len(Sections(n)) = 2 * n + 1 /\ Sections(n)[2 * n + 1] = end
  BY <1>1, <1>4
<1>6. \A i \in 1..(2 * n) :
         Sections(n)[i] = Item(IF i % 2 = 1 THEN "VALUE" ELSE "data", 1)
  BY <1>1, <1>4
<1> QED  BY <1>4, <1>5, <1>6 DEF end

LEMMA BulkShape ==
    ASSUME NEW n \in Int
    PROVE  /\ Bulk(n) \in Seq(Items) /\ Len(Bulk(n)) = 2
           /\ Bulk(n)[1] = Item("$", n) /\ Bulk(n)[2] = Item("data", n)
<1>1. Item("$", n) \in Items /\ Item("data", n) \in Items
  BY ItemType DEF Kinds
<1> QED  BY <1>1, PairShape DEF Bulk

LEMMA PacketShape ==
    ASSUME NEW status \in Statuses, NEW n \in Int
    PROVE  /\ Packet(status, n) \in Seq(Items) /\ Len(Packet(status, n)) = 2
           /\ Packet(status, n)[1] = Item(status, n)
           /\ Packet(status, n)[2] = Item("data", n)
<1>1. Item(status, n) \in Items /\ Item("data", n) \in Items
  BY ItemType DEF Kinds, Statuses
<1> QED  BY <1>1, PairShape DEF Packet

LEMMA SingleShape ==
    ASSUME NEW item \in Items
    PROVE  << item >> \in Seq(Items) /\ Len(<< item >>) = 1 /\ << item >>[1] = item
OBVIOUS

LEMMA ReplyType ==
    ASSUME NEW reply, IsReply(reply)
    PROVE  reply \in Seq(Items) /\ Len(reply) \in Nat \ {0}
<1>1. CASE RedisReply(reply)
  <2>1. ASSUME NEW kind \in {"+", "-", ":"}, reply = Line(kind)
        PROVE  reply \in Seq(Items) /\ Len(reply) \in Nat \ {0}
    BY <2>1, LineShape DEF Kinds
  <2>2. CASE reply = << Item("$", -1) >>
    BY <2>2, SingleShape, ItemType DEF Kinds
  <2>3. ASSUME NEW n \in Nat, reply = Bulk(n)
        PROVE  reply \in Seq(Items) /\ Len(reply) \in Nat \ {0}
    BY <2>3, BulkShape
  <2>4. ASSUME NEW n \in Nat, reply = Ranges(n)
        PROVE  reply \in Seq(Items) /\ Len(reply) \in Nat \ {0}
    BY <2>4, RangesShape
  <2>5. 0..Slots \subseteq Nat
    OBVIOUS
  <2> QED  BY <1>1, <2>1, <2>2, <2>3, <2>4, <2>5 DEF RedisReply
<1>2. CASE TextReply(reply)
  <2>1. ASSUME NEW kind \in {"SERVER_ERROR", "STORED"}, reply = Line(kind)
        PROVE  reply \in Seq(Items) /\ Len(reply) \in Nat \ {0}
    BY <2>1, LineShape DEF Kinds
  <2>2. ASSUME NEW n \in Nat, reply = Sections(n)
        PROVE  reply \in Seq(Items) /\ Len(reply) \in Nat \ {0}
    BY <2>2, SectionsShape
  <2> QED  BY <1>2, <2>1, <2>2 DEF TextReply
<1>3. CASE BinaryReply(reply)
  <2>1. CASE reply = << Item("SUCCESS", 0) >>
    BY <2>1, SingleShape, ItemType DEF Kinds
  <2>2. ASSUME NEW status \in Statuses, NEW n \in Nat \ {0}, reply = Packet(status, n)
        PROVE  reply \in Seq(Items) /\ Len(reply) \in Nat \ {0}
    BY <2>2, PacketShape
  <2> QED  BY <1>3, <2>1, <2>2 DEF BinaryReply
<1> QED  BY <1>1, <1>2, <1>3 DEF IsReply

-----------------------------------------------------------------------------
(* The stream                                                              *)

\* s is what comes behind the first p items of reply k + 1: cat[j] is all that comes
\* behind reply j.
Behind(replies, s, k, p) ==
    \E cat \in [0..Len(replies) -> Seq(Items)] :
        /\ cat[Len(replies)] = << >>
        /\ \A j \in 0..(Len(replies) - 1) : cat[j] = replies[j + 1] \o cat[j + 1]
        /\ s = IF k = Len(replies) THEN << >>
               ELSE SubSeq(replies[k + 1], p + 1, Len(replies[k + 1])) \o cat[k + 1]

LEMMA ReplyShape ==
    ASSUME NEW replies \in Seq(Seq(Items)), NEW k \in 0..(Len(replies) - 1)
    PROVE  /\ Len(replies) \in Nat /\ k + 1 \in 1..Len(replies) /\ k + 1 \in 0..Len(replies)
           /\ replies[k + 1] \in Seq(Items) /\ Len(replies[k + 1]) \in Nat
           /\ \A i \in 1..Len(replies[k + 1]) : replies[k + 1][i] \in Items
<1>1. Len(replies) \in Nat
  BY LenProperties
<1>2. k + 1 \in 1..Len(replies) /\ k + 1 \in 0..Len(replies)
  BY <1>1
<1>3. replies[k + 1] \in Seq(Items)
  BY <1>2, ElementOfSeq
<1>4. ASSUME NEW reply \in Seq(Items)
      PROVE  Len(reply) \in Nat /\ \A i \in 1..Len(reply) : reply[i] \in Items
  BY LenProperties, ElementOfSeq
<1> QED  BY <1>1, <1>2, <1>3, <1>4

\* The first item of the stream is the next item of the reply.
LEMMA NextItem ==
    ASSUME NEW replies \in Seq(Seq(Items)), NEW s \in Seq(Items), s # << >>,
           NEW k \in 0..Len(replies), NEW p \in Nat,
           k < Len(replies) => p < Len(replies[k + 1]),
           Behind(replies, s, k, p)
    PROVE  /\ k < Len(replies)
           /\ Head(s) = replies[k + 1][p + 1]
           /\ Behind(replies, Tail(s), k, p + 1)
<1>1. PICK cat \in [0..Len(replies) -> Seq(Items)] :
        /\ cat[Len(replies)] = << >>
        /\ \A j \in 0..(Len(replies) - 1) : cat[j] = replies[j + 1] \o cat[j + 1]
        /\ s = IF k = Len(replies) THEN << >>
               ELSE SubSeq(replies[k + 1], p + 1, Len(replies[k + 1])) \o cat[k + 1]
  BY DEF Behind
<1>2. Len(replies) \in Nat /\ k < Len(replies)
  BY <1>1, LenProperties
<1> DEFINE reply == replies[k + 1]
           rest == SubSeq(reply, p + 2, Len(reply))
<1>3. /\ reply \in Seq(Items) /\ Len(reply) \in Nat /\ cat[k + 1] \in Seq(Items)
      /\ \A i \in 1..Len(reply) : reply[i] \in Items
      /\ p + 1 \in 1..Len(reply)
  BY <1>2, ReplyShape
<1>4. SubSeq(reply, p + 1, Len(reply)) = << reply[p + 1] >> \o rest
  <2>1. Len(reply) \in (p + 1)..Len(reply) /\ (p + 1) + 1 = p + 2
    BY <1>3
  <2> HIDE DEF reply
  <2> QED  BY <1>3, <2>1, SubSeqRecursiveFirst
<1>5. rest \in Seq(Items)
  <2>1. \A i \in (p + 2)..Len(reply) : reply[i] \in Items
    BY <1>3
  <2> QED  BY <2>1, <1>3, SubSeqProperties
<1>6. /\ << reply[p + 1] >> \in Seq(Items) /\ Len(<< reply[p + 1] >>) = 1
      /\ << reply[p + 1] >>[1] = reply[p + 1]
  BY <1>3, SingleShape
<1>7. s = << reply[p + 1] >> \o (rest \o cat[k + 1])
  <2>1. s = SubSeq(reply, p + 1, Len(reply)) \o cat[k + 1]
    BY <1>1, <1>2
  <2>2. s = (<< reply[p + 1] >> \o rest) \o cat[k + 1]
    BY <2>1, <1>4
  <2> DEFINE first == << reply[p + 1] >>
             behind == cat[k + 1]
  <2>3. first \in Seq(Items) /\ behind \in Seq(Items)
    BY <1>3, <1>6
  <2> HIDE DEF rest, reply, first, behind
  <2>4. (first \o rest) \o behind = first \o (rest \o behind)
    BY <1>5, <2>3, Regroup, ZenonT(60)
  <2> QED  BY <2>2, <2>4 DEF first, behind
<1>8. Head(s) = reply[p + 1] /\ Tail(s) = rest \o cat[k + 1]
  <2> DEFINE item == reply[p + 1]
             behind == rest \o cat[k + 1]
  <2>1. item \in Items /\ behind \in Seq(Items)
    BY <1>3, <1>5, ConcatProperties
  <2> HIDE DEF item, behind
  <2>2. Head(<< item >> \o behind) = item /\ Tail(<< item >> \o behind) = behind
    BY <2>1, Before
  <2> QED  BY <1>7, <2>2 DEF item, behind
<1>9. (p + 1) + 1 = p + 2
  OBVIOUS
<1> QED  BY <1>1, <1>2, <1>8, <1>9 DEF Behind

\* Behind a reply comes the next one.
LEMMA NextReply ==
    ASSUME NEW replies \in Seq(Seq(Items)), NEW s,
           NEW k \in 0..(Len(replies) - 1),
           Behind(replies, s, k, Len(replies[k + 1]))
    PROVE  Behind(replies, s, k + 1, 0)
<1>1. PICK cat \in [0..Len(replies) -> Seq(Items)] :
        /\ cat[Len(replies)] = << >>
        /\ \A j \in 0..(Len(replies) - 1) : cat[j] = replies[j + 1] \o cat[j + 1]
        /\ s = SubSeq(replies[k + 1], Len(replies[k + 1]) + 1, Len(replies[k + 1]))
                  \o cat[k + 1]
  <2>1. Len(replies) \in Nat /\ k # Len(replies)
    BY LenProperties
  <2> QED  BY <2>1 DEF Behind
<1>2. Len(replies) \in Nat
  BY LenProperties
<1>3. s = cat[k + 1]
  <2>1. Len(replies[k + 1]) \in Nat /\ cat[k + 1] \in Seq(Items)
    BY ReplyShape
  <2>2. SubSeq(replies[k + 1], Len(replies[k + 1]) + 1, Len(replies[k + 1])) = << >>
    BY <2>1, SubSeqEmpty
  <2> QED  BY <1>1, <2>1, <2>2, ConcatEmptySeq
<1>4. CASE k + 1 = Len(replies)
  BY <1>1, <1>3, <1>4 DEF Behind
<1>5. CASE k + 1 < Len(replies)
  <2> DEFINE reply == replies[(k + 1) + 1]
  <2>1. reply \in Seq(Items) /\ k + 1 \in 0..(Len(replies) - 1)
    BY <1>2, <1>5, ElementOfSeq
  <2>2. SubSeq(reply, 0 + 1, Len(reply)) = reply
    BY <2>1, SubSeqFull
  <2>3. s = SubSeq(reply, 0 + 1, Len(reply)) \o cat[(k + 1) + 1]
    BY <1>1, <1>3, <2>1, <2>2
  <2>4. k + 1 # Len(replies)
    BY <1>2, <1>5
  <2>5. s = IF k + 1 = Len(replies) THEN << >>
            ELSE SubSeq(replies[(k + 1) + 1], 0 + 1, Len(replies[(k + 1) + 1]))
                    \o cat[(k + 1) + 1]
    BY <2>3, <2>4
  <2> QED  BY <1>1, <2>5, Zenon DEF Behind
<1> QED  BY <1>2, <1>4, <1>5

\* Where nothing comes, the reply is complete.
LEMMA NothingBehind ==
    ASSUME NEW replies \in Seq(Seq(Items)),
           NEW k \in 0..(Len(replies) - 1), NEW p \in Nat,
           Behind(replies, << >>, k, p)
    PROVE  p >= Len(replies[k + 1])
<1>1. PICK cat \in [0..Len(replies) -> Seq(Items)] :
        << >> = SubSeq(replies[k + 1], p + 1, Len(replies[k + 1])) \o cat[k + 1]
  <2>1. Len(replies) \in Nat /\ k # Len(replies)
    BY LenProperties
  <2> QED  BY <2>1 DEF Behind
<1> DEFINE reply == replies[k + 1]
           rest == SubSeq(reply, p + 1, Len(reply))
<1>2. Len(replies) \in Nat
  BY LenProperties
<1>3. /\ reply \in Seq(Items) /\ Len(reply) \in Nat /\ cat[k + 1] \in Seq(Items)
      /\ \A i \in 1..Len(reply) : reply[i] \in Items
  BY ReplyShape
<1>4. rest \in Seq(Items) /\ Len(rest) = IF p + 1 <= Len(reply) THEN Len(reply) - p ELSE 0
  <2>1. \A i \in (p + 1)..Len(reply) : reply[i] \in Items
    BY <1>3
  <2> QED  BY <2>1, <1>3, SubSeqProperties
<1>5. rest = << >>
  <2>1. rest \o cat[k + 1] = << >>
    BY <1>1
  <2> HIDE DEF rest, reply
  <2> QED  BY <2>1, <1>3, <1>4, EmptyParts
<1>6. Len(rest) = 0
  <2> HIDE DEF rest
  <2> QED  BY <1>5
<1> QED  BY <1>3, <1>4, <1>6

\* What the server answers comes last.
LEMMA OneMoreReply ==
    ASSUME NEW replies \in Seq(Seq(Items)), NEW s \in Seq(Items),
           NEW reply \in Seq(Items),
           NEW k \in 0..Len(replies), NEW p \in Nat, k = Len(replies) => p = 0,
           Behind(replies, s, k, p)
    PROVE  Behind(Append(replies, reply), s \o reply, k, p)
<1> DEFINE n == Len(replies)
           more == Append(replies, reply)
<1>1. PICK cat \in [0..n -> Seq(Items)] :
        /\ cat[n] = << >>
        /\ \A j \in 0..(n - 1) : cat[j] = replies[j + 1] \o cat[j + 1]
        /\ s = IF k = n THEN << >>
               ELSE SubSeq(replies[k + 1], p + 1, Len(replies[k + 1])) \o cat[k + 1]
  BY DEF Behind
<1>2. /\ n \in Nat /\ more \in Seq(Seq(Items)) /\ Len(more) = n + 1
      /\ \A j \in 1..n : more[j] = replies[j]
      /\ more[n + 1] = reply
      /\ \A j \in 1..n : replies[j] \in Seq(Items)
  BY LenProperties, AppendProperties, ElementOfSeq
<1> HIDE DEF more
<1> DEFINE cats == [j \in 0..(n + 1) |-> IF j <= n THEN cat[j] \o reply ELSE << >>]
<1>3. \A j \in 0..n : cats[j] = cat[j] \o reply
  <2> HIDE DEF n
  <2>1. \A j \in 0..n : j \in 0..(n + 1) /\ j <= n
    BY <1>2
  <2> QED  BY <2>1
<1> HIDE DEF n
<1>4. cats[n + 1] = << >>
  BY <1>2
<1>5. \A j \in 0..n : cat[j] \in Seq(Items) /\ cat[j] \o reply \in Seq(Items)
  BY <1>1, ConcatProperties
<1>6. cats \in [0..(n + 1) -> Seq(Items)]
  <2>1. << >> \in Seq(Items)
    OBVIOUS
  <2> QED  BY <1>2, <1>5, <2>1
<1>7. cats[n] = reply
  BY <1>1, <1>2, <1>3, ConcatEmptySeq
<1> HIDE DEF cats
<1>8. \A j \in 0..n : cats[j] = more[j + 1] \o cats[j + 1]
  <2> TAKE j \in 0..n
  <2>1. CASE j = n
    BY <1>2, <1>4, <1>7, <2>1, ConcatEmptySeq
  <2>2. CASE j < n
    <3> DEFINE this == replies[j + 1]
               rest == cat[j + 1]
    <3>1. j \in 0..(n - 1) /\ j \in 0..n /\ j + 1 \in 0..n /\ j + 1 \in 1..n
      BY <1>2, <2>2
    <3>2. cat[j] = this \o rest
      BY <1>1, <3>1
    <3>3. this \in Seq(Items) /\ rest \in Seq(Items) /\ more[j + 1] = this
      BY <1>2, <1>5, <3>1
    <3>4. cats[j] = cat[j] \o reply /\ cats[j + 1] = rest \o reply
      BY <1>3, <3>1
    <3> HIDE DEF this, rest
    <3>5. this \in Seq(Items) /\ rest \in Seq(Items)
      BY <3>3
    <3>6. (this \o rest) \o reply = this \o (rest \o reply)
      BY <3>5, Regroup, ZenonT(60)
    <3>7. cats[j] = (this \o rest) \o reply
      BY <3>2, <3>4
    <3>8. cats[j] = this \o cats[j + 1]
      BY <3>4, <3>6, <3>7
    <3> QED  BY <3>3, <3>8
  <2>3. j = n \/ j < n
    BY <1>2
  <2> QED  BY <2>1, <2>2, <2>3, Zenon
<1>9. s \o reply = SubSeq(more[k + 1], p + 1, Len(more[k + 1])) \o cats[k + 1]
  <2>1. CASE k = n
    <3>1. p = 0 /\ more[k + 1] = reply /\ cats[k + 1] = << >> /\ s = << >>
      BY <1>1, <1>2, <1>4, <2>1 DEF n
    <3>2. SubSeq(reply, 1, Len(reply)) = reply
      BY SubSeqFull
    <3> QED  BY <3>1, <3>2, ConcatEmptySeq
  <2>2. CASE k < n
    <3> DEFINE this == replies[k + 1]
               rest == SubSeq(this, p + 1, Len(this))
               behind == cat[k + 1]
    <3>1. k # n /\ k + 1 \in 0..n /\ k + 1 \in 1..n
      <4>1. n \in Nat /\ k \in 0..n
        BY <1>2 DEF n
      <4> QED  BY <2>2, <4>1
    <3>2. s = rest \o behind
      BY <1>1, <3>1
    <3>3. this \in Seq(Items) /\ behind \in Seq(Items) /\ more[k + 1] = this
      BY <1>2, <1>5, <3>1
    <3>4. cats[k + 1] = behind \o reply
      BY <1>3, <3>1
    <3> HIDE DEF this, behind
    <3>5. rest \in Seq(Items)
      <4>1. Len(this) \in Nat /\ \A i \in (p + 1)..Len(this) : this[i] \in Items
        BY <3>3, LenProperties, ElementOfSeq
      <4> QED  BY <4>1, SubSeqProperties
    <3>6. s \o reply = (rest \o behind) \o reply
      BY <3>2
    <3> HIDE DEF rest
    <3>7. behind \in Seq(Items)
      BY <3>3
    <3>8. (rest \o behind) \o reply = rest \o (behind \o reply)
      BY <3>5, <3>7, Regroup
    <3>9. s \o reply = rest \o cats[k + 1]
      BY <3>4, <3>6, <3>8, Zenon
    <3> QED  BY <3>3, <3>9 DEF rest
  <2>3. k = n \/ k < n
    BY <1>2 DEF n
  <2> QED  BY <2>1, <2>2, <2>3, Zenon
<1>10. k # Len(more) /\ Len(more) = n + 1 /\ (n + 1) - 1 = n
  BY <1>2 DEF n
<1>11. s \o reply = IF k = Len(more) THEN << >>
                    ELSE SubSeq(more[k + 1], p + 1, Len(more[k + 1])) \o cats[k + 1]
  BY <1>9, <1>10
<1>12. /\ cats \in [0..Len(more) -> Seq(Items)] /\ cats[Len(more)] = << >>
       /\ \A j \in 0..(Len(more) - 1) : cats[j] = more[j + 1] \o cats[j + 1]
  BY <1>4, <1>6, <1>8, <1>10
<1> QED  BY <1>11, <1>12, Zenon DEF Behind, more


-----------------------------------------------------------------------------
(* Counting replies                                                        *)

\* The replies among the first k that are not given up on.
Parsed(replies, k) == { i \in DOMAIN replies : i <= k /\ ~Unparsable(replies[i]) }

LEMMA ParsedFinite ==
    ASSUME NEW replies \in Seq(Seq(Items)), NEW k
    PROVE  IsFiniteSet(Parsed(replies, k)) /\ Cardinality(Parsed(replies, k)) \in Nat
<1>1. Len(replies) \in Nat /\ DOMAIN replies = 1..Len(replies)
  BY LenProperties
<1>2. IsFiniteSet(1..Len(replies))
  BY <1>1, FS_Interval
<1>3. Parsed(replies, k) \subseteq 1..Len(replies)
  BY <1>1 DEF Parsed
<1> QED  BY <1>2, <1>3, FS_Subset, FS_CardinalityType

LEMMA RankIs == \A k : Rank(k) = Cardinality(Parsed(replied, k))
BY DEF Rank, Parsed

LEMMA RankZero ==
    ASSUME replied \in Seq(Seq(Items))
    PROVE  Rank(0) = 0
<1>1. Parsed(replied, 0) = {}
  BY LenProperties DEF Parsed
<1> QED  BY <1>1, RankIs, FS_EmptySet

LEMMA RankNext ==
    ASSUME replied \in Seq(Seq(Items)), NEW k \in 0..(Len(replied) - 1)
    PROVE  /\ Rank(k) \in Nat
           /\ Rank(k + 1) = IF Unparsable(replied[k + 1]) THEN Rank(k) ELSE Rank(k) + 1
<1>1. /\ Len(replied) \in Nat /\ DOMAIN replied = 1..Len(replied)
      /\ k + 1 \in 1..Len(replied)
  BY LenProperties
<1>2. IsFiniteSet(Parsed(replied, k)) /\ Cardinality(Parsed(replied, k)) \in Nat
  BY ParsedFinite
<1>3. CASE Unparsable(replied[k + 1])
  <2>1. Parsed(replied, k + 1) = Parsed(replied, k)
    BY <1>1, <1>3 DEF Parsed
  <2> QED  BY <1>2, <1>3, <2>1, RankIs
<1>4. CASE ~Unparsable(replied[k + 1])
  <2>1. Parsed(replied, k + 1) = Parsed(replied, k) \cup {k + 1} /\ k + 1 \notin Parsed(replied, k)
    BY <1>1, <1>4 DEF Parsed
  <2>2. Cardinality(Parsed(replied, k + 1)) = Cardinality(Parsed(replied, k)) + 1
    BY <1>2, <2>1, FS_AddElement
  <2> QED  BY <1>2, <1>4, <2>2, RankIs
<1> QED  BY <1>3, <1>4

LEMMA RankGrows ==
    ASSUME replied \in Seq(Seq(Items)), NEW j \in Int, NEW k \in Int, j <= k
    PROVE  Rank(j) \in Nat /\ Rank(k) \in Nat /\ Rank(j) <= Rank(k)
<1>1. Parsed(replied, j) \subseteq Parsed(replied, k)
  BY LenProperties DEF Parsed
<1>2. /\ IsFiniteSet(Parsed(replied, k)) /\ Cardinality(Parsed(replied, k)) \in Nat
      /\ Cardinality(Parsed(replied, j)) \in Nat
  BY ParsedFinite
<1>3. Cardinality(Parsed(replied, j)) <= Cardinality(Parsed(replied, k))
  BY <1>1, <1>2, FS_Subset
<1> QED  BY <1>2, <1>3, RankIs

\* One more reply changes nothing for those before it.
LEMMA OneMore ==
    ASSUME replied \in Seq(Seq(Items)), NEW reply \in Seq(Items),
           replied' = Append(replied, reply)
    PROVE  /\ replied' \in Seq(Seq(Items)) /\ Len(replied') = Len(replied) + 1
           /\ Len(replied) \in Nat
           /\ DOMAIN replied = 1..Len(replied) /\ DOMAIN (replied') = 1..(Len(replied) + 1)
           /\ \A i \in 1..Len(replied) : replied'[i] = replied[i]
           /\ replied'[Len(replied) + 1] = reply
<1>1. replied' \in Seq(Seq(Items)) /\ Len(replied') = Len(replied) + 1
  BY AppendProperties
<1>2. \A i \in 1..Len(replied) : replied'[i] = replied[i]
  BY AppendProperties
<1>3. replied'[Len(replied) + 1] = reply
  BY AppendProperties
<1>4. Len(replied) \in Nat /\ DOMAIN replied = 1..Len(replied)
  BY LenProperties
<1>5. DOMAIN (replied') = 1..(Len(replied) + 1)
  BY <1>1, LenProperties
<1> QED  BY <1>1, <1>2, <1>3, <1>4, <1>5

LEMMA RankStays ==
    ASSUME replied \in Seq(Seq(Items)), NEW reply \in Seq(Items),
           replied' = Append(replied, reply), NEW k \in 0..Len(replied)
    PROVE  Rank(k)' = Rank(k)
<1>1. Parsed(replied', k) = Parsed(replied, k)
  BY OneMore DEF Parsed
<1>2. Rank(k)' = Cardinality(Parsed(replied', k))
  BY DEF Rank, Parsed
<1> QED  BY <1>1, <1>2, RankIs

\* The replies in front of reply k that are errors up to it.
ErrorRun(replies, k) ==
    { i \in 1..(k - 1) : \A j \in i..(k - 1) : Unparsable(replies[j]) }

LEMMA ErrorsFirst == ErrorsBefore(1) = 0
<1>1. ErrorRun(replied, 1) = {}
  BY DEF ErrorRun
<1> QED  BY <1>1, FS_EmptySet DEF ErrorsBefore, ErrorRun

LEMMA ErrorsNext ==
    ASSUME NEW k \in Nat \ {0}
    PROVE  /\ ErrorsBefore(k) \in Nat
           /\ ErrorsBefore(k + 1) = IF Unparsable(replied[k]) THEN ErrorsBefore(k) + 1 ELSE 0
<1>1. IsFiniteSet(ErrorRun(replied, k)) /\ Cardinality(ErrorRun(replied, k)) \in Nat
  <2>1. IsFiniteSet(1..(k - 1))
    BY FS_Interval
  <2>2. ErrorRun(replied, k) \subseteq 1..(k - 1)
    BY DEF ErrorRun
  <2> QED  BY <2>1, <2>2, FS_Subset, FS_CardinalityType
<1>2. \A i : ErrorsBefore(i) = Cardinality(ErrorRun(replied, i))
  BY DEF ErrorsBefore, ErrorRun
<1>3. CASE Unparsable(replied[k])
  <2>1. ErrorRun(replied, k + 1) = ErrorRun(replied, k) \cup {k} /\ k \notin ErrorRun(replied, k)
    <3>1. k \in ErrorRun(replied, k + 1) /\ k \notin ErrorRun(replied, k)
      BY <1>3 DEF ErrorRun
    <3>2. ErrorRun(replied, k) \subseteq ErrorRun(replied, k + 1)
      BY <1>3 DEF ErrorRun
    <3>3. ErrorRun(replied, k + 1) \subseteq ErrorRun(replied, k) \cup {k}
      BY DEF ErrorRun
    <3> QED  BY <3>1, <3>2, <3>3
  <2>2. Cardinality(ErrorRun(replied, k + 1)) = Cardinality(ErrorRun(replied, k)) + 1
    BY <1>1, <2>1, FS_AddElement
  <2> QED  BY <1>1, <1>2, <1>3, <2>2
<1>4. CASE ~Unparsable(replied[k])
  <2>1. ErrorRun(replied, k + 1) = {}
    BY <1>4 DEF ErrorRun
  <2> QED  BY <1>1, <1>2, <1>4, <2>1, FS_EmptySet
<1> QED  BY <1>3, <1>4

LEMMA ErrorsStay ==
    ASSUME replied \in Seq(Seq(Items)), NEW reply \in Seq(Items),
           replied' = Append(replied, reply), NEW k \in 1..(Len(replied) + 1)
    PROVE  ErrorsBefore(k)' = ErrorsBefore(k)
<1>1. ErrorRun(replied', k) = ErrorRun(replied, k)
  <2>1. \A i \in 1..(k - 1) : \A j \in i..(k - 1) : replied'[j] = replied[j]
    BY OneMore
  <2> QED  BY <2>1 DEF ErrorRun
<1> QED  BY <1>1 DEF ErrorsBefore, ErrorRun

LEMMA ResponseStays ==
    ASSUME config' = config, NEW reply
    PROVE  Response(reply)' = Response(reply)
BY DEF Response, Hits, TotalLen

LEMMA ReturnedStays ==
    ASSUME config' = config, replied \in Seq(Seq(Items)), NEW reply \in Seq(Items),
           replied' = Append(replied, reply), NEW k \in 1..Len(replied)
    PROVE  Returned(k)' = Returned(k)
<1>1. replied'[k] = replied[k] /\ k \in 1..(Len(replied) + 1)
  BY OneMore
<1>2. ErrorsBefore(k)' = ErrorsBefore(k)
  BY <1>1, ErrorsStay
<1>3. \A r : Response(r)' = Response(r)
  BY ResponseStays
<1> QED  BY <1>1, <1>2, <1>3 DEF Returned

-----------------------------------------------------------------------------
(* Responses                                                               *)

Made(s, e, h, v, l, n) ==
    [status |-> s, error |-> e, hits |-> h, value |-> v, total_len |-> l, elements |-> n]

\* A truth value is best passed to Made under a name.
NoError  == FALSE
Erred(e) == e > 0

LEMMA NotErred == NoError \in BOOLEAN /\ ~NoError
BY DEF NoError

LEMMA SetsStatus ==
    \A s, e, h, v, l, n, x :
        [Made(s, e, h, v, l, n) EXCEPT !.status = x] = Made(x, e, h, v, l, n)
BY DEF Made

LEMMA SetsError ==
    \A s, e, h, v, l, n, x :
        [Made(s, e, h, v, l, n) EXCEPT !.error = x] = Made(s, x, h, v, l, n)
BY DEF Made

LEMMA SetsHits ==
    \A s, e, h, v, l, n, x :
        [Made(s, e, h, v, l, n) EXCEPT !.hits = x] = Made(s, e, x, v, l, n)
BY DEF Made

LEMMA SetsValue ==
    \A s, e, h, v, l, n, x :
        [Made(s, e, h, v, l, n) EXCEPT !.value = x] = Made(s, e, h, x, l, n)
BY DEF Made

LEMMA SetsTotalLen ==
    \A s, e, h, v, l, n, x :
        [Made(s, e, h, v, l, n) EXCEPT !.total_len = x] = Made(s, e, h, v, x, n)
BY DEF Made

LEMMA SetsElements ==
    \A s, e, h, v, l, n, x :
        [Made(s, e, h, v, l, n) EXCEPT !.elements = x] = Made(s, e, h, v, l, x)
BY DEF Made

LEMMA Fields ==
    \A s, e, h, v, l, n :
        /\ Made(s, e, h, v, l, n).status = s /\ Made(s, e, h, v, l, n).hits = h
        /\ Made(s, e, h, v, l, n).value = v /\ Made(s, e, h, v, l, n).total_len = l
        /\ Made(s, e, h, v, l, n).elements = n
BY DEF Made

LEMMA ClearedIs == Cleared = Made("NULL", NoError, 0, 0, 0, -1)
BY DEF Cleared, Made, NoError

LEMMA StartedIs == Started = Made(Head(m_read_buf).kind, NoError, 0, 0, 0, -1)
BY ClearedIs, SetsStatus DEF Started

LEMMA ResponseIs ==
    ASSUME NEW reply, NEW s, NEW e \in BOOLEAN, NEW h, NEW v, NEW l, NEW n,
           s = Head(reply).kind, e <=> Head(reply).kind \in {"-", "AUTH_ERROR", "EBUSY"},
           h = Hits(reply), l = TotalLen(reply),
           v = IF config.keep /\ Has(reply, "data") /\ ~Has(reply, "*") THEN Value(reply) ELSE 0,
           n = IF Has(reply, "*") THEN Count(reply, {"*", ":", "$"}) - 1 ELSE -1
    PROVE  Response(reply) = Made(s, e, h, v, l, n)
<1> DEFINE error == Head(reply).kind \in {"-", "AUTH_ERROR", "EBUSY"}
<1>1. error = e
  <2>1. error \in BOOLEAN
    OBVIOUS
  <2> HIDE DEF error
  <2>2. e <=> error
    BY DEF error
  <2> QED  BY <2>1, <2>2
<1>2. Response(reply) = Made(s, error, h, v, l, n)
  BY DEF Response, Made
<1> QED  BY <1>1, <1>2, Zenon

-----------------------------------------------------------------------------
(* What the replies say                                                    *)

LEMMA DomainIs ==
    ASSUME NEW s \in Seq(Items)
    PROVE  DOMAIN s = 1..Len(s) /\ Len(s) \in Nat /\ (Len(s) > 0 => Head(s) = s[1])
BY LenProperties

\* A reply of one item, which is not the head of an array.
LEMMA SingleResponse ==
    ASSUME NEW item \in Items, item.kind \notin {"*", "data", "VALUE"},
           item.kind = "$" => item.n = -1, item.n \in {0, -1},
           NEW e \in BOOLEAN, e <=> item.kind \in {"-", "AUTH_ERROR", "EBUSY"},
           NEW l, l = IF config.protocol = "memcache_binary" \/ item.n = -1 THEN 0 ELSE 1
    PROVE  Response(<< item >>) = Made(item.kind, e, 0, 0, l, -1)
<1> DEFINE reply == << item >>
<1>1. reply \in Seq(Items) /\ Len(reply) = 1 /\ reply[1] = item /\ DOMAIN reply = 1..1
  BY SingleShape, DomainIs
<1>2. Head(reply) = item
  OBVIOUS
<1> HIDE DEF reply
<1>3. \A kind : Has(reply, kind) <=> item.kind = kind
  BY <1>1 DEF Has
<1>4. ~Has(reply, "*") /\ ~Has(reply, "data")
  BY <1>3
<1>5. Count(reply, {"VALUE"}) = 0
  <2>1. { i \in DOMAIN reply : reply[i].kind \in {"VALUE"} } = {}
    BY <1>1
  <2> QED  BY <2>1, FS_EmptySet DEF Count
<1>6. Hits(reply) = 0
  <2>1. Has(reply, "$") => ~(item.n > 0)
    BY <1>3
  <2> QED  BY <1>2, <1>4, <1>5, <2>1 DEF Hits
<1>7. TotalLen(reply) = IF config.protocol = "memcache_binary" \/ item.n = -1 THEN 0 ELSE 1
  BY <1>1, <1>2, <1>4 DEF TotalLen
<1> QED  BY <1>2, <1>4, <1>6, <1>7, ResponseIs DEF reply

\* A reply of two items, the second of which is the data.
LEMMA PairResponse ==
    ASSUME NEW first \in Items, first.kind \notin {"*", "data", "VALUE"}, first.n # -1,
           NEW second \in Items, second.kind = "data",
           NEW e \in BOOLEAN, e <=> first.kind \in {"-", "AUTH_ERROR", "EBUSY"},
           NEW h, h = IF config.protocol = "redis" /\ first.kind = "$"
                      THEN IF first.n > 0 THEN 1 ELSE 0
                      ELSE IF config.protocol = "memcache_binary" /\ first.kind = "SUCCESS"
                      THEN 1 ELSE 0,
           NEW v, v = IF config.keep THEN second.n ELSE 0,
           NEW l, l = IF config.protocol = "memcache_binary" THEN 0 ELSE 2
    PROVE  Response(<< first, second >>) = Made(first.kind, e, h, v, l, -1)
<1> DEFINE reply == << first, second >>
<1>1. /\ reply \in Seq(Items) /\ Len(reply) = 2 /\ reply[1] = first /\ reply[2] = second
      /\ DOMAIN reply = 1..2
  BY PairShape, DomainIs
<1>2. Head(reply) = first
  OBVIOUS
<1> HIDE DEF reply
<1>3. \A kind : Has(reply, kind) <=> first.kind = kind \/ second.kind = kind
  <2>1. 1..2 = {1, 2}
    OBVIOUS
  <2> QED  BY <1>1, <2>1 DEF Has
<1>4. ~Has(reply, "*") /\ Has(reply, "data")
  BY <1>3
<1>5. Value(reply) = second.n
  <2>1. \A i \in DOMAIN reply : reply[i].kind = "data" => i = 2
    BY <1>1
  <2>2. 2 \in DOMAIN reply /\ reply[2].kind = "data"
    BY <1>1
  <2>3. (CHOOSE i \in DOMAIN reply : reply[i].kind = "data") = 2
    BY <2>1, <2>2
  <2> QED  BY <1>1, <2>3 DEF Value
<1>6. Count(reply, {"VALUE"}) = 0
  <2>1. { i \in DOMAIN reply : reply[i].kind \in {"VALUE"} } = {}
    BY <1>1
  <2> QED  BY <2>1, FS_EmptySet DEF Count
<1>7. Hits(reply) = IF config.protocol = "redis" /\ first.kind = "$"
                    THEN IF first.n > 0 THEN 1 ELSE 0
                    ELSE IF config.protocol = "memcache_binary" /\ first.kind = "SUCCESS"
                    THEN 1 ELSE 0
  <2>1. (Has(reply, "$") <=> first.kind = "$") /\ (Has(reply, "SUCCESS") <=> first.kind = "SUCCESS")
    BY <1>3
  <2> QED  BY <1>2, <1>4, <1>6, <2>1 DEF Hits
<1>8. TotalLen(reply) = IF config.protocol = "memcache_binary" THEN 0 ELSE 2
  BY <1>1, <1>2, <1>4 DEF TotalLen
<1> QED  BY <1>2, <1>4, <1>5, <1>7, <1>8, ResponseIs DEF reply

\* Six of the seven items of a range are elements of the array.
Elements(n) == { i \in 1..(7 * n + 1) : i = 1 \/ (i - 2) % 7 # 5 }

LEMMA ElementCount ==
    ASSUME NEW n \in Nat
    PROVE  IsFiniteSet(Elements(n)) /\ Cardinality(Elements(n)) = 6 * n + 1
<1> DEFINE T == { m \in Nat : Cardinality(Elements(m)) = 6 * m + 1 }
<1>1. \A m \in Nat : IsFiniteSet(Elements(m))
  <2> TAKE m \in Nat
  <2>1. IsFiniteSet(1..(7 * m + 1)) /\ Elements(m) \subseteq 1..(7 * m + 1)
    BY FS_Interval DEF Elements
  <2> QED  BY <2>1, FS_Subset
<1>2. 0 \in T
  <2>1. Elements(0) = {} \cup {1}
    BY DEF Elements
  <2>2. IsFiniteSet({}) /\ Cardinality({}) = 0 /\ 1 \notin {}
    BY FS_EmptySet
  <2>3. Cardinality({} \cup {1}) = 0 + 1
    BY <2>2, FS_AddElement
  <2> QED  BY <2>1, <2>3
<1>3. ASSUME NEW m \in T PROVE m + 1 \in T
  <2> DEFINE five == (7 * m + 2)..(7 * m + 6)
  <2>1. m \in Nat /\ Cardinality(Elements(m)) = 6 * m + 1
    OBVIOUS
  <2>2. Elements(m + 1) = (Elements(m) \cup five) \cup {7 * m + 8}
    <3>1. \A i \in 1..(7 * (m + 1) + 1) :
             i \in Elements(m) \/ i \in (7 * m + 2)..(7 * m + 8)
                \/ (i \in 1..(7 * m + 1) /\ i # 1 /\ (i - 2) % 7 = 5)
      BY DEF Elements
    <3>2. \A i \in five : (i - 2) % 7 # 5 /\ i \in 1..(7 * (m + 1) + 1)
      BY <2>1
    <3>3. (7 * m + 8 - 2) % 7 # 5 /\ 7 * m + 8 \in 1..(7 * (m + 1) + 1)
      BY <2>1
    <3>4. (7 * m + 7 - 2) % 7 = 5
      BY <2>1
    <3>5. \A i \in (7 * m + 2)..(7 * m + 8) : i \in five \/ i = 7 * m + 7 \/ i = 7 * m + 8
      BY <2>1
    <3>6. Elements(m) \subseteq Elements(m + 1)
      BY <2>1 DEF Elements
    <3>7. five \subseteq Elements(m + 1)
      BY <3>2 DEF Elements
    <3>8. 7 * m + 8 \in Elements(m + 1)
      BY <3>3 DEF Elements
    <3>9. \A i \in Elements(m + 1) : i \in Elements(m) \/ i \in five \/ i = 7 * m + 8
      <4> TAKE i \in Elements(m + 1)
      <4>1. i \in 1..(7 * (m + 1) + 1) /\ (i = 1 \/ (i - 2) % 7 # 5)
        BY DEF Elements
      <4>2. CASE i \in 1..(7 * m + 1)
        BY <4>1, <4>2 DEF Elements
      <4>3. CASE i \in (7 * m + 2)..(7 * m + 8)
        BY <2>1, <3>4, <3>5, <4>1, <4>3
      <4> QED  BY <2>1, <4>1, <4>2, <4>3
    <3> HIDE DEF five
    <3> QED  BY <3>6, <3>7, <3>8, <3>9
  <2>3. IsFiniteSet(five) /\ Cardinality(five) = 5
    <3>1. 7 * m + 2 \in Int /\ 7 * m + 6 \in Int /\ ~(7 * m + 2 > 7 * m + 6)
          /\ (7 * m + 6) - (7 * m + 2) + 1 = 5
      BY <2>1
    <3> QED  BY <3>1, FS_Interval
  <2>4. Elements(m) \cap five = {} /\ 7 * m + 8 \notin Elements(m) \cup five
    BY <2>1 DEF Elements
  <2>5. IsFiniteSet(Elements(m) \cup five) /\ Cardinality(Elements(m) \cup five) = (6 * m + 1) + 5
    <3>1. Cardinality(Elements(m) \cup five) = Cardinality(Elements(m)) + Cardinality(five)
                                                - Cardinality({})
          /\ IsFiniteSet(Elements(m) \cup five)
      <4> HIDE DEF five
      <4> QED  BY <1>1, <2>1, <2>3, <2>4, FS_Union
    <3> HIDE DEF five
    <3> QED  BY <2>1, <2>3, <3>1, FS_EmptySet
  <2>6. Cardinality(Elements(m + 1)) = ((6 * m + 1) + 5) + 1
    <3> HIDE DEF five
    <3> QED  BY <2>2, <2>4, <2>5, FS_AddElement
  <2> QED  BY <2>1, <2>6
<1> HIDE DEF T
<1>4. T \in SUBSET Nat
  BY DEF T
<1>5. T = Nat
  BY <1>2, <1>3, <1>4, NatInduct
<1> QED  BY <1>1, <1>5 DEF T

LEMMA RangesResponse ==
    ASSUME NEW n \in Nat, config.protocol = "redis"
    PROVE  Response(Ranges(n)) = Made("*", NoError, 0, 0, 0, 6 * n)
<1> DEFINE reply == Ranges(n)
<1>1. /\ reply \in Seq(Items) /\ Len(reply) = 7 * n + 1 /\ DOMAIN reply = 1..(7 * n + 1)
      /\ reply[1] = Item("*", n) /\ Head(reply) = reply[1]
  BY RangesShape, DomainIs
<1>2. reply[1].kind = "*"
  BY <1>1 DEF Item
<1>3. \A i \in 1..(7 * n) : reply[i + 1].kind = "data" <=> (i - 1) % 7 = 5
  <2> TAKE i \in 1..(7 * n)
  <2> DEFINE q == (i - 1) % 7
  <2>1. reply[i + 1] = InRange(q + 1) /\ q \in 0..6
    BY RangesShape
  <2> HIDE DEF q, reply
  <2>2. InRange(q + 1).kind = "data" <=> q = 5
    <3>1. q = 0 \/ q = 1 \/ q = 2 \/ q = 3 \/ q = 4 \/ q = 5 \/ q = 6
      BY <2>1
    <3> QED  BY <3>1 DEF InRange, Item
  <2> QED  BY <2>1, <2>2 DEF q
<1>4. \A i \in 1..(7 * n) : reply[i + 1].kind \in {"*", ":", "$"} <=> (i - 1) % 7 # 5
  <2> TAKE i \in 1..(7 * n)
  <2> DEFINE q == (i - 1) % 7
  <2>1. reply[i + 1] = InRange(q + 1) /\ q \in 0..6
    BY RangesShape
  <2> HIDE DEF q, reply
  <2>2. InRange(q + 1).kind \in {"*", ":", "$"} <=> q # 5
    <3>1. q = 0 \/ q = 1 \/ q = 2 \/ q = 3 \/ q = 4 \/ q = 5 \/ q = 6
      BY <2>1
    <3> QED  BY <3>1 DEF InRange, Item
  <2> QED  BY <2>1, <2>2 DEF q
<1> HIDE DEF reply
<1>5. { i \in DOMAIN reply : reply[i].kind \in {"*", ":", "$"} } = Elements(n)
  <2>1. \A j \in 1..(7 * n + 1) : j = 1 \/ (j - 1 \in 1..(7 * n) /\ (j - 1) + 1 = j /\ (j - 1) - 1 = j - 2)
    OBVIOUS
  <2>2. \A j \in 1..(7 * n + 1) :
           reply[j].kind \in {"*", ":", "$"} <=> j = 1 \/ (j - 2) % 7 # 5
    BY <1>2, <1>4, <2>1
  <2> QED  BY <1>1, <2>2 DEF Elements
<1>6. Count(reply, {"*", ":", "$"}) = 6 * n + 1
  BY <1>5, ElementCount DEF Count
<1>7. Has(reply, "*")
  <2>1. 1 \in DOMAIN reply
    BY <1>1
  <2> QED  BY <1>2, <2>1 DEF Has
<1>8. Hits(reply) = 0 /\ TotalLen(reply) = 0
  BY <1>7 DEF Hits, TotalLen
<1>9. Head(reply).kind = "*" /\ (6 * n + 1) - 1 = 6 * n
  BY <1>1, <1>2
<1> QED  BY <1>6, <1>7, <1>8, <1>9, NotErred, ResponseIs DEF reply

\* Every other item is the line of a value.
Values(n) == { i \in 1..(2 * n + 1) : i % 2 = 1 /\ i < 2 * n + 1 }

LEMMA ValueCount ==
    ASSUME NEW n \in Nat
    PROVE  Cardinality(Values(n)) = n
<1> DEFINE T == { m \in Nat : Cardinality(Values(m)) = m }
<1>1. \A m \in Nat : IsFiniteSet(Values(m))
  <2> TAKE m \in Nat
  <2>1. IsFiniteSet(1..(2 * m + 1)) /\ Values(m) \subseteq 1..(2 * m + 1)
    BY FS_Interval DEF Values
  <2> QED  BY <2>1, FS_Subset
<1>2. 0 \in T
  <2>1. Values(0) = {}
    BY DEF Values
  <2> QED  BY <2>1, FS_EmptySet
<1>3. ASSUME NEW m \in T PROVE m + 1 \in T
  <2>1. m \in Nat /\ Cardinality(Values(m)) = m
    OBVIOUS
  <2>2. Values(m + 1) = Values(m) \cup {2 * m + 1} /\ 2 * m + 1 \notin Values(m)
    BY <2>1 DEF Values
  <2>3. Cardinality(Values(m + 1)) = m + 1
    BY <1>1, <2>1, <2>2, FS_AddElement
  <2> QED  BY <2>1, <2>3
<1> HIDE DEF T
<1>4. T \in SUBSET Nat
  BY DEF T
<1>5. T = Nat
  BY <1>2, <1>3, <1>4, NatInduct
<1> QED  BY <1>5 DEF T

LEMMA SectionsResponse ==
    ASSUME NEW n \in Nat, config.protocol = "memcache_text", n > 0 => ~config.keep
    PROVE  Response(Sections(n)) =
              Made(IF n > 0 THEN "VALUE" ELSE "END", NoError, n, 0, 2 * n + 1, -1)
<1> DEFINE reply == Sections(n)
<1>1. /\ reply \in Seq(Items) /\ Len(reply) = 2 * n + 1 /\ DOMAIN reply = 1..(2 * n + 1)
      /\ Head(reply) = reply[1]
  BY SectionsShape, DomainIs
<1>2. \A i \in 1..(2 * n) : /\ reply[i].kind = (IF i % 2 = 1 THEN "VALUE" ELSE "data")
                            /\ reply[i].n = 1
  <2> TAKE i \in 1..(2 * n)
  <2> DEFINE kind == IF i % 2 = 1 THEN "VALUE" ELSE "data"
  <2>1. reply[i] = Item(kind, 1)
    BY SectionsShape
  <2>2. kind \in Kinds
    BY DEF Kinds
  <2> HIDE DEF kind, reply
  <2>3. reply[i].kind = kind /\ reply[i].n = 1
    BY <2>1, <2>2, ItemType
  <2> QED  BY <2>3 DEF kind
<1>3. reply[2 * n + 1].kind = "END" /\ reply[2 * n + 1].n = 0
  <2>1. reply[2 * n + 1] = Item("END", 0)
    BY SectionsShape
  <2>2. "END" \in Kinds
    BY DEF Kinds
  <2> QED  BY <2>1, <2>2, ItemType
<1> HIDE DEF reply
<1>4. \A i \in 1..(2 * n + 1) : i \in 1..(2 * n) \/ i = 2 * n + 1
  OBVIOUS
<1>5. ~Has(reply, "*") /\ ~Has(reply, "$") /\ (n = 0 => ~Has(reply, "data"))
  BY <1>1, <1>2, <1>3, <1>4 DEF Has
<1>6. { i \in DOMAIN reply : reply[i].kind \in {"VALUE"} } = Values(n)
  <2>1. \A i \in 1..(2 * n + 1) :
           reply[i].kind \in {"VALUE"} <=> i % 2 = 1 /\ i < 2 * n + 1
    BY <1>2, <1>3, <1>4
  <2> QED  BY <1>1, <2>1 DEF Values
<1>7. Count(reply, {"VALUE"}) = n
  BY <1>6, ValueCount DEF Count
<1>8. Hits(reply) = n
  BY <1>5, <1>7 DEF Hits
<1>9. Head(reply).kind = (IF n > 0 THEN "VALUE" ELSE "END") /\ Head(reply).n # -1
  BY <1>1, <1>2, <1>3
<1>10. TotalLen(reply) = 2 * n + 1
  BY <1>1, <1>5, <1>9 DEF TotalLen
<1>11. ~(config.keep /\ Has(reply, "data") /\ ~Has(reply, "*"))
  BY <1>5
<1>12. Head(reply).kind \notin {"-", "AUTH_ERROR", "EBUSY"}
  BY <1>9
<1> QED  BY <1>5, <1>8, <1>9, <1>10, <1>11, <1>12, NotErred, ResponseIs DEF reply

-----------------------------------------------------------------------------
(* The invariant                                                           *)

Asked == [cmd : {"SETRANGE", "SETEX", "SET", "GETRANGE", "GET", "WAIT", "AUTH", "SELECT",
                 "CLUSTER SLOTS", "set", "get", "CMD_SET", "CMD_GET", "CMD_SASL_AUTH"},
          keys : Nat]

BinaryCommands == {"CMD_SET", "CMD_GET", "CMD_SASL_AUTH"}

Types ==
    /\ config \in Configs
    /\ asked \in Seq(Asked)
    /\ config.protocol = "memcache_binary" =>
          \A i \in 1..Len(asked) : asked[i].cmd \in BinaryCommands
    /\ replied \in Seq(Seq(Items)) /\ Len(replied) <= Len(asked)
    /\ \A i \in 1..Len(replied) : IsReply(replied[i])
    /\ m_read_buf \in Seq(Items) /\ incoming \in Seq(Items)
    /\ results \in Seq(Range(results))

\* What has been read of a bulk is its length.
BulkBegun(reply, p) ==
    \E n \in Nat :
        /\ reply = Bulk(n) /\ p = 1
        /\ m_response_state = "rs_read_bulk"
        /\ m_bulk_len = n /\ m_response_len = 1
        /\ m_last_response = Made("$", NoError, 0, 0, 0, -1)

\* The elements still to come, level by level, behind i ranges of n and q items of
\* the next one: its own array is left when its last element, the node, begins.
Levels(n, i, q) ==
    IF q = 0 THEN << n - i >>
    ELSE LET count == IF q = 1 THEN 3 ELSE IF q \in {2, 4} THEN 2 ELSE 1
         IN  IF n - i = 1 THEN << count >> ELSE << n - i - 1, count >>

ArrayResponse(n) == Made("*", NoError, 0, 0, 0, n)

\* An array is never left between a bulk and its data.
ArrayBegun(reply, p) ==
    \E n \in 1..Slots, i \in Nat, q \in {0, 1, 2, 3, 4, 6} :
        /\ i < n
        /\ reply = Ranges(n) /\ p = 7 * i + q + 1
        /\ m_response_state = "rs_read_mbulk"
        /\ current_mbulk_level = Levels(n, i, q)
        /\ m_last_response = ArrayResponse(6 * i + (IF q = 6 THEN 5 ELSE q))

\* A response of the text protocol behind e errors.
TextResponse(status, hits, len, e) ==
    Made(IF e > 0 THEN "SERVER_ERROR" ELSE status, Erred(e), hits, 0, len + e, -1)

SectionsBegun(reply, p, e) ==
    \E n \in Nat :
        /\ reply = Sections(n) /\ p \in 1..(2 * n + 1)
        /\ m_response_len = p + e
        /\ m_last_response = TextResponse(IF n > 0 THEN "VALUE" ELSE "END", p \div 2,
                                          IF p % 2 = 1 THEN p ELSE p - 1, e)
        /\ m_response_state = (IF p = 2 * n + 1 THEN "rs_read_end"
                               ELSE IF p % 2 = 1 THEN "rs_read_value" ELSE "rs_read_section")
        /\ p > 1 => ~config.keep
        /\ p = 2 * n + 1 => pc = "parsing"

StoredRead(reply, p, e) ==
    /\ reply = Line("STORED") /\ p = 1
    /\ m_response_len = 1 + e
    /\ m_last_response = TextResponse("STORED", 0, 1, e)
    /\ m_response_state = "rs_read_end" /\ pc = "parsing"

PacketBegun(reply, p) ==
    \E status \in Statuses, n \in Nat \ {0} :
        /\ reply = Packet(status, n) /\ p = 1
        /\ m_response_state = "rs_read_body"
        /\ m_bulk_len = n
        /\ \E error \in BOOLEAN :
              /\ error <=> status \in ErrorStatuses
              /\ m_last_response = Made(status, error, 0, 0, 0, -1)

\* What the parser knows when it has read the first p items of a reply, behind e errors.
Within(reply, p, e) ==
    \/ config.protocol = "redis" /\ (BulkBegun(reply, p) \/ ArrayBegun(reply, p))
    \/ config.protocol = "memcache_text" /\ (SectionsBegun(reply, p, e) \/ StoredRead(reply, p, e))
    \/ config.protocol = "memcache_binary" /\ PacketBegun(reply, p)

\* Between two replies it knows nothing but the errors it gave up on.
Fresh(e) ==
    \/ m_response_state = "rs_initial" /\ (config.protocol = "memcache_text" => e = 0)
    \/ /\ config.protocol = "memcache_text"
       /\ m_response_state = "rs_read_section"
       /\ m_response_len = e
       /\ m_last_response = TextResponse("NULL", 0, 0, e)

\* The first k replies have been answered for.
Answered(k) ==
    /\ Len(results) = Rank(k)
    /\ \A i \in 1..k : ~Unparsable(replied[i]) => results[Rank(i)] = Returned(i)

\* The parser has read k replies and p items of the next one.
At(k, p) ==
    /\ k \in 0..Len(replied) /\ p \in Nat /\ (k = Len(replied) => p = 0)
    /\ Behind(replied, m_read_buf \o incoming, k, p)
    /\ Answered(k)
    /\ IF p = 0 THEN Fresh(ErrorsBefore(k + 1))
       ELSE Within(replied[k + 1], p, ErrorsBefore(k + 1))

\* What is left in the buffer is behind an error.
Drained == pc = "idle" => m_read_buf = << >> \/ \E i \in 1..Len(replied) : Unparsable(replied[i])

Good == Types /\ (\E k, p : At(k, p)) /\ Drained

\* Nothing is known of an array that was cut in front of a bulk.
Inv == config \in Configs /\ (~derailed => Good)

-----------------------------------------------------------------------------
(* One item, one reply                                                     *)

LEMMA HeadMoves ==
    ASSUME NEW s \in Seq(Items), s # << >>, NEW t \in Seq(Items)
    PROVE  /\ Tail(s) \in Seq(Items) /\ s \o t \in Seq(Items) /\ s \o t # << >>
           /\ Head(s \o t) = Head(s) /\ Tail(s \o t) = Tail(s) \o t
           /\ Head(s) \in Items
<1> DEFINE item == Head(s)
           rest == Tail(s)
<1>1. item \in Items /\ rest \in Seq(Items)
  BY HeadTailProperties
<1>2. s = << item >> \o rest
  OBVIOUS
<1>3. << item >> \in Seq(Items)
  BY <1>1, SingleShape
<1> HIDE DEF item, rest
<1>4. s \o t = (<< item >> \o rest) \o t
  BY <1>2
<1>5. (<< item >> \o rest) \o t = << item >> \o (rest \o t)
  BY <1>1, <1>3, Regroup
<1>6. rest \o t \in Seq(Items)
  BY <1>1, ConcatProperties
<1>7. Head(<< item >> \o (rest \o t)) = item /\ Tail(<< item >> \o (rest \o t)) = rest \o t
  <2> DEFINE u == rest \o t
  <2>1. u \in Seq(Items)
    BY <1>6
  <2> HIDE DEF u
  <2>2. Head(<< item >> \o u) = item /\ Tail(<< item >> \o u) = u
    BY <1>1, <2>1, Before
  <2> QED  BY <2>2 DEF u
<1>8. Head(s \o t) = item /\ Tail(s \o t) = rest \o t
  BY <1>4, <1>5, <1>7
<1>9. s \o t \in Seq(Items)
  BY ConcatProperties
<1>10. s \o t # << >>
  BY EmptyParts
<1> QED  BY <1>1, <1>8, <1>9, <1>10 DEF item, rest

\* The next item in the buffer is the next item of the reply.
LEMMA HeadIs ==
    ASSUME Types, NEW k \in 0..Len(replied), NEW p \in Nat, m_read_buf # << >>,
           k < Len(replied) => p < Len(replied[k + 1]),
           Behind(replied, m_read_buf \o incoming, k, p)
    PROVE  /\ k < Len(replied)
           /\ Head(m_read_buf) = replied[k + 1][p + 1]
           /\ Tail(m_read_buf) \in Seq(Items)
           /\ Behind(replied, Tail(m_read_buf) \o incoming, k, p + 1)
<1> DEFINE s == m_read_buf \o incoming
<1>1. m_read_buf \in Seq(Items) /\ incoming \in Seq(Items) /\ replied \in Seq(Seq(Items))
  BY DEF Types
<1>2. /\ s \in Seq(Items) /\ s # << >> /\ Tail(m_read_buf) \in Seq(Items)
      /\ Head(s) = Head(m_read_buf) /\ Tail(s) = Tail(m_read_buf) \o incoming
  BY <1>1, HeadMoves
<1> HIDE DEF s
<1>3. Behind(replied, s, k, p)
  BY DEF s
<1>4. /\ k < Len(replied) /\ Head(s) = replied[k + 1][p + 1]
      /\ Behind(replied, Tail(s), k, p + 1)
  BY <1>1, <1>2, <1>3, NextItem
<1> QED  BY <1>2, <1>4

LEMMA ThisReply ==
    ASSUME Types, NEW k \in 0..(Len(replied) - 1)
    PROVE  /\ IsReply(replied[k + 1]) /\ replied[k + 1] \in Seq(Items)
           /\ Len(replied[k + 1]) \in Nat \ {0}
           /\ Len(replied) \in Nat /\ k < Len(replied) /\ k + 1 \in 0..Len(replied)
<1>1. Len(replied) \in Nat
  BY LenProperties DEF Types
<1>2. k + 1 \in 1..Len(replied) /\ k < Len(replied) /\ k + 1 \in 0..Len(replied)
  BY <1>1
<1> QED  BY <1>1, <1>2, ReplyType DEF Types

\* Where a response begins, a reply does.
LEMMA FirstItem ==
    ASSUME Types, NEW k, At(k, 0), m_read_buf # << >>
    PROVE  /\ k \in 0..(Len(replied) - 1)
           /\ Head(m_read_buf) = replied[k + 1][1]
           /\ Head(replied[k + 1]) = replied[k + 1][1]
           /\ Tail(m_read_buf) \in Seq(Items)
           /\ Behind(replied, Tail(m_read_buf) \o incoming, k, 1)
<1>1. k \in 0..Len(replied) /\ Behind(replied, m_read_buf \o incoming, k, 0) /\ Len(replied) \in Nat
  BY LenProperties DEF At, Types
<1>2. k < Len(replied) => 0 < Len(replied[k + 1])
  BY <1>1, ThisReply
<1>3. /\ k < Len(replied)
      /\ Head(m_read_buf) = replied[k + 1][0 + 1]
      /\ Tail(m_read_buf) \in Seq(Items)
      /\ Behind(replied, Tail(m_read_buf) \o incoming, k, 0 + 1)
  BY <1>1, <1>2, HeadIs
<1>4. k \in 0..(Len(replied) - 1)
  BY <1>1, <1>3
<1>5. Head(replied[k + 1]) = replied[k + 1][1]
  BY <1>4, ThisReply, DomainIs
<1> QED  BY <1>3, <1>4, <1>5

\* A response is a value like any other.
LEMMA AppendAny ==
    ASSUME NEW q, q \in Seq(Range(q)), NEW x
    PROVE  /\ Append(q, x) \in Seq(Range(Append(q, x)))
           /\ Len(q) \in Nat /\ Len(Append(q, x)) = Len(q) + 1
           /\ Append(q, x)[Len(q) + 1] = x
           /\ \A i \in 1..Len(q) : Append(q, x)[i] = q[i]
<1> DEFINE S == Range(q) \cup {x}
<1>1. q \in Seq(S)
  BY SeqMonotonic
<1>2. x \in S
  OBVIOUS
<1> HIDE DEF S
<1>3. /\ Append(q, x) \in Seq(S) /\ Len(Append(q, x)) = Len(q) + 1
      /\ Append(q, x)[Len(q) + 1] = x /\ \A i \in 1..Len(q) : Append(q, x)[i] = q[i]
  BY <1>1, <1>2, AppendProperties
<1>4. Append(q, x) \in Seq(Range(Append(q, x)))
  BY <1>3, SeqOfRange
<1> QED  BY <1>1, <1>3, <1>4, LenProperties

Unchanging == UNCHANGED << config, incoming, asked, replied >>

\* What does not change with the parser's own variables.
LEMMA SameReplies ==
    ASSUME replied' = replied, config' = config
    PROVE  /\ \A i : Rank(i)' = Rank(i) /\ ErrorsBefore(i)' = ErrorsBefore(i)
                     /\ Returned(i)' = Returned(i)
           /\ \A r : IsReply(r)' = IsReply(r)
<1>1. \A i : Rank(i)' = Rank(i) /\ ErrorsBefore(i)' = ErrorsBefore(i)
  BY DEF Rank, ErrorsBefore
<1>2. \A i : Response(replied[i])' = Response(replied[i])
  BY DEF Response, Hits, TotalLen
<1>3. \A i : Returned(i)' = Returned(i)
  BY <1>1, <1>2 DEF Returned
<1>4. \A r : IsReply(r)' = IsReply(r)
  BY DEF IsReply
<1> QED  BY <1>1, <1>3, <1>4

LEMMA TypesStay ==
    ASSUME Types, Unchanging, m_read_buf' \in Seq(Items), results' \in Seq(Range(results'))
    PROVE  Types'
BY DEF Types, Unchanging, IsReply

\* The parser reads on in the same reply.
LEMMA ReadsOn ==
    ASSUME Types, NEW k \in 0..(Len(replied) - 1), Answered(k), Unchanging,
           NEW n \in Nat \ {0}, NEW reply, reply = replied[k + 1],
           NEW e, e = ErrorsBefore(k + 1),
           m_read_buf' \in Seq(Items), Behind(replied, m_read_buf' \o incoming, k, n),
           results' = results, pc' # "idle", Within(reply, n, e)'
    PROVE  Good'
<1>1. Types'
  BY TypesStay DEF Types
<1>2. k \in 0..Len(replied) /\ k # Len(replied) /\ n # 0
  BY ThisReply
<1>3. Answered(k)'
  BY SameReplies DEF Answered, Unchanging, Unparsable
<1>4. Within(replied[k + 1], n, ErrorsBefore(k + 1))'
  <2>1. (replied[k + 1])' = reply /\ ErrorsBefore(k + 1)' = e
    BY SameReplies DEF Unchanging
  <2> QED  BY <2>1 DEF Within, BulkBegun, ArrayBegun, SectionsBegun, StoredRead, PacketBegun
<1>5. At(k, n)'
  BY <1>2, <1>3, <1>4 DEF At, Unchanging
<1> QED  BY <1>1, <1>5 DEF Good, Drained

\* A reply is complete and its response returned.
LEMMA Returns ==
    ASSUME Types, NEW k \in 0..(Len(replied) - 1), Answered(k), Unchanging,
           ~Unparsable(replied[k + 1]),
           m_read_buf' \in Seq(Items),
           Behind(replied, m_read_buf' \o incoming, k, Len(replied[k + 1])),
           results' = Append(results, Returned(k + 1)), pc' # "idle",
           m_response_state' = "rs_initial"
    PROVE  Good'
<1>1. /\ results' \in Seq(Range(results')) /\ Len(results) \in Nat /\ Len(results') = Len(results) + 1
      /\ results'[Len(results) + 1] = Returned(k + 1)
      /\ \A i \in 1..Len(results) : results'[i] = results[i]
  BY AppendAny DEF Types
<1>2. Types'
  BY <1>1, TypesStay
<1>3. /\ Len(replied) \in Nat /\ k < Len(replied) /\ k + 1 \in 0..Len(replied)
      /\ k + 1 \in Nat \ {0} /\ replied \in Seq(Seq(Items))
  BY ThisReply DEF Types
<1>4. Rank(k + 1) = Rank(k) + 1 /\ Rank(k) = Len(results)
  BY <1>3, RankNext DEF Answered
<1>5. ASSUME NEW i \in 1..(k + 1), ~Unparsable(replied[i]) PROVE results'[Rank(i)] = Returned(i)
  <2>1. CASE i = k + 1
    BY <1>1, <1>4, <2>1
  <2>2. CASE i \in 1..k
    <3>1. i - 1 \in 0..(Len(replied) - 1) /\ (i - 1) + 1 = i /\ i \in Int /\ k \in Int /\ i <= k
      BY <1>3, <2>2
    <3>2. Rank(i - 1) \in Nat /\ Rank(i) = Rank(i - 1) + 1
      BY <1>3, <1>5, <3>1, RankNext
    <3>3. Rank(i) <= Rank(k)
      BY <1>3, <3>1, RankGrows
    <3>4. Rank(i) \in 1..Len(results)
      BY <1>1, <1>4, <3>2, <3>3
    <3>5. results[Rank(i)] = Returned(i)
      BY <1>5, <2>2 DEF Answered
    <3> DEFINE r == Rank(i)
    <3>6. r \in 1..Len(results) /\ results[r] = Returned(i)
      BY <3>4, <3>5
    <3> HIDE DEF r
    <3>7. results'[r] = Returned(i)
      BY <1>1, <3>6
    <3> QED  BY <3>7 DEF r
  <2>3. i = k + 1 \/ i \in 1..k
    BY <1>3
  <2> QED  BY <2>1, <2>2, <2>3, Zenon
<1>6. Answered(k + 1)'
  <2>1. Len(results') = Rank(k + 1)'
    BY <1>1, <1>4, SameReplies DEF Unchanging
  <2>2. \A i \in 1..(k + 1) : ~Unparsable(replied[i]) => results'[Rank(i)'] = Returned(i)'
    BY <1>5, SameReplies DEF Unchanging
  <2> QED  BY <2>1, <2>2 DEF Answered, Unchanging
<1>7. ErrorsBefore((k + 1) + 1)' = 0
  BY <1>3, ErrorsNext, SameReplies DEF Unchanging
<1>8. Behind(replied, m_read_buf' \o incoming, k + 1, 0)
  BY <1>3, NextReply
<1>9. Fresh(ErrorsBefore((k + 1) + 1))'
  BY <1>7 DEF Fresh
<1>10. At(k + 1, 0)'
  BY <1>3, <1>6, <1>8, <1>9 DEF At, Unchanging
<1> QED  BY <1>2, <1>10 DEF Good, Drained

-----------------------------------------------------------------------------
(* Redis                                                                   *)

LEMMA RedisHead ==
    ASSUME NEW reply, RedisReply(reply), NEW item, item = reply[1]
    PROVE  /\ item \in Items
           /\ item.kind \in {"+", "-", ":", "$", "*"}
           /\ item.kind \in {"+", "-", ":"} => reply = << item >> /\ item.n = 0
           /\ item.kind = "$" /\ item.n = -1 => reply = << item >>
           /\ item.kind = "$" /\ item.n # -1 => item.n \in Nat /\ reply = Bulk(item.n)
           /\ item.kind = "*" => item.n \in 0..Slots /\ reply = Ranges(item.n)
<1>1. ASSUME NEW kind \in {"+", "-", ":"}, reply = Line(kind)
      PROVE  item \in Items /\ item.kind = kind /\ item.n = 0 /\ reply = << item >>
  <2>1. kind \in Kinds
    BY DEF Kinds
  <2>2. item = Item(kind, 0)
    BY <1>1, <2>1, LineShape
  <2> QED  BY <1>1, <2>1, <2>2, ItemType DEF Line
<1>2. CASE reply = << Item("$", -1) >>
  <2>1. item = Item("$", -1)
    BY <1>2
  <2>2. item \in Items /\ item.kind = "$" /\ item.n = -1 /\ reply = << item >>
    BY <1>2, <2>1, ItemType DEF Kinds
  <2> QED  BY <2>2
<1>3. ASSUME NEW n \in Nat, reply = Bulk(n)
      PROVE  item \in Items /\ item.kind = "$" /\ item.n = n /\ n # -1
  <2>1. item = Item("$", n)
    BY <1>3, BulkShape
  <2> QED  BY <2>1, ItemType DEF Kinds
<1>4. ASSUME NEW n \in 0..Slots, reply = Ranges(n)
      PROVE  item \in Items /\ item.kind = "*" /\ item.n = n
  <2>1. n \in Nat /\ n \in Int
    OBVIOUS
  <2>2. item = Item("*", n)
    BY <1>4, <2>1, RangesShape
  <2> QED  BY <2>1, <2>2, ItemType DEF Kinds
<1>5. CASE \E kind \in {"+", "-", ":"} : reply = Line(kind)
  BY <1>1, <1>5
<1>6. CASE \E n \in Nat : reply = Bulk(n)
  BY <1>3, <1>6
<1>7. CASE \E n \in 0..Slots : reply = Ranges(n)
  BY <1>4, <1>7
<1> QED  BY <1>2, <1>5, <1>6, <1>7 DEF RedisReply

\* Only the text protocol gives up on a reply.
LEMMA NoErrors ==
    ASSUME Types, config.protocol # "memcache_text", NEW k \in 0..Len(replied)
    PROVE  /\ ErrorsBefore(k + 1) = 0
           /\ k < Len(replied) => ~Unparsable(replied[k + 1])
                                  /\ Returned(k + 1) = Response(replied[k + 1])
<1>1. ASSUME NEW i \in 0..(Len(replied) - 1) PROVE ~Unparsable(replied[i + 1])
  <2> DEFINE reply == replied[i + 1]
  <2>1. IsReply(reply) /\ Head(reply) = reply[1]
    <3>1. IsReply(reply) /\ reply \in Seq(Items) /\ Len(reply) \in Nat \ {0}
      BY ThisReply
    <3> HIDE DEF reply
    <3> QED  BY <3>1, DomainIs
  <2> HIDE DEF reply
  <2>2. CASE RedisReply(reply)
    BY <2>1, <2>2, RedisHead DEF Unparsable, reply
  <2>3. CASE BinaryReply(reply)
    <3>1. CASE reply = << Item("SUCCESS", 0) >>
      BY <2>1, <3>1 DEF Unparsable, Item, reply
    <3>2. ASSUME NEW status \in Statuses, NEW n \in Nat \ {0}, reply = Packet(status, n)
          PROVE  ~Unparsable(reply)
      <4>1. Head(reply) = Item(status, n)
        BY <2>1, <3>2, PacketShape
      <4> QED  BY <4>1 DEF Unparsable, Item, Statuses
    <3> QED  BY <2>3, <3>1, <3>2 DEF BinaryReply, reply
  <2> QED  BY <2>1, <2>2, <2>3 DEF IsReply, reply
<1>2. Len(replied) \in Nat
  BY LenProperties DEF Types
<1>3. ErrorsBefore(k + 1) = 0
  <2>1. CASE k = 0
    BY <2>1, ErrorsFirst
  <2>2. CASE k # 0
    <3>1. k - 1 \in 0..(Len(replied) - 1) /\ (k - 1) + 1 = k /\ k \in Nat \ {0}
      BY <1>2, <2>2
    <3> QED  BY <1>1, <3>1, ErrorsNext
  <2> QED  BY <2>1, <2>2
<1>4. k < Len(replied) => k \in 0..(Len(replied) - 1)
  BY <1>2
<1> QED  BY <1>1, <1>3, <1>4 DEF Returned

\* A response begins where nothing has been read of a reply.
LEMMA BeginsFresh ==
    ASSUME NEW k, NEW p, At(k, p), m_response_state = "rs_initial"
    PROVE  p = 0
BY DEF At, Within, BulkBegun, ArrayBegun, SectionsBegun, StoredRead, PacketBegun

\* The whole of the reply is one line.
LEMMA LineReturned ==
    ASSUME Types, NEW k, At(k, 0), m_read_buf # << >>, config.protocol # "memcache_text",
           Consume, NEW response, Return1(response), pc = "parsing",
           m_response_state' = "rs_initial",
           NEW item, item = Head(m_read_buf), item \in Items,
           k < Len(replied) => replied[k + 1] = << item >> /\ Response(<< item >>) = response
    PROVE  Good'
<1>1. /\ k \in 0..(Len(replied) - 1) /\ Tail(m_read_buf) \in Seq(Items)
      /\ Behind(replied, Tail(m_read_buf) \o incoming, k, 1)
  BY FirstItem
<1>2. k < Len(replied) /\ k \in 0..Len(replied)
  BY <1>1, ThisReply
<1>3. ~Unparsable(replied[k + 1]) /\ Returned(k + 1) = response
  BY <1>2, NoErrors
<1>4. Len(replied[k + 1]) = 1
  BY <1>2
<1> QED  BY <1>1, <1>3, <1>4, Returns DEF Consume, Return1, Unchanging, At

LEMMA RedisStatusStep ==
    ASSUME Types, NEW k, NEW p, At(k, p), RedisStatus
    PROVE  Good'
<1> DEFINE item == Head(m_read_buf)
<1>1. /\ config.protocol = "redis" /\ m_response_state = "rs_initial" /\ pc = "parsing"
      /\ m_read_buf # << >> /\ item.kind \in {"+", "-", ":"} /\ Consume
      /\ Return1([Started EXCEPT !.error = (item.kind = "-"), !.total_len = 1])
      /\ m_response_state' = "rs_initial"
  BY DEF RedisStatus, FirstLine, Parsing, HasItem
<1>2. p = 0
  BY <1>1, BeginsFresh
<1>3. /\ k \in 0..(Len(replied) - 1) /\ item = replied[k + 1][1]
  BY <1>1, <1>2, FirstItem
<1>4. RedisReply(replied[k + 1])
  BY <1>1, <1>3, ThisReply DEF IsReply
<1> HIDE DEF item
<1>5. item \in Items /\ replied[k + 1] = << item >> /\ item.n = 0
  BY <1>1, <1>3, <1>4, RedisHead
<1>6. [Started EXCEPT !.error = (item.kind = "-"), !.total_len = 1] = Response(<< item >>)
  <2> DEFINE e == (item.kind = "-")
  <2>1. e \in BOOLEAN
    OBVIOUS
  <2>2. e <=> item.kind \in {"-", "AUTH_ERROR", "EBUSY"}
    BY <1>1
  <2> HIDE DEF e
  <2>3. Started = Made(item.kind, NoError, 0, 0, 0, -1)
    BY StartedIs DEF item
  <2> DEFINE first == [Started EXCEPT !.error = e]
  <2>4. first = Made(item.kind, e, 0, 0, 0, -1)
    BY <2>3, SetsError
  <2> HIDE DEF first
  <2>5. [first EXCEPT !.total_len = 1] = Made(item.kind, e, 0, 0, 1, -1)
    BY <2>4, SetsTotalLen
  <2>6. Response(<< item >>) = Made(item.kind, e, 0, 0, 1, -1)
    BY <1>1, <1>5, <2>1, <2>2, SingleResponse
  <2>7. [first EXCEPT !.total_len = 1] = Response(<< item >>)
    BY <2>5, <2>6
  <2> QED  BY <2>7 DEF e, first
<1>7. Response(<< item >>) = [Started EXCEPT !.error = (item.kind = "-"), !.total_len = 1]
  BY <1>6
<1> QED  BY <1>1, <1>2, <1>5, <1>7, LineReturned DEF item

LEMMA RedisNullStep ==
    ASSUME Types, NEW k, NEW p, At(k, p), RedisNull
    PROVE  Good'
<1> DEFINE item == Head(m_read_buf)
<1>1. /\ config.protocol = "redis" /\ m_response_state = "rs_initial" /\ pc = "parsing"
      /\ m_read_buf # << >> /\ item.kind = "$" /\ item.n = -1 /\ Consume
      /\ Return1(Started) /\ m_response_state' = "rs_initial"
  BY DEF RedisNull, FirstLine, Parsing, HasItem
<1>2. p = 0
  BY <1>1, BeginsFresh
<1>3. k \in 0..(Len(replied) - 1) /\ item = replied[k + 1][1]
  BY <1>1, <1>2, FirstItem
<1>4. RedisReply(replied[k + 1])
  BY <1>1, <1>3, ThisReply DEF IsReply
<1> HIDE DEF item
<1>5. item \in Items /\ replied[k + 1] = << item >>
  BY <1>1, <1>3, <1>4, RedisHead
<1>6. Started = Made(item.kind, NoError, 0, 0, 0, -1)
  BY StartedIs DEF item
<1>7. Response(<< item >>) = Started
  BY <1>1, <1>5, <1>6, NotErred, SingleResponse
<1> QED  BY <1>1, <1>2, <1>5, <1>7, LineReturned DEF item

LEMMA RedisBulkHeaderStep ==
    ASSUME Types, NEW k, NEW p, At(k, p), RedisBulkHeader
    PROVE  Good'
<1> DEFINE item == Head(m_read_buf)
<1>1. /\ config.protocol = "redis" /\ m_response_state = "rs_initial" /\ pc = "parsing"
      /\ m_read_buf # << >> /\ item.kind = "$" /\ item.n >= 0 /\ Consume
      /\ m_bulk_len' = item.n /\ m_response_state' = "rs_read_bulk"
      /\ m_last_response' = Started /\ m_response_len' = 1 /\ Continue
  BY DEF RedisBulkHeader, FirstLine, Parsing, HasItem
<1>2. p = 0
  BY <1>1, BeginsFresh
<1>3. /\ k \in 0..(Len(replied) - 1) /\ item = replied[k + 1][1]
      /\ Tail(m_read_buf) \in Seq(Items)
      /\ Behind(replied, Tail(m_read_buf) \o incoming, k, 1)
  BY <1>1, <1>2, FirstItem
<1>4. RedisReply(replied[k + 1])
  BY <1>1, <1>3, ThisReply DEF IsReply
<1> HIDE DEF item
<1>5. item.n \in Nat /\ replied[k + 1] = Bulk(item.n)
  BY <1>1, <1>3, <1>4, RedisHead
<1>6. Started = Made("$", NoError, 0, 0, 0, -1)
  BY <1>1, StartedIs DEF item
<1>7. ASSUME NEW reply, reply = replied[k + 1], NEW e
      PROVE  Within(reply, 1, e)'
  <2>1. BulkBegun(reply, 1)'
    BY <1>1, <1>5, <1>6, <1>7 DEF BulkBegun
  <2> QED  BY <1>1, <2>1 DEF Within, Continue
<1>8. Answered(k) /\ Unchanging /\ results' = results /\ pc' # "idle"
  BY <1>1 DEF At, Continue, Unchanging
<1>9. 1 \in Nat \ {0} /\ m_read_buf' = Tail(m_read_buf)
  BY <1>1 DEF Consume
<1> QED  BY <1>3, <1>7, <1>8, <1>9, ReadsOn

\* An array of elements begins; an empty one never ends.
LEMMA RedisArrayHeaderStep ==
    ASSUME Types, NEW k, NEW p, At(k, p), RedisArrayHeader, ~derailed'
    PROVE  Good'
<1> DEFINE item == Head(m_read_buf)
<1>1. /\ config.protocol = "redis" /\ m_response_state = "rs_initial" /\ pc = "parsing"
      /\ m_read_buf # << >> /\ item.kind = "*" /\ item.n # 0 /\ Consume
      /\ m_response_state' = "rs_read_mbulk"
      /\ m_last_response' = [Started EXCEPT !.elements = 0]
      /\ current_mbulk_level' = << item.n >>
      /\ Unchanging /\ results' = results /\ pc' = pc
  BY DEF RedisArrayHeader, FirstLine, Parsing, HasItem, Unchanging
<1>2. p = 0
  BY <1>1, BeginsFresh
<1>3. /\ k \in 0..(Len(replied) - 1) /\ item = replied[k + 1][1]
      /\ Tail(m_read_buf) \in Seq(Items)
      /\ Behind(replied, Tail(m_read_buf) \o incoming, k, 1)
  BY <1>1, <1>2, FirstItem
<1>4. RedisReply(replied[k + 1])
  BY <1>1, <1>3, ThisReply DEF IsReply
<1> HIDE DEF item
<1>5. item.n \in 0..Slots /\ replied[k + 1] = Ranges(item.n)
  BY <1>1, <1>3, <1>4, RedisHead
<1>6. [Started EXCEPT !.elements = 0] = ArrayResponse(0)
  BY <1>1, StartedIs, SetsElements DEF ArrayResponse, item
<1>7. ASSUME NEW reply, reply = replied[k + 1], NEW e
      PROVE  Within(reply, 1, e)'
  <2> DEFINE n == item.n
  <2>1. n \in 1..Slots /\ 0 < n /\ 1 = 7 * 0 + 0 + 1 /\ n - 0 = n
    BY <1>1, <1>5
  <2>2. current_mbulk_level' = Levels(n, 0, 0)
    BY <1>1, <2>1 DEF Levels
  <2>3. 6 * 0 + (IF 0 = 6 THEN 5 ELSE 0) = 0
    OBVIOUS
  <2>4. m_last_response' = ArrayResponse(6 * 0 + (IF 0 = 6 THEN 5 ELSE 0))
    BY <1>1, <1>6, <2>3
  <2>5. reply = Ranges(n)
    BY <1>5, <1>7
  <2> HIDE DEF n
  <2>6. ArrayBegun(reply, 1)'
    BY <1>1, <2>1, <2>2, <2>4, <2>5 DEF ArrayBegun
  <2> QED  BY <1>1, <2>6 DEF Within, Unchanging
<1>8. Answered(k) /\ pc' # "idle"
  BY <1>1 DEF At
<1>9. 1 \in Nat \ {0} /\ m_read_buf' = Tail(m_read_buf)
  BY <1>1 DEF Consume
<1> QED  BY <1>1, <1>3, <1>7, <1>8, <1>9, ReadsOn

LEMMA RedisBulkStep ==
    ASSUME Types, NEW k, NEW p, At(k, p), RedisBulk
    PROVE  Good'
<1> DEFINE response ==
      [m_last_response EXCEPT
          !.value = IF config.keep /\ m_bulk_len > 0 THEN m_bulk_len ELSE @,
          !.hits = IF m_bulk_len > 0 THEN @ + 1 ELSE @,
          !.total_len = m_response_len + 1]
<1>1. /\ config.protocol = "redis" /\ m_response_state = "rs_read_bulk" /\ pc = "parsing"
      /\ m_read_buf # << >> /\ Consume /\ Return1(response)
      /\ m_response_state' = "rs_initial"
  BY DEF RedisBulk, Parsing
<1>2. p # 0 /\ BulkBegun(replied[k + 1], p) /\ Answered(k)
  BY <1>1 DEF At, Fresh, Within, ArrayBegun
<1>3. k \in 0..(Len(replied) - 1)
  BY <1>2, LenProperties DEF At, Types
<1>4. PICK n \in Nat :
        /\ replied[k + 1] = Bulk(n) /\ p = 1
        /\ m_bulk_len = n /\ m_response_len = 1
        /\ m_last_response = Made("$", NoError, 0, 0, 0, -1)
  BY <1>2 DEF BulkBegun
<1>5. Len(replied[k + 1]) = 2
  BY <1>4, BulkShape
<1>6. /\ Tail(m_read_buf) \in Seq(Items)
      /\ Behind(replied, Tail(m_read_buf) \o incoming, k, 1 + 1)
  <2>1. k \in 0..Len(replied) /\ 1 \in Nat /\ 1 < Len(replied[k + 1])
    BY <1>5 DEF At
  <2>2. Behind(replied, m_read_buf \o incoming, k, 1)
    BY <1>4 DEF At
  <2> QED  BY <1>1, <2>1, <2>2, HeadIs
<1> DEFINE hits == IF n > 0 THEN 1 ELSE 0
           value == IF config.keep THEN n ELSE 0
<1>7. response = Made("$", NoError, hits, value, 2, -1)
  <2> DEFINE before == Made("$", NoError, 0, 0, 0, -1)
  <2>1. before.value = 0 /\ before.hits = 0
    BY Fields
  <2> HIDE DEF before
  <2>2. /\ (IF config.keep /\ m_bulk_len > 0 THEN m_bulk_len ELSE before.value) = value
        /\ (IF m_bulk_len > 0 THEN before.hits + 1 ELSE before.hits) = hits
        /\ m_response_len + 1 = 2
    BY <1>4, <2>1
  <2>3. m_last_response = before
    BY <1>4 DEF before
  <2> HIDE DEF hits, value
  <2>4. response = [before EXCEPT !.value = value, !.hits = hits, !.total_len = 2]
    BY <2>2, <2>3
  <2> DEFINE first == [before EXCEPT !.value = value]
  <2>5. first = Made("$", NoError, 0, value, 0, -1)
    BY SetsValue DEF before
  <2> HIDE DEF first
  <2> DEFINE second == [first EXCEPT !.hits = hits]
  <2>6. second = Made("$", NoError, hits, value, 0, -1)
    BY <2>5, SetsHits
  <2> HIDE DEF second
  <2>7. [second EXCEPT !.total_len = 2] = Made("$", NoError, hits, value, 2, -1)
    BY <2>6, SetsTotalLen
  <2> HIDE DEF response
  <2> QED  BY <2>4, <2>7 DEF second, first
<1>8. Response(Bulk(n)) = Made("$", NoError, hits, value, 2, -1)
  <2> DEFINE first == Item("$", n)
             second == Item("data", n)
  <2>1. /\ first \in Items /\ first.kind = "$" /\ first.n = n
        /\ second \in Items /\ second.kind = "data" /\ second.n = n
    BY ItemType DEF Kinds
  <2> HIDE DEF first, second
  <2>2. Response(<< first, second >>) = Made("$", NoError, hits, value, 2, -1)
    BY <1>1, <2>1, NotErred, PairResponse
  <2> QED  BY <2>2 DEF Bulk, first, second
<1> HIDE DEF response, hits, value
<1>9. ~Unparsable(replied[k + 1]) /\ Returned(k + 1) = response
  BY <1>1, <1>3, <1>4, <1>7, <1>8, NoErrors, ThisReply
<1>10. /\ m_read_buf' = Tail(m_read_buf) /\ Unchanging /\ pc' # "idle"
       /\ results' = Append(results, Returned(k + 1))
  BY <1>1, <1>9 DEF Consume, Return1, Unchanging
<1>11. Behind(replied, m_read_buf' \o incoming, k, Len(replied[k + 1]))
  BY <1>5, <1>6, <1>10
<1> QED  BY <1>1, <1>2, <1>3, <1>6, <1>9, <1>10, <1>11, Returns

LEMMA OneLong ==
    ASSUME NEW s \in Seq(Int), Len(s) = 1
    PROVE  s = << s[1] >>
OBVIOUS

LEMMA OneLonger ==
    ASSUME NEW a \in Int, NEW b \in Int
    PROVE  Append(<< a >>, b) = << a, b >>
<1> DEFINE s == Append(<< a >>, b)
           t == << a, b >>
<1>1. /\ << a >> \in Seq(Int) /\ Len(<< a >>) = 1 /\ << a >>[1] = a
      /\ t \in Seq(Int) /\ Len(t) = 2 /\ t[1] = a /\ t[2] = b
  OBVIOUS
<1>2. s \in Seq(Int) /\ Len(s) = 2 /\ s[1] = a /\ s[2] = b
  BY <1>1, AppendProperties
<1> HIDE DEF s, t
<1>3. \A i \in 1..Len(s) : s[i] = t[i]
  <2>1. \A i \in 1..2 : i = 1 \/ i = 2
    OBVIOUS
  <2> QED  BY <1>1, <1>2, <2>1
<1>4. s = t
  BY <1>1, <1>2, <1>3, SeqEqual
<1> QED  BY <1>4 DEF s, t

LEMMA CountsDown ==
    ASSUME NEW count \in 1..Slots
    PROVE  (count + CountWrap - 1) % CountWrap = count - 1
BY SMTT(30) DEF CountWrap, Slots

LEMMA AddedToOne ==
    ASSUME NEW count \in 1..Slots
    PROVE  AddedTo(<< count >>) = IF count = 1 THEN << >> ELSE << count - 1 >>
<1> DEFINE levels == << count >>
<1>1. Last(levels) = count
  BY DEF Last
<1>2. Front(levels) = << >>
  BY SubSeqEmpty DEF Front
<1>3. (count + CountWrap - 1) % CountWrap = count - 1
  BY CountsDown
<1>4. Append(<< >>, count - 1) = << count - 1 >>
  OBVIOUS
<1> HIDE DEF levels
<1> QED  BY <1>1, <1>2, <1>3, <1>4 DEF AddedTo, levels

LEMMA AddedToTwo ==
    ASSUME NEW left \in 1..Slots, NEW count \in 1..Slots
    PROVE  AddedTo(<< left, count >>) =
              IF count = 1 THEN << left >> ELSE << left, count - 1 >>
<1> DEFINE levels == << left, count >>
<1>1. Last(levels) = count
  BY DEF Last
<1>2. Front(levels) = << left >>
  <2>1. Len(levels) - 1 = 1 /\ levels[1] = left /\ \A i \in 1..1 : levels[i] \in Int
    OBVIOUS
  <2> HIDE DEF levels
  <2>2. /\ SubSeq(levels, 1, 1) \in Seq(Int) /\ Len(SubSeq(levels, 1, 1)) = 1
        /\ SubSeq(levels, 1, 1)[1] = left
    <3>1. /\ SubSeq(levels, 1, 1) \in Seq(Int)
          /\ Len(SubSeq(levels, 1, 1)) = (IF 1 <= 1 THEN 1 - 1 + 1 ELSE 0)
          /\ \A i \in 1..(1 - 1 + 1) : SubSeq(levels, 1, 1)[i] = levels[1 + i - 1]
      BY <2>1, SubSeqProperties
    <3> QED  BY <2>1, <3>1
  <2>3. SubSeq(levels, 1, 1) = << left >>
    <3> DEFINE front == SubSeq(levels, 1, 1)
    <3>1. front \in Seq(Int) /\ Len(front) = 1 /\ front[1] = left
      BY <2>2
    <3> HIDE DEF front
    <3>2. front = << left >>
      BY <3>1, OneLong
    <3> QED  BY <3>2 DEF front
  <2> QED  BY <2>1, <2>3 DEF Front
<1>3. (count + CountWrap - 1) % CountWrap = count - 1
  BY CountsDown
<1> DEFINE less == count - 1
<1>4. Append(<< left >>, less) = << left, less >>
  <2>1. less \in Int /\ left \in Int
    OBVIOUS
  <2> HIDE DEF less
  <2> QED  BY <2>1, OneLonger
<1> HIDE DEF levels, less
<1>5. AddedTo(levels) = IF less = 0 THEN << left >> ELSE << left, less >>
  BY <1>1, <1>2, <1>3, <1>4 DEF AddedTo, less
<1> QED  BY <1>5 DEF levels, less

\* What one element more leaves of the levels.
LEMMA LevelsAdded ==
    ASSUME NEW n \in 1..Slots, NEW i \in Nat, i < n
    PROVE  LET ranges == IF n - i = 1 THEN << >> ELSE << n - i - 1 >>
           IN  /\ AddedTo(Levels(n, i, 0)) = ranges
               /\ Append(ranges, 3) = Levels(n, i, 1)
               /\ AddedTo(Levels(n, i, 1)) = Levels(n, i, 2)
               /\ AddedTo(Levels(n, i, 2)) = Levels(n, i, 3)
               /\ AddedTo(Levels(n, i, 3)) = ranges
               /\ Append(ranges, 2) = Levels(n, i, 4)
               /\ AddedTo(Levels(n, i, 4)) = Levels(n, i, 6)
               /\ AddedTo(Levels(n, i, 6)) = ranges
               /\ n - i # 1 => ranges = Levels(n, i + 1, 0)
<1> DEFINE left == n - i - 1
<1>1. {1, 2, 3} \subseteq 1..Slots /\ n - i \in 1..Slots
  <2>1. {1, 2, 3} \subseteq 1..Slots /\ Slots \in Nat
    BY DEF Slots
  <2>2. n \in Nat /\ n <= Slots
    BY <2>1
  <2>3. n - i \in 1..Slots
    BY <2>1, <2>2
  <2> QED  BY <2>1, <2>3
<1>2. CASE n - i = 1
  <2>1. /\ Levels(n, i, 0) = << 1 >> /\ Levels(n, i, 1) = << 3 >> /\ Levels(n, i, 2) = << 2 >>
        /\ Levels(n, i, 3) = << 1 >> /\ Levels(n, i, 4) = << 2 >> /\ Levels(n, i, 6) = << 1 >>
    BY <1>2 DEF Levels
  <2>2. /\ AddedTo(<< 1 >>) = << >> /\ AddedTo(<< 2 >>) = << 1 >> /\ AddedTo(<< 3 >>) = << 2 >>
    <3>1. \A c \in {1, 2, 3} : AddedTo(<< c >>) = IF c = 1 THEN << >> ELSE << c - 1 >>
      BY <1>1, AddedToOne
    <3> QED  BY <3>1
  <2>3. Append(<< >>, 3) = << 3 >> /\ Append(<< >>, 2) = << 2 >>
    OBVIOUS
  <2> QED  BY <1>2, <2>1, <2>2, <2>3
<1>3. CASE n - i # 1
  <2>1. left \in 1..Slots /\ n - i - 1 = left /\ (n - i) - 1 = left /\ n - (i + 1) = left
    <3>1. n \in Nat /\ Slots \in Nat /\ n <= Slots
      BY DEF Slots
    <3>2. n - i - 1 >= 1 /\ n - i - 1 <= Slots
      BY <1>3, <3>1
    <3> QED  BY <3>1, <3>2
  <2>2. /\ Levels(n, i, 0) = << n - i >> /\ Levels(n, i, 1) = << left, 3 >>
        /\ Levels(n, i, 2) = << left, 2 >>
        /\ Levels(n, i, 3) = << left, 1 >> /\ Levels(n, i, 4) = << left, 2 >>
        /\ Levels(n, i, 6) = << left, 1 >> /\ Levels(n, i + 1, 0) = << left >>
    BY <1>3, <2>1 DEF Levels
  <2> HIDE DEF left
  <2>3. /\ AddedTo(<< left, 1 >>) = << left >> /\ AddedTo(<< left, 2 >>) = << left, 1 >>
        /\ AddedTo(<< left, 3 >>) = << left, 2 >>
    <3>1. \A c \in {1, 2, 3} :
             AddedTo(<< left, c >>) = IF c = 1 THEN << left >> ELSE << left, c - 1 >>
      BY <1>1, <2>1, AddedToTwo
    <3> QED  BY <3>1
  <2>4. AddedTo(<< n - i >>) = << left >>
    BY <1>1, <1>3, <2>1, AddedToOne
  <2>5. Append(<< left >>, 3) = << left, 3 >> /\ Append(<< left >>, 2) = << left, 2 >>
    BY <2>1, OneLonger
  <2> QED  BY <1>3, <2>1, <2>2, <2>3, <2>4, <2>5
<1> QED  BY <1>2, <1>3

\* Inside an array the next item is the one the parser's levels say.
LEMMA InArray ==
    ASSUME Types, NEW k, NEW p, At(k, p), config.protocol = "redis",
           m_response_state = "rs_read_mbulk", m_read_buf # << >>
    PROVE  \E n \in 1..Slots, i \in Nat, q \in {0, 1, 2, 3, 4, 6} :
              /\ i < n /\ k \in 0..(Len(replied) - 1)
              /\ replied[k + 1] = Ranges(n) /\ p = 7 * i + q + 1
              /\ current_mbulk_level = Levels(n, i, q)
              /\ m_last_response = ArrayResponse(6 * i + (IF q = 6 THEN 5 ELSE q))
              /\ Head(m_read_buf) = InRange(q + 1)
              /\ Tail(m_read_buf) \in Seq(Items)
              /\ Behind(replied, Tail(m_read_buf) \o incoming, k, p + 1)
<1>1. p # 0 /\ ArrayBegun(replied[k + 1], p) /\ p \in Nat
  BY DEF At, Fresh, Within, BulkBegun
<1>2. k \in 0..(Len(replied) - 1)
  BY <1>1, LenProperties DEF At, Types
<1>3. PICK n \in 1..Slots, i \in Nat, q \in {0, 1, 2, 3, 4, 6} :
        /\ i < n /\ replied[k + 1] = Ranges(n) /\ p = 7 * i + q + 1
        /\ current_mbulk_level = Levels(n, i, q)
        /\ m_last_response = ArrayResponse(6 * i + (IF q = 6 THEN 5 ELSE q))
  BY <1>1 DEF ArrayBegun
<1>4. n \in Nat
  OBVIOUS
<1>5. p < 7 * n + 1 /\ p \in 1..(7 * n) /\ (p - 1) % 7 = q
  BY <1>3, <1>4
<1>6. Len(replied[k + 1]) = 7 * n + 1 /\ replied[k + 1][p + 1] = InRange(((p - 1) % 7) + 1)
  BY <1>3, <1>4, <1>5, RangesShape
<1>7. /\ Head(m_read_buf) = replied[k + 1][p + 1]
      /\ Tail(m_read_buf) \in Seq(Items)
      /\ Behind(replied, Tail(m_read_buf) \o incoming, k, p + 1)
  BY <1>1, <1>2, <1>5, <1>6, HeadIs DEF At
<1> QED  BY <1>2, <1>3, <1>5, <1>6, <1>7

\* The array goes on.
LEMMA ArrayGoesOn ==
    ASSUME Types, NEW k \in 0..(Len(replied) - 1), Answered(k), config.protocol = "redis",
           NEW n \in 1..Slots, NEW i \in Nat, i < n, NEW q \in {0, 1, 2, 3, 4, 6},
           replied[k + 1] = Ranges(n),
           Unchanging, results' = results, pc' = "parsing",
           m_response_state' = "rs_read_mbulk",
           current_mbulk_level' = Levels(n, i, q),
           NEW m, m = 6 * i + (IF q = 6 THEN 5 ELSE q), m_last_response' = ArrayResponse(m),
           m_read_buf' \in Seq(Items),
           NEW p, p = 7 * i + q + 1, Behind(replied, m_read_buf' \o incoming, k, p)
    PROVE  Good'
<1>1. p \in Nat \ {0} /\ pc' # "idle"
  OBVIOUS
<1>2. ASSUME NEW reply, reply = replied[k + 1], NEW e
      PROVE  Within(reply, p, e)'
  <2>1. ArrayBegun(reply, p)'
    BY <1>2 DEF ArrayBegun
  <2> QED  BY <2>1 DEF Within, Unchanging
<1> QED  BY <1>1, <1>2, ReadsOn

LEMMA OneElement ==
    ASSUME NEW m \in Nat, m_last_response = ArrayResponse(m)
    PROVE  /\ WithElement = ArrayResponse(m + 1)
           /\ [WithElement EXCEPT !.status = "*"] = ArrayResponse(m + 1)
<1>1. m_last_response = Made("*", NoError, 0, 0, 0, m) /\ m_last_response.elements = m
  BY Fields DEF ArrayResponse
<1>2. WithElement = [m_last_response EXCEPT !.elements = m + 1]
  BY <1>1 DEF WithElement
<1>3. WithElement = Made("*", NoError, 0, 0, 0, m + 1)
  BY <1>1, <1>2, SetsElements
<1>4. [WithElement EXCEPT !.status = "*"] = Made("*", NoError, 0, 0, 0, m + 1)
  BY <1>3, SetsStatus
<1> QED  BY <1>3, <1>4 DEF ArrayResponse

LEMMA RedisNestedArrayStep ==
    ASSUME Types, NEW k, NEW p, At(k, p), RedisNestedArray
    PROVE  Good'
<1>1. /\ config.protocol = "redis" /\ m_response_state = "rs_read_mbulk" /\ pc = "parsing"
      /\ m_read_buf # << >> /\ Head(m_read_buf).kind = "*" /\ m_read_buf' = Tail(m_read_buf)
      /\ current_mbulk_level' = Append(AddedTo(current_mbulk_level), Head(m_read_buf).n)
      /\ m_last_response' = [WithElement EXCEPT !.status = "*"]
      /\ Unchanging /\ results' = results /\ pc' = pc /\ m_response_state' = m_response_state
  BY DEF RedisNestedArray, NextLine, Parsing, HasItem, Consume, Unchanging
<1>2. PICK n \in 1..Slots, i \in Nat, q \in {0, 1, 2, 3, 4, 6} :
        /\ i < n /\ k \in 0..(Len(replied) - 1)
        /\ replied[k + 1] = Ranges(n) /\ p = 7 * i + q + 1
        /\ current_mbulk_level = Levels(n, i, q)
        /\ m_last_response = ArrayResponse(6 * i + (IF q = 6 THEN 5 ELSE q))
        /\ Head(m_read_buf) = InRange(q + 1)
        /\ Tail(m_read_buf) \in Seq(Items)
        /\ Behind(replied, Tail(m_read_buf) \o incoming, k, p + 1)
  BY <1>1, InArray
<1>3. Answered(k)
  BY DEF At
<1>4. \/ q = 0 /\ Head(m_read_buf).n = 3
      \/ q = 3 /\ Head(m_read_buf).n = 2
  <2> DEFINE item == Head(m_read_buf)
  <2>1. q \in 0..6 /\ item = InRange(q + 1) /\ item.kind = "*"
    BY <1>1, <1>2
  <2> HIDE DEF item
  <2>2. (q = 0 /\ item.n = 3) \/ (q = 3 /\ item.n = 2)
    BY <2>1, KindInRange
  <2> QED  BY <2>2 DEF item
<1>5. CASE q = 0
  <2>1. current_mbulk_level' = Levels(n, i, 1)
    BY <1>1, <1>2, <1>4, <1>5, LevelsAdded
  <2>2. 6 * i \in Nat /\ m_last_response = ArrayResponse(6 * i)
    BY <1>2, <1>5
  <2>3. m_last_response' = ArrayResponse(6 * i + 1)
    BY <1>1, <2>2, OneElement
  <2>4. p + 1 = 7 * i + 1 + 1 /\ 6 * i + 1 = 6 * i + (IF 1 = 6 THEN 5 ELSE 1)
    BY <1>2, <1>5
  <2> QED  BY <1>1, <1>2, <1>3, <2>1, <2>3, <2>4, ArrayGoesOn
<1>6. CASE q = 3
  <2>1. current_mbulk_level' = Levels(n, i, 4)
    BY <1>1, <1>2, <1>4, <1>6, LevelsAdded
  <2>2. 6 * i + 3 \in Nat /\ m_last_response = ArrayResponse(6 * i + 3)
    BY <1>2, <1>6
  <2>3. m_last_response' = ArrayResponse((6 * i + 3) + 1)
    BY <1>1, <2>2, OneElement
  <2>4. p + 1 = 7 * i + 4 + 1 /\ (6 * i + 3) + 1 = 6 * i + (IF 4 = 6 THEN 5 ELSE 4)
    BY <1>2, <1>6
  <2> QED  BY <1>1, <1>2, <1>3, <2>1, <2>3, <2>4, ArrayGoesOn
<1> QED  BY <1>4, <1>5, <1>6

LEMMA RedisIntegerStep ==
    ASSUME Types, NEW k, NEW p, At(k, p), RedisInteger
    PROVE  Good'
<1>1. /\ config.protocol = "redis" /\ m_response_state = "rs_read_mbulk" /\ pc = "parsing"
      /\ m_read_buf # << >> /\ Head(m_read_buf).kind = ":" /\ m_read_buf' = Tail(m_read_buf)
      /\ AddValue
  BY DEF RedisInteger, NextLine, Parsing, HasItem, Consume
<1>2. PICK n \in 1..Slots, i \in Nat, q \in {0, 1, 2, 3, 4, 6} :
        /\ i < n /\ k \in 0..(Len(replied) - 1)
        /\ replied[k + 1] = Ranges(n) /\ p = 7 * i + q + 1
        /\ current_mbulk_level = Levels(n, i, q)
        /\ m_last_response = ArrayResponse(6 * i + (IF q = 6 THEN 5 ELSE q))
        /\ Head(m_read_buf) = InRange(q + 1)
        /\ Tail(m_read_buf) \in Seq(Items)
        /\ Behind(replied, Tail(m_read_buf) \o incoming, k, p + 1)
  BY <1>1, InArray
<1>3. Answered(k)
  BY DEF At
<1>4. q = 1 \/ q = 2 \/ q = 6
  <2>1. q \in 0..6
    OBVIOUS
  <2> QED  BY <1>1, <1>2, <2>1, KindInRange
<1>5. ASSUME NEW levels, levels = AddedTo(current_mbulk_level), levels # << >>
      PROVE  /\ current_mbulk_level' = levels /\ m_last_response' = WithElement
             /\ Unchanging /\ results' = results /\ pc' = "parsing"
             /\ m_response_state' = "rs_read_mbulk"
  BY <1>1, <1>5 DEF AddValue, Continue, Unchanging
<1>6. CASE q = 1 \/ q = 2
  <2>1. AddedTo(current_mbulk_level) = Levels(n, i, q + 1) /\ Levels(n, i, q + 1) # << >>
    <3>1. AddedTo(current_mbulk_level) = Levels(n, i, q + 1)
      <4>1. AddedTo(Levels(n, i, 1)) = Levels(n, i, 2) /\ AddedTo(Levels(n, i, 2)) = Levels(n, i, 3)
        BY <1>2, LevelsAdded
      <4>2. CASE q = 1
        BY <1>2, <4>1, <4>2
      <4>3. CASE q = 2
        BY <1>2, <4>1, <4>3
      <4> QED  BY <1>6, <4>2, <4>3
    <3>2. Levels(n, i, q + 1) # << >>
      BY <1>6 DEF Levels
    <3> QED  BY <3>1, <3>2
  <2>2. 6 * i + q \in Nat /\ m_last_response = ArrayResponse(6 * i + q)
    BY <1>2, <1>6
  <2>3. m_last_response' = ArrayResponse((6 * i + q) + 1)
    BY <1>5, <2>1, <2>2, OneElement
  <2>4. /\ q + 1 \in {0, 1, 2, 3, 4, 6} /\ p + 1 = 7 * i + (q + 1) + 1
        /\ (6 * i + q) + 1 = 6 * i + (IF q + 1 = 6 THEN 5 ELSE q + 1)
    BY <1>2, <1>6
  <2>5. /\ current_mbulk_level' = Levels(n, i, q + 1)
        /\ Unchanging /\ results' = results /\ pc' = "parsing"
        /\ m_response_state' = "rs_read_mbulk"
    BY <1>5, <2>1
  <2> QED  BY <1>1, <1>2, <1>3, <2>3, <2>4, <2>5, ArrayGoesOn
<1>7. CASE q = 6 /\ n - i # 1
  <2>1. AddedTo(current_mbulk_level) = Levels(n, i + 1, 0) /\ Levels(n, i + 1, 0) # << >>
    <3>1. AddedTo(current_mbulk_level) = Levels(n, i + 1, 0)
      BY <1>2, <1>7, LevelsAdded
    <3>2. Levels(n, i + 1, 0) # << >>
      BY DEF Levels
    <3> QED  BY <3>1, <3>2
  <2>2. 6 * i + 5 \in Nat /\ m_last_response = ArrayResponse(6 * i + 5)
    BY <1>2, <1>7
  <2>3. m_last_response' = ArrayResponse((6 * i + 5) + 1)
    BY <1>5, <2>1, <2>2, OneElement
  <2>4. /\ i + 1 \in Nat /\ i + 1 < n /\ p + 1 = 7 * (i + 1) + 0 + 1
        /\ (6 * i + 5) + 1 = 6 * (i + 1) + (IF 0 = 6 THEN 5 ELSE 0)
    BY <1>2, <1>7
  <2>5. /\ current_mbulk_level' = Levels(n, i + 1, 0)
        /\ Unchanging /\ results' = results /\ pc' = "parsing"
        /\ m_response_state' = "rs_read_mbulk"
    BY <1>5, <2>1
  <2> QED  BY <1>1, <1>2, <1>3, <2>3, <2>4, <2>5, ArrayGoesOn
<1>8. CASE q = 6 /\ n - i = 1
  <2>1. AddedTo(current_mbulk_level) = << >>
    BY <1>2, <1>8, LevelsAdded
  <2>2. Return1(WithElement) /\ m_response_state' = "rs_initial"
    BY <1>1, <2>1 DEF AddValue
  <2>3. 6 * i + 5 \in Nat /\ m_last_response = ArrayResponse(6 * i + 5) /\ n \in Nat
    BY <1>2, <1>8
  <2>4. WithElement = ArrayResponse((6 * i + 5) + 1)
    BY <2>3, OneElement
  <2>5. (6 * i + 5) + 1 = 6 * n /\ p + 1 = 7 * n + 1
    BY <1>2, <1>8
  <2>6. Response(replied[k + 1]) = WithElement /\ Len(replied[k + 1]) = p + 1
    BY <1>1, <1>2, <2>3, <2>4, <2>5, RangesResponse, RangesShape DEF ArrayResponse
  <2>7. ~Unparsable(replied[k + 1]) /\ Returned(k + 1) = WithElement
    <3>1. k \in 0..Len(replied) /\ k < Len(replied) /\ config.protocol # "memcache_text"
      BY <1>1, <1>2, ThisReply
    <3>2. ~Unparsable(replied[k + 1]) /\ Returned(k + 1) = Response(replied[k + 1])
      BY <3>1, NoErrors
    <3> QED  BY <2>6, <3>2
  <2>8. /\ Unchanging /\ results' = Append(results, Returned(k + 1)) /\ pc' # "idle"
    BY <1>1, <2>2, <2>7 DEF Return1, Unchanging
  <2>9. Behind(replied, m_read_buf' \o incoming, k, Len(replied[k + 1]))
    BY <1>1, <1>2, <2>6
  <2> QED  BY <1>1, <1>2, <1>3, <2>2, <2>7, <2>8, <2>9, Returns
<1> QED  BY <1>4, <1>6, <1>7, <1>8

\* The length of a bulk and its data are read in one turn.
LEMMA RedisBulkElementStep ==
    ASSUME Types, NEW k, NEW p, At(k, p), RedisBulkElement
    PROVE  Good'
<1>1. /\ config.protocol = "redis" /\ m_response_state = "rs_read_mbulk" /\ pc = "parsing"
      /\ m_read_buf # << >> /\ Head(m_read_buf).kind = "$" /\ Len(m_read_buf) > 1
      /\ m_read_buf' = IF Head(m_read_buf).n = -1 THEN << >> ELSE Tail(Tail(m_read_buf))
      /\ AddValue
  BY DEF RedisBulkElement, Parsing, HasItem
<1>2. PICK n \in 1..Slots, i \in Nat, q \in {0, 1, 2, 3, 4, 6} :
        /\ i < n /\ k \in 0..(Len(replied) - 1)
        /\ replied[k + 1] = Ranges(n) /\ p = 7 * i + q + 1
        /\ current_mbulk_level = Levels(n, i, q)
        /\ m_last_response = ArrayResponse(6 * i + (IF q = 6 THEN 5 ELSE q))
        /\ Head(m_read_buf) = InRange(q + 1)
        /\ Tail(m_read_buf) \in Seq(Items)
        /\ Behind(replied, Tail(m_read_buf) \o incoming, k, p + 1)
  BY <1>1, InArray
<1>3. Answered(k) /\ p \in Nat
  BY DEF At
<1>4. q = 4 /\ Head(m_read_buf).n = 1
  <2> DEFINE item == Head(m_read_buf)
  <2>1. q \in 0..6 /\ item = InRange(q + 1) /\ item.kind = "$"
    BY <1>1, <1>2
  <2> HIDE DEF item
  <2>2. q = 4 /\ item.n = 1
    BY <2>1, KindInRange
  <2> QED  BY <2>2 DEF item
<1>5. Tail(Tail(m_read_buf)) \in Seq(Items) /\ Behind(replied, Tail(Tail(m_read_buf)) \o incoming, k, p + 2)
  <2> DEFINE rest == Tail(m_read_buf)
  <2>1. rest \in Seq(Items) /\ rest # << >> /\ incoming \in Seq(Items) /\ replied \in Seq(Seq(Items))
    <3>1. Len(rest) = Len(m_read_buf) - 1 /\ Len(m_read_buf) \in Nat
      BY <1>1, HeadTailProperties, LenProperties DEF Types
    <3>2. Len(rest) # 0
      BY <1>1, <3>1
    <3> HIDE DEF rest
    <3>3. rest # << >>
      BY <3>2
    <3> QED  BY <1>2, <3>3 DEF Types, rest
  <2> HIDE DEF rest
  <2>2. /\ rest \o incoming \in Seq(Items) /\ rest \o incoming # << >>
        /\ Tail(rest \o incoming) = Tail(rest) \o incoming /\ Tail(rest) \in Seq(Items)
    BY <2>1, HeadMoves
  <2>3. p + 1 < Len(replied[k + 1]) /\ p + 1 \in Nat /\ (p + 1) + 1 = p + 2 /\ k \in 0..Len(replied)
    <3>1. Len(replied[k + 1]) = 7 * n + 1 /\ n \in Nat
      <4>1. n \in Nat
        OBVIOUS
      <4>2. Len(Ranges(n)) = 7 * n + 1
        BY <4>1, RangesShape
      <4> QED  BY <1>2, <4>1, <4>2
    <3>2. p + 1 < 7 * n + 1
      BY <1>2, <1>4, <3>1
    <3>3. k \in 0..Len(replied)
      BY <1>2, ThisReply
    <3> QED  BY <1>3, <3>1, <3>2, <3>3
  <2>4. Behind(replied, rest \o incoming, k, p + 1)
    BY <1>2 DEF rest
  <2> DEFINE s == rest \o incoming
  <2>5. s \in Seq(Items) /\ s # << >> /\ Behind(replied, s, k, p + 1)
    BY <2>2, <2>4
  <2> HIDE DEF s
  <2>6. Behind(replied, Tail(s), k, (p + 1) + 1)
    BY <2>1, <2>3, <2>5, NextItem
  <2> QED  BY <2>2, <2>3, <2>6 DEF s, rest
<1>6. AddedTo(current_mbulk_level) = Levels(n, i, 6) /\ Levels(n, i, 6) # << >>
  <2>1. AddedTo(current_mbulk_level) = Levels(n, i, 6)
    BY <1>2, <1>4, LevelsAdded
  <2>2. Levels(n, i, 6) # << >>
    BY DEF Levels
  <2> QED  BY <2>1, <2>2
<1>7. /\ current_mbulk_level' = Levels(n, i, 6) /\ m_last_response' = WithElement
      /\ Unchanging /\ results' = results /\ pc' = "parsing"
      /\ m_response_state' = "rs_read_mbulk"
  BY <1>1, <1>6 DEF AddValue, Continue, Unchanging
<1>8. 6 * i + 4 \in Nat /\ m_last_response = ArrayResponse(6 * i + 4)
  BY <1>2, <1>4
<1>9. m_last_response' = ArrayResponse((6 * i + 4) + 1)
  BY <1>7, <1>8, OneElement
<1>10. p + 2 = 7 * i + 6 + 1 /\ (6 * i + 4) + 1 = 6 * i + (IF 6 = 6 THEN 5 ELSE 6)
  BY <1>2, <1>4
<1>11. m_read_buf' = Tail(Tail(m_read_buf))
  BY <1>1, <1>4
<1> QED  BY <1>1, <1>2, <1>3, <1>5, <1>7, <1>9, <1>10, <1>11, ArrayGoesOn

\* Nothing is skipped in an array that was not cut.
LEMMA NothingSkipped ==
    ASSUME Types, NEW k, NEW p, At(k, p), RedisSkip
    PROVE  FALSE
<1>1. /\ config.protocol = "redis" /\ m_response_state = "rs_read_mbulk"
      /\ m_read_buf # << >> /\ Head(m_read_buf).kind \in {"+", "-", "data"}
  BY DEF RedisSkip, NextLine, Parsing, HasItem
<1>2. PICK q \in {0, 1, 2, 3, 4, 6} : Head(m_read_buf) = InRange(q + 1)
  BY <1>1, InArray
<1> QED  BY <1>1, <1>2 DEF InRange, Item

-----------------------------------------------------------------------------
(* The text protocol of memcached                                          *)

LEMMA TextHead ==
    ASSUME NEW reply, TextReply(reply), NEW item, item = reply[1]
    PROVE  \/ item.kind = "SERVER_ERROR" /\ reply = Line("SERVER_ERROR")
           \/ item.kind = "STORED" /\ reply = Line("STORED")
           \/ item.kind = "END" /\ reply = Sections(0)
           \/ item.kind = "VALUE" /\ \E n \in Nat \ {0} : reply = Sections(n)
<1>1. ASSUME NEW kind \in {"SERVER_ERROR", "STORED"}, reply = Line(kind)
      PROVE  item.kind = kind
  <2>1. kind \in Kinds
    BY DEF Kinds
  <2>2. item = Item(kind, 0)
    BY <1>1, <2>1, LineShape
  <2> QED  BY <2>2 DEF Item
<1>2. ASSUME NEW n \in Nat, reply = Sections(n)
      PROVE  (n = 0 /\ item.kind = "END") \/ (n # 0 /\ item.kind = "VALUE")
  <2>1. CASE n = 0
    <3>1. Sections(n)[2 * n + 1] = Item("END", 0)
      BY SectionsShape
    <3>2. 2 * n + 1 = 1
      BY <2>1
    <3>3. item = Item("END", 0)
      BY <1>2, <3>1, <3>2
    <3> QED  BY <2>1, <3>3 DEF Item
  <2>2. CASE n # 0
    <3>1. 1 \in 1..(2 * n) /\ 1 % 2 = 1
      BY <2>2
    <3>2. item = Item("VALUE", 1)
      BY <1>2, <3>1, SectionsShape
    <3> QED  BY <2>2, <3>2 DEF Item
  <2> QED  BY <2>1, <2>2
<1>3. CASE \E kind \in {"SERVER_ERROR", "STORED"} : reply = Line(kind)
  BY <1>1, <1>3
<1>4. CASE \E n \in Nat : reply = Sections(n)
  BY <1>2, <1>4
<1> QED  BY <1>3, <1>4 DEF TextReply

LEMMA ErrorsType ==
    ASSUME Types, NEW k \in 0..Len(replied)
    PROVE  ErrorsBefore(k + 1) \in Nat
<1>1. k + 1 \in Nat \ {0}
  BY LenProperties DEF Types
<1> QED  BY <1>1, ErrorsNext

\* A turn of the loop in which nothing is read.
LEMMA StaysFresh ==
    ASSUME Types, NEW k, At(k, 0), NEW e, e = ErrorsBefore(k + 1), Unchanging,
           m_read_buf' = m_read_buf, results' = results, pc' # "idle", Fresh(e)'
    PROVE  Good'
<1>1. Types'
  BY TypesStay DEF Types
<1>2. Answered(k)'
  BY SameReplies DEF At, Answered, Unchanging, Unparsable
<1>3. Fresh(ErrorsBefore(k + 1))'
  <2>1. ErrorsBefore(k + 1)' = e
    BY SameReplies DEF Unchanging
  <2> QED  BY <2>1 DEF Fresh
<1>4. At(k, 0)'
  BY <1>2, <1>3 DEF At, Unchanging
<1> QED  BY <1>1, <1>4 DEF Good, Drained

LEMMA TextInitialStep ==
    ASSUME Types, NEW k, NEW p, At(k, p), TextInitial
    PROVE  Good'
<1>1. /\ config.protocol = "memcache_text" /\ m_response_state = "rs_initial" /\ pc = "parsing"
      /\ m_last_response' = Cleared /\ m_response_state' = "rs_read_section"
      /\ m_response_len' = 0
      /\ Unchanging /\ results' = results /\ pc' = pc /\ m_read_buf' = m_read_buf
  BY DEF TextInitial, Parsing, Continue, Unchanging
<1>2. p = 0
  BY <1>1, BeginsFresh
<1>3. ErrorsBefore(k + 1) = 0
  BY <1>1, <1>2 DEF At, Fresh
<1>4. Cleared = TextResponse("NULL", 0, 0, 0)
  <2>1. Erred(0) = NoError /\ 0 + 0 = 0 /\ ~(0 > 0)
    BY DEF Erred, NoError
  <2> QED  BY <2>1, ClearedIs DEF TextResponse
<1>5. ASSUME NEW e, e = 0 PROVE Fresh(e)'
  BY <1>1, <1>4, <1>5 DEF Fresh, Unchanging
<1> QED  BY <1>1, <1>2, <1>3, <1>5, StaysFresh

\* Where a line of a section is to come.
LEMMA InSection ==
    ASSUME Types, NEW k, NEW p, At(k, p), config.protocol = "memcache_text",
           m_response_state = "rs_read_section", m_read_buf # << >>,
           NEW reply, reply = replied[k + 1], NEW e, e = ErrorsBefore(k + 1)
    PROVE  /\ k \in 0..(Len(replied) - 1) /\ p \in Nat /\ e \in Nat
           /\ TextReply(reply)
           /\ Head(m_read_buf) = reply[p + 1]
           /\ Tail(m_read_buf) \in Seq(Items)
           /\ Behind(replied, Tail(m_read_buf) \o incoming, k, p + 1)
           /\ m_response_len = p + e
           /\ \/ p = 0 /\ m_last_response = TextResponse("NULL", 0, 0, e)
              \/ \E n \in Nat : /\ reply = Sections(n) /\ p \in 1..(2 * n) /\ p % 2 = 0
                                /\ m_last_response = TextResponse("VALUE", p \div 2, p - 1, e)
                                /\ ~config.keep
<1>1. k \in 0..Len(replied) /\ p \in Nat /\ Len(replied) \in Nat /\ e \in Nat
  BY ErrorsType, LenProperties DEF At, Types
<1>2. CASE p = 0
  <2>1. m_response_len = e /\ m_last_response = TextResponse("NULL", 0, 0, e)
    BY <1>2 DEF At, Fresh
  <2>2. /\ k \in 0..(Len(replied) - 1) /\ Head(m_read_buf) = reply[1]
        /\ Tail(m_read_buf) \in Seq(Items)
        /\ Behind(replied, Tail(m_read_buf) \o incoming, k, 1)
    BY <1>2, FirstItem
  <2>3. TextReply(reply)
    BY <2>2, ThisReply DEF IsReply
  <2> QED  BY <1>1, <1>2, <2>1, <2>2, <2>3
<1>3. CASE p # 0
  <2>1. k \in 0..(Len(replied) - 1) /\ SectionsBegun(reply, p, e)
    BY <1>1, <1>3 DEF At, Within, StoredRead
  <2>2. PICK n \in Nat :
          /\ reply = Sections(n) /\ p \in 1..(2 * n + 1)
          /\ m_response_len = p + e
          /\ m_last_response = TextResponse(IF n > 0 THEN "VALUE" ELSE "END", p \div 2,
                                            IF p % 2 = 1 THEN p ELSE p - 1, e)
          /\ m_response_state = (IF p = 2 * n + 1 THEN "rs_read_end"
                                 ELSE IF p % 2 = 1 THEN "rs_read_value" ELSE "rs_read_section")
          /\ p > 1 => ~config.keep
    BY <2>1 DEF SectionsBegun
  <2>3. p \in 1..(2 * n) /\ p % 2 = 0 /\ p % 2 # 1 /\ n > 0 /\ p > 1
    <3>1. p # 2 * n + 1 /\ p % 2 # 1
      BY <2>2
    <3>2. p % 2 = 0
      BY <1>1, <3>1
    <3> QED  BY <1>1, <1>3, <2>2, <3>1, <3>2
  <2>4. m_last_response = TextResponse("VALUE", p \div 2, p - 1, e) /\ ~config.keep
    BY <2>2, <2>3
  <2>5. p < Len(reply)
    BY <2>2, <2>3, SectionsShape
  <2>6. /\ Head(m_read_buf) = reply[p + 1] /\ Tail(m_read_buf) \in Seq(Items)
        /\ Behind(replied, Tail(m_read_buf) \o incoming, k, p + 1)
    BY <1>1, <2>5, HeadIs DEF At
  <2>7. TextReply(reply)
    BY <2>2 DEF TextReply
  <2> QED  BY <1>1, <2>1, <2>2, <2>3, <2>4, <2>6, <2>7
<1> QED  BY <1>2, <1>3

\* What a line makes of the response.
LEMMA LineAdded ==
    ASSUME NEW e \in Nat, NEW p \in Nat, NEW hits, NEW len, NEW status, status # "NULL",
           m_response_len = p + e,
           \/ m_last_response = TextResponse("NULL", hits, len, e)
              /\ status = Head(m_read_buf).kind
           \/ m_last_response = TextResponse(status, hits, len, e)
    PROVE  WithLine = TextResponse(status, hits, p + 1, e)
<1> DEFINE known == IF e > 0 THEN "SERVER_ERROR" ELSE status
           before == m_last_response.status
           now == IF before = "NULL" THEN Head(m_read_buf).kind ELSE before
           longer == m_response_len + 1
<1>1. longer = (p + 1) + e
  OBVIOUS
<1>2. PICK s, l : m_last_response = Made(s, Erred(e), hits, 0, l, -1)
                  /\ (s = known \/ (s = "NULL" /\ e = 0 /\ status = Head(m_read_buf).kind))
  BY DEF TextResponse
<1>3. before = s
  BY <1>2, Fields
<1>4. now = known
  BY <1>2, <1>3
<1> HIDE DEF known, now, longer
<1> DEFINE first == [m_last_response EXCEPT !.status = now]
<1>5. first = Made(now, Erred(e), hits, 0, l, -1)
  BY <1>2, SetsStatus
<1> HIDE DEF first
<1>6. WithLine = [m_last_response EXCEPT !.status = now, !.total_len = longer]
  BY DEF WithLine, now, longer
<1>7. [first EXCEPT !.total_len = longer] = Made(now, Erred(e), hits, 0, longer, -1)
  BY <1>5, SetsTotalLen
<1>8. WithLine = Made(now, Erred(e), hits, 0, longer, -1)
  BY <1>6, <1>7 DEF first
<1>9. WithLine = Made(known, Erred(e), hits, 0, (p + 1) + e, -1)
  BY <1>1, <1>4, <1>8
<1> QED  BY <1>9 DEF TextResponse, known

\* More of the same sections is to come, or their end has been read.
LEMMA SectionsGoOn ==
    ASSUME Types, NEW k \in 0..(Len(replied) - 1), Answered(k),
           config.protocol = "memcache_text", NEW n \in Nat, replied[k + 1] = Sections(n),
           NEW e, e = ErrorsBefore(k + 1),
           Unchanging, results' = results, pc' = "parsing",
           NEW p \in 1..(2 * n + 1),
           m_response_len' = p + e,
           m_last_response' = TextResponse(IF n > 0 THEN "VALUE" ELSE "END", p \div 2,
                                           IF p % 2 = 1 THEN p ELSE p - 1, e),
           m_response_state' = (IF p = 2 * n + 1 THEN "rs_read_end"
                                ELSE IF p % 2 = 1 THEN "rs_read_value"
                                ELSE "rs_read_section"),
           p > 1 => ~config.keep,
           m_read_buf' \in Seq(Items), Behind(replied, m_read_buf' \o incoming, k, p)
    PROVE  Good'
<1>1. ASSUME NEW reply, reply = replied[k + 1]
      PROVE  Within(reply, p, e)'
  <2>1. reply = Sections(n)
    BY <1>1
  <2>2. config' = config
    BY DEF Unchanging
  <2>3. SectionsBegun(reply, p, e)'
    BY <2>1, <2>2 DEF SectionsBegun
  <2> QED  BY <2>2, <2>3 DEF Within
<1>2. p \in Nat \ {0} /\ pc' # "idle"
  OBVIOUS
<1> QED  BY <1>1, <1>2, ReadsOn

LEMMA TextValueHeaderStep ==
    ASSUME Types, NEW k, NEW p, At(k, p), TextValueHeader
    PROVE  Good'
<1> DEFINE reply == replied[k + 1]
           e == ErrorsBefore(k + 1)
<1>1. /\ config.protocol = "memcache_text" /\ m_response_state = "rs_read_section"
      /\ pc = "parsing" /\ m_read_buf # << >> /\ Head(m_read_buf).kind = "VALUE"
      /\ m_read_buf' = Tail(m_read_buf)
      /\ m_last_response' = WithLine /\ m_response_len' = m_response_len + 1
      /\ m_response_state' = "rs_read_value"
      /\ Unchanging /\ results' = results /\ pc' = pc
  BY DEF TextValueHeader, SectionLine, Parsing, HasItem, Consume, Continue, Unchanging
<1>2. /\ k \in 0..(Len(replied) - 1) /\ p \in Nat /\ e \in Nat /\ TextReply(reply)
      /\ Head(m_read_buf) = reply[p + 1] /\ Tail(m_read_buf) \in Seq(Items)
      /\ Behind(replied, Tail(m_read_buf) \o incoming, k, p + 1)
      /\ m_response_len = p + e
      /\ \/ p = 0 /\ m_last_response = TextResponse("NULL", 0, 0, e)
         \/ \E n \in Nat : /\ reply = Sections(n) /\ p \in 1..(2 * n) /\ p % 2 = 0
                           /\ m_last_response = TextResponse("VALUE", p \div 2, p - 1, e)
                           /\ ~config.keep
  BY <1>1, InSection
<1> HIDE DEF e
<1>3. PICK n \in Nat \ {0} :
        /\ reply = Sections(n) /\ p < 2 * n /\ p % 2 = 0 /\ (p > 0 => ~config.keep)
        /\ WithLine = TextResponse("VALUE", p \div 2, p + 1, e)
  <2>1. CASE p = 0 /\ m_last_response = TextResponse("NULL", 0, 0, e)
    <3>1. PICK n \in Nat \ {0} : reply = Sections(n)
      <4>1. reply[1].kind = "VALUE" /\ TextReply(reply)
        BY <1>1, <1>2, <2>1
      <4>2. \E n \in Nat \ {0} : reply = Sections(n)
        BY <4>1, TextHead
      <4> QED  BY <4>2
    <3>2. p \div 2 = 0 /\ p % 2 = 0 /\ p < 2 * n
      BY <2>1
    <3>3. WithLine = TextResponse("VALUE", 0, p + 1, e)
      <4>1. /\ e \in Nat /\ p \in Nat /\ m_response_len = p + e
            /\ m_last_response = TextResponse("NULL", 0, 0, e)
            /\ "VALUE" = Head(m_read_buf).kind /\ "VALUE" # "NULL"
        BY <1>1, <1>2, <2>1
      <4> QED  BY <4>1, LineAdded
    <3>4. WithLine = TextResponse("VALUE", p \div 2, p + 1, e)
      BY <3>2, <3>3, Zenon
    <3>5. ~(p > 0)
      BY <2>1
    <3> QED  BY <3>1, <3>2, <3>4, <3>5
  <2>2. ASSUME NEW n \in Nat, reply = Sections(n), p \in 1..(2 * n), p % 2 = 0,
               m_last_response = TextResponse("VALUE", p \div 2, p - 1, e), ~config.keep
        PROVE  /\ n # 0 /\ p < 2 * n
               /\ WithLine = TextResponse("VALUE", p \div 2, p + 1, e)
    <3>1. p # 2 * n
      <4>1. SUFFICES ASSUME p = 2 * n PROVE FALSE
        OBVIOUS
      <4>2. Head(m_read_buf) = Item("END", 0)
        BY <1>2, <2>2, <4>1, SectionsShape
      <4> QED  BY <1>1, <4>2 DEF Item
    <3>2. n # 0 /\ p < 2 * n
      BY <2>2, <3>1
    <3>3. WithLine = TextResponse("VALUE", p \div 2, p + 1, e)
      BY <1>2, <2>2, LineAdded
    <3> QED  BY <3>2, <3>3
  <2> QED  BY <1>2, <2>1, <2>2
<1>4. /\ p + 1 \in 1..(2 * n + 1) /\ (p + 1) % 2 = 1 /\ p + 1 # 2 * n + 1
      /\ (p + 1) \div 2 = p \div 2 /\ n > 0 /\ (p + e) + 1 = (p + 1) + e
      /\ p + 1 \in Nat \ {0} /\ (p + 1 > 1 => p > 0)
  BY <1>2, <1>3
<1>5. WithLine = TextResponse(IF n > 0 THEN "VALUE" ELSE "END", (p + 1) \div 2,
                              IF (p + 1) % 2 = 1 THEN p + 1 ELSE (p + 1) - 1, e)
  BY <1>3, <1>4
<1>6. /\ m_response_len' = (p + 1) + e /\ (p + 1 > 1 => ~config.keep) /\ Answered(k)
  BY <1>1, <1>2, <1>3, <1>4 DEF At
<1>7. m_response_state' = (IF p + 1 = 2 * n + 1 THEN "rs_read_end"
                           ELSE IF (p + 1) % 2 = 1 THEN "rs_read_value"
                           ELSE "rs_read_section")
  BY <1>1, <1>4
<1>8. e = ErrorsBefore(k + 1)
  BY DEF e
<1> QED  BY <1>1, <1>2, <1>3, <1>4, <1>5, <1>6, <1>7, <1>8, SectionsGoOn

LEMMA TextEndLineStep ==
    ASSUME Types, NEW k, NEW p, At(k, p), TextEndLine
    PROVE  Good'
<1> DEFINE reply == replied[k + 1]
           e == ErrorsBefore(k + 1)
<1>1. /\ config.protocol = "memcache_text" /\ m_response_state = "rs_read_section"
      /\ pc = "parsing" /\ m_read_buf # << >> /\ Head(m_read_buf).kind \in {"END", "STORED"}
      /\ m_read_buf' = Tail(m_read_buf)
      /\ m_last_response' = WithLine /\ m_response_len' = m_response_len + 1
      /\ m_response_state' = "rs_read_end"
      /\ Unchanging /\ results' = results /\ pc' = pc
  BY DEF TextEndLine, SectionLine, Parsing, HasItem, Consume, Continue, Unchanging
<1>2. /\ k \in 0..(Len(replied) - 1) /\ p \in Nat /\ e \in Nat /\ TextReply(reply)
      /\ Head(m_read_buf) = reply[p + 1] /\ Tail(m_read_buf) \in Seq(Items)
      /\ Behind(replied, Tail(m_read_buf) \o incoming, k, p + 1)
      /\ m_response_len = p + e
      /\ \/ p = 0 /\ m_last_response = TextResponse("NULL", 0, 0, e)
         \/ \E n \in Nat : /\ reply = Sections(n) /\ p \in 1..(2 * n) /\ p % 2 = 0
                           /\ m_last_response = TextResponse("VALUE", p \div 2, p - 1, e)
                           /\ ~config.keep
  BY <1>1, InSection
<1> HIDE DEF e
<1>3. e = ErrorsBefore(k + 1) /\ Answered(k) /\ pc' = "parsing" /\ pc' # "idle"
      /\ m_response_len' = (p + 1) + e
  BY <1>1, <1>2 DEF e, At
<1>4. CASE p = 0 /\ Head(m_read_buf).kind = "STORED"
  <2>1. reply = Line("STORED")
    BY <1>2, <1>4, TextHead
  <2>2. m_last_response = TextResponse("NULL", 0, 0, e)
    BY <1>2, <1>4
  <2>3. WithLine = TextResponse("STORED", 0, p + 1, e)
    BY <1>2, <1>4, <2>2, LineAdded
  <2>4. ASSUME NEW r, r = replied[k + 1], NEW f, f = e
        PROVE  Within(r, 1, f)'
    <3>1. r = Line("STORED") /\ p + 1 = 1 /\ config' = config
      BY <1>1, <1>4, <2>1, <2>4 DEF Unchanging
    <3>2. m_response_len' = 1 + f /\ m_last_response' = TextResponse("STORED", 0, 1, f)
      BY <1>1, <1>3, <2>3, <2>4, <3>1
    <3>3. StoredRead(r, 1, f)'
      BY <1>1, <1>3, <3>1, <3>2 DEF StoredRead
    <3> QED  BY <1>1, <3>1, <3>3 DEF Within
  <2>5. 1 \in Nat \ {0} /\ p + 1 = 1
    BY <1>4
  <2> QED  BY <1>1, <1>2, <1>3, <2>4, <2>5, ReadsOn
<1>5. CASE ~(p = 0 /\ Head(m_read_buf).kind = "STORED")
  <2>1. PICK n \in Nat :
          /\ reply = Sections(n) /\ p = 2 * n /\ (p > 0 => ~config.keep)
          /\ WithLine = TextResponse(IF n > 0 THEN "VALUE" ELSE "END", p \div 2, p + 1, e)
    <3>1. CASE p = 0 /\ m_last_response = TextResponse("NULL", 0, 0, e)
      <4>1. Head(m_read_buf).kind = "END" /\ reply[1].kind = "END"
        BY <1>1, <1>2, <1>5, <3>1
      <4>2. reply = Sections(0)
        BY <1>2, <4>1, TextHead
      <4>3. WithLine = TextResponse("END", 0, p + 1, e)
        BY <1>2, <3>1, <4>1, LineAdded
      <4>4. p = 2 * 0 /\ ~(0 > 0) /\ p \div 2 = 0 /\ 0 \in Nat
        BY <3>1
      <4> QED  BY <3>1, <4>2, <4>3, <4>4
    <3>2. ASSUME NEW n \in Nat, reply = Sections(n), p \in 1..(2 * n), p % 2 = 0,
                 m_last_response = TextResponse("VALUE", p \div 2, p - 1, e), ~config.keep
          PROVE  /\ p = 2 * n /\ n > 0
                 /\ WithLine = TextResponse("VALUE", p \div 2, p + 1, e)
      <4>1. p = 2 * n
        <5>1. SUFFICES ASSUME p # 2 * n PROVE FALSE
          OBVIOUS
        <5>2. p + 1 \in 1..(2 * n) /\ (p + 1) % 2 = 1
          <6>1. p \in Nat /\ p < 2 * n /\ p % 2 = 0 /\ 2 * n \in Nat
            BY <1>2, <3>2, <5>1
          <6> QED  BY <6>1
        <5>3. Head(m_read_buf) = Item("VALUE", 1)
          BY <1>2, <3>2, <5>2, SectionsShape
        <5> QED  BY <1>1, <5>3 DEF Item
      <4>2. n > 0
        BY <3>2
      <4>3. WithLine = TextResponse("VALUE", p \div 2, p + 1, e)
        BY <1>2, <3>2, LineAdded
      <4> QED  BY <4>1, <4>2, <4>3
    <3> QED  BY <1>2, <3>1, <3>2
  <2>2. /\ p + 1 \in 1..(2 * n + 1) /\ (p + 1) % 2 = 1 /\ p + 1 = 2 * n + 1
        /\ (p + 1) \div 2 = p \div 2 /\ (p + 1 > 1 => p > 0)
    BY <2>1
  <2>3. WithLine = TextResponse(IF n > 0 THEN "VALUE" ELSE "END", (p + 1) \div 2,
                                IF (p + 1) % 2 = 1 THEN p + 1 ELSE (p + 1) - 1, e)
    BY <2>1, <2>2
  <2>4. m_response_state' = (IF p + 1 = 2 * n + 1 THEN "rs_read_end"
                             ELSE IF (p + 1) % 2 = 1 THEN "rs_read_value"
                             ELSE "rs_read_section")
    BY <1>1, <2>2
  <2>5. p + 1 > 1 => ~config.keep
    BY <2>1, <2>2
  <2> QED  BY <1>1, <1>2, <1>3, <2>1, <2>2, <2>3, <2>4, <2>5, SectionsGoOn
<1> QED  BY <1>4, <1>5

\* Where a response is given up on: the reply behind it begins with what is left.
LEMMA TextUnknownLineStep ==
    ASSUME Types, NEW k, NEW p, At(k, p), TextUnknownLine
    PROVE  Good'
<1> DEFINE reply == replied[k + 1]
           e == ErrorsBefore(k + 1)
<1>1. /\ config.protocol = "memcache_text" /\ m_response_state = "rs_read_section"
      /\ pc = "parsing" /\ m_read_buf # << >> /\ Head(m_read_buf).kind = "SERVER_ERROR"
      /\ m_read_buf' = Tail(m_read_buf)
      /\ m_last_response' = [WithLine EXCEPT !.error = TRUE]
      /\ m_response_len' = m_response_len + 1
      /\ m_response_state' = m_response_state
      /\ Unchanging /\ results' = results
  BY DEF TextUnknownLine, SectionLine, Parsing, HasItem, Consume, Unchanging, history
<1>2. /\ k \in 0..(Len(replied) - 1) /\ p \in Nat /\ e \in Nat /\ TextReply(reply)
      /\ Head(m_read_buf) = reply[p + 1] /\ Tail(m_read_buf) \in Seq(Items)
      /\ Behind(replied, Tail(m_read_buf) \o incoming, k, p + 1)
      /\ m_response_len = p + e
      /\ \/ p = 0 /\ m_last_response = TextResponse("NULL", 0, 0, e)
         \/ \E n \in Nat : /\ reply = Sections(n) /\ p \in 1..(2 * n) /\ p % 2 = 0
                           /\ m_last_response = TextResponse("VALUE", p \div 2, p - 1, e)
                           /\ ~config.keep
  BY <1>1, InSection
<1> HIDE DEF e
<1>3. p = 0 /\ m_last_response = TextResponse("NULL", 0, 0, e)
  <2>1. SUFFICES ASSUME NEW n \in Nat, reply = Sections(n), p \in 1..(2 * n), p % 2 = 0
                 PROVE  FALSE
    BY <1>2
  <2>2. CASE p = 2 * n
    <3>1. Head(m_read_buf) = Item("END", 0)
      BY <1>2, <2>1, <2>2, SectionsShape
    <3> QED  BY <1>1, <3>1 DEF Item
  <2>3. CASE p # 2 * n
    <3>1. p + 1 \in 1..(2 * n) /\ (p + 1) % 2 = 1
      BY <1>2, <2>1, <2>3
    <3>2. Head(m_read_buf) = Item("VALUE", 1)
      BY <1>2, <2>1, <3>1, SectionsShape
    <3> QED  BY <1>1, <3>2 DEF Item
  <2> QED  BY <2>2, <2>3
<1>4. reply = Line("SERVER_ERROR") /\ Len(reply) = 1 /\ Unparsable(reply)
  <2>1. reply = Line("SERVER_ERROR")
    <3>1. TextReply(reply) /\ Head(m_read_buf) = reply[1]
      BY <1>2, <1>3
    <3> QED  BY <1>1, <3>1, TextHead
  <2>2. "SERVER_ERROR" \in Kinds
    BY DEF Kinds
  <2>3. Line("SERVER_ERROR") \in Seq(Items) /\ Len(Line("SERVER_ERROR")) = 1
    BY <2>2, LineShape
  <2>4. Unparsable(reply)
    BY <1>1, <1>2, <1>3, <2>1, <2>3, DomainIs DEF Unparsable
  <2> QED  BY <2>1, <2>3, <2>4
<1>5. /\ Len(replied) \in Nat /\ k + 1 \in 0..Len(replied) /\ k + 1 \in Nat \ {0}
      /\ replied \in Seq(Seq(Items)) /\ k + 1 \in 1..Len(replied) /\ k \in Nat
  BY <1>2, ThisReply DEF Types
<1>6. Behind(replied, m_read_buf' \o incoming, k + 1, 0)
  <2>1. p + 1 = Len(reply)
    BY <1>3, <1>4
  <2>2. Behind(replied, m_read_buf' \o incoming, k, Len(reply))
    BY <1>1, <1>2, <2>1, Zenon
  <2> QED  BY <1>2, <1>5, <2>2, NextReply
<1>7. m_last_response' = TextResponse("NULL", 0, 0, e + 1)
  <2>1. WithLine = TextResponse("SERVER_ERROR", 0, p + 1, e)
    BY <1>1, <1>2, <1>3, LineAdded
  <2>2. WithLine = Made("SERVER_ERROR", Erred(e), 0, 0, (p + 1) + e, -1)
    BY <2>1 DEF TextResponse
  <2> DEFINE erred == TRUE
             len == (p + 1) + e
  <2> HIDE DEF erred, len
  <2>3. [WithLine EXCEPT !.error = erred] = Made("SERVER_ERROR", erred, 0, 0, len, -1)
    BY <2>2, SetsError DEF len
  <2>4. Erred(e + 1) = erred /\ len = 0 + (e + 1) /\ e + 1 > 0
    BY <1>2, <1>3 DEF Erred, erred, len
  <2>5. [WithLine EXCEPT !.error = erred] = TextResponse("NULL", 0, 0, e + 1)
    BY <2>3, <2>4 DEF TextResponse
  <2> QED  BY <1>1, <2>5 DEF erred
<1>8. ErrorsBefore((k + 1) + 1)' = e + 1
  <2>1. ErrorsBefore((k + 1) + 1) = e + 1
    BY <1>4, <1>5, ErrorsNext DEF e
  <2> QED  BY <1>1, <2>1, SameReplies DEF Unchanging
<1>9. Answered(k + 1)'
  <2>1. Rank(k + 1) = Rank(k) /\ Rank(k) = Len(results)
    BY <1>2, <1>4, <1>5, RankNext DEF At, Answered
  <2>2. Len(results') = Rank(k + 1)'
    BY <1>1, <2>1, SameReplies DEF Unchanging
  <2>3. \A i \in 1..(k + 1) : ~Unparsable(replied[i]) => i \in 1..k
    BY <1>4, <1>5
  <2>4. \A i \in 1..k : ~Unparsable(replied[i]) => results[Rank(i)] = Returned(i)
    BY DEF At, Answered
  <2>5. \A i \in 1..(k + 1) : ~Unparsable(replied[i]) => results'[Rank(i)'] = Returned(i)'
    BY <1>1, <2>3, <2>4, SameReplies DEF Unchanging
  <2> QED  BY <1>1, <2>2, <2>5 DEF Answered, Unchanging, Unparsable
<1>10. ASSUME NEW f, f = e + 1 PROVE Fresh(f)'
  <2>1. m_response_len' = f
    BY <1>1, <1>2, <1>3, <1>10
  <2>2. m_last_response' = TextResponse("NULL", 0, 0, f)
    BY <1>7, <1>10
  <2>3. config' = config
    BY <1>1 DEF Unchanging
  <2> QED  BY <1>1, <2>1, <2>2, <2>3 DEF Fresh
<1>11. Fresh(ErrorsBefore((k + 1) + 1))'
  BY <1>8, <1>10 DEF Fresh
<1>12. At(k + 1, 0)'
  BY <1>1, <1>5, <1>6, <1>9, <1>11 DEF At, Unchanging
<1>13. Types'
  BY <1>1, <1>2, TypesStay DEF Types
<1>14. Drained'
  BY <1>1, <1>4, <1>5 DEF Drained, Unchanging, Unparsable
<1> QED  BY <1>12, <1>13, <1>14 DEF Good

LEMMA WithinStays ==
    ASSUME NEW reply, NEW p, NEW e, Within(reply, p, e), UNCHANGED << config, parser >>,
           m_response_state = "rs_read_end" => pc' = pc
    PROVE  Within(reply, p, e)'
<1>1. /\ config' = config /\ m_response_state' = m_response_state
      /\ m_last_response' = m_last_response /\ m_response_len' = m_response_len
      /\ m_bulk_len' = m_bulk_len /\ current_mbulk_level' = current_mbulk_level
  BY DEF parser
<1>2. CASE config.protocol = "redis" /\ BulkBegun(reply, p)
  <2>1. BulkBegun(reply, p)'
    BY <1>1, <1>2 DEF BulkBegun
  <2> QED  BY <1>1, <1>2, <2>1 DEF Within
<1>3. CASE config.protocol = "redis" /\ ArrayBegun(reply, p)
  <2>1. ArrayBegun(reply, p)'
    BY <1>1, <1>3 DEF ArrayBegun
  <2> QED  BY <1>1, <1>3, <2>1 DEF Within
<1>4. CASE config.protocol = "memcache_text" /\ SectionsBegun(reply, p, e)
  <2>1. SectionsBegun(reply, p, e)'
    BY <1>1, <1>4 DEF SectionsBegun
  <2> QED  BY <1>1, <1>4, <2>1 DEF Within
<1>5. CASE config.protocol = "memcache_text" /\ StoredRead(reply, p, e)
  <2>1. StoredRead(reply, p, e)'
    BY <1>1, <1>5 DEF StoredRead
  <2> QED  BY <1>1, <1>5, <2>1 DEF Within
<1>6. CASE config.protocol = "memcache_binary" /\ PacketBegun(reply, p)
  <2>1. PacketBegun(reply, p)'
    BY <1>1, <1>6 DEF PacketBegun
  <2> QED  BY <1>1, <1>6, <2>1 DEF Within
<1> QED  BY <1>2, <1>3, <1>4, <1>5, <1>6 DEF Within

\* Only the text protocol has an end to return from, and it does so at once.
LEMMA EndRead ==
    ASSUME NEW k, NEW p, At(k, p), m_response_state = "rs_read_end"
    PROVE  config.protocol = "memcache_text" /\ pc = "parsing"
BY DEF At, Fresh, Within, BulkBegun, ArrayBegun, SectionsBegun, StoredRead, PacketBegun

\* The parser stops where it is.
LEMMA Stops ==
    ASSUME Types, NEW k, NEW p, At(k, p),
           UNCHANGED << config, incoming, m_read_buf, parser, history >>,
           m_response_state = "rs_read_end" => pc' = pc, Drained'
    PROVE  Good'
<1>1. /\ Unchanging /\ m_read_buf' = m_read_buf /\ results' = results
      /\ m_response_state' = m_response_state /\ m_last_response' = m_last_response
      /\ m_response_len' = m_response_len
  BY DEF Unchanging, history, parser
<1>2. Types'
  BY <1>1, TypesStay DEF Types
<1>3. Answered(k)'
  BY <1>1, SameReplies DEF At, Answered, Unchanging, Unparsable
<1>4. ErrorsBefore(k + 1)' = ErrorsBefore(k + 1) /\ (replied[k + 1])' = replied[k + 1]
      /\ config' = config
  BY <1>1, SameReplies DEF Unchanging
<1>5. CASE p = 0
  <2>1. ASSUME NEW e, e = ErrorsBefore(k + 1) PROVE Fresh(e)'
    <3>1. Fresh(e)
      BY <1>5, <2>1 DEF At
    <3> QED  BY <1>1, <1>4, <3>1 DEF Fresh
  <2>2. Fresh(ErrorsBefore(k + 1))'
    BY <1>4, <2>1 DEF Fresh
  <2>3. At(k, p)'
    BY <1>1, <1>3, <1>5, <2>2 DEF At, Unchanging
  <2> QED  BY <1>2, <2>3 DEF Good
<1>6. CASE p # 0
  <2>1. ASSUME NEW reply, reply = replied[k + 1], NEW e, e = ErrorsBefore(k + 1)
        PROVE  Within(reply, p, e)'
    <3>1. Within(reply, p, e)
      BY <1>6, <2>1 DEF At
    <3> QED  BY <3>1, WithinStays
  <2>2. Within(replied[k + 1], p, ErrorsBefore(k + 1))'
    BY <1>4, <2>1 DEF Within, BulkBegun, ArrayBegun, SectionsBegun, StoredRead, PacketBegun
  <2>3. At(k, p)'
    BY <1>1, <1>3, <1>6, <2>2 DEF At, Unchanging
  <2> QED  BY <1>2, <2>3 DEF Good
<1> QED  BY <1>5, <1>6

LEMMA TextValueStep ==
    ASSUME Types, NEW k, NEW p, At(k, p), TextValue
    PROVE  Good'
<1> DEFINE e == ErrorsBefore(k + 1)
<1>1. /\ config.protocol = "memcache_text" /\ m_response_state = "rs_read_value"
      /\ pc = "parsing" /\ m_read_buf # << >>
  BY DEF TextValue, Parsing
<1>2. CASE config.keep
  <2>1. pc' = "assert_failed" /\ UNCHANGED << config, incoming, m_read_buf, parser, history >>
    BY <1>2 DEF TextValue, AssertFails
  <2>2. Drained'
    BY <2>1 DEF Drained
  <2> QED  BY <1>1, <2>1, <2>2, Stops
<1>3. CASE ~config.keep
  <2>1. /\ m_read_buf' = Tail(m_read_buf)
        /\ m_last_response' = [m_last_response EXCEPT !.hits = @ + 1]
        /\ m_response_len' = m_response_len + 1
        /\ m_response_state' = "rs_read_section"
        /\ Unchanging /\ results' = results /\ pc' = "parsing"
    BY <1>1, <1>3 DEF TextValue, Consume, Continue, Unchanging
  <2>2. p # 0 /\ p \in Nat /\ SectionsBegun(replied[k + 1], p, e) /\ Answered(k)
    BY <1>1 DEF At, Fresh, Within, StoredRead
  <2> HIDE DEF e
  <2>3. PICK n \in Nat :
          /\ replied[k + 1] = Sections(n) /\ p \in 1..(2 * n + 1)
          /\ m_response_len = p + e
          /\ m_last_response = TextResponse(IF n > 0 THEN "VALUE" ELSE "END", p \div 2,
                                            IF p % 2 = 1 THEN p ELSE p - 1, e)
          /\ m_response_state = (IF p = 2 * n + 1 THEN "rs_read_end"
                                 ELSE IF p % 2 = 1 THEN "rs_read_value" ELSE "rs_read_section")
    BY <2>2 DEF SectionsBegun
  <2>4. p # 2 * n + 1 /\ p % 2 = 1
    BY <1>1, <2>3
  <2>5. /\ k \in 0..(Len(replied) - 1) /\ k \in 0..Len(replied) /\ e \in Nat
        /\ e = ErrorsBefore(k + 1)
    BY <2>2, ErrorsType, LenProperties DEF At, Types, e
  <2>6. /\ n > 0 /\ p < 2 * n /\ p + 1 \in 1..(2 * n + 1) /\ (p + 1) % 2 # 1
        /\ p + 1 # 2 * n + 1 /\ (p + 1) \div 2 = p \div 2 + 1 /\ (p + 1) - 1 = p
    BY <2>3, <2>4
  <2>7. Len(replied[k + 1]) = 2 * n + 1
    BY <2>3, SectionsShape
  <2>8. /\ Tail(m_read_buf) \in Seq(Items)
        /\ Behind(replied, Tail(m_read_buf) \o incoming, k, p + 1)
    <3>1. p < Len(replied[k + 1])
      BY <2>2, <2>6, <2>7
    <3>2. Behind(replied, m_read_buf \o incoming, k, p)
      BY DEF At
    <3> QED  BY <1>1, <2>2, <2>5, <3>1, <3>2, HeadIs
  <2>9. m_last_response' = TextResponse("VALUE", (p + 1) \div 2, p, e)
    <3> DEFINE status == IF e > 0 THEN "SERVER_ERROR" ELSE "VALUE"
               more == m_last_response.hits + 1
    <3>1. m_last_response = Made(status, Erred(e), p \div 2, 0, p + e, -1)
      BY <2>3, <2>4, <2>6 DEF TextResponse
    <3>2. more = (p + 1) \div 2
      BY <2>6, <3>1, Fields
    <3> HIDE DEF status, more
    <3>3. [m_last_response EXCEPT !.hits = more] = Made(status, Erred(e), more, 0, p + e, -1)
      BY <3>1, SetsHits
    <3>4. m_last_response' = [m_last_response EXCEPT !.hits = more]
      BY <2>1 DEF more
    <3> QED  BY <3>2, <3>3, <3>4 DEF TextResponse, status
  <2>10. m_last_response' = TextResponse(IF n > 0 THEN "VALUE" ELSE "END", (p + 1) \div 2,
                                         IF (p + 1) % 2 = 1 THEN p + 1 ELSE (p + 1) - 1, e)
    BY <2>6, <2>9
  <2>11. m_response_len' = (p + 1) + e
    BY <2>1, <2>2, <2>3, <2>5
  <2>12. m_response_state' = (IF p + 1 = 2 * n + 1 THEN "rs_read_end"
                              ELSE IF (p + 1) % 2 = 1 THEN "rs_read_value"
                              ELSE "rs_read_section")
    BY <2>1, <2>6
  <2>13. m_read_buf' \in Seq(Items) /\ Behind(replied, m_read_buf' \o incoming, k, p + 1)
    BY <2>1, <2>8
  <2> QED  BY <1>1, <1>3, <2>1, <2>2, <2>3, <2>5, <2>6, <2>10, <2>11, <2>12, <2>13,
              SectionsGoOn
<1> QED  BY <1>2, <1>3

\* A response of the text protocol, and what the errors in front of it leave to it.
LEMMA TextReturned ==
    ASSUME Types, NEW k \in 0..Len(replied), NEW e, e = ErrorsBefore(k + 1), NEW status,
           NEW hits, NEW len \in Nat,
           Response(replied[k + 1]) = Made(status, NoError, hits, 0, len, -1)
    PROVE  Returned(k + 1) = TextResponse(status, hits, len, e)
<1>1. e \in Nat
  BY ErrorsType
<1> DEFINE response == Response(replied[k + 1])
<1>2. response = Made(status, NoError, hits, 0, len, -1)
  OBVIOUS
<1> HIDE DEF response
<1>3. CASE e = 0
  <2>1. Returned(k + 1) = response
    BY <1>3 DEF Returned, response
  <2>2. Erred(e) = NoError /\ len + e = len /\ ~(e > 0)
    BY <1>3 DEF Erred, NoError
  <2> QED  BY <1>2, <2>1, <2>2 DEF TextResponse
<1>4. CASE e > 0
  <2> DEFINE longer == response.total_len + e
             erred == TRUE
             first == [response EXCEPT !.status = "SERVER_ERROR"]
             second == [first EXCEPT !.error = erred]
  <2>1. Returned(k + 1) = [second EXCEPT !.total_len = longer]
    BY <1>1, <1>4 DEF Returned, response
  <2>2. longer = len + e
    BY <1>2, Fields
  <2>3. erred = Erred(e)
    BY <1>4 DEF Erred
  <2> HIDE DEF longer, erred
  <2>4. first = Made("SERVER_ERROR", NoError, hits, 0, len, -1)
    BY <1>2, SetsStatus
  <2> HIDE DEF first
  <2>5. second = Made("SERVER_ERROR", erred, hits, 0, len, -1)
    BY <2>4, SetsError
  <2> HIDE DEF second
  <2>6. [second EXCEPT !.total_len = longer] = Made("SERVER_ERROR", erred, hits, 0, longer, -1)
    BY <2>5, SetsTotalLen
  <2> QED  BY <1>4, <2>1, <2>2, <2>3, <2>6 DEF TextResponse
<1> QED  BY <1>1, <1>3, <1>4

LEMMA TextEndStep ==
    ASSUME Types, NEW k, NEW p, At(k, p), TextEnd
    PROVE  Good'
<1> DEFINE e == ErrorsBefore(k + 1)
<1>1. /\ config.protocol = "memcache_text" /\ m_response_state = "rs_read_end"
      /\ pc = "parsing" /\ m_response_state' = "rs_initial"
      /\ results' = Append(results, m_last_response) /\ Unchanging /\ pc' # "idle"
      /\ m_read_buf' = m_read_buf
  BY DEF TextEnd, Parsing, Return1, Unchanging
<1>2. /\ p # 0 /\ p \in Nat /\ Answered(k)
      /\ SectionsBegun(replied[k + 1], p, e) \/ StoredRead(replied[k + 1], p, e)
  BY <1>1 DEF At, Fresh, Within
<1>3. k \in 0..(Len(replied) - 1) /\ k \in 0..Len(replied) /\ e \in Nat
  BY <1>2, ErrorsType, LenProperties DEF At, Types
<1> HIDE DEF e
<1>4. /\ p = Len(replied[k + 1]) /\ ~Unparsable(replied[k + 1])
      /\ Returned(k + 1) = m_last_response
  <2>1. ASSUME NEW n \in Nat, replied[k + 1] = Sections(n), p = 2 * n + 1,
               m_last_response = TextResponse(IF n > 0 THEN "VALUE" ELSE "END", p \div 2,
                                              IF p % 2 = 1 THEN p ELSE p - 1, e),
               p > 1 => ~config.keep
        PROVE  /\ p = Len(replied[k + 1]) /\ ~Unparsable(replied[k + 1])
               /\ Returned(k + 1) = m_last_response
    <3>1. p \div 2 = n /\ p % 2 = 1 /\ (n > 0 => ~config.keep) /\ 2 * n + 1 \in Nat
      BY <2>1
    <3>2. m_last_response = TextResponse(IF n > 0 THEN "VALUE" ELSE "END", n, 2 * n + 1, e)
      BY <2>1, <3>1
    <3> DEFINE status == IF n > 0 THEN "VALUE" ELSE "END"
    <3>3. Response(replied[k + 1]) = Made(status, NoError, n, 0, 2 * n + 1, -1)
      BY <1>1, <2>1, <3>1, SectionsResponse
    <3>4. status \in {"VALUE", "END"}
      OBVIOUS
    <3> HIDE DEF status
    <3>5. Returned(k + 1) = TextResponse(status, n, 2 * n + 1, e)
      BY <1>3, <3>1, <3>3, TextReturned DEF e
    <3>6. ~Unparsable(replied[k + 1])
      <4>1. Response(replied[k + 1]).status = status
        BY <3>3, Fields
      <4>2. Head(replied[k + 1]).kind = status
        BY <4>1 DEF Response
      <4> QED  BY <3>4, <4>2 DEF Unparsable
    <3> QED  BY <2>1, <3>2, <3>5, <3>6, SectionsShape DEF status
  <2>2. CASE SectionsBegun(replied[k + 1], p, e)
    <3>1. PICK n \in Nat :
            /\ replied[k + 1] = Sections(n)
            /\ m_last_response = TextResponse(IF n > 0 THEN "VALUE" ELSE "END", p \div 2,
                                              IF p % 2 = 1 THEN p ELSE p - 1, e)
            /\ m_response_state = (IF p = 2 * n + 1 THEN "rs_read_end"
                                   ELSE IF p % 2 = 1 THEN "rs_read_value"
                                   ELSE "rs_read_section")
            /\ p > 1 => ~config.keep
      BY <2>2 DEF SectionsBegun
    <3>2. p = 2 * n + 1
      BY <1>1, <3>1
    <3> QED  BY <2>1, <3>1, <3>2
  <2>3. CASE StoredRead(replied[k + 1], p, e)
    <3> DEFINE item == Item("STORED", 0)
    <3>1. item \in Items /\ item.kind = "STORED" /\ item.n = 0
      BY ItemType DEF Kinds
    <3>2. replied[k + 1] = << item >> /\ p = 1
      BY <2>3 DEF StoredRead, Line
    <3>3. m_last_response = TextResponse("STORED", 0, 1, e)
      BY <2>3 DEF StoredRead
    <3> HIDE DEF item
    <3>4. Response(<< item >>) = Made("STORED", NoError, 0, 0, 1, -1)
      BY <1>1, <3>1, NotErred, SingleResponse
    <3>5. Returned(k + 1) = TextResponse("STORED", 0, 1, e)
      BY <1>3, <3>2, <3>4, TextReturned DEF e
    <3>6. Len(replied[k + 1]) = 1 /\ ~Unparsable(replied[k + 1])
      <4>1. << item >> \in Seq(Items) /\ Len(<< item >>) = 1 /\ << item >>[1] = item
        BY <3>1, SingleShape
      <4>2. Head(<< item >>) = item
        BY <4>1, DomainIs
      <4> QED  BY <3>1, <3>2, <4>1, <4>2 DEF Unparsable
    <3> QED  BY <3>2, <3>3, <3>5, <3>6
  <2> QED  BY <1>2, <2>2, <2>3
<1>5. m_read_buf' \in Seq(Items) /\ Behind(replied, m_read_buf' \o incoming, k, Len(replied[k + 1]))
  <2>1. Behind(replied, m_read_buf \o incoming, k, p)
    BY DEF At
  <2> QED  BY <1>1, <1>4, <2>1 DEF Types
<1> QED  BY <1>1, <1>2, <1>3, <1>4, <1>5, Returns

-----------------------------------------------------------------------------
(* The binary protocol of memcached                                        *)

LEMMA BinaryHead ==
    ASSUME NEW reply, BinaryReply(reply), NEW item, item = reply[1]
    PROVE  /\ item \in Items /\ item.kind \in Statuses /\ item.n \in Nat
           /\ item.n = 0 => item.kind = "SUCCESS" /\ reply = << item >>
           /\ item.n # 0 => reply = Packet(item.kind, item.n)
<1>1. CASE reply = << Item("SUCCESS", 0) >>
  <2>1. item = Item("SUCCESS", 0)
    BY <1>1
  <2>2. item \in Items /\ item.kind = "SUCCESS" /\ item.n = 0
    BY <2>1, ItemType DEF Kinds
  <2> QED  BY <1>1, <2>1, <2>2 DEF Statuses
<1>2. ASSUME NEW status \in Statuses, NEW n \in Nat \ {0}, reply = Packet(status, n)
      PROVE  item \in Items /\ item.kind = status /\ item.n = n
  <2>1. item = Item(status, n)
    BY <1>2, PacketShape
  <2>2. status \in Kinds
    BY DEF Statuses, Kinds
  <2> QED  BY <2>1, <2>2, ItemType
<1>3. CASE \E status \in Statuses, n \in Nat \ {0} : reply = Packet(status, n)
  BY <1>2, <1>3
<1> QED  BY <1>1, <1>3 DEF BinaryReply

LEMMA BinaryStartedIs ==
    ASSUME NEW error \in BOOLEAN, error <=> Head(m_read_buf).kind \in ErrorStatuses
    PROVE  BinaryStarted = Made(Head(m_read_buf).kind, error, 0, 0, 0, -1)
<1> DEFINE status == Head(m_read_buf).kind
           first == [Cleared EXCEPT !.status = status]
           erred == status \in ErrorStatuses
<1>1. BinaryStarted = [first EXCEPT !.error = erred]
  BY DEF BinaryStarted
<1>2. erred = error
  <2>1. erred \in BOOLEAN
    OBVIOUS
  <2>2. erred <=> error
    OBVIOUS
  <2> HIDE DEF erred
  <2> QED  BY <2>1, <2>2
<1> HIDE DEF erred, status
<1>3. first = Made(status, NoError, 0, 0, 0, -1)
  BY ClearedIs, SetsStatus
<1> HIDE DEF first
<1>4. [first EXCEPT !.error = erred] = Made(status, erred, 0, 0, 0, -1)
  BY <1>3, SetsError
<1> QED  BY <1>1, <1>2, <1>4 DEF status

\* The statuses of errors.
LEMMA ErrorKinds ==
    ASSUME NEW kind \in Statuses
    PROVE  kind \in ErrorStatuses <=> kind \in {"-", "AUTH_ERROR", "EBUSY"}
BY DEF Statuses, ErrorStatuses

LEMMA BinaryHeaderStep ==
    ASSUME Types, NEW k, NEW p, At(k, p), BinaryHeader
    PROVE  Good'
<1> DEFINE item == Head(m_read_buf)
<1>1. /\ config.protocol = "memcache_binary" /\ m_response_state = "rs_initial"
      /\ pc = "parsing" /\ m_read_buf # << >> /\ Consume /\ m_bulk_len' = item.n
      /\ item.n = 0 => Return1(BinaryStarted) /\ m_response_state' = "rs_initial"
      /\ item.n # 0 => /\ m_last_response' = BinaryStarted
                       /\ m_response_state' = "rs_read_body" /\ Continue
  BY DEF BinaryHeader, Parsing
<1>2. p = 0
  BY <1>1, BeginsFresh
<1>3. /\ k \in 0..(Len(replied) - 1) /\ item = replied[k + 1][1]
      /\ Tail(m_read_buf) \in Seq(Items)
      /\ Behind(replied, Tail(m_read_buf) \o incoming, k, 1)
  BY <1>1, <1>2, FirstItem
<1>4. BinaryReply(replied[k + 1])
  BY <1>1, <1>3, ThisReply DEF IsReply
<1> DEFINE error == item.kind \in ErrorStatuses
<1>5. error \in BOOLEAN /\ (error <=> Head(m_read_buf).kind \in ErrorStatuses)
  OBVIOUS
<1> HIDE DEF error
<1>6. BinaryStarted = Made(Head(m_read_buf).kind, error, 0, 0, 0, -1)
  BY <1>5, BinaryStartedIs
<1>7. error <=> item.kind \in ErrorStatuses
  BY <1>5
<1>8. BinaryStarted = Made(item.kind, error, 0, 0, 0, -1)
  BY <1>6
<1> HIDE DEF item
<1>9. item \in Items /\ item.kind \in Statuses /\ item.n \in Nat
  BY <1>3, <1>4, BinaryHead
<1>10. CASE item.n = 0
  <2>1. item.kind = "SUCCESS" /\ replied[k + 1] = << item >>
    BY <1>3, <1>4, <1>10, BinaryHead
  <2>2. error <=> item.kind \in {"-", "AUTH_ERROR", "EBUSY"}
    BY <1>7, <1>9, ErrorKinds
  <2>3. Response(<< item >>) = BinaryStarted
    BY <1>1, <1>5, <1>8, <1>9, <1>10, <2>1, <2>2, SingleResponse
  <2> QED  BY <1>1, <1>2, <1>9, <1>10, <2>1, <2>3, LineReturned DEF item
<1>11. CASE item.n # 0
  <2>1. replied[k + 1] = Packet(item.kind, item.n)
    BY <1>3, <1>4, <1>11, BinaryHead
  <2>2. /\ Unchanging /\ results' = results /\ pc' # "idle" /\ config' = config
        /\ m_read_buf' = Tail(m_read_buf) /\ Answered(k) /\ 1 \in Nat \ {0}
    BY <1>1, <1>11 DEF Continue, Consume, Unchanging, At
  <2>3. ASSUME NEW reply, reply = replied[k + 1], NEW e
        PROVE  Within(reply, 1, e)'
    <3> DEFINE status == item.kind
               n == item.n
    <3>1. /\ status \in Statuses /\ n \in Nat \ {0} /\ reply = Packet(status, n)
          /\ m_response_state' = "rs_read_body" /\ m_bulk_len' = n
          /\ error \in BOOLEAN /\ (error <=> status \in ErrorStatuses)
          /\ m_last_response' = Made(status, error, 0, 0, 0, -1)
      BY <1>1, <1>5, <1>7, <1>8, <1>9, <1>11, <2>1, <2>3
    <3> HIDE DEF status, n
    <3>2. PacketBegun(reply, 1)'
      BY <3>1 DEF PacketBegun
    <3> QED  BY <1>1, <2>2, <3>2 DEF Within
  <2> QED  BY <1>3, <2>2, <2>3, ReadsOn
<1> QED  BY <1>10, <1>11

LEMMA BinaryBodyStep ==
    ASSUME Types, NEW k, NEW p, At(k, p), BinaryBody
    PROVE  Good'
<1> DEFINE response ==
      [m_last_response EXCEPT
          !.value = IF config.keep THEN m_bulk_len ELSE @,
          !.hits = IF m_last_response.status = "SUCCESS" THEN @ + 1 ELSE @]
<1>1. /\ config.protocol = "memcache_binary" /\ m_response_state = "rs_read_body"
      /\ pc = "parsing" /\ m_read_buf # << >> /\ Consume /\ Return1(response)
      /\ m_response_state' = "rs_initial"
  BY DEF BinaryBody, Parsing
<1>2. p # 0 /\ PacketBegun(replied[k + 1], p) /\ Answered(k)
  BY <1>1 DEF At, Fresh, Within
<1>3. k \in 0..(Len(replied) - 1) /\ k \in 0..Len(replied)
  BY <1>2, LenProperties DEF At, Types
<1>4. PICK status \in Statuses, n \in Nat \ {0}, error \in BOOLEAN :
        /\ replied[k + 1] = Packet(status, n) /\ p = 1
        /\ m_bulk_len = n /\ (error <=> status \in ErrorStatuses)
        /\ m_last_response = Made(status, error, 0, 0, 0, -1)
  BY <1>2 DEF PacketBegun
<1>5. Len(replied[k + 1]) = 2
  BY <1>4, PacketShape
<1>6. Tail(m_read_buf) \in Seq(Items) /\ Behind(replied, Tail(m_read_buf) \o incoming, k, 1 + 1)
  <2>1. 1 \in Nat /\ 1 < Len(replied[k + 1])
    BY <1>5
  <2>2. Behind(replied, m_read_buf \o incoming, k, 1)
    BY <1>4 DEF At
  <2> QED  BY <1>1, <1>3, <2>1, <2>2, HeadIs
<1> DEFINE hits == IF status = "SUCCESS" THEN 1 ELSE 0
           value == IF config.keep THEN n ELSE 0
<1>7. response = Made(status, error, hits, value, 0, -1)
  <2> DEFINE before == Made(status, error, 0, 0, 0, -1)
  <2>1. before.value = 0 /\ before.hits = 0 /\ before.status = status
    BY Fields
  <2> HIDE DEF before
  <2>2. /\ (IF config.keep THEN m_bulk_len ELSE before.value) = value
        /\ (IF before.status = "SUCCESS" THEN before.hits + 1 ELSE before.hits) = hits
    BY <1>4, <2>1
  <2>3. m_last_response = before
    BY <1>4 DEF before
  <2> HIDE DEF hits, value
  <2>4. response = [before EXCEPT !.value = value, !.hits = hits]
    BY <2>2, <2>3
  <2> DEFINE first == [before EXCEPT !.value = value]
  <2>5. first = Made(status, error, 0, value, 0, -1)
    BY SetsValue DEF before
  <2> HIDE DEF first
  <2>6. [first EXCEPT !.hits = hits] = Made(status, error, hits, value, 0, -1)
    BY <2>5, SetsHits
  <2> HIDE DEF response
  <2> QED  BY <2>4, <2>6 DEF first
<1>8. Response(replied[k + 1]) = Made(status, error, hits, value, 0, -1)
  <2> DEFINE item == Item(status, n)
             body == Item("data", n)
  <2>1. /\ item \in Items /\ item.kind = status /\ item.n = n
        /\ body \in Items /\ body.kind = "data" /\ body.n = n
    BY ItemType DEF Kinds, Statuses
  <2>2. status \notin {"*", "data", "VALUE", "$"} /\ n # -1
    BY DEF Statuses
  <2>3. error <=> status \in {"-", "AUTH_ERROR", "EBUSY"}
    BY <1>4, ErrorKinds
  <2>4. replied[k + 1] = << item, body >>
    BY <1>4 DEF Packet
  <2> HIDE DEF item, body
  <2>5. Response(<< item, body >>) = Made(status, error, hits, value, 0, -1)
    BY <1>1, <2>1, <2>2, <2>3, PairResponse
  <2> QED  BY <2>4, <2>5
<1> HIDE DEF response, hits, value
<1>9. ~Unparsable(replied[k + 1]) /\ Returned(k + 1) = response
  BY <1>1, <1>3, <1>7, <1>8, NoErrors, ThisReply
<1>10. /\ m_read_buf' = Tail(m_read_buf) /\ Unchanging /\ pc' # "idle"
       /\ results' = Append(results, Returned(k + 1))
  BY <1>1, <1>9 DEF Consume, Return1, Unchanging
<1>11. Behind(replied, m_read_buf' \o incoming, k, Len(replied[k + 1]))
  BY <1>5, <1>6, <1>10
<1> QED  BY <1>1, <1>2, <1>3, <1>6, <1>9, <1>10, <1>11, Returns

-----------------------------------------------------------------------------
(* Requests, the server and the network                                    *)

LEMMA RedisAsks ==
    ASSUME NEW type \in Requests \ {"mget"}
    PROVE  RedisCommand(type) \in {"SETRANGE", "SETEX", "SET", "GETRANGE", "GET", "WAIT", "AUTH",
                                   "SELECT", "CLUSTER SLOTS"}
<1>1. CASE type = "set"     BY <1>1 DEF RedisCommand
<1>2. CASE type = "get"     BY <1>2 DEF RedisCommand
<1>3. CASE type = "wait"    BY <1>3 DEF RedisCommand
<1>4. CASE type = "auth"    BY <1>4 DEF RedisCommand
<1>5. CASE type = "select"  BY <1>5 DEF RedisCommand
<1>6. CASE type = "slots"   BY <1>6 DEF RedisCommand
<1> QED  BY <1>1, <1>2, <1>3, <1>4, <1>5, <1>6 DEF Requests

LEMMA BinaryAsks ==
    ASSUME NEW type \in {"set", "get", "auth"}
    PROVE  BinaryCommand(type) \in BinaryCommands
BY DEF BinaryCommand, BinaryCommands

LEMMA RedisAnswers ==
    ASSUME config \in Configs, NEW c, NEW reply \in RedisReplies(c)
    PROVE  RedisReply(reply)
<1>1. config.length \in Nat /\ 0..config.ranges \subseteq 0..Slots
  <2> DEFINE ranges == config.ranges
  <2>1. config.length \in Nat /\ ranges \in 0..Slots
    BY ProtocolAssumption
  <2> HIDE DEF ranges
  <2>2. ranges \in Nat /\ ranges <= Slots /\ Slots \in Nat
    BY <2>1 DEF Slots
  <2>3. 0..ranges \subseteq 0..Slots
    BY <2>2
  <2> QED  BY <2>1, <2>3 DEF ranges
<1>2. CASE reply = Line("-")
  BY <1>2 DEF RedisReply
<1>3. CASE c.cmd = "GET" /\ reply # Line("-")
  <2>1. RedisReplies(c) = {Line("-")} \cup
                          ({ Bulk(n) : n \in 1..config.length } \cup {<< Item("$", -1) >>})
    BY <1>3 DEF RedisReplies
  <2>2. 1..config.length \subseteq Nat
    BY <1>1
  <2> QED  BY <1>3, <2>1, <2>2 DEF RedisReply
<1>4. CASE c.cmd = "GETRANGE" /\ reply # Line("-")
  <2>1. RedisReplies(c) = {Line("-")} \cup { Bulk(n) : n \in 0..config.length }
    BY <1>4 DEF RedisReplies
  <2>2. 0..config.length \subseteq Nat
    BY <1>1
  <2> QED  BY <1>4, <2>1, <2>2 DEF RedisReply
<1>5. CASE c.cmd \in {"SETRANGE", "WAIT"} /\ reply # Line("-")
  <2>1. RedisReplies(c) = {Line("-")} \cup {Line(":")}
    <3>1. CASE c.cmd = "SETRANGE"  BY <3>1 DEF RedisReplies
    <3>2. CASE c.cmd = "WAIT"      BY <3>2 DEF RedisReplies
    <3> QED  BY <1>5, <3>1, <3>2
  <2> QED  BY <1>5, <2>1 DEF RedisReply
<1>6. CASE c.cmd = "CLUSTER SLOTS" /\ reply # Line("-")
  <2>1. RedisReplies(c) = {Line("-")} \cup { Ranges(n) : n \in 0..config.ranges }
    BY <1>6 DEF RedisReplies
  <2> QED  BY <1>1, <1>6, <2>1 DEF RedisReply
<1>7. CASE /\ c.cmd \notin {"GET", "GETRANGE", "SETRANGE", "WAIT", "CLUSTER SLOTS"}
           /\ reply # Line("-")
  <2>1. RedisReplies(c) = {Line("-")} \cup {Line("+")}
    BY <1>7 DEF RedisReplies
  <2> QED  BY <1>7, <2>1 DEF RedisReply
<1> QED  BY <1>2, <1>3, <1>4, <1>5, <1>6, <1>7

LEMMA TextAnswers ==
    ASSUME NEW c \in Asked, NEW reply \in TextReplies(c)
    PROVE  TextReply(reply)
<1> DEFINE keys == c.keys
<1>1. keys \in Nat
  BY DEF Asked
<1> HIDE DEF keys
<1>2. 0..keys \subseteq Nat
  BY <1>1
<1>3. \/ reply \in {Line("SERVER_ERROR"), Line("STORED")}
      \/ \E n \in 0..keys : reply = Sections(n)
  BY DEF TextReplies, keys
<1> QED  BY <1>2, <1>3 DEF TextReply

LEMMA BinaryAnswers ==
    ASSUME config \in Configs, NEW c, c.cmd \in BinaryCommands, NEW reply \in BinaryReplies(c)
    PROVE  BinaryReply(reply)
<1>1. CASE c.cmd = "CMD_SET"
  <2>1. BinaryReplies(c) = {<< Item("SUCCESS", 0) >>} \cup { Packet(s, 3) : s \in {"EBUSY", "ENOMEM"} }
    BY <1>1 DEF BinaryReplies
  <2> QED  BY <2>1 DEF BinaryReply, Statuses
<1>2. CASE c.cmd = "CMD_GET"
  <2>1. BinaryReplies(c) = { Packet("SUCCESS", n) : n \in 1..config.length } \cup
                           { Packet(s, 3) : s \in {"EBUSY", "KEY_ENOENT"} }
    BY <1>2 DEF BinaryReplies
  <2>2. config.length \in Nat
    BY ProtocolAssumption
  <2>3. 1..config.length \subseteq Nat \ {0}
    BY <2>2
  <2> QED  BY <2>1, <2>3 DEF BinaryReply, Statuses
<1>3. CASE c.cmd = "CMD_SASL_AUTH"
  <2>1. BinaryReplies(c) = { Packet(s, 3) : s \in {"SUCCESS", "AUTH_ERROR"} }
    BY <1>3 DEF BinaryReplies
  <2> QED  BY <2>1 DEF BinaryReply, Statuses
<1> QED  BY <1>1, <1>2, <1>3 DEF BinaryCommands

\* The place in the stream is the same however much of it has been read.
LEMMA AtStays ==
    ASSUME Types, NEW k, NEW p, At(k, p),
           UNCHANGED << config, parser, replied, results >>,
           m_read_buf' \o incoming' = m_read_buf \o incoming,
           m_response_state = "rs_read_end" => pc' = pc
    PROVE  At(k, p)'
<1>1. /\ config' = config /\ replied' = replied /\ results' = results
      /\ m_response_state' = m_response_state /\ m_last_response' = m_last_response
      /\ m_response_len' = m_response_len
  BY DEF parser
<1>2. Behind(replied, m_read_buf \o incoming, k, p)'
  BY <1>1 DEF At
<1>3. Answered(k)'
  BY <1>1, SameReplies DEF At, Answered, Unparsable
<1>4. ErrorsBefore(k + 1)' = ErrorsBefore(k + 1) /\ (replied[k + 1])' = replied[k + 1]
  BY <1>1, SameReplies
<1>5. CASE p = 0
  <2>1. ASSUME NEW e, e = ErrorsBefore(k + 1) PROVE Fresh(e)'
    <3>1. Fresh(e)
      BY <1>5, <2>1 DEF At
    <3> QED  BY <1>1, <3>1 DEF Fresh
  <2>2. Fresh(ErrorsBefore(k + 1))'
    BY <1>4, <2>1 DEF Fresh
  <2> QED  BY <1>1, <1>2, <1>3, <1>5, <2>2 DEF At
<1>6. CASE p # 0
  <2>1. ASSUME NEW reply, reply = replied[k + 1], NEW e, e = ErrorsBefore(k + 1)
        PROVE  Within(reply, p, e)'
    <3>1. Within(reply, p, e)
      BY <1>6, <2>1 DEF At
    <3> QED  BY <3>1, WithinStays
  <2>2. Within(replied[k + 1], p, ErrorsBefore(k + 1))'
    BY <1>4, <2>1 DEF Within, BulkBegun, ArrayBegun, SectionsBegun, StoredRead, PacketBegun
  <2> QED  BY <1>1, <1>2, <1>3, <1>6, <2>2 DEF At
<1> QED  BY <1>5, <1>6

LEMMA StoppedStep ==
    ASSUME Types, NEW k, NEW p, At(k, p), Drained,
           UNCHANGED << config, incoming, m_read_buf, parser, history >>,
           \/ pc' = pc
           \/ pc = "idle" /\ pc' = "assert_failed"
           \/ ReturnZero
    PROVE  Good'
<1>1. m_response_state = "rs_read_end" => pc' = pc
  BY EndRead DEF ReturnZero
<1>2. Drained'
  BY DEF Drained, ReturnZero, history, Unparsable
<1> QED  BY <1>1, <1>2, Stops

LEMMA WriteStep ==
    ASSUME Types, NEW k, NEW p, At(k, p), Drained, NEW type \in Requests, NEW cmd,
           NEW command, command = [cmd |-> cmd, keys |-> Keys(type)], command \in Asked,
           config.protocol = "memcache_binary" => cmd \in BinaryCommands,
           Write(cmd, type)
    PROVE  Good'
<1>1. /\ asked' = Append(asked, command)
      /\ UNCHANGED << config, incoming, m_read_buf, parser, replied, results, pc >>
  BY DEF Write
<1>2. At(k, p)'
  BY <1>1, AtStays
<1>3. /\ asked' \in Seq(Asked) /\ Len(asked') = Len(asked) + 1 /\ Len(asked) \in Nat
      /\ asked'[Len(asked) + 1] = command /\ \A i \in 1..Len(asked) : asked'[i] = asked[i]
  BY <1>1, AppendProperties, LenProperties DEF Types
<1>4. ASSUME config.protocol = "memcache_binary", NEW i \in 1..Len(asked')
      PROVE  asked'[i].cmd \in BinaryCommands
  <2>1. CASE i = Len(asked) + 1
    BY <1>3, <1>4, <2>1
  <2>2. CASE i \in 1..Len(asked)
    BY <1>3, <1>4, <2>2 DEF Types
  <2> QED  BY <1>3, <2>1, <2>2
<1>5. Len(replied') <= Len(asked')
  BY <1>1, <1>3, LenProperties DEF Types
<1>6. Types'
  BY <1>1, <1>3, <1>4, <1>5 DEF Types, IsReply
<1>7. Drained'
  BY <1>1 DEF Drained, Unparsable
<1> QED  BY <1>2, <1>6, <1>7 DEF Good

LEMMA ArriveStep ==
    ASSUME Types, NEW k, NEW p, At(k, p), NEW n \in 1..Len(incoming), Arrive(n)
    PROVE  Good'
<1> DEFINE first == SubSeq(incoming, 1, n)
           rest == SubSeq(incoming, n + 1, Len(incoming))
<1>1. /\ m_read_buf' = m_read_buf \o first /\ incoming' = rest
      /\ pc = "idle" /\ pc' = "parsing"
      /\ UNCHANGED << config, parser, asked, replied, results >>
  BY DEF Arrive, history
<1>2. m_read_buf \in Seq(Items) /\ incoming \in Seq(Items) /\ Len(incoming) \in Nat
  BY LenProperties DEF Types
<1>3. first \in Seq(Items) /\ rest \in Seq(Items)
  <2>1. \A i \in 1..Len(incoming) : incoming[i] \in Items
    BY <1>2, ElementOfSeq
  <2>2. /\ \A i \in 1..n : incoming[i] \in Items
        /\ \A i \in (n + 1)..Len(incoming) : incoming[i] \in Items
    BY <1>2, <2>1
  <2> QED  BY <1>2, <2>2, SubSeqProperties
<1>4. first \o rest = incoming
  <2>1. first \o rest = SubSeq(incoming, 1, Len(incoming))
    BY <1>2, ConcatAdjacentSubSeq
  <2> QED  BY <1>2, <2>1, SubSeqFull
<1> HIDE DEF first, rest
<1>5. m_read_buf' \o incoming' = m_read_buf \o incoming
  BY <1>1, <1>2, <1>3, <1>4, Regroup
<1>6. At(k, p)'
  BY <1>1, <1>5, EndRead, AtStays
<1>7. m_read_buf' \in Seq(Items) /\ incoming' \in Seq(Items)
  BY <1>1, <1>2, <1>3, ConcatProperties
<1>8. Types'
  BY <1>1, <1>7 DEF Types, IsReply
<1> QED  BY <1>1, <1>6, <1>8 DEF Good, Drained

\* What the server answers next says nothing of what has been read.
LEMMA AnsweredStep ==
    ASSUME Types, NEW k, NEW p, At(k, p), Drained,
           NEW reply, IsReply(reply),
           Len(replied) < Len(asked),
           incoming' = incoming \o reply, replied' = Append(replied, reply),
           UNCHANGED << config, m_read_buf, parser, asked, results, pc >>
    PROVE  Good'
<1>1. /\ reply \in Seq(Items) /\ replied \in Seq(Seq(Items))
      /\ m_read_buf \in Seq(Items) /\ incoming \in Seq(Items)
  BY ReplyType DEF Types
<1>2. /\ replied' \in Seq(Seq(Items)) /\ Len(replied') = Len(replied) + 1 /\ Len(replied) \in Nat
      /\ \A i \in 1..Len(replied) : replied'[i] = replied[i]
      /\ replied'[Len(replied) + 1] = reply
  BY <1>1, OneMore
<1>3. /\ config' = config /\ m_read_buf' = m_read_buf /\ results' = results /\ pc' = pc
      /\ m_response_state' = m_response_state /\ m_last_response' = m_last_response
      /\ m_response_len' = m_response_len /\ asked' = asked
  BY DEF parser
<1>4. k \in 0..Len(replied) /\ p \in Nat /\ (k = Len(replied) => p = 0)
  BY DEF At
<1>5. k \in 0..Len(replied') /\ k # Len(replied')
  BY <1>2, <1>4
<1>6. Behind(replied', m_read_buf' \o incoming', k, p)
  <2>1. m_read_buf \o incoming \in Seq(Items)
    BY <1>1, ConcatProperties
  <2>2. m_read_buf' \o incoming' = (m_read_buf \o incoming) \o reply
    <3>1. (m_read_buf \o incoming) \o reply = m_read_buf \o (incoming \o reply)
      BY <1>1, Regroup
    <3> QED  BY <1>3, <3>1, Zenon
  <2>3. Behind(Append(replied, reply), (m_read_buf \o incoming) \o reply, k, p)
    <3> DEFINE s == m_read_buf \o incoming
    <3>1. s \in Seq(Items) /\ Behind(replied, s, k, p)
      BY <2>1 DEF At
    <3> HIDE DEF s
    <3>2. Behind(Append(replied, reply), s \o reply, k, p)
      BY <1>1, <1>4, <3>1, OneMoreReply
    <3> QED  BY <3>2 DEF s
  <2> QED  BY <2>2, <2>3
<1>7. Answered(k)'
  <2>1. Len(results') = Rank(k)'
    BY <1>1, <1>3, <1>4, RankStays DEF At, Answered
  <2>2. ASSUME NEW i \in 1..k, ~Unparsable(replied'[i]) PROVE results'[Rank(i)'] = Returned(i)'
    <3>1. i \in 0..Len(replied) /\ i \in 1..Len(replied) /\ replied'[i] = replied[i]
      BY <1>2, <1>4
    <3>2. Rank(i)' = Rank(i) /\ Returned(i)' = Returned(i)
      BY <1>1, <1>3, <3>1, RankStays, ReturnedStays
    <3>3. results[Rank(i)] = Returned(i)
      BY <2>2, <3>1 DEF At, Answered
    <3> QED  BY <1>3, <3>2, <3>3
  <2> QED  BY <2>1, <2>2 DEF Answered, Unparsable
<1>8. ErrorsBefore(k + 1)' = ErrorsBefore(k + 1)
  <2>1. k + 1 \in 1..(Len(replied) + 1)
    BY <1>2, <1>4
  <2> QED  BY <1>1, <2>1, ErrorsStay
<1>9. At(k, p)'
  <2>1. CASE p = 0
    <3>1. ASSUME NEW e, e = ErrorsBefore(k + 1) PROVE Fresh(e)'
      <4>1. Fresh(e)
        BY <2>1, <3>1 DEF At
      <4> QED  BY <1>3, <4>1 DEF Fresh
    <3>2. Fresh(ErrorsBefore(k + 1))'
      BY <1>8, <3>1 DEF Fresh
    <3> QED  BY <1>4, <1>5, <1>6, <1>7, <2>1, <3>2 DEF At
  <2>2. CASE p # 0
    <3>1. (replied[k + 1])' = replied[k + 1]
      BY <1>2, <1>4, <2>2
    <3>2. ASSUME NEW r, r = replied[k + 1], NEW e, e = ErrorsBefore(k + 1)
          PROVE  Within(r, p, e)'
      <4>1. Within(r, p, e)
        BY <2>2, <3>2 DEF At
      <4> QED  BY <1>3, <4>1, WithinStays
    <3>3. Within(replied[k + 1], p, ErrorsBefore(k + 1))'
      BY <1>8, <3>1, <3>2
         DEF Within, BulkBegun, ArrayBegun, SectionsBegun, StoredRead, PacketBegun
    <3> QED  BY <1>4, <1>5, <1>6, <1>7, <2>2, <3>3 DEF At
  <2> QED  BY <2>1, <2>2
<1>10. ASSUME NEW i \in 1..Len(replied') PROVE IsReply(replied'[i])
  <2>1. CASE i = Len(replied) + 1
    BY <1>2, <2>1
  <2>2. CASE i \in 1..Len(replied)
    BY <1>2, <2>2 DEF Types
  <2> QED  BY <1>2, <2>1, <2>2
<1>11. Types'
  <2>1. \A r : IsReply(r)' = IsReply(r)
    BY <1>3 DEF IsReply
  <2>2. incoming' \in Seq(Items)
    BY <1>1, ConcatProperties
  <2>3. Len(asked) \in Nat
    BY LenProperties DEF Types
  <2>4. Len(replied') <= Len(asked')
    BY <1>2, <1>3, <2>3
  <2> QED  BY <1>2, <1>3, <1>10, <2>1, <2>2, <2>4 DEF Types
<1>12. Drained'
  BY <1>2, <1>3 DEF Drained, Unparsable
<1> QED  BY <1>9, <1>11, <1>12 DEF Good

\* The commands that are written are those the server knows, and its answers
\* replies of the protocol.
LEMMA OutsideStep ==
    ASSUME Types, NEW k, NEW p, At(k, p), Drained,
           \/ RedisWrite \/ TextWrite \/ BinaryWrite
           \/ RedisMultiGet \/ TextWait \/ BinaryUnsupported
           \/ RedisServer \/ TextServer \/ BinaryServer
    PROVE  Good'
<1>1. \A type \in Requests : Keys(type) \in Nat
  BY ProtocolAssumption DEF Types, Keys, Admitted
<1>2. ASSUME NEW type \in Requests, NEW cmd, Write(cmd, type),
             cmd \in {"SETRANGE", "SETEX", "SET", "GETRANGE", "GET", "WAIT", "AUTH", "SELECT",
                      "CLUSTER SLOTS", "set", "get"} \cup BinaryCommands,
             config.protocol = "memcache_binary" => cmd \in BinaryCommands
      PROVE  Good'
  <2> DEFINE command == [cmd |-> cmd, keys |-> Keys(type)]
  <2>1. command \in Asked
    BY <1>1, <1>2 DEF Asked, BinaryCommands
  <2> HIDE DEF command
  <2> QED  BY <1>2, <2>1, WriteStep DEF command
<1>3. ASSUME NEW type, Unsupported(type) PROVE Good'
  BY <1>3, StoppedStep DEF Unsupported, AssertFails
<1>4. CASE RedisWrite
  BY <1>2, <1>4, RedisAsks DEF RedisWrite
<1>5. CASE TextWrite
  BY <1>2, <1>5 DEF TextWrite, TextCommand, Requests
<1>6. CASE BinaryWrite
  BY <1>2, <1>6, BinaryAsks DEF BinaryWrite, Requests
<1>7. CASE RedisMultiGet \/ TextWait \/ BinaryUnsupported
  BY <1>3, <1>7 DEF RedisMultiGet, TextWait, BinaryUnsupported
<1>8. CASE RedisServer \/ TextServer \/ BinaryServer
  <2> DEFINE c == asked[Len(replied) + 1]
  <2>1. /\ Len(replied) < Len(asked)
        /\ UNCHANGED << config, m_read_buf, parser, asked, results, pc >>
    BY <1>8 DEF RedisServer, TextServer, BinaryServer, Answer
  <2>2. c \in Asked /\ (config.protocol = "memcache_binary" => c.cmd \in BinaryCommands)
    <3>1. Len(replied) \in Nat /\ Len(asked) \in Nat
      BY LenProperties DEF Types
    <3>2. Len(replied) + 1 \in 1..Len(asked)
      BY <2>1, <3>1
    <3> QED  BY <3>2, ElementOfSeq DEF Types
  <2> HIDE DEF c
  <2>3. PICK reply : /\ incoming' = incoming \o reply /\ replied' = Append(replied, reply)
                     /\ \/ config.protocol = "redis" /\ reply \in RedisReplies(c)
                        \/ config.protocol = "memcache_text" /\ reply \in TextReplies(c)
                        \/ config.protocol = "memcache_binary" /\ reply \in BinaryReplies(c)
    BY <1>8 DEF RedisServer, TextServer, BinaryServer, Answer, c
  <2>4. IsReply(reply)
    BY <2>2, <2>3, RedisAnswers, TextAnswers, BinaryAnswers DEF IsReply, Types
  <2> QED  BY <2>1, <2>3, <2>4, AnsweredStep
<1> QED  BY <1>4, <1>5, <1>6, <1>7, <1>8

-----------------------------------------------------------------------------
(* The invariant holds                                                     *)

LEMMA InvInit == Init => Inv
<1> SUFFICES ASSUME Init PROVE Inv
  OBVIOUS
<1>1. Types
  BY EmptySeq DEF Init, Types
<1>2. Len(replied) = 0 /\ Rank(0) = 0 /\ Len(results) = 0
  BY <1>1, RankZero DEF Init, Types
<1>3. Behind(replied, m_read_buf \o incoming, 0, 0)
  <2> DEFINE cat == [j \in 0..0 |-> << >>]
  <2>1. m_read_buf \o incoming = << >>
    BY DEF Init
  <2>2. cat \in [0..Len(replied) -> Seq(Items)] /\ cat[Len(replied)] = << >>
    BY <1>2, EmptySeq
  <2>3. 0..(Len(replied) - 1) = {}
    BY <1>2
  <2> HIDE DEF cat
  <2> QED  BY <1>2, <2>1, <2>2, <2>3 DEF Behind
<1>4. Fresh(ErrorsBefore(0 + 1))
  <2>1. ErrorsBefore(0 + 1) = 0
    BY ErrorsFirst
  <2> QED  BY <2>1 DEF Fresh, Init
<1>5. At(0, 0)
  BY <1>2, <1>3, <1>4 DEF At, Answered
<1>6. Drained
  BY DEF Drained, Init
<1> QED  BY <1>1, <1>5, <1>6 DEF Inv, Good, Init

\* The parser is never righted once it has been derailed.
LEMMA StaysDerailed ==
    ASSUME [Next]_vars
    PROVE  config' = config /\ (derailed => derailed')
<1>1. ASSUME NEW cmd, NEW type, Write(cmd, type)
      PROVE  config' = config /\ (derailed => derailed')
  BY <1>1 DEF Write
<1>2. ASSUME NEW type, Unsupported(type)
      PROVE  config' = config /\ (derailed => derailed')
  BY <1>2 DEF Unsupported, AssertFails, history
<1>3. CASE RedisServer \/ TextServer \/ BinaryServer
  BY <1>3 DEF RedisServer, TextServer, BinaryServer, Answer
<1>4. CASE Redis
  <2>1. CASE RedisWrite          BY <1>1, <2>1, Zenon DEF RedisWrite
  <2>2. CASE RedisMultiGet       BY <1>2, <2>2 DEF RedisMultiGet
  <2>3. CASE RedisStatus         BY <2>3, Zenon DEF RedisStatus, Return1
  <2>4. CASE RedisNull           BY <2>4, Zenon DEF RedisNull, Return1
  <2>5. CASE RedisBulkHeader     BY <2>5, Zenon DEF RedisBulkHeader, Continue
  <2>6. CASE RedisArrayHeader    BY <2>6, Zenon DEF RedisArrayHeader
  <2>7. CASE RedisBulk           BY <2>7, Zenon DEF RedisBulk, Return1
  <2>8. CASE RedisNestedArray    BY <2>8, Zenon DEF RedisNestedArray
  <2>9. AddValue => config' = config /\ derailed' = derailed
    BY Zenon DEF AddValue, Return1, Continue
  <2>10. CASE RedisInteger       BY <2>9, <2>10 DEF RedisInteger
  <2>11. CASE RedisBulkElement   BY <2>9, <2>11 DEF RedisBulkElement
  <2>12. CASE RedisBulkCut       BY <2>12, Zenon DEF RedisBulkCut
  <2>13. CASE RedisSkip          BY <2>13, Zenon DEF RedisSkip, Continue
  <2> QED  BY <1>3, <1>4, <2>1, <2>2, <2>3, <2>4, <2>5, <2>6, <2>7, <2>8, <2>10, <2>11, <2>12,
              <2>13 DEF Redis
<1>5. CASE MemcacheText
  <2>1. CASE TextWrite \/ TextWait
    BY <1>1, <1>2, <2>1 DEF TextWrite, TextWait
  <2>2. CASE \/ TextInitial \/ TextValueHeader \/ TextEndLine \/ TextUnknownLine
             \/ TextValue \/ TextEnd
    BY <2>2 DEF TextInitial, TextValueHeader, TextEndLine, TextUnknownLine, TextValue, TextEnd,
                Return1, Continue, AssertFails, history
  <2> QED  BY <1>3, <1>5, <2>1, <2>2 DEF MemcacheText
<1>6. CASE MemcacheBinary
  <2>1. CASE BinaryWrite \/ BinaryUnsupported
    BY <1>1, <1>2, <2>1 DEF BinaryWrite, BinaryUnsupported
  <2>2. CASE BinaryHeader \/ BinaryBody
    BY <2>2 DEF BinaryHeader, BinaryBody, Return1, Continue
  <2> QED  BY <1>3, <1>6, <2>1, <2>2 DEF MemcacheBinary
<1>7. CASE ReturnZero \/ ArriveSome \/ UNCHANGED vars
  BY <1>7 DEF ReturnZero, ArriveSome, Arrive, vars, history
<1> QED  BY <1>4, <1>5, <1>6, <1>7 DEF Next

LEMMA GoodStep ==
    ASSUME Good, [Next]_vars, ~derailed'
    PROVE  Good'
<1>1. Types /\ Drained
  BY DEF Good
<1>2. PICK k, p : At(k, p)
  BY DEF Good
<1>3. CASE Redis
  <2>1. CASE RedisWrite \/ RedisMultiGet \/ RedisServer
    BY <1>1, <1>2, <2>1, OutsideStep
  <2>2. CASE RedisStatus         BY <1>1, <1>2, <2>2, RedisStatusStep
  <2>3. CASE RedisNull           BY <1>1, <1>2, <2>3, RedisNullStep
  <2>4. CASE RedisBulkHeader     BY <1>1, <1>2, <2>4, RedisBulkHeaderStep
  <2>5. CASE RedisArrayHeader    BY <1>1, <1>2, <2>5, RedisArrayHeaderStep
  <2>6. CASE RedisBulk           BY <1>1, <1>2, <2>6, RedisBulkStep
  <2>7. CASE RedisNestedArray    BY <1>1, <1>2, <2>7, RedisNestedArrayStep
  <2>8. CASE RedisInteger        BY <1>1, <1>2, <2>8, RedisIntegerStep
  <2>9. CASE RedisBulkElement    BY <1>1, <1>2, <2>9, RedisBulkElementStep
  <2>10. CASE RedisBulkCut       BY <2>10 DEF RedisBulkCut
  <2>11. CASE RedisSkip          BY <1>1, <1>2, <2>11, NothingSkipped
  <2> QED  BY <1>3, <2>1, <2>2, <2>3, <2>4, <2>5, <2>6, <2>7, <2>8, <2>9, <2>10, <2>11 DEF Redis
<1>4. CASE MemcacheText
  <2>1. CASE TextWrite \/ TextWait \/ TextServer
    BY <1>1, <1>2, <2>1, OutsideStep
  <2>2. CASE TextInitial         BY <1>1, <1>2, <2>2, TextInitialStep
  <2>3. CASE TextValueHeader     BY <1>1, <1>2, <2>3, TextValueHeaderStep
  <2>4. CASE TextEndLine         BY <1>1, <1>2, <2>4, TextEndLineStep
  <2>5. CASE TextUnknownLine     BY <1>1, <1>2, <2>5, TextUnknownLineStep
  <2>6. CASE TextValue           BY <1>1, <1>2, <2>6, TextValueStep
  <2>7. CASE TextEnd             BY <1>1, <1>2, <2>7, TextEndStep
  <2> QED  BY <1>4, <2>1, <2>2, <2>3, <2>4, <2>5, <2>6, <2>7 DEF MemcacheText
<1>5. CASE MemcacheBinary
  <2>1. CASE BinaryWrite \/ BinaryUnsupported \/ BinaryServer
    BY <1>1, <1>2, <2>1, OutsideStep
  <2>2. CASE BinaryHeader        BY <1>1, <1>2, <2>2, BinaryHeaderStep
  <2>3. CASE BinaryBody          BY <1>1, <1>2, <2>3, BinaryBodyStep
  <2> QED  BY <1>5, <2>1, <2>2, <2>3 DEF MemcacheBinary
<1>6. CASE ReturnZero
  BY <1>1, <1>2, <1>6, StoppedStep DEF ReturnZero
<1>7. CASE ArriveSome
  BY <1>1, <1>2, <1>7, ArriveStep DEF ArriveSome
<1>8. CASE UNCHANGED vars
  BY <1>1, <1>2, <1>8, StoppedStep DEF vars
<1> QED  BY <1>3, <1>4, <1>5, <1>6, <1>7, <1>8 DEF Next

LEMMA InvStep == Inv /\ [Next]_vars => Inv'
<1> SUFFICES ASSUME Inv, [Next]_vars PROVE Inv'
  OBVIOUS
<1>1. config' = config /\ (derailed => derailed')
  BY StaysDerailed
<1>2. CASE derailed'
  BY <1>1, <1>2 DEF Inv
<1>3. CASE ~derailed'
  BY <1>1, <1>3, GoodStep DEF Inv
<1> QED  BY <1>2, <1>3

\* All that has been returned is known of the replies the parser has read.
LEMMA InOrder == Inv => ResponsesInOrder
<1> SUFFICES ASSUME Inv, ~derailed
             PROVE  /\ Len(results) <= Rank(Len(replied))
                    /\ \A k \in DOMAIN replied :
                          ~Unparsable(replied[k]) /\ Rank(k) <= Len(results)
                              => results[Rank(k)] = Returned(k)
  BY DEF ResponsesInOrder
<1>1. PICK k, p : At(k, p)
  BY DEF Inv, Good
<1>2. /\ replied \in Seq(Seq(Items)) /\ Len(replied) \in Nat /\ DOMAIN replied = 1..Len(replied)
      /\ k \in 0..Len(replied) /\ Answered(k)
  BY <1>1, LenProperties DEF Inv, Good, Types, At
<1>3. Len(results) <= Rank(Len(replied))
  BY <1>2, RankGrows DEF Answered
<1>4. ASSUME NEW i \in 1..Len(replied), ~Unparsable(replied[i]), Rank(i) <= Len(results)
      PROVE  results[Rank(i)] = Returned(i)
  <2>1. CASE i <= k
    BY <1>2, <1>4, <2>1 DEF Answered
  <2>2. CASE i > k
    <3>1. i - 1 \in 0..(Len(replied) - 1) /\ (i - 1) + 1 = i /\ k <= i - 1
      BY <1>2, <2>2
    <3>2. Rank(i) = Rank(i - 1) + 1 /\ Rank(i - 1) \in Nat
      BY <1>2, <1>4, <3>1, RankNext
    <3>3. Rank(k) <= Rank(i - 1) /\ Rank(k) \in Nat
      BY <1>2, <3>1, RankGrows
    <3>4. Len(results) = Rank(k)
      BY <1>2 DEF Answered
    <3> QED  BY <1>4, <3>2, <3>3, <3>4
  <2> QED  BY <1>2, <2>1, <2>2
<1> QED  BY <1>2, <1>3, <1>4

\* A reply the parser is in has not been read to its end, but for the end of the text protocol.
LEMMA Unfinished ==
    ASSUME NEW reply, NEW p, NEW e, Within(reply, p, e), m_response_state # "rs_read_end"
    PROVE  p < Len(reply)
<1>1. CASE BulkBegun(reply, p)
  BY <1>1, BulkShape DEF BulkBegun
<1>2. CASE ArrayBegun(reply, p)
  <2>1. PICK n \in 1..Slots, i \in Nat, q \in {0, 1, 2, 3, 4, 6} :
            i < n /\ reply = Ranges(n) /\ p = 7 * i + q + 1
    BY <1>2 DEF ArrayBegun
  <2>2. n \in Nat /\ Len(reply) = 7 * n + 1
    BY <2>1, RangesShape DEF Slots
  <2>3. 7 * i + 7 <= 7 * n
    BY <2>1, <2>2
  <2> QED  BY <2>1, <2>2, <2>3
<1>3. CASE SectionsBegun(reply, p, e)
  <2>1. PICK n \in Nat : reply = Sections(n) /\ p \in 1..(2 * n + 1) /\ p # 2 * n + 1
    BY <1>3 DEF SectionsBegun
  <2>2. Len(reply) = 2 * n + 1
    BY <2>1, SectionsShape
  <2> QED  BY <2>1, <2>2
<1>4. CASE PacketBegun(reply, p)
  BY <1>4, PacketShape DEF PacketBegun
<1>5. ~StoredRead(reply, p, e)
  BY DEF StoredRead
<1> QED  BY <1>1, <1>2, <1>3, <1>4, <1>5 DEF Within

LEMMA Between == Inv => NothingOwed
<1> SUFFICES ASSUME Inv, pc = "idle", ~derailed
             PROVE  /\ m_read_buf = << >> \/ \E k \in DOMAIN replied : Unparsable(replied[k])
                    /\ incoming = << >> /\ m_read_buf = << >> => Len(results) = Rank(Len(replied))
  BY DEF NothingOwed
<1>1. PICK k, p : At(k, p)
  BY DEF Inv, Good
<1>2. /\ Types /\ Drained /\ replied \in Seq(Seq(Items)) /\ Len(replied) \in Nat
      /\ DOMAIN replied = 1..Len(replied)
  BY LenProperties DEF Inv, Good, Types
<1>3. m_read_buf = << >> \/ \E i \in DOMAIN replied : Unparsable(replied[i])
  BY <1>2 DEF Drained
<1>4. ASSUME incoming = << >>, m_read_buf = << >> PROVE k = Len(replied)
  <2> SUFFICES ASSUME k # Len(replied) PROVE FALSE
    OBVIOUS
  <2>1. k \in 0..(Len(replied) - 1) /\ p \in Nat
    <3>1. k \in 0..Len(replied) /\ p \in Nat /\ Len(replied) \in Nat
      BY <1>1, <1>2 DEF At
    <3> QED  BY <3>1
  <2>2. m_read_buf \o incoming = << >>
    BY <1>4
  <2>3. Behind(replied, << >>, k, p)
    BY <1>1, <2>2 DEF At
  <2>4. p >= Len(replied[k + 1])
    BY <1>2, <2>1, <2>3, NothingBehind
  <2>5. Len(replied[k + 1]) \in Nat \ {0}
    BY <1>2, <2>1, ThisReply
  <2>6. p # 0 /\ Within(replied[k + 1], p, ErrorsBefore(k + 1))
    BY <1>1, <2>1, <2>4, <2>5 DEF At
  <2>7. m_response_state # "rs_read_end"
    BY <1>1, EndRead
  <2>8. p < Len(replied[k + 1])
    BY <2>6, <2>7, Unfinished
  <2> QED  BY <2>1, <2>4, <2>5, <2>8
<1> QED  BY <1>1, <1>3, <1>4 DEF At, Answered


LEMMA RankBelow ==
    ASSUME replied \in Seq(Seq(Items))
    PROVE  Rank(Len(replied)) \in Nat /\ Rank(Len(replied)) <= Len(replied)
<1>1. Len(replied) \in Nat /\ DOMAIN replied = 1..Len(replied)
  BY LenProperties
<1>2. ASSUME NEW n \in Nat PROVE IsFiniteSet(1..n) /\ Cardinality(1..n) = n
  BY FS_Interval
<1>3. Parsed(replied, Len(replied)) \subseteq 1..Len(replied)
  BY <1>1 DEF Parsed
<1>4. Cardinality(Parsed(replied, Len(replied))) <= Len(replied)
  BY <1>1, <1>2, <1>3, FS_Subset
<1>5. Cardinality(Parsed(replied, Len(replied))) \in Nat
  BY ParsedFinite
<1> QED  BY <1>4, <1>5, RankIs

-----------------------------------------------------------------------------
(* What the parsers guarantee                                              *)

\* While it has not been derailed, the parser knows where in the stream it is and
\* what it has read there, whatever is still to come.
THEOREM InvCorrect == Spec => []Inv
<1>1. Init => Inv
  BY InvInit
<1>2. Inv /\ [Next]_vars => Inv'
  BY InvStep
<1> QED  BY <1>1, <1>2, PTL DEF Spec

\* ResponsesInOrder: however the replies are cut, parse_response returns what they
\* say, in their order and with nothing left over from the reply before, for every
\* number and length of the requests, keys, values and ranges.
THEOREM ResponsesInOrderCorrect == Spec => []ResponsesInOrder
<1>1. Inv => ResponsesInOrder
  BY InOrder
<1> QED  BY <1>1, InvCorrect, PTL

\* NothingOwed: when parse_response has nothing more to read, what is left in the
\* buffer is behind an error of the text protocol, and when all has arrived and is
\* parsed every reply has its response.
THEOREM NothingOwedCorrect == Spec => []NothingOwed
<1>1. Inv => NothingOwed
  BY Between
<1> QED  BY <1>1, InvCorrect, PTL

\* process_response takes a request off the pipeline for every response it is given:
\* there is none that was not asked for, so the pipeline is never taken from empty.
THEOREM NoneUnasked == Spec => [](~derailed => Len(results) <= Len(asked))
<1>1. Inv => (~derailed => Len(results) <= Len(asked))
  <2> SUFFICES ASSUME Inv, ~derailed PROVE Len(results) <= Len(asked)
    OBVIOUS
  <2>1. /\ ResponsesInOrder /\ replied \in Seq(Seq(Items)) /\ Len(replied) <= Len(asked)
        /\ Len(replied) \in Nat /\ Len(asked) \in Nat /\ Len(results) \in Nat
    BY InOrder, LenProperties DEF Inv, Good, Types
  <2>2. Len(results) <= Rank(Len(replied))
    BY <2>1 DEF ResponsesInOrder
  <2>3. Rank(Len(replied)) \in Nat /\ Rank(Len(replied)) <= Len(replied)
    BY <2>1, RankBelow
  <2> QED  BY <2>1, <2>2, <2>3
<1> QED  BY <1>1, InvCorrect, PTL

=============================================================================
