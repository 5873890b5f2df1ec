------------------------ MODULE Verification_proofs -------------------------
(***************************************************************************)
(* The keys of the clients stay in their range, an 'allkeys' run leaves    *)
(* none out, and the verify_client draws again what the clients have drawn. *)
(***************************************************************************)
EXTENDS Verification, SumTheorems, SequenceTheorems

-----------------------------------------------------------------------------
(* Clients                                                                 *)

Pcs == {"idle", "start", "fill", "parse", "ended"}

\* A client whose pipeline is q.
ClientOf(q) ==
    [min : Nat, max : Nat, next : Nat, seed : Nat, drawn : Nat, line : Nat,
     set_count : Nat, get_count : Nat, sets : Nat, waits : Nat,
     unset : Nat, generated : Nat, processed : Nat, queue : {q}, pc : Pcs]

IsClient(c) == c \in ClientOf(c.queue) /\ c.queue \in Seq(Range(c.queue))

LEMMA MaxOfTwo ==
    ASSUME NEW a \in Nat, NEW b \in Nat
    PROVE  Max({a, b}) = IF a >= b THEN a ELSE b
BY DEF Max

LEMMA MinOfTwo ==
    ASSUME NEW a \in Nat, NEW b \in Nat
    PROVE  Min({a, b}) = IF a <= b THEN a ELSE b
BY DEF Min

LEMMA SeqOfOwn ==
    ASSUME NEW S, NEW s \in Seq(S)
    PROVE  s \in Seq(Range(s))
<1>1. s \in [1..Len(s) -> S] /\ Len(s) \in Nat
  BY LenProperties
<1>2. s \in [1..Len(s) -> Range(s)]
  BY <1>1 DEF Range
<1> QED  BY <1>1, <1>2, SeqDef

LEMMA AppendAny ==
    ASSUME NEW q, q \in Seq(Range(q)), NEW x
    PROVE  /\ Append(q, x) \in Seq(Range(Append(q, x)))
           /\ Len(Append(q, x)) = Len(q) + 1 /\ Append(q, x)[Len(q) + 1] = x
           /\ \A j \in 1..Len(q) : Append(q, x)[j] = q[j]
           /\ Append(q, x) # << >>
<1> DEFINE S == Range(q) \cup {x}
<1>1. q \in Seq(S)
  <2>1. \A j \in 1..Len(q) : q[j] \in S
    BY ElementOfSeq
  <2> QED  BY <2>1, SeqDef, LenProperties
<1>2. /\ Append(q, x) \in Seq(S) /\ Len(Append(q, x)) = Len(q) + 1
      /\ Append(q, x)[Len(q) + 1] = x /\ \A j \in 1..Len(q) : Append(q, x)[j] = q[j]
      /\ Append(q, x) # << >>
  BY <1>1, AppendProperties
<1>3. Append(q, x) \in Seq(Range(Append(q, x)))
  BY <1>2, SeqOfOwn
<1> QED  BY <1>2, <1>3

LEMMA TailAny ==
    ASSUME NEW q, q \in Seq(Range(q)), q # << >>
    PROVE  /\ Tail(q) \in Seq(Range(Tail(q))) /\ Len(Tail(q)) = Len(q) - 1
           /\ \A j \in 1..Len(Tail(q)) : Tail(q)[j] = q[j + 1]
           /\ Head(q) = q[1] /\ Len(q) \in Nat \ {0}
<1>1. /\ Tail(q) \in Seq(Range(q)) /\ Len(Tail(q)) = Len(q) - 1
      /\ \A j \in 1..Len(Tail(q)) : Tail(q)[j] = q[j + 1]
  BY HeadTailProperties
<1>2. Tail(q) \in Seq(Range(Tail(q)))
  BY <1>1, SeqOfOwn
<1>3. Head(q) = q[1] /\ Len(q) \in Nat \ {0}
  BY LenProperties, EmptySeq
<1> QED  BY <1>1, <1>2, <1>3

\* What the assumption says of the configuration.
Sane(c) ==
    /\ {c.clients, c.runs, c.pipeline} \subseteq Nat \ {0}
    /\ {c.requests, c.wait, c.multi, c.interval, c.garbage} \subseteq Nat
    /\ c.unset \in (SUBSET Nat) \ {{}}
    /\ c.minimum \in Nat /\ c.maximum \in Nat /\ c.minimum <= c.maximum
    /\ {c.set, c.get} \subseteq {"R", "S", "P"}
    /\ {c.generate, c.distinct, c.allkeys} \subseteq BOOLEAN
    /\ c.draws \in Seq(Nat) \ {<< >>}
    /\ c.file \in Seq([key : Nat, value : STRING])
    /\ c.ratio \in (Nat \X Nat) \ {<< 0, 0 >>}

LEMMA ConfigSane == config \in Configs => Sane(config)
BY VerificationAssumption DEF Sane

LEMMA RatioNats ==
    ASSUME Sane(config)
    PROVE  /\ config.ratio[1] \in Nat /\ config.ratio[2] \in Nat
           /\ config.ratio[1] # 0 \/ config.ratio[2] # 0
<1>1. config.ratio \in Nat \X Nat /\ config.ratio # << 0, 0 >>
  BY DEF Sane
<1> QED  BY <1>1

\* What drawing a key or an object leaves alone.
Kept(c, d) ==
    /\ d.min = c.min /\ d.max = c.max /\ d.seed = c.seed
    /\ d.processed = c.processed /\ d.pc = c.pc /\ d.unset = c.unset

GeneratorOnly(c, d) ==
    /\ Kept(c, d)
    /\ d.set_count = c.set_count /\ d.get_count = c.get_count
    /\ d.sets = c.sets /\ d.waits = c.waits /\ d.generated = c.generated

\* A key that is drawn moves the iterator or the random numbers.
LEMMA KeyDrawn ==
    ASSUME NEW c, NEW q, c \in ClientOf(q), NEW pattern
    PROVE  LET d == AfterKey(c, pattern)
           IN  /\ d \in ClientOf(q) /\ GeneratorOnly(c, d) /\ d.line = c.line
               /\ pattern = "R" => d.next = c.next /\ d.drawn = c.drawn + 1
               /\ pattern # "R" =>
                     /\ KeyIndex(c, pattern) = (IF c.next >= c.min THEN c.next ELSE c.min)
                     /\ d.next = (IF KeyIndex(c, pattern) + 1 > c.max THEN c.min
                                  ELSE KeyIndex(c, pattern) + 1)
                     /\ d.drawn = c.drawn
<1>1. CASE pattern = "R"
  BY <1>1 DEF AfterKey, ClientOf, GeneratorOnly, Kept
<1>2. CASE pattern # "R"
  <2>1. KeyIndex(c, pattern) = (IF c.next >= c.min THEN c.next ELSE c.min)
    BY <1>2, MaxOfTwo DEF KeyIndex, ClientOf
  <2>2. KeyIndex(c, pattern) \in Nat
    BY <2>1 DEF ClientOf
  <2> QED  BY <1>2, <2>1, <2>2 DEF AfterKey, ClientOf, GeneratorOnly, Kept
<1> QED  BY <1>1, <1>2

LEMMA ItemRead ==
    ASSUME NEW c, NEW q, c \in ClientOf(q)
    PROVE  LET d == [c EXCEPT !.line = Line(c) + 1]
           IN  /\ d \in ClientOf(q) /\ GeneratorOnly(c, d)
               /\ d.next = c.next /\ d.drawn = c.drawn /\ d.line = Line(c) + 1
<1>1. Line(c) \in Nat
  BY DEF Line, ClientOf
<1> QED  BY <1>1 DEF ClientOf, GeneratorOnly, Kept

LEMMA ObjectDrawn ==
    ASSUME NEW c, NEW q, c \in ClientOf(q)
    PROVE  LET d == AfterObject(c)
           IN  /\ d \in ClientOf(q) /\ GeneratorOnly(c, d)
               /\ d.line = IF Import THEN Line(c) + 1 ELSE c.line
               /\ HasKeylist => d.next = c.next /\ d.drawn = c.drawn
               /\ ~HasKeylist => d.next = AfterKey(c, config.set).next
                                /\ d.drawn = AfterKey(c, config.set).drawn
<1> DEFINE read == IF Import THEN [c EXCEPT !.line = Line(c) + 1] ELSE c
<1>1. /\ read \in ClientOf(q) /\ GeneratorOnly(c, read)
      /\ read.next = c.next /\ read.drawn = c.drawn
      /\ read.line = IF Import THEN Line(c) + 1 ELSE c.line
  BY ItemRead DEF GeneratorOnly, Kept
<1>2. AfterObject(c) = IF HasKeylist THEN read ELSE AfterKey(read, config.set)
  BY DEF AfterObject
<1> HIDE DEF read
<1>3. CASE HasKeylist
  BY <1>1, <1>2, <1>3
<1>4. CASE ~HasKeylist
  <2>1. KeyIndex(read, config.set) = KeyIndex(c, config.set)
    <3>1. read.min = c.min /\ read.max = c.max /\ read.seed = c.seed
      BY <1>1 DEF GeneratorOnly, Kept
    <3> QED  BY <1>1, <3>1 DEF KeyIndex, Random
  <2> QED  BY <1>1, <1>2, <1>4, <2>1, KeyDrawn DEF GeneratorOnly, Kept
<1> QED  BY <1>3, <1>4

-----------------------------------------------------------------------------
(* The keys of one GET                                                     *)

LEMMA KeysCount ==
    ASSUME Sane(config), NEW c, NEW q, c \in ClientOf(q), c.get_count < config.ratio[2]
    PROVE  /\ keys_count(c) \in Nat \ {0}
           /\ c.get_count + keys_count(c) \in Nat
           /\ c.get_count + keys_count(c) <= config.ratio[2]
<1>1. config.multi \in Nat /\ config.ratio[2] \in Nat /\ c.get_count \in Nat
  BY RatioNats DEF Sane, ClientOf
<1>2. config.ratio[2] - c.get_count \in Nat
  BY <1>1
<1>3. keys_count(c) = IF config.multi = 0 THEN 1
                      ELSE IF config.multi <= config.ratio[2] - c.get_count
                           THEN config.multi ELSE config.ratio[2] - c.get_count
  BY <1>1, <1>2, MinOfTwo DEF keys_count
<1> QED  BY <1>1, <1>3

LEMMA DrawingExists ==
    ASSUME NEW c, NEW n \in Nat
    PROVE  \E f : f = [j \in 0..n |-> IF j = 0 THEN c ELSE AfterKey(f[j - 1], config.get)]
<1> DEFINE Draws(f, m) ==
              f = [j \in 0..m |-> IF j = 0 THEN c ELSE AfterKey(f[j - 1], config.get)]
           R == { m \in Nat : \E f : Draws(f, m) }
<1>1. 0 \in R
  <2> DEFINE f == [j \in 0..0 |-> c]
  <2>1. Draws(f, 0)
    OBVIOUS
  <2> QED  BY <2>1
<1>2. ASSUME NEW m \in R PROVE m + 1 \in R
  <2>1. PICK f : Draws(f, m)
    OBVIOUS
  <2> DEFINE g == [j \in 0..(m + 1) |-> IF j <= m THEN f[j] ELSE AfterKey(f[m], config.get)]
  <2>2. Draws(g, m + 1)
    <3>1. ASSUME NEW j \in 0..(m + 1)
          PROVE  g[j] = IF j = 0 THEN c ELSE AfterKey(g[j - 1], config.get)
      <4>1. CASE j = 0
        BY <2>1, <4>1
      <4>2. CASE j # 0 /\ j <= m
        <5>1. g[j] = f[j] /\ g[j - 1] = f[j - 1] /\ j \in 0..m
          BY <4>2
        <5>2. f[j] = AfterKey(f[j - 1], config.get)
          BY <2>1, <4>2, <5>1
        <5> QED  BY <4>2, <5>1, <5>2
      <4>3. CASE j = m + 1
        <5>1. g[j] = AfterKey(f[m], config.get) /\ g[j - 1] = f[m]
          BY <4>3
        <5> QED  BY <4>3, <5>1
      <4> QED  BY <4>1, <4>2, <4>3
    <3> QED  BY <3>1
  <2> HIDE DEF g
  <2>3. \E h : Draws(h, m + 1)
    <3> HIDE DEF Draws
    <3> QED  BY <2>2
  <2>4. m + 1 \in Nat
    OBVIOUS
  <2> QED  BY <2>3, <2>4
<1> HIDE DEF R
<1>3. n \in R
  BY <1>1, <1>2, NatInduct DEF R
<1> QED  BY <1>3 DEF R

\* One key after the other.
LEMMA DrawingIs ==
    ASSUME NEW c, keys_count(c) \in Nat
    PROVE  /\ Drawing(c)[0] = c
           /\ \A j \in 0..(keys_count(c) - 1) :
                 Drawing(c)[j + 1] = AfterKey(Drawing(c)[j], config.get)
<1> DEFINE n == keys_count(c)
           Draws(f) == f = [j \in 0..n |-> IF j = 0 THEN c ELSE AfterKey(f[j - 1], config.get)]
           after == CHOOSE f : Draws(f)
<1>1. n \in Nat
  OBVIOUS
<1>2. Drawing(c) = after
  BY DEF Drawing
<1>3. Draws(after)
  <2>1. \E f : Draws(f)
    <3> HIDE DEF n
    <3> QED  BY ONLY <1>1, DrawingExists
  <2> HIDE DEF Draws
  <2> QED  BY <2>1
<1> HIDE DEF n, after
<1>4. 0 \in 0..n /\ after[0] = c
  BY <1>1, <1>3
<1>5. ASSUME NEW j \in 0..(n - 1)
      PROVE  after[j + 1] = AfterKey(after[j], config.get)
  <2>1. j + 1 \in 0..n /\ j + 1 # 0 /\ (j + 1) - 1 = j
    BY <1>1
  <2> QED  BY <1>3, <2>1
<1> QED  BY <1>2, <1>4, <1>5 DEF n

\* What holds of the client before a GET, and after a key if before it, holds of the
\* client while and after its keys are drawn.
LEMMA DrawingKeeps ==
    ASSUME NEW c, keys_count(c) \in Nat, NEW R, c \in R,
           \A d \in R : AfterKey(d, config.get) \in R
    PROVE  \A j \in 0..keys_count(c) : Drawing(c)[j] \in R
<1> DEFINE n == keys_count(c)
           D == Drawing(c)
           K == { j \in Nat : j <= n => D[j] \in R }
<1>1. n \in Nat /\ D[0] = c /\ \A j \in 0..(n - 1) : D[j + 1] = AfterKey(D[j], config.get)
  BY DrawingIs
<1> HIDE DEF n, D
<1>2. 0 \in K
  BY <1>1
<1>3. ASSUME NEW j \in K PROVE j + 1 \in K
  <2>1. ASSUME j + 1 <= n
        PROVE  D[j + 1] \in R
    <3>1. j \in 0..(n - 1) /\ D[j] \in R
      BY <1>1, <2>1
    <3> QED  BY <1>1, <3>1
  <2> QED  BY <2>1
<1>4. K = Nat
  <2> HIDE DEF K
  <2>1. K \in SUBSET Nat
    BY DEF K
  <2> QED  BY <1>2, <1>3, <2>1, NatInduct
<1> QED  BY <1>1, <1>4 DEF n, D

LEMMA KeysDrawn ==
    ASSUME NEW c, NEW q, c \in ClientOf(q), keys_count(c) \in Nat
    PROVE  /\ \A j \in 0..keys_count(c) :
                 /\ Drawing(c)[j] \in ClientOf(q) /\ GeneratorOnly(c, Drawing(c)[j])
                 /\ Drawing(c)[j].line = c.line
           /\ AfterKeys(c) \in ClientOf(q) /\ GeneratorOnly(c, AfterKeys(c))
           /\ AfterKeys(c).line = c.line
<1> DEFINE R == { d \in ClientOf(q) : GeneratorOnly(c, d) /\ d.line = c.line }
<1>1. c \in R
  BY DEF GeneratorOnly, Kept
<1>2. ASSUME NEW d \in R
      PROVE  AfterKey(d, config.get) \in R
  <2> DEFINE e == AfterKey(d, config.get)
  <2>1. d \in ClientOf(q) /\ GeneratorOnly(c, d) /\ d.line = c.line
    OBVIOUS
  <2>2. e \in ClientOf(q) /\ GeneratorOnly(d, e) /\ e.line = d.line
    BY <2>1, KeyDrawn
  <2> HIDE DEF e
  <2>3. GeneratorOnly(c, e) /\ e.line = c.line
    BY <2>1, <2>2 DEF GeneratorOnly, Kept
  <2> QED  BY <2>2, <2>3 DEF e
<1>3. \A j \in 0..keys_count(c) : Drawing(c)[j] \in R
  <2> HIDE DEF R
  <2> QED  BY <1>1, <1>2, DrawingKeeps
<1>4. keys_count(c) \in 0..keys_count(c)
  OBVIOUS
<1> QED  BY <1>3, <1>4 DEF AfterKeys

-----------------------------------------------------------------------------
(* Requests                                                                *)

Req(type, key, value) == [type |-> type, key |-> key, value |-> value]

\* Everything but the pipeline is as it was.
PushKeeps(c, q, type, key, value) ==
    LET d == Push(c, type, key, value)
    IN  /\ d \in ClientOf(Append(q, Req(type, key, value))) /\ GeneratorOnly(c, d)
        /\ d.next = c.next /\ d.drawn = c.drawn /\ d.line = c.line

LEMMA Pushed ==
    ASSUME NEW c, NEW q, c \in ClientOf(q), NEW type, NEW key, NEW value
    PROVE  PushKeeps(c, q, type, key, value)
BY DEF PushKeeps, Push, Req, ClientOf, GeneratorOnly, Kept

\* d is c after a request whose keys and items leave the generator of g.
Sends(c, d, q, request, g, set_count, get_count, sets, waits) ==
    /\ d \in ClientOf(Append(q, request)) /\ Kept(c, d) /\ d.generated = c.generated
    /\ d.next = g.next /\ d.drawn = g.drawn /\ d.line = g.line
    /\ d.set_count = set_count /\ d.get_count = get_count
    /\ d.sets = sets /\ d.waits = waits

LEMMA SendsWait ==
    ASSUME NEW c, NEW q, c \in ClientOf(q)
    PROVE  Sends(c, Wait(c), q, Req("wait", NoKey, ""), AfterKey(c, "R"),
                 c.set_count, c.get_count, c.sets, c.waits + 1)
<1> DEFINE p == Push(c, "wait", NoKey, "")
           r == Append(q, Req("wait", NoKey, ""))
           g == AfterKey(c, "R")
<1>1. /\ p \in ClientOf(r) /\ GeneratorOnly(c, p)
      /\ p.next = c.next /\ p.drawn = c.drawn /\ p.line = c.line
  <2>1. PushKeeps(c, q, "wait", NoKey, "")
    BY Pushed
  <2> QED  BY <2>1 DEF PushKeeps
<1>2. Wait(c) = [p EXCEPT !.waits = @ + 1, !.drawn = @ + 1]
  BY DEF Wait
<1>3. g.next = c.next /\ g.drawn = c.drawn + 1 /\ g.line = c.line
  BY KeyDrawn
<1> HIDE DEF p, r, g
<1> DEFINE d == [p EXCEPT !.waits = @ + 1, !.drawn = @ + 1]
<1>4. /\ d \in ClientOf(r) /\ Kept(p, d) /\ d.generated = p.generated
      /\ d.next = p.next /\ d.drawn = p.drawn + 1 /\ d.line = p.line
      /\ d.set_count = p.set_count /\ d.get_count = p.get_count
      /\ d.sets = p.sets /\ d.waits = p.waits + 1
  <2> DEFINE e == [p EXCEPT !.waits = @ + 1]
  <2>1. /\ e \in ClientOf(r) /\ Kept(p, e) /\ e.generated = p.generated
        /\ e.next = p.next /\ e.drawn = p.drawn /\ e.line = p.line
        /\ e.set_count = p.set_count /\ e.get_count = p.get_count
        /\ e.sets = p.sets /\ e.waits = p.waits + 1
    BY <1>1 DEF ClientOf, Kept
  <2>2. d = [e EXCEPT !.drawn = @ + 1]
    BY <1>1 DEF ClientOf
  <2> HIDE DEF d, e
  <2> QED  BY <2>1, <2>2 DEF ClientOf, Kept
<1> HIDE DEF d
<1>5. Sends(c, d, q, Req("wait", NoKey, ""), g, c.set_count, c.get_count, c.sets, c.waits + 1)
  BY <1>1, <1>3, <1>4 DEF Sends, GeneratorOnly, Kept, r
<1> QED  BY <1>2, <1>5 DEF d, g

LEMMA SendsSet ==
    ASSUME NEW c, NEW q, c \in ClientOf(q)
    PROVE  Sends(c, Set(c), q, Req("set", SetKey(c), SetValue(c)), AfterObject(c),
                 c.set_count + 1, c.get_count, c.sets + 1, c.waits)
<1> DEFINE g == AfterObject(c)
           p == Push(g, "set", SetKey(c), SetValue(c))
           r == Append(q, Req("set", SetKey(c), SetValue(c)))
<1>1. g \in ClientOf(q) /\ GeneratorOnly(c, g)
  BY ObjectDrawn
<1>2. /\ p \in ClientOf(r) /\ GeneratorOnly(g, p)
      /\ p.next = g.next /\ p.drawn = g.drawn /\ p.line = g.line
  <2> HIDE DEF g
  <2>1. PushKeeps(g, q, "set", SetKey(c), SetValue(c))
    BY <1>1, Pushed
  <2> QED  BY <2>1 DEF PushKeeps
<1>3. Set(c) = [p EXCEPT !.set_count = @ + 1, !.sets = @ + 1]
  BY DEF Set
<1> HIDE DEF p, r, g
<1> DEFINE d == [p EXCEPT !.set_count = @ + 1, !.sets = @ + 1]
<1>4. /\ d \in ClientOf(r) /\ Kept(p, d) /\ d.generated = p.generated
      /\ d.next = p.next /\ d.drawn = p.drawn /\ d.line = p.line
      /\ d.set_count = p.set_count + 1 /\ d.get_count = p.get_count
      /\ d.sets = p.sets + 1 /\ d.waits = p.waits
  <2> DEFINE e == [p EXCEPT !.set_count = @ + 1]
  <2>1. /\ e \in ClientOf(r) /\ Kept(p, e) /\ e.generated = p.generated
        /\ e.next = p.next /\ e.drawn = p.drawn /\ e.line = p.line
        /\ e.set_count = p.set_count + 1 /\ e.get_count = p.get_count
        /\ e.sets = p.sets /\ e.waits = p.waits
    BY <1>2 DEF ClientOf, Kept
  <2>2. d = [e EXCEPT !.sets = @ + 1]
    BY <1>2 DEF ClientOf
  <2> HIDE DEF d, e
  <2> QED  BY <2>1, <2>2 DEF ClientOf, Kept
<1> HIDE DEF d
<1>5. Sends(c, d, q, Req("set", SetKey(c), SetValue(c)), g,
            c.set_count + 1, c.get_count, c.sets + 1, c.waits)
  BY <1>1, <1>2, <1>4 DEF Sends, GeneratorOnly, Kept, r
<1> QED  BY <1>3, <1>5 DEF d, g

LEMMA SendsGet ==
    ASSUME Sane(config), NEW c, NEW q, c \in ClientOf(q), c.get_count < config.ratio[2]
    PROVE  Sends(c, Get(c), q, Req("get", NoKey, ""), AfterKeys(c),
                 c.set_count, c.get_count + keys_count(c), c.sets, c.waits)
<1> DEFINE g == AfterKeys(c)
           p == Push(g, "get", NoKey, "")
           r == Append(q, Req("get", NoKey, ""))
           k == keys_count(c)
<1>0. k \in Nat \ {0}
  BY KeysCount
<1>1. g \in ClientOf(q) /\ GeneratorOnly(c, g)
  BY <1>0, KeysDrawn
<1>2. /\ p \in ClientOf(r) /\ GeneratorOnly(g, p)
      /\ p.next = g.next /\ p.drawn = g.drawn /\ p.line = g.line
  <2> HIDE DEF g
  <2>1. PushKeeps(g, q, "get", NoKey, "")
    BY <1>1, Pushed
  <2> QED  BY <2>1 DEF PushKeeps
<1>3. Get(c) = [p EXCEPT !.get_count = @ + k]
  BY DEF Get
<1> HIDE DEF p, r, g, k
<1> DEFINE d == [p EXCEPT !.get_count = @ + k]
<1>4. /\ d \in ClientOf(r) /\ Kept(p, d) /\ d.generated = p.generated
      /\ d.next = p.next /\ d.drawn = p.drawn /\ d.line = p.line
      /\ d.set_count = p.set_count /\ d.get_count = p.get_count + k
      /\ d.sets = p.sets /\ d.waits = p.waits
  BY <1>0, <1>2 DEF ClientOf, Kept
<1> HIDE DEF d
<1>5. Sends(c, d, q, Req("get", NoKey, ""), g,
            c.set_count, c.get_count + k, c.sets, c.waits)
  BY <1>1, <1>2, <1>4 DEF Sends, GeneratorOnly, Kept, r
<1> QED  BY <1>3, <1>5 DEF d, g, k

Sets(c) == ~WaitDue(c) /\ SetDue(c)
Gets(c) == ~WaitDue(c) /\ ~SetDue(c)

\* A request is due.
CanCreate(c) == WaitDue(c) \/ SetDue(c) \/ GetDue(c)

\* The request a client draws next, and where its generator is then.
Request(c) ==
    IF WaitDue(c) THEN Req("wait", NoKey, "")
    ELSE IF SetDue(c) THEN Req("set", SetKey(c), SetValue(c)) ELSE Req("get", NoKey, "")

Moved(c) ==
    IF WaitDue(c) THEN AfterKey(c, "R")
    ELSE IF SetDue(c) THEN AfterObject(c) ELSE AfterKeys(c)

\* The counters of the ratio behind it: full ones start over.
RatioAfter(c) ==
    LET s == c.set_count + (IF Sets(c) THEN 1 ELSE 0)
        g == c.get_count + (IF Gets(c) THEN keys_count(c) ELSE 0)
    IN  IF s = config.ratio[1] /\ g = config.ratio[2] THEN << 0, 0 >> ELSE << s, g >>

LEMMA Created ==
    ASSUME Sane(config), NEW c, IsClient(c), CanCreate(c)
    PROVE  LET d == CreateRequest(c)
           IN  /\ IsClient(d) /\ Kept(c, d) /\ d.generated = c.generated + 1
               /\ d.queue = Append(c.queue, Request(c))
               /\ d.next = Moved(c).next /\ d.drawn = Moved(c).drawn /\ d.line = Moved(c).line
               /\ d.sets = c.sets + (IF Sets(c) THEN 1 ELSE 0)
               /\ d.set_count = RatioAfter(c)[1] /\ d.get_count = RatioAfter(c)[2]
<1> DEFINE q == c.queue
           sent == IF WaitDue(c) THEN Wait(c) ELSE IF SetDue(c) THEN Set(c) ELSE Get(c)
           s == c.set_count + (IF Sets(c) THEN 1 ELSE 0)
           g == c.get_count + (IF Gets(c) THEN keys_count(c) ELSE 0)
           n == c.sets + (IF Sets(c) THEN 1 ELSE 0)
           w == c.waits + (IF WaitDue(c) THEN 1 ELSE 0)
<1>1. c \in ClientOf(q) /\ q \in Seq(Range(q))
  BY DEF IsClient
<1>0. s \in Nat /\ g \in Nat /\ c.set_count \in Nat /\ c.get_count \in Nat /\ c.sets \in Nat
      /\ c.generated \in Nat /\ c.waits \in Nat
  <2>1. c.set_count \in Nat /\ c.get_count \in Nat /\ c.sets \in Nat
        /\ c.generated \in Nat /\ c.waits \in Nat
    BY <1>1 DEF ClientOf
  <2>2. (IF Sets(c) THEN 1 ELSE 0) \in Nat /\ (IF Gets(c) THEN keys_count(c) ELSE 0) \in Nat
    <3>1. Gets(c) => keys_count(c) \in Nat
      BY <1>1, KeysCount DEF Gets, CanCreate, GetDue
    <3> QED  BY <3>1
  <2> QED  BY <2>1, <2>2
<1>2. Sends(c, sent, q, Request(c), Moved(c), s, g, n, w)
  <2>1. CASE WaitDue(c)
    <3>1. Request(c) = Req("wait", NoKey, "") /\ Moved(c) = AfterKey(c, "R") /\ sent = Wait(c)
          /\ s = c.set_count /\ g = c.get_count /\ n = c.sets /\ w = c.waits + 1
      BY <1>0, <2>1 DEF Request, Moved, Sets, Gets
    <3> QED  BY <1>1, <3>1, SendsWait
  <2>2. CASE ~WaitDue(c) /\ SetDue(c)
    <3>1. /\ Request(c) = Req("set", SetKey(c), SetValue(c)) /\ Moved(c) = AfterObject(c)
          /\ sent = Set(c)
          /\ s = c.set_count + 1 /\ g = c.get_count /\ n = c.sets + 1 /\ w = c.waits
      BY <1>0, <2>2 DEF Request, Moved, Sets, Gets
    <3> QED  BY <1>1, <3>1, SendsSet
  <2>3. CASE ~WaitDue(c) /\ ~SetDue(c)
    <3>1. /\ Request(c) = Req("get", NoKey, "") /\ Moved(c) = AfterKeys(c)
          /\ sent = Get(c)
          /\ s = c.set_count /\ g = c.get_count + keys_count(c) /\ n = c.sets /\ w = c.waits
      BY <1>0, <2>3 DEF Request, Moved, Sets, Gets
    <3>2. c.get_count < config.ratio[2]
      BY <2>3 DEF CanCreate, GetDue
    <3> QED  BY <1>1, <3>1, <3>2, SendsGet
  <2> QED  BY <2>1, <2>2, <2>3
<1> HIDE DEF sent
<1> DEFINE o == Overlap(sent)
           d == [o EXCEPT !.generated = @ + 1]
           r == Append(q, Request(c))
<1>3. /\ sent \in ClientOf(r) /\ Kept(c, sent) /\ sent.generated = c.generated
      /\ sent.next = Moved(c).next /\ sent.drawn = Moved(c).drawn /\ sent.line = Moved(c).line
      /\ sent.set_count = s /\ sent.get_count = g /\ sent.sets = n
  BY <1>2 DEF Sends
<1>4. RatioAfter(c) = IF s = config.ratio[1] /\ g = config.ratio[2] THEN << 0, 0 >> ELSE << s, g >>
  BY DEF RatioAfter
<1>5. CreateRequest(c) = d
  BY DEF CreateRequest, sent
<1> HIDE DEF r, s, g, n, d
<1>6. /\ o \in ClientOf(r) /\ Kept(sent, o) /\ o.generated = sent.generated
      /\ o.next = sent.next /\ o.drawn = sent.drawn /\ o.line = sent.line /\ o.sets = sent.sets
      /\ o.set_count = RatioAfter(c)[1] /\ o.get_count = RatioAfter(c)[2]
  <2>1. CASE s = config.ratio[1] /\ g = config.ratio[2]
    <3> DEFINE e == [sent EXCEPT !.set_count = 0]
    <3>1. RatioAfter(c) = << 0, 0 >> /\ o = [e EXCEPT !.get_count = 0]
      BY <1>3, <1>4, <2>1 DEF Overlap, ClientOf
    <3>2. /\ e \in ClientOf(r) /\ Kept(sent, e) /\ e.generated = sent.generated
          /\ e.next = sent.next /\ e.drawn = sent.drawn /\ e.line = sent.line
          /\ e.sets = sent.sets /\ e.set_count = 0
      BY <1>3 DEF ClientOf, Kept
    <3> HIDE DEF e, o
    <3> QED  BY <3>1, <3>2 DEF ClientOf, Kept
  <2>2. CASE ~(s = config.ratio[1] /\ g = config.ratio[2])
    <3>1. RatioAfter(c) = << s, g >> /\ o = sent
      BY <1>3, <1>4, <2>2 DEF Overlap
    <3> QED  BY <1>3, <3>1 DEF Kept
  <2> QED  BY <2>1, <2>2
<1> HIDE DEF o
<1>7. /\ d \in ClientOf(r) /\ Kept(o, d) /\ d.generated = o.generated + 1
      /\ d.next = o.next /\ d.drawn = o.drawn /\ d.line = o.line /\ d.sets = o.sets
      /\ d.set_count = o.set_count /\ d.get_count = o.get_count
  BY <1>6 DEF ClientOf, Kept, d
<1>8. d.queue = r /\ r \in Seq(Range(r))
  <2>1. d.queue = r
    BY <1>7 DEF ClientOf
  <2> QED  BY <1>1, <2>1, AppendAny DEF r
<1>9. IsClient(d)
  BY <1>7, <1>8 DEF IsClient
<1>10. Kept(c, d)
  BY <1>3, <1>6, <1>7 DEF Kept
<1>11. d.sets = n /\ d.generated = c.generated + 1
  BY <1>3, <1>6, <1>7
<1> QED  BY <1>3, <1>5, <1>6, <1>7, <1>8, <1>9, <1>10, <1>11 DEF n, r

-----------------------------------------------------------------------------
(* Types                                                                   *)

Types ==
    /\ config \in Configs
    /\ phase \in {"run", "verify", "done", "assert_failed"}
    /\ run_id \in Nat \ {0} /\ next_client_idx \in Nat
    /\ clients \in Seq(Range(clients))
    /\ \A i \in DOMAIN clients : IsClient(clients[i])
    /\ DOMAIN clients \in {Writers, 1..Verifier}
    /\ phase = "run" => DOMAIN clients = Writers
    /\ phase = "verify" => DOMAIN clients = 1..Verifier

\* Of the clients only i changes.
Only(i) ==
    /\ clients' \in Seq(Range(clients')) /\ DOMAIN clients' = DOMAIN clients
    /\ \A j \in DOMAIN clients \ {i} : clients'[j] = clients[j]
    /\ IsClient(clients'[i])

\* It draws nothing.
Rests(c, d) ==
    /\ d.min = c.min /\ d.max = c.max /\ d.seed = c.seed
    /\ d.next = c.next /\ d.drawn = c.drawn /\ d.line = c.line
    /\ d.set_count = c.set_count /\ d.get_count = c.get_count
    /\ d.sets = c.sets /\ d.generated = c.generated /\ d.unset = c.unset

LEMMA AtPc ==
    ASSUME NEW c, NEW q, c \in ClientOf(q), NEW p \in Pcs
    PROVE  LET d == [c EXCEPT !.pc = p]
           IN  /\ d \in ClientOf(q) /\ Rests(c, d) /\ d.queue = c.queue
               /\ d.processed = c.processed /\ d.pc = p
BY DEF ClientOf, Rests

LEMMA OnlyStep ==
    ASSUME Types, NEW i \in DOMAIN clients, NEW d, IsClient(d),
           clients' = [clients EXCEPT ![i] = d]
    PROVE  Only(i) /\ clients'[i] = d
<1> DEFINE S == Range(clients) \cup {d}
<1>1. clients \in Seq(Range(clients))
  BY DEF Types
<1>2. clients \in [1..Len(clients) -> Range(clients)] /\ Len(clients) \in Nat
      /\ DOMAIN clients = 1..Len(clients)
  BY <1>1, LenProperties
<1>3. clients' \in [1..Len(clients) -> S] /\ DOMAIN clients' = DOMAIN clients
      /\ clients'[i] = d /\ \A j \in DOMAIN clients \ {i} : clients'[j] = clients[j]
  BY <1>2
<1>4. clients' \in Seq(S)
  BY <1>2, <1>3, SeqDef
<1>5. clients' \in Seq(Range(clients'))
  BY <1>4, SeqOfOwn
<1> QED  BY <1>3, <1>5 DEF Only

\* A callback that only moves on.
MovesOn(i) == Writable(i) \/ FillStart(i) \/ FillDone(i) \/ ParseDone(i)

LEMMA MovedOn ==
    ASSUME Types, NEW i \in DOMAIN clients, MovesOn(i)
    PROVE  /\ Only(i) /\ Rests(clients[i], clients'[i])
           /\ clients'[i].queue = clients[i].queue
           /\ clients'[i].processed = clients[i].processed
           /\ UNCHANGED << config, main, next_client_idx, store, results, history >>
           /\ clients'[i].pc = "ended" => finished(clients[i])
           /\ clients[i].pc # "ended"
<1> DEFINE c == clients[i]
<1>1. c \in ClientOf(c.queue) /\ c.queue \in Seq(Range(c.queue))
  BY DEF Types, IsClient
<1> DEFINE To(p) == clients' = [clients EXCEPT ![i] = [c EXCEPT !.pc = p]]
           Back == IF finished(c) THEN "ended" ELSE "idle"
           Still == /\ UNCHANGED << config, main, next_client_idx, store, results, history >>
                    /\ c.pc # "ended"
<1>2. Still /\ (To("start") \/ To("fill") \/ To(Back))
  <2>1. CASE Writable(i)
    BY <2>1 DEF Writable, Step
  <2>2. CASE FillStart(i)
    <3>1. To("fill") \/ To(Back)
      BY <2>2 DEF FillStart, Step, Return
    <3> HIDE DEF To, Back
    <3> QED  BY <2>2, <3>1 DEF FillStart, Step
  <2>3. CASE FillDone(i)
    BY <2>3 DEF FillDone, Step, Return
  <2>4. CASE ParseDone(i)
    BY <2>4 DEF ParseDone, Step
  <2> QED  BY <2>1, <2>2, <2>3, <2>4 DEF MovesOn
<1>3. PICK p \in Pcs : To(p) /\ (p = "ended" => finished(c))
  <2>1. {"start", "fill"} \subseteq Pcs \ {"ended"}
    BY DEF Pcs
  <2>2. Back \in Pcs
    BY DEF Pcs
  <2>3. Back = "ended" => finished(c)
    OBVIOUS
  <2> HIDE DEF To, Back
  <2> QED  BY <1>2, <2>1, <2>2, <2>3
<1> DEFINE d == [c EXCEPT !.pc = p]
<1>4. /\ d \in ClientOf(c.queue) /\ Rests(c, d) /\ d.queue = c.queue
      /\ d.processed = c.processed /\ d.pc = p
  BY <1>1, AtPc
<1> HIDE DEF d
<1>5. IsClient(d)
  BY <1>1, <1>4 DEF IsClient
<1>6. Only(i) /\ clients'[i] = d
  BY <1>3, <1>5, OnlyStep DEF d, To
<1> QED  BY <1>2, <1>3, <1>4, <1>6

LEMMA Replied ==
    ASSUME Types, NEW i \in DOMAIN clients, HandleResponse(i) \/ Compare(i)
    PROVE  /\ Only(i) /\ Rests(clients[i], clients'[i])
           /\ clients[i].queue # << >> /\ clients'[i].queue = Tail(clients[i].queue)
           /\ clients'[i].processed = clients[i].processed + 1
           /\ clients[i].pc # "ended" /\ clients'[i].pc = "parse"
<1> DEFINE c == clients[i]
           d == [c EXCEPT !.queue = Tail(@), !.processed = @ + 1, !.pc = "parse"]
           e == [c EXCEPT !.processed = @ + 1, !.pc = "parse"]
<1>1. c \in ClientOf(c.queue) /\ c.queue \in Seq(Range(c.queue))
  BY DEF Types, IsClient
<1>2. clients' = [clients EXCEPT ![i] = d] /\ c.queue # << >> /\ c.pc # "ended"
  BY <1>1 DEF HandleResponse, Compare, Reply
<1>3. /\ e \in ClientOf(c.queue) /\ Rests(c, e)
      /\ e.processed = c.processed + 1 /\ e.pc = "parse"
  <2> DEFINE f == [c EXCEPT !.pc = "parse"]
  <2>0. "parse" \in Pcs
    BY DEF Pcs
  <2>1. f \in ClientOf(c.queue) /\ Rests(c, f) /\ f.processed = c.processed /\ f.pc = "parse"
    BY <1>1, <2>0, AtPc
  <2>2. e = [f EXCEPT !.processed = @ + 1]
    BY <1>1 DEF ClientOf
  <2> HIDE DEF f
  <2>3. f.processed + 1 \in Nat
    BY <2>1 DEF ClientOf
  <2> DEFINE n == f.processed + 1
  <2>4. e = [f EXCEPT !.processed = n]
    BY <2>2
  <2>5. n \in Nat /\ n = c.processed + 1
    BY <2>1, <2>3
  <2> HIDE DEF n, e
  <2> QED  BY <2>1, <2>4, <2>5 DEF ClientOf, Rests
<1>4. d = [e EXCEPT !.queue = Tail(c.queue)]
  BY <1>1 DEF ClientOf
<1> HIDE DEF e, d
<1>5. /\ d \in ClientOf(Tail(c.queue)) /\ Rests(c, d) /\ d.queue = Tail(c.queue)
      /\ d.processed = c.processed + 1 /\ d.pc = "parse"
  BY <1>3, <1>4 DEF ClientOf, Rests
<1>6. IsClient(d)
  BY <1>1, <1>2, <1>5, TailAny DEF IsClient
<1>7. Only(i) /\ clients'[i] = d
  BY <1>2, <1>6, OnlyStep
<1> QED  BY <1>2, <1>5, <1>7

LEMMA Straggled ==
    ASSUME Types, NEW i \in DOMAIN clients, Straggler(i)
    PROVE  /\ Only(i) /\ Rests(clients[i], clients'[i])
           /\ clients[i].queue # << >> /\ clients'[i].queue = Tail(clients[i].queue)
           /\ clients'[i].processed = clients[i].processed
           /\ clients[i].pc = "ended" /\ clients'[i].pc = "ended"
<1> DEFINE c == clients[i]
           d == [c EXCEPT !.queue = Tail(@)]
<1>1. c \in ClientOf(c.queue) /\ c.queue \in Seq(Range(c.queue))
  BY DEF Types, IsClient
<1>2. clients' = [clients EXCEPT ![i] = d] /\ c.queue # << >> /\ c.pc = "ended"
  BY <1>1 DEF Straggler
<1>3. /\ d \in ClientOf(Tail(c.queue)) /\ Rests(c, d) /\ d.queue = Tail(c.queue)
      /\ d.processed = c.processed /\ d.pc = c.pc
  BY <1>1 DEF ClientOf, Rests
<1> HIDE DEF d
<1>4. IsClient(d)
  BY <1>1, <1>2, <1>3, TailAny DEF IsClient
<1>5. Only(i) /\ clients'[i] = d
  BY <1>2, <1>4, OnlyStep
<1> QED  BY <1>2, <1>3, <1>5

LEMMA Written ==
    ASSUME Types, NEW i \in DOMAIN clients, Write(i)
    PROVE  /\ Only(i) /\ clients'[i] = CreateRequest(clients[i])
           /\ MayCreate(clients[i]) /\ CanCreate(clients[i])
           /\ i # Verifier /\ clients[i].pc = "fill"
           /\ clients'[i].pc = "fill"
           /\ Last(clients'[i].queue) = Request(clients[i])
<1> DEFINE c == clients[i]
           d == CreateRequest(c)
<1>1. IsClient(c) /\ CanCreate(c) /\ Sane(config)
  BY ConfigSane DEF Types, Write, CanCreate
<1>2. /\ IsClient(d) /\ Kept(c, d) /\ d.queue = Append(c.queue, Request(c))
  BY <1>1, Created
<1>3. /\ MayCreate(c) /\ i # Verifier /\ c.pc = "fill" /\ clients' = [clients EXCEPT ![i] = d]
  BY DEF Write, Step
<1> HIDE DEF d
<1>4. Only(i) /\ clients'[i] = d
  BY <1>2, <1>3, OnlyStep
<1>5. Last(d.queue) = Request(c)
  <2>1. c.queue \in Seq(Range(c.queue))
    BY <1>1 DEF IsClient
  <2>2. /\ Len(Append(c.queue, Request(c))) = Len(c.queue) + 1
        /\ Append(c.queue, Request(c))[Len(c.queue) + 1] = Request(c)
    BY <2>1, AppendAny
  <2> QED  BY <1>2, <2>2 DEF Last
<1> QED  BY <1>1, <1>2, <1>3, <1>4, <1>5 DEF d, Kept

-----------------------------------------------------------------------------
(* The requests of the verification                                        *)

SameRange(c, d) == d.min = c.min /\ d.max = c.max /\ d.seed = c.seed /\ d.pc = c.pc

\* d is c with the generator of g, this pipeline and these counters.
Drawn(c, d, g, q, processed, set_count, get_count) ==
    /\ IsClient(d) /\ SameRange(c, d) /\ d.queue = q /\ d.processed = processed
    /\ d.next = g.next /\ d.drawn = g.drawn /\ d.line = g.line
    /\ d.set_count = set_count /\ d.get_count = get_count

LEMMA VerifySetDrawn ==
    ASSUME NEW c, IsClient(c)
    PROVE  Drawn(c, VerifySet(c), AfterObject(c),
                 Append(c.queue, Req("verify", SetKey(c), SetValue(c))),
                 c.processed, c.set_count + 1, c.get_count)
<1> DEFINE q == c.queue
           g == AfterObject(c)
           r == Append(q, Req("verify", SetKey(c), SetValue(c)))
           p == Push(g, "verify", SetKey(c), SetValue(c))
           d == [p EXCEPT !.set_count = @ + 1]
<1>1. c \in ClientOf(q) /\ q \in Seq(Range(q))
  BY DEF IsClient
<1>2. g \in ClientOf(q) /\ GeneratorOnly(c, g)
  BY <1>1, ObjectDrawn
<1>3. /\ p \in ClientOf(r) /\ GeneratorOnly(g, p)
      /\ p.next = g.next /\ p.drawn = g.drawn /\ p.line = g.line
  <2> HIDE DEF g
  <2>1. PushKeeps(g, q, "verify", SetKey(c), SetValue(c))
    BY <1>2, Pushed
  <2> QED  BY <2>1 DEF PushKeeps
<1>4. r \in Seq(Range(r))
  BY <1>1, AppendAny
<1>5. VerifySet(c) = d
  BY DEF VerifySet
<1> HIDE DEF g, p, r
<1>6. /\ d \in ClientOf(r) /\ Kept(p, d) /\ d.queue = r
      /\ d.next = p.next /\ d.drawn = p.drawn /\ d.line = p.line
      /\ d.set_count = p.set_count + 1 /\ d.get_count = p.get_count
  BY <1>3 DEF ClientOf, Kept
<1> HIDE DEF d
<1>7. IsClient(d)
  BY <1>4, <1>6 DEF IsClient
<1>8. Drawn(c, d, g, r, c.processed, c.set_count + 1, c.get_count)
  BY <1>2, <1>3, <1>6, <1>7 DEF Drawn, SameRange, GeneratorOnly, Kept
<1> QED  BY <1>5, <1>8 DEF g, r

LEMMA SkipDrawn ==
    ASSUME Sane(config), NEW c, IsClient(c), GetDue(c)
    PROVE  Drawn(c, SkipGet(c), AfterKeys(c), c.queue,
                 c.processed + 1, c.set_count, c.get_count + keys_count(c))
<1> DEFINE q == c.queue
           g == AfterKeys(c)
           k == keys_count(c)
           p == [g EXCEPT !.get_count = @ + k]
           d == [p EXCEPT !.processed = @ + 1]
<1>1. c \in ClientOf(q) /\ q \in Seq(Range(q))
  BY DEF IsClient
<1>0. k \in Nat \ {0}
  BY <1>1, KeysCount DEF GetDue
<1>2. g \in ClientOf(q) /\ GeneratorOnly(c, g)
  BY <1>0, <1>1, KeysDrawn
<1> HIDE DEF g, k
<1>3. /\ p \in ClientOf(q) /\ SameRange(g, p)
      /\ p.next = g.next /\ p.drawn = g.drawn /\ p.line = g.line /\ p.processed = g.processed
      /\ p.set_count = g.set_count /\ p.get_count = g.get_count + k
  BY <1>0, <1>2 DEF ClientOf, SameRange
<1>4. SkipGet(c) = d
  BY <1>2 DEF SkipGet, ClientOf, g, k
<1> HIDE DEF p
<1>5. /\ d \in ClientOf(q) /\ SameRange(p, d) /\ d.queue = q
      /\ d.next = p.next /\ d.drawn = p.drawn /\ d.line = p.line
      /\ d.processed = p.processed + 1
      /\ d.set_count = p.set_count /\ d.get_count = p.get_count
  BY <1>3 DEF ClientOf, SameRange
<1> HIDE DEF d
<1>6. IsClient(d)
  BY <1>1, <1>5 DEF IsClient
<1>7. Drawn(c, d, g, q, c.processed + 1, c.set_count, c.get_count + k)
  BY <1>2, <1>3, <1>5, <1>6 DEF Drawn, SameRange, GeneratorOnly, Kept
<1> QED  BY <1>4, <1>7 DEF g, k

LEMMA ResetDrawn ==
    ASSUME NEW c, IsClient(c)
    PROVE  Drawn(c, [c EXCEPT !.set_count = 0, !.get_count = 0], c, c.queue, c.processed, 0, 0)
<1> DEFINE p == [c EXCEPT !.set_count = 0]
           d == [p EXCEPT !.get_count = 0]
<1>1. c \in ClientOf(c.queue) /\ c.queue \in Seq(Range(c.queue))
  BY DEF IsClient
<1>2. [c EXCEPT !.set_count = 0, !.get_count = 0] = d
  BY <1>1 DEF ClientOf
<1>3. /\ p \in ClientOf(c.queue) /\ SameRange(c, p)
      /\ p.next = c.next /\ p.drawn = c.drawn /\ p.line = c.line /\ p.processed = c.processed
      /\ p.set_count = 0
  BY <1>1 DEF ClientOf, SameRange
<1> HIDE DEF p
<1>4. /\ d \in ClientOf(c.queue) /\ SameRange(p, d) /\ d.queue = c.queue
      /\ d.next = p.next /\ d.drawn = p.drawn /\ d.line = p.line /\ d.processed = p.processed
      /\ d.set_count = p.set_count /\ d.get_count = 0
  BY <1>3 DEF ClientOf, SameRange
<1> HIDE DEF d
<1>5. IsClient(d)
  BY <1>1, <1>4 DEF IsClient
<1>6. Drawn(c, d, c, c.queue, c.processed, 0, 0)
  BY <1>3, <1>4, <1>5 DEF Drawn, SameRange
<1> QED  BY <1>2, <1>6

LEMMA Reverified ==
    ASSUME Types, NEW i \in DOMAIN clients, Verify(i)
    PROVE  LET c == clients[i]
               d == clients'[i]
           IN  /\ Only(i) /\ i = Verifier /\ phase = "verify" /\ MayCreate(c) /\ c.pc = "fill"
               /\ SameRange(c, d)
               /\ \/ /\ SetDue(c)
                     /\ Drawn(c, d, AfterObject(c), Append(c.queue, Req("verify", SetKey(c), SetValue(c))),
                              c.processed, c.set_count + 1, c.get_count)
                  \/ /\ GetDue(c)
                     /\ Drawn(c, d, AfterKeys(c), c.queue,
                              c.processed + 1, c.set_count, c.get_count + keys_count(c))
                  \/ /\ ~SetDue(c) /\ ~GetDue(c)
                     /\ Drawn(c, d, c, c.queue, c.processed, 0, 0)
<1> DEFINE c == clients[i]
           d == VerifyRequest(c)
           Set3 == Drawn(c, d, AfterObject(c), Append(c.queue, Req("verify", SetKey(c), SetValue(c))),
                         c.processed, c.set_count + 1, c.get_count)
           Skip3 == Drawn(c, d, AfterKeys(c), c.queue,
                          c.processed + 1, c.set_count, c.get_count + keys_count(c))
           Reset3 == Drawn(c, d, c, c.queue, c.processed, 0, 0)
<1>1. IsClient(c) /\ Sane(config)
  BY ConfigSane DEF Types
<1>2. \/ SetDue(c) /\ Set3
      \/ GetDue(c) /\ Skip3
      \/ ~SetDue(c) /\ ~GetDue(c) /\ Reset3
  <2>1. CASE SetDue(c)
    BY <1>1, <2>1, VerifySetDrawn DEF VerifyRequest
  <2>2. CASE GetDue(c)
    BY <1>1, <2>2, SkipDrawn DEF VerifyRequest, GetDue
  <2>3. CASE ~SetDue(c) /\ ~GetDue(c)
    BY <1>1, <2>3, ResetDrawn DEF VerifyRequest, GetDue
  <2> QED  BY <2>1, <2>2, <2>3
<1>3. /\ i = Verifier /\ c.pc = "fill" /\ MayCreate(c) /\ Active(i)
      /\ clients' = [clients EXCEPT ![i] = d]
  BY DEF Verify, Step
<1>4. phase = "verify"
  BY <1>3 DEF Active
<1> HIDE DEF d
<1>5. IsClient(d) /\ SameRange(c, d)
  BY <1>2 DEF Drawn
<1>6. Only(i) /\ clients'[i] = d
  BY <1>3, <1>5, OnlyStep
<1> QED  BY <1>2, <1>3, <1>4, <1>5, <1>6

LEMMA ShareNat ==
    ASSUME Sane(config)
    PROVE  /\ Share \in Nat \ {0} /\ config.clients \in Nat \ {0} /\ config.minimum \in Nat
           /\ config.maximum \in Nat /\ config.minimum <= config.maximum
<1>1. /\ config.clients \in Nat \ {0} /\ config.minimum \in Nat
      /\ config.maximum \in Nat /\ config.minimum <= config.maximum
  BY DEF Sane
<1>2. (config.maximum - config.minimum) \div config.clients \in Nat
  BY <1>1
<1> QED  BY <1>1, <1>2 DEF Share

LEMMA KeyRangeNat ==
    ASSUME Sane(config), NEW idx \in Nat
    PROVE  KeyRange(idx)[1] \in Nat /\ KeyRange(idx)[2] \in Nat
<1>1. /\ Share \in Nat /\ config.minimum \in Nat /\ config.maximum \in Nat
  BY ShareNat
<1>2. Share * idx \in Nat /\ Share * (idx + 1) \in Nat
  BY <1>1
<1>3. HasKeylist => Len(config.file) \in Nat
  BY DEF Sane
<1> QED  BY <1>1, <1>2, <1>3 DEF KeyRange

LEMMA ClientMade ==
    ASSUME Sane(config), NEW idx \in Nat, NEW n \in Nat
    PROVE  LET c == Client(idx, n)
           IN  /\ IsClient(c) /\ c.min = KeyRange(idx)[1] /\ c.max = KeyRange(idx)[2]
               /\ c.seed = (IF config.distinct THEN idx ELSE 0)
               /\ c.next = 0 /\ c.drawn = 0 /\ c.line = 1 /\ c.sets = 0
               /\ c.set_count = 0 /\ c.get_count = 0 /\ c.generated = n /\ c.unset = n
               /\ c.processed = 0 /\ c.queue = << >> /\ c.pc = "idle"
<1> DEFINE c == Client(idx, n)
           lo == KeyRange(idx)[1]
           hi == KeyRange(idx)[2]
<1>1. lo \in Nat /\ hi \in Nat
  BY KeyRangeNat
<1>2. /\ c.min = lo /\ c.max = hi /\ c.seed = (IF config.distinct THEN idx ELSE 0)
      /\ c.next = 0 /\ c.drawn = 0 /\ c.line = 1 /\ c.sets = 0
      /\ c.set_count = 0 /\ c.get_count = 0 /\ c.generated = n /\ c.unset = n
      /\ c.processed = 0 /\ c.queue = << >> /\ c.pc = "idle"
  BY DEF Client
<1>3. c \in ClientOf(<< >>)
  <2> HIDE DEF lo, hi
  <2>1. (IF config.distinct THEN idx ELSE 0) \in Nat
    OBVIOUS
  <2>2. "idle" \in Pcs
    BY DEF Pcs
  <2> QED  BY <1>1, <2>1, <2>2 DEF Client, ClientOf, lo, hi
<1>4. << >> \in Seq(Range(<< >>))
  BY EmptySeq
<1> HIDE DEF c
<1>5. IsClient(c)
  BY <1>2, <1>3, <1>4 DEF IsClient
<1> QED  BY <1>2, <1>5 DEF c

LEMMA RunMade ==
    ASSUME Sane(config), NEW idx \in Nat, NEW u \in [Writers -> config.unset]
    PROVE  /\ Run(idx, u) \in Seq(Range(Run(idx, u))) /\ DOMAIN Run(idx, u) = Writers
           /\ \A i \in Writers : /\ idx + i - 1 \in Nat /\ u[i] \in Nat
                                 /\ Run(idx, u)[i] = Client(idx + i - 1, u[i])
                                 /\ IsClient(Run(idx, u)[i])
<1> DEFINE S == { Client(idx + i - 1, u[i]) : i \in Writers }
<1>1. config.clients \in Nat
  BY ShareNat
<1>2. Run(idx, u) \in [Writers -> S] /\ DOMAIN Run(idx, u) = Writers
  BY DEF Run
<1>3. Run(idx, u) \in Seq(S)
  BY <1>1, <1>2, SeqDef DEF Writers
<1>4. Run(idx, u) \in Seq(Range(Run(idx, u)))
  BY <1>3, SeqOfOwn
<1>5. ASSUME NEW i \in Writers
      PROVE  /\ idx + i - 1 \in Nat /\ u[i] \in Nat
             /\ Run(idx, u)[i] = Client(idx + i - 1, u[i])
             /\ IsClient(Run(idx, u)[i])
  <2>1. idx + i - 1 \in Nat
    BY <1>1 DEF Writers
  <2>2. Run(idx, u)[i] = Client(idx + i - 1, u[i])
    BY DEF Run
  <2>3. u[i] \in Nat
    BY DEF Sane
  <2> QED  BY <2>1, <2>2, <2>3, ClientMade
<1> QED  BY <1>2, <1>4, <1>5

\* The clients of a run, each with what it finds in m_reqs_generated.
LEMMA RunsMade ==
    ASSUME Sane(config), NEW idx \in Nat, NEW cs \in Runs(idx)
    PROVE  /\ cs \in Seq(Range(cs)) /\ DOMAIN cs = Writers
           /\ \A i \in Writers : /\ IsClient(cs[i]) /\ idx + i - 1 \in Nat
                                 /\ \E n \in Nat : cs[i] = Client(idx + i - 1, n)
<1>1. PICK u \in [Writers -> config.unset] : cs = Run(idx, u)
  BY DEF Runs
<1>2. ASSUME NEW i \in Writers
      PROVE  /\ IsClient(cs[i]) /\ idx + i - 1 \in Nat
             /\ \E n \in Nat : cs[i] = Client(idx + i - 1, n)
  <2>1. /\ idx + i - 1 \in Nat /\ u[i] \in Nat /\ cs[i] = Client(idx + i - 1, u[i])
        /\ IsClient(cs[i])
    BY <1>1, RunMade
  <2> QED  BY <2>1
<1> QED  BY <1>1, <1>2, RunMade

LEMMA VerifierAdded ==
    ASSUME Types, RunOver, clients' = Append(clients, Client(next_client_idx, config.garbage))
    PROVE  /\ clients' \in Seq(Range(clients')) /\ DOMAIN clients' = 1..Verifier
           /\ \A i \in Writers : clients'[i] = clients[i]
           /\ clients'[Verifier] = Client(next_client_idx, config.garbage)
           /\ IsClient(clients'[Verifier])
<1> DEFINE v == Client(next_client_idx, config.garbage)
<1>1. Sane(config) /\ config.garbage \in Nat /\ next_client_idx \in Nat
  BY ConfigSane DEF Types, Sane
<1>2. IsClient(v)
  BY <1>1, ClientMade
<1>3. clients \in Seq(Range(clients)) /\ DOMAIN clients = Writers
  BY DEF Types, RunOver
<1>4. Len(clients) = config.clients /\ config.clients \in Nat
  <2>1. DOMAIN clients = 1..Len(clients) /\ Len(clients) \in Nat
    BY <1>3, LenProperties
  <2> QED  BY <1>1, <1>3, <2>1, ShareNat DEF Writers
<1> HIDE DEF v
<1>5. /\ clients' \in Seq(Range(clients')) /\ Len(clients') = Len(clients) + 1
      /\ clients'[Len(clients) + 1] = v
      /\ \A i \in 1..Len(clients) : clients'[i] = clients[i]
  BY <1>3, AppendAny DEF v
<1>6. DOMAIN clients' = 1..Len(clients')
  BY <1>5, LenProperties
<1> QED  BY <1>2, <1>4, <1>5, <1>6 DEF Writers, Verifier, v

LEMMA TypesInit == Init => Types
<1> SUFFICES ASSUME Init PROVE Types
  OBVIOUS
<1>1. config \in Configs /\ Sane(config)
  BY ConfigSane DEF Init
<1>2. config.clients \in Nat
  BY <1>1, ShareNat
<1>3. /\ clients \in Runs(0) /\ clients \in Seq(Range(clients)) /\ DOMAIN clients = Writers
      /\ \A i \in Writers : IsClient(clients[i])
  BY <1>1, RunsMade DEF Init
<1> QED  BY <1>1, <1>2, <1>3 DEF Init, Types

\* A callback of one client.
ClientStep(i) ==
    \/ MovesOn(i) \/ Write(i) \/ Verify(i) \/ HandleResponse(i) \/ Compare(i) \/ Straggler(i)

LEMMA NextIs ==
    Next <=> \/ \E i \in DOMAIN clients : ClientStep(i) \/ AssertFails(i)
             \/ NextRun \/ StartVerify \/ Finish
BY DEF Next, Callback, ClientStep, MovesOn

LEMMA ClientStepOnly ==
    ASSUME Types, NEW i \in DOMAIN clients, ClientStep(i)
    PROVE  Only(i) /\ UNCHANGED << config, main, next_client_idx >>
<1>1. UNCHANGED << config, main, next_client_idx >>
  BY DEF ClientStep, MovesOn, Writable, FillStart, FillDone, ParseDone, Write, Verify,
         HandleResponse, Compare, Straggler
<1> QED  BY <1>1, MovedOn, Written, Reverified, Replied, Straggled DEF ClientStep

LEMMA TypesStep == Types /\ [Next]_vars => Types'
<1> SUFFICES ASSUME Types, [Next]_vars PROVE Types'
  OBVIOUS
<1>1. Sane(config) /\ config \in Configs
  BY ConfigSane DEF Types
<1>2. ASSUME NEW i \in DOMAIN clients, ClientStep(i)
      PROVE  Types'
  <2>1. Only(i) /\ UNCHANGED << config, main, next_client_idx >>
    BY <1>2, ClientStepOnly
  <2> QED  BY <2>1 DEF Types, Only, main, Writers, Verifier
<1>3. ASSUME NEW i \in DOMAIN clients, AssertFails(i)
      PROVE  Types'
  <2>1. phase' = "assert_failed" /\ UNCHANGED << config, run_id, next_client_idx, clients >>
    BY <1>3 DEF AssertFails
  <2> QED  BY <2>1 DEF Types, Writers, Verifier
<1>4. CASE NextRun
  <2>1. next_client_idx \in Nat /\ config.clients \in Nat
    BY <1>1, ShareNat DEF Types
  <2>2. /\ clients' \in Seq(Range(clients')) /\ DOMAIN clients' = Writers
        /\ \A i \in Writers : IsClient(clients'[i])
    BY <1>1, <1>4, <2>1, RunsMade DEF NextRun
  <2> QED  BY <1>4, <2>1, <2>2 DEF NextRun, Types, RunOver, Writers, Verifier
<1>5. CASE StartVerify
  <2>1. /\ clients' \in Seq(Range(clients')) /\ DOMAIN clients' = 1..Verifier
        /\ \A i \in 1..Verifier : IsClient(clients'[i])
    <3>1. RunOver /\ clients' = Append(clients, Client(next_client_idx, config.garbage))
      BY <1>5 DEF StartVerify
    <3>2. \A i \in 1..Verifier : i \in Writers \/ i = Verifier
      BY <1>1, ShareNat DEF Writers, Verifier
    <3>3. \A i \in Writers : IsClient(clients[i])
      BY <3>1 DEF Types, RunOver
    <3> QED  BY <3>1, <3>2, <3>3, VerifierAdded
  <2>2. /\ phase' = "verify" /\ UNCHANGED << config, run_id >>
        /\ next_client_idx' \in Nat /\ run_id \in Nat \ {0}
    BY <1>5 DEF StartVerify, Types
  <2>3. Verifier' = Verifier
    BY <2>2 DEF Verifier
  <2> QED  BY <1>1, <2>1, <2>2, <2>3 DEF Types
<1>6. CASE Finish
  <2>1. phase' = "done" /\ UNCHANGED << config, run_id, next_client_idx, clients >>
    BY <1>6 DEF Finish
  <2> QED  BY <2>1 DEF Types, Writers, Verifier
<1>7. CASE UNCHANGED vars
  BY <1>7 DEF vars, main, Types, Writers, Verifier
<1> QED  BY <1>2, <1>3, <1>4, <1>5, <1>6, <1>7, NextIs

-----------------------------------------------------------------------------
(* The keys stay in their range                                            *)

LEMMA DivBounds ==
    ASSUME NEW r \in Nat, NEW n \in Nat \ {0}
    PROVE  /\ r \div n \in Nat /\ n * (r \div n) \in Nat
           /\ n * (r \div n) <= r /\ r < n * (r \div n) + n
<1>1. r = n * (r \div n) + (r % n) /\ r % n \in 0..(n - 1) /\ r \div n \in Nat
  OBVIOUS
<1> DEFINE q == r \div n
           m == r % n
<1>2. q \in Nat /\ m \in 0..(n - 1) /\ r = n * q + m
  BY <1>1
<1> HIDE DEF q, m
<1>3. n * q \in Nat /\ n * q <= r /\ r < n * q + n
  BY <1>2
<1> QED  BY <1>2, <1>3 DEF q

LEMMA ProductGrows ==
    ASSUME NEW a \in Nat, NEW i \in Nat, NEW j \in Nat, i <= j
    PROVE  a * i \in Nat /\ a * j \in Nat /\ a * i <= a * j
<1>1. a * (j - i) \in Nat /\ a * i \in Nat
  <2>1. j - i \in Nat
    OBVIOUS
  <2> QED  BY <2>1
<1>2. a * j = a * i + a * (j - i)
  OBVIOUS
<1> QED  BY <1>1, <1>2

LEMMA SharesFit ==
    ASSUME NEW r \in Nat, NEW n \in Nat \ {0}, r >= n * (n - 1)
    PROVE  (r \div n + 1) * (n - 1) <= r
<1> DEFINE q == r \div n
<1>1. q \in Nat /\ n * q \in Nat /\ n * q <= r /\ r < n * q + n
  BY DivBounds
<1> HIDE DEF q
<1>2. q >= n - 1
  <2> SUFFICES ASSUME q + 1 <= n - 1 PROVE FALSE
    BY <1>1
  <2>1. n * (q + 1) <= n * (n - 1)
    BY <1>1, ProductGrows
  <2>2. n * (q + 1) = n * q + n
    BY <1>1
  <2>3. n * (n - 1) \in Nat
    <3>1. n - 1 \in Nat
      OBVIOUS
    <3> QED  BY <3>1
  <2> QED  BY <1>1, <2>1, <2>2, <2>3
<1>3. (q + 1) * (n - 1) = n * q - q + n - 1
  BY <1>1
<1> QED  BY <1>1, <1>2, <1>3 DEF q

Confined ==
    /\ ~HasKeylist
    /\ config.set = "P" => /\ config.runs = 1
                           /\ config.maximum - config.minimum >= config.clients * (config.clients - 1)

\* The share of a client lies in the range, and so does the key that comes next.
Inside(c) ==
    /\ config.minimum <= c.min /\ c.min <= c.max /\ c.max <= config.maximum
    /\ c.next <= c.max

RangeOK ==
    Confined => /\ touched \subseteq config.minimum..config.maximum
                /\ \A i \in Writers : Inside(clients[i])

LEMMA InsideMade ==
    ASSUME Sane(config), Confined, NEW idx \in Nat, NEW n \in Nat,
           config.set = "P" => idx < config.clients
    PROVE  Inside(Client(idx, n))
<1> DEFINE lo == KeyRange(idx)[1]
           hi == KeyRange(idx)[2]
           c == Client(idx, n)
<1>1. /\ Share \in Nat \ {0} /\ config.clients \in Nat \ {0} /\ config.minimum \in Nat
      /\ config.maximum \in Nat /\ config.minimum <= config.maximum
  BY ShareNat
<1>2. config.minimum <= lo /\ lo <= hi /\ hi <= config.maximum /\ 0 <= hi
  <2>1. CASE config.set = "P"
    <3> DEFINE m == config.clients
               s == Share
               r == config.maximum - config.minimum
    <3>1. r \in Nat /\ m \in Nat \ {0} /\ r >= m * (m - 1)
      BY <1>1, <2>1 DEF Confined
    <3>2. s = r \div m + 1
      BY DEF Share
    <3>3. (r \div m + 1) * (m - 1) <= r
      <4> HIDE DEF r, m
      <4> QED  BY <3>1, SharesFit
    <3>4. /\ lo = config.minimum + s * idx
          /\ hi = (IF idx = m - 1 THEN config.maximum ELSE config.minimum + s * (idx + 1))
      BY <2>1 DEF KeyRange
    <3>5. s \in Nat /\ idx <= m - 1 /\ config.minimum + r = config.maximum
      BY <1>1, <2>1
    <3> HIDE DEF m, s, r, lo, hi
    <3>6. /\ s * idx \in Nat /\ s * (m - 1) \in Nat /\ s * idx <= s * (m - 1)
      <4>1. m - 1 \in Nat
        BY <3>1
      <4> QED  BY <3>5, <4>1, ProductGrows
    <3>7. s * (m - 1) <= r
      BY <3>2, <3>3
    <3>8. CASE idx = m - 1
      <4>1. s * idx <= r /\ hi = config.maximum
        BY <3>4, <3>7, <3>8
      <4> DEFINE a == s * idx
      <4>2. a \in Nat /\ a <= r /\ lo = config.minimum + a
        BY <3>4, <3>6, <4>1
      <4> HIDE DEF a
      <4> QED  BY <1>1, <3>1, <3>5, <4>1, <4>2
    <3>9. CASE idx # m - 1
      <4>1. m - 1 \in Nat /\ idx + 1 \in Nat /\ idx + 1 <= m - 1 /\ idx <= idx + 1
        BY <3>1, <3>5, <3>9
      <4>2. /\ s * (idx + 1) \in Nat /\ s * (idx + 1) <= s * (m - 1)
            /\ s * idx <= s * (idx + 1)
        BY <3>5, <4>1, ProductGrows
      <4> QED  BY <1>1, <3>1, <3>4, <3>5, <3>6, <3>7, <3>9, <4>2
    <3> QED  BY <3>8, <3>9
  <2>2. CASE config.set # "P"
    <3>1. lo = config.minimum /\ hi = config.maximum
      BY <2>2 DEF KeyRange, Confined
    <3> QED  BY <1>1, <3>1
  <2> QED  BY <2>1, <2>2
<1>3. c.min = lo /\ c.max = hi /\ c.next = 0
  BY ClientMade
<1> HIDE DEF c, lo, hi
<1>4. Inside(c)
  BY <1>2, <1>3 DEF Inside
<1> QED  BY <1>4 DEF c

LEMMA DrawInRange ==
    ASSUME Sane(config), NEW c, IsClient(c), Inside(c), NEW pattern
    PROVE  /\ KeyIndex(c, pattern) \in c.min..c.max
           /\ AfterKey(c, pattern).next <= c.max
<1>1. c \in ClientOf(c.queue) /\ c.min \in Nat /\ c.max \in Nat /\ c.next \in Nat
  BY DEF IsClient, ClientOf
<1>2. c.min <= c.max /\ c.next <= c.max
  BY DEF Inside
<1>3. CASE pattern = "R"
  <2>1. Random(c) \in Nat
    <3>1. config.draws \in Seq(Nat) /\ Len(config.draws) \in Nat \ {0}
      BY LenProperties, EmptySeq DEF Sane
    <3>2. c.seed + c.drawn \in Nat
      BY <1>1 DEF ClientOf
    <3>3. (c.seed + c.drawn) % Len(config.draws) \in 0..(Len(config.draws) - 1)
      BY <3>1, <3>2
    <3>4. ((c.seed + c.drawn) % Len(config.draws)) + 1 \in 1..Len(config.draws)
      BY <3>1, <3>3
    <3> QED  BY <3>1, <3>4, ElementOfSeq DEF Random
  <2>2. Random(c) % (c.max - c.min + 1) \in 0..(c.max - c.min)
    BY <1>1, <1>2, <2>1
  <2>3. KeyIndex(c, pattern) = c.min + (Random(c) % (c.max - c.min + 1))
    BY <1>3 DEF KeyIndex
  <2>4. AfterKey(c, pattern).next = c.next
    BY <1>1, <1>3, KeyDrawn
  <2> QED  BY <1>1, <1>2, <2>2, <2>3, <2>4
<1>4. CASE pattern # "R"
  <2>1. /\ KeyIndex(c, pattern) = (IF c.next >= c.min THEN c.next ELSE c.min)
        /\ AfterKey(c, pattern).next =
              (IF KeyIndex(c, pattern) + 1 > c.max THEN c.min ELSE KeyIndex(c, pattern) + 1)
    BY <1>1, <1>4, KeyDrawn
  <2> QED  BY <1>1, <1>2, <2>1
<1> QED  BY <1>3, <1>4

LEMMA KeysInside ==
    ASSUME Sane(config), ~HasKeylist, NEW c, IsClient(c), Inside(c), keys_count(c) \in Nat
    PROVE  /\ AfterKeys(c).next <= c.max
           /\ GetKeys(c) \subseteq c.min..c.max
<1> DEFINE n == keys_count(c)
           D == Drawing(c)
           R == { d \in ClientOf(c.queue) : d.min = c.min /\ d.max = c.max /\ Inside(d) }
<1>1. c \in R
  BY DEF IsClient
<1>2. ASSUME NEW d \in R
      PROVE  /\ AfterKey(d, config.get) \in R
             /\ KeyIndex(d, config.get) \in c.min..c.max
  <2> DEFINE e == AfterKey(d, config.get)
  <2>1. d \in ClientOf(c.queue) /\ d.min = c.min /\ d.max = c.max /\ Inside(d)
    OBVIOUS
  <2>2. d.queue = c.queue /\ IsClient(d)
    BY <2>1 DEF IsClient, ClientOf
  <2>3. e \in ClientOf(c.queue) /\ e.min = d.min /\ e.max = d.max
    BY <2>1, KeyDrawn DEF GeneratorOnly, Kept
  <2>4. e.next <= d.max /\ KeyIndex(d, config.get) \in d.min..d.max
    BY <2>1, <2>2, DrawInRange
  <2> HIDE DEF e
  <2>5. Inside(e)
    BY <2>1, <2>3, <2>4 DEF Inside
  <2> QED  BY <2>1, <2>3, <2>4, <2>5 DEF e
<1>3. \A j \in 0..n : D[j] \in R
  <2> HIDE DEF R
  <2> QED  BY <1>1, <1>2, DrawingKeeps
<1>4. n \in 0..n /\ 0..(n - 1) \subseteq 0..n
  OBVIOUS
<1> HIDE DEF n, D
<1>5. D[n].next <= c.max
  BY <1>3, <1>4 DEF Inside
<1>6. \A j \in 0..(n - 1) : KeyIndex(D[j], config.get) \in c.min..c.max
  <2> HIDE DEF R
  <2> QED  BY <1>2, <1>3, <1>4
<1> QED  BY <1>5, <1>6 DEF AfterKeys, GetKeys, GetKey, D, n

LEMMA CreateInRange ==
    ASSUME Sane(config), ~HasKeylist, NEW c, IsClient(c), CanCreate(c), Inside(c)
    PROVE  /\ Inside(CreateRequest(c))
           /\ KeysOf(c) \subseteq c.min..c.max
<1>1. Moved(c).next <= c.max /\ KeysOf(c) \subseteq c.min..c.max
  <2>1. CASE WaitDue(c)
    BY <2>1, DrawInRange DEF Moved, KeysOf
  <2>2. CASE ~WaitDue(c) /\ SetDue(c)
    <3>1. c \in ClientOf(c.queue)
      BY DEF IsClient
    <3>2. AfterObject(c).next = AfterKey(c, config.set).next
      BY <3>1, ObjectDrawn
    <3> QED  BY <2>2, <3>2, DrawInRange DEF Moved, KeysOf, SetKey
  <2>3. CASE ~WaitDue(c) /\ ~SetDue(c)
    <3>1. c \in ClientOf(c.queue) /\ c.get_count < config.ratio[2]
      BY <2>3 DEF IsClient, CanCreate, GetDue
    <3>2. keys_count(c) \in Nat
      BY <3>1, KeysCount
    <3> QED  BY <2>3, <3>2, KeysInside DEF Moved, KeysOf
  <2> QED  BY <2>1, <2>2, <2>3
<1>2. Inside(CreateRequest(c))
  BY <1>1, Created DEF Inside, Kept
<1> QED  BY <1>1, <1>2

\* What every step but Write leaves of a client that writes.
LEMMA StepsRest ==
    ASSUME Types, NEW i \in DOMAIN clients, ClientStep(i), ~Write(i)
    PROVE  /\ UNCHANGED << touched, written >>
           /\ i # Verifier => Rests(clients[i], clients'[i])
<1>1. UNCHANGED << touched, written >>
  BY DEF ClientStep, MovesOn, Writable, FillStart, FillDone, ParseDone, Verify,
         HandleResponse, Compare, Straggler, history
<1>2. ASSUME i # Verifier
      PROVE  Rests(clients[i], clients'[i])
  <2>1. ~Verify(i)
    BY <1>2 DEF Verify
  <2> QED  BY <2>1, MovedOn, Replied, Straggled DEF ClientStep
<1> QED  BY <1>1, <1>2

LEMMA WriterStep ==
    ASSUME Types, NEW i \in DOMAIN clients, Write(i)
    PROVE  /\ i \in Writers
           /\ touched' = touched \cup KeysOf(clients[i])
           /\ written' = written + (IF Sets(clients[i]) THEN 1 ELSE 0)
<1> DEFINE c == clients[i]
           d == CreateRequest(c)
<1>1. /\ i # Verifier /\ Last(d.queue) = Request(c)
      /\ touched' = touched \cup KeysOf(c)
      /\ written' = written + (IF Last(d.queue).type = "set" THEN 1 ELSE 0)
  <2>1. Last(d.queue) = Request(c)
    BY Written
  <2> QED  BY <2>1 DEF Write
<1>2. i \in Writers
  <2>1. config.clients \in Nat
    BY ConfigSane, ShareNat DEF Types
  <2> QED  BY <1>1, <2>1 DEF Types, Writers, Verifier
<1>3. Request(c).type = IF WaitDue(c) THEN "wait" ELSE IF SetDue(c) THEN "set" ELSE "get"
  BY DEF Request, Req
<1> HIDE DEF c, d
<1>4. Request(c).type = "set" <=> Sets(c)
  BY <1>3 DEF Sets
<1> QED  BY <1>1, <1>2, <1>4 DEF c

LEMMA WritersStay ==
    ASSUME UNCHANGED config
    PROVE  /\ Writers' = Writers /\ Verifier' = Verifier /\ Confined' = Confined
           /\ HasKeylist' = HasKeylist /\ Import' = Import /\ Requests' = Requests
           /\ Share' = Share
           /\ \A idx : KeyRange(idx)' = KeyRange(idx)
           /\ \A idx, n : Client(idx, n)' = Client(idx, n)
           /\ \A idx : Runs(idx)' = Runs(idx)
           /\ \A c : Inside(c)' = Inside(c)
BY DEF Writers, Verifier, Confined, HasKeylist, Import, Requests, Share, KeyRange, Client,
       Run, Runs, Inside

LEMMA RangeInit == Init => RangeOK
<1> SUFFICES ASSUME Init, Confined PROVE RangeOK
  BY DEF RangeOK
<1>1. Sane(config)
  BY ConfigSane DEF Init
<1>2. ASSUME NEW i \in Writers
      PROVE  Inside(clients[i])
  <2>1. PICK n \in Nat : clients[i] = Client(0 + i - 1, n)
    BY <1>1, RunsMade DEF Init
  <2>2. config.clients \in Nat
    BY <1>1, ShareNat
  <2>3. 0 + i - 1 = i - 1 /\ i - 1 \in Nat /\ i - 1 < config.clients
    BY <2>2 DEF Writers
  <2> QED  BY <1>1, <2>1, <2>3, InsideMade
<1> QED  BY <1>2 DEF Init, RangeOK

LEMMA RangeStep == Types /\ RangeOK /\ [Next]_vars => RangeOK'
<1> SUFFICES ASSUME Types, RangeOK, [Next]_vars, Confined' PROVE RangeOK'
  BY DEF RangeOK
<1>1. Sane(config) /\ UNCHANGED config
  <2>1. UNCHANGED config
    BY NextIs, ClientStepOnly DEF AssertFails, NextRun, StartVerify, Finish, vars
  <2> QED  BY <2>1, ConfigSane DEF Types
<1>2. /\ Confined /\ Writers' = Writers /\ \A c : Inside(c)' = Inside(c)
      /\ touched \subseteq config.minimum..config.maximum
      /\ \A i \in Writers : Inside(clients[i])
  BY <1>1, WritersStay DEF RangeOK
<1>3. SUFFICES /\ touched' \subseteq config.minimum..config.maximum
               /\ \A i \in Writers : Inside(clients'[i])
  <2>1. \A i \in Writers : Inside(clients'[i]) => Inside(clients[i])'
    BY <1>1 DEF Inside
  <2> QED  BY <1>1, <1>2, <1>3, <2>1 DEF RangeOK
<1>4. Writers \subseteq DOMAIN clients
  BY <1>1, ShareNat DEF Types, Writers, Verifier
<1>5. ASSUME NEW i \in DOMAIN clients, ClientStep(i), ~Write(i)
      PROVE  /\ UNCHANGED touched
             /\ \A j \in Writers : Inside(clients'[j])
  <2>1. UNCHANGED touched /\ Only(i) /\ (i # Verifier => Rests(clients[i], clients'[i]))
    BY <1>5, StepsRest, ClientStepOnly
  <2>2. Verifier \notin Writers
    BY <1>1, ShareNat DEF Verifier, Writers
  <2> QED  BY <1>2, <1>4, <2>1, <2>2 DEF Only, Rests, Inside
<1>6. ASSUME NEW i \in DOMAIN clients, Write(i)
      PROVE  /\ touched' \subseteq config.minimum..config.maximum
             /\ \A j \in Writers : Inside(clients'[j])
  <2>1. /\ i \in Writers /\ IsClient(clients[i]) /\ Inside(clients[i])
        /\ CanCreate(clients[i])
    BY <1>2, <1>6, WriterStep, Written DEF Types
  <2>2. /\ Inside(CreateRequest(clients[i]))
        /\ KeysOf(clients[i]) \subseteq clients[i].min..clients[i].max
    BY <1>1, <1>2, <2>1, CreateInRange DEF Confined
  <2>3. clients[i].min \in Nat /\ clients[i].max \in Nat
        /\ config.minimum \in Nat /\ config.maximum \in Nat
    BY <1>1, <2>1, ShareNat DEF IsClient, ClientOf
  <2>4. KeysOf(clients[i]) \subseteq config.minimum..config.maximum
    BY <2>1, <2>2, <2>3 DEF Inside
  <2>5. touched' \subseteq config.minimum..config.maximum
    BY <1>2, <1>6, <2>4, WriterStep
  <2> QED  BY <1>2, <1>4, <1>6, <2>2, <2>5, Written DEF Only
<1>7. CASE NextRun
  <2>1. config.set # "P"
    <3>1. run_id < config.runs /\ run_id \in Nat \ {0}
      BY <1>7 DEF NextRun, Types
    <3> QED  BY <1>2, <3>1 DEF Confined
  <2>2. \A j \in Writers : Inside(clients'[j])
    <3> TAKE j \in Writers
    <3>1. next_client_idx \in Nat
      BY DEF Types
    <3>2. PICK n \in Nat : clients'[j] = Client(next_client_idx + j - 1, n)
      BY <1>1, <1>7, <3>1, RunsMade DEF NextRun
    <3>3. next_client_idx + j - 1 \in Nat
      BY <1>1, <1>7, <3>1, RunsMade DEF NextRun
    <3> QED  BY <1>1, <1>2, <2>1, <3>2, <3>3, InsideMade
  <2> QED  BY <1>2, <1>7, <2>2 DEF NextRun
<1>8. CASE StartVerify
  <2>1. RunOver /\ clients' = Append(clients, Client(next_client_idx, config.garbage))
        /\ UNCHANGED touched
    BY <1>8 DEF StartVerify, history
  <2> QED  BY <1>2, <2>1, VerifierAdded
<1>9. ASSUME UNCHANGED << clients, touched >>
      PROVE  touched' \subseteq config.minimum..config.maximum
             /\ \A j \in Writers : Inside(clients'[j])
  BY <1>2, <1>9
<1>10. (\E i \in DOMAIN clients : AssertFails(i)) \/ Finish \/ UNCHANGED vars
       => UNCHANGED << clients, touched >>
  BY DEF AssertFails, Finish, vars, history
<1> QED  BY <1>2, <1>5, <1>6, <1>7, <1>8, <1>9, <1>10, NextIs

\* main hands out the keys (setup_client of client_group): no client draws or
\* writes a key below key-minimum or above key-maximum.
THEOREM KeysConfined == Spec => []KeysInRange
<1>1. Init => Types /\ RangeOK
  BY TypesInit, RangeInit
<1>2. Types /\ RangeOK /\ [Next]_vars => Types' /\ RangeOK'
  BY TypesStep, RangeStep
<1>3. RangeOK => KeysInRange
  BY DEF RangeOK, KeysInRange, Confined
<1> QED  BY <1>1, <1>2, <1>3, PTL DEF Spec

-----------------------------------------------------------------------------
(* Requests and replies of a client that writes                            *)

LEMMA RequestsNat ==
    ASSUME Sane(config)
    PROVE  Requests \in Nat /\ config.pipeline \in Nat \ {0}
<1>1. /\ config.maximum - config.minimum \in Nat /\ config.requests \in Nat
      /\ config.pipeline \in Nat \ {0} /\ config.clients \in Nat \ {0}
  <2>1. config.requests \in Nat /\ config.pipeline \in Nat \ {0}
    BY DEF Sane
  <2>2. config.maximum - config.minimum \in Nat
    BY ShareNat
  <2> QED  BY <2>1, <2>2, ShareNat
<1>2. (config.maximum - config.minimum) \div config.clients + 1 \in Nat
  <2> DEFINE r == config.maximum - config.minimum
             n == config.clients
  <2>1. r \in Nat /\ n \in Nat \ {0}
    BY <1>1
  <2> HIDE DEF r, n
  <2>2. r \div n \in Nat
    BY <2>1
  <2>3. r \div n + 1 \in Nat
    BY <2>2
  <2> QED  BY <2>3 DEF r, n
<1> QED  BY <1>1, <1>2 DEF Requests

\* The requests a client has sent, whatever m_reqs_generated began with.
Sent(c) == c.generated - c.unset

\* Every request waits for its reply or has it, until a client has ended; then it
\* has the replies it needs. The pipeline leads beyond these.
Pace(c, requests, pipeline) ==
    /\ c.pc # "ended" => Sent(c) = c.processed + Len(c.queue)
    /\ c.pc = "ended" => requests > 0 /\ c.processed >= requests /\ Sent(c) >= c.processed
    /\ requests > 0 => Sent(c) <= requests + pipeline - 1

Paced(c) == Pace(c, Requests, config.pipeline)

PacedOK == \A i \in Writers : Paced(clients[i])

LEMMA PacedMade ==
    ASSUME Sane(config), NEW idx \in Nat, NEW n \in Nat
    PROVE  Paced(Client(idx, n))
<1> DEFINE c == Client(idx, n)
<1>1. c.generated = n /\ c.unset = n /\ c.processed = 0 /\ c.queue = << >> /\ c.pc = "idle"
  BY ClientMade
<1>2. Requests \in Nat /\ config.pipeline \in Nat \ {0} /\ Len(<< >>) = 0
  BY RequestsNat, EmptySeq
<1> HIDE DEF c
<1>2a. Sent(c) = 0
  BY <1>1 DEF Sent
<1>3. Paced(c)
  BY <1>1, <1>2, <1>2a DEF Paced, Pace
<1> QED  BY <1>3 DEF c

LEMMA PacedSent ==
    ASSUME NEW c, NEW d, NEW r \in Nat, NEW p \in Nat,
           Pace(c, r, p), c.pc # "ended", d.pc # "ended",
           Sent(c) \in Int, c.processed \in Nat, Len(c.queue) \in Nat,
           Sent(d) = Sent(c) + 1, d.processed = c.processed,
           Len(d.queue) = Len(c.queue) + 1,
           r > 0 => c.processed < r /\ Len(c.queue) < p
    PROVE  Pace(d, r, p)
<1> DEFINE a == Sent(c)
           b == c.processed
           l == Len(c.queue)
<1>1. a \in Int /\ b \in Nat /\ l \in Nat /\ a = b + l /\ (r > 0 => b < r /\ l < p)
  BY DEF Pace
<1> HIDE DEF a, b, l
<1>2. a + 1 = b + (l + 1) /\ (r > 0 => a + 1 <= r + p - 1)
  BY <1>1
<1> QED  BY <1>2 DEF Pace, a, b, l

LEMMA PacedReplied ==
    ASSUME NEW c, NEW d, NEW r \in Nat, NEW p \in Nat,
           Pace(c, r, p), c.pc # "ended", d.pc # "ended",
           Sent(c) \in Int, c.processed \in Nat, Len(c.queue) \in Nat,
           Sent(d) = Sent(c), d.processed = c.processed + 1,
           Len(d.queue) = Len(c.queue) - 1
    PROVE  Pace(d, r, p)
<1> DEFINE a == Sent(c)
           b == c.processed
           l == Len(c.queue)
<1>1. a \in Int /\ b \in Nat /\ l \in Nat /\ a = b + l /\ (r > 0 => a <= r + p - 1)
  BY DEF Pace
<1> HIDE DEF a, b, l
<1>2. a = (b + 1) + (l - 1)
  BY <1>1
<1> QED  BY <1>1, <1>2 DEF Pace, a, b, l

LEMMA PacedClient ==
    ASSUME Types, NEW i \in DOMAIN clients, i # Verifier, ClientStep(i), Paced(clients[i])
    PROVE  Paced(clients'[i])
<1> DEFINE c == clients[i]
           d == clients'[i]
<1>0. Paced(c)
  OBVIOUS
<1>. SUFFICES Paced(d)
  OBVIOUS
<1>1. Sane(config) /\ IsClient(c)
  BY ConfigSane DEF Types
<1>2. /\ c.generated \in Nat /\ c.unset \in Nat /\ c.processed \in Nat
      /\ c.queue \in Seq(Range(c.queue))
      /\ Len(c.queue) \in Nat /\ Requests \in Nat /\ config.pipeline \in Nat \ {0}
  BY <1>1, RequestsNat, LenProperties DEF IsClient, ClientOf
<1>2a. Sent(c) \in Int
  BY <1>2 DEF Sent
<1>2b. ASSUME Rests(c, d)
      PROVE  Sent(d) = Sent(c)
  <2> HIDE DEF c, d
  <2> QED  BY <1>2b DEF Rests, Sent
<1>3. CASE MovesOn(i)
  <2>1. /\ Sent(d) = Sent(c) /\ d.queue = c.queue /\ d.processed = c.processed
        /\ d.pc = "ended" => finished(c)
        /\ c.pc # "ended"
    BY <1>3, <1>2b, MovedOn
  <2> HIDE DEF c, d
  <2> QED  BY <1>0, <1>2, <1>2a, <2>1 DEF Paced, Pace, finished
<1>4. CASE Write(i)
  <2>1. /\ d.generated = c.generated + 1 /\ d.unset = c.unset /\ d.processed = c.processed
        /\ d.queue = Append(c.queue, Request(c)) /\ d.pc = "fill" /\ c.pc = "fill"
        /\ MayCreate(c)
    BY <1>1, <1>4, Written, Created DEF Kept
  <2>2. Len(d.queue) = Len(c.queue) + 1
    BY <1>2, <2>1, AppendAny
  <2>4. Sent(d) = Sent(c) + 1
    <3> HIDE DEF c, d
    <3> QED  BY <1>2, <2>1 DEF Sent
  <2>3. /\ d.processed = c.processed
        /\ d.pc # "ended" /\ c.pc # "ended" /\ Len(c.queue) < config.pipeline
        /\ Requests > 0 => c.processed < Requests
    BY <1>2, <2>1 DEF MayCreate, finished
  <2> HIDE DEF c, d
  <2> QED  BY <1>0, <1>2, <1>2a, <2>2, <2>3, <2>4, PacedSent DEF Paced
<1>5. CASE HandleResponse(i) \/ Compare(i)
  <2>1. /\ Sent(d) = Sent(c) /\ d.processed = c.processed + 1
        /\ c.queue # << >> /\ d.queue = Tail(c.queue)
        /\ c.pc # "ended" /\ d.pc = "parse"
    BY <1>5, <1>2b, Replied
  <2>2. Len(d.queue) = Len(c.queue) - 1
    BY <1>2, <2>1, TailAny
  <2>3. /\ Sent(d) = Sent(c) /\ d.processed = c.processed + 1
        /\ d.pc # "ended" /\ c.pc # "ended"
    BY <2>1
  <2> HIDE DEF c, d
  <2> QED  BY <1>0, <1>2, <1>2a, <2>2, <2>3, PacedReplied DEF Paced
<1>6. CASE Straggler(i)
  <2>1. /\ Sent(d) = Sent(c) /\ d.processed = c.processed
        /\ c.pc = "ended" /\ d.pc = "ended"
    BY <1>6, <1>2b, Straggled
  <2> HIDE DEF c, d
  <2> QED  BY <1>0, <1>2, <2>1 DEF Paced, Pace
<1> QED  BY <1>3, <1>4, <1>5, <1>6 DEF ClientStep, Verify

\* What every step of a client keeps of the others, and of those main makes.
LEMMA WritersKept ==
    ASSUME Types, [Next]_vars
    PROVE  /\ Sane(config) /\ UNCHANGED config /\ Writers \subseteq DOMAIN clients
           /\ Verifier \notin Writers /\ next_client_idx \in Nat
           /\ \/ \E i \in DOMAIN clients : /\ ClientStep(i) /\ Only(i)
                                           /\ UNCHANGED << main, next_client_idx >>
              \/ NextRun /\ clients' \in Runs(next_client_idx) /\ run_id' = run_id + 1
              \/ /\ \A j \in Writers : clients'[j] = clients[j]
                 /\ UNCHANGED << run_id, store, results, history >>
                 /\ \/ StartVerify /\ phase' = "verify"
                    \/ Finish /\ phase' = "done"
                    \/ UNCHANGED phase \/ phase' = "assert_failed"
<1>1. UNCHANGED config
  BY NextIs, ClientStepOnly DEF AssertFails, NextRun, StartVerify, Finish, vars
<1>2. Sane(config) /\ next_client_idx \in Nat
  BY ConfigSane DEF Types
<1>3. Writers \subseteq DOMAIN clients /\ Verifier \notin Writers
  BY <1>2, ShareNat DEF Types, Writers, Verifier
<1>4. ASSUME NEW i \in DOMAIN clients, ClientStep(i)
      PROVE  Only(i) /\ UNCHANGED << main, next_client_idx >>
  BY <1>4, ClientStepOnly
<1>5. ASSUME NEW i \in DOMAIN clients, AssertFails(i)
      PROVE  UNCHANGED << clients, run_id, store, results, history >> /\ phase' = "assert_failed"
  BY <1>5 DEF AssertFails
<1>6. CASE NextRun
  BY <1>1, <1>2, <1>3, <1>6 DEF NextRun
<1>7. CASE StartVerify
  <2>1. /\ RunOver /\ clients' = Append(clients, Client(next_client_idx, config.garbage))
        /\ phase' = "verify" /\ UNCHANGED << run_id, store, results, history >>
    BY <1>7 DEF StartVerify
  <2> QED  BY <1>1, <1>2, <1>3, <1>7, <2>1, VerifierAdded
<1>8. CASE Finish
  BY <1>1, <1>2, <1>3, <1>8 DEF Finish
<1>9. CASE UNCHANGED vars
  BY <1>1, <1>2, <1>3, <1>9 DEF vars, main
<1> QED  BY <1>1, <1>2, <1>3, <1>4, <1>5, <1>6, <1>7, <1>8, <1>9, NextIs

LEMMA PacedInit == Init => PacedOK
<1> SUFFICES ASSUME Init, NEW i \in Writers PROVE Paced(clients[i])
  BY DEF PacedOK
<1>1. Sane(config) /\ clients \in Runs(0)
  BY ConfigSane DEF Init
<1> QED  BY <1>1, RunsMade, PacedMade

LEMMA PacedStep == Types /\ PacedOK /\ [Next]_vars => PacedOK'
<1> SUFFICES ASSUME Types, PacedOK, [Next]_vars PROVE PacedOK'
  OBVIOUS
<1>1. /\ Sane(config) /\ UNCHANGED config /\ Writers \subseteq DOMAIN clients
      /\ Verifier \notin Writers /\ next_client_idx \in Nat
  BY WritersKept
<1>2. SUFFICES ASSUME NEW j \in Writers PROVE Paced(clients'[j])
  BY <1>1, WritersStay DEF PacedOK, Paced, Pace, Sent
<1>3. Paced(clients[j]) /\ j \in DOMAIN clients /\ j # Verifier
  BY <1>1 DEF PacedOK
<1>4. ASSUME NEW i \in DOMAIN clients, ClientStep(i), Only(i)
      PROVE  Paced(clients'[j])
  BY <1>3, <1>4, PacedClient DEF Only
<1>5. ASSUME clients' \in Runs(next_client_idx)
      PROVE  Paced(clients'[j])
  BY <1>1, <1>5, RunsMade, PacedMade
<1>6. ASSUME \A k \in Writers : clients'[k] = clients[k]
      PROVE  Paced(clients'[j])
  BY <1>3, <1>6
<1> QED  BY <1>4, <1>5, <1>6, WritersKept

-----------------------------------------------------------------------------
(* An 'allkeys' run leaves no key out                                      *)

Whole ==
    /\ config.allkeys /\ ~HasKeylist
    /\ "R" \notin {config.set, config.get} /\ config.wait = 0

Missable == IF config.set = "P" /\ config.get = "P" THEN {} ELSE {config.maximum}

AllTouched(t) == config.minimum..config.maximum \ t \subseteq Missable

\* Once through its share a client has drawn n keys in their order.
Walked(c, n, t) ==
    /\ n <= c.max - c.min => c.next = IF n = 0 THEN 0 ELSE c.min + n
    /\ \A k \in c.min..c.max : k - c.min < n => k \in t

\* A key at least for every request.
Walk(c, t) == \E n \in Nat : n >= Sent(c) /\ Walked(c, n, t)

\* The shares are those of the first run; a later run adds to what is touched.
CoverOK ==
    Whole =>
        /\ run_id = 1 => \A i \in Writers : /\ clients[i].min = KeyRange(i - 1)[1]
                                            /\ clients[i].max = KeyRange(i - 1)[2]
                                            /\ Walk(clients[i], touched)
        /\ run_id > 1 \/ phase \in {"verify", "done"} => AllTouched(touched)

\* The same for bare numbers: g keys are drawn, k is drawn now.
LEMMA WalkNext ==
    ASSUME NEW lo \in Nat, NEW hi \in Nat, NEW next \in Nat, NEW g \in Nat,
           g <= hi - lo => next = IF g = 0 THEN 0 ELSE lo + g,
           NEW k, k = IF next >= lo THEN next ELSE lo,
           NEW after, after = IF k + 1 > hi THEN lo ELSE k + 1
    PROVE  /\ g <= hi - lo => k = lo + g
           /\ g + 1 <= hi - lo => after = lo + g + 1
<1>1. ASSUME g <= hi - lo
      PROVE  k = lo + g
  BY <1>1
<1>2. ASSUME g + 1 <= hi - lo
      PROVE  after = lo + g + 1
  <2>1. k = lo + g
    BY <1>1, <1>2
  <2> QED  BY <1>2, <2>1
<1> QED  BY <1>1, <1>2

LEMMA WalkKey ==
    ASSUME NEW c, NEW q, c \in ClientOf(q), NEW n \in Nat, NEW t, Walked(c, n, t),
           NEW pattern, pattern # "R"
    PROVE  Walked(AfterKey(c, pattern), n + 1, t \cup {KeyIndex(c, pattern)})
<1> DEFINE d == AfterKey(c, pattern)
           k == KeyIndex(c, pattern)
           lo == c.min
           hi == c.max
<1>1. lo \in Nat /\ hi \in Nat /\ c.next \in Nat
  BY DEF ClientOf
<1>2. /\ d.min = lo /\ d.max = hi
      /\ k = (IF c.next >= lo THEN c.next ELSE lo)
      /\ d.next = (IF k + 1 > hi THEN lo ELSE k + 1)
  BY KeyDrawn DEF GeneratorOnly, Kept
<1>3. /\ n <= hi - lo => c.next = IF n = 0 THEN 0 ELSE lo + n
      /\ \A x \in lo..hi : x - lo < n => x \in t
  BY DEF Walked
<1> HIDE DEF d, k, lo, hi
<1>4. /\ n <= hi - lo => k = lo + n
      /\ n + 1 <= hi - lo => d.next = lo + n + 1
  BY <1>1, <1>2, <1>3, WalkNext
<1>5. n + 1 <= d.max - d.min => d.next = IF n + 1 = 0 THEN 0 ELSE d.min + (n + 1)
  BY <1>1, <1>2, <1>4
<1>6. ASSUME NEW x \in lo..hi, x - lo < n + 1
      PROVE  x \in t \cup {k}
  <2>1. CASE x - lo < n
    BY <1>3, <2>1
  <2>2. CASE x - lo >= n
    <3>1. x = lo + n /\ n <= hi - lo
      BY <1>1, <1>6, <2>2
    <3> QED  BY <1>4, <3>1
  <2> QED  BY <1>1, <2>1, <2>2
<1>7. Walked(d, n + 1, t \cup {k})
  BY <1>2, <1>5, <1>6 DEF Walked
<1> QED  BY <1>7 DEF d, k

LEMMA WalkKeys ==
    ASSUME ~HasKeylist, config.get # "R", NEW c, NEW q, c \in ClientOf(q), keys_count(c) \in Nat,
           NEW n \in Nat, NEW t, Walked(c, n, t)
    PROVE  Walked(AfterKeys(c), n + keys_count(c), t \cup GetKeys(c))
<1> DEFINE m == keys_count(c)
           D == Drawing(c)
           T(j) == t \cup { GetKey(D[x]) : x \in 0..(j - 1) }
           K == { j \in Nat : j <= m => Walked(D[j], n + j, T(j)) }
<1>1. /\ m \in Nat /\ D[0] = c
      /\ \A j \in 0..(m - 1) : D[j + 1] = AfterKey(D[j], config.get)
      /\ \A j \in 0..m : D[j] \in ClientOf(q)
  BY DrawingIs, KeysDrawn
<1>2. AfterKeys(c) = D[m] /\ T(m) = t \cup GetKeys(c)
  BY DEF AfterKeys, GetKeys
<1> HIDE DEF m, D
<1>3. 0 \in K
  <2>1. T(0) = t
    OBVIOUS
  <2> HIDE DEF T
  <2> QED  BY <1>1, <2>1
<1>4. ASSUME NEW j \in K PROVE j + 1 \in K
  <2>1. ASSUME j + 1 <= m
        PROVE  Walked(D[j + 1], n + (j + 1), T(j + 1))
    <3>1. j \in 0..(m - 1) /\ j \in 0..m /\ Walked(D[j], n + j, T(j)) /\ n + j \in Nat
      BY <1>1, <2>1
    <3>2. Walked(AfterKey(D[j], config.get), (n + j) + 1, T(j) \cup {KeyIndex(D[j], config.get)})
      <4> HIDE DEF T, K
      <4> QED  BY <1>1, <3>1, WalkKey
    <3>3. T(j + 1) = T(j) \cup {KeyIndex(D[j], config.get)}
      <4>1. GetKey(D[j]) = KeyIndex(D[j], config.get)
        BY DEF GetKey
      <4>2. 0..((j + 1) - 1) = 0..(j - 1) \cup {j}
        BY <3>1
      <4> QED  BY <4>1, <4>2
    <3>4. n + (j + 1) = (n + j) + 1
      BY <3>1
    <3> QED  BY <1>1, <3>1, <3>2, <3>3, <3>4
  <2> HIDE DEF T
  <2> QED  BY <2>1
<1> HIDE DEF T
<1>5. K = Nat
  <2> HIDE DEF K
  <2>1. K \in SUBSET Nat
    BY DEF K
  <2> QED  BY <1>3, <1>4, <2>1, NatInduct
<1>6. Walked(D[m], n + m, T(m))
  BY <1>1, <1>5
<1> QED  BY <1>2, <1>6 DEF m

LEMMA WalkOn ==
    ASSUME Sane(config), Whole, NEW c, IsClient(c), CanCreate(c), NEW t, Walk(c, t)
    PROVE  Walk(CreateRequest(c), t \cup KeysOf(c))
<1> DEFINE d == CreateRequest(c)
           u == t \cup KeysOf(c)
<1>1. ~WaitDue(c) /\ ~HasKeylist /\ config.set # "R" /\ config.get # "R"
  BY DEF Whole, WaitDue
<1>2. c \in ClientOf(c.queue) /\ c.generated \in Nat /\ c.unset \in Nat
  BY DEF IsClient, ClientOf
<1>3. PICK n \in Nat : n >= Sent(c) /\ Walked(c, n, t)
  BY DEF Walk
<1>4. PICK m \in Nat \ {0} : Walked(Moved(c), n + m, u)
  <2>1. CASE SetDue(c)
    <3>1. Walked(AfterKey(c, config.set), n + 1, t \cup {KeyIndex(c, config.set)})
      BY <1>1, <1>2, <1>3, WalkKey
    <3>2. u = t \cup {KeyIndex(c, config.set)} /\ Moved(c) = AfterObject(c)
      BY <1>1, <2>1 DEF KeysOf, SetKey, Moved
    <3>3. /\ AfterObject(c).next = AfterKey(c, config.set).next
          /\ AfterObject(c).min = AfterKey(c, config.set).min
          /\ AfterObject(c).max = AfterKey(c, config.set).max
      BY <1>1, <1>2, ObjectDrawn, KeyDrawn DEF GeneratorOnly, Kept
    <3>4. Walked(Moved(c), n + 1, u)
      <4> HIDE DEF u
      <4> QED  BY <3>1, <3>2, <3>3 DEF Walked
    <3> QED  BY <3>4
  <2>2. CASE ~SetDue(c)
    <3>1. keys_count(c) \in Nat \ {0}
      BY <1>1, <1>2, <2>2, KeysCount DEF CanCreate, GetDue
    <3>2. u = t \cup GetKeys(c) /\ Moved(c) = AfterKeys(c)
      BY <1>1, <2>2 DEF KeysOf, Moved
    <3>3. Walked(Moved(c), n + keys_count(c), u)
      BY <1>1, <1>2, <1>3, <3>1, <3>2, WalkKeys
    <3> QED  BY <3>1, <3>3
  <2> QED  BY <2>1, <2>2
<1>5. /\ Moved(c).min = c.min /\ Moved(c).max = c.max
  <2>1. CASE SetDue(c)
    BY <1>1, <1>2, <2>1, ObjectDrawn DEF Moved, GeneratorOnly, Kept
  <2>2. CASE ~SetDue(c)
    <3>1. keys_count(c) \in Nat
      BY <1>1, <1>2, <2>2, KeysCount DEF CanCreate, GetDue
    <3> QED  BY <1>1, <1>2, <2>2, <3>1, KeysDrawn DEF Moved, GeneratorOnly, Kept
  <2> QED  BY <2>1, <2>2
<1>6. /\ d.min = c.min /\ d.max = c.max /\ d.next = Moved(c).next
      /\ d.generated = c.generated + 1 /\ d.unset = c.unset
  BY Created DEF Kept
<1> HIDE DEF d, u
<1>7. Walked(d, n + m, u)
  BY <1>4, <1>5, <1>6 DEF Walked
<1>8. n + m \in Nat /\ n + m >= Sent(d)
  BY <1>2, <1>3, <1>6 DEF Sent
<1>9. Walk(d, u)
  BY <1>7, <1>8 DEF Walk
<1> QED  BY <1>9 DEF d, u

\* The client that is given a key of the range.
LEMMA Dealt ==
    ASSUME Sane(config), config.set = "P", NEW k \in config.minimum..config.maximum
    PROVE  \E i \in Writers : /\ KeyRange(i - 1)[1] <= k /\ k <= KeyRange(i - 1)[2]
                              /\ k - KeyRange(i - 1)[1] < Share
                              /\ config.minimum <= KeyRange(i - 1)[1]
<1> DEFINE n == config.clients
           s == Share
           r == config.maximum - config.minimum
           x == k - config.minimum
           q == x \div s
<1>1. /\ s \in Nat \ {0} /\ n \in Nat \ {0} /\ config.minimum \in Nat
      /\ config.maximum \in Nat /\ config.minimum <= config.maximum
      /\ r \in Nat /\ x \in Nat /\ x <= r
  BY ShareNat
<1>2. r < s * n
  <2>1. n * (r \div n) \in Nat /\ r \div n \in Nat /\ r < n * (r \div n) + n
    <3> HIDE DEF n, r
    <3> QED  BY <1>1, DivBounds
  <2>2. s = r \div n + 1
    BY DEF Share
  <2> DEFINE p == r \div n
  <2>3. (p + 1) * n = n * p + n
    <3> HIDE DEF p, n
    <3> QED  BY <1>1, <2>1 DEF p
  <2> HIDE DEF s, n, r
  <2> QED  BY <2>1, <2>2, <2>3
<1>3. q \in Nat /\ s * q \in Nat /\ s * q <= x /\ x < s * q + s
  <2> HIDE DEF s, x
  <2> QED  BY <1>1, DivBounds
<1> HIDE DEF s, q
<1>4. q < n
  <2> SUFFICES ASSUME n <= q PROVE FALSE
    BY <1>1, <1>3
  <2>1. s * n <= s * q /\ s * n \in Nat
    BY <1>1, <1>3, ProductGrows
  <2> QED  BY <1>1, <1>2, <1>3, <2>1
<1>5. q + 1 \in Writers /\ (q + 1) - 1 = q
  BY <1>1, <1>3, <1>4 DEF Writers
<1>6. /\ KeyRange(q)[1] = config.minimum + s * q
      /\ KeyRange(q)[2] = IF q = n - 1 THEN config.maximum ELSE config.minimum + s * (q + 1)
  BY DEF KeyRange, s
<1>7. s * (q + 1) = s * q + s
  BY <1>1, <1>3
<1>8. /\ KeyRange(q)[1] <= k /\ k <= KeyRange(q)[2] /\ k - KeyRange(q)[1] < s
      /\ config.minimum <= KeyRange(q)[1]
  <2>1. CASE q = n - 1
    BY <1>1, <1>3, <1>6, <2>1
  <2>2. CASE q # n - 1
    BY <1>1, <1>3, <1>6, <1>7, <2>2
  <2> QED  BY <2>1, <2>2
<1> QED  BY <1>5, <1>8 DEF s

LEMMA RunCovers ==
    ASSUME Types, PacedOK, CoverOK, Whole, RunOver, run_id = 1
    PROVE  AllTouched(touched)
<1>1. /\ Sane(config) /\ Requests \in Nat /\ Share \in Nat \ {0}
      /\ config.clients \in Nat \ {0} /\ config.minimum \in Nat
      /\ config.maximum \in Nat /\ config.minimum <= config.maximum
  BY ConfigSane, RequestsNat, ShareNat DEF Types
<1>2. SUFFICES ASSUME NEW k \in config.minimum..config.maximum, k \notin touched
               PROVE  k \in Missable
  BY DEF AllTouched
<1>3. ASSUME NEW i \in Writers, KeyRange(i - 1)[1] <= k, k <= KeyRange(i - 1)[2]
      PROVE  k - KeyRange(i - 1)[1] >= Requests
  <2> DEFINE c == clients[i]
             lo == KeyRange(i - 1)[1]
             hi == KeyRange(i - 1)[2]
  <2>1. c.min = lo /\ c.max = hi /\ Walk(c, touched) /\ c.pc = "ended"
    BY DEF CoverOK, RunOver
  <2>2. IsClient(c)
    <3>1. i \in DOMAIN clients
      BY DEF Types, RunOver
    <3> QED  BY <3>1 DEF Types
  <2>3. Sent(c) \in Int /\ c.processed \in Nat /\ lo \in Nat /\ hi \in Nat
    <3>1. c.generated \in Nat /\ c.unset \in Nat /\ c.processed \in Nat
          /\ c.min \in Nat /\ c.max \in Nat
      BY <2>2 DEF IsClient, ClientOf
    <3> HIDE DEF c, lo, hi
    <3> QED  BY <2>1, <3>1 DEF Sent
  <2>4. PICK n \in Nat : n >= Requests /\ Walked(c, n, touched)
    <3>1. Pace(c, Requests, config.pipeline)
      BY DEF PacedOK, Paced
    <3>2. PICK n \in Nat : n >= Sent(c) /\ Walked(c, n, touched)
      BY <2>1 DEF Walk
    <3>3. n >= Requests
      BY <1>1, <2>1, <2>3, <3>1, <3>2 DEF Pace
    <3> QED  BY <3>2, <3>3
  <2> HIDE DEF c, lo, hi
  <2>5. lo <= k /\ k <= hi
    BY <1>3 DEF lo, hi
  <2>6. k \in lo..hi
    BY <1>1, <2>3, <2>5
  <2>7. ~(k - lo < n)
    BY <1>2, <2>1, <2>4, <2>6 DEF Walked
  <2>8. k - lo >= Requests
    BY <1>1, <2>3, <2>4, <2>7
  <2> QED  BY <2>8 DEF lo
<1>4. CASE config.set = "P"
  <2>1. PICK i \in Writers : /\ KeyRange(i - 1)[1] <= k /\ k <= KeyRange(i - 1)[2]
                             /\ k - KeyRange(i - 1)[1] < Share
                             /\ config.minimum <= KeyRange(i - 1)[1]
    BY <1>1, <1>4, Dealt
  <2> DEFINE lo == KeyRange(i - 1)[1]
  <2>2. lo \in Nat
    BY <1>1, KeyRangeNat DEF Writers
  <2>3. k - lo >= Requests /\ k - lo < Share /\ config.minimum <= lo
    BY <1>3, <2>1
  <2> HIDE DEF lo
  <2>4. CASE config.get = "P"
    <3>1. Requests = Share
      BY <1>1, <1>4, <2>4 DEF Requests, Share, Whole
    <3> QED  BY <1>1, <2>2, <2>3, <3>1
  <2>5. CASE config.get # "P"
    <3>1. Requests >= config.maximum - config.minimum /\ Missable = {config.maximum}
      BY <1>1, <2>5 DEF Requests, Whole, Missable
    <3> QED  BY <1>1, <2>2, <2>3, <3>1
  <2> QED  BY <2>4, <2>5
<1>5. CASE config.set # "P"
  <2>1. Requests >= config.maximum - config.minimum /\ Missable = {config.maximum}
    BY <1>1, <1>5 DEF Requests, Whole, Missable
  <2>2. 1 \in Writers /\ KeyRange(1 - 1)[1] = config.minimum /\ KeyRange(1 - 1)[2] = config.maximum
    BY <1>1, <1>5 DEF Writers, KeyRange, Whole
  <2>3. k - config.minimum >= Requests
    BY <1>1, <1>3, <2>2
  <2> QED  BY <1>1, <2>1, <2>3
<1> QED  BY <1>4, <1>5

LEMMA WholeStays ==
    ASSUME UNCHANGED config
    PROVE  /\ Whole' = Whole /\ \A t : AllTouched(t)' = AllTouched(t)
           /\ \A c, t : Walk(c, t)' = Walk(c, t)
BY DEF Whole, HasKeylist, Import, AllTouched, Missable, Walk, Walked, Sent

LEMMA CoverInit == Init => CoverOK
<1> SUFFICES ASSUME Init PROVE CoverOK
  OBVIOUS
<1>1. Sane(config) /\ config.clients \in Nat
  BY ConfigSane, ShareNat DEF Init
<1>2. ASSUME NEW i \in Writers
      PROVE  /\ clients[i].min = KeyRange(i - 1)[1] /\ clients[i].max = KeyRange(i - 1)[2]
             /\ Walk(clients[i], touched)
  <2>1. i - 1 \in Nat /\ 0 + i - 1 = i - 1
    BY <1>1 DEF Writers
  <2>0. PICK n \in Nat : clients[i] = Client(0 + i - 1, n)
    BY <1>1, RunsMade DEF Init
  <2> DEFINE c == Client(i - 1, n)
  <2>2. clients[i] = c
    BY <2>0, <2>1
  <2>3. /\ c.min = KeyRange(i - 1)[1] /\ c.max = KeyRange(i - 1)[2]
        /\ c.next = 0 /\ c.generated = n /\ c.unset = n /\ IsClient(c)
    BY <1>1, <2>1, ClientMade
  <2>4. c.min \in Nat /\ c.max \in Nat
    BY <2>3 DEF IsClient, ClientOf
  <2> HIDE DEF c
  <2>5. Walk(c, touched)
    <3>1. Walked(c, 0, touched)
      BY <2>3, <2>4 DEF Walked
    <3>2. Sent(c) = 0
      BY <2>3 DEF Sent
    <3> QED  BY <3>1, <3>2 DEF Walk
  <2> QED  BY <2>2, <2>3, <2>5
<1> QED  BY <1>2 DEF CoverOK, Init

LEMMA CoverStep == Types /\ PacedOK /\ CoverOK /\ [Next]_vars => CoverOK'
<1> SUFFICES ASSUME Types, PacedOK, CoverOK, [Next]_vars, Whole' PROVE CoverOK'
  BY DEF CoverOK
<1>1. /\ Sane(config) /\ UNCHANGED config /\ Writers \subseteq DOMAIN clients
      /\ Verifier \notin Writers /\ next_client_idx \in Nat
  BY WritersKept
<1>2. Whole
  BY <1>1, WholeStays
<1> DEFINE Share1(c, i) == c.min = KeyRange(i - 1)[1] /\ c.max = KeyRange(i - 1)[2]
           Walks(cs, t) == \A i \in Writers : Share1(cs[i], i) /\ Walk(cs[i], t)
<1>3. /\ run_id = 1 => Walks(clients, touched)
      /\ run_id > 1 \/ phase \in {"verify", "done"} => AllTouched(touched)
      /\ run_id \in Nat \ {0}
  BY <1>2 DEF CoverOK, Types
<1>4. SUFFICES /\ run_id' = 1 => Walks(clients', touched')
               /\ run_id' > 1 \/ phase' \in {"verify", "done"} => AllTouched(touched')
  <2>1. (\A i : KeyRange(i)' = KeyRange(i)) /\ Writers' = Writers
    BY <1>1, WritersStay
  <2>2. /\ \A i : Walk(clients'[i], touched') => Walk(clients[i], touched)'
        /\ AllTouched(touched') => AllTouched(touched)'
    BY <1>1 DEF Walk, Walked, Sent, AllTouched, Missable
  <2>3. \A i : Share1(clients'[i], i) => Share1(clients[i], i)'
    BY <2>1
  <2>4. Walks(clients', touched') => Walks(clients, touched)'
    <3> HIDE DEF Share1
    <3> QED  BY <2>1, <2>2, <2>3
  <2> QED  BY <1>4, <2>2, <2>4 DEF CoverOK
<1>5. ASSUME NEW i \in DOMAIN clients, ClientStep(i), Only(i),
             UNCHANGED << main, next_client_idx >>
      PROVE  /\ run_id' = 1 => Walks(clients', touched')
             /\ run_id' > 1 \/ phase' \in {"verify", "done"} => AllTouched(touched')
  <2>0. UNCHANGED << phase, run_id >>
    BY <1>5 DEF main
  <2>1. CASE Write(i)
    <3> DEFINE k == KeysOf(clients[i])
    <3>1. i \in Writers /\ IsClient(clients[i]) /\ clients'[i] = CreateRequest(clients[i])
          /\ CanCreate(clients[i])
      BY <2>1, WriterStep, Written DEF Types
    <3>2. touched' = touched \cup k
      BY <2>1, WriterStep
    <3>3. AllTouched(touched) => AllTouched(touched')
      BY <3>2 DEF AllTouched
    <3>4. ASSUME NEW j \in Writers, Walks(clients, touched)
          PROVE  Share1(clients'[j], j) /\ Walk(clients'[j], touched')
      <4>1. Share1(clients[j], j) /\ Walk(clients[j], touched)
        BY <3>4
      <4>2. CASE j = i
        <5>1. Walk(clients'[j], touched')
          BY <1>1, <1>2, <3>1, <3>2, <4>1, <4>2, WalkOn
        <5>2. Kept(clients[j], clients'[j])
          BY <1>1, <3>1, <4>2, Created
        <5> QED  BY <4>1, <5>1, <5>2 DEF Kept
      <4>3. CASE j # i
        <5>1. clients'[j] = clients[j]
          BY <1>1, <1>5, <4>3 DEF Only
        <5> HIDE DEF k
        <5>2. Walk(clients[j], touched')
          BY <3>2, <4>1 DEF Walk, Walked
        <5> QED  BY <4>1, <5>1, <5>2
      <4> QED  BY <4>2, <4>3
    <3> HIDE DEF k
    <3> QED  BY <1>3, <2>0, <3>3, <3>4
  <2>2. CASE ~Write(i)
    <3>1. UNCHANGED touched /\ (i # Verifier => Rests(clients[i], clients'[i]))
      BY <1>5, <2>2, StepsRest
    <3>2. ASSUME NEW j \in Writers, Walks(clients, touched)
          PROVE  Share1(clients'[j], j) /\ Walk(clients'[j], touched)
      <4>1. Share1(clients[j], j) /\ Walk(clients[j], touched)
        BY <3>2
      <4>2. clients'[j] = clients[j] \/ Rests(clients[j], clients'[j])
        BY <1>1, <1>5, <3>1 DEF Only
      <4> QED  BY <4>1, <4>2 DEF Rests, Walk, Walked, Sent
    <3> QED  BY <1>3, <2>0, <3>1, <3>2
  <2> QED  BY <2>1, <2>2
<1>6. RunOver => AllTouched(touched)
  BY <1>2, <1>3, RunCovers
<1>7. CASE NextRun
  <2>1. run_id' = run_id + 1 /\ RunOver /\ UNCHANGED touched
    BY <1>7 DEF NextRun
  <2>2. run_id' # 1
    BY <1>3, <2>1
  <2> QED  BY <1>6, <2>1, <2>2
<1>8. ASSUME \A j \in Writers : clients'[j] = clients[j],
             UNCHANGED << run_id, store, results, history >>,
             \/ StartVerify /\ phase' = "verify"
             \/ Finish /\ phase' = "done"
             \/ UNCHANGED phase \/ phase' = "assert_failed"
      PROVE  /\ run_id' = 1 => Walks(clients', touched')
             /\ run_id' > 1 \/ phase' \in {"verify", "done"} => AllTouched(touched')
  <2>1. UNCHANGED << run_id, touched >>
    BY <1>8 DEF history
  <2>2. StartVerify \/ Finish => RunOver \/ phase = "verify"
    BY DEF StartVerify, Finish
  <2> QED  BY <1>3, <1>6, <1>8, <2>1, <2>2
<1> QED  BY <1>5, <1>7, <1>8, WritersKept

\* --requests=allkeys (benchmark: 'to run on the entire key-range'): once the
\* program is done every key was drawn; without shares of parallel patterns all
\* but the last one.
THEOREM AllKeysDrawn == Spec => []AllKeysTouched
<1>1. Init => Types /\ PacedOK /\ CoverOK
  BY TypesInit, PacedInit, CoverInit
<1>2. Types /\ PacedOK /\ CoverOK /\ [Next]_vars => Types' /\ PacedOK' /\ CoverOK'
  BY TypesStep, PacedStep, CoverStep
<1>3. CoverOK => AllKeysTouched
  BY DEF CoverOK, AllKeysTouched, Whole, AllTouched, Missable
<1> QED  BY <1>1, <1>2, <1>3, PTL DEF Spec

-----------------------------------------------------------------------------
(* What every client draws: the run of one generator                       *)

NoR == "R" \notin {config.set, config.get}

\* Their generators draw the same from now on.
Alike(c, d) ==
    /\ c.min = d.min /\ c.max = d.max /\ (NoR \/ c.seed = d.seed)
    /\ c.next = d.next /\ c.drawn = d.drawn /\ c.line = d.line

SameCounts(c, d) == c.set_count = d.set_count /\ c.get_count = d.get_count

\* In the ratio there is room for another request.
RatioOK(c) ==
    /\ c.set_count <= config.ratio[1] /\ c.get_count <= config.ratio[2]
    /\ c.set_count < config.ratio[1] \/ c.get_count < config.ratio[2]

SameMoves(c, d) == c.next = d.next /\ c.drawn = d.drawn /\ c.line = d.line

LEMMA AlikeKey ==
    ASSUME NEW c, IsClient(c), NEW d, IsClient(d), Alike(c, d), NEW pattern
    PROVE  /\ SameMoves(AfterKey(c, pattern), AfterKey(d, pattern))
           /\ NoR \/ c.seed = d.seed
           /\ pattern # "R" \/ c.seed = d.seed => KeyIndex(c, pattern) = KeyIndex(d, pattern)
<1>1. c \in ClientOf(c.queue) /\ d \in ClientOf(d.queue)
  BY DEF IsClient
<1>2. /\ c.min = d.min /\ c.max = d.max /\ (NoR \/ c.seed = d.seed)
      /\ c.next = d.next /\ c.drawn = d.drawn /\ c.line = d.line
  BY DEF Alike
<1>3. CASE pattern = "R"
  <2>1. SameMoves(AfterKey(c, pattern), AfterKey(d, pattern))
    BY <1>1, <1>2, <1>3, KeyDrawn DEF SameMoves
  <2>2. c.seed = d.seed => KeyIndex(c, pattern) = KeyIndex(d, pattern)
    BY <1>2, <1>3 DEF KeyIndex, Random
  <2> QED  BY <1>2, <1>3, <2>1, <2>2
<1>4. CASE pattern # "R"
  <2>1. KeyIndex(c, pattern) = KeyIndex(d, pattern)
    BY <1>2, <1>4 DEF KeyIndex
  <2>2. SameMoves(AfterKey(c, pattern), AfterKey(d, pattern))
    BY <1>1, <1>2, <1>4, <2>1, KeyDrawn DEF SameMoves
  <2> QED  BY <1>2, <2>1, <2>2
<1> QED  BY <1>3, <1>4

LEMMA AlikeObject ==
    ASSUME NEW c, IsClient(c), NEW d, IsClient(d), Alike(c, d)
    PROVE  /\ SetKey(c) = SetKey(d) /\ SetValue(c) = SetValue(d)
           /\ SameMoves(AfterObject(c), AfterObject(d))
<1>1. c \in ClientOf(c.queue) /\ d \in ClientOf(d.queue)
  BY DEF IsClient
<1>2. c.line = d.line /\ Line(c) = Line(d) /\ c.next = d.next /\ c.drawn = d.drawn
  BY DEF Alike, Line
<1>3. /\ SameMoves(AfterKey(c, config.set), AfterKey(d, config.set))
      /\ KeyIndex(c, config.set) = KeyIndex(d, config.set)
  <2>1. config.set # "R" \/ c.seed = d.seed
    BY DEF Alike, NoR
  <2> QED  BY <2>1, AlikeKey
<1>4. SetKey(c) = SetKey(d) /\ SetValue(c) = SetValue(d)
  BY <1>2, <1>3 DEF SetKey, SetValue
<1>5. /\ AfterObject(c).line = AfterObject(d).line
      /\ AfterObject(c).next = AfterObject(d).next
      /\ AfterObject(c).drawn = AfterObject(d).drawn
  BY <1>1, <1>2, <1>3, ObjectDrawn DEF SameMoves
<1> QED  BY <1>4, <1>5 DEF SameMoves

LEMMA AlikeKeys ==
    ASSUME NEW c, IsClient(c), NEW d, IsClient(d), Alike(c, d), c.get_count = d.get_count,
           keys_count(c) \in Nat
    PROVE  keys_count(c) = keys_count(d) /\ SameMoves(AfterKeys(c), AfterKeys(d))
<1> DEFINE n == keys_count(c)
           C == Drawing(c)
           D == Drawing(d)
           K == { j \in Nat : j <= n => Alike(C[j], D[j]) }
<1>1. keys_count(c) = keys_count(d)
  BY DEF keys_count
<1>2. /\ n \in Nat /\ C[0] = c /\ D[0] = d
      /\ \A j \in 0..(n - 1) : /\ C[j + 1] = AfterKey(C[j], config.get)
                               /\ D[j + 1] = AfterKey(D[j], config.get)
  BY <1>1, DrawingIs
<1>3. /\ \A j \in 0..n : C[j] \in ClientOf(c.queue) /\ D[j] \in ClientOf(d.queue)
      /\ c.queue \in Seq(Range(c.queue)) /\ d.queue \in Seq(Range(d.queue))
  BY <1>1, KeysDrawn DEF IsClient
<1> HIDE DEF n, C, D
<1>4. \A j \in 0..n : IsClient(C[j]) /\ IsClient(D[j])
  <2> TAKE j \in 0..n
  <2>1. C[j].queue = c.queue /\ D[j].queue = d.queue
    BY <1>3 DEF ClientOf
  <2> QED  BY <1>3, <2>1 DEF IsClient
<1>5. 0 \in K
  BY <1>2
<1>6. ASSUME NEW j \in K PROVE j + 1 \in K
  <2>1. ASSUME j + 1 <= n
        PROVE  Alike(C[j + 1], D[j + 1])
    <3> DEFINE x == C[j]
               y == D[j]
    <3>1. /\ j \in 0..(n - 1) /\ Alike(x, y) /\ IsClient(x) /\ IsClient(y)
          /\ C[j + 1] = AfterKey(x, config.get) /\ D[j + 1] = AfterKey(y, config.get)
      BY <1>2, <1>4, <2>1
    <3> HIDE DEF x, y
    <3>2. SameMoves(AfterKey(x, config.get), AfterKey(y, config.get))
      BY <3>1, AlikeKey
    <3>3. /\ GeneratorOnly(x, AfterKey(x, config.get))
          /\ GeneratorOnly(y, AfterKey(y, config.get))
      BY <3>1, KeyDrawn DEF IsClient
    <3>4. Alike(AfterKey(x, config.get), AfterKey(y, config.get))
      BY <3>1, <3>2, <3>3 DEF Alike, SameMoves, GeneratorOnly, Kept
    <3> QED  BY <3>1, <3>4
  <2> QED  BY <2>1
<1>7. K = Nat
  <2> HIDE DEF K
  <2>1. K \in SUBSET Nat
    BY DEF K
  <2> QED  BY <1>5, <1>6, <2>1, NatInduct
<1>8. Alike(C[n], D[n])
  BY <1>2, <1>7
<1>9. AfterKeys(c) = C[n] /\ AfterKeys(d) = D[n]
  BY <1>1 DEF AfterKeys, C, D, n
<1> QED  BY <1>1, <1>8, <1>9 DEF Alike, SameMoves

\* Without WAITs a request is a SET or a GET, by the counters.
LEMMA AlikeCreate ==
    ASSUME Sane(config), config.wait = 0,
           NEW c, IsClient(c), NEW d, IsClient(d), Alike(c, d), SameCounts(c, d), c.sets = d.sets,
           CanCreate(c)
    PROVE  /\ Alike(CreateRequest(c), CreateRequest(d))
           /\ SameCounts(CreateRequest(c), CreateRequest(d))
           /\ CreateRequest(c).sets = CreateRequest(d).sets
           /\ Sets(c) <=> Sets(d)
           /\ Sets(c) => Request(c) = Request(d)
<1>1. ~WaitDue(c) /\ ~WaitDue(d)
  BY DEF WaitDue
<1>2. /\ SetDue(c) <=> SetDue(d)
      /\ GetDue(c) <=> GetDue(d)
      /\ CanCreate(d)
  BY <1>1 DEF SetDue, GetDue, CanCreate, SameCounts
<1>3. (Sets(c) <=> Sets(d)) /\ (Gets(c) <=> Gets(d)) /\ (Sets(c) <=> SetDue(c))
  BY <1>1, <1>2 DEF Sets, Gets
<1>4. SameMoves(Moved(c), Moved(d))
  <2>1. CASE SetDue(c)
    BY <1>1, <1>2, <2>1, AlikeObject DEF Moved
  <2>2. CASE ~SetDue(c)
    <3>1. keys_count(c) \in Nat
      BY <1>1, <2>2, KeysCount DEF IsClient, CanCreate, GetDue
    <3> QED  BY <1>1, <1>2, <2>2, <3>1, AlikeKeys DEF Moved, SameCounts
  <2> QED  BY <2>1, <2>2
<1>5. RatioAfter(c) = RatioAfter(d)
  <2>1. keys_count(c) = keys_count(d)
    BY DEF keys_count, SameCounts
  <2> QED  BY <1>3, <2>1 DEF RatioAfter, SameCounts
<1>6. ASSUME Sets(c)
      PROVE  Request(c) = Request(d)
  <2>1. /\ Request(c) = Req("set", SetKey(c), SetValue(c))
        /\ Request(d) = Req("set", SetKey(d), SetValue(d))
    BY <1>1, <1>2, <1>3, <1>6 DEF Request
  <2>2. SetKey(c) = SetKey(d) /\ SetValue(c) = SetValue(d)
    BY AlikeObject
  <2> QED  BY <2>1, <2>2
<1>7. SameMoves(CreateRequest(c), CreateRequest(d))
  BY <1>2, <1>4, Created DEF SameMoves
<1>8. Alike(CreateRequest(c), CreateRequest(d))
  <2>1. Kept(c, CreateRequest(c)) /\ Kept(d, CreateRequest(d))
    BY <1>2, Created
  <2> QED  BY <1>7, <2>1 DEF Alike, Kept, SameMoves
<1>9. SameCounts(CreateRequest(c), CreateRequest(d))
  BY <1>2, <1>5, Created DEF SameCounts
<1>10. CreateRequest(c).sets = CreateRequest(d).sets
  BY <1>2, <1>3, Created
<1> QED  BY <1>3, <1>6, <1>8, <1>9, <1>10

LEMMA RatioDue ==
    ASSUME NEW c, RatioOK(c)
    PROVE  CanCreate(c)
BY DEF RatioOK, CanCreate, SetDue, GetDue

LEMMA RatioStep ==
    ASSUME Sane(config), config.wait = 0, NEW c, IsClient(c), RatioOK(c)
    PROVE  RatioOK(CreateRequest(c))
<1> DEFINE d == CreateRequest(c)
           a == config.ratio[1]
           b == config.ratio[2]
           s == c.set_count
           g == c.get_count
           x == IF SetDue(c) THEN s + 1 ELSE s
           k == keys_count(c)
           y == IF SetDue(c) THEN g ELSE g + k
<1>1. a \in Nat /\ b \in Nat /\ (a # 0 \/ b # 0)
  BY RatioNats
<1>2. s \in Nat /\ g \in Nat
  BY DEF IsClient, ClientOf
<1>3. s <= a /\ g <= b /\ (s < a \/ g < b)
  BY DEF RatioOK
<1>4. SetDue(c) <=> s < a
  BY DEF SetDue
<1>4a. ~SetDue(c) => k \in Nat \ {0} /\ g + k <= b
  <2>1. ~SetDue(c) => c.get_count < config.ratio[2]
    BY RatioDue DEF CanCreate, GetDue, WaitDue
  <2> QED  BY <2>1, KeysCount DEF IsClient
<1>4b. CanCreate(c)
  BY RatioDue
<1>5. /\ d.set_count = (IF x = a /\ y = b THEN << 0, 0 >> ELSE << x, y >>)[1]
      /\ d.get_count = (IF x = a /\ y = b THEN << 0, 0 >> ELSE << x, y >>)[2]
  <2>1. /\ s + (IF Sets(c) THEN 1 ELSE 0) = x
        /\ g + (IF Gets(c) THEN k ELSE 0) = y
    <3> HIDE DEF k, s, g
    <3> QED  BY <1>2 DEF Sets, Gets, WaitDue
  <2>2. RatioAfter(c) = IF x = a /\ y = b THEN << 0, 0 >> ELSE << x, y >>
    BY <2>1 DEF RatioAfter
  <2> QED  BY <1>4b, <2>2, Created
<1> HIDE DEF d, a, b, s, g, k
<1>6. /\ d.set_count <= a /\ d.get_count <= b
      /\ d.set_count < a \/ d.get_count < b
  <2>1. CASE x = a /\ y = b
    <3>1. d.set_count = 0 /\ d.get_count = 0
      BY <1>5, <2>1
    <3> QED  BY <1>1, <3>1
  <2>2. CASE ~(x = a /\ y = b)
    <3>1. d.set_count = x /\ d.get_count = y
      BY <1>5, <2>2
    <3>2. x <= a /\ y <= b /\ x \in Nat /\ y \in Nat
      BY <1>1, <1>2, <1>3, <1>4, <1>4a
    <3> HIDE DEF x, y
    <3> QED  BY <1>1, <2>2, <3>1, <3>2
  <2> QED  BY <2>1, <2>2
<1> QED  BY <1>6 DEF RatioOK, d, a, b

\* The first n requests of a generator that nobody interrupts.
IsRun(g, n) ==
    /\ g[0] = Client(0, 0)
    /\ \A j \in 0..(n - 1) : g[j + 1] = CreateRequest(g[j])
    /\ \A j \in 0..n : IsClient(g[j]) /\ RatioOK(g[j])

LEMMA RunExists ==
    ASSUME Sane(config), config.wait = 0, NEW n \in Nat
    PROVE  \E g : IsRun(g, n)
<1> DEFINE T == { m \in Nat : \E g : IsRun(g, m) }
<1>1. 0 \in T
  <2> DEFINE g == [j \in {0} |-> Client(0, 0)]
  <2>1. IsClient(Client(0, 0)) /\ Client(0, 0).set_count = 0 /\ Client(0, 0).get_count = 0
    BY ClientMade
  <2>2. RatioOK(Client(0, 0))
    BY <2>1, RatioNats DEF RatioOK
  <2>3. g[0] = Client(0, 0)
    OBVIOUS
  <2> HIDE DEF g
  <2>4. IsRun(g, 0)
    BY <2>1, <2>2, <2>3 DEF IsRun
  <2> QED  BY <2>4
<1>2. ASSUME NEW m \in T
      PROVE  m + 1 \in T
  <2>1. PICK g : IsRun(g, m)
    OBVIOUS
  <2> DEFINE h == [j \in 0..(m + 1) |-> IF j = m + 1 THEN CreateRequest(g[m]) ELSE g[j]]
  <2>2. m \in Nat /\ IsClient(g[m]) /\ RatioOK(g[m])
    BY <2>1 DEF IsRun
  <2>3. IsClient(CreateRequest(g[m])) /\ RatioOK(CreateRequest(g[m]))
    BY <2>2, Created, RatioDue, RatioStep
  <2>4. (\A j \in 0..m : h[j] = g[j]) /\ h[m + 1] = CreateRequest(g[m])
    BY <2>2
  <2> HIDE DEF h
  <2>5. h[0] = Client(0, 0)
    BY <2>1, <2>2, <2>4 DEF IsRun
  <2>6. \A j \in 0..m : h[j + 1] = CreateRequest(h[j])
    <3> TAKE j \in 0..m
    <3>1. CASE j = m
      BY <2>2, <2>4, <3>1
    <3>2. CASE j # m
      <4>1. j \in 0..(m - 1) /\ j + 1 \in 0..m
        BY <2>2, <3>2
      <4> QED  BY <2>1, <2>4, <4>1 DEF IsRun
    <3> QED  BY <3>1, <3>2
  <2>7. \A j \in 0..(m + 1) : IsClient(h[j]) /\ RatioOK(h[j])
    <3> TAKE j \in 0..(m + 1)
    <3>1. j \in 0..m \/ j = m + 1
      BY <2>2
    <3> QED  BY <2>1, <2>3, <2>4, <3>1 DEF IsRun
  <2>8. (m + 1) - 1 = m /\ m + 1 \in Nat
    BY <2>2
  <2>9. IsRun(h, m + 1)
    BY <2>5, <2>6, <2>7, <2>8 DEF IsRun
  <2> QED  BY <2>8, <2>9
<1> HIDE DEF T
<1>3. T = Nat
  <2>1. T \in SUBSET Nat
    BY DEF T
  <2> QED  BY <1>1, <1>2, <2>1, NatInduct
<1> QED  BY <1>3 DEF T

-----------------------------------------------------------------------------
(* The clients draw that run and have it stored                            *)

\* The server has the value, or had two for one key.
Held(request, s, two) ==
    two \/ (request.key \in DOMAIN s /\ s[request.key] = request.value)

LEMMA PutHolds ==
    ASSUME NEW request, Put(request)
    PROVE  Held(request, store', conflict')
BY DEF Put, Held

LEMMA PutKeeps ==
    ASSUME NEW request, Put(request), NEW r, Held(r, store, conflict)
    PROVE  Held(r, store', conflict')
<1>1. CASE conflict
  BY <1>1 DEF Put, Held
<1>2. CASE ~conflict
  <2>1. r.key \in DOMAIN store /\ store[r.key] = r.value
    BY <1>2 DEF Held
  <2>2. CASE r.key = request.key /\ r.value # request.value
    BY <2>1, <2>2 DEF Put, Held
  <2>3. CASE ~(r.key = request.key /\ r.value # request.value)
    BY <2>1, <2>3 DEF Put, Held
  <2> QED  BY <2>2, <2>3
<1> QED  BY <1>1, <1>2

\* No step takes away what the server holds.
LEMMA StillHeld ==
    ASSUME Types, [Next]_vars, NEW r, Held(r, store, conflict)
    PROVE  Held(r, store', conflict')
<1>1. ASSUME NEW i \in DOMAIN clients, ClientStep(i)
      PROVE  \/ \E request : Put(request)
             \/ UNCHANGED << store, conflict >>
  BY <1>1 DEF ClientStep, MovesOn, Writable, FillStart, FillDone, ParseDone, Write, Verify,
         HandleResponse, Compare, Straggler, history
<1>2. CASE \E request : Put(request)
  BY <1>2, PutKeeps
<1>3. (\E i \in DOMAIN clients : AssertFails(i)) \/ NextRun \/ StartVerify \/ Finish
      \/ UNCHANGED vars => UNCHANGED << store, conflict >>
  BY DEF AssertFails, NextRun, StartVerify, Finish, vars, history
<1>4. CASE UNCHANGED << store, conflict >>
  BY <1>4
<1> QED  BY <1>1, <1>2, <1>3, <1>4, NextIs

\* A client has drawn the run g so far; its SETs are on their way or stored.
Follows(c, g, s, two) ==
    /\ Alike(c, g[Sent(c)]) /\ SameCounts(c, g[Sent(c)])
    /\ c.sets = g[Sent(c)].sets
    /\ c.pc # "ended" =>
          \A j \in 1..Len(c.queue), m \in Nat :
              m = c.processed + j - 1 /\ Sets(g[m]) => c.queue[j] = Request(g[m])
    /\ \A j \in 0..(c.processed - 1) : Sets(g[j]) => Held(Request(g[j]), s, two)

\* The verification is to draw the run once more.
Redraws ==
    /\ Import /\ Requests > 0 /\ config.wait = 0 /\ config.set # "P"
    /\ config.distinct => NoR

Bound == Requests + config.pipeline

LEMMA AlikeMade ==
    ASSUME Sane(config), Redraws, NEW idx \in Nat, NEW n \in Nat
    PROVE  LET c == Client(idx, n)
               d == Client(0, 0)
           IN  Alike(c, d) /\ SameCounts(c, d) /\ c.sets = d.sets
<1>1. KeyRange(idx) = KeyRange(0)
  BY DEF KeyRange, Redraws
<1>2. NoR \/ (IF config.distinct THEN idx ELSE 0) = (IF config.distinct THEN 0 ELSE 0)
  BY DEF Redraws
<1> DEFINE c == Client(idx, n)
           d == Client(0, 0)
<1>3. /\ c.min = KeyRange(idx)[1] /\ c.max = KeyRange(idx)[2]
      /\ c.seed = (IF config.distinct THEN idx ELSE 0)
      /\ c.next = 0 /\ c.drawn = 0 /\ c.line = 1 /\ c.sets = 0
      /\ c.set_count = 0 /\ c.get_count = 0
  BY ClientMade
<1>4. /\ d.min = KeyRange(0)[1] /\ d.max = KeyRange(0)[2]
      /\ d.seed = (IF config.distinct THEN 0 ELSE 0)
      /\ d.next = 0 /\ d.drawn = 0 /\ d.line = 1 /\ d.sets = 0
      /\ d.set_count = 0 /\ d.get_count = 0
  BY ClientMade
<1> HIDE DEF c, d
<1>5. Alike(c, d) /\ SameCounts(c, d) /\ c.sets = d.sets
  BY <1>1, <1>2, <1>3, <1>4 DEF Alike, SameCounts
<1> QED  BY <1>5 DEF c, d

LEMMA FollowsMade ==
    ASSUME Sane(config), Redraws, NEW idx \in Nat, NEW n \in Nat,
           NEW g, IsRun(g, Bound), NEW s, NEW two
    PROVE  Follows(Client(idx, n), g, s, two)
<1> DEFINE c == Client(idx, n)
<1>1. Alike(c, g[0]) /\ SameCounts(c, g[0]) /\ c.sets = g[0].sets
  BY AlikeMade DEF IsRun
<1>2. c.generated = n /\ c.unset = n /\ c.processed = 0 /\ c.queue = << >>
  BY ClientMade
<1>3. Len(<< >>) = 0
  BY EmptySeq
<1> HIDE DEF c
<1>3a. Sent(c) = 0
  BY <1>2 DEF Sent
<1>4. Follows(c, g, s, two)
  BY <1>1, <1>2, <1>3, <1>3a DEF Follows
<1> QED  BY <1>4 DEF c

\* The run leads far enough.
LEMMA InRun ==
    ASSUME Sane(config), Redraws, NEW g, IsRun(g, Bound), NEW n \in Nat,
           n + 1 <= Requests + config.pipeline - 1
    PROVE  /\ g[n + 1] = CreateRequest(g[n]) /\ IsClient(g[n]) /\ RatioOK(g[n])
           /\ IsClient(g[n + 1]) /\ RatioOK(g[n + 1])
<1>1. Bound \in Nat /\ n \in 0..(Bound - 1) /\ n \in 0..Bound /\ n + 1 \in 0..Bound
  BY RequestsNat DEF Bound
<1> QED  BY <1>1 DEF IsRun

LEMMA FollowsStep ==
    ASSUME Types, Redraws, [Next]_vars, NEW g, IsRun(g, Bound),
           NEW i \in DOMAIN clients, i # Verifier, ClientStep(i), Paced(clients[i]),
           Follows(clients[i], g, store, conflict)
    PROVE  Follows(clients'[i], g, store', conflict')
<1> DEFINE c == clients[i]
           d == clients'[i]
           n == Sent(c)
           p == c.processed
<1>1. Sane(config) /\ IsClient(c) /\ Paced(c)
  BY ConfigSane DEF Types
<1>2. /\ p \in Nat /\ c.queue \in Seq(Range(c.queue)) /\ Len(c.queue) \in Nat
      /\ Requests \in Nat /\ config.pipeline \in Nat
      /\ c.generated \in Nat /\ c.unset \in Nat
  BY <1>1, RequestsNat, LenProperties DEF IsClient, ClientOf
<1>3. /\ Alike(c, g[n]) /\ SameCounts(c, g[n]) /\ c.sets = g[n].sets
      /\ c.pc # "ended" =>
            \A j \in 1..Len(c.queue), m \in Nat :
                m = p + j - 1 /\ Sets(g[m]) => c.queue[j] = Request(g[m])
      /\ \A j \in 0..(p - 1) : Sets(g[j]) => Held(Request(g[j]), store, conflict)
  BY DEF Follows
<1>4. \A j \in 0..(p - 1) : Sets(g[j]) => Held(Request(g[j]), store', conflict')
  BY <1>3, StillHeld
<1>5. c.pc # "ended" => n = p + Len(c.queue)
  BY <1>1 DEF Paced, Pace
<1>. SUFFICES Follows(d, g, store', conflict')
  OBVIOUS
<1>6. ASSUME Rests(c, d)
      PROVE  Alike(d, g[Sent(d)]) /\ SameCounts(d, g[Sent(d)])
             /\ d.sets = g[Sent(d)].sets
  <2>1. Sent(d) = n
    <3> HIDE DEF c, d
    <3> QED  BY <1>6 DEF Rests, Sent, n
  <2> HIDE DEF d, n
  <2> QED  BY <1>3, <1>6, <2>1 DEF Rests, Alike, SameCounts
<1>7. CASE MovesOn(i)
  <2>1. /\ Rests(c, d) /\ d.queue = c.queue /\ d.processed = p /\ c.pc # "ended"
    BY <1>7, MovedOn
  <2> HIDE DEF d, c
  <2> QED  BY <1>3, <1>4, <1>6, <2>1 DEF Follows, p
<1>8. CASE Write(i)
  <2> DEFINE q == Append(c.queue, Request(c))
  <2>0. d = CreateRequest(c) /\ c.pc = "fill" /\ CanCreate(c)
    BY <1>8, Written
  <2>1. /\ d = CreateRequest(c) /\ Sent(d) = n + 1 /\ d.processed = p /\ d.queue = q
        /\ c.pc # "ended" /\ n \in Nat
    <3>1. d.generated = c.generated + 1 /\ d.unset = c.unset /\ d.processed = p /\ d.queue = q
      BY <1>1, <2>0, Created DEF Kept
    <3>2. Sent(d) = n + 1
      <4> HIDE DEF c, d
      <4> QED  BY <1>2, <3>1 DEF Sent, n
    <3>3. n \in Nat
      <4> HIDE DEF n
      <4> QED  BY <1>2, <1>5, <2>0
    <3> QED  BY <2>0, <3>1, <3>2, <3>3
  <2>2. n + 1 <= Requests + config.pipeline - 1
    <3>1. Paced(d)
      BY PacedClient
    <3>2. Requests > 0
      BY DEF Redraws
    <3> HIDE DEF d
    <3> QED  BY <2>1, <3>1, <3>2 DEF Paced, Pace
  <2>3. /\ g[n + 1] = CreateRequest(g[n]) /\ IsClient(g[n])
    <3> HIDE DEF n
    <3> QED  BY <1>1, <1>2, <2>1, <2>2, InRun
  <2>4. /\ Alike(d, g[n + 1]) /\ SameCounts(d, g[n + 1]) /\ d.sets = g[n + 1].sets
        /\ Sets(c) <=> Sets(g[n])
        /\ Sets(c) => Request(c) = Request(g[n])
    BY <1>1, <1>3, <2>0, <2>1, <2>3, AlikeCreate DEF Redraws
  <2>5. /\ Len(q) = Len(c.queue) + 1 /\ q[Len(c.queue) + 1] = Request(c)
        /\ \A j \in 1..Len(c.queue) : q[j] = c.queue[j]
    BY <1>2, AppendAny
  <2>6. ASSUME NEW j \in 1..Len(q), NEW m \in Nat, m = p + j - 1, Sets(g[m])
        PROVE  q[j] = Request(g[m])
    <3>1. CASE j \in 1..Len(c.queue)
      BY <1>3, <2>1, <2>5, <2>6, <3>1
    <3>2. CASE j \notin 1..Len(c.queue)
      <4>1. j = Len(c.queue) + 1 /\ m = n
        <5>1. n = p + Len(c.queue) /\ Len(c.queue) \in Nat /\ p \in Nat
          BY <1>2, <1>5, <2>1
        <5>2. j \in 1..(Len(c.queue) + 1) /\ j \notin 1..Len(c.queue) /\ m = p + j - 1
          BY <2>5, <2>6, <3>2
        <5> HIDE DEF n, p, q, c
        <5> QED  BY <5>1, <5>2
      <4> QED  BY <2>4, <2>5, <2>6, <4>1
    <3> QED  BY <3>1, <3>2
  <2> HIDE DEF d, c, q
  <2> QED  BY <1>4, <2>1, <2>4, <2>6 DEF Follows, p, n
<1>9. CASE HandleResponse(i) \/ Compare(i)
  <2> DEFINE q == Tail(c.queue)
  <2>1. /\ Rests(c, d) /\ d.processed = p + 1 /\ c.queue # << >> /\ d.queue = q
        /\ c.pc # "ended"
    BY <1>9, Replied
  <2>2. /\ Len(q) = Len(c.queue) - 1 /\ Head(c.queue) = c.queue[1] /\ Len(c.queue) >= 1
        /\ \A j \in 1..Len(q) : q[j] = c.queue[j + 1]
    BY <1>2, <2>1, TailAny
  <2>3. ASSUME NEW j \in 1..Len(q), NEW m \in Nat, m = (p + 1) + j - 1, Sets(g[m])
        PROVE  q[j] = Request(g[m])
    <3>1. j + 1 \in 1..Len(c.queue) /\ m = p + (j + 1) - 1
      BY <1>2, <2>2, <2>3
    <3> QED  BY <1>3, <2>1, <2>2, <2>3, <3>1
  <2>4. ASSUME Sets(g[p])
        PROVE  Held(Request(g[p]), store', conflict')
    <3>1. 1 \in 1..Len(c.queue) /\ p \in Nat /\ p = p + 1 - 1
      BY <1>2, <2>2
    <3>2. Head(c.queue) = Request(g[p])
      BY <1>3, <2>1, <2>2, <2>4, <3>1
    <3>3. Request(g[p]).type = "set"
      BY <2>4 DEF Request, Req, Sets
    <3>4. HandleResponse(i)
      BY <1>9 DEF Compare
    <3>5. Put(Request(g[p]))
      <4> HIDE DEF c
      <4>1. LET request == Head(c.queue)
            IN  IF request.type = "set" THEN Put(request) ELSE UNCHANGED << store, conflict >>
        BY <3>4 DEF HandleResponse, c
      <4> QED  BY <3>2, <3>3, <4>1
    <3> QED  BY <3>5, PutHolds
  <2>5. ASSUME NEW j \in 0..((p + 1) - 1), Sets(g[j])
        PROVE  Held(Request(g[j]), store', conflict')
    <3>1. j = p \/ j \in 0..(p - 1)
      BY <1>2
    <3> QED  BY <1>4, <2>4, <2>5, <3>1
  <2> HIDE DEF d, c, q, p
  <2> QED  BY <1>6, <2>1, <2>3, <2>5 DEF Follows
<1>10. CASE Straggler(i)
  <2>1. /\ Rests(c, d) /\ d.processed = p /\ d.pc = "ended"
    BY <1>10, Straggled
  <2> HIDE DEF d, c
  <2> QED  BY <1>4, <1>6, <2>1 DEF Follows, p
<1> QED  BY <1>7, <1>8, <1>9, <1>10 DEF ClientStep, Verify

-----------------------------------------------------------------------------
(* The verify_client draws the run once more                               *)

\* It starts its full counters over one turn later than the clients.
CountsOf(v, e) ==
    \/ SameCounts(v, e)
    \/ /\ v.set_count = config.ratio[1] /\ v.get_count = config.ratio[2]
       /\ e.set_count = 0 /\ e.get_count = 0

LEMMA VerifyDraws ==
    ASSUME Sane(config), config.wait = 0, NEW v, IsClient(v), NEW e, IsClient(e), RatioOK(e),
           Alike(v, e), CountsOf(v, e), NEW d, NEW q, NEW p
    PROVE  LET f == CreateRequest(e)
           IN  /\ SetDue(v) =>
                     /\ Sets(e) /\ Request(e) = Req("set", SetKey(v), SetValue(v))
                     /\ f.sets = e.sets + 1
                     /\ Drawn(v, d, AfterObject(v), q, p, v.set_count + 1, v.get_count)
                           => Alike(d, f) /\ CountsOf(d, f)
               /\ GetDue(v) =>
                     /\ ~Sets(e) /\ f.sets = e.sets
                     /\ Drawn(v, d, AfterKeys(v), q, p, v.set_count, v.get_count + keys_count(v))
                           => Alike(d, f) /\ CountsOf(d, f)
               /\ ~SetDue(v) /\ ~GetDue(v) =>
                     (Drawn(v, d, v, q, p, 0, 0) => Alike(d, e) /\ CountsOf(d, e))
<1> DEFINE f == CreateRequest(e)
           a == config.ratio[1]
           b == config.ratio[2]
<1>1. a \in Nat /\ b \in Nat
  BY RatioNats
<1>2. /\ v.set_count \in Nat /\ v.get_count \in Nat
      /\ e.set_count \in Nat /\ e.get_count \in Nat /\ e.sets \in Nat
  BY DEF IsClient, ClientOf
<1>3. ~WaitDue(e)
  BY DEF WaitDue
<1>3a. CanCreate(e)
  BY RatioDue
<1>4. /\ f.next = Moved(e).next /\ f.drawn = Moved(e).drawn /\ f.line = Moved(e).line
      /\ f.sets = e.sets + (IF Sets(e) THEN 1 ELSE 0)
      /\ f.set_count = RatioAfter(e)[1] /\ f.get_count = RatioAfter(e)[2]
      /\ f.min = e.min /\ f.max = e.max /\ f.seed = e.seed
  BY <1>3a, Created DEF Kept
<1>5. /\ v.min = e.min /\ v.max = e.max /\ (NoR \/ v.seed = e.seed)
      /\ v.next = e.next /\ v.drawn = e.drawn /\ v.line = e.line
  BY DEF Alike
<1> HIDE DEF f
<1>6. ASSUME SetDue(v)
      PROVE  /\ Sets(e) /\ Request(e) = Req("set", SetKey(v), SetValue(v))
             /\ f.sets = e.sets + 1
             /\ Drawn(v, d, AfterObject(v), q, p, v.set_count + 1, v.get_count)
                   => Alike(d, f) /\ CountsOf(d, f)
  <2>1. SameCounts(v, e) /\ SetDue(e)
    BY <1>1, <1>2, <1>6 DEF CountsOf, SetDue, SameCounts
  <2>2. Sets(e) /\ ~Gets(e) /\ Request(e) = Req("set", SetKey(e), SetValue(e))
        /\ Moved(e) = AfterObject(e)
    BY <1>3, <2>1 DEF Sets, Gets, Request, Moved
  <2>3. /\ SetKey(v) = SetKey(e) /\ SetValue(v) = SetValue(e)
        /\ SameMoves(AfterObject(v), AfterObject(e))
    BY AlikeObject
  <2>4. RatioAfter(e) = IF e.set_count + 1 = a /\ e.get_count = b THEN << 0, 0 >>
                        ELSE << e.set_count + 1, e.get_count >>
    BY <1>2, <2>2 DEF RatioAfter
  <2>5. ASSUME Drawn(v, d, AfterObject(v), q, p, v.set_count + 1, v.get_count)
        PROVE  Alike(d, f) /\ CountsOf(d, f)
    <3>1. /\ d.min = v.min /\ d.max = v.max /\ d.seed = v.seed
          /\ d.next = f.next /\ d.drawn = f.drawn /\ d.line = f.line
      BY <1>4, <2>2, <2>3, <2>5 DEF Drawn, SameRange, SameMoves
    <3>2. d.set_count = e.set_count + 1 /\ d.get_count = e.get_count
      BY <2>1, <2>5 DEF Drawn, SameCounts
    <3>3. CountsOf(d, f)
      BY <1>4, <2>4, <3>2 DEF CountsOf, SameCounts
    <3> QED  BY <1>4, <1>5, <3>1, <3>3 DEF Alike
  <2> QED  BY <1>4, <2>2, <2>3, <2>5
<1>7. ASSUME GetDue(v)
      PROVE  /\ ~Sets(e) /\ f.sets = e.sets
             /\ Drawn(v, d, AfterKeys(v), q, p, v.set_count, v.get_count + keys_count(v))
                   => Alike(d, f) /\ CountsOf(d, f)
  <2>1. SameCounts(v, e) /\ ~SetDue(e)
    BY <1>1, <1>2, <1>7 DEF CountsOf, GetDue, SetDue, SameCounts
  <2>2. ~Sets(e) /\ Gets(e) /\ Moved(e) = AfterKeys(e)
    BY <1>3, <2>1 DEF Sets, Gets, Moved
  <2> DEFINE k == keys_count(v)
  <2>3. /\ SameMoves(AfterKeys(v), AfterKeys(e))
        /\ k \in Nat \ {0} /\ keys_count(e) = k
    <3>1. k \in Nat \ {0}
      BY <1>7, KeysCount DEF IsClient, GetDue
    <3> QED  BY <2>1, <3>1, AlikeKeys DEF SameCounts
  <2>4. RatioAfter(e) = IF e.set_count = a /\ e.get_count + k = b THEN << 0, 0 >>
                        ELSE << e.set_count, e.get_count + k >>
    <3> HIDE DEF k
    <3> QED  BY <1>2, <2>2, <2>3 DEF RatioAfter
  <2>5. ASSUME Drawn(v, d, AfterKeys(v), q, p, v.set_count, v.get_count + keys_count(v))
        PROVE  Alike(d, f) /\ CountsOf(d, f)
    <3>1. /\ d.min = v.min /\ d.max = v.max /\ d.seed = v.seed
          /\ d.next = f.next /\ d.drawn = f.drawn /\ d.line = f.line
      BY <1>4, <2>2, <2>3, <2>5 DEF Drawn, SameRange, SameMoves
    <3>2. d.set_count = e.set_count /\ d.get_count = e.get_count + k
      BY <2>1, <2>5 DEF Drawn, SameCounts
    <3>3. CountsOf(d, f)
      BY <1>4, <2>4, <3>2 DEF CountsOf, SameCounts
    <3> QED  BY <1>4, <1>5, <3>1, <3>3 DEF Alike
  <2> QED  BY <1>2, <1>4, <2>2, <2>5
<1>8. ASSUME ~SetDue(v), ~GetDue(v), Drawn(v, d, v, q, p, 0, 0)
      PROVE  Alike(d, e) /\ CountsOf(d, e)
  <2>1. ~SameCounts(v, e)
    <3> SUFFICES ASSUME SameCounts(v, e) PROVE FALSE
      OBVIOUS
    <3>1. ~(e.set_count < a) /\ ~(e.get_count < b)
      BY <1>8 DEF SameCounts, SetDue, GetDue
    <3> QED  BY <3>1 DEF RatioOK
  <2>2. e.set_count = 0 /\ e.get_count = 0
    BY <2>1 DEF CountsOf
  <2>3. /\ d.set_count = 0 /\ d.get_count = 0
        /\ d.min = v.min /\ d.max = v.max /\ d.seed = v.seed
        /\ d.next = v.next /\ d.drawn = v.drawn /\ d.line = v.line
    BY <1>8 DEF Drawn, SameRange
  <2> QED  BY <1>5, <2>2, <2>3 DEF Alike, CountsOf, SameCounts
<1> QED  BY <1>6, <1>7, <1>8 DEF f

LEMMA VerifySkips ==
    ASSUME Sane(config), config.wait = 0, NEW v, IsClient(v), NEW e, IsClient(e), RatioOK(e),
           Alike(v, e), CountsOf(v, e), GetDue(v), NEW d, NEW q, NEW p,
           Drawn(v, d, AfterKeys(v), q, p, v.set_count, v.get_count + keys_count(v))
    PROVE  /\ CreateRequest(e).sets = e.sets
           /\ Alike(d, CreateRequest(e)) /\ CountsOf(d, CreateRequest(e))
BY VerifyDraws

\* So many of the requests drawn so far come behind what the clients need.
Excess(n) == IF n <= Requests THEN 0 ELSE n - Requests

\* Faults are found, or to be found, only behind it.
Faults(q, s, two, errors, n) ==
    \E k \in 0..Len(q) : /\ \A j \in 1..k : Held(q[j], s, two)
                         /\ errors + (Len(q) - k) <= Excess(n)

LEMMA ExcessGrows ==
    ASSUME Sane(config), NEW n \in Nat
    PROVE  /\ Excess(n) \in Nat /\ Excess(n + 1) \in Nat /\ Excess(n) <= Excess(n + 1)
           /\ n < Requests => Excess(n + 1) = 0 /\ Excess(n) = 0
           /\ n >= Requests => Excess(n + 1) = Excess(n) + 1
<1>1. Requests \in Nat
  BY RequestsNat
<1> QED  BY <1>1 DEF Excess

LEMMA FaultsDraw ==
    ASSUME Sane(config), NEW q, q \in Seq(Range(q)), NEW s, NEW two, NEW errors \in Nat,
           NEW n \in Nat, Faults(q, s, two, errors, n),
           NEW r, n < Requests => Held(r, s, two)
    PROVE  Faults(Append(q, r), s, two, errors, n + 1)
<1> DEFINE t == Append(q, r)
<1>1. Len(q) \in Nat /\ Requests \in Nat
  BY LenProperties, RequestsNat
<1>2. /\ Len(t) = Len(q) + 1 /\ t[Len(q) + 1] = r
      /\ \A j \in 1..Len(q) : t[j] = q[j]
  BY AppendAny
<1>3. PICK k \in 0..Len(q) : /\ \A j \in 1..k : Held(q[j], s, two)
                             /\ errors + (Len(q) - k) <= Excess(n)
  BY DEF Faults
<1>4. /\ Excess(n) \in Nat /\ Excess(n + 1) \in Nat
      /\ n < Requests => Excess(n + 1) = 0 /\ Excess(n) = 0
      /\ n >= Requests => Excess(n + 1) = Excess(n) + 1
  BY ExcessGrows
<1> HIDE DEF t
<1>5. CASE n < Requests
  <2>1. k = Len(q) /\ errors = 0
    BY <1>1, <1>3, <1>4, <1>5
  <2>2. \A j \in 1..(Len(q) + 1) : Held(t[j], s, two)
    <3> TAKE j \in 1..(Len(q) + 1)
    <3>1. j \in 1..Len(q) \/ j = Len(q) + 1
      BY <1>1
    <3> QED  BY <1>2, <1>3, <1>5, <2>1, <3>1
  <2>3. /\ Len(q) + 1 \in 0..Len(t)
        /\ errors + (Len(t) - (Len(q) + 1)) <= Excess(n + 1)
    BY <1>1, <1>2, <1>4, <1>5, <2>1
  <2>4. Faults(t, s, two, errors, n + 1)
    BY <2>2, <2>3 DEF Faults
  <2> QED  BY <2>4 DEF t
<1>6. CASE n >= Requests
  <2>1. k \in 0..Len(t) /\ errors + (Len(t) - k) <= Excess(n + 1)
    BY <1>1, <1>2, <1>3, <1>4, <1>6
  <2>2. \A j \in 1..k : Held(t[j], s, two)
    <3> TAKE j \in 1..k
    <3>1. j \in 1..Len(q)
      BY <1>1
    <3> QED  BY <1>2, <1>3, <3>1
  <2>3. Faults(t, s, two, errors, n + 1)
    BY <2>1, <2>2 DEF Faults
  <2> QED  BY <2>3 DEF t
<1> QED  BY <1>1, <1>5, <1>6

LEMMA FaultsSkip ==
    ASSUME Sane(config), NEW q, Len(q) \in Nat, NEW s, NEW two, NEW errors \in Nat, NEW n \in Nat,
           Faults(q, s, two, errors, n)
    PROVE  Faults(q, s, two, errors, n + 1)
<1>1. PICK k \in 0..Len(q) : /\ \A j \in 1..k : Held(q[j], s, two)
                             /\ errors + (Len(q) - k) <= Excess(n)
  BY DEF Faults
<1>2. Excess(n) \in Nat /\ Excess(n + 1) \in Nat /\ Excess(n) <= Excess(n + 1)
  BY ExcessGrows
<1>3. errors + (Len(q) - k) <= Excess(n + 1)
  BY <1>1, <1>2
<1> QED  BY <1>1, <1>3 DEF Faults

LEMMA FaultsRead ==
    ASSUME Sane(config), NEW q, q \in Seq(Range(q)), q # << >>, NEW s, NEW two, ~two,
           NEW errors \in Nat, NEW n \in Nat, Faults(q, s, two, errors, n)
    PROVE  IF Held(q[1], s, two) THEN Faults(Tail(q), s, two, errors, n)
           ELSE Faults(Tail(q), s, two, errors + 1, n)
<1> DEFINE t == Tail(q)
<1>1. /\ Len(q) \in Nat \ {0} /\ Len(t) = Len(q) - 1
      /\ \A j \in 1..Len(t) : t[j] = q[j + 1]
  BY TailAny
<1>2. PICK k \in 0..Len(q) : /\ \A j \in 1..k : Held(q[j], s, two)
                             /\ errors + (Len(q) - k) <= Excess(n)
  BY DEF Faults
<1>3. Excess(n) \in Nat
  BY ExcessGrows
<1> HIDE DEF t
<1>4. CASE k = 0
  <2>1. /\ 0 \in 0..Len(t) /\ errors + (Len(t) - 0) <= Excess(n)
        /\ (errors + 1) + (Len(t) - 0) <= Excess(n)
    BY <1>1, <1>2, <1>3, <1>4
  <2>2. \A j \in 1..0 : Held(t[j], s, two)
    OBVIOUS
  <2>3. Faults(t, s, two, errors, n) /\ Faults(t, s, two, errors + 1, n)
    BY <2>1, <2>2 DEF Faults
  <2> QED  BY <2>3 DEF t
<1>5. CASE k # 0
  <2>1. 1 \in 1..k /\ k - 1 \in 0..Len(t) /\ errors + (Len(t) - (k - 1)) <= Excess(n)
    BY <1>1, <1>2, <1>3, <1>5
  <2>2. \A j \in 1..(k - 1) : Held(t[j], s, two)
    <3> TAKE j \in 1..(k - 1)
    <3>1. j \in 1..Len(t) /\ j + 1 \in 1..k
      BY <1>1
    <3> QED  BY <1>1, <1>2, <3>1
  <2>3. Faults(t, s, two, errors, n) /\ Held(q[1], s, two)
    BY <1>2, <2>1, <2>2 DEF Faults
  <2> QED  BY <2>3 DEF t
<1> QED  BY <1>4, <1>5

\* The verify_client after n requests of the run g.
Redrawn(v, g, s, two, verified, errors) ==
    LET n == v.processed + Len(v.queue)
    IN  /\ n <= Requests + config.pipeline - 1
        /\ Alike(v, g[n]) /\ CountsOf(v, g[n])
        /\ verified \in Nat /\ errors \in Nat /\ verified + errors + Len(v.queue) = g[n].sets
        /\ two \/ Faults(v.queue, s, two, errors, n)
        /\ v.pc = "ended" => v.processed >= Requests

AllHeld(g, s, two) ==
    \A j \in 0..(Requests - 1) : Sets(g[j]) => Held(Request(g[j]), s, two)

LEMMA ConflictStays ==
    ASSUME Types, [Next]_vars, conflict
    PROVE  conflict'
<1>1. ASSUME NEW i \in DOMAIN clients, ClientStep(i)
      PROVE  (\E request : Put(request)) \/ UNCHANGED conflict
  BY <1>1 DEF ClientStep, MovesOn, Writable, FillStart, FillDone, ParseDone, Write, Verify,
         HandleResponse, Compare, Straggler, history
<1>2. (\E request : Put(request)) => conflict'
  BY DEF Put
<1>3. (\E i \in DOMAIN clients : AssertFails(i)) \/ NextRun \/ StartVerify \/ Finish
      \/ UNCHANGED vars => UNCHANGED conflict
  BY DEF AssertFails, NextRun, StartVerify, Finish, vars, history
<1> QED  BY <1>1, <1>2, <1>3, NextIs

LEMMA FaultsStay ==
    ASSUME Types, [Next]_vars, NEW q, NEW errors, NEW n,
           conflict \/ Faults(q, store, conflict, errors, n)
    PROVE  conflict' \/ Faults(q, store', conflict', errors, n)
<1>1. CASE conflict
  BY <1>1, ConflictStays
<1>2. CASE Faults(q, store, conflict, errors, n)
  BY <1>2, StillHeld DEF Faults
<1> QED  BY <1>1, <1>2

\* Other clients do not disturb it.
LEMMA RedrawnStays ==
    ASSUME Types, [Next]_vars, NEW v, NEW g,
           Redrawn(v, g, store, conflict, m_verified_keys, m_errors), UNCHANGED results
    PROVE  Redrawn(v, g, store', conflict', m_verified_keys', m_errors')
BY FaultsStay DEF Redrawn, results

LEMMA Balance ==
    ASSUME NEW a \in Nat, NEW b \in Nat, NEW l \in Nat, NEW total, a + b + l = total,
           NEW x \in Nat, NEW y \in Nat, x + y = a + b + 1, NEW m, m = l - 1
    PROVE  x + y + m = total
OBVIOUS

LEMMA RedrawnStep ==
    ASSUME Types, Redraws, [Next]_vars, NEW g, IsRun(g, Bound), AllHeld(g, store, conflict),
           Verifier \in DOMAIN clients, ClientStep(Verifier), phase = "verify",
           Redrawn(clients[Verifier], g, store, conflict, m_verified_keys, m_errors)
    PROVE  Redrawn(clients'[Verifier], g, store', conflict', m_verified_keys', m_errors')
<1> DEFINE c == clients[Verifier]
           d == clients'[Verifier]
           p == c.processed
           q == c.queue
           n == p + Len(q)
<1>1. Sane(config) /\ IsClient(c)
  BY ConfigSane DEF Types
<1>2. /\ p \in Nat /\ q \in Seq(Range(q)) /\ Len(q) \in Nat /\ n \in Nat
      /\ Requests \in Nat /\ config.pipeline \in Nat \ {0}
  <2>1. p \in Nat /\ q \in Seq(Range(q))
    BY <1>1 DEF IsClient, ClientOf
  <2>2. Len(q) \in Nat
    BY <2>1, LenProperties
  <2>3. n \in Nat
    BY <2>1, <2>2
  <2> QED  BY <1>1, <2>1, <2>2, <2>3, RequestsNat
<1>3. /\ n <= Requests + config.pipeline - 1
      /\ Alike(c, g[n]) /\ CountsOf(c, g[n])
      /\ m_verified_keys \in Nat /\ m_errors \in Nat
      /\ m_verified_keys + m_errors + Len(q) = g[n].sets
      /\ conflict \/ Faults(q, store, conflict, m_errors, n)
      /\ c.pc = "ended" => p >= Requests
  BY DEF Redrawn
<1>. SUFFICES Redrawn(d, g, store', conflict', m_verified_keys', m_errors')
  OBVIOUS
<1>4. CASE MovesOn(Verifier)
  <2>1. /\ Rests(c, d) /\ d.queue = q /\ d.processed = p
        /\ UNCHANGED << store, results, history >>
        /\ d.pc = "ended" => finished(c)
    BY <1>4, MovedOn
  <2>2. /\ Alike(d, g[n]) /\ CountsOf(d, g[n])
        /\ UNCHANGED << m_verified_keys, m_errors >> /\ store' = store /\ conflict' = conflict
        /\ d.pc = "ended" => d.processed >= Requests
    BY <1>3, <2>1 DEF Rests, Alike, CountsOf, SameCounts, results, history, finished
  <2>3. d.processed + Len(d.queue) = n
    BY <2>1
  <2> HIDE DEF d, n, c, p, q
  <2> QED  BY <1>3, <2>1, <2>2, <2>3 DEF Redrawn
<1>5. CASE Verify(Verifier)
  <2>1. /\ MayCreate(c) /\ SameRange(c, d) /\ c.pc = "fill"
        /\ \/ /\ SetDue(c)
              /\ Drawn(c, d, AfterObject(c), Append(q, Req("verify", SetKey(c), SetValue(c))),
                       p, c.set_count + 1, c.get_count)
           \/ /\ GetDue(c)
              /\ Drawn(c, d, AfterKeys(c), q, p + 1, c.set_count, c.get_count + keys_count(c))
           \/ /\ ~SetDue(c) /\ ~GetDue(c)
              /\ Drawn(c, d, c, q, p, 0, 0)
    BY <1>5, Reverified
  <2>2. UNCHANGED << store, m_verified_keys, m_errors, conflict >>
    BY <1>5 DEF Verify, results, history
  <2>3. n + 1 <= Requests + config.pipeline - 1
    <3>1. p < Requests /\ Len(q) < config.pipeline
      BY <1>2, <2>1 DEF MayCreate, finished, Redraws
    <3> HIDE DEF p, q
    <3> QED  BY <1>2, <3>1
  <2>4. d.pc # "ended"
    BY <2>1 DEF SameRange
  <2>5. /\ g[n + 1] = CreateRequest(g[n]) /\ IsClient(g[n]) /\ RatioOK(g[n])
        /\ IsClient(g[n + 1])
    <3> HIDE DEF n
    <3> QED  BY <1>1, <1>2, <2>3, InRun
  <2>6. config.wait = 0
    BY DEF Redraws
  <2> HIDE DEF c, d, n
  <2>7. CASE SetDue(c)
    <3> DEFINE r == Req("verify", SetKey(c), SetValue(c))
               t == Append(q, r)
    <3>1. Drawn(c, d, AfterObject(c), t, p, c.set_count + 1, c.get_count)
      BY <2>1, <2>7 DEF GetDue
    <3>2. /\ Sets(g[n]) /\ Request(g[n]) = Req("set", SetKey(c), SetValue(c))
          /\ g[n + 1].sets = g[n].sets + 1 /\ Alike(d, g[n + 1]) /\ CountsOf(d, g[n + 1])
      BY <1>1, <1>3, <2>5, <2>6, <2>7, <3>1, VerifyDraws
    <3>3. Len(t) = Len(q) + 1
      BY <1>2, AppendAny
    <3>4. n < Requests => Held(r, store, conflict)
      <4>1. ASSUME n < Requests
            PROVE  Held(Request(g[n]), store, conflict)
        BY <1>2, <3>2, <4>1 DEF AllHeld
      <4>2. Request(g[n]).key = r.key /\ Request(g[n]).value = r.value
        BY <3>2 DEF Req
      <4> HIDE DEF r
      <4> QED  BY <4>1, <4>2 DEF Held
    <3>5. conflict \/ Faults(t, store, conflict, m_errors, n + 1)
      BY <1>1, <1>2, <1>3, <3>4, FaultsDraw
    <3>6. d.queue = t /\ d.processed = p
      BY <3>1 DEF Drawn
    <3> HIDE DEF t
    <3>7. d.processed + Len(d.queue) = n + 1
      <4>1. d.processed = p /\ Len(d.queue) = Len(q) + 1
        BY <3>3, <3>6
      <4> HIDE DEF p, q
      <4> QED  BY <1>2, <4>1 DEF n
    <3>8. m_verified_keys + m_errors + Len(d.queue) = g[n + 1].sets
      <4>1. g[n].sets \in Nat
        BY <2>5 DEF IsClient, ClientOf
      <4>2. Len(d.queue) = Len(q) + 1
        BY <3>3, <3>6
      <4> HIDE DEF p, q
      <4> QED  BY <1>2, <1>3, <3>2, <4>1, <4>2
    <3>9. conflict' \/ Faults(d.queue, store', conflict', m_errors', n + 1)
      BY <2>2, <3>5, <3>6
    <3> HIDE DEF p, q
    <3> QED  BY <1>3, <2>2, <2>3, <2>4, <3>2, <3>7, <3>8, <3>9 DEF Redrawn
  <2>8. CASE GetDue(c)
    <3>1. Drawn(c, d, AfterKeys(c), q, p + 1, c.set_count, c.get_count + keys_count(c))
      BY <2>1, <2>8 DEF GetDue
    <3>2. g[n + 1].sets = g[n].sets /\ Alike(d, g[n + 1]) /\ CountsOf(d, g[n + 1])
      <4> DEFINE m == p + 1
                 f == g[n]
      <4>1. Drawn(c, d, AfterKeys(c), q, m, c.set_count, c.get_count + keys_count(c))
        BY <3>1
      <4>2. IsClient(f) /\ RatioOK(f) /\ Alike(c, f) /\ CountsOf(c, f)
        BY <1>3, <2>5
      <4> HIDE DEF m, q, f
      <4>3. /\ CreateRequest(f).sets = f.sets
            /\ Alike(d, CreateRequest(f)) /\ CountsOf(d, CreateRequest(f))
        BY ONLY <1>1, <2>6, <2>8, <4>1, <4>2, VerifySkips
      <4> QED  BY <2>5, <4>3 DEF f
    <3>3. d.queue = q /\ d.processed = p + 1
      BY <3>1 DEF Drawn
    <3>4. d.processed + Len(d.queue) = n + 1
      BY <1>2, <3>3 DEF n
    <3>5. conflict \/ Faults(q, store, conflict, m_errors, n + 1)
      BY <1>1, <1>2, <1>3, FaultsSkip
    <3> HIDE DEF p, q
    <3> QED  BY <1>3, <2>2, <2>3, <2>4, <3>2, <3>3, <3>4, <3>5 DEF Redrawn
  <2>9. CASE ~SetDue(c) /\ ~GetDue(c)
    <3>1. Drawn(c, d, c, q, p, 0, 0)
      BY <2>1, <2>9
    <3>2. Alike(d, g[n]) /\ CountsOf(d, g[n])
      BY <1>1, <1>3, <2>5, <2>6, <2>9, <3>1, VerifyDraws
    <3>3. d.queue = q /\ d.processed = p
      BY <3>1 DEF Drawn
    <3>4. d.processed + Len(d.queue) = n
      BY <3>3 DEF n
    <3> HIDE DEF p, q
    <3> QED  BY <1>3, <2>2, <2>4, <3>2, <3>3, <3>4 DEF Redrawn
  <2> QED  BY <2>7, <2>8, <2>9
<1>6. CASE Compare(Verifier)
  <2> DEFINE t == Tail(q)
             r == Head(q)
             equal == r.key \in DOMAIN store /\ store[r.key] = r.value
  <2>1. /\ Rests(c, d) /\ d.processed = p + 1 /\ q # << >> /\ d.queue = t
        /\ c.pc # "ended" /\ d.pc = "parse"
    BY <1>6, Replied
  <2>2. /\ Len(t) = Len(q) - 1 /\ r = q[1] /\ Len(q) \in Nat \ {0}
    BY <1>2, <2>1, TailAny
  <2>3. /\ m_verified_keys' = m_verified_keys + (IF equal THEN 1 ELSE 0)
        /\ m_errors' = m_errors + (IF equal THEN 0 ELSE 1)
        /\ UNCHANGED << store, conflict >>
    BY <1>6 DEF Compare, history
  <2>4. Alike(d, g[n]) /\ CountsOf(d, g[n])
    <3> HIDE DEF c, d, n
    <3> QED  BY <1>3, <2>1 DEF Rests, Alike, CountsOf, SameCounts
  <2> HIDE DEF c, d, t, p, q
  <2>5. d.processed + Len(d.queue) = n
    BY <1>2, <2>1, <2>2 DEF n
  <2>6. conflict \/ Faults(t, store, conflict, m_errors', n)
    <3>1. CASE conflict
      BY <3>1
    <3>2. CASE ~conflict
      <4>1. Held(q[1], store, conflict) <=> equal
        BY <2>2, <3>2 DEF Held
      <4>2. Faults(q, store, conflict, m_errors, n)
        BY <1>3, <3>2
      <4> HIDE DEF equal, n
      <4>3. IF equal THEN Faults(t, store, conflict, m_errors, n)
            ELSE Faults(t, store, conflict, m_errors + 1, n)
        BY <1>1, <1>2, <1>3, <2>1, <3>2, <4>1, <4>2, FaultsRead DEF t
      <4>4. m_errors' = IF equal THEN m_errors ELSE m_errors + 1
        BY <1>3, <2>3
      <4> QED  BY <4>3, <4>4
    <3> QED  BY <3>1, <3>2
  <2> HIDE DEF equal, n
  <2>7. /\ m_verified_keys' \in Nat /\ m_errors' \in Nat
        /\ m_verified_keys' + m_errors' + Len(d.queue) = g[n].sets
    <3>1. /\ m_verified_keys' + m_errors' = m_verified_keys + m_errors + 1
          /\ m_verified_keys' \in Nat /\ m_errors' \in Nat
      <4>1. CASE equal
        BY <1>3, <2>3, <4>1
      <4>2. CASE ~equal
        BY <1>3, <2>3, <4>2
      <4> QED  BY <4>1, <4>2
    <3>2. Len(d.queue) = Len(q) - 1
      BY <2>1, <2>2
    <3> DEFINE a == m_verified_keys
               b == m_errors
               l == Len(q)
               x == m_verified_keys'
               y == m_errors'
               m == Len(d.queue)
               total == g[n].sets
    <3>3. /\ a \in Nat /\ b \in Nat /\ l \in Nat /\ a + b + l = total
          /\ x \in Nat /\ y \in Nat /\ x + y = a + b + 1 /\ m = l - 1
      BY <1>2, <1>3, <3>1, <3>2
    <3> HIDE DEF a, b, l, x, y, m, total
    <3>4. x + y + m = total
      BY ONLY <3>3, Balance
    <3> QED  BY <3>1, <3>4 DEF x, y, m, total
  <2>8. d.pc # "ended"
    BY <2>1
  <2> QED  BY <1>3, <2>1, <2>3, <2>4, <2>5, <2>6, <2>7, <2>8 DEF Redrawn
<1> QED  BY <1>4, <1>5, <1>6 DEF ClientStep, Write, HandleResponse, Straggler

-----------------------------------------------------------------------------
(* The SETs of a run are counted                                           *)

SetsOf(cs) == [i \in Writers |-> cs[i].sets]

WrittenOK == written = SumFunctionOnSet(SetsOf(clients), Writers)

LEMMA WritersFinite ==
    ASSUME Sane(config)
    PROVE  IsFiniteSet(Writers) /\ Cardinality(Writers) = config.clients
<1>1. config.clients \in Nat /\ config.clients \in Int /\ 1 \in Int
  BY ShareNat
<1>2. /\ IsFiniteSet(1..config.clients)
      /\ Cardinality(1..config.clients) =
            IF 1 > config.clients THEN 0 ELSE config.clients - 1 + 1
  BY <1>1, FS_Interval
<1> QED  BY <1>1, <1>2 DEF Writers

LEMMA SetsNat ==
    ASSUME Types
    PROVE  \A i \in Writers : clients[i].sets \in Nat
<1>1. Writers \subseteq DOMAIN clients
  BY ConfigSane, ShareNat DEF Types, Writers, Verifier
<1> QED  BY <1>1 DEF Types, IsClient, ClientOf

LEMMA NoSetsYet ==
    ASSUME Sane(config), NEW idx \in Nat, NEW cs \in Runs(idx)
    PROVE  SumFunctionOnSet(SetsOf(cs), Writers) = 0
<1>1. \A i \in Writers : SetsOf(cs)[i] = 0
  <2> TAKE i \in Writers
  <2>1. PICK n \in Nat : cs[i] = Client(idx + i - 1, n)
    BY RunsMade
  <2>2. idx + i - 1 \in Nat
    BY RunsMade
  <2>3. Client(idx + i - 1, n).sets = 0
    BY <2>2, ClientMade
  <2> QED  BY <2>1, <2>3 DEF SetsOf
<1>2. SumFunctionOnSet(SetsOf(cs), Writers) = Cardinality(Writers) * 0
  <2> DEFINE v == SetsOf(cs)
             r == 0
  <2>1. r \in Int /\ \A i \in Writers : v[i] = r
    BY <1>1
  <2> HIDE DEF v, r
  <2>2. SumFunctionOnSet(v, Writers) = Cardinality(Writers) * r
    BY <2>1, WritersFinite, SumConstant
  <2> QED  BY <2>2 DEF v, r
<1>3. Cardinality(Writers) \in Nat
  BY WritersFinite, FS_CardinalityType
<1> QED  BY <1>2, <1>3

LEMMA WrittenInit == Init => WrittenOK
<1> SUFFICES ASSUME Init PROVE WrittenOK
  OBVIOUS
<1>1. Sane(config) /\ clients \in Runs(0) /\ written = 0
  BY ConfigSane DEF Init
<1> QED  BY <1>1, NoSetsYet DEF WrittenOK

LEMMA WrittenStep == Types /\ WrittenOK /\ [Next]_vars => WrittenOK'
<1> SUFFICES ASSUME Types, WrittenOK, [Next]_vars PROVE WrittenOK'
  OBVIOUS
<1>1. /\ Sane(config) /\ UNCHANGED config /\ Writers \subseteq DOMAIN clients
      /\ Verifier \notin Writers /\ next_client_idx \in Nat /\ IsFiniteSet(Writers)
  BY WritersKept, WritersFinite
<1> DEFINE v == SetsOf(clients)
           w == SetsOf(clients')
<1>2. SUFFICES written' = SumFunctionOnSet(w, Writers)
  <2>1. SetsOf(clients)' = SetsOf(clients') /\ Writers' = Writers
    BY <1>1, WritersStay DEF SetsOf
  <2> QED  BY <1>2, <2>1 DEF WrittenOK
<1>3. written = SumFunctionOnSet(v, Writers)
  BY DEF WrittenOK
<1>4. /\ \A i \in Writers : v[i] = clients[i].sets /\ v[i] \in Int
      /\ \A i \in Writers : w[i] = clients'[i].sets
  BY SetsNat DEF SetsOf
<1> HIDE DEF v, w
<1>5. ASSUME UNCHANGED written, \A i \in Writers : clients'[i].sets = clients[i].sets
      PROVE  written' = SumFunctionOnSet(w, Writers)
  <2>1. \A i \in Writers : v[i] = w[i]
    BY <1>4, <1>5
  <2>2. SumFunctionOnSet(v, Writers) = SumFunctionOnSet(w, Writers)
    BY <1>1, <2>1, SumSame
  <2> QED  BY <1>3, <1>5, <2>2
<1>6. ASSUME NEW i \in DOMAIN clients, ClientStep(i), Only(i)
      PROVE  written' = SumFunctionOnSet(w, Writers)
  <2>1. CASE Write(i)
    <3>1. /\ i \in Writers /\ IsClient(clients[i]) /\ clients'[i] = CreateRequest(clients[i])
          /\ CanCreate(clients[i])
          /\ written' = written + (IF Sets(clients[i]) THEN 1 ELSE 0)
      BY <2>1, WriterStep, Written DEF Types
    <3>2. clients'[i].sets = clients[i].sets + (IF Sets(clients[i]) THEN 1 ELSE 0)
      BY <1>1, <3>1, Created
    <3>3. \A j \in Writers \ {i} : clients'[j].sets = clients[j].sets
      BY <1>1, <1>6 DEF Only
    <3>4. CASE Sets(clients[i])
      <4>1. w[i] = v[i] + 1 /\ \A j \in Writers \ {i} : w[j] = v[j]
        BY <1>4, <3>1, <3>2, <3>3, <3>4
      <4>2. SumFunctionOnSet(w, Writers) = SumFunctionOnSet(v, Writers) + 1
        BY <1>1, <1>4, <3>1, <4>1, SumCount
      <4> QED  BY <1>3, <3>1, <3>4, <4>2
    <3>5. CASE ~Sets(clients[i])
      <4>1. SumFunctionOnSet(v, Writers) \in Int
        BY <1>1, <1>4, SumRemove
      <4>2. UNCHANGED written
        BY <1>3, <3>1, <3>5, <4>1
      <4>3. clients'[i].sets = clients[i].sets
        BY <1>4, <3>1, <3>2, <3>5
      <4>4. \A j \in Writers : clients'[j].sets = clients[j].sets
        BY <3>3, <4>3
      <4> QED  BY <1>5, <4>2, <4>4
    <3> QED  BY <3>4, <3>5
  <2>2. CASE ~Write(i)
    <3>1. UNCHANGED written /\ (i # Verifier => Rests(clients[i], clients'[i]))
      BY <1>6, <2>2, StepsRest
    <3>2. \A j \in Writers : clients'[j].sets = clients[j].sets
      BY <1>1, <1>6, <3>1 DEF Only, Rests
    <3> QED  BY <1>5, <3>1, <3>2
  <2> QED  BY <2>1, <2>2
<1>7. CASE NextRun
  <2>1. clients' \in Runs(next_client_idx) /\ written' = 0
    BY <1>7 DEF NextRun
  <2> QED  BY <1>1, <2>1, NoSetsYet DEF w
<1>8. ASSUME \A j \in Writers : clients'[j] = clients[j], UNCHANGED history
      PROVE  written' = SumFunctionOnSet(w, Writers)
  BY <1>5, <1>8 DEF history
<1> QED  BY <1>6, <1>7, <1>8, WritersKept

-----------------------------------------------------------------------------
(* The verification                                                        *)

\* The clients have ended before; nothing is compared before.
PhasesOK ==
    /\ phase \in {"verify", "done"} => \A i \in Writers : clients[i].pc = "ended"
    /\ phase = "run" => m_verified_keys = 0 /\ m_errors = 0

LEMMA PhasesStep == Types /\ PhasesOK /\ [Next]_vars => PhasesOK'
<1> SUFFICES ASSUME Types, PhasesOK, [Next]_vars PROVE PhasesOK'
  OBVIOUS
<1>1. /\ Sane(config) /\ UNCHANGED config /\ Writers' = Writers
      /\ Verifier \notin Writers /\ Writers \subseteq DOMAIN clients
  BY WritersKept, WritersStay
<1>2. ASSUME NEW i \in DOMAIN clients, ClientStep(i), Only(i), UNCHANGED main
      PROVE  PhasesOK'
  <2>1. UNCHANGED phase
    BY <1>2 DEF main
  <2>2. ASSUME phase \in {"verify", "done"}, NEW j \in Writers
        PROVE  clients'[j].pc = "ended"
    <3>1. clients[j].pc = "ended"
      BY <2>2 DEF PhasesOK
    <3>2. CASE j = i
      <4>1. ~MovesOn(i) /\ ~HandleResponse(i) /\ ~Compare(i)
        BY <3>1, <3>2, MovedOn, Replied
      <4>2. ~Write(i) /\ ~Verify(i)
        BY <3>1, <3>2 DEF Write, Verify
      <4>3. Straggler(i)
        BY <1>2, <4>1, <4>2 DEF ClientStep
      <4> QED  BY <3>2, <4>3, Straggled
    <3>3. CASE j # i
      BY <1>1, <1>2, <3>1, <3>3 DEF Only
    <3> QED  BY <3>2, <3>3
  <2>3. phase = "run" => UNCHANGED results
    <3>1. ASSUME phase = "run"
          PROVE  ~Compare(i)
      BY <3>1 DEF Compare, Reply, Active
    <3> QED  BY <1>2, <3>1 DEF ClientStep, MovesOn, Writable, FillStart, FillDone,
                ParseDone, Write, Verify, HandleResponse, Straggler
  <2> QED  BY <1>1, <2>1, <2>2, <2>3 DEF PhasesOK, results
<1>3. CASE NextRun
  BY <1>1, <1>3 DEF NextRun, RunOver, PhasesOK, results
<1>4. ASSUME \A j \in Writers : clients'[j] = clients[j],
             UNCHANGED << run_id, store, results, history >>,
             \/ StartVerify /\ phase' = "verify"
             \/ Finish /\ phase' = "done"
             \/ UNCHANGED phase \/ phase' = "assert_failed"
      PROVE  PhasesOK'
  <2>1. StartVerify \/ Finish => RunOver \/ phase = "verify"
    BY DEF StartVerify, Finish
  <2>2. \/ RunOver /\ phase' \in {"verify", "done"}
        \/ phase = "verify" /\ phase' \in {"verify", "done"}
        \/ UNCHANGED phase \/ phase' = "assert_failed"
    BY <1>4, <2>1
  <2>3. RunOver => \A j \in Writers : clients[j].pc = "ended"
    BY DEF RunOver
  <2>4. UNCHANGED << m_verified_keys, m_errors >>
    BY <1>4 DEF results
  <2> QED  BY <1>1, <1>4, <2>2, <2>3, <2>4 DEF PhasesOK
<1> QED  BY <1>2, <1>3, <1>4, WritersKept

\* The outcome.
Outcome ==
    /\ m_errors <= config.pipeline - 1
    /\ config.pipeline = 1 => m_verified_keys * config.clients = written

RedrawOK ==
    Redraws =>
        \A g : IsRun(g, Bound) =>
            /\ \A i \in Writers : Follows(clients[i], g, store, conflict)
            /\ phase \in {"verify", "done"} => AllHeld(g, store, conflict)
            /\ phase = "verify" => Redrawn(clients[Verifier], g, store, conflict,
                                           m_verified_keys, m_errors)
            /\ phase = "done" => conflict \/ Outcome

\* Clients that have ended have what the verification draws.
LEMMA EndedHeld ==
    ASSUME Types, PacedOK, NEW g, NEW i \in Writers, i \in DOMAIN clients,
           clients[i].pc = "ended", Follows(clients[i], g, store, conflict)
    PROVE  AllHeld(g, store, conflict)
<1> DEFINE c == clients[i]
           p == c.processed
<1>1. Requests \in Nat /\ p \in Nat /\ p >= Requests
  <2>1. Sane(config) /\ IsClient(c)
    BY ConfigSane DEF Types
  <2>2. Pace(c, Requests, config.pipeline)
    BY DEF PacedOK, Paced
  <2> QED  BY <2>1, <2>2, RequestsNat DEF Pace, IsClient, ClientOf
<1>2. \A j \in 0..(p - 1) : Sets(g[j]) => Held(Request(g[j]), store, conflict)
  BY DEF Follows
<1> HIDE DEF p
<1>3. 0..(Requests - 1) \subseteq 0..(p - 1)
  BY <1>1
<1> QED  BY <1>2, <1>3 DEF AllHeld

LEMMA OutcomeReached ==
    ASSUME Types, PacedOK, WrittenOK, PhasesOK, Redraws, NEW g, IsRun(g, Bound),
           phase = "verify", clients[Verifier].pc = "ended",
           \A i \in Writers : Follows(clients[i], g, store, conflict),
           Redrawn(clients[Verifier], g, store, conflict, m_verified_keys, m_errors)
    PROVE  conflict \/ Outcome
<1> SUFFICES ASSUME ~conflict PROVE Outcome
  OBVIOUS
<1> DEFINE v == clients[Verifier]
           p == v.processed
           q == v.queue
           l == Len(q)
           n == p + l
<1>1. Sane(config) /\ IsClient(v) /\ Writers \subseteq DOMAIN clients
  <2>1. Sane(config)
    BY ConfigSane DEF Types
  <2>2. Verifier \in DOMAIN clients /\ Writers \subseteq DOMAIN clients
    BY <2>1, ShareNat DEF Types, Verifier, Writers
  <2> QED  BY <2>1, <2>2 DEF Types
<1>2. /\ p \in Nat /\ l \in Nat /\ Requests \in Nat /\ config.pipeline \in Nat \ {0}
      /\ config.clients \in Nat
  <2>1. p \in Nat /\ q \in Seq(Range(q))
    BY <1>1 DEF IsClient, ClientOf
  <2> QED  BY <1>1, <2>1, LenProperties, RequestsNat, ShareNat
<1>3. /\ n <= Requests + config.pipeline - 1 /\ p >= Requests
      /\ m_verified_keys \in Nat /\ m_errors \in Nat
      /\ m_verified_keys + m_errors + l = g[n].sets
      /\ Faults(q, store, conflict, m_errors, n)
  BY DEF Redrawn
<1> HIDE DEF v, p, q
<1>4. PICK k \in 0..l : m_errors + (l - k) <= Excess(n)
  BY <1>3 DEF Faults
<1> HIDE DEF l
<1>5. Excess(n) = n - Requests
  BY <1>2, <1>3 DEF Excess
<1>6. m_errors <= n - Requests /\ n \in Nat
  <2>1. m_errors + (l - k) <= n - Requests
    BY <1>4, <1>5
  <2> QED  BY <1>2, <1>3, <2>1
<1>7. m_errors <= config.pipeline - 1
  <2> HIDE DEF n
  <2> QED  BY <1>2, <1>3, <1>6
<1>8. ASSUME config.pipeline = 1
      PROVE  m_verified_keys * config.clients = written
  <2>1. n = Requests /\ l = 0 /\ m_errors = 0
    BY <1>2, <1>3, <1>6, <1>8
  <2>2. m_verified_keys = g[Requests].sets /\ g[Requests].sets \in Int
    BY <1>3, <2>1
  <2>3. \A i \in Writers : SetsOf(clients)[i] = g[Requests].sets
    <3> TAKE i \in Writers
    <3> DEFINE c == clients[i]
    <3>1. Pace(c, Requests, config.pipeline) /\ c.pc = "ended" /\ IsClient(c)
      BY <1>1 DEF PacedOK, Paced, PhasesOK, Types
    <3>2. Sent(c) \in Int /\ c.processed \in Nat
      <4>1. c.generated \in Nat /\ c.unset \in Nat /\ c.processed \in Nat
        BY <3>1 DEF IsClient, ClientOf
      <4> QED  BY <4>1 DEF Sent
    <3>3. c.sets = g[Sent(c)].sets
      BY DEF Follows
    <3>4. Sent(c) = Requests
      <4> HIDE DEF c
      <4>1. /\ c.processed >= Requests /\ Sent(c) >= c.processed
            /\ Sent(c) <= Requests + config.pipeline - 1
        BY <3>1 DEF Pace
      <4> QED  BY <1>2, <1>8, <3>2, <4>1
    <3> QED  BY <3>3, <3>4 DEF SetsOf
  <2>4. SumFunctionOnSet(SetsOf(clients), Writers) = Cardinality(Writers) * g[Requests].sets
    <3> DEFINE w == SetsOf(clients)
               r == g[Requests].sets
    <3>1. r \in Int /\ \A i \in Writers : w[i] = r
      BY <2>2, <2>3
    <3> HIDE DEF w, r
    <3>2. SumFunctionOnSet(w, Writers) = Cardinality(Writers) * r
      BY <1>1, <3>1, WritersFinite, SumConstant
    <3> QED  BY <3>2 DEF w, r
  <2>5. written = config.clients * m_verified_keys
    BY <1>1, <2>2, <2>4, WritersFinite DEF WrittenOK
  <2> QED  BY <1>2, <1>3, <2>5
<1> QED  BY <1>7, <1>8 DEF Outcome

LEMMA RedrawInit == Init => RedrawOK
<1> SUFFICES ASSUME Init, Redraws, NEW g, IsRun(g, Bound)
             PROVE  /\ \A i \in Writers : Follows(clients[i], g, store, conflict)
                    /\ phase = "run"
  BY DEF RedrawOK
<1>1. Sane(config) /\ clients \in Runs(0) /\ phase = "run"
  BY ConfigSane DEF Init
<1>2. ASSUME NEW i \in Writers
      PROVE  Follows(clients[i], g, store, conflict)
  <2>1. PICK n \in Nat : clients[i] = Client(0 + i - 1, n)
    BY <1>1, RunsMade
  <2>2. 0 + i - 1 \in Nat
    BY <1>1, RunsMade
  <2> QED  BY <1>1, <2>1, <2>2, FollowsMade
<1> QED  BY <1>1, <1>2

\* The run of a generator depends on the configuration alone.
LEMMA RunStays ==
    ASSUME UNCHANGED config
    PROVE  /\ \A g, n : IsRun(g, n)' = IsRun(g, n)
           /\ Redraws' = Redraws /\ Bound' = Bound
           /\ \A c : Sets(c)' = Sets(c) /\ Request(c)' = Request(c)
<1>1. /\ HasKeylist' = HasKeylist /\ Import' = Import /\ Requests' = Requests
      /\ \A idx, n : Client(idx, n)' = Client(idx, n)
  BY WritersStay
<1>2. Redraws' = Redraws /\ Bound' = Bound
  BY <1>1 DEF Redraws, Bound, NoR
<1>3. \A c, p : KeyIndex(c, p)' = KeyIndex(c, p)
  BY DEF KeyIndex, Random
<1>4. \A c, p : AfterKey(c, p)' = AfterKey(c, p)
  BY <1>3 DEF AfterKey
<1>5. \A c : Line(c)' = Line(c) /\ WaitDue(c)' = WaitDue(c) /\ SetDue(c)' = SetDue(c)
  BY DEF Line, WaitDue, SetDue
<1>5a. \A c : AfterKeys(c)' = AfterKeys(c) /\ keys_count(c)' = keys_count(c)
  <2> TAKE c
  <2>1. keys_count(c)' = keys_count(c)
    BY DEF keys_count
  <2>2. Drawing(c)' = Drawing(c)
    BY <1>4, <2>1 DEF Drawing
  <2> QED  BY <2>1, <2>2 DEF AfterKeys
<1>6. \A c : SetKey(c)' = SetKey(c) /\ SetValue(c)' = SetValue(c)
  BY <1>1, <1>3, <1>5 DEF SetKey, SetValue
<1>7. \A c : AfterObject(c)' = AfterObject(c)
  BY <1>1, <1>4, <1>5 DEF AfterObject
<1>8. \A c : Wait(c)' = Wait(c)
  BY DEF Wait, Push
<1>9. \A c : Set(c)' = Set(c)
  BY <1>6, <1>7 DEF Set, Push
<1>10. \A c : Get(c)' = Get(c)
  BY <1>5a DEF Get, Push
<1>11. \A c : Overlap(c)' = Overlap(c)
  BY DEF Overlap
<1>12. \A c : CreateRequest(c)' = CreateRequest(c)
  BY <1>5, <1>8, <1>9, <1>10, <1>11 DEF CreateRequest
<1>13. \A c : RatioOK(c)' = RatioOK(c)
  BY DEF RatioOK
<1>14. \A g, n : IsRun(g, n)' = IsRun(g, n)
  BY <1>1, <1>12, <1>13 DEF IsRun
<1>15. \A c : Sets(c)' = Sets(c) /\ Request(c)' = Request(c)
  BY <1>5, <1>6 DEF Sets, Request
<1> QED  BY <1>2, <1>14, <1>15

LEMMA FollowsStays ==
    ASSUME Types, [Next]_vars, NEW c, NEW g, Follows(c, g, store, conflict)
    PROVE  Follows(c, g, store', conflict')
BY StillHeld DEF Follows

LEMMA AllHeldStays ==
    ASSUME Types, [Next]_vars, NEW g, AllHeld(g, store, conflict)
    PROVE  AllHeld(g, store', conflict')
BY StillHeld DEF AllHeld

\* The verify_client begins with the generator the clients began with.
LEMMA RedrawnMade ==
    ASSUME Sane(config), Redraws, NEW g, IsRun(g, Bound), NEW s, NEW two,
           NEW idx \in Nat, NEW n \in Nat
    PROVE  Redrawn(Client(idx, n), g, s, two, 0, 0)
<1> DEFINE v == Client(idx, n)
<1>1. /\ v.processed = 0 /\ v.queue = << >> /\ v.pc = "idle" /\ Len(<< >>) = 0
  BY ClientMade, EmptySeq
<1>2. g[0] = Client(0, 0) /\ g[0].sets = 0
  <2>1. 0 \in Nat /\ Client(0, 0).sets = 0
    BY ClientMade
  <2>2. g[0] = Client(0, 0)
    BY DEF IsRun
  <2> QED  BY <2>1, <2>2
<1>3. Alike(v, g[0]) /\ SameCounts(v, g[0])
  BY <1>2, AlikeMade
<1>4. 0 <= Requests + config.pipeline - 1 /\ Excess(0) = 0
  BY RequestsNat DEF Excess
<1> HIDE DEF v
<1>5. v.processed + Len(v.queue) = 0
  BY <1>1
<1>6. Faults(v.queue, s, two, 0, 0)
  <2>1. 0 \in 0..Len(v.queue) /\ 0 + (Len(v.queue) - 0) <= Excess(0) /\ \A j \in 1..0 : FALSE
    BY <1>1, <1>4
  <2> QED  BY <2>1 DEF Faults
<1>7. 0 + 0 + Len(v.queue) = g[0].sets
  BY <1>1, <1>2
<1>8. Redrawn(v, g, s, two, 0, 0)
  BY <1>1, <1>3, <1>4, <1>5, <1>6, <1>7 DEF Redrawn, CountsOf
<1> QED  BY <1>8 DEF v

LEMMA RedrawStep ==
    Types /\ PacedOK /\ WrittenOK /\ PhasesOK /\ RedrawOK /\ [Next]_vars => RedrawOK'
<1> SUFFICES ASSUME Types, PacedOK, WrittenOK, PhasesOK, RedrawOK, [Next]_vars
             PROVE  RedrawOK'
  OBVIOUS
<1>1. /\ Sane(config) /\ UNCHANGED config /\ Writers \subseteq DOMAIN clients
      /\ Verifier \notin Writers /\ next_client_idx \in Nat
  BY WritersKept
<1> DEFINE All(g, cs, s, two) == \A i \in Writers : Follows(cs[i], g, s, two)
           Ends1(e, y, w) ==
               /\ e <= config.pipeline - 1
               /\ config.pipeline = 1 => y * config.clients = w
           Goal(g) ==
               /\ All(g, clients', store', conflict')
               /\ phase' \in {"verify", "done"} => AllHeld(g, store', conflict')
               /\ phase' = "verify" => Redrawn(clients'[Verifier], g, store', conflict',
                                               m_verified_keys', m_errors')
               /\ phase' = "done" => conflict' \/ Ends1(m_errors', m_verified_keys', written')
<1>2. SUFFICES ASSUME Redraws, NEW g, IsRun(g, Bound)
               PROVE  Goal(g)
  <2>1. /\ Redraws' = Redraws /\ \A g : IsRun(g, Bound)' = IsRun(g, Bound)
    BY <1>1, RunStays
  <2>0. \A x : Sets(x)' = Sets(x) /\ Request(x)' = Request(x)
    BY <1>1, RunStays
  <2>2. Writers' = Writers /\ Verifier' = Verifier
    BY <1>1, WritersStay
  <2>3. ASSUME NEW g, All(g, clients', store', conflict')
        PROVE  All(g, clients, store, conflict)'
    BY <1>1, <2>0, <2>2, <2>3 DEF Follows, Alike, SameCounts, NoR, Held, Sent
  <2>4. ASSUME NEW g, AllHeld(g, store', conflict')
        PROVE  AllHeld(g, store, conflict)'
    BY <1>1, <2>0, <2>4, WritersStay DEF AllHeld, Held
  <2>5. ASSUME NEW g, Redrawn(clients'[Verifier], g, store', conflict', m_verified_keys', m_errors')
        PROVE  Redrawn(clients[Verifier], g, store, conflict, m_verified_keys, m_errors)'
    BY <1>1, <2>2, <2>5, WritersStay DEF Redrawn, Alike, CountsOf, SameCounts, NoR,
       Faults, Held, Excess
  <2>6. conflict' \/ Ends1(m_errors', m_verified_keys', written') => (conflict \/ Outcome)'
    BY <1>1 DEF Outcome
  <2> QED  BY <1>1, <1>2, <2>1, <2>2, <2>3, <2>4, <2>5, <2>6 DEF RedrawOK
<1>3. /\ All(g, clients, store, conflict)
      /\ phase \in {"verify", "done"} => AllHeld(g, store, conflict)
      /\ phase = "verify" => Redrawn(clients[Verifier], g, store, conflict,
                                     m_verified_keys, m_errors)
      /\ phase = "done" => conflict \/ Ends1(m_errors, m_verified_keys, written)
  BY <1>2 DEF RedrawOK, Outcome
<1>4. ASSUME \A i \in Writers : clients'[i] = clients[i]
      PROVE  All(g, clients', store', conflict')
  BY <1>3, <1>4, FollowsStays
<1>5. ASSUME NEW i \in DOMAIN clients, ClientStep(i)
      PROVE  Goal(g)
  <2>1. Only(i) /\ UNCHANGED phase
    BY <1>5, ClientStepOnly DEF main
  <2>2. All(g, clients', store', conflict')
    <3> SUFFICES ASSUME NEW j \in Writers PROVE Follows(clients'[j], g, store', conflict')
      OBVIOUS
    <3>1. j \in DOMAIN clients /\ j # Verifier /\ Follows(clients[j], g, store, conflict)
      BY <1>1, <1>3
    <3>2. CASE j = i
      <4>1. Paced(clients[i])
        BY <3>2 DEF PacedOK
      <4> QED  BY <1>2, <1>5, <3>1, <3>2, <4>1, FollowsStep
    <3>3. CASE j # i
      <4>1. clients'[j] = clients[j]
        BY <2>1, <3>1, <3>3 DEF Only
      <4> QED  BY <3>1, <4>1, FollowsStays
    <3> QED  BY <3>2, <3>3
  <2>3. phase' \in {"verify", "done"} => AllHeld(g, store', conflict')
    BY <1>3, <2>1, AllHeldStays
  <2>4. ~Compare(i) => UNCHANGED results
    BY <1>5 DEF ClientStep, MovesOn, Writable, FillStart, FillDone, ParseDone,
           Write, Verify, HandleResponse, Straggler
  <2>5. ASSUME phase = "verify"
        PROVE  Redrawn(clients'[Verifier], g, store', conflict', m_verified_keys', m_errors')
    <3>1. /\ Redrawn(clients[Verifier], g, store, conflict, m_verified_keys, m_errors)
          /\ AllHeld(g, store, conflict)
      BY <1>3, <2>5
    <3>2. Verifier \in DOMAIN clients
      BY <1>1, <2>5, ShareNat DEF Types, Verifier
    <3>3. CASE i = Verifier
      BY <1>2, <1>5, <2>5, <3>1, <3>2, <3>3, RedrawnStep
    <3>4. CASE i # Verifier
      <4>1. UNCHANGED results /\ clients'[Verifier] = clients[Verifier]
        BY <2>1, <2>4, <3>2, <3>4 DEF Compare, Only
      <4> QED  BY <3>1, <4>1, RedrawnStays
    <3> QED  BY <3>3, <3>4
  <2>6. ASSUME phase = "done"
        PROVE  conflict' \/ Ends1(m_errors', m_verified_keys', written')
    <3>1. UNCHANGED results
      BY <2>4, <2>6 DEF Compare, Reply, Active
    <3>2. UNCHANGED written
      <4>1. ~Write(i)
        BY <1>5, <2>6, WriterStep DEF PhasesOK, Write
      <4> QED  BY <1>5, <4>1, StepsRest
    <3>3. CASE conflict
      BY <3>3, ConflictStays
    <3>4. CASE ~conflict
      BY <1>3, <2>6, <3>1, <3>2, <3>4 DEF results
    <3> QED  BY <3>3, <3>4
  <2> QED  BY <2>1, <2>2, <2>3, <2>5, <2>6
<1>6. ASSUME NEW i \in DOMAIN clients, AssertFails(i)
      PROVE  Goal(g)
  <2>1. UNCHANGED clients /\ phase' = "assert_failed"
    BY <1>6 DEF AssertFails
  <2> QED  BY <1>4, <2>1
<1>7. CASE NextRun
  <2>1. clients' \in Runs(next_client_idx) /\ phase' = "run"
    BY <1>7 DEF NextRun, RunOver
  <2>2. All(g, clients', store', conflict')
    <3> SUFFICES ASSUME NEW j \in Writers PROVE Follows(clients'[j], g, store', conflict')
      OBVIOUS
    <3>1. PICK n \in Nat : clients'[j] = Client(next_client_idx + j - 1, n)
      BY <1>1, <2>1, RunsMade
    <3>2. next_client_idx + j - 1 \in Nat
      BY <1>1, <2>1, RunsMade
    <3> QED  BY <1>1, <1>2, <3>1, <3>2, FollowsMade
  <2> QED  BY <2>1, <2>2
<1>8. CASE StartVerify
  <2>1. /\ RunOver /\ phase' = "verify" /\ UNCHANGED << store, results, history >>
        /\ clients' = Append(clients, Client(next_client_idx, config.garbage))
    BY <1>8 DEF StartVerify
  <2>2. /\ \A i \in Writers : clients'[i] = clients[i]
        /\ clients'[Verifier] = Client(next_client_idx, config.garbage)
    BY <2>1, VerifierAdded
  <2>3. UNCHANGED << store, conflict >> /\ m_verified_keys' = 0 /\ m_errors' = 0
    BY <2>1 DEF history, results, RunOver, PhasesOK
  <2>4. AllHeld(g, store', conflict')
    <3>1. 1 \in Writers /\ 1 \in DOMAIN clients
      BY <1>1, ShareNat DEF Writers
    <3>2. clients[1].pc = "ended" /\ Follows(clients[1], g, store, conflict)
      BY <1>3, <2>1, <3>1 DEF RunOver
    <3>3. AllHeld(g, store, conflict)
      BY <3>1, <3>2, EndedHeld
    <3> QED  BY <2>3, <3>3
  <2>5. Redrawn(clients'[Verifier], g, store', conflict', m_verified_keys', m_errors')
    <3>1. config.garbage \in Nat
      BY <1>1 DEF Sane
    <3> QED  BY <1>1, <1>2, <2>2, <2>3, <3>1, RedrawnMade
  <2> QED  BY <1>4, <2>1, <2>2, <2>4, <2>5
<1>9. CASE Finish
  <2>1. /\ phase' = "done" /\ UNCHANGED << store, clients, results, history >>
        /\ phase = "verify" /\ clients[Verifier].pc = "ended"
    BY <1>2, <1>9 DEF Finish, Redraws
  <2>2. UNCHANGED << conflict, written, m_verified_keys, m_errors >>
    BY <2>1 DEF history, results
  <2>3. conflict \/ Outcome
    BY <1>2, <1>3, <2>1, OutcomeReached
  <2>4. conflict' \/ Ends1(m_errors', m_verified_keys', written')
    BY <2>2, <2>3 DEF Outcome
  <2>5. AllHeld(g, store', conflict')
    BY <1>3, <2>1, AllHeldStays
  <2> QED  BY <1>4, <2>1, <2>4, <2>5
<1>10. CASE UNCHANGED vars
  <2>1. UNCHANGED << phase, store, clients, m_verified_keys, m_errors, conflict, written >>
    BY <1>10 DEF vars, main, results, history
  <2> QED  BY <1>3, <2>1
<1> HIDE DEF Goal
<1> QED  BY <1>5, <1>6, <1>7, <1>8, <1>9, <1>10, NextIs

LEMMA PhasesInit == Init => PhasesOK
BY DEF Init, PhasesOK

\* The reference run exists, so the outcome is what RedrawOK says it is.
LEMMA OutcomeKnown ==
    ASSUME Types, PacedOK, PhasesOK, RedrawOK, phase = "done", Import, Comparable, ~conflict
    PROVE  Outcome
<1>1. Sane(config)
  BY ConfigSane DEF Types
<1>2. Requests > 0
  <2>1. 1 \in Writers
    BY <1>1, ShareNat DEF Writers
  <2>2. clients[1].pc = "ended" /\ Paced(clients[1])
    BY <2>1 DEF PhasesOK, PacedOK
  <2> QED  BY <2>2 DEF Paced, Pace
<1>3. Redraws
  BY <1>2 DEF Redraws, Comparable, NoR
<1>4. config.wait = 0 /\ Bound \in Nat
  BY <1>1, <1>3, RequestsNat DEF Bound, Redraws
<1>5. PICK g : IsRun(g, Bound)
  BY <1>1, <1>4, RunExists
<1> QED  BY <1>3, <1>5 DEF RedrawOK

\* The verify_client, with a generator and an import file of its own and with the
\* counters of the ratio started over at another moment, draws the very SETs the
\* clients have drawn: unless a key was written with two values, it finds none of
\* them missing, asks at most for the rest of a pipeline more, and without a
\* pipeline compares as many keys as a client has written.
THEOREM RedrawsTheRun == Spec => []Verified
<1>1. Init => Types /\ PacedOK /\ WrittenOK /\ PhasesOK /\ RedrawOK
  BY TypesInit, PacedInit, WrittenInit, PhasesInit, RedrawInit
<1>2. Types /\ PacedOK /\ WrittenOK /\ PhasesOK /\ RedrawOK /\ [Next]_vars
      => (Types /\ PacedOK /\ WrittenOK /\ PhasesOK /\ RedrawOK)'
  BY TypesStep, PacedStep, WrittenStep, PhasesStep, RedrawStep
<1>3. Types /\ PacedOK /\ WrittenOK /\ PhasesOK /\ RedrawOK => Verified
  BY OutcomeKnown DEF Verified, Outcome
<1> QED  BY <1>1, <1>2, <1>3, PTL DEF Spec

=============================================================================
