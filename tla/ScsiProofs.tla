------------------------------ MODULE ScsiProofs ------------------------------
(***************************************************************************)
(* Theorems about the SCSI command layer, for every medium, every address  *)
(* and length, and every value of the limits that the numbers stand for.   *)
(***************************************************************************)
EXTENDS ScsiCommands, TLAPS, SequenceTheorems, WellFoundedInduction

-----------------------------------------------------------------------------
(* Sequences.                                                              *)

(* Induction over the naturals, for a set.                                 *)
LEMMA Induction ==
  ASSUME NEW S, 0 \in S, \A n \in Nat : n \in S => n + 1 \in S
  PROVE  Nat \subseteq S
<1> DEFINE T == Nat \ S
<1> SUFFICES ASSUME T # {} PROVE FALSE
  OBVIOUS
<1>1. PICK m \in T : \A y \in T : ~ (<<y, m>> \in OpToRel(<, Nat))
  BY WFMin, NatLessThanWellFounded
<1>2. \A y \in T : ~(y < m)
  BY <1>1 DEF OpToRel
<1>3. m # 0 /\ m \in Nat
  OBVIOUS
<1>4. m - 1 \in Nat /\ m - 1 < m
  BY <1>3
<1>5. m - 1 \in S
  BY <1>2, <1>4
<1>6. QED
  BY <1>3, <1>4, <1>5

(* f is the recursive function within FlattenSeq, on the first n.          *)
Joins(f, s, n) ==
  f = [i \in 1 .. n |-> IF i = 1 THEN s[i] ELSE f[i - 1] \o s[i]]

(* Its definition, unrolled once.                                          *)
LEMMA JoinsAt ==
  ASSUME NEW f, NEW s, NEW n, Joins(f, s, n), NEW i \in 1 .. n
  PROVE  f[i] = IF i = 1 THEN s[i] ELSE f[i - 1] \o s[i]
<1> DEFINE B(k) == IF k = 1 THEN s[k] ELSE f[k - 1] \o s[k]
           h == [k \in 1 .. n |-> B(k)]
<1>1. f = h
  BY DEF Joins
<1>2. h[i] = B(i)
  <2> HIDE DEF B
  <2>1. QED
    OBVIOUS
<1> HIDE DEF h
<1>3. QED
  BY <1>1, <1>2

(* t has the element v if and only if one of the first n of s has.         *)
Same(v, s, n, t) ==
  (\E k \in 1 .. n : \E i \in 1 .. Len(s[k]) : s[k][i] = v)
     <=> \E i \in 1 .. Len(t) : t[i] = v

Flat(S, s, i, t) == t \in Seq(S) /\ \A v : Same(v, s, i, t)

(* What FlattenSeq returns: a sequence of all elements, and of no others.  *)
LEMMA Flattened ==
  ASSUME NEW S, NEW s \in Seq(Seq(S)), Len(s) # 0
  PROVE  Flat(S, s, Len(s), FlattenSeq(s))
<1> DEFINE Good(n) == n = 0 \/ n > Len(s) \/
               \E f : /\ Joins(f, s, n)
                      /\ \A i \in 1 .. n : Flat(S, s, i, f[i])
           G == {n \in Nat : Good(n)}
<1>1. 0 \in G
  OBVIOUS
<1>2. ASSUME NEW n \in Nat, n \in G PROVE n + 1 \in G
  <2>1. CASE n + 1 > Len(s)
    BY <2>1
  <2>2. CASE n + 1 <= Len(s) /\ n = 0
    <3> DEFINE f == [i \in 1 .. 1 |-> s[1]]
    <3>1. Joins(f, s, 1)
      BY DEF Joins
    <3>2. Flat(S, s, 1, f[1])
      BY <2>2 DEF Same, Flat
    <3> HIDE DEF f
    <3>3. Good(1)
      BY <3>1, <3>2
    <3>4. QED
      BY <2>2, <3>3
  <2>3. CASE n + 1 <= Len(s) /\ n # 0
    <3>1. PICK g : /\ Joins(g, s, n)
                   /\ \A i \in 1 .. n : Flat(S, s, i, g[i])
      BY <1>2, <2>3
    <3> DEFINE f == [i \in 1 .. n + 1 |-> IF i = n + 1 THEN g[n] \o s[i] ELSE g[i]]
    <3>2. \A i \in 1 .. n : g[i] = IF i = 1 THEN s[i] ELSE g[i - 1] \o s[i]
      BY <3>1 DEF Joins
    <3>3. \A i \in 1 .. n + 1 : f[i] = IF i = 1 THEN s[i] ELSE f[i - 1] \o s[i]
      <4>1. TAKE i \in 1 .. n + 1
      <4>2. CASE i = n + 1
        <5>1. i # 1 /\ i - 1 = n /\ i - 1 \in 1 .. n + 1 /\ i - 1 # n + 1
          BY <2>3, <4>2
        <5>2. f[i - 1] = g[n] /\ f[i] = g[n] \o s[i]
          BY <4>2, <5>1
        <5>3. QED
          BY <5>1, <5>2
      <4>3. CASE i # n + 1 /\ i = 1
        BY <3>2, <4>3, <2>3
      <4>4. CASE i # n + 1 /\ i # 1
        <5>1. i \in 1 .. n /\ i - 1 \in 1 .. n + 1 /\ i - 1 # n + 1
          BY <4>4
        <5>2. f[i - 1] = g[i - 1] /\ f[i] = g[i]
          BY <4>4, <5>1
        <5>3. QED
          BY <3>2, <4>4, <5>1, <5>2
      <4>5. QED
        BY <4>2, <4>3, <4>4
    <3>4. Joins(f, s, n + 1)
      <4> DEFINE h == [i \in 1 .. n + 1 |-> IF i = 1 THEN s[i] ELSE f[i - 1] \o s[i]]
      <4>1. \A i \in 1 .. n + 1 : f[i] = h[i]
        BY <3>3
      <4>2. f = h
        BY <4>1
      <4>3. QED
        BY <4>2 DEF Joins
    <3>5. ASSUME NEW i \in 1 .. n + 1
          PROVE  Flat(S, s, i, f[i])
      <4>1. CASE i \in 1 .. n
        BY <3>1, <4>1
      <4>2. CASE i = n + 1
        <5> DEFINE a == g[n]  b == s[n + 1]
        <5>1. f[i] = a \o b
          BY <4>2
        <5>2. a \in Seq(S) /\ (\A v : Same(v, s, n, a))
          <6>1. n \in 1 .. n
            BY <2>3
          <6>2. QED
            BY <3>1, <6>1 DEF Flat
        <5>3. b \in Seq(S)
          BY <2>3
        <5>4. a \o b \in Seq(S)
          BY <5>2, <5>3
        <5> HIDE DEF a
        <5>5. \A v : (\E j \in 1 .. Len(a \o b) : (a \o b)[j] = v)
                  <=> (\E j \in 1 .. Len(a) : a[j] = v) \/ (\E j \in 1 .. Len(b) : b[j] = v)
          <6>0. /\ Len(a) \in Nat /\ Len(b) \in Nat /\ Len(a \o b) = Len(a) + Len(b)
                /\ \A j \in 1 .. Len(a) : (a \o b)[j] = a[j]
                /\ \A j \in 1 .. Len(b) : (a \o b)[Len(a) + j] = b[j]
            BY <5>2, <5>3
          <6> DEFINE c == a \o b  la == Len(a)  lb == Len(b)
          <6> HIDE DEF c, b, la, lb
          <6>1. /\ la \in Nat /\ lb \in Nat /\ Len(c) = la + lb
                /\ \A j \in 1 .. la : c[j] = a[j]
                /\ \A j \in 1 .. lb : c[la + j] = b[j]
            BY <6>0 DEF c, la, lb
          <6>2. \A v : (\E j \in 1 .. la + lb : c[j] = v)
                  <=> (\E j \in 1 .. la : a[j] = v) \/ (\E j \in 1 .. lb : b[j] = v)
            <7>1. TAKE v
            <7>2. ASSUME NEW j \in 1 .. la + lb, c[j] = v
                  PROVE (\E k \in 1 .. la : a[k] = v) \/ (\E k \in 1 .. lb : b[k] = v)
              <8>1. CASE j \in 1 .. la
                BY <6>1, <7>2, <8>1
              <8>2. CASE j \notin 1 .. la
                <9>1. j - la \in 1 .. lb /\ la + (j - la) = j
                  BY <6>1, <8>2
                <9>2. QED
                  BY <6>1, <7>2, <9>1
              <8>3. QED
                BY <8>1, <8>2
            <7>3. ASSUME NEW j \in 1 .. la, a[j] = v PROVE \E k \in 1 .. la + lb : c[k] = v
              <8>1. j \in 1 .. la + lb
                BY <6>1
              <8>2. QED
                BY <6>1, <7>3, <8>1
            <7>4. ASSUME NEW j \in 1 .. lb, b[j] = v PROVE \E k \in 1 .. la + lb : c[k] = v
              <8>1. la + j \in 1 .. la + lb
                BY <6>1
              <8>2. QED
                BY <6>1, <7>4, <8>1
            <7>5. QED
              BY <7>2, <7>3, <7>4
          <6>3. QED
            BY <6>1, <6>2 DEF c, la, lb
        <5>6. ASSUME NEW v PROVE Same(v, s, n + 1, a \o b)
          <6>1. (\E k \in 1 .. n + 1 : \E j \in 1 .. Len(s[k]) : s[k][j] = v)
                 <=> (\E k \in 1 .. n : \E j \in 1 .. Len(s[k]) : s[k][j] = v)
                     \/ (\E j \in 1 .. Len(b) : b[j] = v)
            <7>1. \A k : k \in 1 .. n + 1 <=> k \in 1 .. n \/ k = n + 1
              OBVIOUS
            <7>2. QED
              BY <7>1
          <6>2. QED
            BY <5>2, <5>5, <6>1 DEF Same
        <5>7. QED
          BY <4>2, <5>1, <5>4, <5>6 DEF Flat
      <4>3. QED
        BY <4>1, <4>2
    <3> HIDE DEF f
    <3>6. Good(n + 1)
      BY <3>4, <3>5
    <3>7. QED
      BY <3>6
  <2>4. QED
    BY <2>1, <2>2, <2>3
<1>3. Len(s) \in G /\ Len(s) \in Nat
  <2>1. Nat \subseteq G
    <3> HIDE DEF G
    <3>1. QED
      BY <1>1, <1>2, Induction
  <2>2. Len(s) \in Nat
    OBVIOUS
  <2>3. QED
    BY <2>1, <2>2
<1>4. \E f : Joins(f, s, Len(s))
  BY <1>3
<1> DEFINE f == CHOOSE f : Joins(f, s, Len(s))
<1>5. Joins(f, s, Len(s))
  BY <1>4
<1>6. FlattenSeq(s) = f[Len(s)]
  BY DEF FlattenSeq, Joins
<1>7. PICK g : /\ Joins(g, s, Len(s))
               /\ \A i \in 1 .. Len(s) : Flat(S, s, i, g[i])
  BY <1>3
<1> HIDE DEF f
<1>8. \A i \in 1 .. Len(s) : f[i] = g[i]
  <2> DEFINE E == {n \in Nat : n \in 1 .. Len(s) => f[n] = g[n]}
  <2>1. 0 \in E
    OBVIOUS
  <2>2. ASSUME NEW n \in Nat, n \in E PROVE n + 1 \in E
    <3>1. SUFFICES ASSUME n + 1 \in 1 .. Len(s) PROVE f[n + 1] = g[n + 1]
      OBVIOUS
    <3>2. /\ f[n + 1] = IF n + 1 = 1 THEN s[n + 1] ELSE f[n + 1 - 1] \o s[n + 1]
          /\ g[n + 1] = IF n + 1 = 1 THEN s[n + 1] ELSE g[n + 1 - 1] \o s[n + 1]
      BY <1>5, <1>7, <3>1, JoinsAt
    <3>3. n + 1 - 1 = n /\ (n + 1 # 1 => n \in 1 .. Len(s))
      BY <3>1
    <3>4. QED
      BY <2>2, <3>2, <3>3
  <2>3. Nat \subseteq E
    <3> HIDE DEF E
    <3>1. QED
      BY <2>1, <2>2, Induction
  <2>4. QED
    BY <2>3
<1>9. Len(s) \in 1 .. Len(s)
  BY <1>3
<1>10. QED
  BY <1>6, <1>7, <1>8, <1>9

(* What the division of a number of blocks leaves.                         *)
LEMMA Quotient ==
  ASSUME NEW a \in Nat, NEW b \in Nat \ {0}
  PROVE  /\ a \div b \in Nat
         /\ (a \div b) * b <= a /\ a < (a \div b) * b + b
  OBVIOUS

-----------------------------------------------------------------------------
(* The invariant.                                                          *)

Commands ==
  Rw \cup Verifies \cup Unmaps \cup PassThrough \cup StartStop \cup Prevents
     \cup Inquiries \cup Reports \cup Others \cup Malformed

Writes == {"write", "trim", "raw_write"}
Whats == Writes \cup
  {"read", "verify", "identify", "smart", "power", "flush", "trusted",
   "features", "standby"}

Statuses ==
  {"ok", "ready", "pending", "field", "range", "invalid", "protected",
   "not_ready", "attention", "prevented", "hardware", "unsupported", "failed"}

Ata == [what : Whats, first : Int, count : Int, wide : BOOLEAN,
        ranges : SUBSET Int, wait : BOOLEAN]

Steps == {"idle", "next", "polled", "pending"}

Around ==
  /\ dev \in Media \cup {NoDev} /\ class \in {"bot", "uas"}
  /\ changed \in BOOLEAN /\ unloaded \in BOOLEAN /\ protected \in BOOLEAN
  /\ prevented \in BOOLEAN /\ eject \in BOOLEAN

Types ==
  /\ Around
  /\ cmd \in [on : Steps, c : Commands \cup {NoCommand}, plan : Seq(Ata), end : Statuses]

(* What a READ or WRITE sends.                                             *)
Wanted(c) == IF class = "bot" THEN MinOf(CommandLength(c), c.host) ELSE CommandLength(c)

RwPlan(c, a) ==
  /\ Wanted(c) # 0 => Acts(a) = Span(c.lba + dev.offset, Wanted(c))
  /\ Wanted(c) = 0 => a.first = c.lba + dev.offset /\ a.count = 0
  /\ c.lba + Wanted(c) <= dev.blocks
  /\ (a.what = "write") = (c.op = "write")

OpenPlan(p) == \A i \in 1 .. Len(p) : p[i].what \in Writes => dev.open

(* What an UNMAP has trimmed and is about to trim, and which of its ATA    *)
(* commands it polls.                                                      *)
Trims(p) == UNION {p[i].ranges : i \in 1 .. Len(p)}

UnmapPlan(c, p, st, gone) ==
  /\ gone \cup Trims(p) \subseteq Named(c)
  /\ IF st = "pending"
     THEN /\ gone \cup Trims(p) = Named(c)
          /\ \A i \in 1 .. Len(p) - 1 : p[i].wait
     ELSE \A i \in 1 .. Len(p) : p[i].wait

(* The slider of the medium was open if writes are let through.            *)
SliderInv == Ready /\ ~protected => dev.open

IdleInv == cmd.on = "idle" => cmd.c = NoCommand /\ trimmed = {}

BusyInv ==
  cmd.on # "idle" =>
    /\ cmd.c \in Commands /\ cmd.plan # <<>>
    /\ Ready => OpenPlan(cmd.plan)
    /\ cmd.c.op \in {"read", "write"} =>
         ~cmd.plan[1].wait /\ (Ready => RwPlan(cmd.c, cmd.plan[1]))
    /\ cmd.c.op = "unmap" => UnmapPlan(cmd.c, cmd.plan, cmd.end, trimmed)

(* The command that the disk has.                                          *)
DiskInv ==
  /\ cmd.on = "polled" => cmd.plan[1].wait
  /\ cmd.on = "pending" => Ready /\ ~cmd.plan[1].wait
  /\ HasDisk /\ cmd.c.op = "unmap" => cmd.plan[1].ranges \subseteq trimmed

IInv == Types /\ SliderInv /\ IdleInv /\ BusyInv /\ DiskInv

-----------------------------------------------------------------------------
(* The ATA commands.                                                       *)

Fine(r) == r.plan \in Seq(Ata) /\ OpenPlan(r.plan) /\ r.end \in Statuses

(* The limits are positive and in order.                                   *)
LEMMA Sizes ==
  /\ Short \in Nat \ {0} /\ Long \in Nat \ {0} /\ Window \in Nat \ {0}
  /\ High \in Nat \ {0} /\ RangeMax \in Nat \ {0} /\ Max32 \in Nat \ {0}
  /\ Entries \in Nat \ {0} /\ Short <= Window /\ Window <= Long
  BY ScsiAssumption

(* A medium has at least one block.                                        *)
LEMMA DevType ==
  ASSUME Types
  PROVE  /\ dev.kind \in {"rdx", "generic", "none"} /\ dev.lba48 \in BOOLEAN
         /\ dev.ncq \in BOOLEAN /\ dev.trim \in BOOLEAN /\ dev.open \in BOOLEAN
         /\ dev.offset \in Nat /\ dev.blocks \in Nat \ {0}
<1>1. CASE dev \in Media
  <2> DEFINE M == [kind : {"rdx", "generic"}, lba48 : BOOLEAN, ncq : BOOLEAN,
                   trim : BOOLEAN, open : BOOLEAN, offset : Nat, blocks : Nat \ {0}]
  <2>1. dev \in M
    BY <1>1, ScsiAssumption
  <2>2. /\ dev.kind \in {"rdx", "generic"} /\ dev.offset \in Nat
        /\ dev.blocks \in Nat \ {0}
    BY <2>1
  <2>3. /\ dev.lba48 \in BOOLEAN /\ dev.ncq \in BOOLEAN /\ dev.trim \in BOOLEAN
        /\ dev.open \in BOOLEAN
    BY <2>1
  <2>4. QED
    BY <2>2, <2>3
<1>2. CASE dev = NoDev
  <2>1. dev.kind = "none" /\ dev.offset = 0 /\ dev.blocks = 1
    BY <1>2 DEF NoDev
  <2>2. dev.offset \in Nat /\ dev.blocks \in Nat \ {0}
    BY <2>1
  <2>3. /\ dev.lba48 \in BOOLEAN /\ dev.ncq \in BOOLEAN /\ dev.trim \in BOOLEAN
        /\ dev.open \in BOOLEAN
    BY <1>2 DEF NoDev
  <2>4. QED
    BY <2>1, <2>2, <2>3
<1>3. QED
  BY <1>1, <1>2 DEF Types, Around

(* The end of a command without ATA commands.                              *)
LEMMA ReplyFine ==
  ASSUME NEW st \in Statuses
  PROVE  Fine(Reply(st)) /\ Reply(st).plan = <<>> /\ Reply(st).end = st
<1>1. Reply(st).plan = <<>> /\ Reply(st).end = st
  BY DEF Reply, Runs
<1>2. <<>> \in Seq(Ata) /\ Len(<<>>) = 0
  OBVIOUS
<1>3. OpenPlan(<<>>)
  BY <1>2 DEF OpenPlan
<1>4. QED
  BY <1>1, <1>2, <1>3 DEF Fine

(* Data that the drive tells of itself.                                    *)
LEMMA TellFine ==
  ASSUME NEW x
  PROVE  Fine(Tell(x)) /\ Tell(x).plan = <<>> /\ Tell(x).says = x
<1>1. Tell(x).plan = <<>> /\ Tell(x).end = "ready" /\ Tell(x).says = x
  BY DEF Tell, Reply, Runs
<1>2. <<>> \in Seq(Ata) /\ Len(<<>>) = 0
  OBVIOUS
<1>3. OpenPlan(<<>>)
  BY <1>2 DEF OpenPlan
<1>4. "ready" \in Statuses
  BY DEF Statuses
<1>5. QED
  BY <1>1, <1>2, <1>3, <1>4 DEF Fine

(* A command that is a single ATA command.                                 *)
LEMMA SendFine ==
  ASSUME NEW a \in Ata, a.what \in Writes => dev.open
  PROVE  /\ Fine(Send(a)) /\ Send(a).plan = <<a>> /\ Send(a).end = "pending"
         /\ Send(a).plan # <<>> /\ Send(a).plan[1] = a /\ Len(Send(a).plan) = 1
<1>1. Send(a).plan = <<a>> /\ Send(a).end = "pending"
  BY DEF Send, Runs
<1>2. <<a>> \in Seq(Ata) /\ Len(<<a>>) = 1 /\ <<a>>[1] = a /\ <<a>> # <<>>
  OBVIOUS
<1>3. OpenPlan(<<a>>)
  BY <1>2 DEF OpenPlan
<1>4. "pending" \in Statuses
  BY DEF Statuses
<1>5. Fine(Send(a))
  BY <1>1, <1>2, <1>3, <1>4 DEF Fine
<1>6. QED
  BY <1>1, <1>2, <1>5

(* Commands that transfer no blocks.                                       *)
LEMMA PlainType ==
  ASSUME NEW w \in Whats
  PROVE  /\ Plain(w) \in Ata /\ Plain(w).what = w /\ Plain(w).ranges = {}
         /\ ~Plain(w).wait
  BY DEF Plain, Ata

(* A command that is polled is otherwise the same.                         *)
LEMMA PolledType ==
  ASSUME NEW a \in Ata
  PROVE  /\ Polled(a) \in Ata /\ Polled(a).what = a.what /\ Polled(a).wait
         /\ Polled(a).ranges = a.ranges
  BY DEF Polled, Ata

(* VERIFY.                                                                 *)
LEMMA AtaVerifyType ==
  ASSUME Types, NEW lba \in Int, NEW n \in Int
  PROVE  AtaVerify(lba, n) \in Ata /\ AtaVerify(lba, n).what = "verify"
<1>1. Field(n, dev.lba48) \in Int
  BY Sizes DEF Field
<1>2. Translate(lba) \in Int
  BY DevType DEF Translate
<1>3. Plain("verify") \in Ata /\ Plain("verify").what = "verify"
  BY PlainType DEF Whats
<1>4. QED
  BY <1>1, <1>2, <1>3, DevType DEF AtaVerify, Ata

-----------------------------------------------------------------------------
(* READ and WRITE.                                                         *)

(* Their fields.                                                           *)
LEMMA RwType ==
  ASSUME NEW c \in Rw
  PROVE  /\ c.op \in {"read", "write"} /\ c.size \in {6, 10, 12, 16}
         /\ c.lba \in Nat /\ c.len \in Nat /\ c.host \in Hosts /\ c.host \in Nat
         /\ ~c.bad /\ Fits(c) /\ CommandLength(c) \in Nat
  BY ScsiAssumption DEF Rw, CommandLength

(* A count that the disk can be given is the count it acts upon: zero only *)
(* stands for the largest one.                                             *)
LEMMA CountIsRead ==
  ASSUME NEW n \in Nat \ {0}, NEW w \in BOOLEAN, n <= Window, w \/ n <= Short
  PROVE  LET f == Field(n, w)
         IN  f \in Nat /\ (IF f # 0 THEN f ELSE IF w THEN Long ELSE Short) = n
<1>1. CASE w
  <2>1. Field(n, w) = n % Long /\ n <= Long
    BY <1>1, Sizes DEF Field
  <2>2. CASE n = Long
    <3>1. \A k \in Nat \ {0} : k % k = 0
      OBVIOUS
    <3>2. n % Long = 0
      BY <2>2, <3>1, Sizes
    <3>3. Field(n, w) = 0
      BY <2>1, <3>2
    <3>4. (IF w THEN Long ELSE Short) = n
      BY <1>1, <2>2
    <3>5. QED
      BY <3>3, <3>4
  <2>3. CASE n < Long
    <3>1. n % Long = n
      BY <2>3, Sizes
    <3>2. QED
      BY <2>1, <3>1
  <2>4. QED
    BY <2>1, <2>2, <2>3, Sizes
<1>2. CASE ~w
  <2>1. Field(n, w) = n % Short /\ n <= Short
    BY <1>2 DEF Field
  <2>2. CASE n = Short
    <3>1. \A k \in Nat \ {0} : k % k = 0
      OBVIOUS
    <3>2. n % Short = 0
      BY <2>2, <3>1, Sizes
    <3>3. Field(n, w) = 0
      BY <2>1, <3>2
    <3>4. QED
      BY <1>2, <2>2, <3>3
  <2>3. CASE n < Short
    <3>1. n % Short = n
      BY <2>3, Sizes
    <3>2. QED
      BY <2>1, <3>1
  <2>4. QED
    BY <2>1, <2>2, <2>3, Sizes
<1>3. QED
  BY <1>1, <1>2

(* What is sent is what was asked for.                                     *)
LEMMA RwSent ==
  ASSUME Types, NEW c \in Rw, NEW lba, lba = c.lba % High,
         RwParams(c) = "ok", InRange(lba, CommandLength(c)),
         ~(CommandLength(c) > MaxRwBlocks(dev)),
         c.op = "write" => dev.open
  PROVE  LET a == AtaRw(c, lba, Wanted(c))
         IN  /\ a \in Ata /\ RwPlan(c, a) /\ ~a.wait
             /\ a.what \in Writes => dev.open
<1> DEFINE n == Wanted(c)
           w == dev.lba48 \/ Queued
           what == IF IsWriteCommand(c) THEN "write" ELSE "read"
           a == AtaRw(c, lba, n)
           f == Field(n, w)
<1>1. /\ c.op \in {"read", "write"} /\ c.lba \in Nat /\ c.host \in Hosts
      /\ c.host \in Nat /\ CommandLength(c) \in Nat
  BY RwType
<1>2. c.lba < High /\ CommandLength(c) # 0
  <2>1. ~(c.size = 16 /\ c.lba >= High)
    BY DEF RwParams
  <2>2. CommandLength(c) # 0
    BY <2>1 DEF RwParams
  <2>3. c.size # 16 => c.lba < High
    BY RwType DEF Fits
  <2>4. QED
    BY <1>1, <2>1, <2>2, <2>3, Sizes
<1>3. lba = c.lba
  BY <1>1, <1>2, Sizes
<1>4. n \in Nat /\ n <= CommandLength(c)
  BY <1>1, <1>2 DEF Wanted, MinOf
<1>5. c.lba + n <= dev.blocks
  BY <1>1, <1>3, <1>4, DevType DEF InRange
<1>6. w \in BOOLEAN /\ Queued = (dev.ncq /\ class = "uas")
  BY DevType DEF Queued
<1>7. n <= Window /\ (w \/ n <= Short)
  BY <1>1, <1>4, <1>6, DevType, Sizes DEF MaxRwBlocks, MinOf
<1>8. what \in {"read", "write"} /\ (what = "write" <=> c.op = "write")
  BY DEF IsWriteCommand
<1>9. a = [Plain(what) EXCEPT !.first = c.lba + dev.offset, !.count = f, !.wide = w]
  BY <1>3 DEF AtaRw, Translate
<1>10. f \in Int
  BY <1>4, Sizes DEF Field
<1>11. Plain(what) \in Ata /\ Plain(what).what = what /\ ~Plain(what).wait
  BY <1>8, PlainType DEF Whats, Writes
<1> HIDE DEF what, w, f, n, a
<1>12. /\ a \in Ata /\ a.what = what /\ ~a.wait
       /\ a.first = c.lba + dev.offset /\ a.count = f /\ a.wide = w
  <2> DEFINE x == c.lba + dev.offset
  <2>1. x \in Int
    BY <1>1, DevType
  <2> HIDE DEF x
  <2>2. a = [Plain(what) EXCEPT !.first = x, !.count = f, !.wide = w]
    BY <1>9 DEF x
  <2>3. a \in Ata
    BY <1>6, <1>10, <1>11, <2>1, <2>2 DEF Ata
  <2>4. a.first = x /\ a.count = f /\ a.wide = w
    BY <1>11, <2>2 DEF Ata
  <2>5. a.what = Plain(what).what /\ a.wait = Plain(what).wait
    BY <1>11, <2>2 DEF Ata
  <2>6. QED
    BY <1>11, <2>3, <2>4, <2>5 DEF x
<1>13. n # 0 => Acts(a) = Span(c.lba + dev.offset, n)
  <2> SUFFICES ASSUME n # 0 PROVE Acts(a) = Span(c.lba + dev.offset, n)
    OBVIOUS
  <2>1. (IF f # 0 THEN f ELSE IF w THEN Long ELSE Short) = n
    BY <1>4, <1>6, <1>7, CountIsRead DEF f
  <2>2. QED
    BY <1>12, <2>1 DEF Acts
<1>14. n = 0 => a.first = c.lba + dev.offset /\ a.count = 0
  <2> SUFFICES ASSUME n = 0 PROVE f = 0
    BY <1>12
  <2>1. \A k \in Nat \ {0} : 0 % k = 0
    OBVIOUS
  <2>2. QED
    BY <2>1, Sizes DEF f, Field
<1>15. QED
  BY <1>5, <1>8, <1>12, <1>13, <1>14 DEF RwPlan, Writes, a, n

-----------------------------------------------------------------------------
(* UNMAP.                                                                  *)

Descriptors == [lba : Addresses, len : Lengths]

(* The fields of a descriptor.                                             *)
LEMMA DescriptorType ==
  ASSUME NEW d \in Descriptors
  PROVE  d.lba \in Nat /\ d.len \in Nat
  BY ScsiAssumption DEF Descriptors

(* Multiplication by a natural number keeps the order.                     *)
LEMMA Monotone ==
  ASSUME NEW a \in Nat, NEW b \in Nat, NEW k \in Nat, a <= b
  PROVE  a * k <= b * k /\ a * k \in Nat /\ b * k \in Nat
<1> DEFINE e == b - a
<1>1. e \in Nat /\ b = a + e
  OBVIOUS
<1>2. (a + e) * k = a * k + e * k /\ e * k \in Nat /\ a * k \in Nat
  BY <1>1
<1> HIDE DEF e
<1>3. QED
  BY <1>1, <1>2

(* A set of naturals has a least element.                                  *)
LEMMA Least ==
  ASSUME NEW S \in SUBSET Nat, S # {}
  PROVE  Min(S) \in S
<1>1. PICK m \in S : \A y \in S : ~ (<<y, m>> \in OpToRel(<, Nat))
  BY WFMin, NatLessThanWellFounded
<1>2. \A y \in S : ~(y < m)
  BY <1>1 DEF OpToRel
<1>3. \A y \in S : m <= y
  BY <1>2
<1>4. QED
  BY <1>3 DEF Min

(* The first bad descriptor is one of the list.                            *)
LEMMA FirstBad ==
  ASSUME NEW s \in Seq(Descriptors)
  PROVE  SelectInSeq(s, BadDescriptor) \in 0 .. Len(s)
<1> DEFINE I == {i \in 1 .. Len(s) : BadDescriptor(s[i])}
<1>0. I \in SUBSET Nat
  OBVIOUS
<1>1. I # {} => Min(I) \in I
  <2> HIDE DEF I
  <2>1. QED
    BY <1>0, Least
<1>2. SelectInSeq(s, BadDescriptor) = IF I # {} THEN Min(I) ELSE 0
  BY DEF SelectInSeq
<1>3. Len(s) \in Nat
  OBVIOUS
<1> HIDE DEF I
<1>4. QED
  BY <1>1, <1>2, <1>3 DEF I

(* The ranges of a descriptor are its blocks.                              *)
LEMMA RangesAre ==
  ASSUME NEW d \in Descriptors
  PROVE  /\ Ranges(d) \in Seq(SUBSET Int)
         /\ \A v : (\E i \in 1 .. Len(Ranges(d)) : v \in Ranges(d)[i])
                     <=> v \in Span(d.lba, d.len)
<1> DEFINE R == RangeMax
           m == (d.len + R - 1) \div R
           from(p) == Span(d.lba + p, MinOf(R, d.len - p))
           part(i) == from((i - 1) * R)
<1>1. d.lba \in Nat /\ d.len \in Nat /\ R \in Nat \ {0}
  BY DescriptorType, Sizes
<1>2. m \in Nat /\ m * R <= d.len + R - 1 /\ d.len + R - 1 < m * R + R
  <2>1. d.len + R - 1 \in Nat
    BY <1>1
  <2> HIDE DEF R
  <2>2. QED
    BY <1>1, <2>1, Quotient
<1>3. Ranges(d) = [i \in 1 .. m |-> part(i)]
  BY DEF Ranges
<1> HIDE DEF m, R
<1>4. ASSUME NEW i \in 1 .. m
      PROVE  /\ (i - 1) * R \in Nat /\ (i - 1) * R < d.len /\ part(i) \in SUBSET Int
             /\ \A v \in part(i) : v \in Span(d.lba, d.len)
  <2>1. i - 1 \in Nat /\ m - 1 \in Nat /\ i - 1 <= m - 1
    BY <1>2
  <2>2. (i - 1) * R <= (m - 1) * R /\ (i - 1) * R \in Nat
    BY <1>1, <2>1, Monotone
  <2>3. (m - 1) * R = m * R - R
    BY <1>1, <1>2
  <2> DEFINE x == (i - 1) * R  y == m * R
  <2>4. x \in Nat /\ x < d.len
    BY <1>1, <1>2, <2>2, <2>3
  <2> HIDE DEF x, y
  <2>5. part(i) = d.lba + x .. d.lba + x + MinOf(R, d.len - x) - 1
    BY DEF Span, x
  <2> HIDE DEF part
  <2>6. MinOf(R, d.len - x) \in Nat /\ MinOf(R, d.len - x) <= d.len - x
    BY <1>1, <2>4 DEF MinOf
  <2>7. part(i) \in SUBSET Int
    <3>1. \A u, w \in Int : u .. w \in SUBSET Int
      OBVIOUS
    <3>2. d.lba + x \in Int /\ d.lba + x + MinOf(R, d.len - x) - 1 \in Int
      BY <1>1, <2>4, <2>6
    <3>3. QED
      BY <2>5, <3>1, <3>2
  <2>8. \A v \in part(i) : v \in Span(d.lba, d.len)
    <3> DEFINE k == MinOf(R, d.len - x)
    <3> HIDE DEF k
    <3>1. k \in Nat /\ k <= d.len - x /\ part(i) = d.lba + x .. d.lba + x + k - 1
      BY <2>5, <2>6 DEF k
    <3>2. Span(d.lba, d.len) = d.lba .. d.lba + d.len - 1
      BY DEF Span
    <3>3. QED
      BY <1>1, <2>4, <3>1, <3>2
  <2>9. QED
    BY <2>4, <2>7, <2>8 DEF x
<1>5. ASSUME NEW v, v \in Span(d.lba, d.len)
      PROVE  \E i \in 1 .. m : v \in part(i)
  <2> DEFINE e == v - d.lba
             q == e \div R
  <2>1. v \in Int /\ e \in Nat /\ e < d.len /\ v = d.lba + e
    BY <1>1, <1>5 DEF Span
  <2> HIDE DEF e
  <2>2. q \in Nat /\ q * R <= e /\ e < q * R + R
    BY <1>1, <2>1, Quotient
  <2> HIDE DEF q
  <2>3. q < m
    <3> SUFFICES ASSUME m <= q PROVE FALSE
      BY <1>2, <2>2
    <3>1. m * R <= q * R /\ m * R \in Nat /\ q * R \in Nat
      BY <1>1, <1>2, <2>2, Monotone
    <3>2. QED
      BY <1>1, <1>2, <2>1, <2>2, <3>1
  <2>4. q + 1 \in 1 .. m /\ (q + 1) - 1 = q
    BY <1>2, <2>2, <2>3
  <2> DEFINE x == q * R
  <2>5. x \in Nat
    BY <1>1, <2>2
  <2>6. part(q + 1) = d.lba + x .. d.lba + x + MinOf(R, d.len - x) - 1
    <3> DEFINE y == ((q + 1) - 1) * R
    <3>1. y = x
      BY <2>4
    <3>2. from(x) = d.lba + x .. d.lba + x + MinOf(R, d.len - x) - 1
      BY DEF Span
    <3>3. part(q + 1) = from(y)
      OBVIOUS
    <3> HIDE DEF from, x, y, part
    <3>4. QED
      BY <3>1, <3>2, <3>3
  <2>7. x <= e /\ e < x + R
    BY <2>2
  <2> HIDE DEF x
  <2>8. v \in part(q + 1)
    BY <1>1, <2>1, <2>5, <2>6, <2>7 DEF MinOf
  <2>9. QED
    BY <2>4, <2>8
<1> HIDE DEF part
<1>6. Ranges(d) \in Seq(SUBSET Int) /\ Len(Ranges(d)) = m
  BY <1>2, <1>3, <1>4
<1>7. \A i \in 1 .. m : Ranges(d)[i] = part(i)
  BY <1>3
<1>8. QED
  BY <1>4, <1>5, <1>6, <1>7

AllRanges(list) == FlattenSeq([i \in 1 .. Len(list) |-> Ranges(list[i])])

(* The ranges of a list are the blocks of its descriptors.                 *)
LEMMA AllRangesAre ==
  ASSUME NEW list \in Seq(Descriptors)
  PROVE  /\ AllRanges(list) \in Seq(SUBSET Int)
         /\ \A v : (\E j \in 1 .. Len(AllRanges(list)) : v \in AllRanges(list)[j])
              <=> \E i \in 1 .. Len(list) : v \in Span(list[i].lba, list[i].len)
<1> DEFINE n == Len(list)
           s == [i \in 1 .. n |-> Ranges(list[i])]
           all == FlattenSeq(s)
<1>1. n \in Nat /\ \A i \in 1 .. n : list[i] \in Descriptors
  OBVIOUS
<1>2. \A i \in 1 .. n : Ranges(list[i]) \in Seq(SUBSET Int)
  BY <1>1, RangesAre
<1>3. s \in Seq(Seq(SUBSET Int)) /\ Len(s) = n
  BY <1>1, <1>2
<1>4. AllRanges(list) = all
  BY DEF AllRanges
<1>5. CASE n = 0
  <2>1. all = s
    BY <1>3, <1>5 DEF FlattenSeq
  <2>2. s = <<>>
    BY <1>3, <1>5, EmptySeq
  <2>3. <<>> \in Seq(SUBSET Int) /\ Len(<<>>) = 0
    OBVIOUS
  <2>4. 1 .. 0 = {}
    OBVIOUS
  <2> HIDE DEF all, s
  <2>5. AllRanges(list) = <<>> /\ Len(AllRanges(list)) = 0
    BY <1>4, <2>1, <2>2, <2>3
  <2>6. QED
    BY <1>5, <2>3, <2>4, <2>5
<1>6. CASE n # 0
  <2>1. Flat(SUBSET Int, s, n, all)
    BY <1>3, <1>6, Flattened
  <2>2. \A i \in 1 .. n : s[i] = Ranges(list[i])
    OBVIOUS
  <2> HIDE DEF all, s
  <2>3. all \in Seq(SUBSET Int)
    BY <2>1 DEF Flat
  <2>4. \A w : (\E k \in 1 .. n : \E i \in 1 .. Len(s[k]) : s[k][i] = w)
                  <=> \E j \in 1 .. Len(all) : all[j] = w
    BY <2>1 DEF Flat, Same
  <2>5. ASSUME NEW v
        PROVE  (\E j \in 1 .. Len(all) : v \in all[j])
                 <=> \E k \in 1 .. n : v \in Span(list[k].lba, list[k].len)
    <3>1. \A k \in 1 .. n :
            (\E i \in 1 .. Len(s[k]) : v \in s[k][i])
              <=> v \in Span(list[k].lba, list[k].len)
      BY <1>1, <2>2, RangesAre
    <3>2. (\E j \in 1 .. Len(all) : v \in all[j])
            <=> \E k \in 1 .. n : \E i \in 1 .. Len(s[k]) : v \in s[k][i]
      <4>1. ASSUME NEW j \in 1 .. Len(all), v \in all[j]
            PROVE  \E k \in 1 .. n : \E i \in 1 .. Len(s[k]) : v \in s[k][i]
        BY <2>4, <4>1
      <4>2. ASSUME NEW k \in 1 .. n, NEW i \in 1 .. Len(s[k]), v \in s[k][i]
            PROVE  \E j \in 1 .. Len(all) : v \in all[j]
        <5>1. \E j \in 1 .. Len(all) : all[j] = s[k][i]
          BY <2>4
        <5>2. QED
          BY <4>2, <5>1
      <4>3. QED
        BY <4>1, <4>2
    <3>3. QED
      BY <3>1, <3>2
  <2>6. QED
    BY <1>4, <2>3, <2>5
<1>7. QED
  BY <1>5, <1>6

From(k) == (k - 1) * Entries + 1
To(all, k) == MinOf(k * Entries, Len(all))

(* A batch trims the ranges that it is made of.                            *)
LEMMA BatchType ==
  ASSUME NEW all \in Seq(SUBSET Int), NEW k \in Nat \ {0}
  PROVE  /\ Batch(all, k) \in Ata /\ Batch(all, k).what = "trim"
         /\ ~Batch(all, k).wait
         /\ \A v : v \in Batch(all, k).ranges
                     <=> \E j \in From(k) .. To(all, k) : v \in all[j]
<1> DEFINE m == From(k)
           n == To(all, k)
           s == SubSeq(all, m, n)
           u == UNION {s[i] : i \in 1 .. Len(s)}
<1>1. (k - 1) * Entries \in Nat /\ k * Entries \in Nat /\ Len(all) \in Nat
  BY Sizes
<1>2. m \in Nat \ {0} /\ n \in Nat /\ n <= Len(all)
  BY <1>1 DEF From, To, MinOf
<1>3. Batch(all, k) = [Plain("trim") EXCEPT !.ranges = u]
  BY DEF Batch, SendTrim, From, To
<1> HIDE DEF m, n
<1>4. \A i \in m .. n : all[i] \in SUBSET Int
  BY <1>2
<1>5. /\ s \in Seq(SUBSET Int) /\ Len(s) = IF m <= n THEN n - m + 1 ELSE 0
      /\ \A i \in 1 .. n - m + 1 : s[i] = all[m + i - 1]
  BY <1>2, <1>4, SubSeqProperties
<1> HIDE DEF s
<1>6. \A v : (\E i \in 1 .. Len(s) : v \in s[i]) <=> \E j \in m .. n : v \in all[j]
  <2>1. TAKE v
  <2>2. ASSUME NEW i \in 1 .. Len(s), v \in s[i] PROVE \E j \in m .. n : v \in all[j]
    <3>1. i \in 1 .. n - m + 1 /\ m + i - 1 \in m .. n
      BY <1>2, <1>5
    <3>2. QED
      BY <1>5, <2>2, <3>1
  <2>3. ASSUME NEW j \in m .. n, v \in all[j] PROVE \E i \in 1 .. Len(s) : v \in s[i]
    <3> DEFINE i == j - m + 1
    <3>1. i \in 1 .. n - m + 1 /\ i \in 1 .. Len(s) /\ m + i - 1 = j
      BY <1>2, <1>5
    <3> HIDE DEF i
    <3>2. QED
      BY <1>5, <2>3, <3>1
  <2>4. QED
    BY <2>2, <2>3
<1>7. u \in SUBSET Int
  BY <1>5
<1>8. \A v : v \in u <=> \E j \in m .. n : v \in all[j]
  BY <1>6
<1>9. /\ Plain("trim") \in Ata /\ Plain("trim").what = "trim" /\ ~Plain("trim").wait
  BY PlainType DEF Whats, Writes
<1> HIDE DEF u
<1>10. /\ Batch(all, k) \in Ata /\ Batch(all, k).what = "trim"
       /\ ~Batch(all, k).wait /\ Batch(all, k).ranges = u
  BY <1>3, <1>7, <1>9 DEF Ata
<1>11. QED
  BY <1>8, <1>10 DEF m, n

Full(all) == (Len(all) - 1) \div Entries

(* Every range is in one of the batches.                                   *)
LEMMA Chunks ==
  ASSUME NEW all \in Seq(SUBSET Int), Len(all) # 0, NEW j \in 1 .. Len(all)
  PROVE  \E k \in 1 .. Full(all) + 1 : j \in From(k) .. To(all, k)
<1> DEFINE E == Entries
           n == Len(all)
           q == (j - 1) \div E
           f == (n - 1) \div E
<1>1. E \in Nat \ {0} /\ n \in Nat \ {0} /\ j \in 1 .. n
  BY Sizes
<1> HIDE DEF E, n
<1>2. q \in Nat /\ q * E <= j - 1 /\ j - 1 < q * E + E
  <2>1. j - 1 \in Nat
    BY <1>1
  <2>2. QED
    BY <1>1, <2>1, Quotient
<1>3. f \in Nat /\ f * E <= n - 1 /\ n - 1 < f * E + E
  <2>1. n - 1 \in Nat
    BY <1>1
  <2>2. QED
    BY <1>1, <2>1, Quotient
<1> HIDE DEF q, f
<1>4. q <= f
  <2> SUFFICES ASSUME f + 1 <= q PROVE FALSE
    BY <1>2, <1>3
  <2>1. (f + 1) * E <= q * E /\ (f + 1) * E = f * E + E
    BY <1>1, <1>2, <1>3, Monotone
  <2>2. f * E \in Nat /\ q * E \in Nat
    BY <1>1, <1>2, <1>3
  <2>3. QED
    BY <1>1, <1>2, <1>3, <2>1, <2>2
<1> DEFINE k == q + 1
<1>5. k \in 1 .. f + 1 /\ k - 1 = q /\ k \in Nat /\ k * E = q * E + E /\ q * E \in Nat
  BY <1>1, <1>2, <1>3, <1>4
<1> HIDE DEF k
<1>6. (k - 1) * E = q * E
  BY <1>5
<1>7. From(k) = q * E + 1 /\ To(all, k) = MinOf(q * E + E, n)
  BY <1>5, <1>6 DEF From, To, E, n
<1> DEFINE x == q * E
<1>8. x \in Nat /\ x <= j - 1 /\ j - 1 < x + E
  BY <1>2, <1>5
<1>9. From(k) = x + 1 /\ To(all, k) = MinOf(x + E, n)
  BY <1>7
<1> HIDE DEF x
<1>10. j \in From(k) .. To(all, k)
  BY <1>1, <1>8, <1>9 DEF MinOf
<1>11. Full(all) = f
  BY DEF Full, f, n, E
<1>12. QED
  BY <1>5, <1>10, <1>11

Polls(all) == [k \in 1 .. Full(all) |-> Polled(Batch(all, k))]

(* The batches that are polled.                                            *)
LEMMA PollsType ==
  ASSUME NEW all \in Seq(SUBSET Int), Len(all) # 0
  PROVE  LET p == Polls(all)
         IN  /\ Full(all) \in Nat /\ p \in Seq(Ata) /\ Len(p) = Full(all)
             /\ \A k \in 1 .. Len(p) :
                  p[k].what = "trim" /\ p[k].wait /\ p[k].ranges = Batch(all, k).ranges
<1> DEFINE p == Polls(all)
           f == Full(all)
<1>1. f \in Nat
  <2>1. Len(all) - 1 \in Nat /\ Entries \in Nat \ {0}
    BY Sizes
  <2>2. QED
    BY <2>1, Quotient DEF Full
<1>2. p = [k \in 1 .. f |-> Polled(Batch(all, k))]
  BY DEF Polls
<1> HIDE DEF f, p
<1>3. ASSUME NEW k \in 1 .. f
      PROVE  /\ Polled(Batch(all, k)) \in Ata /\ Polled(Batch(all, k)).what = "trim"
             /\ Polled(Batch(all, k)).wait
             /\ Polled(Batch(all, k)).ranges = Batch(all, k).ranges
  <2>1. k \in Nat \ {0}
    BY <1>1
  <2>2. Batch(all, k) \in Ata /\ Batch(all, k).what = "trim"
    BY <2>1, BatchType
  <2>3. QED
    BY <2>2, PolledType
<1>4. p \in Seq(Ata) /\ Len(p) = f
  BY <1>1, <1>2, <1>3
<1>5. \A k \in 1 .. f : p[k] = Polled(Batch(all, k))
  BY <1>2
<1>6. QED
  BY <1>1, <1>3, <1>4, <1>5 DEF p, f

(* The blocks that an UNMAP names.                                         *)
LEMMA NamedAre ==
  ASSUME NEW c
  PROVE  \A v : v \in Named(c) <=>
           \E i \in 1 .. Len(c.list) : v \in Span(c.list[i].lba, c.list[i].len)
  BY DEF Named

(* The blocks that a plan trims.                                           *)
LEMMA TrimsAre ==
  ASSUME NEW p
  PROVE  \A v : v \in Trims(p) <=> \E i \in 1 .. Len(p) : v \in p[i].ranges
  BY DEF Trims

(* The batches up to the first bad descriptor: they trim nothing else.     *)
LEMMA PollsTrim ==
  ASSUME NEW all \in Seq(SUBSET Int), Len(all) # 0, NEW v, v \in Trims(Polls(all))
  PROVE  \E j \in 1 .. Len(all) : v \in all[j]
<1>1. PICK k \in 1 .. Len(Polls(all)) : v \in Polls(all)[k].ranges
  BY TrimsAre
<1>2. k \in Nat \ {0} /\ v \in Batch(all, k).ranges
  <2>1. Len(Polls(all)) \in Nat
    BY PollsType
  <2>2. QED
    BY <1>1, <2>1, PollsType
<1>3. PICK j \in From(k) .. To(all, k) : v \in all[j]
  BY <1>2, BatchType
<1>4. j \in 1 .. Len(all)
  <2>1. (k - 1) * Entries \in Nat /\ k * Entries \in Nat /\ Len(all) \in Nat
    BY <1>2, Sizes
  <2>2. From(k) \in Nat \ {0} /\ To(all, k) \in Nat /\ To(all, k) <= Len(all)
    BY <2>1 DEF From, To, MinOf
  <2>3. QED
    BY <2>1, <2>2
<1>5. QED
  BY <1>3, <1>4

(* All batches together trim exactly the blocks of the ranges.             *)
LEMMA WholePlan ==
  ASSUME NEW all \in Seq(SUBSET Int), Len(all) # 0
  PROVE  LET p == Append(Polls(all), Batch(all, Full(all) + 1))
         IN  /\ p \in Seq(Ata) /\ p # <<>> /\ Len(p) = Full(all) + 1
             /\ \A k \in 1 .. Len(p) : p[k].what = "trim"
             /\ \A k \in 1 .. Len(p) - 1 : p[k].wait
             /\ \A v : v \in Trims(p) <=> \E j \in 1 .. Len(all) : v \in all[j]
<1> DEFINE f == Full(all)
           q == Polls(all)
           b == Batch(all, f + 1)
           p == Append(q, b)
<1>1. f \in Nat /\ q \in Seq(Ata) /\ Len(q) = f
  BY PollsType
<1>2. \A k \in 1 .. f :
        q[k].what = "trim" /\ q[k].wait /\ q[k].ranges = Batch(all, k).ranges
  BY <1>1, PollsType
<1>3. f + 1 \in Nat \ {0}
  BY <1>1
<1> HIDE DEF f, q
<1>4. b \in Ata /\ b.what = "trim" /\ ~b.wait
  BY <1>3, BatchType
<1>5. /\ p \in Seq(Ata) /\ Len(p) = f + 1 /\ p[f + 1] = b
      /\ \A k \in 1 .. f : p[k] = q[k]
  <2> HIDE DEF b
  <2>1. QED
    BY <1>1, <1>4, AppendProperties
<1>6. p # <<>>
  <2> HIDE DEF p
  <2>1. Len(p) # 0
    BY <1>1, <1>5
  <2>2. QED
    BY <2>1, EmptySeq
<1>7. \A k \in 1 .. f + 1 : k \in 1 .. f \/ k = f + 1
  BY <1>1
<1>8. \A k \in 1 .. f + 1 : p[k].ranges = Batch(all, k).ranges /\ p[k].what = "trim"
  BY <1>2, <1>4, <1>5, <1>7
<1>9. \A k \in 1 .. f : p[k].wait
  BY <1>2, <1>5
<1> HIDE DEF p
<1>10. ASSUME NEW v
       PROVE  v \in Trims(p) <=> \E j \in 1 .. Len(all) : v \in all[j]
  <2>1. ASSUME NEW k \in 1 .. f + 1, v \in p[k].ranges
        PROVE  \E j \in 1 .. Len(all) : v \in all[j]
    <3>1. k \in Nat \ {0} /\ v \in Batch(all, k).ranges
      BY <1>1, <1>8, <2>1
    <3>2. PICK j \in From(k) .. To(all, k) : v \in all[j]
      BY <3>1, BatchType
    <3>3. (k - 1) * Entries \in Nat /\ k * Entries \in Nat /\ Len(all) \in Nat
      BY <3>1, Sizes
    <3>4. From(k) \in Nat \ {0} /\ To(all, k) \in Nat /\ To(all, k) <= Len(all)
      BY <3>3 DEF From, To, MinOf
    <3>5. j \in 1 .. Len(all)
      BY <3>3, <3>4
    <3>6. QED
      BY <3>2, <3>5
  <2>2. ASSUME NEW j \in 1 .. Len(all), v \in all[j]
        PROVE  \E k \in 1 .. f + 1 : v \in p[k].ranges
    <3>1. PICK k \in 1 .. f + 1 : j \in From(k) .. To(all, k)
      BY Chunks DEF f
    <3>2. k \in Nat \ {0}
      BY <1>1
    <3>3. v \in Batch(all, k).ranges
      BY <2>2, <3>1, <3>2, BatchType
    <3>4. QED
      BY <1>8, <3>3
  <2>3. QED
    BY <1>5, <2>1, <2>2, TrimsAre
<1>11. Len(p) = f + 1 /\ Len(p) - 1 = f
  BY <1>1, <1>5
<1>12. /\ \A k \in 1 .. Len(p) - 1 : p[k].wait
       /\ \A k \in 1 .. Len(p) : p[k].what = "trim"
  BY <1>8, <1>9, <1>11
<1>13. QED
  BY <1>5, <1>6, <1>10, <1>11, <1>12 DEF p, q, b, f

(* The list of an UNMAP.                                                   *)
LEMMA UnmapType ==
  ASSUME NEW c \in Unmaps
  PROVE  c.op = "unmap" /\ ~c.bad /\ c.list \in Seq(Descriptors)
<1>1. c.op = "unmap" /\ ~c.bad /\ c.list \in BoundedSeq(Descriptors, ListMax)
  BY DEF Unmaps, Descriptors
<1>2. c.list \in UNION {[1 .. m -> Descriptors] : m \in 0 .. ListMax}
  BY <1>1 DEF BoundedSeq, SeqOf
<1>3. PICK m \in 0 .. ListMax : c.list \in [1 .. m -> Descriptors]
  BY <1>2
<1>4. m \in Nat
  BY ScsiAssumption
<1>5. QED
  BY <1>1, <1>3, <1>4, SeqDef

(* The descriptors before the first bad one.                               *)
LEMMA GoodPart ==
  ASSUME NEW s \in Seq(Descriptors), NEW bad \in 0 .. Len(s)
  PROVE  LET g == IF bad = 0 THEN s ELSE SubSeq(s, 1, bad - 1)
         IN  /\ g \in Seq(Descriptors) /\ Len(g) <= Len(s)
             /\ \A i \in 1 .. Len(g) : i \in 1 .. Len(s) /\ g[i] = s[i]
<1>1. CASE bad = 0
  BY <1>1
<1>2. CASE bad # 0
  <2> DEFINE g == SubSeq(s, 1, bad - 1)
             n == bad - 1
  <2>1. n \in Nat /\ n < Len(s) /\ Len(s) \in Nat /\ 1 \in Int /\ n \in Int
    BY <1>2
  <2>2. \A i \in 1 .. n : s[i] \in Descriptors
    BY <2>1
  <2>3. g = SubSeq(s, 1, n)
    OBVIOUS
  <2> HIDE DEF n, g
  <2>4. /\ g \in Seq(Descriptors) /\ Len(g) = IF 1 <= n THEN n - 1 + 1 ELSE 0
        /\ \A i \in 1 .. n - 1 + 1 : g[i] = s[1 + i - 1]
    BY <2>1, <2>2, <2>3, SubSeqProperties
  <2>5. Len(g) = n /\ n - 1 + 1 = n
    BY <2>1, <2>4
  <2>6. \A i \in 1 .. n : 1 + i - 1 = i /\ i \in 1 .. Len(s)
    BY <2>1
  <2>7. \A i \in 1 .. n : g[i] = s[i] /\ i \in 1 .. Len(s)
    BY <2>4, <2>5, <2>6
  <2>8. QED
    BY <1>2, <2>1, <2>4, <2>5, <2>7 DEF g, n
<1>3. QED
  BY <1>1, <1>2

(* The plan of an UNMAP trims what the command names: all of it if no      *)
(* descriptor is bad.                                                      *)
LEMMA UnmapFine ==
  ASSUME Types, dev.open, NEW c \in Unmaps
  PROVE  LET r == HandleUnmap(c)
         IN  Fine(r) /\ (r.plan # <<>> => UnmapPlan(c, r.plan, r.end, {}))
<1> DEFINE bad == SelectInSeq(c.list, BadDescriptor)
           good == IF bad = 0 THEN c.list ELSE SubSeq(c.list, 1, bad - 1)
           all == AllRanges(good)
           full == IF all = <<>> THEN 0 ELSE Full(all)
           polled == [k \in 1 .. full |-> Polled(Batch(all, k))]
           r == HandleUnmap(c)
<1>1. r = IF ~dev.trim THEN Reply("invalid")
          ELSE IF c.bad THEN Reply("field")
          ELSE IF bad # 0 THEN Runs(polled, "range")
          ELSE IF all = <<>> THEN Reply("ok")
          ELSE Runs(Append(polled, Batch(all, full + 1)), "pending")
  BY DEF HandleUnmap, AllRanges, Full
<1>2. c.op = "unmap" /\ ~c.bad /\ c.list \in Seq(Descriptors)
  BY UnmapType
<1>3. bad \in 0 .. Len(c.list)
  BY <1>2, FirstBad
<1> HIDE DEF bad
<1>4. /\ good \in Seq(Descriptors) /\ Len(good) <= Len(c.list)
      /\ \A i \in 1 .. Len(good) : i \in 1 .. Len(c.list) /\ good[i] = c.list[i]
  BY <1>2, <1>3, GoodPart
<1>5. bad = 0 => good = c.list
  OBVIOUS
<1> HIDE DEF good
<1>6. /\ all \in Seq(SUBSET Int)
      /\ \A v : (\E j \in 1 .. Len(all) : v \in all[j])
           <=> \E i \in 1 .. Len(good) : v \in Span(good[i].lba, good[i].len)
  BY <1>4, AllRangesAre
<1>7. \A v : (\E j \in 1 .. Len(all) : v \in all[j]) => v \in Named(c)
  BY <1>4, <1>6, NamedAre
<1>8. bad = 0 => \A v : v \in Named(c) => \E j \in 1 .. Len(all) : v \in all[j]
  BY <1>5, <1>6, NamedAre
<1> HIDE DEF all, r
<1>9. all # <<>> => Len(all) # 0 /\ full = Full(all) /\ polled = Polls(all)
  BY <1>6, EmptySeq DEF Polls
<1>10. ASSUME NEW p, NEW st \in Statuses, r = Runs(p, st), p \in Seq(Ata)
       PROVE  Fine(r) /\ r.plan = p /\ r.end = st
  <2>1. r.plan = p /\ r.end = st
    BY <1>10 DEF Runs
  <2>2. OpenPlan(p)
    BY DEF OpenPlan
  <2>3. QED
    BY <1>10, <2>1, <2>2 DEF Fine
<1>11. ASSUME NEW st \in Statuses, r = Reply(st)
       PROVE  Fine(r) /\ r.plan = <<>>
  BY <1>11, ReplyFine
<1>12. CASE ~dev.trim
  <2>1. "invalid" \in Statuses /\ r = Reply("invalid")
    BY <1>1, <1>12 DEF Statuses
  <2>2. QED
    BY <1>11, <2>1 DEF r
<1>13. CASE dev.trim /\ bad # 0
  <2>1. r = Runs(polled, "range") /\ "range" \in Statuses
    BY <1>1, <1>2, <1>13 DEF Statuses
  <2>2. CASE all = <<>>
    <3>1. polled \in Seq(Ata) /\ polled = <<>>
      <4>1. full = 0 /\ 1 .. 0 = {}
        BY <2>2
      <4>2. polled \in Seq(Ata) /\ Len(polled) = 0
        BY <4>1
      <4> HIDE DEF polled
      <4>3. QED
        BY <4>2, EmptySeq
    <3> HIDE DEF polled
    <3>2. QED
      BY <1>10, <2>1, <3>1 DEF r
  <2>3. CASE all # <<>>
    <3>1. Len(all) # 0 /\ polled = Polls(all)
      BY <1>9, <2>3
    <3> HIDE DEF polled, full
    <3>2. /\ polled \in Seq(Ata) /\ Len(polled) = Full(all)
          /\ \A k \in 1 .. Len(polled) : polled[k].wait
      BY <1>6, <3>1, PollsType
    <3>3. {} \cup Trims(polled) \subseteq Named(c)
      BY <1>6, <1>7, <3>1, PollsTrim
    <3>4. UnmapPlan(c, polled, "range", {})
      BY <3>2, <3>3 DEF UnmapPlan
    <3>5. QED
      BY <1>10, <2>1, <3>2, <3>4 DEF r
  <2>4. QED
    BY <2>2, <2>3
<1>14. CASE dev.trim /\ bad = 0 /\ all = <<>>
  <2>1. "ok" \in Statuses /\ r = Reply("ok")
    BY <1>1, <1>2, <1>14 DEF Statuses
  <2>2. QED
    BY <1>11, <2>1 DEF r
<1>15. CASE dev.trim /\ bad = 0 /\ all # <<>>
  <2> DEFINE p == Append(Polls(all), Batch(all, Full(all) + 1))
  <2>1. r = Runs(p, "pending") /\ "pending" \in Statuses
    BY <1>1, <1>2, <1>9, <1>15 DEF Statuses
  <2>2. /\ p \in Seq(Ata) /\ p # <<>>
        /\ \A k \in 1 .. Len(p) - 1 : p[k].wait
        /\ \A v : v \in Trims(p) <=> \E j \in 1 .. Len(all) : v \in all[j]
    BY <1>6, <1>9, <1>15, WholePlan
  <2> HIDE DEF p
  <2>3. {} \cup Trims(p) = Named(c)
    BY <1>7, <1>8, <1>15, <2>2
  <2>4. UnmapPlan(c, p, "pending", {})
    BY <2>2, <2>3 DEF UnmapPlan
  <2>5. QED
    BY <1>10, <2>1, <2>2, <2>4 DEF r
<1>16. QED
  <2>1. dev.trim \in BOOLEAN
    BY DevType
  <2>2. QED
    BY <1>12, <1>13, <1>14, <1>15, <2>1

-----------------------------------------------------------------------------
(* The handlers.                                                           *)

(* A handler that has a medium, or answers without one, is fine.           *)
Handled(c, r) ==
  /\ Fine(r)
  /\ r.plan # <<>> =>
       /\ c.op \in {"read", "write"} => ~r.plan[1].wait /\ RwPlan(c, r.plan[1])
       /\ c.op = "unmap" => UnmapPlan(c, r.plan, r.end, {})

Simple(c) == c.op \notin {"read", "write", "unmap"}

(* A status handles any command.                                           *)
LEMMA ReplyHandles ==
  ASSUME NEW c, NEW st \in Statuses
  PROVE  Handled(c, Reply(st))
  BY ReplyFine DEF Handled

(* So do data.                                                             *)
LEMMA TellHandles ==
  ASSUME NEW c, NEW x
  PROVE  Handled(c, Tell(x))
  BY TellFine DEF Handled

(* An ATA command handles one that names no blocks.                        *)
LEMMA SendHandles ==
  ASSUME NEW c, Simple(c), NEW a \in Ata, a.what \in Writes => dev.open
  PROVE  Handled(c, Send(a))
  BY SendFine DEF Handled, Simple

(* An ATA command without blocks.                                          *)
LEMMA PlainHandles ==
  ASSUME NEW c, Simple(c), NEW w \in Whats, w \in Writes => dev.open
  PROVE  Handled(c, Send(Plain(w)))
<1>1. Plain(w) \in Ata /\ Plain(w).what = w
  BY PlainType
<1>2. QED
  BY <1>1, SendHandles

(* READ and WRITE.                                                         *)
LEMMA RwHandled ==
  ASSUME Types, NEW c \in Rw, c.op = "write" => dev.open
  PROVE  Handled(c, HandleRw(c))
<1> DEFINE lba == c.lba % High
           n == CommandLength(c)
           a == AtaRw(c, lba, Wanted(c))
<1>1. HandleRw(c) = IF RwParams(c) # "ok" THEN Reply(RwParams(c))
                    ELSE IF ~InRange(lba, n) THEN Reply("range")
                    ELSE IF n > MaxRwBlocks(dev) THEN Reply("field")
                    ELSE Send(a)
  BY DEF HandleRw, Wanted
<1>2. RwParams(c) \in Statuses
  BY DEF RwParams, Statuses
<1>3. "range" \in Statuses /\ "field" \in Statuses
  BY DEF Statuses
<1>4. CASE RwParams(c) # "ok"
  BY <1>1, <1>2, <1>4, ReplyHandles
<1>5. CASE RwParams(c) = "ok" /\ ~InRange(lba, n)
  BY <1>1, <1>3, <1>5, ReplyHandles
<1>6. CASE RwParams(c) = "ok" /\ InRange(lba, n) /\ n > MaxRwBlocks(dev)
  BY <1>1, <1>3, <1>6, ReplyHandles
<1>7. CASE RwParams(c) = "ok" /\ InRange(lba, n) /\ ~(n > MaxRwBlocks(dev))
  <2>1. /\ a \in Ata /\ RwPlan(c, a) /\ ~a.wait
        /\ a.what \in Writes => dev.open
    BY <1>7, RwSent
  <2>2. HandleRw(c) = Send(a)
    BY <1>1, <1>7
  <2> HIDE DEF a
  <2>3. Fine(Send(a)) /\ Send(a).plan[1] = a
    BY <2>1, SendFine
  <2>4. c.op # "unmap"
    BY RwType
  <2>5. QED
    BY <2>1, <2>2, <2>3, <2>4 DEF Handled
<1>8. QED
  BY <1>4, <1>5, <1>6, <1>7

(* VERIFY.                                                                 *)
LEMMA VerifyHandled ==
  ASSUME Types, NEW c, c.op = "verify", c.bad \/ c \in Verifies
  PROVE  Handled(c, HandleVerify(c))
<1> DEFINE lba == c.lba % High
           a == AtaVerify(lba, c.len)
<1>1. HandleVerify(c) = IF VerifyParams(c) # "ok" THEN Reply(VerifyParams(c))
                        ELSE IF ~InRange(lba, c.len) THEN Reply("range")
                        ELSE IF c.len = 0 THEN Reply("ok")
                        ELSE Send(a)
  BY DEF HandleVerify
<1>2. VerifyParams(c) \in Statuses
  BY DEF VerifyParams, Statuses
<1>3. "range" \in Statuses /\ "ok" \in Statuses
  BY DEF Statuses
<1>4. CASE VerifyParams(c) # "ok"
  BY <1>1, <1>2, <1>4, ReplyHandles
<1>5. CASE VerifyParams(c) = "ok"
  <2>1. ~c.bad
    BY <1>5 DEF VerifyParams
  <2>2. c.lba \in Nat /\ c.len \in Nat
    BY <2>1, ScsiAssumption DEF Verifies
  <2>3. lba \in Int /\ c.len \in Int
    BY <2>2, Sizes
  <2> HIDE DEF lba
  <2>4. a \in Ata /\ a.what = "verify"
    BY <2>3, AtaVerifyType
  <2> HIDE DEF a
  <2>5. Handled(c, Send(a))
    BY <2>4, SendHandles DEF Simple, Writes
  <2>6. QED
    BY <1>1, <1>3, <1>5, <2>5, ReplyHandles
<1>6. QED
  BY <1>4, <1>5

(* UNMAP.                                                                  *)
LEMMA UnmapHandled ==
  ASSUME Types, dev.open, NEW c, c.op = "unmap", c \in Unmaps \/ (c.bad /\ c.list = <<>>)
  PROVE  Handled(c, HandleUnmap(c))
<1>1. CASE c \in Unmaps
  BY <1>1, UnmapFine DEF Handled
<1>2. CASE c.bad
  <2>1. "invalid" \in Statuses /\ "field" \in Statuses
    BY DEF Statuses
  <2>2. HandleUnmap(c) = IF ~dev.trim THEN Reply("invalid") ELSE Reply("field")
    BY <1>2 DEF HandleUnmap
  <2>3. QED
    BY <2>1, <2>2, ReplyHandles
<1>3. QED
  BY <1>1, <1>2

(* Commands that pass through.                                             *)
LEMMA PassHandled ==
  ASSUME Types, SliderInv, NEW c \in PassThrough
  PROVE  Handled(c, HandlePassThrough(c))
<1> DEFINE w == IF c.ata = "write" THEN "raw_write" ELSE c.ata
<1>1. /\ Simple(c) /\ c.protocol \in {"command", "response", "other"}
      /\ c.ata \in {"identify", "smart", "power", "read", "write"}
  BY DEF PassThrough, Simple
<1>2. w \in Whats /\ (w \in Writes => c.ata = "write")
  BY <1>1 DEF Whats, Writes
<1>3. PassThroughIsAllowed(c) /\ c.ata = "write" => dev.open
  <2> SUFFICES ASSUME PassThroughIsAllowed(c), c.ata = "write" PROVE dev.open
    OBVIOUS
  <2>1. dev.kind = "generic" /\ ~protected
    BY DEF PassThroughIsAllowed, ReadOnlyAta
  <2>2. Ready
    BY <2>1 DEF Ready, NoDev
  <2>3. QED
    BY <2>1, <2>2 DEF SliderInv
<1> HIDE DEF w
<1>4. PassThroughIsAllowed(c) => Handled(c, Send(Plain(w)))
  BY <1>1, <1>2, <1>3, PlainHandles
<1>5. {"protected", "invalid", "ready", "field"} \subseteq Statuses
  BY DEF Statuses
<1>6. \/ HandlePassThrough(c) = Send(Plain(w)) /\ PassThroughIsAllowed(c)
      \/ HandlePassThrough(c) = Reply("protected")
      \/ HandlePassThrough(c) = Reply("invalid")
      \/ HandlePassThrough(c) = Reply("ready")
      \/ HandlePassThrough(c) = Reply("field")
  BY <1>1 DEF HandlePassThrough, w
<1>7. QED
  BY <1>4, <1>5, <1>6, ReplyHandles

(* Several commands, none of which writes.                                 *)
LEMMA RunsHandles ==
  ASSUME NEW c, Simple(c), NEW p \in Seq(Ata), NEW st \in Statuses,
         \A i \in 1 .. Len(p) : p[i].what \notin Writes
  PROVE  Handled(c, Runs(p, st))
<1>1. Runs(p, st).plan = p /\ Runs(p, st).end = st
  BY DEF Runs
<1>2. OpenPlan(p)
  BY DEF OpenPlan
<1>3. Fine(Runs(p, st))
  BY <1>1, <1>2 DEF Fine
<1>4. QED
  BY <1>1, <1>3 DEF Handled, Simple

(* START STOP UNIT.                                                        *)
LEMMA StartStopHandled ==
  ASSUME Types, NEW c, Simple(c)
  PROVE  Handled(c, HandleStartStop(c))
<1> DEFINE a == AtaVerify(15, 1)
           f == Polled(Plain("flush"))
           s == Plain("standby")
<1>1. a \in Ata /\ a.what = "verify"
  BY AtaVerifyType
<1>2. f \in Ata /\ f.what = "flush"
  BY PlainType, PolledType DEF Whats
<1>3. s \in Ata /\ s.what = "standby"
  BY PlainType DEF Whats
<1> HIDE DEF a, f, s
<1>4. Handled(c, Send(a))
  BY <1>1, SendHandles DEF Writes
<1>5. Handled(c, Runs(<<f, s>>, "pending"))
  <2>1. <<f, s>> \in Seq(Ata) /\ Len(<<f, s>>) = 2
    BY <1>2, <1>3
  <2>2. ASSUME NEW i \in 1 .. 2 PROVE <<f, s>>[i].what \notin Writes
    <3>1. i = 1 \/ i = 2
      OBVIOUS
    <3>2. <<f, s>>[1] = f /\ <<f, s>>[2] = s
      OBVIOUS
    <3>3. f.what \notin Writes /\ s.what \notin Writes
      BY <1>2, <1>3 DEF Writes
    <3>4. QED
      BY <3>1, <3>2, <3>3
  <2>3. "pending" \in Statuses
    BY DEF Statuses
  <2>4. QED
    BY <2>1, <2>2, <2>3, RunsHandles
<1>6. {"field", "ok", "not_ready", "prevented"} \subseteq Statuses
  BY DEF Statuses
<1>7. \/ HandleStartStop(c) = Reply("field")
      \/ HandleStartStop(c) = Reply("ok")
      \/ HandleStartStop(c) = Reply("not_ready")
      \/ HandleStartStop(c) = Reply("prevented")
      \/ HandleStartStop(c) = Send(a)
      \/ HandleStartStop(c) = Runs(<<f, s>>, "pending")
  BY DEF HandleStartStop, a, f, s
<1>8. QED
  BY <1>4, <1>5, <1>6, <1>7, ReplyHandles

(* The self test.                                                          *)
LEMMA SelfTestHandled ==
  ASSUME Types, NEW c, Simple(c)
  PROVE  Handled(c, HandleSelfTest(c))
<1> DEFINE v(lba) == RunDiagnosticVerify(lba)
           p == <<v(0), v(dev.blocks - 1), v(dev.blocks \div 2)>>
<1>1. ASSUME NEW lba \in Int PROVE v(lba) \in Ata /\ v(lba).what = "verify"
  <2>1. AtaVerify(lba, 1) \in Ata /\ AtaVerify(lba, 1).what = "verify"
    BY AtaVerifyType
  <2>2. QED
    BY <2>1, PolledType DEF RunDiagnosticVerify
<1>2. 0 \in Int /\ dev.blocks - 1 \in Int /\ dev.blocks \div 2 \in Int
  BY DevType
<1> HIDE DEF v
<1>3. p \in Seq(Ata) /\ Len(p) = 3
  BY <1>1, <1>2
<1>4. ASSUME NEW i \in 1 .. 3 PROVE p[i].what \notin Writes
  <2>1. p[1] = v(0) /\ p[2] = v(dev.blocks - 1) /\ p[3] = v(dev.blocks \div 2)
    OBVIOUS
  <2>2. i = 1 \/ i = 2 \/ i = 3
    OBVIOUS
  <2> HIDE DEF p
  <2>3. p[i].what = "verify"
    BY <1>1, <1>2, <2>1, <2>2
  <2>4. QED
    BY <2>3 DEF Writes
<1>5. {"field", "not_ready", "ok"} \subseteq Statuses
  BY DEF Statuses
<1>6. HandleSelfTest(c) = IF c.bad THEN Reply("field")
                          ELSE IF ~Ready THEN Reply("not_ready") ELSE Runs(p, "ok")
  BY DEF HandleSelfTest, v
<1> HIDE DEF p
<1>7. Handled(c, Runs(p, "ok"))
  BY <1>3, <1>4, <1>5, RunsHandles
<1>8. QED
  BY <1>5, <1>6, <1>7, ReplyHandles

(* MODE SENSE.                                                             *)
LEMMA ModeSenseHandled ==
  ASSUME NEW c, Simple(c)
  PROVE  Handled(c, HandleModeSense(c))
<1> DEFINE f == Polled(Plain("identify"))
<1>1. f \in Ata /\ f.what = "identify"
  BY PlainType, PolledType DEF Whats
<1> HIDE DEF f
<1>2. "ready" \in Statuses /\ "field" \in Statuses
  BY DEF Statuses
<1>3. Handled(c, Runs(<<f>>, "ready"))
  <2>1. <<f>> \in Seq(Ata) /\ Len(<<f>>) = 1 /\ <<f>>[1] = f
    BY <1>1
  <2>2. \A i \in 1 .. 1 : <<f>>[i].what \notin Writes
    <3>1. \A i \in 1 .. 1 : i = 1
      OBVIOUS
    <3>2. f.what \notin Writes
      BY <1>1 DEF Writes
    <3>3. QED
      BY <2>1, <3>1, <3>2
  <2>3. QED
    BY <1>2, <2>1, <2>2, RunsHandles
<1>4. \/ HandleModeSense(c) = Reply("field")
      \/ HandleModeSense(c) = Runs(<<f>>, "ready")
      \/ HandleModeSense(c) = Tell(IF protected THEN 1 ELSE 0)
  BY DEF HandleModeSense, f
<1>5. QED
  BY <1>2, <1>3, <1>4, ReplyHandles, TellHandles

(* INQUIRY.                                                                *)
LEMMA InquiryHandled ==
  ASSUME NEW c
  PROVE  Handled(c, HandleInquiry(c))
<1>1. {"field", "ready", "hardware"} \subseteq Statuses
  BY DEF Statuses
<1>2. \/ HandleInquiry(c) = Reply("field")
      \/ HandleInquiry(c) = Reply("ready")
      \/ HandleInquiry(c) = Reply("hardware")
      \/ HandleInquiry(c) = Tell(MaxRwBlocks(dev))
  BY DEF HandleInquiry
<1>3. QED
  BY <1>1, <1>2, ReplyHandles, TellHandles

(* Commands that become one ATA command without blocks.                    *)
LEMMA PlainsHandled ==
  ASSUME NEW c, Simple(c)
  PROVE  /\ Handled(c, HandleTestUnitReady(c)) /\ Handled(c, HandleModeSelect(c))
         /\ Handled(c, HandleSynchronizeCache(c))
         /\ Handled(c, HandleSecurityProtocol(c))
<1>1. "field" \in Statuses /\ "attention" \in Statuses
  BY DEF Statuses
<1>2. /\ "power" \in Whats \ Writes /\ "features" \in Whats \ Writes
      /\ "flush" \in Whats \ Writes /\ "trusted" \in Whats \ Writes
  BY DEF Whats, Writes
<1>3. /\ Handled(c, Send(Plain("power"))) /\ Handled(c, Send(Plain("features")))
      /\ Handled(c, Send(Plain("flush"))) /\ Handled(c, Send(Plain("trusted")))
  BY <1>2, PlainHandles
<1>4. Handled(c, Reply("field")) /\ Handled(c, Reply("attention"))
  BY <1>1, ReplyHandles
<1>5. Handled(c, HandleTestUnitReady(c))
  BY <1>3, <1>4 DEF HandleTestUnitReady
<1>6. Handled(c, HandleModeSelect(c))
  BY <1>3, <1>4 DEF HandleModeSelect
<1>7. Handled(c, HandleSynchronizeCache(c))
  BY <1>3, <1>4 DEF HandleSynchronizeCache
<1>8. Handled(c, HandleSecurityProtocol(c))
  BY <1>3, <1>4 DEF HandleSecurityProtocol
<1>9. QED
  BY <1>5, <1>6, <1>7, <1>8

(* Commands that are answered at once.                                     *)
LEMMA AnswersHandled ==
  ASSUME NEW c
  PROVE  /\ Handled(c, HandlePrevent(c)) /\ Handled(c, HandleRequestSense(c))
         /\ Handled(c, HandleLogSense(c)) /\ Handled(c, HandleReadCapacity(c))
         /\ Handled(c, HandleFormatCapacities(c)) /\ Handled(c, HandleReportLuns(c))
         /\ Handled(c, HandleWriteBuffer(c)) /\ Handled(c, HandleSendDiagnostic(c))
         /\ Handled(c, HandleFormatUnit(c)) /\ Handled(c, HandleTiDefined(c))
<1>1. /\ "ready" \in Statuses /\ "ok" \in Statuses /\ "field" \in Statuses
      /\ "unsupported" \in Statuses /\ "not_ready" \in Statuses
  BY DEF Statuses
<1>2. /\ Handled(c, Reply("ready")) /\ Handled(c, Reply("ok"))
      /\ Handled(c, Reply("field")) /\ Handled(c, Reply("unsupported"))
      /\ Handled(c, Reply("not_ready"))
  BY <1>1, ReplyHandles
<1>3. Handled(c, HandlePrevent(c)) /\ Handled(c, HandleFormatUnit(c))
  BY <1>2 DEF HandlePrevent, HandleFormatUnit
<1>4. /\ Handled(c, HandleRequestSense(c)) /\ Handled(c, HandleLogSense(c))
      /\ Handled(c, HandleReportLuns(c)) /\ Handled(c, HandleWriteBuffer(c))
      /\ Handled(c, HandleSendDiagnostic(c)) /\ Handled(c, HandleTiDefined(c))
  BY <1>2 DEF HandleRequestSense, HandleLogSense, HandleReportLuns,
              HandleWriteBuffer, HandleSendDiagnostic, HandleTiDefined
<1>5. Handled(c, HandleReadCapacity(c)) /\ Handled(c, HandleFormatCapacities(c))
  BY TellHandles DEF HandleReadCapacity, HandleFormatCapacities
<1>6. QED
  BY <1>3, <1>4, <1>5

(* What kinds of command there are.                                        *)
LEMMA Kinds ==
  ASSUME NEW c \in Commands
  PROVE  /\ c.op \in {"read", "write"} => c \in Rw \/ c.bad
         /\ c.op = "verify" => c \in Verifies \/ c.bad
         /\ c.op = "unmap" => c \in Unmaps \/ (c.bad /\ c.list = <<>>)
         /\ c.op = "pass" => c \in PassThrough
<1>1. c \in Rw => c.op \in {"read", "write"}
  BY DEF Rw
<1>2. c \in Verifies => c.op = "verify"
  BY DEF Verifies
<1>3. c \in Unmaps => c.op = "unmap"
  BY DEF Unmaps
<1>4. c \in PassThrough => c.op = "pass"
  BY DEF PassThrough
<1>5. c \in StartStop \cup Prevents \cup Inquiries \cup Reports
        => c.op \notin {"read", "write", "verify", "unmap", "pass"}
  BY DEF StartStop, Prevents, Inquiries, Reports
<1>6. c \in Others => c.op \notin {"read", "write", "verify", "unmap", "pass"}
  BY DEF Others
<1>7. c \in Malformed =>
        c.bad /\ c.op # "pass" /\ (c.op = "unmap" => c.list = <<>>)
  BY DEF Malformed
<1>8. \/ c \in Rw \/ c \in Verifies \/ c \in Unmaps \/ c \in PassThrough
      \/ c \in StartStop \cup Prevents \cup Inquiries \cup Reports
      \/ c \in Others \/ c \in Malformed
  BY DEF Commands
<1>9. c.op \in {"read", "write"} => c \in Rw \/ c.bad
  BY <1>2, <1>3, <1>4, <1>5, <1>6, <1>7, <1>8
<1>10. c.op = "verify" => c \in Verifies \/ c.bad
  BY <1>1, <1>3, <1>4, <1>5, <1>6, <1>7, <1>8
<1>11. c.op = "unmap" => c \in Unmaps \/ (c.bad /\ c.list = <<>>)
  <2>1. c.op = "unmap" => c \in Unmaps \/ c \in Malformed
    BY <1>1, <1>2, <1>4, <1>5, <1>6, <1>8
  <2>2. QED
    BY <1>7, <2>1
<1>12. c.op = "pass" => c \in PassThrough
  BY <1>1, <1>2, <1>3, <1>5, <1>6, <1>7, <1>8
<1>13. QED
  BY <1>9, <1>10, <1>11, <1>12

(* Which handler a command has.                                            *)
LEMMA HandleIs ==
  ASSUME NEW c
  PROVE  /\ c.op \in {"read", "write"} => Handle(c) = HandleRw(c)
         /\ c.op = "verify" => Handle(c) = HandleVerify(c)
         /\ c.op = "unmap" => Handle(c) = HandleUnmap(c)
         /\ c.op = "pass" => Handle(c) = HandlePassThrough(c)
         /\ c.op \notin {"read", "write", "verify", "unmap", "pass"} =>
              \/ Handle(c) = HandleStartStop(c) \/ Handle(c) = HandlePrevent(c)
              \/ Handle(c) = HandleInquiry(c) \/ Handle(c) = HandleTestUnitReady(c)
              \/ Handle(c) = HandleRequestSense(c) \/ Handle(c) = HandleModeSense(c)
              \/ Handle(c) = HandleModeSelect(c) \/ Handle(c) = HandleLogSense(c)
              \/ Handle(c) = HandleReadCapacity(c)
              \/ Handle(c) = HandleFormatCapacities(c)
              \/ Handle(c) = HandleReportLuns(c)
              \/ Handle(c) = HandleSynchronizeCache(c)
              \/ Handle(c) = HandleWriteBuffer(c) \/ Handle(c) = HandleSelfTest(c)
              \/ Handle(c) = HandleSendDiagnostic(c)
              \/ Handle(c) = HandleSecurityProtocol(c)
              \/ Handle(c) = HandleFormatUnit(c) \/ Handle(c) = HandleTiDefined(c)
              \/ Handle(c) = Reply("invalid")
<1>1. c.op \in {"read", "write"} => Handle(c) = HandleRw(c)
  BY DEF Handle
<1>2. c.op = "verify" => Handle(c) = HandleVerify(c)
  BY DEF Handle
<1>3. c.op = "unmap" => Handle(c) = HandleUnmap(c)
  BY DEF Handle
<1>4. c.op = "pass" => Handle(c) = HandlePassThrough(c)
  BY DEF Handle
<1>5. QED
  BY <1>1, <1>2, <1>3, <1>4 DEF Handle

(* Every handler's plan is fine, if it finds the medium writable where it  *)
(* writes.                                                                 *)
LEMMA HandleHandled ==
  ASSUME Types, SliderInv, NEW c \in Commands, IsMediaWriteClass(c) => dev.open
  PROVE  Handled(c, Handle(c))
<1>1. "field" \in Statuses /\ "invalid" \in Statuses
  BY DEF Statuses
<1>2. CASE c.op \in {"read", "write"}
  <2>1. Handle(c) = HandleRw(c)
    BY <1>2, HandleIs
  <2>2. c.op = "write" => dev.open
    BY DEF IsMediaWriteClass
  <2>3. CASE c \in Rw
    BY <2>1, <2>2, <2>3, RwHandled
  <2>4. CASE c.bad
    <3>1. RwParams(c) # "ok" /\ RwParams(c) \in Statuses
      BY <2>4 DEF RwParams, Statuses
    <3>2. Handle(c) = Reply(RwParams(c))
      BY <2>1, <3>1 DEF HandleRw
    <3>3. QED
      BY <3>1, <3>2, ReplyHandles
  <2>5. QED
    BY <1>2, <2>3, <2>4, Kinds
<1>3. CASE c.op = "verify"
  BY <1>3, HandleIs, VerifyHandled, Kinds
<1>4. CASE c.op = "unmap"
  <2>1. dev.open
    BY <1>4 DEF IsMediaWriteClass
  <2>2. c \in Unmaps \/ (c.bad /\ c.list = <<>>)
    BY <1>4, Kinds
  <2>3. QED
    BY <1>4, <2>1, <2>2, HandleIs, UnmapHandled
<1>5. CASE c.op = "pass"
  BY <1>5, HandleIs, PassHandled, Kinds
<1>6. CASE c.op \notin {"read", "write", "verify", "unmap", "pass"}
  <2>1. Simple(c)
    BY <1>6 DEF Simple
  <2>2. Handled(c, Reply("invalid"))
    BY <1>1, ReplyHandles
  <2>3. QED
    BY <1>6, <2>1, <2>2, HandleIs, StartStopHandled, AnswersHandled, InquiryHandled,
       PlainsHandled, ModeSenseHandled, SelfTestHandled
<1>7. QED
  BY <1>2, <1>3, <1>4, <1>5, <1>6

(* So is that of any command: the medium is looked at first.               *)
LEMMA CommandHandled ==
  ASSUME Types, SliderInv, NEW c \in Commands
  PROVE  Handled(c, AtaCommandHandler(c))
<1>1. "not_ready" \in Statuses /\ "protected" \in Statuses
  BY DEF Statuses
<1>2. CASE (~Ready \/ unloaded) /\ c.op \notin AnsweredWithoutMedium
  BY <1>1, <1>2, ReplyHandles DEF AtaCommandHandler
<1>3. CASE /\ ~((~Ready \/ unloaded) /\ c.op \notin AnsweredWithoutMedium)
           /\ IsMediaWriteClass(c) /\ protected
  BY <1>1, <1>3, ReplyHandles DEF AtaCommandHandler
<1>4. CASE /\ ~((~Ready \/ unloaded) /\ c.op \notin AnsweredWithoutMedium)
           /\ ~(IsMediaWriteClass(c) /\ protected)
  <2>1. IsMediaWriteClass(c) => c.op \notin AnsweredWithoutMedium
    BY DEF IsMediaWriteClass, AnsweredWithoutMedium
  <2>2. IsMediaWriteClass(c) => dev.open
    BY <1>4, <2>1 DEF SliderInv
  <2>3. AtaCommandHandler(c) = Handle(c)
    BY <1>4 DEF AtaCommandHandler
  <2>4. QED
    BY <2>2, <2>3, HandleHandled
<1>5. QED
  BY <1>2, <1>3, <1>4

-----------------------------------------------------------------------------
(* The steps.                                                              *)

(* A step that ends at rest.                                               *)
LEMMA IdleStep ==
  ASSUME Around', SliderInv', NEW st, cmd' = Idle(st), trimmed' = {}
  PROVE  IInv'
<1>1. Idle(st) \in [on : Steps, c : Commands \cup {NoCommand}, plan : Seq(Ata), end : Statuses]
  <2>1. "idle" \in Steps
    BY DEF Steps
  <2>2. "ok" \in Statuses /\ "failed" \in Statuses
    BY DEF Statuses
  <2>3. <<>> \in Seq(Ata)
    OBVIOUS
  <2>4. QED
    BY <2>1, <2>2, <2>3 DEF Idle
<1>2. Idle(st).on = "idle" /\ Idle(st).c = NoCommand
  BY DEF Idle
<1>3. Types'
  BY <1>1 DEF Types
<1>4. cmd'.on = "idle" /\ cmd'.c = NoCommand
  BY <1>2
<1>5. IdleInv' /\ BusyInv' /\ DiskInv'
  BY <1>4 DEF IdleInv, BusyInv, DiskInv, HasDisk
<1>6. QED
  BY <1>3, <1>5 DEF IInv

(* The end of a command.                                                   *)
LEMMA EndStep ==
  ASSUME Around', SliderInv', NEW st, Ends(st)
  PROVE  IInv'
  BY IdleStep DEF Ends

(* The same for a command that fails.                                      *)
LEMMA FailStep ==
  ASSUME Around', SliderInv', NEW st, Fails(st)
  PROVE  IInv'
  BY EndStep DEF Fails

(* A step between two commands.                                            *)
LEMMA RestStep ==
  ASSUME IInv, cmd.on = "idle", cmd' = cmd, trimmed' = trimmed, Around', SliderInv'
  PROVE  IInv'
<1>1. Types'
  BY DEF IInv, Types
<1>2. cmd'.on = "idle" /\ cmd'.c = NoCommand /\ trimmed' = {}
  BY DEF IInv, IdleInv
<1>3. IdleInv' /\ BusyInv' /\ DiskInv'
  BY <1>2 DEF IdleInv, BusyInv, DiskInv, HasDisk
<1>4. QED
  BY <1>1, <1>3 DEF IInv

(* What a command that came is found to be.                                *)
LEMMA BusyType ==
  ASSUME IInv
  PROVE  /\ cmd.on \in Steps /\ cmd.plan \in Seq(Ata) /\ cmd.end \in Statuses
         /\ cmd.on # "idle" => cmd.c \in Commands /\ cmd.plan # <<>> /\ Len(cmd.plan) \in Nat \ {0}
<1>1. /\ cmd.on \in Steps /\ cmd.plan \in Seq(Ata) /\ cmd.end \in Statuses
  BY DEF IInv, Types
<1>2. cmd.on # "idle" => cmd.c \in Commands /\ cmd.plan # <<>>
  BY DEF IInv, BusyInv
<1>3. QED
  BY <1>1, <1>2, EmptySeq

(* A PREVENT names what it wants.                                          *)
LEMMA PreventType ==
  ASSUME NEW c \in Commands, c.op = "prevent"
  PROVE  c.prohibit \in BOOLEAN
<1>1. c \in Prevents \/ c \in Malformed
  <2>1. c \in Rw \cup Verifies \cup Unmaps \cup PassThrough => c.op # "prevent"
    BY DEF Rw, Verifies, Unmaps, PassThrough
  <2>2. c \in StartStop \cup Inquiries \cup Reports \cup Others => c.op # "prevent"
    BY DEF StartStop, Inquiries, Reports, Others
  <2>3. QED
    BY <2>1, <2>2 DEF Commands
<1>2. c \in Prevents => c.prohibit \in BOOLEAN
  BY DEF Prevents
<1>3. c \in Malformed => c.prohibit = TRUE
  BY DEF Malformed
<1>4. QED
  BY <1>1, <1>2, <1>3

(* The arrival of a command.                                               *)
LEMMA ReceiveStep ==
  ASSUME IInv, NEW c \in Commands, Receive(c)
  PROVE  IInv'
<1> DEFINE r == AtaCommandHandler(c)
<1>1. Handled(c, r)
  BY CommandHandled DEF IInv
<1> HIDE DEF r
<1>2. /\ cmd.on = "idle" /\ dev' = dev /\ protected' = protected /\ class' = class
      /\ Unlocks(c) /\ HostEject(c)
      /\ changed' = (changed /\ r.end # "attention")
  BY DEF Receive, r
<1>3. Around
  BY DEF IInv, Types
<1>4. Around'
  <2>1. changed' \in BOOLEAN
    BY <1>2
  <2>2. prevented' \in BOOLEAN
    BY <1>2, <1>3, PreventType DEF Unlocks, Around
  <2>3. unloaded' \in BOOLEAN /\ eject' \in BOOLEAN
    BY <1>2, <1>3 DEF HostEject, Around
  <2>4. QED
    BY <1>2, <1>3, <2>1, <2>2, <2>3 DEF Around
<1>5. SliderInv'
  BY <1>2 DEF IInv, SliderInv, Ready
<1>6. CASE r.plan = <<>>
  <2>1. Ends(r.end)
    BY <1>6 DEF Receive, r
  <2>2. QED
    BY <1>4, <1>5, <2>1, EndStep
<1>7. CASE r.plan # <<>>
  <2> DEFINE p == r.plan
  <2>1. /\ cmd' = [on |-> "next", c |-> c, plan |-> p, end |-> r.end]
        /\ trimmed' = trimmed
    BY <1>7 DEF Receive, r
  <2>2. cmd'.on = "next" /\ cmd'.c = c /\ cmd'.plan = p /\ cmd'.end = r.end
    BY <2>1
  <2>3. p \in Seq(Ata) /\ r.end \in Statuses /\ OpenPlan(p)
    BY <1>1 DEF Handled, Fine
  <2>4. trimmed' = {}
    BY <1>2, <2>1 DEF IInv, IdleInv
  <2>5. Types'
    <3>1. "next" \in Steps
      BY DEF Steps
    <3>2. QED
      BY <1>4, <2>1, <2>3, <3>1 DEF Types
  <2>6. c.op \in {"read", "write"} => ~p[1].wait /\ RwPlan(c, p[1])
    BY <1>1, <1>7 DEF Handled
  <2>7. c.op = "unmap" => UnmapPlan(c, p, r.end, {})
    BY <1>1, <1>7 DEF Handled
  <2>8. IdleInv' /\ DiskInv'
    BY <2>2 DEF IdleInv, DiskInv, HasDisk
  <2>9. BusyInv'
    <3>1. OpenPlan(cmd.plan)'
      BY <1>2, <2>2, <2>3 DEF OpenPlan
    <3>2. (cmd.c.op \in {"read", "write"} =>
             ~cmd.plan[1].wait /\ RwPlan(cmd.c, cmd.plan[1]))'
      BY <1>2, <2>2, <2>6 DEF RwPlan, Wanted
    <3>3. (cmd.c.op = "unmap" => UnmapPlan(cmd.c, cmd.plan, cmd.end, trimmed))'
      BY <2>2, <2>4, <2>7
    <3>4. QED
      BY <1>7, <2>2, <3>1, <3>2, <3>3 DEF BusyInv
  <2>10. QED
    BY <1>5, <2>5, <2>8, <2>9 DEF IInv
<1>8. QED
  BY <1>6, <1>7

(* The medium goes; nothing else that the slider depends on changes.       *)
LEMMA Gone ==
  ASSUME Around, dev' = NoDev,
         UNCHANGED <<changed, unloaded, protected, prevented, eject, class>>
  PROVE  Around' /\ SliderInv'
<1>1. Around'
  BY DEF Around
<1>2. SliderInv'
  BY DEF SliderInv, Ready
<1>3. QED
  BY <1>1, <1>2

(* The medium and all that is known about it stay.                         *)
LEMMA Stays ==
  ASSUME Around, SliderInv, dev' = dev,
         UNCHANGED <<changed, unloaded, protected, prevented, eject, class>>
  PROVE  Around' /\ SliderInv'
<1>1. Around'
  BY DEF Around
<1>2. SliderInv'
  BY DEF SliderInv, Ready
<1>3. QED
  BY <1>1, <1>2

(* The issue of the next ATA command.                                      *)
LEMMA SendStep ==
  ASSUME IInv, SendAtaCommand
  PROVE  IInv'
<1> DEFINE a == Head(cmd.plan)
           p == cmd.plan
           on == IF a.wait THEN "polled" ELSE "pending"
           usable == Ready /\ (a.what = "trim" => dev.kind = "generic")
<1>1. /\ cmd.on = "next"
      /\ UNCHANGED <<changed, unloaded, protected, prevented, eject, class>>
  BY DEF SendAtaCommand
<1>2. Around /\ SliderInv
  BY DEF IInv, Types
<1>3. CASE dev' = dev /\ Fails("not_ready")
  <2>1. Around' /\ SliderInv'
    BY <1>1, <1>2, <1>3, Stays
  <2>2. QED
    BY <1>3, <2>1, FailStep
<1>4. CASE dev' = NoDev /\ Fails("not_ready")
  <2>1. Around' /\ SliderInv'
    BY <1>1, <1>2, <1>4, Gone
  <2>2. QED
    BY <1>4, <2>1, FailStep
<1>5. CASE /\ usable /\ cmd' = [cmd EXCEPT !.on = on]
           /\ trimmed' = trimmed \cup a.ranges /\ dev' = dev
  <2>1. Around' /\ SliderInv'
    BY <1>1, <1>2, <1>5, Stays
  <2>2. /\ p \in Seq(Ata) /\ cmd.c \in Commands /\ p # <<>>
        /\ Len(p) \in Nat \ {0}
    BY <1>1, BusyType
  <2>3. a = p[1] /\ 1 \in 1 .. Len(p)
    BY <2>2
  <2>4. a.wait \in BOOLEAN
    <3>1. p[1] \in Ata
      BY <2>2, <2>3, ElementOfSeq
    <3> HIDE DEF p, a
    <3>2. p[1].wait \in BOOLEAN
      BY <3>1 DEF Ata
    <3>3. QED
      BY <2>3, <3>2
  <2>5. on \in Steps /\ on # "idle" /\ (on = "polled" <=> a.wait)
        /\ (on = "pending" <=> ~a.wait)
    BY <2>4 DEF Steps
  <2> HIDE DEF on
  <2>6. /\ cmd'.on = on /\ cmd'.c = cmd.c /\ cmd'.plan = p /\ cmd'.end = cmd.end
        /\ cmd' \in [on : Steps, c : Commands \cup {NoCommand}, plan : Seq(Ata), end : Statuses]
    <3>1. cmd \in [on : Steps, c : Commands \cup {NoCommand}, plan : Seq(Ata), end : Statuses]
      BY DEF IInv, Types
    <3>2. QED
      BY <1>5, <2>5, <3>1
  <2>7. Types'
    BY <2>1, <2>6 DEF Types
  <2>8. Ready'
    BY <1>5 DEF Ready
  <2>9. /\ Ready => OpenPlan(p)
        /\ cmd.c.op \in {"read", "write"} =>
             ~p[1].wait /\ (Ready => RwPlan(cmd.c, p[1]))
        /\ cmd.c.op = "unmap" => UnmapPlan(cmd.c, p, cmd.end, trimmed)
    BY <1>1 DEF IInv, BusyInv
  <2>10. cmd.c.op = "unmap" => UnmapPlan(cmd.c, p, cmd.end, trimmed \cup a.ranges)
    <3> DEFINE st == cmd.end
    <3> SUFFICES ASSUME UnmapPlan(cmd.c, p, st, trimmed)
                 PROVE  UnmapPlan(cmd.c, p, st, trimmed \cup a.ranges)
      BY <2>9
    <3>1. a.ranges \subseteq Trims(p)
      BY <2>3, TrimsAre
    <3>2. (trimmed \cup a.ranges) \cup Trims(p) = trimmed \cup Trims(p)
      BY <3>1
    <3>3. QED
      BY <3>2 DEF UnmapPlan
  <2>11. IdleInv'
    BY <2>5, <2>6 DEF IdleInv
  <2>12. BusyInv'
    <3>1. OpenPlan(cmd.plan)'
      BY <1>5, <2>6, <2>9 DEF OpenPlan
    <3>2. (cmd.c.op \in {"read", "write"} =>
             ~cmd.plan[1].wait /\ (Ready => RwPlan(cmd.c, cmd.plan[1])))'
      <4>1. cmd.c.op \in {"read", "write"} => ~p[1].wait /\ RwPlan(cmd.c, p[1])
        BY <1>5, <2>9
      <4>2. QED
        BY <1>1, <1>5, <2>6, <4>1 DEF RwPlan, Wanted
    <3>3. (cmd.c.op = "unmap" => UnmapPlan(cmd.c, cmd.plan, cmd.end, trimmed))'
      BY <1>5, <2>6, <2>10
    <3>4. cmd'.c \in Commands /\ cmd'.plan # <<>>
      BY <2>2, <2>6
    <3>5. QED
      BY <3>1, <3>2, <3>3, <3>4 DEF BusyInv
  <2>13. DiskInv'
    <3>1. (cmd.on = "polled" => cmd.plan[1].wait)'
      BY <2>3, <2>5, <2>6
    <3>2. (cmd.on = "pending" => Ready /\ ~cmd.plan[1].wait)'
      BY <2>3, <2>5, <2>6, <2>8
    <3>3. cmd'.plan[1].ranges \subseteq trimmed'
      BY <1>5, <2>3, <2>6
    <3>4. QED
      BY <3>1, <3>2, <3>3 DEF DiskInv
  <2>14. QED
    BY <2>1, <2>7, <2>11, <2>12, <2>13 DEF IInv
<1>6. QED
  BY <1>3, <1>4, <1>5 DEF SendAtaCommand

(* The end of a polled ATA command.                                        *)
LEMMA FinishStep ==
  ASSUME IInv, FinishPolled
  PROVE  IInv'
<1> DEFINE p == cmd.plan
           t == Tail(p)
<1>1. /\ cmd.on = "polled"
      /\ UNCHANGED <<changed, unloaded, protected, prevented, eject, class>>
  BY DEF FinishPolled
<1>2. Around /\ SliderInv
  BY DEF IInv, Types
<1>3. ASSUME NEW st, dev' = dev, Ends(st)
      PROVE  IInv'
  <2>1. Around' /\ SliderInv'
    BY <1>1, <1>2, <1>3, Stays
  <2>2. QED
    BY <1>3, <2>1, EndStep
<1>4. ASSUME NEW st, dev' = dev, Fails(st)
      PROVE  IInv'
  BY <1>3, <1>4 DEF Fails
<1>5. CASE dev' = NoDev /\ Fails("not_ready")
  <2>1. Around' /\ SliderInv'
    BY <1>1, <1>2, <1>5, Gone
  <2>2. QED
    BY <1>5, <2>1, FailStep
<1>6. CASE /\ Ready /\ dev' = dev /\ Len(p) # 1 /\ trimmed' = trimmed
           /\ cmd' = [cmd EXCEPT !.on = "next", !.plan = t]
  <2>1. Around' /\ SliderInv'
    BY <1>1, <1>2, <1>6, Stays
  <2>2. /\ p \in Seq(Ata) /\ cmd.c \in Commands /\ p # <<>>
        /\ Len(p) \in Nat \ {0}
    BY <1>1, BusyType
  <2>3. /\ t \in Seq(Ata) /\ Len(t) = Len(p) - 1
        /\ \A i \in 1 .. Len(t) : t[i] = p[i + 1] /\ i + 1 \in 1 .. Len(p)
        /\ Len(t) \in Nat \ {0} /\ t # <<>>
    <3>1. /\ t \in Seq(Ata) /\ Len(t) = Len(p) - 1
          /\ \A i \in 1 .. Len(t) : t[i] = p[i + 1]
      BY <2>2, HeadTailProperties
    <3> HIDE DEF p, t
    <3>2. Len(t) \in Nat \ {0} /\ \A i \in 1 .. Len(t) : i + 1 \in 1 .. Len(p)
      BY <1>6, <2>2, <3>1
    <3>3. QED
      BY <3>1, <3>2, EmptySeq
  <2> HIDE DEF t
  <2>4. /\ cmd'.on = "next" /\ cmd'.c = cmd.c /\ cmd'.plan = t /\ cmd'.end = cmd.end
        /\ cmd' \in [on : Steps, c : Commands \cup {NoCommand}, plan : Seq(Ata), end : Statuses]
    <3>1. cmd \in [on : Steps, c : Commands \cup {NoCommand}, plan : Seq(Ata), end : Statuses]
      BY DEF IInv, Types
    <3>2. "next" \in Steps
      BY DEF Steps
    <3>3. QED
      BY <1>6, <2>3, <3>1, <3>2
  <2>5. Types'
    BY <2>1, <2>4 DEF Types
  <2>6. /\ OpenPlan(p) /\ cmd.c.op \notin {"read", "write"} /\ p[1].wait
        /\ cmd.c.op = "unmap" =>
             UnmapPlan(cmd.c, p, cmd.end, trimmed) /\ p[1].ranges \subseteq trimmed
    BY <1>1, <1>6 DEF IInv, BusyInv, DiskInv, HasDisk
  <2>7. OpenPlan(cmd.plan)'
    BY <1>6, <2>3, <2>4, <2>6 DEF OpenPlan
  <2>8. cmd.c.op = "unmap" => UnmapPlan(cmd.c, t, cmd.end, trimmed)
    <3> DEFINE st == cmd.end  c == cmd.c
    <3> SUFFICES ASSUME UnmapPlan(c, p, st, trimmed), p[1].ranges \subseteq trimmed
                 PROVE  UnmapPlan(c, t, st, trimmed)
      BY <2>6
    <3> HIDE DEF st, c, p
    <3>1. trimmed \cup Trims(t) = trimmed \cup Trims(p)
      <4>1. ASSUME NEW v \in Trims(t) PROVE v \in Trims(p)
        <5>1. PICK i \in 1 .. Len(t) : v \in t[i].ranges
          BY TrimsAre
        <5>2. i + 1 \in 1 .. Len(p) /\ v \in p[i + 1].ranges
          BY <2>3, <5>1
        <5>3. QED
          BY <5>2, TrimsAre
      <4>2. ASSUME NEW v \in Trims(p) PROVE v \in trimmed \/ v \in Trims(t)
        <5>1. PICK i \in 1 .. Len(p) : v \in p[i].ranges
          BY TrimsAre
        <5>2. CASE i = 1
          BY <5>1, <5>2
        <5>3. CASE i # 1
          <6>1. i - 1 \in 1 .. Len(t) /\ (i - 1) + 1 = i
            BY <2>2, <2>3, <5>3
          <6>2. t[i - 1] = p[(i - 1) + 1]
            BY <2>3, <6>1
          <6>3. v \in t[i - 1].ranges
            BY <5>1, <6>1, <6>2
          <6>4. QED
            BY <6>1, <6>3, TrimsAre
        <5>4. QED
          BY <5>2, <5>3
      <4>3. QED
        BY <4>1, <4>2
    <3>2. CASE st = "pending"
      <4>1. \A i \in 1 .. Len(p) - 1 : p[i].wait
        BY <3>2 DEF UnmapPlan
      <4>2. \A i \in 1 .. Len(t) - 1 : t[i] = p[i + 1] /\ i + 1 \in 1 .. Len(p) - 1
        BY <2>2, <2>3
      <4>3. \A i \in 1 .. Len(t) - 1 : t[i].wait
        BY <4>1, <4>2
      <4>4. QED
        BY <3>1, <3>2, <4>3 DEF UnmapPlan
    <3>3. CASE st # "pending"
      <4>1. \A i \in 1 .. Len(p) : p[i].wait
        BY <3>3 DEF UnmapPlan
      <4>2. \A i \in 1 .. Len(t) : t[i].wait
        BY <2>3, <4>1
      <4>3. QED
        BY <3>1, <3>3, <4>2 DEF UnmapPlan
    <3>4. QED
      BY <3>2, <3>3
  <2>9. BusyInv'
    <3>1. cmd'.c \in Commands /\ cmd'.plan # <<>>
      BY <2>2, <2>3, <2>4
    <3>2. cmd'.c.op \notin {"read", "write"}
      BY <2>4, <2>6
    <3>3. (cmd.c.op = "unmap" => UnmapPlan(cmd.c, cmd.plan, cmd.end, trimmed))'
      BY <1>6, <2>4, <2>8
    <3>4. QED
      BY <2>7, <3>1, <3>2, <3>3 DEF BusyInv
  <2>10. IdleInv' /\ DiskInv'
    BY <2>4 DEF IdleInv, DiskInv, HasDisk
  <2>11. QED
    BY <2>1, <2>5, <2>9, <2>10 DEF IInv
<1>7. QED
  BY <1>3, <1>4, <1>5, <1>6 DEF FinishPolled

(* The completion of a pending one.                                        *)
LEMMA CompleteStep ==
  ASSUME IInv, Completes
  PROVE  IInv'
<1>1. Around /\ SliderInv
  BY DEF IInv, Types
<1>2. /\ UNCHANGED <<dev, changed, unloaded, protected, prevented, eject, class>>
      /\ (Ends("ok") \/ Ends("ata_error"))
  BY DEF Completes, media
<1>3. Around' /\ SliderInv'
  BY <1>1, <1>2, Stays
<1>4. QED
  BY <1>2, <1>3, EndStep

(* The withdrawal of the medium.                                           *)
LEMMA WithdrawStep ==
  ASSUME IInv, Withdraw
  PROVE  IInv'
<1>1. Around /\ SliderInv
  BY DEF IInv, Types
<1>2. /\ dev' = NoDev
      /\ UNCHANGED <<changed, unloaded, protected, prevented, eject, class>>
  BY DEF Withdraw
<1>3. Around' /\ SliderInv' /\ ~Ready'
  BY <1>1, <1>2, Gone DEF Ready
<1>4. CASE Ends("ata_error")
  BY <1>3, <1>4, EndStep
<1>5. CASE cmd.on # "pending" /\ cmd' = cmd /\ trimmed' = trimmed
  <2>1. Types'
    BY <1>3, <1>5 DEF IInv, Types
  <2>2. IdleInv'
    BY <1>5 DEF IInv, IdleInv
  <2>3. BusyInv'
    BY <1>3, <1>5 DEF IInv, BusyInv
  <2>4. DiskInv'
    BY <1>5 DEF IInv, DiskInv, HasDisk
  <2>5. QED
    BY <1>3, <2>1, <2>2, <2>3, <2>4 DEF IInv
<1>6. QED
  BY <1>4, <1>5 DEF Withdraw

(* The rest of the firmware.                                               *)
LEMMA OtherSteps ==
  ASSUME IInv,
         \/ ResetPassesThrough \/ Publish \/ ServiceMediaState \/ EjectEnds
         \/ ClearRemovalPrevented \/ Restart
  PROVE  IInv'
<1>1. Around /\ SliderInv
  BY DEF IInv, Types
<1>2. CASE ResetPassesThrough
  <2>1. Around' /\ SliderInv'
    BY <1>1, <1>2, Gone DEF ResetPassesThrough
  <2>2. QED
    BY <1>2, <2>1, IdleStep DEF ResetPassesThrough
<1>3. CASE Publish
  <2>1. PICK m \in Media, works \in BOOLEAN :
          dev' = m /\ protected' = ~(m.open /\ works)
    BY <1>3 DEF Publish
  <2>2. Around'
    <3>1. protected' \in BOOLEAN
      BY <2>1
    <3>2. dev' \in Media \cup {NoDev}
      BY <2>1
    <3>3. /\ changed' = TRUE
          /\ UNCHANGED <<unloaded, prevented, eject, class>>
      BY <1>3 DEF Publish
    <3>4. QED
      BY <1>1, <3>1, <3>2, <3>3 DEF Around
  <2>3. SliderInv'
    BY <2>1 DEF SliderInv
  <2>4. QED
    BY <1>3, <2>2, <2>3, RestStep DEF Publish
<1>4. CASE ServiceMediaState
  <2>1. Around' /\ SliderInv'
    BY <1>1, <1>4 DEF ServiceMediaState, Around, SliderInv
  <2>2. QED
    BY <1>4, <2>1, RestStep DEF ServiceMediaState
<1>5. CASE EjectEnds
  <2>1. Around' /\ SliderInv'
    BY <1>1, <1>5 DEF EjectEnds, Around, SliderInv, Ready
  <2>2. QED
    BY <1>5, <2>1, RestStep DEF EjectEnds
<1>6. CASE ClearRemovalPrevented
  <2>1. Around' /\ SliderInv'
    BY <1>1, <1>6 DEF ClearRemovalPrevented, Around, SliderInv, Ready, media
  <2>2. QED
    BY <1>6, <2>1, RestStep DEF ClearRemovalPrevented
<1>7. CASE Restart
  <2>1. Around' /\ SliderInv'
    BY <1>7 DEF Restart, Around, SliderInv
  <2>2. QED
    BY <1>7, <2>1, IdleStep DEF Restart
<1>8. QED
  BY <1>2, <1>3, <1>4, <1>5, <1>6, <1>7

(* At the start no command is there.                                       *)
LEMMA InitHolds ==
  ASSUME Init
  PROVE  IInv
<1>1. Around
  BY DEF Init, Around
<1>2. SliderInv
  BY DEF Init, SliderInv
<1>3. cmd.on = "idle" /\ cmd.c = NoCommand /\ trimmed = {}
  BY DEF Init, Idle
<1>4. cmd \in [on : Steps, c : Commands \cup {NoCommand}, plan : Seq(Ata), end : Statuses]
  <2>1. "idle" \in Steps /\ "ok" \in Statuses
    BY DEF Steps, Statuses
  <2>2. <<>> \in Seq(Ata)
    OBVIOUS
  <2>3. cmd = [on |-> "idle", c |-> NoCommand, plan |-> <<>>, end |-> "ok"]
    BY DEF Init, Idle
  <2>4. QED
    BY <2>1, <2>2, <2>3
<1>5. IdleInv /\ BusyInv /\ DiskInv
  BY <1>3 DEF IdleInv, BusyInv, DiskInv, HasDisk
<1>6. QED
  BY <1>1, <1>2, <1>4, <1>5 DEF IInv, Types

(* Every step keeps the invariant.                                         *)
LEMMA StepHolds ==
  ASSUME IInv, Next
  PROVE  IInv'
<1>1. \/ \E c \in Commands : Receive(c)
      \/ SendAtaCommand \/ FinishPolled \/ Completes \/ Withdraw
      \/ ResetPassesThrough \/ Publish \/ ServiceMediaState \/ EjectEnds
      \/ ClearRemovalPrevented \/ Restart
  BY DEF Next, Commands
<1>2. QED
  BY <1>1, ReceiveStep, SendStep, FinishStep, CompleteStep, WithdrawStep, OtherSteps

(* The inductive invariant.                                                *)
THEOREM Invariant == Spec => []IInv
<1>1. Init => IInv
  BY InitHolds
<1>2. IInv /\ [Next]_vars => IInv'
  <2> SUFFICES ASSUME IInv, [Next]_vars PROVE IInv'
    OBVIOUS
  <2>1. CASE Next
    BY <2>1, StepHolds
  <2>2. CASE UNCHANGED vars
    BY <2>2 DEF vars, IInv, Types, Around, SliderInv, IdleInv, BusyInv, DiskInv,
                HasDisk, Ready, OpenPlan, RwPlan, Wanted
  <2>3. QED
    BY <2>1, <2>2
<1>3. QED
  BY <1>1, <1>2, PTL DEF Spec

-----------------------------------------------------------------------------
(* The theorems.                                                           *)

(* The state of the command layer keeps its type.                          *)
THEOREM TypeCorrect == Spec => []TypeOK
<1>1. IInv => TypeOK
  <2> SUFFICES ASSUME IInv PROVE TypeOK
    OBVIOUS
  <2>1. Around /\ cmd.on \in Steps
    BY BusyType DEF IInv, Types
  <2>2. {changed, unloaded, protected, prevented, eject} \subseteq BOOLEAN
    BY <2>1 DEF Around
  <2>3. QED
    BY <2>1, <2>2 DEF TypeOK, Around, Steps
<1>2. QED
  BY <1>1, Invariant, PTL

(* What the disk has is the first command of the plan.                     *)
LEMMA DiskHasFirst ==
  ASSUME IInv, HasDisk
  PROVE  /\ cmd.on # "idle" /\ cmd.plan # <<>> /\ 1 \in 1 .. Len(cmd.plan)
         /\ InDisk = cmd.plan[1]
<1>1. cmd.on # "idle"
  BY DEF HasDisk
<1>2. cmd.plan \in Seq(Ata) /\ cmd.plan # <<>> /\ Len(cmd.plan) \in Nat \ {0}
  BY <1>1, BusyType
<1>3. QED
  BY <1>1, <1>2 DEF InDisk

(* A READ or WRITE reaches the blocks that it named, as many as the CBW    *)
(* has room for, on any disk and for all addresses and lengths; and when   *)
(* it has room for none, the disk is told zero.                            *)
THEOREM BlocksAreRequested == Spec => []BlocksAsRequested
<1>1. IInv => BlocksAsRequested
  <2> SUFFICES ASSUME IInv, HasDisk, cmd.c.op \in {"read", "write"}
               PROVE  BlocksAsRequested
    BY DEF BlocksAsRequested
  <2>1. InDisk = cmd.plan[1] /\ cmd.on # "idle"
    BY DiskHasFirst
  <2>2. ~cmd.plan[1].wait /\ (Ready => RwPlan(cmd.c, cmd.plan[1]))
    BY <2>1 DEF IInv, BusyInv
  <2>3. cmd.on # "polled"
    BY <2>2 DEF IInv, DiskInv
  <2>4. Ready
    BY <2>3 DEF IInv, DiskInv, HasDisk
  <2>5. RwPlan(cmd.c, InDisk)
    BY <2>1, <2>2, <2>4
  <2>6. QED
    BY <2>5 DEF RwPlan, Wanted, BlocksAsRequested
<1>2. QED
  BY <1>1, Invariant, PTL

(* No ATA command that writes is in a disk whose slider was closed when    *)
(* the medium was admitted: neither WRITE nor UNMAP nor a command that     *)
(* passes through.                                                         *)
THEOREM ProtectedIsUnwritten == Spec => []ProtectedUnwritten
<1>1. IInv => ProtectedUnwritten
  <2> SUFFICES ASSUME IInv, HasDisk, Ready, InDisk.what \in {"write", "trim", "raw_write"}
               PROVE  dev.open
    BY DEF ProtectedUnwritten
  <2>1. InDisk = cmd.plan[1] /\ cmd.on # "idle" /\ 1 \in 1 .. Len(cmd.plan)
    BY DiskHasFirst
  <2>2. OpenPlan(cmd.plan)
    BY <2>1 DEF IInv, BusyInv
  <2>3. cmd.plan[1].what \in Writes
    BY <2>1 DEF Writes
  <2>4. QED
    BY <2>1, <2>2, <2>3 DEF OpenPlan
<1>2. QED
  BY <1>1, Invariant, PTL

(* What READ CAPACITY, the block limits page and MODE SENSE promise is     *)
(* kept, for a disk of at most 2^48 blocks, as many as ATA can address.    *)
THEOREM AdvertisedIsTrue ==
  ASSUME \A m \in Media : m.blocks <= High
  PROVE  Spec => []AdvertisedIsAccepted
<1>1. IInv => AdvertisedIsAccepted
  <2> SUFFICES ASSUME IInv, cmd.on = "idle", MayLock
               PROVE  AdvertisedIsAccepted
    BY DEF AdvertisedIsAccepted
  <2> DEFINE last(size) == HandleReadCapacity([size |-> size]).says
             most == HandleInquiry([page |-> "limits", bad |-> FALSE]).says
             closed == HandleModeSense([page |-> "header"]).says = 1
             all == HandleFormatCapacities(0).says
  <2>1. Types /\ SliderInv /\ Ready /\ ~unloaded
    BY DEF IInv, MayLock
  <2>2. dev.blocks \in Nat \ {0} /\ dev.blocks <= High
    BY <2>1, DevType DEF Types, Around, Ready
  <2>3. last(16) = dev.blocks - 1
    BY TellFine DEF HandleReadCapacity
  <2>4. last(10) = MinOf(dev.blocks - 1, Max32)
    BY TellFine DEF HandleReadCapacity
  <2>5. all = IF dev.blocks > Max32 THEN Max32 ELSE dev.blocks
    BY TellFine DEF HandleFormatCapacities
  <2>6. most = MaxRwBlocks(dev)
    <3> DEFINE q == [page |-> "limits", bad |-> FALSE]
    <3>1. q.page = "limits" /\ ~q.bad
      OBVIOUS
    <3> HIDE DEF q
    <3>2. HandleInquiry(q) = Tell(MaxRwBlocks(dev))
      BY <3>1 DEF HandleInquiry
    <3>3. QED
      BY <3>2, TellFine DEF q
  <2>7. closed <=> protected
    <3> DEFINE q == [page |-> "header"]
    <3>1. q.page = "header"
      OBVIOUS
    <3> HIDE DEF q
    <3>2. HandleModeSense(q) = Tell(IF protected THEN 1 ELSE 0)
      BY <3>1 DEF HandleModeSense, RefreshesCachingPage
    <3>3. HandleModeSense(q).says = IF protected THEN 1 ELSE 0
      BY <3>2, TellFine
    <3>4. protected \in BOOLEAN
      BY <2>1 DEF Types, Around
    <3>5. QED
      BY <3>3, <3>4 DEF q
  <2> HIDE DEF last, most, closed, all
  <2>8. last(10) <= last(16) /\ all <= last(16) + 1
    BY <2>2, <2>3, <2>4, <2>5, Sizes DEF MinOf
  <2>9. ASSUME NEW c \in Rw, c.op = "write" => ~closed,
               CommandLength(c) \in 1 .. most,
               c.lba + CommandLength(c) - 1 <= last(16)
        PROVE  AtaCommandHandler(c).plan # <<>>
    <3> DEFINE n == CommandLength(c)
    <3>1. /\ c.op \in {"read", "write"} /\ c.lba \in Nat /\ ~c.bad /\ n \in Nat
      BY RwType
    <3>2. MaxRwBlocks(dev) \in Nat
      BY Sizes DEF MaxRwBlocks, MinOf
    <3>3. n # 0 /\ n <= MaxRwBlocks(dev) /\ c.lba + n <= dev.blocks
      BY <2>2, <2>3, <2>6, <2>9, <3>1, <3>2
    <3>4. c.lba < High
      BY <2>2, <3>1, <3>3, Sizes
    <3>5. c.lba % High = c.lba
      BY <3>1, <3>4, Sizes
    <3>6. RwParams(c) = "ok"
      <4>1. ~(c.lba >= High)
        BY <3>1, <3>4, Sizes
      <4>2. QED
        BY <3>1, <3>3, <4>1 DEF RwParams
    <3>7. InRange(c.lba % High, n)
      BY <3>3, <3>5 DEF InRange
    <3>8. ~(n > MaxRwBlocks(dev))
      BY <3>1, <3>2, <3>3
    <3>9. \E a : HandleRw(c) = Send(a)
      <4> HIDE DEF n
      <4>1. HandleRw(c) = Send(AtaRw(c, c.lba % High,
                                     IF class = "bot" THEN MinOf(n, c.host) ELSE n))
        BY <3>6, <3>7, <3>8 DEF HandleRw, n
      <4>2. QED
        BY <4>1
    <3>10. HandleRw(c).plan # <<>>
      <4>1. PICK a : HandleRw(c) = Send(a)
        BY <3>9
      <4>2. HandleRw(c).plan = <<a>>
        BY <4>1 DEF Send, Runs
      <4>3. <<a>> # <<>>
        OBVIOUS
      <4>4. QED
        BY <4>2, <4>3
    <3>11. ~(IsMediaWriteClass(c) /\ protected)
      BY <2>7, <2>9, <3>1 DEF IsMediaWriteClass
    <3>12. AtaCommandHandler(c) = Handle(c)
      BY <2>1, <3>11 DEF AtaCommandHandler
    <3>13. QED
      BY <3>1, <3>10, <3>12, HandleIs
  <2>10. QED
    BY <2>8, <2>9 DEF AdvertisedIsAccepted, last, most, closed, all
<1>2. QED
  BY <1>1, Invariant, PTL

(* A step trims what the UNMAP in progress names, and that command ends    *)
(* well only when all of it is gone.                                       *)
LEMMA TrimStep ==
  ASSUME IInv, [Next]_vars, cmd.c.op = "unmap"
  PROVE  /\ trimmed' \subseteq Named(cmd.c)
         /\ (cmd.on = "pending" /\ cmd' = Idle("ok")) => trimmed = Named(cmd.c)
<1> DEFINE c == cmd.c
           p == cmd.plan
<1>1. cmd.on # "idle"
  BY DEF IInv, IdleInv, NoCommand
<1>2. UnmapPlan(c, p, cmd.end, trimmed)
  BY <1>1 DEF IInv, BusyInv
<1>3. p \in Seq(Ata) /\ Len(p) \in Nat \ {0}
  BY <1>1, BusyType
<1>4. trimmed \cup Trims(p) \subseteq Named(c)
  BY <1>2 DEF UnmapPlan
<1>5. \/ trimmed' = {} \/ trimmed' = trimmed
      \/ trimmed' = trimmed \cup Head(p).ranges
  BY <1>1 DEF Next, vars, Receive, ResetPassesThrough, SendAtaCommand, FinishPolled,
       Completes, Publish, Withdraw, ServiceMediaState, EjectEnds,
       ClearRemovalPrevented, Restart, Ends, Fails
<1>6. Head(p).ranges \subseteq Trims(p)
  <2>1. Head(p) = p[1] /\ 1 \in 1 .. Len(p)
    BY <1>3
  <2>2. QED
    BY <2>1, TrimsAre
<1>7. trimmed' \subseteq Named(c)
  BY <1>4, <1>5, <1>6
<1>8. ASSUME cmd.on = "pending" PROVE trimmed = Named(c)
  <2>1. ~p[1].wait /\ p[1].ranges \subseteq trimmed
    BY <1>8 DEF IInv, DiskInv, HasDisk
  <2>2. cmd.end = "pending"
    <3> SUFFICES ASSUME cmd.end # "pending" PROVE FALSE
      OBVIOUS
    <3>1. \A i \in 1 .. Len(p) : p[i].wait
      BY <1>2 DEF UnmapPlan
    <3>2. 1 \in 1 .. Len(p)
      BY <1>3
    <3>3. QED
      BY <2>1, <3>1, <3>2
  <2>3. trimmed \cup Trims(p) = Named(c) /\ \A i \in 1 .. Len(p) - 1 : p[i].wait
    BY <1>2, <2>2 DEF UnmapPlan
  <2>4. Len(p) = 1
    <3> SUFFICES ASSUME Len(p) # 1 PROVE FALSE
      OBVIOUS
    <3> DEFINE l == Len(p)
    <3>1. l \in Nat \ {0} /\ l # 1
      BY <1>3
    <3> HIDE DEF l
    <3>2. 1 \in 1 .. l - 1
      BY <3>1
    <3>3. QED
      BY <2>1, <2>3, <3>2 DEF l
  <2>5. ASSUME NEW v \in Trims(p) PROVE v \in trimmed
    <3>1. PICK i \in 1 .. Len(p) : v \in p[i].ranges
      BY TrimsAre
    <3>2. i = 1
      BY <2>4
    <3>3. QED
      BY <2>1, <3>1, <3>2
  <2>6. QED
    BY <2>3, <2>5
<1>9. QED
  BY <1>7, <1>8

(* However an UNMAP ends, only blocks that it named are trimmed, and all   *)
(* of them when it ends well: with any number of descriptors, of ranges    *)
(* and of DATA SET MANAGEMENT commands.                                    *)
THEOREM TrimsAsNamed == Spec => TrimmedAsNamed
<1>1. IInv /\ [Next]_vars =>
        [cmd.c.op = "unmap" =>
           /\ trimmed' \subseteq Named(cmd.c)
           /\ (cmd.on = "pending" /\ cmd' = Idle("ok"))
                => trimmed = Named(cmd.c)]_vars
  BY TrimStep
<1>2. QED
  BY <1>1, Invariant, PTL DEF Spec, TrimmedAsNamed
=============================================================================
