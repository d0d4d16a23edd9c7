------------------------- MODULE OfflineQueueProofs -------------------------
(* Proofs about OfflineQueue, for any number of tabs, actions, sessions and   *)
(* troubles: the queue stays in order, and keeps what it should.              *)
EXTENDS OfflineQueue, SequenceTheorems, TLAPS

-----------------------------------------------------------------------------
(* Sequences of actions in the order of a longer one.                        *)

\* No action is in r twice.
Distinct(r) == \A m, n \in 1 .. Len(r) : r[m] = r[n] => m = n

Before(r, a, b) == \E m, n \in 1 .. Len(r) : m < n /\ r[m] = a /\ r[n] = b

\* The sequence q consists of actions of r, in the order of r.
Ordered(r, q) ==
    /\ \A n \in 1 .. Len(q) : q[n] \in Members(r)
    /\ \A m, n \in 1 .. Len(q) : m < n => Before(r, q[m], q[n])

\* All of p comes before all of q.
AllBefore(r, p, q) == \A m \in 1 .. Len(p), n \in 1 .. Len(q) : Before(r, p[m], q[n])

LEMMA MembersAppend ==
    ASSUME NEW S, NEW q \in Seq(S), NEW a \in S
    PROVE  Members(Append(q, a)) = Members(q) \union {a}
<1>1. Len(Append(q, a)) = Len(q) + 1 /\ Len(q) \in Nat /\ Append(q, a)[Len(q) + 1] = a
      /\ \A n \in 1 .. Len(q) : Append(q, a)[n] = q[n]
  OBVIOUS
<1>2. ASSUME NEW x \in Members(Append(q, a)) PROVE x \in Members(q) \union {a}
  BY <1>1, <1>2 DEF Members
<1>3. ASSUME NEW x \in Members(q) \union {a} PROVE x \in Members(Append(q, a))
  BY <1>1, <1>3 DEF Members
<1> QED BY <1>2, <1>3

LEMMA MembersIn == ASSUME NEW S, NEW q \in Seq(S) PROVE Members(q) \subseteq S
BY DEF Members

\* What is in order stays in order when another action is read.
LEMMA OrderedOn ==
    ASSUME NEW S, NEW r \in Seq(S), NEW a \in S, NEW q, Ordered(r, q)
    PROVE  Ordered(Append(r, a), q)
<1>1. Len(Append(r, a)) = Len(r) + 1 /\ Len(r) \in Nat
      /\ \A n \in 1 .. Len(r) : Append(r, a)[n] = r[n]
  OBVIOUS
<1>2. Members(r) \subseteq Members(Append(r, a))
  BY MembersAppend
<1>3. \A x, y : Before(r, x, y) => Before(Append(r, a), x, y)
  BY <1>1 DEF Before
<1> QED BY <1>2, <1>3 DEF Ordered

LEMMA BeforeOn ==
    ASSUME NEW S, NEW r \in Seq(S), NEW a \in S, NEW x, NEW y, Before(r, x, y)
    PROVE  Before(Append(r, a), x, y)
<1>1. Len(Append(r, a)) = Len(r) + 1 /\ Len(r) \in Nat
      /\ \A n \in 1 .. Len(r) : Append(r, a)[n] = r[n]
  OBVIOUS
<1> QED BY <1>1 DEF Before

\* The action read last comes after all others.
LEMMA LastRead ==
    ASSUME NEW S, NEW r \in Seq(S), NEW a \in S, NEW x \in Members(r)
    PROVE  Before(Append(r, a), x, a)
<1>1. Len(Append(r, a)) = Len(r) + 1 /\ Len(r) \in Nat /\ Append(r, a)[Len(r) + 1] = a
      /\ \A n \in 1 .. Len(r) : Append(r, a)[n] = r[n]
  OBVIOUS
<1>2. PICK m \in 1 .. Len(r) : r[m] = x
  BY DEF Members
<1> QED BY <1>1, <1>2 DEF Before

LEMMA DistinctAppend ==
    ASSUME NEW S, NEW r \in Seq(S), NEW a \in S, Distinct(r), a \notin Members(r)
    PROVE  Distinct(Append(r, a))
<1>1. Len(Append(r, a)) = Len(r) + 1 /\ Len(r) \in Nat /\ Append(r, a)[Len(r) + 1] = a
      /\ \A n \in 1 .. Len(r) : Append(r, a)[n] = r[n]
  OBVIOUS
<1>2. \A n \in 1 .. Len(r) : r[n] # a
  BY DEF Members
<1> QED BY <1>1, <1>2 DEF Distinct

\* Before is an order without cycles where no action is twice.
LEMMA BeforeDiffers ==
    ASSUME NEW r, Distinct(r), Len(r) \in Nat, NEW a, NEW b, Before(r, a, b)
    PROVE  a # b
BY DEF Before, Distinct

LEMMA OrderedDistinct ==
    ASSUME NEW r, Distinct(r), Len(r) \in Nat, NEW q, Len(q) \in Nat, Ordered(r, q)
    PROVE  Distinct(q)
<1> SUFFICES ASSUME NEW m \in 1 .. Len(q), NEW n \in 1 .. Len(q), q[m] = q[n], m # n
             PROVE  FALSE
  BY DEF Distinct
<1>1. m < n \/ n < m
  OBVIOUS
<1>2. Before(r, q[m], q[n]) \/ Before(r, q[n], q[m])
  BY <1>1 DEF Ordered
<1> QED BY <1>2, BeforeDiffers

LEMMA OrderedConcat ==
    ASSUME NEW S, NEW r, NEW p \in Seq(S), NEW q \in Seq(S),
           Ordered(r, p), Ordered(r, q), AllBefore(r, p, q)
    PROVE  Ordered(r, p \o q)
<1>1. Len(p \o q) = Len(p) + Len(q) /\ Len(p) \in Nat /\ Len(q) \in Nat
  OBVIOUS
<1>2. \A n \in 1 .. Len(p) : (p \o q)[n] = p[n]
  OBVIOUS
<1>3. \A n \in 1 .. Len(p \o q) :
          n \notin 1 .. Len(p) => n - Len(p) \in 1 .. Len(q) /\ (p \o q)[n] = q[n - Len(p)]
  OBVIOUS
<1>4. ASSUME NEW n \in 1 .. Len(p \o q) PROVE (p \o q)[n] \in Members(r)
  BY <1>2, <1>3 DEF Ordered
<1>5. ASSUME NEW m \in 1 .. Len(p \o q), NEW n \in 1 .. Len(p \o q), m < n
      PROVE  Before(r, (p \o q)[m], (p \o q)[n])
  <2>1. CASE n \in 1 .. Len(p)
    <3>1. m \in 1 .. Len(p)
      BY <1>1, <1>5, <2>1
    <3> QED BY <1>2, <1>5, <2>1, <3>1 DEF Ordered
  <2>2. CASE n \notin 1 .. Len(p) /\ m \in 1 .. Len(p)
    BY <1>2, <1>3, <2>2 DEF AllBefore
  <2>3. CASE n \notin 1 .. Len(p) /\ m \notin 1 .. Len(p)
    <3>1. m - Len(p) < n - Len(p)
      BY <1>1, <1>5
    <3> QED BY <1>3, <2>3, <3>1 DEF Ordered
  <2> QED BY <2>1, <2>2, <2>3
<1> QED BY <1>4, <1>5 DEF Ordered

\* What comes from place n of a sequence.
LEMMA FromFacts ==
    ASSUME NEW S, NEW q \in Seq(S), NEW n \in 1 .. Len(q) + 1
    PROVE  /\ From(q, n) \in Seq(S) /\ Len(From(q, n)) = Len(q) - n + 1
           /\ \A i \in 1 .. Len(From(q, n)) : From(q, n)[i] = q[n + i - 1] /\ n + i - 1 \in n .. Len(q)
           /\ Members(From(q, n)) = {q[i] : i \in n .. Len(q)}
<1>1. Len(q) \in Nat
  OBVIOUS
<1>2. From(q, n) = [i \in 1 .. Len(q) - n + 1 |-> q[n + i - 1]]
  BY <1>1 DEF From
<1>3. From(q, n) \in Seq(S) /\ Len(From(q, n)) = Len(q) - n + 1
  BY <1>1, SubSeqProperties DEF From
<1>4. \A i \in 1 .. Len(From(q, n)) : From(q, n)[i] = q[n + i - 1] /\ n + i - 1 \in n .. Len(q)
  BY <1>1, <1>2, <1>3
<1>5. ASSUME NEW i \in n .. Len(q) PROVE q[i] \in Members(From(q, n))
  <2>1. i - n + 1 \in 1 .. Len(From(q, n)) /\ n + (i - n + 1) - 1 = i
    BY <1>1, <1>3
  <2> QED BY <1>4, <2>1 DEF Members
<1>6. ASSUME NEW x \in Members(From(q, n)) PROVE x \in {q[i] : i \in n .. Len(q)}
  BY <1>4 DEF Members
<1> QED BY <1>3, <1>4, <1>5, <1>6

LEMMA MembersConcat ==
    ASSUME NEW S, NEW p \in Seq(S), NEW q \in Seq(S)
    PROVE  Members(p \o q) = Members(p) \union Members(q)
<1>1. Len(p \o q) = Len(p) + Len(q) /\ Len(p) \in Nat /\ Len(q) \in Nat
  OBVIOUS
<1>2. \A n \in 1 .. Len(p) : (p \o q)[n] = p[n] /\ n \in 1 .. Len(p \o q)
  BY <1>1
<1>3. \A n \in 1 .. Len(p \o q) :
          n \notin 1 .. Len(p) => n - Len(p) \in 1 .. Len(q) /\ (p \o q)[n] = q[n - Len(p)]
  OBVIOUS
<1>4. \A n \in 1 .. Len(q) : (p \o q)[Len(p) + n] = q[n] /\ Len(p) + n \in 1 .. Len(p \o q)
  BY <1>1
<1>5. ASSUME NEW x \in Members(p \o q) PROVE x \in Members(p) \union Members(q)
  BY <1>2, <1>3 DEF Members
<1>6. ASSUME NEW x \in Members(p) \union Members(q) PROVE x \in Members(p \o q)
  BY <1>2, <1>4 DEF Members
<1> QED BY <1>5, <1>6

-----------------------------------------------------------------------------
(* The invariant.                                                            *)

Acts == [stage : Stage, tab : Tabs \union {NoTab}, request : Request, csrf : Nat, copy : Seq(Action)]
Flushes == [pc : {"off", "send", "save"}, items : Seq(Action), at : Nat, keep : Seq(Action)]

Types ==
    /\ slot \in [key : Nat, items : Seq(Action)]
    /\ act \in [Action -> Acts] /\ flush \in [Tabs -> Flushes]
    /\ \A a \in Action : act[a].stage \in {"sending", "enqueuing"} => act[a].tab \in Tabs
    /\ applied \in [Action -> 0 .. 2] /\ reads \in Seq(Action)
    /\ disturbed \in BOOLEAN /\ again \in BOOLEAN

BrowserTypes ==
    /\ key \in [Tabs -> Nat] /\ csrf \in [Tabs -> Nat]
    /\ password \in Nat /\ session \in Nat /\ logins \in Nat

\* What a flush still has to write back: what it keeps and what it has not sent.
Rest(f) == IF f.pc = "send" THEN From(f.items, f.at) ELSE <<>>
Left(f) == Members(f.keep) \union Members(Rest(f))

FlushOrdered(r, f) ==
    f.pc # "off" =>
        /\ Ordered(r, f.items) /\ Ordered(r, f.keep)
        /\ f.pc = "send" => f.at \in 1 .. Len(f.items) /\ AllBefore(r, f.keep, From(f.items, f.at))

\* Every copy of the queue is in the order in which its actions were read, also those that tabs
\* hold while they encrypt or send.
OrderInv ==
    /\ Distinct(reads)
    /\ \A a \in Action : act[a].stage \in {"new", "sending"} => a \notin Members(reads)
    /\ \A a \in Action : act[a].stage = "enqueuing" =>
        /\ a \in Members(reads) /\ Ordered(reads, act[a].copy)
        /\ \A n \in 1 .. Len(act[a].copy) : Before(reads, act[a].copy[n], a)
    /\ Ordered(reads, slot.items)
    /\ \A t \in Tabs : FlushOrdered(reads, flush[t])

\* An undisturbed queue has one user at a time, whose copy has all that is queued.
KeepInv ==
    ~disturbed =>
        /\ \A a, b \in Enqueuing : a = b
        /\ \A t, u \in Flushing : t = u
        /\ Enqueuing = {} \/ Flushing = {}
        /\ \A a \in Enqueuing : act[a].copy = slot.items
        /\ \A a \in Action : Queued(a) =>
            /\ a \in Members(slot.items)
            /\ \A t \in Flushing : a \in Left(flush[t])

\* Nothing has been applied that may still be sent.
OnceInv ==
    ~disturbed /\ ~again =>
        /\ \A a \in Action :
            /\ applied[a] < 2
            /\ act[a].stage \in {"new", "sending", "enqueuing", "queued"} => applied[a] = 0
        /\ Flushing = {} => \A a \in Members(slot.items) : Queued(a)
        /\ \A t \in Flushing : \A a \in Left(flush[t]) : Queued(a)

QueueInv == Types /\ BrowserTypes /\ OrderInv /\ KeepInv /\ OnceInv

-----------------------------------------------------------------------------
(* The steps of a flush.                                                     *)

Stepped(f, kept) ==
    [f EXCEPT !.keep = f.keep \o kept, !.at = f.at + 1,
              !.pc = IF f.at = Len(f.items) THEN "save" ELSE "send"]
Stopped(f) == [f EXCEPT !.keep = f.keep \o From(f.items, f.at), !.pc = "save"]

LEMMA EmptyFacts == Members(<<>>) = {} /\ (\A r : Ordered(r, <<>>)) /\ Len(<<>>) = 0
BY DEF Members, Ordered

LEMMA RestFacts ==
    ASSUME NEW f \in Flushes, f.pc = "send", f.at \in 1 .. Len(f.items)
    PROVE  /\ f.items[f.at] \in Action
           /\ Rest(f) \in Seq(Action)
           /\ Members(Rest(f)) = {f.items[i] : i \in f.at .. Len(f.items)}
           /\ \A i \in 1 .. Len(Rest(f)) :
                Rest(f)[i] = f.items[f.at + i - 1] /\ f.at + i - 1 \in f.at .. Len(f.items)
           /\ \A i \in f.at .. Len(f.items) :
                i - f.at + 1 \in 1 .. Len(Rest(f)) /\ Rest(f)[i - f.at + 1] = f.items[i]
<1>1. f.items \in Seq(Action) /\ f.at \in 1 .. Len(f.items) + 1 /\ Rest(f) = From(f.items, f.at)
      /\ Len(f.items) \in Nat
  BY DEF Flushes, Rest
<1> HIDE DEF Rest
<1>2. /\ Rest(f) \in Seq(Action) /\ Len(Rest(f)) = Len(f.items) - f.at + 1
      /\ \A i \in 1 .. Len(Rest(f)) :
            Rest(f)[i] = f.items[f.at + i - 1] /\ f.at + i - 1 \in f.at .. Len(f.items)
      /\ Members(Rest(f)) = {f.items[i] : i \in f.at .. Len(f.items)}
  <2> DEFINE q == f.items
             n == f.at
  <2>1. q \in Seq(Action) /\ n \in 1 .. Len(q) + 1 /\ Rest(f) = From(q, n)
    BY <1>1
  <2> HIDE DEF q, n
  <2>2. /\ Rest(f) \in Seq(Action) /\ Len(Rest(f)) = Len(q) - n + 1
        /\ \A i \in 1 .. Len(Rest(f)) : Rest(f)[i] = q[n + i - 1] /\ n + i - 1 \in n .. Len(q)
        /\ Members(Rest(f)) = {q[i] : i \in n .. Len(q)}
    BY <2>1, FromFacts
  <2> QED BY <2>2 DEF q, n
<1>3. ASSUME NEW i \in f.at .. Len(f.items)
      PROVE  i - f.at + 1 \in 1 .. Len(Rest(f)) /\ Rest(f)[i - f.at + 1] = f.items[i]
  <2>1. i - f.at + 1 \in 1 .. Len(Rest(f)) /\ f.at + (i - f.at + 1) - 1 = i
    BY <1>1, <1>2
  <2> QED BY <1>2, <2>1
<1> QED BY <1>1, <1>2, <1>3

\* The next item is dealt with, and the rest remains.
LEMMA NextFacts ==
    ASSUME NEW f \in Flushes, f.pc = "send", f.at \in 1 .. Len(f.items), NEW kept \in Seq(Action)
    PROVE  /\ Stepped(f, kept) \in Flushes /\ Stepped(f, kept).pc \in {"send", "save"}
           /\ Stepped(f, kept).items = f.items /\ Stepped(f, kept).at = f.at + 1
           /\ Stepped(f, kept).keep = f.keep \o kept
           /\ Stepped(f, kept).pc = "send" => f.at + 1 \in 1 .. Len(f.items)
           /\ Members(Rest(Stepped(f, kept))) = {f.items[i] : i \in f.at + 1 .. Len(f.items)}
<1> DEFINE g == Stepped(f, kept)
<1>1. f.items \in Seq(Action) /\ Len(f.items) \in Nat /\ f.keep \in Seq(Action) /\ f.at \in Nat
  BY DEF Flushes
<1>2. /\ g \in Flushes /\ g.items = f.items /\ g.at = f.at + 1 /\ g.keep = f.keep \o kept
      /\ g.pc = IF f.at = Len(f.items) THEN "save" ELSE "send"
  <2> DEFINE k == f.keep \o kept
  <2>1. k \in Seq(Action) /\ f.at + 1 \in Nat
    BY <1>1
  <2>2. g = [f EXCEPT !.keep = k, !.at = f.at + 1,
                      !.pc = IF f.at = Len(f.items) THEN "save" ELSE "send"]
    BY DEF Stepped
  <2> HIDE DEF k, g
  <2>3. /\ g \in Flushes /\ g.items = f.items /\ g.at = f.at + 1 /\ g.keep = k
        /\ g.pc = IF f.at = Len(f.items) THEN "save" ELSE "send"
    BY <2>1, <2>2 DEF Flushes
  <2> QED BY <2>3 DEF k
<1> HIDE DEF g
<1>3. CASE f.at = Len(f.items)
  <2>1. Rest(g) = <<>> /\ f.at + 1 .. Len(f.items) = {}
    BY <1>1, <1>2, <1>3 DEF Rest
  <2> QED BY <1>2, <1>3, <2>1, EmptyFacts DEF g
<1>4. CASE f.at # Len(f.items)
  <2>1. g.pc = "send" /\ g.at \in 1 .. Len(g.items)
    BY <1>1, <1>2, <1>4
  <2>2. Members(Rest(g)) = {g.items[i] : i \in g.at .. Len(g.items)}
    BY <1>2, <2>1, RestFacts
  <2> QED BY <1>2, <2>1, <2>2 DEF g
<1> QED BY <1>3, <1>4

\* Where the next item comes before the rest, and all that is kept before both.
LEMMA AroundItem ==
    ASSUME NEW r, NEW f \in Flushes, f.pc = "send", FlushOrdered(r, f)
    PROVE  /\ f.items[f.at] \in Members(r)
           /\ \A i \in f.at + 1 .. Len(f.items) : Before(r, f.items[f.at], f.items[i])
           /\ \A m \in 1 .. Len(f.keep), i \in f.at .. Len(f.items) : Before(r, f.keep[m], f.items[i])
<1>1. /\ Ordered(r, f.items) /\ f.at \in 1 .. Len(f.items)
      /\ AllBefore(r, f.keep, Rest(f))
  BY DEF FlushOrdered, Rest
<1>2. Len(f.items) \in Nat
  BY DEF Flushes
<1>3. ASSUME NEW m \in 1 .. Len(f.keep), NEW i \in f.at .. Len(f.items)
      PROVE  Before(r, f.keep[m], f.items[i])
  <2>1. i - f.at + 1 \in 1 .. Len(Rest(f)) /\ Rest(f)[i - f.at + 1] = f.items[i]
    BY <1>1, RestFacts
  <2> QED BY <1>1, <2>1 DEF AllBefore
<1> QED BY <1>1, <1>2, <1>3 DEF Ordered

\* After a step the flush is in order, if what it keeps is.
LEMMA NextOrdered ==
    ASSUME NEW r, NEW f \in Flushes, f.pc = "send", FlushOrdered(r, f), NEW kept \in Seq(Action),
           kept = <<>> \/ kept = <<f.items[f.at]>>
    PROVE  FlushOrdered(r, Stepped(f, kept))
<1> DEFINE g == Stepped(f, kept)
<1>1. f.at \in 1 .. Len(f.items) /\ Len(f.items) \in Nat /\ f.keep \in Seq(Action)
      /\ Ordered(r, f.items) /\ Ordered(r, f.keep)
  BY DEF FlushOrdered, Flushes
<1>2. /\ g \in Flushes /\ g.items = f.items /\ g.at = f.at + 1 /\ g.keep = f.keep \o kept
      /\ g.pc = "send" => g.at \in 1 .. Len(g.items)
  BY <1>1, NextFacts
<1> HIDE DEF g
<1>3. \A m \in 1 .. Len(g.keep), i \in f.at + 1 .. Len(f.items) : Before(r, g.keep[m], f.items[i])
  <2> SUFFICES ASSUME NEW m \in 1 .. Len(g.keep), NEW i \in f.at + 1 .. Len(f.items)
               PROVE  Before(r, g.keep[m], f.items[i])
    OBVIOUS
  <2>1. g.keep[m] = f.items[f.at] \/ (m \in 1 .. Len(f.keep) /\ g.keep[m] = f.keep[m])
    <3>1. CASE kept = <<>>
      <4>1. g.keep = f.keep
        BY <1>1, <1>2, <3>1
      <4> QED BY <4>1
    <3>2. CASE kept = <<f.items[f.at]>>
      <4> DEFINE k == f.keep
                 x == f.items[f.at]
      <4> HIDE DEF k, x
      <4>1. k \in Seq(Action) /\ g.keep = k \o <<x>> /\ Len(k) \in Nat
        BY <1>1, <1>2, <3>2 DEF k, x
      <4>2. m \in 1 .. Len(k) + 1
        BY <4>1
      <4>3. m \in 1 .. Len(k) => g.keep[m] = k[m]
        BY <4>1
      <4>4. m = Len(k) + 1 => g.keep[m] = x
        BY <4>1
      <4>5. m \in 1 .. Len(k) \/ m = Len(k) + 1
        BY <4>1, <4>2
      <4> QED BY <4>3, <4>4, <4>5 DEF k, x
    <3> QED BY <3>1, <3>2
  <2>2. i \in f.at .. Len(f.items)
    BY <1>1
  <2> QED BY <2>1, <2>2, AroundItem
<1>4. Ordered(r, g.keep)
  <2>1. CASE kept = <<>>
    BY <1>1, <1>2, <2>1
  <2>2. CASE kept = <<f.items[f.at]>>
    <3>1. Ordered(r, kept)
      BY <2>2, AroundItem DEF Ordered
    <3>2. AllBefore(r, f.keep, kept)
      BY <1>1, <2>2, AroundItem DEF AllBefore
    <3> QED BY <1>1, <1>2, <3>1, <3>2, OrderedConcat
  <2> QED BY <2>1, <2>2
<1>5. g.pc = "send" => AllBefore(r, g.keep, From(g.items, g.at))
  <2> SUFFICES ASSUME g.pc = "send", NEW m \in 1 .. Len(g.keep), NEW n \in 1 .. Len(Rest(g))
               PROVE  Before(r, g.keep[m], Rest(g)[n])
    BY DEF AllBefore, Rest
  <2>1. Rest(g)[n] = g.items[g.at + n - 1] /\ g.at + n - 1 \in g.at .. Len(g.items)
    BY <1>2, RestFacts
  <2> QED BY <1>2, <1>3, <2>1
<1> QED BY <1>1, <1>2, <1>4, <1>5 DEF FlushOrdered, g

\* What a step keeps is left, and nothing else is gone.
LEMMA NextLeft ==
    ASSUME NEW f \in Flushes, f.pc = "send", f.at \in 1 .. Len(f.items), NEW kept \in Seq(Action)
    PROVE  /\ Left(Stepped(f, kept)) =
                Members(f.keep) \union Members(kept) \union {f.items[i] : i \in f.at + 1 .. Len(f.items)}
           /\ Left(f) = Members(f.keep) \union {f.items[f.at]}
                            \union {f.items[i] : i \in f.at + 1 .. Len(f.items)}
<1>1. f.keep \in Seq(Action) /\ Len(f.items) \in Nat
  BY DEF Flushes
<1>2. Members(f.keep \o kept) = Members(f.keep) \union Members(kept)
  BY <1>1, MembersConcat
<1>3. {f.items[i] : i \in f.at .. Len(f.items)} =
          {f.items[f.at]} \union {f.items[i] : i \in f.at + 1 .. Len(f.items)}
  <2>1. f.at .. Len(f.items) = {f.at} \union (f.at + 1 .. Len(f.items))
    BY <1>1
  <2> QED BY <2>1
<1> QED BY <1>2, <1>3, NextFacts, RestFacts DEF Left

LEMMA DroppedLeft ==
    ASSUME NEW r \in Seq(Action), Distinct(r), NEW f \in Flushes, f.pc = "send", FlushOrdered(r, f)
    PROVE  /\ Left(Stepped(f, <<>>)) = Left(f) \ {f.items[f.at]}
           /\ f.items[f.at] \in Left(f)
<1> DEFINE i == f.items[f.at]
           later == {f.items[n] : n \in f.at + 1 .. Len(f.items)}
<1>1. <<>> \in Seq(Action) /\ Members(<<>>) = {} /\ f.at \in 1 .. Len(f.items) /\ Len(r) \in Nat
  BY EmptyFacts DEF FlushOrdered
<1>2a. Left(Stepped(f, <<>>)) = Members(f.keep) \union Members(<<>>)
                                    \union {f.items[n] : n \in f.at + 1 .. Len(f.items)}
  BY <1>1, NextLeft
<1>2b. Left(f) = Members(f.keep) \union {f.items[f.at]}
                    \union {f.items[n] : n \in f.at + 1 .. Len(f.items)}
  BY <1>1, EmptyFacts, NextLeft
<1>2. /\ Left(Stepped(f, <<>>)) = Members(f.keep) \union later
      /\ Left(f) = Members(f.keep) \union {i} \union later
  <2> HIDE DEF i, later
  <2>1. Left(Stepped(f, <<>>)) = Members(f.keep) \union Members(<<>>) \union later
    BY <1>2a DEF later
  <2>2. Left(f) = Members(f.keep) \union {i} \union later
    BY <1>2b DEF i, later
  <2> QED BY <2>1, <2>2, <1>1
<1>3. i \notin later
  BY AroundItem, BeforeDiffers, <1>1
<1>4. i \notin Members(f.keep)
  <2>1. f.at \in f.at .. Len(f.items)
    BY <1>1 DEF Flushes
  <2>2. \A m \in 1 .. Len(f.keep) : f.keep[m] # i
    BY <1>1, <2>1, AroundItem, BeforeDiffers
  <2> QED BY <2>2 DEF Members
<1> HIDE DEF i, later
<1>5. Left(Stepped(f, <<>>)) = Left(f) \ {i} /\ i \in Left(f)
  BY <1>2, <1>3, <1>4
<1> QED BY <1>5 DEF i

LEMMA StoppedFacts ==
    ASSUME NEW r, NEW f \in Flushes, f.pc = "send", FlushOrdered(r, f)
    PROVE  /\ Stopped(f) \in Flushes /\ Stopped(f).pc = "save"
           /\ FlushOrdered(r, Stopped(f)) /\ Left(Stopped(f)) = Left(f)
<1> DEFINE g == Stopped(f)
<1>1. f.at \in 1 .. Len(f.items) /\ f.keep \in Seq(Action) /\ Ordered(r, f.items)
      /\ Ordered(r, f.keep) /\ AllBefore(r, f.keep, Rest(f)) /\ Rest(f) = From(f.items, f.at)
  BY DEF FlushOrdered, Flushes, Rest
<1>2. Rest(f) \in Seq(Action)
  BY <1>1, RestFacts
<1>3. g \in Flushes /\ g.pc = "save" /\ g.keep = f.keep \o Rest(f) /\ g.items = f.items
  <2> DEFINE k == f.keep \o Rest(f)
  <2>1. k \in Seq(Action)
    BY <1>1, <1>2
  <2>2. g = [f EXCEPT !.keep = k, !.pc = "save"]
    BY <1>1 DEF Stopped
  <2> HIDE DEF k, g
  <2>3. g \in Flushes /\ g.pc = "save" /\ g.keep = k /\ g.items = f.items
    BY <2>1, <2>2 DEF Flushes
  <2> QED BY <2>3 DEF k
<1> HIDE DEF g
<1>4. Ordered(r, Rest(f))
  <2>1. \A n \in 1 .. Len(Rest(f)) :
            Rest(f)[n] = f.items[f.at + n - 1] /\ f.at + n - 1 \in 1 .. Len(f.items)
    BY <1>1, RestFacts
  <2>2. \A n \in 1 .. Len(Rest(f)) : Rest(f)[n] \in Members(r)
    BY <1>1, <2>1 DEF Ordered
  <2>3. ASSUME NEW m \in 1 .. Len(Rest(f)), NEW n \in 1 .. Len(Rest(f)), m < n
        PROVE  Before(r, Rest(f)[m], Rest(f)[n])
    <3>1. f.at + m - 1 < f.at + n - 1
      BY <1>1, <2>3
    <3> QED BY <1>1, <2>1, <3>1 DEF Ordered
  <2> QED BY <2>2, <2>3 DEF Ordered
<1>5. Ordered(r, g.keep)
  BY <1>1, <1>2, <1>3, <1>4, OrderedConcat
<1>6. Left(g) = Left(f)
  <2>1. Members(g.keep) = Members(f.keep) \union Members(Rest(f))
    BY <1>1, <1>2, <1>3, MembersConcat
  <2> QED BY <1>3, <2>1, EmptyFacts DEF Left, Rest
<1> QED BY <1>1, <1>3, <1>5, <1>6 DEF FlushOrdered, g

LEMMA LeftIn ==
    ASSUME NEW r, NEW f \in Flushes, FlushOrdered(r, f), f.pc # "off"
    PROVE  Left(f) \subseteq Action
<1>1. Members(f.keep) \subseteq Action
  BY MembersIn DEF Flushes
<1>2. Members(Rest(f)) \subseteq Action
  <2>1. CASE f.pc = "send"
    <3>1. Rest(f) \in Seq(Action)
      BY <2>1, RestFacts DEF FlushOrdered
    <3> QED BY <3>1, MembersIn
  <2>2. CASE f.pc # "send"
    BY <2>2, EmptyFacts DEF Rest
  <2> QED BY <2>1, <2>2
<1> QED BY <1>1, <1>2 DEF Left

-----------------------------------------------------------------------------
(* The browser's actions: submitting, enqueuing, leaving the page.           *)

\* The user's action gets to another stage, and its copy of the queue is let go.
LEMMA NewStage ==
    ASSUME NEW e \in Acts, NEW to \in Stage
    PROVE  [e EXCEPT !.stage = to, !.copy = <<>>] \in Acts
           /\ [e EXCEPT !.stage = to, !.copy = <<>>].stage = to
<1>1. <<>> \in Seq(Action)
  OBVIOUS
<1> QED BY <1>1 DEF Acts

LEMMA QueueStart == Init => QueueInv
<1> SUFFICES ASSUME Init PROVE QueueInv
  OBVIOUS
<1>1. /\ slot = [key |-> 1, items |-> <<>>]
      /\ flush = [t \in Tabs |-> Quiet] /\ reads = <<>>
      /\ applied = [a \in Action |-> 0] /\ disturbed = FALSE /\ again = FALSE
      /\ act \in [Action -> Acts] /\ \A a \in Action : act[a].stage = "new"
  BY DEF Init, Acts, Stage, Request, Kind, Fate, NoSession
<1>2. Quiet \in Flushes /\ Quiet.pc = "off"
  BY DEF Quiet, Flushes
<1>3. Types
  <2>1. <<>> \in Seq(Action)
    OBVIOUS
  <2>5. disturbed \in BOOLEAN /\ again \in BOOLEAN
    BY DEF Init
  <2>2. slot \in [key : Nat, items : Seq(Action)] /\ reads \in Seq(Action)
    BY <1>1, <2>1
  <2>3. flush \in [Tabs -> Flushes] /\ applied \in [Action -> 0 .. 2]
    BY <1>1, <1>2
  <2>4. \A a \in Action : act[a].stage \notin {"sending", "enqueuing"}
    BY <1>1
  <2> QED BY <1>1, <2>2, <2>3, <2>4, <2>5 DEF Types
<1>4. BrowserTypes
  BY DEF BrowserTypes, Init
<1>5. Flushing = {} /\ Enqueuing = {} /\ slot.items = <<>>
  BY <1>1, <1>2 DEF Flushing, Enqueuing
<1>6. OrderInv
  BY <1>1, <1>2, EmptyFacts DEF OrderInv, Distinct, FlushOrdered
<1>7. KeepInv
  BY <1>1, <1>5 DEF KeepInv, Queued
<1>8. OnceInv
  BY <1>1, <1>5, EmptyFacts DEF OnceInv
<1> QED BY <1>3, <1>4, <1>6, <1>7, <1>8 DEF QueueInv

\* The queue is read, or lost.  When nothing disturbs it, nobody else uses it.
LEMMA ReadFacts ==
    ASSUME Types, OrderInv, NEW t \in Tabs, Read(t)
    PROVE  /\ slot' \in [key : Nat, items : Seq(Action)] /\ slot'.items = Load(t)
           /\ Load(t) \in Seq(Action) /\ Ordered(reads, Load(t)) /\ disturbed' \in BOOLEAN
           /\ ~disturbed' => ~disturbed /\ slot' = slot /\ Enqueuing = {} /\ Flushing = {}
<1>1. slot \in [key : Nat, items : Seq(Action)] /\ <<>> \in Seq(Action)
      /\ disturbed \in BOOLEAN /\ Ordered(reads, slot.items)
  BY DEF Types, OrderInv
<1>2. CASE Readable(t)
  BY <1>1, <1>2 DEF Read, Load
<1>3. CASE ~Readable(t)
  <2>1. slot' = [slot EXCEPT !.items = <<>>] /\ Load(t) = <<>> /\ disturbed' = TRUE
    BY <1>3 DEF Read, Load
  <2> QED BY <1>1, <2>1, EmptyFacts
<1> QED BY <1>2, <1>3

LEMMA EnqueueHolds ==
    ASSUME Types, OrderInv, KeepInv, OnceInv,
           NEW a \in Action, NEW t \in Tabs, NEW k \in Request, NEW c \in Nat,
           act[a].stage \in {"new", "sending"}, Enqueue(a, t, k, c), UNCHANGED flush,
           applied' \in [Action -> 0 .. 2], again' \in BOOLEAN,
           ~again' => ~again /\ applied' = applied
    PROVE  Types' /\ OrderInv' /\ KeepInv' /\ OnceInv'
<1>1. /\ slot' \in [key : Nat, items : Seq(Action)] /\ slot'.items = Load(t)
      /\ Load(t) \in Seq(Action) /\ Ordered(reads, Load(t)) /\ disturbed' \in BOOLEAN
      /\ ~disturbed' => ~disturbed /\ slot' = slot /\ Enqueuing = {} /\ Flushing = {}
  BY ReadFacts DEF Enqueue
<1>2. /\ act' \in [Action -> Acts] /\ act'[a].stage = "enqueuing" /\ act'[a].copy = Load(t)
      /\ act'[a].tab = t /\ \A b \in Action \ {a} : act'[b] = act[b]
  BY <1>1 DEF Enqueue, Types, Acts, Stage
<1>3. reads' = Append(reads, a) /\ reads \in Seq(Action) /\ reads' \in Seq(Action)
  BY DEF Enqueue, Types
<1>4. a \notin Members(reads) /\ Distinct(reads)
  BY DEF OrderInv
<1>5. Members(reads') = Members(reads) \union {a}
  BY <1>3, MembersAppend
<1>6. Types'
  BY <1>1, <1>2, <1>3 DEF Types
<1>7. OrderInv'
  <2>1. Distinct(reads')
    BY <1>3, <1>4, DistinctAppend
  <2>2. Ordered(reads', Load(t))
    BY <1>1, <1>3, OrderedOn
  <2>3. ASSUME NEW b \in Action, act'[b].stage \in {"new", "sending"} PROVE b \notin Members(reads')
    BY <1>2, <1>5, <2>3 DEF OrderInv
  <2>4. ASSUME NEW b \in Action, act'[b].stage = "enqueuing"
        PROVE  /\ b \in Members(reads') /\ Ordered(reads', act'[b].copy)
               /\ \A n \in 1 .. Len(act'[b].copy) : Before(reads', act'[b].copy[n], b)
    <3>1. CASE b = a
      <4>1. \A n \in 1 .. Len(Load(t)) : Load(t)[n] \in Members(reads)
        BY <1>1 DEF Ordered
      <4>2. \A n \in 1 .. Len(Load(t)) : Before(reads', Load(t)[n], a)
        BY <1>3, <4>1, LastRead
      <4> QED BY <1>2, <1>5, <2>2, <3>1, <4>2
    <3>2. CASE b # a
      <4>1. /\ act'[b] = act[b] /\ b \in Members(reads) /\ Ordered(reads, act[b].copy)
            /\ \A n \in 1 .. Len(act[b].copy) : Before(reads, act[b].copy[n], b)
        BY <1>2, <2>4, <3>2 DEF OrderInv
      <4>2. Ordered(reads', act[b].copy)
        BY <1>3, <4>1, OrderedOn
      <4>3. \A n \in 1 .. Len(act[b].copy) : Before(reads', act[b].copy[n], b)
        BY <1>3, <4>1, BeforeOn
      <4> QED BY <1>5, <4>1, <4>2, <4>3
    <3> QED BY <3>1, <3>2
  <2>5. ASSUME NEW u \in Tabs PROVE FlushOrdered(reads', flush[u])
    <3>1. FlushOrdered(reads, flush[u])
      BY DEF OrderInv
    <3>2. \A q : Ordered(reads, q) => Ordered(reads', q)
      BY <1>3, OrderedOn
    <3>3. \A x, y : Before(reads, x, y) => Before(reads', x, y)
      BY <1>3, BeforeOn
    <3> QED BY <3>1, <3>2, <3>3 DEF FlushOrdered, AllBefore
  <2> QED BY <1>1, <2>1, <2>2, <2>3, <2>4, <2>5 DEF OrderInv
<1>8. ASSUME ~disturbed' PROVE Enqueuing' = {a} /\ Flushing' = {}
  BY <1>1, <1>2, <1>8 DEF Enqueuing, Flushing
<1>9. KeepInv'
  <2> SUFFICES ASSUME ~disturbed' PROVE KeepInv'
    BY DEF KeepInv
  <2>1. act'[a].copy = slot'.items
    BY <1>1, <1>2
  <2>2. ASSUME NEW b \in Action, Queued(b)' PROVE b \in Members(slot'.items)
    <3>1. Queued(b)
      BY <1>2, <2>2 DEF Queued
    <3> QED BY <1>1, <3>1 DEF KeepInv
  <2> QED BY <1>8, <2>1, <2>2 DEF KeepInv
<1>10. OnceInv'
  <2> SUFFICES ASSUME ~disturbed', ~again' PROVE OnceInv'
    BY DEF OnceInv
  <2>1. ~disturbed /\ ~again /\ applied' = applied /\ Flushing = {} /\ slot' = slot
    BY <1>1
  <2>2. ASSUME NEW b \in Action
        PROVE  /\ applied'[b] < 2
               /\ act'[b].stage \in {"new", "sending", "enqueuing", "queued"} => applied'[b] = 0
    BY <1>2, <2>1 DEF OnceInv
  <2>3. ASSUME NEW b \in Members(slot'.items) PROVE Queued(b)'
    <3>1. Queued(b) /\ b \in Action
      BY <1>1, <2>1, MembersIn DEF OnceInv
    <3> QED BY <1>2, <3>1 DEF Queued
  <2> QED BY <1>8, <2>2, <2>3 DEF OnceInv
<1> QED BY <1>6, <1>7, <1>9, <1>10

\* An action that is new or being sent is dealt with, and touches no queue.
LEMMA SentHolds ==
    ASSUME Types, OrderInv, KeepInv, OnceInv, NEW a \in Action, NEW e \in Acts,
           act[a].stage \in {"new", "sending"}, e.stage \in {"sending", "done", "refused"},
           e.stage = "sending" => e.tab \in Tabs, act' = [act EXCEPT ![a] = e],
           UNCHANGED <<slot, flush, reads, disturbed, again>>, applied' \in [Action -> 0 .. 2],
           \A b \in Action \ {a} : applied'[b] = applied[b],
           applied[a] = 0 => applied'[a] < 2, e.stage = "sending" => applied' = applied
    PROVE  Types' /\ OrderInv' /\ KeepInv' /\ OnceInv'
<1>1. act' \in [Action -> Acts] /\ act'[a] = e /\ \A b \in Action \ {a} : act'[b] = act[b]
  BY DEF Types
<1>2. Types'
  BY <1>1 DEF Types
<1>3. OrderInv'
  BY <1>1 DEF OrderInv
<1>4. Enqueuing' = Enqueuing /\ Flushing' = Flushing /\ (\A b \in Action : Queued(b)' <=> Queued(b))
  BY <1>1 DEF Enqueuing, Flushing, Queued
<1>5. KeepInv'
  <2>1. \A b \in Enqueuing : act'[b] = act[b]
    BY <1>1 DEF Enqueuing
  <2> QED BY <1>4, <2>1 DEF KeepInv
<1>6. OnceInv'
  <2> SUFFICES ASSUME ~disturbed, ~again PROVE OnceInv'
    BY DEF OnceInv
  <2>1. ASSUME NEW b \in Action
        PROVE  /\ applied'[b] < 2
               /\ act'[b].stage \in {"new", "sending", "enqueuing", "queued"} => applied'[b] = 0
    BY <1>1 DEF OnceInv
  <2>2. \A b : b \in Members(slot.items) => b \in Action
    BY MembersIn DEF Types
  <2>3. ASSUME NEW t \in Flushing PROVE \A b \in Left(flush[t]) : Queued(b)'
    <3>1. \A b \in Left(flush[t]) : Queued(b)
      BY <2>3 DEF OnceInv
    <3>2. \A b : Queued(b) => b # a
      BY DEF Queued
    <3>3. Left(flush[t]) \subseteq Action
      BY <2>3, LeftIn DEF Flushing, Types, OrderInv
    <3> QED BY <1>4, <3>1, <3>3
  <2> QED BY <1>4, <2>1, <2>2, <2>3 DEF OnceInv
<1> QED BY <1>2, <1>3, <1>5, <1>6

\* The action is in the queue, behind all that its copy had.
LEMMA EnqueueSavesHolds ==
    ASSUME Types, BrowserTypes, OrderInv, KeepInv, OnceInv, NEW a \in Action, EnqueueSaves(a)
    PROVE  Types' /\ OrderInv' /\ KeepInv' /\ OnceInv'
<1> DEFINE q == act[a].copy
<1>1. /\ act[a].stage = "enqueuing" /\ act[a].tab \in Tabs /\ act[a].copy \in Seq(Action)
      /\ flush' = flush /\ applied' = applied /\ reads' = reads
      /\ disturbed' = disturbed /\ again' = again
  BY DEF EnqueueSaves, Types, Acts
<1>2. /\ act' \in [Action -> Acts] /\ act'[a].stage = "queued"
      /\ \A b \in Action \ {a} : act'[b] = act[b]
  <2>1. act' = [act EXCEPT ![a] = [act[a] EXCEPT !.stage = "queued", !.copy = <<>>]]
    BY DEF EnqueueSaves, Types
  <2>2. [act[a] EXCEPT !.stage = "queued", !.copy = <<>>] \in Acts
        /\ [act[a] EXCEPT !.stage = "queued", !.copy = <<>>].stage = "queued"
    <3>1. act[a] \in Acts /\ "queued" \in Stage
      BY DEF Types, Stage
    <3> QED BY <3>1, NewStage
  <2> QED BY <2>1, <2>2 DEF Types
<1>3. slot' \in [key : Nat, items : Seq(Action)] /\ slot'.items = Append(q, a)
  BY <1>1 DEF EnqueueSaves, Save, BrowserTypes
<1>4. Members(slot'.items) = Members(q) \union {a}
  BY <1>1, <1>3, MembersAppend
<1> HIDE DEF q
<1>5. Types'
  BY <1>1, <1>2, <1>3 DEF Types
<1>6. OrderInv'
  <2>1. a \in Members(reads) /\ Ordered(reads, q) /\ \A n \in 1 .. Len(q) : Before(reads, q[n], a)
    BY <1>1 DEF OrderInv, q
  <2>2. q \in Seq(Action)
    BY <1>1 DEF q
  <2>3. /\ Len(Append(q, a)) = Len(q) + 1 /\ Len(q) \in Nat /\ Append(q, a)[Len(q) + 1] = a
        /\ \A n \in 1 .. Len(q) : Append(q, a)[n] = q[n]
    BY <2>2
  <2>4. Ordered(reads, Append(q, a))
    BY <2>1, <2>3 DEF Ordered
  <2> QED BY <1>1, <1>2, <1>3, <2>4 DEF OrderInv
<1>7. ASSUME ~disturbed
      PROVE  Enqueuing' = {} /\ Flushing = {} /\ Flushing' = {} /\ q = slot.items
  <2>1. a \in Enqueuing
    BY <1>1 DEF Enqueuing
  <2>2. Enqueuing = {a} /\ Flushing = {} /\ q = slot.items
    BY <1>7, <2>1 DEF KeepInv, q
  <2> QED BY <1>1, <1>2, <2>2 DEF Enqueuing, Flushing
<1>8. KeepInv'
  <2> SUFFICES ASSUME ~disturbed PROVE KeepInv'
    BY <1>1 DEF KeepInv
  <2>1. ASSUME NEW b \in Action, Queued(b)' PROVE b \in Members(slot'.items)
    <3>1. b = a \/ Queued(b)
      BY <1>2, <2>1 DEF Queued
    <3>2. Queued(b) => b \in Members(slot.items)
      BY DEF KeepInv
    <3> QED BY <1>4, <1>7, <3>1, <3>2
  <2> QED BY <1>7, <2>1 DEF KeepInv
<1>9. OnceInv'
  <2> SUFFICES ASSUME ~disturbed, ~again PROVE OnceInv'
    BY <1>1 DEF OnceInv
  <2>1. ASSUME NEW b \in Action
        PROVE  /\ applied'[b] < 2
               /\ act'[b].stage \in {"new", "sending", "enqueuing", "queued"} => applied'[b] = 0
    BY <1>1, <1>2 DEF OnceInv
  <2>2. ASSUME NEW b \in Members(slot'.items) PROVE Queued(b)'
    <3>1. b \in Action
      BY <1>3, <2>2, MembersIn
    <3>2. b = a \/ Queued(b)
      BY <1>4, <1>7, <2>2 DEF OnceInv
    <3> QED BY <1>2, <3>1, <3>2 DEF Queued
  <2> QED BY <1>7, <2>1, <2>2 DEF OnceInv
<1> QED BY <1>5, <1>6, <1>8, <1>9

\* A page goes: its copies of the queue go with it, and nothing is in the queue again.
LEMMA LeavesHolds ==
    ASSUME Types, OrderInv, KeepInv, OnceInv, NEW t \in Tabs, Leaves(t),
           UNCHANGED <<slot, reads, disturbed>>
    PROVE  Types' /\ OrderInv' /\ KeepInv' /\ OnceInv'
<1> DEFINE Gone(a) == act[a].tab = t /\ act[a].stage \in {"sending", "enqueuing"}
<1>1. PICK late \in SUBSET {a \in Action : act[a].stage = "sending" /\ act[a].tab = t /\ Valid(a)} :
          Apply(late)
  BY DEF Leaves
<1>2. /\ applied' \in [Action -> 0 .. 2]
      /\ \A a \in Action : applied'[a] = applied[a]
                              \/ (a \in late /\ applied'[a] = applied[a] + 1)
  BY <1>1 DEF Apply, Types
<1>3. /\ act' \in [Action -> Acts]
      /\ \A a \in Action : IF Gone(a) THEN act'[a].stage = "dropped" ELSE act'[a] = act[a]
  <2>1. \A a \in Action : act'[a] = IF Gone(a) THEN [act[a] EXCEPT !.stage = "dropped", !.copy = <<>>]
                                              ELSE act[a]
    BY DEF Leaves
  <2>2. \A a \in Action : /\ act[a] \in Acts
                          /\ [act[a] EXCEPT !.stage = "dropped", !.copy = <<>>] \in Acts
                          /\ [act[a] EXCEPT !.stage = "dropped", !.copy = <<>>].stage = "dropped"
    <3>1. (\A a \in Action : act[a] \in Acts) /\ "dropped" \in Stage
      BY DEF Types, Stage
    <3> QED BY <3>1, NewStage
  <2>3. act' = [a \in Action |-> act'[a]]
    BY DEF Leaves
  <2> QED BY <2>1, <2>2, <2>3
<1>4. /\ flush' \in [Tabs -> Flushes] /\ flush'[t].pc = "off"
      /\ \A u \in Tabs \ {t} : flush'[u] = flush[u]
  <2>1. Quiet \in Flushes /\ Quiet.pc = "off"
    BY DEF Quiet, Flushes
  <2> QED BY <2>1 DEF Leaves, Types
<1>5. again' = (again \/ flush[t].pc # "off") /\ again \in BOOLEAN
  BY DEF Leaves, Types
<1>6. Types'
  BY <1>2, <1>3, <1>4, <1>5 DEF Types
<1>7. OrderInv'
  BY <1>3, <1>4 DEF OrderInv, FlushOrdered
<1>8. /\ Enqueuing' \subseteq Enqueuing /\ Flushing' \subseteq Flushing
      /\ \A b \in Enqueuing' : act'[b] = act[b]
      /\ \A u \in Flushing' : flush'[u] = flush[u]
      /\ \A b \in Action : Queued(b)' <=> Queued(b)
  BY <1>3, <1>4 DEF Enqueuing, Flushing, Queued
<1>9. KeepInv'
  BY <1>8 DEF KeepInv
<1>10. OnceInv'
  <2> SUFFICES ASSUME ~disturbed, ~again, flush[t].pc = "off" PROVE OnceInv'
    BY <1>5 DEF OnceInv
  <2>1. ASSUME NEW b \in Action
        PROVE  /\ applied'[b] < 2
               /\ act'[b].stage \in {"new", "sending", "enqueuing", "queued"} => applied'[b] = 0
    <3>1. CASE b \in late
      <4>1. act[b].stage = "sending" /\ Gone(b) /\ applied[b] = 0
        BY <1>1, <3>1 DEF OnceInv
      <4> QED BY <1>2, <1>3, <4>1
    <3>2. CASE b \notin late
      BY <1>2, <1>3, <3>2 DEF OnceInv
    <3> QED BY <3>1, <3>2
  <2>2. Flushing' = Flushing
    BY <1>4, <1>8 DEF Flushing
  <2>3. \A b : b \in Members(slot.items) => b \in Action
    BY MembersIn DEF Types
  <2>4. ASSUME NEW u \in Flushing PROVE Left(flush[u]) \subseteq Action
    BY LeftIn DEF Flushing, Types, OrderInv
  <2> QED BY <1>8, <2>1, <2>2, <2>3, <2>4 DEF OnceInv
<1> QED BY <1>6, <1>7, <1>9, <1>10

-----------------------------------------------------------------------------
(* The flush.                                                                *)

LEMMA FlushReadsHolds ==
    ASSUME Types, OrderInv, KeepInv, OnceInv, NEW t \in Tabs, FlushReads(t)
    PROVE  Types' /\ OrderInv' /\ KeepInv' /\ OnceInv'
<1> DEFINE f == [Quiet EXCEPT !.pc = "send", !.items = Load(t)]
<1>1. /\ slot' \in [key : Nat, items : Seq(Action)] /\ slot'.items = Load(t)
      /\ Load(t) \in Seq(Action) /\ Ordered(reads, Load(t)) /\ disturbed' \in BOOLEAN
      /\ ~disturbed' => ~disturbed /\ slot' = slot /\ Enqueuing = {} /\ Flushing = {}
  BY ReadFacts DEF FlushReads
<1>2. act' = act /\ applied' = applied /\ reads' = reads /\ again' = again
  BY DEF FlushReads
<1>3. flush' = IF Load(t) = <<>> THEN flush ELSE [flush EXCEPT ![t] = f]
  BY DEF FlushReads
<1>4. /\ f \in Flushes /\ f.pc = "send" /\ f.items = Load(t) /\ f.at = 1 /\ f.keep = <<>>
  <2>1. Quiet \in Flushes /\ Quiet.at = 1 /\ Quiet.keep = <<>>
    BY DEF Quiet, Flushes
  <2> QED BY <1>1, <2>1 DEF Flushes
<1> HIDE DEF f
<1>5. Load(t) # <<>> => f.at \in 1 .. Len(f.items)
  BY <1>1, <1>4
<1>6. Load(t) # <<>> => FlushOrdered(reads, f)
  BY <1>1, <1>4, <1>5, EmptyFacts DEF FlushOrdered, AllBefore
<1>7. Load(t) # <<>> => Left(f) = Members(Load(t))
  <2> SUFFICES ASSUME Load(t) # <<>> PROVE Left(f) = Members(Load(t))
    OBVIOUS
  <2>1. Members(Rest(f)) = {f.items[i] : i \in f.at .. Len(f.items)}
    BY <1>4, <1>5, RestFacts
  <2>2. Members(Rest(f)) = Members(Load(t))
    BY <1>4, <2>1 DEF Members
  <2> QED BY <1>4, <2>2, EmptyFacts DEF Left
<1>8. flush' \in [Tabs -> Flushes]
  BY <1>3, <1>4 DEF Types
<1>9. Types'
  BY <1>1, <1>2, <1>8 DEF Types
<1>10. OrderInv'
  <2>1. ASSUME NEW u \in Tabs PROVE FlushOrdered(reads, flush'[u])
    BY <1>3, <1>6 DEF OrderInv, Types
  <2> QED BY <1>1, <1>2, <2>1 DEF OrderInv
<1>11. ASSUME ~disturbed'
       PROVE  /\ ~disturbed /\ Enqueuing' = {} /\ slot' = slot /\ Flushing = {}
              /\ Load(t) = slot.items
              /\ Load(t) = <<>> => Flushing' = {}
              /\ Load(t) # <<>> => Flushing' = {t} /\ Left(flush'[t]) = Members(slot.items)
  <2>1. ~disturbed /\ Enqueuing' = {} /\ slot' = slot /\ Flushing = {} /\ Load(t) = slot.items
    BY <1>1, <1>2, <1>11 DEF Enqueuing
  <2>2. CASE Load(t) = <<>>
    <3>1. flush' = flush
      BY <1>3, <2>2
    <3> QED BY <2>1, <2>2, <3>1 DEF Flushing
  <2>3. CASE Load(t) # <<>>
    <3>1. flush'[t] = f /\ \A u \in Tabs \ {t} : flush'[u] = flush[u]
      BY <1>3, <2>3 DEF Types
    <3>2. Flushing' = {t}
      BY <1>4, <2>1, <3>1 DEF Flushing
    <3> QED BY <1>7, <2>1, <2>3, <3>1, <3>2
  <2> QED BY <2>2, <2>3
<1>12. KeepInv'
  <2> SUFFICES ASSUME ~disturbed' PROVE KeepInv'
    BY DEF KeepInv
  <2>1. \A b \in Action : Queued(b)' => b \in Members(slot.items)
    BY <1>2, <1>11 DEF KeepInv, Queued
  <2> QED BY <1>11, <2>1 DEF KeepInv
<1>13. OnceInv'
  <2> SUFFICES ASSUME ~disturbed', ~again PROVE OnceInv'
    BY <1>2 DEF OnceInv
  <2>1. \A b \in Members(slot.items) : Queued(b)'
    BY <1>2, <1>11 DEF OnceInv, Queued
  <2>2. \A b \in Action :
            /\ applied'[b] < 2
            /\ act'[b].stage \in {"new", "sending", "enqueuing", "queued"} => applied'[b] = 0
    BY <1>2, <1>11 DEF OnceInv
  <2> QED BY <1>11, <2>1, <2>2 DEF OnceInv
<1> QED BY <1>9, <1>10, <1>12, <1>13

\* A flush goes on, or stops, with all that it had left.
LEMMA FlushMoves ==
    ASSUME Types, OrderInv, KeepInv, OnceInv, NEW t \in Tabs, NEW g \in Flushes,
           flush[t].pc = "send", g.pc \in {"send", "save"}, FlushOrdered(reads, g),
           Left(g) = Left(flush[t]), flush' = [flush EXCEPT ![t] = g],
           UNCHANGED <<slot, act, reads, disturbed>>,
           applied' \in [Action -> 0 .. 2], again' \in BOOLEAN,
           ~again' => ~again /\ applied' = applied
    PROVE  Types' /\ OrderInv' /\ KeepInv' /\ OnceInv'
<1>1. flush' \in [Tabs -> Flushes] /\ flush'[t] = g /\ \A u \in Tabs \ {t} : flush'[u] = flush[u]
  BY DEF Types
<1>2. Enqueuing' = Enqueuing /\ Flushing' = Flushing /\ \A u \in Flushing : Left(flush'[u]) = Left(flush[u])
  BY <1>1 DEF Enqueuing, Flushing
<1>3. Types'
  BY <1>1 DEF Types
<1>4. OrderInv'
  BY <1>1 DEF OrderInv
<1>5. KeepInv'
  BY <1>2 DEF KeepInv, Queued
<1>6. OnceInv'
  BY <1>2 DEF OnceInv, Queued
<1> QED BY <1>3, <1>4, <1>5, <1>6

LEMMA StepOnIs ==
    ASSUME Types, NEW t \in Tabs, NEW kept, StepOn(t, kept)
    PROVE  flush' = [flush EXCEPT ![t] = Stepped(flush[t], kept)]
BY DEF Types, StepOn, Stepped

LEMMA StopHereIs ==
    ASSUME Types, NEW t \in Tabs, StopHere(t)
    PROVE  flush' = [flush EXCEPT ![t] = Stopped(flush[t])]
BY DEF Types, StopHere, Stopped

\* What a sending flush is made of.
LEMMA SendingFacts ==
    ASSUME Types, OrderInv, NEW t \in Tabs, flush[t].pc = "send"
    PROVE  /\ flush[t] \in Flushes /\ FlushOrdered(reads, flush[t])
           /\ flush[t].at \in 1 .. Len(flush[t].items) /\ Item(t) = flush[t].items[flush[t].at]
           /\ Item(t) \in Action
<1>1. flush[t] \in Flushes /\ FlushOrdered(reads, flush[t])
  BY DEF Types, OrderInv
<1>2. flush[t].at \in 1 .. Len(flush[t].items)
  BY <1>1 DEF FlushOrdered
<1> QED BY <1>1, <1>2, RestFacts DEF Item

LEMMA StopHereHolds ==
    ASSUME Types, OrderInv, KeepInv, OnceInv, NEW t \in Tabs, flush[t].pc = "send", StopHere(t),
           UNCHANGED <<slot, act, reads, disturbed>>,
           applied' \in [Action -> 0 .. 2], again' \in BOOLEAN,
           ~again' => ~again /\ applied' = applied
    PROVE  Types' /\ OrderInv' /\ KeepInv' /\ OnceInv'
<1> DEFINE g == Stopped(flush[t])
<1>1. g \in Flushes /\ g.pc = "save" /\ FlushOrdered(reads, g) /\ Left(g) = Left(flush[t])
  BY SendingFacts, StoppedFacts
<1>2. flush' = [flush EXCEPT ![t] = g]
  BY StopHereIs
<1> HIDE DEF g
<1> QED BY <1>1, <1>2, FlushMoves

LEMMA ItemKeptHolds ==
    ASSUME Types, OrderInv, KeepInv, OnceInv, NEW t \in Tabs, flush[t].pc = "send",
           StepOn(t, <<Item(t)>>), UNCHANGED <<slot, act, reads, disturbed, again, applied>>
    PROVE  Types' /\ OrderInv' /\ KeepInv' /\ OnceInv'
<1> DEFINE f == flush[t]
           kept == <<Item(t)>>
           g == Stepped(f, kept)
<1>1. f \in Flushes /\ FlushOrdered(reads, f) /\ f.at \in 1 .. Len(f.items)
      /\ Item(t) = f.items[f.at] /\ Item(t) \in Action
  BY SendingFacts
<1>2. kept \in Seq(Action) /\ kept = <<f.items[f.at]>> /\ Members(kept) = {f.items[f.at]}
  BY <1>1 DEF Members
<1>3. flush' = [flush EXCEPT ![t] = g]
  BY StepOnIs
<1> HIDE DEF kept
<1>4. g \in Flushes /\ g.pc \in {"send", "save"}
  BY <1>1, <1>2, NextFacts
<1>5. FlushOrdered(reads, g)
  BY <1>1, <1>2, NextOrdered
<1>6. Left(g) = Left(f)
  <2> DEFINE later == {f.items[n] : n \in f.at + 1 .. Len(f.items)}
  <2> HIDE DEF f
  <2>1. f.pc = "send"
    BY DEF f
  <2>2. Left(Stepped(f, kept)) = Members(f.keep) \union Members(kept) \union later
    BY <1>1, <1>2, <2>1, NextLeft
  <2>3. Left(f) = Members(f.keep) \union {f.items[f.at]} \union later
    BY <1>1, <1>2, <2>1, NextLeft
  <2> QED BY <2>2, <2>3, <1>2
<1> HIDE DEF g
<1>7. again \in BOOLEAN /\ applied \in [Action -> 0 .. 2]
  BY DEF Types
<1> QED BY <1>3, <1>4, <1>5, <1>6, <1>7, FlushMoves

\* The server accepts, fails on or denies a request.
LEMMA AppliedFacts ==
    ASSUME Types, NEW a \in Action, Apply({a})
    PROVE  /\ applied' \in [Action -> 0 .. 2] /\ \A b \in Action \ {a} : applied'[b] = applied[b]
           /\ applied[a] = 0 => applied'[a] < 2
BY DEF Types, Apply

LEMMA AcceptFacts ==
    ASSUME Types, NEW a \in Action, ServerAccepts(a)
    PROVE  /\ applied' \in [Action -> 0 .. 2] /\ \A b \in Action \ {a} : applied'[b] = applied[b]
           /\ applied[a] = 0 => applied'[a] < 2
<1>1. CASE Apply({a})
  BY <1>1, AppliedFacts
<1>2. CASE UNCHANGED applied
  BY <1>2 DEF Types
<1> QED BY <1>1, <1>2 DEF ServerAccepts, ServerApplies, ServerRedirects, Refuses

\* The item is dropped, and no copy of it is left.
LEMMA FlushAcceptedHolds ==
    ASSUME Types, OrderInv, KeepInv, OnceInv, NEW t \in Tabs, FlushAccepted(t)
    PROVE  Types' /\ OrderInv' /\ KeepInv' /\ OnceInv'
<1> DEFINE f == flush[t]
           g == Stepped(f, <<>>)
           i == Item(t)
<1>1. f.pc = "send" /\ ServerAccepts(i) /\ StepOn(t, <<>>)
      /\ slot' = slot /\ reads' = reads /\ disturbed' = disturbed /\ again' = again
  BY DEF FlushAccepted
<1>2. f \in Flushes /\ FlushOrdered(reads, f) /\ f.at \in 1 .. Len(f.items)
      /\ i = f.items[f.at] /\ i \in Action
  BY <1>1, SendingFacts
<1>3. flush' = [flush EXCEPT ![t] = g]
  BY <1>1, StepOnIs
<1>4. <<>> \in Seq(Action) /\ Members(<<>>) = {} /\ f.keep \in Seq(Action)
      /\ Len(f.items) \in Nat /\ reads \in Seq(Action) /\ Len(reads) \in Nat
  BY <1>2, EmptyFacts DEF Flushes, Types
<1>5. /\ applied' \in [Action -> 0 .. 2] /\ \A b \in Action \ {i} : applied'[b] = applied[b]
      /\ applied[i] = 0 => applied'[i] < 2
  BY <1>1, <1>2, AcceptFacts
<1>6. act' \in [Action -> Acts] /\ act'[i].stage = "flushed" /\ \A b \in Action \ {i} : act'[b] = act[b]
  <2>1. act' = [act EXCEPT ![i] = [act[i] EXCEPT !.stage = "flushed"]]
    BY DEF FlushAccepted, Types
  <2>2. [act[i] EXCEPT !.stage = "flushed"] \in Acts /\ [act[i] EXCEPT !.stage = "flushed"].stage = "flushed"
    <3> DEFINE o == act[i]
               n == [o EXCEPT !.stage = "flushed"]
    <3>1. o \in Acts
      BY <1>2 DEF Types
    <3> HIDE DEF o
    <3>2. n \in Acts
      BY <3>1 DEF Acts, Stage
    <3>3. n.stage = "flushed"
      BY <3>1 DEF Acts
    <3> QED BY <3>2, <3>3 DEF o
  <2> QED BY <1>2, <2>1, <2>2 DEF Types
<1>7. g \in Flushes /\ g.pc \in {"send", "save"} /\ FlushOrdered(reads, g)
  BY <1>1, <1>2, <1>4, NextFacts, NextOrdered
<1>8. Left(g) = Left(f) \ {i} /\ i \in Left(f)
  BY <1>1, <1>2, <1>4, DroppedLeft DEF OrderInv
<1> HIDE DEF g, i
<1>9. flush' \in [Tabs -> Flushes] /\ flush'[t] = g /\ \A u \in Tabs \ {t} : flush'[u] = flush[u]
  BY <1>3, <1>7 DEF Types
<1>10. Types'
  BY <1>1, <1>5, <1>6, <1>9 DEF Types
<1>11. OrderInv'
  BY <1>1, <1>2, <1>6, <1>7, <1>9 DEF OrderInv
<1>12. /\ Enqueuing' \subseteq Enqueuing /\ Flushing' = Flushing /\ t \in Flushing
       /\ \A b \in Enqueuing' : act'[b] = act[b]
       /\ \A b \in Action : Queued(b)' <=> Queued(b) /\ b # i
  BY <1>1, <1>2, <1>6, <1>7, <1>9 DEF Enqueuing, Flushing, Queued
<1>13. ASSUME ~disturbed PROVE \A u \in Flushing : u = t
  BY <1>12, <1>13 DEF KeepInv
<1>14. KeepInv'
  <2> SUFFICES ASSUME ~disturbed PROVE KeepInv'
    BY <1>1 DEF KeepInv
  <2>1. ASSUME NEW b \in Action, Queued(b)'
        PROVE  b \in Members(slot.items) /\ b \in Left(flush'[t])
    <3>1. b \in Members(slot.items) /\ b \in Left(f) /\ b # i
      BY <1>12, <2>1 DEF KeepInv
    <3> QED BY <1>8, <1>9, <3>1
  <2> QED BY <1>1, <1>12, <1>13, <2>1 DEF KeepInv
<1>15. OnceInv'
  <2> SUFFICES ASSUME ~disturbed, ~again PROVE OnceInv'
    BY <1>1 DEF OnceInv
  <2>1. \A b \in Left(f) : Queued(b)
    BY <1>12 DEF OnceInv
  <2>2. Left(f) \subseteq Action
    BY <1>1, <1>2, LeftIn
  <2>3. applied[i] = 0
    BY <1>2, <1>8, <2>1 DEF OnceInv, Queued
  <2>4. ASSUME NEW b \in Action
        PROVE  /\ applied'[b] < 2
               /\ act'[b].stage \in {"new", "sending", "enqueuing", "queued"} => applied'[b] = 0
    <3>1. CASE b = i
      BY <1>5, <1>6, <2>3, <3>1
    <3>2. CASE b # i
      BY <1>5, <1>6, <3>2 DEF OnceInv
    <3> QED BY <3>1, <3>2
  <2>5. \A b \in Left(g) : Queued(b)'
    BY <1>8, <1>12, <2>1, <2>2
  <2> QED BY <1>9, <1>12, <1>13, <2>4, <2>5 DEF OnceInv
<1> QED BY <1>10, <1>11, <1>14, <1>15

LEMMA FlushRefusedHolds ==
    ASSUME Types, OrderInv, KeepInv, OnceInv, NEW t \in Tabs, FlushRefused(t)
    PROVE  Types' /\ OrderInv' /\ KeepInv' /\ OnceInv'
<1>1. flush[t].pc = "send" /\ UNCHANGED <<slot, act, reads, disturbed, again>> /\ UNCHANGED applied
      /\ (StepOn(t, <<Item(t)>>) \/ StopHere(t))
  BY DEF FlushRefused, ServerErrs, ServerDenies, Refuses
<1>2. again \in BOOLEAN /\ applied \in [Action -> 0 .. 2]
  BY DEF Types
<1> QED BY <1>1, <1>2, ItemKeptHolds, StopHereHolds

LEMMA FlushFailsHolds ==
    ASSUME Types, OrderInv, KeepInv, OnceInv, NEW t \in Tabs, FlushFails(t)
    PROVE  Types' /\ OrderInv' /\ KeepInv' /\ OnceInv'
<1>1. flush[t].pc = "send" /\ StopHere(t) /\ UNCHANGED <<slot, act, reads, disturbed>>
      /\ (UNCHANGED <<applied, again>> \/ (Apply({Item(t)}) /\ again' = TRUE))
  BY DEF FlushFails, ServerApplies
<1>2. again' \in BOOLEAN /\ applied' \in [Action -> 0 .. 2]
      /\ (~again' => ~again /\ applied' = applied)
  <2>1. CASE UNCHANGED <<applied, again>>
    BY <2>1 DEF Types
  <2>2. CASE Apply({Item(t)}) /\ again' = TRUE
    <3>1. again' \in BOOLEAN /\ again'
      BY <2>2, Zenon
    <3> QED BY <1>1, <2>2, <3>1, SendingFacts, AppliedFacts
  <2> QED BY <1>1, <2>1, <2>2
<1> QED BY <1>1, <1>2, StopHereHolds

\* The end of a flush: what it kept is the queue.
LEMMA FlushSavesHolds ==
    ASSUME Types, BrowserTypes, OrderInv, KeepInv, OnceInv, NEW t \in Tabs, FlushSaves(t)
    PROVE  Types' /\ OrderInv' /\ KeepInv' /\ OnceInv'
<1> DEFINE f == flush[t]
<1>1. f.pc = "save" /\ act' = act /\ applied' = applied /\ reads' = reads
      /\ disturbed' = disturbed /\ again' = again
  BY DEF FlushSaves
<1>2. f \in Flushes /\ f.keep \in Seq(Action) /\ Ordered(reads, f.keep)
  BY <1>1 DEF Types, Flushes, OrderInv, FlushOrdered
<1>3. slot' \in [key : Nat, items : Seq(Action)] /\ slot'.items = f.keep
  BY <1>2 DEF FlushSaves, Save, BrowserTypes
<1>4. /\ flush' \in [Tabs -> Flushes] /\ flush'[t].pc = "off"
      /\ \A u \in Tabs \ {t} : flush'[u] = flush[u]
  <2>1. Quiet \in Flushes /\ Quiet.pc = "off"
    BY DEF Quiet, Flushes
  <2> QED BY <2>1 DEF FlushSaves, Types
<1>5. Left(f) = Members(f.keep)
  BY <1>1, EmptyFacts DEF Left, Rest
<1>6. Types'
  BY <1>1, <1>3, <1>4 DEF Types
<1>7. OrderInv'
  BY <1>1, <1>2, <1>3, <1>4 DEF OrderInv, FlushOrdered
<1>8. ASSUME ~disturbed PROVE t \in Flushing /\ Enqueuing' = {} /\ Flushing' = {}
  <2>1. t \in Flushing
    BY <1>1 DEF Flushing
  <2>2. Enqueuing = {} /\ \A u \in Flushing : u = t
    BY <1>8, <2>1 DEF KeepInv
  <2> QED BY <1>1, <1>4, <2>1, <2>2 DEF Enqueuing, Flushing
<1>9. KeepInv'
  BY <1>1, <1>3, <1>5, <1>8 DEF KeepInv, Queued
<1>10. OnceInv'
  BY <1>1, <1>3, <1>5, <1>8 DEF OnceInv, Queued
<1> QED BY <1>6, <1>7, <1>9, <1>10

-----------------------------------------------------------------------------
(* All steps.                                                                *)

LEMMA SubmitHolds ==
    ASSUME Types, BrowserTypes, OrderInv, KeepInv, OnceInv,
           NEW a \in Action, NEW t \in Tabs, Submit(a, t)
    PROVE  Types' /\ OrderInv' /\ KeepInv' /\ OnceInv'
<1>1. PICK k \in Request : Sends(a, t, k) \/ Enqueue(a, t, k, csrf[t])
  BY RequestsAssumption DEF Submit
<1>2. /\ act[a].stage = "new" /\ csrf[t] \in Nat /\ UNCHANGED <<flush, applied, again>>
      /\ applied \in [Action -> 0 .. 2] /\ again \in BOOLEAN
  BY DEF Submit, BrowserTypes, Types
<1>3. CASE Sends(a, t, k)
  <2> DEFINE e == [stage |-> "sending", tab |-> t, request |-> k, csrf |-> csrf[t], copy |-> <<>>]
  <2>1. <<>> \in Seq(Action)
    OBVIOUS
  <2>2. e \in Acts /\ e.stage = "sending" /\ e.tab = t
    BY <1>2, <2>1 DEF Acts, Stage
  <2>3. act' = [act EXCEPT ![a] = e] /\ UNCHANGED <<slot, reads, disturbed>>
    BY <1>3 DEF Sends
  <2> HIDE DEF e
  <2>4. /\ UNCHANGED <<slot, flush, reads, disturbed, again>> /\ applied' = applied
        /\ applied' \in [Action -> 0 .. 2] /\ \A b \in Action \ {a} : applied'[b] = applied[b]
        /\ applied[a] = 0 => applied'[a] < 2
    BY <1>2, <2>3
  <2> QED BY <1>2, <2>2, <2>3, <2>4, SentHolds
<1>4. CASE Enqueue(a, t, k, csrf[t])
  BY <1>2, <1>4, EnqueueHolds
<1> QED BY <1>1, <1>3, <1>4

LEMMA AnsweredHolds ==
    ASSUME Types, OrderInv, KeepInv, OnceInv, NEW a \in Action, Answered(a)
    PROVE  Types' /\ OrderInv' /\ KeepInv' /\ OnceInv'
<1>1. act[a].stage = "sending" /\ UNCHANGED <<slot, flush, reads, disturbed, again>>
  BY DEF Answered
<1>2. /\ applied' \in [Action -> 0 .. 2] /\ \A b \in Action \ {a} : applied'[b] = applied[b]
      /\ applied[a] = 0 => applied'[a] < 2
  <2>1. CASE ServerAccepts(a)
    BY <2>1, AcceptFacts
  <2>2. CASE ServerErrs(a) \/ ServerDenies(a)
    BY <2>2 DEF ServerErrs, ServerDenies, Refuses, Types
  <2> QED BY <2>1, <2>2 DEF Answered
<1>3. ASSUME NEW to \in {"done", "refused"}
      PROVE  [act[a] EXCEPT !.stage = to] \in Acts /\ [act[a] EXCEPT !.stage = to].stage = to
  BY DEF Types, Acts, Stage
<1>4. \E to \in {"done", "refused"} : act' = [act EXCEPT ![a] = [act[a] EXCEPT !.stage = to]]
  BY DEF Answered, Types
<1>5. PICK e \in Acts : act' = [act EXCEPT ![a] = e] /\ e.stage \in {"done", "refused"}
  BY <1>3, <1>4
<1> QED BY <1>1, <1>2, <1>5, SentHolds

LEMMA FetchFailsHolds ==
    ASSUME Types, OrderInv, KeepInv, OnceInv, NEW a \in Action, FetchFails(a)
    PROVE  Types' /\ OrderInv' /\ KeepInv' /\ OnceInv'
<1>1. /\ act[a].stage = "sending" /\ act[a].tab \in Tabs
      /\ act[a].request \in Request /\ act[a].csrf \in Nat
      /\ Enqueue(a, act[a].tab, act[a].request, act[a].csrf) /\ UNCHANGED flush
      /\ (UNCHANGED <<applied, again>> \/ (Apply({a}) /\ again' = TRUE))
  BY DEF FetchFails, ServerApplies, Types, Acts
<1>2. again' \in BOOLEAN /\ applied' \in [Action -> 0 .. 2]
      /\ (~again' => ~again /\ applied' = applied)
  <2>1. CASE UNCHANGED <<applied, again>>
    BY <2>1 DEF Types
  <2>2. CASE Apply({a}) /\ again' = TRUE
    <3>1. again' \in BOOLEAN /\ again'
      BY <2>2, Zenon
    <3> QED BY <1>1, <2>2, <3>1, AppliedFacts
  <2> QED BY <1>1, <2>1, <2>2
<1> QED BY <1>1, <1>2, EnqueueHolds

\* Steps that leave the queue and its users alone.
LEMMA NothingMoves ==
    ASSUME Types, OrderInv, KeepInv, OnceInv,
           UNCHANGED <<slot, act, flush, applied, reads, disturbed, again>>
    PROVE  Types' /\ OrderInv' /\ KeepInv' /\ OnceInv'
BY DEF Types, OrderInv, KeepInv, OnceInv, Enqueuing, Flushing, Queued

LEMMA BrowserHolds == ASSUME BrowserTypes, [Next]_vars PROVE BrowserTypes'
<1>1. CASE UNCHANGED Browser
  BY <1>1 DEF Browser, BrowserTypes
<1>2. ASSUME NEW t \in Tabs, Reload(t) \/ Login(t) PROVE BrowserTypes'
  BY <1>2 DEF Reload, Login, BrowserTypes, NoSession
<1>3. CASE Network \/ SessionEnds \/ ChangePassword
  BY <1>3 DEF Network, SessionEnds, ChangePassword, BrowserTypes, NoSession
<1> QED BY <1>1, <1>2, <1>3 DEF Next, vars, Browser, Submit, Answered, FetchFails, EnqueueSaves,
        Flush, FlushReads, FlushAccepted, FlushRefused, FlushFails, FlushSaves

\* In every state: the copies of the queue are in order, and while nothing disturbs them, they
\* have all that is queued, and nothing that was applied.
LEMMA QueueInvHolds == Spec => []QueueInv
<1>1. Init => QueueInv
  BY QueueStart
<1>2. QueueInv /\ [Next]_vars => QueueInv'
  <2> SUFFICES ASSUME Types, BrowserTypes, OrderInv, KeepInv, OnceInv, [Next]_vars
               PROVE  Types' /\ OrderInv' /\ KeepInv' /\ OnceInv'
    BY BrowserHolds DEF QueueInv
  <2>1. ASSUME NEW a \in Action, NEW t \in Tabs, Submit(a, t)
        PROVE  Types' /\ OrderInv' /\ KeepInv' /\ OnceInv'
    BY <2>1, SubmitHolds
  <2>2. ASSUME NEW a \in Action, Answered(a) \/ FetchFails(a) \/ EnqueueSaves(a)
        PROVE  Types' /\ OrderInv' /\ KeepInv' /\ OnceInv'
    BY <2>2, AnsweredHolds, FetchFailsHolds, EnqueueSavesHolds
  <2>3. ASSUME NEW t \in Tabs, Flush(t)
        PROVE  Types' /\ OrderInv' /\ KeepInv' /\ OnceInv'
    BY <2>3, FlushReadsHolds, FlushAcceptedHolds, FlushRefusedHolds, FlushFailsHolds,
       FlushSavesHolds DEF Flush
  <2>4. ASSUME NEW t \in Tabs, Reload(t) \/ Login(t)
        PROVE  Types' /\ OrderInv' /\ KeepInv' /\ OnceInv'
    BY <2>4, LeavesHolds DEF Reload, Login
  <2>5. CASE Network \/ SessionEnds \/ ChangePassword
    BY <2>5, NothingMoves DEF Network, SessionEnds, ChangePassword
  <2>6. CASE UNCHANGED vars
    BY <2>6, NothingMoves DEF vars
  <2> QED BY <2>1, <2>2, <2>3, <2>4, <2>5, <2>6 DEF Next
<1> QED BY <1>1, <1>2, PTL DEF Spec

\* The queue holds its actions in the order in which they were enqueued, and none twice, however
\* enqueuing and flushing overlap in any number of tabs.
THEOREM QueueStaysInOrder == Spec => []QueueInOrder
<1>1. QueueInv => QueueInOrder
  <2> SUFFICES ASSUME QueueInv, NEW m \in 1 .. Len(slot.items), NEW n \in 1 .. Len(slot.items), m < n
               PROVE  Position(slot.items[m]) < Position(slot.items[n])
    BY DEF QueueInOrder
  <2>1. Before(reads, slot.items[m], slot.items[n]) /\ Distinct(reads)
    BY DEF QueueInv, OrderInv, Ordered
  <2>2. PICK i \in 1 .. Len(reads), j \in 1 .. Len(reads) :
            i < j /\ reads[i] = slot.items[m] /\ reads[j] = slot.items[n]
    BY <2>1 DEF Before
  <2>3. \A k \in 1 .. Len(reads) : Position(reads[k]) = k
    BY <2>1 DEF Distinct, Position
  <2> QED BY <2>2, <2>3
<1> QED BY <1>1, QueueInvHolds, PTL

\* What the user was told is queued stays in the queue until a flush was told that it succeeded,
\* unless users of the queue overlapped or it could not be decrypted.
THEOREM QueuedStays == Spec => []QueuedIsKept
<1>1. QueueInv => QueuedIsKept
  BY DEF QueueInv, KeepInv, QueuedIsKept
<1> QED BY <1>1, QueueInvHolds, PTL

\* Nothing is applied twice, unless a request had to be repeated or users of the queue overlapped.
THEOREM NothingTwice == Spec => []AppliedOnce
<1>1. QueueInv => AppliedOnce
  BY DEF QueueInv, OnceInv, AppliedOnce
<1> QED BY <1>1, QueueInvHolds, PTL
=============================================================================
