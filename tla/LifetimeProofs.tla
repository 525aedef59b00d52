--------------------------- MODULE LifetimeProofs ---------------------------
(***************************************************************************)
(* No object of a Messenger is used after its end, and none is left over,  *)
(* for any rooms and any destinations.  The invariant looks at all that    *)
(* the functions on the call stack still do: each thing needs objects that *)
(* exist or are made before it, and nothing before it may end them.        *)
(***************************************************************************)
EXTENDS Lifetime, FiniteSetTheorems, SequenceTheorems, TLAPS

-----------------------------------------------------------------------------
(***************************************************************************)
(* What is on the stack.  list stands for rooms, which no step changes.    *)
(***************************************************************************)
Holder == {"local", "muc_senders"}
PartNames == {"sender", "nick", "room"}
OtherNames == MemberNames \cup {"message", "session"}
Parts(list) == {Part(p, i) : p \in PartNames, i \in 1..Len(list)}
Object(list) == Parts(list) \cup {Member(name) : name \in OtherNames}
Message == Member("message")
Item(list) ==
  {Send} \cup {Use(o) : o \in Object(list)} \cup {Make(o) : o \in Parts(list) \cup {Session}}
    \cup {End(o) : o \in Object(list) \ {Message}}
    \cup {Release(i, h) : i \in 1..Len(list), h \in Holder}
    \cup {Emplace(i) : i \in 1..Len(list)} \cup {Erase(r) : r \in Rooms}

\* A send may end in onDisconnect; whatever ends a sender sends.
ForSending == {Member("debug"), Member("result"), Member("client")}
Sends(x) == x.do \in {"send", "release", "emplace", "erase"}
MayEndMore(x) == x.do \in {"end", "release", "emplace", "erase"}

\* x cannot be done without o.
Needs(x, o) ==
  \/ x.do \notin {"make", "release"} /\ o = x.obj
  \/ Sends(x) /\ o \in ForSending
  \/ x.do \in {"release", "emplace"} /\ o \in {Part("sender", x.obj.of), Part("nick", x.obj.of)}

\* x, or what it puts on the stack, may end o.
MayEnd(x, o, list) ==
  \/ x.do = "end" /\ o = x.obj
  \/ x.do \in {"release", "emplace"} /\ \E p \in PartNames : o = Part(p, x.obj.of)
  \/ x.do = "erase" /\ \E p \in PartNames, i \in 1..Len(list) : list[i] = x.room /\ o = Part(p, i)

\* y may not come after x.
Forbids(x, y, list) ==
  \/ \E o \in Object(list) : MayEnd(x, o, list) /\ Needs(y, o)
  \/ MayEndMore(x) /\ y.do = "make"

\* Nothing of q may not come after x.
Clear(x, q, list) == \A k \in 1..Len(q) : ~Forbids(x, q[k], list)

\* The things in q can be done one after the other if the objects of A exist.
Feasible(q, A, list) ==
  /\ \A k \in 1..Len(q), o \in Object(list) :
       Needs(q[k], o) => o \in A \/ \E j \in 1..(k - 1) : q[j] = Make(o)
  /\ \A k \in 1..Len(q) : \A j \in 1..(k - 1) : ~Forbids(q[j], q[k], list)

Runs(q, A, list) == q \in Seq(Item(list)) /\ Feasible(q, A, list)

\* What in q is more than a use or a send.
Ahead(q) == {q[k] : k \in {n \in 1..Len(q) : q[n].do \notin {"use", "send"}}}

-----------------------------------------------------------------------------
(***************************************************************************)
(* The invariant.                                                          *)
(***************************************************************************)
LifeTypeOK ==
  /\ rooms \in Seq(Rooms)
  /\ alive \subseteq Object(rooms)
  /\ holders \in [1..Len(rooms) -> SUBSET Holder]
  /\ muc_senders \in [Rooms -> 0..Len(rooms)]
  /\ phase \in {"sending", "receiving", "leaving", "gone"}
  /\ cursor \in 1..(Len(rooms) + 1)
  /\ debug \in BOOLEAN
  /\ open \in BOOLEAN

\* A sender that is filed is one that exists, under its own room.
Filed ==
  \A r \in Rooms : muc_senders[r] # 0 =>
    LET i == muc_senders[r]
    IN  /\ rooms[i] = r /\ i < cursor /\ "muc_senders" \in holders[i]
        /\ Part("sender", i) \in alive /\ Part("nick", i) \in alive

\* A hold on a sender is given up by something ahead, or is that of the map;
\* what is to be given up is held.
Held ==
  \A i \in 1..Len(rooms) :
    /\ "local" \in holders[i] => Emplace(i) \in Ahead(todo) \/ Release(i, "local") \in Ahead(todo)
    /\ "muc_senders" \in holders[i] =>
         muc_senders[rooms[i]] = i \/ Release(i, "muc_senders") \in Ahead(todo)
    /\ Emplace(i) \in Ahead(todo) => "local" \in holders[i] /\ i < cursor /\ phase = "sending"
    /\ \A h \in Holder : Release(i, h) \in Ahead(todo) => h \in holders[i]
    /\ Release(i, "muc_senders") \in Ahead(todo) => muc_senders[rooms[i]] # i

\* A part of a sender has an owner, or its end is ahead.
Owned ==
  \A i \in 1..Len(rooms), p \in PartNames :
    /\ Part(p, i) \in alive \/ Make(Part(p, i)) \in Ahead(todo) =>
         holders[i] # {} \/ End(Part(p, i)) \in Ahead(todo)
    /\ End(Part(p, i)) \in Ahead(todo) => holders[i] = {}

\* The members live until ~Messenger, and then each has its end ahead.
Members ==
  /\ Message \in alive
  /\ Session \in alive \/ Make(Session) \in Ahead(todo) => End(Session) \in Ahead(todo)
  /\ phase \in {"sending", "receiving"} =>
       \A name \in MemberNames : Member(name) \in alive /\ End(Member(name)) \notin Ahead(todo)
  /\ phase \in {"leaving", "gone"} =>
       /\ \A name \in MemberNames : Member(name) \in alive => End(Member(name)) \in Ahead(todo)
       /\ \A r \in Rooms : muc_senders[r] # 0 => Erase(r) \in Ahead(todo)
  /\ phase = "gone" => todo = <<>>

LifeInv == LifeTypeOK /\ Runs(todo, alive, rooms) /\ Filed /\ Held /\ Owned /\ Members

-----------------------------------------------------------------------------
(***************************************************************************)
(* The items.                                                              *)
(***************************************************************************)
LEMMA Names ==
  /\ MemberNames = {"client", "jid", "destinations", "text", "debug", "result", "muc_senders", "map_guard"}
  /\ Len(MembersToMap) = 7 /\ Len(MembersBehindMap) = 1
BY DEF MemberNames, MembersToMap, MembersBehindMap, Range

LEMMA Distinct ==
  /\ \A n, m : (Member(n) = Member(m)) <=> (n = m)
  /\ \A p, q, i, j : (Part(p, i) = Part(q, j)) <=> (p = q /\ i = j)
  /\ \A n, p : \A i \in Nat \ {0} : Member(n) # Part(p, i)
  /\ \A p, i : Part(p, i).of = i
<1>1. \A n, m : (Member(n) = Member(m)) <=> (n = m)
  BY DEF Member
<1>2. \A p, q, i, j : (Part(p, i) = Part(q, j)) <=> (p = q /\ i = j)
  BY DEF Part
<1>3. \A n, p : \A i \in Nat \ {0} : Member(n) # Part(p, i)
  <2>1. SUFFICES ASSUME NEW n, NEW p, NEW i \in Nat \ {0}, Member(n) = Part(p, i) PROVE FALSE
    OBVIOUS
  <2>2. Member(n).of = 0 /\ Part(p, i).of = i
    BY DEF Member, Part
  <2>3. QED
    BY <2>1, <2>2
<1>4. \A p, i : Part(p, i).of = i
  BY DEF Part
<1>5. QED
  BY <1>1, <1>2, <1>3, <1>4

\* What each item needs and may end.
LEMMA OfUse ==
  ASSUME NEW o
  PROVE  /\ Use(o).do = "use"
         /\ \A n : Needs(Use(o), n) <=> (n = o)
BY DEF Use, Needs, Sends

LEMMA OfSend ==
  /\ Send.do = "send"
  /\ \A n : Needs(Send, n) <=> (n \in ForSending)
BY DEF Send, Needs, Sends, ForSending

LEMMA OfMake ==
  ASSUME NEW o
  PROVE  /\ Make(o).do = "make" /\ Make(o).obj = o
         /\ \A n : ~Needs(Make(o), n)
BY DEF Make, Needs, Sends

LEMMA OfEnd ==
  ASSUME NEW o, NEW list
  PROVE  /\ End(o).do = "end" /\ End(o).obj = o
         /\ \A n : Needs(End(o), n) <=> (n = o)
         /\ \A n : MayEnd(End(o), n, list) <=> (n = o)
BY DEF End, Needs, MayEnd, Sends

LEMMA OfRelease ==
  ASSUME NEW i, NEW h, NEW list
  PROVE  /\ Release(i, h).do = "release" /\ Release(i, h).obj.of = i /\ Release(i, h).holder = h
         /\ Release(i, h).obj = Part("sender", i)
         /\ \A n : Needs(Release(i, h), n) <=> (n \in ForSending \cup {Part("sender", i), Part("nick", i)})
         /\ \A n : MayEnd(Release(i, h), n, list) <=> \E p \in PartNames : n = Part(p, i)
<1>1. /\ Release(i, h).do = "release" /\ Release(i, h).obj = Part("sender", i) /\ Release(i, h).holder = h
  BY DEF Release
<1>2. Release(i, h).obj.of = i
  BY <1>1, Distinct
<1>3. QED
  BY <1>1, <1>2 DEF Needs, MayEnd, Sends

LEMMA OfEmplace ==
  ASSUME NEW i, NEW list
  PROVE  /\ Emplace(i).do = "emplace" /\ Emplace(i).obj.of = i
         /\ Emplace(i).obj = Part("sender", i)
         /\ \A n : Needs(Emplace(i), n) <=> (n \in ForSending \cup {Part("sender", i), Part("nick", i)})
         /\ \A n : MayEnd(Emplace(i), n, list) <=> \E p \in PartNames : n = Part(p, i)
<1>1. /\ Emplace(i).do = "emplace" /\ Emplace(i).obj = Part("sender", i)
  BY DEF Emplace
<1>2. Emplace(i).obj.of = i
  BY <1>1, Distinct
<1>3. QED
  BY <1>1, <1>2 DEF Needs, MayEnd, Sends

LEMMA OfErase ==
  ASSUME NEW r, NEW list
  PROVE  /\ Erase(r).do = "erase" /\ Erase(r).room = r /\ Erase(r).obj = Member("muc_senders")
         /\ \A n : Needs(Erase(r), n) <=> (n \in ForSending \cup {Member("muc_senders")})
         /\ \A n : MayEnd(Erase(r), n, list) <=>
                      \E p \in PartNames, i \in 1..Len(list) : list[i] = r /\ n = Part(p, i)
<1>1. Erase(r).do = "erase" /\ Erase(r).room = r /\ Erase(r).obj = Member("muc_senders")
  BY DEF Erase
<1>2. QED
  BY <1>1 DEF Needs, MayEnd, Sends

\* An item of the stack is one of these.
LEMMA ItemKinds ==
  ASSUME NEW list, NEW x \in Item(list)
  PROVE  \/ x = Send
         \/ \E o \in Object(list) : x = Use(o)
         \/ \E o \in Parts(list) \cup {Session} : x = Make(o)
         \/ \E o \in Object(list) \ {Message} : x = End(o)
         \/ \E i \in 1..Len(list), h \in Holder : x = Release(i, h)
         \/ \E i \in 1..Len(list) : x = Emplace(i)
         \/ \E r \in Rooms : x = Erase(r)
BY DEF Item

LEMMA ItemTypes ==
  ASSUME NEW list
  PROVE  /\ Send \in Item(list)
         /\ \A o \in Object(list) : Use(o) \in Item(list)
         /\ \A o \in Parts(list) \cup {Session} : Make(o) \in Item(list)
         /\ \A o \in Object(list) \ {Message} : End(o) \in Item(list)
         /\ \A i \in 1..Len(list), h \in Holder : Release(i, h) \in Item(list)
         /\ \A i \in 1..Len(list) : Emplace(i) \in Item(list)
         /\ \A r \in Rooms : Erase(r) \in Item(list)
BY DEF Item

LEMMA ObjectTypes ==
  ASSUME NEW list
  PROVE  /\ \A i \in 1..Len(list), p \in PartNames : Part(p, i) \in Parts(list) /\ Part(p, i) \in Object(list)
         /\ \A n \in OtherNames : Member(n) \in Object(list)
         /\ Session \in Object(list) /\ Message \in Object(list)
         /\ ForSending \subseteq Object(list)
         /\ \A o \in Object(list) : (\E p \in PartNames, i \in 1..Len(list) : o = Part(p, i))
                                     \/ (\E n \in OtherNames : o = Member(n))
BY Names DEF Object, Parts, OtherNames, Session, Message, ForSending
-----------------------------------------------------------------------------
(***************************************************************************)
(* Taking the first item off the stack and putting items on it.            *)
(***************************************************************************)
LEMMA TailFacts ==
  ASSUME NEW S, NEW q \in Seq(S), q # <<>>
  PROVE  /\ Len(q) \in Nat \ {0}
         /\ Head(q) = q[1] /\ Head(q) \in S
         /\ Tail(q) \in Seq(S)
         /\ Len(Tail(q)) = Len(q) - 1
         /\ \A k \in 1..Len(Tail(q)) : Tail(q)[k] = q[k + 1]
         /\ \A k \in 1..Len(q) : k = 1 \/ (k - 1 \in 1..Len(Tail(q)) /\ q[k] = Tail(q)[k - 1])
OBVIOUS

\* What can be done first needs only what exists, and the rest can be done
\* with what exists after it.
LEMMA Pop ==
  ASSUME NEW list, NEW A, NEW q, Runs(q, A, list), q # <<>>
  PROVE  /\ Head(q) \in Item(list)
         /\ \A o \in Object(list) : Needs(Head(q), o) => o \in A
         /\ Clear(Head(q), Tail(q), list)
         /\ \A B : (\A o \in Object(list) :
                      \/ o \in A /\ ~MayEnd(Head(q), o, list)
                      \/ Head(q) = Make(o)
                      => o \in B)
                   => Runs(Tail(q), B, list)
<1>1. q \in Seq(Item(list)) /\ Feasible(q, A, list)
  BY DEF Runs
<1>2. /\ Len(q) \in Nat \ {0}
      /\ Head(q) = q[1] /\ Head(q) \in Item(list)
      /\ Tail(q) \in Seq(Item(list))
      /\ Len(Tail(q)) = Len(q) - 1
      /\ \A k \in 1..Len(Tail(q)) : Tail(q)[k] = q[k + 1]
  BY <1>1, TailFacts
<1>3. \A o \in Object(list) : Needs(Head(q), o) => o \in A
  BY <1>1, <1>2 DEF Feasible
<1>4. \A k \in 1..Len(Tail(q)) : k + 1 \in 1..Len(q) /\ 1 \in 1..((k + 1) - 1) /\ ~Forbids(Head(q), Tail(q)[k], list)
  BY <1>1, <1>2 DEF Feasible
<1>5. Clear(Head(q), Tail(q), list)
  BY <1>4 DEF Clear
<1>6. ASSUME NEW B,
             \A o \in Object(list) :
               \/ o \in A /\ ~MayEnd(Head(q), o, list)
               \/ Head(q) = Make(o)
               => o \in B
      PROVE  Runs(Tail(q), B, list)
  <2>1. ASSUME NEW k \in 1..Len(Tail(q)), NEW o \in Object(list), Needs(Tail(q)[k], o)
        PROVE  o \in B \/ \E j \in 1..(k - 1) : Tail(q)[j] = Make(o)
    <3>1. k + 1 \in 1..Len(q) /\ Needs(q[k + 1], o)
      BY <1>2, <2>1
    <3>2. o \in A \/ \E j \in 1..((k + 1) - 1) : q[j] = Make(o)
      BY <1>1, <3>1 DEF Feasible
    <3>3. ~MayEnd(Head(q), o, list)
      BY <1>4, <2>1 DEF Forbids
    <3>4. CASE o \in A
      BY <1>6, <3>3, <3>4
    <3>5. ASSUME NEW j \in 1..((k + 1) - 1), q[j] = Make(o)
          PROVE  o \in B \/ \E n \in 1..(k - 1) : Tail(q)[n] = Make(o)
      <4>1. CASE j = 1
        BY <1>2, <1>6, <3>5, <4>1
      <4>2. CASE j # 1
        <5>1. j - 1 \in 1..(k - 1) /\ j - 1 \in 1..Len(Tail(q)) /\ (j - 1) + 1 = j
          BY <1>2, <4>2
        <5>2. Tail(q)[j - 1] = Make(o)
          BY <1>2, <3>5, <5>1
        <5>3. QED
          BY <5>1, <5>2
      <4>3. QED
        BY <4>1, <4>2
    <3>6. QED
      BY <3>2, <3>4, <3>5
  <2>2. ASSUME NEW k \in 1..Len(Tail(q)), NEW j \in 1..(k - 1)
        PROVE  ~Forbids(Tail(q)[j], Tail(q)[k], list)
    <3>1. /\ k + 1 \in 1..Len(q) /\ j + 1 \in 1..((k + 1) - 1) /\ j \in 1..Len(Tail(q))
      BY <1>2
    <3>2. Tail(q)[k] = q[k + 1] /\ Tail(q)[j] = q[j + 1]
      BY <1>2, <3>1
    <3>3. ~Forbids(q[j + 1], q[k + 1], list)
      BY <1>1, <3>1 DEF Feasible
    <3>4. QED
      BY <3>2, <3>3
  <2>3. QED
    BY <1>2, <2>1, <2>2 DEF Runs, Feasible
<1>7. QED
  BY <1>2, <1>3, <1>5, <1>6

LEMMA PopAhead ==
  ASSUME NEW S, NEW q \in Seq(S), q # <<>>
  PROVE  /\ Head(q).do \in {"use", "send"} => Ahead(q) = Ahead(Tail(q))
         /\ Head(q).do \notin {"use", "send"} => Ahead(q) = {Head(q)} \cup Ahead(Tail(q))
<1>1. /\ Len(q) \in Nat \ {0}
      /\ Head(q) = q[1]
      /\ Len(Tail(q)) = Len(q) - 1
      /\ \A k \in 1..Len(Tail(q)) : Tail(q)[k] = q[k + 1]
      /\ \A k \in 1..Len(q) : k = 1 \/ (k - 1 \in 1..Len(Tail(q)) /\ q[k] = Tail(q)[k - 1])
  BY TailFacts
<1>2. ASSUME NEW x \in Ahead(Tail(q)) PROVE x \in Ahead(q)
  <2>1. PICK k \in 1..Len(Tail(q)) : x = Tail(q)[k] /\ x.do \notin {"use", "send"}
    BY DEF Ahead
  <2>2. k + 1 \in 1..Len(q) /\ q[k + 1] = x
    BY <1>1, <2>1
  <2>3. QED
    BY <2>1, <2>2 DEF Ahead
<1>3. ASSUME NEW x \in Ahead(q) PROVE (x = Head(q) /\ x.do \notin {"use", "send"}) \/ x \in Ahead(Tail(q))
  <2>1. PICK k \in 1..Len(q) : x = q[k] /\ x.do \notin {"use", "send"}
    BY DEF Ahead
  <2>2. QED
    BY <1>1, <2>1 DEF Ahead
<1>4. Head(q).do \notin {"use", "send"} => Head(q) \in Ahead(q)
  BY <1>1 DEF Ahead
<1>5. QED
  BY <1>2, <1>3, <1>4

LEMMA CalmForbids ==
  ASSUME NEW list, NEW x, x.do \in {"use", "send"}, NEW y
  PROVE  ~Forbids(x, y, list)
BY DEF Forbids, MayEnd, MayEndMore

LEMMA SingleRuns ==
  ASSUME NEW list, NEW A, NEW x \in Item(list), \A o \in Object(list) : Needs(x, o) => o \in A
  PROVE  /\ Runs(<<x>>, A, list)
         /\ Ahead(<<x>>) = IF x.do \in {"use", "send"} THEN {} ELSE {x}
         /\ \A y : Clear(y, <<x>>, list) <=> ~Forbids(y, x, list)
<1>1. PICK q : q = <<x>>
  OBVIOUS
<1>2. q \in Seq(Item(list)) /\ Len(q) = 1 /\ q[1] = x
  BY <1>1
<1>3. Runs(q, A, list)
  BY <1>2 DEF Runs, Feasible
<1>4. Ahead(q) = IF x.do \in {"use", "send"} THEN {} ELSE {x}
  BY <1>2 DEF Ahead
<1>5. \A y : Clear(y, q, list) <=> ~Forbids(y, x, list)
  BY <1>2 DEF Clear
<1>6. QED
  BY <1>1, <1>3, <1>4, <1>5

LEMMA AppendFacts ==
  ASSUME NEW S, NEW p \in Seq(S), NEW q \in Seq(S)
  PROVE  /\ p \o q \in Seq(S)
         /\ Len(p) \in Nat /\ Len(q) \in Nat /\ Len(p \o q) = Len(p) + Len(q)
         /\ \A k \in 1..Len(p) : (p \o q)[k] = p[k]
         /\ \A k \in 1..Len(q) : (p \o q)[Len(p) + k] = q[k]
         /\ \A k \in 1..Len(p \o q) :
              \/ k \in 1..Len(p) /\ (p \o q)[k] = p[k]
              \/ k - Len(p) \in 1..Len(q) /\ (p \o q)[k] = q[k - Len(p)]
<1>1. Len(p) \in Nat /\ Len(q) \in Nat
  BY LenProperties
<1>2. /\ p \o q \in Seq(S)
      /\ Len(p \o q) = Len(p) + Len(q)
      /\ \A i \in 1..(Len(p) + Len(q)) : (p \o q)[i] = IF i <= Len(p) THEN p[i] ELSE q[i - Len(p)]
  BY ConcatProperties
<1>3. QED
  BY <1>1, <1>2

\* Two things can be done one after the other: what the second needs is there
\* or made by the first, and nothing of the first forbids any of the second.
LEMMA Concat ==
  ASSUME NEW list, NEW A, NEW B, NEW p, NEW q, Runs(p, A, list), Runs(q, B, list),
         \A o \in Object(list) : o \in B => o \in A \/ Make(o) \in Ahead(p),
         \A x \in Ahead(p) : Clear(x, q, list)
  PROVE  /\ Runs(p \o q, A, list)
         /\ \A x : Clear(x, p, list) /\ Clear(x, q, list) => Clear(x, p \o q, list)
<1> DEFINE s == p \o q
<1>1. /\ p \in Seq(Item(list)) /\ Feasible(p, A, list)
      /\ q \in Seq(Item(list)) /\ Feasible(q, B, list)
  BY DEF Runs
<1>2. /\ s \in Seq(Item(list))
      /\ Len(p) \in Nat /\ Len(q) \in Nat /\ Len(s) = Len(p) + Len(q)
      /\ \A k \in 1..Len(p) : s[k] = p[k]
      /\ \A k \in 1..Len(q) : s[Len(p) + k] = q[k]
      /\ \A k \in 1..Len(s) :
           \/ k \in 1..Len(p) /\ s[k] = p[k]
           \/ k - Len(p) \in 1..Len(q) /\ s[k] = q[k - Len(p)]
  BY <1>1, AppendFacts
<1> HIDE DEF s
<1>3. ASSUME NEW k \in 1..Len(s), NEW o \in Object(list), Needs(s[k], o)
      PROVE  o \in A \/ \E j \in 1..(k - 1) : s[j] = Make(o)
  <2>1. CASE k \in 1..Len(p) /\ s[k] = p[k]
    <3>1. o \in A \/ \E j \in 1..(k - 1) : p[j] = Make(o)
      BY <1>1, <1>3, <2>1 DEF Feasible
    <3>2. \A j \in 1..(k - 1) : s[j] = p[j]
      BY <1>2, <2>1
    <3>3. QED
      BY <3>1, <3>2
  <2>2. CASE k - Len(p) \in 1..Len(q) /\ s[k] = q[k - Len(p)]
    <3>1. o \in B \/ \E j \in 1..((k - Len(p)) - 1) : q[j] = Make(o)
      BY <1>1, <1>3, <2>2 DEF Feasible
    <3>2. ASSUME NEW j \in 1..((k - Len(p)) - 1), q[j] = Make(o)
          PROVE  \E n \in 1..(k - 1) : s[n] = Make(o)
      <4>1. Len(p) + j \in 1..(k - 1) /\ j \in 1..Len(q)
        BY <1>2, <2>2
      <4>2. s[Len(p) + j] = Make(o)
        BY <1>2, <3>2, <4>1
      <4>3. QED
        BY <4>1, <4>2
    <3>3. ASSUME Make(o) \in Ahead(p)
          PROVE  \E n \in 1..(k - 1) : s[n] = Make(o)
      <4>1. PICK j \in 1..Len(p) : p[j] = Make(o)
        BY <3>3 DEF Ahead
      <4>2. j \in 1..(k - 1) /\ s[j] = Make(o)
        BY <1>2, <2>2, <4>1
      <4>3. QED
        BY <4>2
    <3>4. QED
      BY <3>1, <3>2, <3>3
  <2>3. QED
    BY <1>2, <2>1, <2>2
<1>4. ASSUME NEW k \in 1..Len(s), NEW j \in 1..(k - 1)
      PROVE  ~Forbids(s[j], s[k], list)
  <2>1. j \in 1..Len(s)
    BY <1>2
  <2>2. CASE k - Len(p) \in 1..Len(q) /\ s[k] = q[k - Len(p)]
    <3>1. CASE j \in 1..Len(p) /\ s[j] = p[j]
      <4>1. CASE p[j].do \in {"use", "send"}
        BY <3>1, <4>1, CalmForbids
      <4>2. CASE p[j].do \notin {"use", "send"}
        <5>1. p[j] \in Ahead(p)
          BY <3>1, <4>2 DEF Ahead
        <5>2. QED
          BY <2>2, <3>1, <5>1 DEF Clear
      <4>3. QED
        BY <4>1, <4>2
    <3>2. CASE j - Len(p) \in 1..Len(q) /\ s[j] = q[j - Len(p)]
      <4>1. j - Len(p) \in 1..((k - Len(p)) - 1)
        BY <1>2, <2>2, <3>2
      <4>2. QED
        BY <1>1, <2>2, <3>2, <4>1 DEF Feasible
    <3>3. QED
      BY <1>2, <2>1, <3>1, <3>2
  <2>3. CASE k \in 1..Len(p) /\ s[k] = p[k]
    <3>1. j \in 1..Len(p) /\ s[j] = p[j]
      BY <1>2, <2>3
    <3>2. QED
      BY <1>1, <2>3, <3>1 DEF Feasible
  <2>4. QED
    BY <1>2, <2>2, <2>3
<1>5. ASSUME NEW x, Clear(x, p, list), Clear(x, q, list)
      PROVE  Clear(x, s, list)
  BY <1>2, <1>5 DEF Clear
<1>6. QED
  BY <1>2, <1>3, <1>4, <1>5 DEF Runs, Feasible, s

LEMMA AheadConcat ==
  ASSUME NEW list, NEW A, NEW B, NEW p, NEW q, Runs(p, A, list), Runs(q, B, list)
  PROVE  Ahead(p \o q) = Ahead(p) \cup Ahead(q)
<1> DEFINE s == p \o q
<1>1. p \in Seq(Item(list)) /\ q \in Seq(Item(list))
  BY DEF Runs
<1>2. /\ s \in Seq(Item(list))
      /\ Len(p) \in Nat /\ Len(q) \in Nat /\ Len(s) = Len(p) + Len(q)
      /\ \A k \in 1..Len(p) : s[k] = p[k]
      /\ \A k \in 1..Len(q) : s[Len(p) + k] = q[k]
      /\ \A k \in 1..Len(s) :
           \/ k \in 1..Len(p) /\ s[k] = p[k]
           \/ k - Len(p) \in 1..Len(q) /\ s[k] = q[k - Len(p)]
  BY <1>1, AppendFacts
<1> HIDE DEF s
<1>3. ASSUME NEW x \in Ahead(s) PROVE x \in Ahead(p) \cup Ahead(q)
  <2>1. PICK k \in 1..Len(s) : x = s[k] /\ x.do \notin {"use", "send"}
    BY <1>3 DEF Ahead
  <2>2. CASE k \in 1..Len(p) /\ s[k] = p[k]
    BY <2>1, <2>2 DEF Ahead
  <2>3. CASE k - Len(p) \in 1..Len(q) /\ s[k] = q[k - Len(p)]
    BY <2>1, <2>3 DEF Ahead
  <2>4. QED
    BY <1>2, <2>1, <2>2, <2>3
<1>4. ASSUME NEW x \in Ahead(p) \cup Ahead(q) PROVE x \in Ahead(s)
  <2>1. CASE x \in Ahead(p)
    <3>1. PICK k \in 1..Len(p) : x = p[k] /\ x.do \notin {"use", "send"}
      BY <2>1 DEF Ahead
    <3>2. k \in 1..Len(s) /\ s[k] = p[k]
      BY <1>2
    <3>3. QED
      BY <3>1, <3>2 DEF Ahead
  <2>2. CASE x \in Ahead(q)
    <3>1. PICK k \in 1..Len(q) : x = q[k] /\ x.do \notin {"use", "send"}
      BY <2>2 DEF Ahead
    <3>2. Len(p) + k \in 1..Len(s) /\ s[Len(p) + k] = q[k]
      BY <1>2
    <3>3. QED
      BY <3>1, <3>2 DEF Ahead
  <2>3. QED
    BY <1>4, <2>1, <2>2
<1>5. QED
  BY <1>3, <1>4 DEF s

LEMMA RunsNothing ==
  ASSUME NEW list, NEW A
  PROVE  Runs(<<>>, A, list) /\ Ahead(<<>>) = {} /\ \A x : Clear(x, <<>>, list)
BY DEF Runs, Feasible, Ahead, Clear

LEMMA RunsMore ==
  ASSUME NEW list, NEW A, NEW B, NEW q, Runs(q, A, list),
         \A o \in Object(list) : o \in A => o \in B
  PROVE  Runs(q, B, list)
BY DEF Runs, Feasible

-----------------------------------------------------------------------------
(***************************************************************************)
(* Uses and sends only, and what may come before them.                     *)
(***************************************************************************)

\* q needs nothing but A, whenever it is begun.
Calm(q, A, list) == Runs(q, A, list) /\ Ahead(q) = {}

LEMMA CalmUse ==
  ASSUME NEW list, NEW A, NEW o \in Object(list), o \in A
  PROVE  Calm(<<Use(o)>>, A, list)
BY OfUse, ItemTypes, SingleRuns DEF Calm

LEMMA CalmMember ==
  ASSUME NEW list, NEW A, NEW n \in OtherNames, Member(n) \in A
  PROVE  Calm(UseMember(n), A, list)
BY CalmUse, ObjectTypes DEF UseMember

LEMMA CalmSend ==
  ASSUME NEW list, NEW A, ForSending \subseteq A
  PROVE  Calm(<<Send>>, A, list)
BY OfSend, ItemTypes, SingleRuns DEF Calm

LEMMA CalmAhead ==
  ASSUME NEW list, NEW A, NEW p, NEW q, Calm(p, A, list), Runs(q, A, list)
  PROVE  Ahead(p \o q) = Ahead(q)
<1>1. Runs(p, A, list) /\ Ahead(p) = {}
  BY DEF Calm
<1>2. Ahead(p \o q) = Ahead(p) \cup Ahead(q)
  BY <1>1, AheadConcat
<1>3. QED
  BY <1>1, <1>2

\* In front of anything there may be a calm piece.
LEMMA CalmFirst ==
  ASSUME NEW list, NEW A, NEW p, NEW q, Calm(p, A, list), Runs(q, A, list)
  PROVE  /\ Runs(p \o q, A, list)
         /\ Ahead(p \o q) = Ahead(q)
         /\ \A x : Clear(x, p, list) /\ Clear(x, q, list) => Clear(x, p \o q, list)
<1>1. Runs(p, A, list) /\ Ahead(p) = {}
  BY DEF Calm
<1>2. \A o \in Object(list) : o \in A => o \in A \/ Make(o) \in Ahead(p)
  OBVIOUS
<1>3. \A x \in Ahead(p) : Clear(x, q, list)
  BY <1>1
<1>4. Runs(p \o q, A, list)
  BY <1>1, <1>2, <1>3, Concat
<1>5. \A x : Clear(x, p, list) /\ Clear(x, q, list) => Clear(x, p \o q, list)
  BY <1>1, <1>2, <1>3, Concat
<1>6. Ahead(p \o q) = Ahead(q)
  BY CalmAhead
<1>7. QED
  BY <1>4, <1>5, <1>6

LEMMA CalmBoth ==
  ASSUME NEW list, NEW A, NEW p, NEW q, Calm(p, A, list), Calm(q, A, list)
  PROVE  Calm(p \o q, A, list)
BY CalmFirst DEF Calm

\* Whatever x may end, it may come before a calm piece that needs none of it.
LEMMA ClearCalm ==
  ASSUME NEW list, NEW A, NEW p, Calm(p, A, list),
         NEW x, \A o \in Object(list) : o \in A => ~MayEnd(x, o, list)
  PROVE  Clear(x, p, list)
<1>1. p \in Seq(Item(list)) /\ Feasible(p, A, list) /\ Ahead(p) = {}
  BY DEF Calm, Runs
<1>2. Len(p) \in Nat
  BY <1>1, LenProperties
<1>3. \A k \in 1..Len(p) : p[k].do \in {"use", "send"}
  BY <1>1 DEF Ahead
<1>4. \A k \in 1..Len(p), o \in Object(list) : Needs(p[k], o) => o \in A
  <2>1. SUFFICES ASSUME NEW k \in 1..Len(p), NEW o \in Object(list), Needs(p[k], o), o \notin A
                 PROVE  FALSE
    OBVIOUS
  <2>2. PICK j \in 1..(k - 1) : p[j] = Make(o)
    BY <1>1, <2>1 DEF Feasible
  <2>3. j \in 1..Len(p)
    BY <1>2
  <2>4. QED
    BY <1>3, <2>2, <2>3, OfMake
<1>5. \A k \in 1..Len(p) : p[k].do # "make"
  BY <1>3
<1>6. QED
  BY <1>4, <1>5 DEF Clear, Forbids

\* What may end no more than another is as free to go before q.
LEMMA ClearLess ==
  ASSUME NEW list, NEW q, NEW x, NEW y, Clear(y, q, list), MayEndMore(y),
         \A o \in Object(list) : MayEnd(x, o, list) => MayEnd(y, o, list)
  PROVE  Clear(x, q, list)
BY DEF Clear, Forbids

\* Only an item that may end something has anything forbidden after it.
LEMMA ClearTame ==
  ASSUME NEW list, NEW q, NEW x, x.do \notin {"end", "release", "emplace", "erase"}
  PROVE  Clear(x, q, list)
BY DEF Clear, Forbids, MayEnd, MayEndMore

-----------------------------------------------------------------------------
(***************************************************************************)
(* The functions: what each puts on the stack can be done.                 *)
(***************************************************************************)
Lasting == {Member(n) : n \in MemberNames \cup {"message"}}
HasSender(i, A) == Part("sender", i) \in A /\ Part("nick", i) \in A

LEMMA LastingFacts ==
  ASSUME NEW list, Len(list) \in Nat
  PROVE  /\ \A n \in MemberNames \cup {"message"} : n \in OtherNames /\ Member(n) \in Lasting
         /\ ForSending \subseteq Lasting
         /\ \A o \in Lasting : \A p : \A i \in 1..Len(list) : o # Part(p, i)
<1>1. \A n \in MemberNames \cup {"message"} : n \in OtherNames /\ Member(n) \in Lasting
  BY DEF OtherNames, Lasting
<1>2. ForSending \subseteq Lasting
  BY Names DEF ForSending, Lasting
<1>3. \A o \in Lasting : \A p : \A i \in 1..Len(list) : o # Part(p, i)
  BY Distinct DEF Lasting
<1>4. QED
  BY <1>1, <1>2, <1>3

LEMMA CalmCalls ==
  ASSUME NEW list, NEW A, ForSending \subseteq A
  PROVE  /\ Calm(OnDisconnect, A, list)
         /\ \A i \in 1..Len(list) :
              Part("sender", i) \in A => Calm(IsDebug(i), A, list) /\ Calm(GetClient(i), A, list)
<1>1. /\ Calm(UseMember("debug"), A, list)
      /\ Calm(UseMember("result"), A, list)
      /\ Calm(UseMember("client"), A, list)
  <2>1. /\ Member("debug") \in A /\ Member("result") \in A /\ Member("client") \in A
        /\ "debug" \in OtherNames /\ "result" \in OtherNames /\ "client" \in OtherNames
    BY Names DEF ForSending, OtherNames
  <2>2. QED
    BY <2>1, CalmMember
<1>2. Calm(OnDisconnect, A, list)
  <2>1. Calm(UseMember("debug") \o UseMember("result"), A, list)
    BY <1>1, CalmBoth
  <2>2. QED
    BY <1>1, <2>1, CalmBoth DEF OnDisconnect
<1>3. ASSUME NEW i \in 1..Len(list), Part("sender", i) \in A
      PROVE  Calm(IsDebug(i), A, list) /\ Calm(GetClient(i), A, list)
  <2>1. Part("sender", i) \in Object(list)
    BY ObjectTypes DEF PartNames
  <2>2. Calm(<<Use(Part("sender", i))>>, A, list)
    BY <1>3, <2>1, CalmUse
  <2>3. QED
    BY <1>1, <2>2, CalmBoth DEF IsDebug, GetClient
<1>4. QED
  BY <1>2, <1>3

\* Nothing is forbidden after constructions, and what they make is there.
LEMMA MakesFirst ==
  ASSUME NEW list, NEW A, NEW B, NEW p, NEW q, Runs(p, A, list), Runs(q, B, list),
         \A x \in Ahead(p) : x.do = "make",
         \A o \in Object(list) : o \in B => o \in A \/ Make(o) \in Ahead(p)
  PROVE  Runs(p \o q, A, list) /\ Ahead(p \o q) = Ahead(p) \cup Ahead(q)
<1>1. \A x \in Ahead(p) : Clear(x, q, list)
  BY ClearTame
<1>2. Runs(p \o q, A, list)
  BY <1>1, Concat
<1>3. Ahead(p \o q) = Ahead(p) \cup Ahead(q)
  BY AheadConcat
<1>4. QED
  BY <1>2, <1>3

LEMMA MakesThenCalm ==
  ASSUME NEW list, NEW A, NEW B, NEW p, NEW q, Runs(p, A, list), Calm(q, B, list),
         \A x \in Ahead(p) : x.do = "make",
         \A o \in Object(list) : o \in B => o \in A \/ Make(o) \in Ahead(p)
  PROVE  Runs(p \o q, A, list) /\ Ahead(p \o q) = Ahead(p)
<1>1. Runs(q, B, list) /\ Ahead(q) = {}
  BY DEF Calm
<1>2. Runs(p \o q, A, list)
  BY <1>1, MakesFirst
<1>3. Ahead(p \o q) = Ahead(p) \cup Ahead(q)
  BY <1>1, AheadConcat
<1>4. QED
  BY <1>1, <1>2, <1>3

LEMMA MakeRuns ==
  ASSUME NEW list, NEW A, NEW o \in Parts(list) \cup {Session}
  PROVE  Runs(<<Make(o)>>, A, list) /\ Ahead(<<Make(o)>>) = {Make(o)}
BY OfMake, ItemTypes, SingleRuns

LEMMA PairIsConcat ==
  ASSUME NEW a, NEW b
  PROVE  <<a>> \o <<b>> = <<a, b>>
<1>1. PICK S : S = {a, b}
  OBVIOUS
<1>2. PICK s, t : s = <<a>> /\ t = <<b>>
  OBVIOUS
<1>3. /\ s \in Seq(S) /\ Len(s) = 1 /\ s[1] = a
      /\ t \in Seq(S) /\ Len(t) = 1 /\ t[1] = b
  BY <1>1, <1>2
<1>4. /\ s \o t \in Seq(S) /\ Len(s \o t) = Len(s) + Len(t)
      /\ \A i \in 1..(Len(s) + Len(t)) : (s \o t)[i] = IF i <= Len(s) THEN s[i] ELSE t[i - Len(s)]
  BY <1>3, ConcatProperties
<1>5. PICK u : u = s \o t
  OBVIOUS
<1>6. /\ u \in Seq(S) /\ Len(u) = 2
      /\ \A i \in 1..2 : u[i] = IF i <= 1 THEN s[i] ELSE t[i - 1]
  BY <1>3, <1>4, <1>5
<1>7. u[1] = a /\ u[2] = b
  BY <1>3, <1>6
<1>8. PICK w : w = <<a, b>>
  OBVIOUS
<1>9. w \in Seq(S) /\ Len(w) = 2 /\ w[1] = a /\ w[2] = b
  BY <1>1, <1>8
<1>10. u = w
  BY <1>6, <1>7, <1>9, SeqEqual
<1>11. QED
  BY <1>2, <1>5, <1>8, <1>10

LEMMA NewSenderRuns ==
  ASSUME NEW list, NEW A, NEW i \in 1..Len(list), Len(list) \in Nat, Lasting \subseteq A
  PROVE  /\ Runs(NewSender(i), A, list)
         /\ Ahead(NewSender(i)) = {Make(Part("sender", i)), Make(Part("nick", i))}
<1> DEFINE B == A \cup {Part("sender", i), Part("nick", i)}
           M == {Make(Part("sender", i)), Make(Part("nick", i))}
<1>1. /\ Part("sender", i) \in Object(list) /\ Part("nick", i) \in Object(list)
      /\ Part("sender", i) \in Parts(list) /\ Part("nick", i) \in Parts(list)
  BY ObjectTypes DEF PartNames
<1>2. ForSending \subseteq B /\ "jid" \in MemberNames /\ "jid" \in OtherNames /\ Member("jid") \in A
  BY Names, LastingFacts
<1>3. Calm(UseMember("jid"), A, list) /\ Calm(IsDebug(i), B, list) /\ Calm(GetClient(i), B, list)
      /\ Calm(<<Use(Part("nick", i))>>, B, list)
  BY <1>1, <1>2, CalmMember, CalmCalls, CalmUse
<1>4. \A o \in Object(list) : o \in B => o \in A \/ Make(o) \in M
  OBVIOUS
<1>5. \A x \in M : x.do = "make"
  BY OfMake
<1>6. /\ Runs(<<Make(Part("sender", i)), Make(Part("nick", i))>>, A, list)
      /\ Ahead(<<Make(Part("sender", i)), Make(Part("nick", i))>>) = M
  <2>1. PICK p, q : p = <<Make(Part("sender", i))>> /\ q = <<Make(Part("nick", i))>>
    OBVIOUS
  <2>2. /\ Runs(p, A, list) /\ Ahead(p) = {Make(Part("sender", i))}
        /\ Runs(q, A, list) /\ Ahead(q) = {Make(Part("nick", i))}
    BY <1>1, <2>1, MakeRuns
  <2>3. \A x \in Ahead(p) : x.do = "make"
    BY <2>2, OfMake
  <2>4. \A o \in Object(list) : o \in A => o \in A \/ Make(o) \in Ahead(p)
    OBVIOUS
  <2>5. Runs(p \o q, A, list)
    BY <2>2, <2>3, <2>4, MakesFirst
  <2>6. Ahead(p \o q) = Ahead(p) \cup Ahead(q)
    BY <2>2, AheadConcat
  <2>7. p \o q = <<Make(Part("sender", i)), Make(Part("nick", i))>>
    BY <2>1, PairIsConcat
  <2>8. QED
    BY <2>2, <2>5, <2>6, <2>7
<1> HIDE DEF B, M
<1>7. PICK m : m = <<Make(Part("sender", i)), Make(Part("nick", i))>>
  OBVIOUS
<1>8. Runs(m, A, list) /\ Ahead(m) = M
  BY <1>6, <1>7
<1>9. Runs(UseMember("jid") \o m, A, list) /\ Ahead(UseMember("jid") \o m) = M
  <2>1. Runs(UseMember("jid") \o m, A, list) /\ Ahead(UseMember("jid") \o m) = Ahead(m)
    BY <1>3, <1>8, CalmFirst
  <2>2. QED
    BY <1>8, <2>1
<1>10. \A p, q : Runs(p, A, list) /\ Ahead(p) = M /\ Calm(q, B, list) =>
                   Runs(p \o q, A, list) /\ Ahead(p \o q) = M
  BY <1>4, <1>5, MakesThenCalm
<1>11. Runs(UseMember("jid") \o m \o IsDebug(i), A, list) /\ Ahead(UseMember("jid") \o m \o IsDebug(i)) = M
  BY <1>3, <1>9, <1>10
<1>12. /\ Runs(UseMember("jid") \o m \o IsDebug(i) \o GetClient(i), A, list)
       /\ Ahead(UseMember("jid") \o m \o IsDebug(i) \o GetClient(i)) = M
  BY <1>3, <1>10, <1>11
<1>13. PICK u : u = <<Use(Part("nick", i))>>
  OBVIOUS
<1>14. /\ Runs(UseMember("jid") \o m \o IsDebug(i) \o GetClient(i) \o u, A, list)
       /\ Ahead(UseMember("jid") \o m \o IsDebug(i) \o GetClient(i) \o u) = M
  BY <1>3, <1>10, <1>12, <1>13
<1>15. QED
  BY <1>7, <1>13, <1>14 DEF NewSender, M

\* sendToRoom, up to the insertion.
LEMMA SendToRoomRuns ==
  ASSUME NEW list, NEW A, NEW i \in 1..Len(list), Len(list) \in Nat, Lasting \subseteq A,
         NEW q, q = UseMember("destinations") \o NewSender(i) \o UseMember("map_guard") \o <<Emplace(i)>>
  PROVE  /\ Runs(q, A, list)
         /\ Ahead(q) = {Make(Part("sender", i)), Make(Part("nick", i)), Emplace(i)}
<1> DEFINE B == A \cup {Part("sender", i), Part("nick", i)}
           M == {Make(Part("sender", i)), Make(Part("nick", i))}
<1>1. Runs(NewSender(i), A, list) /\ Ahead(NewSender(i)) = M
  BY NewSenderRuns
<1>2. /\ "destinations" \in OtherNames /\ Member("destinations") \in A
      /\ "map_guard" \in OtherNames /\ Member("map_guard") \in B
      /\ ForSending \subseteq B
  BY Names, LastingFacts
<1>3. Calm(UseMember("destinations"), A, list) /\ Calm(UseMember("map_guard"), B, list)
  BY <1>2, CalmMember
<1>4. \A o \in Object(list) : o \in B => o \in A \/ Make(o) \in M
  OBVIOUS
<1>5. \A x \in M : x.do = "make"
  BY OfMake
<1>6. PICK e : e = <<Emplace(i)>>
  OBVIOUS
<1>7. Runs(e, B, list) /\ Ahead(e) = {Emplace(i)}
  <2>1. \A o \in Object(list) : Needs(Emplace(i), o) => o \in B
    BY <1>2, OfEmplace
  <2>2. Emplace(i) \in Item(list) /\ Emplace(i).do = "emplace"
    BY ItemTypes, OfEmplace
  <2>3. /\ Runs(<<Emplace(i)>>, B, list)
        /\ Ahead(<<Emplace(i)>>) = IF Emplace(i).do \in {"use", "send"} THEN {} ELSE {Emplace(i)}
    BY <2>1, <2>2, SingleRuns
  <2>4. QED
    BY <1>6, <2>2, <2>3
<1> HIDE DEF B, M
<1>8. PICK s : s = UseMember("destinations") \o NewSender(i)
  OBVIOUS
<1>9. Runs(s, A, list) /\ Ahead(s) = M
  BY <1>1, <1>3, <1>8, CalmFirst
<1>10. PICK t : t = s \o UseMember("map_guard")
  OBVIOUS
<1>11. Runs(t, A, list) /\ Ahead(t) = M
  BY <1>3, <1>4, <1>5, <1>9, <1>10, MakesThenCalm
<1>12. Runs(t \o e, A, list)
  BY <1>4, <1>5, <1>7, <1>11, MakesFirst
<1>13. Ahead(t \o e) = Ahead(t) \cup Ahead(e)
  BY <1>7, <1>11, AheadConcat
<1>14. q = t \o e
  BY <1>6, <1>8, <1>10
<1>15. QED
  BY <1>7, <1>11, <1>12, <1>13, <1>14 DEF M
-----------------------------------------------------------------------------
LEMMA EraseAhead ==
  ASSUME NEW list, NEW A, NEW B, NEW r,
         NEW p, NEW q, Runs(p, A, list), Ahead(p) = {Erase(r)}, Calm(q, B, list)
  PROVE  Ahead(p \o q) = {Erase(r)}
<1>1. Runs(q, B, list) /\ Ahead(q) = {}
  BY DEF Calm
<1>2. Ahead(p \o q) = Ahead(p) \cup Ahead(q)
  BY <1>1, AheadConcat
<1>3. QED
  BY <1>1, <1>2

\* What an erasure may end is needed by nothing behind it.
LEMMA EraseThenCalm ==
  ASSUME NEW list, Len(list) \in Nat, NEW A, Lasting \subseteq A, NEW r \in Rooms,
         NEW p, NEW q, Runs(p, A, list), Ahead(p) = {Erase(r)}, Calm(q, Lasting, list)
  PROVE  Runs(p \o q, A, list) /\ Ahead(p \o q) = {Erase(r)}
<1>1. Runs(q, Lasting, list) /\ Ahead(q) = {}
  BY DEF Calm
<1>2. \A o \in Object(list) : o \in Lasting => ~MayEnd(Erase(r), o, list)
  BY OfErase, LastingFacts
<1>3. Clear(Erase(r), q, list)
  BY <1>2, ClearCalm
<1>4. \A x \in Ahead(p) : Clear(x, q, list)
  BY <1>3
<1>5. \A o \in Object(list) : o \in Lasting => o \in A \/ Make(o) \in Ahead(p)
  OBVIOUS
<1>6. Runs(p \o q, A, list)
  BY <1>1, <1>4, <1>5, Concat
<1>7. Ahead(p \o q) = {Erase(r)}
  BY EraseAhead
<1>8. QED
  BY <1>6, <1>7

LEMMA LastingCalm ==
  ASSUME NEW list, Len(list) \in Nat, NEW A, Lasting \subseteq A
  PROVE  /\ \A n \in MemberNames : Calm(UseMember(n), A, list)
         /\ Calm(<<Use(Message)>>, A, list)
         /\ Calm(<<Send>>, A, list)
<1>1. \A n \in MemberNames \cup {"message"} : n \in OtherNames /\ Member(n) \in A
  BY LastingFacts
<1>2. \A n \in MemberNames : Calm(UseMember(n), A, list)
  BY <1>1, CalmMember
<1>3. Message \in Object(list) /\ Message \in A
  BY <1>1, ObjectTypes DEF Message
<1>4. ForSending \subseteq A
  BY LastingFacts
<1>5. QED
  BY <1>2, <1>3, <1>4, CalmUse, CalmSend

LEMMA RemoveRuns ==
  ASSUME NEW list, Len(list) \in Nat, NEW A, Lasting \subseteq A, NEW r \in Rooms,
         NEW argument \in Object(list), argument \in A
  PROVE  Runs(RemoveMucSender(r, argument), A, list) /\ Ahead(RemoveMucSender(r, argument)) = {Erase(r)}
<1> DEFINE p == <<Use(argument)>> \o UseMember("map_guard") \o UseMember("muc_senders")
<1>1. "map_guard" \in MemberNames /\ "muc_senders" \in MemberNames
  BY Names
<1>2. /\ Calm(UseMember("map_guard"), A, list) /\ Calm(UseMember("muc_senders"), A, list)
      /\ Calm(UseMember("map_guard"), Lasting, list) /\ Calm(UseMember("muc_senders"), Lasting, list)
      /\ Calm(<<Send>>, Lasting, list)
  BY <1>1, LastingCalm
<1>3. Calm(p, A, list)
  <2>1. Calm(<<Use(argument)>>, A, list)
    BY CalmUse
  <2>2. Calm(<<Use(argument)>> \o UseMember("map_guard"), A, list)
    BY <1>2, <2>1, CalmBoth
  <2>3. QED
    BY <1>2, <2>2, CalmBoth
<1>4. Runs(<<Erase(r)>>, A, list) /\ Ahead(<<Erase(r)>>) = {Erase(r)}
  <2>1. \A o \in ForSending \cup {Member("muc_senders")} : o \in A
    BY <1>1, LastingFacts
  <2>2. \A o \in Object(list) : Needs(Erase(r), o) => o \in A
    BY <2>1, OfErase
  <2>3. Erase(r) \in Item(list) /\ Erase(r).do = "erase"
    BY ItemTypes, OfErase
  <2>4. Runs(<<Erase(r)>>, A, list) /\ Ahead(<<Erase(r)>>) = IF Erase(r).do \in {"use", "send"} THEN {} ELSE {Erase(r)}
    BY <2>2, <2>3, SingleRuns
  <2>5. QED
    BY <2>3, <2>4
<1> HIDE DEF p
<1>5. PICK e, f : e = <<Erase(r)>> /\ f = <<Send>>
  OBVIOUS
<1>6. Runs(p \o e, A, list) /\ Ahead(p \o e) = {Erase(r)}
  <2>1. Runs(p \o e, A, list) /\ Ahead(p \o e) = Ahead(e)
    BY <1>3, <1>4, <1>5, CalmFirst
  <2>2. QED
    BY <1>4, <1>5, <2>1
<1>7. ASSUME NEW s, NEW t, Runs(s, A, list), Ahead(s) = {Erase(r)}, Calm(t, Lasting, list)
      PROVE  Runs(s \o t, A, list) /\ Ahead(s \o t) = {Erase(r)}
  <2>1. Runs(s \o t, A, list)
    BY <1>7, EraseThenCalm
  <2>2. Ahead(s \o t) = {Erase(r)}
    BY <1>7, EraseAhead
  <2>3. QED
    BY <2>1, <2>2
<1>8. Runs(p \o e \o UseMember("muc_senders"), A, list) /\ Ahead(p \o e \o UseMember("muc_senders")) = {Erase(r)}
  BY <1>2, <1>6, <1>7
<1>9. /\ Runs(p \o e \o UseMember("muc_senders") \o f, A, list)
      /\ Ahead(p \o e \o UseMember("muc_senders") \o f) = {Erase(r)}
  BY <1>2, <1>5, <1>7, <1>8
<1>10. /\ Runs(p \o e \o UseMember("muc_senders") \o f \o UseMember("map_guard"), A, list)
       /\ Ahead(p \o e \o UseMember("muc_senders") \o f \o UseMember("map_guard")) = {Erase(r)}
  BY <1>2, <1>7, <1>9
<1>11. QED
  BY <1>5, <1>10 DEF RemoveMucSender, p

LEMMA HandleMessageRuns ==
  ASSUME NEW list, Len(list) \in Nat, NEW A, Lasting \subseteq A, NEW r \in Rooms
  PROVE  Runs(HandleMessage(r), A, list) /\ Ahead(HandleMessage(r)) = {Erase(r)}
<1> DEFINE c == UseMember("debug") \o UseMember("client")
           w == RemoveMucSender(r, Message)
           l == Log(<<Use(Message)>>)
<1>1. "debug" \in MemberNames /\ "client" \in MemberNames
  BY Names
<1>2. Calm(c, A, list)
  BY <1>1, LastingCalm, CalmBoth
<1>3. Message \in Object(list) /\ Message \in A
  BY ObjectTypes, LastingFacts DEF Message
<1>4. Runs(w, A, list) /\ Ahead(w) = {Erase(r)}
  BY <1>3, RemoveRuns
<1>5. Calm(l, Lasting, list)
  <2>1. Calm(<<>>, Lasting, list)
    BY RunsNothing DEF Calm
  <2>2. Calm(<<Use(Message)>>, Lasting, list)
    BY LastingCalm
  <2>3. QED
    BY <2>1, <2>2 DEF Log
<1>6. HandleMessage(r) = c \o w \o l
  BY DEF HandleMessage, Message
<1> HIDE DEF c, w, l
<1>7. Runs(c \o w, A, list) /\ Ahead(c \o w) = Ahead(w)
  <2>1. Runs(c \o w, A, list)
    BY <1>2, <1>4, CalmFirst
  <2>2. Ahead(c \o w) = Ahead(w)
    BY <1>2, <1>4, CalmAhead
  <2>3. QED
    BY <2>1, <2>2
<1>8. Runs(c \o w \o l, A, list) /\ Ahead(c \o w \o l) = {Erase(r)}
  BY <1>4, <1>5, <1>7, EraseThenCalm
<1>9. QED
  BY <1>6, <1>8

LEMMA HandleMUCErrorRuns ==
  ASSUME NEW A, Lasting \subseteq A, Len(rooms) \in Nat,
         NEW i \in 1..Len(rooms), rooms[i] \in Rooms, HasSender(i, A)
  PROVE  Runs(HandleMUCError(i), A, rooms) /\ Ahead(HandleMUCError(i)) = {Erase(rooms[i])}
<1> DEFINE c == IsDebug(i) \o <<Use(Part("nick", i))>>
           w == RemoveMucSender(rooms[i], Part("nick", i))
<1>1. ForSending \subseteq A /\ Part("nick", i) \in Object(rooms) /\ Part("nick", i) \in A /\ Part("sender", i) \in A
  BY LastingFacts, ObjectTypes DEF PartNames, HasSender
<1>2. Calm(c, A, rooms)
  BY <1>1, CalmCalls, CalmUse, CalmBoth
<1>3. Runs(w, A, rooms) /\ Ahead(w) = {Erase(rooms[i])}
  BY <1>1, RemoveRuns
<1>4. HandleMUCError(i) = c \o w
  BY DEF HandleMUCError
<1> HIDE DEF c, w
<1>5. Runs(c \o w, A, rooms) /\ Ahead(c \o w) = Ahead(w)
  <2>1. Runs(c \o w, A, rooms)
    BY <1>2, <1>3, CalmFirst
  <2>2. Ahead(c \o w) = Ahead(w)
    BY <1>2, <1>3, CalmAhead
  <2>3. QED
    BY <2>1, <2>2
<1>6. QED
  BY <1>3, <1>4, <1>5

LEMMA HandleMUCMessageRuns ==
  ASSUME NEW A, Lasting \subseteq A, Len(rooms) \in Nat,
         NEW i \in 1..Len(rooms), rooms[i] \in Rooms, HasSender(i, A), NEW stop \in BOOLEAN
  PROVE  /\ Runs(HandleMUCMessage(i, stop), A, rooms)
         /\ Ahead(HandleMUCMessage(i, stop)) \subseteq {Erase(rooms[i])}
<1> DEFINE c == IsDebug(i) \o GetClient(i)
           w == IF stop THEN RemoveMucSender(rooms[i], Part("nick", i)) ELSE <<>>
<1>1. ForSending \subseteq A /\ Part("nick", i) \in Object(rooms) /\ Part("nick", i) \in A /\ Part("sender", i) \in A
  BY LastingFacts, ObjectTypes DEF PartNames, HasSender
<1>2. Calm(c, A, rooms)
  BY <1>1, CalmCalls, CalmBoth
<1>3. Runs(w, A, rooms) /\ Ahead(w) \subseteq {Erase(rooms[i])}
  <2>1. CASE stop
    <3>1. w = RemoveMucSender(rooms[i], Part("nick", i))
      BY <2>1
    <3>2. QED
      BY <1>1, <3>1, RemoveRuns
  <2>2. CASE ~stop
    <3>1. w = <<>>
      BY <2>2
    <3>2. QED
      BY <3>1, RunsNothing
  <2>3. QED
    BY <2>1, <2>2
<1>4. HandleMUCMessage(i, stop) = c \o w
  BY DEF HandleMUCMessage
<1> HIDE DEF c, w
<1>5. Runs(c \o w, A, rooms) /\ Ahead(c \o w) = Ahead(w)
  <2>1. Runs(c \o w, A, rooms)
    BY <1>2, <1>3, CalmFirst
  <2>2. Ahead(c \o w) = Ahead(w)
    BY <1>2, <1>3, CalmAhead
  <2>3. QED
    BY <2>1, <2>2
<1>6. QED
  BY <1>3, <1>4, <1>5
\* Constructions, uses and sends, with one last thing of any kind.
LEMMA TameRuns ==
  ASSUME NEW list, NEW A, NEW q \in Seq(Item(list)),
         \A k \in 1..(Len(q) - 1) : q[k].do \in {"use", "send", "make"},
         \A k \in 1..Len(q), o \in Object(list) :
           Needs(q[k], o) => o \in A \/ \E j \in 1..(k - 1) : q[j] = Make(o)
  PROVE  Runs(q, A, list)
<1>1. Len(q) \in Nat
  BY LenProperties
<1>2. ASSUME NEW k \in 1..Len(q), NEW j \in 1..(k - 1)
      PROVE  ~Forbids(q[j], q[k], list)
  <2>1. j \in 1..(Len(q) - 1)
    BY <1>1
  <2>2. QED
    BY <2>1 DEF Forbids, MayEnd, MayEndMore
<1>3. QED
  BY <1>2 DEF Runs, Feasible

LEMMA SessionRuns ==
  ASSUME NEW list, NEW A, ForSending \subseteq A
  PROVE  /\ Runs(ThroughSession, A, list)
         /\ Ahead(ThroughSession) = {Make(Session), End(Session)}
<1>1. Session \in Object(list) /\ Session # Message
  BY ObjectTypes, Distinct DEF Session, Message
<1>2. /\ Make(Session) \in Item(list) /\ Use(Session) \in Item(list)
      /\ Send \in Item(list) /\ End(Session) \in Item(list)
  BY <1>1, ItemTypes
<1>3. PICK q : q = ThroughSession
  OBVIOUS
<1>4. /\ q \in Seq(Item(list)) /\ Len(q) = 4
      /\ q[1] = Make(Session) /\ q[2] = Use(Session) /\ q[3] = Send /\ q[4] = End(Session)
  BY <1>2, <1>3 DEF ThroughSession
<1>5. /\ Make(Session).do = "make" /\ \A o : ~Needs(Make(Session), o)
      /\ Use(Session).do = "use" /\ \A o : Needs(Use(Session), o) <=> (o = Session)
      /\ Send.do = "send" /\ \A o : Needs(Send, o) <=> (o \in ForSending)
      /\ End(Session).do = "end" /\ \A o : Needs(End(Session), o) <=> (o = Session)
  BY OfMake, OfUse, OfSend, OfEnd
<1>6. \A k \in 1..4 : k = 1 \/ k = 2 \/ k = 3 \/ k = 4
  OBVIOUS
<1>7. \A k \in 1..(Len(q) - 1) : q[k].do \in {"use", "send", "make"}
  BY <1>4, <1>5, <1>6
<1>8. ASSUME NEW k \in 1..Len(q), NEW o \in Object(list), Needs(q[k], o)
      PROVE  o \in A \/ \E j \in 1..(k - 1) : q[j] = Make(o)
  <2>1. CASE k = 1
    BY <1>4, <1>5, <1>8, <2>1
  <2>2. CASE k = 2 \/ k = 4
    <3>1. o = Session /\ 1 \in 1..(k - 1) /\ q[1] = Make(o)
      BY <1>4, <1>5, <1>8, <2>2
    <3>2. QED
      BY <3>1
  <2>3. CASE k = 3
    BY <1>4, <1>5, <1>8, <2>3
  <2>4. QED
    BY <1>4, <1>6, <2>1, <2>2, <2>3
<1>9. Runs(q, A, list)
  BY <1>4, <1>7, <1>8, TameRuns
<1>10. Ahead(q) = {Make(Session), End(Session)}
  <2>1. /\ q[1] \in Ahead(q) /\ q[4] \in Ahead(q)
    BY <1>4, <1>5 DEF Ahead
  <2>2. ASSUME NEW x \in Ahead(q) PROVE x = q[1] \/ x = q[4]
    <3>1. PICK k \in 1..Len(q) : x = q[k] /\ q[k].do \notin {"use", "send"}
      BY DEF Ahead
    <3>2. k # 2 /\ k # 3
      BY <1>4, <1>5, <3>1
    <3>3. QED
      BY <1>4, <1>6, <3>1, <3>2
  <2>3. QED
    BY <1>4, <2>1, <2>2
<1>11. QED
  BY <1>3, <1>9, <1>10

LEMMA HandlePresenceRuns ==
  ASSUME NEW list, NEW A, Lasting \subseteq A, Len(list) \in Nat,
         NEW i \in 1..Len(list), HasSender(i, A), Part("room", i) \in A
  PROVE  /\ Runs(HandlePresence(i), A, list)
         /\ Ahead(HandlePresence(i)) = {Make(Session), End(Session)}
<1> DEFINE n == <<Use(Part("nick", i))>>
           r == <<Use(Part("room", i))>>
           s == <<Send>>
           c == IsDebug(i) \o n \o GetMessage(i) \o r \o s \o GetClient(i) \o n
<1>1. /\ ForSending \subseteq A /\ Part("sender", i) \in A
      /\ Part("sender", i) \in Object(list)
      /\ Part("nick", i) \in Object(list) /\ Part("nick", i) \in A
      /\ Part("room", i) \in Object(list) /\ Part("room", i) \in A
  BY LastingFacts, ObjectTypes DEF PartNames, HasSender
<1>2. /\ Calm(IsDebug(i), A, list) /\ Calm(GetClient(i), A, list)
      /\ Calm(n, A, list) /\ Calm(r, A, list)
  BY <1>1, CalmCalls, CalmUse
<1>3. Calm(s, A, list) /\ Calm(GetMessage(i), A, list)
  <2>1. Calm(UseMember("text"), A, list) /\ Calm(s, A, list)
    BY Names, LastingCalm
  <2>2. Calm(<<Use(Part("sender", i))>>, A, list)
    BY <1>1, CalmUse
  <2>3. QED
    BY <2>1, <2>2, CalmBoth DEF GetMessage
<1> HIDE DEF n, r, s
<1>4. Calm(c, A, list)
  <2>1. Calm(IsDebug(i) \o n \o GetMessage(i), A, list)
    BY <1>2, <1>3, CalmBoth
  <2>2. Calm(IsDebug(i) \o n \o GetMessage(i) \o r \o s, A, list)
    BY <1>2, <1>3, <2>1, CalmBoth
  <2>3. Calm(IsDebug(i) \o n \o GetMessage(i) \o r \o s \o GetClient(i), A, list)
    BY <1>2, <2>2, CalmBoth
  <2>4. QED
    BY <1>2, <2>3, CalmBoth
<1>5. Runs(ThroughSession, A, list) /\ Ahead(ThroughSession) = {Make(Session), End(Session)}
  BY <1>1, SessionRuns
<1>6. HandlePresence(i) = c \o ThroughSession
  BY DEF HandlePresence, n, r, s
<1> HIDE DEF c
<1>7. Runs(c \o ThroughSession, A, list)
  BY <1>4, <1>5, CalmFirst
<1>8. Ahead(c \o ThroughSession) = Ahead(ThroughSession)
  BY <1>4, <1>5, CalmAhead
<1>9. QED
  BY <1>5, <1>6, <1>7, <1>8

\* The end of onConnect.
LEMMA LastLookCalm ==
  ASSUME NEW list, NEW A, Lasting \subseteq A, Len(list) \in Nat,
         NEW q, q = UseMember("map_guard") \o UseMember("muc_senders")
                      \o (IF \A r \in Rooms : muc_senders[r] = 0 THEN <<Send>> ELSE <<>>)
                      \o UseMember("map_guard")
  PROVE  Calm(q, A, list)
<1> DEFINE d == IF \A r \in Rooms : muc_senders[r] = 0 THEN <<Send>> ELSE <<>>
<1>1. "map_guard" \in MemberNames /\ "muc_senders" \in MemberNames
  BY Names
<1>2. Calm(UseMember("map_guard"), A, list) /\ Calm(UseMember("muc_senders"), A, list) /\ Calm(<<Send>>, A, list)
  BY <1>1, LastingCalm
<1>3. Calm(<<>>, A, list)
  BY RunsNothing DEF Calm
<1>4. Calm(d, A, list)
  BY <1>2, <1>3
<1> HIDE DEF d
<1>5. Calm(UseMember("map_guard") \o UseMember("muc_senders"), A, list)
  BY <1>2, CalmBoth
<1>6. Calm(UseMember("map_guard") \o UseMember("muc_senders") \o d, A, list)
  BY <1>4, <1>5, CalmBoth
<1>7. Calm(UseMember("map_guard") \o UseMember("muc_senders") \o d \o UseMember("map_guard"), A, list)
  BY <1>2, <1>6, CalmBoth
<1>8. QED
  BY <1>7 DEF d
\* What emplace does when it takes the sender.
LEMMA StartRuns ==
  ASSUME NEW list, NEW A, ForSending \subseteq A, Len(list) \in Nat,
         NEW i \in 1..Len(list), HasSender(i, A)
  PROVE  /\ Runs(StartSender(i) \o <<Release(i, "local")>>, A, list)
         /\ Ahead(StartSender(i) \o <<Release(i, "local")>>) =
              {Make(Part("room", i)), Release(i, "local")}
<1> DEFINE c == IsDebug(i) \o GetClient(i)
<1>1. /\ Part("sender", i) \in A /\ Part("nick", i) \in A
      /\ Part("nick", i) \in Object(list) /\ Part("room", i) \in Object(list) /\ Part("room", i) \in Parts(list)
  BY ObjectTypes DEF PartNames, HasSender
<1>2. Calm(c, A, list)
  BY <1>1, CalmCalls, CalmBoth
<1>3. /\ Use(Part("nick", i)) \in Item(list) /\ Make(Part("room", i)) \in Item(list)
      /\ Use(Part("room", i)) \in Item(list) /\ Send \in Item(list)
      /\ Release(i, "local") \in Item(list)
  BY <1>1, ItemTypes DEF Holder
<1>4. /\ Use(Part("nick", i)).do = "use" /\ \A o : Needs(Use(Part("nick", i)), o) <=> (o = Part("nick", i))
      /\ Make(Part("room", i)).do = "make" /\ \A o : ~Needs(Make(Part("room", i)), o)
      /\ Use(Part("room", i)).do = "use" /\ \A o : Needs(Use(Part("room", i)), o) <=> (o = Part("room", i))
      /\ Send.do = "send" /\ \A o : Needs(Send, o) <=> (o \in ForSending)
  BY OfUse, OfMake, OfSend
<1>5. PICK q : q = <<Use(Part("nick", i)), Make(Part("room", i)), Use(Part("room", i)), Send>>
  OBVIOUS
<1>6. /\ q \in Seq(Item(list)) /\ Len(q) = 4
      /\ q[1] = Use(Part("nick", i)) /\ q[2] = Make(Part("room", i))
      /\ q[3] = Use(Part("room", i)) /\ q[4] = Send
  BY <1>3, <1>5
<1>7. \A k \in 1..4 : k = 1 \/ k = 2 \/ k = 3 \/ k = 4
  OBVIOUS
<1>8. Runs(q, A, list)
  <2>1. \A k \in 1..(Len(q) - 1) : q[k].do \in {"use", "send", "make"}
    BY <1>4, <1>6, <1>7
  <2>2. ASSUME NEW k \in 1..Len(q), NEW o \in Object(list), Needs(q[k], o)
        PROVE  o \in A \/ \E j \in 1..(k - 1) : q[j] = Make(o)
    <3>1. CASE k = 3
      <4>1. o = Part("room", i) /\ 2 \in 1..(k - 1) /\ q[2] = Make(o)
        BY <1>4, <1>6, <2>2, <3>1
      <4>2. QED
        BY <4>1
    <3>2. CASE k # 3
      BY <1>1, <1>4, <1>6, <1>7, <2>2, <3>2
    <3>3. QED
      BY <3>1, <3>2
  <2>3. QED
    BY <1>6, <2>1, <2>2, TameRuns
<1>9. Ahead(q) = {Make(Part("room", i))}
  <2>1. q[2] \in Ahead(q)
    BY <1>4, <1>6 DEF Ahead
  <2>2. ASSUME NEW x \in Ahead(q) PROVE x = q[2]
    <3>1. PICK k \in 1..Len(q) : x = q[k] /\ q[k].do \notin {"use", "send"}
      BY DEF Ahead
    <3>2. k = 2
      BY <1>4, <1>6, <1>7, <3>1
    <3>3. QED
      BY <3>1, <3>2
  <2>3. QED
    BY <1>6, <2>1, <2>2
<1>10. PICK e : e = <<Release(i, "local")>>
  OBVIOUS
<1>11. Runs(e, A, list) /\ Ahead(e) = {Release(i, "local")}
  <2>1. \A o \in Object(list) : Needs(Release(i, "local"), o) => o \in A
    BY <1>1, OfRelease
  <2>2. Release(i, "local").do = "release"
    BY OfRelease
  <2>3. QED
    BY <1>3, <1>10, <2>1, <2>2, SingleRuns
<1>12. StartSender(i) = c \o q
  BY <1>5 DEF StartSender
<1> HIDE DEF c
<1>13. Runs(c \o q, A, list)
  BY <1>2, <1>8, CalmFirst
<1>14. Ahead(c \o q) = Ahead(q)
  BY <1>2, <1>8, CalmAhead
<1>15. \A x \in Ahead(c \o q) : x.do = "make"
  BY <1>4, <1>9, <1>14
<1>16. \A o \in Object(list) : o \in A => o \in A \/ Make(o) \in Ahead(c \o q)
  OBVIOUS
<1>17. Runs((c \o q) \o e, A, list)
  BY <1>11, <1>13, <1>15, <1>16, MakesFirst
<1>18. Ahead((c \o q) \o e) = Ahead(c \o q) \cup Ahead(e)
  BY <1>11, <1>13, AheadConcat
<1>19. QED
  BY <1>9, <1>10, <1>11, <1>12, <1>14, <1>17, <1>18

\* ~MUCSender and its members.
LEMMA DestroySenderRuns ==
  ASSUME NEW list, ForSending \subseteq alive, Len(list) \in Nat,
         NEW i \in 1..Len(list), HasSender(i, alive)
  PROVE  /\ Runs(DestroySender(i), alive, list)
         /\ Ahead(DestroySender(i)) = {End(Part(p, i)) : p \in {n \in PartNames : n # "room" \/ Part(n, i) \in alive}}
<1> DEFINE nick == Part("nick", i)
           sender == Part("sender", i)
           room == Part("room", i)
           d == IF room \in alive THEN <<Use(room), Send, End(room)>> ELSE <<>>
<1>1. /\ sender \in alive /\ nick \in alive
      /\ nick \in Object(list) /\ room \in Object(list) /\ sender \in Object(list)
      /\ nick # Message /\ room # Message /\ sender # Message
      /\ nick # sender /\ nick # room /\ sender # room
  BY ObjectTypes, Distinct DEF PartNames, HasSender, Message
<1>2. /\ Use(room) \in Item(list) /\ Send \in Item(list) /\ End(room) \in Item(list)
      /\ End(nick) \in Item(list) /\ End(sender) \in Item(list)
  BY <1>1, ItemTypes
<1>3. /\ Use(room).do = "use" /\ \A o : Needs(Use(room), o) <=> (o = room)
      /\ Send.do = "send" /\ \A o : Needs(Send, o) <=> (o \in ForSending)
  BY OfUse, OfSend
<1>4. \A o, n : End(o).do = "end" /\ (Needs(End(o), n) <=> (n = o)) /\ (MayEnd(End(o), n, list) <=> (n = o))
  BY OfEnd
<1>5. Calm(IsDebug(i), alive, list)
  BY <1>1, CalmCalls
<1> DEFINE D == IF room \in alive THEN {End(room)} ELSE {}
<1>6. Runs(d, alive, list) /\ Ahead(d) = D
  <2>1. CASE room \in alive
    <3>1. PICK q : q = <<Use(room), Send, End(room)>>
      OBVIOUS
    <3>2. q \in Seq(Item(list)) /\ Len(q) = 3 /\ q[1] = Use(room) /\ q[2] = Send /\ q[3] = End(room)
      BY <1>2, <3>1
    <3>3. \A k \in 1..3 : k = 1 \/ k = 2 \/ k = 3
      OBVIOUS
    <3>4. \A k \in 1..(Len(q) - 1) : q[k].do \in {"use", "send", "make"}
      BY <1>3, <3>2, <3>3
    <3>5. \A k \in 1..Len(q), o \in Object(list) : Needs(q[k], o) => o \in alive
      BY <1>3, <1>4, <2>1, <3>2, <3>3
    <3>6. Runs(q, alive, list)
      BY <3>2, <3>4, <3>5, TameRuns
    <3>7. Ahead(q) = {End(room)}
      <4>1. q[3] \in Ahead(q)
        BY <1>4, <3>2 DEF Ahead
      <4>2. ASSUME NEW x \in Ahead(q) PROVE x = q[3]
        <5>1. PICK k \in 1..Len(q) : x = q[k] /\ q[k].do \notin {"use", "send"}
          BY DEF Ahead
        <5>2. k = 3
          BY <1>3, <3>2, <3>3, <5>1
        <5>3. QED
          BY <5>1, <5>2
      <4>3. QED
        BY <3>2, <4>1, <4>2
    <3>8. d = q
      BY <2>1, <3>1
    <3>9. QED
      BY <2>1, <3>6, <3>7, <3>8
  <2>2. CASE room \notin alive
    <3>1. d = <<>>
      BY <2>2
    <3>2. QED
      BY <2>2, <3>1, RunsNothing
  <2>3. QED
    BY <2>1, <2>2
<1>7. PICK e : e = <<End(nick), End(sender)>>
  OBVIOUS
<1>8. e \in Seq(Item(list)) /\ Len(e) = 2 /\ e[1] = End(nick) /\ e[2] = End(sender)
  BY <1>2, <1>7
<1>9. Runs(e, alive, list) /\ Ahead(e) = {End(nick), End(sender)}
  <2>1. \A k \in 1..2 : k = 1 \/ k = 2
    OBVIOUS
  <2>2. \A k \in 1..Len(e), o \in Object(list) : Needs(e[k], o) => o \in alive
    BY <1>1, <1>4, <1>8, <2>1
  <2>3. ~Forbids(End(nick), End(sender), list)
    BY <1>1, <1>4 DEF Forbids
  <2>4. \A k \in 1..Len(e) : \A j \in 1..(k - 1) : j = 1 /\ k = 2
    BY <1>8
  <2>5. \A k \in 1..Len(e) : \A j \in 1..(k - 1) : ~Forbids(e[j], e[k], list)
    BY <1>8, <2>3, <2>4
  <2>6. Runs(e, alive, list)
    BY <1>8, <2>2, <2>5 DEF Runs, Feasible
  <2>7. e[1] \in Ahead(e) /\ e[2] \in Ahead(e)
    BY <1>4, <1>8 DEF Ahead
  <2>8. \A x \in Ahead(e) : x = e[1] \/ x = e[2]
    BY <1>8, <2>1 DEF Ahead
  <2>9. QED
    BY <1>8, <2>6, <2>7, <2>8
<1>10. DestroySender(i) = IsDebug(i) \o d \o e
  BY <1>7 DEF DestroySender
<1>11. {End(Part(p, i)) : p \in {n \in PartNames : n # "room" \/ Part(n, i) \in alive}} = D \cup {End(nick), End(sender)}
  BY DEF PartNames
<1>12. \A x \in D : x = End(room)
  OBVIOUS
<1> HIDE DEF d, D, nick, sender, room
<1>13. PICK c : c = IsDebug(i) \o d
  OBVIOUS
<1>14. Runs(c, alive, list)
  BY <1>5, <1>6, <1>13, CalmFirst
<1>15. Ahead(c) = D
  BY <1>5, <1>6, <1>13, CalmAhead
<1>16. Clear(End(room), e, list)
  <2>1. ~Forbids(End(room), End(nick), list) /\ ~Forbids(End(room), End(sender), list)
    BY <1>1, <1>4 DEF Forbids
  <2>2. QED
    BY <1>8, <2>1 DEF Clear
<1>17. \A x \in Ahead(c) : Clear(x, e, list)
  BY <1>12, <1>15, <1>16
<1>18. Runs(c \o e, alive, list)
  BY <1>9, <1>14, <1>17, Concat
<1>19. Ahead(c \o e) = Ahead(c) \cup Ahead(e)
  BY <1>9, <1>14, AheadConcat
<1>20. QED
  BY <1>9, <1>10, <1>11, <1>13, <1>15, <1>18, <1>19
-----------------------------------------------------------------------------
(***************************************************************************)
(* ~Messenger.                                                             *)
(***************************************************************************)
LEMMA MemberLists ==
  ASSUME NEW names \in {MembersToMap, MembersBehindMap}
  PROVE  /\ names \in Seq(MemberNames) /\ Len(names) \in Nat
         /\ \A j, k \in 1..Len(names) : names[j] = names[k] => j = k
         /\ {names[k] : k \in 1..Len(names)} = Range(names)
<1>1. CASE names = MembersToMap
  <2>1. /\ names \in Seq(MemberNames) /\ Len(names) = 7
        /\ \A j, k \in 1..7 : names[j] = names[k] => j = k
    BY <1>1, Names DEF MembersToMap
  <2>2. DOMAIN names = 1..7
    BY <2>1
  <2>3. QED
    BY <2>1, <2>2 DEF Range
<1>2. CASE names = MembersBehindMap
  <2>1. /\ names \in Seq(MemberNames) /\ Len(names) = 1
        /\ \A j, k \in 1..1 : names[j] = names[k] => j = k
    BY <1>2, Names DEF MembersBehindMap
  <2>2. DOMAIN names = 1..1
    BY <2>1
  <2>3. QED
    BY <2>1, <2>2 DEF Range
<1>3. QED
  BY <1>1, <1>2

LEMMA EndsRuns ==
  ASSUME NEW list, NEW A, Lasting \subseteq A, Len(list) \in Nat,
         NEW names \in {MembersToMap, MembersBehindMap}
  PROVE  /\ Runs(EndsOf(names), A, list)
         /\ Ahead(EndsOf(names)) = {End(Member(n)) : n \in Range(names)}
         /\ \A x : (~MayEndMore(x) \/ \A n \in Range(names) : ~MayEnd(x, Member(n), list))
                     => Clear(x, EndsOf(names), list)
<1>1. /\ names \in Seq(MemberNames) /\ Len(names) \in Nat
      /\ \A j, k \in 1..Len(names) : names[j] = names[k] => j = k
      /\ {names[k] : k \in 1..Len(names)} = Range(names)
  BY MemberLists
<1>2. PICK q : q = EndsOf(names)
  OBVIOUS
<1>3. \A k \in 1..Len(names) : (Len(names) - k) + 1 \in 1..Len(names)
                                 /\ Reverse(names)[k] = names[(Len(names) - k) + 1]
  BY <1>1 DEF Reverse
<1>4. q = [k \in 1..Len(names) |-> End(Member(Reverse(names)[k]))]
  BY <1>2 DEF EndsOf
<1>5. \A k \in 1..Len(names) : q[k] = End(Member(names[(Len(names) - k) + 1]))
  BY <1>3, <1>4
<1>6. ASSUME NEW n \in MemberNames
      PROVE  /\ Member(n) \in Object(list) /\ Member(n) \in A /\ Member(n) # Message
             /\ End(Member(n)) \in Item(list)
  <2>1. n \in OtherNames /\ Member(n) \in A
    BY LastingFacts
  <2>2. n # "message"
    BY Names
  <2>3. Member(n) # Message
    BY <2>2, Distinct DEF Message
  <2>4. Member(n) \in Object(list)
    BY <2>1, ObjectTypes
  <2>5. QED
    BY <2>1, <2>3, <2>4, ItemTypes
<1>7. \A k \in 1..Len(names) : names[k] \in MemberNames /\ names[k] \in Range(names)
  BY <1>1
<1>8. \A k \in 1..Len(names) : q[k] \in Item(list)
  BY <1>3, <1>5, <1>6, <1>7
<1>9. q \in Seq(Item(list)) /\ Len(q) = Len(names)
  <2>1. q \in [1..Len(names) -> Item(list)]
    BY <1>4, <1>8
  <2>2. QED
    BY <1>1, <2>1, SeqDef, LenProperties
<1>10. \A o, n : End(o).do = "end" /\ (Needs(End(o), n) <=> (n = o)) /\ (MayEnd(End(o), n, list) <=> (n = o))
  BY OfEnd
<1>11. Runs(q, A, list)
  <2>1. ASSUME NEW k \in 1..Len(q), NEW o \in Object(list), Needs(q[k], o)
        PROVE  o \in A
    <3>1. PICK m \in 1..Len(names) : q[k] = End(Member(names[m]))
      BY <1>3, <1>5, <1>9
    <3>2. o = Member(names[m])
      BY <1>10, <2>1, <3>1
    <3>3. QED
      BY <1>6, <1>7, <3>2
  <2>2. ASSUME NEW k \in 1..Len(q), NEW j \in 1..(k - 1)
        PROVE  ~Forbids(q[j], q[k], list)
    <3>1. j \in 1..Len(names) /\ k \in 1..Len(names) /\ j # k
      BY <1>1, <1>9
    <3>2. PICK a : a = names[(Len(names) - j) + 1]
      OBVIOUS
    <3>3. PICK b : b = names[(Len(names) - k) + 1]
      OBVIOUS
    <3>4. (Len(names) - j) + 1 # (Len(names) - k) + 1
      BY <1>1, <3>1
    <3>5. a # b
      BY <1>1, <1>3, <3>1, <3>2, <3>3, <3>4
    <3>6. Member(a) # Member(b)
      BY <3>5, Distinct
    <3>7. q[j] = End(Member(a)) /\ q[k] = End(Member(b))
      BY <1>5, <3>1, <3>2, <3>3
    <3>8. ~Forbids(End(Member(a)), End(Member(b)), list)
      BY <1>10, <3>6 DEF Forbids
    <3>9. QED
      BY <3>7, <3>8
  <2>3. QED
    BY <1>9, <2>1, <2>2 DEF Runs, Feasible
<1>12. Ahead(q) = {End(Member(n)) : n \in Range(names)}
  <2>1. ASSUME NEW x \in Ahead(q) PROVE x \in {End(Member(n)) : n \in Range(names)}
    <3>1. PICK k \in 1..Len(q) : x = q[k]
      BY DEF Ahead
    <3>2. QED
      BY <1>3, <1>5, <1>7, <1>9, <3>1
  <2>2. ASSUME NEW n \in Range(names) PROVE End(Member(n)) \in Ahead(q)
    <3>1. PICK m \in 1..Len(names) : n = names[m]
      BY <1>1
    <3>2. PICK k : k = (Len(names) - m) + 1
      OBVIOUS
    <3>3. k \in 1..Len(names) /\ (Len(names) - k) + 1 = m
      BY <1>1, <3>2
    <3>4. q[k] = End(Member(n))
      BY <1>5, <3>1, <3>3
    <3>5. QED
      BY <1>9, <1>10, <3>3, <3>4 DEF Ahead
  <2>3. QED
    BY <2>1, <2>2
<1>13. ASSUME NEW x, ~MayEndMore(x) \/ \A n \in Range(names) : ~MayEnd(x, Member(n), list)
       PROVE  Clear(x, q, list)
  <2>1. CASE ~MayEndMore(x)
    BY <2>1, ClearTame DEF MayEndMore
  <2>2. CASE \A n \in Range(names) : ~MayEnd(x, Member(n), list)
    <3>1. ASSUME NEW k \in 1..Len(q) PROVE ~Forbids(x, q[k], list)
      <4>1. PICK m \in 1..Len(names) : q[k] = End(Member(names[m]))
        BY <1>3, <1>5, <1>9
      <4>2. ~MayEnd(x, Member(names[m]), list)
        BY <1>7, <2>2
      <4>3. ~Forbids(x, End(Member(names[m])), list)
        BY <1>10, <4>2 DEF Forbids
      <4>4. QED
        BY <4>1, <4>3
    <3>2. QED
      BY <3>1 DEF Clear
  <2>3. QED
    BY <1>13, <2>1, <2>2
<1>14. QED
  BY <1>2, <1>11, <1>12, <1>13

LEMMA ErasuresRun ==
  ASSUME NEW list, NEW A, Lasting \subseteq A, Len(list) \in Nat, NEW filed \in Seq(Rooms),
         NEW q, q = [k \in 1..Len(filed) |-> Erase(filed[k])]
  PROVE  /\ Runs(q, A, list)
         /\ Ahead(q) = {Erase(filed[k]) : k \in 1..Len(filed)}
         /\ \A n \in MemberNames : n \notin {"debug", "result", "client", "muc_senders"}
              => Clear(End(Member(n)), q, list)
<1>1. Len(filed) \in Nat
  BY LenProperties
<1>2. \A k \in 1..Len(filed) : q[k] = Erase(filed[k]) /\ filed[k] \in Rooms
  OBVIOUS
<1>3. \A k \in 1..Len(filed) : q[k] \in Item(list)
  BY <1>2, ItemTypes
<1>4. q \in Seq(Item(list)) /\ Len(q) = Len(filed)
  <2>1. q \in [1..Len(filed) -> Item(list)]
    BY <1>3
  <2>2. QED
    BY <1>1, <2>1, SeqDef, LenProperties
<1>5. ForSending \cup {Member("muc_senders")} \subseteq Lasting
  BY Names, LastingFacts
<1>6. ASSUME NEW k \in 1..Len(q)
      PROVE  /\ q[k].do = "erase"
             /\ \A o : Needs(q[k], o) => o \in ForSending \cup {Member("muc_senders")}
             /\ \A o \in Lasting : ~MayEnd(q[k], o, list)
  <2>1. q[k] = Erase(filed[k]) /\ filed[k] \in Rooms
    BY <1>2, <1>4
  <2>2. \A o \in Lasting : ~MayEnd(Erase(filed[k]), o, list)
    BY OfErase, LastingFacts
  <2>3. QED
    BY <2>1, <2>2, OfErase
<1>7. Runs(q, A, list)
  <2>1. \A k \in 1..Len(q), o \in Object(list) : Needs(q[k], o) => o \in A
    BY <1>5, <1>6
  <2>2. ASSUME NEW k \in 1..Len(q), NEW j \in 1..(k - 1)
        PROVE  ~Forbids(q[j], q[k], list)
    <3>1. j \in 1..Len(q)
      BY <1>1, <1>4
    <3>2. q[k].do # "make"
      BY <1>6
    <3>3. QED
      BY <1>5, <1>6, <3>1, <3>2 DEF Forbids
  <2>3. QED
    BY <1>4, <2>1, <2>2 DEF Runs, Feasible
<1>8. Ahead(q) = {Erase(filed[k]) : k \in 1..Len(filed)}
  BY <1>2, <1>4, <1>6 DEF Ahead
<1>9. ASSUME NEW n \in MemberNames, n \notin {"debug", "result", "client", "muc_senders"}
      PROVE  Clear(End(Member(n)), q, list)
  <2>1. Member(n) \notin ForSending \cup {Member("muc_senders")}
    BY <1>9, Distinct DEF ForSending
  <2>2. \A o : MayEnd(End(Member(n)), o, list) => o = Member(n)
    BY OfEnd
  <2>3. \A k \in 1..Len(q) : ~Forbids(End(Member(n)), q[k], list)
    BY <1>6, <2>1, <2>2 DEF Forbids
  <2>4. QED
    BY <2>3 DEF Clear
<1>10. QED
  BY <1>7, <1>8, <1>9

LEMMA DestroyRuns ==
  ASSUME NEW list, NEW A, Lasting \subseteq A, Len(list) \in Nat, NEW filed \in Seq(Rooms),
         NEW q, q = UseMember("debug") \o <<Send>> \o EndsOf(MembersBehindMap)
                      \o [k \in 1..Len(filed) |-> Erase(filed[k])] \o EndsOf(MembersToMap)
  PROVE  /\ Runs(q, A, list)
         /\ Ahead(q) = {End(Member(n)) : n \in MemberNames} \cup {Erase(filed[k]) : k \in 1..Len(filed)}
<1>1. PICK b, e, m, s :
        /\ b = EndsOf(MembersBehindMap)
        /\ e = [k \in 1..Len(filed) |-> Erase(filed[k])]
        /\ m = EndsOf(MembersToMap)
        /\ s = <<Send>>
  OBVIOUS
<1>2. PICK c : c = UseMember("debug") \o s
  OBVIOUS
<1>3. q = c \o b \o e \o m
  BY <1>1, <1>2
<1>4. Calm(c, A, list)
  <2>1. "debug" \in MemberNames
    BY Names
  <2>2. Calm(UseMember("debug"), A, list) /\ Calm(s, A, list)
    BY <1>1, <2>1, LastingCalm
  <2>3. QED
    BY <1>2, <2>2, CalmBoth
<1>5. Range(MembersBehindMap) = {"map_guard"} /\ "map_guard" \notin Range(MembersToMap)
  BY DEF Range, MembersBehindMap, MembersToMap
<1>6. /\ Runs(b, A, list)
      /\ Ahead(b) = {End(Member(n)) : n \in Range(MembersBehindMap)}
  BY <1>1, EndsRuns
<1>7. /\ Runs(m, A, list)
      /\ Ahead(m) = {End(Member(n)) : n \in Range(MembersToMap)}
      /\ \A x : (~MayEndMore(x) \/ \A n \in Range(MembersToMap) : ~MayEnd(x, Member(n), list))
                     => Clear(x, m, list)
  BY <1>1, EndsRuns
<1>8. /\ Runs(e, A, list)
      /\ Ahead(e) = {Erase(filed[k]) : k \in 1..Len(filed)}
      /\ Clear(End(Member("map_guard")), e, list)
  <2>1. "map_guard" \in MemberNames /\ "map_guard" \notin {"debug", "result", "client", "muc_senders"}
    BY Names
  <2>2. QED
    BY <1>1, <2>1, ErasuresRun
<1>9. Ahead(b) = {End(Member("map_guard"))}
  BY <1>5, <1>6
<1>10. \A o \in Object(list) : o \in A => o \in A \/ Make(o) \in {}
  OBVIOUS
<1>11. Runs(c \o b, A, list)
  BY <1>4, <1>6, CalmFirst
<1>12. Ahead(c \o b) = Ahead(b)
  BY <1>4, <1>6, CalmAhead
<1>13. PICK t : t = c \o b
  OBVIOUS
<1>14. Runs(t, A, list) /\ Ahead(t) = {End(Member("map_guard"))}
  BY <1>9, <1>11, <1>12, <1>13
<1>15. Runs(t \o e, A, list)
  <2>1. \A x \in Ahead(t) : Clear(x, e, list)
    BY <1>8, <1>14
  <2>2. QED
    BY <1>8, <1>14, <2>1, Concat
<1>16. Ahead(t \o e) = Ahead(t) \cup Ahead(e)
  BY <1>8, <1>14, AheadConcat
<1>17. PICK u : u = t \o e
  OBVIOUS
<1>18. Runs(u, A, list) /\ Ahead(u) = {End(Member("map_guard"))} \cup Ahead(e)
  BY <1>14, <1>15, <1>16, <1>17
<1>19. \A x \in Ahead(u) : Clear(x, m, list)
  <2>1. Clear(End(Member("map_guard")), m, list)
    <3>1. \A n \in Range(MembersToMap) : Member(n) # Member("map_guard")
      BY <1>5, Distinct
    <3>2. \A n : MayEnd(End(Member("map_guard")), n, list) <=> (n = Member("map_guard"))
      BY OfEnd
    <3>3. \A n \in Range(MembersToMap) : ~MayEnd(End(Member("map_guard")), Member(n), list)
      BY <3>1, <3>2
    <3>4. QED
      BY <1>7, <3>3
  <2>2. ASSUME NEW k \in 1..Len(filed) PROVE Clear(Erase(filed[k]), m, list)
    <3>1. \A n \in Range(MembersToMap) : Member(n) \in Lasting
      BY LastingFacts DEF MemberNames
    <3>2. \A n \in Range(MembersToMap) : ~MayEnd(Erase(filed[k]), Member(n), list)
      BY <3>1, OfErase, LastingFacts
    <3>3. QED
      BY <1>7, <3>2
  <2>3. QED
    BY <1>8, <1>18, <2>1, <2>2
<1>20. Runs(u \o m, A, list)
  BY <1>7, <1>18, <1>19, Concat
<1>21. Ahead(u \o m) = Ahead(u) \cup Ahead(m)
  BY <1>7, <1>18, AheadConcat
<1>22. Ahead(u \o m) = {End(Member(n)) : n \in MemberNames} \cup {Erase(filed[k]) : k \in 1..Len(filed)}
  BY <1>5, <1>7, <1>8, <1>18, <1>21 DEF MemberNames
<1>23. QED
  BY <1>3, <1>13, <1>17, <1>20, <1>22

\* Whatever is in the map when ~Messenger begins, goes with it.
LEMMA AllFiled ==
  ASSUME LifeTypeOK, Filed,
         NEW filed \in SetToSeqs({r \in Rooms : muc_senders[r] # 0})
  PROVE  /\ filed \in Seq(Rooms)
         /\ \A r \in Rooms : muc_senders[r] # 0 <=> \E k \in 1..Len(filed) : filed[k] = r
<1> DEFINE S == {r \in Rooms : muc_senders[r] # 0}
           F == 1..Len(rooms)
<1>1. Len(rooms) \in Nat /\ muc_senders \in [Rooms -> 0..Len(rooms)]
  BY LenProperties DEF LifeTypeOK
<1>2. IsFiniteSet(S)
  <2>1. IsFiniteSet(F)
    BY <1>1, FS_Interval
  <2>2. \A r \in S : muc_senders[r] \in F /\ rooms[muc_senders[r]] = r
    BY <1>1 DEF Filed
  <2>3. PICK g : g = [r \in S |-> muc_senders[r]]
    OBVIOUS
  <2>4. g \in [S -> F] /\ \A r, s \in S : g[r] = g[s] => r = s
    BY <2>2, <2>3
  <2>5. g \in Injection(S, F)
    BY <2>4 DEF Injection, IsInjective
  <2>6. QED
    BY <2>1, <2>5, FS_Injection
<1>3. PICK n : n = Cardinality(S)
  OBVIOUS
<1>4. n \in Nat
  BY <1>2, <1>3, FS_CardinalityType
<1>5. /\ filed \in [1..n -> S]
      /\ \A j, k \in 1..n : filed[j] = filed[k] => j = k
  BY <1>3 DEF SetToSeqs, IsInjective, TupleOf
<1>6. filed \in Seq(S) /\ Len(filed) = n
  BY <1>4, <1>5, SeqDef, LenProperties
<1>7. filed \in Seq(Rooms)
  BY <1>4, <1>5, <1>6
<1>8. \A r \in S : \E k \in 1..n : filed[k] = r
  <2>1. IsFiniteSet(1..n) /\ Cardinality(1..n) = n
    BY <1>4, FS_Interval
  <2>2. filed \in Injection(1..n, S)
    BY <1>5 DEF Injection, IsInjective
  <2>3. Cardinality(1..n) = Cardinality(S)
    BY <1>3, <2>1
  <2>4. filed \in Surjection(1..n, S)
    BY <1>2, <2>2, <2>3, FS_Injection
  <2>5. QED
    BY <2>4 DEF Surjection
<1>9. QED
  BY <1>4, <1>5, <1>6, <1>7, <1>8
-----------------------------------------------------------------------------
(***************************************************************************)
(* Each step preserves the invariant.                                      *)
(***************************************************************************)
LEMMA Tags ==
  /\ Send.do = "send"
  /\ \A o : Use(o).do = "use" /\ Use(o).obj = o
  /\ \A o : Make(o).do = "make" /\ Make(o).obj = o
  /\ \A o : End(o).do = "end" /\ End(o).obj = o
  /\ \A i, h : Release(i, h).do = "release" /\ Release(i, h).obj.of = i /\ Release(i, h).holder = h
  /\ \A i : Emplace(i).do = "emplace" /\ Emplace(i).obj.of = i
  /\ \A r : Erase(r).do = "erase" /\ Erase(r).room = r
<1>1. Send.do = "send"
  BY OfSend
<1>2. \A o : Use(o).do = "use" /\ Use(o).obj = o
  BY DEF Use
<1>3. \A o : Make(o).do = "make" /\ Make(o).obj = o
  BY DEF Make
<1>4. \A o : End(o).do = "end" /\ End(o).obj = o
  BY DEF End
<1>5. \A i, h : Release(i, h).do = "release" /\ Release(i, h).obj.of = i /\ Release(i, h).holder = h
  BY OfRelease
<1>6. \A i : Emplace(i).do = "emplace" /\ Emplace(i).obj.of = i
  BY OfEmplace
<1>7. \A r : Erase(r).do = "erase" /\ Erase(r).room = r
  BY OfErase
<1>8. QED
  BY <1>1, <1>2, <1>3, <1>4, <1>5, <1>6, <1>7

LEMMA Basics ==
  ASSUME LifeInv
  PROVE  /\ Len(rooms) \in Nat
         /\ \A i \in 1..Len(rooms) : rooms[i] \in Rooms /\ holders[i] \subseteq Holder
         /\ \A r \in Rooms : muc_senders[r] # 0 => muc_senders[r] \in 1..Len(rooms)
         /\ todo \in Seq(Item(rooms))
         /\ phase \in {"sending", "receiving"} => Lasting \subseteq alive
         /\ Session \notin Parts(rooms) /\ Message \notin Parts(rooms)
         /\ \A n \in MemberNames : Member(n) # Message /\ Member(n) # Session /\ Member(n) \notin Parts(rooms)
<1>1. Len(rooms) \in Nat
  BY LenProperties DEF LifeInv, LifeTypeOK
<1>2. \A i \in 1..Len(rooms) : rooms[i] \in Rooms /\ holders[i] \subseteq Holder
  BY DEF LifeInv, LifeTypeOK
<1>3. \A r \in Rooms : muc_senders[r] # 0 => muc_senders[r] \in 1..Len(rooms)
  BY <1>1 DEF LifeInv, LifeTypeOK
<1>4. todo \in Seq(Item(rooms))
  BY DEF LifeInv, Runs
<1>5. phase \in {"sending", "receiving"} => Lasting \subseteq alive
  BY DEF LifeInv, Members, Lasting, Message
<1>6. \A n : Member(n) \notin Parts(rooms)
  BY <1>1, Distinct DEF Parts
<1>7. \A n \in MemberNames : n # "message" /\ n # "session"
  BY Names
<1>8. QED
  BY <1>1, <1>2, <1>3, <1>4, <1>5, <1>6, <1>7, Distinct DEF Message, Session

LEMMA Part_Parts ==
  ASSUME NEW list, NEW i \in 1..Len(list), NEW p \in PartNames
  PROVE  Part(p, i) \in Parts(list) /\ Part(p, i) \in Object(list)
BY ObjectTypes

\* Between two calls a sender that has a part is filed.
LEMMA AtRest ==
  ASSUME LifeInv, todo = <<>>
  PROVE  /\ Ahead(todo) = {}
         /\ \A i \in 1..Len(rooms) :
              /\ "local" \notin holders[i]
              /\ "muc_senders" \in holders[i] => muc_senders[rooms[i]] = i
              /\ \A p \in PartNames : Part(p, i) \in alive => holders[i] # {}
              /\ holders[i] # {} => muc_senders[rooms[i]] = i /\ HasSender(i, alive) /\ i < cursor
         /\ Session \notin alive
<1>1. Ahead(todo) = {}
  BY RunsNothing
<1>2. Session \notin alive
  BY <1>1 DEF LifeInv, Members
<1>3. ASSUME NEW i \in 1..Len(rooms)
      PROVE  /\ "local" \notin holders[i]
             /\ "muc_senders" \in holders[i] => muc_senders[rooms[i]] = i
             /\ \A p \in PartNames : Part(p, i) \in alive => holders[i] # {}
             /\ holders[i] # {} => muc_senders[rooms[i]] = i /\ HasSender(i, alive) /\ i < cursor
  <2>1. /\ "local" \notin holders[i]
        /\ "muc_senders" \in holders[i] => muc_senders[rooms[i]] = i
    BY <1>1 DEF LifeInv, Held
  <2>2. \A p \in PartNames : Part(p, i) \in alive => holders[i] # {}
    BY <1>1 DEF LifeInv, Owned
  <2>3. ASSUME holders[i] # {}
        PROVE  muc_senders[rooms[i]] = i /\ HasSender(i, alive) /\ i < cursor
    <3>1. "muc_senders" \in holders[i]
      BY <2>1, <2>3, Basics DEF Holder
    <3>2. muc_senders[rooms[i]] = i /\ rooms[i] \in Rooms /\ i # 0
      BY <2>1, <3>1, Basics
    <3>3. QED
      BY <3>2 DEF LifeInv, Filed, HasSender
  <2>4. QED
    BY <2>1, <2>2, <2>3
<1>4. QED
  BY <1>1, <1>2, <1>3

\* A call out of the receive loop, or none yet: it may erase, and it may have
\* a session that it also ends.
LEMMA Begins ==
  ASSUME LifeInv, todo = <<>>, NEW q, Runs(q, alive, rooms), Begin(q),
         \A x \in Ahead(q) : x \in {Erase(r) : r \in Rooms} \cup {Make(Session), End(Session)},
         Make(Session) \in Ahead(q) => End(Session) \in Ahead(q),
         phase \in {"sending", "receiving"}, phase' \in {"sending", "receiving"},
         open' \in BOOLEAN, UNCHANGED <<holders, cursor>>
  PROVE  LifeInv'
<1>1. /\ todo' = q /\ alive' = alive /\ muc_senders' = muc_senders /\ rooms' = rooms /\ debug' = debug
      /\ holders' = holders /\ cursor' = cursor
  BY DEF Begin
<1>2. LifeTypeOK'
  BY <1>1 DEF LifeInv, LifeTypeOK
<1>3. Runs(todo, alive, rooms)'
  BY <1>1
<1>4. Filed'
  BY <1>1 DEF LifeInv, Filed
<1>5. /\ \A i, h : Emplace(i) \notin Ahead(q) /\ Release(i, h) \notin Ahead(q)
      /\ \A o : o # Session => Make(o) \notin Ahead(q) /\ End(o) \notin Ahead(q)
  BY Tags
<1>6. Held'
  BY <1>1, <1>5, AtRest DEF Held
<1>7. Owned'
  <2>1. \A p \in PartNames, i \in 1..Len(rooms) : Part(p, i) # Session
    BY Basics, Part_Parts
  <2>2. QED
    BY <1>1, <1>5, <2>1, AtRest DEF Owned
<1>8. Members'
  <2>1. \A n \in MemberNames : Member(n) # Session /\ Member(n) \in alive
    BY Basics DEF LifeInv, Members
  <2>2. Message \in alive
    BY DEF LifeInv, Members
  <2>3. QED
    BY <1>1, <1>5, <2>1, <2>2, AtRest DEF Members
<1>9. QED
  BY <1>2, <1>3, <1>4, <1>6, <1>7, <1>8 DEF LifeInv

\* Nothing has changed but what is used.
LEMMA Quiet ==
  ASSUME LifeInv, Runs(todo', alive, rooms), Ahead(todo') = Ahead(todo), open' \in BOOLEAN,
         phase = "gone" => todo' = <<>>,
         UNCHANGED <<alive, holders, muc_senders, phase, rooms, cursor, debug>>
  PROVE  LifeInv'
<1>1. LifeTypeOK'
  BY DEF LifeInv, LifeTypeOK
<1>2. Runs(todo, alive, rooms)'
  OBVIOUS
<1>3. Filed'
  BY DEF LifeInv, Filed
<1>4. Held'
  BY DEF LifeInv, Held
<1>5. Owned'
  BY DEF LifeInv, Owned
<1>6. Members'
  BY DEF LifeInv, Members
<1>7. QED
  BY <1>1, <1>2, <1>3, <1>4, <1>5, <1>6 DEF LifeInv
LEMMA InitInv ==
  ASSUME LifeInit
  PROVE  LifeInv
<1>1. rooms \in Seq(Rooms) /\ Len(rooms) \in Nat /\ debug \in BOOLEAN
  BY LifetimeAssumption, LenProperties DEF LifeInit
<1>2. alive = Lasting /\ todo = <<>>
  BY DEF LifeInit, Lasting
<1>3. alive \subseteq Object(rooms)
  <2>1. \A n \in MemberNames \cup {"message"} : Member(n) \in Object(rooms)
    BY ObjectTypes DEF OtherNames
  <2>2. QED
    BY <1>2, <2>1 DEF Lasting
<1>4. LifeTypeOK
  BY <1>1, <1>3 DEF LifeInit, LifeTypeOK
<1>5. Runs(todo, alive, rooms) /\ Ahead(todo) = {}
  BY <1>2, RunsNothing
<1>6. Filed
  BY DEF LifeInit, Filed
<1>7. Held
  BY <1>5 DEF LifeInit, Held
<1>8. Owned
  <2>1. \A i \in 1..Len(rooms), p \in PartNames : Part(p, i) \notin alive
    BY <1>1, <1>2, LastingFacts
  <2>2. QED
    BY <1>5, <2>1 DEF Owned
<1>9. Members
  <2>1. \A n \in MemberNames \cup {"message"} : Member(n) \in alive
    BY <1>2 DEF Lasting
  <2>2. Session \notin alive
    <3>1. \A n \in MemberNames \cup {"message"} : n # "session"
      BY Names
    <3>2. QED
      BY <1>2, <3>1, Distinct DEF Lasting, Session
  <2>3. phase = "sending"
    BY DEF LifeInit
  <2>4. QED
    BY <1>5, <2>1, <2>2, <2>3 DEF Members, Message
<1>10. QED
  BY <1>4, <1>5, <1>6, <1>7, <1>8, <1>9 DEF LifeInv

LEMMA SendToRoomInv ==
  ASSUME LifeInv, SendToRoom
  PROVE  LifeInv'
<1> DEFINE q == UseMember("destinations") \o NewSender(cursor) \o UseMember("map_guard")
                  \o <<Emplace(cursor)>>
<1>1. /\ todo = <<>> /\ phase = "sending" /\ cursor <= Len(rooms)
      /\ cursor' = cursor + 1 /\ holders' = [holders EXCEPT ![cursor] = {"local"}]
      /\ todo' = q /\ alive' = alive /\ muc_senders' = muc_senders /\ rooms' = rooms /\ debug' = debug
      /\ phase' = phase /\ open' = open
  BY DEF SendToRoom, Idle, Begin
<1>2. /\ Len(rooms) \in Nat /\ Lasting \subseteq alive
  BY <1>1, Basics
<1>3. cursor \in 1..Len(rooms) /\ cursor' \in 1..(Len(rooms) + 1) /\ holders \in [1..Len(rooms) -> SUBSET Holder]
  BY <1>1, <1>2 DEF LifeInv, LifeTypeOK
<1>4. /\ Runs(q, alive, rooms)
      /\ Ahead(q) = {Make(Part("sender", cursor)), Make(Part("nick", cursor)), Emplace(cursor)}
  BY <1>2, <1>3, SendToRoomRuns
<1> HIDE DEF q
<1>5. holders[cursor] = {}
  <2>1. ~(cursor < cursor)
    BY <1>2, <1>3
  <2>2. QED
    BY <1>1, <1>3, <2>1, AtRest
<1>6. /\ \A i \in 1..Len(rooms) : holders'[i] = IF i = cursor THEN {"local"} ELSE holders[i]
      /\ holders' \in [1..Len(rooms) -> SUBSET Holder]
  BY <1>1, <1>3 DEF Holder
<1>7. /\ \A i, h : Release(i, h) \notin Ahead(q)
      /\ \A i : Emplace(i) \in Ahead(q) <=> i = cursor
      /\ \A o : End(o) \notin Ahead(q)
      /\ \A o : Make(o) \in Ahead(q) => o = Part("sender", cursor) \/ o = Part("nick", cursor)
  BY <1>4, Tags
<1>8. LifeTypeOK'
  BY <1>1, <1>3, <1>6 DEF LifeInv, LifeTypeOK
<1>9. Runs(todo, alive, rooms)'
  BY <1>1, <1>4
<1>10. Filed'
  <2>1. ASSUME NEW r \in Rooms, muc_senders[r] # 0
        PROVE  /\ rooms[muc_senders[r]] = r /\ muc_senders[r] < cursor'
               /\ "muc_senders" \in holders'[muc_senders[r]]
               /\ Part("sender", muc_senders[r]) \in alive /\ Part("nick", muc_senders[r]) \in alive
    <3>1. PICK i : i = muc_senders[r]
      OBVIOUS
    <3>2. i \in 1..Len(rooms)
      BY <2>1, <3>1, Basics
    <3>3. /\ rooms[i] = r /\ i < cursor /\ "muc_senders" \in holders[i]
          /\ Part("sender", i) \in alive /\ Part("nick", i) \in alive
      BY <2>1, <3>1 DEF LifeInv, Filed
    <3>4. i # cursor /\ i < cursor'
      BY <1>1, <1>3, <3>2, <3>3
    <3>5. QED
      BY <1>6, <3>1, <3>2, <3>3, <3>4
  <2>2. QED
    BY <1>1, <2>1 DEF Filed
<1>11. Held'
  <2>1. cursor < cursor'
    BY <1>1, <1>3
  <2>2. \A i \in 1..Len(rooms) : "local" \notin holders[i] /\ ("muc_senders" \in holders[i] => muc_senders[rooms[i]] = i)
    BY <1>1, AtRest
  <2>3. QED
    BY <1>1, <1>6, <1>7, <2>1, <2>2 DEF Held
<1>12. Owned'
  <2>1. \A i \in 1..Len(rooms), p \in PartNames : Make(Part(p, i)) \in Ahead(q) => i = cursor
    BY <1>7, Distinct
  <2>2. \A i \in 1..Len(rooms), p \in PartNames : Part(p, i) \in alive => holders[i] # {}
    BY <1>1, AtRest
  <2>3. QED
    BY <1>1, <1>6, <1>7, <2>1, <2>2 DEF Owned
<1>13. Members'
  <2>1. Session \notin alive /\ Session # Part("sender", cursor) /\ Session # Part("nick", cursor)
    BY <1>1, <1>3, AtRest, Basics, Part_Parts DEF PartNames
  <2>2. Message \in alive /\ \A n \in MemberNames : Member(n) \in alive
    BY <1>1 DEF LifeInv, Members
  <2>3. QED
    BY <1>1, <1>7, <2>1, <2>2 DEF Members
<1>14. QED
  BY <1>8, <1>9, <1>10, <1>11, <1>12, <1>13 DEF LifeInv

LEMMA OnConnectDoneInv ==
  ASSUME LifeInv, OnConnectDone
  PROVE  LifeInv'
<1> DEFINE q == UseMember("map_guard") \o UseMember("muc_senders")
                  \o (IF \A r \in Rooms : muc_senders[r] = 0 THEN <<Send>> ELSE <<>>)
                  \o UseMember("map_guard")
<1>1. /\ todo = <<>> /\ phase = "sending" /\ phase' = "receiving" /\ Begin(q)
      /\ UNCHANGED <<holders, cursor, open>>
  BY DEF OnConnectDone, Idle
<1>2. Calm(q, alive, rooms)
  BY <1>1, Basics, LastLookCalm
<1> HIDE DEF q
<1>3. Runs(q, alive, rooms) /\ Ahead(q) = {}
  BY <1>2 DEF Calm
<1>4. open' \in BOOLEAN
  BY <1>1 DEF LifeInv, LifeTypeOK
<1>5. QED
  BY <1>1, <1>3, <1>4, Begins

LEMMA StreamEndsInv ==
  ASSUME LifeInv, StreamEnds
  PROVE  LifeInv'
<1>1. /\ todo = <<>> /\ phase = "receiving" /\ phase' = phase /\ Begin(OnDisconnect)
      /\ open' = FALSE /\ UNCHANGED <<holders, cursor>>
  BY DEF StreamEnds, Idle
<1>2. ForSending \subseteq alive
  BY <1>1, Basics, LastingFacts
<1>3. Runs(OnDisconnect, alive, rooms) /\ Ahead(OnDisconnect) = {}
  BY <1>2, CalmCalls DEF Calm
<1>4. QED
  BY <1>1, <1>3, Begins

LEMMA CallbackInv ==
  ASSUME LifeInv, Callback
  PROVE  LifeInv'
<1>1. /\ todo = <<>> /\ phase = "receiving" /\ phase' = phase
      /\ UNCHANGED <<holders, cursor, open>>
  BY DEF Callback, Idle
<1>2. Len(rooms) \in Nat /\ Lasting \subseteq alive
  BY <1>1, Basics
<1>3. open' \in BOOLEAN
  BY <1>1 DEF LifeInv, LifeTypeOK
<1>4. ASSUME NEW i \in 1..Len(rooms), Part("room", i) \in alive
      PROVE  HasSender(i, alive) /\ rooms[i] \in Rooms
  BY <1>1, <1>4, AtRest, Basics DEF PartNames
<1>5. ASSUME NEW q, Begin(q), Runs(q, alive, rooms),
             \A x \in Ahead(q) : x \in {Erase(r) : r \in Rooms}
      PROVE  LifeInv'
  <2>1. Make(Session) \notin Ahead(q)
    BY <1>5, Tags
  <2>2. QED
    BY <1>1, <1>3, <1>5, <2>1, Begins
<1>6. ASSUME NEW i \in 1..Len(rooms), Part("room", i) \in alive, Begin(HandleMUCError(i))
      PROVE  LifeInv'
  <2>1. Runs(HandleMUCError(i), alive, rooms) /\ Ahead(HandleMUCError(i)) = {Erase(rooms[i])}
    BY <1>2, <1>4, <1>6, HandleMUCErrorRuns
  <2>2. \A x \in Ahead(HandleMUCError(i)) : x \in {Erase(r) : r \in Rooms}
    BY <1>4, <1>6, <2>1
  <2>3. QED
    BY <1>5, <1>6, <2>1, <2>2
<1>7. ASSUME NEW i \in 1..Len(rooms), Part("room", i) \in alive, Begin(HandlePresence(i))
      PROVE  LifeInv'
  <2>1. /\ Runs(HandlePresence(i), alive, rooms)
        /\ Ahead(HandlePresence(i)) = {Make(Session), End(Session)}
    BY <1>2, <1>4, <1>7, HandlePresenceRuns
  <2>2. QED
    BY <1>1, <1>3, <1>7, <2>1, Begins
<1>8. ASSUME NEW i \in 1..Len(rooms), Part("room", i) \in alive, NEW stop \in BOOLEAN,
             Begin(HandleMUCMessage(i, stop))
      PROVE  LifeInv'
  <2>1. /\ Runs(HandleMUCMessage(i, stop), alive, rooms)
        /\ Ahead(HandleMUCMessage(i, stop)) \subseteq {Erase(rooms[i])}
    BY <1>2, <1>4, <1>8, HandleMUCMessageRuns
  <2>2. \A x \in Ahead(HandleMUCMessage(i, stop)) : x \in {Erase(r) : r \in Rooms}
    BY <1>4, <1>8, <2>1
  <2>3. QED
    BY <1>5, <1>8, <2>1, <2>2
<1>9. ASSUME NEW r \in Rooms, Begin(HandleMessage(r))
      PROVE  LifeInv'
  <2>1. Runs(HandleMessage(r), alive, rooms) /\ Ahead(HandleMessage(r)) = {Erase(r)}
    BY <1>2, HandleMessageRuns
  <2>2. QED
    BY <1>5, <1>9, <2>1
<1>10. QED
  BY <1>6, <1>7, <1>8, <1>9 DEF Callback

LEMMA DestroyInv ==
  ASSUME LifeInv, Destroy
  PROVE  LifeInv'
<1>1. /\ todo = <<>> /\ phase = "receiving" /\ phase' = "leaving"
      /\ UNCHANGED <<holders, cursor, open>>
  BY DEF Destroy, Idle
<1>2. PICK filed \in SetToSeqs({r \in Rooms : muc_senders[r] # 0}) :
        Begin(UseMember("debug") \o <<Send>> \o EndsOf(MembersBehindMap)
                \o [k \in 1..Len(filed) |-> Erase(filed[k])] \o EndsOf(MembersToMap))
  BY DEF Destroy
<1>3. Len(rooms) \in Nat /\ Lasting \subseteq alive
  BY <1>1, Basics
<1>4. /\ filed \in Seq(Rooms)
      /\ \A r \in Rooms : muc_senders[r] # 0 <=> \E k \in 1..Len(filed) : filed[k] = r
  BY AllFiled DEF LifeInv
<1>5. PICK q : q = UseMember("debug") \o <<Send>> \o EndsOf(MembersBehindMap)
                     \o [k \in 1..Len(filed) |-> Erase(filed[k])] \o EndsOf(MembersToMap)
  OBVIOUS
<1>6. /\ todo' = q /\ alive' = alive /\ muc_senders' = muc_senders /\ rooms' = rooms /\ debug' = debug
      /\ holders' = holders /\ cursor' = cursor /\ open' = open
  BY <1>1, <1>2, <1>5 DEF Begin
<1>7. /\ Runs(q, alive, rooms)
      /\ Ahead(q) = {End(Member(n)) : n \in MemberNames} \cup {Erase(filed[k]) : k \in 1..Len(filed)}
  BY <1>3, <1>4, <1>5, DestroyRuns
<1>8. /\ \A i, h : Emplace(i) \notin Ahead(q) /\ Release(i, h) \notin Ahead(q)
      /\ \A o : Make(o) \notin Ahead(q)
      /\ \A o : End(o) \in Ahead(q) => \E n \in MemberNames : o = Member(n)
  BY <1>7, Tags
<1>9. LifeTypeOK'
  BY <1>1, <1>6 DEF LifeInv, LifeTypeOK
<1>10. Runs(todo, alive, rooms)'
  BY <1>6, <1>7
<1>11. Filed'
  BY <1>6 DEF LifeInv, Filed
<1>12. Held'
  BY <1>1, <1>6, <1>8, AtRest DEF Held
<1>13. Owned'
  <2>1. \A p \in PartNames, i \in 1..Len(rooms) : End(Part(p, i)) \notin Ahead(q)
    BY <1>8, Basics, Part_Parts
  <2>2. QED
    BY <1>1, <1>6, <1>8, <2>1, AtRest DEF Owned
<1>14. Members'
  <2>1. Message \in alive /\ Session \notin alive
    BY <1>1, AtRest DEF LifeInv, Members
  <2>2. \A n \in MemberNames : End(Member(n)) \in Ahead(q)
    BY <1>7
  <2>3. \A r \in Rooms : muc_senders[r] # 0 => Erase(r) \in Ahead(q)
    BY <1>4, <1>7
  <2>4. QED
    BY <1>1, <1>6, <1>8, <2>1, <2>2, <2>3 DEF Members
<1>15. QED
  BY <1>9, <1>10, <1>11, <1>12, <1>13, <1>14 DEF LifeInv

LEMMA GoneInv ==
  ASSUME LifeInv, Gone
  PROVE  LifeInv'
<1>1. /\ todo = <<>> /\ phase = "leaving" /\ phase' = "gone" /\ todo' = <<>>
      /\ UNCHANGED <<alive, muc_senders, rooms, debug, holders, cursor, open>>
  BY DEF Gone, Idle, Begin
<1>2. LifeTypeOK' /\ Filed'
  BY <1>1 DEF LifeInv, LifeTypeOK, Filed
<1>3. Runs(todo, alive, rooms)'
  BY <1>1 DEF LifeInv
<1>4. Held' /\ Owned'
  BY <1>1 DEF LifeInv, Held, Owned
<1>5. Members'
  BY <1>1 DEF LifeInv, Members
<1>6. QED
  BY <1>2, <1>3, <1>4, <1>5 DEF LifeInv
\* The item at the head of the stack, and the rest of it.
LEMMA AtHead ==
  ASSUME LifeInv, todo # <<>>
  PROVE  /\ Head(todo) \in Item(rooms)
         /\ \A o \in Object(rooms) : Needs(Head(todo), o) => o \in alive
         /\ \A y \in Ahead(Tail(todo)) : ~Forbids(Head(todo), y, rooms)
         /\ Clear(Head(todo), Tail(todo), rooms)
         /\ Head(todo).do # "make" => Runs(Tail(todo), alive, rooms)
         /\ Head(todo).do \in {"use", "send"} => Ahead(todo) = Ahead(Tail(todo))
         /\ Head(todo).do \notin {"use", "send"} => Ahead(todo) = {Head(todo)} \cup Ahead(Tail(todo))
         /\ phase # "gone"
<1>1. Runs(todo, alive, rooms) /\ todo \in Seq(Item(rooms))
  BY DEF LifeInv, Runs
<1>2. /\ Head(todo) \in Item(rooms)
      /\ \A o \in Object(rooms) : Needs(Head(todo), o) => o \in alive
      /\ Clear(Head(todo), Tail(todo), rooms)
  BY <1>1, Pop
<1>3. ASSUME Head(todo).do # "make" PROVE Runs(Tail(todo), alive, rooms)
  <2>1. \A o : Head(todo) # Make(o)
    BY <1>3, Tags
  <2>2. QED
    BY <1>1, <2>1, Pop
<1>4. \A y \in Ahead(Tail(todo)) : ~Forbids(Head(todo), y, rooms)
  BY <1>2 DEF Clear, Ahead
<1>5. /\ Head(todo).do \in {"use", "send"} => Ahead(todo) = Ahead(Tail(todo))
      /\ Head(todo).do \notin {"use", "send"} => Ahead(todo) = {Head(todo)} \cup Ahead(Tail(todo))
  BY <1>1, PopAhead
<1>6. phase # "gone"
  BY DEF LifeInv, Members
<1>7. QED
  BY <1>2, <1>3, <1>4, <1>5, <1>6

\* What the rest cannot hold.
LEMMA NotBehind ==
  ASSUME LifeInv, todo # <<>>
  PROVE  /\ MayEndMore(Head(todo)) => \A o : Make(o) \notin Ahead(Tail(todo))
         /\ \A i \in 1..Len(rooms) :
              (Head(todo) = Emplace(i) \/ \E h : Head(todo) = Release(i, h)) =>
                /\ Emplace(i) \notin Ahead(Tail(todo))
                /\ \A g : Release(i, g) \notin Ahead(Tail(todo))
<1>1. \A y \in Ahead(Tail(todo)) : ~Forbids(Head(todo), y, rooms)
  BY AtHead
<1>2. MayEndMore(Head(todo)) => \A o : Make(o) \notin Ahead(Tail(todo))
  BY <1>1, Tags DEF Forbids
<1>3. ASSUME NEW i \in 1..Len(rooms), Head(todo) = Emplace(i) \/ \E h : Head(todo) = Release(i, h)
      PROVE  /\ Emplace(i) \notin Ahead(Tail(todo))
             /\ \A g : Release(i, g) \notin Ahead(Tail(todo))
  <2>1. Part("sender", i) \in Object(rooms) /\ "sender" \in PartNames
    BY Part_Parts DEF PartNames
  <2>2. MayEnd(Head(todo), Part("sender", i), rooms)
    BY <1>3, <2>1, OfRelease, OfEmplace
  <2>3. Needs(Emplace(i), Part("sender", i)) /\ \A g : Needs(Release(i, g), Part("sender", i))
    BY OfRelease, OfEmplace
  <2>4. QED
    BY <1>1, <2>1, <2>2, <2>3 DEF Forbids
<1>4. QED
  BY <1>2, <1>3

LEMMA UsingInv ==
  ASSUME LifeInv, Using
  PROVE  LifeInv'
<1>1. /\ todo # <<>> /\ Head(todo).do = "use" /\ todo' = <<>> \o Tail(todo)
      /\ UNCHANGED <<alive, holders, muc_senders, open, phase, rooms, cursor, debug>>
  BY DEF Using, Does, Then, Elsewhere
<1>2. Runs(Tail(todo), alive, rooms) /\ Ahead(todo) = Ahead(Tail(todo)) /\ phase # "gone"
  BY <1>1, AtHead
<1>3. todo' = Tail(todo)
  <2>1. Tail(todo) \in Seq(Item(rooms))
    BY <1>2 DEF Runs
  <2>2. QED
    BY <1>1, <2>1
<1>4. open' \in BOOLEAN
  BY <1>1 DEF LifeInv, LifeTypeOK
<1>5. QED
  BY <1>1, <1>2, <1>3, <1>4, Quiet

LEMMA SendingInv ==
  ASSUME LifeInv, Sending
  PROVE  LifeInv'
<1>1. /\ todo # <<>> /\ Head(todo).do = "send"
      /\ \/ todo' = <<>> \o Tail(todo) /\ open' = open
         \/ open' = FALSE /\ todo' = OnDisconnect \o Tail(todo)
      /\ UNCHANGED <<alive, holders, muc_senders, phase, rooms, cursor, debug>>
  BY DEF Sending, Does, Then, Elsewhere
<1>2. Runs(Tail(todo), alive, rooms) /\ Ahead(todo) = Ahead(Tail(todo)) /\ phase # "gone"
  BY <1>1, AtHead
<1>3. open' \in BOOLEAN
  BY <1>1 DEF LifeInv, LifeTypeOK
<1>4. CASE todo' = <<>> \o Tail(todo)
  <2>1. Tail(todo) \in Seq(Item(rooms))
    BY <1>2 DEF Runs
  <2>2. todo' = Tail(todo)
    BY <1>4, <2>1
  <2>3. QED
    BY <1>1, <1>2, <1>3, <2>2, Quiet
<1>5. CASE todo' = OnDisconnect \o Tail(todo)
  <2>1. \A o \in ForSending : o \in alive
    <3>1. Head(todo) = Send
      <4>1. Head(todo) \in Item(rooms)
        BY <1>1, AtHead
      <4>2. QED
        BY <1>1, <4>1, ItemKinds, Tags
    <3>2. QED
      BY <1>1, <3>1, AtHead, OfSend, ObjectTypes
  <2>2. Calm(OnDisconnect, alive, rooms)
    BY <2>1, CalmCalls
  <2>3. Runs(OnDisconnect \o Tail(todo), alive, rooms)
    BY <1>2, <2>2, CalmFirst
  <2>4. Ahead(OnDisconnect \o Tail(todo)) = Ahead(Tail(todo))
    BY <1>2, <2>2, CalmAhead
  <2>5. QED
    BY <1>1, <1>2, <1>3, <1>5, <2>3, <2>4, Quiet
<1>6. QED
  BY <1>1, <1>4, <1>5

LEMMA MakingInv ==
  ASSUME LifeInv, Making
  PROVE  LifeInv'
<1>1. /\ todo # <<>> /\ Head(todo).do = "make" /\ todo' = <<>> \o Tail(todo)
      /\ alive' = alive \cup {Head(todo).obj}
      /\ UNCHANGED <<holders, muc_senders, open, phase, rooms, cursor, debug>>
  BY DEF Making, Does, Then, Elsewhere, Here
<1>2. PICK o \in Parts(rooms) \cup {Session} : Head(todo) = Make(o)
  <2>1. Head(todo) \in Item(rooms)
    BY <1>1, AtHead
  <2>2. QED
    BY <1>1, <2>1, ItemKinds, Tags
<1>3. /\ Ahead(todo) = {Make(o)} \cup Ahead(Tail(todo)) /\ phase # "gone"
      /\ o \in Object(rooms) /\ Head(todo).obj = o
  BY <1>1, <1>2, AtHead, ObjectTypes, Tags DEF Object
<1>4. Runs(Tail(todo), alive \cup {o}, rooms)
  <2>1. \A n : Head(todo) = Make(n) => n = o
    BY <1>2, Tags
  <2>2. QED
    BY <1>1, <2>1, Pop DEF LifeInv
<1>5. PICK t : t = Tail(todo)
  OBVIOUS
<1>6. todo' = t
  <2>1. Tail(todo) \in Seq(Item(rooms))
    BY <1>4 DEF Runs
  <2>2. QED
    BY <1>1, <1>5, <2>1
<1>7. /\ Ahead(todo) = {Make(o)} \cup Ahead(t) /\ alive' = alive \cup {o}
      /\ Runs(t, alive \cup {o}, rooms)
  BY <1>1, <1>3, <1>4, <1>5
<1>8. /\ \A i, h : /\ Emplace(i) \in Ahead(t) <=> Emplace(i) \in Ahead(todo)
                   /\ Release(i, h) \in Ahead(t) <=> Release(i, h) \in Ahead(todo)
      /\ \A n : End(n) \in Ahead(t) <=> End(n) \in Ahead(todo)
      /\ \A r : Erase(r) \in Ahead(t) <=> Erase(r) \in Ahead(todo)
      /\ \A n : n \in alive' \/ Make(n) \in Ahead(t) => n \in alive \/ Make(n) \in Ahead(todo)
  BY <1>7, Tags
<1>9. LifeTypeOK'
  BY <1>1, <1>3 DEF LifeInv, LifeTypeOK
<1>10. Runs(todo, alive, rooms)'
  BY <1>1, <1>6, <1>7
<1>11. Filed'
  BY <1>1 DEF LifeInv, Filed
<1>12. Held'
  BY <1>1, <1>6, <1>8 DEF LifeInv, Held
<1>13. Owned'
  BY <1>1, <1>6, <1>8 DEF LifeInv, Owned
<1>14. Members'
  <2>1. \A n \in MemberNames : Member(n) # o
    BY <1>2, Basics
  <2>2. \A n \in MemberNames : Member(n) \in alive' <=> Member(n) \in alive
    BY <1>7, <2>1
  <2>3. Message \in alive'
    BY <1>7 DEF LifeInv, Members
  <2>4. QED
    BY <1>1, <1>3, <1>6, <1>8, <2>2, <2>3 DEF LifeInv, Members
<1>15. QED
  BY <1>9, <1>10, <1>11, <1>12, <1>13, <1>14 DEF LifeInv

LEMMA EndingInv ==
  ASSUME LifeInv, Ending
  PROVE  LifeInv'
<1>1. /\ todo # <<>> /\ Head(todo).do = "end" /\ todo' = <<>> \o Tail(todo)
      /\ alive' = alive \ {Head(todo).obj}
      /\ UNCHANGED <<holders, muc_senders, open, phase, rooms, cursor, debug>>
  BY DEF Ending, Does, Then, Elsewhere, Here
<1>2. PICK o \in Object(rooms) \ {Message} : Head(todo) = End(o)
  <2>1. Head(todo) \in Item(rooms)
    BY <1>1, AtHead
  <2>2. QED
    BY <1>1, <2>1, ItemKinds, Tags
<1>3. /\ Ahead(todo) = {End(o)} \cup Ahead(Tail(todo)) /\ phase # "gone"
      /\ Head(todo).obj = o
  BY <1>1, <1>2, AtHead, Tags
<1>4. Runs(Tail(todo), alive \ {o}, rooms)
  <2>1. \A n : MayEnd(Head(todo), n, rooms) <=> (n = o)
    BY <1>2, OfEnd
  <2>2. \A n : Head(todo) # Make(n)
    BY <1>2, Tags
  <2>3. QED
    BY <1>1, <2>1, <2>2, Pop DEF LifeInv
<1>5. PICK t : t = Tail(todo)
  OBVIOUS
<1>6. todo' = t
  <2>1. Tail(todo) \in Seq(Item(rooms))
    BY <1>4 DEF Runs
  <2>2. QED
    BY <1>1, <1>5, <2>1
<1>7. /\ Ahead(todo) = {End(o)} \cup Ahead(t) /\ alive' = alive \ {o}
      /\ Runs(t, alive \ {o}, rooms)
  BY <1>1, <1>3, <1>4, <1>5
<1>8. \A n : Make(n) \notin Ahead(t)
  BY <1>1, <1>5, NotBehind DEF MayEndMore
<1>9. /\ \A i, h : /\ Emplace(i) \in Ahead(t) <=> Emplace(i) \in Ahead(todo)
                   /\ Release(i, h) \in Ahead(t) <=> Release(i, h) \in Ahead(todo)
      /\ \A n : End(n) \in Ahead(t) => End(n) \in Ahead(todo)
      /\ \A n : n # o /\ End(n) \in Ahead(todo) => End(n) \in Ahead(t)
      /\ \A r : Erase(r) \in Ahead(t) <=> Erase(r) \in Ahead(todo)
  BY <1>7, Tags
<1>10. LifeTypeOK'
  BY <1>1 DEF LifeInv, LifeTypeOK
<1>11. Runs(todo, alive, rooms)'
  BY <1>1, <1>6, <1>7
<1>12. Filed'
  <2>1. ASSUME NEW r \in Rooms, muc_senders[r] # 0
        PROVE  o # Part("sender", muc_senders[r]) /\ o # Part("nick", muc_senders[r])
    <3>1. PICK i : i = muc_senders[r]
      OBVIOUS
    <3>2. i \in 1..Len(rooms) /\ "muc_senders" \in holders[i]
      BY <2>1, <3>1, Basics DEF LifeInv, Filed
    <3>3. \A p \in PartNames : End(Part(p, i)) \notin Ahead(todo)
      BY <3>2 DEF LifeInv, Owned
    <3>4. QED
      BY <1>7, <3>1, <3>3 DEF PartNames
  <2>2. QED
    BY <1>1, <1>7, <2>1 DEF LifeInv, Filed
<1>13. Held'
  BY <1>1, <1>6, <1>9 DEF LifeInv, Held
<1>14. Owned'
  BY <1>1, <1>6, <1>7, <1>8, <1>9 DEF LifeInv, Owned
<1>15. Members'
  <2>1. o # Message
    BY <1>2
  <2>2. phase \in {"sending", "receiving"} => \A n \in MemberNames : Member(n) # o
    BY <1>7 DEF LifeInv, Members
  <2>3. QED
    BY <1>1, <1>3, <1>6, <1>7, <1>8, <1>9, <2>1, <2>2 DEF LifeInv, Members
<1>16. QED
  BY <1>10, <1>11, <1>12, <1>13, <1>14, <1>15 DEF LifeInv
LEMMA EmplacingInv ==
  ASSUME LifeInv, Emplacing
  PROVE  LifeInv'
<1>1. /\ todo # <<>> /\ Head(todo).do = "emplace"
      /\ UNCHANGED <<alive, open, phase, rooms, cursor, debug>>
  BY DEF Emplacing, Does, Elsewhere
<1>2. PICK i \in 1..Len(rooms) : Head(todo) = Emplace(i)
  <2>1. Head(todo) \in Item(rooms)
    BY <1>1, AtHead
  <2>2. QED
    BY <1>1, <2>1, ItemKinds, Tags
<1>3. \/ /\ muc_senders[rooms[i]] = 0
         /\ muc_senders' = [muc_senders EXCEPT ![rooms[i]] = i]
         /\ holders' = [holders EXCEPT ![i] = @ \cup {"muc_senders"}]
         /\ todo' = (StartSender(i) \o <<Release(i, "local")>>) \o Tail(todo)
      \/ /\ muc_senders[rooms[i]] # 0
         /\ todo' = <<Release(i, "local")>> \o Tail(todo)
         /\ UNCHANGED <<holders, muc_senders>>
  <2>1. Head(todo).obj.of = i
    BY <1>2, Tags
  <2>2. QED
    BY <2>1 DEF Emplacing, Here, Then
<1>4. PICK t : t = Tail(todo)
  OBVIOUS
<1>5. /\ Ahead(todo) = {Emplace(i)} \cup Ahead(t)
      /\ Runs(t, alive, rooms) /\ Clear(Emplace(i), t, rooms)
      /\ \A j : Emplace(i) \notin Ahead(t) /\ Release(i, j) \notin Ahead(t)
      /\ \A o \in Object(rooms) : Needs(Emplace(i), o) => o \in alive
  BY <1>1, <1>2, <1>4, AtHead, NotBehind
<1>6. /\ HasSender(i, alive) /\ ForSending \subseteq alive
      /\ Len(rooms) \in Nat /\ rooms[i] \in Rooms /\ i # 0
  <2>1. /\ Part("sender", i) \in Object(rooms) /\ Part("nick", i) \in Object(rooms)
        /\ ForSending \subseteq Object(rooms)
    BY ObjectTypes DEF PartNames
  <2>2. \A n : Needs(Emplace(i), n) <=> (n \in ForSending \cup {Part("sender", i), Part("nick", i)})
    BY OfEmplace
  <2>3. Part("sender", i) \in alive /\ Part("nick", i) \in alive /\ \A o \in ForSending : o \in alive
    BY <1>5, <2>1, <2>2
  <2>4. QED
    BY <2>3, Basics DEF HasSender
<1>7. "local" \in holders[i] /\ i < cursor /\ phase = "sending"
  BY <1>5 DEF LifeInv, Held
<1>8. Clear(Release(i, "local"), t, rooms)
  <2>1. MayEndMore(Emplace(i))
    BY Tags DEF MayEndMore
  <2>2. \A o \in Object(rooms) : MayEnd(Release(i, "local"), o, rooms) => MayEnd(Emplace(i), o, rooms)
    BY OfRelease, OfEmplace
  <2>3. QED
    BY <1>5, <2>1, <2>2, ClearLess
\* In either case the room may be made, and the local hold is given up.
<1>9. PICK M \in SUBSET {Make(Part("room", i))} :
        Runs(todo', alive, rooms) /\ Ahead(todo') = M \cup {Release(i, "local")} \cup Ahead(t)
  <2>1. CASE muc_senders[rooms[i]] = 0
    <3>1. PICK q : q = StartSender(i) \o <<Release(i, "local")>>
      OBVIOUS
    <3>2. Runs(q, alive, rooms) /\ Ahead(q) = {Make(Part("room", i)), Release(i, "local")}
      BY <1>6, <3>1, StartRuns
    <3>3. \A x \in Ahead(q) : Clear(x, t, rooms)
      <4>1. Clear(Make(Part("room", i)), t, rooms)
        BY Tags, ClearTame
      <4>2. QED
        BY <1>8, <3>2, <4>1
    <3>4. Runs(q \o t, alive, rooms)
      BY <1>5, <3>2, <3>3, Concat
    <3>5. Ahead(q \o t) = Ahead(q) \cup Ahead(t)
      BY <1>5, <3>2, AheadConcat
    <3>6. todo' = q \o t
      BY <1>3, <1>4, <2>1, <3>1
    <3>7. QED
      BY <3>2, <3>4, <3>5, <3>6
  <2>2. CASE muc_senders[rooms[i]] # 0
    <3>1. PICK q : q = <<Release(i, "local")>>
      OBVIOUS
    <3>2. Runs(q, alive, rooms) /\ Ahead(q) = {Release(i, "local")}
      <4>1. Release(i, "local") \in Item(rooms) /\ Release(i, "local").do = "release"
        BY ItemTypes, Tags DEF Holder
      <4>2. \A o \in Object(rooms) : Needs(Release(i, "local"), o) => o \in alive
        BY <1>6, OfRelease DEF HasSender
      <4>3. QED
        BY <3>1, <4>1, <4>2, SingleRuns
    <3>3. Runs(q \o t, alive, rooms)
      BY <1>5, <1>8, <3>2, Concat
    <3>4. Ahead(q \o t) = Ahead(q) \cup Ahead(t)
      BY <1>5, <3>2, AheadConcat
    <3>5. todo' = q \o t
      BY <1>3, <1>4, <2>2, <3>1
    <3>6. {} \in SUBSET {Make(Part("room", i))}
      OBVIOUS
    <3>7. Ahead(todo') = {} \cup {Release(i, "local")} \cup Ahead(t)
      BY <3>2, <3>4, <3>5
    <3>8. QED
      BY <3>3, <3>5, <3>6, <3>7
  <2>3. QED
    BY <2>1, <2>2
<1>10. /\ \A j : Emplace(j) \in Ahead(todo') <=> Emplace(j) \in Ahead(todo) /\ j # i
       /\ \A j, h : Release(j, h) \in Ahead(todo') <=>
                      Release(j, h) \in Ahead(todo) \/ (j = i /\ h = "local")
       /\ \A o : End(o) \in Ahead(todo') <=> End(o) \in Ahead(todo)
       /\ \A r : Erase(r) \in Ahead(todo') <=> Erase(r) \in Ahead(todo)
       /\ \A o : Make(o) \in Ahead(todo') => Make(o) \in Ahead(todo) \/ o = Part("room", i)
       /\ \A h : Release(i, h) \notin Ahead(todo)
  <2>1. PICK H, N : H = Ahead(todo) /\ N = Ahead(todo')
    OBVIOUS
  <2>2. H = {Emplace(i)} \cup Ahead(t) /\ N = M \cup {Release(i, "local")} \cup Ahead(t)
    BY <1>5, <1>9, <2>1
  <2>3. /\ \A j : Emplace(j) \in N <=> Emplace(j) \in H /\ j # i
        /\ \A j, h : Release(j, h) \in N <=> Release(j, h) \in H \/ (j = i /\ h = "local")
    BY <1>5, <2>2, Tags
  <2>4. /\ \A o : End(o) \in N <=> End(o) \in H
        /\ \A r : Erase(r) \in N <=> Erase(r) \in H
    BY <2>2, Tags
  <2>5. \A o : Make(o) \in N => Make(o) \in H \/ o = Part("room", i)
    BY <2>2, Tags
  <2>6. \A h : Release(i, h) \notin H
    BY <1>5, <2>2, Tags
  <2>7. QED
    BY <2>1, <2>3, <2>4, <2>5, <2>6
<1>11. LifeTypeOK /\ Filed /\ Held /\ Owned /\ Members
  BY DEF LifeInv
<1>12. /\ \A j \in 1..Len(rooms) :
            /\ holders[j] \subseteq holders'[j]
            /\ j # i => holders'[j] = holders[j]
            /\ "local" \in holders'[j] => "local" \in holders[j]
       /\ holders' \in [1..Len(rooms) -> SUBSET Holder]
       /\ muc_senders' \in [Rooms -> 0..Len(rooms)]
       /\ \A r \in Rooms : \/ muc_senders'[r] = muc_senders[r]
                           \/ r = rooms[i] /\ muc_senders[r] = 0 /\ muc_senders'[r] = i
                                /\ "muc_senders" \in holders'[i]
       /\ "muc_senders" \in holders'[i] => "muc_senders" \in holders[i] \/ muc_senders'[rooms[i]] = i
  <2>1. holders \in [1..Len(rooms) -> SUBSET Holder] /\ muc_senders \in [Rooms -> 0..Len(rooms)]
    BY <1>11 DEF LifeTypeOK
  <2>2. CASE muc_senders[rooms[i]] = 0
    <3>1. /\ muc_senders' = [muc_senders EXCEPT ![rooms[i]] = i]
          /\ holders' = [holders EXCEPT ![i] = @ \cup {"muc_senders"}]
      BY <1>3, <2>2
    <3>2. /\ \A j \in 1..Len(rooms) : holders'[j] = IF j = i THEN holders[i] \cup {"muc_senders"} ELSE holders[j]
          /\ holders' \in [1..Len(rooms) -> SUBSET Holder]
      BY <2>1, <3>1 DEF Holder
    <3>3. i \in 0..Len(rooms)
      BY <1>6
    <3>4. /\ \A r \in Rooms : muc_senders'[r] = IF r = rooms[i] THEN i ELSE muc_senders[r]
          /\ muc_senders' \in [Rooms -> 0..Len(rooms)]
      BY <1>6, <2>1, <3>1, <3>3
    <3>5. QED
      BY <1>6, <2>2, <3>2, <3>4
  <2>3. CASE muc_senders[rooms[i]] # 0
    <3>1. holders' = holders /\ muc_senders' = muc_senders
      BY <1>3, <2>3
    <3>2. QED
      BY <2>1, <3>1
  <2>4. QED
    BY <2>2, <2>3
<1>13. LifeTypeOK'
  BY <1>1, <1>11, <1>12 DEF LifeTypeOK
<1>14. Runs(todo, alive, rooms)'
  BY <1>1, <1>9
<1>15. Filed'
  <2>1. ASSUME NEW r \in Rooms, muc_senders'[r] # 0
        PROVE  /\ rooms[muc_senders'[r]] = r /\ muc_senders'[r] < cursor
               /\ "muc_senders" \in holders'[muc_senders'[r]]
               /\ Part("sender", muc_senders'[r]) \in alive /\ Part("nick", muc_senders'[r]) \in alive
    <3>1. CASE muc_senders'[r] = muc_senders[r]
      <4>1. PICK j : j = muc_senders[r]
        OBVIOUS
      <4>2. /\ j \in 1..Len(rooms) /\ rooms[j] = r /\ j < cursor /\ "muc_senders" \in holders[j]
            /\ Part("sender", j) \in alive /\ Part("nick", j) \in alive
        BY <1>11, <2>1, <3>1, <4>1, Basics DEF Filed
      <4>3. QED
        BY <1>12, <3>1, <4>1, <4>2
    <3>2. CASE /\ r = rooms[i] /\ muc_senders'[r] = i
               /\ "muc_senders" \in holders'[i]
      BY <1>6, <1>7, <3>2 DEF HasSender
    <3>3. QED
      BY <1>12, <2>1, <3>1, <3>2
  <2>2. QED
    BY <1>1, <2>1 DEF Filed
<1>16. Held'
  <2>1. ASSUME NEW j \in 1..Len(rooms)
        PROVE  /\ "local" \in holders'[j] => Emplace(j) \in Ahead(todo') \/ Release(j, "local") \in Ahead(todo')
               /\ "muc_senders" \in holders'[j] =>
                    muc_senders'[rooms[j]] = j \/ Release(j, "muc_senders") \in Ahead(todo')
               /\ Emplace(j) \in Ahead(todo') => "local" \in holders'[j] /\ j < cursor /\ phase = "sending"
               /\ \A h \in Holder : Release(j, h) \in Ahead(todo') => h \in holders'[j]
               /\ Release(j, "muc_senders") \in Ahead(todo') => muc_senders'[rooms[j]] # j
    <3>1. /\ "local" \in holders[j] => Emplace(j) \in Ahead(todo) \/ Release(j, "local") \in Ahead(todo)
          /\ "muc_senders" \in holders[j] =>
               muc_senders[rooms[j]] = j \/ Release(j, "muc_senders") \in Ahead(todo)
          /\ Emplace(j) \in Ahead(todo) => "local" \in holders[j] /\ j < cursor /\ phase = "sending"
          /\ \A h \in Holder : Release(j, h) \in Ahead(todo) => h \in holders[j]
          /\ Release(j, "muc_senders") \in Ahead(todo) => muc_senders[rooms[j]] # j
      BY <1>11 DEF Held
    <3>2. rooms[j] \in Rooms /\ j # 0
      BY Basics
    <3>3. "local" \in holders'[j] => Emplace(j) \in Ahead(todo') \/ Release(j, "local") \in Ahead(todo')
      BY <1>10, <1>12, <3>1
    <3>4. "muc_senders" \in holders'[j] =>
            muc_senders'[rooms[j]] = j \/ Release(j, "muc_senders") \in Ahead(todo')
      <4>1. CASE j = i
        BY <1>10, <1>12, <3>1, <3>2, <4>1
      <4>2. CASE j # i
        BY <1>10, <1>12, <3>1, <3>2, <4>2
      <4>3. QED
        BY <4>1, <4>2
    <3>5. Emplace(j) \in Ahead(todo') => "local" \in holders'[j] /\ j < cursor /\ phase = "sending"
      BY <1>10, <1>12, <3>1
    <3>6. \A h \in Holder : Release(j, h) \in Ahead(todo') => h \in holders'[j]
      BY <1>7, <1>10, <1>12, <3>1
    <3>7. Release(j, "muc_senders") \in Ahead(todo') => muc_senders'[rooms[j]] # j
      BY <1>10, <1>12, <3>1, <3>2
    <3>8. QED
      BY <3>3, <3>4, <3>5, <3>6, <3>7
  <2>2. QED
    BY <1>1, <2>1 DEF Held
<1>17. Owned'
  <2>1. ASSUME NEW j \in 1..Len(rooms), NEW p \in PartNames
        PROVE  /\ Part(p, j) \in alive \/ Make(Part(p, j)) \in Ahead(todo') =>
                    holders'[j] # {} \/ End(Part(p, j)) \in Ahead(todo')
               /\ End(Part(p, j)) \in Ahead(todo') => holders'[j] = {}
    <3>1. /\ Part(p, j) \in alive \/ Make(Part(p, j)) \in Ahead(todo) =>
               holders[j] # {} \/ End(Part(p, j)) \in Ahead(todo)
          /\ End(Part(p, j)) \in Ahead(todo) => holders[j] = {}
      BY <1>11 DEF Owned
    <3>2. Make(Part(p, j)) \in Ahead(todo') => Make(Part(p, j)) \in Ahead(todo) \/ j = i
      BY <1>10, Distinct
    <3>3. CASE j = i
      <4>1. holders'[j] # {} /\ End(Part(p, j)) \notin Ahead(todo)
        BY <1>7, <1>12, <3>1, <3>3
      <4>2. QED
        BY <1>10, <4>1
    <3>4. CASE j # i
      BY <1>10, <1>12, <3>1, <3>2, <3>4
    <3>5. QED
      BY <3>3, <3>4
  <2>2. QED
    BY <1>1, <2>1 DEF Owned
<1>18. Members'
  <2>1. Session # Part("room", i)
    BY Basics, Part_Parts DEF PartNames
  <2>2. QED
    BY <1>1, <1>7, <1>10, <1>11, <2>1 DEF Members
<1>19. QED
  BY <1>13, <1>14, <1>15, <1>16, <1>17, <1>18 DEF LifeInv
LEMMA ErasingInv ==
  ASSUME LifeInv, Erasing
  PROVE  LifeInv'
<1>1. /\ todo # <<>> /\ Head(todo).do = "erase"
      /\ UNCHANGED <<alive, holders, open, phase, rooms, cursor, debug>>
  BY DEF Erasing, Does, Elsewhere
<1>2. PICK r \in Rooms : Head(todo) = Erase(r)
  <2>1. Head(todo) \in Item(rooms)
    BY <1>1, AtHead
  <2>2. QED
    BY <1>1, <2>1, ItemKinds, Tags
<1>3. PICK i : i = muc_senders[r]
  OBVIOUS
<1>4. PICK t : t = Tail(todo)
  OBVIOUS
<1>5. /\ muc_senders' = [muc_senders EXCEPT ![r] = 0]
      /\ todo' = (IF i = 0 THEN <<>> ELSE <<Release(i, "muc_senders")>>) \o t
  <2>1. Head(todo).room = r
    BY <1>2, Tags
  <2>2. QED
    BY <1>3, <1>4, <2>1 DEF Erasing, Then
<1>6. /\ Ahead(todo) = {Erase(r)} \cup Ahead(t)
      /\ Runs(t, alive, rooms) /\ Clear(Erase(r), t, rooms)
      /\ \A o \in Object(rooms) : Needs(Erase(r), o) => o \in alive
  BY <1>1, <1>2, <1>4, AtHead
<1>7. LifeTypeOK /\ Filed /\ Held /\ Owned /\ Members
  BY DEF LifeInv
<1>8. i # 0 => /\ i \in 1..Len(rooms) /\ rooms[i] = r /\ "muc_senders" \in holders[i]
               /\ HasSender(i, alive)
  BY <1>3, <1>7, Basics DEF Filed, HasSender
<1>9. ForSending \subseteq alive
  BY <1>6, OfErase, ObjectTypes
<1> DEFINE R == IF i = 0 THEN {} ELSE {Release(i, "muc_senders")}
<1>10. Runs(todo', alive, rooms) /\ Ahead(todo') = R \cup Ahead(t)
  <2>1. CASE i = 0
    <3>1. t \in Seq(Item(rooms))
      BY <1>6 DEF Runs
    <3>2. todo' = t
      BY <1>5, <2>1, <3>1
    <3>3. QED
      BY <1>6, <2>1, <3>2
  <2>2. CASE i # 0
    <3>1. PICK q : q = <<Release(i, "muc_senders")>>
      OBVIOUS
    <3>2. Runs(q, alive, rooms) /\ Ahead(q) = {Release(i, "muc_senders")}
      <4>1. Release(i, "muc_senders") \in Item(rooms) /\ Release(i, "muc_senders").do = "release"
        BY <1>8, <2>2, ItemTypes, Tags DEF Holder
      <4>2. \A o \in Object(rooms) : Needs(Release(i, "muc_senders"), o) => o \in alive
        BY <1>8, <1>9, <2>2, OfRelease DEF HasSender
      <4>3. QED
        BY <3>1, <4>1, <4>2, SingleRuns
    <3>3. Clear(Release(i, "muc_senders"), t, rooms)
      <4>1. MayEndMore(Erase(r))
        BY Tags DEF MayEndMore
      <4>2. \A o \in Object(rooms) : MayEnd(Release(i, "muc_senders"), o, rooms) => MayEnd(Erase(r), o, rooms)
        BY <1>8, <2>2, OfRelease, OfErase
      <4>3. QED
        BY <1>6, <4>1, <4>2, ClearLess
    <3>4. Runs(q \o t, alive, rooms)
      BY <1>6, <3>2, <3>3, Concat
    <3>5. Ahead(q \o t) = Ahead(q) \cup Ahead(t)
      BY <1>6, <3>2, AheadConcat
    <3>6. todo' = q \o t
      BY <1>5, <2>2, <3>1
    <3>7. QED
      BY <2>2, <3>2, <3>4, <3>5, <3>6
  <2>3. QED
    BY <2>1, <2>2
<1>11. PICK H, N : H = Ahead(todo) /\ N = Ahead(todo')
  OBVIOUS
<1>12. /\ \A j : Emplace(j) \in N <=> Emplace(j) \in H
       /\ \A j, h : Release(j, h) \in N <=>
                      Release(j, h) \in H \/ (i # 0 /\ j = i /\ h = "muc_senders")
       /\ \A o : End(o) \in N <=> End(o) \in H
       /\ \A o : Make(o) \in N <=> Make(o) \in H
       /\ \A s \in Rooms : s # r /\ Erase(s) \in H => Erase(s) \in N
  <2>1. H = {Erase(r)} \cup Ahead(t) /\ N = R \cup Ahead(t)
    BY <1>6, <1>10, <1>11
  <2>2. /\ \A j : Emplace(j) \in N <=> Emplace(j) \in H
        /\ \A o : End(o) \in N <=> End(o) \in H
        /\ \A o : Make(o) \in N <=> Make(o) \in H
    BY <2>1, Tags
  <2>3. \A j, h : Release(j, h) \in N <=>
                      Release(j, h) \in H \/ (i # 0 /\ j = i /\ h = "muc_senders")
    BY <2>1, Tags
  <2>4. \A s \in Rooms : s # r /\ Erase(s) \in H => Erase(s) \in N
    BY <2>1, Tags
  <2>5. QED
    BY <2>2, <2>3, <2>4
<1> HIDE DEF R
<1>13. muc_senders' \in [Rooms -> 0..Len(rooms)]
       /\ \A s \in Rooms : muc_senders'[s] = IF s = r THEN 0 ELSE muc_senders[s]
  BY <1>5, <1>7, Basics DEF LifeTypeOK
<1>14. LifeTypeOK'
  BY <1>1, <1>7, <1>13 DEF LifeTypeOK
<1>15. Runs(todo, alive, rooms)'
  BY <1>1, <1>10
<1>16. Filed'
  BY <1>1, <1>7, <1>13 DEF Filed
<1>17. Held'
  <2>1. ASSUME NEW j \in 1..Len(rooms)
        PROVE  /\ "local" \in holders[j] => Emplace(j) \in N \/ Release(j, "local") \in N
               /\ "muc_senders" \in holders[j] =>
                    muc_senders'[rooms[j]] = j \/ Release(j, "muc_senders") \in N
               /\ Emplace(j) \in N => "local" \in holders[j] /\ j < cursor /\ phase = "sending"
               /\ \A h \in Holder : Release(j, h) \in N => h \in holders[j]
               /\ Release(j, "muc_senders") \in N => muc_senders'[rooms[j]] # j
    <3>1. /\ "local" \in holders[j] => Emplace(j) \in H \/ Release(j, "local") \in H
          /\ "muc_senders" \in holders[j] =>
               muc_senders[rooms[j]] = j \/ Release(j, "muc_senders") \in H
          /\ Emplace(j) \in H => "local" \in holders[j] /\ j < cursor /\ phase = "sending"
          /\ \A h \in Holder : Release(j, h) \in H => h \in holders[j]
          /\ Release(j, "muc_senders") \in H => muc_senders[rooms[j]] # j
      BY <1>7, <1>11 DEF Held
    <3>2. rooms[j] \in Rooms /\ j # 0
      BY Basics
    <3>3. "muc_senders" \in holders[j] =>
            muc_senders'[rooms[j]] = j \/ Release(j, "muc_senders") \in N
      BY <1>3, <1>12, <1>13, <3>1, <3>2
    <3>4. \A h \in Holder : Release(j, h) \in N => h \in holders[j]
      BY <1>8, <1>12, <3>1
    <3>5. Release(j, "muc_senders") \in N => muc_senders'[rooms[j]] # j
      BY <1>8, <1>12, <1>13, <3>1, <3>2
    <3>6. QED
      BY <1>12, <3>1, <3>3, <3>4, <3>5
  <2>2. QED
    BY <1>1, <1>11, <2>1 DEF Held
<1>18. Owned'
  BY <1>1, <1>7, <1>11, <1>12 DEF Owned
<1>19. Members'
  <2>1. phase # "gone"
    BY <1>1, AtHead
  <2>2. QED
    BY <1>1, <1>7, <1>11, <1>12, <1>13, <2>1 DEF Members
<1>20. QED
  BY <1>14, <1>15, <1>16, <1>17, <1>18, <1>19 DEF LifeInv

LEMMA ReleasingInv ==
  ASSUME LifeInv, Releasing
  PROVE  LifeInv'
<1>1. /\ todo # <<>> /\ Head(todo).do = "release"
      /\ UNCHANGED <<alive, muc_senders, open, phase, rooms, cursor, debug>>
  BY DEF Releasing, Does, Elsewhere
<1>2. PICK i \in 1..Len(rooms), h \in Holder : Head(todo) = Release(i, h)
  <2>1. Head(todo) \in Item(rooms)
    BY <1>1, AtHead
  <2>2. QED
    BY <1>1, <2>1, ItemKinds, Tags
<1>3. PICK t : t = Tail(todo)
  OBVIOUS
<1>4. /\ holders' = [holders EXCEPT ![i] = @ \ {h}]
      /\ todo' = (IF holders[i] = {h} THEN DestroySender(i) ELSE <<>>) \o t
  <2>1. Head(todo).obj.of = i /\ Head(todo).holder = h
    BY <1>2, Tags
  <2>2. QED
    BY <1>3, <2>1 DEF Releasing, Here, Then
<1>5. /\ Ahead(todo) = {Release(i, h)} \cup Ahead(t)
      /\ Runs(t, alive, rooms) /\ Clear(Release(i, h), t, rooms)
      /\ Emplace(i) \notin Ahead(t) /\ \A g : Release(i, g) \notin Ahead(t)
      /\ \A o \in Object(rooms) : Needs(Release(i, h), o) => o \in alive
  BY <1>1, <1>2, <1>3, AtHead, NotBehind
<1>6. \A o : Make(o) \notin Ahead(t)
  BY <1>1, <1>3, NotBehind DEF MayEndMore
<1>7. /\ HasSender(i, alive) /\ ForSending \subseteq alive
      /\ Len(rooms) \in Nat /\ rooms[i] \in Rooms /\ i # 0
  <2>1. /\ Part("sender", i) \in Object(rooms) /\ Part("nick", i) \in Object(rooms)
        /\ ForSending \subseteq Object(rooms)
    BY ObjectTypes DEF PartNames
  <2>2. \A n : Needs(Release(i, h), n) <=> (n \in ForSending \cup {Part("sender", i), Part("nick", i)})
    BY OfRelease
  <2>3. Part("sender", i) \in alive /\ Part("nick", i) \in alive /\ \A o \in ForSending : o \in alive
    BY <1>5, <2>1, <2>2
  <2>4. QED
    BY <2>3, Basics DEF HasSender
<1>8. LifeTypeOK /\ Filed /\ Held /\ Owned /\ Members
  BY DEF LifeInv
<1>9. h \in holders[i] /\ (h = "muc_senders" => muc_senders[rooms[i]] # i)
  BY <1>5, <1>8 DEF Held
<1> DEFINE D == IF holders[i] = {h}
                THEN {End(Part(p, i)) : p \in {n \in PartNames : n # "room" \/ Part(n, i) \in alive}}
                ELSE {}
<1>10. Runs(todo', alive, rooms) /\ Ahead(todo') = D \cup Ahead(t)
  <2>1. CASE holders[i] # {h}
    <3>1. t \in Seq(Item(rooms))
      BY <1>5 DEF Runs
    <3>2. todo' = t
      BY <1>4, <2>1, <3>1
    <3>3. QED
      BY <1>5, <2>1, <3>2
  <2>2. CASE holders[i] = {h}
    <3>1. PICK q : q = DestroySender(i)
      OBVIOUS
    <3>2. Runs(q, alive, rooms) /\ Ahead(q) = D
      BY <1>7, <2>2, <3>1, DestroySenderRuns
    <3>3. ASSUME NEW x \in Ahead(q) PROVE Clear(x, t, rooms)
      <4>1. PICK p \in PartNames : x = End(Part(p, i))
        BY <2>2, <3>2
      <4>2. MayEndMore(Release(i, h))
        BY Tags DEF MayEndMore
      <4>3. \A o \in Object(rooms) : MayEnd(x, o, rooms) => MayEnd(Release(i, h), o, rooms)
        BY <4>1, OfEnd, OfRelease
      <4>4. QED
        BY <1>5, <4>2, <4>3, ClearLess
    <3>4. Runs(q \o t, alive, rooms)
      BY <1>5, <3>2, <3>3, Concat
    <3>5. Ahead(q \o t) = Ahead(q) \cup Ahead(t)
      BY <1>5, <3>2, AheadConcat
    <3>6. todo' = q \o t
      BY <1>4, <2>2, <3>1
    <3>7. QED
      BY <3>2, <3>4, <3>5, <3>6
  <2>3. QED
    BY <2>1, <2>2
<1>11. PICK H, N : H = Ahead(todo) /\ N = Ahead(todo')
  OBVIOUS
<1>12. H = {Release(i, h)} \cup Ahead(t) /\ N = D \cup Ahead(t)
  BY <1>5, <1>10, <1>11
<1>13. \A x \in D : holders[i] = {h} /\ \E p \in PartNames : x = End(Part(p, i))
  OBVIOUS
<1>14. holders[i] = {h} => \A p \in PartNames : Part(p, i) \in alive => End(Part(p, i)) \in D
  OBVIOUS
<1> HIDE DEF D
<1>15. /\ \A j : Emplace(j) \in N <=> Emplace(j) \in H /\ j # i
       /\ \A j, g : Release(j, g) \in N <=> Release(j, g) \in H /\ j # i
       /\ \A o : Make(o) \notin N /\ Make(o) \notin H
       /\ \A r : Erase(r) \in N <=> Erase(r) \in H
       /\ \A o : End(o) \in N => End(o) \in H \/ (holders[i] = {h} /\ \E p \in PartNames : o = Part(p, i))
       /\ \A o : End(o) \in H => End(o) \in N
       /\ \A g : Release(i, g) \in H <=> g = h
       /\ Emplace(i) \notin H
  <2>1. /\ \A j : Emplace(j) \in N <=> Emplace(j) \in H /\ j # i
        /\ \A j, g : Release(j, g) \in N <=> Release(j, g) \in H /\ j # i
    BY <1>5, <1>12, <1>13, Tags
  <2>2. /\ \A o : Make(o) \notin N /\ Make(o) \notin H
        /\ \A r : Erase(r) \in N <=> Erase(r) \in H
    BY <1>6, <1>12, <1>13, Tags
  <2>3. /\ \A o : End(o) \in N => End(o) \in H \/ (holders[i] = {h} /\ \E p \in PartNames : o = Part(p, i))
        /\ \A o : End(o) \in H => End(o) \in N
    BY <1>12, <1>13, Tags
  <2>4. /\ \A g : Release(i, g) \in H <=> g = h
        /\ Emplace(i) \notin H
    BY <1>5, <1>12, Tags
  <2>5. QED
    BY <2>1, <2>2, <2>3, <2>4
<1>16. /\ holders' \in [1..Len(rooms) -> SUBSET Holder]
       /\ \A j \in 1..Len(rooms) : holders'[j] = IF j = i THEN holders[i] \ {h} ELSE holders[j]
  BY <1>4, <1>8 DEF LifeTypeOK
<1>17. LifeTypeOK'
  BY <1>1, <1>8, <1>16 DEF LifeTypeOK
<1>18. Runs(todo, alive, rooms)'
  BY <1>1, <1>10
<1>19. Filed'
  <2>1. ASSUME NEW r \in Rooms, muc_senders[r] # 0
        PROVE  /\ rooms[muc_senders[r]] = r /\ muc_senders[r] < cursor
               /\ "muc_senders" \in holders'[muc_senders[r]]
               /\ Part("sender", muc_senders[r]) \in alive /\ Part("nick", muc_senders[r]) \in alive
    <3>1. PICK j : j = muc_senders[r]
      OBVIOUS
    <3>2. /\ j \in 1..Len(rooms) /\ rooms[j] = r /\ j < cursor /\ "muc_senders" \in holders[j]
          /\ Part("sender", j) \in alive /\ Part("nick", j) \in alive
      BY <1>8, <2>1, <3>1, Basics DEF Filed
    <3>3. "muc_senders" \in holders'[j]
      BY <1>9, <1>16, <3>1, <3>2
    <3>4. QED
      BY <3>1, <3>2, <3>3
  <2>2. QED
    BY <1>1, <2>1 DEF Filed
<1>20. Held'
  <2>1. ASSUME NEW j \in 1..Len(rooms)
        PROVE  /\ "local" \in holders'[j] => Emplace(j) \in N \/ Release(j, "local") \in N
               /\ "muc_senders" \in holders'[j] =>
                    muc_senders[rooms[j]] = j \/ Release(j, "muc_senders") \in N
               /\ Emplace(j) \in N => "local" \in holders'[j] /\ j < cursor /\ phase = "sending"
               /\ \A g \in Holder : Release(j, g) \in N => g \in holders'[j]
               /\ Release(j, "muc_senders") \in N => muc_senders[rooms[j]] # j
    <3>1. /\ "local" \in holders[j] => Emplace(j) \in H \/ Release(j, "local") \in H
          /\ "muc_senders" \in holders[j] =>
               muc_senders[rooms[j]] = j \/ Release(j, "muc_senders") \in H
          /\ Emplace(j) \in H => "local" \in holders[j] /\ j < cursor /\ phase = "sending"
          /\ \A g \in Holder : Release(j, g) \in H => g \in holders[j]
          /\ Release(j, "muc_senders") \in H => muc_senders[rooms[j]] # j
      BY <1>8, <1>11 DEF Held
    <3>2. CASE j = i
      <4>1. holders'[i] = holders[i] \ {h}
        BY <1>16
      <4>2. \A g : g \in holders'[i] => g # h /\ g \in holders[i] /\ Release(i, g) \notin H
        BY <1>15, <4>1
      <4>3. "local" \notin holders'[i]
        BY <1>15, <3>1, <3>2, <4>2
      <4>4. "muc_senders" \in holders'[i] => muc_senders[rooms[i]] = i
        BY <3>1, <3>2, <4>2
      <4>5. QED
        BY <1>15, <3>2, <4>3, <4>4
    <3>3. CASE j # i
      BY <1>15, <1>16, <3>1, <3>3
    <3>4. QED
      BY <3>2, <3>3
  <2>2. QED
    BY <1>1, <1>11, <2>1 DEF Held
<1>21. Owned'
  <2>1. ASSUME NEW j \in 1..Len(rooms), NEW p \in PartNames
        PROVE  /\ Part(p, j) \in alive \/ Make(Part(p, j)) \in N =>
                    holders'[j] # {} \/ End(Part(p, j)) \in N
               /\ End(Part(p, j)) \in N => holders'[j] = {}
    <3>1. /\ Part(p, j) \in alive => holders[j] # {} \/ End(Part(p, j)) \in H
          /\ End(Part(p, j)) \in H => holders[j] = {}
      BY <1>8, <1>11 DEF Owned
    <3>2. CASE j = i
      <4>1. holders[i] # {h} => holders'[i] # {}
        BY <1>9, <1>16
      <4>2. holders[i] = {h} => holders'[i] = {}
        BY <1>16
      <4>3. End(Part(p, i)) \notin H
        BY <1>9, <3>1, <3>2
      <4>4. holders[i] = {h} /\ Part(p, i) \in alive => End(Part(p, i)) \in N
        BY <1>12, <1>14
      <4>5. QED
        BY <1>15, <3>2, <4>1, <4>2, <4>3, <4>4
    <3>3. CASE j # i
      <4>1. \A q \in PartNames : Part(p, j) # Part(q, i)
        BY <3>3, Distinct
      <4>2. End(Part(p, j)) \in N <=> End(Part(p, j)) \in H
        BY <1>15, <4>1
      <4>3. QED
        BY <1>15, <1>16, <3>1, <3>3, <4>2
    <3>4. QED
      BY <3>2, <3>3
  <2>2. QED
    BY <1>1, <1>11, <2>1 DEF Owned
<1>22. Members'
  <2>1. phase # "gone"
    BY <1>1, AtHead
  <2>2. \A n \in MemberNames : End(Member(n)) \in N <=> End(Member(n)) \in H
    <3>1. \A n \in MemberNames, p \in PartNames : Member(n) # Part(p, i)
      BY Basics, Part_Parts
    <3>2. QED
      BY <1>15, <3>1
  <2>3. QED
    BY <1>1, <1>8, <1>11, <1>15, <2>1, <2>2 DEF Members
<1>23. QED
  BY <1>17, <1>18, <1>19, <1>20, <1>21, <1>22 DEF LifeInv

LEMMA StandingInv ==
  ASSUME LifeInv, UNCHANGED lifeVars
  PROVE  LifeInv'
<1>1. /\ todo' = todo
      /\ UNCHANGED <<alive, holders, muc_senders, phase, rooms, cursor, debug, open>>
  BY DEF lifeVars
<1>2. open' \in BOOLEAN /\ Runs(todo, alive, rooms) /\ (phase = "gone" => todo = <<>>)
  BY <1>1 DEF LifeInv, LifeTypeOK, Members
<1>3. QED
  BY <1>1, <1>2, Quiet
-----------------------------------------------------------------------------
(***************************************************************************)
(* The theorems.                                                           *)
(***************************************************************************)

\* What is on the call stack can always be done: each object is there when it
\* is used, and each hold on a sender is one that something ahead gives up or
\* that the map has.
THEOREM LifeInvariance == LifeSpec => []LifeInv
<1>1. LifeInit => LifeInv
  BY InitInv
<1>2. LifeInv /\ [LifeNext]_lifeVars => LifeInv'
  <2>1. SUFFICES ASSUME LifeInv, [LifeNext]_lifeVars PROVE LifeInv'
    OBVIOUS
  <2>2. CASE SendToRoom
    BY <2>1, <2>2, SendToRoomInv
  <2>3. CASE OnConnectDone
    BY <2>1, <2>3, OnConnectDoneInv
  <2>4. CASE Callback
    BY <2>1, <2>4, CallbackInv
  <2>5. CASE StreamEnds
    BY <2>1, <2>5, StreamEndsInv
  <2>6. CASE Destroy
    BY <2>1, <2>6, DestroyInv
  <2>7. CASE Gone
    BY <2>1, <2>7, GoneInv
  <2>8. CASE Using
    BY <2>1, <2>8, UsingInv
  <2>9. CASE Making
    BY <2>1, <2>9, MakingInv
  <2>10. CASE Ending
    BY <2>1, <2>10, EndingInv
  <2>11. CASE Sending
    BY <2>1, <2>11, SendingInv
  <2>12. CASE Emplacing
    BY <2>1, <2>12, EmplacingInv
  <2>13. CASE Erasing
    BY <2>1, <2>13, ErasingInv
  <2>14. CASE Releasing
    BY <2>1, <2>14, ReleasingInv
  <2>15. CASE Rest \/ UNCHANGED lifeVars
    BY <2>1, <2>15, StandingInv DEF Rest
  <2>16. QED
    BY <2>1, <2>2, <2>3, <2>4, <2>5, <2>6, <2>7, <2>8, <2>9, <2>10, <2>11, <2>12, <2>13, <2>14, <2>15
       DEF LifeNext
<1>3. QED
  BY <1>1, <1>2, PTL DEF LifeSpec

\* Nothing is used after its end, nor ended twice, whatever the rooms, the
\* destinations and the order in which senders are removed and destroyed:
\* MUCSender's callbacks that erase their own sender, and ~Messenger.
THEOREM OnlyLiving == LifeSpec => []OnlyTheLiving
<1>1. LifeInv => OnlyTheLiving
  <2>1. SUFFICES ASSUME LifeInv, todo # <<>>, Head(todo).do \notin {"make", "release"}
                 PROVE  Here \in alive
    BY DEF OnlyTheLiving
  <2>2. PICK x : x = Head(todo)
    OBVIOUS
  <2>3. x \in Item(rooms) /\ \A o \in Object(rooms) : Needs(x, o) => o \in alive
    BY <2>1, <2>2, AtHead
  <2>4. x.obj \in Object(rooms)
    <3>1. Send.obj \in Object(rooms)
      BY ObjectTypes DEF Send, ForSending
    <3>2. \A i \in 1..Len(rooms) : Emplace(i).obj \in Object(rooms)
      BY OfEmplace, ObjectTypes DEF PartNames
    <3>3. \A r : Erase(r).obj \in Object(rooms)
      BY OfErase, ObjectTypes, Names DEF OtherNames
    <3>4. \A o : Use(o).obj = o /\ End(o).obj = o
      BY Tags
    <3>5. QED
      BY <2>1, <2>2, <2>3, <3>1, <3>2, <3>3, <3>4, ItemKinds, Tags
  <2>5. Needs(x, x.obj)
    BY <2>1, <2>2 DEF Needs
  <2>6. QED
    BY <2>2, <2>3, <2>4, <2>5 DEF Here
<1>2. QED
  BY <1>1, LifeInvariance, PTL

\* A sender has an owner for as long as it exists, and when the Messenger is
\* gone so is everything that was made.
THEOREM NoLeaks == LifeSpec => []NothingLeaks
<1>1. LifeInv => NothingLeaks
  <2>1. SUFFICES ASSUME LifeInv PROVE NothingLeaks
    OBVIOUS
  <2>2. \A i \in 1..Len(rooms) : todo = <<>> /\ Part("sender", i) \in alive => holders[i] # {}
    BY <2>1, AtRest DEF PartNames
  <2>3. ASSUME phase = "gone" PROVE alive = {Message}
    <3>1. todo = <<>> /\ Message \in alive
      BY <2>1, <2>3 DEF LifeInv, Members
    <3>2. Ahead(todo) = {} /\ Session \notin alive
      BY <2>1, <3>1, AtRest
    <3>3. /\ \A n \in MemberNames : Member(n) \notin alive
          /\ \A r \in Rooms : muc_senders[r] = 0
      BY <2>1, <2>3, <3>2 DEF LifeInv, Members
    <3>4. \A i \in 1..Len(rooms), p \in PartNames : Part(p, i) \notin alive
      <4>1. \A i \in 1..Len(rooms) : rooms[i] \in Rooms /\ i # 0
        BY <2>1, Basics
      <4>2. QED
        BY <2>1, <3>1, <3>3, <4>1, AtRest
    <3>5. alive \subseteq Object(rooms)
      BY <2>1 DEF LifeInv, LifeTypeOK
    <3>6. \A n \in OtherNames : Member(n) \in alive => Member(n) = Message
      BY <3>2, <3>3 DEF OtherNames, Message, Session
    <3>7. \A o \in alive : o = Message
      BY <3>4, <3>5, <3>6, ObjectTypes
    <3>8. QED
      BY <3>1, <3>7
  <2>4. QED
    BY <2>2, <2>3 DEF NothingLeaks, Message
<1>2. QED
  BY <1>1, LifeInvariance, PTL
=============================================================================
