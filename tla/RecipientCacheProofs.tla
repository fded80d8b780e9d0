------------------------ MODULE RecipientCacheProofs ------------------------
(***************************************************************************)
(* Proofs about the cache of recipients, for any tasks, numbers and        *)
(* contacts, any answers of signal-cli and cancellations at any time.      *)
(***************************************************************************)
EXTENDS RecipientCache, SequenceTheorems, TLAPS

(* What the cache has for a number has been reported for that number.      *)
Known == \A n \in Numbers : uuidByNumber[n] # Nothing => <<n, uuidByNumber[n]>> \in told

CacheInv == CacheTypeOK /\ LockExact /\ RightPerson /\ Known

Waiting == [pc : {"lock", "contacts"}, chat : Numbers, to : {Nothing}]
Speaking == [pc : {"rpc"}, chat : Chats, to : Chats]
Client == {NoCall} \cup Waiting \cup Speaking

(* The task p, and no other, is in the line q.                             *)
InLine(q, p) == \E k \in DOMAIN q : q[k] = p
Distinct(q) == \A k, l \in DOMAIN q : q[k] = q[l] => k = l

----------------------------------------------------------------------------
(* The line.                                                               *)

(* Appending puts one more into the line.                                  *)
LEMMA JoinLine ==
    ASSUME NEW q \in Seq(Callers), NEW p \in Callers, Distinct(q), ~InLine(q, p)
    PROVE  /\ Append(q, p) \in Seq(Callers)
           /\ Distinct(Append(q, p))
           /\ \A r \in Callers : InLine(Append(q, p), r) <=> InLine(q, r) \/ r = p
  <1> DEFINE a == Append(q, p)
  <1>1. /\ a \in Seq(Callers) /\ Len(a) = Len(q) + 1 /\ Len(q) \in Nat
        /\ \A k \in 1 .. Len(q) : a[k] = q[k]
        /\ a[Len(q) + 1] = p
        /\ DOMAIN a = 1 .. Len(q) + 1 /\ DOMAIN q = 1 .. Len(q)
    BY AppendProperties, LenProperties
  <1> HIDE DEF a
  <1>2. Distinct(a)
    BY <1>1 DEF Distinct, InLine
  <1>3. \A r \in Callers : InLine(a, r) <=> InLine(q, r) \/ r = p
    BY <1>1 DEF InLine
  <1>4. QED
    BY <1>1, <1>2, <1>3 DEF a

(* Taking the head out leaves the others.                                  *)
LEMMA LeaveHead ==
    ASSUME NEW q \in Seq(Callers), q # << >>, Distinct(q)
    PROVE  /\ Tail(q) \in Seq(Callers)
           /\ Distinct(Tail(q))
           /\ Head(q) \in Callers /\ InLine(q, Head(q))
           /\ \A r \in Callers : InLine(Tail(q), r) <=> InLine(q, r) /\ r # Head(q)
  <1> DEFINE t == Tail(q)
             n == Len(q)
  <1>1. /\ t \in Seq(Callers) /\ Len(t) = n - 1 /\ n \in Nat \ {0}
        /\ \A k \in 1 .. n - 1 : t[k] = q[k + 1]
        /\ DOMAIN t = 1 .. n - 1 /\ DOMAIN q = 1 .. n
        /\ Head(q) \in Callers
    BY HeadTailProperties, LenProperties, EmptySeq
  <1>2. Head(q) = q[1]
    BY LenProperties, EmptySeq
  <1> HIDE DEF t, n
  <1>3. Distinct(t)
    <2>1. ASSUME NEW k \in 1 .. n - 1, NEW l \in 1 .. n - 1, t[k] = t[l]
          PROVE  k = l
      <3>1. k + 1 \in 1 .. n /\ l + 1 \in 1 .. n /\ q[k + 1] = q[l + 1]
        BY <2>1, <1>1
      <3>2. k + 1 = l + 1
        BY <3>1, <1>1 DEF Distinct
      <3>3. QED
        BY <3>2
    <2>2. QED
      BY <2>1, <1>1 DEF Distinct
  <1>4. InLine(q, Head(q))
    BY <1>1, <1>2 DEF InLine
  <1>5. ASSUME NEW r \in Callers
        PROVE  InLine(t, r) <=> InLine(q, r) /\ r # Head(q)
    <2>1. ASSUME InLine(t, r) PROVE InLine(q, r) /\ r # Head(q)
      <3>1. PICK k \in 1 .. n - 1 : t[k] = r
        BY <2>1, <1>1 DEF InLine
      <3>2. k + 1 \in 1 .. n /\ 1 \in 1 .. n /\ q[k + 1] = r /\ k + 1 # 1
        BY <3>1, <1>1
      <3>3. QED
        BY <3>2, <1>1, <1>2 DEF InLine, Distinct
    <2>2. ASSUME InLine(q, r), r # Head(q) PROVE InLine(t, r)
      <3>1. PICK k \in 1 .. n : q[k] = r
        BY <2>2, <1>1 DEF InLine
      <3>2. k - 1 \in 1 .. n - 1 /\ t[k - 1] = r
        BY <3>1, <2>2, <1>1, <1>2
      <3>3. QED
        BY <3>2, <1>1 DEF InLine
    <2>3. QED
      BY <2>1, <2>2
  <1>6. QED
    BY <1>1, <1>3, <1>4, <1>5 DEF t

(* Whoever leaves the line is out of it, and the others are not.           *)
LEMMA LeaveLine ==
    ASSUME NEW q \in Seq(Callers), NEW p \in Callers, Distinct(q)
    PROVE  /\ Without(q, p) \in Seq(Callers)
           /\ Distinct(Without(q, p))
           /\ \A r \in Callers : InLine(Without(q, p), r) <=> InLine(q, r) /\ r # p
  <1> DEFINE of == {k \in DOMAIN q : q[k] = p}
             at == CHOOSE k \in of : TRUE
             n == Len(q)
             w == Without(q, p)
  <1>1. n \in Nat /\ DOMAIN q = 1 .. n /\ \A k \in 1 .. n : q[k] \in Callers
    BY LenProperties, ElementOfSeq
  <1>2. CASE of = {}
    <2>1. w = q
      BY <1>2 DEF Without
    <2>2. ~InLine(q, p)
      BY <1>2 DEF InLine
    <2>3. QED
      BY <2>1, <2>2 DEF InLine
  <1>3. CASE of # {}
    <2>1. at \in 1 .. n /\ q[at] = p
      BY <1>1, <1>3
    <2>2. w = SubSeq(q, 1, at - 1) \o SubSeq(q, at + 1, n)
      BY <1>3 DEF Without
    <2> HIDE DEF of, at, w
    <2>3. /\ SubSeq(q, 1, at - 1) \in Seq(Callers)
          /\ Len(SubSeq(q, 1, at - 1)) = at - 1
          /\ \A k \in 1 .. at - 1 : SubSeq(q, 1, at - 1)[k] = q[k]
      <3>1. 1 \in Int /\ at - 1 \in Int /\ \A k \in 1 .. at - 1 : q[k] \in Callers
        BY <1>1, <2>1
      <3>2. /\ SubSeq(q, 1, at - 1) \in Seq(Callers)
            /\ Len(SubSeq(q, 1, at - 1)) = IF 1 <= at - 1 THEN at - 1 - 1 + 1 ELSE 0
            /\ \A k \in 1 .. at - 1 - 1 + 1 : SubSeq(q, 1, at - 1)[k] = q[1 + k - 1]
        BY <3>1, SubSeqProperties
      <3>3. QED
        BY <3>2, <2>1, <1>1
    <2>4. /\ SubSeq(q, at + 1, n) \in Seq(Callers)
          /\ Len(SubSeq(q, at + 1, n)) = n - at
          /\ \A k \in 1 .. n - at : SubSeq(q, at + 1, n)[k] = q[at + k]
      <3>1. at + 1 \in Int /\ n \in Int /\ \A k \in at + 1 .. n : q[k] \in Callers
        BY <1>1, <2>1
      <3>2. /\ SubSeq(q, at + 1, n) \in Seq(Callers)
            /\ Len(SubSeq(q, at + 1, n)) = IF at + 1 <= n THEN n - (at + 1) + 1 ELSE 0
            /\ \A k \in 1 .. n - (at + 1) + 1 : SubSeq(q, at + 1, n)[k] = q[at + 1 + k - 1]
        BY <3>1, SubSeqProperties
      <3>3. n - (at + 1) + 1 = n - at /\ \A k \in 1 .. n - at : at + 1 + k - 1 = at + k
        BY <2>1, <1>1
      <3>4. Len(SubSeq(q, at + 1, n)) = n - at
        <4>1. CASE at + 1 <= n
          BY <4>1, <3>2, <3>3
        <4>2. CASE ~(at + 1 <= n)
          <5>1. \A i, j \in Int : i <= j /\ ~(i + 1 <= j) => j - i = 0
            OBVIOUS
          <5>2. at \in Int /\ n \in Int /\ at <= n
            BY <2>1, <1>1
          <5>3. n - at = 0
            BY <4>2, <5>1, <5>2
          <5>4. QED
            BY <4>2, <5>3, <3>2
        <4>3. QED
          BY <4>1, <4>2
      <3>5. QED
        BY <3>2, <3>3, <3>4
    <2>5. /\ w \in Seq(Callers) /\ Len(w) = n - 1
          /\ \A k \in 1 .. n - 1 : w[k] = IF k < at THEN q[k] ELSE q[k + 1]
      <3> DEFINE u == SubSeq(q, 1, at - 1)
                 v == SubSeq(q, at + 1, n)
      <3> HIDE DEF u, v
      <3>1. /\ u \in Seq(Callers) /\ Len(u) = at - 1 /\ \A k \in 1 .. at - 1 : u[k] = q[k]
            /\ v \in Seq(Callers) /\ Len(v) = n - at /\ \A k \in 1 .. n - at : v[k] = q[at + k]
            /\ w = u \o v
        BY <2>2, <2>3, <2>4 DEF u, v
      <3>2. /\ w \in Seq(Callers) /\ Len(w) = Len(u) + Len(v)
            /\ \A k \in 1 .. Len(u) + Len(v) :
                  w[k] = IF k <= Len(u) THEN u[k] ELSE v[k - Len(u)]
        BY <3>1, ConcatProperties
      <3>3. QED
        BY <3>1, <3>2, <2>1, <1>1
    <2>6. DOMAIN w = 1 .. n - 1
      BY <2>5, LenProperties
    <2>7. Distinct(w)
      <3>1. ASSUME NEW k \in 1 .. n - 1, NEW l \in 1 .. n - 1, w[k] = w[l]
            PROVE  k = l
        <4> DEFINE in(i) == IF i < at THEN i ELSE i + 1
        <4>1. in(k) \in 1 .. n /\ in(l) \in 1 .. n
          BY <2>1, <1>1
        <4>2. w[k] = q[in(k)] /\ w[l] = q[in(l)]
          BY <2>5
        <4>3. in(k) = in(l)
          <5> HIDE DEF in
          <5>1. QED
            BY <3>1, <4>1, <4>2, <1>1 DEF Distinct
        <4>4. QED
          BY <4>3, <2>1, <1>1
      <3>2. QED
        BY <3>1, <2>6 DEF Distinct
    <2>8. ASSUME NEW r \in Callers
          PROVE  InLine(w, r) <=> InLine(q, r) /\ r # p
      <3>1. ASSUME InLine(w, r) PROVE InLine(q, r) /\ r # p
        <4>1. PICK k \in 1 .. n - 1 : w[k] = r
          BY <3>1, <2>6 DEF InLine
        <4>2. PICK l \in 1 .. n : l # at /\ q[l] = r
          BY <4>1, <2>1, <2>5, <1>1
        <4>3. QED
          BY <4>2, <2>1, <1>1 DEF InLine, Distinct
      <3>2. ASSUME InLine(q, r), r # p PROVE InLine(w, r)
        <4>1. PICK l \in 1 .. n : q[l] = r
          BY <3>2, <1>1 DEF InLine
        <4>2. l # at
          BY <4>1, <3>2, <2>1
        <4>3. PICK k \in 1 .. n - 1 : w[k] = r
          <5>1. CASE l < at
            BY <5>1, <4>1, <2>1, <2>5, <1>1
          <5>2. CASE l > at
            <6>1. l - 1 \in 1 .. n - 1 /\ w[l - 1] = r
              BY <5>2, <4>1, <2>1, <2>5, <1>1
            <6>2. QED
              BY <6>1
          <5>3. QED
            BY <5>1, <5>2, <4>2, <2>1, <1>1
        <4>4. QED
          BY <4>3, <2>6 DEF InLine
      <3>3. QED
        BY <3>1, <3>2
    <2>9. QED
      BY <2>5, <2>7, <2>8 DEF w
  <1>4. QED
    BY <1>2, <1>3

----------------------------------------------------------------------------
(* What the cache has.                                                     *)

(* What an envelope brings is remembered as reported.                      *)
LEMMA RememberedKnown ==
    ASSUME CacheAssumption, CacheTypeOK, Known,
           NEW n \in Numbers \cup {Nothing}, NEW i \in Ids \cup {Nothing},
           uuidByNumber' = Remembered(n, i), told' = Heard(n, i)
    PROVE  /\ uuidByNumber' \in [Numbers -> Ids \cup {Nothing}]
           /\ told' \subseteq (Numbers \cup {Nothing}) \X (Ids \cup {Nothing})
           /\ told \subseteq told'
           /\ Known'
  <1>1. CASE n = Nothing \/ i = Nothing
    BY <1>1 DEF CacheTypeOK, Known, Remembered, Heard
  <1>2. CASE ~(n = Nothing \/ i = Nothing)
    <2>1. n \in Numbers /\ i \in Ids
      BY <1>2
    <2>2. uuidByNumber' = [uuidByNumber EXCEPT ![n] = i] /\ told' = told \cup {<<n, i>>}
      BY <1>2 DEF Remembered, Heard
    <2>3. QED
      BY <2>1, <2>2 DEF CacheTypeOK, Known
  <1>3. QED
    BY <1>1, <1>2

(* What is learned from a list of contacts is in that list.                *)
LEMMA LearnedFromList ==
    ASSUME CacheAssumption, CacheTypeOK,
           NEW list \in ContactLists \cup {<< >>}, NEW c, NEW n \in Numbers
    PROVE  \/ Learned(list, c)[n] = uuidByNumber[n]
           \/ /\ Learned(list, c)[n] \in Ids
              /\ <<n, Learned(list, c)[n]>> \in Reported(list)
  <1> DEFINE of(m) == {k \in DOMAIN list : Learns(list[k], c) /\ list[k].number = m}
             last(m) == {k \in of(m) : \A l \in of(m) : l <= k}
             k0 == CHOOSE k \in last(n) : TRUE
  <1>1. Learned(list, c)[n] = IF last(n) = {} THEN uuidByNumber[n] ELSE list[k0].id
    BY DEF Learned
  <1>2. CASE last(n) = {}
    BY <1>1, <1>2
  <1>3. CASE last(n) # {}
    <2>1. k0 \in last(n)
      BY <1>3
    <2>2. k0 \in DOMAIN list /\ list[k0].number = n /\ list[k0].id # Nothing
      BY <2>1 DEF Learns
    <2>3. list \in Seq(Contact)
      BY EmptySeq DEF CacheAssumption
    <2>4. list[k0] \in Contact
      BY <2>2, <2>3, LenProperties, ElementOfSeq
    <2>5. list[k0].id \in Ids
      BY <2>2, <2>4 DEF Contact
    <2>6. <<n, list[k0].id>> \in Reported(list)
      BY <2>2 DEF Reported
    <2>7. QED
      BY <1>1, <1>3, <2>5, <2>6
  <1>4. QED
    BY <1>2, <1>3

(* A list of contacts reports pairs of numbers and ids.                    *)
LEMMA ReportedType ==
    ASSUME CacheAssumption, NEW list \in ContactLists \cup {<< >>}
    PROVE  Reported(list) \subseteq (Numbers \cup {Nothing}) \X (Ids \cup {Nothing})
  <1>1. list \in Seq(Contact)
    BY EmptySeq DEF CacheAssumption
  <1>2. \A k \in DOMAIN list : list[k] \in Contact
    BY <1>1, LenProperties, ElementOfSeq
  <1>3. QED
    BY <1>2 DEF Reported, Contact

(* And what was learned is known.                                          *)
LEMMA LearnedKnown ==
    ASSUME CacheAssumption, CacheTypeOK, Known,
           NEW list \in ContactLists \cup {<< >>}, NEW c,
           uuidByNumber' = Learned(list, c), told' = told \cup Reported(list)
    PROVE  /\ uuidByNumber' \in [Numbers -> Ids \cup {Nothing}]
           /\ told' \subseteq (Numbers \cup {Nothing}) \X (Ids \cup {Nothing})
           /\ told \subseteq told'
           /\ Known'
  <1>1. \A n \in Numbers :
          \/ uuidByNumber'[n] = uuidByNumber[n]
          \/ uuidByNumber'[n] \in Ids /\ <<n, uuidByNumber'[n]>> \in Reported(list)
    BY LearnedFromList
  <1>2. uuidByNumber' = [n \in Numbers |-> uuidByNumber'[n]]
    BY DEF Learned
  <1>3. \A n \in Numbers : uuidByNumber'[n] \in Ids \cup {Nothing}
    BY <1>1 DEF CacheTypeOK
  <1>4. uuidByNumber' \in [Numbers -> Ids \cup {Nothing}]
    BY <1>2, <1>3
  <1>5. Known'
    BY <1>1 DEF Known
  <1>6. told' \subseteq (Numbers \cup {Nothing}) \X (Ids \cup {Nothing})
    BY ReportedType DEF CacheTypeOK
  <1>7. QED
    BY <1>4, <1>5, <1>6

----------------------------------------------------------------------------
(* Steps.                                                                  *)

(* The call of p becomes v; the lock and the line change for p only.       *)
Moves(p, v) ==
    /\ client' = [client EXCEPT ![p] = v]
    /\ v \in Client
    /\ queue' \in Seq(Callers) /\ Distinct(queue')
    /\ \A r \in Callers : InLine(queue', r) <=> IF r = p THEN v.pc = "lock" ELSE InLine(queue, r)
    /\ holder' \in Callers \cup {Nothing}
    /\ \A r \in Callers : holder' = r <=> IF r = p THEN v.pc = "contacts" ELSE holder = r
    /\ v.pc = "rpc" => v.to = v.chat \/ (v.chat \in Numbers /\ <<v.chat, v.to>> \in told')

(* The invariant survives the moves of one task.                           *)
LEMMA MovesPreserve ==
    ASSUME CacheInv, NEW p \in Callers, NEW v, Moves(p, v),
           uuidByNumber' \in [Numbers -> Ids \cup {Nothing}],
           told' \subseteq (Numbers \cup {Nothing}) \X (Ids \cup {Nothing}),
           told \subseteq told', Known'
    PROVE  CacheInv'
  <1>1. client \in [Callers -> Client]
    BY DEF CacheInv, CacheTypeOK, Client, Waiting, Speaking
  <1>2. /\ client' \in [Callers -> Client]
        /\ client'[p] = v
        /\ \A r \in Callers : r # p => client'[r] = client[r]
    BY <1>1 DEF Moves
  <1>3. CacheTypeOK'
    BY <1>2 DEF CacheTypeOK, Moves, Client, Waiting, Speaking
  <1>4. LockExact'
    <2>1. ASSUME NEW r \in Callers
          PROVE  (holder' = r <=> client'[r].pc = "contacts")
                 /\ (client'[r].pc = "lock" <=> InLine(queue', r))
      <3>1. CASE r = p
        BY <3>1, <1>2 DEF Moves
      <3>2. CASE r # p
        BY <3>2, <1>2 DEF Moves, CacheInv, LockExact, InLine
      <3>3. QED
        BY <3>1, <3>2
    <2>2. Distinct(queue')
      BY DEF Moves
    <2>3. QED
      BY <2>1, <2>2 DEF LockExact, InLine, Distinct
  <1>5. RightPerson'
    <2>1. ASSUME NEW r \in Callers, client'[r].pc = "rpc"
          PROVE  \/ client'[r].to = client'[r].chat
                 \/ /\ client'[r].chat \in Numbers
                    /\ <<client'[r].chat, client'[r].to>> \in told'
      <3>1. CASE r = p
        BY <2>1, <3>1, <1>2 DEF Moves
      <3>2. CASE r # p
        BY <2>1, <3>2, <1>2 DEF CacheInv, RightPerson
      <3>3. QED
        BY <3>1, <3>2
    <2>2. QED
      BY <2>1 DEF RightPerson
  <1>6. QED
    BY <1>3, <1>4, <1>5 DEF CacheInv

(* What is resolved from known pairs is the chat or one of its ids.        *)
LEMMA ResolvedKnown ==
    ASSUME CacheAssumption, NEW known \in [Numbers -> Ids \cup {Nothing}], NEW pairs,
           \A n \in Numbers : known[n] # Nothing => <<n, known[n]>> \in pairs,
           NEW c \in Chats
    PROVE  /\ Resolved(known, c) \in Chats
           /\ \/ Resolved(known, c) = c
              \/ c \in Numbers /\ <<c, Resolved(known, c)>> \in pairs
  BY DEF Resolved, Chats

(* A call in line or listing, and one that speaks, is a call.              *)
LEMMA CallType ==
    ASSUME CacheAssumption
    PROVE  /\ NoCall \in Client /\ NoCall.pc = "idle"
           /\ \A pc \in {"lock", "contacts"}, c \in Numbers :
                 [pc |-> pc, chat |-> c, to |-> Nothing] \in Client
           /\ \A c, r \in Chats : [pc |-> "rpc", chat |-> c, to |-> r] \in Client
           /\ \A v \in Client : /\ v.pc \in {"idle", "lock", "contacts", "rpc"}
                                /\ v.pc \in {"lock", "contacts"} => v.chat \in Numbers
  BY DEF Client, Waiting, Speaking, NoCall

(* A call begins.                                                          *)
LEMMA CallMoves ==
    ASSUME CacheAssumption, CacheInv, NEW p \in Callers, NEW c \in Chats, NEW known,
           known = uuidByNumber', known \in [Numbers -> Ids \cup {Nothing}], Known',
           Call(p, c, known)
    PROVE  \E v : Moves(p, v)
  <1>1. /\ client[p].pc \in {"idle", "rpc"} /\ ~InLine(queue, p) /\ holder # p
        /\ queue \in Seq(Callers) /\ Distinct(queue)
        /\ holder \in Callers \cup {Nothing} /\ Nothing \notin Callers
    BY DEF Call, CacheInv, CacheTypeOK, LockExact, InLine, Distinct, CacheAssumption
  <1>2. CASE /\ ~NeedsLookup(known, c)
             /\ NowAt(p, "rpc", c, Resolved(known, c))
             /\ UNCHANGED <<holder, queue>>
    <2> DEFINE v == [pc |-> "rpc", chat |-> c, to |-> Resolved(known, c)]
    <2>1. /\ Resolved(known, c) \in Chats
          /\ \/ Resolved(known, c) = c
             \/ c \in Numbers /\ <<c, Resolved(known, c)>> \in told'
      BY ResolvedKnown DEF Known
    <2>2. v \in Client /\ v.pc = "rpc" /\ v.chat = c /\ v.to = Resolved(known, c)
      BY <2>1, CallType
    <2>3. client' = [client EXCEPT ![p] = v] /\ UNCHANGED <<holder, queue>>
      BY <1>2 DEF NowAt
    <2> HIDE DEF v
    <2>4. Moves(p, v)
      BY <1>1, <2>1, <2>2, <2>3 DEF Moves
    <2>5. QED
      BY <2>4
  <1>3. CASE /\ NeedsLookup(known, c) /\ holder = Nothing /\ queue = << >>
             /\ NowAt(p, "contacts", c, Nothing)
             /\ holder' = p
             /\ UNCHANGED queue
    <2> DEFINE v == [pc |-> "contacts", chat |-> c, to |-> Nothing]
    <2>1. v \in Client /\ v.pc = "contacts"
      BY <1>3, CallType DEF NeedsLookup
    <2>2. client' = [client EXCEPT ![p] = v] /\ holder' = p /\ holder = Nothing /\ queue' = queue
      BY <1>3 DEF NowAt
    <2> HIDE DEF v
    <2>3. Moves(p, v)
      BY <1>1, <2>1, <2>2 DEF Moves
    <2>4. QED
      BY <2>3
  <1>4. CASE /\ NeedsLookup(known, c) /\ (holder # Nothing \/ queue # << >>)
             /\ NowAt(p, "lock", c, Nothing)
             /\ queue' = Append(queue, p)
             /\ UNCHANGED holder
    <2> DEFINE v == [pc |-> "lock", chat |-> c, to |-> Nothing]
    <2>1. v \in Client /\ v.pc = "lock"
      BY <1>4, CallType DEF NeedsLookup
    <2>2. client' = [client EXCEPT ![p] = v] /\ holder' = holder /\ queue' = Append(queue, p)
      BY <1>4 DEF NowAt
    <2>3. /\ queue' \in Seq(Callers) /\ Distinct(queue')
          /\ \A r \in Callers : InLine(queue', r) <=> InLine(queue, r) \/ r = p
      BY <1>1, <2>2, JoinLine
    <2> HIDE DEF v
    <2>4. Moves(p, v)
      BY <1>1, <2>1, <2>2, <2>3 DEF Moves
    <2>5. QED
      BY <2>4
  <1>5. QED
    BY <1>2, <1>3, <1>4 DEF Call

(* The head of the line is served.                                         *)
LEMMA GrantMoves ==
    ASSUME CacheAssumption, CacheInv, NEW p \in Callers, LockGranted(p)
    PROVE  \E v : Moves(p, v)
  <1> DEFINE c == client[p].chat
  <1>1. /\ holder = Nothing /\ queue # << >> /\ Head(queue) = p /\ queue' = Tail(queue)
        /\ queue \in Seq(Callers) /\ Distinct(queue) /\ Nothing \notin Callers
        /\ uuidByNumber \in [Numbers -> Ids \cup {Nothing}] /\ client \in [Callers -> Client]
    BY DEF LockGranted, CacheInv, CacheTypeOK, LockExact, Distinct, CacheAssumption,
           Client, Waiting, Speaking
  <1>2. /\ queue' \in Seq(Callers) /\ Distinct(queue') /\ InLine(queue, p)
        /\ \A r \in Callers : InLine(queue', r) <=> InLine(queue, r) /\ r # p
    BY <1>1, LeaveHead
  <1>3. client[p].pc = "lock"
    BY <1>2 DEF CacheInv, LockExact, InLine
  <1>4. c \in Numbers
    BY <1>1, <1>3, CallType
  <1>5. CASE NeedsLookup(uuidByNumber, c)
    <2> DEFINE v == [pc |-> "contacts", chat |-> c, to |-> Nothing]
    <2>1. v \in Client /\ v.pc = "contacts"
      BY <1>4, CallType
    <2>2. client' = [client EXCEPT ![p] = v] /\ holder' = p
      BY <1>5 DEF LockGranted, NowAt
    <2> HIDE DEF v
    <2>3. Moves(p, v)
      BY <1>1, <1>2, <2>1, <2>2 DEF Moves
    <2>4. QED
      BY <2>3
  <1>6. CASE ~NeedsLookup(uuidByNumber, c)
    <2> DEFINE v == [pc |-> "rpc", chat |-> c, to |-> uuidByNumber[c]]
    <2>1. uuidByNumber[c] # Nothing
      BY <1>4, <1>6 DEF NeedsLookup
    <2>2. uuidByNumber[c] \in Chats /\ c \in Chats
      BY <1>1, <1>4, <2>1 DEF Chats
    <2>3. v \in Client /\ v.pc = "rpc" /\ v.chat = c /\ v.to = uuidByNumber[c]
      BY <2>2, CallType
    <2>4. client' = [client EXCEPT ![p] = v] /\ holder' = holder /\ told' = told
      BY <1>6 DEF LockGranted, NowAt
    <2>5. <<c, uuidByNumber[c]>> \in told'
      BY <1>4, <2>1, <2>4 DEF CacheInv, Known
    <2> HIDE DEF v
    <2>6. Moves(p, v)
      BY <1>1, <1>2, <1>4, <2>3, <2>4, <2>5 DEF Moves
    <2>7. QED
      BY <2>6
  <1>7. QED
    BY <1>5, <1>6

(* The contacts are answered, or not.                                      *)
LEMMA ContactsMove ==
    ASSUME CacheAssumption, CacheInv, NEW p \in Callers, ContactsAnswered(p),
           uuidByNumber' \in [Numbers -> Ids \cup {Nothing}], Known'
    PROVE  \E v : Moves(p, v)
  <1> DEFINE c == client[p].chat
             v == [pc |-> "rpc", chat |-> c, to |-> Resolved(uuidByNumber', c)]
  <1>1. /\ client[p].pc = "contacts" /\ client \in [Callers -> Client]
        /\ queue' = queue /\ queue \in Seq(Callers) /\ Distinct(queue) /\ ~InLine(queue, p)
        /\ holder = p /\ holder' = Nothing /\ Nothing \notin Callers
    BY DEF ContactsAnswered, CacheInv, CacheTypeOK, LockExact, InLine, Distinct,
           CacheAssumption, Client, Waiting, Speaking
  <1>2. c \in Chats
    BY <1>1, CallType DEF Chats
  <1>3. /\ Resolved(uuidByNumber', c) \in Chats
        /\ \/ Resolved(uuidByNumber', c) = c
           \/ c \in Numbers /\ <<c, Resolved(uuidByNumber', c)>> \in told'
    BY <1>2, ResolvedKnown DEF Known
  <1>4. v \in Client /\ v.pc = "rpc" /\ v.chat = c /\ v.to = Resolved(uuidByNumber', c)
    BY <1>2, <1>3, CallType
  <1>5. client' = [client EXCEPT ![p] = v]
    BY DEF ContactsAnswered, NowAt
  <1> HIDE DEF v
  <1>6. Moves(p, v)
    BY <1>1, <1>3, <1>4, <1>5 DEF Moves
  <1>7. QED
    BY <1>6

(* A call ends, answered or cancelled.                                     *)
LEMMA EndMoves ==
    ASSUME CacheAssumption, CacheInv, NEW p \in Callers, Answered(p) \/ Abandon(p)
    PROVE  Moves(p, NoCall)
  <1>1. /\ queue \in Seq(Callers) /\ Distinct(queue)
        /\ holder \in Callers \cup {Nothing} /\ Nothing \notin Callers
        /\ client' = [client EXCEPT ![p] = NoCall]
        /\ NoCall \in Client /\ NoCall.pc = "idle"
    BY CallType DEF Answered, Abandon, CacheInv, CacheTypeOK, LockExact, Distinct, CacheAssumption
  <1>2. CASE Answered(p)
    <2>1. /\ client[p].pc = "rpc" /\ ~InLine(queue, p) /\ holder # p
          /\ queue' = queue /\ holder' = holder
      BY <1>2 DEF Answered, CacheInv, LockExact, InLine
    <2>2. QED
      BY <1>1, <2>1 DEF Moves
  <1>3. CASE Abandon(p)
    <2>1. queue' = Without(queue, p) /\ holder' = IF holder = p THEN Nothing ELSE holder
      BY <1>3 DEF Abandon
    <2>2. /\ queue' \in Seq(Callers) /\ Distinct(queue')
          /\ \A r \in Callers : InLine(queue', r) <=> InLine(queue, r) /\ r # p
      BY <1>1, <2>1, LeaveLine
    <2>3. QED
      BY <1>1, <2>1, <2>2 DEF Moves
  <1>4. QED
    BY <1>2, <1>3

----------------------------------------------------------------------------
(* The inductive invariant holds initially.                                *)
LEMMA CacheInvInit ==
    ASSUME CacheAssumption
    PROVE  CacheInit => CacheInv
  BY EmptySeq DEF CacheAssumption, CacheInit, CacheInv, CacheTypeOK, LockExact, RightPerson, Known, NoCall

(* Every step of the cache preserves the inductive invariant.              *)
LEMMA CacheInvNext ==
    ASSUME CacheAssumption, CacheInv, [CacheNext]_cacheVars
    PROVE  CacheInv'
  <1> USE CacheAssumption, CacheInv
  <1>1. /\ CacheTypeOK /\ Known
    BY DEF CacheInv
  <1>2. ASSUME NEW p \in Callers, NEW c \in Chats, PlainCall(p, c)
        PROVE  CacheInv'
    <2>1. /\ uuidByNumber' = uuidByNumber /\ told' = told /\ Call(p, c, uuidByNumber)
          /\ uuidByNumber' \in [Numbers -> Ids \cup {Nothing}] /\ Known'
          /\ told' \subseteq (Numbers \cup {Nothing}) \X (Ids \cup {Nothing})
      BY <1>1, <1>2 DEF PlainCall, CacheTypeOK, Known
    <2>2. PICK v : Moves(p, v)
      BY <2>1, CallMoves
    <2>3. QED
      BY <2>1, <2>2, MovesPreserve
  <1>3. ASSUME NEW p \in Callers, NEW c \in Chats, NEW n \in Numbers \cup {Nothing},
               NEW i \in Ids \cup {Nothing}, CallOnReceipt(p, c, n, i)
        PROVE  CacheInv'
    <2>1. /\ uuidByNumber' = Remembered(n, i) /\ told' = Heard(n, i)
          /\ Call(p, c, uuidByNumber')
      BY <1>3 DEF CallOnReceipt
    <2>2. /\ uuidByNumber' \in [Numbers -> Ids \cup {Nothing}] /\ Known'
          /\ told' \subseteq (Numbers \cup {Nothing}) \X (Ids \cup {Nothing})
          /\ told \subseteq told'
      BY <1>1, <2>1, RememberedKnown
    <2>3. PICK v : Moves(p, v)
      BY <2>1, <2>2, CallMoves
    <2>4. QED
      BY <2>2, <2>3, MovesPreserve
  <1>4. ASSUME NEW p \in Callers, LockGranted(p)
        PROVE  CacheInv'
    <2>1. /\ uuidByNumber' \in [Numbers -> Ids \cup {Nothing}] /\ Known'
          /\ told' \subseteq (Numbers \cup {Nothing}) \X (Ids \cup {Nothing})
          /\ told \subseteq told'
      BY <1>1, <1>4 DEF LockGranted, CacheTypeOK, Known
    <2>2. PICK v : Moves(p, v)
      BY <1>4, GrantMoves
    <2>3. QED
      BY <2>1, <2>2, MovesPreserve
  <1>5. ASSUME NEW p \in Callers, ContactsAnswered(p)
        PROVE  CacheInv'
    <2>1. PICK list \in ContactLists \cup {<< >>} :
              /\ uuidByNumber' = Learned(list, client[p].chat)
              /\ told' = told \cup Reported(list)
      BY <1>5 DEF ContactsAnswered
    <2>2. /\ uuidByNumber' \in [Numbers -> Ids \cup {Nothing}] /\ Known'
          /\ told' \subseteq (Numbers \cup {Nothing}) \X (Ids \cup {Nothing})
          /\ told \subseteq told'
      BY <1>1, <2>1, LearnedKnown
    <2>3. PICK v : Moves(p, v)
      BY <1>5, <2>2, ContactsMove
    <2>4. QED
      BY <2>2, <2>3, MovesPreserve
  <1>6. ASSUME NEW p \in Callers, Answered(p) \/ Abandon(p)
        PROVE  CacheInv'
    <2>1. /\ uuidByNumber' \in [Numbers -> Ids \cup {Nothing}] /\ Known'
          /\ told' \subseteq (Numbers \cup {Nothing}) \X (Ids \cup {Nothing})
          /\ told \subseteq told'
      BY <1>1, <1>6 DEF Answered, Abandon, CacheTypeOK, Known
    <2>2. Moves(p, NoCall)
      BY <1>6, EndMoves
    <2>3. QED
      BY <2>1, <2>2, MovesPreserve
  <1>7. CASE CacheGone
    BY <1>1, <1>7, EmptySeq DEF CacheGone, CacheAssumption, CacheInv, CacheTypeOK, LockExact,
           RightPerson, Known, NoCall
  <1>8. CASE UNCHANGED cacheVars
    BY <1>8 DEF cacheVars, CacheInv, CacheTypeOK, LockExact, RightPerson, Known
  <1>9. QED
    BY <1>2, <1>3, <1>4, <1>5, <1>6, <1>7, <1>8 DEF CacheNext

(* The invariant holds for every behaviour of the cache.                   *)
THEOREM CacheInvariant == CacheSpec => []CacheInv
  <1>1. CacheInit => CacheInv
    BY CacheInvInit, CacheAssumption
  <1>2. CacheInv /\ [CacheNext]_cacheVars => CacheInv'
    BY CacheInvNext, CacheAssumption
  <1>3. QED
    BY <1>1, <1>2, PTL DEF CacheSpec

(* A message for a number goes to the person who has that number, whatever *)
(* lookups, envelopes and failures come together.                          *)
THEOREM CacheRightPerson == CacheSpec => []RightPerson
  <1>1. CacheInv => RightPerson
    BY DEF CacheInv
  <1>2. QED
    BY <1>1, CacheInvariant, PTL

(* The lock is held by the task that lists the contacts, and wanted by     *)
(* those in line.                                                          *)
THEOREM CacheLockExact == CacheSpec => []LockExact
  <1>1. CacheInv => LockExact
    BY DEF CacheInv
  <1>2. QED
    BY <1>1, CacheInvariant, PTL

(* The contacts are listed for unknown numbers only.                       *)
THEOREM CacheNoNeedlessLookup == CacheSpec => NoNeedlessLookup
  <1> DEFINE Starts(p) == client[p].pc # "contacts" /\ client'[p].pc = "contacts"
  <1>1. ASSUME CacheInv, [CacheNext]_cacheVars, NEW p \in Callers, Starts(p)
        PROVE  uuidByNumber'[client'[p].chat] = Nothing
    <2>1. client \in [Callers -> Client]
      BY <1>1 DEF CacheInv, CacheTypeOK, Client, Waiting, Speaking
    <2>2. ASSUME NEW q \in Callers, NEW pc, NEW c, NEW r, NowAt(q, pc, c, r)
          PROVE  q = p /\ pc = "contacts" /\ client'[p].chat = c
      BY <1>1, <2>1, <2>2 DEF NowAt
    <2>3. ASSUME NEW q \in Callers, NEW c, NEW known, Call(q, c, known),
                 uuidByNumber' = known
          PROVE  uuidByNumber'[client'[p].chat] = Nothing
      BY <2>2, <2>3 DEF Call, NeedsLookup
    <2>4. ASSUME NEW q \in Callers, NEW c \in Chats, PlainCall(q, c)
          PROVE  uuidByNumber'[client'[p].chat] = Nothing
      BY <2>3, <2>4 DEF PlainCall
    <2>5. ASSUME NEW q \in Callers, NEW c \in Chats, NEW n \in Numbers \cup {Nothing},
                 NEW i \in Ids \cup {Nothing}, CallOnReceipt(q, c, n, i)
          PROVE  uuidByNumber'[client'[p].chat] = Nothing
      BY <2>3, <2>5 DEF CallOnReceipt
    <2>6. ASSUME NEW q \in Callers, LockGranted(q)
          PROVE  uuidByNumber'[client'[p].chat] = Nothing
      BY <2>2, <2>6 DEF LockGranted, NeedsLookup
    <2>7. ASSUME NEW q \in Callers, ContactsAnswered(q)
          PROVE  FALSE
      BY <2>2, <2>7 DEF ContactsAnswered
    <2>8. ASSUME NEW q \in Callers, Answered(q) \/ Abandon(q)
          PROVE  FALSE
      BY <1>1, <2>1, <2>8 DEF Answered, Abandon, NoCall
    <2>9. CASE CacheGone
      BY <1>1, <2>9 DEF CacheGone, NoCall
    <2>10. CASE UNCHANGED cacheVars
      BY <1>1, <2>10 DEF cacheVars
    <2>11. QED
      BY <1>1, <2>4, <2>5, <2>6, <2>7, <2>8, <2>9, <2>10 DEF CacheNext
  <1>2. CacheInv /\ [CacheNext]_cacheVars
          => [\A p \in Callers : Starts(p) => uuidByNumber'[client'[p].chat] = Nothing]_cacheVars
    BY <1>1
  <1>3. QED
    BY <1>2, CacheInvariant, PTL DEF CacheSpec, NoNeedlessLookup
=============================================================================
