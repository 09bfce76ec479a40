-------------------------- MODULE ReplicationProofs --------------------------
(***************************************************************************)
(* Proofs about Replication: what polling consumers of a provider without a *)
(* session log are promised, for any entries, writers and consumers, and    *)
(* with any number of updates, lost connections and crashes.                *)
(***************************************************************************)
EXTENDS Replication, FiniteSetTheorems, SequenceTheorems, TLAPS

Polling == Persist = {} /\ Empty = {} /\ LogSize = 0

------------------------------------------------------------------------------
(***************************************************************************)
(* Sets as sequences, and the greatest of a set of CSNs                     *)
(***************************************************************************)
LEMMA SetToSeqIs ==
  ASSUME NEW S, IsFiniteSet(S)
  PROVE  /\ SetToSeq(S) \in Seq(S)
         /\ \A x \in S : \E i \in 1 .. Len(SetToSeq(S)) : SetToSeq(S)[i] = x
<1> DEFINE n == Cardinality(S)
           One(f) == f \in [1 .. n -> S] /\ IsInjective(f)
<1>1. n \in Nat /\ ExistsBijection(1 .. n, S)
  BY FS_CardinalityType
<1>2. \E f : One(f)
  BY <1>1 DEF ExistsBijection, Bijection, Injection, IsInjective
<1>3. One(SetToSeq(S))
  BY <1>2 DEF SetToSeq
<1>4. SetToSeq(S) \in Injection(1 .. n, S)
  BY <1>3 DEF Injection
<1>5. Cardinality(1 .. n) = n
  BY <1>1, FS_Interval
<1>6. SetToSeq(S) \in Surjection(1 .. n, S)
  BY <1>4, <1>5, FS_Injection
<1>7. Len(SetToSeq(S)) = n /\ SetToSeq(S) \in Seq(S)
  BY <1>1, <1>3
<1> QED
  BY <1>6, <1>7 DEF Surjection

LEMMA MaxIn ==
  ASSUME NEW S \in SUBSET Nat, S # {}, NEW n \in Nat, \A x \in S : x <= n
  PROVE  Max(S) \in S
<1> DEFINE R == OpToRel(<, Nat)
           T == {n - x : x \in S}
<1>1. \A i, j \in Nat : i < j => <<i, j>> \in R
  BY DEF OpToRel
<1>2. IsWellFoundedOn(R, Nat)
  BY NatLessThanWellFounded
<1>3. T \in SUBSET Nat /\ T # {}
  <2>1. \A x \in S : x \in Nat /\ x <= n
    OBVIOUS
  <2>2. \A x \in S : n - x \in Nat
    BY <2>1
  <2>3. PICK x \in S : TRUE
    OBVIOUS
  <2>4. n - x \in T
    BY <2>3
  <2> QED
    BY <2>2, <2>4
<1> HIDE DEF R
<1>4. PICK k \in T : \A m \in T : ~ (<<m, k>> \in R)
  <2> HIDE DEF T
  <2> QED
    BY <1>2, <1>3, WFMin
<1>5. PICK x \in S : k = n - x
  OBVIOUS
<1>6. ASSUME NEW y \in S PROVE x >= y
  <2>1. n - y \in T /\ n - y \in Nat /\ k \in Nat
    OBVIOUS
  <2>2. ~ (n - y < k)
    BY <1>1, <1>4, <2>1
  <2> QED
    BY <1>5, <2>2
<1> QED
  BY <1>5, <1>6 DEF Max

------------------------------------------------------------------------------
(***************************************************************************)
(* A consumer and its search.  D is the provider's database, t its clock,    *)
(* s the search, q what is on the way, k the consumer.                      *)
(***************************************************************************)
Stores    == [Entries -> [csn : Nat, place : Places]]
Given     == Nat \cup {NoCsn}
Mail      == [tag : Tags, entries : SUBSET Entries, csn : Given, cookie : Given]
Clients   == [content : [Entries -> Given], cookie : Nat, present : SUBSET Entries,
              refreshDone : {FALSE}, refreshPresent : {FALSE}]
Searching == {"find", "list", "search"}
Searches  == [pc : {"off", "start"} \cup Searching, ctx : Nat, cookie : Given,
              changed : BOOLEAN, present : BOOLEAN, at : {NoCsn}, log : {{}}]
Naming    == {"ADD", "PRESENT"}

Within(D, e) == D[e].place = "in"
Shown(D, e)  == IF Within(D, e) THEN D[e].csn ELSE NoCsn

\* The order of what is sent: entries, then the end of the search.
InOrder(s, q) ==
  /\ s.pc \in {"start", "find", "list"} => q = <<>>
  /\ \A i \in 1 .. Len(q) :
       /\ q[i].tag \in Naming \cup {"DONE_PRESENT", "DONE_DELETES", "REFUSED"}
       /\ q[i].tag \in Naming => q[i].cookie = NoCsn /\ (i < Len(q) \/ s.pc = "search")
       /\ q[i].tag \notin Naming => i = Len(q) /\ s.pc = "off"
       /\ q[i].tag \in {"DONE_DELETES", "REFUSED"} => q[i].cookie = NoCsn

\* The state of the consumer that the provider goes by.
KnownState(s, k) ==
  /\ s.pc \in {"start", "find", "list"} => k.present = {} /\ s.cookie = k.cookie
  /\ s.pc = "search" => s.cookie \in {k.cookie, NoCsn}
  /\ s.pc \in Searching => s.present

\* No version and no cookie is ahead of the provider.
NotAhead(D, t, s, q, k) ==
  /\ k.cookie <= t /\ (s.pc \in Searching => s.ctx <= t)
  /\ \A e \in Entries : D[e].csn <= t /\ k.content[e] <= D[e].csn
  /\ \A i \in 1 .. Len(q) :
       q[i].cookie <= t /\ \A e \in q[i].entries : q[i].tag = "ADD" => q[i].csn <= D[e].csn

CoversIn(D, k) ==
  \A e \in Entries : D[e].csn <= k.cookie => k.content[e] = Shown(D, e)

\* The cookie the search will end with.
Goal(s, q) ==
  IF s.pc \in Searching THEN (IF s.changed THEN s.ctx ELSE NoCsn)
  ELSE IF q = <<>> THEN NoCsn ELSE q[Len(q)].cookie

\* An entry the consumer has been told of, or will be, as present ...
Named(D, s, q, k, e) ==
  \/ e \in k.present
  \/ \E i \in 1 .. Len(q) : q[i].tag \in Naming /\ e \in q[i].entries
  \/ s.pc \in {"find", "list"}
  \/ s.pc = "search" /\ s.cookie < D[e].csn

\* ... and whose version it has, or will get.
Sent(D, s, q, k, e) ==
  \/ k.content[e] = D[e].csn
  \/ \E i \in 1 .. Len(q) : /\ q[i].tag = "ADD" /\ e \in q[i].entries
                            /\ q[i].csn = D[e].csn
  \/ s.pc \in Searching /\ s.cookie < D[e].csn

NotNamed(q, k, e) ==
  e \notin k.present /\ \A i \in 1 .. Len(q) : q[i].tag \in Naming => e \notin q[i].entries

\* What the search does before it ends: entries unchanged since the snapshot are
\* named and sent if they are to be at the consumer, and not named otherwise.
Promise(D, s, q, k) ==
  \A e \in Entries : D[e].csn <= Goal(s, q) =>
    IF Within(D, e) THEN Named(D, s, q, k, e) /\ Sent(D, s, q, k, e) ELSE NotNamed(q, k, e)

Sound(D, t, s, q, k) ==
  /\ D \in Stores /\ t \in Nat /\ s \in Searches /\ q \in Seq(Mail) /\ k \in Clients
  /\ InOrder(s, q) /\ KnownState(s, k) /\ NotAhead(D, t, s, q, k)
  /\ CoversIn(D, k) /\ Promise(D, s, q, k)

------------------------------------------------------------------------------
(***************************************************************************)
(* The consumer                                                            *)
(***************************************************************************)
\* What a message does to a polling consumer.
LEMMA Received ==
  ASSUME NEW k \in Clients, NEW m \in Mail
  PROVE  /\ m.tag = "ADD" /\ m.cookie = NoCsn =>
              Receive(k, m) = [k EXCEPT
                !.present = @ \cup m.entries,
                !.content = [e \in Entries |->
                  IF e \in m.entries /\ k.cookie < m.csn /\ @[e] < m.csn
                    THEN m.csn ELSE @[e]]]
         /\ m.tag = "PRESENT" => Receive(k, m) = [k EXCEPT !.present = @ \cup m.entries]
         /\ m.tag \in {"DONE_DELETES", "REFUSED"} /\ m.cookie = NoCsn =>
              Receive(k, m) = [k EXCEPT !.present = {}]
         /\ m.tag = "DONE_PRESENT" /\ ~(k.cookie < m.cookie) =>
              Receive(k, m) = [k EXCEPT !.present = {}]
         /\ m.tag = "DONE_PRESENT" /\ k.cookie < m.cookie =>
              Receive(k, m) = [k EXCEPT
                !.present = {}, !.cookie = m.cookie,
                !.content = [e \in Entries |->
                  IF e \notin k.present /\ @[e] <= m.cookie THEN NoCsn ELSE @[e]]]
<1> USE DEF Clients, Mail, Given, NoCsn, Receive
<1>1. ASSUME m.tag = "ADD", m.cookie = NoCsn
      PROVE  Receive(k, m) = [k EXCEPT
                !.present = @ \cup m.entries,
                !.content = [e \in Entries |->
                  IF e \in m.entries /\ k.cookie < m.csn /\ @[e] < m.csn
                    THEN m.csn ELSE @[e]]]
  <2>1. ~TooOld(k, m)
    BY <1>1 DEF TooOld
  <2>2. Mentioned(k, m) = [k EXCEPT !.present = @ \cup m.entries]
    BY <1>1 DEF Mentioned, Present
  <2> DEFINE d == Mentioned(k, m)
  <2>3. d.cookie = k.cookie /\ d.content = k.content /\ k.cookie \in Nat /\ m.csn \in Int
    BY <2>2
  <2> DEFINE new == [e \in Entries |->
               IF e \in m.entries /\ k.cookie < m.csn /\ k.content[e] < m.csn
                 THEN m.csn ELSE k.content[e]]
  <2>4. Store(d, m) = [d EXCEPT !.content = new]
    <3> HIDE DEF d
    <3>1. CASE k.cookie < m.csn
      <4>1. Newer(d, m.csn)
        BY <2>3, <3>1 DEF Newer
      <4>2. Store(d, m) = [d EXCEPT !.content = [e \in Entries |->
               IF e \in m.entries /\ @[e] < m.csn THEN m.csn ELSE @[e]]]
        BY <1>1, <4>1 DEF Store
      <4> QED
        BY <2>3, <3>1, <4>2
    <3>2. CASE ~(k.cookie < m.csn)
      <4>1. ~Newer(d, m.csn)
        BY <2>3, <3>2 DEF Newer
      <4>2. Store(d, m) = d
        BY <1>1, <4>1 DEF Store
      <4>3. new = k.content
        BY <3>2
      <4>4. d = [d EXCEPT !.content = d.content]
        BY <2>2 DEF d
      <4> QED
        BY <2>3, <4>2, <4>3, <4>4
    <3> QED
      BY <3>1, <3>2
  <2>5. SaveCookie(Store(d, m), m.cookie) = Store(d, m)
    <3>1. Store(d, m).cookie = k.cookie
      <4> HIDE DEF new
      <4> QED BY <2>2, <2>4
    <3>2. ~Newer(Store(d, m), m.cookie)
      BY <1>1, <2>3, <3>1 DEF Newer
    <3> QED
      BY <3>2 DEF SaveCookie
  <2>6. Receive(k, m) = Store(d, m)
    BY <1>1, <2>1, <2>5 DEF Change
  <2> HIDE DEF new
  <2>7. Store(d, m) = [k EXCEPT !.present = @ \cup m.entries, !.content = new]
    BY <2>2, <2>4
  <2> USE DEF new
  <2> QED
    BY <2>6, <2>7
<1>2. m.tag = "PRESENT" => Receive(k, m) = [k EXCEPT !.present = @ \cup m.entries]
  BY DEF Present
<1>3. m.tag \in {"DONE_DELETES", "REFUSED"} /\ m.cookie = NoCsn =>
        Receive(k, m) = [k EXCEPT !.present = {}]
  BY DEF EndSearch, SaveCookie, Newer
<1>4. m.tag = "DONE_PRESENT" /\ ~(k.cookie < m.cookie) =>
        Receive(k, m) = [k EXCEPT !.present = {}]
  BY DEF EndSearch, SaveCookie, Newer
<1>5. ASSUME m.tag = "DONE_PRESENT", k.cookie < m.cookie
      PROVE  Receive(k, m) = [k EXCEPT
                !.present = {}, !.cookie = m.cookie,
                !.content = [e \in Entries |->
                  IF e \notin k.present /\ @[e] <= m.cookie THEN NoCsn ELSE @[e]]]
  <2> DEFINE d == DelNonpresent(k, Absent(k), m.cookie)
  <2>1. d = [k EXCEPT !.present = {},
               !.content = [e \in Entries |->
                 IF e \notin k.present /\ @[e] <= m.cookie THEN NoCsn ELSE @[e]]]
    BY DEF DelNonpresent, RemoveEntries, Covered, Absent
  <2>2. SaveCookie(d, m.cookie) = [d EXCEPT !.cookie = m.cookie]
    BY <1>5, <2>1 DEF SaveCookie, Newer
  <2>3. Receive(k, m) = SaveCookie(d, m.cookie)
    BY <1>5 DEF EndSearch, Newer
  <2> QED
    BY <2>1, <2>2, <2>3
<1> QED
  BY <1>1, <1>2, <1>3, <1>4, <1>5

LEMMA TailIs ==
  ASSUME NEW q \in Seq(Mail), q # <<>>
  PROVE  /\ Len(q) \in Nat /\ Len(q) >= 1 /\ Head(q) = q[1] /\ q[1] \in Mail
         /\ Tail(q) \in Seq(Mail) /\ Len(Tail(q)) = Len(q) - 1
         /\ \A i \in 1 .. Len(q) : i - 1 \in 1 .. Len(q) - 1 \/ i = 1
         /\ \A i \in 1 .. Len(q) - 1 : i + 1 \in 1 .. Len(q) /\ Tail(q)[i] = q[i + 1]
         /\ Tail(q) = <<>> <=> Len(q) = 1
<1>1. Len(q) \in Nat /\ Len(q) >= 1 /\ q \in [1 .. Len(q) -> Mail]
  OBVIOUS
<1>2. Head(q) = q[1] /\ q[1] \in Mail
  BY <1>1
<1>3. Tail(q) \in Seq(Mail) /\ Len(Tail(q)) = Len(q) - 1
  OBVIOUS
<1>4. \A i \in 1 .. Len(q) - 1 : i + 1 \in 1 .. Len(q) /\ Tail(q)[i] = q[i + 1]
  BY <1>1
<1>5. \A i \in 1 .. Len(q) : i - 1 \in 1 .. Len(q) - 1 \/ i = 1
  BY <1>1
<1>6. Tail(q) = <<>> <=> Len(q) = 1
  <2>1. Len(Tail(q)) = 0 <=> Tail(q) = <<>>
    BY <1>3, EmptySeq
  <2> QED
    BY <1>1, <1>3, <2>1
<1> QED
  BY <1>1, <1>2, <1>3, <1>4, <1>5, <1>6

\* Messages that do not end a search.
LEMMA NamingSound ==
  ASSUME NEW D, NEW t, NEW s, NEW q, NEW k, Sound(D, t, s, q, k), q # <<>>,
         q[1].tag \in Naming
  PROVE  /\ Sound(D, t, s, Tail(q), Receive(k, q[1]))
         /\ \A e \in Entries :
              k.content[e] # NoCsn => Receive(k, q[1]).content[e] # NoCsn
         /\ Receive(k, q[1]).cookie = k.cookie
<1> DEFINE m == q[1]
           r == Receive(k, m)
<1>1. /\ D \in Stores /\ t \in Nat /\ s \in Searches /\ q \in Seq(Mail) /\ k \in Clients
      /\ InOrder(s, q) /\ KnownState(s, k) /\ NotAhead(D, t, s, q, k)
      /\ CoversIn(D, k) /\ Promise(D, s, q, k)
  BY DEF Sound
<1>2. /\ Len(q) \in Nat /\ Len(q) >= 1 /\ m \in Mail
      /\ Tail(q) \in Seq(Mail) /\ Len(Tail(q)) = Len(q) - 1
      /\ \A i \in 1 .. Len(q) : i - 1 \in 1 .. Len(q) - 1 \/ i = 1
      /\ \A i \in 1 .. Len(q) - 1 : i + 1 \in 1 .. Len(q) /\ Tail(q)[i] = q[i + 1]
      /\ Tail(q) = <<>> <=> Len(q) = 1
  BY <1>1, TailIs
<1>3. m.cookie = NoCsn /\ (Len(q) > 1 \/ s.pc = "search")
  BY <1>1, <1>2 DEF InOrder
<1>4. s.pc \in {"search", "off"}
  BY <1>1 DEF InOrder, Searches, Searching
<1>5. Goal(s, Tail(q)) = Goal(s, q)
  BY <1>2, <1>3, <1>4 DEF Goal, Searching
<1>6. /\ r \in Clients /\ r.cookie = k.cookie /\ r.present = k.present \cup m.entries
      /\ \A e \in Entries :
           \/ r.content[e] = k.content[e]
           \/ /\ m.tag = "ADD" /\ e \in m.entries /\ k.cookie < m.csn
              /\ k.content[e] < m.csn /\ r.content[e] = m.csn
      /\ \A e \in Entries : m.tag = "ADD" /\ e \in m.entries /\ k.cookie < m.csn
           => r.content[e] >= m.csn
  <2>1. CASE m.tag = "ADD"
    <3>1. r = [k EXCEPT !.present = @ \cup m.entries,
                !.content = [e \in Entries |->
                  IF e \in m.entries /\ k.cookie < m.csn /\ @[e] < m.csn
                    THEN m.csn ELSE @[e]]]
      BY <1>1, <1>2, <1>3, <2>1, Received
    <3>2. \A e \in Entries :
            /\ k.content[e] \in Given /\ m.csn \in Given
            /\ r.content[e] = IF e \in m.entries /\ k.cookie < m.csn /\ k.content[e] < m.csn
                               THEN m.csn ELSE k.content[e]
      BY <1>1, <1>2, <3>1 DEF Clients, Mail
    <3>3. r \in Clients /\ r.cookie = k.cookie /\ r.present = k.present \cup m.entries
      <4> DEFINE new == [e \in Entries |->
             IF e \in m.entries /\ k.cookie < m.csn /\ k.content[e] < m.csn
               THEN m.csn ELSE k.content[e]]
      <4>1. new \in [Entries -> Given] /\ k.present \cup m.entries \in SUBSET Entries
        BY <1>1, <1>2 DEF Clients, Mail
      <4>2. r = [k EXCEPT !.present = k.present \cup m.entries, !.content = new]
        BY <3>1
      <4> HIDE DEF new, r
      <4> QED
        BY <1>1, <4>1, <4>2 DEF Clients
    <3> HIDE DEF r, m
    <3> QED
      BY <2>1, <3>2, <3>3 DEF Given, NoCsn
  <2>2. CASE m.tag = "PRESENT"
    <3>1. r = [k EXCEPT !.present = @ \cup m.entries]
      BY <1>1, <1>2, <1>3, <2>2, Received
    <3> QED
      BY <1>1, <1>2, <2>2, <3>1 DEF Clients, Mail, Given, NoCsn
  <2> QED
    BY <2>1, <2>2 DEF Naming
<1> HIDE DEF r
<1>7. InOrder(s, Tail(q))
  <2>1. ASSUME NEW i \in 1 .. Len(Tail(q))
        PROVE  i + 1 \in 1 .. Len(q) /\ Tail(q)[i] = q[i + 1] /\ i \in Nat
    BY <1>2
  <2>2. s.pc \notin {"start", "find", "list"}
    BY <1>4
  <2>3. ASSUME NEW i \in 1 .. Len(Tail(q))
        PROVE  /\ Tail(q)[i].tag \in Naming \cup {"DONE_PRESENT", "DONE_DELETES", "REFUSED"}
               /\ Tail(q)[i].tag \in Naming =>
                    Tail(q)[i].cookie = NoCsn /\ (i < Len(Tail(q)) \/ s.pc = "search")
               /\ Tail(q)[i].tag \notin Naming => i = Len(Tail(q)) /\ s.pc = "off"
               /\ Tail(q)[i].tag \in {"DONE_DELETES", "REFUSED"} => Tail(q)[i].cookie = NoCsn
    <3> DEFINE n == q[i + 1]
    <3>1. /\ n.tag \in Naming \cup {"DONE_PRESENT", "DONE_DELETES", "REFUSED"}
          /\ n.tag \in Naming => n.cookie = NoCsn /\ (i + 1 < Len(q) \/ s.pc = "search")
          /\ n.tag \notin Naming => i + 1 = Len(q) /\ s.pc = "off"
          /\ n.tag \in {"DONE_DELETES", "REFUSED"} => n.cookie = NoCsn
      BY <1>1, <2>1 DEF InOrder
    <3>2. (i + 1 < Len(q) <=> i < Len(Tail(q))) /\ (i + 1 = Len(q) <=> i = Len(Tail(q)))
      BY <1>2, <2>1
    <3>3. Tail(q)[i] = n
      BY <2>1
    <3> HIDE DEF n
    <3> QED
      BY <3>1, <3>2, <3>3
  <2> QED
    BY <2>2, <2>3 DEF InOrder
<1>8. KnownState(s, r)
  BY <1>1, <1>4, <1>6 DEF KnownState
<1>9. \A e \in Entries : /\ D[e].csn \in Nat /\ k.content[e] \in Given /\ r.content[e] \in Given
                         /\ m.csn \in Given /\ k.cookie \in Nat
  BY <1>1, <1>2, <1>6 DEF Stores, Clients, Mail
<1>10. NotAhead(D, t, s, Tail(q), r)
  <2>1. ASSUME NEW e \in Entries PROVE r.content[e] <= D[e].csn
    <3>1. k.content[e] <= D[e].csn
      BY <1>1 DEF NotAhead
    <3>2. m.tag = "ADD" /\ e \in m.entries => m.csn <= D[e].csn
      BY <1>1, <1>2 DEF NotAhead
    <3> QED
      BY <1>6, <3>1, <3>2
  <2> QED
    BY <1>1, <1>2, <1>6, <2>1 DEF NotAhead
<1>11. CoversIn(D, r)
  <2> SUFFICES ASSUME NEW e \in Entries, D[e].csn <= r.cookie
               PROVE  r.content[e] = Shown(D, e)
    BY DEF CoversIn
  <2>1. k.content[e] = Shown(D, e)
    BY <1>1, <1>6 DEF CoversIn
  <2>2. m.tag = "ADD" /\ e \in m.entries => m.csn <= D[e].csn
    BY <1>1, <1>2 DEF NotAhead
  <2> QED
    BY <1>6, <1>9, <2>1, <2>2 DEF Given, NoCsn
<1>12. Promise(D, s, Tail(q), r)
  <2> SUFFICES ASSUME NEW e \in Entries, D[e].csn <= Goal(s, q)
               PROVE  IF Within(D, e) THEN Named(D, s, Tail(q), r, e) /\ Sent(D, s, Tail(q), r, e)
                      ELSE NotNamed(Tail(q), r, e)
    BY <1>5 DEF Promise
  <2>0. IF Within(D, e) THEN Named(D, s, q, k, e) /\ Sent(D, s, q, k, e) ELSE NotNamed(q, k, e)
    BY <1>1 DEF Promise
  <2>1. CASE ~Within(D, e)
    <3>1. NotNamed(q, k, e)
      BY <2>0, <2>1
    <3>2. NotNamed(Tail(q), r, e)
      BY <1>2, <1>6, <3>1 DEF NotNamed
    <3> QED
      BY <2>1, <3>2
  <2>2. CASE Within(D, e)
    <3>1. Named(D, s, q, k, e) /\ Sent(D, s, q, k, e)
      BY <2>0, <2>2
    <3>2. Named(D, s, Tail(q), r, e)
      <4>1. ASSUME NEW i \in 1 .. Len(q), q[i].tag \in Naming, e \in q[i].entries
            PROVE  Named(D, s, Tail(q), r, e)
        BY <1>2, <1>6, <4>1 DEF Named
      <4> QED
        BY <1>6, <3>1, <4>1 DEF Named
    <3>3. Sent(D, s, Tail(q), r, e)
      <4>0. r.content[e] <= D[e].csn
        BY <1>10 DEF NotAhead
      <4>1. ASSUME NEW i \in 1 .. Len(q), q[i].tag = "ADD", e \in q[i].entries,
                   q[i].csn = D[e].csn
            PROVE  Sent(D, s, Tail(q), r, e)
        <5>1. CASE i = 1
          <6>1. CASE k.cookie < m.csn
            BY <1>6, <1>9, <4>0, <4>1, <5>1, <6>1 DEF Sent, Given, NoCsn
          <6>2. CASE ~(k.cookie < m.csn)
            <7>1. r.content[e] = Shown(D, e)
              BY <1>6, <1>9, <1>11, <4>1, <5>1, <6>2 DEF CoversIn, Given, NoCsn
            <7> QED
              BY <2>2, <7>1 DEF Sent, Shown
          <6> QED
            BY <6>1, <6>2
        <5>2. CASE i # 1
          <6>1. i - 1 \in 1 .. Len(Tail(q)) /\ Tail(q)[i - 1] = q[(i - 1) + 1] /\ (i - 1) + 1 = i
            BY <1>2, <5>2
          <6> QED
            BY <4>1, <6>1 DEF Sent
        <5> QED
          BY <5>1, <5>2
      <4>2. ASSUME k.content[e] = D[e].csn PROVE Sent(D, s, Tail(q), r, e)
        BY <1>6, <1>9, <4>0, <4>2 DEF Sent, Given, NoCsn
      <4> QED
        BY <3>1, <4>1, <4>2 DEF Sent
    <3> QED
      BY <2>2, <3>2, <3>3
  <2> QED
    BY <2>1, <2>2
<1>13. \A e \in Entries : k.content[e] # NoCsn => r.content[e] # NoCsn
  BY <1>6, <1>9 DEF Given, NoCsn
<1>14. Sound(D, t, s, Tail(q), r)
  BY <1>1, <1>2, <1>6, <1>7, <1>8, <1>10, <1>11, <1>12 DEF Sound
<1> QED
  BY <1>6, <1>13, <1>14 DEF r

\* A consumer without a connection, or that has only just connected.
LEMMA IdleSound ==
  ASSUME NEW D \in Stores, NEW t \in Nat, NEW s \in Searches, NEW k \in Clients,
         CoversIn(D, k), k.cookie <= t,
         \A e \in Entries : D[e].csn <= t /\ k.content[e] <= D[e].csn,
         s.pc \in {"off", "start"}, s.pc = "start" => k.present = {} /\ s.cookie = k.cookie
  PROVE  Sound(D, t, s, <<>>, k)
<1>1. <<>> \in Seq(Mail)
  OBVIOUS
<1>2. Goal(s, <<>>) = NoCsn
  BY DEF Goal, Searching
<1>3. Promise(D, s, <<>>, k)
  BY <1>2 DEF Promise, Stores, NoCsn
<1> QED
  BY <1>1, <1>3 DEF Sound, InOrder, KnownState, NotAhead, Searching

LEMMA OffIs == Off \in Searches /\ Off.pc = "off"
  BY DEF Off, Searches, Given

LEMMA EndedIs == ASSUME NEW c, c \notin Persist PROVE Ended(c) = Off
<1>1. Ended(c) = [Off EXCEPT !.pc = "off"]
  BY DEF Ended
<1>2. ASSUME NEW s \in Searches PROVE [s EXCEPT !.pc = s.pc] = s
  BY DEF Searches
<1>3. [Off EXCEPT !.pc = Off.pc] = Off
  BY <1>2, OffIs
<1>4. [Off EXCEPT !.pc = "off"] = Off
  BY <1>3, OffIs
<1> QED
  BY <1>1, <1>4

LEMMA OffSound ==
  ASSUME NEW D \in Stores, NEW t \in Nat, NEW k \in Clients, CoversIn(D, k), k.cookie <= t,
         \A e \in Entries : D[e].csn <= t /\ k.content[e] <= D[e].csn
  PROVE  Sound(D, t, Off, <<>>, k)
  BY OffIs, IdleSound

\* A connection may be lost at any time.
LEMMA LostSound ==
  ASSUME NEW D, NEW t, NEW s, NEW q, NEW k, Sound(D, t, s, q, k)
  PROVE  Sound(D, t, Off, <<>>, k)
<1>1. /\ D \in Stores /\ t \in Nat /\ k \in Clients
      /\ NotAhead(D, t, s, q, k) /\ CoversIn(D, k)
  BY DEF Sound
<1> QED
  BY <1>1, OffSound DEF NotAhead

\* The end of a search.
LEMMA ClosingSound ==
  ASSUME NEW D, NEW t, NEW s, NEW q, NEW k, Sound(D, t, s, q, k), q # <<>>,
         q[1].tag \notin Naming
  PROVE  /\ Sound(D, t, s, Tail(q), Receive(k, q[1]))
         /\ \A e \in Entries : k.content[e] # NoCsn /\ Receive(k, q[1]).content[e] = NoCsn
              => k.content[e] # Shown(D, e)
         /\ k.cookie <= Receive(k, q[1]).cookie
<1> DEFINE m == q[1]
           r == Receive(k, m)
<1>1. /\ D \in Stores /\ t \in Nat /\ s \in Searches /\ q \in Seq(Mail) /\ k \in Clients
      /\ InOrder(s, q) /\ KnownState(s, k) /\ NotAhead(D, t, s, q, k)
      /\ CoversIn(D, k) /\ Promise(D, s, q, k)
  BY DEF Sound
<1>2. Len(q) \in Nat /\ Len(q) >= 1 /\ m \in Mail
  BY <1>1, TailIs
<1>3. /\ m.tag \in {"DONE_PRESENT", "DONE_DELETES", "REFUSED"} /\ Len(q) = 1 /\ s.pc = "off"
      /\ m.tag # "DONE_PRESENT" => m.cookie = NoCsn
  <2>1. 1 \in 1 .. Len(q)
    BY <1>2
  <2> QED
    BY <1>1, <2>1 DEF InOrder
<1>4. Tail(q) = <<>>
  BY <1>1, <1>3, TailIs
<1>5. Goal(s, q) = m.cookie
  BY <1>1, <1>3 DEF Goal, Searching
<1>6. /\ k.cookie \in Nat /\ m.cookie \in Given /\ m.cookie <= t /\ k.cookie <= t
      /\ \A e \in Entries : /\ k.content[e] \in Given /\ D[e].csn \in Nat /\ D[e].csn <= t
                            /\ k.content[e] <= D[e].csn
  BY <1>1, <1>2 DEF Clients, Mail, Stores, NotAhead
<1>7. r \in Clients /\ CoversIn(D, r) /\ k.cookie <= r.cookie /\ r.cookie <= t
      /\ \A e \in Entries :
           /\ r.content[e] <= D[e].csn
           /\ k.content[e] # NoCsn /\ r.content[e] = NoCsn => k.content[e] # Shown(D, e)
  <2>1. CASE ~(m.tag = "DONE_PRESENT" /\ k.cookie < m.cookie)
    <3>1. r = [k EXCEPT !.present = {}]
      BY <1>1, <1>2, <1>3, <2>1, Received
    <3>2. r \in Clients /\ r.cookie = k.cookie /\ r.content = k.content
      BY <1>1, <3>1 DEF Clients
    <3> HIDE DEF r
    <3> QED
      BY <1>1, <1>6, <3>2 DEF CoversIn
  <2>2. CASE m.tag = "DONE_PRESENT" /\ k.cookie < m.cookie
    <3>1. r = [k EXCEPT !.present = {}, !.cookie = m.cookie,
                !.content = [e \in Entries |->
                  IF e \notin k.present /\ @[e] <= m.cookie THEN NoCsn ELSE @[e]]]
      BY <1>1, <1>2, <2>2, Received
    <3>2. /\ r.cookie = m.cookie /\ m.cookie \in Nat
          /\ \A e \in Entries : r.content[e] =
               IF e \notin k.present /\ k.content[e] <= m.cookie THEN NoCsn ELSE k.content[e]
      BY <1>1, <1>6, <2>2, <3>1 DEF Clients, Given, NoCsn
    <3>3. r \in Clients
      BY <1>1, <3>1, <3>2 DEF Clients, Given
    <3>4. ASSUME NEW e \in Entries, D[e].csn <= m.cookie
          PROVE  r.content[e] = Shown(D, e) /\ (Within(D, e) => e \in k.present)
      <4>1. CASE Within(D, e)
        <5>1. Named(D, s, q, k, e) /\ Sent(D, s, q, k, e)
          BY <1>1, <1>5, <3>4, <4>1 DEF Promise
        <5>2. e \in k.present
          BY <1>3, <5>1 DEF Named, Naming
        <5>3. k.content[e] = D[e].csn
          BY <1>3, <5>1 DEF Sent, Searching
        <5> QED
          BY <3>2, <4>1, <5>2, <5>3 DEF Shown
      <4>2. CASE ~Within(D, e)
        <5>1. e \notin k.present
          BY <1>1, <1>5, <3>4, <4>2 DEF Promise, NotNamed
        <5>2. k.content[e] <= m.cookie
          BY <1>6, <3>2, <3>4 DEF Given, NoCsn
        <5> QED
          BY <3>2, <4>2, <5>1, <5>2 DEF Shown
      <4> QED
        BY <4>1, <4>2
    <3>5. CoversIn(D, r)
      BY <3>2, <3>4 DEF CoversIn
    <3>6. ASSUME NEW e \in Entries, k.content[e] # NoCsn, r.content[e] = NoCsn
          PROVE  k.content[e] # Shown(D, e)
      <4>1. e \notin k.present /\ k.content[e] <= m.cookie
        BY <3>2, <3>6
      <4> SUFFICES ASSUME k.content[e] = Shown(D, e) PROVE FALSE
        OBVIOUS
      <4>2. Within(D, e) /\ D[e].csn <= m.cookie
        BY <3>6, <4>1 DEF Shown
      <4> QED
        BY <3>4, <4>1, <4>2
    <3> QED
      BY <1>6, <2>2, <3>2, <3>3, <3>5, <3>6 DEF NoCsn, Given
  <2> QED
    BY <2>1, <2>2
<1>8. s.pc = "off" /\ Goal(s, <<>>) = NoCsn
  BY <1>3 DEF Goal, Searching
<1>9. Promise(D, s, <<>>, r)
  BY <1>1, <1>8 DEF Promise, Stores, NoCsn
<1>10. Sound(D, t, s, <<>>, r)
  BY <1>1, <1>6, <1>7, <1>8, <1>9
     DEF Sound, InOrder, KnownState, NotAhead, Searching
<1> QED
  BY <1>4, <1>7, <1>10

------------------------------------------------------------------------------
(***************************************************************************)
(* The search                                                              *)
(***************************************************************************)
LEMMA ConnectSound ==
  ASSUME NEW D, NEW t, NEW s, NEW k, Sound(D, t, s, <<>>, k)
  PROVE  Sound(D, t, [Off EXCEPT !.pc = "start", !.cookie = k.cookie], <<>>, Reset(k))
<1> DEFINE f == [Off EXCEPT !.pc = "start", !.cookie = k.cookie]
           r == Reset(k)
<1>1. /\ D \in Stores /\ t \in Nat /\ k \in Clients
      /\ NotAhead(D, t, s, <<>>, k) /\ CoversIn(D, k)
  BY DEF Sound
<1>2. f \in Searches /\ f.pc = "start" /\ f.cookie = k.cookie
  BY <1>1 DEF Off, Searches, Clients, Given
<1>3. r \in Clients /\ r.content = k.content /\ r.cookie = k.cookie /\ r.present = {}
  BY <1>1 DEF Reset, Consumer, Clients
<1> HIDE DEF f, r
<1>4. CoversIn(D, r)
  BY <1>1, <1>3 DEF CoversIn
<1>5. r.cookie <= t /\ \A e \in Entries : D[e].csn <= t /\ r.content[e] <= D[e].csn
  BY <1>1, <1>3 DEF NotAhead
<1>6. Sound(D, t, f, <<>>, r)
  BY <1>1, <1>2, <1>3, <1>4, <1>5, IdleSound
<1> QED
  BY <1>6 DEF f, r

\* A search that is refused or has nothing to say.
LEMMA ClosedSound ==
  ASSUME NEW D, NEW t, NEW s, NEW k, Sound(D, t, s, <<>>, k), NEW m \in Mail,
         m.tag \in {"DONE_DELETES", "REFUSED"}, m.cookie = NoCsn
  PROVE  Sound(D, t, Off, <<m>>, k)
<1> DEFINE q == <<m>>
<1>1. /\ D \in Stores /\ t \in Nat /\ k \in Clients
      /\ NotAhead(D, t, s, <<>>, k) /\ CoversIn(D, k)
  BY DEF Sound
<1>2. q \in Seq(Mail) /\ Len(q) = 1 /\ q[1] = m /\ q # <<>> /\ \A i \in 1 .. Len(q) : i = 1
  OBVIOUS
<1> HIDE DEF q
<1>3. Goal(Off, q) = NoCsn
  BY <1>2, OffIs DEF Goal, Searching
<1>4. Promise(D, Off, q, k)
  BY <1>1, <1>3 DEF Promise, Stores, NoCsn
<1>5. InOrder(Off, q)
  BY <1>2, OffIs DEF InOrder, Naming
<1>6. NotAhead(D, t, Off, q, k)
  BY <1>1, <1>2, OffIs DEF NotAhead, Searching, NoCsn
<1>7. KnownState(Off, k)
  BY OffIs DEF KnownState, Searching
<1> QED
  BY <1>1, <1>2, <1>4, <1>5, <1>6, <1>7, OffIs DEF Sound, q

\* Up to the search itself: the snapshot x of contextCSN, and the lookups.
LEMMA StartSound ==
  ASSUME NEW D, NEW t, NEW s, NEW k, Sound(D, t, s, <<>>, k), s.pc = "start",
         NEW x \in 0 .. t
  PROVE  Sound(D, t, [s EXCEPT !.pc = "find", !.ctx = x, !.changed = s.cookie < x,
                               !.present = s.cookie # NoCsn], <<>>, k)
<1> DEFINE f == [s EXCEPT !.pc = "find", !.ctx = x, !.changed = s.cookie < x,
                          !.present = s.cookie # NoCsn]
<1>1. /\ D \in Stores /\ t \in Nat /\ s \in Searches /\ k \in Clients
      /\ KnownState(s, k) /\ NotAhead(D, t, s, <<>>, k) /\ CoversIn(D, k)
  BY DEF Sound
<1>2. s.cookie = k.cookie /\ k.present = {} /\ s.cookie \in Nat
  BY <1>1 DEF KnownState, Clients
<1>3. /\ f \in Searches /\ f.pc = "find" /\ f.ctx = x /\ f.cookie = s.cookie /\ f.present
      /\ x \in Nat /\ x <= t
  <2>1. (s.cookie < x) \in BOOLEAN /\ (s.cookie # NoCsn) = TRUE /\ x \in Nat /\ x <= t
    BY <1>1, <1>2 DEF NoCsn
  <2> QED
    BY <1>1, <2>1 DEF Searches, Searching
<1> HIDE DEF f
<1>4. InOrder(f, <<>>)
  BY DEF InOrder
<1>5. KnownState(f, k)
  BY <1>2, <1>3 DEF KnownState
<1>6. NotAhead(D, t, f, <<>>, k)
  BY <1>1, <1>3 DEF NotAhead
<1>7. Promise(D, f, <<>>, k)
  <2> SUFFICES ASSUME NEW e \in Entries
               PROVE  IF Within(D, e) THEN Named(D, f, <<>>, k, e) /\ Sent(D, f, <<>>, k, e)
                      ELSE NotNamed(<<>>, k, e)
    BY DEF Promise
  <2>1. Named(D, f, <<>>, k, e)
    BY <1>3 DEF Named
  <2>2. NotNamed(<<>>, k, e)
    BY <1>2 DEF NotNamed
  <2>3. Within(D, e) => Sent(D, f, <<>>, k, e)
    <3>1. D[e].csn \in Nat
      BY <1>1 DEF Stores
    <3>2. CASE D[e].csn <= k.cookie
      BY <1>1, <3>2 DEF CoversIn, Shown, Sent
    <3>3. CASE k.cookie < D[e].csn
      BY <1>2, <1>3, <3>3 DEF Sent, Searching
    <3> QED
      BY <1>2, <3>1, <3>2, <3>3
  <2> QED
    BY <2>1, <2>2, <2>3
<1>8. <<>> \in Seq(Mail)
  OBVIOUS
<1>9. Sound(D, t, f, <<>>, k)
  BY <1>1, <1>3, <1>4, <1>5, <1>6, <1>7, <1>8 DEF Sound
<1> QED
  BY <1>9 DEF f

LEMMA FindCsnSound ==
  ASSUME NEW D, NEW t, NEW s, NEW k, Sound(D, t, s, <<>>, k), s.pc = "find"
  PROVE  /\ Sound(D, t, [s EXCEPT !.pc = "list"], <<>>, k)
         /\ Sound(D, t, [s EXCEPT !.pc = "search", !.cookie = NoCsn], <<>>, k)
<1>1. /\ D \in Stores /\ t \in Nat /\ s \in Searches /\ k \in Clients /\ <<>> \in Seq(Mail)
      /\ KnownState(s, k) /\ NotAhead(D, t, s, <<>>, k) /\ CoversIn(D, k)
      /\ Promise(D, s, <<>>, k)
  BY DEF Sound
<1>2. ASSUME NEW f, f \in {[s EXCEPT !.pc = "list"],
                           [s EXCEPT !.pc = "search", !.cookie = NoCsn]}
      PROVE  Sound(D, t, f, <<>>, k)
  <2>1. /\ f \in Searches /\ f.pc \in {"list", "search"} /\ f.ctx = s.ctx
        /\ f.changed = s.changed /\ f.present = s.present
        /\ f.pc = "list" => f.cookie = s.cookie
        /\ f.pc = "search" => f.cookie = NoCsn
    BY <1>1, <1>2 DEF Searches, Searching, Given
  <2>2. InOrder(f, <<>>)
    BY DEF InOrder
  <2>3. KnownState(f, k)
    BY <1>1, <2>1 DEF KnownState, Searching
  <2>4. NotAhead(D, t, f, <<>>, k)
    BY <1>1, <2>1 DEF NotAhead, Searching
  <2>5. Goal(f, <<>>) = Goal(s, <<>>)
    BY <2>1 DEF Goal, Searching
  <2>6. Promise(D, f, <<>>, k)
    <3> SUFFICES ASSUME NEW e \in Entries, D[e].csn <= Goal(s, <<>>)
                 PROVE  IF Within(D, e) THEN Named(D, f, <<>>, k, e) /\ Sent(D, f, <<>>, k, e)
                        ELSE NotNamed(<<>>, k, e)
      BY <2>5 DEF Promise
    <3>1. IF Within(D, e) THEN Named(D, s, <<>>, k, e) /\ Sent(D, s, <<>>, k, e)
          ELSE NotNamed(<<>>, k, e)
      BY <1>1 DEF Promise
    <3>2. NoCsn < D[e].csn
      BY <1>1 DEF Stores, NoCsn
    <3>3. Named(D, f, <<>>, k, e)
      BY <2>1, <3>2 DEF Named
    <3>4. Sent(D, s, <<>>, k, e) => Sent(D, f, <<>>, k, e)
      BY <2>1, <3>2 DEF Sent, Searching
    <3> QED
      BY <3>1, <3>3, <3>4
  <2> QED
    BY <1>1, <2>1, <2>2, <2>3, <2>4, <2>6 DEF Sound
<1> QED
  BY <1>2

LEMMA FindPresentSound ==
  ASSUME NEW D, NEW t, NEW s, NEW k, Sound(D, t, s, <<>>, k), s.pc = "list",
         NEW m \in Mail, m.tag = "PRESENT", m.cookie = NoCsn,
         m.entries = {e \in Entries : Within(D, e)}
  PROVE  Sound(D, t, [s EXCEPT !.pc = "search"], <<m>>, k)
<1> DEFINE q == <<m>>
           f == [s EXCEPT !.pc = "search"]
<1>1. /\ D \in Stores /\ t \in Nat /\ s \in Searches /\ k \in Clients
      /\ KnownState(s, k) /\ NotAhead(D, t, s, <<>>, k) /\ CoversIn(D, k)
      /\ Promise(D, s, <<>>, k)
  BY DEF Sound
<1>2. q \in Seq(Mail) /\ Len(q) = 1 /\ q[1] = m /\ \A i \in 1 .. Len(q) : i = 1
  OBVIOUS
<1>3. /\ f \in Searches /\ f.pc = "search" /\ f.ctx = s.ctx /\ f.cookie = s.cookie
      /\ f.changed = s.changed /\ f.present = s.present
  BY <1>1 DEF Searches, Searching
<1> HIDE DEF q, f
<1>4. InOrder(f, q)
  BY <1>2, <1>3 DEF InOrder, Naming
<1>5. KnownState(f, k)
  BY <1>1, <1>3 DEF KnownState, Searching
<1>6. NotAhead(D, t, f, q, k)
  BY <1>1, <1>2, <1>3 DEF NotAhead, Searching, NoCsn
<1>7. Goal(f, q) = Goal(s, <<>>)
  BY <1>3 DEF Goal, Searching
<1>8. Promise(D, f, q, k)
  <2> SUFFICES ASSUME NEW e \in Entries, D[e].csn <= Goal(s, <<>>)
               PROVE  IF Within(D, e) THEN Named(D, f, q, k, e) /\ Sent(D, f, q, k, e)
                      ELSE NotNamed(q, k, e)
    BY <1>7 DEF Promise
  <2>1. IF Within(D, e) THEN Named(D, s, <<>>, k, e) /\ Sent(D, s, <<>>, k, e)
        ELSE NotNamed(<<>>, k, e)
    BY <1>1 DEF Promise
  <2>2. Within(D, e) => Named(D, f, q, k, e)
    BY <1>2 DEF Named, Naming
  <2>3. Sent(D, s, <<>>, k, e) => Sent(D, f, q, k, e)
    BY <1>3 DEF Sent, Searching
  <2>4. ~Within(D, e) /\ NotNamed(<<>>, k, e) => NotNamed(q, k, e)
    BY <1>2 DEF NotNamed
  <2> QED
    BY <2>1, <2>2, <2>3, <2>4
<1>9. Sound(D, t, f, q, k)
  BY <1>1, <1>2, <1>3, <1>4, <1>5, <1>6, <1>8 DEF Sound
<1> QED
  BY <1>9 DEF f, q

\* No search ends with a cookie ahead of the provider.
LEMMA GoalIs ==
  ASSUME NEW D, NEW t, NEW s, NEW q, NEW k, Sound(D, t, s, q, k)
  PROVE  Goal(s, q) \in Given /\ Goal(s, q) <= t /\ k.cookie <= t /\ k.cookie \in Nat
<1>1. t \in Nat /\ q \in Seq(Mail) /\ s \in Searches /\ k \in Clients /\ NotAhead(D, t, s, q, k)
  BY DEF Sound
<1>2. CASE s.pc \in Searching
  BY <1>1, <1>2 DEF Goal, NotAhead, Searches, Clients, Given, NoCsn
<1>3. CASE s.pc \notin Searching /\ q = <<>>
  BY <1>1, <1>3 DEF Goal, NotAhead, Clients, Given, NoCsn
<1>4. CASE s.pc \notin Searching /\ q # <<>>
  <2>1. Len(q) \in 1 .. Len(q) /\ q[Len(q)] \in Mail
    BY <1>1, <1>4, EmptySeq
  <2> QED
    BY <1>1, <1>4, <2>1 DEF Goal, NotAhead, Clients, Mail
<1> QED
  BY <1>2, <1>3, <1>4

LEMMA Between ==
  ASSUME NEW a \in Nat, NEW b \in Nat, NEW i \in 1 .. (a + b + 1), i \notin 1 .. a, i # a + b + 1
  PROVE  i \in Nat /\ ~(i <= a) /\ i - a \in 1 .. b
  OBVIOUS

\* What is on the way, what is found, and the end of the search.
Joined(q, F, z) == q \o (F \o <<z>>)

Joins(r, q, F, z) ==
  /\ r \in Seq(Mail) /\ Len(r) = Len(q) + Len(F) + 1 /\ r[Len(r)] = z
  /\ \A i \in 1 .. Len(q) : i \in 1 .. Len(r) /\ r[i] = q[i]
  /\ \A i \in 1 .. Len(F) : Len(q) + i \in 1 .. Len(r) /\ r[Len(q) + i] = F[i]
  /\ \A i \in 1 .. Len(r) :
       \/ i \in 1 .. Len(q) /\ r[i] = q[i]
       \/ i - Len(q) \in 1 .. Len(F) /\ r[i] = F[i - Len(q)]
       \/ i = Len(r)

LEMMA JoinedIs ==
  ASSUME NEW q \in Seq(Mail), NEW F \in Seq(Mail), NEW z \in Mail
  PROVE  Joins(Joined(q, F, z), q, F, z)
<1> DEFINE r == Joined(q, F, z)
           G == F \o <<z>>
<1>1. Len(q) \in Nat /\ Len(F) \in Nat
  OBVIOUS
<1>2. /\ G \in Seq(Mail) /\ Len(G) = Len(F) + 1 /\ G[Len(F) + 1] = z
      /\ \A i \in 1 .. Len(F) : G[i] = F[i]
  OBVIOUS
<1>3. /\ r \in Seq(Mail) /\ Len(r) = Len(q) + Len(G)
      /\ \A i \in 1 .. Len(r) : r[i] = IF i <= Len(q) THEN q[i] ELSE G[i - Len(q)]
  <2>1. r = q \o G
    BY DEF Joined
  <2>2. G \in Seq(Mail)
    BY <1>2
  <2> HIDE DEF G, r
  <2> QED
    BY <2>1, <2>2, ConcatProperties
<1> HIDE DEF G, r
<1>4. Len(r) = Len(q) + Len(F) + 1
  BY <1>1, <1>2, <1>3
<1>5. r[Len(r)] = z
  BY <1>1, <1>2, <1>3, <1>4
<1>6. \A i \in 1 .. Len(q) : i \in 1 .. Len(r) /\ r[i] = q[i]
  BY <1>1, <1>3, <1>4
<1>7. ASSUME NEW i \in 1 .. Len(F) PROVE Len(q) + i \in 1 .. Len(r) /\ r[Len(q) + i] = F[i]
  <2>1. /\ Len(q) + i \in 1 .. Len(r) /\ ~(Len(q) + i <= Len(q))
        /\ (Len(q) + i) - Len(q) = i
    BY <1>1, <1>4
  <2>2. r[Len(q) + i] = G[(Len(q) + i) - Len(q)]
    BY <1>3, <2>1
  <2> QED
    BY <1>2, <2>1, <2>2
<1>8. ASSUME NEW i \in 1 .. Len(r), i \notin 1 .. Len(q), i # Len(r)
      PROVE  i - Len(q) \in 1 .. Len(F) /\ r[i] = F[i - Len(q)]
  <2>1. i \in Nat /\ ~(i <= Len(q)) /\ i - Len(q) \in 1 .. Len(F)
    BY <1>1, <1>4, <1>8, Between
  <2>2. r[i] = G[i - Len(q)]
    BY <1>3, <2>1
  <2> QED
    BY <1>2, <2>1, <2>2
<1>9. Joins(r, q, F, z)
  BY <1>3, <1>4, <1>5, <1>6, <1>7, <1>8 DEF Joins
<1> QED
  BY <1>9 DEF r

\* The search itself sends what is newer than the consumer, up to the snapshot,
\* and ends with the snapshot as the cookie.
LEMMA SearchSound ==
  ASSUME NEW D, NEW t, NEW s, NEW q, NEW k, Sound(D, t, s, q, k), s.pc = "search",
         NEW F \in Seq(Mail), NEW z \in Mail,
         z.tag = "DONE_PRESENT", z.cookie = IF s.changed THEN s.ctx ELSE NoCsn,
         \A i \in 1 .. Len(F) :
           /\ F[i].tag = "ADD" /\ F[i].cookie = NoCsn
           /\ \E e \in Entries : Within(D, e) /\ F[i].entries = {e} /\ F[i].csn = D[e].csn,
         \A e \in Entries : Within(D, e) /\ s.cookie < D[e].csn /\ D[e].csn <= s.ctx =>
           \E i \in 1 .. Len(F) : e \in F[i].entries /\ F[i].csn = D[e].csn
  PROVE  Sound(D, t, Off, Joined(q, F, z), k)
<1> DEFINE r == Joined(q, F, z)
<1>1. /\ D \in Stores /\ t \in Nat /\ s \in Searches /\ q \in Seq(Mail) /\ k \in Clients
      /\ InOrder(s, q) /\ KnownState(s, k) /\ NotAhead(D, t, s, q, k)
      /\ CoversIn(D, k) /\ Promise(D, s, q, k)
  BY DEF Sound
<1>a. q \in Seq(Mail)
  BY <1>1
<1>b. Joins(r, q, F, z)
  BY <1>a, JoinedIs
<1> HIDE DEF r
<1>2. /\ r \in Seq(Mail) /\ Len(r) = Len(q) + Len(F) + 1 /\ r[Len(r)] = z
      /\ \A i \in 1 .. Len(q) : i \in 1 .. Len(r) /\ r[i] = q[i]
      /\ \A i \in 1 .. Len(F) : Len(q) + i \in 1 .. Len(r) /\ r[Len(q) + i] = F[i]
      /\ \A i \in 1 .. Len(r) :
           \/ i \in 1 .. Len(q) /\ r[i] = q[i]
           \/ i - Len(q) \in 1 .. Len(F) /\ r[i] = F[i - Len(q)]
           \/ i = Len(r)
  BY <1>b DEF Joins
<1>3. Len(q) \in Nat /\ Len(F) \in Nat /\ Len(r) \in Nat
  BY <1>1, <1>2
<1>4. r # <<>>
  BY <1>2, <1>3
<1>5. Goal(Off, r) = z.cookie /\ Goal(s, q) = z.cookie
  BY <1>2, <1>4, OffIs DEF Goal, Searching
<1>6. Goal(s, q) \in Given /\ Goal(s, q) <= t
  BY GoalIs
<1>7. ASSUME NEW i \in 1 .. Len(q) PROVE q[i].tag \in Naming /\ q[i].cookie = NoCsn
  BY <1>1 DEF InOrder
<1>8. InOrder(Off, r)
  <2>1. ASSUME NEW i \in 1 .. Len(r)
        PROVE  /\ r[i].tag \in Naming \cup {"DONE_PRESENT", "DONE_DELETES", "REFUSED"}
               /\ r[i].tag \in Naming => r[i].cookie = NoCsn /\ i < Len(r)
               /\ r[i].tag \notin Naming => i = Len(r)
               /\ r[i].tag \in {"DONE_DELETES", "REFUSED"} => r[i].cookie = NoCsn
    <3>1. CASE i \in 1 .. Len(q) /\ r[i] = q[i]
      BY <1>2, <1>3, <1>7, <3>1 DEF Naming
    <3>2. CASE i - Len(q) \in 1 .. Len(F) /\ r[i] = F[i - Len(q)]
      <4>1. r[i].tag = "ADD" /\ r[i].cookie = NoCsn
        BY <3>2
      <4>2. i < Len(r)
        BY <1>2, <1>3, <3>2
      <4> QED
        BY <4>1, <4>2 DEF Naming
    <3>3. CASE i = Len(r)
      BY <1>2, <3>3 DEF Naming
    <3> QED
      BY <1>2, <3>1, <3>2, <3>3
  <2> QED
    BY <2>1, OffIs DEF InOrder
<1>9. KnownState(Off, k)
  BY OffIs DEF KnownState, Searching
<1>10. NotAhead(D, t, Off, r, k)
  <2>1. ASSUME NEW i \in 1 .. Len(r)
        PROVE  /\ r[i].cookie <= t
               /\ \A e \in r[i].entries : r[i].tag = "ADD" => r[i].csn <= D[e].csn
    <3>1. CASE i \in 1 .. Len(q) /\ r[i] = q[i]
      BY <1>1, <3>1 DEF NotAhead
    <3>2. CASE i - Len(q) \in 1 .. Len(F) /\ r[i] = F[i - Len(q)]
      <4>1. PICK e \in Entries : r[i].entries = {e} /\ r[i].csn = D[e].csn
        BY <3>2
      <4>2. r[i].cookie = NoCsn /\ D[e].csn \in Nat
        BY <1>1, <3>2 DEF Stores
      <4> QED
        BY <1>1, <4>1, <4>2 DEF NoCsn
    <3>3. CASE i = Len(r)
      BY <1>2, <1>5, <1>6, <3>3
    <3> QED
      BY <1>2, <3>1, <3>2, <3>3
  <2> QED
    BY <1>1, <2>1, OffIs DEF NotAhead, Searching
<1>11. Promise(D, Off, r, k)
  <2> SUFFICES ASSUME NEW e \in Entries, D[e].csn <= Goal(s, q)
               PROVE  IF Within(D, e) THEN Named(D, Off, r, k, e) /\ Sent(D, Off, r, k, e)
                      ELSE NotNamed(r, k, e)
    BY <1>5 DEF Promise
  <2>1. IF Within(D, e) THEN Named(D, s, q, k, e) /\ Sent(D, s, q, k, e) ELSE NotNamed(q, k, e)
    BY <1>1 DEF Promise
  <2>2. CASE ~Within(D, e)
    <3>1. NotNamed(q, k, e)
      BY <2>1, <2>2
    <3>2. ASSUME NEW i \in 1 .. Len(r), r[i].tag \in Naming PROVE e \notin r[i].entries
      <4>1. CASE i \in 1 .. Len(q) /\ r[i] = q[i]
        BY <3>1, <3>2, <4>1 DEF NotNamed
      <4>2. CASE i - Len(q) \in 1 .. Len(F) /\ r[i] = F[i - Len(q)]
        BY <2>2, <4>2
      <4>3. CASE i = Len(r)
        BY <1>2, <3>2, <4>3 DEF Naming
      <4> QED
        BY <1>2, <4>1, <4>2, <4>3
    <3> QED
      BY <2>2, <3>1, <3>2 DEF NotNamed
  <2>3. CASE Within(D, e)
    <3>1. Named(D, s, q, k, e) /\ Sent(D, s, q, k, e)
      BY <2>1, <2>3
    <3>2. D[e].csn <= s.ctx
      <4>1. D[e].csn \in Nat
        BY <1>1 DEF Stores
      <4> QED
        BY <1>5, <4>1 DEF NoCsn
    <3>3. ASSUME s.cookie < D[e].csn PROVE Named(D, Off, r, k, e) /\ Sent(D, Off, r, k, e)
      <4>1. PICK i \in 1 .. Len(F) : e \in F[i].entries /\ F[i].csn = D[e].csn
        BY <2>3, <3>2, <3>3
      <4>2. PICK j \in 1 .. Len(r) : r[j] = F[i]
        BY <1>2
      <4>3. F[i].tag = "ADD"
        OBVIOUS
      <4>4. r[j].tag = "ADD" /\ e \in r[j].entries /\ r[j].csn = D[e].csn
        BY <4>1, <4>2, <4>3
      <4> QED
        BY <4>4 DEF Named, Sent, Naming
    <3>4. CASE ~(s.cookie < D[e].csn)
      <4>1. Named(D, Off, r, k, e)
        BY <1>2, <3>1, <3>4 DEF Named
      <4>2. Sent(D, Off, r, k, e)
        BY <1>2, <3>1, <3>4 DEF Sent
      <4> QED
        BY <2>3, <4>1, <4>2
    <3> QED
      BY <2>3, <3>3, <3>4
  <2> QED
    BY <2>2, <2>3
<1>12. Sound(D, t, Off, r, k)
  BY <1>1, <1>2, <1>8, <1>9, <1>10, <1>11, OffIs DEF Sound
<1> QED
  BY <1>12 DEF r

------------------------------------------------------------------------------
(***************************************************************************)
(* The provider                                                            *)
(***************************************************************************)
Updates == [pc : {"idle", "begun", "ready", "committed", "responding", "answered"},
            entry : Entries \cup {Free.entry}, tag : ChangeTags, place : Places, csn : Nat,
            watched : BOOLEAN, matched : SUBSET Consumers, changed : BOOLEAN]

LEMMA Updated ==
  ASSUME NEW S, NEW T, NEW f \in [S -> T], NEW x, NEW v \in T
  PROVE  /\ [f EXCEPT ![x] = v] \in [S -> T]
         /\ \A y \in S : [f EXCEPT ![x] = v][y] = IF y = x THEN v ELSE f[y]
  OBVIOUS

LEMMA FreeTyped == Free \in Updates /\ Free.csn = 0
<1> DEFINE e == CHOOSE x \in Entries : TRUE
<1>1. Free = [pc |-> "idle", entry |-> e, tag |-> "ADD", place |-> "in", csn |-> 0,
              watched |-> FALSE, matched |-> {}, changed |-> FALSE]
  BY DEF Free
<1> HIDE DEF e
<1>2. Free.entry = e /\ Free.csn = 0
  BY <1>1
<1> QED
  BY <1>1, <1>2 DEF Updates, ChangeTags, Places

ProviderTyped ==
  /\ db \in Stores /\ clock \in Nat
  /\ ctxcsn \in 0 .. clock /\ stored \in 0 .. clock /\ marked \subseteq 0 .. clock
  /\ wr \in [Writers -> Updates] /\ \A w \in Writers : wr[w].csn <= clock
  /\ \A e \in Entries : db[e].csn <= clock

\* The inductive invariant.
Polled ==
  /\ ProviderTyped
  /\ srch \in [Consumers -> Searches] /\ chan \in [Consumers -> Seq(Mail)]
  /\ con \in [Consumers -> Clients]
  /\ \A c \in Consumers : Sound(db, clock, srch[c], chan[c], con[c])

LEMMA PolledInit == ASSUME Polling, Init PROVE Polled
<1>1. ProviderTyped
  <2>1. db \in Stores
    BY DEF Init, Stores, Places
  <2>2. wr \in [Writers -> Updates] /\ \A w \in Writers : wr[w].csn = 0
    BY FreeTyped DEF Init
  <2>3. clock = 0 /\ ctxcsn = 0 /\ stored = 0 /\ marked = {}
    BY DEF Init
  <2>4. \A e \in Entries : db[e].csn <= clock
    <3> SUFFICES ASSUME NEW e \in Entries PROVE db[e].csn <= clock
      OBVIOUS
    <3>1. db[e].csn = 0
      BY DEF Init
    <3> QED
      BY <2>3, <3>1
  <2> QED
    BY <2>1, <2>2, <2>3, <2>4 DEF ProviderTyped
<1>2. ASSUME NEW c \in Consumers
      PROVE  /\ srch[c] = Off /\ chan[c] = <<>>
             /\ con[c] = Consumer([e \in Entries |-> IF e \in Existing THEN 0 ELSE NoCsn], 0)
  BY DEF Polling, Init
<1>3. ASSUME NEW c \in Consumers
      PROVE  /\ con[c] \in Clients /\ con[c].cookie = 0
             /\ \A e \in Entries : con[c].content[e] = IF e \in Existing THEN 0 ELSE NoCsn
  <2> DEFINE held == [e \in Entries |-> IF e \in Existing THEN 0 ELSE NoCsn]
  <2>1. held \in [Entries -> Given]
    BY DEF Given
  <2>2. con[c] = [content |-> held, cookie |-> 0, present |-> {},
                  refreshDone |-> FALSE, refreshPresent |-> FALSE]
    BY <1>2 DEF Consumer
  <2>3. \A e \in Entries : held[e] = IF e \in Existing THEN 0 ELSE NoCsn
    OBVIOUS
  <2> HIDE DEF held
  <2> QED
    BY <2>1, <2>2, <2>3 DEF Clients
<1>4. \A e \in Entries : /\ db[e].csn = 0
                         /\ db[e].place = IF e \in Existing THEN "in" ELSE "unborn"
  BY DEF Init
<1>5. ASSUME NEW c \in Consumers PROVE Sound(db, clock, srch[c], chan[c], con[c])
  <2>1. CoversIn(db, con[c])
    BY <1>3, <1>4 DEF CoversIn, Shown, Within
  <2>2. clock = 0
    BY DEF Init
  <2>3. con[c] \in Clients /\ con[c].cookie <= clock /\ db \in Stores /\ clock \in Nat
    BY <1>1, <1>3, <2>2 DEF ProviderTyped
  <2>4. \A e \in Entries : db[e].csn <= clock /\ con[c].content[e] <= db[e].csn
    <3> SUFFICES ASSUME NEW e \in Entries
                 PROVE  db[e].csn <= clock /\ con[c].content[e] <= db[e].csn
      OBVIOUS
    <3>1. db[e].csn = 0
      BY <1>4
    <3>2. con[c].content[e] = 0 \/ con[c].content[e] = -1
      BY <1>3 DEF NoCsn
    <3> QED
      BY <2>2, <3>1, <3>2
  <2>5. Sound(db, clock, Off, <<>>, con[c])
    BY <2>1, <2>3, <2>4, OffSound
  <2> QED
    BY <1>2, <2>5
<1>6. srch \in [Consumers -> Searches] /\ chan \in [Consumers -> Seq(Mail)]
  <2>1. Off \in Searches
    BY DEF Off, Searches, Given
  <2>2. <<>> \in Seq(Mail)
    OBVIOUS
  <2>3. srch = [c \in Consumers |-> Off] /\ chan = [c \in Consumers |-> <<>>]
    BY DEF Init
  <2> QED
    BY <2>1, <2>2, <2>3
<1>7. con \in [Consumers -> Clients]
  <2>1. con = [c \in Consumers |-> con[c]]
    BY DEF Init
  <2> QED
    BY <1>3, <2>1
<1> QED
  BY <1>1, <1>5, <1>6, <1>7 DEF Polled

\* A step of one consumer or its search.
LEMMA OneConsumer ==
  ASSUME Polled, NEW c \in Consumers, NEW s, NEW q, NEW k,
         UNCHANGED provider, Sound(db, clock, s, q, k),
         srch' = [srch EXCEPT ![c] = s], chan' = [chan EXCEPT ![c] = q],
         con' = [con EXCEPT ![c] = k]
  PROVE  Polled'
<1>1. ProviderTyped'
  BY DEF Polled, ProviderTyped, provider
<1>2. s \in Searches /\ q \in Seq(Mail) /\ k \in Clients
  BY DEF Sound
<1>3. /\ srch' \in [Consumers -> Searches] /\ chan' \in [Consumers -> Seq(Mail)]
      /\ con' \in [Consumers -> Clients]
  BY <1>2 DEF Polled
<1>4. ASSUME NEW d \in Consumers PROVE Sound(db', clock', srch'[d], chan'[d], con'[d])
  <2>1. db' = db /\ clock' = clock
    BY DEF provider
  <2>2. CASE d = c
    BY <2>1, <2>2 DEF Polled
  <2>3. CASE d # c
    <3>1. srch'[d] = srch[d] /\ chan'[d] = chan[d] /\ con'[d] = con[d]
      BY <2>3 DEF Polled
    <3> QED
      BY <2>1, <3>1 DEF Polled
  <2> QED
    BY <2>2, <2>3
<1> QED
  BY <1>1, <1>3, <1>4 DEF Polled

\* A step of an update that commits nothing.
LEMMA NoCommit ==
  ASSUME Polled, ProviderTyped', UNCHANGED <<db, clock, srch, chan, con>>
  PROVE  Polled'
  BY DEF Polled

LEMMA BeginPolled == ASSUME Polled, NEW w \in Writers, Begin(w) PROVE Polled'
<1>1. \E e \in Entries, tag \in ChangeTags :
        /\ Applicable(e, tag)
        /\ \E place \in Leads(tag) :
             wr' = [wr EXCEPT ![w] = [Free EXCEPT
               !.pc = "begun", !.entry = e, !.tag = tag, !.place = place,
               !.watched = (Psearches # {})]]
  BY Zenon DEF Begin, ChangeTags
<1>2. PICK e \in Entries, tag \in ChangeTags :
        \E place \in Leads(tag) :
          wr' = [wr EXCEPT ![w] = [Free EXCEPT
            !.pc = "begun", !.entry = e, !.tag = tag, !.place = place,
            !.watched = (Psearches # {})]]
  BY <1>1, Zenon
<1>3. PICK place \in Leads(tag) :
        wr' = [wr EXCEPT ![w] = [Free EXCEPT
          !.pc = "begun", !.entry = e, !.tag = tag, !.place = place,
          !.watched = (Psearches # {})]]
  BY <1>2, Zenon
<1> DEFINE u == [Free EXCEPT !.pc = "begun", !.entry = e, !.tag = tag, !.place = place,
                             !.watched = (Psearches # {})]
<1>4. u \in Updates /\ u.csn = 0
  <2>1. place \in Places /\ (Psearches # {}) \in BOOLEAN
    BY DEF Leads, Places
  <2> QED
    BY <2>1, FreeTyped DEF Updates
<1>5. ProviderTyped'
  <2> HIDE DEF u
  <2>1. wr' = [wr EXCEPT ![w] = u]
    BY <1>3 DEF u
  <2>2. wr \in [Writers -> Updates] /\ \A v \in Writers : wr[v].csn <= clock /\ 0 <= clock
    BY DEF Polled, ProviderTyped
  <2>3. /\ wr' \in [Writers -> Updates]
        /\ \A v \in Writers : wr'[v] = IF v = w THEN u ELSE wr[v]
    BY <1>4, <2>1, <2>2, Updated
  <2>4. \A v \in Writers : wr'[v].csn <= clock
    BY <1>4, <2>2, <2>3
  <2> QED
    BY <2>3, <2>4 DEF Begin, Polled, ProviderTyped
<1> QED
  BY <1>5, NoCommit DEF Begin, channels

LEMMA ProgressPolled ==
  ASSUME Polled, NEW w \in Writers,
         MatchBefore(w) \/ Refused(w) \/ Respond(w) \/ Deliver(w) \/ Finish(w)
  PROVE  Polled'
<1>1. wr \in [Writers -> Updates] /\ wr[w] \in Updates /\ wr[w].csn \in 0 .. clock
  BY DEF Polled, ProviderTyped, Updates
<1>2. UNCHANGED <<db, clock, srch, chan, con>>
  BY DEF MatchBefore, Refused, Respond, Deliver, Finish, channels
<1>3. ASSUME wr' \in [Writers -> Updates], \A v \in Writers : wr'[v].csn \in 0 .. clock,
             ctxcsn' \in 0 .. clock, stored' \in 0 .. clock, marked' \subseteq 0 .. clock
      PROVE  Polled'
  BY <1>2, <1>3, NoCommit DEF Polled, ProviderTyped
<1>4. /\ ctxcsn \in 0 .. clock /\ stored \in 0 .. clock /\ marked \subseteq 0 .. clock
      /\ \A v \in Writers : wr[v].csn \in 0 .. clock /\ clock \in Nat
  BY DEF Polled, ProviderTyped, Updates
<1>5. CASE MatchBefore(w)
  <2> DEFINE m == IF wr[w].tag # "ADD" /\ Matches(wr[w].entry) THEN Psearches ELSE {}
  <2>1. m \in SUBSET Consumers
    BY ReplicationAssumption DEF Psearches
  <2>2. wr' = [wr EXCEPT ![w].pc = "ready", ![w].matched = m]
    BY <1>5 DEF MatchBefore
  <2> HIDE DEF m
  <2>3. wr' \in [Writers -> Updates] /\ \A v \in Writers : wr'[v].csn = wr[v].csn
    BY <1>1, <2>1, <2>2 DEF Updates
  <2> QED
    BY <1>3, <1>4, <1>5, <2>3 DEF MatchBefore
<1>6. CASE Refused(w)
  <2>1. wr' \in [Writers -> Updates] /\ \A v \in Writers : wr'[v].csn = wr[v].csn
    BY <1>1, <1>6 DEF Refused, Goto, Updates
  <2> QED
    BY <1>3, <1>4, <1>6, <2>1 DEF Refused
<1>7. CASE Respond(w)
  <2> DEFINE csn == CommitCsn(pending, marked')
  <2>1. marked' \subseteq 0 .. clock
    BY <1>1, <1>4, <1>7 DEF Respond
  <2>2. csn = NoCsn \/ csn \in 0 .. clock
    <3> DEFINE S == {n \in marked' : \A p \in pending \ marked' : n < p}
    <3>1. csn = IF S = {} THEN NoCsn ELSE Max(S)
      BY DEF CommitCsn
    <3>2. S \in SUBSET Nat /\ \A x \in S : x <= clock
      <4>1. \A x \in marked' : x \in Nat /\ x <= clock
        BY <2>1, <1>4
      <4>2. S \subseteq marked'
        OBVIOUS
      <4> HIDE DEF S
      <4> QED
        BY <4>1, <4>2
    <3>3. S # {} => Max(S) \in S
      BY <3>2, <1>4, MaxIn
    <3> QED
      BY <2>1, <3>1, <3>3
  <2>3. ctxcsn' \in 0 .. clock
    <3>1. ctxcsn' = IF csn > ctxcsn THEN csn ELSE ctxcsn
      BY <1>7 DEF Respond
    <3> HIDE DEF csn
    <3> QED
      BY <1>4, <2>2, <3>1 DEF NoCsn
  <2>4. stored' \in 0 .. clock
    BY <1>4, <1>7, <2>3 DEF Respond
  <2>5. wr' = [wr EXCEPT ![w].pc = "responding", ![w].changed = csn > ctxcsn]
    BY <1>7 DEF Respond
  <2> HIDE DEF csn
  <2>6. wr' \in [Writers -> Updates] /\ \A v \in Writers : wr'[v].csn = wr[v].csn
    <3>1. (csn > ctxcsn) \in BOOLEAN
      BY <2>2, <1>4 DEF NoCsn
    <3> QED
      BY <1>1, <2>5, <3>1 DEF Updates
  <2> QED
    BY <1>3, <1>4, <2>1, <2>3, <2>4, <2>6
<1>8. CASE Deliver(w)
  <2>1. wr' \in [Writers -> Updates] /\ \A v \in Writers : wr'[v].csn = wr[v].csn
    BY <1>1, <1>8 DEF Deliver, Goto, Updates
  <2> QED
    BY <1>3, <1>4, <1>8, <2>1 DEF Deliver
<1>9. CASE Finish(w)
  <2>1. Free \in Updates /\ Free.csn = 0
    BY DEF Free, Updates, ChangeTags, Places
  <2>2. wr' \in [Writers -> Updates] /\ \A v \in Writers : wr'[v].csn \in 0 .. clock
    BY <1>1, <1>4, <1>9, <2>1 DEF Finish
  <2> QED
    BY <1>3, <1>4, <1>9, <2>2 DEF Finish
<1> QED
  BY <1>5, <1>6, <1>7, <1>8, <1>9

\* A commit is newer than all that a search or a consumer goes by.
LEMMA CommitSound ==
  ASSUME NEW D, NEW t, NEW s, NEW q, NEW k, Sound(D, t, s, q, k), NEW E \in Stores,
         \A e \in Entries : E[e] = D[e] \/ E[e].csn = t + 1
  PROVE  Sound(E, t + 1, s, q, k)
<1>1. /\ D \in Stores /\ t \in Nat /\ s \in Searches /\ q \in Seq(Mail) /\ k \in Clients
      /\ InOrder(s, q) /\ KnownState(s, k) /\ NotAhead(D, t, s, q, k)
      /\ CoversIn(D, k) /\ Promise(D, s, q, k)
  BY DEF Sound
<1>2. Goal(s, q) \in Given /\ Goal(s, q) <= t /\ k.cookie <= t /\ k.cookie \in Nat
  BY GoalIs
<1>3. \A e \in Entries : /\ D[e].csn \in Nat /\ D[e].csn <= t /\ k.content[e] \in Given
                         /\ k.content[e] <= D[e].csn
  BY <1>1 DEF Stores, NotAhead, Clients
<1>4. NotAhead(E, t + 1, s, q, k)
  <2>1. ASSUME NEW e \in Entries
        PROVE  E[e].csn <= t + 1 /\ k.content[e] <= E[e].csn /\ D[e].csn <= E[e].csn
    <3>1. /\ D[e].csn \in Nat /\ D[e].csn <= t /\ k.content[e] \in Int
          /\ k.content[e] <= D[e].csn /\ t \in Nat
      BY <1>1, <1>3 DEF Given, NoCsn
    <3>2. E[e].csn = D[e].csn \/ E[e].csn = t + 1
      OBVIOUS
    <3> QED
      BY <3>1, <3>2
  <2>2. ASSUME NEW i \in 1 .. Len(q)
        PROVE  /\ q[i].cookie <= t + 1
               /\ \A e \in q[i].entries : q[i].tag = "ADD" => q[i].csn <= E[e].csn
    <3>1. q[i] \in Mail
      BY <1>1
    <3>2. q[i].cookie \in Given /\ q[i].csn \in Given /\ q[i].entries \subseteq Entries
      BY <3>1 DEF Mail
    <3>3. /\ q[i].cookie <= t
          /\ \A e \in q[i].entries : q[i].tag = "ADD" => q[i].csn <= D[e].csn
      BY <1>1 DEF NotAhead
    <3>4. \A e \in Entries : E[e].csn \in Nat
      BY DEF Stores
    <3> QED
      BY <1>1, <1>3, <2>1, <3>2, <3>3, <3>4 DEF Given, NoCsn
  <2>3. s.pc \in Searching => s.ctx <= t + 1
    BY <1>1 DEF NotAhead, Searches
  <2> QED
    BY <1>1, <1>2, <2>1, <2>2, <2>3 DEF NotAhead
<1>5. \A e \in Entries : E[e].csn <= t => E[e] = D[e]
  BY <1>1
<1>6. CoversIn(E, k)
  <2> SUFFICES ASSUME NEW e \in Entries, E[e].csn <= k.cookie
               PROVE  k.content[e] = Shown(E, e)
    BY DEF CoversIn
  <2>1. E[e].csn <= t
    <3>1. E[e].csn \in Nat
      BY DEF Stores
    <3> QED
      BY <1>1, <1>2, <3>1
  <2> QED
    BY <1>1, <1>5, <2>1 DEF CoversIn, Shown, Within
<1>7. Promise(E, s, q, k)
  <2> SUFFICES ASSUME NEW e \in Entries, E[e].csn <= Goal(s, q)
               PROVE  IF Within(E, e) THEN Named(E, s, q, k, e) /\ Sent(E, s, q, k, e)
                      ELSE NotNamed(q, k, e)
    BY DEF Promise
  <2>1. E[e].csn <= t
    <3>1. E[e].csn \in Nat
      BY DEF Stores
    <3> QED
      BY <1>1, <1>2, <3>1 DEF Given, NoCsn
  <2>2. E[e] = D[e]
    BY <1>5, <2>1
  <2> QED
    BY <1>1, <2>2 DEF Promise, Within, Named, Sent
<1> QED
  BY <1>1, <1>4, <1>6, <1>7 DEF Sound

LEMMA CommitPolled == ASSUME Polled, NEW w \in Writers, Commit(w) PROVE Polled'
<1>1. /\ clock \in Nat /\ db \in Stores /\ wr \in [Writers -> Updates] /\ wr[w].place \in Places
      /\ clock' = clock + 1
      /\ db' = [db EXCEPT ![wr[w].entry] = [csn |-> clock', place |-> wr[w].place]]
      /\ wr' = [wr EXCEPT ![w].pc = "committed", ![w].csn = clock']
  BY DEF Polled, ProviderTyped, Commit, Updates
<1>2. db' \in Stores /\ \A e \in Entries : db'[e] = db[e] \/ db'[e].csn = clock + 1
  <2> DEFINE x == wr[w].entry
             v == [csn |-> clock + 1, place |-> wr[w].place]
  <2>1. db \in [Entries -> [csn : Nat, place : Places]] /\ db' = [db EXCEPT ![x] = v]
    BY <1>1 DEF Stores
  <2>2. v \in [csn : Nat, place : Places] /\ v.csn = clock + 1
    BY <1>1
  <2> HIDE DEF x, v
  <2>3. /\ db' \in [Entries -> [csn : Nat, place : Places]]
        /\ \A e \in Entries : db'[e] = IF e = x THEN v ELSE db[e]
    BY <2>1, <2>2, Updated
  <2> QED
    BY <2>2, <2>3 DEF Stores
<1>3. wr' \in [Writers -> Updates] /\ \A v \in Writers : wr'[v].csn = wr[v].csn \/ wr'[v].csn = clock'
  <2> DEFINE u == [wr[w] EXCEPT !.pc = "committed", !.csn = clock']
  <2>1. u \in Updates /\ u.csn = clock'
    <3>1. wr[w] \in Updates /\ clock' \in Nat
      BY <1>1
    <3> QED
      BY <3>1 DEF Updates
  <2>2. wr' = [wr EXCEPT ![w] = u]
    BY <1>1
  <2>3. wr \in [Writers -> Updates]
    BY <1>1
  <2> HIDE DEF u
  <2>4. /\ wr' \in [Writers -> Updates]
        /\ \A v \in Writers : wr'[v] = IF v = w THEN u ELSE wr[v]
    BY <2>1, <2>2, <2>3, Updated
  <2> QED
    BY <2>1, <2>4
<1>4. ProviderTyped'
  <2>1. UNCHANGED <<ctxcsn, stored, marked>>
    BY DEF Commit
  <2>2. \A v \in Writers : wr[v].csn <= clock /\ wr[v].csn \in Nat
    BY DEF Polled, ProviderTyped, Updates
  <2>3. 0 .. clock \subseteq 0 .. clock'
    BY <1>1
  <2>4. /\ ctxcsn \in 0 .. clock /\ stored \in 0 .. clock /\ marked \subseteq 0 .. clock
    BY DEF Polled, ProviderTyped
  <2>5. \A v \in Writers : wr'[v].csn <= clock'
    BY <1>1, <1>3, <2>2
  <2>6. clock' \in Nat
    BY <1>1
  <2>7. \A e \in Entries : db'[e].csn <= clock'
    <3>1. \A e \in Entries : db[e].csn \in Nat /\ db[e].csn <= clock
      BY <1>1 DEF Polled, ProviderTyped, Stores
    <3> QED
      BY <1>1, <1>2, <3>1
  <2> QED
    BY <1>2, <1>3, <2>1, <2>3, <2>4, <2>5, <2>6, <2>7 DEF ProviderTyped
<1>5. UNCHANGED <<srch, chan, con>>
  BY DEF Commit, channels
<1>6. \A c \in Consumers : Sound(db', clock', srch[c], chan[c], con[c])
  BY <1>1, <1>2, CommitSound DEF Polled
<1> QED
  BY <1>4, <1>5, <1>6 DEF Polled

\* What a step of one consumer starts from.
LEMMA Before ==
  ASSUME Polled, NEW c \in Consumers
  PROVE  /\ Sound(db, clock, srch[c], chan[c], con[c])
         /\ db \in Stores /\ clock \in Nat /\ ctxcsn \in 0 .. clock
         /\ srch \in [Consumers -> Searches] /\ srch[c] \in Searches
         /\ chan \in [Consumers -> Seq(Mail)] /\ chan[c] \in Seq(Mail)
         /\ con \in [Consumers -> Clients] /\ con[c] \in Clients
         /\ srch[c].pc \in {"start", "find", "list"} => chan[c] = <<>>
         /\ srch = [srch EXCEPT ![c] = srch[c]] /\ chan = [chan EXCEPT ![c] = chan[c]]
         /\ con = [con EXCEPT ![c] = con[c]]
  BY DEF Polled, ProviderTyped, Sound, InOrder

LEMMA ConnectPolled ==
  ASSUME Polling, Polled, NEW c \in Consumers, Connect(c)
  PROVE  Polled'
<1> DEFINE s == [Off EXCEPT !.pc = "start", !.cookie = con[c].cookie]
           k == Reset(con[c])
<1>1. srch' = [srch EXCEPT ![c] = s]
  BY DEF Polling, Connect
<1>2. con' = [con EXCEPT ![c] = k] /\ chan' = chan /\ chan[c] = <<>> /\ UNCHANGED provider
  BY DEF Connect, channels
<1>3. Sound(db, clock, s, <<>>, k)
  <2>1. Sound(db, clock, srch[c], <<>>, con[c])
    BY <1>2, Before
  <2> QED
    BY <2>1, ConnectSound
<1>4. chan' = [chan EXCEPT ![c] = <<>>]
  BY <1>2, Before
<1> HIDE DEF s, k
<1> QED
  BY <1>1, <1>2, <1>3, <1>4, OneConsumer

\* Searches are served without the steps of the session log and the persist phase.
LEMMA NoPersist ==
  ASSUME Polling, Polled, NEW c \in Consumers
  PROVE  /\ ~Register(c) /\ ~PlayLog(c) /\ ~PickNext(c) /\ ~Picked(c)
         /\ ~SendLog(c) /\ ~SendQueued(c)
<1>1. srch[c].pc \in {"off", "start", "find", "list", "search"}
  BY Before DEF Searches, Searching
<1> QED
  BY <1>1 DEF Register, PlayLog, PickNext, Picked, SendLog, SendQueued, Queued

LEMMA MessageTyped ==
  ASSUME NEW tag \in Tags, NEW entries \in SUBSET Entries, NEW csn \in Given,
         NEW cookie \in Given
  PROVE  /\ Message(tag, entries, csn, cookie) \in Mail
         /\ Message(tag, entries, csn, cookie).tag = tag
         /\ Message(tag, entries, csn, cookie).entries = entries
         /\ Message(tag, entries, csn, cookie).csn = csn
         /\ Message(tag, entries, csn, cookie).cookie = cookie
  BY DEF Message, Mail

LEMMA AppendToNone ==
  ASSUME NEW m, NEW q, q = <<>>
  PROVE  q \o <<m>> = <<m>>
  OBVIOUS

\* A search that ends before it starts.
LEMMA ClosedPolled ==
  ASSUME Polled, NEW c \in Consumers, NEW m \in Mail, srch[c].pc = "start",
         m.tag \in {"DONE_DELETES", "REFUSED"}, m.cookie = NoCsn,
         Send(c, <<m>>), srch' = [srch EXCEPT ![c] = Off], UNCHANGED <<provider, con>>
  PROVE  Polled'
<1>1. chan[c] = <<>>
  BY Before
<1>2. chan' = [chan EXCEPT ![c] = <<m>>]
  BY <1>1, AppendToNone DEF Send
<1>3. Sound(db, clock, Off, <<m>>, con[c])
  BY <1>1, Before, ClosedSound
<1>4. con' = [con EXCEPT ![c] = con[c]] /\ UNCHANGED provider
  BY Before
<1> QED
  BY <1>2, <1>3, <1>4, OneConsumer

LEMMA ServePolled ==
  ASSUME Polling, Polled, NEW c \in Consumers, Serve(c)
  PROVE  Polled'
<1> DEFINE s == srch[c]
<1>0. /\ Sound(db, clock, s, chan[c], con[c]) /\ clock \in Nat /\ ctxcsn \in 0 .. clock
      /\ db \in Stores /\ s \in Searches /\ con[c] \in Clients /\ c \notin Persist
      /\ s.pc \in {"start", "find", "list"} => chan[c] = <<>>
      /\ chan = [chan EXCEPT ![c] = chan[c]] /\ con = [con EXCEPT ![c] = con[c]]
  BY Before DEF Polling
<1>1. CASE StartRefused(c)
  <2> DEFINE m == Message("REFUSED", {}, NoCsn, NoCsn)
  <2>1. m \in Mail /\ m.tag = "REFUSED" /\ m.cookie = NoCsn
    BY DEF Message, Mail, Tags, Given
  <2>2. /\ s.pc = "start" /\ Send(c, <<m>>) /\ srch' = [srch EXCEPT ![c] = Off]
        /\ UNCHANGED <<provider, con>>
    BY <1>1 DEF StartRefused
  <2> HIDE DEF m
  <2> QED
    BY <2>1, <2>2, ClosedPolled
<1>2. CASE StartNoChange(c)
  <2> DEFINE m == Message("DONE_DELETES", {}, NoCsn, NoCsn)
  <2>1. m \in Mail /\ m.tag = "DONE_DELETES" /\ m.cookie = NoCsn
    BY DEF Message, Mail, Tags, Given
  <2>2. Ended(c) = Off
    BY <1>0, EndedIs
  <2>3. End(c, FALSE, NoCsn) = <<m>>
    BY <1>0 DEF End, EndTag
  <2>4. /\ s.pc = "start" /\ Send(c, <<m>>) /\ srch' = [srch EXCEPT ![c] = Off]
        /\ UNCHANGED <<provider, con>>
    BY <1>2, <2>2, <2>3 DEF StartNoChange
  <2> HIDE DEF m
  <2> QED
    BY <2>1, <2>4, ClosedPolled
<1>3. CASE Start(c)
  <2> DEFINE f == [s EXCEPT !.pc = "find", !.ctx = ctxcsn, !.changed = s.cookie < ctxcsn,
                            !.present = s.cookie # NoCsn]
  <2>1. s.pc = "start" /\ chan[c] = <<>>
    BY <1>0, <1>3 DEF Start
  <2>2. s.cookie # NoCsn /\ ~(LogSize > 0)
    <3>1. s.cookie = con[c].cookie
      BY <1>0, <2>1 DEF Sound, KnownState
    <3>2. con[c].cookie \in Nat
      BY <1>0 DEF Clients
    <3> QED
      BY <3>1, <3>2 DEF NoCsn, Polling
  <2>3. srch' = [srch EXCEPT ![c] = f]
    BY <1>3, <2>2 DEF Start, Snapshot
  <2>4. Sound(db, clock, f, <<>>, con[c])
    BY <1>0, <2>1, StartSound
  <2>5. chan' = chan /\ con' = con /\ UNCHANGED provider
    BY <1>3 DEF Start, channels
  <2>6. chan' = [chan EXCEPT ![c] = <<>>] /\ con' = [con EXCEPT ![c] = con[c]]
    BY <1>0, <2>1, <2>5
  <2> HIDE DEF f
  <2> QED
    BY <2>3, <2>4, <2>5, <2>6, OneConsumer
<1>4. CASE FindCsn(c)
  <2>1. s.pc = "find" /\ chan[c] = <<>>
    BY <1>0, <1>4 DEF FindCsn
  <2>2. chan' = chan /\ con' = con /\ UNCHANGED provider
    BY <1>4 DEF FindCsn, channels
  <2>3. chan' = [chan EXCEPT ![c] = <<>>] /\ con' = [con EXCEPT ![c] = con[c]]
    BY <1>0, <2>1, <2>2
  <2>4. PICK f \in {[s EXCEPT !.pc = "list"], [s EXCEPT !.pc = "search", !.cookie = NoCsn]} :
          srch' = [srch EXCEPT ![c] = f]
    BY <1>4 DEF FindCsn
  <2>5. Sound(db, clock, f, <<>>, con[c])
    <3>1. Sound(db, clock, s, <<>>, con[c])
      BY <1>0, <2>1
    <3> HIDE DEF s
    <3>2. /\ Sound(db, clock, [s EXCEPT !.pc = "list"], <<>>, con[c])
          /\ Sound(db, clock, [s EXCEPT !.pc = "search", !.cookie = NoCsn], <<>>, con[c])
      BY <2>1, <3>1, FindCsnSound
    <3> QED
      BY <2>4, <3>2
  <2> QED
    BY <2>2, <2>3, <2>4, <2>5, OneConsumer
<1>5. CASE FindPresent(c)
  <2> DEFINE here == {e \in Entries : Matches(e)}
             m == Message("PRESENT", here, NoCsn, NoCsn)
             f == [s EXCEPT !.pc = "search"]
  <2>1. s.pc = "list" /\ chan[c] = <<>> /\ Send(c, <<m>>) /\ srch' = [srch EXCEPT ![c] = f]
    BY <1>0, <1>5 DEF FindPresent
  <2>2. here = {e \in Entries : Within(db, e)}
    BY DEF Matches, Within
  <2>3. m \in Mail /\ m.tag = "PRESENT" /\ m.cookie = NoCsn /\ m.entries = here
    BY DEF Message, Mail, Tags, Given
  <2>4. con' = [con EXCEPT ![c] = con[c]] /\ UNCHANGED provider
    BY <1>0, <1>5 DEF FindPresent
  <2> HIDE DEF here, m
  <2>5. chan' = [chan EXCEPT ![c] = <<m>>]
    BY <2>1, AppendToNone DEF Send
  <2>6. Sound(db, clock, f, <<m>>, con[c])
    BY <1>0, <2>1, <2>2, <2>3, FindPresentSound
  <2> HIDE DEF f
  <2> QED
    BY <2>1, <2>4, <2>5, <2>6, OneConsumer
<1>6. CASE Search(c)
  <2> DEFINE found == SetToSeq(Found(c))
             F == [i \in DOMAIN found |-> Message("ADD", {found[i]}, db[found[i]].csn, NoCsn)]
             z == Message("DONE_PRESENT", {}, NoCsn, EndCookie(c))
  <2>1. s.pc = "search" /\ s.present
    BY <1>0, <1>6 DEF Search, Sound, KnownState, Searching
  <2>2. Ended(c) = Off
    BY <1>0, EndedIs
  <2>3. End(c, s.present, EndCookie(c)) = <<z>>
    BY <1>0, <2>1 DEF End, EndTag
  <2>4. chan' = [chan EXCEPT ![c] = Joined(@, F, z)] /\ srch' = [srch EXCEPT ![c] = Off]
    BY <1>6, <2>2, <2>3 DEF Search, Send, Joined
  <2>5. con' = [con EXCEPT ![c] = con[c]] /\ UNCHANGED provider
    BY <1>0, <1>6 DEF Search
  <2>6. EndCookie(c) = IF s.changed THEN s.ctx ELSE NoCsn
    BY DEF EndCookie
  <2>7. EndCookie(c) \in Given
    BY <1>0, <2>6 DEF Searches, Given
  <2>8. z \in Mail /\ z.tag = "DONE_PRESENT" /\ z.cookie = EndCookie(c)
    BY <2>7 DEF Message, Mail, Tags, Given
  <2>9. /\ found \in Seq(Found(c)) /\ Found(c) \subseteq Entries
        /\ \A e \in Found(c) : \E i \in 1 .. Len(found) : found[i] = e
    <3>1. Found(c) \subseteq Entries /\ IsFiniteSet(Found(c))
      BY EntriesAssumption, FS_Subset DEF Found
    <3> QED
      BY <3>1, SetToSeqIs
  <2> HIDE DEF found, z
  <2>10. DOMAIN found = 1 .. Len(found) /\ Len(found) \in Nat
    BY <2>9
  <2>11. ASSUME NEW i \in 1 .. Len(found)
         PROVE  /\ found[i] \in Entries /\ Within(db, found[i]) /\ F[i] \in Mail
                /\ F[i].tag = "ADD" /\ F[i].cookie = NoCsn
                /\ F[i].entries = {found[i]} /\ F[i].csn = db[found[i]].csn
    <3>1. found[i] \in Found(c)
      BY <2>9
    <3>2. found[i] \in Entries /\ Within(db, found[i])
      BY <3>1 DEF Found, Matches, Within
    <3>3. F[i] = Message("ADD", {found[i]}, db[found[i]].csn, NoCsn)
      BY <2>10
    <3>4. db[found[i]].csn \in Given /\ NoCsn \in Given /\ "ADD" \in Tags
          /\ {found[i]} \in SUBSET Entries
      BY <1>0, <3>2 DEF Stores, Given, Tags
    <3> QED
      BY <3>2, <3>3, <3>4, MessageTyped
  <2>12. F \in Seq(Mail) /\ Len(F) = Len(found)
    <3>1. F \in [1 .. Len(found) -> Mail]
      BY <2>10, <2>11
    <3> HIDE DEF F
    <3> QED
      BY <2>10, <3>1
  <2> HIDE DEF F
  <2>13. \A i \in 1 .. Len(F) :
           /\ F[i].tag = "ADD" /\ F[i].cookie = NoCsn
           /\ \E e \in Entries : Within(db, e) /\ F[i].entries = {e} /\ F[i].csn = db[e].csn
    BY <2>11, <2>12
  <2>14. ASSUME NEW e \in Entries, Within(db, e), s.cookie < db[e].csn, db[e].csn <= s.ctx
         PROVE  \E i \in 1 .. Len(F) : e \in F[i].entries /\ F[i].csn = db[e].csn
    <3>1. e \in Found(c)
      BY <1>0, <2>14 DEF Found, Matches, Within, Stores, Searches, Given, NoCsn
    <3>2. PICK i \in 1 .. Len(found) : found[i] = e
      BY <2>9, <3>1
    <3> QED
      BY <2>11, <2>12, <3>2
  <2>15. Sound(db, clock, Off, Joined(chan[c], F, z), con[c])
    BY <1>0, <2>1, <2>6, <2>8, <2>12, <2>13, <2>14, SearchSound
  <2>16. chan' = [chan EXCEPT ![c] = Joined(chan[c], F, z)]
    BY <2>4
  <2> QED
    BY <2>4, <2>5, <2>15, <2>16, OneConsumer
<1> QED
  BY <1>1, <1>2, <1>3, <1>4, <1>5, <1>6, NoPersist DEF Serve
\* The next message, whatever it is.
LEMMA NextMessage ==
  ASSUME NEW D, NEW t, NEW s, NEW q, NEW k, Sound(D, t, s, q, k), q # <<>>
  PROVE  /\ Sound(D, t, s, Tail(q), Receive(k, Head(q)))
         /\ \A e \in Entries : k.content[e] # NoCsn /\ Receive(k, Head(q)).content[e] = NoCsn
              => k.content[e] # Shown(D, e)
         /\ k.cookie <= Receive(k, Head(q)).cookie
<1>1. Head(q) = q[1] /\ k.cookie \in Nat
  BY TailIs DEF Sound, Clients
<1>2. CASE q[1].tag \in Naming
  BY <1>1, <1>2, NamingSound
<1>3. CASE q[1].tag \notin Naming
  BY <1>1, <1>3, ClosingSound
<1> QED
  BY <1>2, <1>3

LEMMA HandlePolled == ASSUME Polled, NEW c \in Consumers, Handle(c) PROVE Polled'
<1> DEFINE q == Tail(chan[c])
           k == Receive(con[c], Head(chan[c]))
<1>1. /\ chan[c] # <<>> /\ chan' = [chan EXCEPT ![c] = q] /\ con' = [con EXCEPT ![c] = k]
      /\ UNCHANGED provider
  BY DEF Handle
<1>2. Sound(db, clock, srch[c], chan[c], con[c])
  BY Before
<1>3. Sound(db, clock, srch[c], q, k)
  BY <1>1, <1>2, NextMessage
<1>4. srch' = [srch EXCEPT ![c] = srch[c]]
  BY Before DEF Handle
<1> HIDE DEF q, k
<1> QED
  BY <1>1, <1>3, <1>4, OneConsumer

LEMMA DisconnectIs ==
  ASSUME Polled, NEW c \in Consumers, Disconnect({c})
  PROVE  srch' = [srch EXCEPT ![c] = Off] /\ chan' = [chan EXCEPT ![c] = <<>>]
<1>1. srch \in [Consumers -> Searches] /\ chan \in [Consumers -> Seq(Mail)]
  BY DEF Polled
<1> QED
  BY <1>1 DEF Disconnect

LEMMA DropPolled == ASSUME Polled, NEW c \in Consumers, Drop(c) PROVE Polled'
<1>1. srch' = [srch EXCEPT ![c] = Off] /\ chan' = [chan EXCEPT ![c] = <<>>]
  BY DisconnectIs DEF Drop
<1>2. con' = [con EXCEPT ![c] = con[c]] /\ UNCHANGED provider
  BY Before DEF Drop
<1>3. Sound(db, clock, Off, <<>>, con[c])
  BY Before, LostSound
<1> QED
  BY <1>1, <1>2, <1>3, OneConsumer

\* What is applied but not in the cookie yet does no harm.
LEMMA StopPolled == ASSUME Polled, NEW c \in Consumers, StopConsumer(c) PROVE Polled'
<1> DEFINE r == Receive(con[c], Head(chan[c]))
           k == [r EXCEPT !.cookie = con[c].cookie]
<1>1. srch' = [srch EXCEPT ![c] = Off] /\ chan' = [chan EXCEPT ![c] = <<>>]
  BY DisconnectIs DEF StopConsumer
<1>2. chan[c] # <<>> /\ con' = [con EXCEPT ![c] = k] /\ UNCHANGED provider
  BY DEF StopConsumer
<1>3. Sound(db, clock, srch[c], chan[c], con[c])
  BY Before
<1>4. Sound(db, clock, srch[c], Tail(chan[c]), r) /\ con[c].cookie <= r.cookie
  BY <1>2, <1>3, NextMessage
<1>5. con[c] \in Clients /\ r \in Clients /\ db \in Stores /\ clock \in Nat
  BY <1>3, <1>4 DEF Sound
<1> HIDE DEF r
<1>6. k \in Clients /\ k.content = r.content /\ k.cookie = con[c].cookie
  BY <1>5 DEF Clients
<1> HIDE DEF k
<1>7. k.cookie \in Nat /\ r.cookie \in Nat /\ k.cookie <= r.cookie /\ r.cookie <= clock
  BY <1>4, <1>5, <1>6 DEF Sound, NotAhead, Clients
<1>8. \A e \in Entries : db[e].csn <= clock /\ k.content[e] <= db[e].csn
  BY <1>4, <1>6 DEF Sound, NotAhead
<1>9. CoversIn(db, k)
  <2> SUFFICES ASSUME NEW e \in Entries, db[e].csn <= k.cookie
               PROVE  k.content[e] = Shown(db, e)
    BY DEF CoversIn
  <2>1. db[e].csn <= r.cookie
    BY <1>5, <1>7 DEF Stores
  <2> QED
    BY <1>4, <1>6, <2>1 DEF Sound, CoversIn
<1>10. Sound(db, clock, Off, <<>>, k)
  <2>1. k.cookie <= clock
    BY <1>5, <1>7
  <2> QED
    BY <1>5, <1>6, <1>8, <1>9, <2>1, OffSound
<1> QED
  BY <1>1, <1>2, <1>10, OneConsumer

LEMMA RestartPolled == ASSUME Polled, Restart PROVE Polled'
<1>1. /\ db \in Stores /\ clock \in Nat /\ stored \in 0 .. clock
      /\ \A e \in Entries : db[e].csn \in Nat /\ db[e].csn <= clock
  BY DEF Polled, ProviderTyped, Stores
<1>2. ctxcsn' \in 0 .. clock
  <2>1. PICK clean \in DbClean : ctxcsn' = Reopened(clean)
    BY DEF Restart
  <2> DEFINE S == {stored} \cup {db[e].csn : e \in {f \in Entries : Exists(f)}}
  <2>2. ctxcsn' = stored \/ ctxcsn' = Max(S)
    BY <2>1 DEF Reopened
  <2>3. S \in SUBSET Nat /\ S # {} /\ \A x \in S : x <= clock
    BY <1>1
  <2> HIDE DEF S
  <2>4. Max(S) \in S
    BY <1>1, <2>3, MaxIn
  <2>5. Max(S) \in Nat /\ Max(S) <= clock
    BY <2>3, <2>4
  <2> QED
    BY <1>1, <2>2, <2>5
<1>3. wr' \in [Writers -> Updates] /\ \A w \in Writers : wr'[w].csn = 0
  BY FreeTyped DEF Restart
<1>4. /\ UNCHANGED <<db, clock, stored, con>> /\ marked' = {}
      /\ srch' = [c \in Consumers |-> Off] /\ chan' = [c \in Consumers |-> <<>>]
  BY DEF Restart, Disconnect
<1>5. ProviderTyped'
  BY <1>1, <1>2, <1>3, <1>4 DEF ProviderTyped
<1>6. Off \in Searches /\ <<>> \in Seq(Mail)
  BY OffIs
<1>7. /\ srch' \in [Consumers -> Searches] /\ chan' \in [Consumers -> Seq(Mail)]
      /\ con' \in [Consumers -> Clients]
  BY <1>4, <1>6 DEF Polled
<1>8. ASSUME NEW c \in Consumers PROVE Sound(db', clock', srch'[c], chan'[c], con'[c])
  <2>1. Sound(db, clock, Off, <<>>, con[c])
    BY Before, LostSound
  <2>2. db' = db /\ clock' = clock /\ srch'[c] = Off /\ chan'[c] = <<>> /\ con'[c] = con[c]
    BY <1>4
  <2> QED
    BY <2>1, <2>2
<1> QED
  BY <1>5, <1>7, <1>8 DEF Polled

------------------------------------------------------------------------------
(***************************************************************************)
(* The theorems                                                            *)
(***************************************************************************)
LEMMA PolledStep == ASSUME Polling, Polled, [Next]_vars PROVE Polled'
<1>1. CASE \E w \in Writers : Begin(w) \/ Progress(w)
  BY <1>1, BeginPolled, ProgressPolled, CommitPolled DEF Progress
<1>2. ASSUME NEW c \in Consumers,
             Connect(c) \/ Serve(c) \/ SendQueued(c) \/ Handle(c) \/ Drop(c) \/ StopConsumer(c)
      PROVE  Polled'
  BY <1>2, ConnectPolled, ServePolled, NoPersist, HandlePolled, DropPolled, StopPolled
<1>3. CASE Restart
  BY <1>3, RestartPolled
<1>4. CASE UNCHANGED vars
  <2>1. UNCHANGED <<db, clock, ctxcsn, stored, marked, wr, srch, chan, con>>
    BY <1>4 DEF vars, provider, channels
  <2> QED
    BY <2>1 DEF Polled, ProviderTyped
<1> QED
  BY <1>1, <1>2, <1>3, <1>4 DEF Next

LEMMA PolledHolds == ASSUME Polling PROVE Spec => []Polled
<1>1. Init => Polled
  BY PolledInit
<1>2. Polled /\ [Next]_vars => Polled'
  BY PolledStep
<1> QED
  BY <1>1, <1>2, PTL DEF Spec

\* A polling consumer's cookie covers what it holds: whatever is changed while
\* its search runs, and wherever a connection, a consumer or the provider fails,
\* no change is lost to it for good (syncprov.c:3270, syncrepl.c:1490).
THEOREM PolledCookieCovers == ASSUME Polling PROVE Spec => []CookieCovers
<1>1. Polled => CookieCovers
  BY DEF Polled, Sound, CoversIn, CookieCovers, Shown, Within, Visible, Matches
<1> QED
  BY <1>1, PolledHolds, PTL

LEMMA StepRemoves ==
  ASSUME Polling, Polled, [Next]_vars, NEW c \in Consumers, NEW e \in Entries,
         con[c].content[e] # NoCsn, con'[c].content[e] = NoCsn
  PROVE  con[c].content[e] # Visible(e)
<1>1. con \in [Consumers -> Clients] /\ Visible(e) = Shown(db, e)
  BY DEF Polled, Visible, Matches, Shown, Within
<1>2. con'[c].content # con[c].content
  OBVIOUS
<1>3. PICK d \in Consumers : Connect(d) \/ Handle(d) \/ StopConsumer(d)
  <2>1. con' # con
    BY <1>2
  <2>2. ASSUME NEW w \in Writers, Begin(w) \/ Progress(w) PROVE con' = con
    BY <2>2 DEF Begin, Progress, MatchBefore, Commit, Refused, Respond, Deliver, Finish
  <2>3. ASSUME NEW d \in Consumers, Serve(d) \/ SendQueued(d) \/ Drop(d) PROVE con' = con
    BY <2>3 DEF Serve, Register, StartRefused, StartNoChange, Start, PlayLog, PickNext,
                Picked, SendLog, FindCsn, FindPresent, Search, SendQueued, Drop
  <2>4. Restart => con' = con
    BY DEF Restart
  <2>5. UNCHANGED vars => con' = con
    BY DEF vars
  <2> QED
    BY <2>1, <2>2, <2>3, <2>4, <2>5 DEF Next
<1>4. CASE Connect(d)
  <2>1. con' = [con EXCEPT ![d] = Reset(con[d])]
    BY <1>4 DEF Connect
  <2>2. Reset(con[d]).content = con[d].content
    BY DEF Reset, Consumer
  <2> QED
    BY <1>1, <1>2, <2>1, <2>2
<1> DEFINE r == Receive(con[d], Head(chan[d]))
<1>5. CASE Handle(d) \/ StopConsumer(d)
  <2>1. chan[d] # <<>> /\ Sound(db, clock, srch[d], chan[d], con[d])
    BY <1>5, Before DEF Handle, StopConsumer
  <2>2. con[d].content[e] # NoCsn /\ r.content[e] = NoCsn => con[d].content[e] # Shown(db, e)
    BY <2>1, NextMessage
  <2>3. Sound(db, clock, srch[d], Tail(chan[d]), r)
    BY <2>1, NextMessage
  <2>4. r \in Clients
    BY <2>3 DEF Sound
  <2>5. \/ con' = [con EXCEPT ![d] = r]
        \/ con' = [con EXCEPT ![d] = [r EXCEPT !.cookie = con[d].cookie]]
    BY <1>5 DEF Handle, StopConsumer
  <2> HIDE DEF r
  <2>6. con'[c].content = IF c = d THEN r.content ELSE con[c].content
    BY <1>1, <2>4, <2>5 DEF Clients
  <2> QED
    BY <1>1, <1>2, <2>2, <2>6
<1> QED
  BY <1>3, <1>4, <1>5

\* A polling consumer removes an entry only when the version it holds is no longer
\* the provider's: no present list of a search that changes overtook makes it drop
\* what it should keep (syncrepl.c:5862).
THEOREM PolledOnlyStaleRemoved == ASSUME Polling PROVE Spec => OnlyStaleRemoved
<1>1. Polled /\ [Next]_vars
        => [\A c \in Consumers, e \in Entries :
              con[c].content[e] # NoCsn /\ con'[c].content[e] = NoCsn
                => con[c].content[e] # Visible(e)]_vars
  BY StepRemoves
<1> QED
  BY <1>1, PolledHolds, PTL DEF Spec, OnlyStaleRemoved
==============================================================================
